--------------------------- MODULE ReconcileProofs ---------------------------
(***************************************************************************)
(* The outputs of one programme, their ports and hubs, for any             *)
(* destinations, renditions and ports, and any number of edits, faults and *)
(* reconciles, whenever the shutdown lands.                                *)
(***************************************************************************)
EXTENDS Reconcile, Sequences, FiniteSetTheorems, TLAPS

PCs == {"idle", "list", "tiers", "count", "sort", "stopDests", "stopRends", "stopRend",
        "closeRend", "startRends", "publishRend", "runRend", "startDests", "buildDest",
        "publishDest", "runDest", "backup", "stopBackup", "dropBackup", "buildBackup",
        "publishBackup", "runBackup"}
Dropping == {"dropBackup", "buildBackup", "publishBackup"}
OneDest  == Dropping \cup
  {"buildDest", "publishDest", "runDest", "backup", "stopBackup", "runBackup"}

(* What the pass has in its locals, as far as it has come.                 *)
Wants  == {Absent, <<0>>, <<1>>}
Plans  == Specs \cup {Absent, Broken}
Blank  == [x \in {} |-> 0]
Locals == [by : {"none", "api", "probe"}, rows : [Dests -> Rows] \cup {Blank},
           sigs : [Rends -> {0, 1}] \cup {Blank}, want : [Rends -> Wants] \cup {Blank},
           plan : [Dests -> Plans] \cup {Blank}, stopR : SUBSET Rends, startR : SUBSET Rends,
           left : SUBSET Dests, hub : Hubs \cup {NoHub}, old : ConType]
Listed  == pc \notin {"idle", "list"}
Tiered  == Listed /\ pc # "tiers"
Planned == Tiered /\ pc # "count"
RunTypes ==
  /\ pc \in PCs /\ run \in Locals
  /\ Listed => run.rows \in [Dests -> Rows]
  /\ Tiered => run.sigs \in [Rends -> {0, 1}]
  /\ Planned => run.want \in [Rends -> Wants] /\ run.plan \in [Dests -> Plans]
Dues == asked <= edits + 1

-----------------------------------------------------------------------------
(* Where the pass and the shutdown are, and what each has in hand.         *)
Passing ==
  /\ \A d \in Dests : /\ place[d] = "leaving" => pc = "stopDests"
                      /\ place[d] \notin {"leaving", "stopping"} => ph[d] = "stop"
  /\ \A r \in Rends :
       tier[r] = "leaving" <=> pc \in {"stopRend", "closeRend"} /\ r = Min(run.stopR)
  /\ pc \in {"stopRend", "closeRend"} => run.stopR # {}
  /\ pc \in {"publishRend", "runRend"} => run.startR # {}
  /\ pc \in OneDest => run.left # {}

(* What is to be started is stopped first, and is published by nobody else.*)
Starting ==
  /\ pc \in {"sort", "stopDests", "stopRends", "stopRend", "closeRend"} =>
       \A r \in run.startR : tier[r] \in {"map", "error", "leaving"} => r \in run.stopR
  /\ pc \in {"startRends", "publishRend", "runRend"} =>
       \A r \in run.startR :
         tier[r] \in {"none", "stopping"} \/ (pc = "runRend" /\ r = Min(run.startR))
  /\ pc \in {"startRends", "publishRend", "runRend", "startDests"} \cup OneDest => run.stopR = {}
  /\ pc \in {"buildDest", "publishDest"} => place[Next1] \in {"none", "stopping"}
  /\ ~stopped /\ pc \in OneDest \ {"buildDest", "publishDest", "backup"} => place[Next1] = "map"
  /\ ~stopped /\ pc = "runRend" => tier[Min(run.startR)] = "map"

Halting ==
  /\ ~stopped => /\ \A d \in Dests : place[d] # "stopping"
                 /\ \A r \in Rends : tier[r] # "stopping"
  /\ stopped => /\ \A d \in Dests : place[d] \notin {"map", "error"}
                /\ \A r \in Rends : tier[r] \notin {"map", "error"}
  /\ stop \in {"rends", "release", "done"} => \A d \in Dests : place[d] # "stopping"
  /\ stop \in {"release", "done"} =>
       \A r \in Rends : tier[r] = "stopping" => con[Encode(r)].proc = "gone"
  /\ stop = "done" => \A r \in Rends : tier[r] # "stopping"

-----------------------------------------------------------------------------
(* A child that may be up, and who still has something to give back.       *)
Live(c) == con[c].proc \in {"new", "up"}
Entries == {"map", "leaving", "stopping"}
Claims(c) ==
  \/ \E d \in Dests : /\ c = Main(d) /\ place[d] \in Entries
                      /\ place[d] # "map" => ph[d] \in {"stop", "release"}
  \/ \E d \in Dests : c = Backup(d) /\ place[d] \in Entries /\ con[c].port # NoPort
  \/ \E r \in Rends : c = Encode(r) /\ tier[r] \in Entries

(* The consumer a build is for, and the backup that was let go of and is   *)
(* still in the struct.                                                    *)
Making == IF pc = "publishRend" THEN Encode(Min(run.startR))
          ELSE IF pc = "publishDest" THEN Main(Next1) ELSE Backup(Next1)
Dropped(c) == pc \in {"buildBackup", "publishBackup"} /\ c = Backup(Next1)

(* A process goes with the stage of its entry.                             *)
ConShape ==
  \A c \in Consumers : /\ con[c].proc = "none" <=> con[c].port = NoPort
                       /\ con[c].proc = "none" <=> con[c].hub = NoHub
LiveClaims == \A c \in Consumers : Live(c) => Claims(c)
NewIsStarting ==
  \A c \in Consumers :
    con[c].proc = "new" => \/ pc = "runRend" /\ c = Encode(Min(run.startR))
                           \/ pc = "runDest" /\ c = Main(Next1)
                           \/ pc = "runBackup" /\ c = Backup(Next1)
Stages ==
  /\ \A d \in Dests : /\ ph[d] # "stop" => ~Live(Main(d))
                      /\ ph[d] = "brelease" => ~Live(Backup(d))
                      /\ place[d] = "map" => Live(Main(d))
  /\ \A r \in Rends : /\ pc = "closeRend" /\ r = Min(run.stopR) => ~Live(Encode(r))
                      /\ tier[r] = "map" => Live(Encode(r))
Swapping ==
  /\ pc \in Dropping => ~Live(Backup(Next1))
  /\ pc \in {"stopBackup", "runBackup"} \cup Dropping => con[Main(Next1)].proc # "none"
  /\ pc \in {"stopBackup", "dropBackup"} => /\ run.old.port = con[Backup(Next1)].port
                                            /\ run.old.hub = con[Backup(Next1)].hub
                                            /\ run.old.proc = "none" <=> run.old.port = NoPort
FreshShape ==
  /\ fresh # None => /\ pc \in {"publishRend", "publishDest", "publishBackup"}
                     /\ fresh.proc = "new" /\ fresh.port \in Ports /\ fresh.hub # NoHub
  /\ pc \in {"publishRend", "publishDest"} => fresh # None
Processes == ConShape /\ LiveClaims /\ NewIsStarting /\ Stages /\ Swapping /\ FreshShape

-----------------------------------------------------------------------------
(* Whoever has a port or a subscription still claims it, or it is for what *)
(* is being built; every open hub is the ingest's or a rendition's.        *)
Holder(c) == Claims(c) /\ ~Dropped(c)
Holds(c, h, p) ==
  \/ Holder(c) /\ con[c].hub = h /\ con[c].port = p
  \/ fresh # None /\ c = Making /\ fresh.hub = h /\ fresh.port = p
Accounted ==
  /\ \A h \in Hubs, c \in Consumers, p \in Ports : <<h, c, p>> \in subs => Holds(c, h, p)
  /\ \A p \in mine : \E c \in Consumers, h \in Hubs : Holds(c, h, p)
OpenIsFed ==
  \A h \in open : \/ h = Source /\ stop # "done"
                  \/ \E r \in Rends : tier[r] \in Entries /\ feed[r] = h
                  \/ pc = "publishRend" /\ h = run.hub
FeedIsOwn ==
  /\ \A r \in Rends : tier[r] \in Entries => feed[r] \in {r} \X {0, 1}
  /\ pc = "publishRend" => run.hub \in {Min(run.startR)} \X {0, 1}
LiveReads ==
  \A c \in Consumers : Live(c) =>
    con[c].hub = Source \/ \E r \in Rends : con[c].hub = feed[r] /\ feed[r] \in {r} \X {0, 1}
HubsAccounted == OpenIsFed /\ FeedIsOwn /\ LiveReads

(* The allocator's books, and that nobody gives back what another uses.    *)
Pool == mine \cap other = {} /\ mine \cup other = pool

(* A killed child's port is in nobody else's hands.                        *)
Unbound ==
  /\ zombie \cap other = {}
  /\ \A c \in Consumers : Live(c) => con[c].port \notin zombie
  /\ fresh # None => fresh.port \notin zombie

LiveHasPort == \A c \in Consumers : Live(c) => con[c].port \in mine
LiveIsAlone ==
  \A c, e \in Consumers : c # e /\ Live(c) /\ Claims(e) => con[c].port # con[e].port
FreshIsAlone == fresh # None => \A c \in Consumers : Live(c) => con[c].port # fresh.port
OldIsAlone ==
  pc \in {"stopBackup", "dropBackup"} =>
    \A c \in Consumers : Live(c) /\ c # Backup(Next1) => con[c].port # run.old.port
Owned == LiveHasPort /\ LiveIsAlone /\ FreshIsAlone /\ OldIsAlone
Delivered ==
  ~stopped =>
    /\ \A c \in Consumers : Holder(c) =>
         con[c].port \in mine /\ <<con[c].hub, c, con[c].port>> \in subs
    /\ \A c, e \in Consumers : c # e /\ Holder(c) /\ Holder(e) => con[c].port # con[e].port
    /\ fresh # None =>
         /\ fresh.port \in mine /\ <<fresh.hub, Making, fresh.port>> \in subs
         /\ \A c \in Consumers : Holder(c) => con[c].port # fresh.port

-----------------------------------------------------------------------------
(* Until the shutdown an output reads what feeds it: the rendition of its  *)
(* row, with the settings it was started for.                              *)
Reads(d) ==
  LET spec == con[Main(d)].spec IN
    \/ spec[1] = Passthrough /\ con[Main(d)].hub = Source
    \/ /\ spec[1] \in Rends /\ tier[spec[1]] = "map" /\ con[Main(d)].hub = feed[spec[1]]
       /\ con[Encode(spec[1])].spec = <<spec[3]>>
       /\ pc \in {"stopRends", "stopRend", "closeRend"} => spec[1] \notin run.stopR
AllRead == ~stopped => \A d \in Dests : place[d] \in {"map", "leaving"} => Reads(d)
BackupsRead ==
  ~stopped =>
    /\ \A d \in Dests : place[d] \in {"map", "leaving"} /\ con[Backup(d)].port # NoPort =>
         con[Backup(d)].hub = con[Main(d)].hub
    /\ pc = "publishBackup" /\ fresh # None => fresh.hub = con[Main(Next1)].hub
EncodesRead ==
  ~stopped =>
    /\ \A r \in Rends : tier[r] \in {"map", "leaving"} =>
         feed[r] \in open /\ con[Encode(r)].hub = Source
    /\ pc = "publishRend" => run.hub \in open /\ fresh.hub = Source
Chained == AllRead /\ BackupsRead /\ EncodesRead
IngestOpen == stop # "done" => Source \in open

(* The plan of the pass, and what is left of it to do.                     *)
PlanIsOfRows ==
  Planned =>
    /\ \A d \in Dests : run.plan[d] \notin {Absent, Broken} =>
         /\ run.plan[d] = DestSpec(run.rows[d], run.want)
         /\ run.rows[d].rend # Passthrough => run.want[run.rows[d].rend] # Absent
    /\ \A d \in run.left : run.plan[d] # Absent
    /\ \A r \in run.startR : run.want[r] # Absent
StopsDiffer ==
  pc \in {"sort", "stopDests"} /\ ~stopped => \A r \in run.stopR : HaveSpec(r) # run.want[r]
TiersFollow ==
  Planned /\ ~stopped =>
    \A r \in Rends : tier[r] = "map" => r \in run.stopR \/ con[Encode(r)].spec = run.want[r]
MakesThePlan ==
  /\ pc = "publishRend" => fresh.spec = run.want[Min(run.startR)]
  /\ pc \in {"buildDest", "publishDest"} =>
       /\ run.plan[Next1] # Broken /\ run.hub # NoHub
       /\ ~stopped => run.hub = HubFor(run.rows[Next1].rend)
  /\ pc = "publishDest" => fresh.spec = run.plan[Next1] /\ fresh.hub = run.hub
Following == PlanIsOfRows /\ StopsDiffer /\ TiersFollow /\ MakesThePlan

-----------------------------------------------------------------------------
(* No edit and no layout waits for a reconcile: then the pass has read     *)
(* what the store says now.                                                *)
Calm == asked = 0 /\ ~probing
UpToDate ==
  /\ switched => asked > 0
  /\ Calm /\ Listed => run.rows = db
  /\ Calm /\ Tiered => run.sigs = sig
  /\ Calm /\ Planned => /\ \A r \in Rends : run.want[r] = Wanted(r)
                        /\ \A d \in Dests : run.plan[d] = PlanOf(d, run.want)

(* From the sort on, what stays follows the plan, and what was looked at   *)
(* is up or recorded as failed.                                            *)
Sorted == Planned /\ pc # "sort"
Follows(d) ==
  /\ place[d] = "map" => run.plan[d] \notin {Absent, Broken} /\ con[Main(d)].spec = run.plan[d]
  /\ place[d] = "error" => run.plan[d] # Absent
  /\ run.plan[d] # Absent /\ d \notin run.left => place[d] \in {"map", "error"}
MainsFollow ==
  /\ pc = "sort" /\ ~stopped => \A d \in Dests : run.plan[d] # Absent => d \in run.left
  /\ Sorted /\ ~stopped => \A d \in Dests : Follows(d)
  /\ pc = "backup" /\ ~stopped => place[Next1] \in {"map", "error"}
BackupsAreSome ==
  /\ \A d \in Dests : Live(Backup(d)) => con[Backup(d)].spec # NoSpec
  /\ pc = "publishBackup" /\ fresh # None => fresh.spec = <<run.rows[Next1].bk>>
BackupsFollow ==
  /\ Sorted /\ ~stopped =>
       \A d \in Dests : place[d] = "map" /\ d \notin run.left /\ Live(Backup(d)) =>
                          con[Backup(d)].spec = <<run.rows[d].bk>>
  /\ pc = "runBackup" /\ ~stopped /\ Live(Backup(Next1)) =>
       con[Backup(Next1)].spec = <<run.rows[Next1].bk>>
CarriedOut == MainsFollow /\ BackupsAreSome /\ BackupsFollow

(* Between two passes nothing is left to do.                               *)
AtRest ==
  pc = "idle" /\ Calm /\ ~stopped =>
    /\ \A d \in Dests : Settled(d)
    /\ \A r \in Rends : tier[r] = "map" => \E d \in Dests : db[d].on /\ db[d].rend = r

IInv == /\ TypeOK /\ RunTypes /\ Dues /\ Passing /\ Starting /\ Halting /\ Processes /\ Accounted
        /\ HubsAccounted /\ Pool /\ Unbound /\ Owned /\ Delivered /\ Chained /\ IngestOpen /\ Following
        /\ UpToDate /\ CarriedOut /\ AtRest

-----------------------------------------------------------------------------
(* The least of a set of ids, which the pass takes first, is one of them.  *)
LEMMA LeastExists ==
  ASSUME NEW S, S \subseteq Nat, S # {}
  PROVE  Min(S) \in S
<1>1. PICK z \in S : TRUE
  OBVIOUS
<1> DEFINE Upto(x) == {y \in S : y <= x}
           F == {Upto(x) : x \in Upto(z)}
<1>2. ASSUME NEW x \in S PROVE IsFiniteSet(Upto(x))
  <2>1. IsFiniteSet(0 .. x)
    BY FS_Interval
  <2>2. Upto(x) \in SUBSET (0 .. x)
    <3>1. \A y \in S : y \in Nat
      OBVIOUS
    <3>2. ASSUME NEW y \in Upto(x) PROVE y \in 0 .. x
      BY <3>1
    <3> QED
      BY <3>2
  <2> QED
    BY <2>1, <2>2, FS_Subset
<1>3. F \subseteq FiniteSubsetsOf(S) /\ F # {}
  <2>1. z \in Upto(z)
    OBVIOUS
  <2>2. ASSUME NEW T \in F PROVE T \in SUBSET S /\ IsFiniteSet(T)
    BY <1>2
  <2> QED
    BY <2>1, <2>2 DEF FiniteSubsetsOf
<1>4. PICK T \in F : \A U \in F : <<U, T>> \notin StrictSubsetOrdering(S)
  <2> HIDE DEF F
  <2>1. IsWellFoundedOn(StrictSubsetOrdering(S), FiniteSubsetsOf(S))
    BY FS_StrictSubsetOrderingWellFounded
  <2> QED
    BY <1>3, <2>1, WFMin
<1>5. PICK x \in Upto(z) : T = Upto(x)
  OBVIOUS
<1>6. ASSUME NEW y \in S PROVE x <= y
  <2> SUFFICES ASSUME ~(x <= y) PROVE FALSE
    OBVIOUS
  <2>1. x \in Nat /\ y \in Nat /\ z \in Nat /\ y < x /\ x <= z
    OBVIOUS
  <2>2. y \in Upto(z)
    BY <2>1
  <2>3. Upto(y) \in F
    BY <2>2
  <2>4. Upto(y) \subseteq T /\ x \in T /\ x \notin Upto(y) /\ T \subseteq S
    <3>1. \A u \in S : u \in Nat
      OBVIOUS
    <3>2. ASSUME NEW u \in Upto(y) PROVE u \in Upto(x)
      BY <2>1, <3>1
    <3>3. x \in Upto(x) /\ x \notin Upto(y) /\ Upto(x) \subseteq S
      BY <2>1, <3>1
    <3> HIDE DEF Upto
    <3> QED
      BY <1>5, <3>2, <3>3
  <2>5. <<Upto(y), T>> \in StrictSubsetOrdering(S)
    <3>1. Upto(y) \in SUBSET S /\ T \in SUBSET S /\ Upto(y) # T
      BY <2>4
    <3> HIDE DEF Upto, F
    <3> QED
      BY <3>1, <2>4 DEF StrictSubsetOrdering
  <2> QED
    BY <1>4, <2>3, <2>5
<1> QED
  BY <1>5, <1>6 DEF Min

(* The consumers' names tell them apart.                                   *)
LEMMA Names ==
  /\ \A d \in Dests : Main(d) \in Consumers /\ Backup(d) \in Consumers
  /\ \A r \in Rends : Encode(r) \in Consumers
  /\ \A d, e \in Dests : (Main(d) = Main(e) <=> d = e) /\ (Backup(d) = Backup(e) <=> d = e)
  /\ \A d, e \in Dests : Main(d) # Backup(e)
  /\ \A d \in Dests, r \in Rends : Main(d) # Encode(r) /\ Backup(d) # Encode(r)
  /\ \A r, s \in Rends : Encode(r) = Encode(s) <=> r = s
  /\ \A c \in Consumers : \/ \E d \in Dests : c = Main(d) \/ c = Backup(d)
                          \/ \E r \in Rends : c = Encode(r)
BY DEF Consumers, Main, Backup, Encode

(* So do the hubs' of the renditions.                                      *)
LEMMA HubNames ==
  /\ Source \in Hubs /\ NoHub \notin Hubs /\ Source # NoHub
  /\ \A r \in Rends : {r} \X {0, 1} \subseteq Hubs /\ Source \notin {r} \X {0, 1}
  /\ \A r \in Rends : \E g, h \in {r} \X {0, 1} : g # h
  /\ \A r, s \in Rends : r # s => {r} \X {0, 1} \cap {s} \X {0, 1} = {}
<1> USE IdsAssumption DEF Source, NoHub, Hubs
<1>1. Source \in Hubs /\ Source # NoHub
  OBVIOUS
<1>2. NoHub \notin Hubs
  OBVIOUS
<1>3. ASSUME NEW r \in Rends
      PROVE  {r} \X {0, 1} \subseteq Hubs /\ Source \notin {r} \X {0, 1}
  BY <1>3
<1>4. ASSUME NEW r \in Rends PROVE \E g, h \in {r} \X {0, 1} : g # h
  <2>1. <<r, 0>> \in {r} \X {0, 1} /\ <<r, 1>> \in {r} \X {0, 1} /\ <<r, 0>> # <<r, 1>>
    OBVIOUS
  <2> QED
    BY <2>1
<1>5. ASSUME NEW r \in Rends, NEW s \in Rends, r # s
      PROVE  {r} \X {0, 1} \cap {s} \X {0, 1} = {}
  BY <1>5
<1> QED
  BY <1>1, <1>2, <1>3, <1>4, <1>5

(* Who claims, by kind.                                                    *)
ClaimsByKind ==
  /\ \A d \in Dests : Claims(Main(d)) <=> /\ place[d] \in Entries
                                          /\ place[d] # "map" => ph[d] \in {"stop", "release"}
  /\ \A d \in Dests : Claims(Backup(d)) <=> place[d] \in Entries /\ con[Backup(d)].port # NoPort
  /\ \A r \in Rends : Claims(Encode(r)) <=> tier[r] \in Entries
LEMMA ClaimsAre == ClaimsByKind
BY Names DEF Claims, ClaimsByKind

(* The same of the next state.                                             *)
LEMMA ClaimsAreNext == ClaimsByKind'
BY ClaimsAre, PTL

(* The fields of a consumer, and of the pass's locals.                     *)
LEMMA ConFields ==
  ASSUME NEW x \in ConType
  PROVE  /\ x.proc \in {"none", "new", "up", "gone"} /\ x.port \in Ports \cup {NoPort}
         /\ x.hub \in Hubs \cup {NoHub} /\ x.spec \in Specs
BY DEF ConType

(* No consumer at all.                                                     *)
LEMMA NoneIsTyped ==
  /\ None \in ConType /\ None.proc = "none" /\ None.port = NoPort
  /\ None.hub = NoHub /\ None.spec = NoSpec
BY DEF None, ConType, Specs

(* The locals, one by one.                                                 *)
LEMMA RunFields ==
  ASSUME NEW q \in Locals
  PROVE  /\ q.rows \in [Dests -> Rows] \cup {Blank} /\ q.sigs \in [Rends -> {0, 1}] \cup {Blank}
         /\ q.want \in [Rends -> Wants] \cup {Blank} /\ q.plan \in [Dests -> Plans] \cup {Blank}
         /\ q.stopR \in SUBSET Rends /\ q.startR \in SUBSET Rends /\ q.left \in SUBSET Dests
         /\ q.hub \in Hubs \cup {NoHub} /\ q.old \in ConType
BY DEF Locals

-----------------------------------------------------------------------------
(* What the helpers do.  A child that was stopped is not live; the others, *)
(* and what each was given, are left alone.                                *)
SameBut(e) == con'[e].port = con[e].port /\ con'[e].hub = con[e].hub /\ con'[e].spec = con[e].spec

(* What a Stop does: its child is not live, and nothing else changes       *)
(* hands.                                                                  *)
LEMMA StopEffect ==
  ASSUME HeldTypes, RelayTypes, ConShape, NEW c \in Consumers, StopProcess(c)
  PROVE  /\ con' \in [Consumers -> ConType] /\ \A e \in Consumers : SameBut(e)
         /\ \A e \in Consumers : e # c => con'[e].proc = con[e].proc
         /\ con'[c].proc = IF con[c].proc = "none" THEN "none" ELSE "gone"
         /\ zombie' \subseteq Ports /\ faults' \in 0 .. MaxFaults
<1>1. con' = [con EXCEPT ![c].proc = IF @ = "none" THEN @ ELSE "gone"]
  BY DEF StopProcess
<1>2. con \in [Consumers -> ConType]
  BY DEF HeldTypes
<1>3. ASSUME NEW x \in ConType, NEW v \in {"none", "new", "up", "gone"}
      PROVE  /\ [x EXCEPT !.proc = v] \in ConType
             /\ [x EXCEPT !.proc = v].proc = v /\ [x EXCEPT !.proc = v].port = x.port
             /\ [x EXCEPT !.proc = v].hub = x.hub /\ [x EXCEPT !.proc = v].spec = x.spec
  BY DEF ConType
<1> DEFINE v == IF con[c].proc = "none" THEN "none" ELSE "gone"
<1>4. con'[c] = [con[c] EXCEPT !.proc = v] /\ con[c] \in ConType
  BY <1>1, <1>2
<1>5. con' = [con EXCEPT ![c] = [con[c] EXCEPT !.proc = v]]
  BY <1>1
<1>6. [con[c] EXCEPT !.proc = v] \in ConType
  BY <1>3, <1>4
<1>7. con' \in [Consumers -> ConType] /\ \A e \in Consumers : e # c => con'[e] = con[e]
  BY <1>2, <1>5, <1>6
<1>8. con'[c].proc = v /\ SameBut(c)
  BY <1>3, <1>4 DEF SameBut
<1>9. zombie' \subseteq Ports /\ faults' \in 0 .. MaxFaults
  BY <1>4, ConFields, BoundsAssumption DEF StopProcess, RelayTypes, UpOf, ConShape
<1> QED
  BY <1>7, <1>8, <1>9 DEF SameBut

(* A start raises what is new, and nothing else.                           *)
LEMMA StartEffect ==
  ASSUME HeldTypes, NEW c \in Consumers, StartProcess(c)
  PROVE  /\ con' \in [Consumers -> ConType] /\ \A e \in Consumers : SameBut(e)
         /\ \A e \in Consumers : e # c => con'[e].proc = con[e].proc
         /\ con'[c].proc = IF con[c].proc = "new" THEN "up" ELSE con[c].proc
<1>1. con' = [con EXCEPT ![c].proc = IF @ = "new" THEN "up" ELSE @]
  BY DEF StartProcess
<1>2. con \in [Consumers -> ConType]
  BY DEF HeldTypes
<1>3. ASSUME NEW x \in ConType, NEW v \in {"none", "new", "up", "gone"}
      PROVE  /\ [x EXCEPT !.proc = v] \in ConType
             /\ [x EXCEPT !.proc = v].proc = v /\ [x EXCEPT !.proc = v].port = x.port
             /\ [x EXCEPT !.proc = v].hub = x.hub /\ [x EXCEPT !.proc = v].spec = x.spec
  BY DEF ConType
<1> DEFINE v == IF con[c].proc = "new" THEN "up" ELSE con[c].proc
<1>4. con'[c] = [con[c] EXCEPT !.proc = v] /\ con[c] \in ConType
  BY <1>1, <1>2
<1>5. con' = [con EXCEPT ![c] = [con[c] EXCEPT !.proc = v]]
  BY <1>1
<1>6. v \in {"none", "new", "up", "gone"}
  BY <1>4, ConFields
<1>7. [con[c] EXCEPT !.proc = v] \in ConType
  BY <1>3, <1>4, <1>6
<1>8. con' \in [Consumers -> ConType] /\ \A e \in Consumers : e # c => con'[e] = con[e]
  BY <1>2, <1>5, <1>7
<1>9. con'[c].proc = v /\ SameBut(c)
  BY <1>3, <1>4, <1>6 DEF SameBut
<1> QED
  BY <1>8, <1>9 DEF SameBut

(* Letting go of a port and a subscription.                                *)
LetsGo(c, x) ==
  /\ mine' = mine \ {x.port} /\ pool' \subseteq pool
  /\ \A p \in pool : p \in pool' <=> p # x.port \/ p \notin mine
  /\ subs' \subseteq subs
  /\ \A h, e, p : <<h, e, p>> \in subs' <=> <<h, e, p>> \in subs /\ (h # x.hub \/ e # c)
LEMMA LetGoEffect ==
  ASSUME NEW c, NEW x, LetGo(c, x)
  PROVE  LetsGo(c, x)
<1>1. /\ mine' = mine \ {x.port} /\ pool' \subseteq pool
      /\ \A p \in pool : p \in pool' <=> p # x.port \/ p \notin mine
  BY DEF LetGo, Release
<1>2. subs' = {s \in subs : <<s[1], s[2]>> # <<x.hub, c>>}
  BY DEF LetGo, Unsubscribe
<1>3. subs' \subseteq subs
  BY <1>2
<1>4. ASSUME NEW h, NEW e, NEW p
      PROVE  <<h, e, p>> \in subs' <=> <<h, e, p>> \in subs /\ (h # x.hub \/ e # c)
  BY <1>2
<1> QED
  BY <1>1, <1>3, <1>4 DEF LetsGo

(* Building takes a free port and a free name.                             *)
Builds(c, h, spec) ==
  /\ fresh'.proc = "new" /\ fresh'.hub = h /\ fresh'.spec = spec
  /\ fresh'.port \in Ports \ pool /\ fresh'.port \notin zombie
  /\ mine' = mine \cup {fresh'.port} /\ pool' = pool \cup {fresh'.port}
  /\ subs' = subs \cup {<<h, c, fresh'.port>>}
  /\ \A p \in Ports : <<h, c, p>> \notin subs
LEMMA BuildEffect ==
  ASSUME NEW c, NEW h \in Hubs \cup {NoHub}, NEW spec \in Specs, Build(c, h, spec)
  PROVE  Builds(c, h, spec) /\ fresh' \in ConType /\ fresh' # None
<1>1. PICK p \in FreePorts : /\ Alloc(p) /\ ~Taken(h, c) /\ subs' = subs \cup {<<h, c, p>>}
                             /\ fresh' = [proc |-> "new", port |-> p, hub |-> h, spec |-> spec]
  BY DEF Build
<1>2. fresh'.proc = "new" /\ fresh'.port = p /\ fresh'.hub = h /\ fresh'.spec = spec
  BY <1>1
<1>3. fresh' \in ConType
  BY <1>1 DEF ConType, FreePorts
<1>4. fresh' # None
  BY <1>2 DEF None
<1> QED
  BY <1>1, <1>2, <1>3, <1>4 DEF Builds, FreePorts, Alloc, Taken

-----------------------------------------------------------------------------
(* What a write of the pass's locals leaves in them.                       *)
Runs(rows, sigs, want, plan, stopR, startR, left, hub, old) ==
  /\ run'.rows = rows /\ run'.sigs = sigs /\ run'.want = want /\ run'.plan = plan
  /\ run'.stopR = stopR /\ run'.startR = startR /\ run'.left = left
  /\ run'.hub = hub /\ run'.old = old

(* Writing one local or a few leaves the others as they were.              *)
LEMMA SetRows ==
  ASSUME run \in Locals, NEW a \in [Dests -> Rows],
         run' = [run EXCEPT !.rows = a]
  PROVE  run' \in Locals /\ Runs(a, run.sigs, run.want, run.plan, run.stopR,
                                    run.startR, run.left, run.hub, run.old)
BY DEF Locals, Runs

LEMMA SetSigs ==
  ASSUME run \in Locals, NEW a \in [Rends -> {0, 1}],
         run' = [run EXCEPT !.sigs = a]
  PROVE  run' \in Locals /\ Runs(run.rows, a, run.want, run.plan, run.stopR,
                                    run.startR, run.left, run.hub, run.old)
BY DEF Locals, Runs

LEMMA SetPlan ==
  ASSUME run \in Locals, NEW x \in [Rends -> Wants], NEW y \in [Dests -> Plans],
         NEW s \in SUBSET Rends, NEW t \in SUBSET Rends, NEW u \in SUBSET Dests,
         run' = [run EXCEPT !.want = x, !.plan = y, !.stopR = s, !.startR = t, !.left = u]
  PROVE  run' \in Locals /\ Runs(run.rows, run.sigs, x, y, s, t, u, run.hub,
                                    run.old)
BY DEF Locals, Runs

LEMMA SetStopR ==
  ASSUME run \in Locals, NEW s \in SUBSET Rends,
         run' = [run EXCEPT !.stopR = s]
  PROVE  run' \in Locals /\ Runs(run.rows, run.sigs, run.want, run.plan, s,
                                    run.startR, run.left, run.hub, run.old)
BY DEF Locals, Runs

LEMMA SetStartR ==
  ASSUME run \in Locals, NEW t \in SUBSET Rends,
         run' = [run EXCEPT !.startR = t]
  PROVE  run' \in Locals /\ Runs(run.rows, run.sigs, run.want, run.plan,
                                    run.stopR, t, run.left, run.hub, run.old)
BY DEF Locals, Runs

LEMMA SetHub ==
  ASSUME run \in Locals, NEW h \in Hubs \cup {NoHub},
         run' = [run EXCEPT !.hub = h]
  PROVE  run' \in Locals /\ Runs(run.rows, run.sigs, run.want, run.plan,
                                    run.stopR, run.startR, run.left, h, run.old)
BY DEF Locals, Runs

LEMMA SetStarted ==
  ASSUME run \in Locals, NEW t \in SUBSET Rends, NEW h \in Hubs \cup {NoHub},
         run' = [run EXCEPT !.startR = t, !.hub = h]
  PROVE  run' \in Locals /\ Runs(run.rows, run.sigs, run.want, run.plan,
                                    run.stopR, t, run.left, h, run.old)
BY DEF Locals, Runs

LEMMA SetSkipped ==
  ASSUME run \in Locals, NEW u \in SUBSET Dests, NEW h \in Hubs \cup {NoHub}, NEW o \in ConType,
         run' = [run EXCEPT !.left = u, !.hub = h, !.old = o]
  PROVE  run' \in Locals /\ Runs(run.rows, run.sigs, run.want, run.plan,
                                    run.stopR, run.startR, u, h, o)
BY DEF Locals, Runs

LEMMA SetOld ==
  ASSUME run \in Locals, NEW o \in ConType,
         run' = [run EXCEPT !.old = o]
  PROVE  run' \in Locals /\ Runs(run.rows, run.sigs, run.want, run.plan,
                                    run.stopR, run.startR, run.left, run.hub, o)
BY DEF Locals, Runs

(* The locals of a pass that has not begun.                                *)
LEMMA IdleIsTyped ==
  /\ Idle \in Locals /\ \A b \in {"api", "probe"} : [Idle EXCEPT !.by = b] \in Locals
  /\ \A b \in {"api", "probe"} : LET q == [Idle EXCEPT !.by = b] IN
       /\ q.stopR = {} /\ q.startR = {} /\ q.left = {} /\ q.hub = NoHub /\ q.old = None
       /\ q.plan = Blank
<1>1. Idle = [by |-> "none", rows |-> Blank, sigs |-> Blank, want |-> Blank, plan |-> Blank,
              stopR |-> {}, startR |-> {}, left |-> {}, hub |-> NoHub, old |-> None]
  BY DEF Idle, Blank
<1> HIDE DEF Blank
<1>2. Idle \in Locals
  BY <1>1, NoneIsTyped DEF Locals
<1>3. ASSUME NEW b \in {"api", "probe"}
      PROVE  LET q == [Idle EXCEPT !.by = b] IN
               q = [by |-> b, rows |-> Blank, sigs |-> Blank, want |-> Blank, plan |-> Blank,
                    stopR |-> {}, startR |-> {}, left |-> {}, hub |-> NoHub, old |-> None]
  BY <1>1
<1>4. ASSUME NEW b \in {"api", "probe"} PROVE [Idle EXCEPT !.by = b] \in Locals
  BY <1>3, NoneIsTyped DEF Locals
<1> QED
  BY <1>2, <1>3, <1>4

-----------------------------------------------------------------------------
(* The steps: a teardown has four, whoever makes it.                       *)
Tears(d) ==
  /\ (place[d] = "leaving" /\ pc = "stopDests") \/ (place[d] = "stopping" /\ stop = "dests")
  /\ UNCHANGED <<store, tier, feed, open, other, run, fresh, pc, stop>>
TearStop(d) ==
  /\ Tears(d) /\ ph[d] = "stop" /\ StopProcess(Main(d))
  /\ ph' = [ph EXCEPT ![d] = "release"] /\ UNCHANGED <<place, subs, mine, pool>>
TearRelease(d) ==
  /\ Tears(d) /\ ph[d] = "release" /\ LetGo(Main(d), con[Main(d)])
  /\ IF con[Backup(d)].port = NoPort THEN Done(d)
     ELSE ph' = [ph EXCEPT ![d] = "bstop"] /\ UNCHANGED place
  /\ UNCHANGED <<con, zombie, faults>>
TearBackup(d) ==
  /\ Tears(d) /\ ph[d] = "bstop" /\ StopProcess(Backup(d))
  /\ ph' = [ph EXCEPT ![d] = "brelease"] /\ UNCHANGED <<place, subs, mine, pool>>
TearBackupRelease(d) ==
  /\ Tears(d) /\ ph[d] = "brelease" /\ LetGo(Backup(d), con[Backup(d)]) /\ Done(d)
  /\ UNCHANGED <<con, zombie, faults>>

(* The rest of the world does not touch what the engine holds.             *)
World ==
  \/ ProbeLands \/ (\E d \in Dests : EditDest(d)) \/ (\E r \in Rends : EditRend(r)) \/ SwitchIngest
  \/ OtherTakes \/ OtherGives \/ ZombieDies
core == <<place, tier, con, ph, feed, open, subs, mine, pc, run, fresh, stop>>

(* Edits, the probe and the other engines leave what the engine holds      *)
(* alone.                                                                  *)
LEMMA WorldKeeps ==
  ASSUME World \/ UNCHANGED vars
  PROVE  UNCHANGED core
<1> USE DEF core, held
<1>1. CASE UNCHANGED vars
  BY <1>1 DEF vars, relay
<1>2. ASSUME NEW d \in Dests, EditDest(d) PROVE UNCHANGED core
  BY <1>2 DEF EditDest, relay
<1>3. ASSUME NEW r \in Rends, EditRend(r) PROVE UNCHANGED core
  BY <1>3 DEF EditRend, relay
<1>4. CASE ProbeLands \/ SwitchIngest
  BY <1>4 DEF ProbeLands, SwitchIngest, relay
<1>5. CASE OtherTakes \/ OtherGives \/ ZombieDies
  BY <1>5 DEF OtherTakes, OtherGives, ZombieDies
<1> QED
  BY <1>1, <1>2, <1>3, <1>4, <1>5 DEF World

-----------------------------------------------------------------------------
(* The pass takes first an id of those it has left.                        *)
LEMMA Chosen ==
  ASSUME RunTypes
  PROVE  /\ run.stopR \subseteq Rends /\ (run.stopR # {} => Min(run.stopR) \in run.stopR)
         /\ run.startR \subseteq Rends /\ (run.startR # {} => Min(run.startR) \in run.startR)
         /\ run.left \subseteq Dests /\ (run.left # {} => Next1 \in run.left)
<1>1. /\ run.stopR \subseteq Rends /\ run.startR \subseteq Rends /\ run.left \subseteq Dests
      /\ Rends \subseteq Nat /\ Dests \subseteq Nat
  BY RunFields, IdsAssumption DEF RunTypes
<1> QED
  BY <1>1, LeastExists DEF Next1

(* What is planned can be the settings of a process.                       *)
LEMMA SpecsAre ==
  /\ NoSpec \in Specs /\ Wants \subseteq Plans /\ Wants \ {Absent} \subseteq Specs
  /\ Plans \ {Absent, Broken} \subseteq Specs
  /\ \A b \in 0 .. 2 : <<b>> \in Specs /\ <<b>> # NoSpec
  /\ \A r \in Rends \cup {Passthrough}, v \in {0, 1}, s \in {0, 1} : <<r, v, s>> \in Specs
<1>1. \A b \in 0 .. 2 : <<b>> \in Specs /\ <<b>> # NoSpec
  BY DEF Specs, NoSpec
<1>2. \A r \in Rends \cup {Passthrough}, v \in {0, 1}, s \in {0, 1} : <<r, v, s>> \in Specs
  BY DEF Specs
<1> QED
  BY <1>1, <1>2 DEF Plans, Wants, Specs

(* No settings of a process say that there are none.                       *)
LEMMA SpecsAreNeither ==
  Absent \notin Specs /\ Broken \notin Specs /\ Absent # Broken
<1>1. \A r \in Rends \cup {Passthrough}, v \in {0, 1}, s \in {0, 1, 2} :
        <<r, v, s>> # <<8>> /\ <<r, v, s>> # <<9>>
  <2> SUFFICES ASSUME NEW r \in Rends \cup {Passthrough}, NEW v \in {0, 1}, NEW s \in {0, 1, 2}
               PROVE  <<r, v, s>> # <<8>> /\ <<r, v, s>> # <<9>>
    OBVIOUS
  <2>1. Len(<<r, v, s>>) = 3 /\ Len(<<8>>) = 1 /\ Len(<<9>>) = 1
    OBVIOUS
  <2> QED
    BY <2>1
<1>2. \A x \in 0 .. 2 : <<x>> # <<8>> /\ <<x>> # <<9>>
  <2> SUFFICES ASSUME NEW x \in 0 .. 2 PROVE <<x>> # <<8>> /\ <<x>> # <<9>>
    OBVIOUS
  <2>1. <<x>>[1] = x /\ <<8>>[1] = 8 /\ <<9>>[1] = 9
    OBVIOUS
  <2> QED
    BY <2>1
<1>3. NoSpec # <<8>> /\ NoSpec # <<9>> /\ <<8>> # <<9>>
  <2>1. Len(NoSpec) = 0 /\ Len(<<8>>) = 1 /\ Len(<<9>>) = 1 /\ <<8>>[1] = 8 /\ <<9>>[1] = 9
    BY DEF NoSpec
  <2> QED
    BY <2>1
<1> QED
  BY <1>1, <1>2, <1>3 DEF Specs, Absent, Broken

(* The fields of a row.                                                    *)
LEMMA RowFields ==
  ASSUME NEW x \in Rows
  PROVE  /\ x.on \in BOOLEAN /\ x.rend \in Rends \cup {Passthrough}
         /\ x.ver \in {0, 1} /\ x.bk \in 0 .. 2
BY DEF Rows

(* What Decide computes is typed.                                          *)
LEMMA DecideTypes ==
  ASSUME run.sigs \in [Rends -> {0, 1}], run.rows \in [Dests -> Rows]
  PROVE  /\ [r \in Rends |-> Wanted(r)] \in [Rends -> Wants]
         /\ \A want \in [Rends -> Wants] : [d \in Dests |-> PlanOf(d, want)] \in [Dests -> Plans]
<1>1. \A r \in Rends : Wanted(r) \in Wants
  BY DEF Wanted, Wants
<1>2. ASSUME NEW want \in [Rends -> Wants], NEW d \in Dests
      PROVE  PlanOf(d, want) \in Plans
  <2> DEFINE row == run.rows[d]
  <2>1. row \in Rows
    OBVIOUS
  <2> HIDE DEF row
  <2>2. Absent \in Plans /\ Broken \in Plans
    BY DEF Plans
  <2>3. CASE row.rend = Passthrough
    <3>1. <<row.rend, row.ver, 0>> \in Plans
      BY <2>1, RowFields, SpecsAre DEF Plans
    <3> QED
      BY <2>2, <2>3, <3>1 DEF PlanOf, DestSpec, row
  <2>4. CASE row.rend # Passthrough /\ want[row.rend] # Absent
    <3>1. row.rend \in Rends
      BY <2>1, <2>4, RowFields
    <3>2. want[row.rend] \in Wants
      BY <3>1
    <3>3. want[row.rend][1] \in {0, 1}
      BY <2>4, <3>2 DEF Wants
    <3>4. <<row.rend, row.ver, want[row.rend][1]>> \in Plans
      BY <2>1, <3>3, RowFields, SpecsAre DEF Plans
    <3> QED
      BY <2>2, <2>4, <3>4 DEF PlanOf, DestSpec, row
  <2>5. CASE row.rend # Passthrough /\ want[row.rend] = Absent
    BY <2>2, <2>5 DEF PlanOf, row
  <2> QED
    BY <2>3, <2>4, <2>5
<1> QED
  BY <1>1, <1>2

(* A rendition that is started finds one of its two hub names free.        *)
LEMMA FreshHubIsFree ==
  ASSUME TypeOK, RunTypes, Passing, Starting, Processes, HubsAccounted,
         pc = "startRends", run.startR # {}
  PROVE  LET r == Min(run.startR) IN
           /\ FreshHub(r) \in {r} \X {0, 1} /\ FreshHub(r) \notin open
           /\ \A c \in Consumers : Live(c) => con[c].hub # FreshHub(r)
<1> DEFINE r == Min(run.startR)
<1>1. r \in run.startR /\ r \in Rends
  BY Chosen
<1>2. tier[r] \in {"none", "stopping"}
  BY <1>1 DEF Starting
<1> HIDE DEF r
<1>3. PICK h \in {r} \X {0, 1} : h # feed[r]
  BY <1>1, HubNames
<1>4. h # Source /\ \A s \in Rends : s # r => h \notin {s} \X {0, 1}
  BY <1>1, HubNames
<1>5. h \notin open
  BY <1>3, <1>4 DEF HubsAccounted, OpenIsFed, FeedIsOwn, LiveReads
<1>6. \A c \in Consumers : con[c].hub = h => con[c].proc \in {"none", "gone"}
  <2> SUFFICES ASSUME NEW c \in Consumers, con[c].hub = h, Live(c) PROVE FALSE
    BY ConFields DEF TypeOK, HeldTypes, Live
  <2>1. PICK s \in Rends : h = feed[s] /\ feed[s] \in {s} \X {0, 1}
    BY <1>4 DEF HubsAccounted, OpenIsFed, FeedIsOwn, LiveReads
  <2> QED
    BY <1>3, <1>4, <2>1
<1> QED
  BY <1>5, <1>6 DEF FreshHub, Live, r

-----------------------------------------------------------------------------
(* A build succeeds, with a port and a name of its own, or it does not.    *)
Built(c, h, spec) == Builds(c, h, spec) /\ fresh' \in ConType /\ fresh' # None
RendBuilt ==
  LET r == Min(run.startR)
  IN /\ pc = "startRends" /\ pc' = "publishRend" /\ r \in run.startR
     /\ Built(Encode(r), Source, run.want[r])
     /\ FreshHub(r) \in {r} \X {0, 1} /\ open' = open \cup {FreshHub(r)}
     /\ run' = [run EXCEPT !.hub = FreshHub(r)]
     /\ UNCHANGED <<store, held, other, zombie, faults, stop>>
RendNotBuilt ==
  LET r == Min(run.startR)
  IN /\ pc = "startRends" /\ r \in run.startR
     /\ FailRend(r) /\ run' = [run EXCEPT !.startR = @ \ {r}]
     /\ UNCHANGED <<store, place, con, ph, feed, relay, pc, fresh, stop>>
DestBuilt ==
  /\ pc = "buildDest" /\ pc' = "publishDest" /\ Next1 \in run.left
  /\ run.plan[Next1] \in Specs /\ Built(Main(Next1), run.hub, run.plan[Next1])
  /\ UNCHANGED <<store, held, open, other, zombie, faults, run, stop>>
DestNotBuilt ==
  /\ pc = "buildDest" /\ pc' = "startDests" /\ Next1 \in run.left
  /\ FailDest(Next1) /\ Skip
  /\ UNCHANGED <<store, tier, con, ph, feed, relay, fresh, stop>>
BackupBuilt ==
  /\ pc = "buildBackup" /\ pc' = "publishBackup" /\ Next1 \in run.left
  /\ BackupSpec(Next1) # NoSpec
  /\ Built(Backup(Next1), con[Main(Next1)].hub, BackupSpec(Next1))
  /\ UNCHANGED <<store, held, open, other, zombie, faults, run, stop>>
BackupNotBuilt ==
  /\ pc = "buildBackup" /\ pc' = "publishBackup" /\ Next1 \in run.left /\ fresh' = None
  /\ UNCHANGED <<store, held, relay, run, stop>>

(* A rendition's build takes a port and a name, or records its failure.    *)
LEMMA RendBuilds ==
  ASSUME IInv, BuildRendition
  PROVE  RendBuilt \/ RendNotBuilt
<1> DEFINE r == Min(run.startR)
<1>1. /\ TypeOK /\ RunTypes /\ Passing /\ Starting /\ Processes /\ HubsAccounted /\ PlanIsOfRows
      /\ pc = "startRends" /\ run.startR # {}
  BY DEF IInv, BuildRendition, Following
<1>2. r \in run.startR /\ r \in Rends
  BY <1>1, Chosen
<1>3. run.want[r] \in Specs
  <2>1. run.want \in [Rends -> Wants] /\ run.want[r] # Absent
    BY <1>1, <1>2 DEF RunTypes, Planned, Tiered, Listed, PlanIsOfRows
  <2> QED
    BY <1>2, <2>1, SpecsAre
<1>4. FreshHub(r) \in {r} \X {0, 1}
  BY <1>1, FreshHubIsFree
<1>5. Build(Encode(r), Source, run.want[r]) => Built(Encode(r), Source, run.want[r])
  BY <1>3, BuildEffect, HubNames DEF Built
<1> QED
  BY <1>1, <1>2, <1>4, <1>5
  DEF BuildRendition, RendBuilt, RendNotBuilt, Goto, OtherSide, held

(* So does a destination's.                                                *)
LEMMA DestBuilds ==
  ASSUME IInv, BuildDestination
  PROVE  DestBuilt \/ DestNotBuilt
<1>1. TypeOK /\ RunTypes /\ Passing /\ PlanIsOfRows /\ MakesThePlan /\ pc = "buildDest" /\ Planned
  BY DEF IInv, Following, BuildDestination, Planned, Tiered, Listed
<1>2. Next1 \in run.left /\ Next1 \in Dests /\ run.hub \in Hubs \cup {NoHub}
  BY <1>1, Chosen, RunFields DEF Passing, OneDest, RunTypes
<1>3. run.plan[Next1] \in Specs
  <2>1. /\ run.plan \in [Dests -> Plans]
        /\ run.plan[Next1] # Absent /\ run.plan[Next1] # Broken
    BY <1>1, <1>2 DEF RunTypes, PlanIsOfRows, MakesThePlan
  <2> QED
    BY <1>2, <2>1, SpecsAre
<1>4. Build(Main(Next1), run.hub, run.plan[Next1]) => Built(Main(Next1), run.hub, run.plan[Next1])
  BY <1>2, <1>3, BuildEffect DEF Built
<1> QED
  BY <1>1, <1>2, <1>3, <1>4
  DEF BuildDestination, DestBuilt, DestNotBuilt, Goto, OtherSide, held

(* A backup's leaves nothing behind when it fails.                         *)
LEMMA BackupBuilds ==
  ASSUME IInv, BuildBackup
  PROVE  BackupBuilt \/ BackupNotBuilt
<1>1. TypeOK /\ RunTypes /\ Passing /\ pc = "buildBackup" /\ Listed
  BY DEF IInv, BuildBackup, Listed, Step
<1>2. Next1 \in run.left /\ Next1 \in Dests
  BY <1>1, Chosen DEF Passing, OneDest, Dropping
<1>3. con[Main(Next1)].hub \in Hubs \cup {NoHub} /\ BackupSpec(Next1) \in Specs
  <2>1. run.rows[Next1] \in Rows
    BY <1>1, <1>2 DEF RunTypes
  <2>2. con[Main(Next1)] \in ConType
    BY <1>1, <1>2, Names DEF TypeOK, HeldTypes
  <2> QED
    BY <2>1, <2>2, SpecsAre, RowFields, ConFields DEF BackupSpec
<1>4. Build(Backup(Next1), con[Main(Next1)].hub, BackupSpec(Next1)) =>
        Built(Backup(Next1), con[Main(Next1)].hub, BackupSpec(Next1))
  BY <1>3, BuildEffect DEF Built
<1>5. Step("buildBackup", "publishBackup") <=> pc = "buildBackup" /\ pc' = "publishBackup"
  BY DEF Step
<1> QED
  BY <1>1, <1>2, <1>4, <1>5
  DEF BuildBackup, BackupBuilt, BackupNotBuilt, OtherSide, held, relay

(* Every step of the engine, with one outcome or two.                      *)
EngineStep ==
  \/ Enter \/ ListDestinations \/ ListRenditions \/ Decide \/ SortDestinations
  \/ (\E d \in Dests : TearStop(d) \/ TearRelease(d) \/ TearBackup(d) \/ TearBackupRelease(d))
  \/ DestinationsStopped \/ TakeRendition \/ StopRendition \/ RenditionStopped \/ RenditionsStopped
  \/ RendBuilt \/ RendNotBuilt \/ PublishRendition \/ RunRendition \/ RenditionsStarted
  \/ LookDestination \/ DestBuilt \/ DestNotBuilt \/ PublishDestination \/ RunDestination
  \/ LookBackup \/ StopBackup \/ DropBackup \/ BackupBuilt \/ BackupNotBuilt
  \/ PublishBackup \/ RunBackup
  \/ Leave
  \/ StopCalled \/ Collect \/ DestinationsDown \/ (\E r \in Rends : StopEncode(r))
  \/ EncodesDown \/ (\E r \in Rends : ReleaseStopped(r)) \/ LoopsDone

(* A teardown is one of its four steps, whoever takes it.                  *)
LEMMA TearSteps ==
  ASSUME NEW d \in Dests, NEW who \in {"leaving", "stopping"}, TeardownDest(d, who),
         UNCHANGED <<pc, stop>>,
         (who = "leaving" /\ pc = "stopDests") \/ (who = "stopping" /\ stop = "dests")
  PROVE  TearStop(d) \/ TearRelease(d) \/ TearBackup(d) \/ TearBackupRelease(d)
<1>1. Tears(d)
  BY DEF TeardownDest, Tears, StopProcess, LetGo
<1> QED
  BY <1>1 DEF TeardownDest, TearStop, TearRelease, TearBackup, TearBackupRelease

(* There are no other steps.                                               *)
LEMMA StepsAre ==
  ASSUME IInv, [Next]_vars
  PROVE  EngineStep \/ World \/ UNCHANGED vars
<1>1. ASSUME NEW d \in Dests, StopDestination(d)
      PROVE  TearStop(d) \/ TearRelease(d) \/ TearBackup(d) \/ TearBackupRelease(d)
  BY <1>1, TearSteps DEF StopDestination
<1>2. ASSUME NEW d \in Dests, StopCollected(d)
      PROVE  TearStop(d) \/ TearRelease(d) \/ TearBackup(d) \/ TearBackupRelease(d)
  BY <1>2, TearSteps DEF StopCollected
<1>3. BuildRendition \/ BuildDestination \/ BuildBackup =>
        \/ RendBuilt \/ RendNotBuilt \/ DestBuilt \/ DestNotBuilt \/ BackupBuilt \/ BackupNotBuilt
  BY RendBuilds, DestBuilds, BackupBuilds
<1> QED
  BY <1>1, <1>2, <1>3 DEF Next, Pass, StopWithin, EngineStep, World

-----------------------------------------------------------------------------

(* What the engine holds keeps its type.                                   *)
LEMMA HeldTypesKept ==
  ASSUME IInv, EngineStep
  PROVE  HeldTypes'
<1>1. CASE Enter \/ ListDestinations \/ ListRenditions \/ Decide \/ DestinationsStopped \/
       RenditionsStopped \/ RenditionsStarted \/ LookBackup \/ Leave \/ StopCalled \/
       DestinationsDown \/ EncodesDown
  BY <1>1 DEF Enter, ListDestinations, ListRenditions, Decide, DestinationsStopped,
    RenditionsStopped, RenditionsStarted, LookBackup, Leave, StopCalled, DestinationsDown,
    EncodesDown, Step, OtherSide, Goto, Skip, Halt, HeldTypes, held, IInv, TypeOK
<1>2. CASE SortDestinations
  BY <1>2 DEF SortDestinations, Step, OtherSide, HeldTypes, held, IInv, TypeOK
<1>3. ASSUME NEW d \in Dests, TearStop(d) PROVE HeldTypes'
  BY <1>3, StopEffect, Names DEF TearStop, Tears, Processes, HeldTypes, held, IInv, TypeOK
<1>4. ASSUME NEW d \in Dests, TearRelease(d) PROVE HeldTypes'
  BY <1>4 DEF TearRelease, Tears, Done, HeldTypes, held, IInv, TypeOK
<1>5. ASSUME NEW d \in Dests, TearBackup(d) PROVE HeldTypes'
  BY <1>5, StopEffect, Names DEF TearBackup, Tears, Processes, HeldTypes, held, IInv, TypeOK
<1>6. ASSUME NEW d \in Dests, TearBackupRelease(d) PROVE HeldTypes'
  BY <1>6 DEF TearBackupRelease, Tears, Done, HeldTypes, held, IInv, TypeOK
<1>7. CASE TakeRendition
  BY <1>7 DEF TakeRendition, Goto, OtherSide, HeldTypes, held, IInv, TypeOK
<1>8. CASE StopRendition
  BY <1>8, StopEffect, Names, Chosen DEF StopRendition, Step, OtherSide, Processes, Passing,
    HeldTypes, held, IInv, TypeOK
<1>9. CASE RenditionStopped
  BY <1>9 DEF RenditionStopped, Step, OtherSide, CloseRendition, HeldTypes, held, IInv, TypeOK
<1>10. CASE RendBuilt
  BY <1>10 DEF RendBuilt, Built, HeldTypes, held, IInv, TypeOK
<1>11. CASE RendNotBuilt
  BY <1>11 DEF RendNotBuilt, FailRend, HeldTypes, held, IInv, TypeOK
<1>12. CASE PublishRendition
  BY <1>12, NoneIsTyped, Names, Chosen, RunFields DEF PublishRendition, Goto, OtherSide, Discard,
    Passing, RunTypes, HeldTypes, held, IInv, TypeOK
<1>13. CASE RunRendition
  BY <1>13, StartEffect, Names, Chosen DEF RunRendition, Step, OtherSide, Passing, HeldTypes,
    held, IInv, TypeOK
<1>14. CASE LookDestination
  BY <1>14 DEF LookDestination, Goto, OtherSide, FailDest, Skip, HeldTypes, held, IInv, TypeOK
<1>15. CASE DestBuilt
  BY <1>15 DEF DestBuilt, Built, HeldTypes, held, IInv, TypeOK
<1>16. CASE DestNotBuilt
  BY <1>16 DEF DestNotBuilt, FailDest, Skip, HeldTypes, held, IInv, TypeOK
<1>17. CASE PublishDestination
  BY SMTT(30), <1>17, NoneIsTyped, Names, Chosen
     DEF PublishDestination, Goto, OtherSide, Discard, Passing,
    OneDest, Dropping, HeldTypes, held, IInv, TypeOK
<1>18. CASE RunDestination
  BY <1>18, StartEffect, Names, Chosen DEF RunDestination, Step, OtherSide, Passing, OneDest,
    Dropping, HeldTypes, held, IInv, TypeOK
<1>19. CASE StopBackup
  BY <1>19, StopEffect, Names, Chosen DEF StopBackup, Step, OtherSide, Processes, Passing,
    OneDest, Dropping, HeldTypes, held, IInv, TypeOK
<1>20. CASE DropBackup
  BY <1>20 DEF DropBackup, Step, OtherSide, HeldTypes, held, IInv, TypeOK
<1>21. CASE BackupBuilt
  BY <1>21 DEF BackupBuilt, Built, HeldTypes, held, IInv, TypeOK
<1>22. CASE BackupNotBuilt
  BY <1>22, NoneIsTyped DEF BackupNotBuilt, HeldTypes, held, IInv, TypeOK
<1>23. CASE PublishBackup
  BY <1>23, NoneIsTyped, Names, Chosen DEF PublishBackup, Goto, OtherSide, Discard, Skip, Passing,
    OneDest, Dropping, HeldTypes, held, IInv, TypeOK
<1>24. CASE RunBackup
  BY <1>24, StartEffect, Names, Chosen DEF RunBackup, Step, OtherSide, Skip, Passing, OneDest,
    Dropping, HeldTypes, held, IInv, TypeOK
<1>25. CASE Collect
  BY <1>25 DEF Collect, Halt, HeldTypes, held, IInv, TypeOK
<1>26. ASSUME NEW r \in Rends, StopEncode(r) PROVE HeldTypes'
  BY <1>26, StopEffect, Names DEF StopEncode, Processes, HeldTypes, held, IInv, TypeOK
<1>27. ASSUME NEW r \in Rends, ReleaseStopped(r) PROVE HeldTypes'
  BY <1>27 DEF ReleaseStopped, CloseRendition, HeldTypes, held, IInv, TypeOK
<1>28. CASE LoopsDone
  BY <1>28 DEF LoopsDone, Halt, HeldTypes, held, IInv, TypeOK
<1> QED
  BY <1>1, <1>2, <1>3, <1>4, <1>5, <1>6, <1>7, <1>8, <1>9, <1>10, <1>11, <1>12, <1>13, <1>14,
    <1>15, <1>16, <1>17, <1>18, <1>19, <1>20, <1>21, <1>22, <1>23, <1>24, <1>25, <1>26, <1>27,
    <1>28 DEF EngineStep

(* So does what the relay holds.                                          *)
LEMMA RelayTypesKept ==
  ASSUME IInv, EngineStep \/ World \/ UNCHANGED vars
  PROVE  RelayTypes'
<1>1. CASE Enter \/ ListDestinations \/ ListRenditions \/ Decide \/ DestinationsStopped \/
       RenditionsStopped \/ RenditionsStarted \/ LookBackup \/ Leave \/ StopCalled \/
       DestinationsDown \/ EncodesDown
  BY <1>1 DEF Enter, ListDestinations, ListRenditions, Decide, DestinationsStopped,
    RenditionsStopped, RenditionsStarted, LookBackup, Leave, StopCalled, DestinationsDown,
    EncodesDown, Step, OtherSide, Goto, Skip, Halt, RelayTypes, relay, held, IInv, TypeOK
<1>2. CASE SortDestinations
  BY <1>2 DEF SortDestinations, Step, OtherSide, RelayTypes, relay, held, IInv, TypeOK
<1>3. ASSUME NEW d \in Dests, TearStop(d) PROVE RelayTypes'
  BY <1>3, StopEffect, Names DEF TearStop, Tears, Processes, RelayTypes, relay, held, IInv, TypeOK
<1>4. ASSUME NEW d \in Dests, TearRelease(d) PROVE RelayTypes'
  BY <1>4, LetGoEffect DEF TearRelease, Tears, Done, LetsGo, RelayTypes, relay, held, IInv, TypeOK
<1>5. ASSUME NEW d \in Dests, TearBackup(d) PROVE RelayTypes'
  BY <1>5, StopEffect, Names DEF TearBackup, Tears, Processes, RelayTypes, relay, held, IInv,
    TypeOK
<1>6. ASSUME NEW d \in Dests, TearBackupRelease(d) PROVE RelayTypes'
  BY <1>6, LetGoEffect DEF TearBackupRelease, Tears, Done, LetsGo, RelayTypes, relay, held, IInv,
    TypeOK
<1>7. CASE TakeRendition
  BY <1>7 DEF TakeRendition, Goto, OtherSide, RelayTypes, relay, held, IInv, TypeOK
<1>8. CASE StopRendition
  BY <1>8, StopEffect, Names, Chosen DEF StopRendition, Step, OtherSide, Processes, Passing,
    RelayTypes, relay, held, IInv, TypeOK
<1>9. CASE RenditionStopped
  BY <1>9, LetGoEffect DEF RenditionStopped, Step, OtherSide, CloseRendition, LetsGo, RelayTypes,
    relay, held, IInv, TypeOK
<1>10. CASE RendBuilt
  BY <1>10, Names, HubNames, Chosen DEF RendBuilt, Built, Builds, RelayTypes, relay, held, IInv,
    TypeOK
<1>11. CASE RendNotBuilt
  BY <1>11 DEF RendNotBuilt, FailRend, RelayTypes, relay, held, IInv, TypeOK
<1>12. CASE PublishRendition
  BY <1>12, LetGoEffect DEF PublishRendition, Goto, OtherSide, Discard, LetsGo, RelayTypes, relay,
    held, IInv, TypeOK
<1>13. CASE RunRendition
  BY <1>13 DEF RunRendition, Step, OtherSide, RelayTypes, relay, held, IInv, TypeOK
<1>14. CASE LookDestination
  BY <1>14 DEF LookDestination, Goto, OtherSide, FailDest, Skip, RelayTypes, relay, held, IInv,
    TypeOK
<1>15. CASE DestBuilt
  BY <1>15, Names, HubNames, Chosen, RunFields DEF DestBuilt, Built, Builds, Following,
    MakesThePlan, RunTypes, RelayTypes, relay, held, IInv, TypeOK
<1>16. CASE DestNotBuilt
  BY <1>16 DEF DestNotBuilt, FailDest, Skip, RelayTypes, relay, held, IInv, TypeOK
<1>17. CASE PublishDestination
  BY <1>17, LetGoEffect DEF PublishDestination, Goto, OtherSide, Discard, LetsGo, RelayTypes,
    relay, held, IInv, TypeOK
<1>18. CASE RunDestination
  BY <1>18 DEF RunDestination, Step, OtherSide, RelayTypes, relay, held, IInv, TypeOK
<1>19. CASE StopBackup
  BY <1>19, StopEffect, Names, Chosen DEF StopBackup, Step, OtherSide, Processes, Passing,
    OneDest, Dropping, RelayTypes, relay, held, IInv, TypeOK
<1>20. CASE DropBackup
  BY <1>20, LetGoEffect DEF DropBackup, Step, OtherSide, LetsGo, RelayTypes, relay, held, IInv,
    TypeOK
<1>21. CASE BackupBuilt
  BY <1>21, Names, Chosen, ConFields DEF BackupBuilt, Built, Builds, Processes, Swapping,
    ConShape, HeldTypes, Dropping, RelayTypes, relay, held, IInv, TypeOK
<1>22. CASE BackupNotBuilt
  BY <1>22 DEF BackupNotBuilt, RelayTypes, relay, held, IInv, TypeOK
<1>23. CASE PublishBackup
  BY <1>23, LetGoEffect DEF PublishBackup, Goto, OtherSide, Discard, Skip, LetsGo, RelayTypes,
    relay, held, IInv, TypeOK
<1>24. CASE RunBackup
  BY <1>24 DEF RunBackup, Step, OtherSide, Skip, RelayTypes, relay, held, IInv, TypeOK
<1>25. CASE Collect
  BY <1>25 DEF Collect, Halt, RelayTypes, relay, held, IInv, TypeOK
<1>26. ASSUME NEW r \in Rends, StopEncode(r) PROVE RelayTypes'
  BY <1>26, StopEffect, Names DEF StopEncode, Processes, RelayTypes, relay, held, IInv, TypeOK
<1>27. ASSUME NEW r \in Rends, ReleaseStopped(r) PROVE RelayTypes'
  BY <1>27, LetGoEffect DEF ReleaseStopped, CloseRendition, LetsGo, RelayTypes, relay, held, IInv,
    TypeOK
<1>28. CASE LoopsDone
  BY <1>28 DEF LoopsDone, Halt, RelayTypes, relay, held, IInv, TypeOK
<1>29. CASE World \/ UNCHANGED vars
  <2>1. RelayTypes /\ MaxFaults \in Nat
    BY BoundsAssumption DEF IInv, TypeOK
  <2>2. OtherTakes \/ OtherGives \/ ZombieDies => RelayTypes'
    BY <2>1 DEF OtherTakes, OtherGives, ZombieDies, FreePorts, RelayTypes
  <2>3. ProbeLands \/ (\E d \in Dests : EditDest(d)) \/ (\E r \in Rends : EditRend(r))
          \/ SwitchIngest \/ UNCHANGED vars => UNCHANGED relay
    BY DEF ProbeLands, EditDest, EditRend, SwitchIngest, vars
  <2> QED
    BY <1>29, <2>1, <2>2, <2>3 DEF World, relay, RelayTypes
<1> QED
  BY <1>1, <1>2, <1>3, <1>4, <1>5, <1>6, <1>7, <1>8, <1>9, <1>10, <1>11, <1>12, <1>13, <1>14,
    <1>15, <1>16, <1>17, <1>18, <1>19, <1>20, <1>21, <1>22, <1>23, <1>24, <1>25, <1>26, <1>27,
    <1>28, <1>29 DEF EngineStep

(* The store's types, and the count of the reconciles that are asked for.  *)
LEMMA EditedIsTyped ==
  ASSUME NEW d \in Dests, db \in [Dests -> Rows], NEW row \in Edited(d)
  PROVE  row \in Rows
<1>1. db[d] \in Rows
  OBVIOUS
<1>2. ASSUME NEW x \in Rows
      PROVE  /\ [x EXCEPT !.on = ~@] \in Rows /\ [x EXCEPT !.ver = 1 - @] \in Rows
             /\ \A r \in Rends \cup {Passthrough} : [x EXCEPT !.rend = r] \in Rows
             /\ \A b \in 0 .. 2 : [x EXCEPT !.bk = b] \in Rows
  <2>1. x.on \in BOOLEAN /\ x.ver \in {0, 1}
    BY RowFields
  <2>2. (~x.on) \in BOOLEAN /\ 1 - x.ver \in {0, 1}
    BY <2>1
  <2> QED
    BY <2>2 DEF Rows
<1>3. CASE row = [db[d] EXCEPT !.on = ~@] \/ row = [db[d] EXCEPT !.ver = 1 - @]
  <2>1. [db[d] EXCEPT !.on = ~@] \in Rows /\ [db[d] EXCEPT !.ver = 1 - @] \in Rows
    BY <1>1, <1>2, Zenon
  <2> QED
    BY <1>3, <2>1, Zenon
<1>4. CASE \E r \in Rends \cup {Passthrough} : row = [db[d] EXCEPT !.rend = r]
  BY <1>1, <1>2, <1>4
<1>5. CASE \E b \in 0 .. 2 : row = [db[d] EXCEPT !.bk = b]
  BY <1>1, <1>2, <1>5
<1>6. (IF d \in Backups THEN 0 .. 2 ELSE {0}) \subseteq 0 .. 2
  OBVIOUS
<1> QED
  BY <1>3, <1>4, <1>5, <1>6, Zenon DEF Edited

(* The store and its counters keep their types, whoever moves.             *)
LEMMA StoreTypesKept ==
  ASSUME IInv, EngineStep \/ World \/ UNCHANGED vars
  PROVE  StoreTypes' /\ Dues'
<1>1. StoreTypes /\ Dues /\ MaxEdits \in Nat
  BY BoundsAssumption DEF IInv, TypeOK
<1> USE DEF StoreTypes, Dues
<1>2. ASSUME NEW d \in Dests, EditDest(d) PROVE StoreTypes' /\ Dues'
  <2>1. PICK row \in Edited(d) : db' = [db EXCEPT ![d] = row]
    BY <1>2 DEF EditDest
  <2>2. row \in Rows
    BY <1>1, <2>1, EditedIsTyped
  <2> QED
    BY <1>1, <1>2, <2>1, <2>2 DEF EditDest, Ask
<1>3. ASSUME NEW r \in Rends, EditRend(r) PROVE StoreTypes' /\ Dues'
  <2>1. sig' \in [Rends -> {0, 1}]
    BY <1>1, <1>3 DEF EditRend
  <2> QED
    BY <1>1, <1>3, <2>1 DEF EditRend, Ask
<1>4. CASE SwitchIngest \/ ProbeLands
  <2>1. CASE SwitchIngest
    BY <1>1, <2>1 DEF SwitchIngest, Ask
  <2>2. CASE ProbeLands
    BY <1>1, <2>2 DEF ProbeLands
  <2> QED
    BY <1>4, <2>1, <2>2
<1>5. CASE Enter
  <2>1. known' \in BOOLEAN /\ switched' \in BOOLEAN /\ probing' \in BOOLEAN
    BY <1>1, <1>5 DEF Enter
  <2>2. asked' \in 0 .. MaxEdits + 1 /\ asked' <= edits + 1 /\ UNCHANGED <<db, sig, edits>>
    BY <1>1, <1>5 DEF Enter
  <2> QED
    BY <1>1, <2>1, <2>2
<1>6. UNCHANGED store => StoreTypes' /\ Dues'
  BY <1>1 DEF store
<1>7. OtherTakes \/ OtherGives \/ ZombieDies \/ UNCHANGED vars => UNCHANGED store
  BY DEF OtherTakes, OtherGives, ZombieDies, vars, store
<1>8. EngineStep => Enter \/ UNCHANGED store
  <2> USE DEF OtherSide, Halt, Tears
  <2>1. ListDestinations \/ ListRenditions \/ Decide \/ SortDestinations \/ DestinationsStopped \/
    TakeRendition \/ StopRendition => UNCHANGED store
    BY DEF ListDestinations, ListRenditions, Decide, SortDestinations, DestinationsStopped,
      TakeRendition, StopRendition
  <2>2. RenditionStopped \/ RenditionsStopped \/ RendBuilt \/ RendNotBuilt \/ PublishRendition \/
    RunRendition \/ RenditionsStarted => UNCHANGED store
    BY DEF RenditionStopped, RenditionsStopped, RendBuilt, RendNotBuilt, PublishRendition,
      RunRendition, RenditionsStarted
  <2>3. LookDestination \/ DestBuilt \/ DestNotBuilt \/ PublishDestination \/ RunDestination \/
    LookBackup \/ StopBackup => UNCHANGED store
    BY DEF LookDestination, DestBuilt, DestNotBuilt, PublishDestination, RunDestination,
      LookBackup, StopBackup
  <2>4. DropBackup \/ BackupBuilt \/ BackupNotBuilt \/ PublishBackup \/ RunBackup \/ Leave \/
    StopCalled => UNCHANGED store
    BY DEF DropBackup, BackupBuilt, BackupNotBuilt, PublishBackup, RunBackup, Leave, StopCalled
  <2>5. Collect \/ DestinationsDown \/ EncodesDown \/ LoopsDone => UNCHANGED store
    BY DEF Collect, DestinationsDown, EncodesDown, LoopsDone
  <2>6. ASSUME NEW d \in Dests, TearStop(d) \/ TearRelease(d) \/ TearBackup(d) \/
               TearBackupRelease(d)
        PROVE  UNCHANGED store
    BY <2>6 DEF TearStop, TearRelease, TearBackup, TearBackupRelease
  <2>7. ASSUME NEW r \in Rends, StopEncode(r) \/ ReleaseStopped(r) PROVE UNCHANGED store
    BY <2>7 DEF StopEncode, ReleaseStopped
  <2> QED
    BY <2>1, <2>2, <2>3, <2>4, <2>5, <2>6, <2>7 DEF EngineStep
<1> QED
  BY <1>2, <1>3, <1>4, <1>5, <1>6, <1>7, <1>8 DEF World

-----------------------------------------------------------------------------
(* What the pass has in its locals.                                        *)
Skipped == Runs(run.rows, run.sigs, run.want, run.plan, run.stopR, run.startR,
                run.left \ {Next1}, NoHub, None)
LEMMA SkipEffect ==
  ASSUME RunTypes, Skip
  PROVE  run' \in Locals /\ Skipped
<1>1. run.left \ {Next1} \in SUBSET Dests
  BY RunFields DEF RunTypes
<1> QED
  BY <1>1, SetSkipped, NoneIsTyped DEF RunTypes, Skip, Skipped

(* The hub a destination is to read is a hub, or none.                     *)
LEMMA HubForIsTyped ==
  ASSUME HeldTypes, NEW r \in Rends \cup {Passthrough}
  PROVE  HubFor(r) \in Hubs \cup {NoHub}
BY HubNames DEF HubFor, HeldTypes

(* What the pass lists goes into its locals and nowhere else.              *)
LEMMA WritesOfTheLocals ==
  ASSUME IInv
  PROVE  /\ ListDestinations => run' \in Locals /\
              Runs(db, run.sigs, run.want, run.plan, run.stopR, run.startR, run.left,
                   run.hub, run.old)
         /\ ListRenditions => run' \in Locals /\
              Runs(run.rows, sig, run.want, run.plan, run.stopR, run.startR, run.left,
                   run.hub, run.old)
<1>1. run \in Locals /\ db \in [Dests -> Rows] /\ sig \in [Rends -> {0, 1}]
  BY DEF IInv, RunTypes, TypeOK, StoreTypes
<1> QED
  BY <1>1, SetRows, SetSigs DEF ListDestinations, ListRenditions

(* What Decide writes: the plan, and what is to be stopped and started.    *)
DecidedWant == [r \in Rends |-> Wanted(r)]
DecidedPlan == [d \in Dests |-> PlanOf(d, DecidedWant)]
Decided ==
  Runs(run.rows, run.sigs, DecidedWant, DecidedPlan,
       {r \in Rends : tier[r] \in {"map", "error"} /\ Wanted(r) # HaveSpec(r)},
       {r \in Rends : Wanted(r) # Absent /\ Wanted(r) # HaveSpec(r)},
       IF known THEN {d \in Dests : run.rows[d].on} ELSE {}, run.hub, run.old)
LEMMA DecideEffect ==
  ASSUME IInv, Decide
  PROVE  /\ run' \in Locals /\ Decided
         /\ DecidedWant \in [Rends -> Wants] /\ DecidedPlan \in [Dests -> Plans]
<1>1. RunTypes /\ run.sigs \in [Rends -> {0, 1}] /\ run.rows \in [Dests -> Rows]
  BY DEF IInv, Decide, Step, RunTypes, Listed, Tiered
<1>2. DecidedWant \in [Rends -> Wants] /\ DecidedPlan \in [Dests -> Plans]
  BY <1>1, DecideTypes DEF DecidedWant, DecidedPlan
<1> DEFINE s == {r \in Rends : tier[r] \in {"map", "error"} /\ Wanted(r) # HaveSpec(r)}
           t == {r \in Rends : Wanted(r) # Absent /\ Wanted(r) # HaveSpec(r)}
           u == IF known THEN {d \in Dests : run.rows[d].on} ELSE {}
<1>3. s \in SUBSET Rends /\ t \in SUBSET Rends /\ u \in SUBSET Dests
  OBVIOUS
<1>4. run' = [run EXCEPT !.want = DecidedWant, !.plan = DecidedPlan,
                         !.stopR = s, !.startR = t, !.left = u]
  <2>1. \A r \in Rends : DecidedWant[r] = Wanted(r)
    BY DEF DecidedWant
  <2>2. s = {r \in Rends : tier[r] \in {"map", "error"} /\ DecidedWant[r] # HaveSpec(r)}
    BY <2>1
  <2>3. t = {r \in Rends : DecidedWant[r] # Absent /\ DecidedWant[r] # HaveSpec(r)}
    BY <2>1
  <2> HIDE DEF s, t, u
  <2>4. run' = [run EXCEPT !.want = DecidedWant, !.plan = DecidedPlan,
                  !.stopR = {r \in Rends : /\ tier[r] \in {"map", "error"}
                                           /\ DecidedWant[r] # HaveSpec(r)},
                  !.startR = {r \in Rends : /\ DecidedWant[r] # Absent
                                            /\ DecidedWant[r] # HaveSpec(r)},
                  !.left = IF known THEN {d \in Dests : run.rows[d].on} ELSE {}]
    BY Zenon DEF Decide, DecidedWant, DecidedPlan
  <2> QED
    BY <2>2, <2>3, <2>4 DEF u
<1>5. run \in Locals
  BY <1>1 DEF RunTypes
<1> HIDE DEF s, t, u
<1>6. /\ run' \in Locals
      /\ Runs(run.rows, run.sigs, DecidedWant, DecidedPlan, s, t, u, run.hub, run.old)
  BY <1>2, <1>3, <1>4, <1>5, SetPlan
<1> QED
  BY <1>2, <1>6 DEF Decided, s, t, u

(* What is taken from the renditions that are left.                        *)
StopTaken  == Runs(run.rows, run.sigs, run.want, run.plan, run.stopR \ {Min(run.stopR)},
                   run.startR, run.left, run.hub, run.old)
StartTaken == Runs(run.rows, run.sigs, run.want, run.plan, run.stopR,
                   run.startR \ {Min(run.startR)}, run.left, run.hub, run.old)
LEMMA TakeEffect ==
  ASSUME RunTypes
  PROVE  /\ run' = [run EXCEPT !.stopR = @ \ {Min(run.stopR)}] => run' \in Locals /\ StopTaken
         /\ run' = [run EXCEPT !.startR = @ \ {Min(run.startR)}] => run' \in Locals /\ StartTaken
<1>1. run \in Locals /\ run.stopR \in SUBSET Rends /\ run.startR \in SUBSET Rends
  BY RunFields DEF RunTypes
<1>2. \A x : run.stopR \ {x} \in SUBSET Rends /\ run.startR \ {x} \in SUBSET Rends
  BY <1>1
<1> QED
  BY <1>1, <1>2, SetStopR, SetStartR DEF StopTaken, StartTaken

(* The pass knows what it has read.                                        *)
LEMMA RunTypesKept ==
  ASSUME IInv, EngineStep
  PROVE  RunTypes'
<1>1. CASE Enter \/ Leave
  BY <1>1, IdleIsTyped DEF Enter, Leave, Step, OtherSide, RunTypes, IInv, TypeOK, PCs, Listed,
    Tiered, Planned, Runs
<1>2. CASE ListDestinations \/ ListRenditions
  BY <1>2, WritesOfTheLocals DEF ListDestinations, ListRenditions, Step, OtherSide, StoreTypes,
    RunTypes, IInv, TypeOK, PCs, Listed, Tiered, Planned, Runs
<1>3. CASE Decide
  BY <1>3, DecideEffect DEF Decide, Step, OtherSide, Decided, RunTypes, IInv, TypeOK, PCs, Listed,
    Tiered, Planned, Runs
<1>4. CASE SortDestinations
  BY <1>4 DEF SortDestinations, Step, OtherSide, RunTypes, IInv, TypeOK, PCs, Listed, Tiered,
    Planned, Runs
<1>5. ASSUME NEW d \in Dests, TearStop(d) PROVE RunTypes'
  BY <1>5 DEF TearStop, Tears, RunTypes, IInv, TypeOK, PCs, Listed, Tiered, Planned, Runs
<1>6. ASSUME NEW d \in Dests, TearRelease(d) PROVE RunTypes'
  BY <1>6 DEF TearRelease, Tears, Done, RunTypes, IInv, TypeOK, PCs, Listed, Tiered, Planned, Runs
<1>7. ASSUME NEW d \in Dests, TearBackup(d) PROVE RunTypes'
  BY <1>7 DEF TearBackup, Tears, RunTypes, IInv, TypeOK, PCs, Listed, Tiered, Planned, Runs
<1>8. ASSUME NEW d \in Dests, TearBackupRelease(d) PROVE RunTypes'
  BY <1>8 DEF TearBackupRelease, Tears, Done, RunTypes, IInv, TypeOK, PCs, Listed, Tiered,
    Planned, Runs
<1>9. CASE DestinationsStopped \/ RenditionsStopped \/ RenditionsStarted \/ StopCalled \/
       DestinationsDown \/ EncodesDown
  BY <1>9 DEF DestinationsStopped, RenditionsStopped, RenditionsStarted, StopCalled,
    DestinationsDown, EncodesDown, Step, OtherSide, Halt, RunTypes, IInv, TypeOK, PCs, Listed,
    Tiered, Planned, Runs
<1>10. CASE TakeRendition
  BY <1>10, TakeEffect DEF TakeRendition, Goto, OtherSide, StopTaken, RunTypes, IInv, TypeOK, PCs,
    Listed, Tiered, Planned, Runs
<1>11. CASE StopRendition
  BY <1>11 DEF StopRendition, Step, OtherSide, RunTypes, IInv, TypeOK, PCs, Listed, Tiered,
    Planned, Runs
<1>12. CASE RenditionStopped
  BY <1>12, TakeEffect DEF RenditionStopped, Step, OtherSide, CloseRendition, StopTaken, RunTypes,
    IInv, TypeOK, PCs, Listed, Tiered, Planned, Runs
<1>13. CASE RendBuilt
  <2>1. /\ pc = "startRends" /\ pc' = "publishRend" /\ run' = [run EXCEPT !.hub = FreshHub(Min(run.startR))]
        /\ FreshHub(Min(run.startR)) \in {Min(run.startR)} \X {0, 1} /\ Min(run.startR) \in run.startR
    BY <1>13 DEF RendBuilt
  <2>2. RunTypes
    BY DEF IInv
  <2>3. FreshHub(Min(run.startR)) \in Hubs
    BY <2>1, <2>2, HubNames, Chosen
  <2>4. run' \in Locals /\ Runs(run.rows, run.sigs, run.want, run.plan, run.stopR, run.startR,
                               run.left, FreshHub(Min(run.startR)), run.old)
    BY <2>1, <2>2, <2>3, SetHub DEF RunTypes
  <2> QED
    BY <2>1, <2>2, <2>4 DEF RunTypes, PCs, Listed, Tiered, Planned, Runs
<1>14. CASE RendNotBuilt
  BY <1>14, TakeEffect DEF RendNotBuilt, FailRend, StartTaken, RunTypes, IInv, TypeOK, PCs,
    Listed, Tiered, Planned, Runs
<1>15. CASE PublishRendition
  BY <1>15, SetStarted, RunFields DEF PublishRendition, Goto, OtherSide, Discard, RunTypes, IInv,
    TypeOK, PCs, Listed, Tiered, Planned, Runs
<1>16. CASE RunRendition
  BY <1>16, SetStarted, RunFields DEF RunRendition, Step, OtherSide, RunTypes, IInv, TypeOK, PCs,
    Listed, Tiered, Planned, Runs
<1>17. CASE LookDestination
  BY <1>17, SkipEffect, SetHub, HubForIsTyped, Chosen, RowFields DEF LookDestination, Goto,
    OtherSide, FailDest, Skipped, RunTypes, IInv, TypeOK, PCs, Listed, Tiered, Planned, Runs
<1>18. CASE DestBuilt
  BY <1>18 DEF DestBuilt, Built, RunTypes, IInv, TypeOK, PCs, Listed, Tiered, Planned, Runs
<1>19. CASE DestNotBuilt
  BY <1>19, SkipEffect DEF DestNotBuilt, FailDest, Skipped, RunTypes, IInv, TypeOK, PCs, Listed,
    Tiered, Planned, Runs
<1>20. CASE PublishDestination
  BY <1>20 DEF PublishDestination, Goto, OtherSide, Discard, RunTypes, IInv, TypeOK, PCs, Listed,
    Tiered, Planned, Runs
<1>21. CASE RunDestination
  BY <1>21 DEF RunDestination, Step, OtherSide, RunTypes, IInv, TypeOK, PCs, Listed, Tiered,
    Planned, Runs
<1>22. CASE LookBackup
  BY <1>22, SkipEffect, SetOld, Names, Chosen DEF LookBackup, Goto, OtherSide, Skipped, HeldTypes,
    Passing, OneDest, RunTypes, IInv, TypeOK, PCs, Listed, Tiered, Planned, Runs
<1>23. CASE StopBackup
  BY <1>23 DEF StopBackup, Step, OtherSide, RunTypes, IInv, TypeOK, PCs, Listed, Tiered, Planned,
    Runs
<1>24. CASE DropBackup
  BY <1>24 DEF DropBackup, Step, OtherSide, RunTypes, IInv, TypeOK, PCs, Listed, Tiered, Planned,
    Runs
<1>25. CASE BackupBuilt
  BY <1>25 DEF BackupBuilt, Built, RunTypes, IInv, TypeOK, PCs, Listed, Tiered, Planned, Runs
<1>26. CASE BackupNotBuilt
  BY <1>26 DEF BackupNotBuilt, RunTypes, IInv, TypeOK, PCs, Listed, Tiered, Planned, Runs
<1>27. CASE PublishBackup
  BY <1>27, SkipEffect DEF PublishBackup, Goto, OtherSide, Discard, Skipped, RunTypes, IInv,
    TypeOK, PCs, Listed, Tiered, Planned, Runs
<1>28. CASE RunBackup
  BY <1>28, SkipEffect DEF RunBackup, Step, OtherSide, Skipped, RunTypes, IInv, TypeOK, PCs,
    Listed, Tiered, Planned, Runs
<1>29. CASE Collect
  BY <1>29 DEF Collect, Halt, RunTypes, IInv, TypeOK, PCs, Listed, Tiered, Planned, Runs
<1>30. ASSUME NEW r \in Rends, StopEncode(r) PROVE RunTypes'
  BY <1>30 DEF StopEncode, RunTypes, IInv, TypeOK, PCs, Listed, Tiered, Planned, Runs
<1>31. ASSUME NEW r \in Rends, ReleaseStopped(r) PROVE RunTypes'
  BY <1>31 DEF ReleaseStopped, CloseRendition, RunTypes, IInv, TypeOK, PCs, Listed, Tiered,
    Planned, Runs
<1>32. CASE LoopsDone
  BY <1>32 DEF LoopsDone, Halt, RunTypes, IInv, TypeOK, PCs, Listed, Tiered, Planned, Runs
<1> QED
  BY <1>1, <1>2, <1>3, <1>4, <1>5, <1>6, <1>7, <1>8, <1>9, <1>10, <1>11, <1>12, <1>13, <1>14,
    <1>15, <1>16, <1>17, <1>18, <1>19, <1>20, <1>21, <1>22, <1>23, <1>24, <1>25, <1>26, <1>27,
    <1>28, <1>29, <1>30, <1>31, <1>32 DEF EngineStep

(* The other writes of the pass to its locals.                             *)
Started   == Runs(run.rows, run.sigs, run.want, run.plan, run.stopR,
                  run.startR \ {Min(run.startR)}, run.left, NoHub, run.old)
HubSet(h) ==
  Runs(run.rows, run.sigs, run.want, run.plan, run.stopR, run.startR, run.left, h, run.old)
OldSet(o) ==
  Runs(run.rows, run.sigs, run.want, run.plan, run.stopR, run.startR, run.left, run.hub, o)
LEMMA PassWrites ==
  ASSUME IInv
  PROVE  /\ run' = [run EXCEPT !.startR = @ \ {Min(run.startR)}, !.hub = NoHub] => Started
         /\ RendBuilt => HubSet(FreshHub(Min(run.startR)))
         /\ pc = "startDests" /\ run.left # {} => LET hub == HubFor(run.rows[Next1].rend) IN
              run' = [run EXCEPT !.hub = hub] => HubSet(hub)
         /\ pc = "backup" /\ run' = [run EXCEPT !.old = con[Backup(Next1)]] =>
              OldSet(con[Backup(Next1)])
         /\ Enter \/ Leave => /\ run'.stopR = {} /\ run'.startR = {} /\ run'.left = {}
                              /\ run'.hub = NoHub /\ run'.old = None
<1>1. TypeOK /\ RunTypes /\ Passing /\ run \in Locals /\ HeldTypes /\ run.startR \in SUBSET Rends
  BY RunFields DEF IInv, RunTypes, TypeOK
<1>2. \A x : run.startR \ {x} \in SUBSET Rends
  BY <1>1
<1>3. run' = [run EXCEPT !.startR = @ \ {Min(run.startR)}, !.hub = NoHub] => Started
  BY <1>1, <1>2, SetStarted DEF Started
<1>4. RendBuilt => HubSet(FreshHub(Min(run.startR)))
  <2> SUFFICES ASSUME RendBuilt PROVE HubSet(FreshHub(Min(run.startR)))
    OBVIOUS
  <2>1. FreshHub(Min(run.startR)) \in Hubs /\ run' = [run EXCEPT !.hub = FreshHub(Min(run.startR))]
    BY <1>1, HubNames DEF RendBuilt
  <2> QED
    BY <1>1, <2>1, SetHub DEF HubSet
<1>5. ASSUME pc = "startDests", run.left # {}
      PROVE  LET hub == HubFor(run.rows[Next1].rend) IN
               run' = [run EXCEPT !.hub = hub] => HubSet(hub)
  <2>1. run.rows[Next1] \in Rows
    BY <1>1, <1>5, Chosen DEF RunTypes, Listed
  <2>2. HubFor(run.rows[Next1].rend) \in Hubs \cup {NoHub}
    BY <1>1, <2>1, RowFields, HubForIsTyped
  <2> QED
    BY <1>1, <2>2, SetHub DEF HubSet
<1>6. ASSUME pc = "backup" PROVE con[Backup(Next1)] \in ConType
  BY <1>1, <1>6, Chosen, Names DEF Passing, OneDest, HeldTypes
<1>7. pc = "backup" /\ run' = [run EXCEPT !.old = con[Backup(Next1)]] => OldSet(con[Backup(Next1)])
  BY <1>1, <1>6, SetOld DEF OldSet
<1>8. Enter \/ Leave => /\ run'.stopR = {} /\ run'.startR = {} /\ run'.left = {}
                        /\ run'.hub = NoHub /\ run'.old = None
  <2>1. /\ Idle.stopR = {} /\ Idle.startR = {} /\ Idle.left = {}
        /\ Idle.hub = NoHub /\ Idle.old = None
    BY DEF Idle
  <2> QED
    BY <2>1, IdleIsTyped DEF Enter, Leave
<1> QED
  BY <1>3, <1>4, <1>5, <1>7, <1>8

-----------------------------------------------------------------------------

(* Where the pass is, and whom it has in hand.                             *)
LEMMA PassingKept ==
  ASSUME IInv, EngineStep
  PROVE  Passing'
<1>1. CASE Enter \/ Leave
  BY <1>1, PassWrites DEF Enter, Leave, Step, OtherSide, Passing, IInv, Starting, OneDest,
    Dropping, Runs, held
<1>2. CASE ListDestinations \/ ListRenditions
  BY <1>2, WritesOfTheLocals DEF ListDestinations, ListRenditions, Step, OtherSide, Passing, IInv,
    Starting, OneDest, Dropping, Runs, held
<1>3. CASE Decide
  BY <1>3, DecideEffect DEF Decide, Step, OtherSide, Decided, Passing, IInv, Starting, OneDest,
    Dropping, Runs, held
<1>4. CASE SortDestinations
  BY <1>4 DEF SortDestinations, Step, OtherSide, Passing, IInv, Starting, OneDest, Dropping, Runs,
    held
<1>5. ASSUME NEW d \in Dests, TearStop(d) PROVE Passing'
  BY <1>5 DEF TearStop, Tears, Passing, IInv, Starting, OneDest, Dropping, Runs, held
<1>6. ASSUME NEW d \in Dests, TearRelease(d) PROVE Passing'
  BY <1>6 DEF TearRelease, Tears, Done, TypeOK, HeldTypes, Passing, IInv, Starting, OneDest,
    Dropping, Runs, held
<1>7. ASSUME NEW d \in Dests, TearBackup(d) PROVE Passing'
  BY <1>7 DEF TearBackup, Tears, Passing, IInv, Starting, OneDest, Dropping, Runs, held
<1>8. ASSUME NEW d \in Dests, TearBackupRelease(d) PROVE Passing'
  BY <1>8 DEF TearBackupRelease, Tears, Done, TypeOK, HeldTypes, Passing, IInv, Starting, OneDest,
    Dropping, Runs, held
<1>9. CASE DestinationsStopped \/ RenditionsStopped \/ RenditionsStarted \/ StopCalled \/
       DestinationsDown \/ EncodesDown
  BY <1>9 DEF DestinationsStopped, RenditionsStopped, RenditionsStarted, StopCalled,
    DestinationsDown, EncodesDown, Step, OtherSide, Halt, Passing, IInv, Starting, OneDest,
    Dropping, Runs, held
<1>10. CASE TakeRendition
  BY <1>10, TakeEffect, Chosen DEF TakeRendition, Goto, OtherSide, StopTaken, TypeOK, HeldTypes,
    Passing, IInv, Starting, OneDest, Dropping, Runs, held
<1>11. CASE StopRendition
  BY <1>11 DEF StopRendition, Step, OtherSide, Passing, IInv, Starting, OneDest, Dropping, Runs,
    held
<1>12. CASE RenditionStopped
  BY <1>12, TakeEffect, Chosen DEF RenditionStopped, Step, OtherSide, CloseRendition, StopTaken,
    TypeOK, HeldTypes, Passing, IInv, Starting, OneDest, Dropping, Runs, held
<1>13. CASE RendBuilt
  BY <1>13, PassWrites, Chosen DEF RendBuilt, Built, HubSet, Passing, IInv, Starting, OneDest,
    Dropping, Runs, held
<1>14. CASE RendNotBuilt
  BY <1>14, TakeEffect, Chosen DEF RendNotBuilt, FailRend, StartTaken, Passing, IInv, Starting,
    OneDest, Dropping, Runs, held
<1>15. CASE PublishRendition
  BY <1>15, PassWrites, Chosen DEF PublishRendition, Goto, OtherSide, Discard, Started, TypeOK,
    HeldTypes, Passing, IInv, Starting, OneDest, Dropping, Runs, held
<1>16. CASE RunRendition
  BY <1>16, PassWrites, Chosen DEF RunRendition, Step, OtherSide, Started, Passing, IInv,
    Starting, OneDest, Dropping, Runs, held
<1>17. CASE LookDestination
  BY <1>17, PassWrites, SkipEffect, Chosen DEF LookDestination, Goto, OtherSide, FailDest, HubSet,
    Skipped, TypeOK, HeldTypes, Halting, Passing, IInv, Starting, OneDest, Dropping, Runs, held
<1>18. CASE DestBuilt
  BY <1>18 DEF DestBuilt, Built, Passing, IInv, Starting, OneDest, Dropping, Runs, held
<1>19. CASE DestNotBuilt
  BY <1>19, SkipEffect, Chosen DEF DestNotBuilt, FailDest, Skipped, TypeOK, HeldTypes, Halting,
    Passing, IInv, Starting, OneDest, Dropping, Runs, held
<1>20. CASE PublishDestination
  BY <1>20, Chosen DEF PublishDestination, Goto, OtherSide, Discard, TypeOK, HeldTypes, Halting,
    Passing, IInv, Starting, OneDest, Dropping, Runs, held
<1>21. CASE RunDestination
  BY <1>21 DEF RunDestination, Step, OtherSide, Passing, IInv, Starting, OneDest, Dropping, Runs,
    held
<1>22. CASE LookBackup
  BY <1>22, PassWrites, SkipEffect, Chosen DEF LookBackup, Goto, OtherSide, OldSet, Skipped,
    Passing, IInv, Starting, OneDest, Dropping, Runs, held
<1>23. CASE StopBackup
  BY <1>23 DEF StopBackup, Step, OtherSide, Passing, IInv, Starting, OneDest, Dropping, Runs, held
<1>24. CASE DropBackup
  BY <1>24 DEF DropBackup, Step, OtherSide, Passing, IInv, Starting, OneDest, Dropping, Runs, held
<1>25. CASE BackupBuilt
  BY <1>25 DEF BackupBuilt, Built, Passing, IInv, Starting, OneDest, Dropping, Runs, held
<1>26. CASE BackupNotBuilt
  BY <1>26 DEF BackupNotBuilt, Passing, IInv, Starting, OneDest, Dropping, Runs, held
<1>27. CASE PublishBackup
  BY <1>27, SkipEffect, Chosen DEF PublishBackup, Goto, OtherSide, Discard, Skipped, Passing,
    IInv, Starting, OneDest, Dropping, Runs, held
<1>28. CASE RunBackup
  BY <1>28, SkipEffect, Chosen DEF RunBackup, Step, OtherSide, Skipped, Passing, IInv, Starting,
    OneDest, Dropping, Runs, held
<1>29. CASE Collect
  BY <1>29 DEF Collect, Halt, Passing, IInv, Starting, OneDest, Dropping, Runs, held
<1>30. ASSUME NEW r \in Rends, StopEncode(r) PROVE Passing'
  BY <1>30 DEF StopEncode, Passing, IInv, Starting, OneDest, Dropping, Runs, held
<1>31. ASSUME NEW r \in Rends, ReleaseStopped(r) PROVE Passing'
  BY <1>31 DEF ReleaseStopped, CloseRendition, Passing, IInv, Starting, OneDest, Dropping, Runs,
    held
<1>32. CASE LoopsDone
  BY <1>32 DEF LoopsDone, Halt, Passing, IInv, Starting, OneDest, Dropping, Runs, held
<1> QED
  BY <1>1, <1>2, <1>3, <1>4, <1>5, <1>6, <1>7, <1>8, <1>9, <1>10, <1>11, <1>12, <1>13, <1>14,
    <1>15, <1>16, <1>17, <1>18, <1>19, <1>20, <1>21, <1>22, <1>23, <1>24, <1>25, <1>26, <1>27,
    <1>28, <1>29, <1>30, <1>31, <1>32 DEF EngineStep

(* What Collect makes of the maps.                                         *)
LEMMA CollectEffect ==
  ASSUME HeldTypes, Collect
  PROVE  /\ \A d \in Dests : /\ place[d] = "map" => place'[d] = "stopping"
                             /\ place[d] = "error" => place'[d] = "none"
                             /\ place[d] \notin {"map", "error"} => place'[d] = place[d]
         /\ \A r \in Rends : /\ tier[r] = "map" => tier'[r] = "stopping"
                             /\ tier[r] = "error" => tier'[r] = "none"
                             /\ tier[r] \notin {"map", "error"} => tier'[r] = tier[r]
         /\ UNCHANGED <<store, con, ph, feed, relay, pc, run, fresh>>
         /\ stop = "called" /\ stop' = "dests"
BY DEF Collect, Halt, HeldTypes

(* What is to be started has been stopped.                                 *)
LEMMA StartingKept ==
  ASSUME IInv, EngineStep
  PROVE  Starting'
<1>1. CASE Enter \/ Leave
  BY <1>1, PassWrites DEF Enter, Leave, Step, OtherSide, Starting, Passing, Halting, stopped,
    IInv, OneDest, Dropping, Runs, held, Next1
<1>2. CASE ListDestinations \/ ListRenditions
  BY <1>2, WritesOfTheLocals DEF ListDestinations, ListRenditions, Step, OtherSide, Starting,
    Passing, Halting, stopped, IInv, OneDest, Dropping, Runs, held, Next1
<1>3. CASE Decide
  BY <1>3, DecideEffect DEF Decide, Step, OtherSide, Decided, DecidedWant, Passing, TypeOK,
    HeldTypes, Starting, Halting, stopped, IInv, OneDest, Dropping, Runs, held, Next1
<1>4. CASE SortDestinations
  BY <1>4 DEF SortDestinations, Step, OtherSide, TypeOK, HeldTypes, Starting, Passing, Halting,
    stopped, IInv, OneDest, Dropping, Runs, held, Next1
<1>5. ASSUME NEW d \in Dests, TearStop(d) PROVE Starting'
  BY <1>5 DEF TearStop, Tears, Starting, Passing, Halting, stopped, IInv, OneDest, Dropping, Runs,
    held, Next1
<1>6. ASSUME NEW d \in Dests, TearRelease(d) PROVE Starting'
  <2>1. CASE UNCHANGED place
    BY <1>6, <2>1 DEF TearRelease, Tears, Starting, IInv, stopped, Next1
  <2>2. CASE Done(d)
    BY <1>6, <2>2 DEF TearRelease, Tears, Done, TypeOK, HeldTypes, Starting, Passing, Halting,
      stopped, IInv, OneDest, Dropping, Next1
  <2> QED
    BY <1>6, <2>1, <2>2 DEF TearRelease
<1>7. ASSUME NEW d \in Dests, TearBackup(d) PROVE Starting'
  BY <1>7 DEF TearBackup, Tears, Starting, Passing, Halting, stopped, IInv, OneDest, Dropping,
    Runs, held, Next1
<1>8. ASSUME NEW d \in Dests, TearBackupRelease(d) PROVE Starting'
  BY <1>8 DEF TearBackupRelease, Tears, Done, TypeOK, HeldTypes, Starting, Passing, Halting,
    stopped, IInv, OneDest, Dropping, Runs, held, Next1
<1>9. CASE DestinationsStopped
  BY <1>9, Names DEF DestinationsStopped, Step, OtherSide, TypeOK, HeldTypes, Starting, Passing,
    Halting, stopped, IInv, OneDest, Dropping, Runs, held, Next1
<1>10. CASE TakeRendition
  BY <1>10, TakeEffect, Chosen DEF TakeRendition, Goto, OtherSide, StopTaken, TypeOK, HeldTypes,
    Starting, Passing, Halting, stopped, IInv, OneDest, Dropping, Runs, held, Next1
<1>11. CASE StopRendition
  BY <1>11, Chosen DEF StopRendition, Step, OtherSide, Starting, Passing, Halting, stopped, IInv,
    OneDest, Dropping, Runs, held, Next1
<1>12. CASE RenditionStopped
  BY <1>12, TakeEffect, Chosen DEF RenditionStopped, Step, OtherSide, CloseRendition, StopTaken,
    TypeOK, HeldTypes, Starting, Passing, Halting, stopped, IInv, OneDest, Dropping, Runs, held,
    Next1
<1>13. CASE RenditionsStopped
  BY <1>13, Chosen DEF RenditionsStopped, Step, OtherSide, TypeOK, HeldTypes, Starting, Passing,
    Halting, stopped, IInv, OneDest, Dropping, Runs, held, Next1
<1>14. CASE RendBuilt
  BY <1>14, PassWrites, Chosen DEF RendBuilt, Built, HubSet, Starting, Passing, Halting, stopped,
    IInv, OneDest, Dropping, Runs, held, Next1
<1>15. CASE RendNotBuilt
  BY <1>15, TakeEffect, Chosen DEF RendNotBuilt, FailRend, StartTaken, TypeOK, HeldTypes,
    Starting, Passing, Halting, stopped, IInv, OneDest, Dropping, Runs, held, Next1
<1>16. CASE PublishRendition
  BY <1>16, PassWrites, Chosen DEF PublishRendition, Goto, OtherSide, Discard, Started, TypeOK,
    HeldTypes, Starting, Passing, Halting, stopped, IInv, OneDest, Dropping, Runs, held, Next1
<1>17. CASE RunRendition
  BY <1>17, PassWrites, Chosen DEF RunRendition, Step, OtherSide, Started, Starting, Passing,
    Halting, stopped, IInv, OneDest, Dropping, Runs, held, Next1
<1>18. CASE RenditionsStarted \/ StopCalled \/ DestinationsDown \/ EncodesDown
  BY <1>18 DEF RenditionsStarted, StopCalled, DestinationsDown, EncodesDown, Step, OtherSide,
    TypeOK, HeldTypes, Halt, Starting, Passing, Halting, stopped, IInv, OneDest, Dropping, Runs,
    held, Next1
<1>19. CASE LookDestination
  BY <1>19, PassWrites, SkipEffect, Chosen DEF LookDestination, Goto, OtherSide, FailDest, HubSet,
    Skipped, TypeOK, HeldTypes, Starting, Passing, Halting, stopped, IInv, OneDest, Dropping,
    Runs, held, Next1
<1>20. CASE DestBuilt
  BY <1>20, Chosen DEF DestBuilt, Built, Starting, Passing, Halting, stopped, IInv, OneDest,
    Dropping, Runs, held, Next1
<1>21. CASE DestNotBuilt
  BY <1>21, SkipEffect, Chosen DEF DestNotBuilt, FailDest, Skipped, TypeOK, HeldTypes, Starting,
    Passing, Halting, stopped, IInv, OneDest, Dropping, Runs, held, Next1
<1>22. CASE PublishDestination
  BY <1>22, Chosen DEF PublishDestination, Goto, OtherSide, Discard, TypeOK, HeldTypes, Starting,
    Passing, Halting, stopped, IInv, OneDest, Dropping, Runs, held, Next1
<1>23. CASE RunDestination
  BY <1>23, Chosen DEF RunDestination, Step, OtherSide, Starting, Passing, Halting, stopped, IInv,
    OneDest, Dropping, Runs, held, Next1
<1>24. CASE LookBackup
  BY <1>24, PassWrites, SkipEffect, Chosen DEF LookBackup, Goto, OtherSide, OldSet, Skipped,
    Starting, Passing, Halting, stopped, IInv, OneDest, Dropping, Runs, held, Next1
<1>25. CASE StopBackup
  BY <1>25, Chosen DEF StopBackup, Step, OtherSide, Starting, Passing, Halting, stopped, IInv,
    OneDest, Dropping, Runs, held, Next1
<1>26. CASE DropBackup
  BY <1>26, Chosen DEF DropBackup, Step, OtherSide, Starting, Passing, Halting, stopped, IInv,
    OneDest, Dropping, Runs, held, Next1
<1>27. CASE BackupBuilt
  BY <1>27, Chosen DEF BackupBuilt, Built, Starting, Passing, Halting, stopped, IInv, OneDest,
    Dropping, Runs, held, Next1
<1>28. CASE BackupNotBuilt
  BY <1>28, Chosen DEF BackupNotBuilt, Starting, Passing, Halting, stopped, IInv, OneDest,
    Dropping, Runs, held, Next1
<1>29. CASE PublishBackup
  BY <1>29, SkipEffect, Chosen DEF PublishBackup, Goto, OtherSide, Discard, Skipped, TypeOK,
    HeldTypes, Starting, Passing, Halting, stopped, IInv, OneDest, Dropping, Runs, held, Next1
<1>30. CASE RunBackup
  BY <1>30, SkipEffect, Chosen DEF RunBackup, Step, OtherSide, Skipped, Starting, Passing,
    Halting, stopped, IInv, OneDest, Dropping, Runs, held, Next1
<1>31. CASE Collect
  <2>1. HeldTypes /\ Starting
    BY DEF IInv, TypeOK
  <2>2. UNCHANGED <<pc, run>> /\ stopped' /\ Next1' = Next1
    BY <1>31, <2>1, CollectEffect DEF stopped, Next1
  <2> QED
    BY <1>31, <2>1, <2>2, CollectEffect, Chosen DEF Starting, HeldTypes, IInv, Passing, OneDest
<1>32. ASSUME NEW r \in Rends, StopEncode(r) PROVE Starting'
  BY <1>32 DEF StopEncode, Starting, Passing, Halting, stopped, IInv, OneDest, Dropping, Runs,
    held, Next1
<1>33. ASSUME NEW r \in Rends, ReleaseStopped(r) PROVE Starting'
  BY <1>33 DEF ReleaseStopped, CloseRendition, TypeOK, HeldTypes, Starting, Passing, Halting,
    stopped, IInv, OneDest, Dropping, Runs, held, Next1
<1>34. CASE LoopsDone
  BY <1>34 DEF LoopsDone, Halt, Starting, Passing, Halting, stopped, IInv, OneDest, Dropping,
    Runs, held, Next1
<1> QED
  BY <1>1, <1>2, <1>3, <1>4, <1>5, <1>6, <1>7, <1>8, <1>9, <1>10, <1>11, <1>12, <1>13, <1>14,
    <1>15, <1>16, <1>17, <1>18, <1>19, <1>20, <1>21, <1>22, <1>23, <1>24, <1>25, <1>26, <1>27,
    <1>28, <1>29, <1>30, <1>31, <1>32, <1>33, <1>34 DEF EngineStep

(* How far the shutdown has come.                                          *)
LEMMA HaltingKept ==
  ASSUME IInv, EngineStep
  PROVE  Halting' /\ stop' \in {"no", "called", "dests", "rends", "release", "done"}
<1>1. CASE Enter \/ ListDestinations \/ ListRenditions \/ DestinationsStopped \/ RenditionsStopped
       \/ RenditionsStarted \/ Leave \/ StopCalled \/ DestinationsDown \/ EncodesDown
  BY <1>1 DEF Enter, ListDestinations, ListRenditions, DestinationsStopped, RenditionsStopped,
    RenditionsStarted, Leave, StopCalled, DestinationsDown, EncodesDown, Step, OtherSide, Halt,
    Starting, Halting, TypeOK, stopped, IInv, held
<1>2. CASE Decide
  BY <1>2 DEF Decide, Step, OtherSide, Decided, Starting, Halting, TypeOK, stopped, IInv, held
<1>3. CASE SortDestinations
  BY <1>3 DEF SortDestinations, Step, OtherSide, TypeOK, HeldTypes, Starting, Halting, stopped,
    IInv, held
<1>4. ASSUME NEW d \in Dests, TearStop(d) PROVE Halting' /\ stop' \in {"no", "called", "dests",
       "rends", "release", "done"}
  BY <1>4, StopEffect, Names DEF TearStop, Tears, Processes, TypeOK, SameBut, Starting, Halting,
    stopped, IInv, held
<1>5. ASSUME NEW d \in Dests, TearRelease(d) PROVE Halting' /\ stop' \in {"no", "called", "dests",
       "rends", "release", "done"}
  BY <1>5 DEF TearRelease, Tears, Done, TypeOK, HeldTypes, Starting, Halting, stopped, IInv, held
<1>6. ASSUME NEW d \in Dests, TearBackup(d) PROVE Halting' /\ stop' \in {"no", "called", "dests",
       "rends", "release", "done"}
  BY <1>6, StopEffect, Names DEF TearBackup, Tears, Processes, TypeOK, SameBut, Starting, Halting,
    stopped, IInv, held
<1>7. ASSUME NEW d \in Dests, TearBackupRelease(d) PROVE Halting' /\ stop' \in {"no", "called",
       "dests", "rends", "release", "done"}
  BY <1>7 DEF TearBackupRelease, Tears, Done, TypeOK, HeldTypes, Starting, Halting, stopped, IInv,
    held
<1>8. CASE TakeRendition
  BY <1>8 DEF TakeRendition, Goto, OtherSide, StopTaken, TypeOK, HeldTypes, Starting, Halting,
    stopped, IInv, held
<1>9. CASE StopRendition
  BY <1>9, StopEffect, Names, Chosen DEF StopRendition, Step, OtherSide, Processes, TypeOK,
    SameBut, Passing, OneDest, Dropping, Starting, Halting, stopped, IInv, held
<1>10. CASE RenditionStopped
  BY <1>10 DEF RenditionStopped, Step, OtherSide, CloseRendition, StopTaken, TypeOK, HeldTypes,
    Starting, Halting, stopped, IInv, held
<1>11. CASE RendBuilt
  BY <1>11 DEF RendBuilt, Built, HubSet, Starting, Halting, TypeOK, stopped, IInv, held
<1>12. CASE RendNotBuilt
  BY <1>12 DEF RendNotBuilt, FailRend, StartTaken, TypeOK, HeldTypes, Starting, Halting, stopped,
    IInv, held
<1>13. CASE PublishRendition
  BY <1>13, Names, Chosen DEF PublishRendition, Goto, OtherSide, Discard, Started, TypeOK,
    HeldTypes, Passing, OneDest, Dropping, Starting, Halting, stopped, IInv, held
<1>14. CASE RunRendition
  BY <1>14, StartEffect, Names, Chosen DEF RunRendition, Step, OtherSide, Started, TypeOK,
    SameBut, Passing, OneDest, Dropping, Starting, Halting, stopped, IInv, held
<1>15. CASE LookDestination
  BY <1>15 DEF LookDestination, Goto, OtherSide, FailDest, HubSet, Skipped, TypeOK, HeldTypes,
    Starting, Halting, stopped, IInv, held
<1>16. CASE DestBuilt
  BY <1>16 DEF DestBuilt, Built, Starting, Halting, TypeOK, stopped, IInv, held
<1>17. CASE DestNotBuilt
  BY <1>17 DEF DestNotBuilt, FailDest, Skipped, TypeOK, HeldTypes, Starting, Halting, stopped,
    IInv, held
<1>18. CASE PublishDestination
  BY <1>18, Names, Chosen DEF PublishDestination, Goto, OtherSide, Discard, TypeOK, HeldTypes,
    Passing, OneDest, Dropping, Starting, Halting, stopped, IInv, held
<1>19. CASE RunDestination
  BY <1>19, StartEffect, Names, Chosen DEF RunDestination, Step, OtherSide, TypeOK, SameBut,
    Passing, OneDest, Dropping, Starting, Halting, stopped, IInv, held
<1>20. CASE LookBackup
  BY <1>20 DEF LookBackup, Goto, OtherSide, OldSet, Skipped, Starting, Halting, TypeOK, stopped,
    IInv, held
<1>21. CASE StopBackup
  BY <1>21, StopEffect, Names, Chosen DEF StopBackup, Step, OtherSide, Processes, TypeOK, SameBut,
    Passing, OneDest, Dropping, Starting, Halting, stopped, IInv, held
<1>22. CASE DropBackup
  BY <1>22 DEF DropBackup, Step, OtherSide, Starting, Halting, TypeOK, stopped, IInv, held
<1>23. CASE BackupBuilt
  BY <1>23 DEF BackupBuilt, Built, Starting, Halting, TypeOK, stopped, IInv, held
<1>24. CASE BackupNotBuilt
  BY <1>24 DEF BackupNotBuilt, Starting, Halting, TypeOK, stopped, IInv, held
<1>25. CASE PublishBackup
  BY <1>25, Names, Chosen DEF PublishBackup, Goto, OtherSide, Discard, Skipped, TypeOK, HeldTypes,
    Passing, OneDest, Dropping, Starting, Halting, stopped, IInv, held
<1>26. CASE RunBackup
  BY <1>26, StartEffect, Names, Chosen DEF RunBackup, Step, OtherSide, Skipped, TypeOK, SameBut,
    Passing, OneDest, Dropping, Starting, Halting, stopped, IInv, held
<1>27. CASE Collect
  BY <1>27 DEF Collect, Halt, TypeOK, HeldTypes, Starting, Halting, stopped, IInv, held
<1>28. ASSUME NEW r \in Rends, StopEncode(r) PROVE Halting' /\ stop' \in {"no", "called", "dests",
       "rends", "release", "done"}
  BY <1>28, StopEffect, Names DEF StopEncode, Processes, TypeOK, SameBut, HeldTypes, Starting,
    Halting, stopped, IInv, held
<1>29. ASSUME NEW r \in Rends, ReleaseStopped(r) PROVE Halting' /\ stop' \in {"no", "called",
       "dests", "rends", "release", "done"}
  BY <1>29 DEF ReleaseStopped, CloseRendition, TypeOK, HeldTypes, Starting, Halting, stopped,
    IInv, held
<1>30. CASE LoopsDone
  BY <1>30 DEF LoopsDone, Halt, Starting, Halting, TypeOK, stopped, IInv, held
<1> QED
  BY <1>1, <1>2, <1>3, <1>4, <1>5, <1>6, <1>7, <1>8, <1>9, <1>10, <1>11, <1>12, <1>13, <1>14,
    <1>15, <1>16, <1>17, <1>18, <1>19, <1>20, <1>21, <1>22, <1>23, <1>24, <1>25, <1>26, <1>27,
    <1>28, <1>29, <1>30 DEF EngineStep

-----------------------------------------------------------------------------

(* A consumer has a process, a port and a hub, or none of them.            *)
LEMMA ConShapeKept ==
  ASSUME IInv, EngineStep
  PROVE  ConShape'
<1>1. CASE Enter \/ ListDestinations \/ ListRenditions \/ Decide \/ DestinationsStopped \/
       RenditionsStopped \/ RenditionsStarted \/ LookBackup \/ Leave \/ StopCalled \/
       DestinationsDown \/ EncodesDown
  BY <1>1 DEF Enter, ListDestinations, ListRenditions, Decide, DestinationsStopped,
    RenditionsStopped, RenditionsStarted, LookBackup, Leave, StopCalled, DestinationsDown,
    EncodesDown, Step, OtherSide, Goto, Halt, IInv, Processes, held, ConShape
<1>2. CASE SortDestinations
  BY <1>2 DEF SortDestinations, Step, OtherSide, IInv, Processes, held, ConShape
<1>3. ASSUME NEW d \in Dests, TearStop(d) PROVE ConShape'
  BY <1>3, StopEffect, Names, ConFields DEF TearStop, Tears, Processes, TypeOK, SameBut,
    HeldTypes, IInv, held, ConShape
<1>4. ASSUME NEW d \in Dests, TearRelease(d) PROVE ConShape'
  BY <1>4 DEF TearRelease, Tears, Done, IInv, Processes, held, ConShape
<1>5. ASSUME NEW d \in Dests, TearBackup(d) PROVE ConShape'
  BY <1>5, StopEffect, Names, ConFields DEF TearBackup, Tears, Processes, TypeOK, SameBut,
    HeldTypes, IInv, held, ConShape
<1>6. ASSUME NEW d \in Dests, TearBackupRelease(d) PROVE ConShape'
  BY <1>6 DEF TearBackupRelease, Tears, Done, IInv, Processes, held, ConShape
<1>7. CASE TakeRendition
  BY <1>7 DEF TakeRendition, Goto, OtherSide, IInv, Processes, held, ConShape
<1>8. CASE StopRendition
  BY <1>8, StopEffect, Names, Chosen, ConFields DEF StopRendition, Step, OtherSide, Processes,
    TypeOK, SameBut, Passing, OneDest, Dropping, HeldTypes, IInv, held, ConShape
<1>9. CASE RenditionStopped
  BY <1>9 DEF RenditionStopped, Step, OtherSide, CloseRendition, IInv, Processes, held, ConShape
<1>10. CASE RendBuilt
  BY <1>10 DEF RendBuilt, Built, IInv, Processes, held, ConShape
<1>11. CASE RendNotBuilt
  BY <1>11 DEF RendNotBuilt, FailRend, IInv, Processes, held, ConShape
<1>12. CASE PublishRendition
  BY <1>12, Names, Chosen, NoneIsTyped, PortsAssumption DEF PublishRendition, Goto, OtherSide,
    Discard, TypeOK, HeldTypes, Passing, OneDest, Dropping, FreshShape, IInv, Processes, held,
    ConShape
<1>13. CASE RunRendition
  BY <1>13, StartEffect, Names, Chosen, ConFields DEF RunRendition, Step, OtherSide, TypeOK,
    SameBut, Passing, OneDest, Dropping, HeldTypes, IInv, Processes, held, ConShape
<1>14. CASE LookDestination
  BY <1>14 DEF LookDestination, Goto, OtherSide, FailDest, IInv, Processes, held, ConShape
<1>15. CASE DestBuilt
  BY <1>15 DEF DestBuilt, Built, IInv, Processes, held, ConShape
<1>16. CASE DestNotBuilt
  BY <1>16 DEF DestNotBuilt, FailDest, IInv, Processes, held, ConShape
<1>17. CASE PublishDestination
  BY <1>17, Names, Chosen, NoneIsTyped, PortsAssumption DEF PublishDestination, Goto, OtherSide,
    Discard, TypeOK, HeldTypes, Passing, OneDest, Dropping, FreshShape, IInv, Processes, held,
    ConShape
<1>18. CASE RunDestination
  BY <1>18, StartEffect, Names, Chosen, ConFields DEF RunDestination, Step, OtherSide, TypeOK,
    SameBut, Passing, OneDest, Dropping, HeldTypes, IInv, Processes, held, ConShape
<1>19. CASE StopBackup
  BY <1>19, StopEffect, Names, Chosen, ConFields DEF StopBackup, Step, OtherSide, Processes,
    TypeOK, SameBut, Passing, OneDest, Dropping, HeldTypes, IInv, held, ConShape
<1>20. CASE DropBackup
  BY <1>20 DEF DropBackup, Step, OtherSide, IInv, Processes, held, ConShape
<1>21. CASE BackupBuilt
  BY <1>21 DEF BackupBuilt, Built, IInv, Processes, held, ConShape
<1>22. CASE BackupNotBuilt
  BY <1>22 DEF BackupNotBuilt, IInv, Processes, held, ConShape
<1>23. CASE PublishBackup
  BY <1>23, Names, Chosen, NoneIsTyped, PortsAssumption DEF PublishBackup, Goto, OtherSide,
    Discard, TypeOK, HeldTypes, Passing, OneDest, Dropping, FreshShape, IInv, Processes, held,
    ConShape
<1>24. CASE RunBackup
  BY <1>24, StartEffect, Names, Chosen, ConFields DEF RunBackup, Step, OtherSide, TypeOK, SameBut,
    Passing, OneDest, Dropping, HeldTypes, IInv, Processes, held, ConShape
<1>25. CASE Collect
  BY <1>25 DEF Collect, Halt, IInv, Processes, held, ConShape
<1>26. ASSUME NEW r \in Rends, StopEncode(r) PROVE ConShape'
  BY <1>26, StopEffect, Names, ConFields DEF StopEncode, Processes, TypeOK, SameBut, HeldTypes,
    IInv, held, ConShape
<1>27. ASSUME NEW r \in Rends, ReleaseStopped(r) PROVE ConShape'
  BY <1>27 DEF ReleaseStopped, CloseRendition, IInv, Processes, held, ConShape
<1>28. CASE LoopsDone
  BY <1>28 DEF LoopsDone, Halt, IInv, Processes, held, ConShape
<1> QED
  BY <1>1, <1>2, <1>3, <1>4, <1>5, <1>6, <1>7, <1>8, <1>9, <1>10, <1>11, <1>12, <1>13, <1>14,
    <1>15, <1>16, <1>17, <1>18, <1>19, <1>20, <1>21, <1>22, <1>23, <1>24, <1>25, <1>26, <1>27,
    <1>28 DEF EngineStep

(* A process that is not started yet is about to be.                      *)
LEMMA NewIsStartingKept ==
  ASSUME IInv, EngineStep
  PROVE  NewIsStarting'
<1>1. CASE Enter \/ Leave
  BY <1>1, PassWrites DEF Enter, Leave, Step, OtherSide, IInv, Processes, held, NewIsStarting,
    Runs, Next1
<1>2. CASE ListDestinations \/ ListRenditions
  BY <1>2, WritesOfTheLocals DEF ListDestinations, ListRenditions, Step, OtherSide, IInv,
    Processes, held, NewIsStarting, Runs, Next1
<1>3. CASE Decide
  BY <1>3, DecideEffect DEF Decide, Step, OtherSide, Decided, IInv, Processes, held,
    NewIsStarting, Runs, Next1
<1>4. CASE SortDestinations
  BY <1>4 DEF SortDestinations, Step, OtherSide, IInv, Processes, held, NewIsStarting, Runs, Next1
<1>5. ASSUME NEW d \in Dests, TearStop(d) PROVE NewIsStarting'
  BY <1>5, StopEffect, Names, ConFields DEF TearStop, Tears, Processes, TypeOK, SameBut,
    HeldTypes, IInv, held, NewIsStarting, Runs, Next1
<1>6. ASSUME NEW d \in Dests, TearRelease(d) PROVE NewIsStarting'
  BY <1>6 DEF TearRelease, Tears, Done, IInv, Processes, held, NewIsStarting, Runs, Next1
<1>7. ASSUME NEW d \in Dests, TearBackup(d) PROVE NewIsStarting'
  BY <1>7, StopEffect, Names, ConFields DEF TearBackup, Tears, Processes, TypeOK, SameBut,
    HeldTypes, IInv, held, NewIsStarting, Runs, Next1
<1>8. ASSUME NEW d \in Dests, TearBackupRelease(d) PROVE NewIsStarting'
  BY <1>8 DEF TearBackupRelease, Tears, Done, IInv, Processes, held, NewIsStarting, Runs, Next1
<1>9. CASE DestinationsStopped \/ RenditionsStopped \/ RenditionsStarted \/ StopCalled \/
       DestinationsDown \/ EncodesDown
  BY <1>9 DEF DestinationsStopped, RenditionsStopped, RenditionsStarted, StopCalled,
    DestinationsDown, EncodesDown, Step, OtherSide, Halt, IInv, Processes, held, NewIsStarting,
    Runs, Next1
<1>10. CASE TakeRendition
  BY <1>10, TakeEffect, Chosen, Names DEF TakeRendition, Goto, OtherSide, StopTaken, Passing,
    IInv, Processes, held, NewIsStarting, Runs, Next1
<1>11. CASE StopRendition
  <2>1. /\ pc = "stopRend" /\ StopProcess(Encode(Min(run.stopR)))
        /\ Min(run.stopR) \in Rends /\ NewIsStarting
    BY <1>11, Chosen DEF StopRendition, Step, Passing, IInv, Processes
  <2>2. \A c \in Consumers : con[c].proc # "new"
    BY <2>1 DEF NewIsStarting
  <2>3. \A c \in Consumers : con'[c].proc \in {con[c].proc, "none", "gone"}
    BY <2>1, StopEffect, Names DEF IInv, TypeOK, Processes
  <2> QED
    BY <2>2, <2>3 DEF NewIsStarting
<1>12. CASE RenditionStopped
  BY <1>12, TakeEffect, Chosen, Names DEF RenditionStopped, Step, OtherSide, CloseRendition,
    StopTaken, Passing, IInv, Processes, held, NewIsStarting, Runs, Next1
<1>13. CASE RendBuilt
  BY <1>13, PassWrites, Chosen, Names DEF RendBuilt, Built, HubSet, Passing, IInv, Processes,
    held, NewIsStarting, Runs, Next1
<1>14. CASE RendNotBuilt
  BY <1>14, TakeEffect, Chosen, Names DEF RendNotBuilt, FailRend, StartTaken, Passing, IInv,
    Processes, held, NewIsStarting, Runs, Next1
<1>15. CASE PublishRendition
  BY <1>15, PassWrites, Names, Chosen, NoneIsTyped DEF PublishRendition, Goto, OtherSide, Discard,
    Started, TypeOK, HeldTypes, Passing, OneDest, Dropping, FreshShape, IInv, Processes, held,
    NewIsStarting, Runs, Next1
<1>16. CASE RunRendition
  BY SMTT(30), <1>16, PassWrites, StartEffect, Names, Chosen, ConFields
     DEF RunRendition, Step, OtherSide,
    Started, TypeOK, SameBut, Passing, OneDest, Dropping, HeldTypes, IInv, Processes, held,
    NewIsStarting, Runs, Next1
<1>17. CASE LookDestination
  BY <1>17, PassWrites, SkipEffect, Chosen, Names DEF LookDestination, Goto, OtherSide, FailDest,
    HubSet, Skipped, Passing, IInv, Processes, held, NewIsStarting, Runs, Next1
<1>18. CASE DestBuilt
  BY <1>18, Chosen, Names DEF DestBuilt, Built, Passing, IInv, Processes, held, NewIsStarting,
    Runs, Next1
<1>19. CASE DestNotBuilt
  BY <1>19, SkipEffect, Chosen, Names DEF DestNotBuilt, FailDest, Skipped, Passing, IInv,
    Processes, held, NewIsStarting, Runs, Next1
<1>20. CASE PublishDestination
  BY <1>20, Names, Chosen, NoneIsTyped DEF PublishDestination, Goto, OtherSide, Discard, TypeOK,
    HeldTypes, Passing, OneDest, Dropping, FreshShape, IInv, Processes, held, NewIsStarting, Runs,
    Next1
<1>21. CASE RunDestination
  BY <1>21, StartEffect, Names, Chosen, ConFields DEF RunDestination, Step, OtherSide, TypeOK,
    SameBut, Passing, OneDest, Dropping, HeldTypes, IInv, Processes, held, NewIsStarting, Runs,
    Next1
<1>22. CASE LookBackup
  BY <1>22, PassWrites, SkipEffect, Chosen, Names DEF LookBackup, Goto, OtherSide, OldSet,
    Skipped, Passing, IInv, Processes, held, NewIsStarting, Runs, Next1
<1>23. CASE StopBackup
  <2>1. /\ Next1 \in Dests /\ HeldTypes /\ RelayTypes /\ ConShape /\ pc = "stopBackup"
        /\ \A c \in Consumers : con[c].proc # "new"
    BY <1>23, Chosen DEF StopBackup, Step, IInv, TypeOK, Processes, NewIsStarting, Passing,
      OneDest
  <2>2. \A c \in Consumers : con'[c].proc # "new"
    BY <1>23, <2>1, Names, StopEffect DEF StopBackup
  <2> QED
    BY <2>2 DEF NewIsStarting
<1>24. CASE DropBackup
  BY <1>24, Chosen, Names DEF DropBackup, Step, OtherSide, Passing, IInv, Processes, held,
    NewIsStarting, Runs, Next1
<1>25. CASE BackupBuilt
  BY <1>25, Chosen, Names DEF BackupBuilt, Built, Passing, IInv, Processes, held, NewIsStarting,
    Runs, Next1
<1>26. CASE BackupNotBuilt
  BY <1>26, Chosen, Names DEF BackupNotBuilt, Passing, IInv, Processes, held, NewIsStarting, Runs,
    Next1
<1>27. CASE PublishBackup
  BY <1>27, SkipEffect, Names, Chosen, NoneIsTyped DEF PublishBackup, Goto, OtherSide, Discard,
    Skipped, TypeOK, HeldTypes, Passing, OneDest, Dropping, FreshShape, IInv, Processes, held,
    NewIsStarting, Runs, Next1
<1>28. CASE RunBackup
  <2>1. /\ Next1 \in Dests /\ HeldTypes /\ pc = "runBackup"
        /\ \A c \in Consumers : c # Backup(Next1) => con[c].proc # "new"
    BY <1>28, Chosen DEF RunBackup, Step, IInv, TypeOK, Processes, NewIsStarting, Passing, OneDest
  <2>2. \A c \in Consumers : con'[c].proc # "new"
    BY <1>28, <2>1, Names, StartEffect, ConFields DEF RunBackup, HeldTypes
  <2> QED
    BY <2>2 DEF NewIsStarting
<1>29. CASE Collect
  BY <1>29 DEF Collect, Halt, IInv, Processes, held, NewIsStarting, Runs, Next1
<1>30. ASSUME NEW r \in Rends, StopEncode(r) PROVE NewIsStarting'
  BY <1>30, StopEffect, Names, ConFields DEF StopEncode, Processes, TypeOK, SameBut, HeldTypes,
    IInv, held, NewIsStarting, Runs, Next1
<1>31. ASSUME NEW r \in Rends, ReleaseStopped(r) PROVE NewIsStarting'
  BY <1>31 DEF ReleaseStopped, CloseRendition, IInv, Processes, held, NewIsStarting, Runs, Next1
<1>32. CASE LoopsDone
  BY <1>32 DEF LoopsDone, Halt, IInv, Processes, held, NewIsStarting, Runs, Next1
<1> QED
  BY <1>1, <1>2, <1>3, <1>4, <1>5, <1>6, <1>7, <1>8, <1>9, <1>10, <1>11, <1>12, <1>13, <1>14,
    <1>15, <1>16, <1>17, <1>18, <1>19, <1>20, <1>21, <1>22, <1>23, <1>24, <1>25, <1>26, <1>27,
    <1>28, <1>29, <1>30, <1>31, <1>32 DEF EngineStep

(* A child goes with the stage of its entry.                               *)
LEMMA StagesKept ==
  ASSUME IInv, EngineStep
  PROVE  Stages'
<1>1. CASE Enter \/ Leave
  BY <1>1, PassWrites DEF Enter, Leave, Step, OtherSide, IInv, Processes, held, Stages, Live,
    Runs, Passing
<1>2. CASE ListDestinations \/ ListRenditions
  BY <1>2, WritesOfTheLocals DEF ListDestinations, ListRenditions, Step, OtherSide, IInv,
    Processes, held, Stages, Live, Runs, Passing
<1>3. CASE Decide
  BY <1>3, DecideEffect DEF Decide, Step, OtherSide, Decided, IInv, Processes, held, Stages, Live,
    Runs, Passing
<1>4. CASE SortDestinations
  BY <1>4, Chosen, Names DEF SortDestinations, Step, OtherSide, Passing, TypeOK, HeldTypes, IInv,
    Processes, held, Stages, Live, Runs
<1>5. ASSUME NEW d \in Dests, TearStop(d) PROVE Stages'
  BY SMTT(30), <1>5, StopEffect, Names, ConFields DEF TearStop, Tears, Processes, TypeOK, SameBut,
    HeldTypes, IInv, held, Stages, Live, Runs, Passing
<1>6. ASSUME NEW d \in Dests, TearRelease(d) PROVE Stages'
  BY <1>6, Chosen, Names DEF TearRelease, Tears, Done, Passing, TypeOK, HeldTypes, IInv,
    Processes, held, Stages, Live, Runs
<1>7. ASSUME NEW d \in Dests, TearBackup(d) PROVE Stages'
  BY SMTT(30), <1>7, StopEffect, Names, ConFields DEF TearBackup, Tears, Processes, TypeOK, SameBut,
    HeldTypes, IInv, held, Stages, Live, Runs, Passing
<1>8. ASSUME NEW d \in Dests, TearBackupRelease(d) PROVE Stages'
  BY <1>8, Chosen, Names DEF TearBackupRelease, Tears, Done, Passing, TypeOK, HeldTypes, IInv,
    Processes, held, Stages, Live, Runs
<1>9. CASE DestinationsStopped \/ RenditionsStopped \/ RenditionsStarted \/ StopCalled \/
       DestinationsDown \/ EncodesDown
  BY <1>9 DEF DestinationsStopped, RenditionsStopped, RenditionsStarted, StopCalled,
    DestinationsDown, EncodesDown, Step, OtherSide, Halt, IInv, Processes, held, Stages, Live,
    Runs, Passing
<1>10. CASE TakeRendition
  BY <1>10, TakeEffect, Chosen, Names DEF TakeRendition, Goto, OtherSide, StopTaken, Passing,
    TypeOK, HeldTypes, IInv, Processes, held, Stages, Live, Runs
<1>11. CASE StopRendition
  BY <1>11, StopEffect, Names, Chosen, ConFields DEF StopRendition, Step, OtherSide, Processes,
    TypeOK, SameBut, Passing, OneDest, Dropping, HeldTypes, IInv, held, Stages, Live, Runs
<1>12. CASE RenditionStopped
  BY <1>12, TakeEffect, Chosen, Names DEF RenditionStopped, Step, OtherSide, CloseRendition,
    StopTaken, Passing, TypeOK, HeldTypes, IInv, Processes, held, Stages, Live, Runs
<1>13. CASE RendBuilt
  BY <1>13, PassWrites, Chosen, Names DEF RendBuilt, Built, HubSet, Passing, TypeOK, HeldTypes,
    IInv, Processes, held, Stages, Live, Runs
<1>14. CASE RendNotBuilt
  BY <1>14, TakeEffect, Chosen, Names DEF RendNotBuilt, FailRend, StartTaken, Passing, TypeOK,
    HeldTypes, IInv, Processes, held, Stages, Live, Runs
<1>15. CASE PublishRendition
  BY <1>15, PassWrites, Names, Chosen, NoneIsTyped DEF PublishRendition, Goto, OtherSide, Discard,
    Started, TypeOK, HeldTypes, Passing, OneDest, Dropping, FreshShape, Starting, Halting,
    stopped, IInv, Processes, held, Stages, Live, Runs
<1>16. CASE RunRendition
  BY SMTT(30), <1>16, PassWrites, StartEffect, Names, Chosen, ConFields DEF RunRendition, Step,
    OtherSide, Started, TypeOK, SameBut, Passing, OneDest, Dropping, HeldTypes, IInv, Processes,
    held, Stages, Live, Runs
<1>17. CASE LookDestination
  BY <1>17, PassWrites, SkipEffect, Chosen, Names DEF LookDestination, Goto, OtherSide, FailDest,
    HubSet, Skipped, Passing, TypeOK, HeldTypes, IInv, Processes, held, Stages, Live, Runs
<1>18. CASE DestBuilt
  BY <1>18, Chosen, Names DEF DestBuilt, Built, Passing, TypeOK, HeldTypes, IInv, Processes, held,
    Stages, Live, Runs
<1>19. CASE DestNotBuilt
  BY <1>19, SkipEffect, Chosen, Names DEF DestNotBuilt, FailDest, Skipped, Passing, TypeOK,
    HeldTypes, IInv, Processes, held, Stages, Live, Runs
<1>20. CASE PublishDestination
  BY <1>20, Names, Chosen, NoneIsTyped DEF PublishDestination, Goto, OtherSide, Discard, TypeOK,
    HeldTypes, Passing, OneDest, Dropping, FreshShape, Starting, Halting, stopped, IInv,
    Processes, held, Stages, Live, Runs
<1>21. CASE RunDestination
  BY SMTT(30), <1>21, StartEffect, Names, Chosen, ConFields
     DEF RunDestination, Step, OtherSide, TypeOK,
    SameBut, Passing, OneDest, Dropping, HeldTypes, IInv, Processes, held, Stages, Live, Runs
<1>22. CASE LookBackup
  BY <1>22, PassWrites, SkipEffect, Chosen, Names DEF LookBackup, Goto, OtherSide, OldSet,
    Skipped, Passing, TypeOK, HeldTypes, IInv, Processes, held, Stages, Live, Runs
<1>23. CASE StopBackup
  BY <1>23, StopEffect, Names, Chosen, ConFields DEF StopBackup, Step, OtherSide, Processes,
    TypeOK, SameBut, Passing, OneDest, Dropping, HeldTypes, IInv, held, Stages, Live, Runs
<1>24. CASE DropBackup
  BY <1>24, Chosen, Names DEF DropBackup, Step, OtherSide, Passing, TypeOK, HeldTypes, IInv,
    Processes, held, Stages, Live, Runs
<1>25. CASE BackupBuilt
  BY <1>25, Chosen, Names DEF BackupBuilt, Built, Passing, TypeOK, HeldTypes, IInv, Processes,
    held, Stages, Live, Runs
<1>26. CASE BackupNotBuilt
  BY <1>26, Chosen, Names DEF BackupNotBuilt, Passing, TypeOK, HeldTypes, IInv, Processes, held,
    Stages, Live, Runs
<1>27. CASE PublishBackup
  BY <1>27, SkipEffect, Names, Chosen, NoneIsTyped DEF PublishBackup, Goto, OtherSide, Discard,
    Skipped, TypeOK, HeldTypes, Passing, OneDest, Dropping, FreshShape, Starting, Halting,
    stopped, IInv, Processes, held, Stages, Live, Runs
<1>28. CASE RunBackup
  BY <1>28, SkipEffect, StartEffect, Names, Chosen, ConFields DEF RunBackup, Step, OtherSide,
    Skipped, TypeOK, SameBut, Passing, OneDest, Dropping, HeldTypes, IInv, Processes, held,
    Stages, Live, Runs
<1>29. CASE Collect
  BY <1>29, Chosen, Names DEF Collect, Halt, Passing, TypeOK, HeldTypes, IInv, Processes, held,
    Stages, Live, Runs
<1>30. ASSUME NEW r \in Rends, StopEncode(r) PROVE Stages'
  BY <1>30, StopEffect, Names, ConFields DEF StopEncode, Processes, TypeOK, SameBut, HeldTypes,
    IInv, held, Stages, Live, Runs, Passing
<1>31. ASSUME NEW r \in Rends, ReleaseStopped(r) PROVE Stages'
  BY <1>31, Chosen, Names DEF ReleaseStopped, CloseRendition, Passing, TypeOK, HeldTypes, IInv,
    Processes, held, Stages, Live, Runs
<1>32. CASE LoopsDone
  BY <1>32 DEF LoopsDone, Halt, IInv, Processes, held, Stages, Live, Runs, Passing
<1> QED
  BY <1>1, <1>2, <1>3, <1>4, <1>5, <1>6, <1>7, <1>8, <1>9, <1>10, <1>11, <1>12, <1>13, <1>14,
    <1>15, <1>16, <1>17, <1>18, <1>19, <1>20, <1>21, <1>22, <1>23, <1>24, <1>25, <1>26, <1>27,
    <1>28, <1>29, <1>30, <1>31, <1>32 DEF EngineStep

(* The backup that is swapped is down while it is.                         *)
LEMMA SwappingKept ==
  ASSUME IInv, EngineStep
  PROVE  Swapping'
<1>1. CASE Enter \/ Leave
  BY <1>1, PassWrites DEF Enter, Leave, Step, OtherSide, IInv, Processes, held, Swapping, Live,
    Runs, Dropping, Next1
<1>2. CASE ListDestinations \/ ListRenditions
  BY <1>2, WritesOfTheLocals DEF ListDestinations, ListRenditions, Step, OtherSide, IInv,
    Processes, held, Swapping, Live, Runs, Dropping, Next1
<1>3. CASE Decide
  BY <1>3, DecideEffect DEF Decide, Step, OtherSide, Decided, IInv, Processes, held, Swapping,
    Live, Runs, Dropping, Next1
<1>4. CASE SortDestinations
  BY <1>4 DEF SortDestinations, Step, OtherSide, IInv, Processes, held, Swapping, Live, Runs,
    Dropping, Next1
<1>5. ASSUME NEW d \in Dests, TearStop(d) PROVE Swapping'
  BY <1>5, StopEffect, Names, Chosen DEF TearStop, Tears, Processes, TypeOK, SameBut, OneDest,
    Passing, IInv, held, Swapping, Live, Runs, Dropping, Next1
<1>6. ASSUME NEW d \in Dests, TearRelease(d) PROVE Swapping'
  BY <1>6 DEF TearRelease, Tears, Done, IInv, Processes, held, Swapping, Live, Runs, Dropping,
    Next1
<1>7. ASSUME NEW d \in Dests, TearBackup(d) PROVE Swapping'
  BY <1>7, StopEffect, Names, Chosen DEF TearBackup, Tears, Processes, TypeOK, SameBut, OneDest,
    Passing, IInv, held, Swapping, Live, Runs, Dropping, Next1
<1>8. ASSUME NEW d \in Dests, TearBackupRelease(d) PROVE Swapping'
  BY <1>8 DEF TearBackupRelease, Tears, Done, IInv, Processes, held, Swapping, Live, Runs,
    Dropping, Next1
<1>9. CASE DestinationsStopped \/ RenditionsStopped \/ RenditionsStarted \/ StopCalled \/
       DestinationsDown \/ EncodesDown
  BY <1>9 DEF DestinationsStopped, RenditionsStopped, RenditionsStarted, StopCalled,
    DestinationsDown, EncodesDown, Step, OtherSide, Halt, IInv, Processes, held, Swapping, Live,
    Runs, Dropping, Next1
<1>10. CASE TakeRendition
  BY <1>10, TakeEffect, Chosen, Names DEF TakeRendition, Goto, OtherSide, StopTaken, Passing,
    TypeOK, HeldTypes, IInv, Processes, held, Swapping, Live, Runs, Dropping, Next1
<1>11. CASE StopRendition
  BY <1>11, StopEffect, Names, Chosen DEF StopRendition, Step, OtherSide, Processes, TypeOK,
    SameBut, Passing, OneDest, Dropping, HeldTypes, IInv, held, Swapping, Live, Runs, Next1
<1>12. CASE RenditionStopped
  BY <1>12, TakeEffect, Chosen, Names DEF RenditionStopped, Step, OtherSide, CloseRendition,
    StopTaken, Passing, TypeOK, HeldTypes, IInv, Processes, held, Swapping, Live, Runs, Dropping,
    Next1
<1>13. CASE RendBuilt
  BY <1>13, PassWrites, Chosen, Names DEF RendBuilt, Built, HubSet, Passing, TypeOK, HeldTypes,
    IInv, Processes, held, Swapping, Live, Runs, Dropping, Next1
<1>14. CASE RendNotBuilt
  BY <1>14, TakeEffect, Chosen, Names DEF RendNotBuilt, FailRend, StartTaken, Passing, TypeOK,
    HeldTypes, IInv, Processes, held, Swapping, Live, Runs, Dropping, Next1
<1>15. CASE PublishRendition
  BY <1>15, PassWrites, Names, Chosen, NoneIsTyped DEF PublishRendition, Goto, OtherSide, Discard,
    Started, TypeOK, HeldTypes, Passing, OneDest, Dropping, FreshShape, Starting, Halting,
    stopped, IInv, Processes, held, Swapping, Live, Runs, Next1
<1>16. CASE RunRendition
  BY <1>16, PassWrites, StartEffect, Names, Chosen DEF RunRendition, Step, OtherSide, Started,
    TypeOK, SameBut, Passing, OneDest, Dropping, HeldTypes, IInv, Processes, held, Swapping, Live,
    Runs, Next1
<1>17. CASE LookDestination
  BY <1>17, PassWrites, SkipEffect, Chosen, Names DEF LookDestination, Goto, OtherSide, FailDest,
    HubSet, Skipped, Passing, TypeOK, HeldTypes, IInv, Processes, held, Swapping, Live, Runs,
    Dropping, Next1
<1>18. CASE DestBuilt
  BY <1>18, Chosen, Names DEF DestBuilt, Built, Passing, TypeOK, HeldTypes, IInv, Processes, held,
    Swapping, Live, Runs, Dropping, Next1
<1>19. CASE DestNotBuilt
  BY <1>19, SkipEffect, Chosen, Names DEF DestNotBuilt, FailDest, Skipped, Passing, TypeOK,
    HeldTypes, IInv, Processes, held, Swapping, Live, Runs, Dropping, Next1
<1>20. CASE PublishDestination
  BY <1>20, Names, Chosen, NoneIsTyped DEF PublishDestination, Goto, OtherSide, Discard, TypeOK,
    HeldTypes, Passing, OneDest, Dropping, FreshShape, Starting, Halting, stopped, IInv,
    Processes, held, Swapping, Live, Runs, Next1
<1>21. CASE RunDestination
  BY <1>21, StartEffect, Names, Chosen DEF RunDestination, Step, OtherSide, TypeOK, SameBut,
    Passing, OneDest, Dropping, HeldTypes, IInv, Processes, held, Swapping, Live, Runs, Next1
<1>22. CASE LookBackup
  BY <1>22, PassWrites, SkipEffect, Chosen, Names DEF LookBackup, Goto, OtherSide, OldSet,
    Skipped, Passing, TypeOK, HeldTypes, ConShape, OneDest, Stages, IInv, Processes, held,
    Swapping, Live, Runs, Dropping, Next1
<1>23. CASE StopBackup
  BY <1>23, StopEffect, Names, Chosen DEF StopBackup, Step, OtherSide, Processes, TypeOK, SameBut,
    Passing, OneDest, Dropping, HeldTypes, ConShape, IInv, held, Swapping, Live, Runs, Next1
<1>24. CASE DropBackup
  BY <1>24, Chosen, Names DEF DropBackup, Step, OtherSide, Passing, TypeOK, HeldTypes, IInv,
    Processes, held, Swapping, Live, Runs, Dropping, Next1
<1>25. CASE BackupBuilt
  BY <1>25, Chosen, Names DEF BackupBuilt, Built, Passing, TypeOK, HeldTypes, IInv, Processes,
    held, Swapping, Live, Runs, Dropping, Next1
<1>26. CASE BackupNotBuilt
  BY <1>26, Chosen, Names DEF BackupNotBuilt, Passing, TypeOK, HeldTypes, IInv, Processes, held,
    Swapping, Live, Runs, Dropping, Next1
<1>27. CASE PublishBackup
  BY <1>27, SkipEffect, Names, Chosen, NoneIsTyped DEF PublishBackup, Goto, OtherSide, Discard,
    Skipped, TypeOK, HeldTypes, Passing, OneDest, Dropping, FreshShape, Starting, Halting,
    stopped, IInv, Processes, held, Swapping, Live, Runs, Next1
<1>28. CASE RunBackup
  BY <1>28, SkipEffect, StartEffect, Names, Chosen DEF RunBackup, Step, OtherSide, Skipped,
    TypeOK, SameBut, Passing, OneDest, Dropping, HeldTypes, IInv, Processes, held, Swapping, Live,
    Runs, Next1
<1>29. CASE Collect
  BY <1>29 DEF Collect, Halt, IInv, Processes, held, Swapping, Live, Runs, Dropping, Next1
<1>30. ASSUME NEW r \in Rends, StopEncode(r) PROVE Swapping'
  BY <1>30, StopEffect, Names, Chosen DEF StopEncode, Processes, TypeOK, SameBut, OneDest,
    Passing, IInv, held, Swapping, Live, Runs, Dropping, Next1
<1>31. ASSUME NEW r \in Rends, ReleaseStopped(r) PROVE Swapping'
  BY <1>31 DEF ReleaseStopped, CloseRendition, IInv, Processes, held, Swapping, Live, Runs,
    Dropping, Next1
<1>32. CASE LoopsDone
  BY <1>32 DEF LoopsDone, Halt, IInv, Processes, held, Swapping, Live, Runs, Dropping, Next1
<1> QED
  BY <1>1, <1>2, <1>3, <1>4, <1>5, <1>6, <1>7, <1>8, <1>9, <1>10, <1>11, <1>12, <1>13, <1>14,
    <1>15, <1>16, <1>17, <1>18, <1>19, <1>20, <1>21, <1>22, <1>23, <1>24, <1>25, <1>26, <1>27,
    <1>28, <1>29, <1>30, <1>31, <1>32 DEF EngineStep

(* What is built and not published yet.                                    *)
LEMMA FreshShapeKept ==
  ASSUME IInv, EngineStep
  PROVE  FreshShape'
<1>1. CASE Enter \/ ListDestinations \/ ListRenditions \/ Decide \/ DestinationsStopped \/
       RenditionsStopped \/ RenditionsStarted \/ LookBackup \/ Leave \/ StopCalled \/
       DestinationsDown \/ EncodesDown
  BY <1>1 DEF Enter, ListDestinations, ListRenditions, Decide, DestinationsStopped,
    RenditionsStopped, RenditionsStarted, LookBackup, Leave, StopCalled, DestinationsDown,
    EncodesDown, Step, OtherSide, Goto, Halt, IInv, Processes, held, FreshShape, Built, Builds
<1>2. CASE SortDestinations
  BY <1>2 DEF SortDestinations, Step, OtherSide, IInv, Processes, held, FreshShape, Built, Builds
<1>3. ASSUME NEW d \in Dests, TearStop(d) PROVE FreshShape'
  BY <1>3 DEF TearStop, Tears, IInv, Processes, held, FreshShape, Built, Builds
<1>4. ASSUME NEW d \in Dests, TearRelease(d) PROVE FreshShape'
  BY <1>4 DEF TearRelease, Tears, Done, IInv, Processes, held, FreshShape, Built, Builds
<1>5. ASSUME NEW d \in Dests, TearBackup(d) PROVE FreshShape'
  BY <1>5 DEF TearBackup, Tears, IInv, Processes, held, FreshShape, Built, Builds
<1>6. ASSUME NEW d \in Dests, TearBackupRelease(d) PROVE FreshShape'
  BY <1>6 DEF TearBackupRelease, Tears, Done, IInv, Processes, held, FreshShape, Built, Builds
<1>7. CASE TakeRendition
  BY <1>7 DEF TakeRendition, Goto, OtherSide, IInv, Processes, held, FreshShape, Built, Builds
<1>8. CASE StopRendition
  BY <1>8 DEF StopRendition, Step, OtherSide, IInv, Processes, held, FreshShape, Built, Builds
<1>9. CASE RenditionStopped
  BY <1>9 DEF RenditionStopped, Step, OtherSide, CloseRendition, IInv, Processes, held,
    FreshShape, Built, Builds
<1>10. CASE RendBuilt
  BY <1>10, HubNames DEF RendBuilt, Built, IInv, Processes, held, FreshShape, Builds
<1>11. CASE RendNotBuilt
  BY <1>11 DEF RendNotBuilt, FailRend, IInv, Processes, held, FreshShape, Built, Builds
<1>12. CASE PublishRendition
  BY <1>12 DEF PublishRendition, Goto, OtherSide, Discard, IInv, Processes, held, FreshShape,
    Built, Builds
<1>13. CASE RunRendition
  BY <1>13 DEF RunRendition, Step, OtherSide, IInv, Processes, held, FreshShape, Built, Builds
<1>14. CASE LookDestination
  BY <1>14 DEF LookDestination, Goto, OtherSide, FailDest, IInv, Processes, held, FreshShape,
    Built, Builds
<1>15. CASE DestBuilt
  BY <1>15 DEF DestBuilt, Built, Following, MakesThePlan, IInv, Processes, held, FreshShape,
    Builds
<1>16. CASE DestNotBuilt
  BY <1>16 DEF DestNotBuilt, FailDest, IInv, Processes, held, FreshShape, Built, Builds
<1>17. CASE PublishDestination
  BY <1>17 DEF PublishDestination, Goto, OtherSide, Discard, IInv, Processes, held, FreshShape,
    Built, Builds
<1>18. CASE RunDestination
  BY <1>18 DEF RunDestination, Step, OtherSide, IInv, Processes, held, FreshShape, Built, Builds
<1>19. CASE StopBackup
  BY <1>19 DEF StopBackup, Step, OtherSide, IInv, Processes, held, FreshShape, Built, Builds
<1>20. CASE DropBackup
  BY <1>20 DEF DropBackup, Step, OtherSide, IInv, Processes, held, FreshShape, Built, Builds
<1>21. CASE BackupBuilt
  BY <1>21, Chosen, Names DEF BackupBuilt, Built, ConShape, Swapping, Dropping, IInv, Processes,
    held, FreshShape, Builds
<1>22. CASE BackupNotBuilt
  BY <1>22 DEF BackupNotBuilt, IInv, Processes, held, FreshShape, Built, Builds
<1>23. CASE PublishBackup
  BY <1>23 DEF PublishBackup, Goto, OtherSide, Discard, IInv, Processes, held, FreshShape, Built,
    Builds
<1>24. CASE RunBackup
  BY <1>24 DEF RunBackup, Step, OtherSide, IInv, Processes, held, FreshShape, Built, Builds
<1>25. CASE Collect
  BY <1>25 DEF Collect, Halt, IInv, Processes, held, FreshShape, Built, Builds
<1>26. ASSUME NEW r \in Rends, StopEncode(r) PROVE FreshShape'
  BY <1>26 DEF StopEncode, IInv, Processes, held, FreshShape, Built, Builds
<1>27. ASSUME NEW r \in Rends, ReleaseStopped(r) PROVE FreshShape'
  BY <1>27 DEF ReleaseStopped, CloseRendition, IInv, Processes, held, FreshShape, Built, Builds
<1>28. CASE LoopsDone
  BY <1>28 DEF LoopsDone, Halt, IInv, Processes, held, FreshShape, Built, Builds
<1> QED
  BY <1>1, <1>2, <1>3, <1>4, <1>5, <1>6, <1>7, <1>8, <1>9, <1>10, <1>11, <1>12, <1>13, <1>14,
    <1>15, <1>16, <1>17, <1>18, <1>19, <1>20, <1>21, <1>22, <1>23, <1>24, <1>25, <1>26, <1>27,
    <1>28 DEF EngineStep

(* Whose child may be up, by kind.                                         *)
LiveByKind ==
  /\ \A d \in Dests : Live(Main(d)) => /\ place[d] \in Entries
                                       /\ place[d] # "map" => ph[d] \in {"stop", "release"}
  /\ \A d \in Dests : Live(Backup(d)) => place[d] \in Entries
  /\ \A r \in Rends : Live(Encode(r)) => tier[r] \in Entries
LEMMA LiveKinds == ConShape => (LiveClaims <=> LiveByKind)
<1> SUFFICES ASSUME ConShape PROVE LiveClaims <=> LiveByKind
  OBVIOUS
<1>1. \A d \in Dests : Live(Backup(d)) => con[Backup(d)].port # NoPort
  BY Names DEF ConShape, Live
<1> QED
  BY <1>1, Names, ClaimsAre DEF LiveClaims, LiveByKind, ClaimsByKind

(* The same of the next state.                                             *)
LEMMA LiveKindsNext == (ConShape => (LiveClaims <=> LiveByKind))'
BY LiveKinds, PTL

(* A start changes nobody's standing.                                      *)
LEMMA StartsKeepLive ==
  ASSUME IInv, RunRendition \/ RunDestination \/ RunBackup
  PROVE  \A c \in Consumers : SameBut(c) /\ (Live(c)' <=> Live(c))
<1>1. HeldTypes /\ RunTypes /\ Passing
  BY DEF IInv, TypeOK
<1>2. PICK c \in Consumers : StartProcess(c)
  BY <1>1, Names, Chosen DEF RunRendition, RunDestination, RunBackup, Step, Passing, OneDest
<1> QED
  BY <1>1, <1>2, StartEffect, ConFields DEF Live, SameBut, HeldTypes

(* A child that may be up keeps its entry.                                 *)
LEMMA LiveByKindKept ==
  ASSUME IInv, LiveByKind, EngineStep
  PROVE  LiveByKind'
<1>1. CASE Enter \/ ListDestinations \/ ListRenditions \/ Decide \/ DestinationsStopped \/
       RenditionsStopped \/ RenditionsStarted \/ Leave \/ StopCalled \/ DestinationsDown \/
       EncodesDown
  BY <1>1 DEF Enter, ListDestinations, ListRenditions, Decide, DestinationsStopped,
    RenditionsStopped, RenditionsStarted, Leave, StopCalled, DestinationsDown, EncodesDown, Step,
    OtherSide, Halt, IInv, Processes, held, LiveByKind, Live, Entries
<1>2. CASE SortDestinations
  BY <1>2, Chosen, Names DEF SortDestinations, Step, OtherSide, TypeOK, HeldTypes, Passing, IInv,
    Processes, held, LiveByKind, Live, Entries
<1>3. ASSUME NEW d \in Dests, TearStop(d) PROVE LiveByKind'
  <2>1. /\ HeldTypes /\ RelayTypes /\ ConShape /\ StopProcess(Main(d)) /\ UNCHANGED <<place, tier>>
        /\ ph' = [ph EXCEPT ![d] = "release"]
    BY <1>3 DEF TearStop, Tears, IInv, TypeOK, Processes
  <2>2. \A c \in Consumers : Live(c)' => Live(c)
    BY <2>1, StopEffect, Names, ConFields DEF Live, HeldTypes
  <2>3. \A e \in Dests : ph'[e] = IF e = d THEN "release" ELSE ph[e]
    BY <2>1 DEF HeldTypes
  <2> QED
    BY <2>1, <2>2, <2>3, Names DEF LiveByKind
<1>4. ASSUME NEW d \in Dests, TearRelease(d) PROVE LiveByKind'
  BY <1>4, Chosen, Names DEF TearRelease, Tears, Done, TypeOK, HeldTypes, Stages, ConShape, IInv,
    Processes, held, LiveByKind, Live, Entries
<1>5. ASSUME NEW d \in Dests, TearBackup(d) PROVE LiveByKind'
  <2>1. HeldTypes /\ RelayTypes /\ ConShape /\ ~Live(Main(d)) /\ StopProcess(Backup(d))
    BY <1>5 DEF TearBackup, IInv, TypeOK, Processes, Stages
  <2>2. \A c \in Consumers : Live(c)' => Live(c)
    BY <2>1, StopEffect, Names, ConFields DEF Live, HeldTypes
  <2>3. \A c \in Consumers : Live(c)' => Live(c) /\ c # Main(d)
    BY <2>1, <2>2
  <2>4. /\ UNCHANGED <<place, tier>> /\ \A e \in Dests : e # d => ph'[e] = ph[e]
    BY <1>5, <2>1 DEF TearBackup, Tears, HeldTypes
  <2> QED
    BY <2>3, <2>4, Names DEF LiveByKind
<1>6. ASSUME NEW d \in Dests, TearBackupRelease(d) PROVE LiveByKind'
  BY <1>6, Chosen, Names DEF TearBackupRelease, Tears, Done, TypeOK, HeldTypes, Stages, ConShape,
    IInv, Processes, held, LiveByKind, Live, Entries
<1>7. CASE TakeRendition
  BY <1>7, Chosen, Names DEF TakeRendition, Goto, OtherSide, TypeOK, HeldTypes, Passing, IInv,
    Processes, held, LiveByKind, Live, Entries
<1>8. CASE StopRendition
  BY SMTT(30), <1>8, StopEffect, Names, Chosen, ConFields
     DEF StopRendition, Step, OtherSide, Processes,
    TypeOK, SameBut, Passing, OneDest, Dropping, HeldTypes, IInv, held, LiveByKind, Live, Entries
<1>9. CASE RenditionStopped
  BY <1>9, Chosen, Names DEF RenditionStopped, Step, OtherSide, CloseRendition, TypeOK, HeldTypes,
    Stages, ConShape, Passing, IInv, Processes, held, LiveByKind, Live, Entries
<1>10. CASE RendBuilt
  BY <1>10, Chosen, Names DEF RendBuilt, Built, TypeOK, HeldTypes, IInv, Processes, held,
    LiveByKind, Live, Entries
<1>11. CASE RendNotBuilt
  BY <1>11, Chosen, Names, NoneIsTyped DEF RendNotBuilt, FailRend, TypeOK, HeldTypes, Passing,
    Starting, Halting, stopped, IInv, Processes, held, LiveByKind, Live, Entries
<1>12. CASE PublishRendition
  BY <1>12, Names, Chosen, NoneIsTyped DEF PublishRendition, Goto, OtherSide, Discard, TypeOK,
    HeldTypes, Passing, OneDest, Dropping, Starting, Halting, stopped, IInv, Processes, held,
    LiveByKind, Live, Entries
<1>13. CASE RunRendition
  BY <1>13, StartsKeepLive, Names, Chosen DEF RunRendition, Step, OtherSide, TypeOK, HeldTypes,
    IInv, Processes, held, LiveByKind, Live, Entries
<1>14. CASE LookDestination
  BY <1>14, Chosen, Names, NoneIsTyped DEF LookDestination, Goto, OtherSide, FailDest, TypeOK,
    HeldTypes, Passing, Starting, Halting, stopped, IInv, Processes, held, LiveByKind, Live,
    Entries
<1>15. CASE DestBuilt
  BY <1>15, Chosen, Names DEF DestBuilt, Built, TypeOK, HeldTypes, IInv, Processes, held,
    LiveByKind, Live, Entries
<1>16. CASE DestNotBuilt
  BY <1>16, Chosen, Names, NoneIsTyped DEF DestNotBuilt, FailDest, TypeOK, HeldTypes, Passing,
    Starting, Halting, stopped, IInv, Processes, held, LiveByKind, Live, Entries
<1>17. CASE PublishDestination
  BY SMTT(30), <1>17, Names, Chosen, NoneIsTyped
     DEF PublishDestination, Goto, OtherSide, Discard, TypeOK,
    HeldTypes, Passing, OneDest, Dropping, Starting, Halting, stopped, IInv, Processes, held,
    LiveByKind, Live, Entries
<1>18. CASE RunDestination
  BY <1>18, StartsKeepLive, Names, Chosen DEF RunDestination, Step, OtherSide, TypeOK, HeldTypes,
    IInv, Processes, held, LiveByKind, Live, Entries
<1>19. CASE LookBackup
  BY <1>19, Chosen, Names DEF LookBackup, Goto, OtherSide, TypeOK, HeldTypes, IInv, Processes,
    held, LiveByKind, Live, Entries
<1>20. CASE StopBackup
  BY SMTT(30), <1>20, StopEffect, Names, Chosen, ConFields
     DEF StopBackup, Step, OtherSide, Processes,
    TypeOK, SameBut, Passing, OneDest, Dropping, HeldTypes, IInv, held, LiveByKind, Live, Entries
<1>21. CASE DropBackup
  BY <1>21, Chosen, Names DEF DropBackup, Step, OtherSide, TypeOK, HeldTypes, IInv, Processes,
    held, LiveByKind, Live, Entries
<1>22. CASE BackupBuilt
  BY <1>22, Chosen, Names DEF BackupBuilt, Built, TypeOK, HeldTypes, IInv, Processes, held,
    LiveByKind, Live, Entries
<1>23. CASE BackupNotBuilt
  BY <1>23, Chosen, Names DEF BackupNotBuilt, TypeOK, HeldTypes, IInv, Processes, held,
    LiveByKind, Live, Entries
<1>24. CASE PublishBackup
  BY <1>24, Names, Chosen, NoneIsTyped DEF PublishBackup, Goto, OtherSide, Discard, TypeOK,
    HeldTypes, Passing, OneDest, Dropping, Starting, Halting, stopped, IInv, Processes, held,
    LiveByKind, Live, Entries
<1>25. CASE RunBackup
  BY <1>25, StartsKeepLive, Names, Chosen DEF RunBackup, Step, OtherSide, TypeOK, HeldTypes, IInv,
    Processes, held, LiveByKind, Live, Entries
<1>26. CASE Collect
  BY <1>26, Chosen, Names, CollectEffect DEF Collect, Halt, TypeOK, HeldTypes, Passing, IInv,
    Processes, held, LiveByKind, Live, Entries
<1>27. ASSUME NEW r \in Rends, StopEncode(r) PROVE LiveByKind'
  <2>1. /\ HeldTypes /\ RelayTypes /\ ConShape /\ StopProcess(Encode(r))
        /\ UNCHANGED <<place, tier, ph>>
    BY <1>27 DEF StopEncode, IInv, TypeOK, Processes
  <2>2. \A c \in Consumers : Live(c)' => Live(c)
    BY <2>1, StopEffect, Names, ConFields DEF Live, HeldTypes
  <2> QED
    BY <2>1, <2>2, Names DEF LiveByKind
<1>28. ASSUME NEW r \in Rends, ReleaseStopped(r) PROVE LiveByKind'
  BY <1>28, Chosen, Names DEF ReleaseStopped, CloseRendition, TypeOK, HeldTypes, Halting, IInv,
    Processes, held, LiveByKind, Live, Entries
<1>29. CASE LoopsDone
  BY <1>29 DEF LoopsDone, Halt, IInv, Processes, held, LiveByKind, Live, Entries
<1> QED
  BY <1>1, <1>2, <1>3, <1>4, <1>5, <1>6, <1>7, <1>8, <1>9, <1>10, <1>11, <1>12, <1>13, <1>14,
    <1>15, <1>16, <1>17, <1>18, <1>19, <1>20, <1>21, <1>22, <1>23, <1>24, <1>25, <1>26, <1>27,
    <1>28, <1>29 DEF EngineStep

(* A process goes with the stage of its entry, whatever the engine does.   *)
LEMMA ProcessesKept ==
  ASSUME IInv, EngineStep
  PROVE  Processes'
<1>1. ConShape /\ LiveByKind
  BY LiveKinds DEF IInv, Processes
<1>2. ConShape' /\ LiveByKind'
  BY <1>1, ConShapeKept, LiveByKindKept
<1>3. LiveClaims'
  BY <1>2, LiveKindsNext
<1> QED
  BY <1>2, <1>3, NewIsStartingKept, StagesKept, SwappingKept, FreshShapeKept DEF Processes

-----------------------------------------------------------------------------
(* The books: five kinds of step, as far as ports and subscriptions go.    *)
Account == Accounted /\ LiveHasPort /\ LiveIsAlone /\ FreshIsAlone /\ Delivered

(* Everybody keeps what he holds.                                          *)
Neutral ==
  /\ \A c \in Consumers : /\ Holder(c)' <=> Holder(c)
                          /\ Claims(c)' => Claims(c) /\ SameBut(c)
                          /\ Live(c)' => Live(c) /\ SameBut(c)
  /\ UNCHANGED <<subs, mine, fresh>> /\ (fresh # None => Making' = Making)
  /\ stopped => stopped'
LEMMA NeutralKeeps ==
  ASSUME Account, Neutral
  PROVE  Account'
<1> USE DEF Neutral, SameBut
<1>1. \A c \in Consumers : Holder(c)' => Holder(c) /\ SameBut(c)
  BY DEF Holder
<1>2. Accounted'
  BY <1>1 DEF Account, Accounted, Holds
<1>3. LiveHasPort' /\ LiveIsAlone' /\ FreshIsAlone'
  BY DEF Account, LiveHasPort, LiveIsAlone, FreshIsAlone
<1>4. Delivered'
  BY <1>1 DEF Account, Delivered
<1> QED
  BY <1>2, <1>3, <1>4 DEF Account

(* c, whose child is down, gives back its port and its subscription.       *)
Released(c) ==
  /\ LetsGo(c, con[c]) /\ ~Live(c) /\ c \in Consumers
  /\ \A e \in Consumers : Live(e) => con[e].port # con[c].port
  /\ ~stopped => (Holder(c) \/ con[c].port = NoPort) /\ fresh = None
  /\ \A e \in Consumers : /\ Holder(e)' <=> Holder(e) /\ e # c
                          /\ Claims(e)' => Claims(e)
                          /\ Live(e)' => Live(e)
                          /\ SameBut(e)
  /\ UNCHANGED fresh /\ (fresh # None => Making' = Making)
  /\ stopped => stopped'
LEMMA ReleaseKeeps ==
  ASSUME Account, RelayTypes, NEW c, Released(c)
  PROVE  Account'
<1> USE DEF Released, LetsGo, SameBut
<1>1. Accounted'
  <2>1. ASSUME NEW h \in Hubs, NEW e \in Consumers, NEW p \in Ports, <<h, e, p>> \in subs'
        PROVE  Holds(e, h, p)'
    <3>1. <<h, e, p>> \in subs /\ (h # con[c].hub \/ e # c)
      BY <2>1
    <3>2. Holds(e, h, p)
      BY <3>1 DEF Account, Accounted
    <3> QED
      BY <3>1, <3>2 DEF Holds
  <2>2. ASSUME NEW p \in mine' PROVE \E e \in Consumers, h \in Hubs : Holds(e, h, p)'
    <3>1. p \in mine /\ p # con[c].port
      OBVIOUS
    <3>2. PICK e \in Consumers, h \in Hubs : Holds(e, h, p)
      BY <3>1 DEF Account, Accounted
    <3>3. Holds(e, h, p)'
      BY <3>1, <3>2 DEF Holds
    <3> QED
      BY <3>3
  <2> QED
    BY <2>1, <2>2 DEF Accounted
<1>2. LiveHasPort' /\ LiveIsAlone' /\ FreshIsAlone'
  BY DEF Account, LiveHasPort, LiveIsAlone, FreshIsAlone
<1>3. Delivered'
  <2> SUFFICES ASSUME ~stopped' PROVE Delivered'
    BY DEF Delivered
  <2>1. ~stopped /\ fresh' = None /\ Delivered
    BY DEF Account
  <2>2. ASSUME NEW e \in Consumers, Holder(e)'
        PROVE  con'[e].port \in mine' /\ <<con'[e].hub, e, con'[e].port>> \in subs'
    <3>1. Holder(e) /\ e # c /\ con[e].port \in mine /\ <<con[e].hub, e, con[e].port>> \in subs
      BY <2>1, <2>2 DEF Delivered
    <3>2. con[e].port # con[c].port
      BY <2>1, <3>1, PortsAssumption DEF Delivered, RelayTypes
    <3> QED
      BY <3>1, <3>2
  <2>3. \A e, f \in Consumers : e # f /\ Holder(e)' /\ Holder(f)' => con'[e].port # con'[f].port
    BY <2>1 DEF Delivered
  <2> QED
    BY <2>1, <2>2, <2>3 DEF Delivered
<1> QED
  BY <1>1, <1>2, <1>3 DEF Account

(* Something is built for c.                                               *)
BuiltFor(c) ==
  /\ Builds(c, fresh'.hub, fresh'.spec) /\ c \in Consumers /\ fresh = None /\ fresh' # None
  /\ Making' = c /\ fresh'.hub \in Hubs
  /\ \A e \in Consumers : /\ Holder(e)' <=> Holder(e)
                          /\ Claims(e)' => Claims(e)
                          /\ Live(e)' => Live(e)
                          /\ SameBut(e)
  /\ stopped => stopped'
LEMMA BuildKeeps ==
  ASSUME Account, RelayTypes, Pool, NEW c, BuiltFor(c)
  PROVE  Account'
<1> USE DEF BuiltFor, Builds, SameBut
<1>1. Accounted'
  <2>1. ASSUME NEW h \in Hubs, NEW e \in Consumers, NEW p \in Ports, <<h, e, p>> \in subs'
        PROVE  Holds(e, h, p)'
    BY <2>1 DEF Holds, Account, Accounted
  <2>2. ASSUME NEW p \in mine' PROVE \E e \in Consumers, h \in Hubs : Holds(e, h, p)'
    <3>1. CASE p = fresh'.port
      <4>1. PICK h \in Hubs : h = fresh'.hub
        OBVIOUS
      <4>2. Holds(c, h, p)'
        BY <3>1, <4>1 DEF Holds
      <4> QED
        BY <4>2
    <3>2. CASE p \in mine
      <4>1. PICK e \in Consumers, h \in Hubs : Holds(e, h, p)
        BY <3>2 DEF Account, Accounted
      <4>2. Holds(e, h, p)'
        BY <4>1 DEF Holds
      <4> QED
        BY <4>2
    <3> QED
      BY <3>1, <3>2
  <2> QED
    BY <2>1, <2>2 DEF Accounted
<1>2. fresh'.port \notin mine
  BY DEF Pool
<1>3. LiveHasPort' /\ LiveIsAlone' /\ FreshIsAlone'
  BY <1>2 DEF Account, LiveHasPort, LiveIsAlone, FreshIsAlone
<1>4. Delivered'
  <2> SUFFICES ASSUME ~stopped' PROVE Delivered'
    BY DEF Delivered
  <2>1. ~stopped /\ Delivered
    BY DEF Account
  <2>2. \A e \in Consumers : Holder(e)' =>
          /\ con'[e].port \in mine' /\ <<con'[e].hub, e, con'[e].port>> \in subs'
          /\ con'[e].port # fresh'.port
    BY <1>2, <2>1 DEF Delivered
  <2>3. \A e, f \in Consumers : e # f /\ Holder(e)' /\ Holder(f)' => con'[e].port # con'[f].port
    BY <2>1 DEF Delivered
  <2>4. fresh'.port \in mine' /\ <<fresh'.hub, Making', fresh'.port>> \in subs'
    OBVIOUS
  <2> QED
    BY <2>2, <2>3, <2>4 DEF Delivered
<1> QED
  BY <1>1, <1>3, <1>4 DEF Account

(* What was built for c is published as c.                                 *)
Published(c) ==
  /\ fresh # None /\ c = Making /\ c \in Consumers /\ ~stopped /\ fresh.hub \in Hubs
  /\ con'[c] = fresh /\ Holder(c)' /\ ~Holder(c)
  /\ \A e \in Consumers \ {c} : /\ Holder(e)' <=> Holder(e)
                                /\ Claims(e)' => Holder(e) /\ SameBut(e)
                                /\ Live(e)' => Live(e) /\ SameBut(e)
  /\ fresh' = None /\ UNCHANGED <<subs, mine>>
LEMMA PublishKeeps ==
  ASSUME Account, RelayTypes, NEW c, Published(c)
  PROVE  Account'
<1> USE DEF Published, SameBut
<1>0. \A e \in Consumers \ {c} : Holder(e)' => Holder(e) /\ SameBut(e)
  BY DEF Holder
<1>1. Accounted'
  <2>1. ASSUME NEW h \in Hubs, NEW e \in Consumers, NEW p \in Ports, Holds(e, h, p)
        PROVE  Holds(e, h, p)'
    BY <2>1, <1>0 DEF Holds
  <2>2. ASSUME NEW p \in mine' PROVE \E e \in Consumers, h \in Hubs : Holds(e, h, p)'
    <3>1. PICK e \in Consumers, h \in Hubs : Holds(e, h, p)
      BY DEF Account, Accounted
    <3>2. p \in Ports
      BY DEF RelayTypes
    <3> QED
      BY <2>1, <3>1, <3>2
  <2>3. ASSUME NEW h \in Hubs, NEW e \in Consumers, NEW p \in Ports, <<h, e, p>> \in subs'
        PROVE  Holds(e, h, p)'
    BY <2>1, <2>3 DEF Account, Accounted
  <2> QED
    BY <2>2, <2>3 DEF Accounted
<1>2. fresh.port \in mine /\ \A e \in Consumers : Holder(e) => con[e].port # fresh.port
  BY DEF Account, Delivered
<1>3. LiveHasPort'
  BY <1>2 DEF Account, LiveHasPort
<1>4. LiveIsAlone'
  <2> SUFFICES ASSUME NEW a \in Consumers, NEW b \in Consumers, a # b, Live(a)', Claims(b)'
               PROVE  con'[a].port # con'[b].port
    BY DEF LiveIsAlone
  <2>1. CASE a = c
    BY <1>2, <2>1
  <2>2. CASE b = c
    BY <2>2 DEF Account, FreshIsAlone
  <2>3. CASE a # c /\ b # c
    BY <2>3 DEF Account, LiveIsAlone, Holder
  <2> QED
    BY <2>1, <2>2, <2>3
<1>5. FreshIsAlone'
  BY DEF FreshIsAlone
<1>6. Delivered'
  BY <1>0 DEF Account, Delivered
<1> QED
  BY <1>1, <1>3, <1>4, <1>5, <1>6 DEF Account

(* What was built is given back, once the shutdown has been through.       *)
Discarded ==
  /\ LetsGo(Making, fresh) /\ fresh' = None /\ stopped /\ stopped'
  /\ \A e \in Consumers : /\ Holder(e) => Holder(e)'
                          /\ Claims(e)' => Claims(e)
                          /\ Live(e)' => Live(e)
                          /\ SameBut(e)
LEMMA DiscardKeeps ==
  ASSUME Account, RelayTypes, Discarded
  PROVE  Account'
<1> USE DEF Discarded, LetsGo, SameBut
<1>1. Accounted'
  <2>1. ASSUME NEW h \in Hubs, NEW e \in Consumers, NEW p \in Ports, <<h, e, p>> \in subs'
        PROVE  Holds(e, h, p)'
    <3>1. <<h, e, p>> \in subs /\ (h # fresh.hub \/ e # Making)
      BY <2>1
    <3>2. Holds(e, h, p)
      BY <3>1 DEF Account, Accounted
    <3> QED
      BY <3>1, <3>2 DEF Holds
  <2>2. ASSUME NEW p \in mine' PROVE \E e \in Consumers, h \in Hubs : Holds(e, h, p)'
    <3>1. p \in mine /\ p # fresh.port
      OBVIOUS
    <3>2. PICK e \in Consumers, h \in Hubs : Holds(e, h, p)
      BY <3>1 DEF Account, Accounted
    <3>3. Holds(e, h, p)'
      BY <3>1, <3>2 DEF Holds
    <3> QED
      BY <3>3
  <2> QED
    BY <2>1, <2>2 DEF Accounted
<1>2. LiveHasPort'
  <2>1. ASSUME NEW e \in Consumers, Live(e) PROVE con[e].port \in mine /\ con[e].port # fresh.port
    <3>1. con[e].port \in mine /\ con[e].port \in Ports
      BY <2>1 DEF Account, LiveHasPort, RelayTypes
    <3> QED
      BY <2>1, <3>1, NoneIsTyped, PortsAssumption DEF Account, FreshIsAlone
  <2> QED
    BY <2>1 DEF LiveHasPort
<1>3. LiveIsAlone' /\ FreshIsAlone' /\ Delivered'
  BY DEF Account, LiveIsAlone, FreshIsAlone, Delivered
<1> QED
  BY <1>1, <1>2, <1>3 DEF Account

-----------------------------------------------------------------------------
(* Most steps are neutral: no entry comes or goes, and nothing is built.   *)
SameHands ==
  /\ \A c \in Consumers : SameBut(c) /\ (Live(c)' => Live(c)) /\ (Dropped(c)' <=> Dropped(c))
  /\ \A d \in Dests : /\ place'[d] \in Entries <=> place[d] \in Entries
                      /\ place[d] \in Entries =>
                           ((place'[d] # "map" => ph'[d] \in {"stop", "release"}) <=>
                            (place[d] # "map" => ph[d] \in {"stop", "release"}))
  /\ \A r \in Rends : tier'[r] \in Entries <=> tier[r] \in Entries
  /\ UNCHANGED <<subs, mine, fresh>> /\ (fresh # None => Making' = Making)
  /\ stopped => stopped'
LEMMA SameHandsIsNeutral ==
  ASSUME SameHands
  PROVE  Neutral
<1>1. ASSUME NEW d \in Dests
      PROVE  (Claims(Main(d))' <=> Claims(Main(d))) /\ (Claims(Backup(d))' <=> Claims(Backup(d)))
  <2>1. con'[Backup(d)].port = con[Backup(d)].port
    BY Names DEF SameHands, SameBut
  <2> QED
    BY <2>1, ClaimsAre, ClaimsAreNext DEF SameHands, ClaimsByKind
<1>2. \A r \in Rends : Claims(Encode(r))' <=> Claims(Encode(r))
  BY ClaimsAre, ClaimsAreNext DEF SameHands, ClaimsByKind
<1>3. \A c \in Consumers : Claims(c)' <=> Claims(c)
  BY <1>1, <1>2, Names
<1> QED
  BY <1>3 DEF SameHands, Neutral, Holder

(* A stop leaves every child as it is, or takes it down.                   *)
LEMMA StopsKeepHands ==
  ASSUME IInv, NEW c \in Consumers, StopProcess(c)
  PROVE  \A e \in Consumers : SameBut(e) /\ (Live(e)' => Live(e))
<1>1. HeldTypes /\ RelayTypes /\ ConShape
  BY DEF IInv, TypeOK, Processes
<1> QED
  BY <1>1, StopEffect, ConFields DEF Live, HeldTypes

(* While the pass stays where it is, so does what it has in hand.          *)
LEMMA SamePlace ==
  ASSUME UNCHANGED <<pc, run>>
  PROVE  Making' = Making /\ Next1' = Next1 /\ \A c : Dropped(c)' <=> Dropped(c)
BY DEF Making, Next1, Dropped

(* The steps that touch no port, and no subscription.                      *)
HandsOff ==
  \/ Enter \/ ListDestinations \/ ListRenditions \/ Decide \/ DestinationsStopped
  \/ RenditionsStopped \/ RenditionsStarted \/ LookBackup \/ Leave \/ StopCalled
  \/ DestinationsDown \/ EncodesDown \/ SortDestinations \/ TakeRendition \/ StopRendition
  \/ RendNotBuilt \/ RunRendition \/ LookDestination \/ DestNotBuilt \/ RunDestination
  \/ StopBackup \/ BackupNotBuilt \/ RunBackup \/ Collect \/ LoopsDone
  \/ (\E d \in Dests : TearStop(d) \/ TearBackup(d)) \/ (\E r \in Rends : StopEncode(r))

(* They leave everybody what he has.                                       *)
LEMMA NeutralSteps ==
  ASSUME IInv, HandsOff
  PROVE  SameHands
<1>1. CASE Enter \/ ListDestinations \/ ListRenditions \/ Decide \/ DestinationsStopped \/
       RenditionsStopped \/ RenditionsStarted \/ LookBackup \/ Leave
  BY <1>1 DEF Enter, ListDestinations, ListRenditions, Decide, DestinationsStopped,
    RenditionsStopped, RenditionsStarted, LookBackup, Leave, Step, Dropped, Making, Processes,
    FreshShape, SameHands, Entries, stopped, held, relay, IInv, Live, SameBut, OtherSide, Goto
<1>2. CASE SortDestinations
  BY <1>2, Chosen DEF SortDestinations, Step, OtherSide, TypeOK, HeldTypes, Passing, Dropped,
    Making, Processes, FreshShape, SameHands, Entries, stopped, held, relay, IInv, Live, SameBut
<1>3. ASSUME NEW d \in Dests, TearStop(d) PROVE SameHands
  BY <1>3, StopsKeepHands, Names, SamePlace DEF TearStop, Tears, TypeOK, HeldTypes, SameHands,
    Entries, stopped, held, relay, IInv, Live, SameBut
<1>4. ASSUME NEW d \in Dests, TearBackup(d) PROVE SameHands
  BY <1>4, StopsKeepHands, Names, SamePlace DEF TearBackup, Tears, TypeOK, HeldTypes, SameHands,
    Entries, stopped, held, relay, IInv, Live, SameBut
<1>5. CASE TakeRendition
  BY <1>5, Chosen DEF TakeRendition, Goto, OtherSide, TypeOK, HeldTypes, Dropped, Making,
    Processes, FreshShape, SameHands, Entries, stopped, held, relay, IInv, Live, SameBut
<1>6. CASE StopRendition
  BY <1>6, StopsKeepHands, Names, Chosen DEF StopRendition, Step, OtherSide, TypeOK, HeldTypes,
    Passing, OneDest, Dropped, Making, Processes, FreshShape, SameHands, Entries, stopped, held,
    relay, IInv, Live, SameBut
<1>7. CASE RendNotBuilt
  BY <1>7, Chosen DEF RendNotBuilt, FailRend, TypeOK, HeldTypes, Starting, Halting, stopped,
    Dropped, Making, Processes, FreshShape, SameHands, Entries, held, relay, IInv, Live, SameBut
<1>8. CASE RunRendition
  BY <1>8, StartsKeepLive DEF RunRendition, Step, OtherSide, Dropped, Making, Processes,
    FreshShape, SameHands, Entries, stopped, held, relay, IInv, Live, SameBut
<1>9. CASE LookDestination
  BY <1>9, Chosen DEF LookDestination, Goto, OtherSide, FailDest, TypeOK, HeldTypes, Starting,
    Halting, stopped, Passing, Dropped, Making, Processes, FreshShape, SameHands, Entries, held,
    relay, IInv, Live, SameBut
<1>10. CASE DestNotBuilt
  BY <1>10, Chosen DEF DestNotBuilt, FailDest, TypeOK, HeldTypes, Starting, Halting, stopped,
    Passing, Dropped, Making, Processes, FreshShape, SameHands, Entries, held, relay, IInv, Live,
    SameBut
<1>11. CASE RunDestination
  BY <1>11, StartsKeepLive DEF RunDestination, Step, OtherSide, Dropped, Making, Processes,
    FreshShape, SameHands, Entries, stopped, held, relay, IInv, Live, SameBut
<1>12. CASE StopBackup
  BY <1>12, StopsKeepHands, Names, Chosen DEF StopBackup, Step, OtherSide, TypeOK, HeldTypes,
    Passing, OneDest, Dropped, Making, Processes, FreshShape, SameHands, Entries, stopped, held,
    relay, IInv, Live, SameBut
<1>13. CASE BackupNotBuilt
  BY <1>13 DEF BackupNotBuilt, Next1, Dropped, Making, Processes, FreshShape, SameHands, Entries,
    stopped, held, relay, IInv, Live, SameBut
<1>14. CASE RunBackup
  BY <1>14, StartsKeepLive DEF RunBackup, Step, OtherSide, Dropped, Making, Processes, FreshShape,
    SameHands, Entries, stopped, held, relay, IInv, Live, SameBut
<1>15. CASE StopCalled \/ DestinationsDown \/ EncodesDown
  BY <1>15, SamePlace DEF StopCalled, DestinationsDown, EncodesDown, Halt, SameHands, Entries,
    stopped, held, relay, IInv, Live, SameBut
<1>16. CASE Collect
  BY <1>16, CollectEffect, SamePlace DEF Collect, Halt, Passing, TypeOK, HeldTypes, SameHands,
    Entries, stopped, held, relay, IInv, Live, SameBut
<1>17. ASSUME NEW r \in Rends, StopEncode(r) PROVE SameHands
  BY <1>17, StopsKeepHands, Names, SamePlace DEF StopEncode, TypeOK, HeldTypes, SameHands,
    Entries, stopped, held, relay, IInv, Live, SameBut
<1>18. CASE LoopsDone
  BY <1>18, SamePlace DEF LoopsDone, Halt, SameHands, Entries, stopped, held, relay, IInv, Live,
    SameBut
<1> QED
  BY <1>1, <1>2, <1>3, <1>4, <1>5, <1>6, <1>7, <1>8, <1>9, <1>10, <1>11, <1>12, <1>13, <1>14,
    <1>15, <1>16, <1>17, <1>18 DEF HandsOff

(* A release takes a claim away: the entry's stage moves past it.          *)
LEMMA ReleaseSteps ==
  ASSUME IInv
  PROVE  /\ \A d \in Dests : TearRelease(d) => Released(Main(d))
         /\ \A d \in Dests : TearBackupRelease(d) => Released(Backup(d))
         /\ RenditionStopped => Released(Encode(Min(run.stopR)))
         /\ \A r \in Rends : ReleaseStopped(r) => Released(Encode(r))
         /\ DropBackup => Released(Backup(Next1))
<1>0. /\ TypeOK /\ HeldTypes /\ RunTypes /\ Passing /\ Halting /\ Starting /\ Stages /\ ConShape
      /\ LiveIsAlone /\ OldIsAlone /\ FreshShape /\ Swapping /\ LiveClaims
  BY DEF IInv, TypeOK, Processes, Owned
<1>a. ASSUME NEW c \in Consumers, Claims(c), ~Live(c), NEW e \in Consumers, Live(e)
      PROVE  con[e].port # con[c].port
  BY <1>a, <1>0 DEF LiveIsAlone
<1>b. UNCHANGED con => \A e \in Consumers : SameBut(e) /\ (Live(e)' <=> Live(e))
  BY DEF SameBut, Live
<1>1. ASSUME NEW d \in Dests, TearRelease(d) PROVE Released(Main(d))
  <2>1. /\ place[d] \in {"leaving", "stopping"} /\ ph[d] = "release" /\ LetGo(Main(d), con[Main(d)])
        /\ UNCHANGED <<con, tier, fresh, pc, run, stop>>
        /\ ~stopped => pc = "stopDests"
    BY <1>1, <1>0 DEF TearRelease, Tears, Halting, stopped
  <2>2. LetsGo(Main(d), con[Main(d)])
    BY <2>1, LetGoEffect
  <2>3. Claims(Main(d)) /\ ~Claims(Main(d))' /\ ~Live(Main(d))
    <3>1. place'[d] = "none" \/ (place'[d] # "map" /\ ph'[d] = "bstop")
      BY <1>1, <2>1, <1>0 DEF TearRelease, Done, HeldTypes
    <3> QED
      BY <2>1, <3>1, <1>0, ClaimsAre, ClaimsAreNext DEF ClaimsByKind, Entries, Stages
  <2>4. Claims(Backup(d))' <=> Claims(Backup(d))
    BY <1>1, <2>1, <1>0, ClaimsAre, ClaimsAreNext DEF TearRelease, Done, HeldTypes,
      ClaimsByKind, Entries
  <2>5. \A e \in Dests : e # d => place'[e] = place[e] /\ ph'[e] = ph[e]
    BY <1>1, <1>0 DEF TearRelease, Done, HeldTypes
  <2>6. \A e \in Consumers : e # Main(d) => (Claims(e)' <=> Claims(e))
    BY <2>1, <2>4, <2>5, Names, ClaimsAre, ClaimsAreNext DEF ClaimsByKind
  <2>7. ~stopped => Holder(Main(d)) /\ fresh = None
    BY <2>1, <2>3, <1>0 DEF Holder, Dropped, FreshShape
  <2>8. \A e \in Consumers : (Dropped(e)' <=> Dropped(e)) /\ Making' = Making
    BY <2>1, SamePlace
  <2>9. \A e \in Consumers : /\ Holder(e)' <=> Holder(e) /\ e # Main(d)
                             /\ Claims(e)' => Claims(e)
    BY <2>3, <2>6, <2>8 DEF Holder
  <2> QED
    BY <2>1, <2>2, <2>3, <2>7, <2>8, <2>9, <1>a, <1>b, Names DEF Released, stopped
<1>2. ASSUME NEW d \in Dests, TearBackupRelease(d) PROVE Released(Backup(d))
  <2>1. /\ place[d] \in {"leaving", "stopping"} /\ ph[d] = "brelease"
        /\ LetGo(Backup(d), con[Backup(d)]) /\ place'[d] = "none"
        /\ UNCHANGED <<con, tier, fresh, pc, run, stop>>
        /\ \A e \in Dests : e # d => place'[e] = place[e] /\ ph'[e] = ph[e]
        /\ ~stopped => pc = "stopDests"
    BY <1>2, <1>0 DEF TearBackupRelease, Tears, Done, Halting, HeldTypes, stopped
  <2>2. LetsGo(Backup(d), con[Backup(d)])
    BY <2>1, LetGoEffect
  <2>3. /\ ~Claims(Backup(d))' /\ ~Live(Backup(d)) /\ ~Claims(Main(d)) /\ ~Claims(Main(d))'
        /\ Claims(Backup(d)) \/ con[Backup(d)].port = NoPort
    BY <2>1, <1>0, ClaimsAre, ClaimsAreNext DEF ClaimsByKind, Entries, Stages
  <2>4. \A e \in Consumers : e # Backup(d) => (Claims(e)' <=> Claims(e))
    BY <2>1, <2>3, Names, ClaimsAre, ClaimsAreNext DEF ClaimsByKind
  <2>5. ~stopped => (Holder(Backup(d)) \/ con[Backup(d)].port = NoPort) /\ fresh = None
    BY <2>1, <2>3, <1>0 DEF Holder, Dropped, FreshShape
  <2>6. \A e \in Consumers : (Dropped(e)' <=> Dropped(e)) /\ Making' = Making
    BY <2>1, SamePlace
  <2>7. \A e \in Consumers : /\ Holder(e)' <=> Holder(e) /\ e # Backup(d)
                             /\ Claims(e)' => Claims(e)
    BY <2>3, <2>4, <2>6 DEF Holder
  <2>8. \A e \in Consumers : Live(e) => con[e].port # con[Backup(d)].port
    BY <2>3, <1>a, <1>0, Names DEF ConShape, Live
  <2> QED
    BY <2>1, <2>2, <2>3, <2>5, <2>6, <2>7, <2>8, <1>b, Names DEF Released, stopped
<1>3. ASSUME NEW r \in Rends, CloseRendition(r), tier[r] \in {"leaving", "stopping"},
             ~Live(Encode(r)), UNCHANGED <<place, con, ph, fresh, stop>>,
             fresh # None => UNCHANGED <<pc, run>>,
             \A e \in Consumers : Dropped(e)' <=> Dropped(e),
             ~stopped => pc = "closeRend"
      PROVE  Released(Encode(r))
  <2>1. LetGo(Encode(r), con[Encode(r)]) /\ tier' = [tier EXCEPT ![r] = "none"]
    BY <1>3 DEF CloseRendition
  <2>2. LetsGo(Encode(r), con[Encode(r)])
    BY <2>1, LetGoEffect
  <2>3. Claims(Encode(r)) /\ ~Claims(Encode(r))'
    BY <1>3, <2>1, <1>0, ClaimsAre, ClaimsAreNext DEF ClaimsByKind, Entries, HeldTypes
  <2>4. \A e \in Consumers : e # Encode(r) => (Claims(e)' <=> Claims(e))
    BY <1>3, <2>1, <1>0, Names, ClaimsAre, ClaimsAreNext DEF ClaimsByKind, HeldTypes
  <2>5. ~stopped => Holder(Encode(r)) /\ fresh = None
    BY <1>3, <2>3, <1>0 DEF Holder, Dropped, FreshShape
  <2>6. \A e \in Consumers : /\ Holder(e)' <=> Holder(e) /\ e # Encode(r)
                             /\ Claims(e)' => Claims(e)
    BY <1>3, <2>3, <2>4 DEF Holder
  <2>7. fresh # None => Making' = Making
    BY <1>3, SamePlace
  <2> QED
    BY <1>3, <2>2, <2>3, <2>5, <2>6, <2>7, <1>a, <1>b, Names DEF Released, stopped
<1>4. ASSUME RenditionStopped PROVE Released(Encode(Min(run.stopR)))
  <2> DEFINE r == Min(run.stopR)
  <2>1. /\ pc = "closeRend" /\ pc' = "stopRends" /\ CloseRendition(r)
        /\ UNCHANGED <<place, con, ph, fresh, stop>>
    BY <1>4 DEF RenditionStopped, Step, OtherSide
  <2>2. r \in Rends
    BY <2>1, <1>0, Chosen DEF Passing
  <2>3. tier[r] = "leaving" /\ ~Live(Encode(r)) /\ fresh = None
    BY <2>1, <2>2, <1>0 DEF Passing, Stages, FreshShape
  <2>4. \A e \in Consumers : Dropped(e)' <=> Dropped(e)
    BY <2>1 DEF Dropped
  <2> HIDE DEF r
  <2>5. Released(Encode(r))
    BY <2>1, <2>2, <2>3, <2>4, <1>3
  <2> QED
    BY <2>5 DEF r
<1>5. ASSUME NEW r \in Rends, ReleaseStopped(r) PROVE Released(Encode(r))
  <2>1. /\ stop = "release" /\ tier[r] = "stopping" /\ CloseRendition(r)
        /\ UNCHANGED <<place, con, ph, fresh, stop, pc, run>>
    BY <1>5 DEF ReleaseStopped
  <2>2. ~Live(Encode(r)) /\ stopped
    BY <2>1, <1>0 DEF Halting, Live, stopped
  <2> QED
    BY <2>1, <2>2, <1>3, SamePlace
<1>6. ASSUME DropBackup PROVE Released(Backup(Next1))
  <2>1. /\ pc = "dropBackup" /\ pc' = "buildBackup" /\ LetGo(Backup(Next1), run.old)
        /\ UNCHANGED <<place, tier, con, ph, feed, run, fresh, stop>>
    BY <1>6 DEF DropBackup, Step, OtherSide, held
  <2>2. Next1 \in Dests /\ Next1' = Next1
    BY <2>1, <1>0, Chosen DEF Passing, OneDest, Dropping, Next1
  <2>a. PICK c \in Consumers : c = Backup(Next1)
    BY <2>2, Names
  <2>3. c \in Consumers /\ run.old.port = con[c].port /\ run.old.hub = con[c].hub /\ ~Live(c)
    BY <2>1, <2>2, <2>a, <1>0, Names DEF Swapping, Dropping
  <2>4. LetsGo(c, con[c])
    BY <2>1, <2>3, <2>a, LetGoEffect DEF LetsGo
  <2>5. /\ fresh = None /\ ~Dropped(c) /\ Dropped(c)'
        /\ \A e \in Consumers : e # c => ~Dropped(e) /\ ~Dropped(e)'
    BY <2>1, <2>2, <2>a, <1>0 DEF FreshShape, Dropped
  <2>6. \A e \in Consumers : Claims(e)' <=> Claims(e)
    BY <2>1, Names, ClaimsAre, ClaimsAreNext DEF ClaimsByKind
  <2>7. ~stopped => Holder(c) \/ con[c].port = NoPort
    <3>1. ~stopped => place[Next1] = "map"
      BY <2>1, <1>0 DEF Starting, OneDest, Dropping
    <3> QED
      BY <2>2, <2>5, <2>a, <3>1, ClaimsAre DEF Holder, ClaimsByKind, Entries
  <2>8. \A e \in Consumers : Live(e) => con[e].port # con[c].port
    BY <2>1, <2>3, <2>a, <1>0 DEF OldIsAlone
  <2>9. \A e \in Consumers : Holder(e)' <=> Holder(e) /\ e # c
    BY <2>5, <2>6 DEF Holder
  <2>10. Released(c)
    BY <2>1, <2>3, <2>4, <2>5, <2>6, <2>7, <2>8, <2>9, <1>b DEF Released, stopped
  <2> QED
    BY <2>10, <2>a
<1> QED
  BY <1>1, <1>2, <1>4, <1>5, <1>6

(* A build is for one consumer, whom nobody can find yet.                  *)
LEMMA BuildSteps ==
  ASSUME IInv
  PROVE  /\ RendBuilt => BuiltFor(Encode(Min(run.startR)))
         /\ DestBuilt => BuiltFor(Main(Next1))
         /\ BackupBuilt => BuiltFor(Backup(Next1))
<1>0. /\ TypeOK /\ HeldTypes /\ RunTypes /\ Passing /\ ConShape /\ FreshShape /\ Swapping
      /\ MakesThePlan
  BY DEF IInv, Following, TypeOK, Processes
<1>b. UNCHANGED con => \A e \in Consumers : SameBut(e) /\ (Live(e)' <=> Live(e))
  BY DEF SameBut, Live
<1>c. UNCHANGED held => \A e \in Consumers : Claims(e)' <=> Claims(e)
  BY Names, ClaimsAre, ClaimsAreNext DEF ClaimsByKind, held
<1>1. ASSUME RendBuilt PROVE BuiltFor(Encode(Min(run.startR)))
  <2>1. /\ pc = "startRends" /\ pc' = "publishRend" /\ Min(run.startR) \in Rends
        /\ Built(Encode(Min(run.startR)), Source, run.want[Min(run.startR)])
        /\ UNCHANGED <<held, con, stop>> /\ run'.startR = run.startR
    BY <1>1, <1>0, Chosen, PassWrites DEF RendBuilt, HubSet, Runs, held
  <2>2. fresh = None /\ \A e \in Consumers : ~Dropped(e) /\ ~Dropped(e)'
    BY <2>1, <1>0 DEF FreshShape, Dropped
  <2>3. Making' = Encode(Min(run.startR))
    BY <2>1 DEF Making
  <2> QED
    BY <2>1, <2>2, <2>3, <1>b, <1>c, Names, HubNames DEF BuiltFor, Built, Builds, Holder, stopped
<1>2. ASSUME DestBuilt PROVE BuiltFor(Main(Next1))
  <2>1. /\ pc = "buildDest" /\ pc' = "publishDest" /\ Next1 \in Dests /\ Next1' = Next1
        /\ Built(Main(Next1), run.hub, run.plan[Next1]) /\ UNCHANGED <<held, con, stop>>
    BY <1>2, <1>0, Chosen DEF DestBuilt, held, Next1
  <2>2. fresh = None /\ \A e \in Consumers : ~Dropped(e) /\ ~Dropped(e)'
    BY <2>1, <1>0 DEF FreshShape, Dropped
  <2>3. Making' = Main(Next1)
    BY <2>1 DEF Making
  <2>4. run.hub \in Hubs
    BY <2>1, <1>0, RunFields DEF RunTypes, MakesThePlan
  <2> QED
    BY <2>1, <2>2, <2>3, <2>4, <1>b, <1>c, Names DEF BuiltFor, Built, Builds, Holder, stopped
<1>3. ASSUME BackupBuilt PROVE BuiltFor(Backup(Next1))
  <2>1. /\ pc = "buildBackup" /\ pc' = "publishBackup" /\ Next1 \in Dests /\ Next1' = Next1
        /\ Built(Backup(Next1), con[Main(Next1)].hub, BackupSpec(Next1))
        /\ UNCHANGED <<held, con, stop>>
    BY <1>3, <1>0, Chosen DEF BackupBuilt, held, Next1
  <2>2. fresh = None /\ \A e \in Consumers : Dropped(e)' <=> Dropped(e)
    BY <2>1, <1>0 DEF FreshShape, Dropped
  <2>3. Making' = Backup(Next1)
    BY <2>1 DEF Making
  <2>4. con[Main(Next1)].hub \in Hubs
    BY <2>1, <1>0, ConFields, Names DEF Swapping, ConShape, HeldTypes, Dropping
  <2> QED
    BY <2>1, <2>2, <2>3, <2>4, <1>b, <1>c, Names DEF BuiltFor, Built, Builds, Holder, stopped
<1> QED
  BY <1>1, <1>2, <1>3

(* It is published while the engine runs, and given back once it does not. *)
LEMMA PublishSteps ==
  ASSUME IInv
  PROVE  /\ PublishRendition => Discarded \/ \E c \in Consumers : Published(c)
         /\ PublishDestination => Discarded \/ \E c \in Consumers : Published(c)
         /\ PublishBackup => Discarded \/ Neutral \/ \E c \in Consumers : Published(c)
<1>0. /\ TypeOK /\ HeldTypes /\ RunTypes /\ Passing /\ Halting /\ Starting /\ Stages /\ ConShape
      /\ FreshShape /\ Swapping
  BY DEF IInv, TypeOK, Processes
<1>b. UNCHANGED con => \A e \in Consumers : SameBut(e) /\ (Live(e)' <=> Live(e))
  BY DEF SameBut, Live
<1>c. UNCHANGED held => \A e \in Consumers : Claims(e)' <=> Claims(e)
  BY Names, ClaimsAre, ClaimsAreNext DEF ClaimsByKind, held
<1>d. fresh # None => fresh.hub \in Hubs
  BY <1>0, ConFields DEF FreshShape, HeldTypes
<1>1. ASSUME PublishRendition, stopped PROVE Discarded
  <2>1. /\ pc = "publishRend" /\ pc' = "startRends" /\ LetGo(Encode(Min(run.startR)), fresh)
        /\ fresh' = None /\ UNCHANGED <<held, con, stop>>
    BY <1>1 DEF PublishRendition, Goto, Discard, OtherSide, held
  <2>2. Making = Encode(Min(run.startR)) /\ \A e \in Consumers : ~Dropped(e) /\ ~Dropped(e)'
    BY <2>1 DEF Making, Dropped
  <2> QED
    BY <1>1, <2>1, <2>2, <1>b, <1>c, LetGoEffect DEF Discarded, Holder, stopped
<1>2. ASSUME PublishDestination, stopped PROVE Discarded
  <2>1. /\ pc = "publishDest" /\ pc' = "backup" /\ LetGo(Main(Next1), fresh)
        /\ fresh' = None /\ UNCHANGED <<held, con, stop>>
    BY <1>2 DEF PublishDestination, Goto, Discard, OtherSide, held
  <2>2. Making = Main(Next1) /\ \A e \in Consumers : ~Dropped(e) /\ ~Dropped(e)'
    BY <2>1 DEF Making, Dropped
  <2> QED
    BY <1>2, <2>1, <2>2, <1>b, <1>c, LetGoEffect DEF Discarded, Holder, stopped
<1>3. ASSUME PublishBackup, place[Next1] # "map" PROVE Discarded
  <2>1. /\ pc = "publishBackup" /\ pc' = "startDests" /\ LetGo(Backup(Next1), fresh)
        /\ fresh' = None /\ UNCHANGED <<held, con, stop>>
    BY <1>3 DEF PublishBackup, Goto, Discard, OtherSide, held
  <2>2. Making = Backup(Next1) /\ \A e \in Consumers : ~Dropped(e)'
    BY <2>1 DEF Making, Dropped
  <2>3. stopped
    BY <2>1, <1>3, <1>0 DEF Starting, OneDest, Dropping
  <2> QED
    BY <2>1, <2>2, <2>3, <1>b, <1>c, LetGoEffect DEF Discarded, Holder, stopped
<1>4. ASSUME PublishRendition, ~stopped PROVE \E c \in Consumers : Published(c)
  <2>1. Min(run.startR) \in Rends
    BY <1>4, <1>0, Chosen DEF PublishRendition, Passing
  <2>2. PICK r \in Rends : r = Min(run.startR)
    BY <2>1
  <2>3. /\ pc = "publishRend" /\ pc' = "runRend" /\ tier' = [tier EXCEPT ![r] = "map"]
        /\ con' = [con EXCEPT ![Encode(r)] = fresh]
        /\ fresh' = None /\ UNCHANGED <<place, ph, subs, mine, stop>>
    BY <1>4, <2>2 DEF PublishRendition, Goto, OtherSide
  <2>4. con'[Encode(r)] = fresh /\ \A e \in Consumers : e # Encode(r) => con'[e] = con[e]
    BY <2>3, <1>0, Names DEF HeldTypes
  <2>5. Making = Encode(r) /\ fresh # None /\ \A e \in Consumers : ~Dropped(e) /\ ~Dropped(e)'
    BY <2>2, <2>3, <1>0 DEF Making, Dropped, FreshShape
  <2>6. Claims(Encode(r))' /\ ~Claims(Encode(r))
    <3>1. tier[r] = "none"
      BY <2>2, <2>3, <1>4, <1>0, Chosen DEF Starting, Halting, Passing
    <3>2. tier'[r] = "map"
      BY <2>3, <1>0 DEF HeldTypes
    <3> QED
      BY <3>1, <3>2, ClaimsAre, ClaimsAreNext DEF ClaimsByKind, Entries
  <2>7. \A e \in Consumers : e # Encode(r) => (Claims(e)' <=> Claims(e))
    BY <2>3, <2>4, <1>0, Names, ClaimsAre, ClaimsAreNext DEF ClaimsByKind, HeldTypes
  <2>8. Published(Encode(r))
    BY <2>3, <2>4, <2>5, <2>6, <2>7, <1>4, <1>d, Names DEF Published, Holder, Live, SameBut
  <2> QED
    BY <2>8, Names
<1>5. ASSUME PublishDestination, ~stopped PROVE \E c \in Consumers : Published(c)
  <2>1. Next1 \in Dests
    BY <1>5, <1>0, Chosen DEF PublishDestination, Passing, OneDest
  <2>2. PICK d \in Dests : d = Next1
    BY <2>1
  <2>3. /\ pc = "publishDest" /\ pc' = "runDest" /\ place' = [place EXCEPT ![d] = "map"]
        /\ con' = [con EXCEPT ![Main(d)] = fresh, ![Backup(d)] = None]
        /\ fresh' = None /\ UNCHANGED <<tier, ph, subs, mine, stop>>
    BY <1>5, <2>2 DEF PublishDestination, Goto, OtherSide
  <2>4. /\ con'[Main(d)] = fresh /\ con'[Backup(d)] = None
        /\ \A e \in Consumers : e # Main(d) /\ e # Backup(d) => con'[e] = con[e]
    BY <2>3, <1>0, Names DEF HeldTypes
  <2>5. Making = Main(d) /\ fresh # None /\ \A e \in Consumers : ~Dropped(e) /\ ~Dropped(e)'
    BY <2>2, <2>3, <1>0 DEF Making, Dropped, FreshShape
  <2>6. /\ Claims(Main(d))' /\ ~Claims(Main(d)) /\ ~Claims(Backup(d)) /\ ~Claims(Backup(d))'
    <3>1. place[d] = "none"
      BY <2>2, <2>3, <1>5, <1>0 DEF Starting, Halting
    <3>2. place'[d] = "map"
      BY <2>3, <1>0 DEF HeldTypes
    <3> QED
      BY <2>4, <3>1, <3>2, NoneIsTyped, ClaimsAre, ClaimsAreNext DEF ClaimsByKind, Entries
  <2>7. \A e \in Consumers : e # Main(d) => (Claims(e)' <=> Claims(e))
    <3>1. \A e \in Dests : e # d => place'[e] = place[e]
      BY <2>3, <1>0 DEF HeldTypes
    <3>2. ASSUME NEW e \in Dests, e # d
          PROVE  /\ Claims(Main(e))' <=> Claims(Main(e))
                 /\ Claims(Backup(e))' <=> Claims(Backup(e))
      <4>1. con'[Backup(e)] = con[Backup(e)]
        BY <2>4, <3>2, Names
      <4> QED
        BY <2>3, <3>1, <3>2, <4>1, ClaimsAre, ClaimsAreNext DEF ClaimsByKind
    <3>3. \A r \in Rends : Claims(Encode(r))' <=> Claims(Encode(r))
      BY <2>3, ClaimsAre, ClaimsAreNext DEF ClaimsByKind
    <3> QED
      BY <2>6, <3>2, <3>3, Names
  <2>8. ~Live(Backup(d))'
    BY <2>4, NoneIsTyped DEF Live
  <2>9. Published(Main(d))
    BY <2>3, <2>4, <2>5, <2>6, <2>7, <2>8, <1>5, <1>d, Names DEF Published, Holder, Live, SameBut
  <2> QED
    BY <2>9, Names
<1>6. ASSUME PublishBackup, place[Next1] = "map"
      PROVE  Neutral \/ \E c \in Consumers : Published(c)
  <2>1. Next1 \in Dests
    BY <1>6, <1>0, Chosen DEF PublishBackup, Passing, OneDest, Dropping
  <2>2. PICK d \in Dests : d = Next1
    BY <2>1
  <2>3. /\ pc = "publishBackup" /\ pc' = "runBackup" /\ con' = [con EXCEPT ![Backup(d)] = fresh]
        /\ fresh' = None /\ UNCHANGED <<place, tier, ph, subs, mine, stop>>
    BY <1>6, <2>2 DEF PublishBackup, Goto, OtherSide
  <2>4. con'[Backup(d)] = fresh /\ \A e \in Consumers : e # Backup(d) => con'[e] = con[e]
    BY <2>3, <1>0, Names DEF HeldTypes
  <2>5. /\ Making = Backup(d) /\ Dropped(Backup(d))
        /\ \A e \in Consumers : e # Backup(d) => ~Dropped(e)
        /\ \A e \in Consumers : ~Dropped(e)'
    BY <2>2, <2>3 DEF Making, Dropped
  <2>6. \A e \in Consumers : e # Backup(d) => (Claims(e)' <=> Claims(e))
    BY <2>3, <2>4, Names, ClaimsAre, ClaimsAreNext DEF ClaimsByKind
  <2>7. ~stopped
    BY <1>6, <2>1, <1>0 DEF Halting
  <2>8. CASE fresh = None
    <3>1. ~Claims(Backup(d))' /\ ~Live(Backup(d))'
      BY <2>4, <2>8, NoneIsTyped, ClaimsAreNext DEF ClaimsByKind, Live
    <3> QED
      BY <2>3, <2>4, <2>5, <2>6, <2>7, <2>8, <3>1 DEF Neutral, Holder, Live, SameBut
  <2>9. CASE fresh # None
    <3>1. Claims(Backup(d))'
      BY <1>6, <2>2, <2>3, <2>4, <2>9, <1>0, PortsAssumption, ClaimsAreNext
      DEF ClaimsByKind, Entries, FreshShape
    <3>2. Published(Backup(d))
      BY <2>3, <2>4, <2>5, <2>6, <2>7, <2>9, <3>1, <1>d, Names DEF Published, Holder, Live,
        SameBut
    <3> QED
      BY <3>2, Names
  <2> QED
    BY <2>8, <2>9
<1> QED
  BY <1>1, <1>2, <1>3, <1>4, <1>5, <1>6

(* A child is raised by a publication, and by nothing else.                *)
LEMMA RaisedByPublishing ==
  ASSUME IInv, EngineStep
  PROVE  \/ PublishRendition \/ PublishDestination \/ PublishBackup
         \/ \A c \in Consumers : SameBut(c) /\ (Live(c)' => Live(c))
<1>1. CASE HandsOff
  BY <1>1, NeutralSteps DEF SameHands
<1>2. ASSUME NEW d \in Dests, TearRelease(d) \/ TearBackupRelease(d)
      PROVE  \A c \in Consumers : SameBut(c) /\ (Live(c)' => Live(c))
  BY <1>2, ReleaseSteps DEF Released
<1>3. ASSUME NEW r \in Rends, ReleaseStopped(r)
      PROVE  \A c \in Consumers : SameBut(c) /\ (Live(c)' => Live(c))
  BY <1>3, ReleaseSteps DEF Released
<1>4. CASE RenditionStopped \/ DropBackup
  BY <1>4, ReleaseSteps DEF Released
<1>5. CASE RendBuilt \/ DestBuilt \/ BackupBuilt
  BY <1>5, BuildSteps DEF BuiltFor
<1> QED
  BY <1>1, <1>2, <1>3, <1>4, <1>5 DEF EngineStep, HandsOff

(* The books balance, whatever the engine does.                            *)
LEMMA AccountKept ==
  ASSUME IInv, EngineStep
  PROVE  Account'
<1>1. Account /\ RelayTypes /\ Pool
  BY DEF IInv, Account, Owned, TypeOK
<1>2. CASE HandsOff
  BY <1>1, <1>2, NeutralSteps, SameHandsIsNeutral, NeutralKeeps
<1>3. ASSUME NEW d \in Dests, TearRelease(d) \/ TearBackupRelease(d) PROVE Account'
  BY <1>1, <1>3, ReleaseSteps, ReleaseKeeps, Names
<1>4. CASE RenditionStopped \/ DropBackup
  BY <1>1, <1>4, ReleaseSteps, ReleaseKeeps
<1>5. ASSUME NEW r \in Rends, ReleaseStopped(r) PROVE Account'
  BY <1>1, <1>5, ReleaseSteps, ReleaseKeeps
<1>6. CASE RendBuilt \/ DestBuilt \/ BackupBuilt
  BY <1>1, <1>6, BuildSteps, BuildKeeps
<1>7. CASE PublishRendition \/ PublishDestination \/ PublishBackup
  BY <1>1, <1>7, PublishSteps, PublishKeeps, DiscardKeeps, NeutralKeeps
<1> QED
  BY <1>2, <1>3, <1>4, <1>5, <1>6, <1>7 DEF EngineStep, HandsOff

-----------------------------------------------------------------------------
(* A child can leave its port bound only as it goes down.                  *)
LeavesBound(c) == /\ zombie' \in {zombie, zombie \cup {con[c].port}} /\ UNCHANGED <<other, fresh>>
                  /\ (zombie' # zombie => UpOf(c)) /\ con'[c].proc \notin {"new", "up"}
LEMMA StopBinds ==
  ASSUME HeldTypes, NEW c \in Consumers, StopProcess(c), UNCHANGED <<other, fresh>>
  PROVE  LeavesBound(c)
<1>1. con' = [con EXCEPT ![c].proc = IF @ = "none" THEN @ ELSE "gone"] /\ con[c] \in ConType
  BY DEF StopProcess, HeldTypes
<1>2. con'[c].proc \in {"none", "gone"}
  BY <1>1 DEF HeldTypes, ConType
<1> QED
  BY <1>2 DEF StopProcess, LeavesBound

(* Every other step of the engine leaves what is bound as it is.           *)
LEMMA BoundSteps ==
  ASSUME IInv, EngineStep
  PROVE  \/ UNCHANGED <<zombie, other>>
         \/ HandsOff /\ \E c \in Consumers : LeavesBound(c)
<1>0. HeldTypes /\ RunTypes /\ Passing
  BY DEF IInv, TypeOK
<1>1. CASE Enter \/ ListDestinations \/ ListRenditions \/ Decide \/ SortDestinations \/
       DestinationsStopped \/ TakeRendition \/ RenditionStopped \/ RenditionsStopped
  BY <1>1 DEF Enter, ListDestinations, ListRenditions, Decide, SortDestinations,
    DestinationsStopped, TakeRendition, RenditionStopped, RenditionsStopped, relay
<1>2. CASE RendBuilt \/ RendNotBuilt \/ PublishRendition \/ RunRendition \/ RenditionsStarted \/
       LookDestination \/ DestBuilt \/ DestNotBuilt \/ PublishDestination \/ RunDestination
  BY <1>2 DEF RendBuilt, RendNotBuilt, PublishRendition, RunRendition, RenditionsStarted,
    LookDestination, DestBuilt, DestNotBuilt, PublishDestination, RunDestination, relay
<1>3. CASE LookBackup \/ DropBackup \/ BackupBuilt \/ BackupNotBuilt \/ PublishBackup \/
       RunBackup \/ Leave
  BY <1>3 DEF LookBackup, DropBackup, BackupBuilt, BackupNotBuilt, PublishBackup, RunBackup, Leave,
    relay
<1>4. CASE StopCalled \/ Collect \/ DestinationsDown \/ EncodesDown \/ LoopsDone \/
       \E r \in Rends : ReleaseStopped(r)
  BY <1>4 DEF StopCalled, Collect, DestinationsDown, EncodesDown, LoopsDone, ReleaseStopped, relay
<1>5. ASSUME NEW d \in Dests, TearRelease(d) \/ TearBackupRelease(d)
      PROVE  UNCHANGED <<zombie, other>>
  BY <1>5 DEF TearRelease, TearBackupRelease, Tears
<1>6. ASSUME NEW d \in Dests, TearStop(d) \/ TearBackup(d)
      PROVE  HandsOff /\ \E c \in Consumers : LeavesBound(c)
  <2>1. LeavesBound(Main(d)) \/ LeavesBound(Backup(d))
    BY <1>0, <1>6, Names, StopBinds DEF TearStop, TearBackup, Tears
  <2> QED
    BY <1>6, <2>1, Names DEF HandsOff
<1>7. CASE StopRendition
  <2>1. Min(run.stopR) \in Rends /\ StopProcess(Encode(Min(run.stopR))) /\ UNCHANGED <<other, fresh>>
    BY <1>0, <1>7, Chosen DEF StopRendition, Step, Passing
  <2> QED
    BY <1>0, <1>7, <2>1, Names, StopBinds DEF HandsOff
<1>8. CASE StopBackup
  <2>1. Next1 \in Dests
    BY <1>0, <1>8, Chosen DEF StopBackup, Step, Passing, OneDest
  <2>2. CASE run.old.proc = "none"
    BY <1>8, <2>2 DEF StopBackup
  <2>3. CASE run.old.proc # "none"
    <3>1. StopProcess(Backup(Next1)) /\ UNCHANGED <<other, fresh>>
      BY <1>8, <2>3 DEF StopBackup
    <3> QED
      BY <1>0, <1>8, <2>1, <3>1, Names, StopBinds DEF HandsOff
  <2> QED
    BY <2>2, <2>3
<1>9. ASSUME NEW r \in Rends, StopEncode(r)
      PROVE  HandsOff /\ \E c \in Consumers : LeavesBound(c)
  BY <1>0, <1>9, Names, StopBinds DEF StopEncode, HandsOff
<1> QED
  BY <1>1, <1>2, <1>3, <1>4, <1>5, <1>6, <1>7, <1>8, <1>9 DEF EngineStep

(* Nor does the engine put such a port in other hands.                     *)
LEMMA UnboundKept ==
  ASSUME IInv, EngineStep
  PROVE  Unbound'
<1>0. Unbound /\ LiveHasPort /\ LiveIsAlone /\ LiveClaims /\ FreshIsAlone /\ Pool
  BY DEF IInv, Owned, Processes
<1>1. CASE HandsOff /\ \E c \in Consumers : LeavesBound(c)
  <2>1. PICK c \in Consumers : LeavesBound(c)
    BY <1>1
  <2>2. /\ \A e \in Consumers : con'[e].port = con[e].port /\ (Live(e)' => Live(e) /\ e # c)
        /\ UNCHANGED <<other, fresh>>
    BY <1>1, <2>1, NeutralSteps DEF SameHands, SameBut, LeavesBound, Live
  <2>3. UpOf(c) => /\ con[c].port \notin other
                   /\ \A e \in Consumers : Live(e) /\ e # c => con[e].port # con[c].port
                   /\ fresh # None => fresh.port # con[c].port
    BY <1>0 DEF UpOf, Live, LiveHasPort, LiveIsAlone, LiveClaims, FreshIsAlone, Pool
  <2> QED
    BY <1>0, <2>1, <2>2, <2>3 DEF Unbound, LeavesBound
<1>2. CASE UNCHANGED <<zombie, other>>
  <2>1. CASE \A c \in Consumers : SameBut(c) /\ (Live(c)' => Live(c))
    <3>1. fresh' = None \/ fresh' = fresh \/ fresh'.port \notin zombie
      <4>1. CASE HandsOff
        BY <4>1, NeutralSteps DEF SameHands
      <4>2. ASSUME NEW d \in Dests, TearRelease(d) \/ TearBackupRelease(d) PROVE fresh' = fresh
        BY <4>2, ReleaseSteps DEF Released
      <4>3. ASSUME NEW r \in Rends, ReleaseStopped(r) PROVE fresh' = fresh
        BY <4>3, ReleaseSteps DEF Released
      <4>4. CASE RenditionStopped \/ DropBackup
        BY <4>4, ReleaseSteps DEF Released
      <4>5. CASE RendBuilt \/ DestBuilt \/ BackupBuilt
        BY <4>5 DEF RendBuilt, DestBuilt, BackupBuilt, Built, Builds
      <4>6. CASE PublishRendition \/ PublishDestination \/ PublishBackup
        BY <4>6 DEF PublishRendition, PublishDestination, PublishBackup, Discard
      <4> QED
        BY <4>1, <4>2, <4>3, <4>4, <4>5, <4>6 DEF EngineStep, HandsOff
    <3> QED
      BY <1>0, <1>2, <2>1, <3>1 DEF Unbound, SameBut
  <2>2. CASE PublishRendition \/ PublishDestination \/ PublishBackup
    <3>1. CASE Neutral \/ Discarded
      BY <1>0, <1>2, <3>1 DEF Unbound, Neutral, Discarded, SameBut
    <3>2. ASSUME NEW c \in Consumers, Published(c) PROVE Unbound'
      BY <1>0, <1>2, <3>2 DEF Unbound, Published, SameBut, Live
    <3> QED
      BY <2>2, <3>1, <3>2, PublishSteps
  <2> QED
    BY <2>1, <2>2, RaisedByPublishing
<1> QED
  BY <1>1, <1>2, BoundSteps

(* The other engines take no port that is bound.                           *)
LEMMA UnboundKeptByWorld ==
  ASSUME IInv, World \/ UNCHANGED vars
  PROVE  Unbound'
<1>1. UNCHANGED <<con, fresh>> /\ Unbound
  BY WorldKeeps DEF core, IInv
<1>2. zombie' \subseteq zombie /\ \A p \in other' : p \in other \/ p \notin zombie
  <2>1. CASE UNCHANGED vars
    BY <2>1 DEF vars, relay
  <2>2. CASE World
    BY <2>2 DEF World, ProbeLands, EditDest, EditRend, SwitchIngest, OtherTakes, OtherGives,
      ZombieDies, FreePorts, relay
  <2> QED
    BY <2>1, <2>2
<1> QED
  BY <1>1, <1>2 DEF Unbound, Live

(* The pass holds on to the backup that it takes out.                      *)
KeepsOld ==
  pc' \in {"stopBackup", "dropBackup"} =>
    LookBackup \/ (pc \in {"stopBackup", "dropBackup"} /\ UNCHANGED run)
LEMMA OldStays ==
  ASSUME IInv, EngineStep
  PROVE  KeepsOld
<1>1. CASE Enter \/ ListDestinations \/ ListRenditions \/ Decide \/ DestinationsStopped \/
       RenditionsStopped \/ RenditionsStarted \/ LookBackup \/ Leave \/ StopCalled \/
       DestinationsDown \/ EncodesDown
  BY <1>1 DEF Enter, ListDestinations, ListRenditions, Decide, DestinationsStopped,
    RenditionsStopped, RenditionsStarted, LookBackup, Leave, StopCalled, DestinationsDown,
    EncodesDown, Step, OtherSide, Goto, Halt, KeepsOld
<1>2. CASE SortDestinations
  BY <1>2 DEF SortDestinations, Step, OtherSide, KeepsOld
<1>3. ASSUME NEW d \in Dests, TearStop(d) PROVE KeepsOld
  BY <1>3 DEF TearStop, Tears, KeepsOld
<1>4. ASSUME NEW d \in Dests, TearRelease(d) PROVE KeepsOld
  BY <1>4 DEF TearRelease, Tears, Done, KeepsOld
<1>5. ASSUME NEW d \in Dests, TearBackup(d) PROVE KeepsOld
  BY <1>5 DEF TearBackup, Tears, KeepsOld
<1>6. ASSUME NEW d \in Dests, TearBackupRelease(d) PROVE KeepsOld
  BY <1>6 DEF TearBackupRelease, Tears, Done, KeepsOld
<1>7. CASE TakeRendition
  BY <1>7 DEF TakeRendition, Goto, OtherSide, KeepsOld
<1>8. CASE StopRendition
  BY <1>8 DEF StopRendition, Step, OtherSide, KeepsOld
<1>9. CASE RenditionStopped
  BY <1>9 DEF RenditionStopped, Step, OtherSide, CloseRendition, KeepsOld
<1>10. CASE RendBuilt
  BY <1>10 DEF RendBuilt, Built, KeepsOld
<1>11. CASE RendNotBuilt
  BY <1>11 DEF RendNotBuilt, FailRend, KeepsOld
<1>12. CASE PublishRendition
  BY <1>12 DEF PublishRendition, Goto, OtherSide, Discard, KeepsOld
<1>13. CASE RunRendition
  BY <1>13 DEF RunRendition, Step, OtherSide, KeepsOld
<1>14. CASE LookDestination
  BY <1>14 DEF LookDestination, Goto, OtherSide, FailDest, KeepsOld
<1>15. CASE DestBuilt
  BY <1>15 DEF DestBuilt, Built, KeepsOld
<1>16. CASE DestNotBuilt
  BY <1>16 DEF DestNotBuilt, FailDest, KeepsOld
<1>17. CASE PublishDestination
  BY <1>17 DEF PublishDestination, Goto, OtherSide, Discard, KeepsOld
<1>18. CASE RunDestination
  BY <1>18 DEF RunDestination, Step, OtherSide, KeepsOld
<1>19. CASE StopBackup
  BY <1>19 DEF StopBackup, Step, OtherSide, KeepsOld
<1>20. CASE DropBackup
  BY <1>20 DEF DropBackup, Step, OtherSide, KeepsOld
<1>21. CASE BackupBuilt
  BY <1>21 DEF BackupBuilt, Built, KeepsOld
<1>22. CASE BackupNotBuilt
  BY <1>22 DEF BackupNotBuilt, KeepsOld
<1>23. CASE PublishBackup
  BY <1>23 DEF PublishBackup, Goto, OtherSide, Discard, KeepsOld
<1>24. CASE RunBackup
  BY <1>24 DEF RunBackup, Step, OtherSide, KeepsOld
<1>25. CASE Collect
  BY <1>25 DEF Collect, Halt, KeepsOld
<1>26. ASSUME NEW r \in Rends, StopEncode(r) PROVE KeepsOld
  BY <1>26 DEF StopEncode, KeepsOld
<1>27. ASSUME NEW r \in Rends, ReleaseStopped(r) PROVE KeepsOld
  BY <1>27 DEF ReleaseStopped, CloseRendition, KeepsOld
<1>28. CASE LoopsDone
  BY <1>28 DEF LoopsDone, Halt, KeepsOld
<1> QED
  BY <1>1, <1>2, <1>3, <1>4, <1>5, <1>6, <1>7, <1>8, <1>9, <1>10, <1>11, <1>12, <1>13, <1>14,
    <1>15, <1>16, <1>17, <1>18, <1>19, <1>20, <1>21, <1>22, <1>23, <1>24, <1>25, <1>26, <1>27,
    <1>28 DEF EngineStep

(* Nobody is given the port of a backup that is being let go of.           *)
LEMMA OldIsAloneKept ==
  ASSUME IInv, EngineStep
  PROVE  OldIsAlone'
<1> SUFFICES ASSUME pc' \in {"stopBackup", "dropBackup"},
                    NEW c \in Consumers, Live(c)', c # Backup(Next1)'
             PROVE  con'[c].port # run'.old.port
  BY DEF OldIsAlone
<1>1. /\ RunTypes /\ Passing /\ RelayTypes /\ LiveHasPort /\ LiveIsAlone /\ OldIsAlone
  BY DEF IInv, Owned, TypeOK
<1>2. CASE LookBackup
  <2>1. /\ pc = "backup" /\ place[Next1] = "map" /\ UNCHANGED <<con, place>>
        /\ run' = [run EXCEPT !.old = con[Backup(Next1)]]
    BY <1>2 DEF LookBackup, Goto, held
  <2>2. Next1' = Next1 /\ run'.old = con[Backup(Next1)] /\ Next1 \in Dests
    BY <2>1, <1>1, PassWrites, Chosen DEF OldSet, Runs, Passing, OneDest, Next1
  <2>3. Live(c) /\ con[c].port \in Ports /\ c # Backup(Next1)
    BY <2>1, <2>2, <1>1 DEF Live, LiveHasPort, RelayTypes, Backup
  <2>4. con[Backup(Next1)].port # NoPort => Claims(Backup(Next1))
    BY <2>1, <2>2, ClaimsAre DEF ClaimsByKind, Entries
  <2> QED
    BY <2>1, <2>2, <2>3, <2>4, <1>1, Names, PortsAssumption DEF LiveIsAlone
<1>3. CASE ~LookBackup
  <2>1. pc \in {"stopBackup", "dropBackup"} /\ UNCHANGED run /\ Next1' = Next1
    BY <1>3, OldStays DEF KeepsOld, Next1
  <2>2. Live(c) /\ SameBut(c)
    <3>1. ~PublishRendition /\ ~PublishDestination /\ ~PublishBackup
      BY <2>1 DEF PublishRendition, PublishDestination, PublishBackup
    <3> QED
      BY <3>1, RaisedByPublishing
  <2> QED
    BY <2>1, <2>2, <1>1 DEF OldIsAlone, SameBut, Backup
<1> QED
  BY <1>2, <1>3

(* The allocator holds what its engines hold.                              *)
LEMMA PoolKept ==
  ASSUME IInv, EngineStep \/ World \/ UNCHANGED vars
  PROVE  Pool'
<1>1. CASE Enter \/ ListDestinations \/ ListRenditions \/ Decide \/ DestinationsStopped \/
       RenditionsStopped \/ RenditionsStarted \/ LookBackup \/ Leave \/ StopCalled \/
       DestinationsDown \/ EncodesDown
  BY <1>1 DEF Enter, ListDestinations, ListRenditions, Decide, DestinationsStopped,
    RenditionsStopped, RenditionsStarted, LookBackup, Leave, StopCalled, DestinationsDown,
    EncodesDown, Step, OtherSide, Goto, Halt, relay, IInv, Pool
<1>2. CASE SortDestinations
  BY <1>2 DEF SortDestinations, Step, OtherSide, relay, IInv, Pool
<1>3. ASSUME NEW d \in Dests, TearStop(d) PROVE Pool'
  BY <1>3 DEF TearStop, Tears, StopProcess, relay, IInv, Pool
<1>4. ASSUME NEW d \in Dests, TearRelease(d) PROVE Pool'
  BY <1>4, LetGoEffect DEF TearRelease, Tears, Done, LetsGo, relay, IInv, Pool
<1>5. ASSUME NEW d \in Dests, TearBackup(d) PROVE Pool'
  BY <1>5 DEF TearBackup, Tears, StopProcess, relay, IInv, Pool
<1>6. ASSUME NEW d \in Dests, TearBackupRelease(d) PROVE Pool'
  BY <1>6, LetGoEffect DEF TearBackupRelease, Tears, Done, LetsGo, relay, IInv, Pool
<1>7. CASE TakeRendition
  BY <1>7 DEF TakeRendition, Goto, OtherSide, relay, IInv, Pool
<1>8. CASE StopRendition
  BY <1>8 DEF StopRendition, Step, OtherSide, StopProcess, relay, IInv, Pool
<1>9. CASE RenditionStopped
  BY <1>9, LetGoEffect DEF RenditionStopped, Step, OtherSide, CloseRendition, LetsGo, relay, IInv,
    Pool
<1>10. CASE RendBuilt
  BY <1>10 DEF RendBuilt, Built, Builds, TypeOK, RelayTypes, relay, IInv, Pool
<1>11. CASE RendNotBuilt
  BY <1>11 DEF RendNotBuilt, FailRend, relay, IInv, Pool
<1>12. CASE PublishRendition
  BY <1>12, LetGoEffect DEF PublishRendition, Goto, OtherSide, Discard, LetsGo, relay, IInv, Pool
<1>13. CASE RunRendition
  BY <1>13 DEF RunRendition, Step, OtherSide, relay, IInv, Pool
<1>14. CASE LookDestination
  BY <1>14 DEF LookDestination, Goto, OtherSide, FailDest, relay, IInv, Pool
<1>15. CASE DestBuilt
  BY <1>15 DEF DestBuilt, Built, Builds, TypeOK, RelayTypes, relay, IInv, Pool
<1>16. CASE DestNotBuilt
  BY <1>16 DEF DestNotBuilt, FailDest, relay, IInv, Pool
<1>17. CASE PublishDestination
  BY <1>17, LetGoEffect DEF PublishDestination, Goto, OtherSide, Discard, LetsGo, relay, IInv,
    Pool
<1>18. CASE RunDestination
  BY <1>18 DEF RunDestination, Step, OtherSide, relay, IInv, Pool
<1>19. CASE StopBackup
  BY <1>19 DEF StopBackup, Step, OtherSide, StopProcess, relay, IInv, Pool
<1>20. CASE DropBackup
  BY <1>20, LetGoEffect DEF DropBackup, Step, OtherSide, LetsGo, relay, IInv, Pool
<1>21. CASE BackupBuilt
  BY <1>21 DEF BackupBuilt, Built, Builds, TypeOK, RelayTypes, relay, IInv, Pool
<1>22. CASE BackupNotBuilt
  BY <1>22 DEF BackupNotBuilt, relay, IInv, Pool
<1>23. CASE PublishBackup
  BY <1>23, LetGoEffect DEF PublishBackup, Goto, OtherSide, Discard, LetsGo, relay, IInv, Pool
<1>24. CASE RunBackup
  BY <1>24 DEF RunBackup, Step, OtherSide, relay, IInv, Pool
<1>25. CASE Collect
  BY <1>25 DEF Collect, Halt, relay, IInv, Pool
<1>26. ASSUME NEW r \in Rends, StopEncode(r) PROVE Pool'
  BY <1>26 DEF StopEncode, StopProcess, relay, IInv, Pool
<1>27. ASSUME NEW r \in Rends, ReleaseStopped(r) PROVE Pool'
  BY <1>27, LetGoEffect DEF ReleaseStopped, CloseRendition, LetsGo, relay, IInv, Pool
<1>28. CASE LoopsDone
  BY <1>28 DEF LoopsDone, Halt, relay, IInv, Pool
<1>29. CASE World \/ UNCHANGED vars
  <2>1. OtherTakes \/ OtherGives \/ ZombieDies => Pool'
    BY DEF OtherTakes, OtherGives, ZombieDies, FreePorts, IInv, Pool
  <2>2. ProbeLands \/ (\E d \in Dests : EditDest(d)) \/ (\E r \in Rends : EditRend(r))
          \/ SwitchIngest \/ UNCHANGED vars => UNCHANGED relay
    BY DEF ProbeLands, EditDest, EditRend, SwitchIngest, vars
  <2> QED
    BY <1>29, <2>1, <2>2 DEF World, relay, IInv, Pool
<1> QED
  BY <1>1, <1>2, <1>3, <1>4, <1>5, <1>6, <1>7, <1>8, <1>9, <1>10, <1>11, <1>12, <1>13, <1>14,
    <1>15, <1>16, <1>17, <1>18, <1>19, <1>20, <1>21, <1>22, <1>23, <1>24, <1>25, <1>26, <1>27,
    <1>28, <1>29 DEF EngineStep

-----------------------------------------------------------------------------

(* A hub that is open is somebody's.                                       *)
LEMMA OpenIsFedKept ==
  ASSUME IInv, EngineStep
  PROVE  OpenIsFed'
<1>1. CASE Enter \/ Leave
  BY <1>1, PassWrites DEF Enter, Leave, Step, OtherSide, IInv, HubsAccounted, OpenIsFed, Entries,
    Runs, held, relay
<1>2. CASE ListDestinations \/ ListRenditions \/ DestinationsStopped \/ RenditionsStopped \/
       RenditionsStarted \/ StopCalled \/ DestinationsDown \/ EncodesDown
  BY <1>2 DEF ListDestinations, ListRenditions, DestinationsStopped, RenditionsStopped,
    RenditionsStarted, StopCalled, DestinationsDown, EncodesDown, Step, OtherSide, Halt, IInv,
    HubsAccounted, OpenIsFed, Entries, Runs, held, relay
<1>3. CASE Decide
  BY <1>3 DEF Decide, Step, OtherSide, Decided, IInv, HubsAccounted, OpenIsFed, Entries, Runs,
    held, relay
<1>4. CASE SortDestinations
  BY <1>4, Chosen DEF SortDestinations, Step, OtherSide, TypeOK, HeldTypes, IInv, HubsAccounted,
    OpenIsFed, Entries, Runs, held, relay
<1>5. ASSUME NEW d \in Dests, TearStop(d) PROVE OpenIsFed'
  BY <1>5 DEF TearStop, Tears, IInv, HubsAccounted, OpenIsFed, Entries, Runs, held, relay
<1>6. ASSUME NEW d \in Dests, TearRelease(d) PROVE OpenIsFed'
  BY <1>6, Chosen DEF TearRelease, Tears, Done, TypeOK, HeldTypes, IInv, HubsAccounted, OpenIsFed,
    Entries, Runs, held, relay
<1>7. ASSUME NEW d \in Dests, TearBackup(d) PROVE OpenIsFed'
  BY <1>7 DEF TearBackup, Tears, IInv, HubsAccounted, OpenIsFed, Entries, Runs, held, relay
<1>8. ASSUME NEW d \in Dests, TearBackupRelease(d) PROVE OpenIsFed'
  BY <1>8, Chosen DEF TearBackupRelease, Tears, Done, TypeOK, HeldTypes, IInv, HubsAccounted,
    OpenIsFed, Entries, Runs, held, relay
<1>9. CASE TakeRendition
  BY <1>9, TakeEffect, Chosen DEF TakeRendition, Goto, OtherSide, StopTaken, TypeOK, HeldTypes,
    Starting, Halting, stopped, IInv, HubsAccounted, OpenIsFed, Entries, Runs, held, relay
<1>10. CASE StopRendition
  BY <1>10, Chosen DEF StopRendition, Step, OtherSide, TypeOK, HeldTypes, IInv, HubsAccounted,
    OpenIsFed, Entries, Runs, held, relay
<1>11. CASE RenditionStopped
  BY <1>11, TakeEffect, Chosen DEF RenditionStopped, Step, OtherSide, CloseRendition, StopTaken,
    TypeOK, HeldTypes, Passing, IInv, HubsAccounted, OpenIsFed, Entries, Runs, held, relay
<1>12. CASE RendBuilt
  BY <1>12, PassWrites, Chosen DEF RendBuilt, Built, HubSet, TypeOK, HeldTypes, IInv,
    HubsAccounted, OpenIsFed, Entries, Runs, held, relay
<1>13. CASE RendNotBuilt
  BY <1>13, TakeEffect, Chosen DEF RendNotBuilt, FailRend, StartTaken, TypeOK, HeldTypes,
    Starting, Halting, stopped, IInv, HubsAccounted, OpenIsFed, Entries, Runs, held, relay
<1>14. CASE PublishRendition
  BY <1>14, PassWrites, Chosen DEF PublishRendition, Goto, OtherSide, Discard, Started, TypeOK,
    HeldTypes, Starting, Halting, stopped, Passing, IInv, HubsAccounted, OpenIsFed, Entries, Runs,
    held, relay
<1>15. CASE RunRendition
  BY <1>15, PassWrites, Chosen DEF RunRendition, Step, OtherSide, Started, TypeOK, HeldTypes,
    IInv, HubsAccounted, OpenIsFed, Entries, Runs, held, relay
<1>16. CASE LookDestination
  BY <1>16, PassWrites, SkipEffect, Chosen DEF LookDestination, Goto, OtherSide, FailDest, HubSet,
    Skipped, TypeOK, HeldTypes, IInv, HubsAccounted, OpenIsFed, Entries, Runs, held, relay
<1>17. CASE DestBuilt
  BY <1>17, Chosen DEF DestBuilt, Built, TypeOK, HeldTypes, IInv, HubsAccounted, OpenIsFed,
    Entries, Runs, held, relay
<1>18. CASE DestNotBuilt
  BY <1>18, SkipEffect, Chosen DEF DestNotBuilt, FailDest, Skipped, TypeOK, HeldTypes, IInv,
    HubsAccounted, OpenIsFed, Entries, Runs, held, relay
<1>19. CASE PublishDestination
  BY <1>19, Chosen DEF PublishDestination, Goto, OtherSide, Discard, TypeOK, HeldTypes, IInv,
    HubsAccounted, OpenIsFed, Entries, Runs, held, relay
<1>20. CASE RunDestination
  BY <1>20, Chosen DEF RunDestination, Step, OtherSide, TypeOK, HeldTypes, IInv, HubsAccounted,
    OpenIsFed, Entries, Runs, held, relay
<1>21. CASE LookBackup
  BY <1>21, PassWrites, SkipEffect, Chosen DEF LookBackup, Goto, OtherSide, OldSet, Skipped,
    TypeOK, HeldTypes, IInv, HubsAccounted, OpenIsFed, Entries, Runs, held, relay
<1>22. CASE StopBackup
  BY <1>22, Chosen DEF StopBackup, Step, OtherSide, TypeOK, HeldTypes, IInv, HubsAccounted,
    OpenIsFed, Entries, Runs, held, relay
<1>23. CASE DropBackup
  BY <1>23, Chosen DEF DropBackup, Step, OtherSide, TypeOK, HeldTypes, IInv, HubsAccounted,
    OpenIsFed, Entries, Runs, held, relay
<1>24. CASE BackupBuilt
  BY <1>24, Chosen DEF BackupBuilt, Built, TypeOK, HeldTypes, IInv, HubsAccounted, OpenIsFed,
    Entries, Runs, held, relay
<1>25. CASE BackupNotBuilt
  BY <1>25, Chosen DEF BackupNotBuilt, TypeOK, HeldTypes, IInv, HubsAccounted, OpenIsFed, Entries,
    Runs, held, relay
<1>26. CASE PublishBackup
  BY <1>26, SkipEffect, Chosen DEF PublishBackup, Goto, OtherSide, Discard, Skipped, TypeOK,
    HeldTypes, IInv, HubsAccounted, OpenIsFed, Entries, Runs, held, relay
<1>27. CASE RunBackup
  BY <1>27, SkipEffect, Chosen DEF RunBackup, Step, OtherSide, Skipped, TypeOK, HeldTypes, IInv,
    HubsAccounted, OpenIsFed, Entries, Runs, held, relay
<1>28. CASE Collect
  BY <1>28, Chosen, CollectEffect DEF Collect, Halt, TypeOK, HeldTypes, IInv, HubsAccounted,
    OpenIsFed, Entries, Runs, held, relay
<1>29. ASSUME NEW r \in Rends, StopEncode(r) PROVE OpenIsFed'
  BY <1>29 DEF StopEncode, IInv, HubsAccounted, OpenIsFed, Entries, Runs, held, relay
<1>30. ASSUME NEW r \in Rends, ReleaseStopped(r) PROVE OpenIsFed'
  BY <1>30, Chosen DEF ReleaseStopped, CloseRendition, TypeOK, HeldTypes, IInv, HubsAccounted,
    OpenIsFed, Entries, Runs, held, relay
<1>31. CASE LoopsDone
  BY <1>31 DEF LoopsDone, Halt, IInv, HubsAccounted, OpenIsFed, Entries, Runs, held, relay
<1> QED
  BY <1>1, <1>2, <1>3, <1>4, <1>5, <1>6, <1>7, <1>8, <1>9, <1>10, <1>11, <1>12, <1>13, <1>14,
    <1>15, <1>16, <1>17, <1>18, <1>19, <1>20, <1>21, <1>22, <1>23, <1>24, <1>25, <1>26, <1>27,
    <1>28, <1>29, <1>30, <1>31 DEF EngineStep

(* A rendition writes a hub of its own.                                    *)
LEMMA FeedIsOwnKept ==
  ASSUME IInv, EngineStep
  PROVE  FeedIsOwn'
<1>1. CASE Enter \/ Leave
  BY <1>1, PassWrites DEF Enter, Leave, Step, OtherSide, IInv, HubsAccounted, FeedIsOwn, Entries,
    Runs, held
<1>2. CASE ListDestinations \/ ListRenditions \/ DestinationsStopped \/ RenditionsStopped \/
       RenditionsStarted \/ StopCalled \/ DestinationsDown \/ EncodesDown
  BY <1>2 DEF ListDestinations, ListRenditions, DestinationsStopped, RenditionsStopped,
    RenditionsStarted, StopCalled, DestinationsDown, EncodesDown, Step, OtherSide, Halt, IInv,
    HubsAccounted, FeedIsOwn, Entries, Runs, held
<1>3. CASE Decide
  BY <1>3 DEF Decide, Step, OtherSide, Decided, IInv, HubsAccounted, FeedIsOwn, Entries, Runs,
    held
<1>4. CASE SortDestinations
  BY <1>4, Chosen DEF SortDestinations, Step, OtherSide, TypeOK, HeldTypes, IInv, HubsAccounted,
    FeedIsOwn, Entries, Runs, held
<1>5. ASSUME NEW d \in Dests, TearStop(d) PROVE FeedIsOwn'
  BY <1>5 DEF TearStop, Tears, IInv, HubsAccounted, FeedIsOwn, Entries, Runs, held
<1>6. ASSUME NEW d \in Dests, TearRelease(d) PROVE FeedIsOwn'
  BY <1>6, Chosen DEF TearRelease, Tears, Done, TypeOK, HeldTypes, IInv, HubsAccounted, FeedIsOwn,
    Entries, Runs, held
<1>7. ASSUME NEW d \in Dests, TearBackup(d) PROVE FeedIsOwn'
  BY <1>7 DEF TearBackup, Tears, IInv, HubsAccounted, FeedIsOwn, Entries, Runs, held
<1>8. ASSUME NEW d \in Dests, TearBackupRelease(d) PROVE FeedIsOwn'
  BY <1>8, Chosen DEF TearBackupRelease, Tears, Done, TypeOK, HeldTypes, IInv, HubsAccounted,
    FeedIsOwn, Entries, Runs, held
<1>9. CASE TakeRendition
  BY <1>9, TakeEffect, Chosen DEF TakeRendition, Goto, OtherSide, StopTaken, TypeOK, HeldTypes,
    Starting, Halting, stopped, IInv, HubsAccounted, FeedIsOwn, Entries, Runs, held
<1>10. CASE StopRendition
  BY <1>10, Chosen DEF StopRendition, Step, OtherSide, TypeOK, HeldTypes, IInv, HubsAccounted,
    FeedIsOwn, Entries, Runs, held
<1>11. CASE RenditionStopped
  BY <1>11, TakeEffect, Chosen DEF RenditionStopped, Step, OtherSide, CloseRendition, StopTaken,
    TypeOK, HeldTypes, Passing, IInv, HubsAccounted, FeedIsOwn, Entries, Runs, held
<1>12. CASE RendBuilt
  BY <1>12, PassWrites, Chosen DEF RendBuilt, Built, HubSet, TypeOK, HeldTypes, Passing, IInv,
    HubsAccounted, FeedIsOwn, Entries, Runs, held
<1>13. CASE RendNotBuilt
  BY <1>13, TakeEffect, Chosen DEF RendNotBuilt, FailRend, StartTaken, TypeOK, HeldTypes,
    Starting, Halting, stopped, IInv, HubsAccounted, FeedIsOwn, Entries, Runs, held
<1>14. CASE PublishRendition
  BY <1>14, PassWrites, Chosen DEF PublishRendition, Goto, OtherSide, Discard, Started, TypeOK,
    HeldTypes, Starting, Halting, stopped, Passing, IInv, HubsAccounted, FeedIsOwn, Entries, Runs,
    held
<1>15. CASE RunRendition
  BY <1>15, PassWrites, Chosen DEF RunRendition, Step, OtherSide, Started, TypeOK, HeldTypes,
    Passing, IInv, HubsAccounted, FeedIsOwn, Entries, Runs, held
<1>16. CASE LookDestination
  BY <1>16, PassWrites, SkipEffect, Chosen DEF LookDestination, Goto, OtherSide, FailDest, HubSet,
    Skipped, TypeOK, HeldTypes, IInv, HubsAccounted, FeedIsOwn, Entries, Runs, held
<1>17. CASE DestBuilt
  BY <1>17, Chosen DEF DestBuilt, Built, TypeOK, HeldTypes, IInv, HubsAccounted, FeedIsOwn,
    Entries, Runs, held
<1>18. CASE DestNotBuilt
  BY <1>18, SkipEffect, Chosen DEF DestNotBuilt, FailDest, Skipped, TypeOK, HeldTypes, IInv,
    HubsAccounted, FeedIsOwn, Entries, Runs, held
<1>19. CASE PublishDestination
  BY <1>19, Chosen DEF PublishDestination, Goto, OtherSide, Discard, TypeOK, HeldTypes, IInv,
    HubsAccounted, FeedIsOwn, Entries, Runs, held
<1>20. CASE RunDestination
  BY <1>20, Chosen DEF RunDestination, Step, OtherSide, TypeOK, HeldTypes, IInv, HubsAccounted,
    FeedIsOwn, Entries, Runs, held
<1>21. CASE LookBackup
  BY <1>21, PassWrites, SkipEffect, Chosen DEF LookBackup, Goto, OtherSide, OldSet, Skipped,
    TypeOK, HeldTypes, IInv, HubsAccounted, FeedIsOwn, Entries, Runs, held
<1>22. CASE StopBackup
  BY <1>22, Chosen DEF StopBackup, Step, OtherSide, TypeOK, HeldTypes, IInv, HubsAccounted,
    FeedIsOwn, Entries, Runs, held
<1>23. CASE DropBackup
  BY <1>23, Chosen DEF DropBackup, Step, OtherSide, TypeOK, HeldTypes, IInv, HubsAccounted,
    FeedIsOwn, Entries, Runs, held
<1>24. CASE BackupBuilt
  BY <1>24, Chosen DEF BackupBuilt, Built, TypeOK, HeldTypes, IInv, HubsAccounted, FeedIsOwn,
    Entries, Runs, held
<1>25. CASE BackupNotBuilt
  BY <1>25, Chosen DEF BackupNotBuilt, TypeOK, HeldTypes, IInv, HubsAccounted, FeedIsOwn, Entries,
    Runs, held
<1>26. CASE PublishBackup
  BY <1>26, SkipEffect, Chosen DEF PublishBackup, Goto, OtherSide, Discard, Skipped, TypeOK,
    HeldTypes, IInv, HubsAccounted, FeedIsOwn, Entries, Runs, held
<1>27. CASE RunBackup
  BY <1>27, SkipEffect, Chosen DEF RunBackup, Step, OtherSide, Skipped, TypeOK, HeldTypes, IInv,
    HubsAccounted, FeedIsOwn, Entries, Runs, held
<1>28. CASE Collect
  BY <1>28, Chosen, CollectEffect DEF Collect, Halt, TypeOK, HeldTypes, IInv, HubsAccounted,
    FeedIsOwn, Entries, Runs, held
<1>29. ASSUME NEW r \in Rends, StopEncode(r) PROVE FeedIsOwn'
  BY <1>29 DEF StopEncode, IInv, HubsAccounted, FeedIsOwn, Entries, Runs, held
<1>30. ASSUME NEW r \in Rends, ReleaseStopped(r) PROVE FeedIsOwn'
  BY <1>30, Chosen DEF ReleaseStopped, CloseRendition, TypeOK, HeldTypes, IInv, HubsAccounted,
    FeedIsOwn, Entries, Runs, held
<1>31. CASE LoopsDone
  BY <1>31 DEF LoopsDone, Halt, IInv, HubsAccounted, FeedIsOwn, Entries, Runs, held
<1> QED
  BY <1>1, <1>2, <1>3, <1>4, <1>5, <1>6, <1>7, <1>8, <1>9, <1>10, <1>11, <1>12, <1>13, <1>14,
    <1>15, <1>16, <1>17, <1>18, <1>19, <1>20, <1>21, <1>22, <1>23, <1>24, <1>25, <1>26, <1>27,
    <1>28, <1>29, <1>30, <1>31 DEF EngineStep

(* A rendition's hub is set when it is published.                          *)
FeedStays == PublishRendition \/ UNCHANGED feed
LEMMA FeedIsSetOnce ==
  ASSUME IInv, EngineStep
  PROVE  FeedStays
<1>1. CASE Enter \/ ListDestinations \/ ListRenditions \/ Decide \/ DestinationsStopped \/
       RenditionsStopped \/ RenditionsStarted \/ LookBackup \/ Leave \/ StopCalled \/
       DestinationsDown \/ EncodesDown
  BY <1>1 DEF Enter, ListDestinations, ListRenditions, Decide, DestinationsStopped,
    RenditionsStopped, RenditionsStarted, LookBackup, Leave, StopCalled, DestinationsDown,
    EncodesDown, Step, OtherSide, Goto, Halt, FeedStays, held
<1>2. CASE SortDestinations
  BY <1>2 DEF SortDestinations, Step, OtherSide, FeedStays, held
<1>3. ASSUME NEW d \in Dests, TearStop(d) PROVE FeedStays
  BY <1>3 DEF TearStop, Tears, FeedStays, held
<1>4. ASSUME NEW d \in Dests, TearRelease(d) PROVE FeedStays
  BY <1>4 DEF TearRelease, Tears, Done, FeedStays, held
<1>5. ASSUME NEW d \in Dests, TearBackup(d) PROVE FeedStays
  BY <1>5 DEF TearBackup, Tears, FeedStays, held
<1>6. ASSUME NEW d \in Dests, TearBackupRelease(d) PROVE FeedStays
  BY <1>6 DEF TearBackupRelease, Tears, Done, FeedStays, held
<1>7. CASE TakeRendition
  BY <1>7 DEF TakeRendition, Goto, OtherSide, FeedStays, held
<1>8. CASE StopRendition
  BY <1>8 DEF StopRendition, Step, OtherSide, FeedStays, held
<1>9. CASE RenditionStopped
  BY <1>9 DEF RenditionStopped, Step, OtherSide, CloseRendition, FeedStays, held
<1>10. CASE RendBuilt
  BY <1>10 DEF RendBuilt, Built, FeedStays, held
<1>11. CASE RendNotBuilt
  BY <1>11 DEF RendNotBuilt, FailRend, FeedStays, held
<1>12. CASE PublishRendition
  BY <1>12 DEF PublishRendition, Goto, OtherSide, Discard, FeedStays, held
<1>13. CASE RunRendition
  BY <1>13 DEF RunRendition, Step, OtherSide, FeedStays, held
<1>14. CASE LookDestination
  BY <1>14 DEF LookDestination, Goto, OtherSide, FailDest, FeedStays, held
<1>15. CASE DestBuilt
  BY <1>15 DEF DestBuilt, Built, FeedStays, held
<1>16. CASE DestNotBuilt
  BY <1>16 DEF DestNotBuilt, FailDest, FeedStays, held
<1>17. CASE PublishDestination
  BY <1>17 DEF PublishDestination, Goto, OtherSide, Discard, FeedStays, held
<1>18. CASE RunDestination
  BY <1>18 DEF RunDestination, Step, OtherSide, FeedStays, held
<1>19. CASE StopBackup
  BY <1>19 DEF StopBackup, Step, OtherSide, FeedStays, held
<1>20. CASE DropBackup
  BY <1>20 DEF DropBackup, Step, OtherSide, FeedStays, held
<1>21. CASE BackupBuilt
  BY <1>21 DEF BackupBuilt, Built, FeedStays, held
<1>22. CASE BackupNotBuilt
  BY <1>22 DEF BackupNotBuilt, FeedStays, held
<1>23. CASE PublishBackup
  BY <1>23 DEF PublishBackup, Goto, OtherSide, Discard, FeedStays, held
<1>24. CASE RunBackup
  BY <1>24 DEF RunBackup, Step, OtherSide, FeedStays, held
<1>25. CASE Collect
  BY <1>25 DEF Collect, Halt, FeedStays, held
<1>26. ASSUME NEW r \in Rends, StopEncode(r) PROVE FeedStays
  BY <1>26 DEF StopEncode, FeedStays, held
<1>27. ASSUME NEW r \in Rends, ReleaseStopped(r) PROVE FeedStays
  BY <1>27 DEF ReleaseStopped, CloseRendition, FeedStays, held
<1>28. CASE LoopsDone
  BY <1>28 DEF LoopsDone, Halt, FeedStays, held
<1> QED
  BY <1>1, <1>2, <1>3, <1>4, <1>5, <1>6, <1>7, <1>8, <1>9, <1>10, <1>11, <1>12, <1>13, <1>14,
    <1>15, <1>16, <1>17, <1>18, <1>19, <1>20, <1>21, <1>22, <1>23, <1>24, <1>25, <1>26, <1>27,
    <1>28 DEF EngineStep

(* What a published consumer reads is open to it.                          *)
LEMMA LiveReadsKept ==
  ASSUME IInv, EngineStep
  PROVE  LiveReads'
<1>1. /\ TypeOK /\ HeldTypes /\ RunTypes /\ Passing /\ Halting /\ Starting /\ Stages /\ LiveByKind
      /\ FreshShape /\ LiveReads /\ FeedIsOwn /\ Chained /\ MakesThePlan
  BY LiveKinds DEF IInv, Following, TypeOK, Processes, HubsAccounted
<1>2. CASE \A c \in Consumers : SameBut(c) /\ (Live(c)' => Live(c))
  <2>1. CASE UNCHANGED feed
    BY <1>1, <1>2, <2>1 DEF LiveReads, SameBut
  <2>2. CASE PublishRendition
    <3>1. CASE stopped
      BY <1>1, <1>2, <3>1, <2>2 DEF LiveReads, SameBut, PublishRendition
    <3>2. CASE ~stopped
      <4>1. PICK r \in Rends : r = Min(run.startR)
        BY <1>1, <2>2, Chosen DEF PublishRendition, Passing
      <4>2. con' = [con EXCEPT ![Encode(r)] = fresh] /\ fresh.proc = "new"
        BY <1>1, <2>2, <3>2, <4>1 DEF PublishRendition, FreshShape
      <4>3. Live(Encode(r))'
        BY <1>1, <4>2, Names DEF Live, HeldTypes
      <4>4. Live(Encode(r))
        BY <1>2, <4>3, Names
      <4> QED
        BY <1>1, <2>2, <3>2, <4>1, <4>4, Chosen DEF LiveByKind, Starting, Halting,
          PublishRendition, Passing, Entries
    <3> QED
      BY <3>1, <3>2
  <2> QED
    BY <2>1, <2>2, FeedIsSetOnce DEF FeedStays
<1>3. CASE PublishRendition /\ ~stopped
  <2>1. PICK r \in Rends : r = Min(run.startR)
    BY <1>1, <1>3, Chosen DEF PublishRendition, Passing
  <2>2. /\ pc = "publishRend" /\ con' = [con EXCEPT ![Encode(r)] = fresh]
        /\ feed' = [feed EXCEPT ![r] = run.hub] /\ fresh.hub = Source
    BY <1>1, <1>3, <2>1 DEF PublishRendition, Chained, EncodesRead
  <2>3. con'[Encode(r)] = fresh /\ \A e \in Consumers : e # Encode(r) => con'[e] = con[e]
    BY <2>2, <1>1, Names DEF HeldTypes
  <2>4. tier[r] = "none" /\ \A s \in Rends : s # r => feed'[s] = feed[s]
    BY <2>1, <2>2, <1>1, <1>3, Chosen DEF Starting, Halting, Passing, HeldTypes
  <2>5. ASSUME NEW d \in Dests, Live(Main(d)) \/ Live(Backup(d))
        PROVE  Reads(d) /\ place[d] = "map"
    <3>1. place[d] = "map"
      BY <1>1, <1>3, <2>2, <2>5 DEF LiveByKind, Entries, Halting, Passing
    <3> QED
      BY <1>1, <1>3, <3>1 DEF Chained, AllRead
  <2>6. ASSUME NEW d \in Dests, Reads(d)
        PROVE  \/ con[Main(d)].hub = Source
               \/ \E s \in Rends : s # r /\ con[Main(d)].hub = feed[s] /\ tier[s] = "map"
    BY <2>4, <2>6 DEF Reads
  <2>7. ASSUME NEW e \in Consumers, Live(e), e # Encode(r)
        PROVE  \/ con[e].hub = Source
               \/ \E s \in Rends : s # r /\ con[e].hub = feed[s] /\ tier[s] = "map"
    <3>1. CASE \E d \in Dests : e = Main(d)
      BY <2>5, <2>6, <2>7, <3>1
    <3>2. CASE \E d \in Dests : e = Backup(d)
      <4>1. PICK d \in Dests : e = Backup(d)
        BY <3>2
      <4>2. con[e].port # NoPort
        BY <2>7 DEF IInv, Processes, ConShape, Live
      <4>3. con[e].hub = con[Main(d)].hub
        BY <1>1, <1>3, <2>5, <2>7, <4>1, <4>2 DEF Chained, BackupsRead
      <4> QED
        BY <2>5, <2>6, <2>7, <4>1, <4>3
    <3>3. CASE \E s \in Rends : e = Encode(s)
      <4>1. PICK s \in Rends : e = Encode(s)
        BY <3>3
      <4>2. tier[s] \in {"map", "leaving"}
        BY <1>1, <1>3, <2>7, <4>1 DEF LiveByKind, Entries, Halting
      <4> QED
        BY <1>1, <1>3, <4>1, <4>2 DEF Chained, EncodesRead
    <3> QED
      BY <3>1, <3>2, <3>3, Names
  <2>8. \A s \in Rends : tier[s] = "map" => feed[s] \in {s} \X {0, 1}
    BY <1>1 DEF FeedIsOwn, Entries
  <2>9. ASSUME NEW e \in Consumers, Live(e)'
        PROVE  \/ con'[e].hub = Source
               \/ \E s \in Rends : con'[e].hub = feed'[s] /\ feed'[s] \in {s} \X {0, 1}
    <3>1. CASE e = Encode(r)
      BY <2>2, <2>3, <3>1
    <3>2. CASE e # Encode(r)
      <4>1. Live(e)
        BY <2>3, <2>9, <3>2 DEF Live
      <4> QED
        BY <2>3, <2>4, <2>7, <2>8, <3>2, <4>1
    <3> QED
      BY <3>1, <3>2
  <2> QED
    BY <2>9 DEF LiveReads
<1>4. CASE PublishDestination /\ ~stopped
  <2>1. PICK d \in Dests : d = Next1
    BY <1>1, <1>4, Chosen DEF PublishDestination, Passing, OneDest
  <2>2. /\ pc = "publishDest" /\ con' = [con EXCEPT ![Main(d)] = fresh, ![Backup(d)] = None]
        /\ UNCHANGED <<feed, tier>> /\ fresh.hub = HubFor(run.rows[d].rend) /\ fresh.hub # NoHub
    BY <1>1, <1>4, <2>1 DEF PublishDestination, MakesThePlan
  <2>3. /\ con'[Main(d)] = fresh /\ con'[Backup(d)] = None
        /\ \A e \in Consumers : e # Main(d) /\ e # Backup(d) => con'[e] = con[e]
    BY <2>2, <1>1, Names DEF HeldTypes
  <2>4. run.rows[d].rend \in Rends \cup {Passthrough}
    <3>1. run.rows[d] \in Rows
      BY <1>1, <2>2 DEF RunTypes, Listed
    <3> QED
      BY <3>1, RowFields
  <2>5. fresh.hub = Source \/ \E s \in Rends : fresh.hub = feed[s] /\ feed[s] \in {s} \X {0, 1}
    BY <2>2, <2>4, <1>1 DEF HubFor, FeedIsOwn, Entries
  <2>6. ~Live(Backup(d))'
    BY <2>3, NoneIsTyped DEF Live
  <2>7. ASSUME NEW e \in Consumers, Live(e)'
        PROVE  \/ con'[e].hub = Source
               \/ \E s \in Rends : con'[e].hub = feed'[s] /\ feed'[s] \in {s} \X {0, 1}
    <3>1. CASE e = Main(d)
      <4>1. con'[e].hub = fresh.hub /\ feed' = feed
        BY <2>2, <2>3, <3>1
      <4> QED
        BY <2>5, <4>1
    <3>2. CASE e # Main(d)
      <4>1. con'[e] = con[e]
        BY <2>3, <2>6, <2>7, <3>2
      <4>2. Live(e)
        BY <2>7, <4>1 DEF Live
      <4> QED
        BY <2>2, <4>1, <4>2, <1>1 DEF LiveReads
    <3> QED
      BY <3>1, <3>2
  <2> QED
    BY <2>7 DEF LiveReads
<1>5. CASE PublishBackup /\ place[Next1] = "map"
  <2>1. PICK d \in Dests : d = Next1
    BY <1>1, <1>5, Chosen DEF PublishBackup, Passing, OneDest, Dropping
  <2>2. /\ pc = "publishBackup" /\ con' = [con EXCEPT ![Backup(d)] = fresh]
        /\ UNCHANGED feed /\ ~stopped
    BY <1>1, <1>5, <2>1 DEF PublishBackup, Halting
  <2>3. con'[Backup(d)] = fresh /\ \A e \in Consumers : e # Backup(d) => con'[e] = con[e]
    BY <2>2, <1>1, Names DEF HeldTypes
  <2>4. Live(Main(d)) /\ (fresh # None => fresh.hub = con[Main(d)].hub)
    BY <1>1, <1>5, <2>1, <2>2 DEF Stages, Chained, BackupsRead
  <2>5. fresh = None => ~Live(Backup(d))'
    BY <2>3, NoneIsTyped DEF Live
  <2> QED
    BY <2>2, <2>3, <2>4, <2>5, <1>1, Names DEF LiveReads, Live
<1>6. CASE (PublishRendition /\ stopped) \/ (PublishDestination /\ stopped)
           \/ (PublishBackup /\ place[Next1] # "map")
  <2>1. UNCHANGED con
    BY <1>6 DEF PublishRendition, PublishDestination, PublishBackup
  <2>2. \A c \in Consumers : SameBut(c) /\ (Live(c)' => Live(c))
    BY <2>1 DEF SameBut, Live
  <2> QED
    BY <1>2, <2>2
<1> QED
  BY <1>2, <1>3, <1>4, <1>5, <1>6, RaisedByPublishing

-----------------------------------------------------------------------------
(* The steps of the engine while it is not stopped.                        *)
Running ==
  \/ Enter \/ ListDestinations \/ ListRenditions \/ Decide \/ SortDestinations
  \/ (\E d \in Dests : TearStop(d) \/ TearRelease(d) \/ TearBackup(d) \/ TearBackupRelease(d))
  \/ DestinationsStopped \/ TakeRendition \/ StopRendition \/ RenditionStopped \/ RenditionsStopped
  \/ RendBuilt \/ RendNotBuilt \/ PublishRendition \/ RunRendition \/ RenditionsStarted
  \/ LookDestination \/ DestBuilt \/ DestNotBuilt \/ PublishDestination \/ RunDestination
  \/ LookBackup \/ StopBackup \/ DropBackup \/ BackupBuilt \/ BackupNotBuilt
  \/ PublishBackup \/ RunBackup \/ Leave \/ StopCalled
LEMMA RunningSteps ==
  ASSUME IInv, EngineStep, ~stopped'
  PROVE  Running /\ ~stopped /\ (StopCalled \/ UNCHANGED stop)
<1>1. stop \in {"no", "called", "dests", "rends", "release", "done"}
  BY DEF IInv, TypeOK
<1>2. ~Collect /\ ~DestinationsDown /\ ~EncodesDown /\ ~LoopsDone
  BY DEF Collect, DestinationsDown, EncodesDown, LoopsDone, Halt, stopped
<1>3. ~(\E r \in Rends : StopEncode(r)) /\ ~(\E r \in Rends : ReleaseStopped(r))
  BY DEF StopEncode, ReleaseStopped, stopped
<1>4. Running
  BY <1>2, <1>3 DEF EngineStep, Running
<1>5. StopCalled \/ UNCHANGED stop
  <2>1. Enter \/ ListDestinations \/ ListRenditions \/ Decide \/ SortDestinations \/
    DestinationsStopped \/ TakeRendition => UNCHANGED stop
    BY DEF Enter, ListDestinations, ListRenditions, Decide, SortDestinations, DestinationsStopped,
      TakeRendition, OtherSide
  <2>2. StopRendition \/ RenditionStopped \/ RenditionsStopped \/ RendBuilt \/ RendNotBuilt \/
    PublishRendition \/ RunRendition => UNCHANGED stop
    BY DEF StopRendition, RenditionStopped, RenditionsStopped, RendBuilt, RendNotBuilt,
      PublishRendition, RunRendition, OtherSide
  <2>3. RenditionsStarted \/ LookDestination \/ DestBuilt \/ DestNotBuilt \/ PublishDestination \/
    RunDestination \/ LookBackup => UNCHANGED stop
    BY DEF RenditionsStarted, LookDestination, DestBuilt, DestNotBuilt, PublishDestination,
      RunDestination, LookBackup, OtherSide
  <2>4. StopBackup \/ DropBackup \/ BackupBuilt \/ BackupNotBuilt \/ PublishBackup \/ RunBackup \/
    Leave => UNCHANGED stop
    BY DEF StopBackup, DropBackup, BackupBuilt, BackupNotBuilt, PublishBackup, RunBackup, Leave,
      OtherSide
  <2>5. ASSUME NEW d \in Dests, TearStop(d) \/ TearRelease(d) \/ TearBackup(d) \/
               TearBackupRelease(d)
        PROVE  UNCHANGED stop
    BY <2>5 DEF TearStop, TearRelease, TearBackup, TearBackupRelease, Tears
  <2> QED
    BY <2>1, <2>2, <2>3, <2>4, <2>5, <1>4 DEF Running
<1>6. ~stopped
  BY <1>5 DEF StopCalled, Halt, stopped
<1> QED
  BY <1>4, <1>5, <1>6

(* The ingest's hub stays open until the loops are done.                   *)
LEMMA IngestOpenKept ==
  ASSUME IInv, EngineStep
  PROVE  IngestOpen'
<1>1. CASE Enter \/ ListDestinations \/ ListRenditions \/ Decide \/ DestinationsStopped \/
       RenditionsStopped \/ RenditionsStarted \/ LookBackup \/ Leave \/ StopCalled \/
       DestinationsDown \/ EncodesDown
  BY <1>1 DEF Enter, ListDestinations, ListRenditions, Decide, DestinationsStopped,
    RenditionsStopped, RenditionsStarted, LookBackup, Leave, StopCalled, DestinationsDown,
    EncodesDown, Step, OtherSide, Goto, Halt, IInv, IngestOpen, held, relay
<1>2. CASE SortDestinations
  BY <1>2 DEF SortDestinations, Step, OtherSide, IInv, IngestOpen, held, relay
<1>3. ASSUME NEW d \in Dests, TearStop(d) PROVE IngestOpen'
  BY <1>3 DEF TearStop, Tears, IInv, IngestOpen, held, relay
<1>4. ASSUME NEW d \in Dests, TearRelease(d) PROVE IngestOpen'
  BY <1>4 DEF TearRelease, Tears, Done, IInv, IngestOpen, held, relay
<1>5. ASSUME NEW d \in Dests, TearBackup(d) PROVE IngestOpen'
  BY <1>5 DEF TearBackup, Tears, IInv, IngestOpen, held, relay
<1>6. ASSUME NEW d \in Dests, TearBackupRelease(d) PROVE IngestOpen'
  BY <1>6 DEF TearBackupRelease, Tears, Done, IInv, IngestOpen, held, relay
<1>7. CASE TakeRendition
  BY <1>7 DEF TakeRendition, Goto, OtherSide, IInv, IngestOpen, held, relay
<1>8. CASE StopRendition
  BY <1>8 DEF StopRendition, Step, OtherSide, IInv, IngestOpen, held, relay
<1>9. CASE RenditionStopped
  BY <1>9, HubNames, Chosen DEF RenditionStopped, Step, OtherSide, CloseRendition, HubsAccounted,
    FeedIsOwn, Passing, Entries, IInv, IngestOpen, held, relay
<1>10. CASE RendBuilt
  BY <1>10 DEF RendBuilt, Built, IInv, IngestOpen, held, relay
<1>11. CASE RendNotBuilt
  BY <1>11 DEF RendNotBuilt, FailRend, IInv, IngestOpen, held, relay
<1>12. CASE PublishRendition
  BY <1>12, HubNames, Chosen DEF PublishRendition, Goto, OtherSide, Discard, HubsAccounted,
    FeedIsOwn, Passing, Entries, IInv, IngestOpen, held, relay
<1>13. CASE RunRendition
  BY <1>13 DEF RunRendition, Step, OtherSide, IInv, IngestOpen, held, relay
<1>14. CASE LookDestination
  BY <1>14 DEF LookDestination, Goto, OtherSide, FailDest, IInv, IngestOpen, held, relay
<1>15. CASE DestBuilt
  BY <1>15 DEF DestBuilt, Built, IInv, IngestOpen, held, relay
<1>16. CASE DestNotBuilt
  BY <1>16 DEF DestNotBuilt, FailDest, IInv, IngestOpen, held, relay
<1>17. CASE PublishDestination
  BY <1>17 DEF PublishDestination, Goto, OtherSide, Discard, IInv, IngestOpen, held, relay
<1>18. CASE RunDestination
  BY <1>18 DEF RunDestination, Step, OtherSide, IInv, IngestOpen, held, relay
<1>19. CASE StopBackup
  BY <1>19 DEF StopBackup, Step, OtherSide, IInv, IngestOpen, held, relay
<1>20. CASE DropBackup
  BY <1>20 DEF DropBackup, Step, OtherSide, IInv, IngestOpen, held, relay
<1>21. CASE BackupBuilt
  BY <1>21 DEF BackupBuilt, Built, IInv, IngestOpen, held, relay
<1>22. CASE BackupNotBuilt
  BY <1>22 DEF BackupNotBuilt, IInv, IngestOpen, held, relay
<1>23. CASE PublishBackup
  BY <1>23 DEF PublishBackup, Goto, OtherSide, Discard, IInv, IngestOpen, held, relay
<1>24. CASE RunBackup
  BY <1>24 DEF RunBackup, Step, OtherSide, IInv, IngestOpen, held, relay
<1>25. CASE Collect
  BY <1>25 DEF Collect, Halt, IInv, IngestOpen, held, relay
<1>26. ASSUME NEW r \in Rends, StopEncode(r) PROVE IngestOpen'
  BY <1>26 DEF StopEncode, IInv, IngestOpen, held, relay
<1>27. ASSUME NEW r \in Rends, ReleaseStopped(r) PROVE IngestOpen'
  BY <1>27, HubNames, Chosen DEF ReleaseStopped, CloseRendition, HubsAccounted, FeedIsOwn,
    Passing, Entries, IInv, IngestOpen, held, relay
<1>28. CASE LoopsDone
  BY <1>28 DEF LoopsDone, Halt, IInv, IngestOpen, held, relay
<1> QED
  BY <1>1, <1>2, <1>3, <1>4, <1>5, <1>6, <1>7, <1>8, <1>9, <1>10, <1>11, <1>12, <1>13, <1>14,
    <1>15, <1>16, <1>17, <1>18, <1>19, <1>20, <1>21, <1>22, <1>23, <1>24, <1>25, <1>26, <1>27,
    <1>28 DEF EngineStep

(* A rendition that runs reads the ingest and writes an open hub.           *)
LEMMA EncodesReadKept ==
  ASSUME IInv, EngineStep
  PROVE  EncodesRead'
<1> SUFFICES ASSUME ~stopped, Running, ~stopped' PROVE EncodesRead'
  BY RunningSteps DEF EncodesRead
<1>1. CASE Enter \/ Leave
  BY <1>1, PassWrites DEF Enter, Leave, Step, OtherSide, IInv, Chained, EncodesRead, held, relay,
    Runs
<1>2. CASE ListDestinations \/ ListRenditions \/ DestinationsStopped \/ RenditionsStopped \/
       RenditionsStarted \/ StopCalled
  BY <1>2 DEF ListDestinations, ListRenditions, DestinationsStopped, RenditionsStopped,
    RenditionsStarted, StopCalled, Step, OtherSide, Halt, IInv, Chained, EncodesRead, held, relay,
    Runs
<1>3. CASE Decide
  BY <1>3 DEF Decide, Step, OtherSide, Decided, IInv, Chained, EncodesRead, held, relay, Runs
<1>4. CASE SortDestinations
  BY <1>4 DEF SortDestinations, Step, OtherSide, IInv, Chained, EncodesRead, held, relay, Runs
<1>5. ASSUME NEW d \in Dests, TearStop(d) PROVE EncodesRead'
  BY <1>5, StopEffect, Names DEF TearStop, Tears, Processes, TypeOK, SameBut, IInv, Chained,
    EncodesRead, held, relay, Runs
<1>6. ASSUME NEW d \in Dests, TearRelease(d) PROVE EncodesRead'
  BY <1>6 DEF TearRelease, Tears, Done, IInv, Chained, EncodesRead, held, relay, Runs
<1>7. ASSUME NEW d \in Dests, TearBackup(d) PROVE EncodesRead'
  BY <1>7, StopEffect, Names DEF TearBackup, Tears, Processes, TypeOK, SameBut, IInv, Chained,
    EncodesRead, held, relay, Runs
<1>8. ASSUME NEW d \in Dests, TearBackupRelease(d) PROVE EncodesRead'
  BY <1>8 DEF TearBackupRelease, Tears, Done, IInv, Chained, EncodesRead, held, relay, Runs
<1>9. CASE TakeRendition
  BY <1>9, TakeEffect, Chosen, Names DEF TakeRendition, Goto, OtherSide, StopTaken, Passing,
    TypeOK, HeldTypes, Starting, IInv, Chained, EncodesRead, held, relay, Runs
<1>10. CASE StopRendition
  BY <1>10, StopEffect, Names, Chosen DEF StopRendition, Step, OtherSide, Processes, TypeOK,
    SameBut, Passing, OneDest, Dropping, IInv, Chained, EncodesRead, held, relay, Runs
<1>11. CASE RenditionStopped
  BY <1>11, TakeEffect, Chosen, Names, HubNames DEF RenditionStopped, Step, OtherSide,
    CloseRendition, StopTaken, Passing, HubsAccounted, FeedIsOwn, Entries, Starting, TypeOK,
    HeldTypes, IInv, Chained, EncodesRead, held, relay, Runs
<1>12. CASE RendBuilt
  BY <1>12, PassWrites, Chosen, Names, HubNames DEF RendBuilt, Built, HubSet, Passing,
    HubsAccounted, FeedIsOwn, Entries, Starting, Builds, IInv, Chained, EncodesRead, held, relay,
    Runs
<1>13. CASE RendNotBuilt
  BY <1>13, TakeEffect, Chosen, Names DEF RendNotBuilt, FailRend, StartTaken, Passing, TypeOK,
    HeldTypes, Starting, Halting, IInv, Chained, EncodesRead, held, relay, Runs
<1>14. CASE PublishRendition
  BY <1>14, PassWrites, Names, Chosen, HubNames DEF PublishRendition, Goto, OtherSide, Discard,
    Started, TypeOK, HeldTypes, Passing, OneDest, Dropping, HubsAccounted, FeedIsOwn, Entries,
    Starting, IInv, Chained, EncodesRead, held, relay, Runs
<1>15. CASE RunRendition
  BY <1>15, PassWrites, StartEffect, Names, Chosen DEF RunRendition, Step, OtherSide, Started,
    TypeOK, SameBut, Passing, OneDest, Dropping, IInv, Chained, EncodesRead, held, relay, Runs
<1>16. CASE LookDestination
  BY <1>16, PassWrites, SkipEffect, Chosen, Names DEF LookDestination, Goto, OtherSide, FailDest,
    HubSet, Skipped, Passing, IInv, Chained, EncodesRead, held, relay, Runs
<1>17. CASE DestBuilt
  BY <1>17, Chosen, Names DEF DestBuilt, Built, Passing, IInv, Chained, EncodesRead, held, relay,
    Runs
<1>18. CASE DestNotBuilt
  BY <1>18, SkipEffect, Chosen, Names DEF DestNotBuilt, FailDest, Skipped, Passing, IInv, Chained,
    EncodesRead, held, relay, Runs
<1>19. CASE PublishDestination
  BY <1>19, Names, Chosen DEF PublishDestination, Goto, OtherSide, Discard, TypeOK, HeldTypes,
    Passing, OneDest, Dropping, IInv, Chained, EncodesRead, held, relay, Runs
<1>20. CASE RunDestination
  BY <1>20, StartEffect, Names, Chosen DEF RunDestination, Step, OtherSide, TypeOK, SameBut,
    Passing, OneDest, Dropping, IInv, Chained, EncodesRead, held, relay, Runs
<1>21. CASE LookBackup
  BY <1>21, PassWrites, SkipEffect, Chosen, Names DEF LookBackup, Goto, OtherSide, OldSet,
    Skipped, Passing, IInv, Chained, EncodesRead, held, relay, Runs
<1>22. CASE StopBackup
  BY <1>22, StopEffect, Names, Chosen DEF StopBackup, Step, OtherSide, Processes, TypeOK, SameBut,
    Passing, OneDest, Dropping, IInv, Chained, EncodesRead, held, relay, Runs
<1>23. CASE DropBackup
  BY <1>23, Chosen, Names DEF DropBackup, Step, OtherSide, Passing, IInv, Chained, EncodesRead,
    held, relay, Runs
<1>24. CASE BackupBuilt
  BY <1>24, Chosen, Names DEF BackupBuilt, Built, Passing, IInv, Chained, EncodesRead, held,
    relay, Runs
<1>25. CASE BackupNotBuilt
  BY <1>25, Chosen, Names DEF BackupNotBuilt, Passing, IInv, Chained, EncodesRead, held, relay,
    Runs
<1>26. CASE PublishBackup
  BY <1>26, SkipEffect, Names, Chosen DEF PublishBackup, Goto, OtherSide, Discard, Skipped,
    TypeOK, HeldTypes, Passing, OneDest, Dropping, IInv, Chained, EncodesRead, held, relay, Runs
<1>27. CASE RunBackup
  BY <1>27, SkipEffect, StartEffect, Names, Chosen DEF RunBackup, Step, OtherSide, Skipped,
    TypeOK, SameBut, Passing, OneDest, Dropping, IInv, Chained, EncodesRead, held, relay, Runs
<1> QED
  BY <1>1, <1>2, <1>3, <1>4, <1>5, <1>6, <1>7, <1>8, <1>9, <1>10, <1>11, <1>12, <1>13, <1>14,
    <1>15, <1>16, <1>17, <1>18, <1>19, <1>20, <1>21, <1>22, <1>23, <1>24, <1>25, <1>26, <1>27
    DEF Running

(* A backup reads what its destination reads.                              *)
LEMMA BackupsReadKept ==
  ASSUME IInv, EngineStep
  PROVE  BackupsRead'
<1> SUFFICES ASSUME ~stopped, Running, ~stopped' PROVE BackupsRead'
  BY RunningSteps DEF BackupsRead
<1>1. CASE Enter \/ Leave
  BY <1>1, PassWrites DEF Enter, Leave, Step, OtherSide, IInv, Chained, BackupsRead, held, relay,
    Processes, FreshShape
<1>2. CASE ListDestinations \/ ListRenditions \/ DestinationsStopped \/ RenditionsStopped \/
       RenditionsStarted
  BY <1>2 DEF ListDestinations, ListRenditions, DestinationsStopped, RenditionsStopped,
    RenditionsStarted, Step, OtherSide, IInv, Chained, BackupsRead, held, relay, Processes,
    FreshShape
<1>3. CASE Decide
  BY <1>3 DEF Decide, Step, OtherSide, Decided, IInv, Chained, BackupsRead, held, relay,
    Processes, FreshShape
<1>4. CASE SortDestinations
  BY <1>4 DEF SortDestinations, Step, OtherSide, TypeOK, HeldTypes, IInv, Chained, BackupsRead,
    held, relay, Processes, FreshShape
<1>5. ASSUME NEW d \in Dests, TearStop(d) PROVE BackupsRead'
  BY <1>5, StopsKeepHands, Names DEF TearStop, Tears, SameBut, Halting, TypeOK, HeldTypes, IInv,
    Chained, BackupsRead, held, relay, Processes, FreshShape
<1>6. ASSUME NEW d \in Dests, TearRelease(d) PROVE BackupsRead'
  BY <1>6 DEF TearRelease, Tears, Done, TypeOK, HeldTypes, Halting, IInv, Chained, BackupsRead,
    held, relay, Processes, FreshShape
<1>7. ASSUME NEW d \in Dests, TearBackup(d) PROVE BackupsRead'
  BY <1>7, StopsKeepHands, Names DEF TearBackup, Tears, SameBut, Halting, TypeOK, HeldTypes, IInv,
    Chained, BackupsRead, held, relay, Processes, FreshShape
<1>8. ASSUME NEW d \in Dests, TearBackupRelease(d) PROVE BackupsRead'
  BY <1>8 DEF TearBackupRelease, Tears, Done, TypeOK, HeldTypes, Halting, IInv, Chained,
    BackupsRead, held, relay, Processes, FreshShape
<1>9. CASE TakeRendition
  BY <1>9, TakeEffect DEF TakeRendition, Goto, OtherSide, StopTaken, IInv, Chained, BackupsRead,
    held, relay, Processes, FreshShape
<1>10. CASE StopRendition
  BY <1>10, StopsKeepHands, Names, Chosen DEF StopRendition, Step, OtherSide, SameBut, Passing,
    OneDest, IInv, Chained, BackupsRead, held, relay, Processes, FreshShape
<1>11. CASE RenditionStopped
  BY <1>11, TakeEffect DEF RenditionStopped, Step, OtherSide, CloseRendition, StopTaken, IInv,
    Chained, BackupsRead, held, relay, Processes, FreshShape
<1>12. CASE RendBuilt
  BY <1>12, PassWrites DEF RendBuilt, Built, HubSet, IInv, Chained, BackupsRead, held, relay,
    Processes, FreshShape
<1>13. CASE RendNotBuilt
  BY <1>13, TakeEffect DEF RendNotBuilt, FailRend, StartTaken, IInv, Chained, BackupsRead, held,
    relay, Processes, FreshShape
<1>14. CASE PublishRendition
  BY <1>14, PassWrites, Names, Chosen, NoneIsTyped DEF PublishRendition, Goto, OtherSide, Discard,
    Started, TypeOK, HeldTypes, Passing, OneDest, Dropping, IInv, Chained, BackupsRead, held,
    relay, Processes, FreshShape
<1>15. CASE RunRendition
  BY <1>15, StartsKeepLive, Names DEF RunRendition, Step, OtherSide, SameBut, IInv, Chained,
    BackupsRead, held, relay, Processes, FreshShape
<1>16. CASE LookDestination
  BY <1>16, PassWrites, SkipEffect, Chosen DEF LookDestination, Goto, OtherSide, FailDest, HubSet,
    Skipped, TypeOK, HeldTypes, Passing, OneDest, Starting, Halting, IInv, Chained, BackupsRead,
    held, relay, Processes, FreshShape
<1>17. CASE DestBuilt
  BY <1>17 DEF DestBuilt, Built, IInv, Chained, BackupsRead, held, relay, Processes, FreshShape
<1>18. CASE DestNotBuilt
  BY <1>18, SkipEffect, Chosen DEF DestNotBuilt, FailDest, Skipped, TypeOK, HeldTypes, Passing,
    OneDest, Starting, Halting, IInv, Chained, BackupsRead, held, relay, Processes, FreshShape
<1>19. CASE PublishDestination
  BY <1>19, Names, Chosen, NoneIsTyped DEF PublishDestination, Goto, OtherSide, Discard, TypeOK,
    HeldTypes, Passing, OneDest, Dropping, IInv, Chained, BackupsRead, held, relay, Processes,
    FreshShape
<1>20. CASE RunDestination
  BY <1>20, StartsKeepLive, Names DEF RunDestination, Step, OtherSide, SameBut, IInv, Chained,
    BackupsRead, held, relay, Processes, FreshShape
<1>21. CASE LookBackup
  BY <1>21, PassWrites, SkipEffect DEF LookBackup, Goto, OtherSide, OldSet, Skipped, IInv,
    Chained, BackupsRead, held, relay, Processes, FreshShape
<1>22. CASE StopBackup
  BY <1>22, StopsKeepHands, Names, Chosen DEF StopBackup, Step, OtherSide, SameBut, Passing,
    OneDest, IInv, Chained, BackupsRead, held, relay, Processes, FreshShape
<1>23. CASE DropBackup
  BY <1>23 DEF DropBackup, Step, OtherSide, IInv, Chained, BackupsRead, held, relay, Processes,
    FreshShape
<1>24. CASE BackupBuilt
  BY <1>24 DEF BackupBuilt, Built, Builds, Next1, IInv, Chained, BackupsRead, held, relay,
    Processes, FreshShape
<1>25. CASE BackupNotBuilt
  BY <1>25 DEF BackupNotBuilt, IInv, Chained, BackupsRead, held, relay, Processes, FreshShape
<1>26. CASE PublishBackup
  BY <1>26, SkipEffect, Names, Chosen, NoneIsTyped DEF PublishBackup, Goto, OtherSide, Discard,
    Skipped, TypeOK, HeldTypes, Passing, OneDest, Dropping, IInv, Chained, BackupsRead, held,
    relay, Processes, FreshShape
<1>27. CASE RunBackup
  BY <1>27, StartsKeepLive, Names DEF RunBackup, Step, OtherSide, SameBut, IInv, Chained,
    BackupsRead, held, relay, Processes, FreshShape
<1>28. CASE StopCalled
  BY <1>28, SamePlace DEF StopCalled, Halt, IInv, Chained, BackupsRead, held, relay, Processes,
    FreshShape
<1> QED
  BY <1>1, <1>2, <1>3, <1>4, <1>5, <1>6, <1>7, <1>8, <1>9, <1>10, <1>11, <1>12, <1>13, <1>14,
    <1>15, <1>16, <1>17, <1>18, <1>19, <1>20, <1>21, <1>22, <1>23, <1>24, <1>25, <1>26, <1>27,
    <1>28 DEF Running

(* Most steps leave what the destinations read alone.                      *)
SameReads ==
  /\ \A d \in Dests : place'[d] \in {"map", "leaving"} => place[d] \in {"map", "leaving"}
  /\ \A c \in Consumers : SameBut(c)
  /\ \A r \in Rends : tier[r] = "map" =>
       tier'[r] = "map" \/ (pc \in {"stopRends", "stopRend", "closeRend"} /\ r \in run.stopR)
  /\ UNCHANGED feed
  /\ pc' \in {"stopRends", "stopRend", "closeRend"} =>
       pc \in {"stopRends", "stopRend", "closeRend"} /\ run'.stopR \subseteq run.stopR
Reading ==
  \/ Enter \/ ListDestinations \/ ListRenditions \/ Decide \/ SortDestinations
  \/ TakeRendition \/ StopRendition \/ RenditionStopped \/ RenditionsStopped \/ RendBuilt
  \/ RendNotBuilt \/ RunRendition \/ RenditionsStarted \/ LookDestination \/ DestBuilt
  \/ DestNotBuilt \/ RunDestination \/ LookBackup \/ StopBackup \/ DropBackup
  \/ BackupBuilt \/ BackupNotBuilt \/ RunBackup \/ Leave \/ StopCalled
  \/ (\E d \in Dests : TearStop(d) \/ TearRelease(d) \/ TearBackup(d) \/ TearBackupRelease(d))

(* The steps in question are those.                                        *)
LEMMA ReadingSteps ==
  ASSUME IInv, ~stopped, Reading
  PROVE  SameReads
<1>1. CASE Enter \/ ListDestinations \/ ListRenditions \/ RenditionsStopped \/ RenditionsStarted
       \/ Leave \/ StopCalled
  BY <1>1 DEF Enter, ListDestinations, ListRenditions, RenditionsStopped, RenditionsStarted,
    Leave, StopCalled, Step, OtherSide, Halt, IInv, held, relay, Runs, SameReads, SameBut
<1>2. CASE Decide
  BY <1>2 DEF Decide, Step, OtherSide, Decided, IInv, held, relay, Runs, SameReads, SameBut
<1>3. CASE SortDestinations
  BY <1>3 DEF SortDestinations, Step, OtherSide, TypeOK, HeldTypes, IInv, held, relay, Runs,
    SameReads, SameBut
<1>4. ASSUME NEW d \in Dests, TearStop(d) PROVE SameReads
  BY <1>4, StopsKeepHands, Names DEF TearStop, Tears, SameBut, Halting, IInv, held, relay, Runs,
    SameReads
<1>5. ASSUME NEW d \in Dests, TearRelease(d) PROVE SameReads
  BY <1>5 DEF TearRelease, Tears, Done, TypeOK, HeldTypes, Halting, IInv, held, relay, Runs,
    SameReads, SameBut
<1>6. ASSUME NEW d \in Dests, TearBackup(d) PROVE SameReads
  BY <1>6, StopsKeepHands, Names DEF TearBackup, Tears, SameBut, Halting, IInv, held, relay, Runs,
    SameReads
<1>7. ASSUME NEW d \in Dests, TearBackupRelease(d) PROVE SameReads
  BY <1>7 DEF TearBackupRelease, Tears, Done, TypeOK, HeldTypes, Halting, IInv, held, relay, Runs,
    SameReads, SameBut
<1>8. CASE TakeRendition
  BY <1>8, TakeEffect, Chosen DEF TakeRendition, Goto, OtherSide, StopTaken, Passing, OneDest,
    TypeOK, HeldTypes, IInv, held, relay, Runs, SameReads, SameBut
<1>9. CASE StopRendition
  BY <1>9, StopsKeepHands, Names, Chosen DEF StopRendition, Step, OtherSide, SameBut, Passing,
    OneDest, IInv, held, relay, Runs, SameReads
<1>10. CASE RenditionStopped
  BY <1>10, TakeEffect, Chosen DEF RenditionStopped, Step, OtherSide, CloseRendition, StopTaken,
    Passing, OneDest, TypeOK, HeldTypes, IInv, held, relay, Runs, SameReads, SameBut
<1>11. CASE RendBuilt
  BY <1>11 DEF RendBuilt, Built, HubSet, IInv, held, relay, Runs, SameReads, SameBut
<1>12. CASE RendNotBuilt
  BY <1>12, TakeEffect, Chosen DEF RendNotBuilt, FailRend, StartTaken, Passing, OneDest, TypeOK,
    HeldTypes, Starting, Halting, IInv, held, relay, Runs, SameReads, SameBut
<1>13. CASE RunRendition
  BY <1>13, StartsKeepLive DEF RunRendition, Step, OtherSide, Started, SameBut, IInv, held, relay,
    Runs, SameReads
<1>14. CASE LookDestination
  BY <1>14, Chosen DEF LookDestination, Goto, OtherSide, FailDest, HubSet, Skipped, Passing,
    OneDest, TypeOK, HeldTypes, Starting, Halting, IInv, held, relay, Runs, SameReads, SameBut
<1>15. CASE DestBuilt
  BY <1>15 DEF DestBuilt, Built, IInv, held, relay, Runs, SameReads, SameBut
<1>16. CASE DestNotBuilt
  BY <1>16, Chosen DEF DestNotBuilt, FailDest, Skipped, Passing, OneDest, TypeOK, HeldTypes,
    Starting, Halting, IInv, held, relay, Runs, SameReads, SameBut
<1>17. CASE RunDestination
  BY <1>17, StartsKeepLive DEF RunDestination, Step, OtherSide, SameBut, IInv, held, relay, Runs,
    SameReads
<1>18. CASE LookBackup
  BY <1>18 DEF LookBackup, Goto, OtherSide, OldSet, Skipped, IInv, held, relay, Runs, SameReads,
    SameBut
<1>19. CASE StopBackup
  BY <1>19, StopsKeepHands, Names, Chosen DEF StopBackup, Step, OtherSide, SameBut, Passing,
    OneDest, IInv, held, relay, Runs, SameReads
<1>20. CASE DropBackup
  BY <1>20 DEF DropBackup, Step, OtherSide, IInv, held, relay, Runs, SameReads, SameBut
<1>21. CASE BackupBuilt
  BY <1>21 DEF BackupBuilt, Built, IInv, held, relay, Runs, SameReads, SameBut
<1>22. CASE BackupNotBuilt
  BY <1>22 DEF BackupNotBuilt, IInv, held, relay, Runs, SameReads, SameBut
<1>23. CASE RunBackup
  BY <1>23, StartsKeepLive DEF RunBackup, Step, OtherSide, Skipped, SameBut, IInv, held, relay,
    Runs, SameReads
<1> QED
  BY <1>1, <1>2, <1>3, <1>4, <1>5, <1>6, <1>7, <1>8, <1>9, <1>10, <1>11, <1>12, <1>13, <1>14,
    <1>15, <1>16, <1>17, <1>18, <1>19, <1>20, <1>21, <1>22, <1>23 DEF Reading

(* What a destination is planned to read: nothing, or a rendition's hub.   *)
LEMMA PlanReads ==
  ASSUME IInv, Planned, NEW d \in Dests, run.plan[d] \notin {Absent, Broken}
  PROVE  LET row == run.rows[d]
             spec == run.plan[d]
         IN /\ spec[1] = row.rend /\ row.rend \in Rends \cup {Passthrough}
            /\ row.rend # Passthrough => /\ spec[1] \in Rends
                                         /\ run.want[row.rend] = <<spec[3]>>
<1> DEFINE row == run.rows[d]
<1>1. RunTypes /\ PlanIsOfRows /\ Listed
  BY DEF IInv, Following, Planned, Tiered
<1>2. row \in Rows /\ run.want \in [Rends -> Wants]
  BY <1>1 DEF RunTypes
<1>3. row.rend \in Rends \cup {Passthrough}
  BY <1>2, RowFields
<1>4. /\ run.plan[d] = DestSpec(row, run.want)
      /\ row.rend # Passthrough => run.want[row.rend] # Absent
  BY <1>1 DEF PlanIsOfRows
<1> HIDE DEF row
<1>5. ASSUME row.rend # Passthrough
      PROVE  run.want[row.rend] = <<run.want[row.rend][1]>>
  <2>1. run.want[row.rend] \in {<<0>>, <<1>>}
    BY <1>2, <1>3, <1>4, <1>5 DEF Wants
  <2> QED
    BY <2>1
<1>6. run.plan[d][1] = row.rend
  BY <1>4 DEF DestSpec
<1>7. row.rend # Passthrough => run.plan[d][3] = run.want[row.rend][1]
  BY <1>4 DEF DestSpec
<1> QED
  BY <1>3, <1>5, <1>6, <1>7 DEF row

(* Every destination goes on reading what feeds it.                        *)
LEMMA AllReadKept ==
  ASSUME IInv, EngineStep
  PROVE  AllRead'
<1> SUFFICES ASSUME ~stopped, Running, ~stopped' PROVE AllRead'
  BY RunningSteps DEF AllRead
<1>1. /\ TypeOK /\ HeldTypes /\ RunTypes /\ Passing /\ Halting /\ Starting /\ Stages
      /\ FreshShape /\ AllRead /\ CarriedOut /\ PlanIsOfRows /\ StopsDiffer /\ TiersFollow
      /\ MakesThePlan
  BY DEF IInv, Following, TypeOK, Processes, Chained
<1>2. CASE Reading
  <2>1. SameReads
    BY <1>2, ReadingSteps
  <2>2. ASSUME NEW d \in Dests, place'[d] \in {"map", "leaving"} PROVE Reads(d)'
    <3>1. Reads(d) /\ SameBut(Main(d))
      BY <2>1, <2>2, <1>1, Names DEF AllRead, SameReads
    <3>2. \A r \in Rends : con'[Encode(r)].spec = con[Encode(r)].spec
      BY <2>1, Names DEF SameReads, SameBut
    <3> QED
      BY <2>1, <3>1, <3>2 DEF Reads, SameReads, SameBut
  <2> QED
    BY <2>2 DEF AllRead
<1>3. CASE DestinationsStopped
  <2>1. /\ pc = "stopDests" /\ pc' = "stopRends" /\ UNCHANGED <<place, tier, con, feed, run>>
        /\ \A d \in Dests : place[d] # "leaving"
    BY SMTT(30), <1>3 DEF DestinationsStopped, Step, held
  <2>2. ASSUME NEW d \in Dests, place[d] = "map" PROVE Reads(d)'
    <3> DEFINE spec == con[Main(d)].spec
    <3>1. Reads(d) /\ spec = run.plan[d] /\ run.plan[d] \notin {Absent, Broken} /\ Planned
      BY <1>1, <2>1, <2>2 DEF AllRead, CarriedOut, MainsFollow, Follows, Sorted, Planned,
        Tiered, Listed
    <3>2. spec[1] = Passthrough => Reads(d)'
      BY <2>1, <3>1, IdsAssumption DEF Reads, Passthrough
    <3>3. ASSUME spec[1] # Passthrough
          PROVE  spec[1] \in Rends /\ spec[1] \notin run.stopR
      <4>1. spec[1] \in Rends /\ run.want[spec[1]] = <<spec[3]>>
        BY <3>1, <3>3, PlanReads
      <4>2. tier[spec[1]] = "map" /\ con[Encode(spec[1])].spec = <<spec[3]>>
        BY <3>1, <3>3 DEF Reads
      <4>3. HaveSpec(spec[1]) = run.want[spec[1]]
        BY <4>1, <4>2 DEF HaveSpec
      <4> QED
        BY <1>1, <2>1, <4>1, <4>3 DEF StopsDiffer
    <3> QED
      BY <2>1, <3>1, <3>2, <3>3 DEF Reads
  <2> QED
    BY <2>1, <2>2 DEF AllRead
<1>4. CASE PublishRendition
  <2>1. PICK r \in Rends : r = Min(run.startR)
    BY <1>1, <1>4, Chosen DEF PublishRendition, Passing
  <2>2. /\ pc = "publishRend" /\ pc' = "runRend" /\ con' = [con EXCEPT ![Encode(r)] = fresh]
        /\ feed' = [feed EXCEPT ![r] = run.hub] /\ tier' = [tier EXCEPT ![r] = "map"]
        /\ UNCHANGED place
    BY <1>1, <1>4, <2>1 DEF PublishRendition, Goto
  <2>3. tier[r] = "none"
    BY <1>1, <2>1, <2>2, Chosen, SMTT(30) DEF Starting, Halting, Passing
  <2>4. /\ \A d \in Dests : con'[Main(d)] = con[Main(d)]
        /\ \A s \in Rends : s # r => /\ con'[Encode(s)] = con[Encode(s)]
                                     /\ feed'[s] = feed[s] /\ tier'[s] = tier[s]
    BY SMTT(30), <1>1, <2>2, Names DEF HeldTypes
  <2>5. ASSUME NEW d \in Dests, place[d] \in {"map", "leaving"} PROVE Reads(d)'
    <3>1. Reads(d) /\ con'[Main(d)] = con[Main(d)]
      BY <1>1, <2>4, <2>5 DEF AllRead
    <3> QED
      BY <2>2, <2>3, <2>4, <3>1 DEF Reads
  <2> QED
    BY <2>2, <2>5 DEF AllRead
<1>5. CASE PublishDestination
  <2>1. PICK d \in Dests : d = Next1
    BY <1>1, <1>5, Chosen DEF PublishDestination, Passing, OneDest
  <2>2. /\ pc = "publishDest" /\ pc' = "runDest"
        /\ con' = [con EXCEPT ![Main(d)] = fresh, ![Backup(d)] = None]
        /\ place' = [place EXCEPT ![d] = "map"] /\ UNCHANGED <<tier, feed, run>>
    BY <1>1, <1>5, <2>1 DEF PublishDestination, Goto
  <2>3. /\ con'[Main(d)] = fresh
        /\ \A e \in Dests : e # d => con'[Main(e)] = con[Main(e)] /\ place'[e] = place[e]
        /\ \A r \in Rends : con'[Encode(r)] = con[Encode(r)]
    BY <1>1, <2>2, Names DEF HeldTypes
  <2>4. /\ fresh.hub = HubFor(run.rows[d].rend) /\ fresh.hub # NoHub /\ fresh.spec = run.plan[d]
        /\ run.plan[d] \notin {Absent, Broken} /\ Planned /\ run.stopR = {}
    BY <1>1, <2>1, <2>2, Chosen DEF PlanIsOfRows, MakesThePlan, Passing, OneDest, Planned,
      Tiered, Listed, Starting
  <2>5. Reads(d)'
    <3>1. CASE run.rows[d].rend = Passthrough
      BY <2>2, <2>3, <2>4, <3>1, PlanReads DEF Reads, HubFor
    <3>2. CASE run.rows[d].rend # Passthrough
      <4> DEFINE r == run.rows[d].rend
      <4>1. /\ r \in Rends /\ fresh.spec[1] = r /\ run.want[r] = <<fresh.spec[3]>>
        BY <2>4, <3>2, PlanReads
      <4>2. tier[r] = "map" /\ fresh.hub = feed[r]
        BY <2>4, <3>2 DEF HubFor
      <4>3. con[Encode(r)].spec = run.want[r]
        BY SMTT(30), <1>1, <2>4, <4>1, <4>2 DEF TiersFollow
      <4> HIDE DEF r
      <4> QED
        BY ZenonT(60), <2>2, <2>3, <2>4, <4>1, <4>2, <4>3 DEF Reads
    <3> QED
      BY <3>1, <3>2
  <2>6. ASSUME NEW e \in Dests, e # d, place[e] \in {"map", "leaving"} PROVE Reads(e)'
    <3>1. Reads(e)
      BY <1>1, <2>6 DEF AllRead
    <3>2. con'[Main(e)] = con[Main(e)] /\ UNCHANGED <<tier, feed>>
      BY <2>2, <2>3, <2>6
    <3> QED
      BY <2>2, <2>3, <3>1, <3>2 DEF Reads
  <2> QED
    BY <2>3, <2>5, <2>6 DEF AllRead
<1>6. CASE PublishBackup
  <2>1. PICK d \in Dests : d = Next1
    BY <1>1, <1>6, Chosen DEF PublishBackup, Passing, OneDest, Dropping
  <2>2. /\ pc = "publishBackup" /\ pc' \in {"runBackup", "startDests"}
        /\ con' = [con EXCEPT ![Backup(d)] = fresh] \/ UNCHANGED con
        /\ UNCHANGED <<place, tier, feed>>
    BY <1>6, <2>1 DEF PublishBackup, Goto
  <2>3. /\ \A e \in Dests : con'[Main(e)] = con[Main(e)]
        /\ \A r \in Rends : con'[Encode(r)] = con[Encode(r)]
    BY <1>1, <2>2, Names DEF HeldTypes
  <2> QED
    BY <1>1, <2>2, <2>3 DEF AllRead, Reads
<1> QED
  BY <1>2, <1>3, <1>4, <1>5, <1>6 DEF Running, Reading

-----------------------------------------------------------------------------
(* A row that can run has settings a process can have.                      *)
LEMMA PlannedIsSpec ==
  ASSUME NEW row \in Rows, NEW want \in [Rends -> Wants],
         row.rend # Passthrough => want[row.rend] # Absent
  PROVE  DestSpec(row, want) \in Specs
<1>1. row.rend # Passthrough => want[row.rend][1] \in {0, 1}
  <2>1. row.rend # Passthrough => row.rend \in Rends
    BY RowFields
  <2> QED
    BY <2>1 DEF Wants
<1> DEFINE v == IF row.rend = Passthrough THEN 0 ELSE want[row.rend][1]
<1>2. v \in {0, 1}
  BY <1>1
<1>3. DestSpec(row, want) = <<row.rend, row.ver, v>>
  BY DEF DestSpec
<1> HIDE DEF v
<1> QED
  BY <1>2, <1>3, RowFields, SpecsAre

(* What was decided is what the rows and the renditions say.               *)
LEMMA DecidedIsOfRows ==
  ASSUME IInv, Decide
  PROVE  PlanIsOfRows'
<1>1. run' \in Locals /\ Decided /\ RunTypes /\ run.rows \in [Dests -> Rows]
  BY DecideEffect DEF IInv, RunTypes, Decide, Step, Listed
<1>2. /\ run'.rows = run.rows /\ run'.want = DecidedWant /\ run'.plan = DecidedPlan
      /\ run'.left = (IF known THEN {d \in Dests : run.rows[d].on} ELSE {})
      /\ run'.startR = {r \in Rends : Wanted(r) # Absent /\ Wanted(r) # HaveSpec(r)}
  BY <1>1 DEF Decided, Runs
<1>3. DecidedWant \in [Rends -> Wants] /\ DecidedPlan \in [Dests -> Plans]
  BY DecideEffect
<1>4. ASSUME NEW d \in Dests
      PROVE  DecidedPlan[d] = PlanOf(d, DecidedWant)
  BY DEF DecidedPlan
<1>5. ASSUME NEW d \in Dests, DecidedPlan[d] \notin {Absent, Broken}
      PROVE  /\ DecidedPlan[d] = DestSpec(run.rows[d], DecidedWant)
             /\ run.rows[d].rend # Passthrough => DecidedWant[run.rows[d].rend] # Absent
  BY <1>4, <1>5 DEF PlanOf
<1>6. ASSUME NEW d \in Dests, known, run.rows[d].on
      PROVE  DecidedPlan[d] # Absent
  <2> DEFINE row == run.rows[d]
  <2>1. row \in Rows
    BY <1>1
  <2>2. CASE row.rend # Passthrough /\ DecidedWant[row.rend] = Absent
    BY <1>4, <1>6, <2>2, SpecsAreNeither DEF PlanOf
  <2>3. CASE ~(row.rend # Passthrough /\ DecidedWant[row.rend] = Absent)
    <3>1. DecidedPlan[d] = DestSpec(row, DecidedWant)
      BY <1>4, <1>6, <2>3 DEF PlanOf
    <3>3. DestSpec(row, DecidedWant) \in Specs
      BY <1>3, <2>1, <2>3, PlannedIsSpec
    <3> QED
      BY <3>1, <3>3, SpecsAreNeither
  <2> QED
    BY <2>2, <2>3
<1>7. \A r \in Rends : DecidedWant[r] = Wanted(r)
  BY DEF DecidedWant
<1> QED
  BY <1>2, <1>5, <1>6, <1>7 DEF PlanIsOfRows

(* The plan goes on saying what the rows said.                             *)
LEMMA PlanIsOfRowsKept ==
  ASSUME IInv, EngineStep
  PROVE  PlanIsOfRows'
<1>1. CASE Enter \/ Leave
  BY <1>1, PassWrites DEF Enter, Leave, Step, OtherSide, IInv, Following, PlanIsOfRows, Planned,
    Tiered, Listed, Runs
<1>2. CASE ListDestinations \/ ListRenditions
  BY <1>2, WritesOfTheLocals DEF ListDestinations, ListRenditions, Step, OtherSide, IInv,
    Following, PlanIsOfRows, Planned, Tiered, Listed, Runs
<1>3. CASE Decide
  BY <1>3, DecidedIsOfRows
<1>4. CASE SortDestinations
  BY <1>4 DEF SortDestinations, Step, OtherSide, IInv, Following, PlanIsOfRows, Planned, Tiered,
    Listed, Runs
<1>5. ASSUME NEW d \in Dests, TearStop(d) PROVE PlanIsOfRows'
  BY <1>5 DEF TearStop, Tears, IInv, Following, PlanIsOfRows, Planned, Tiered, Listed, Runs
<1>6. ASSUME NEW d \in Dests, TearRelease(d) PROVE PlanIsOfRows'
  BY <1>6 DEF TearRelease, Tears, Done, IInv, Following, PlanIsOfRows, Planned, Tiered, Listed,
    Runs
<1>7. ASSUME NEW d \in Dests, TearBackup(d) PROVE PlanIsOfRows'
  BY <1>7 DEF TearBackup, Tears, IInv, Following, PlanIsOfRows, Planned, Tiered, Listed, Runs
<1>8. ASSUME NEW d \in Dests, TearBackupRelease(d) PROVE PlanIsOfRows'
  BY <1>8 DEF TearBackupRelease, Tears, Done, IInv, Following, PlanIsOfRows, Planned, Tiered,
    Listed, Runs
<1>9. CASE DestinationsStopped \/ RenditionsStopped \/ RenditionsStarted \/ StopCalled \/
       DestinationsDown \/ EncodesDown
  BY <1>9 DEF DestinationsStopped, RenditionsStopped, RenditionsStarted, StopCalled,
    DestinationsDown, EncodesDown, Step, OtherSide, Halt, IInv, Following, PlanIsOfRows, Planned,
    Tiered, Listed, Runs
<1>10. CASE TakeRendition
  BY <1>10, TakeEffect, Chosen DEF TakeRendition, Goto, OtherSide, StopTaken, IInv, Following,
    PlanIsOfRows, Planned, Tiered, Listed, Runs
<1>11. CASE StopRendition
  BY <1>11, Chosen DEF StopRendition, Step, OtherSide, IInv, Following, PlanIsOfRows, Planned,
    Tiered, Listed, Runs
<1>12. CASE RenditionStopped
  BY <1>12, TakeEffect, Chosen DEF RenditionStopped, Step, OtherSide, CloseRendition, StopTaken,
    IInv, Following, PlanIsOfRows, Planned, Tiered, Listed, Runs
<1>13. CASE RendBuilt
  BY <1>13, PassWrites, Chosen DEF RendBuilt, Built, HubSet, IInv, Following, PlanIsOfRows,
    Planned, Tiered, Listed, Runs
<1>14. CASE RendNotBuilt
  BY <1>14, TakeEffect, Chosen DEF RendNotBuilt, FailRend, StartTaken, IInv, Following,
    PlanIsOfRows, Planned, Tiered, Listed, Runs
<1>15. CASE PublishRendition
  BY <1>15, PassWrites, Chosen DEF PublishRendition, Goto, OtherSide, Discard, Started, IInv,
    Following, PlanIsOfRows, Planned, Tiered, Listed, Runs
<1>16. CASE RunRendition
  BY <1>16, PassWrites, Chosen DEF RunRendition, Step, OtherSide, Started, IInv, Following,
    PlanIsOfRows, Planned, Tiered, Listed, Runs
<1>17. CASE LookDestination
  BY <1>17, PassWrites, SkipEffect, Chosen DEF LookDestination, Goto, OtherSide, FailDest, HubSet,
    Skipped, IInv, Following, PlanIsOfRows, Planned, Tiered, Listed, Runs
<1>18. CASE DestBuilt
  BY <1>18, Chosen DEF DestBuilt, Built, IInv, Following, PlanIsOfRows, Planned, Tiered, Listed,
    Runs
<1>19. CASE DestNotBuilt
  BY <1>19, SkipEffect, Chosen DEF DestNotBuilt, FailDest, Skipped, IInv, Following, PlanIsOfRows,
    Planned, Tiered, Listed, Runs
<1>20. CASE PublishDestination
  BY <1>20, Chosen DEF PublishDestination, Goto, OtherSide, Discard, IInv, Following,
    PlanIsOfRows, Planned, Tiered, Listed, Runs
<1>21. CASE RunDestination
  BY <1>21, Chosen DEF RunDestination, Step, OtherSide, IInv, Following, PlanIsOfRows, Planned,
    Tiered, Listed, Runs
<1>22. CASE LookBackup
  BY <1>22, PassWrites, SkipEffect, Chosen DEF LookBackup, Goto, OtherSide, OldSet, Skipped, IInv,
    Following, PlanIsOfRows, Planned, Tiered, Listed, Runs
<1>23. CASE StopBackup
  BY <1>23, Chosen DEF StopBackup, Step, OtherSide, IInv, Following, PlanIsOfRows, Planned,
    Tiered, Listed, Runs
<1>24. CASE DropBackup
  BY <1>24, Chosen DEF DropBackup, Step, OtherSide, IInv, Following, PlanIsOfRows, Planned,
    Tiered, Listed, Runs
<1>25. CASE BackupBuilt
  BY <1>25, Chosen DEF BackupBuilt, Built, IInv, Following, PlanIsOfRows, Planned, Tiered, Listed,
    Runs
<1>26. CASE BackupNotBuilt
  BY <1>26, Chosen DEF BackupNotBuilt, IInv, Following, PlanIsOfRows, Planned, Tiered, Listed,
    Runs
<1>27. CASE PublishBackup
  BY <1>27, SkipEffect, Chosen DEF PublishBackup, Goto, OtherSide, Discard, Skipped, IInv,
    Following, PlanIsOfRows, Planned, Tiered, Listed, Runs
<1>28. CASE RunBackup
  BY <1>28, SkipEffect, Chosen DEF RunBackup, Step, OtherSide, Skipped, IInv, Following,
    PlanIsOfRows, Planned, Tiered, Listed, Runs
<1>29. CASE Collect
  BY <1>29 DEF Collect, Halt, IInv, Following, PlanIsOfRows, Planned, Tiered, Listed, Runs
<1>30. ASSUME NEW r \in Rends, StopEncode(r) PROVE PlanIsOfRows'
  BY <1>30 DEF StopEncode, IInv, Following, PlanIsOfRows, Planned, Tiered, Listed, Runs
<1>31. ASSUME NEW r \in Rends, ReleaseStopped(r) PROVE PlanIsOfRows'
  BY <1>31 DEF ReleaseStopped, CloseRendition, IInv, Following, PlanIsOfRows, Planned, Tiered,
    Listed, Runs
<1>32. CASE LoopsDone
  BY <1>32 DEF LoopsDone, Halt, IInv, Following, PlanIsOfRows, Planned, Tiered, Listed, Runs
<1> QED
  BY <1>1, <1>2, <1>3, <1>4, <1>5, <1>6, <1>7, <1>8, <1>9, <1>10, <1>11, <1>12, <1>13, <1>14,
    <1>15, <1>16, <1>17, <1>18, <1>19, <1>20, <1>21, <1>22, <1>23, <1>24, <1>25, <1>26, <1>27,
    <1>28, <1>29, <1>30, <1>31, <1>32 DEF EngineStep

(* A rendition is stopped only for what it is.                            *)
LEMMA StopsDifferKept ==
  ASSUME IInv, EngineStep
  PROVE  StopsDiffer'
<1>1. CASE Enter \/ Leave
  BY <1>1, PassWrites DEF Enter, Leave, Step, OtherSide, IInv, Following, StopsDiffer, HaveSpec,
    stopped, Runs, held
<1>2. CASE ListDestinations \/ ListRenditions
  BY <1>2, WritesOfTheLocals DEF ListDestinations, ListRenditions, Step, OtherSide, IInv,
    Following, StopsDiffer, HaveSpec, stopped, Runs, held
<1>3. CASE Decide
  BY <1>3, DecideEffect DEF Decide, Step, OtherSide, Decided, DecidedWant, IInv, Following,
    StopsDiffer, HaveSpec, stopped, Runs, held
<1>4. CASE SortDestinations
  BY <1>4 DEF SortDestinations, Step, OtherSide, IInv, Following, StopsDiffer, HaveSpec, stopped,
    Runs, held
<1>5. ASSUME NEW d \in Dests, TearStop(d) PROVE StopsDiffer'
  BY <1>5, StopsKeepHands, Names, Chosen DEF TearStop, Tears, SameBut, IInv, Following,
    StopsDiffer, HaveSpec, stopped, Runs, held
<1>6. ASSUME NEW d \in Dests, TearRelease(d) PROVE StopsDiffer'
  BY <1>6 DEF TearRelease, Tears, Done, IInv, Following, StopsDiffer, HaveSpec, stopped, Runs,
    held
<1>7. ASSUME NEW d \in Dests, TearBackup(d) PROVE StopsDiffer'
  BY <1>7, StopsKeepHands, Names, Chosen DEF TearBackup, Tears, SameBut, IInv, Following,
    StopsDiffer, HaveSpec, stopped, Runs, held
<1>8. ASSUME NEW d \in Dests, TearBackupRelease(d) PROVE StopsDiffer'
  BY <1>8 DEF TearBackupRelease, Tears, Done, IInv, Following, StopsDiffer, HaveSpec, stopped,
    Runs, held
<1>9. CASE DestinationsStopped \/ RenditionsStopped \/ RenditionsStarted \/ StopCalled \/
       DestinationsDown \/ EncodesDown
  BY <1>9 DEF DestinationsStopped, RenditionsStopped, RenditionsStarted, StopCalled,
    DestinationsDown, EncodesDown, Step, OtherSide, Halt, IInv, Following, StopsDiffer, HaveSpec,
    stopped, Runs, held
<1>10. CASE TakeRendition
  BY <1>10, TakeEffect DEF TakeRendition, Goto, OtherSide, StopTaken, IInv, Following,
    StopsDiffer, HaveSpec, stopped, Runs, held
<1>11. CASE StopRendition
  BY <1>11 DEF StopRendition, Step, OtherSide, IInv, Following, StopsDiffer, HaveSpec, stopped,
    Runs, held
<1>12. CASE RenditionStopped
  BY <1>12, TakeEffect DEF RenditionStopped, Step, OtherSide, CloseRendition, StopTaken, IInv,
    Following, StopsDiffer, HaveSpec, stopped, Runs, held
<1>13. CASE RendBuilt
  BY <1>13, PassWrites DEF RendBuilt, Built, HubSet, IInv, Following, StopsDiffer, HaveSpec,
    stopped, Runs, held
<1>14. CASE RendNotBuilt
  BY <1>14, TakeEffect DEF RendNotBuilt, FailRend, StartTaken, IInv, Following, StopsDiffer,
    HaveSpec, stopped, Runs, held
<1>15. CASE PublishRendition
  BY <1>15, PassWrites DEF PublishRendition, Goto, OtherSide, Discard, Started, IInv, Following,
    StopsDiffer, HaveSpec, stopped, Runs, held
<1>16. CASE RunRendition
  BY <1>16, PassWrites DEF RunRendition, Step, OtherSide, Started, IInv, Following, StopsDiffer,
    HaveSpec, stopped, Runs, held
<1>17. CASE LookDestination
  BY <1>17, PassWrites, SkipEffect DEF LookDestination, Goto, OtherSide, FailDest, HubSet,
    Skipped, IInv, Following, StopsDiffer, HaveSpec, stopped, Runs, held
<1>18. CASE DestBuilt
  BY <1>18 DEF DestBuilt, Built, IInv, Following, StopsDiffer, HaveSpec, stopped, Runs, held
<1>19. CASE DestNotBuilt
  BY <1>19, SkipEffect DEF DestNotBuilt, FailDest, Skipped, IInv, Following, StopsDiffer,
    HaveSpec, stopped, Runs, held
<1>20. CASE PublishDestination
  BY <1>20 DEF PublishDestination, Goto, OtherSide, Discard, IInv, Following, StopsDiffer,
    HaveSpec, stopped, Runs, held
<1>21. CASE RunDestination
  BY <1>21 DEF RunDestination, Step, OtherSide, IInv, Following, StopsDiffer, HaveSpec, stopped,
    Runs, held
<1>22. CASE LookBackup
  BY <1>22, PassWrites, SkipEffect DEF LookBackup, Goto, OtherSide, OldSet, Skipped, IInv,
    Following, StopsDiffer, HaveSpec, stopped, Runs, held
<1>23. CASE StopBackup
  BY <1>23 DEF StopBackup, Step, OtherSide, IInv, Following, StopsDiffer, HaveSpec, stopped, Runs,
    held
<1>24. CASE DropBackup
  BY <1>24 DEF DropBackup, Step, OtherSide, IInv, Following, StopsDiffer, HaveSpec, stopped, Runs,
    held
<1>25. CASE BackupBuilt
  BY <1>25 DEF BackupBuilt, Built, IInv, Following, StopsDiffer, HaveSpec, stopped, Runs, held
<1>26. CASE BackupNotBuilt
  BY <1>26 DEF BackupNotBuilt, IInv, Following, StopsDiffer, HaveSpec, stopped, Runs, held
<1>27. CASE PublishBackup
  BY <1>27, SkipEffect DEF PublishBackup, Goto, OtherSide, Discard, Skipped, IInv, Following,
    StopsDiffer, HaveSpec, stopped, Runs, held
<1>28. CASE RunBackup
  BY <1>28, SkipEffect DEF RunBackup, Step, OtherSide, Skipped, IInv, Following, StopsDiffer,
    HaveSpec, stopped, Runs, held
<1>29. CASE Collect
  BY <1>29 DEF Collect, Halt, IInv, Following, StopsDiffer, HaveSpec, stopped, Runs, held
<1>30. ASSUME NEW r \in Rends, StopEncode(r) PROVE StopsDiffer'
  BY <1>30 DEF StopEncode, IInv, Following, StopsDiffer, HaveSpec, stopped, Runs, held
<1>31. ASSUME NEW r \in Rends, ReleaseStopped(r) PROVE StopsDiffer'
  BY <1>31 DEF ReleaseStopped, CloseRendition, IInv, Following, StopsDiffer, HaveSpec, stopped,
    Runs, held
<1>32. CASE LoopsDone
  BY <1>32 DEF LoopsDone, Halt, IInv, Following, StopsDiffer, HaveSpec, stopped, Runs, held
<1> QED
  BY <1>1, <1>2, <1>3, <1>4, <1>5, <1>6, <1>7, <1>8, <1>9, <1>10, <1>11, <1>12, <1>13, <1>14,
    <1>15, <1>16, <1>17, <1>18, <1>19, <1>20, <1>21, <1>22, <1>23, <1>24, <1>25, <1>26, <1>27,
    <1>28, <1>29, <1>30, <1>31, <1>32 DEF EngineStep

(* A rendition that stays has the settings that are wanted.                *)
LEMMA TiersFollowKept ==
  ASSUME IInv, EngineStep
  PROVE  TiersFollow'
<1> SUFFICES ASSUME ~stopped, Running, ~stopped' PROVE TiersFollow'
  BY RunningSteps DEF TiersFollow
<1>1. CASE Enter \/ Leave
  BY <1>1, PassWrites DEF Enter, Leave, Step, OtherSide, IInv, Following, TiersFollow, held,
    relay, Planned, Tiered, Listed, Runs
<1>2. CASE ListDestinations \/ ListRenditions \/ DestinationsStopped \/ RenditionsStopped \/
       RenditionsStarted \/ StopCalled
  BY <1>2 DEF ListDestinations, ListRenditions, DestinationsStopped, RenditionsStopped,
    RenditionsStarted, StopCalled, Step, OtherSide, Halt, IInv, Following, TiersFollow, held,
    relay, Planned, Tiered, Listed, Runs
<1>3. CASE Decide
  BY <1>3, DecideEffect DEF Decide, Step, OtherSide, Decided, DecidedWant, HaveSpec, IInv,
    Following, TiersFollow, held, relay, Planned, Tiered, Listed, Runs
<1>4. CASE SortDestinations
  BY <1>4 DEF SortDestinations, Step, OtherSide, IInv, Following, TiersFollow, held, relay,
    Planned, Tiered, Listed, Runs
<1>5. ASSUME NEW d \in Dests, TearStop(d) PROVE TiersFollow'
  BY <1>5, StopsKeepHands, Names DEF TearStop, Tears, SameBut, IInv, Following, TiersFollow, held,
    relay, Planned, Tiered, Listed, Runs
<1>6. ASSUME NEW d \in Dests, TearRelease(d) PROVE TiersFollow'
  BY <1>6 DEF TearRelease, Tears, Done, IInv, Following, TiersFollow, held, relay, Planned,
    Tiered, Listed, Runs
<1>7. ASSUME NEW d \in Dests, TearBackup(d) PROVE TiersFollow'
  BY <1>7, StopsKeepHands, Names DEF TearBackup, Tears, SameBut, IInv, Following, TiersFollow,
    held, relay, Planned, Tiered, Listed, Runs
<1>8. ASSUME NEW d \in Dests, TearBackupRelease(d) PROVE TiersFollow'
  BY <1>8 DEF TearBackupRelease, Tears, Done, IInv, Following, TiersFollow, held, relay, Planned,
    Tiered, Listed, Runs
<1>9. CASE TakeRendition
  BY <1>9, TakeEffect, Chosen DEF TakeRendition, Goto, OtherSide, StopTaken, TypeOK, HeldTypes,
    Passing, Starting, Halting, IInv, Following, TiersFollow, held, relay, Planned, Tiered,
    Listed, Runs
<1>10. CASE StopRendition
  BY <1>10, StopsKeepHands, Names, Chosen DEF StopRendition, Step, OtherSide, SameBut, Passing,
    OneDest, IInv, Following, TiersFollow, held, relay, Planned, Tiered, Listed, Runs
<1>11. CASE RenditionStopped
  BY <1>11, TakeEffect, Chosen DEF RenditionStopped, Step, OtherSide, CloseRendition, StopTaken,
    TypeOK, HeldTypes, Passing, Starting, Halting, IInv, Following, TiersFollow, held, relay,
    Planned, Tiered, Listed, Runs
<1>12. CASE RendBuilt
  BY <1>12, PassWrites DEF RendBuilt, Built, HubSet, IInv, Following, TiersFollow, held, relay,
    Planned, Tiered, Listed, Runs
<1>13. CASE RendNotBuilt
  BY <1>13, TakeEffect, Chosen DEF RendNotBuilt, FailRend, StartTaken, TypeOK, HeldTypes, Passing,
    Starting, Halting, IInv, Following, TiersFollow, held, relay, Planned, Tiered, Listed, Runs
<1>14. CASE PublishRendition
  BY <1>14, PassWrites, Chosen, Names DEF PublishRendition, Goto, OtherSide, Discard, Started,
    TypeOK, HeldTypes, Passing, Starting, Halting, Processes, FreshShape, MakesThePlan, IInv,
    Following, TiersFollow, held, relay, Planned, Tiered, Listed, Runs
<1>15. CASE RunRendition
  BY <1>15, PassWrites, StartsKeepLive, Names DEF RunRendition, Step, OtherSide, Started, SameBut,
    IInv, Following, TiersFollow, held, relay, Planned, Tiered, Listed, Runs
<1>16. CASE LookDestination
  BY <1>16, PassWrites, SkipEffect DEF LookDestination, Goto, OtherSide, FailDest, HubSet,
    Skipped, IInv, Following, TiersFollow, held, relay, Planned, Tiered, Listed, Runs
<1>17. CASE DestBuilt
  BY <1>17 DEF DestBuilt, Built, IInv, Following, TiersFollow, held, relay, Planned, Tiered,
    Listed, Runs
<1>18. CASE DestNotBuilt
  BY <1>18, SkipEffect DEF DestNotBuilt, FailDest, Skipped, IInv, Following, TiersFollow, held,
    relay, Planned, Tiered, Listed, Runs
<1>19. CASE PublishDestination
  BY <1>19, Names, Chosen DEF PublishDestination, Goto, OtherSide, Discard, TypeOK, HeldTypes,
    Passing, OneDest, Dropping, IInv, Following, TiersFollow, held, relay, Planned, Tiered,
    Listed, Runs
<1>20. CASE RunDestination
  BY <1>20, StartsKeepLive, Names DEF RunDestination, Step, OtherSide, SameBut, IInv, Following,
    TiersFollow, held, relay, Planned, Tiered, Listed, Runs
<1>21. CASE LookBackup
  BY <1>21, PassWrites, SkipEffect DEF LookBackup, Goto, OtherSide, OldSet, Skipped, IInv,
    Following, TiersFollow, held, relay, Planned, Tiered, Listed, Runs
<1>22. CASE StopBackup
  BY <1>22, StopsKeepHands, Names, Chosen DEF StopBackup, Step, OtherSide, SameBut, Passing,
    OneDest, IInv, Following, TiersFollow, held, relay, Planned, Tiered, Listed, Runs
<1>23. CASE DropBackup
  BY <1>23 DEF DropBackup, Step, OtherSide, IInv, Following, TiersFollow, held, relay, Planned,
    Tiered, Listed, Runs
<1>24. CASE BackupBuilt
  BY <1>24 DEF BackupBuilt, Built, IInv, Following, TiersFollow, held, relay, Planned, Tiered,
    Listed, Runs
<1>25. CASE BackupNotBuilt
  BY <1>25 DEF BackupNotBuilt, IInv, Following, TiersFollow, held, relay, Planned, Tiered, Listed,
    Runs
<1>26. CASE PublishBackup
  BY <1>26, SkipEffect, Names, Chosen DEF PublishBackup, Goto, OtherSide, Discard, Skipped,
    TypeOK, HeldTypes, Passing, OneDest, Dropping, IInv, Following, TiersFollow, held, relay,
    Planned, Tiered, Listed, Runs
<1>27. CASE RunBackup
  BY <1>27, SkipEffect, StartsKeepLive, Names DEF RunBackup, Step, OtherSide, Skipped, SameBut,
    IInv, Following, TiersFollow, held, relay, Planned, Tiered, Listed, Runs
<1> QED
  BY <1>1, <1>2, <1>3, <1>4, <1>5, <1>6, <1>7, <1>8, <1>9, <1>10, <1>11, <1>12, <1>13, <1>14,
    <1>15, <1>16, <1>17, <1>18, <1>19, <1>20, <1>21, <1>22, <1>23, <1>24, <1>25, <1>26, <1>27
    DEF Running

(* What is being built is what the pass has planned.                       *)
LEMMA MakesThePlanKept ==
  ASSUME IInv, EngineStep
  PROVE  MakesThePlan'
<1>1. CASE Enter \/ Leave
  BY <1>1, PassWrites DEF Enter, Leave, Step, OtherSide, IInv, Following, MakesThePlan, held,
    relay, Runs, HubFor, stopped
<1>2. CASE ListDestinations \/ ListRenditions \/ DestinationsStopped \/ RenditionsStopped \/
       RenditionsStarted
  BY <1>2 DEF ListDestinations, ListRenditions, DestinationsStopped, RenditionsStopped,
    RenditionsStarted, Step, OtherSide, IInv, Following, MakesThePlan, held, relay, Runs, HubFor,
    stopped
<1>3. CASE Decide
  BY <1>3, DecideEffect DEF Decide, Step, OtherSide, Decided, IInv, Following, MakesThePlan, held,
    relay, Runs, HubFor, stopped
<1>4. CASE SortDestinations
  BY <1>4 DEF SortDestinations, Step, OtherSide, IInv, Following, MakesThePlan, held, relay, Runs,
    HubFor, stopped
<1>5. ASSUME NEW d \in Dests, TearStop(d) PROVE MakesThePlan'
  BY <1>5, SamePlace DEF TearStop, Tears, IInv, Following, MakesThePlan, held, relay, Runs,
    HubFor, stopped
<1>6. ASSUME NEW d \in Dests, TearRelease(d) PROVE MakesThePlan'
  BY <1>6, SamePlace DEF TearRelease, Tears, Done, IInv, Following, MakesThePlan, held, relay,
    Runs, HubFor, stopped
<1>7. ASSUME NEW d \in Dests, TearBackup(d) PROVE MakesThePlan'
  BY <1>7, SamePlace DEF TearBackup, Tears, IInv, Following, MakesThePlan, held, relay, Runs,
    HubFor, stopped
<1>8. ASSUME NEW d \in Dests, TearBackupRelease(d) PROVE MakesThePlan'
  BY <1>8, SamePlace DEF TearBackupRelease, Tears, Done, IInv, Following, MakesThePlan, held,
    relay, Runs, HubFor, stopped
<1>9. CASE TakeRendition
  BY <1>9, TakeEffect DEF TakeRendition, Goto, OtherSide, StopTaken, IInv, Following,
    MakesThePlan, held, relay, Runs, HubFor, stopped
<1>10. CASE StopRendition
  BY <1>10 DEF StopRendition, Step, OtherSide, IInv, Following, MakesThePlan, held, relay, Runs,
    HubFor, stopped
<1>11. CASE RenditionStopped
  BY <1>11, TakeEffect DEF RenditionStopped, Step, OtherSide, CloseRendition, StopTaken, IInv,
    Following, MakesThePlan, held, relay, Runs, HubFor, stopped
<1>12. CASE RendBuilt
  BY <1>12, PassWrites DEF RendBuilt, Built, HubSet, Builds, IInv, Following, MakesThePlan, held,
    relay, Runs, HubFor, stopped
<1>13. CASE RendNotBuilt
  BY <1>13, TakeEffect DEF RendNotBuilt, FailRend, StartTaken, IInv, Following, MakesThePlan,
    held, relay, Runs, HubFor, stopped
<1>14. CASE PublishRendition
  BY <1>14, PassWrites DEF PublishRendition, Goto, OtherSide, Discard, Started, IInv, Following,
    MakesThePlan, held, relay, Runs, HubFor, stopped
<1>15. CASE RunRendition
  BY <1>15, PassWrites DEF RunRendition, Step, OtherSide, Started, IInv, Following, MakesThePlan,
    held, relay, Runs, HubFor, stopped
<1>16. CASE LookDestination
  BY <1>16, PassWrites, SkipEffect, Chosen DEF LookDestination, Goto, OtherSide, FailDest, HubSet,
    Skipped, TypeOK, HeldTypes, Starting, HubFor, Next1, IInv, Following, MakesThePlan, held,
    relay, Runs, stopped
<1>17. CASE DestBuilt
  BY <1>17 DEF DestBuilt, Built, Builds, Next1, IInv, Following, MakesThePlan, held, relay, Runs,
    HubFor, stopped
<1>18. CASE DestNotBuilt
  BY <1>18, SkipEffect DEF DestNotBuilt, FailDest, Skipped, IInv, Following, MakesThePlan, held,
    relay, Runs, HubFor, stopped
<1>19. CASE PublishDestination
  BY <1>19 DEF PublishDestination, Goto, OtherSide, Discard, IInv, Following, MakesThePlan, held,
    relay, Runs, HubFor, stopped
<1>20. CASE RunDestination
  BY <1>20 DEF RunDestination, Step, OtherSide, IInv, Following, MakesThePlan, held, relay, Runs,
    HubFor, stopped
<1>21. CASE LookBackup
  BY <1>21, PassWrites, SkipEffect DEF LookBackup, Goto, OtherSide, OldSet, Skipped, IInv,
    Following, MakesThePlan, held, relay, Runs, HubFor, stopped
<1>22. CASE StopBackup
  BY <1>22 DEF StopBackup, Step, OtherSide, IInv, Following, MakesThePlan, held, relay, Runs,
    HubFor, stopped
<1>23. CASE DropBackup
  BY <1>23 DEF DropBackup, Step, OtherSide, IInv, Following, MakesThePlan, held, relay, Runs,
    HubFor, stopped
<1>24. CASE BackupBuilt
  BY <1>24 DEF BackupBuilt, Built, IInv, Following, MakesThePlan, held, relay, Runs, HubFor,
    stopped
<1>25. CASE BackupNotBuilt
  BY <1>25 DEF BackupNotBuilt, IInv, Following, MakesThePlan, held, relay, Runs, HubFor, stopped
<1>26. CASE PublishBackup
  BY <1>26, SkipEffect DEF PublishBackup, Goto, OtherSide, Discard, Skipped, IInv, Following,
    MakesThePlan, held, relay, Runs, HubFor, stopped
<1>27. CASE RunBackup
  BY <1>27, SkipEffect DEF RunBackup, Step, OtherSide, Skipped, IInv, Following, MakesThePlan,
    held, relay, Runs, HubFor, stopped
<1>28. CASE StopCalled \/ DestinationsDown \/ EncodesDown
  BY <1>28, SamePlace DEF StopCalled, DestinationsDown, EncodesDown, Halt, IInv, Following,
    MakesThePlan, held, relay, Runs, HubFor, stopped
<1>29. CASE Collect
  BY <1>29, SamePlace DEF Collect, Halt, IInv, Following, MakesThePlan, held, relay, Runs, HubFor,
    stopped
<1>30. ASSUME NEW r \in Rends, StopEncode(r) PROVE MakesThePlan'
  BY <1>30, SamePlace DEF StopEncode, IInv, Following, MakesThePlan, held, relay, Runs, HubFor,
    stopped
<1>31. ASSUME NEW r \in Rends, ReleaseStopped(r) PROVE MakesThePlan'
  BY <1>31, SamePlace DEF ReleaseStopped, CloseRendition, IInv, Following, MakesThePlan, held,
    relay, Runs, HubFor, stopped
<1>32. CASE LoopsDone
  BY <1>32, SamePlace DEF LoopsDone, Halt, IInv, Following, MakesThePlan, held, relay, Runs,
    HubFor, stopped
<1> QED
  BY <1>1, <1>2, <1>3, <1>4, <1>5, <1>6, <1>7, <1>8, <1>9, <1>10, <1>11, <1>12, <1>13, <1>14,
    <1>15, <1>16, <1>17, <1>18, <1>19, <1>20, <1>21, <1>22, <1>23, <1>24, <1>25, <1>26, <1>27,
    <1>28, <1>29, <1>30, <1>31, <1>32 DEF EngineStep

(* So the pass goes on following what it has planned.                      *)
LEMMA FollowingKept ==
  ASSUME IInv, EngineStep
  PROVE  Following'
BY PlanIsOfRowsKept, StopsDifferKept, TiersFollowKept, MakesThePlanKept DEF Following

-----------------------------------------------------------------------------

(* What stays follows the plan, and what was looked at is up or failed.     *)
LEMMA MainsFollowKept ==
  ASSUME IInv, EngineStep
  PROVE  MainsFollow'
<1> SUFFICES ASSUME ~stopped, Running, ~stopped' PROVE MainsFollow'
  BY RunningSteps DEF MainsFollow
<1>1. CASE Enter \/ Leave
  BY <1>1, PassWrites DEF Enter, Leave, Step, OtherSide, IInv, CarriedOut, MainsFollow, Follows,
    Sorted, held, relay, Planned, Tiered, Listed, Runs
<1>2. CASE ListDestinations \/ ListRenditions \/ DestinationsStopped \/ RenditionsStopped \/
       RenditionsStarted
  BY <1>2 DEF ListDestinations, ListRenditions, DestinationsStopped, RenditionsStopped,
    RenditionsStarted, Step, OtherSide, IInv, CarriedOut, MainsFollow, Follows, Sorted, held,
    relay, Planned, Tiered, Listed, Runs
<1>3. CASE Decide
  BY SMTT(30), <1>3, DecideEffect DEF Decide, Step, OtherSide, Decided, DecidedPlan, PlanOf, IInv,
    CarriedOut, MainsFollow, Follows, Sorted, held, relay, Planned, Tiered, Listed, Runs
<1>4. CASE SortDestinations
  BY <1>4 DEF SortDestinations, Step, OtherSide, TypeOK, HeldTypes, Keep, IInv, CarriedOut,
    MainsFollow, Follows, Sorted, held, relay, Planned, Tiered, Listed, Runs
<1>5. ASSUME NEW d \in Dests, TearStop(d) PROVE MainsFollow'
  BY <1>5, StopsKeepHands, Names, SamePlace DEF TearStop, Tears, SameBut, TypeOK, HeldTypes,
    Halting, IInv, CarriedOut, MainsFollow, Follows, Sorted, held, relay, Planned, Tiered, Listed,
    Runs
<1>6. ASSUME NEW d \in Dests, TearRelease(d) PROVE MainsFollow'
  BY <1>6, SamePlace DEF TearRelease, Tears, Done, TypeOK, HeldTypes, Halting, IInv, CarriedOut,
    MainsFollow, Follows, Sorted, held, relay, Planned, Tiered, Listed, Runs
<1>7. ASSUME NEW d \in Dests, TearBackup(d) PROVE MainsFollow'
  BY <1>7, StopsKeepHands, Names, SamePlace DEF TearBackup, Tears, SameBut, TypeOK, HeldTypes,
    Halting, IInv, CarriedOut, MainsFollow, Follows, Sorted, held, relay, Planned, Tiered, Listed,
    Runs
<1>8. ASSUME NEW d \in Dests, TearBackupRelease(d) PROVE MainsFollow'
  BY <1>8, SamePlace DEF TearBackupRelease, Tears, Done, TypeOK, HeldTypes, Halting, IInv,
    CarriedOut, MainsFollow, Follows, Sorted, held, relay, Planned, Tiered, Listed, Runs
<1>9. CASE TakeRendition
  BY <1>9, TakeEffect, Chosen DEF TakeRendition, Goto, OtherSide, StopTaken, Passing, OneDest,
    IInv, CarriedOut, MainsFollow, Follows, Sorted, held, relay, Planned, Tiered, Listed, Runs
<1>10. CASE StopRendition
  BY <1>10, StopsKeepHands, Names, Chosen DEF StopRendition, Step, OtherSide, SameBut, Passing,
    OneDest, IInv, CarriedOut, MainsFollow, Follows, Sorted, held, relay, Planned, Tiered, Listed,
    Runs
<1>11. CASE RenditionStopped
  BY <1>11, TakeEffect, Chosen DEF RenditionStopped, Step, OtherSide, CloseRendition, StopTaken,
    Passing, OneDest, IInv, CarriedOut, MainsFollow, Follows, Sorted, held, relay, Planned,
    Tiered, Listed, Runs
<1>12. CASE RendBuilt
  BY <1>12, PassWrites, Chosen DEF RendBuilt, Built, HubSet, Passing, OneDest, IInv, CarriedOut,
    MainsFollow, Follows, Sorted, held, relay, Planned, Tiered, Listed, Runs
<1>13. CASE RendNotBuilt
  BY <1>13, TakeEffect, Chosen DEF RendNotBuilt, FailRend, StartTaken, Passing, OneDest, IInv,
    CarriedOut, MainsFollow, Follows, Sorted, held, relay, Planned, Tiered, Listed, Runs
<1>14. CASE PublishRendition
  BY <1>14, PassWrites, Chosen, Names DEF PublishRendition, Goto, OtherSide, Discard, Started,
    Passing, OneDest, TypeOK, HeldTypes, Dropping, IInv, CarriedOut, MainsFollow, Follows, Sorted,
    held, relay, Planned, Tiered, Listed, Runs
<1>15. CASE RunRendition
  BY <1>15, PassWrites, StartsKeepLive, Names, Chosen DEF RunRendition, Step, OtherSide, Started,
    SameBut, Passing, OneDest, IInv, CarriedOut, MainsFollow, Follows, Sorted, held, relay,
    Planned, Tiered, Listed, Runs
<1>16. CASE LookDestination
  BY <1>16, PassWrites, SkipEffect, Chosen DEF LookDestination, Goto, OtherSide, FailDest, HubSet,
    Skipped, Passing, OneDest, TypeOK, HeldTypes, Halting, Following, PlanIsOfRows, Next1, IInv,
    CarriedOut, MainsFollow, Follows, Sorted, held, relay, Planned, Tiered, Listed, Runs
<1>17. CASE DestBuilt
  BY <1>17, Chosen DEF DestBuilt, Built, Passing, OneDest, IInv, CarriedOut, MainsFollow, Follows,
    Sorted, held, relay, Planned, Tiered, Listed, Runs
<1>18. CASE DestNotBuilt
  BY <1>18, SkipEffect, Chosen DEF DestNotBuilt, FailDest, Skipped, Passing, OneDest, TypeOK,
    HeldTypes, Halting, Following, PlanIsOfRows, IInv, CarriedOut, MainsFollow, Follows, Sorted,
    held, relay, Planned, Tiered, Listed, Runs
<1>19. CASE PublishDestination
  <2>1. /\ TypeOK /\ HeldTypes /\ RunTypes /\ Passing /\ MainsFollow /\ PlanIsOfRows /\ MakesThePlan
        /\ pc = "publishDest" /\ pc' = "runDest" /\ UNCHANGED run /\ Sorted
        /\ place' = [place EXCEPT ![Next1] = "map"]
        /\ con' = [con EXCEPT ![Main(Next1)] = fresh, ![Backup(Next1)] = None]
    BY <1>19 DEF PublishDestination, Goto, IInv, TypeOK, CarriedOut, Following, Sorted, Planned,
      Tiered, Listed
  <2>2. PICK d \in Dests : d = Next1 /\ d \in run.left
    BY <2>1, Chosen DEF Passing, OneDest
  <2>3. fresh.spec = run.plan[d] /\ run.plan[d] \notin {Absent, Broken}
    BY <2>1, <2>2 DEF MakesThePlan, PlanIsOfRows, Sorted
  <2>4. /\ place'[d] = "map" /\ con'[Main(d)] = fresh
        /\ \A e \in Dests : e # d => place'[e] = place[e] /\ con'[Main(e)] = con[Main(e)]
    BY <2>1, <2>2, Names DEF HeldTypes
  <2>5. \A e \in Dests : Follows(e)'
    BY <2>1, <2>2, <2>3, <2>4 DEF MainsFollow, Follows
  <2> QED
    BY <2>1, <2>5 DEF MainsFollow
<1>20. CASE RunDestination
  BY <1>20, StartsKeepLive, Names, Chosen DEF RunDestination, Step, OtherSide, SameBut, Passing,
    OneDest, Next1, Starting, IInv, CarriedOut, MainsFollow, Follows, Sorted, held, relay,
    Planned, Tiered, Listed, Runs
<1>21. CASE LookBackup
  BY <1>21, PassWrites, SkipEffect, Chosen DEF LookBackup, Goto, OtherSide, OldSet, Skipped,
    Passing, OneDest, Starting, Next1, IInv, CarriedOut, MainsFollow, Follows, Sorted, held,
    relay, Planned, Tiered, Listed, Runs
<1>22. CASE StopBackup
  BY <1>22, StopsKeepHands, Names, Chosen DEF StopBackup, Step, OtherSide, SameBut, Passing,
    OneDest, IInv, CarriedOut, MainsFollow, Follows, Sorted, held, relay, Planned, Tiered, Listed,
    Runs
<1>23. CASE DropBackup
  BY <1>23, Chosen DEF DropBackup, Step, OtherSide, Passing, OneDest, IInv, CarriedOut,
    MainsFollow, Follows, Sorted, held, relay, Planned, Tiered, Listed, Runs
<1>24. CASE BackupBuilt
  BY <1>24, Chosen DEF BackupBuilt, Built, Passing, OneDest, IInv, CarriedOut, MainsFollow,
    Follows, Sorted, held, relay, Planned, Tiered, Listed, Runs
<1>25. CASE BackupNotBuilt
  BY <1>25, Chosen DEF BackupNotBuilt, Passing, OneDest, IInv, CarriedOut, MainsFollow, Follows,
    Sorted, held, relay, Planned, Tiered, Listed, Runs
<1>26. CASE PublishBackup
  BY <1>26, SkipEffect, Chosen, Names DEF PublishBackup, Goto, OtherSide, Discard, Skipped,
    Passing, OneDest, TypeOK, HeldTypes, Dropping, Starting, Next1, IInv, CarriedOut, MainsFollow,
    Follows, Sorted, held, relay, Planned, Tiered, Listed, Runs
<1>27. CASE RunBackup
  BY <1>27, SkipEffect, StartsKeepLive, Names, Chosen DEF RunBackup, Step, OtherSide, Skipped,
    SameBut, Passing, OneDest, Starting, Next1, IInv, CarriedOut, MainsFollow, Follows, Sorted,
    held, relay, Planned, Tiered, Listed, Runs
<1>28. CASE StopCalled
  BY <1>28, SamePlace DEF StopCalled, Halt, IInv, CarriedOut, MainsFollow, Follows, Sorted, held,
    relay, Planned, Tiered, Listed, Runs
<1> QED
  BY <1>1, <1>2, <1>3, <1>4, <1>5, <1>6, <1>7, <1>8, <1>9, <1>10, <1>11, <1>12, <1>13, <1>14,
    <1>15, <1>16, <1>17, <1>18, <1>19, <1>20, <1>21, <1>22, <1>23, <1>24, <1>25, <1>26, <1>27,
    <1>28 DEF Running

(* What a row says of its backup.                                          *)
LEMMA BackupOfRow ==
  ASSUME RunTypes, Listed, pc \in OneDest, Passing
  PROVE  run.rows[Next1].bk \in 0 .. 2
<1>1. Next1 \in Dests
  BY Chosen DEF Passing
<1> QED
  BY <1>1, RowFields DEF RunTypes

(* A backup that is live was asked for.                                    *)
LEMMA BackupsAreSomeKept ==
  ASSUME IInv, EngineStep
  PROVE  BackupsAreSome'
<1>1. CASE Enter \/ ListDestinations \/ ListRenditions \/ Decide \/ DestinationsStopped \/
       RenditionsStopped \/ RenditionsStarted \/ Leave
  BY <1>1 DEF Enter, ListDestinations, ListRenditions, Decide, DestinationsStopped,
    RenditionsStopped, RenditionsStarted, Leave, Step, OtherSide, IInv, CarriedOut,
    BackupsAreSome, Live, held, relay, Runs, Listed
<1>2. CASE SortDestinations
  BY <1>2 DEF SortDestinations, Step, OtherSide, TypeOK, HeldTypes, IInv, CarriedOut,
    BackupsAreSome, Live, held, relay, Runs, Listed
<1>3. ASSUME NEW d \in Dests, TearStop(d) PROVE BackupsAreSome'
  BY <1>3, StopsKeepHands, Names, SamePlace DEF TearStop, Tears, SameBut, TypeOK, HeldTypes, IInv,
    CarriedOut, BackupsAreSome, Live, held, relay, Runs, Listed
<1>4. ASSUME NEW d \in Dests, TearRelease(d) PROVE BackupsAreSome'
  BY <1>4, SamePlace DEF TearRelease, Tears, Done, TypeOK, HeldTypes, IInv, CarriedOut,
    BackupsAreSome, Live, held, relay, Runs, Listed
<1>5. ASSUME NEW d \in Dests, TearBackup(d) PROVE BackupsAreSome'
  BY <1>5, StopsKeepHands, Names, SamePlace DEF TearBackup, Tears, SameBut, TypeOK, HeldTypes,
    IInv, CarriedOut, BackupsAreSome, Live, held, relay, Runs, Listed
<1>6. ASSUME NEW d \in Dests, TearBackupRelease(d) PROVE BackupsAreSome'
  BY <1>6, SamePlace DEF TearBackupRelease, Tears, Done, TypeOK, HeldTypes, IInv, CarriedOut,
    BackupsAreSome, Live, held, relay, Runs, Listed
<1>7. CASE TakeRendition
  BY <1>7, TakeEffect, Chosen DEF TakeRendition, Goto, OtherSide, StopTaken, Passing, OneDest,
    IInv, CarriedOut, BackupsAreSome, Live, held, relay, Runs, Listed
<1>8. CASE StopRendition
  BY <1>8, StopsKeepHands, Names, Chosen DEF StopRendition, Step, OtherSide, SameBut, Passing,
    OneDest, IInv, CarriedOut, BackupsAreSome, Live, held, relay, Runs, Listed
<1>9. CASE RenditionStopped
  BY <1>9, TakeEffect, Chosen DEF RenditionStopped, Step, OtherSide, CloseRendition, StopTaken,
    Passing, OneDest, IInv, CarriedOut, BackupsAreSome, Live, held, relay, Runs, Listed
<1>10. CASE RendBuilt
  BY <1>10, Chosen DEF RendBuilt, Built, HubSet, Passing, OneDest, Builds, IInv, CarriedOut,
    BackupsAreSome, Live, held, relay, Runs, Listed
<1>11. CASE RendNotBuilt
  BY <1>11, TakeEffect, Chosen DEF RendNotBuilt, FailRend, StartTaken, Passing, OneDest, IInv,
    CarriedOut, BackupsAreSome, Live, held, relay, Runs, Listed
<1>12. CASE PublishRendition
  BY <1>12, Chosen, Names DEF PublishRendition, Goto, OtherSide, Discard, Started, Passing,
    OneDest, TypeOK, HeldTypes, Dropping, IInv, CarriedOut, BackupsAreSome, Live, held, relay,
    Runs, Listed
<1>13. CASE RunRendition
  BY <1>13, StartsKeepLive, Names, Chosen DEF RunRendition, Step, OtherSide, Started, SameBut,
    Passing, OneDest, IInv, CarriedOut, BackupsAreSome, Live, held, relay, Runs, Listed
<1>14. CASE LookDestination
  BY <1>14, SkipEffect, Chosen DEF LookDestination, Goto, OtherSide, FailDest, HubSet, Skipped,
    Passing, OneDest, TypeOK, HeldTypes, IInv, CarriedOut, BackupsAreSome, Live, held, relay,
    Runs, Listed
<1>15. CASE DestBuilt
  BY <1>15, Chosen DEF DestBuilt, Built, Passing, OneDest, Builds, IInv, CarriedOut,
    BackupsAreSome, Live, held, relay, Runs, Listed
<1>16. CASE DestNotBuilt
  BY <1>16, SkipEffect, Chosen DEF DestNotBuilt, FailDest, Skipped, Passing, OneDest, TypeOK,
    HeldTypes, IInv, CarriedOut, BackupsAreSome, Live, held, relay, Runs, Listed
<1>17. CASE PublishDestination
  BY <1>17, Chosen, Names, NoneIsTyped, SpecsAre, BackupOfRow DEF PublishDestination, Goto,
    OtherSide, Discard, Passing, OneDest, TypeOK, HeldTypes, Dropping, IInv, CarriedOut,
    BackupsAreSome, Live, held, relay, Runs, Listed
<1>18. CASE RunDestination
  BY <1>18, StartsKeepLive, Names, Chosen DEF RunDestination, Step, OtherSide, SameBut, Passing,
    OneDest, IInv, CarriedOut, BackupsAreSome, Live, held, relay, Runs, Listed
<1>19. CASE LookBackup
  BY <1>19, SkipEffect, Chosen DEF LookBackup, Goto, OtherSide, OldSet, Skipped, Passing, OneDest,
    IInv, CarriedOut, BackupsAreSome, Live, held, relay, Runs, Listed
<1>20. CASE StopBackup
  BY <1>20, StopsKeepHands, Names, Chosen DEF StopBackup, Step, OtherSide, SameBut, Passing,
    OneDest, IInv, CarriedOut, BackupsAreSome, Live, held, relay, Runs, Listed
<1>21. CASE DropBackup
  BY <1>21, Chosen DEF DropBackup, Step, OtherSide, Passing, OneDest, IInv, CarriedOut,
    BackupsAreSome, Live, held, relay, Runs, Listed
<1>22. CASE BackupBuilt
  BY <1>22, Chosen, BackupOfRow, SpecsAre DEF BackupBuilt, Built, Passing, OneDest, Builds,
    BackupSpec, Next1, IInv, CarriedOut, BackupsAreSome, Live, held, relay, Runs, Listed
<1>23. CASE BackupNotBuilt
  BY <1>23, Chosen DEF BackupNotBuilt, Passing, OneDest, IInv, CarriedOut, BackupsAreSome, Live,
    held, relay, Runs, Listed
<1>24. CASE PublishBackup
  BY SMTT(30), <1>24, SkipEffect, Chosen, Names, NoneIsTyped, SpecsAre, BackupOfRow
     DEF PublishBackup, Goto,
    OtherSide, Discard, Skipped, Passing, OneDest, TypeOK, HeldTypes, Dropping, IInv, CarriedOut,
    BackupsAreSome, Live, held, relay, Runs, Listed
<1>25. CASE RunBackup
  BY <1>25, SkipEffect, StartsKeepLive, Names, Chosen DEF RunBackup, Step, OtherSide, Skipped,
    SameBut, Passing, OneDest, IInv, CarriedOut, BackupsAreSome, Live, held, relay, Runs, Listed
<1>26. CASE StopCalled \/ DestinationsDown \/ EncodesDown
  BY <1>26, SamePlace DEF StopCalled, DestinationsDown, EncodesDown, Halt, IInv, CarriedOut,
    BackupsAreSome, Live, held, relay, Runs, Listed
<1>27. CASE Collect
  BY <1>27, SamePlace DEF Collect, Halt, IInv, CarriedOut, BackupsAreSome, Live, held, relay,
    Runs, Listed
<1>28. ASSUME NEW r \in Rends, StopEncode(r) PROVE BackupsAreSome'
  BY <1>28, StopsKeepHands, Names, SamePlace DEF StopEncode, SameBut, IInv, CarriedOut,
    BackupsAreSome, Live, held, relay, Runs, Listed
<1>29. ASSUME NEW r \in Rends, ReleaseStopped(r) PROVE BackupsAreSome'
  BY <1>29, SamePlace DEF ReleaseStopped, CloseRendition, IInv, CarriedOut, BackupsAreSome, Live,
    held, relay, Runs, Listed
<1>30. CASE LoopsDone
  BY <1>30, SamePlace DEF LoopsDone, Halt, IInv, CarriedOut, BackupsAreSome, Live, held, relay,
    Runs, Listed
<1> QED
  BY <1>1, <1>2, <1>3, <1>4, <1>5, <1>6, <1>7, <1>8, <1>9, <1>10, <1>11, <1>12, <1>13, <1>14,
    <1>15, <1>16, <1>17, <1>18, <1>19, <1>20, <1>21, <1>22, <1>23, <1>24, <1>25, <1>26, <1>27,
    <1>28, <1>29, <1>30 DEF EngineStep

(* So do the backups.                                                      *)
LEMMA BackupsFollowKept ==
  ASSUME IInv, EngineStep
  PROVE  BackupsFollow'
<1> SUFFICES ASSUME ~stopped, Running, ~stopped' PROVE BackupsFollow'
  BY RunningSteps DEF BackupsFollow
<1>1. CASE Enter \/ Leave
  BY <1>1, PassWrites DEF Enter, Leave, Step, OtherSide, IInv, CarriedOut, BackupsFollow, Live,
    Sorted, held, relay, Planned, Tiered, Listed, Runs
<1>2. CASE ListDestinations \/ ListRenditions \/ DestinationsStopped \/ RenditionsStopped \/
       RenditionsStarted
  BY <1>2 DEF ListDestinations, ListRenditions, DestinationsStopped, RenditionsStopped,
    RenditionsStarted, Step, OtherSide, IInv, CarriedOut, BackupsFollow, Live, Sorted, held,
    relay, Planned, Tiered, Listed, Runs
<1>3. CASE Decide
  BY <1>3, DecideEffect DEF Decide, Step, OtherSide, Decided, IInv, CarriedOut, BackupsFollow,
    Live, Sorted, held, relay, Planned, Tiered, Listed, Runs
<1>4. CASE SortDestinations
  BY <1>4 DEF SortDestinations, Step, OtherSide, TypeOK, HeldTypes, MainsFollow, Keep, IInv,
    CarriedOut, BackupsFollow, Live, Sorted, held, relay, Planned, Tiered, Listed, Runs
<1>5. ASSUME NEW d \in Dests, TearStop(d) PROVE BackupsFollow'
  BY <1>5, StopsKeepHands, Names DEF TearStop, Tears, SameBut, TypeOK, HeldTypes, Halting, IInv,
    CarriedOut, BackupsFollow, Live, Sorted, held, relay, Planned, Tiered, Listed, Runs
<1>6. ASSUME NEW d \in Dests, TearRelease(d) PROVE BackupsFollow'
  BY <1>6 DEF TearRelease, Tears, Done, TypeOK, HeldTypes, Halting, IInv, CarriedOut,
    BackupsFollow, Live, Sorted, held, relay, Planned, Tiered, Listed, Runs
<1>7. ASSUME NEW d \in Dests, TearBackup(d) PROVE BackupsFollow'
  BY <1>7, StopsKeepHands, Names DEF TearBackup, Tears, SameBut, TypeOK, HeldTypes, Halting, IInv,
    CarriedOut, BackupsFollow, Live, Sorted, held, relay, Planned, Tiered, Listed, Runs
<1>8. ASSUME NEW d \in Dests, TearBackupRelease(d) PROVE BackupsFollow'
  BY <1>8 DEF TearBackupRelease, Tears, Done, TypeOK, HeldTypes, Halting, IInv, CarriedOut,
    BackupsFollow, Live, Sorted, held, relay, Planned, Tiered, Listed, Runs
<1>9. CASE TakeRendition
  BY <1>9, TakeEffect, Chosen DEF TakeRendition, Goto, OtherSide, StopTaken, Passing, OneDest,
    IInv, CarriedOut, BackupsFollow, Live, Sorted, held, relay, Planned, Tiered, Listed, Runs
<1>10. CASE StopRendition
  BY <1>10, StopsKeepHands, Names, Chosen DEF StopRendition, Step, OtherSide, SameBut, Passing,
    OneDest, IInv, CarriedOut, BackupsFollow, Live, Sorted, held, relay, Planned, Tiered, Listed,
    Runs
<1>11. CASE RenditionStopped
  BY <1>11, TakeEffect, Chosen DEF RenditionStopped, Step, OtherSide, CloseRendition, StopTaken,
    Passing, OneDest, IInv, CarriedOut, BackupsFollow, Live, Sorted, held, relay, Planned, Tiered,
    Listed, Runs
<1>12. CASE RendBuilt
  BY <1>12, PassWrites, Chosen DEF RendBuilt, Built, HubSet, Passing, OneDest, IInv, CarriedOut,
    BackupsFollow, Live, Sorted, held, relay, Planned, Tiered, Listed, Runs
<1>13. CASE RendNotBuilt
  BY <1>13, TakeEffect, Chosen DEF RendNotBuilt, FailRend, StartTaken, Passing, OneDest, IInv,
    CarriedOut, BackupsFollow, Live, Sorted, held, relay, Planned, Tiered, Listed, Runs
<1>14. CASE PublishRendition
  BY <1>14, PassWrites, Chosen, Names DEF PublishRendition, Goto, OtherSide, Discard, Started,
    Passing, OneDest, TypeOK, HeldTypes, Dropping, IInv, CarriedOut, BackupsFollow, Live, Sorted,
    held, relay, Planned, Tiered, Listed, Runs
<1>15. CASE RunRendition
  BY <1>15, PassWrites, StartsKeepLive, Names, Chosen DEF RunRendition, Step, OtherSide, Started,
    SameBut, Passing, OneDest, IInv, CarriedOut, BackupsFollow, Live, Sorted, held, relay,
    Planned, Tiered, Listed, Runs
<1>16. CASE LookDestination
  BY <1>16, PassWrites, SkipEffect, Chosen DEF LookDestination, Goto, OtherSide, FailDest, HubSet,
    Skipped, Passing, OneDest, TypeOK, HeldTypes, Halting, IInv, CarriedOut, BackupsFollow, Live,
    Sorted, held, relay, Planned, Tiered, Listed, Runs
<1>17. CASE DestBuilt
  BY <1>17, Chosen DEF DestBuilt, Built, Passing, OneDest, IInv, CarriedOut, BackupsFollow, Live,
    Sorted, held, relay, Planned, Tiered, Listed, Runs
<1>18. CASE DestNotBuilt
  BY <1>18, SkipEffect, Chosen DEF DestNotBuilt, FailDest, Skipped, Passing, OneDest, TypeOK,
    HeldTypes, Halting, IInv, CarriedOut, BackupsFollow, Live, Sorted, held, relay, Planned,
    Tiered, Listed, Runs
<1>19. CASE PublishDestination
  BY <1>19, Chosen, Names, NoneIsTyped DEF PublishDestination, Goto, OtherSide, Discard, Passing,
    OneDest, TypeOK, HeldTypes, Dropping, BackupsAreSome, BackupSpec, Starting, Next1, IInv,
    CarriedOut, BackupsFollow, Live, Sorted, held, relay, Planned, Tiered, Listed, Runs
<1>20. CASE RunDestination
  BY <1>20, StartsKeepLive, Names, Chosen DEF RunDestination, Step, OtherSide, SameBut, Passing,
    OneDest, IInv, CarriedOut, BackupsFollow, Live, Sorted, held, relay, Planned, Tiered, Listed,
    Runs
<1>21. CASE LookBackup
  BY <1>21, PassWrites, SkipEffect, Chosen, NoneIsTyped DEF LookBackup, Goto, OtherSide, OldSet,
    Skipped, Passing, OneDest, BackupsAreSome, BackupSpec, Starting, Next1, IInv, CarriedOut,
    BackupsFollow, Live, Sorted, held, relay, Planned, Tiered, Listed, Runs
<1>22. CASE StopBackup
  BY <1>22, StopsKeepHands, Names, Chosen DEF StopBackup, Step, OtherSide, SameBut, Passing,
    OneDest, IInv, CarriedOut, BackupsFollow, Live, Sorted, held, relay, Planned, Tiered, Listed,
    Runs
<1>23. CASE DropBackup
  BY <1>23, Chosen DEF DropBackup, Step, OtherSide, Passing, OneDest, IInv, CarriedOut,
    BackupsFollow, Live, Sorted, held, relay, Planned, Tiered, Listed, Runs
<1>24. CASE BackupBuilt
  BY <1>24, Chosen DEF BackupBuilt, Built, Passing, OneDest, IInv, CarriedOut, BackupsFollow,
    Live, Sorted, held, relay, Planned, Tiered, Listed, Runs
<1>25. CASE BackupNotBuilt
  BY <1>25, Chosen DEF BackupNotBuilt, Passing, OneDest, IInv, CarriedOut, BackupsFollow, Live,
    Sorted, held, relay, Planned, Tiered, Listed, Runs
<1>26. CASE PublishBackup
  BY <1>26, SkipEffect, Chosen, Names, NoneIsTyped DEF PublishBackup, Goto, OtherSide, Discard,
    Skipped, Passing, OneDest, TypeOK, HeldTypes, Dropping, BackupsAreSome, BackupSpec, Starting,
    Next1, IInv, CarriedOut, BackupsFollow, Live, Sorted, held, relay, Planned, Tiered, Listed,
    Runs
<1>27. CASE RunBackup
  BY <1>27, SkipEffect, StartsKeepLive, Names, Chosen, NoneIsTyped DEF RunBackup, Step, OtherSide,
    Skipped, SameBut, Passing, OneDest, BackupsAreSome, BackupSpec, Starting, Next1, IInv,
    CarriedOut, BackupsFollow, Live, Sorted, held, relay, Planned, Tiered, Listed, Runs
<1>28. CASE StopCalled
  BY <1>28, SamePlace DEF StopCalled, Halt, IInv, CarriedOut, BackupsFollow, Live, Sorted, held,
    relay, Planned, Tiered, Listed, Runs
<1> QED
  BY <1>1, <1>2, <1>3, <1>4, <1>5, <1>6, <1>7, <1>8, <1>9, <1>10, <1>11, <1>12, <1>13, <1>14,
    <1>15, <1>16, <1>17, <1>18, <1>19, <1>20, <1>21, <1>22, <1>23, <1>24, <1>25, <1>26, <1>27,
    <1>28 DEF Running

(* So what the pass has looked at is as it was planned.                    *)
LEMMA CarriedOutKept ==
  ASSUME IInv, EngineStep
  PROVE  CarriedOut'
BY MainsFollowKept, BackupsAreSomeKept, BackupsFollowKept DEF CarriedOut

(* With no edit waiting, the pass goes by what the store says.              *)
LEMMA UpToDateKept ==
  ASSUME IInv, EngineStep
  PROVE  UpToDate'
<1>1. CASE Enter
  <2>1. pc' = "list" /\ asked \in Nat /\ (switched' => asked' > 0)
    BY <1>1 DEF Enter, Step, IInv, UpToDate, TypeOK, StoreTypes
  <2> QED
    BY <2>1 DEF UpToDate, Listed, Tiered, Planned
<1>2. CASE ListDestinations \/ ListRenditions
  BY <1>2, WritesOfTheLocals DEF ListDestinations, ListRenditions, Step, OtherSide, IInv,
    UpToDate, Calm, Wanted, PlanOf, DestSpec, store, Planned, Tiered, Listed, Runs
<1>3. CASE Decide
  <2>1. /\ run'.rows = run.rows /\ run'.sigs = run.sigs
        /\ run'.want = DecidedWant /\ run'.plan = DecidedPlan
    BY <1>3, DecideEffect DEF Decided, Runs
  <2>2. /\ UNCHANGED store /\ Listed /\ Tiered /\ UpToDate
    BY <1>3 DEF Decide, OtherSide, Step, Listed, Tiered, IInv
  <2>3. ASSUME NEW r \in Rends PROVE run'.want[r] = Wanted(r)'
    BY <2>1, <2>2, <2>3 DEF DecidedWant, Wanted, store
  <2>4. ASSUME NEW d \in Dests PROVE run'.plan[d] = PlanOf(d, run.want)'
    BY <2>1, <2>2, <2>4 DEF DecidedPlan, PlanOf, DestSpec, store
  <2> QED
    BY <2>1, <2>2, <2>3, <2>4 DEF UpToDate, Calm, store
<1>4. CASE SortDestinations
  BY <1>4 DEF SortDestinations, Step, OtherSide, IInv, UpToDate, Calm, Wanted, PlanOf, DestSpec,
    store, Planned, Tiered, Listed, Runs
<1>5. ASSUME NEW d \in Dests, TearStop(d) PROVE UpToDate'
  BY <1>5 DEF TearStop, Tears, IInv, UpToDate, Calm, Wanted, PlanOf, DestSpec, store, Planned,
    Tiered, Listed, Runs
<1>6. ASSUME NEW d \in Dests, TearRelease(d) PROVE UpToDate'
  BY <1>6 DEF TearRelease, Tears, Done, IInv, UpToDate, Calm, Wanted, PlanOf, DestSpec, store,
    Planned, Tiered, Listed, Runs
<1>7. ASSUME NEW d \in Dests, TearBackup(d) PROVE UpToDate'
  BY <1>7 DEF TearBackup, Tears, IInv, UpToDate, Calm, Wanted, PlanOf, DestSpec, store, Planned,
    Tiered, Listed, Runs
<1>8. ASSUME NEW d \in Dests, TearBackupRelease(d) PROVE UpToDate'
  BY <1>8 DEF TearBackupRelease, Tears, Done, IInv, UpToDate, Calm, Wanted, PlanOf, DestSpec,
    store, Planned, Tiered, Listed, Runs
<1>9. CASE DestinationsStopped \/ RenditionsStopped \/ RenditionsStarted \/ Leave \/ StopCalled \/
       DestinationsDown \/ EncodesDown
  BY <1>9 DEF DestinationsStopped, RenditionsStopped, RenditionsStarted, Leave, StopCalled,
    DestinationsDown, EncodesDown, Step, OtherSide, Halt, IInv, UpToDate, Calm, Wanted, PlanOf,
    DestSpec, store, Planned, Tiered, Listed, Runs
<1>10. CASE TakeRendition
  BY <1>10, TakeEffect DEF TakeRendition, Goto, OtherSide, StopTaken, IInv, UpToDate, Calm,
    Wanted, PlanOf, DestSpec, store, Planned, Tiered, Listed, Runs
<1>11. CASE StopRendition
  BY <1>11 DEF StopRendition, Step, OtherSide, IInv, UpToDate, Calm, Wanted, PlanOf, DestSpec,
    store, Planned, Tiered, Listed, Runs
<1>12. CASE RenditionStopped
  BY SMTT(30), <1>12, TakeEffect
     DEF RenditionStopped, Step, OtherSide, CloseRendition, StopTaken, IInv,
    UpToDate, Calm, Wanted, PlanOf, DestSpec, store, Planned, Tiered, Listed, Runs
<1>13. CASE RendBuilt
  BY SMTT(30), <1>13, PassWrites DEF RendBuilt, Built, HubSet, IInv, UpToDate, Calm, Wanted, PlanOf,
    DestSpec, store, Planned, Tiered, Listed, Runs
<1>14. CASE RendNotBuilt
  BY <1>14, TakeEffect DEF RendNotBuilt, FailRend, StartTaken, IInv, UpToDate, Calm, Wanted,
    PlanOf, DestSpec, store, Planned, Tiered, Listed, Runs
<1>15. CASE PublishRendition
  BY <1>15, PassWrites DEF PublishRendition, Goto, OtherSide, Discard, Started, IInv, UpToDate,
    Calm, Wanted, PlanOf, DestSpec, store, Planned, Tiered, Listed, Runs
<1>16. CASE RunRendition
  BY <1>16, PassWrites DEF RunRendition, Step, OtherSide, Started, IInv, UpToDate, Calm, Wanted,
    PlanOf, DestSpec, store, Planned, Tiered, Listed, Runs
<1>17. CASE LookDestination
  BY <1>17, PassWrites, SkipEffect DEF LookDestination, Goto, OtherSide, FailDest, HubSet,
    Skipped, IInv, UpToDate, Calm, Wanted, PlanOf, DestSpec, store, Planned, Tiered, Listed, Runs
<1>18. CASE DestBuilt
  BY <1>18 DEF DestBuilt, Built, IInv, UpToDate, Calm, Wanted, PlanOf, DestSpec, store, Planned,
    Tiered, Listed, Runs
<1>19. CASE DestNotBuilt
  BY <1>19, SkipEffect DEF DestNotBuilt, FailDest, Skipped, IInv, UpToDate, Calm, Wanted, PlanOf,
    DestSpec, store, Planned, Tiered, Listed, Runs
<1>20. CASE PublishDestination
  BY <1>20 DEF PublishDestination, Goto, OtherSide, Discard, IInv, UpToDate, Calm, Wanted, PlanOf,
    DestSpec, store, Planned, Tiered, Listed, Runs
<1>21. CASE RunDestination
  BY <1>21 DEF RunDestination, Step, OtherSide, IInv, UpToDate, Calm, Wanted, PlanOf, DestSpec,
    store, Planned, Tiered, Listed, Runs
<1>22. CASE LookBackup
  BY <1>22, PassWrites, SkipEffect DEF LookBackup, Goto, OtherSide, OldSet, Skipped, IInv,
    UpToDate, Calm, Wanted, PlanOf, DestSpec, store, Planned, Tiered, Listed, Runs
<1>23. CASE StopBackup
  BY <1>23 DEF StopBackup, Step, OtherSide, IInv, UpToDate, Calm, Wanted, PlanOf, DestSpec, store,
    Planned, Tiered, Listed, Runs
<1>24. CASE DropBackup
  BY <1>24 DEF DropBackup, Step, OtherSide, IInv, UpToDate, Calm, Wanted, PlanOf, DestSpec, store,
    Planned, Tiered, Listed, Runs
<1>25. CASE BackupBuilt
  BY <1>25 DEF BackupBuilt, Built, IInv, UpToDate, Calm, Wanted, PlanOf, DestSpec, store, Planned,
    Tiered, Listed, Runs
<1>26. CASE BackupNotBuilt
  BY <1>26 DEF BackupNotBuilt, IInv, UpToDate, Calm, Wanted, PlanOf, DestSpec, store, Planned,
    Tiered, Listed, Runs
<1>27. CASE PublishBackup
  BY <1>27, SkipEffect DEF PublishBackup, Goto, OtherSide, Discard, Skipped, IInv, UpToDate, Calm,
    Wanted, PlanOf, DestSpec, store, Planned, Tiered, Listed, Runs
<1>28. CASE RunBackup
  BY <1>28, SkipEffect DEF RunBackup, Step, OtherSide, Skipped, IInv, UpToDate, Calm, Wanted,
    PlanOf, DestSpec, store, Planned, Tiered, Listed, Runs
<1>29. CASE Collect
  BY <1>29 DEF Collect, Halt, IInv, UpToDate, Calm, Wanted, PlanOf, DestSpec, store, Planned,
    Tiered, Listed, Runs
<1>30. ASSUME NEW r \in Rends, StopEncode(r) PROVE UpToDate'
  BY <1>30 DEF StopEncode, IInv, UpToDate, Calm, Wanted, PlanOf, DestSpec, store, Planned, Tiered,
    Listed, Runs
<1>31. ASSUME NEW r \in Rends, ReleaseStopped(r) PROVE UpToDate'
  BY <1>31 DEF ReleaseStopped, CloseRendition, IInv, UpToDate, Calm, Wanted, PlanOf, DestSpec,
    store, Planned, Tiered, Listed, Runs
<1>32. CASE LoopsDone
  BY <1>32 DEF LoopsDone, Halt, IInv, UpToDate, Calm, Wanted, PlanOf, DestSpec, store, Planned,
    Tiered, Listed, Runs
<1> QED
  BY <1>1, <1>2, <1>3, <1>4, <1>5, <1>6, <1>7, <1>8, <1>9, <1>10, <1>11, <1>12, <1>13, <1>14,
    <1>15, <1>16, <1>17, <1>18, <1>19, <1>20, <1>21, <1>22, <1>23, <1>24, <1>25, <1>26, <1>27,
    <1>28, <1>29, <1>30, <1>31, <1>32 DEF EngineStep

(* An edit waits for a reconcile, and so does a layout.                    *)
LEMMA WorldAsks ==
  ASSUME IInv, World \/ UNCHANGED vars
  PROVE  /\ UNCHANGED core
         /\ \/ UNCHANGED <<db, sig, switched, asked, probing, known>>
            \/ ~Calm' /\ (switched' => asked' > 0)
<1>1. asked \in Nat /\ (switched => asked > 0)
  BY DEF IInv, TypeOK, StoreTypes, UpToDate
<1>2. CASE \/ \E d \in Dests : EditDest(d)
           \/ \E r \in Rends : EditRend(r)
           \/ SwitchIngest
  <2>1. UNCHANGED core
    BY <1>2, WorldKeeps DEF World
  <2>2. asked' = asked + 1
    BY <1>2 DEF EditDest, EditRend, SwitchIngest, Ask
  <2> QED
    BY <1>1, <2>1, <2>2 DEF Calm
<1>3. CASE ProbeLands
  BY <1>1, <1>3, WorldKeeps DEF ProbeLands, Calm, World
<1>4. CASE OtherTakes \/ OtherGives \/ ZombieDies \/ UNCHANGED vars
  BY <1>4, WorldKeeps DEF OtherTakes, OtherGives, ZombieDies, store, vars, World
<1> QED
  BY <1>2, <1>3, <1>4 DEF World

(* An edit is never forgotten: the pass is no longer up to date, and is    *)
(* due again.                                                              *)
LEMMA UpToDateKeptByWorld ==
  ASSUME IInv, World \/ UNCHANGED vars
  PROVE  UpToDate'
<1>1. UpToDate /\ UNCHANGED <<pc, run>>
  BY WorldKeeps DEF IInv, core
<1> QED
  BY <1>1, WorldAsks DEF UpToDate, Calm, Wanted, PlanOf, DestSpec, Planned, Tiered, Listed

(* A pass that no edit overtook leaves everything as the store says.        *)
LEMMA LeavesSettled ==
  ASSUME IInv, pc = "startDests", run.left = {}, Calm, ~stopped
  PROVE  /\ \A d \in Dests : Settled(d)
         /\ \A r \in Rends : tier[r] = "map" => \E d \in Dests : db[d].on /\ db[d].rend = r
<1>1. /\ TypeOK /\ HeldTypes /\ StoreTypes /\ RunTypes /\ Passing /\ Starting /\ Halting
      /\ NewIsStarting /\ Stages /\ AllRead /\ PlanIsOfRows /\ TiersFollow /\ UpToDate
      /\ MainsFollow /\ BackupsFollow /\ Planned /\ Tiered /\ Listed /\ Sorted
  BY DEF IInv, TypeOK, Processes, Chained, Following, CarriedOut, Planned, Tiered, Listed, Sorted
<1>2. /\ run.rows = db /\ run.sigs = sig /\ \A r \in Rends : run.want[r] = Wanted(r)
      /\ \A d \in Dests : run.plan[d] = PlanOf(d, run.want)
  BY <1>1 DEF UpToDate
<1>3. \A c \in Consumers : Live(c) => UpOf(c)
  BY <1>1 DEF NewIsStarting, Live, UpOf
<1>4. \A d \in Dests : place[d] \notin {"leaving", "stopping"}
  BY <1>1 DEF Passing, Halting
<1>5. ASSUME NEW d \in Dests PROVE Settled(d)
  <2>1. Follows(d) /\ d \notin run.left /\ db[d] \in Rows
    BY <1>1, <1>5 DEF MainsFollow, StoreTypes
  <2>2. place[d] \in {"none", "map", "error"}
    BY <1>1, <1>4 DEF HeldTypes
  <2>3. CASE ~db[d].on \/ ~known
    <3>1. run.plan[d] = Absent
      BY <1>2, <2>3 DEF PlanOf
    <3> QED
      BY <2>1, <2>2, <2>3, <3>1 DEF Follows, Settled
  <2>4. CASE db[d].on /\ known /\ place[d] # "map"
    <3>1. run.plan[d] # Absent
      <4>1. CASE db[d].rend # Passthrough /\ run.want[db[d].rend] = Absent
        BY <1>2, <2>4, <4>1, SpecsAreNeither DEF PlanOf
      <4>2. CASE ~(db[d].rend # Passthrough /\ run.want[db[d].rend] = Absent)
        <5>1. run.plan[d] = DestSpec(db[d], run.want)
          BY <1>2, <2>4, <4>2 DEF PlanOf
        <5>2. run.want \in [Rends -> Wants]
          BY <1>1 DEF RunTypes
        <5>3. DestSpec(db[d], run.want) \in Specs
          BY <2>1, <4>2, <5>2, PlannedIsSpec
        <5> QED
          BY <5>1, <5>3, SpecsAreNeither
      <4> QED
        BY <4>1, <4>2
    <3> QED
      BY <2>1, <2>2, <2>4, <3>1 DEF Follows, Settled
  <2>5. CASE db[d].on /\ known /\ place[d] = "map"
    <3> DEFINE row == db[d]
    <3>1. /\ run.plan[d] \notin {Absent, Broken} /\ con[Main(d)].spec = run.plan[d]
          /\ Live(Main(d)) /\ Reads(d)
      BY <1>1, <2>1, <2>5 DEF Follows, Stages, AllRead
    <3>2. /\ run.plan[d] = DestSpec(row, run.want)
          /\ row.rend # Passthrough => run.want[row.rend] # Absent
      BY <1>1, <1>2, <3>1 DEF PlanIsOfRows
    <3>3. row.rend # Passthrough => run.want[row.rend] = <<sig[row.rend]>>
      <4>1. row.rend # Passthrough => row.rend \in Rends
        BY <2>1, RowFields
      <4> QED
        BY <1>2, <3>2, <4>1 DEF Wanted
    <3>4. con[Main(d)].spec = SpecNow(d)
      BY <3>1, <3>2, <3>3 DEF DestSpec, SpecNow
    <3>5. con[Main(d)].hub = HubFor(row.rend)
      <4>1. con[Main(d)].spec[1] = row.rend
        BY <3>4 DEF SpecNow
      <4>2. row.rend # Passthrough => row.rend \in Rends
        BY <2>1, RowFields
      <4>3. row.rend \in Rends => row.rend # Passthrough
        BY IdsAssumption DEF Passthrough
      <4> QED
        BY <3>1, <4>1, <4>2, <4>3 DEF Reads, HubFor
    <3>6. UpOf(Backup(d)) => con[Backup(d)].spec = <<row.bk>>
      BY <1>1, <1>2, <2>1, <2>5 DEF BackupsFollow, Live, UpOf
    <3> QED
      BY <1>3, <2>5, <3>1, <3>4, <3>5, <3>6, Names DEF Settled
  <2> QED
    BY <2>3, <2>4, <2>5
<1>6. ASSUME NEW r \in Rends, tier[r] = "map"
      PROVE  \E d \in Dests : db[d].on /\ db[d].rend = r
  <2>1. con[Encode(r)].spec = Wanted(r)
    BY <1>1, <1>2, <1>6 DEF TiersFollow, Starting
  <2>2. con[Encode(r)].spec \in Specs
    BY <1>1, Names, ConFields DEF HeldTypes
  <2> QED
    BY <2>1, <2>2, SpecsAreNeither DEF Wanted
<1> QED
  BY <1>5, <1>6

(* Between two passes everything stays as the last of them left it.        *)
LEMMA AtRestKept ==
  ASSUME IInv, EngineStep
  PROVE  AtRest'
<1> SUFFICES ASSUME ~stopped, Running, ~stopped' PROVE AtRest'
  BY RunningSteps DEF AtRest
<1>1. CASE Enter \/ ListDestinations \/ ListRenditions \/ Decide \/ DestinationsStopped \/
       RenditionsStopped \/ RenditionsStarted \/ LookBackup \/ StopCalled
  BY <1>1 DEF Enter, ListDestinations, ListRenditions, Decide, DestinationsStopped,
    RenditionsStopped, RenditionsStarted, LookBackup, StopCalled, Step, OtherSide, Goto, Halt,
    IInv, AtRest, Calm, Settled, SpecNow, HubFor, UpOf, held, store
<1>2. CASE SortDestinations
  BY <1>2 DEF SortDestinations, Step, OtherSide, IInv, AtRest, Calm, Settled, SpecNow, HubFor,
    UpOf, held, store
<1>3. ASSUME NEW d \in Dests, TearStop(d) PROVE AtRest'
  BY <1>3 DEF TearStop, Tears, Halting, Passing, IInv, AtRest, Calm, Settled, SpecNow, HubFor,
    UpOf, held, store
<1>4. ASSUME NEW d \in Dests, TearRelease(d) PROVE AtRest'
  BY <1>4 DEF TearRelease, Tears, Done, Halting, Passing, IInv, AtRest, Calm, Settled, SpecNow,
    HubFor, UpOf, held, store
<1>5. ASSUME NEW d \in Dests, TearBackup(d) PROVE AtRest'
  BY <1>5 DEF TearBackup, Tears, Halting, Passing, IInv, AtRest, Calm, Settled, SpecNow, HubFor,
    UpOf, held, store
<1>6. ASSUME NEW d \in Dests, TearBackupRelease(d) PROVE AtRest'
  BY <1>6 DEF TearBackupRelease, Tears, Done, Halting, Passing, IInv, AtRest, Calm, Settled,
    SpecNow, HubFor, UpOf, held, store
<1>7. CASE TakeRendition
  BY <1>7 DEF TakeRendition, Goto, OtherSide, IInv, AtRest, Calm, Settled, SpecNow, HubFor, UpOf,
    held, store
<1>8. CASE StopRendition
  BY <1>8 DEF StopRendition, Step, OtherSide, IInv, AtRest, Calm, Settled, SpecNow, HubFor, UpOf,
    held, store
<1>9. CASE RenditionStopped
  BY <1>9 DEF RenditionStopped, Step, OtherSide, CloseRendition, IInv, AtRest, Calm, Settled,
    SpecNow, HubFor, UpOf, held, store
<1>10. CASE RendBuilt
  BY <1>10 DEF RendBuilt, Built, IInv, AtRest, Calm, Settled, SpecNow, HubFor, UpOf, held, store
<1>11. CASE RendNotBuilt
  BY <1>11 DEF RendNotBuilt, FailRend, IInv, AtRest, Calm, Settled, SpecNow, HubFor, UpOf, held,
    store
<1>12. CASE PublishRendition
  BY <1>12 DEF PublishRendition, Goto, OtherSide, Discard, IInv, AtRest, Calm, Settled, SpecNow,
    HubFor, UpOf, held, store
<1>13. CASE RunRendition
  BY <1>13 DEF RunRendition, Step, OtherSide, IInv, AtRest, Calm, Settled, SpecNow, HubFor, UpOf,
    held, store
<1>14. CASE LookDestination
  BY <1>14 DEF LookDestination, Goto, OtherSide, FailDest, IInv, AtRest, Calm, Settled, SpecNow,
    HubFor, UpOf, held, store
<1>15. CASE DestBuilt
  BY <1>15 DEF DestBuilt, Built, IInv, AtRest, Calm, Settled, SpecNow, HubFor, UpOf, held, store
<1>16. CASE DestNotBuilt
  BY <1>16 DEF DestNotBuilt, FailDest, IInv, AtRest, Calm, Settled, SpecNow, HubFor, UpOf, held,
    store
<1>17. CASE PublishDestination
  BY <1>17 DEF PublishDestination, Goto, OtherSide, Discard, IInv, AtRest, Calm, Settled, SpecNow,
    HubFor, UpOf, held, store
<1>18. CASE RunDestination
  BY <1>18 DEF RunDestination, Step, OtherSide, IInv, AtRest, Calm, Settled, SpecNow, HubFor,
    UpOf, held, store
<1>19. CASE StopBackup
  BY <1>19 DEF StopBackup, Step, OtherSide, IInv, AtRest, Calm, Settled, SpecNow, HubFor, UpOf,
    held, store
<1>20. CASE DropBackup
  BY <1>20 DEF DropBackup, Step, OtherSide, IInv, AtRest, Calm, Settled, SpecNow, HubFor, UpOf,
    held, store
<1>21. CASE BackupBuilt
  BY <1>21 DEF BackupBuilt, Built, IInv, AtRest, Calm, Settled, SpecNow, HubFor, UpOf, held, store
<1>22. CASE BackupNotBuilt
  BY <1>22 DEF BackupNotBuilt, IInv, AtRest, Calm, Settled, SpecNow, HubFor, UpOf, held, store
<1>23. CASE PublishBackup
  BY <1>23 DEF PublishBackup, Goto, OtherSide, Discard, IInv, AtRest, Calm, Settled, SpecNow,
    HubFor, UpOf, held, store
<1>24. CASE RunBackup
  BY <1>24 DEF RunBackup, Step, OtherSide, IInv, AtRest, Calm, Settled, SpecNow, HubFor, UpOf,
    held, store
<1>25. CASE Leave
  <2>1. /\ pc = "startDests" /\ run.left = {} /\ UNCHANGED <<held, store, stop>>
    BY <1>25 DEF Leave, Step, OtherSide
  <2>2. Calm' <=> Calm
    BY <2>1 DEF Calm, store
  <2>3. Calm =>
          /\ \A d \in Dests : Settled(d)
          /\ \A r \in Rends : tier[r] = "map" => \E d \in Dests : db[d].on /\ db[d].rend = r
    BY <2>1, LeavesSettled
  <2> QED
    BY <2>1, <2>2, <2>3 DEF AtRest, Settled, SpecNow, HubFor, UpOf, held, store
<1> QED
  BY <1>1, <1>2, <1>3, <1>4, <1>5, <1>6, <1>7, <1>8, <1>9, <1>10, <1>11, <1>12, <1>13, <1>14,
    <1>15, <1>16, <1>17, <1>18, <1>19, <1>20, <1>21, <1>22, <1>23, <1>24, <1>25 DEF Running

(* Nor does an edit between two passes go unseen.                          *)
LEMMA AtRestKeptByWorld ==
  ASSUME IInv, World \/ UNCHANGED vars
  PROVE  AtRest'
<1>1. AtRest /\ UNCHANGED <<pc, stop, place, tier, con, feed>>
  BY WorldKeeps DEF IInv, core
<1> QED
  BY <1>1, WorldAsks DEF AtRest, Calm, Settled, SpecNow, HubFor, UpOf, stopped

-----------------------------------------------------------------------------
(* The rest of the world leaves what the engine goes by alone.             *)
LEMMA CoreStays ==
  ASSUME IInv, UNCHANGED core
  PROVE  /\ HeldTypes' /\ RunTypes' /\ Passing' /\ Starting' /\ Halting' /\ Processes'
         /\ Accounted' /\ HubsAccounted' /\ Owned' /\ Delivered' /\ Chained' /\ IngestOpen'
         /\ Following' /\ CarriedOut'
<1>0. /\ UNCHANGED <<place, tier, con, ph, feed, open, subs, mine, pc, run, fresh, stop>>
      /\ stopped' <=> stopped
  BY DEF core, stopped
<1>1. HeldTypes'
  BY <1>0 DEF IInv, TypeOK, HeldTypes
<1>2. RunTypes'
  BY <1>0 DEF IInv, RunTypes, Listed, Tiered, Planned
<1>3. Passing'
  BY <1>0 DEF IInv, Passing
<1>4. Starting'
  BY <1>0 DEF IInv, Starting, Next1
<1>5. Halting'
  BY <1>0 DEF IInv, Halting
<1>6. Processes'
  BY <1>0 DEF IInv, Processes, ConShape, LiveClaims, NewIsStarting, Stages, Swapping,
    FreshShape, Live, Claims, Next1
<1>7. Accounted'
  BY <1>0 DEF IInv, Accounted, Holds, Holder, Claims, Dropped, Making, Next1
<1>8. HubsAccounted'
  BY <1>0 DEF IInv, HubsAccounted, OpenIsFed, FeedIsOwn, LiveReads, Live
<1>9. Owned'
  BY <1>0 DEF IInv, Owned, LiveHasPort, LiveIsAlone, FreshIsAlone, OldIsAlone, Live, Claims, Next1
<1>10. Delivered'
  BY <1>0 DEF IInv, Delivered, Holder, Claims, Dropped, Making, Next1
<1>11. Chained'
  BY <1>0 DEF IInv, Chained, AllRead, BackupsRead, EncodesRead, Reads, Next1
<1>12. IngestOpen'
  BY <1>0 DEF IInv, IngestOpen
<1>13. Following'
  BY <1>0 DEF IInv, Following, PlanIsOfRows, StopsDiffer, TiersFollow, MakesThePlan, Planned,
    Tiered, Listed, HaveSpec, HubFor, DestSpec, Next1
<1>14. CarriedOut'
  BY <1>0 DEF IInv, CarriedOut, MainsFollow, Follows, BackupsAreSome, BackupsFollow, Sorted,
    Planned, Tiered, Listed, Live, Next1
<1> QED
  BY <1>1, <1>2, <1>3, <1>4, <1>5, <1>6, <1>7, <1>8, <1>9, <1>10, <1>11, <1>12, <1>13, <1>14

(* What is planned is what a process can run with, or that it cannot.       *)
PlanTyped == \A d \in DOMAIN run.plan : run.plan[d] \in Specs \cup {Absent, Broken}
LEMMA PlanIsTyped == RunTypes => PlanTyped
<1> SUFFICES ASSUME RunTypes, NEW d \in DOMAIN run.plan
             PROVE  run.plan[d] \in Specs \cup {Absent, Broken}
  BY DEF PlanTyped
<1>1. run.plan \in [Dests -> Plans] \cup {Blank}
  BY RunFields DEF RunTypes
<1>2. CASE run.plan \in [Dests -> Plans]
  BY <1>2, SpecsAre
<1>3. CASE run.plan = Blank
  BY <1>3 DEF Blank
<1> QED
  BY <1>1, <1>2, <1>3

(* The programme starts with nothing, and with a reconcile due.            *)
LEMMA StartsRight == Init => IInv
<1> SUFFICES ASSUME Init PROVE IInv
  OBVIOUS
<1>1. /\ db \in [Dests -> Rows] /\ sig = [r \in Rends |-> 0] /\ edits = 0 /\ asked = 1
      /\ switched = FALSE /\ known = FALSE /\ probing = FALSE
      /\ place = [d \in Dests |-> "none"] /\ tier = [r \in Rends |-> "none"]
      /\ con = [c \in Consumers |-> None] /\ ph = [d \in Dests |-> "stop"]
      /\ feed = [r \in Rends |-> NoHub] /\ open = {Source} /\ subs = {} /\ mine = {}
      /\ pool = {} /\ other = {} /\ zombie = {} /\ faults = 0
      /\ pc = "idle" /\ run = Idle /\ fresh = None /\ stop = "no"
  BY StoredAssumption DEF Init
<1>2. ~stopped /\ ~Listed /\ ~Tiered /\ ~Planned /\ ~Sorted
  BY <1>1 DEF stopped, Listed, Tiered, Planned, Sorted
<1>3. /\ \A c \in Consumers : ~Live(c) /\ ~Claims(c)
      /\ \A c \in Consumers : con[c] = None
      /\ \A d \in Dests : con[Main(d)] = None /\ con[Backup(d)] = None
      /\ \A r \in Rends : con[Encode(r)] = None
  BY <1>1, Names, NoneIsTyped DEF Live, Claims, Entries
<1>4. HeldTypes /\ RelayTypes
  <2>1. con \in [Consumers -> ConType] /\ fresh \in ConType
    BY <1>1, NoneIsTyped
  <2>2. Source \in Hubs /\ MaxFaults \in Nat
    BY HubNames, BoundsAssumption
  <2> QED
    BY <1>1, <2>1, <2>2 DEF HeldTypes, RelayTypes
<1>5. StoreTypes /\ Dues
  <2>1. 0 \in 0 .. MaxEdits /\ 1 \in 0 .. MaxEdits + 1
    BY BoundsAssumption
  <2>2. [r \in Rends |-> 0] \in [Rends -> {0, 1}]
    OBVIOUS
  <2>3. switched \in BOOLEAN /\ known \in BOOLEAN /\ probing \in BOOLEAN
    BY <1>1
  <2>4. edits \in 0 .. MaxEdits /\ asked \in 0 .. MaxEdits + 1 /\ asked <= edits + 1
    BY <1>1, <2>1
  <2>5. db \in [Dests -> Rows] /\ sig \in [Rends -> {0, 1}]
    BY <1>1, <2>2
  <2> QED
    BY <2>3, <2>4, <2>5 DEF StoreTypes, Dues
<1>6. RunTypes /\ run.plan = Blank
  <2>1. Idle \in Locals /\ Idle.plan = Blank
    BY IdleIsTyped DEF Idle, Blank
  <2> QED
    BY <1>1, <1>2, <2>1 DEF RunTypes, PCs
<1>7. TypeOK
  BY <1>1, <1>4, <1>5, <1>6 DEF TypeOK, Blank
<1>8. Passing /\ Starting /\ Halting
  BY <1>1, <1>2 DEF Passing, Starting, Halting, OneDest, Dropping
<1>9. Processes
  BY <1>1, <1>3, NoneIsTyped
  DEF Processes, ConShape, LiveClaims, NewIsStarting, Stages, Swapping, FreshShape, Live, Dropping
<1>10. Accounted /\ HubsAccounted /\ Pool /\ Unbound
  <2>1. Accounted /\ Pool /\ Unbound
    BY <1>1, <1>3 DEF Accounted, Pool, Unbound
  <2>2. HubsAccounted
    BY <1>1, <1>3 DEF HubsAccounted, OpenIsFed, FeedIsOwn, LiveReads, Entries
  <2> QED
    BY <2>1, <2>2
<1>11. Owned /\ Delivered
  BY <1>1, <1>3 DEF Owned, LiveHasPort, LiveIsAlone, FreshIsAlone, OldIsAlone, Delivered, Holder
<1>12. Chained /\ IngestOpen
  BY <1>1 DEF Chained, AllRead, BackupsRead, EncodesRead, IngestOpen
<1>13. Following
  BY <1>1, <1>2 DEF Following, PlanIsOfRows, StopsDiffer, TiersFollow, MakesThePlan
<1>14. UpToDate /\ AtRest
  BY <1>1, <1>2 DEF UpToDate, AtRest, Calm
<1>15. CarriedOut
  BY <1>1, <1>2, <1>3, Names
  DEF CarriedOut, MainsFollow, BackupsAreSome, BackupsFollow
<1> QED
  BY <1>5, <1>6, <1>7, <1>8, <1>9, <1>10, <1>11, <1>12, <1>13, <1>14, <1>15 DEF IInv

(* The whole invariant is inductive.                                       *)
LEMMA StaysRight ==
  ASSUME IInv, [Next]_vars
  PROVE  IInv'
<1>1. EngineStep \/ World \/ UNCHANGED vars
  BY StepsAre
<1>2. /\ RelayTypes' /\ StoreTypes' /\ Dues' /\ Pool'
  BY <1>1, RelayTypesKept, StoreTypesKept, PoolKept
<1>3. CASE EngineStep
  <2>0. Unbound'
    BY <1>3, UnboundKept
  <2>1. HeldTypes' /\ RunTypes' /\ Passing' /\ Starting' /\ Halting' /\ Processes'
    BY <1>3, HeldTypesKept, RunTypesKept, PassingKept, StartingKept, HaltingKept, ProcessesKept
  <2>2. Accounted' /\ Owned' /\ Delivered'
    BY <1>3, AccountKept, OldIsAloneKept DEF Account, Owned
  <2>3. HubsAccounted' /\ IngestOpen' /\ Chained'
    BY <1>3, OpenIsFedKept, FeedIsOwnKept, LiveReadsKept, IngestOpenKept, AllReadKept,
      BackupsReadKept, EncodesReadKept DEF HubsAccounted, Chained
  <2>4. Following' /\ UpToDate' /\ CarriedOut' /\ AtRest'
    BY <1>3, FollowingKept, UpToDateKept, CarriedOutKept, AtRestKept
  <2>5. stop' \in {"no", "called", "dests", "rends", "release", "done"}
    BY <1>3, HaltingKept
  <2>6. PlanTyped'
    BY <2>1, PlanIsTyped, PTL
  <2>7. TypeOK'
    BY <1>2, <2>1, <2>5, <2>6 DEF TypeOK, PlanTyped
  <2> QED
    BY <1>2, <2>0, <2>1, <2>2, <2>3, <2>4, <2>7 DEF IInv
<1>4. CASE World \/ UNCHANGED vars
  <2>1. UNCHANGED core
    BY <1>4, WorldKeeps
  <2>2. /\ HeldTypes' /\ RunTypes' /\ Passing' /\ Starting' /\ Halting' /\ Processes'
        /\ Accounted' /\ HubsAccounted' /\ Owned' /\ Delivered' /\ Chained' /\ IngestOpen'
        /\ Following' /\ CarriedOut'
    BY <2>1, CoreStays
  <2>3. UpToDate' /\ AtRest' /\ Unbound'
    BY <1>4, UpToDateKeptByWorld, AtRestKeptByWorld, UnboundKeptByWorld
  <2>4. TypeOK'
    BY <1>2, <2>1, <2>2 DEF TypeOK, IInv, core
  <2> QED
    BY <1>2, <2>2, <2>3, <2>4 DEF IInv
<1> QED
  BY <1>1, <1>3, <1>4

(* Whatever the engine, the operator and the shutdown do, in any order.    *)
THEOREM Inductive == Spec => []IInv
<1>1. IInv /\ [Next]_vars => IInv'
  BY StaysRight
<1> QED
  BY <1>1, StartsRight, PTL DEF Spec

-----------------------------------------------------------------------------
(* What the invariant says of the running outputs and their ports.         *)
LEMMA InvImpliesFed == IInv => RunningIsFed
<1> SUFFICES ASSUME IInv PROVE RunningIsFed
  OBVIOUS
<1>1. /\ HeldTypes /\ Halting /\ ConShape /\ LiveReads /\ Delivered /\ Chained /\ IngestOpen
      /\ Passing /\ LiveByKind /\ FeedIsOwn /\ Swapping
  BY LiveKinds DEF IInv, TypeOK, Processes, HubsAccounted
<1>2. \A c \in Consumers : UpOf(c) => Live(c)
  BY DEF UpOf, Live
<1>3. \A d \in Dests : place[d] = "map" => ~stopped
  BY <1>1 DEF Halting
<1>4. \A r \in Rends : tier[r] = "map" => ~stopped
  BY <1>1 DEF Halting
<1>5. ASSUME ~stopped, NEW c \in Consumers, UpOf(c) PROVE con[c].hub \in open
  <2>1. Live(c)
    BY <1>2, <1>5
  <2>2. Source \in open
    BY <1>1, <1>5 DEF IngestOpen, stopped
  <2>3. ASSUME NEW d \in Dests, place[d] \in {"map", "leaving"} PROVE con[Main(d)].hub \in open
    BY <1>1, <1>5, <2>2, <2>3 DEF Chained, AllRead, EncodesRead, Reads
  <2>4. ASSUME NEW d \in Dests, c = Main(d) PROVE con[c].hub \in open
    BY <1>1, <1>5, <2>1, <2>3, <2>4 DEF LiveByKind, Entries, Halting
  <2>5. ASSUME NEW d \in Dests, c = Backup(d) PROVE con[c].hub \in open
    <3>1. con[c].port # NoPort /\ place[d] \in {"map", "leaving"}
      BY <1>1, <1>5, <2>1, <2>5 DEF LiveByKind, Entries, Halting, ConShape, UpOf
    <3> QED
      BY <1>1, <1>5, <2>3, <2>5, <3>1 DEF Chained, BackupsRead
  <2>6. ASSUME NEW r \in Rends, c = Encode(r) PROVE con[c].hub \in open
    BY <1>1, <1>5, <2>1, <2>2, <2>6 DEF LiveByKind, Entries, Halting, Chained, EncodesRead
  <2> QED
    BY <2>4, <2>5, <2>6, Names
<1>6. ASSUME ~stopped, NEW c \in Consumers, UpOf(c), Claims(c)
      PROVE  <<con[c].hub, c, con[c].port>> \in subs
  <2>1. ~Dropped(c)
    BY <1>1, <1>2, <1>6 DEF Swapping, Dropped, Dropping
  <2> QED
    BY <1>1, <1>6, <2>1 DEF Delivered, Holder
<1>7. \A c \in Consumers : Live(c) => Claims(c)
  BY DEF IInv, Processes, LiveClaims
<1> QED
  BY <1>2, <1>3, <1>4, <1>5, <1>6, <1>7, Names DEF RunningIsFed, Fed

(* Its ports are owned once.                                               *)
LEMMA InvImpliesOwned == IInv => PortOwnedOnce
<1> SUFFICES ASSUME IInv PROVE PortOwnedOnce
  OBVIOUS
<1>1. /\ LiveHasPort /\ LiveIsAlone /\ Pool /\ Unbound /\ Accounted /\ Delivered /\ RelayTypes
      /\ LiveClaims
  BY DEF IInv, Owned, TypeOK, Processes
<1>2. \A c \in Consumers : UpOf(c) => Live(c)
  BY DEF UpOf, Live
<1>3. ASSUME ~stopped, NEW s \in subs PROVE s[3] \in mine
  <2>1. PICK h \in Hubs, c \in Consumers, p \in Ports : s = <<h, c, p>>
    BY <1>1, <1>3 DEF RelayTypes
  <2>2. Holds(c, h, p)
    BY <1>1, <1>3, <2>1 DEF Accounted
  <2>3. p \in mine
    BY <1>1, <1>3, <2>2 DEF Holds, Delivered
  <2> QED
    BY <2>1, <2>3
<1> QED
  BY <1>1, <1>2, <1>3 DEF PortOwnedOnce, LiveHasPort, LiveIsAlone, LiveClaims, Pool, Unbound

(* Nobody runs behind the engine's back.                                   *)
LEMMA InvImpliesNoOrphan == IInv => NoOrphan
<1> SUFFICES ASSUME IInv PROVE NoOrphan
  OBVIOUS
<1>1. LiveByKind
  BY LiveKinds DEF IInv, Processes
<1>2. \A c \in Consumers : UpOf(c) => Live(c)
  BY DEF UpOf, Live
<1> QED
  BY <1>1, <1>2, Names DEF NoOrphan, LiveByKind, Entries

(* After a shutdown and the pass it met, nothing is left.                  *)
LEMMA InvImpliesNothingLeft == IInv => ShutdownLeavesNothing
<1> SUFFICES ASSUME IInv, stop = "done", Quiet
             PROVE  mine = {} /\ subs = {} /\ open = {} /\ \A c \in Consumers : ~UpOf(c)
  BY DEF ShutdownLeavesNothing
<1>1. /\ HeldTypes /\ RelayTypes /\ Passing /\ Halting /\ LiveClaims /\ Accounted /\ OpenIsFed
      /\ FreshShape
      /\ stopped /\ pc = "idle"
  BY DEF IInv, TypeOK, Processes, HubsAccounted, stopped, Quiet
<1>2. /\ \A d \in Dests : place[d] \notin Entries
      /\ \A r \in Rends : tier[r] \notin Entries
  BY <1>1 DEF Passing, Halting, Entries
<1>3. \A c \in Consumers : ~Claims(c)
  BY <1>2 DEF Claims
<1>4. fresh = None
  BY <1>1 DEF FreshShape
<1>5. \A c \in Consumers, h \in Hubs, p \in Ports : ~Holds(c, h, p)
  BY <1>3, <1>4 DEF Holds, Holder
<1>6. mine = {} /\ subs = {}
  BY <1>1, <1>5 DEF Accounted, RelayTypes
<1>7. open = {}
  BY <1>1, <1>2 DEF OpenIsFed
<1>8. \A c \in Consumers : ~UpOf(c)
  BY <1>1, <1>3 DEF LiveClaims, Live, UpOf
<1> QED
  BY <1>6, <1>7, <1>8

(* And when nothing is due, the outputs are the store's.                   *)
LEMMA InvImpliesStore == IInv => AsTheStoreSays
<1> SUFFICES ASSUME IInv, stop = "no", Quiet
             PROVE  /\ \A d \in Dests : Settled(d)
                    /\ \A r \in Rends : tier[r] = "map" =>
                         \E d \in Dests : db[d].on /\ db[d].rend = r
  BY DEF AsTheStoreSays
<1>1. pc = "idle" /\ Calm /\ ~stopped
  BY DEF Quiet, Calm, stopped
<1> QED
  BY <1>1 DEF IInv, AtRest

(* Only the sort gives an output to the reconcile to take down.              *)
LEMMA OnlySortTakes ==
  ASSUME IInv, EngineStep, ~SortDestinations
  PROVE  \A e \in Dests : place'[e] = "leaving" => place[e] = "leaving"
<1>1. CASE Enter \/ ListDestinations \/ ListRenditions \/ Decide \/ DestinationsStopped \/
       RenditionsStopped \/ RenditionsStarted \/ LookBackup \/ Leave \/ StopCalled \/
       DestinationsDown \/ EncodesDown
  BY <1>1 DEF Enter, ListDestinations, ListRenditions, Decide, DestinationsStopped,
    RenditionsStopped, RenditionsStarted, LookBackup, Leave, StopCalled, DestinationsDown,
    EncodesDown, Step, OtherSide, Goto, Halt, IInv, held
<1>2. CASE SortDestinations
  BY <1>2
<1>3. ASSUME NEW d \in Dests, TearStop(d) PROVE \A e \in Dests : place'[e] = "leaving" => place[e]
       = "leaving"
  BY <1>3 DEF TearStop, Tears, IInv, held
<1>4. ASSUME NEW d \in Dests, TearRelease(d) PROVE \A e \in Dests : place'[e] = "leaving" =>
       place[e] = "leaving"
  BY <1>4 DEF TearRelease, Tears, Done, TypeOK, HeldTypes, IInv, held
<1>5. ASSUME NEW d \in Dests, TearBackup(d) PROVE \A e \in Dests : place'[e] = "leaving" =>
       place[e] = "leaving"
  BY <1>5 DEF TearBackup, Tears, IInv, held
<1>6. ASSUME NEW d \in Dests, TearBackupRelease(d) PROVE \A e \in Dests : place'[e] = "leaving" =>
       place[e] = "leaving"
  BY <1>6 DEF TearBackupRelease, Tears, Done, TypeOK, HeldTypes, IInv, held
<1>7. CASE TakeRendition
  BY <1>7 DEF TakeRendition, Goto, OtherSide, IInv, held
<1>8. CASE StopRendition
  BY <1>8 DEF StopRendition, Step, OtherSide, IInv, held
<1>9. CASE RenditionStopped
  BY <1>9 DEF RenditionStopped, Step, OtherSide, CloseRendition, IInv, held
<1>10. CASE RendBuilt
  BY <1>10 DEF RendBuilt, Built, IInv, held
<1>11. CASE RendNotBuilt
  BY <1>11 DEF RendNotBuilt, FailRend, IInv, held
<1>12. CASE PublishRendition
  BY <1>12 DEF PublishRendition, Goto, OtherSide, Discard, IInv, held
<1>13. CASE RunRendition
  BY <1>13 DEF RunRendition, Step, OtherSide, IInv, held
<1>14. CASE LookDestination
  BY <1>14 DEF LookDestination, Goto, OtherSide, FailDest, TypeOK, HeldTypes, IInv, held
<1>15. CASE DestBuilt
  BY <1>15 DEF DestBuilt, Built, IInv, held
<1>16. CASE DestNotBuilt
  BY <1>16 DEF DestNotBuilt, FailDest, TypeOK, HeldTypes, IInv, held
<1>17. CASE PublishDestination
  BY <1>17 DEF PublishDestination, Goto, OtherSide, Discard, TypeOK, HeldTypes, IInv, held
<1>18. CASE RunDestination
  BY <1>18 DEF RunDestination, Step, OtherSide, IInv, held
<1>19. CASE StopBackup
  BY <1>19 DEF StopBackup, Step, OtherSide, IInv, held
<1>20. CASE DropBackup
  BY <1>20 DEF DropBackup, Step, OtherSide, IInv, held
<1>21. CASE BackupBuilt
  BY <1>21 DEF BackupBuilt, Built, IInv, held
<1>22. CASE BackupNotBuilt
  BY <1>22 DEF BackupNotBuilt, IInv, held
<1>23. CASE PublishBackup
  BY <1>23 DEF PublishBackup, Goto, OtherSide, Discard, IInv, held
<1>24. CASE RunBackup
  BY <1>24 DEF RunBackup, Step, OtherSide, IInv, held
<1>25. CASE Collect
  BY <1>25, CollectEffect DEF Collect, Halt, TypeOK, HeldTypes, IInv, held
<1>26. ASSUME NEW r \in Rends, StopEncode(r) PROVE \A e \in Dests : place'[e] = "leaving" =>
       place[e] = "leaving"
  BY <1>26 DEF StopEncode, IInv, held
<1>27. ASSUME NEW r \in Rends, ReleaseStopped(r) PROVE \A e \in Dests : place'[e] = "leaving" =>
       place[e] = "leaving"
  BY <1>27 DEF ReleaseStopped, CloseRendition, IInv, held
<1>28. CASE LoopsDone
  BY <1>28 DEF LoopsDone, Halt, IInv, held
<1> QED
  BY <1>1, <1>2, <1>3, <1>4, <1>5, <1>6, <1>7, <1>8, <1>9, <1>10, <1>11, <1>12, <1>13, <1>14,
    <1>15, <1>16, <1>17, <1>18, <1>19, <1>20, <1>21, <1>22, <1>23, <1>24, <1>25, <1>26, <1>27,
    <1>28 DEF EngineStep

(* Taking an output down needs an edit of its own, or of its rendition.    *)
LEMMA TakenDownForItself ==
  ASSUME IInv, [Next]_vars, NEW d \in Dests, place[d] = "map", place'[d] = "leaving", Unedited
  PROVE  con[Main(d)].spec # SpecNow(d) \/ ~db[d].on
<1>1. HeldTypes /\ StoreTypes /\ RunTypes /\ Halting /\ AllRead /\ UpToDate /\ db[d] \in Rows
  BY DEF IInv, TypeOK, Chained, StoreTypes
<1>2. SortDestinations
  <2>1. CASE EngineStep
    BY <2>1, OnlySortTakes
  <2>2. CASE World \/ UNCHANGED vars
    BY <2>2, WorldKeeps DEF core
  <2> QED
    BY <2>1, <2>2, StepsAre
<1>3. pc = "sort" /\ ~Keep(d)
  BY <1>1, <1>2 DEF SortDestinations, Step, HeldTypes
<1>4. Calm /\ Planned /\ Tiered /\ Listed
  BY <1>3 DEF Unedited, Calm, Planned, Tiered, Listed
<1>5. /\ run.rows = db /\ run.sigs = sig /\ \A r \in Rends : run.want[r] = Wanted(r)
      /\ run.plan[d] = PlanOf(d, run.want)
  BY <1>1, <1>4 DEF UpToDate
<1> SUFFICES ASSUME con[Main(d)].spec = SpecNow(d), db[d].on PROVE FALSE
  OBVIOUS
<1>6. db[d].rend # Passthrough => db[d].rend \in Rends
  BY <1>1, RowFields
<1>7. db[d].rend # Passthrough => run.want[db[d].rend] = <<sig[db[d].rend]>>
  BY <1>5, <1>6 DEF Wanted
<1>8. db[d].rend # Passthrough => run.want[db[d].rend] # Absent
  <2>1. ASSUME db[d].rend # Passthrough PROVE <<sig[db[d].rend]>> # Absent
    <3>1. sig[db[d].rend] \in {0, 1}
      BY <1>1, <1>6, <2>1 DEF StoreTypes
    <3> QED
      BY <3>1, SpecsAre, SpecsAreNeither
  <2> QED
    BY <1>7, <2>1
<1>9. run.plan[d] = SpecNow(d)
  <2>1. run.plan[d] = DestSpec(db[d], run.want)
    BY <1>5, <1>8 DEF PlanOf, Unedited
  <2> QED
    BY <1>7, <2>1 DEF DestSpec, SpecNow
<1>10. run.plan[d] \notin {Absent, Broken}
  <2>1. con[Main(d)] \in ConType
    BY <1>1, Names DEF HeldTypes
  <2> QED
    BY <1>9, <2>1, ConFields, SpecsAreNeither
<1>11. con[Main(d)].hub = HubFor(db[d].rend)
  <2>1. Reads(d) /\ con[Main(d)].spec[1] = db[d].rend
    BY <1>1 DEF Halting, AllRead, SpecNow
  <2> QED
    BY <1>6, <2>1, IdsAssumption DEF Reads, HubFor, Passthrough
<1> QED
  BY <1>3, <1>5, <1>9, <1>10, <1>11 DEF Keep

-----------------------------------------------------------------------------
(* The theorems.  A running output is fed: its hub is open and delivers to *)
(* it, by name and on its port (relay subscriptions of engine.go).         *)
THEOREM RunningIsFedAlways == Spec => []RunningIsFed
BY Inductive, InvImpliesFed, PTL

(* Every port and every child is accounted for, and a shutdown that found  *)
(* a reconcile in flight leaves nothing when both are over.                *)
THEOREM PortsAccountedForAlways == Spec => []PortsAccountedFor
<1>1. IInv => PortsAccountedFor
  BY InvImpliesOwned, InvImpliesNoOrphan, InvImpliesNothingLeft DEF PortsAccountedFor, IInv
<1> QED
  BY <1>1, Inductive, PTL

(* When no reconcile is due, the running outputs are those of the store.   *)
THEOREM AsTheStoreSaysAlways == Spec => []AsTheStoreSays
BY Inductive, InvImpliesStore, PTL

(* A reconcile takes an output down only for its own sake.                 *)
THEOREM OnlyItsOwnEditAlways == Spec => OnlyItsOwnEdit
<1>1. IInv /\ [Next]_vars =>
        [\A d \in Dests :
           place[d] = "map" /\ place'[d] = "leaving" /\ Unedited
             => con[Main(d)].spec # SpecNow(d) \/ ~db[d].on]_vars
  BY TakenDownForItself
<1> QED
  BY <1>1, Inductive, PTL DEF Spec, OnlyItsOwnEdit
=============================================================================

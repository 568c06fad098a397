----------------------------- MODULE Reconcile -----------------------------
(***************************************************************************)
(* One programme's engine (internal/engine): the reconcile that makes the  *)
(* running outputs match the database, the relay hubs and ports they are   *)
(* given, and the shutdown that may land in the middle of it.              *)
(*                                                                         *)
(* An output is a destination, its optional backup, or a rendition that    *)
(* encodes once for several destinations.  Each has a supervised process,  *)
(* a relay port from a pool shared with the other programmes' engines, and *)
(* a named subscription on the hub it reads.  Reconcile runs under         *)
(* reconcileMu; StopWithin does not take it.  Configuration modelled:      *)
(* failover, silence, delay, captions and playout off.                     *)
(***************************************************************************)
EXTENDS Integers, FiniteSets, FiniteSetsExt

CONSTANTS
  Dests,       \* destination ids, naturals
  Rends,       \* rendition ids, naturals
  Ports,       \* the relay port pool
  NoPort,      \* none of them
  Backups,     \* destinations whose platform takes a redundant feed
  Stored,      \* what the destinations' rows may say when the engine starts
  MaxEdits,    \* bound: operator edits
  MaxFaults,   \* bound: children killed and not seen to die in time
  MaxOther     \* bound: ports another engine holds at once

ASSUME IdsAssumption == Dests \subseteq Nat /\ Rends \subseteq Nat \ {0}
ASSUME PortsAssumption == NoPort \notin Ports
ASSUME BoundsAssumption == {MaxEdits, MaxFaults, MaxOther} \subseteq Nat

Passthrough == 0                        \* a destination on no rendition
Source      == <<0, 0>>                 \* the ingest hub, e.hub
NoHub       == <<0, 1>>
Hubs        == {Source} \cup Rends \X {0, 1}
Main(d)     == <<"main", d>>
Backup(d)   == <<"backup", d>>
Encode(r)   == <<"rend", r>>
Consumers   == {"main", "backup"} \X Dests \cup {"rend"} \X Rends

(* What a destination's row says, and the restart signature made of it.    *)
Rows   == [on : BOOLEAN, rend : Rends \cup {Passthrough}, ver : {0, 1}, bk : 0 .. 2]
ASSUME StoredAssumption == Stored \subseteq [Dests -> Rows]
Absent == <<8>>                  \* not in the plan
Broken == <<9>>                  \* in the plan, and cannot run
NoSpec == <<>>
Specs  == {NoSpec} \cup {<<x>> : x \in 0 .. 2}
          \cup {<<r, v, s>> : r \in Rends \cup {Passthrough}, v \in {0, 1}, s \in {0, 1, 2}}

VARIABLES
  \* The operator and the store.
  db,        \* db[d]: the destination's row
  sig,       \* sig[r]: the rendition's encode settings
  edits,     \* edits made so far (MaxEdits bounds it)
  switched,  \* the ingest mode was changed and no reconcile has seen it
  known,     \* the incoming layout is measured (or declared unmeasurable)
  asked,     \* callers waiting to run Reconcile
  probing,   \* the probe loop is waiting to reconcile a new layout
  \* What the engine holds.
  place,     \* place[d]: "none", "map" or "error" in e.dests, or in the hands
             \*   of a reconcile ("leaving") or of StopWithin ("stopping")
  tier,      \* tier[r]: the same, for e.rends
  con,       \* con[c]: process, port, hub read and signature of a consumer
  ph,        \* ph[d]: how far the teardown of d has come
  feed,      \* feed[r]: the hub the rendition writes
  \* Relay.
  open,      \* hubs not closed
  subs,      \* subscriptions <<hub, name, port>>
  mine,      \* e.heldPorts
  pool,      \* PortAllocator.held
  other,     \* the ports another engine believes it holds
  zombie,    \* ports bound by a child that was killed and not seen to die
  faults,    \* deadline stops so far (MaxFaults bounds it)
  \* The two goroutines.
  pc,        \* where the running reconcile is, "idle" when none is
  run,       \* its locals
  fresh,     \* the consumer it is building and has not published
  stop       \* where StopWithin is

store  == <<db, sig, edits, switched, known, asked, probing>>
relay  == <<open, subs, mine, pool, other, zombie, faults>>
held   == <<place, tier, con, ph, feed>>
vars   == <<store, held, relay, pc, run, fresh, stop>>

None == [proc |-> "none", port |-> NoPort, hub |-> NoHub, spec |-> NoSpec]
Idle == [by |-> "none", rows |-> [d \in {} |-> 0], sigs |-> [r \in {} |-> 0],
         want |-> [r \in {} |-> 0], plan |-> [d \in {} |-> 0],
         stopR |-> {}, startR |-> {}, left |-> {}, hub |-> NoHub, old |-> None]

stopped == stop \notin {"no", "called"}        \* e.stopped
UpOf(c) == con[c].proc = "up"

Init ==
  /\ db \in Stored
  /\ sig = [r \in Rends |-> 0]
  /\ edits = 0 /\ switched = FALSE /\ known = FALSE /\ asked = 1 /\ probing = FALSE
  /\ place = [d \in Dests |-> "none"] /\ tier = [r \in Rends |-> "none"]
  /\ con = [c \in Consumers |-> None]
  /\ ph = [d \in Dests |-> "stop"]
  /\ feed = [r \in Rends |-> NoHub]
  /\ open = {Source} /\ subs = {} /\ mine = {} /\ pool = {} /\ other = {}
  /\ zombie = {} /\ faults = 0
  /\ pc = "idle" /\ run = Idle /\ fresh = None /\ stop = "no"

-----------------------------------------------------------------------------
(* The relay: ports and subscriptions.                                     *)

(* Allocate hands out a port it does not hold and that binds; its cursor   *)
(* is left out, so any such port may be the one found.                     *)
(* Mutant of FreePorts: a port nobody holds is given out without a trial.  *)
FreePortsUnbound == {p \in Ports : p \notin pool}
FreePorts == {p \in Ports : p \notin pool /\ p \notin zombie}
Alloc(p)  == p \in FreePorts /\ mine' = mine \cup {p} /\ pool' = pool \cup {p}

(* releasePort refuses a port this engine does not hold.                   *)
(* Mutant of Release: gives back whatever number it is told.               *)
ReleaseAny(p) == mine' = mine \ {p} /\ pool' = pool \ {p}
Release(p) ==
  IF p \in mine THEN mine' = mine \ {p} /\ pool' = pool \ {p}
                ELSE UNCHANGED <<mine, pool>>

Taken(h, name)       == \E p \in Ports : <<h, name, p>> \in subs
Unsubscribe(h, name) == subs' = {s \in subs : <<s[1], s[2]>> # <<h, name>>}

(* A consumer's process and its share of the relay, as the code lets go of *)
(* them: Stop, then Unsubscribe, then releasePort.  Stop retires a process *)
(* for good; when it gives up at its deadline the child is still bound.    *)
StopProcess(c) ==
  /\ con' = [con EXCEPT ![c].proc = IF @ = "none" THEN @ ELSE "gone"]
  /\ \/ UNCHANGED <<zombie, faults>>
     \/ /\ UpOf(c) /\ faults < MaxFaults
        /\ faults' = faults + 1 /\ zombie' = zombie \cup {con[c].port}
LetGo(c, x) == Unsubscribe(x.hub, c) /\ Release(x.port)

(* The rest of the world: another engine on the same pool, a killed child  *)
(* that dies at last.                                                      *)
OtherTakes == \E p \in FreePorts :
  /\ Cardinality(other) < MaxOther
  /\ other' = other \cup {p} /\ pool' = pool \cup {p}
  /\ UNCHANGED <<store, held, open, subs, mine, zombie, faults, pc, run, fresh, stop>>
OtherGives == \E p \in other :
  /\ other' = other \ {p} /\ pool' = pool \ {p}
  /\ UNCHANGED <<store, held, open, subs, mine, zombie, faults, pc, run, fresh, stop>>
ZombieDies == \E p \in zombie :
  /\ zombie' = zombie \ {p}
  /\ UNCHANGED <<store, held, open, subs, mine, pool, other, faults, pc, run, fresh, stop>>

-----------------------------------------------------------------------------
(* The operator: each edit writes the store and then asks for a Reconcile. *)
Ask == edits < MaxEdits /\ edits' = edits + 1 /\ asked' = asked + 1
Edited(d) ==                            \* one field at a time
  {[db[d] EXCEPT !.on = ~@], [db[d] EXCEPT !.ver = 1 - @]}
  \cup {[db[d] EXCEPT !.rend = r] : r \in Rends \cup {Passthrough}}
  \cup {[db[d] EXCEPT !.bk = b] : b \in IF d \in Backups THEN 0 .. 2 ELSE {0}}
EditDest(d) ==
  /\ Ask
  /\ \E row \in Edited(d) : row # db[d] /\ db' = [db EXCEPT ![d] = row]
  /\ UNCHANGED <<sig, switched, known, probing, held, relay, pc, run, fresh, stop>>
EditRend(r) ==
  /\ Ask
  /\ sig' = [sig EXCEPT ![r] = 1 - @]
  /\ UNCHANGED <<db, switched, known, probing, held, relay, pc, run, fresh, stop>>
SwitchIngest ==
  /\ Ask
  /\ switched' = TRUE
  /\ UNCHANGED <<db, sig, known, probing, held, relay, pc, run, fresh, stop>>

(* probeOnce commits a layout outside reconcileMu; probeLoop then waits    *)
(* for the mutex to reconcile what reads it.                               *)
(* Mutant of ProbeLands: a new layout is committed and nobody reconciles.  *)
ProbeLandsSilently ==
  /\ ~known /\ ~probing /\ stop = "no" /\ ~(pc # "idle" /\ run.by = "probe")
  /\ known' = TRUE
  /\ UNCHANGED <<db, sig, edits, switched, asked, probing, held, relay, pc, run, fresh, stop>>
ProbeLands ==
  /\ ~known /\ ~probing /\ stop = "no" /\ ~(pc # "idle" /\ run.by = "probe")
  /\ known' = TRUE /\ probing' = TRUE
  /\ UNCHANGED <<db, sig, edits, switched, asked, held, relay, pc, run, fresh, stop>>

-----------------------------------------------------------------------------
(* Reconcile, and the probe loop's reconcileDownstream: reconcileMu is held *)
(* from Enter until the pass is idle again.                                *)
Goto(l)      == pc' = l
Step(l, m)   == pc = l /\ pc' = m
NoRelay      == UNCHANGED relay
OtherSide    == UNCHANGED <<store, stop>>     \* neither the store nor StopWithin moves

(* Mutant of Enter: StopWithin holds reconcileMu while it waits.           *)
EnterUnlessStopping ==
  /\ ~stopped
  /\ Step("idle", "list")
  /\ \/ /\ asked > 0 /\ asked' = asked - 1
        /\ run' = [Idle EXCEPT !.by = "api"]
        /\ known' = (known /\ ~switched) /\ switched' = FALSE
        /\ UNCHANGED probing
     \/ /\ probing /\ probing' = FALSE
        /\ run' = [Idle EXCEPT !.by = "probe"]
        /\ UNCHANGED <<asked, known, switched>>
  /\ UNCHANGED <<db, sig, edits, held, relay, fresh, stop>>

Enter ==
  /\ Step("idle", "list")
  /\ \/ /\ asked > 0 /\ asked' = asked - 1
        /\ run' = [Idle EXCEPT !.by = "api"]
        /\ known' = (known /\ ~switched) /\ switched' = FALSE
        /\ UNCHANGED probing
     \/ /\ probing /\ probing' = FALSE
        /\ run' = [Idle EXCEPT !.by = "probe"]
        /\ UNCHANGED <<asked, known, switched>>
  /\ UNCHANGED <<db, sig, edits, held, relay, fresh, stop>>

(* reconcileOutputs reads the store in three queries.                      *)
ListDestinations ==
  /\ Step("list", "tiers")
  /\ run' = [run EXCEPT !.rows = db]
  /\ UNCHANGED <<held, relay, fresh>> /\ OtherSide
ListRenditions ==
  /\ Step("tiers", "count")
  /\ run' = [run EXCEPT !.sigs = sig]
  /\ UNCHANGED <<held, relay, fresh>> /\ OtherSide

(* A rendition is wanted while an enabled destination is on it; a          *)
(* destination whose rendition went away between the queries cannot run;   *)
(* while the layout is unknown nothing is planned at all.                  *)
Wanted(r) == IF \E d \in Dests : db[d].on /\ db[d].rend = r THEN <<run.sigs[r]>> ELSE Absent
(* Mutant of DestSpec: the rendition's settings are no part of it.         *)
DestSpecRow(row, want) == <<row.rend, row.ver, 0>>
DestSpec(row, want) ==
  <<row.rend, row.ver, IF row.rend = Passthrough THEN 0 ELSE want[row.rend][1]>>
PlanOf(d, want) ==
  LET row == run.rows[d]
  IN IF ~known \/ ~row.on THEN Absent
     ELSE IF row.rend # Passthrough /\ want[row.rend] = Absent THEN Broken
     ELSE DestSpec(row, want)
HaveSpec(r) == IF tier[r] = "map" THEN con[Encode(r)].spec ELSE NoSpec
Decide ==
  /\ Step("count", "sort")
  /\ LET want == [r \in Rends |-> Wanted(r)]
     IN run' = [run EXCEPT
          !.want = want,
          !.plan = [d \in Dests |-> PlanOf(d, want)],
          !.stopR = {r \in Rends : tier[r] \in {"map", "error"} /\ want[r] # HaveSpec(r)},
          !.startR = {r \in Rends : want[r] # Absent /\ want[r] # HaveSpec(r)},
          !.left = IF known THEN {d \in Dests : run.rows[d].on} ELSE {}]
  /\ UNCHANGED <<held, relay, fresh>> /\ OtherSide

(* upstreamHub: the ingest's hub, or that of a rendition that is running.  *)
HubFor(rend) == IF rend = Passthrough THEN Source
                ELSE IF tier[rend] = "map" THEN feed[rend] ELSE NoHub

(* stopDestinations: what is gone, disabled, broken or running with other  *)
(* arguments leaves the map under the lock and is torn down after it.      *)
(* Mutant of Keep: one changed destination restarts them all.              *)
KeepAll(d) ==
  /\ place[d] = "map"
  /\ \A e \in Dests : place[e] = "map" => con[Main(e)].spec = run.plan[e]
  /\ con[Main(d)].hub = HubFor(run.rows[d].rend)
Keep(d) ==
  /\ place[d] = "map"
  /\ run.plan[d] \notin {Absent, Broken}
  /\ con[Main(d)].spec = run.plan[d]
  /\ con[Main(d)].hub = HubFor(run.rows[d].rend)
SortDestinations ==
  /\ Step("sort", "stopDests")
  /\ place' = [d \in Dests |->
       IF place[d] \notin {"map", "error"} \/ Keep(d) THEN place[d]
       ELSE IF place[d] = "map" THEN "leaving" ELSE "none"]
  /\ UNCHANGED <<tier, con, ph, feed, relay, run, fresh>> /\ OtherSide

(* teardownDest, step by step; who is the goroutine that took the entry.   *)
Done(d) == place' = [place EXCEPT ![d] = "none"] /\ ph' = [ph EXCEPT ![d] = "stop"]
TeardownDest(d, who) ==
  /\ place[d] = who
  /\ \/ /\ ph[d] = "stop" /\ StopProcess(Main(d))
        /\ ph' = [ph EXCEPT ![d] = "release"]
        /\ UNCHANGED <<place, open, subs, mine, pool, other>>
     \/ /\ ph[d] = "release" /\ LetGo(Main(d), con[Main(d)])
        /\ IF con[Backup(d)].port = NoPort THEN Done(d)
           ELSE ph' = [ph EXCEPT ![d] = "bstop"] /\ UNCHANGED place
        /\ UNCHANGED <<con, open, other, zombie, faults>>
     \/ /\ ph[d] = "bstop" /\ StopProcess(Backup(d))
        /\ ph' = [ph EXCEPT ![d] = "brelease"]
        /\ UNCHANGED <<place, open, subs, mine, pool, other>>
     \/ /\ ph[d] = "brelease" /\ LetGo(Backup(d), con[Backup(d)])
        /\ Done(d)
        /\ UNCHANGED <<con, open, other, zombie, faults>>
  /\ UNCHANGED <<store, tier, feed, run, fresh>>

StopDestination(d) ==           \* one after the other
  /\ pc = "stopDests" /\ UNCHANGED <<pc, stop>>
  /\ \A e \in Dests \ {d} : place[e] = "leaving" => ph[e] = "stop"
  /\ TeardownDest(d, "leaving")
DestinationsStopped ==
  /\ Step("stopDests", "stopRends")
  /\ \A d \in Dests : place[d] # "leaving"
  /\ UNCHANGED <<held, relay, run, fresh>> /\ OtherSide

(* Then the renditions that changed or that nothing selects any more.      *)
TakeRendition ==
  /\ pc = "stopRends" /\ run.stopR # {}
  /\ LET r == Min(run.stopR)
     IN IF tier[r] = "map"
        THEN Goto("stopRend") /\ tier' = [tier EXCEPT ![r] = "leaving"] /\ UNCHANGED run
        ELSE /\ tier' = [tier EXCEPT ![r] = IF @ = "error" THEN "none" ELSE @]
             /\ run' = [run EXCEPT !.stopR = @ \ {r}] /\ UNCHANGED pc
  /\ UNCHANGED <<place, con, ph, feed, relay, fresh>> /\ OtherSide
StopRendition ==
  /\ Step("stopRend", "closeRend")
  /\ StopProcess(Encode(Min(run.stopR)))
  /\ UNCHANGED <<place, tier, ph, feed, open, subs, mine, pool, other, run, fresh>> /\ OtherSide
(* Mutant of CloseRendition: closes the hub and keeps the port.            *)
CloseKeepingPort(r) ==
  /\ Unsubscribe(con[Encode(r)].hub, Encode(r)) /\ UNCHANGED <<mine, pool>>
  /\ open' = open \ {feed[r]}
  /\ tier' = [tier EXCEPT ![r] = "none"]
CloseRendition(r) ==            \* the last of teardownRendition
  /\ LetGo(Encode(r), con[Encode(r)])
  /\ open' = open \ {feed[r]}
  /\ tier' = [tier EXCEPT ![r] = "none"]
RenditionStopped ==
  /\ Step("closeRend", "stopRends")
  /\ CloseRendition(Min(run.stopR))
  /\ run' = [run EXCEPT !.stopR = @ \ {Min(run.stopR)}]
  /\ UNCHANGED <<place, con, ph, feed, other, zombie, faults, fresh>> /\ OtherSide
RenditionsStopped ==
  /\ Step("stopRends", "startRends") /\ run.stopR = {}
  /\ UNCHANGED <<held, relay, run, fresh>> /\ OtherSide

(* A consumer is built before anything can find it: a port, a name on the  *)
(* hub it reads, a process that is not started.                            *)
Build(c, h, spec) ==
  \E p \in FreePorts :
    /\ Alloc(p) /\ ~Taken(h, c)
    /\ subs' = subs \cup {<<h, c, p>>}
    /\ fresh' = [proc |-> "new", port |-> p, hub |-> h, spec |-> spec]
CannotBuild(c, h) == FreePorts = {} \/ Taken(h, c)
Discard(c) == LetGo(c, fresh) /\ fresh' = None

(* A failure is recorded in the map for the next reconcile to retry; after  *)
(* StopWithin the record names nothing that runs and is left out.          *)
FailDest(d) == place' = [place EXCEPT ![d] = IF stopped THEN @ ELSE "error"]
FailRend(r) == tier' = [tier EXCEPT ![r] = IF stopped THEN @ ELSE "error"]

(* startRendition: its own hub, published only if StopWithin has not run,  *)
(* and started after the lock is released.                                 *)
FreshHub(r) == CHOOSE h \in {r} \X {0, 1} :
  /\ h \notin open
  /\ \A c \in Consumers : con[c].hub = h => con[c].proc \in {"none", "gone"}
BuildRendition ==
  /\ pc = "startRends" /\ run.startR # {}
  /\ LET r == Min(run.startR)
     IN \/ /\ Build(Encode(r), Source, run.want[r])
           /\ open' = open \cup {FreshHub(r)}
           /\ run' = [run EXCEPT !.hub = FreshHub(r)]
           /\ Goto("publishRend")
           /\ UNCHANGED <<tier, other, zombie, faults>>
        \/ /\ CannotBuild(Encode(r), Source)
           /\ FailRend(r)
           /\ run' = [run EXCEPT !.startR = @ \ {r}]
           /\ UNCHANGED <<pc, fresh, relay>>
  /\ UNCHANGED <<place, con, ph, feed>> /\ OtherSide
PublishRendition ==
  /\ pc = "publishRend"
  /\ LET r == Min(run.startR)
     IN IF stopped
        THEN /\ Goto("startRends")
             /\ Discard(Encode(r)) /\ open' = open \ {run.hub}
             /\ run' = [run EXCEPT !.startR = @ \ {r}, !.hub = NoHub]
             /\ UNCHANGED <<tier, con, feed>>
        ELSE /\ Goto("runRend")
             /\ tier' = [tier EXCEPT ![r] = "map"]
             /\ con' = [con EXCEPT ![Encode(r)] = fresh]
             /\ feed' = [feed EXCEPT ![r] = run.hub]
             /\ fresh' = None /\ UNCHANGED <<open, subs, mine, pool, run>>
  /\ UNCHANGED <<place, ph, other, zombie, faults>> /\ OtherSide

(* Start does nothing on a process that Stop has retired.                  *)
(* Mutant of StartProcess: a retired process starts again.                 *)
StartAgain(c) == con' = [con EXCEPT ![c].proc = IF @ \in {"new", "gone"} THEN "up" ELSE @]
StartProcess(c) == con' = [con EXCEPT ![c].proc = IF @ = "new" THEN "up" ELSE @]
RunRendition ==
  /\ Step("runRend", "startRends")
  /\ StartProcess(Encode(Min(run.startR)))
  /\ run' = [run EXCEPT !.startR = @ \ {Min(run.startR)}, !.hub = NoHub]
  /\ UNCHANGED <<place, tier, ph, feed, relay, fresh>> /\ OtherSide
RenditionsStarted ==
  /\ Step("startRends", "startDests") /\ run.startR = {}
  /\ UNCHANGED <<held, relay, run, fresh>> /\ OtherSide

(* startDestinations, in the order of their ids.                           *)
Next1 == Min(run.left)
Skip  == run' = [run EXCEPT !.left = @ \ {Next1}, !.hub = NoHub, !.old = None]
LookDestination ==
  /\ pc = "startDests" /\ run.left # {}
  /\ LET hub == HubFor(run.rows[Next1].rend)
     IN IF place[Next1] \in {"map", "error"}
        THEN Goto("backup") /\ UNCHANGED <<place, run>>
        ELSE IF run.plan[Next1] = Broken \/ hub = NoHub
             THEN FailDest(Next1) /\ Skip /\ UNCHANGED pc
             ELSE Goto("buildDest") /\ run' = [run EXCEPT !.hub = hub] /\ UNCHANGED place
  /\ UNCHANGED <<tier, con, ph, feed, relay, fresh>> /\ OtherSide
BuildDestination ==
  /\ pc = "buildDest"
  /\ LET d == Next1
     IN \/ /\ Build(Main(d), run.hub, run.plan[d])
           /\ Goto("publishDest")
           /\ UNCHANGED <<place, run, open, other, zombie, faults>>
        \/ /\ CannotBuild(Main(d), run.hub)
           /\ FailDest(d)
           /\ Skip /\ Goto("startDests")
           /\ UNCHANGED <<fresh, relay>>
  /\ UNCHANGED <<tier, con, ph, feed>> /\ OtherSide
PublishDestination ==
  /\ pc = "publishDest"
  /\ LET d == Next1
     IN IF stopped
        THEN Discard(Main(d)) /\ Goto("backup") /\ UNCHANGED <<place, con>>
        ELSE /\ place' = [place EXCEPT ![d] = "map"]
             /\ con' = [con EXCEPT ![Main(d)] = fresh, ![Backup(d)] = None]
             /\ fresh' = None /\ Goto("runDest")
             /\ UNCHANGED <<subs, mine, pool>>
  /\ UNCHANGED <<tier, ph, feed, open, other, zombie, faults, run>> /\ OtherSide
RunDestination ==
  /\ Step("runDest", "backup")
  /\ StartProcess(Main(Next1))
  /\ UNCHANGED <<place, tier, ph, feed, relay, run, fresh>> /\ OtherSide

(* reconcileBackup: a changed backup is stopped, its successor built aside *)
(* and swapped in only if the entry is still the one in the map.           *)
BackupSpec(d) == IF run.rows[d].bk = 0 THEN NoSpec ELSE <<run.rows[d].bk>>
(* Mutant of LookBackup: a backup that runs is left alone.                 *)
LookBackupOnce ==
  /\ pc = "backup"
  /\ LET d == Next1
     IN IF place[d] # "map" \/ con[Backup(d)].spec = BackupSpec(d) \/ UpOf(Backup(d))
        THEN Skip /\ Goto("startDests")
        ELSE Goto("stopBackup") /\ run' = [run EXCEPT !.old = con[Backup(d)]]
  /\ UNCHANGED <<held, relay, fresh>> /\ OtherSide
LookBackup ==
  /\ pc = "backup"
  /\ LET d == Next1
     IN IF place[d] # "map" \/ con[Backup(d)].spec = BackupSpec(d)
        THEN Skip /\ Goto("startDests")
        ELSE Goto("stopBackup") /\ run' = [run EXCEPT !.old = con[Backup(d)]]
  /\ UNCHANGED <<held, relay, fresh>> /\ OtherSide
StopBackup ==
  /\ Step("stopBackup", "dropBackup")
  /\ IF run.old.proc = "none" THEN UNCHANGED <<con, zombie, faults>>
     ELSE StopProcess(Backup(Next1))
  /\ UNCHANGED <<place, tier, ph, feed, open, subs, mine, pool, other, run, fresh>> /\ OtherSide
DropBackup ==
  /\ Step("dropBackup", "buildBackup")
  /\ LetGo(Backup(Next1), run.old)
  /\ UNCHANGED <<held, open, other, zombie, faults, run, fresh>> /\ OtherSide
BuildBackup ==
  /\ Step("buildBackup", "publishBackup")
  /\ LET c == Backup(Next1)
         h == con[Main(Next1)].hub
         s == BackupSpec(Next1)
     IN \/ s # NoSpec /\ Build(c, h, s)
        \/ /\ s = NoSpec \/ CannotBuild(c, h)
           /\ fresh' = None /\ UNCHANGED <<subs, mine, pool>>
  /\ UNCHANGED <<held, open, other, zombie, faults, run>> /\ OtherSide
PublishBackup ==
  /\ pc = "publishBackup"
  /\ IF place[Next1] = "map"
     THEN /\ con' = [con EXCEPT ![Backup(Next1)] = fresh]
          /\ fresh' = None /\ Goto("runBackup")
          /\ UNCHANGED <<subs, mine, pool, run>>
     ELSE Discard(Backup(Next1)) /\ Skip /\ Goto("startDests") /\ UNCHANGED con
  /\ UNCHANGED <<place, tier, ph, feed, open, other, zombie, faults>> /\ OtherSide
RunBackup ==
  /\ Step("runBackup", "startDests")
  /\ StartProcess(Backup(Next1)) /\ Skip
  /\ UNCHANGED <<place, tier, ph, feed, relay, fresh>> /\ OtherSide

Leave ==
  /\ Step("startDests", "idle") /\ run.left = {}
  /\ run' = Idle
  /\ UNCHANGED <<held, relay, fresh>> /\ OtherSide

Pass ==
  \/ Enter \/ ListDestinations \/ ListRenditions \/ Decide \/ SortDestinations
  \/ (\E d \in Dests : StopDestination(d)) \/ DestinationsStopped
  \/ TakeRendition \/ StopRendition \/ RenditionStopped \/ RenditionsStopped
  \/ BuildRendition \/ PublishRendition \/ RunRendition \/ RenditionsStarted
  \/ LookDestination \/ BuildDestination \/ PublishDestination \/ RunDestination
  \/ LookBackup \/ StopBackup \/ DropBackup \/ BuildBackup \/ PublishBackup \/ RunBackup
  \/ Leave

-----------------------------------------------------------------------------
(* StopWithin: cancel the loops, take everything out of the maps under the *)
(* lock, then destinations in parallel, renditions, the loops, the hub.    *)
Halt(l, m) == stop = l /\ stop' = m /\ UNCHANGED <<store, pc, run, fresh>>
StopCalled == Halt("no", "called") /\ UNCHANGED <<held, relay>>
Collect ==
  /\ Halt("called", "dests")
  /\ place' = [d \in Dests |-> CASE place[d] = "map" -> "stopping"
                                 [] place[d] = "error" -> "none" [] OTHER -> place[d]]
  /\ tier' = [r \in Rends |-> CASE tier[r] = "map" -> "stopping"
                                [] tier[r] = "error" -> "none" [] OTHER -> tier[r]]
  /\ UNCHANGED <<con, ph, feed, relay>>
StopCollected(d) == stop = "dests" /\ TeardownDest(d, "stopping") /\ UNCHANGED <<pc, stop>>
DestinationsDown ==
  /\ Halt("dests", "rends")
  /\ \A d \in Dests : place[d] # "stopping"
  /\ UNCHANGED <<held, relay>>
StopEncode(r) ==
  /\ stop = "rends" /\ tier[r] = "stopping" /\ con[Encode(r)].proc # "gone"
  /\ StopProcess(Encode(r))
  /\ UNCHANGED <<store, place, tier, ph, feed, open, subs, mine, pool, other, pc, run, fresh, stop>>
EncodesDown ==
  /\ Halt("rends", "release")
  /\ \A r \in Rends : tier[r] = "stopping" => con[Encode(r)].proc = "gone"
  /\ UNCHANGED <<held, relay>>
ReleaseStopped(r) ==
  /\ stop = "release" /\ tier[r] = "stopping" /\ CloseRendition(r)
  /\ UNCHANGED <<store, place, con, ph, feed, other, zombie, faults, pc, run, fresh, stop>>
LoopsDone ==                    \* e.wg.Wait, then the ingest's hub
  /\ Halt("release", "done")
  /\ \A r \in Rends : tier[r] # "stopping"
  /\ ~probing /\ ~(pc # "idle" /\ run.by = "probe")
  /\ open' = open \ {Source}
  /\ UNCHANGED <<held, subs, mine, pool, other, zombie, faults>>

StopWithin ==
  \/ Collect \/ (\E d \in Dests : StopCollected(d)) \/ DestinationsDown
  \/ (\E r \in Rends : StopEncode(r)) \/ EncodesDown
  \/ (\E r \in Rends : ReleaseStopped(r)) \/ LoopsDone

Next ==
  \/ Pass \/ StopWithin \/ StopCalled \/ ProbeLands
  \/ (\E d \in Dests : EditDest(d)) \/ (\E r \in Rends : EditRend(r)) \/ SwitchIngest
  \/ OtherTakes \/ OtherGives \/ ZombieDies

Spec == Init /\ [][Next]_vars

(* Goroutines are scheduled and reconcileMu is granted in the end; a Stop   *)
(* returns, because the supervisor bounds it.                              *)
Fairness == WF_vars(Pass) /\ WF_vars(StopWithin) /\ WF_vars(ProbeLands)
FairSpec == Spec /\ Fairness

-----------------------------------------------------------------------------
ConType == [proc : {"none", "new", "up", "gone"}, port : Ports \cup {NoPort},
            hub : Hubs \cup {NoHub}, spec : Specs]

StoreTypes ==
  /\ db \in [Dests -> Rows] /\ sig \in [Rends -> {0, 1}]
  /\ edits \in 0 .. MaxEdits /\ asked \in 0 .. MaxEdits + 1
  /\ switched \in BOOLEAN /\ known \in BOOLEAN /\ probing \in BOOLEAN
HeldTypes ==
  /\ place \in [Dests -> {"none", "map", "error", "leaving", "stopping"}]
  /\ tier \in [Rends -> {"none", "map", "error", "leaving", "stopping"}]
  /\ con \in [Consumers -> ConType] /\ fresh \in ConType
  /\ ph \in [Dests -> {"stop", "release", "bstop", "brelease"}]
  /\ feed \in [Rends -> Hubs \cup {NoHub}]
RelayTypes ==
  /\ open \subseteq Hubs /\ subs \subseteq Hubs \X Consumers \X Ports
  /\ mine \subseteq Ports /\ pool \subseteq Ports /\ other \subseteq Ports
  /\ zombie \subseteq Ports /\ faults \in 0 .. MaxFaults

(* Every variable keeps its type; edits, faults and the pool stay bounded. *)
TypeOK ==
  /\ StoreTypes /\ HeldTypes /\ RelayTypes
  /\ \A d \in DOMAIN run.plan : run.plan[d] \in Specs \cup {Absent, Broken}
  /\ stop \in {"no", "called", "dests", "rends", "release", "done"}

(* A running output is fed: its hub is open and delivers to it, by name,   *)
(* on its port.  Only an output that is already being taken down by a      *)
(* reconcile may find its hub closed by StopWithin.                        *)
Fed(c) == con[c].hub \in open /\ <<con[c].hub, c, con[c].port>> \in subs
RunningIsFed ==
  /\ \A d \in Dests : place[d] = "map" /\ UpOf(Main(d)) => Fed(Main(d))
  /\ \A d \in Dests : place[d] = "map" /\ UpOf(Backup(d)) => Fed(Backup(d))
  /\ \A r \in Rends : tier[r] = "map" /\ UpOf(Encode(r)) => Fed(Encode(r))
  /\ ~stopped => \A c \in Consumers : UpOf(c) => con[c].hub \in open

(* No relay port is in two hands: not two children's, not a child's and    *)
(* another engine's.  Nor is one that a killed child is still bound to in  *)
(* the hands of a child that runs, or of another engine's.                 *)
PortOwnedOnce ==
  /\ \A c, e \in Consumers : c # e /\ UpOf(c) /\ UpOf(e) => con[c].port # con[e].port
  /\ \A c \in Consumers : UpOf(c) => con[c].port \in mine \ zombie
  /\ zombie \cap other = {}
  /\ ~stopped => \A s \in subs : s[3] \in mine
  /\ mine \cap other = {} /\ mine \cup other = pool

(* The allocator's promise (relay/ports.go): no two subscribers, of one     *)
(* engine or of two, are handed the same number, so none silently receives *)
(* the other's stream.  Violated: stopBackup gives a port back and leaves  *)
(* it in the struct, from which a shutdown gives it back again.            *)
NumberHandedOnce ==
  \A s \in subs : s[3] \notin other /\ \A t \in subs : s[3] = t[3] => s = t

(* Nothing runs behind the engine's back: a child that is up belongs to an *)
(* entry of the maps or to somebody who is taking it down.                 *)
NoOrphan ==
  /\ \A d \in Dests : place[d] \in {"none", "error"} => ~UpOf(Main(d)) /\ ~UpOf(Backup(d))
  /\ \A r \in Rends : tier[r] \in {"none", "error"} => ~UpOf(Encode(r))

(* Once StopWithin has returned and no reconcile is left in flight, nothing *)
(* runs, no port is held and no hub is open or delivers to anyone.         *)
Quiet == pc = "idle" /\ asked = 0 /\ ~probing
ShutdownLeavesNothing ==
  stop = "done" /\ Quiet =>
    mine = {} /\ subs = {} /\ open = {} /\ \A c \in Consumers : ~UpOf(c)

(* Every port and every child is accounted for, from its allocation to the *)
(* end of the programme.                                                   *)
PortsAccountedFor == TypeOK /\ PortOwnedOnce /\ NoOrphan /\ ShutdownLeavesNothing

(* When no reconcile is due, the running outputs are those of the store:   *)
(* each enabled destination runs with its row's arguments, on the hub its  *)
(* rendition writes now, or says why not; nothing else runs.               *)
SpecNow(d) == LET row == db[d] IN
  <<row.rend, row.ver, IF row.rend = Passthrough THEN 0 ELSE sig[row.rend]>>
Settled(d) ==
  IF ~db[d].on \/ ~known THEN place[d] = "none"
  ELSE \/ place[d] = "error"
       \/ /\ place[d] = "map" /\ UpOf(Main(d)) /\ con[Main(d)].spec = SpecNow(d)
          /\ con[Main(d)].hub = HubFor(db[d].rend)
          /\ UpOf(Backup(d)) => con[Backup(d)].spec = <<db[d].bk>>
AsTheStoreSays ==
  stop = "no" /\ Quiet /\ ~switched =>
    /\ \A d \in Dests : Settled(d)
    /\ \A r \in Rends : tier[r] = "map" => \E d \in Dests : db[d].on /\ db[d].rend = r

(* A destination is interrupted only for its own sake: a reconcile that no *)
(* edit overtakes (an edit is waiting while asked is not 0) and that knows *)
(* the layout takes down no output whose row and rendition still are those *)
(* it was started from.                                                    *)
Unedited == asked = 0 /\ known /\ ~probing
OnlyItsOwnEdit ==
  [][\A d \in Dests :
       place[d] = "map" /\ place'[d] = "leaving" /\ Unedited
         => con[Main(d)].spec # SpecNow(d) \/ ~db[d].on]_vars

(* Once the operator stops editing, the outputs come to be what the store   *)
(* says, unless the programme is stopped first: no edit, and no layout the *)
(* probe measured, is left for a reconcile nobody runs.                    *)
EventuallySettled == <>[](stop # "no" \/ \A d \in Dests : Settled(d))

(* A shutdown completes, whatever reconcile is in flight.                  *)
ShutdownCompletes == (stop = "called") ~> (stop = "done")
=============================================================================

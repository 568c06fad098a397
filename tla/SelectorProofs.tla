---------------------------- MODULE SelectorProofs ----------------------------
(***************************************************************************)
(* The safety of failover, for any settings and any number of saves,       *)
(* switches, failures and feeds that are slow to die.                      *)
(***************************************************************************)
EXTENDS Selector, FiniteSetTheorems, TLAPS

(* Who holds selMu, and what that says of the reconcile and of the tier.   *)
Holding ==
  /\ rec.pc = "apply" <=> op.who = "reconcile"
  /\ op.step \in {"backup", "playlist"} => op.who = "reconcile"
  /\ op.step = "start" => sel = "up" /\ feed = None
  /\ sel # "up" => feed = None
  /\ rec.pc = "up" => sil = None

(* After StopTake there is no tier, and nothing brings one up.             *)
Halted ==
  /\ Stopped => sel # "up" /\ bk = None /\ pl = None /\ ~SilenceUp
  /\ Stopped /\ op.step \in {"backup", "playlist"} => ~op.s.failover
  /\ halt # "taken" => taken = Nothing

(* Whoever is responsible for the feed on air has all that die behind it,  *)
(* and nothing dies behind nobody.                                         *)
Line == IF feed # None THEN feed.prev
        ELSE IF op.step = "start" THEN op.behind
        ELSE IF taken.feed # None THEN taken.feed.prev ELSE {}
Chain == DyingIds \subseteq Line

(* The dying and those that outlived their Stop are few, and the feed on   *)
(* air is none of them.                                                    *)
Apart ==
  /\ IsFiniteSet(dying) /\ IsFiniteSet(outlived)
  /\ Cardinality(dying) + Cardinality(outlived) <= MaxDying
  /\ feed # None => feed.id \notin DyingIds \cup outlived
  /\ taken.feed # None => taken.feed.id \notin DyingIds \cup outlived
  /\ \A d \in dying : ~d.named

(* A relay's subscriber is the feed that reads it, and nobody else.        *)
Reads(f, h) == f # None /\ f.in = h /\ subs[h] = f.id
Subscribed ==
  /\ \A h \in HubIds \cup {Ingest} : subs[h] # None => Reads(feed, h) \/ Reads(taken.feed, h)
  /\ feed # None => (feed.in = None <=> feed.kind = "slate")
  /\ feed # None /\ feed.kind # "slate" => Fed(feed)

(* A copy hop of the backup or the playlist reads the relay that serves it.*)
Inlet ==
  /\ feed # None => feed.up.kind = feed.kind
  /\ feed # None /\ feed.kind = "backup" => bk # None /\ feed.in = bk.hub
  /\ feed # None /\ feed.kind = "playlist" => pl # None /\ feed.in = pl.hub
  /\ op.step = "start" => op.up.kind = op.want

(* The primary's: while no reconcile has touched the silence tier, a feed  *)
(* reads what it was started for; a feed that was started for what now     *)
(* serves it reads that.                                                   *)
Quiet == rec.pc \in {"idle", "detach", "down"}
Intake ==
  /\ feed # None /\ feed.kind = "primary" =>
       /\ feed.up.hub = HubOf("primary") => feed.in = HubOf("primary")
       /\ Quiet => feed.up.hub = HubOf("primary")
  /\ op.step = "start" /\ op.want = "primary" /\ (Quiet \/ rec.pc = "apply") =>
       op.up.hub = HubOf("primary")

(* The stable clock: a primary that has delivered for returnStable, and is *)
(* not degraded, has not been degraded in that time.                       *)
Stable == live["primary"] = "steady" /\ ~deg => calm

IInv == /\ TypeOK /\ Holding /\ Halted /\ Chain /\ Apart /\ Subscribed /\ Inlet /\ Intake
        /\ NoHubNoCandidate /\ Stable

-----------------------------------------------------------------------------

(* One more element makes a finite set at most one larger.                 *)
LEMMA OneMore ==
  ASSUME NEW S, IsFiniteSet(S), NEW n \in Nat, Cardinality(S) <= n, NEW x
  PROVE  IsFiniteSet(S \cup {x}) /\ Cardinality(S \cup {x}) <= n + 1
<1>1. Cardinality(S) \in Nat
  BY FS_CardinalityType
<1> QED
  BY <1>1, FS_AddElement

(* Something of the dying is as few as they.                               *)
LEMMA OfTheDying ==
  ASSUME Apart, NEW f, f = [d \in dying |-> f[d]], NEW T, T = {f[d] : d \in dying}
  PROVE  /\ IsFiniteSet(T) /\ Cardinality(T) <= MaxDying
         /\ Cardinality(T) + Cardinality(outlived) <= MaxDying
<1>1. f \in Surjection(dying, T)
  BY DEF Surjection
<1>2. /\ IsFiniteSet(dying) /\ Cardinality(dying) \in Nat /\ Cardinality(outlived) \in Nat
      /\ Cardinality(dying) + Cardinality(outlived) <= MaxDying
  BY FS_CardinalityType DEF Apart
<1>3. IsFiniteSet(T) /\ Cardinality(T) <= Cardinality(dying)
  BY <1>1, <1>2, FS_Surjection
<1>4. Cardinality(T) \in Nat
  BY <1>3, FS_CardinalityType
<1> QED
  BY <1>2, <1>3, <1>4, BoundsAssumption

(* A new feed has an id of its own, a new relay a port of its own.         *)
LEMMA NewFeedIdExists ==
  ASSUME Apart
  PROVE  NewFeedId \in FeedIds \ (DyingIds \cup outlived)
<1>1. MaxDying \in Nat
  BY BoundsAssumption
<1> DEFINE f == [d \in dying |-> d.id]
           T == DyingIds \cup outlived
<1>2. DyingIds = {f[d] : d \in dying}
  BY DEF DyingIds
<1>3. f = [d \in dying |-> f[d]]
  OBVIOUS
<1> HIDE DEF f
<1>4. /\ IsFiniteSet(DyingIds) /\ IsFiniteSet(outlived)
      /\ Cardinality(DyingIds) + Cardinality(outlived) <= MaxDying
  BY <1>2, <1>3, OfTheDying DEF Apart
<1>5. IsFiniteSet(FeedIds) /\ Cardinality(FeedIds) = MaxDying + 1
  BY <1>1, FS_Interval DEF FeedIds
<1>6. IsFiniteSet(T) /\ Cardinality(T) <= MaxDying /\ Cardinality(T) \in Nat
  <2>1. IsFiniteSet(DyingIds \cap outlived)
    BY <1>4, FS_Subset
  <2>2. Cardinality(T)
          = Cardinality(DyingIds) + Cardinality(outlived) - Cardinality(DyingIds \cap outlived)
    BY <1>4, FS_Union
  <2>3. /\ Cardinality(DyingIds) \in Nat /\ Cardinality(outlived) \in Nat
        /\ Cardinality(DyingIds \cap outlived) \in Nat
    BY <1>4, <2>1, FS_CardinalityType
  <2>4. IsFiniteSet(T)
    BY <1>4, FS_Union
  <2> QED
    BY <1>1, <1>4, <2>2, <2>3, <2>4, FS_CardinalityType
<1>7. ~(FeedIds \subseteq T)
  <2> SUFFICES ASSUME FeedIds \subseteq T PROVE FALSE
    OBVIOUS
  <2> HIDE DEF T
  <2>1. Cardinality(FeedIds) <= Cardinality(T)
    BY <1>6, FS_Subset
  <2> QED
    BY <2>1, <1>1, <1>5, <1>6
<1> QED
  BY <1>7 DEF NewFeedId

LEMMA NewHubExists ==
  ASSUME Apart
  PROVE  NewHub \in HubIds \ InUse
<1>1. MaxDying \in Nat /\ MaxHubs \in Nat /\ MaxHubs > MaxDying + 11
  BY BoundsAssumption, HubsAssumption
<1> DEFINE q == [d \in dying |-> d.in]
           S0 == {d.in : d \in dying}
           S1 == S0 \cup {sil}
           S2 == S1 \cup {Hub(bk)}
           S3 == S2 \cup {Hub(pl)}
           S4 == S3 \cup {taken.sil}
           S5 == S4 \cup {Hub(taken.bk)}
           S6 == S5 \cup {Hub(taken.pl)}
           S7 == S6 \cup {feed.in}
           S8 == S7 \cup {feed.up.hub}
           S9 == S8 \cup {taken.feed.in}
           S10 == S9 \cup {taken.feed.up.hub}
           S11 == S10 \cup {op.up.hub}
<1>2. S0 = {q[d] : d \in dying} /\ q = [d \in dying |-> q[d]]
  OBVIOUS
<1>3. InUse \subseteq S11
  <2> SUFFICES ASSUME NEW x \in InUse PROVE x \in S11
    OBVIOUS
  <2>1. CASE x \in {sil, Hub(bk), Hub(pl), taken.sil, Hub(taken.bk), Hub(taken.pl)}
    BY <2>1
  <2>2. CASE x \in S0
    BY <2>2
  <2>3. ASSUME x \in UNION {IF f = None THEN {} ELSE {f.in, f.up.hub} : f \in {feed, taken.feed}}
        PROVE  x \in {feed.in, feed.up.hub, taken.feed.in, taken.feed.up.hub}
    <3>1. PICK g \in {feed, taken.feed} : x \in IF g = None THEN {} ELSE {g.in, g.up.hub}
      BY <2>3, Zenon
    <3> QED
      BY <3>1
  <2>4. CASE x \in {feed.in, feed.up.hub, taken.feed.in, taken.feed.up.hub}
    BY <2>4
  <2>5. CASE x \in IF op.step = "start" THEN {op.up.hub} ELSE {}
    BY <2>5
  <2>6. \/ x \in {sil, Hub(bk), Hub(pl), taken.sil, Hub(taken.bk), Hub(taken.pl)}
        \/ x \in S0
        \/ x \in UNION {IF f = None THEN {} ELSE {f.in, f.up.hub} : f \in {feed, taken.feed}}
        \/ x \in IF op.step = "start" THEN {op.up.hub} ELSE {}
    <3> DEFINE U == UNION {IF f = None THEN {} ELSE {f.in, f.up.hub} : f \in {feed, taken.feed}}
               I == IF op.step = "start" THEN {op.up.hub} ELSE {}
               A == {sil, Hub(bk), Hub(pl), taken.sil, Hub(taken.bk), Hub(taken.pl)}
    <3>1. InUse = A \cup S0 \cup U \cup I
      BY DEF InUse
    <3> HIDE DEF U, I, A, S0
    <3>2. x \in A \/ x \in S0 \/ x \in U \/ x \in I
      BY <3>1
    <3> QED
      BY <3>2 DEF U, I, A
  <2> QED
    BY <2>1, <2>2, <2>3, <2>4, <2>5, <2>6
<1> HIDE DEF q, S0
<1>4. IsFiniteSet(S0) /\ Cardinality(S0) <= MaxDying
  BY <1>2, OfTheDying
<1>5. IsFiniteSet(S1) /\ Cardinality(S1) <= MaxDying + 1
  BY <1>1, <1>4, OneMore
<1> HIDE DEF S1
<1>6. IsFiniteSet(S2) /\ Cardinality(S2) <= MaxDying + 2
  <2>1. MaxDying + 1 \in Nat /\ MaxDying + 1 + 1 = MaxDying + 2
    BY <1>1
  <2> QED
    BY <1>5, <2>1, OneMore
<1> HIDE DEF S2
<1>7. IsFiniteSet(S3) /\ Cardinality(S3) <= MaxDying + 3
  <2>1. MaxDying + 2 \in Nat /\ MaxDying + 2 + 1 = MaxDying + 3
    BY <1>1
  <2> QED
    BY <1>6, <2>1, OneMore
<1> HIDE DEF S3
<1>8. IsFiniteSet(S4) /\ Cardinality(S4) <= MaxDying + 4
  <2>1. MaxDying + 3 \in Nat /\ MaxDying + 3 + 1 = MaxDying + 4
    BY <1>1
  <2> QED
    BY <1>7, <2>1, OneMore
<1> HIDE DEF S4
<1>9. IsFiniteSet(S5) /\ Cardinality(S5) <= MaxDying + 5
  <2>1. MaxDying + 4 \in Nat /\ MaxDying + 4 + 1 = MaxDying + 5
    BY <1>1
  <2> QED
    BY <1>8, <2>1, OneMore
<1> HIDE DEF S5
<1>10. IsFiniteSet(S6) /\ Cardinality(S6) <= MaxDying + 6
  <2>1. MaxDying + 5 \in Nat /\ MaxDying + 5 + 1 = MaxDying + 6
    BY <1>1
  <2> QED
    BY <1>9, <2>1, OneMore
<1> HIDE DEF S6
<1>11. IsFiniteSet(S7) /\ Cardinality(S7) <= MaxDying + 7
  <2>1. MaxDying + 6 \in Nat /\ MaxDying + 6 + 1 = MaxDying + 7
    BY <1>1
  <2> QED
    BY <1>10, <2>1, OneMore
<1> HIDE DEF S7
<1>12. IsFiniteSet(S8) /\ Cardinality(S8) <= MaxDying + 8
  <2>1. MaxDying + 7 \in Nat /\ MaxDying + 7 + 1 = MaxDying + 8
    BY <1>1
  <2> QED
    BY <1>11, <2>1, OneMore
<1> HIDE DEF S8
<1>13. IsFiniteSet(S9) /\ Cardinality(S9) <= MaxDying + 9
  <2>1. MaxDying + 8 \in Nat /\ MaxDying + 8 + 1 = MaxDying + 9
    BY <1>1
  <2> QED
    BY <1>12, <2>1, OneMore
<1> HIDE DEF S9
<1>14. IsFiniteSet(S10) /\ Cardinality(S10) <= MaxDying + 10
  <2>1. MaxDying + 9 \in Nat /\ MaxDying + 9 + 1 = MaxDying + 10
    BY <1>1
  <2> QED
    BY <1>13, <2>1, OneMore
<1> HIDE DEF S10
<1>15. IsFiniteSet(S11) /\ Cardinality(S11) <= MaxDying + 11
  <2>1. MaxDying + 10 \in Nat /\ MaxDying + 10 + 1 = MaxDying + 11
    BY <1>1
  <2> QED
    BY <1>14, <2>1, OneMore
<1> HIDE DEF S11
<1>16. ~(HubIds \subseteq S11)
  <2> SUFFICES ASSUME HubIds \subseteq S11 PROVE FALSE
    OBVIOUS
  <2>1. Cardinality(HubIds) = MaxHubs
    BY <1>1, FS_Interval DEF HubIds
  <2>2. Cardinality(HubIds) <= Cardinality(S11) /\ Cardinality(S11) \in Nat
    BY <1>15, FS_Subset, FS_CardinalityType
  <2> QED
    BY <2>1, <2>2, <1>1, <1>15
<1> QED
  BY <1>3, <1>16 DEF NewHub

-----------------------------------------------------------------------------
(* The fields of the records, one by one.                                  *)
LEMMA OpFields ==
  ASSUME TypeOK
  PROVE  /\ op.step \in {"idle", "backup", "playlist", "choose", "start"}
         /\ op.who \in Callers \cup {"nobody"} /\ (op.who = "nobody" <=> op.step = "idle")
         /\ op.step = "idle" => op = Idle
         /\ op.step # "idle" => op.s \in Configs
         /\ op.step = "start" => /\ op.want \in Kinds /\ op.up \in Upstreams
                                 /\ op.behind \subseteq FeedIds
BY DEF TypeOK, HolderTypes, Holders, Idle, Callers

LEMMA OpMoves ==
  ASSUME TypeOK, NEW p \in {"playlist", "choose"}, op.step \in {"backup", "playlist"}
  PROVE  /\ [op EXCEPT !.step = p] \in Holders
         /\ [op EXCEPT !.step = p].step = p
         /\ [op EXCEPT !.step = p].who = op.who /\ [op EXCEPT !.step = p].s = op.s
BY DEF TypeOK, HolderTypes, Holders, Idle, Callers

LEMMA RecFields ==
  ASSUME TypeOK
  PROVE  /\ rec.pc \in {"idle", "detach", "down", "up", "selector", "apply"}
         /\ rec.s \in Configs \cup {None} /\ rec.sig \in BOOLEAN
         /\ \A p \in {"idle", "detach", "down", "up", "selector", "apply"} :
              /\ [rec EXCEPT !.pc = p] \in Passes /\ [rec EXCEPT !.pc = p].pc = p
              /\ [rec EXCEPT !.pc = p].s = rec.s /\ [rec EXCEPT !.pc = p].sig = rec.sig
BY DEF TypeOK, HolderTypes, Passes

LEMMA FeedFields ==
  ASSUME NEW f \in Feeds
  PROVE  /\ f.id \in FeedIds /\ f.kind \in Kinds /\ f.up \in Upstreams
         /\ f.in \in Inputs /\ f.run \in BOOLEAN /\ f.prev \subseteq FeedIds /\ f # None
         /\ f.up.kind \in Kinds /\ f.up.sig \in Nat /\ f.up.hub \in Inputs
BY NoneAssumption DEF Feeds, Upstreams

LEMMA ExitedFeed ==
  ASSUME NEW f \in Feeds, NEW g, g = [f EXCEPT !.run = FALSE]
  PROVE  /\ g \in Feeds /\ g.id = f.id /\ g.kind = f.kind /\ g.up = f.up /\ g.in = f.in
         /\ g.prev = f.prev /\ g.run = FALSE
BY DEF Feeds

LEMMA TierFields ==
  ASSUME NEW t \in Tiers
  PROVE  t.hub \in HubIds /\ t.sig \in Nat /\ t # None
BY NoneAssumption DEF Tiers

LEMMA TakenFields ==
  ASSUME TypeOK
  PROVE  /\ taken.feed \in Feeds \cup {None} /\ taken.sil \in SilenceTiers
         /\ taken.bk \in Tiers \cup {None} /\ taken.pl \in Tiers \cup {None}
BY DEF TypeOK, HaltTypes

LEMMA KindsAre == Kinds = {"primary", "backup", "playlist", "slate"}
BY DEF Kinds, Ladder

(* The hubs a feed of a kind may read, and what it is started for.         *)
LEMMA HubOfInputs ==
  ASSUME TypeOK, NEW k \in Kinds
  PROVE  HubOf(k) \in Inputs /\ (k = "slate" => HubOf(k) = None)
         /\ (k = "primary" => HubOf(k) \in HubIds \cup {Ingest})
BY TierFields, KindsAre DEF TypeOK, TierTypes, HubOf, Hub, Inputs, SilenceUp, Ingest

LEMMA UpstreamFields ==
  ASSUME TypeOK, NEW k \in Kinds, NEW c \in Configs, NEW b \in BOOLEAN
  PROVE  /\ Upstream(c, k, b) \in Upstreams /\ Upstream(c, k, b).kind = k
         /\ k = "primary" => Upstream(c, k, b).hub = HubOf("primary")
<1>1. /\ c.backup \in Nat /\ c.playlist \in Nat /\ HubOf("primary") \in Inputs /\ None \in Inputs
  BY SettingsAssumption, HubOfInputs, KindsAre DEF Inputs
<1>2. BackupSig(c) \in Nat /\ PlaylistSig(c) \in Nat /\ Bit(b) \in Nat
  BY <1>1 DEF BackupSig, PlaylistSig, Bit
<1> QED
  BY <1>1, <1>2, KindsAre DEF Upstream, Upstreams

LEMMA SignaturesAre ==
  ASSUME NEW c \in Configs
  PROVE  BackupSig(c) \in Nat /\ PlaylistSig(c) \in Nat
BY SettingsAssumption DEF BackupSig, PlaylistSig

(* What is chosen is a kind.                                               *)
LEMMA ChoiceIsAKind ==
  ASSUME TypeOK, NEW c \in Configs
  PROVE  Choice(c) \in Kinds
<1>1. Available(c) \subseteq Kinds
  BY DEF Available
<1>2. Pinnable(c) \subseteq Kinds
  BY <1>1, KindsAre DEF Pinnable
<1>3. ASSUME NEW S, S \subseteq Kinds PROVE Best(S) \in Kinds
  <2>1. CASE S = {}
    BY <2>1, KindsAre DEF Best
  <2>2. CASE S # {}
    <3>1. \E k \in S : \A j \in S : Rank(k) <= Rank(j)
      <4>1. Rank("primary") = 1 /\ Rank("backup") = 2 /\ Rank("playlist") = 3 /\ Rank("slate") = 4
        BY DEF Rank, Ladder
      <4>2. \A k \in S : k \in {"primary", "backup", "playlist", "slate"}
        BY <1>3, KindsAre
      <4> HIDE DEF Rank
      <4>3. CASE "primary" \in S
        BY <4>1, <4>2, <4>3
      <4>4. CASE "primary" \notin S /\ "backup" \in S
        BY <4>1, <4>2, <4>4
      <4>5. CASE "primary" \notin S /\ "backup" \notin S /\ "playlist" \in S
        BY <4>1, <4>2, <4>5
      <4>6. CASE "primary" \notin S /\ "backup" \notin S /\ "playlist" \notin S
        BY <4>1, <4>2, <4>6, <2>2
      <4> QED
        BY <4>3, <4>4, <4>5, <4>6
    <3> QED
      BY <2>2, <3>1, <1>3 DEF Best
  <2> QED
    BY <2>1, <2>2
<1> QED
  BY <1>1, <1>2, <1>3, KindsAre DEF Choice

LEMMA ActsAreFew ==
  ASSUME WorldTypes
  PROVE  /\ acts > 0 => acts - 1 \in 0..MaxActs
         /\ \A ok \in Outcomes : Spend(ok) => acts' \in 0..MaxActs
<1>1. acts \in 0..MaxActs /\ MaxActs \in Nat
  BY BoundsAssumption DEF WorldTypes
<1>2. acts > 0 => acts - 1 \in 0..MaxActs
  BY <1>1
<1>3. ASSUME NEW ok \in Outcomes, Spend(ok) PROVE acts' \in 0..MaxActs
  <2>1. CASE acts > 0
    BY <1>1, <1>2, <1>3, <2>1 DEF Spend
  <2>2. CASE ~(acts > 0)
    <3>1. ok = TRUE
      BY <2>2, <1>3 DEF Outcomes
    <3> QED
      BY <1>1, <1>3, <3>1 DEF Spend
  <2> QED
    BY <2>1, <2>2
<1> QED
  BY <1>2, <1>3

(* The steps, one by one.                                                  *)
Step ==
  \/ Sweep \/ Hold \/ Choose \/ Start
  \/ \E k \in Kinds \cup {"auto"}, who \in {"operator", "fix"} : SwitchSource(k, who)
  \/ FixSource \/ ReconcileBegin \/ DetachFeedForSilence \/ SilenceDown \/ SilenceStart
  \/ KeepSelector \/ RenewSelector \/ ReconcileBackup \/ ReconcilePlaylist
  \/ StopTake \/ StopDown \/ Save \/ Probe \/ FeedExits
  \/ \E d \in dying : Finish(d)
  \/ \E k \in Sources : GraceElapses(k)
  \/ StableElapses \/ RespawnElapses \/ OutlivedExits

LEMMA StepsAre ==
  ASSUME SourceTypes, [Next]_vars
  PROVE  Step \/ UNCHANGED vars
<1>1. DOMAIN live = Sources
  BY DEF SourceTypes
<1> QED
  BY <1>1 DEF Next, Applies, Reconciles, Step


(* Every step preserves the types, group by group.                         *)
LEMMA WorldTypesNext ==
  ASSUME WorldTypes, SourceTypes, [Next]_vars
  PROVE  WorldTypes'
<1> USE DEF WorldTypes
<1>1. ASSUME Sweep PROVE WorldTypes'
  BY <1>1 DEF Sweep, Sampled, Recovered, Alive, Idle, tierVars, selVars,
       feedVars, haltVars
<1>2. ASSUME Hold PROVE WorldTypes'
  BY <1>2 DEF Hold, Return, Idle, NoReconcile, sourceVars, tierVars, selVars,
       feedVars, haltVars
<1>3. ASSUME Choose PROVE WorldTypes'
  BY <1>3 DEF Choose, Left, MayHang, sourceVars, tierVars, haltVars
<1>4. ASSUME Start PROVE WorldTypes'
  BY <1>4 DEF Start, Return, Idle, NoReconcile, sourceVars, tierVars, haltVars
<1>5. ASSUME NEW k \in Kinds \cup {"auto"}, NEW who \in {"operator", "fix"}, SwitchSource(k, who)
      PROVE  WorldTypes'
  BY <1>5, ActsAreFew DEF SwitchSource, Idle, sourceVars, tierVars, feedVars,
       haltVars
<1>6. ASSUME FixSource PROVE WorldTypes'
  BY <1>6 DEF FixSource, Idle, sourceVars, tierVars, haltVars
<1>7. ASSUME ReconcileBegin PROVE WorldTypes'
  BY <1>7 DEF ReconcileBegin, Idle, HoldSilence, sourceVars, selVars, feedVars,
       haltVars
<1>8. ASSUME DetachFeedForSilence PROVE WorldTypes'
  BY <1>8 DEF DetachFeedForSilence, Detaches, Idle, sourceVars, tierVars,
       haltVars
<1>9. ASSUME SilenceDown PROVE WorldTypes'
  BY <1>9 DEF SilenceDown, sourceVars, selVars, feedVars, haltVars
<1>10. ASSUME SilenceStart PROVE WorldTypes'
  BY <1>10, ActsAreFew DEF SilenceStart, sourceVars, selVars, haltVars
<1>11. ASSUME KeepSelector PROVE WorldTypes'
  BY <1>11 DEF KeepSelector, Idle, sourceVars, tierVars, selVars, feedVars,
       haltVars
<1>12. ASSUME RenewSelector PROVE WorldTypes'
  BY <1>12, ActsAreFew DEF RenewSelector, Idle, Dead, NoReconcile, tierVars,
       haltVars
<1>13. ASSUME ReconcileBackup PROVE WorldTypes'
  BY <1>13, ActsAreFew DEF ReconcileBackup, Detaches, sourceVars, haltVars
<1>14. ASSUME ReconcilePlaylist PROVE WorldTypes'
  BY <1>14, ActsAreFew DEF ReconcilePlaylist, Detaches, Ended, haltVars
<1>15. ASSUME StopTake PROVE WorldTypes'
  BY <1>15 DEF StopTake, Idle, Dead, Nothing, feedVars
<1>16. ASSUME StopDown PROVE WorldTypes'
  BY <1>16 DEF StopDown, Nothing, sourceVars, tierVars, selVars
<1>17. ASSUME Save PROVE WorldTypes'
  <2>1. acts' \in 0..MaxActs /\ cfg' \in Configs /\ mute' = mute
    BY <1>17, ActsAreFew DEF Save, Act
  <2>3. fixing' \in Configs \cup {None}
    BY <1>17, <2>1 DEF Save
  <2>2. stale' \in Configs \cup {None}
    BY <1>17 DEF Save
  <2> QED
    BY <2>1, <2>2, <2>3
<1>18. ASSUME Probe PROVE WorldTypes'
  <2>1. mute' = ~mute
    BY <1>18, Zenon DEF Probe
  <2>2. mute' \in BOOLEAN
    BY <2>1, Zenon
  <2>3. acts' \in 0..MaxActs /\ cfg' = cfg /\ stale' = stale /\ fixing' = fixing
    BY <1>18, ActsAreFew DEF Probe, Act
  <2> QED
    BY <2>2, <2>3
<1>19. ASSUME FeedExits PROVE WorldTypes'
  BY <1>19, ActsAreFew DEF FeedExits, Act, Idle, sourceVars, tierVars,
       feedVars, haltVars
<1>20. ASSUME NEW d \in dying, Finish(d) PROVE WorldTypes'
  BY <1>20 DEF Finish, sourceVars, tierVars, selVars, haltVars
<1>21. ASSUME NEW k \in Sources, GraceElapses(k) PROVE WorldTypes'
  BY <1>21 DEF GraceElapses, Alive, Idle, tierVars, selVars, feedVars, haltVars
<1>22. ASSUME StableElapses PROVE WorldTypes'
  BY <1>22 DEF StableElapses, Alive, Idle, tierVars, selVars, feedVars,
       haltVars
<1>23. ASSUME RespawnElapses PROVE WorldTypes'
  BY <1>23 DEF RespawnElapses, Idle, sourceVars, tierVars, feedVars, haltVars
<1>y. ASSUME OutlivedExits PROVE WorldTypes'
  BY <1>y DEF OutlivedExits, selVars, Idle, sourceVars, tierVars, feedVars, haltVars
<1>24. CASE UNCHANGED vars
  BY <1>24 DEF vars, sourceVars, tierVars, selVars, feedVars, haltVars
<1> HIDE DEF WorldTypes
<1>z. Step \/ UNCHANGED vars
  BY StepsAre DEF TypeOK
<1> QED
  BY <1>1, <1>2, <1>3, <1>4, <1>5, <1>6, <1>7, <1>8, <1>9, <1>10, <1>11, <1>12,
     <1>13, <1>14, <1>15, <1>16, <1>17, <1>18, <1>19, <1>20, <1>21, <1>22,
     <1>23, <1>24, <1>y, <1>z
     DEF Step

(* The holders and the passes that a step makes.                           *)
LEMMA NewHolders ==
  ASSUME NEW w \in Callers, NEW p \in {"backup", "playlist", "choose"}, NEW c \in Configs
  PROVE  /\ [who |-> w, step |-> p, s |-> c] \in Holders
         /\ \A k \in Kinds, u \in Upstreams, b \in SUBSET FeedIds :
              [who |-> w, step |-> "start", s |-> c, want |-> k, up |-> u, behind |-> b] \in Holders
BY DEF Holders

LEMMA Idles == Idle \in Holders /\ NoReconcile \in Passes /\ NoReconcile.pc = "idle"
BY DEF Holders, Idle, NoReconcile, Passes

LEMMA NewPass ==
  ASSUME NEW c \in Configs, NEW b \in BOOLEAN
  PROVE  [pc |-> "detach", s |-> c, sig |-> b] \in Passes
BY DEF Passes

LEMMA HolderTypesMean ==
  ASSUME TypeOK
  PROVE  /\ rec \in Passes /\ op \in Holders /\ (rec.pc # "idle" => rec.s \in Configs)
         /\ cfg \in Configs /\ stale \in Configs \cup {None} /\ mute \in BOOLEAN /\ held \in BOOLEAN
         /\ rec.sig \in BOOLEAN /\ op.who \in Callers \cup {"nobody"}
         /\ op.step # "idle" => op.s \in Configs /\ op.who \in Callers
         /\ op.step \in {"idle", "backup", "playlist", "choose", "start"}
BY OpFields, RecFields DEF TypeOK, HolderTypes, WorldTypes, SourceTypes

(* What the steps make of feeds, tiers and relays.                         *)
LEMMA NewFeed ==
  ASSUME NEW i \in FeedIds, NEW k \in Kinds, NEW u \in Upstreams, NEW h \in Inputs,
         NEW b \in SUBSET FeedIds
  PROVE  [id |-> i, kind |-> k, up |-> u, in |-> h, run |-> TRUE, prev |-> b] \in Feeds
BY DEF Feeds

LEMMA StartedFeed ==
  ASSUME TypeOK, Apart, Start, Startable
  PROVE  /\ feed' \in Feeds /\ feed' # None /\ feed'.id = NewFeedId /\ feed'.kind = op.want
         /\ feed'.up = op.up /\ feed'.in = HubOf(op.want) /\ feed'.run /\ feed'.prev = op.behind
<1>1. op.want \in Kinds /\ op.up \in Upstreams /\ op.behind \in SUBSET FeedIds
  BY OpFields DEF Start
<1>2. HubOf(op.want) \in Inputs /\ NewFeedId \in FeedIds
  BY <1>1, HubOfInputs, NewFeedIdExists
<1>3. feed' = [id |-> NewFeedId, kind |-> op.want, up |-> op.up, in |-> HubOf(op.want),
               run |-> TRUE, prev |-> op.behind]
  BY DEF Start
<1>4. feed' \in Feeds
  BY <1>1, <1>2, <1>3, NewFeed
<1> QED
  BY <1>3, <1>4, FeedFields

LEMMA NewTier ==
  ASSUME NEW h \in HubIds, NEW n \in Nat
  PROVE  [hub |-> h, sig |-> n] \in Tiers
BY DEF Tiers

LEMMA LeftAre ==
  ASSUME NEW f \in Feeds \cup {None}, MayHang(f)
  PROVE  Left(f) \in Leavings
BY FeedFields DEF MayHang, Left, Leavings, Inputs

LEMMA UnsubscribedAre ==
  ASSUME TypeOK, NEW f \in Feeds \cup {None}
  PROVE  Unsubscribed(f) \in [HubIds \cup {Ingest} -> FeedIds \cup {None}]
BY FeedFields DEF TypeOK, RelayTypes, Unsubscribed, Inputs

LEMMA SomeTaken ==
  ASSUME TypeOK
  PROVE  {[feed |-> feed, sil |-> sil, bk |-> bk, pl |-> pl], Nothing}
           \subseteq [feed : Feeds \cup {None}, sil : SilenceTiers, bk : Tiers \cup {None},
                      pl : Tiers \cup {None}]
BY DEF TypeOK, FeedTypes, TierTypes, Nothing, SilenceTiers


LEMMA HolderTypesNext ==
  ASSUME TypeOK, [Next]_vars
  PROVE  HolderTypes'
<1> USE DEF TypeOK, HolderTypes
<1>1. ASSUME Sweep PROVE HolderTypes'
  <2>1. rec' = rec
    BY <1>1 DEF Sweep
  <2>2. \E c \in Configs : op' = [who |-> "sweep", step |-> "choose", s |-> c]
    BY <1>1, HolderTypesMean DEF Sweep
  <2> QED
    BY <2>1, <2>2, HolderTypesMean, NewHolders DEF Callers
<1>2. ASSUME Hold PROVE HolderTypes'
  BY <1>2, HolderTypesMean, NewHolders, Idles, NewPass, RecFields, OpMoves DEF
       Hold, Return, Idle, NoReconcile, sourceVars, tierVars, selVars,
       feedVars, haltVars
<1>3. ASSUME Choose PROVE HolderTypes'
  <2>1. op.s \in Configs /\ op.who \in Callers /\ Silence \in BOOLEAN
    BY <1>3, HolderTypesMean DEF Choose, Silence
  <2>2. Choice(op.s) \in Kinds /\ Upstream(op.s, Choice(op.s), Silence) \in Upstreams
    BY <2>1, ChoiceIsAKind, UpstreamFields
  <2>3. \A late \in BOOLEAN : (late => MayHang(feed)) => Behind(feed, late) \in SUBSET FeedIds
    BY FeedFields DEF FeedTypes, Behind
  <2>4. rec' = rec
    BY <1>3 DEF Choose
  <2>5. PICK late \in BOOLEAN :
          /\ late => MayHang(feed)
          /\ op' = [who |-> op.who, step |-> "start", s |-> op.s, want |-> Choice(op.s),
                    up |-> Upstream(op.s, Choice(op.s), Silence), behind |-> Behind(feed, late)]
    BY <1>3, Zenon DEF Choose
  <2>6. op' \in Holders
    BY <2>1, <2>2, <2>3, <2>5, NewHolders
  <2> QED
    BY <2>4, <2>6, HolderTypesMean
<1>4. ASSUME Start PROVE HolderTypes'
  BY <1>4, HolderTypesMean, NewHolders, Idles, NewPass, RecFields, OpMoves DEF
       Start, Return, Idle, NoReconcile, sourceVars, tierVars, haltVars
<1>5. ASSUME NEW k \in Kinds \cup {"auto"}, NEW who \in {"operator", "fix"}, SwitchSource(k, who)
      PROVE  HolderTypes'
  BY <1>5, HolderTypesMean, NewHolders, Idles, NewPass, RecFields, OpMoves DEF
       SwitchSource, Idle, sourceVars, tierVars, feedVars, haltVars, Callers
<1>6. ASSUME FixSource PROVE HolderTypes'
  BY <1>6, HolderTypesMean, NewHolders, Idles, NewPass, RecFields, OpMoves DEF
       FixSource, Idle, sourceVars, tierVars, haltVars, Callers, WorldTypes, TypeOK
<1>7. ASSUME ReconcileBegin PROVE HolderTypes'
  BY <1>7, HolderTypesMean, NewHolders, Idles, NewPass, RecFields, OpMoves DEF
       ReconcileBegin, Idle, HoldSilence, sourceVars, selVars, feedVars,
       haltVars
<1>8. ASSUME DetachFeedForSilence PROVE HolderTypes'
  BY <1>8, HolderTypesMean, NewHolders, Idles, NewPass, RecFields, OpMoves DEF
       DetachFeedForSilence, Detaches, Idle, sourceVars, tierVars, haltVars
<1>9. ASSUME SilenceDown PROVE HolderTypes'
  BY ZenonT(60), <1>9, HolderTypesMean, NewHolders, Idles, NewPass, RecFields, OpMoves DEF
       SilenceDown, sourceVars, selVars, feedVars, haltVars
<1>10. ASSUME SilenceStart PROVE HolderTypes'
  BY <1>10, HolderTypesMean, NewHolders, Idles, NewPass, RecFields, OpMoves DEF
       SilenceStart, Spend, Outcomes, sourceVars, selVars, haltVars
<1>11. ASSUME KeepSelector PROVE HolderTypes'
  BY <1>11, HolderTypesMean, NewHolders, Idles, NewPass, RecFields, OpMoves DEF
       KeepSelector, Idle, sourceVars, tierVars, selVars, feedVars, haltVars,
       Callers
<1>12. ASSUME RenewSelector PROVE HolderTypes'
  <2>1. rec.pc = "selector" /\ rec.s \in Configs
    BY <1>12, HolderTypesMean DEF RenewSelector
  <2>2. CASE op' = op /\ rec' = NoReconcile
    BY <2>2, Idles, HolderTypesMean
  <2>3. CASE /\ op' = [who |-> "reconcile", step |-> "backup", s |-> rec.s]
             /\ rec' = [rec EXCEPT !.pc = "apply"]
    BY <2>1, <2>3, NewHolders, RecFields DEF Callers
  <2> QED
    BY <1>12, <2>2, <2>3 DEF RenewSelector
<1>13. ASSUME ReconcileBackup PROVE HolderTypes'
  BY <1>13, HolderTypesMean, NewHolders, Idles, NewPass, RecFields, OpMoves DEF
       ReconcileBackup, Detaches, Spend, Outcomes, sourceVars, haltVars
<1>14. ASSUME ReconcilePlaylist PROVE HolderTypes'
  BY <1>14, HolderTypesMean, NewHolders, Idles, NewPass, RecFields, OpMoves DEF
       ReconcilePlaylist, Detaches, Spend, Outcomes, Ended, haltVars
<1>15. ASSUME StopTake PROVE HolderTypes'
  BY <1>15, HolderTypesMean, NewHolders, Idles, NewPass, RecFields, OpMoves DEF
       StopTake, Idle, Dead, Nothing, feedVars
<1>16. ASSUME StopDown PROVE HolderTypes'
  BY <1>16, HolderTypesMean, NewHolders, Idles, NewPass, RecFields, OpMoves DEF
       StopDown, Nothing, sourceVars, tierVars, selVars
<1>17. ASSUME Save PROVE HolderTypes'
  BY <1>17, HolderTypesMean, NewHolders, Idles, NewPass, RecFields, OpMoves DEF
       Save, Act, Idle, sourceVars, tierVars, feedVars, haltVars
<1>18. ASSUME Probe PROVE HolderTypes'
  BY <1>18, HolderTypesMean, NewHolders, Idles, NewPass, RecFields, OpMoves DEF
       Probe, Act, Idle, sourceVars, tierVars, feedVars, haltVars
<1>19. ASSUME FeedExits PROVE HolderTypes'
  BY <1>19, HolderTypesMean, NewHolders, Idles, NewPass, RecFields, OpMoves DEF
       FeedExits, Act, Idle, sourceVars, tierVars, feedVars, haltVars
<1>20. ASSUME NEW d \in dying, Finish(d) PROVE HolderTypes'
  BY <1>20, HolderTypesMean, NewHolders, Idles, NewPass, RecFields, OpMoves DEF
       Finish, sourceVars, tierVars, selVars, haltVars
<1>21. ASSUME NEW k \in Sources, GraceElapses(k) PROVE HolderTypes'
  BY <1>21, HolderTypesMean, NewHolders, Idles, NewPass, RecFields, OpMoves DEF
       GraceElapses, Alive, Idle, tierVars, selVars, feedVars, haltVars
<1>22. ASSUME StableElapses PROVE HolderTypes'
  BY <1>22, HolderTypesMean, NewHolders, Idles, NewPass, RecFields, OpMoves DEF
       StableElapses, Alive, Idle, tierVars, selVars, feedVars, haltVars
<1>23. ASSUME RespawnElapses PROVE HolderTypes'
  BY <1>23, HolderTypesMean, NewHolders, Idles, NewPass, RecFields, OpMoves DEF
       RespawnElapses, Idle, sourceVars, tierVars, feedVars, haltVars
<1>y. ASSUME OutlivedExits PROVE HolderTypes'
  BY <1>y, HolderTypesMean, NewHolders, Idles, NewPass, RecFields, OpMoves DEF
       OutlivedExits, selVars, Idle, sourceVars, tierVars, feedVars, haltVars
<1>24. CASE UNCHANGED vars
  BY <1>24 DEF vars, sourceVars, tierVars, selVars, feedVars, haltVars
<1> HIDE DEF TypeOK, HolderTypes
<1>z. Step \/ UNCHANGED vars
  BY StepsAre DEF TypeOK
<1> QED
  BY <1>1, <1>2, <1>3, <1>4, <1>5, <1>6, <1>7, <1>8, <1>9, <1>10, <1>11, <1>12,
     <1>13, <1>14, <1>15, <1>16, <1>17, <1>18, <1>19, <1>20, <1>21, <1>22,
     <1>23, <1>24, <1>y, <1>z
     DEF Step

LEMMA FeedTypesNext ==
  ASSUME TypeOK, Apart, [Next]_vars
  PROVE  FeedTypes'
<1> USE DEF TypeOK, FeedTypes
<1>1. ASSUME Sweep PROVE FeedTypes'
  BY <1>1, KindsAre DEF Sweep, Sampled, Recovered, Alive, Idle, tierVars,
       selVars, feedVars, haltVars
<1>2. ASSUME Hold PROVE FeedTypes'
  BY <1>2, KindsAre DEF Hold, Return, Idle, NoReconcile, sourceVars, tierVars,
       selVars, feedVars, haltVars
<1>3. ASSUME Choose PROVE FeedTypes'
  BY <1>3, KindsAre DEF Choose, Left, MayHang, sourceVars, tierVars, haltVars
<1>4. ASSUME Start PROVE FeedTypes'
  <2>1. op.want \in Kinds
    BY <1>4, OpFields DEF Start
  <2>2. feed' \in Feeds \cup {None}
    BY <1>4, StartedFeed DEF Start
  <2>3. active' \in Kinds /\ recent' \in BOOLEAN
    BY <1>4, <2>1 DEF Start
  <2>4. sel' = sel /\ pinned' = pinned
    BY <1>4 DEF Start
  <2> QED
    BY <2>2, <2>3, <2>4
<1>5. ASSUME NEW k \in Kinds \cup {"auto"}, NEW who \in {"operator", "fix"}, SwitchSource(k, who)
      PROVE  FeedTypes'
  BY <1>5, KindsAre DEF SwitchSource, Idle, sourceVars, tierVars, feedVars,
       haltVars
<1>6. ASSUME FixSource PROVE FeedTypes'
  BY <1>6, KindsAre DEF FixSource, Idle, sourceVars, tierVars, haltVars
<1>7. ASSUME ReconcileBegin PROVE FeedTypes'
  BY <1>7, KindsAre DEF ReconcileBegin, Idle, HoldSilence, sourceVars, selVars,
       feedVars, haltVars
<1>8. ASSUME DetachFeedForSilence PROVE FeedTypes'
  BY <1>8, KindsAre DEF DetachFeedForSilence, Detaches, Idle, sourceVars,
       tierVars, haltVars
<1>9. ASSUME SilenceDown PROVE FeedTypes'
  BY <1>9, KindsAre DEF SilenceDown, sourceVars, selVars, feedVars, haltVars
<1>10. ASSUME SilenceStart PROVE FeedTypes'
  BY <1>10, KindsAre DEF SilenceStart, Spend, Outcomes, sourceVars, selVars,
       haltVars
<1>11. ASSUME KeepSelector PROVE FeedTypes'
  BY <1>11, KindsAre DEF KeepSelector, Idle, sourceVars, tierVars, selVars,
       feedVars, haltVars
<1>12. ASSUME RenewSelector PROVE FeedTypes'
  BY <1>12, KindsAre DEF RenewSelector, Idle, Dead, NoReconcile, Spend,
       Outcomes, tierVars, haltVars
<1>13. ASSUME ReconcileBackup PROVE FeedTypes'
  BY <1>13, KindsAre DEF ReconcileBackup, Detaches, Spend, Outcomes,
       sourceVars, haltVars
<1>14. ASSUME ReconcilePlaylist PROVE FeedTypes'
  BY <1>14, KindsAre DEF ReconcilePlaylist, Detaches, Spend, Outcomes, Ended,
       haltVars
<1>15. ASSUME StopTake PROVE FeedTypes'
  BY <1>15, KindsAre DEF StopTake, Idle, Dead, Nothing, feedVars
<1>16. ASSUME StopDown PROVE FeedTypes'
  BY <1>16, KindsAre DEF StopDown, Nothing, sourceVars, tierVars, selVars
<1>17. ASSUME Save PROVE FeedTypes'
  BY <1>17, KindsAre DEF Save, Act, Idle, sourceVars, tierVars, feedVars,
       haltVars
<1>18. ASSUME Probe PROVE FeedTypes'
  BY <1>18, KindsAre DEF Probe, Act, Idle, sourceVars, tierVars, feedVars,
       haltVars
<1>19. ASSUME FeedExits PROVE FeedTypes'
  <2>1. feed' \in Feeds /\ recent' \in BOOLEAN
    BY <1>19, ExitedFeed DEF FeedExits
  <2>2. sel' = sel /\ pinned' = pinned /\ active' = active
    BY <1>19 DEF FeedExits, Act
  <2> QED
    BY <2>1, <2>2
<1>20. ASSUME NEW d \in dying, Finish(d) PROVE FeedTypes'
  BY <1>20, KindsAre DEF Finish, sourceVars, tierVars, selVars, haltVars
<1>21. ASSUME NEW k \in Sources, GraceElapses(k) PROVE FeedTypes'
  BY <1>21, KindsAre DEF GraceElapses, Alive, Idle, tierVars, selVars,
       feedVars, haltVars
<1>22. ASSUME StableElapses PROVE FeedTypes'
  BY <1>22, KindsAre DEF StableElapses, Alive, Idle, tierVars, selVars,
       feedVars, haltVars
<1>23. ASSUME RespawnElapses PROVE FeedTypes'
  BY <1>23, KindsAre DEF RespawnElapses, Idle, sourceVars, tierVars, feedVars,
       haltVars
<1>y. ASSUME OutlivedExits PROVE FeedTypes'
  BY <1>y, KindsAre DEF OutlivedExits, selVars, Idle, sourceVars, tierVars, feedVars,
       haltVars
<1>24. CASE UNCHANGED vars
  BY <1>24 DEF vars, sourceVars, tierVars, selVars, feedVars, haltVars
<1> HIDE DEF TypeOK, FeedTypes
<1>z. Step \/ UNCHANGED vars
  BY StepsAre DEF TypeOK
<1> QED
  BY <1>1, <1>2, <1>3, <1>4, <1>5, <1>6, <1>7, <1>8, <1>9, <1>10, <1>11, <1>12,
     <1>13, <1>14, <1>15, <1>16, <1>17, <1>18, <1>19, <1>20, <1>21, <1>22,
     <1>23, <1>24, <1>y, <1>z
     DEF Step

LEMMA SourceTypesNext ==
  ASSUME TypeOK, [Next]_vars
  PROVE  SourceTypes'
<1> USE DEF TypeOK, SourceTypes
<1>1. ASSUME Sweep PROVE SourceTypes'
  BY <1>1 DEF Sweep, Sampled, Recovered, Alive, Idle, tierVars, selVars,
       feedVars, haltVars
<1>2. ASSUME Hold PROVE SourceTypes'
  BY <1>2 DEF Hold, Return, Idle, NoReconcile, sourceVars, tierVars, selVars,
       feedVars, haltVars
<1>3. ASSUME Choose PROVE SourceTypes'
  BY <1>3 DEF Choose, Left, MayHang, sourceVars, tierVars, haltVars
<1>4. ASSUME Start PROVE SourceTypes'
  BY <1>4 DEF Start, Return, Idle, NoReconcile, sourceVars, tierVars, haltVars
<1>5. ASSUME NEW k \in Kinds \cup {"auto"}, NEW who \in {"operator", "fix"}, SwitchSource(k, who)
      PROVE  SourceTypes'
  BY <1>5 DEF SwitchSource, Idle, sourceVars, tierVars, feedVars, haltVars
<1>6. ASSUME FixSource PROVE SourceTypes'
  BY <1>6 DEF FixSource, Idle, sourceVars, tierVars, haltVars
<1>7. ASSUME ReconcileBegin PROVE SourceTypes'
  <2>1. HoldSilence \in BOOLEAN
    BY HolderTypesMean DEF HoldSilence
  <2>2. held' = HoldSilence /\ live' = live /\ deg' = deg /\ calm' = calm
    BY <1>7 DEF ReconcileBegin, sourceVars
  <2> QED
    BY <2>1, <2>2
<1>8. ASSUME DetachFeedForSilence PROVE SourceTypes'
  BY <1>8 DEF DetachFeedForSilence, Detaches, Idle, sourceVars, tierVars,
       haltVars
<1>9. ASSUME SilenceDown PROVE SourceTypes'
  BY <1>9 DEF SilenceDown, sourceVars, selVars, feedVars, haltVars
<1>10. ASSUME SilenceStart PROVE SourceTypes'
  BY <1>10 DEF SilenceStart, Spend, Outcomes, sourceVars, selVars, haltVars
<1>11. ASSUME KeepSelector PROVE SourceTypes'
  BY <1>11 DEF KeepSelector, Idle, sourceVars, tierVars, selVars, feedVars,
       haltVars
<1>12. ASSUME RenewSelector PROVE SourceTypes'
  BY <1>12 DEF RenewSelector, Idle, Dead, NoReconcile, Spend, Outcomes,
       tierVars, haltVars
<1>13. ASSUME ReconcileBackup PROVE SourceTypes'
  BY <1>13 DEF ReconcileBackup, Detaches, Spend, Outcomes, sourceVars, haltVars
<1>14. ASSUME ReconcilePlaylist PROVE SourceTypes'
  BY <1>14 DEF ReconcilePlaylist, Detaches, Spend, Outcomes, Ended, haltVars
<1>15. ASSUME StopTake PROVE SourceTypes'
  BY <1>15 DEF StopTake, Idle, Dead, Nothing, feedVars
<1>16. ASSUME StopDown PROVE SourceTypes'
  BY <1>16 DEF StopDown, Nothing, sourceVars, tierVars, selVars
<1>17. ASSUME Save PROVE SourceTypes'
  BY <1>17 DEF Save, Act, Idle, sourceVars, tierVars, feedVars, haltVars
<1>18. ASSUME Probe PROVE SourceTypes'
  BY <1>18 DEF Probe, Act, Idle, sourceVars, tierVars, feedVars, haltVars
<1>19. ASSUME FeedExits PROVE SourceTypes'
  BY <1>19 DEF FeedExits, Act, Idle, sourceVars, tierVars, feedVars, haltVars
<1>20. ASSUME NEW d \in dying, Finish(d) PROVE SourceTypes'
  BY <1>20 DEF Finish, sourceVars, tierVars, selVars, haltVars
<1>21. ASSUME NEW k \in Sources, GraceElapses(k) PROVE SourceTypes'
  BY <1>21 DEF GraceElapses, Alive, Idle, tierVars, selVars, feedVars, haltVars
<1>22. ASSUME StableElapses PROVE SourceTypes'
  BY <1>22 DEF StableElapses, Alive, Idle, tierVars, selVars, feedVars,
       haltVars
<1>23. ASSUME RespawnElapses PROVE SourceTypes'
  BY <1>23 DEF RespawnElapses, Idle, sourceVars, tierVars, feedVars, haltVars
<1>y. ASSUME OutlivedExits PROVE SourceTypes'
  BY <1>y DEF OutlivedExits, selVars, Idle, sourceVars, tierVars, feedVars, haltVars
<1>24. CASE UNCHANGED vars
  BY <1>24 DEF vars, sourceVars, tierVars, selVars, feedVars, haltVars
<1> HIDE DEF TypeOK, SourceTypes
<1>z. Step \/ UNCHANGED vars
  BY StepsAre DEF TypeOK
<1> QED
  BY <1>1, <1>2, <1>3, <1>4, <1>5, <1>6, <1>7, <1>8, <1>9, <1>10, <1>11, <1>12,
     <1>13, <1>14, <1>15, <1>16, <1>17, <1>18, <1>19, <1>20, <1>21, <1>22,
     <1>23, <1>24, <1>y, <1>z
     DEF Step

LEMMA TierTypesNext ==
  ASSUME TypeOK, Apart, [Next]_vars
  PROVE  TierTypes'
<1> USE DEF TypeOK, TierTypes
<1>1. ASSUME Sweep PROVE TierTypes'
  BY <1>1 DEF Sweep, Sampled, Recovered, Alive, Idle, tierVars, selVars,
       feedVars, haltVars
<1>2. ASSUME Hold PROVE TierTypes'
  BY <1>2 DEF Hold, Return, Idle, NoReconcile, sourceVars, tierVars, selVars,
       feedVars, haltVars
<1>3. ASSUME Choose PROVE TierTypes'
  BY <1>3 DEF Choose, Left, MayHang, sourceVars, tierVars, haltVars
<1>4. ASSUME Start PROVE TierTypes'
  BY <1>4 DEF Start, Return, Idle, NoReconcile, sourceVars, tierVars, haltVars
<1>5. ASSUME NEW k \in Kinds \cup {"auto"}, NEW who \in {"operator", "fix"}, SwitchSource(k, who)
      PROVE  TierTypes'
  BY <1>5 DEF SwitchSource, Idle, sourceVars, tierVars, feedVars, haltVars
<1>6. ASSUME FixSource PROVE TierTypes'
  BY <1>6 DEF FixSource, Idle, sourceVars, tierVars, haltVars
<1>7. ASSUME ReconcileBegin PROVE TierTypes'
  BY <1>7 DEF ReconcileBegin, Idle, HoldSilence, sourceVars, selVars, feedVars,
       haltVars
<1>8. ASSUME DetachFeedForSilence PROVE TierTypes'
  BY <1>8 DEF DetachFeedForSilence, Detaches, Idle, sourceVars, tierVars,
       haltVars
<1>9. ASSUME SilenceDown PROVE TierTypes'
  BY <1>9 DEF SilenceDown, sourceVars, selVars, feedVars, haltVars,
       SilenceTiers
<1>10. ASSUME SilenceStart PROVE TierTypes'
  BY <1>10, NewHubExists DEF SilenceStart, Spend, Outcomes, sourceVars,
       selVars, haltVars, SilenceTiers
<1>11. ASSUME KeepSelector PROVE TierTypes'
  BY <1>11 DEF KeepSelector, Idle, sourceVars, tierVars, selVars, feedVars,
       haltVars
<1>12. ASSUME RenewSelector PROVE TierTypes'
  BY <1>12 DEF RenewSelector, Idle, Dead, NoReconcile, Spend, Outcomes,
       tierVars, haltVars
<1>13. ASSUME ReconcileBackup PROVE TierTypes'
  BY <1>13, NewHubExists, NewTier, SignaturesAre, HolderTypesMean DEF
       ReconcileBackup, Detaches, Spend, Outcomes, sourceVars, haltVars
<1>14. ASSUME ReconcilePlaylist PROVE TierTypes'
  BY <1>14, NewHubExists, NewTier, SignaturesAre, HolderTypesMean DEF
       ReconcilePlaylist, Detaches, Spend, Outcomes, Ended, haltVars
<1>15. ASSUME StopTake PROVE TierTypes'
  BY <1>15 DEF StopTake, Idle, Dead, Nothing, feedVars, SilenceTiers
<1>16. ASSUME StopDown PROVE TierTypes'
  BY <1>16 DEF StopDown, Nothing, sourceVars, tierVars, selVars
<1>17. ASSUME Save PROVE TierTypes'
  BY <1>17 DEF Save, Act, Idle, sourceVars, tierVars, feedVars, haltVars
<1>18. ASSUME Probe PROVE TierTypes'
  BY <1>18 DEF Probe, Act, Idle, sourceVars, tierVars, feedVars, haltVars
<1>19. ASSUME FeedExits PROVE TierTypes'
  BY <1>19 DEF FeedExits, Act, Idle, sourceVars, tierVars, feedVars, haltVars
<1>20. ASSUME NEW d \in dying, Finish(d) PROVE TierTypes'
  BY <1>20 DEF Finish, sourceVars, tierVars, selVars, haltVars
<1>21. ASSUME NEW k \in Sources, GraceElapses(k) PROVE TierTypes'
  BY <1>21 DEF GraceElapses, Alive, Idle, tierVars, selVars, feedVars, haltVars
<1>22. ASSUME StableElapses PROVE TierTypes'
  BY <1>22 DEF StableElapses, Alive, Idle, tierVars, selVars, feedVars,
       haltVars
<1>23. ASSUME RespawnElapses PROVE TierTypes'
  BY <1>23 DEF RespawnElapses, Idle, sourceVars, tierVars, feedVars, haltVars
<1>y. ASSUME OutlivedExits PROVE TierTypes'
  BY <1>y DEF OutlivedExits, selVars, Idle, sourceVars, tierVars, feedVars, haltVars
<1>24. CASE UNCHANGED vars
  BY <1>24 DEF vars, sourceVars, tierVars, selVars, feedVars, haltVars
<1> HIDE DEF TypeOK, TierTypes
<1>z. Step \/ UNCHANGED vars
  BY StepsAre DEF TypeOK
<1> QED
  BY <1>1, <1>2, <1>3, <1>4, <1>5, <1>6, <1>7, <1>8, <1>9, <1>10, <1>11, <1>12,
     <1>13, <1>14, <1>15, <1>16, <1>17, <1>18, <1>19, <1>20, <1>21, <1>22,
     <1>23, <1>24, <1>y, <1>z
     DEF Step

LEMMA OutlivesAre ==
  ASSUME FeedTypes, outlived \subseteq FeedIds, Outlives(feed) PROVE outlived' \subseteq FeedIds
<1>1. MayOutlive(feed) => feed.id \in FeedIds
  BY DEF MayOutlive, FeedTypes, Feeds
<1> QED
  BY <1>1 DEF Outlives

LEMMA RelayTypesNext ==
  ASSUME TypeOK, Apart, [Next]_vars
  PROVE  RelayTypes'
<1> USE DEF TypeOK, RelayTypes, FeedTypes
<1>1. ASSUME Sweep PROVE RelayTypes'
  BY <1>1 DEF Sweep, Sampled, Recovered, Alive, Idle, tierVars, selVars,
       feedVars, haltVars
<1>2. ASSUME Hold PROVE RelayTypes'
  BY <1>2 DEF Hold, Return, Idle, NoReconcile, sourceVars, tierVars, selVars,
       feedVars, haltVars
<1>3. ASSUME Choose PROVE RelayTypes'
  <2>1. PICK late \in BOOLEAN :
          /\ late => MayHang(feed)
          /\ dying' = IF late THEN dying \cup {Left(feed)} ELSE dying
          /\ subs' = Cut(feed, late)
    BY <1>3, Zenon DEF Choose
  <2>2. subs' = Unsubscribed(feed)
    BY <2>1 DEF Cut
  <2> QED
    BY <1>3, <2>1, <2>2, UnsubscribedAre, LeftAre, OutlivesAre DEF Choose
<1>4. ASSUME Start PROVE RelayTypes'
  <2>1. op.want \in Kinds /\ NewFeedId \in FeedIds
    BY <1>4, OpFields, NewFeedIdExists DEF Start
  <2>2. HubOf(op.want) \in Inputs /\ dying' = dying
    BY <1>4, <2>1, HubOfInputs DEF Start
  <2> QED
    BY <1>4, <2>1, <2>2 DEF Start
<1>5. ASSUME NEW k \in Kinds \cup {"auto"}, NEW who \in {"operator", "fix"}, SwitchSource(k, who)
      PROVE  RelayTypes'
  BY <1>5 DEF SwitchSource, Idle, sourceVars, tierVars, feedVars, haltVars
<1>6. ASSUME FixSource PROVE RelayTypes'
  BY <1>6, UnsubscribedAre, OutlivesAre DEF FixSource, Idle, sourceVars, tierVars, haltVars
<1>7. ASSUME ReconcileBegin PROVE RelayTypes'
  BY <1>7 DEF ReconcileBegin, Idle, HoldSilence, sourceVars, selVars, feedVars,
       haltVars
<1>8. ASSUME DetachFeedForSilence PROVE RelayTypes'
  BY <1>8, UnsubscribedAre DEF DetachFeedForSilence, Detaches, Idle,
       sourceVars, tierVars, haltVars
<1>9. ASSUME SilenceDown PROVE RelayTypes'
  BY <1>9 DEF SilenceDown, sourceVars, selVars, feedVars, haltVars
<1>10. ASSUME SilenceStart PROVE RelayTypes'
  BY <1>10 DEF SilenceStart, Spend, Outcomes, sourceVars, selVars, haltVars
<1>11. ASSUME KeepSelector PROVE RelayTypes'
  BY <1>11 DEF KeepSelector, Idle, sourceVars, tierVars, selVars, feedVars,
       haltVars
<1>12. ASSUME RenewSelector PROVE RelayTypes'
  BY <1>12, UnsubscribedAre DEF RenewSelector, Idle, Dead, NoReconcile, Spend,
       Outcomes, tierVars, haltVars
<1>13. ASSUME ReconcileBackup PROVE RelayTypes'
  BY <1>13, UnsubscribedAre DEF ReconcileBackup, Detaches, Spend, Outcomes,
       sourceVars, haltVars
<1>14. ASSUME ReconcilePlaylist PROVE RelayTypes'
  BY <1>14, UnsubscribedAre DEF ReconcilePlaylist, Detaches, Spend, Outcomes,
       Ended, haltVars
<1>15. ASSUME StopTake PROVE RelayTypes'
  BY <1>15 DEF StopTake, Idle, Dead, Nothing, feedVars
<1>16. ASSUME StopDown PROVE RelayTypes'
  <2>1. taken.feed \in Feeds \cup {None}
    BY TakenFields
  <2> QED
    BY <1>16, <2>1, UnsubscribedAre DEF StopDown
<1>17. ASSUME Save PROVE RelayTypes'
  BY <1>17 DEF Save, Act, Idle, sourceVars, tierVars, feedVars, haltVars
<1>18. ASSUME Probe PROVE RelayTypes'
  BY <1>18 DEF Probe, Act, Idle, sourceVars, tierVars, feedVars, haltVars
<1>19. ASSUME FeedExits PROVE RelayTypes'
  BY <1>19 DEF FeedExits, Act, Idle, sourceVars, tierVars, feedVars, haltVars
<1>20. ASSUME NEW d \in dying, Finish(d) PROVE RelayTypes'
  BY <1>20 DEF Finish, sourceVars, tierVars, selVars, haltVars
<1>21. ASSUME NEW k \in Sources, GraceElapses(k) PROVE RelayTypes'
  BY <1>21 DEF GraceElapses, Alive, Idle, tierVars, selVars, feedVars, haltVars
<1>22. ASSUME StableElapses PROVE RelayTypes'
  BY <1>22 DEF StableElapses, Alive, Idle, tierVars, selVars, feedVars,
       haltVars
<1>23. ASSUME RespawnElapses PROVE RelayTypes'
  BY <1>23 DEF RespawnElapses, Idle, sourceVars, tierVars, feedVars, haltVars
<1>y. ASSUME OutlivedExits PROVE RelayTypes'
  BY <1>y DEF OutlivedExits, selVars, Idle, sourceVars, tierVars, feedVars, haltVars
<1>24. CASE UNCHANGED vars
  BY <1>24 DEF vars, sourceVars, tierVars, selVars, feedVars, haltVars
<1> HIDE DEF TypeOK, RelayTypes, FeedTypes
<1>z. Step \/ UNCHANGED vars
  BY StepsAre DEF TypeOK
<1> QED
  BY <1>1, <1>2, <1>3, <1>4, <1>5, <1>6, <1>7, <1>8, <1>9, <1>10, <1>11, <1>12,
     <1>13, <1>14, <1>15, <1>16, <1>17, <1>18, <1>19, <1>20, <1>21, <1>22,
     <1>23, <1>24, <1>y, <1>z
     DEF Step

LEMMA HaltTypesNext ==
  ASSUME TypeOK, [Next]_vars
  PROVE  HaltTypes'
<1> USE DEF TypeOK, HaltTypes
<1>1. ASSUME Sweep PROVE HaltTypes'
  BY <1>1 DEF Sweep, Sampled, Recovered, Alive, Idle, tierVars, selVars,
       feedVars, haltVars
<1>2. ASSUME Hold PROVE HaltTypes'
  BY <1>2 DEF Hold, Return, Idle, NoReconcile, sourceVars, tierVars, selVars,
       feedVars, haltVars
<1>3. ASSUME Choose PROVE HaltTypes'
  BY <1>3 DEF Choose, Left, MayHang, sourceVars, tierVars, haltVars
<1>4. ASSUME Start PROVE HaltTypes'
  BY <1>4 DEF Start, Return, Idle, NoReconcile, sourceVars, tierVars, haltVars
<1>5. ASSUME NEW k \in Kinds \cup {"auto"}, NEW who \in {"operator", "fix"}, SwitchSource(k, who)
      PROVE  HaltTypes'
  BY <1>5 DEF SwitchSource, Idle, sourceVars, tierVars, feedVars, haltVars
<1>6. ASSUME FixSource PROVE HaltTypes'
  BY <1>6 DEF FixSource, Idle, sourceVars, tierVars, haltVars
<1>7. ASSUME ReconcileBegin PROVE HaltTypes'
  BY <1>7 DEF ReconcileBegin, Idle, HoldSilence, sourceVars, selVars, feedVars,
       haltVars
<1>8. ASSUME DetachFeedForSilence PROVE HaltTypes'
  BY <1>8 DEF DetachFeedForSilence, Detaches, Idle, sourceVars, tierVars,
       haltVars
<1>9. ASSUME SilenceDown PROVE HaltTypes'
  BY <1>9 DEF SilenceDown, sourceVars, selVars, feedVars, haltVars
<1>10. ASSUME SilenceStart PROVE HaltTypes'
  BY <1>10 DEF SilenceStart, Spend, Outcomes, sourceVars, selVars, haltVars
<1>11. ASSUME KeepSelector PROVE HaltTypes'
  BY <1>11 DEF KeepSelector, Idle, sourceVars, tierVars, selVars, feedVars,
       haltVars
<1>12. ASSUME RenewSelector PROVE HaltTypes'
  BY <1>12 DEF RenewSelector, Idle, Dead, NoReconcile, Spend, Outcomes,
       tierVars, haltVars
<1>13. ASSUME ReconcileBackup PROVE HaltTypes'
  BY <1>13 DEF ReconcileBackup, Detaches, Spend, Outcomes, sourceVars, haltVars
<1>14. ASSUME ReconcilePlaylist PROVE HaltTypes'
  BY <1>14 DEF ReconcilePlaylist, Detaches, Spend, Outcomes, Ended, haltVars
<1>15. ASSUME StopTake PROVE HaltTypes'
  <2>1. taken' \in {[feed |-> feed, sil |-> sil, bk |-> bk, pl |-> pl], Nothing} /\ halt' = "taken"
    BY <1>15 DEF StopTake
  <2> QED
    BY <2>1, SomeTaken
<1>16. ASSUME StopDown PROVE HaltTypes'
  <2>1. taken' \in {[feed |-> feed, sil |-> sil, bk |-> bk, pl |-> pl], Nothing} /\ halt' = "down"
    BY <1>16 DEF StopDown
  <2> QED
    BY <2>1, SomeTaken
<1>17. ASSUME Save PROVE HaltTypes'
  BY <1>17 DEF Save, Act, Idle, sourceVars, tierVars, feedVars, haltVars
<1>18. ASSUME Probe PROVE HaltTypes'
  BY <1>18 DEF Probe, Act, Idle, sourceVars, tierVars, feedVars, haltVars
<1>19. ASSUME FeedExits PROVE HaltTypes'
  BY <1>19 DEF FeedExits, Act, Idle, sourceVars, tierVars, feedVars, haltVars
<1>20. ASSUME NEW d \in dying, Finish(d) PROVE HaltTypes'
  BY <1>20 DEF Finish, sourceVars, tierVars, selVars, haltVars
<1>21. ASSUME NEW k \in Sources, GraceElapses(k) PROVE HaltTypes'
  BY <1>21 DEF GraceElapses, Alive, Idle, tierVars, selVars, feedVars, haltVars
<1>22. ASSUME StableElapses PROVE HaltTypes'
  BY <1>22 DEF StableElapses, Alive, Idle, tierVars, selVars, feedVars,
       haltVars
<1>23. ASSUME RespawnElapses PROVE HaltTypes'
  BY <1>23 DEF RespawnElapses, Idle, sourceVars, tierVars, feedVars, haltVars
<1>y. ASSUME OutlivedExits PROVE HaltTypes'
  BY <1>y DEF OutlivedExits, selVars, Idle, sourceVars, tierVars, feedVars, haltVars
<1>24. CASE UNCHANGED vars
  BY <1>24 DEF vars, sourceVars, tierVars, selVars, feedVars, haltVars
<1> HIDE DEF TypeOK, HaltTypes
<1>z. Step \/ UNCHANGED vars
  BY StepsAre DEF TypeOK
<1> QED
  BY <1>1, <1>2, <1>3, <1>4, <1>5, <1>6, <1>7, <1>8, <1>9, <1>10, <1>11, <1>12,
     <1>13, <1>14, <1>15, <1>16, <1>17, <1>18, <1>19, <1>20, <1>21, <1>22,
     <1>23, <1>24, <1>y, <1>z
     DEF Step

-----------------------------------------------------------------------------
(* What the lemmas below keep needing.                                     *)
LEMMA NoHubs == None \notin HubIds /\ Failed \notin HubIds /\ Ingest \notin HubIds /\ None # Ingest
BY NoneAssumption, BoundsAssumption DEF HubIds, Ingest

LEMMA DyingKept ==
  ASSUME dying' = dying PROVE DyingIds' = DyingIds
BY DEF DyingIds

LEMMA FewerDying ==
  ASSUME NEW d \in dying, dying' = dying \ {d} PROVE DyingIds' \subseteq DyingIds
BY DEF DyingIds

LEMMA OneMoreDies ==
  ASSUME NEW e, dying' = dying \cup {e} PROVE DyingIds' = DyingIds \cup {e.id}
BY DEF DyingIds

LEMMA UnsubscribedAt ==
  ASSUME TypeOK, NEW f \in Feeds \cup {None}, NEW h \in HubIds \cup {Ingest}
  PROVE  Unsubscribed(f)[h] = IF f # None /\ f.in = h THEN None ELSE subs[h]
BY FeedFields, NoHubs DEF TypeOK, RelayTypes, Unsubscribed, Inputs

LEMMA ChosenIs ==
  ASSUME TypeOK, op.step = "choose", NEW k, k = Choice(op.s), NEW u, u = Upstream(op.s, k, Silence)
  PROVE  k \in Kinds /\ u.kind = k /\ (k = "primary" => u.hub = HubOf("primary"))
<1>1. op.s \in Configs /\ Silence \in BOOLEAN
  BY HolderTypesMean DEF Silence
<1>2. k \in Kinds
  BY <1>1, ChoiceIsAKind
<1> QED
  BY <1>1, <1>2, UpstreamFields

LEMMA NewHubIsFree ==
  ASSUME TypeOK, Apart
  PROVE  /\ NewHub \in HubIds
         /\ feed # None => feed.in # NewHub /\ feed.up.hub # NewHub
         /\ taken.feed # None => taken.feed.in # NewHub
         /\ op.step = "start" => op.up.hub # NewHub
<1>1. NewHub \in HubIds \ InUse
  BY NewHubExists
<1>2. ASSUME NEW f \in {feed, taken.feed}, f # None PROVE f.in # NewHub /\ f.up.hub # NewHub
  <2> DEFINE U == {IF g = None THEN {} ELSE {g.in, g.up.hub} : g \in {feed, taken.feed}}
  <2>1. {f.in, f.up.hub} \in U
    BY <1>2
  <2>2. UNION U \subseteq InUse
    BY DEF InUse
  <2> HIDE DEF U
  <2> QED
    BY <1>1, <2>1, <2>2
<1>3. op.step = "start" => op.up.hub \in InUse
  BY DEF InUse
<1> QED
  BY <1>1, <1>2, <1>3

LEMMA DieBehind ==
  ASSUME TypeOK, Holding, Halted, Chain
  PROVE  /\ sel = "up" => taken.feed = None
         /\ feed # None => sel = "up" /\ DyingIds \subseteq feed.prev
         /\ feed # None /\ Waited(feed) => DyingIds = {}
         /\ op.step = "start" => DyingIds \subseteq op.behind /\ sel = "up" /\ feed = None
         /\ sel = "up" /\ feed = None /\ op.step # "start" => DyingIds = {}
         /\ Stopped => feed = None /\ op.step # "start"
         /\ Stopped /\ Waited(taken.feed) => DyingIds = {}
<1>1. sel = "up" => taken.feed = None
  BY DEF Halted, Stopped, Nothing
<1>2. feed # None => sel = "up" /\ DyingIds \subseteq feed.prev
  BY DEF Holding, Chain, Line
<1>3. op.step = "start" => DyingIds \subseteq op.behind /\ sel = "up" /\ feed = None
  BY DEF Holding, Chain, Line
<1>4. Stopped => feed = None /\ op.step # "start"
  BY <1>2, <1>3 DEF Halted
<1>5. feed = None /\ op.step # "start" =>
        DyingIds \subseteq IF taken.feed # None THEN taken.feed.prev ELSE {}
  BY DEF Chain, Line
<1> QED
  BY <1>1, <1>2, <1>3, <1>4, <1>5 DEF Waited

LEMMA Torn ==
  ASSUME TypeOK, Subscribed, subs' = Unsubscribed(feed), feed' = None, taken' = taken
  PROVE  Subscribed'
<1>1. feed \in Feeds \cup {None}
  BY DEF TypeOK, FeedTypes
<1>2. \A h \in HubIds \cup {Ingest} :
        subs'[h] = IF feed # None /\ feed.in = h THEN None ELSE subs[h]
  BY <1>1, UnsubscribedAt
<1> QED
  BY <1>2 DEF Subscribed, Reads

LEMMA SubscribedKept ==
  ASSUME Subscribed, subs' = subs, feed' = feed, taken' = taken
  PROVE  Subscribed'
BY DEF Subscribed, Reads, Fed


(* Every step preserves the rest, one conjunct at a time.                  *)
LEMMA HoldingNext ==
  ASSUME TypeOK, Holding, [Next]_vars
  PROVE  Holding'
<1> USE DEF Holding
<1>1. ASSUME Sweep PROVE Holding'
  BY <1>1, OpFields, RecFields, Idles DEF Sweep, Sampled, Recovered, Alive,
       Idle, tierVars, selVars, feedVars, haltVars
<1>2. ASSUME Hold PROVE Holding'
  BY <1>2, OpFields, RecFields, Idles DEF Hold, Return, Idle, NoReconcile,
       sourceVars, tierVars, selVars, feedVars, haltVars
<1>3. ASSUME Choose PROVE Holding'
  BY <1>3, OpFields, RecFields, Idles DEF Choose, Left, MayHang, sourceVars,
       tierVars, haltVars
<1>4. ASSUME Start PROVE Holding'
  BY <1>4, OpFields, RecFields, Idles DEF Start, Return, Idle, NoReconcile,
       sourceVars, tierVars, haltVars
<1>5. ASSUME NEW k \in Kinds \cup {"auto"}, NEW who \in {"operator", "fix"}, SwitchSource(k, who)
      PROVE  Holding'
  BY <1>5, OpFields, RecFields, Idles DEF SwitchSource, Idle, sourceVars,
       tierVars, feedVars, haltVars
<1>6. ASSUME FixSource PROVE Holding'
  BY <1>6, OpFields, RecFields, Idles DEF FixSource, Idle, sourceVars,
       tierVars, haltVars
<1>7. ASSUME ReconcileBegin PROVE Holding'
  BY <1>7, OpFields, RecFields, Idles DEF ReconcileBegin, Idle, HoldSilence,
       sourceVars, selVars, feedVars, haltVars
<1>8. ASSUME DetachFeedForSilence PROVE Holding'
  BY <1>8, OpFields, RecFields, Idles DEF DetachFeedForSilence, Detaches, Idle,
       sourceVars, tierVars, haltVars
<1>9. ASSUME SilenceDown PROVE Holding'
  BY <1>9, OpFields, RecFields, Idles DEF SilenceDown, sourceVars, selVars,
       feedVars, haltVars
<1>10. ASSUME SilenceStart PROVE Holding'
  BY <1>10, OpFields, RecFields, Idles DEF SilenceStart, Spend, Outcomes,
       sourceVars, selVars, haltVars
<1>11. ASSUME KeepSelector PROVE Holding'
  BY <1>11, OpFields, RecFields, Idles DEF KeepSelector, Idle, sourceVars,
       tierVars, selVars, feedVars, haltVars
<1>12. ASSUME RenewSelector PROVE Holding'
  <2>1. rec.pc = "selector" /\ op = Idle /\ feed' = None /\ sil' = sil
    BY <1>12 DEF RenewSelector, tierVars
  <2>2. CASE op' = op /\ rec' = NoReconcile
    BY <2>1, <2>2 DEF Idle, NoReconcile
  <2>3. CASE /\ op' = [who |-> "reconcile", step |-> "backup", s |-> rec.s]
             /\ rec' = [rec EXCEPT !.pc = "apply"]
    <3>1. rec'.pc = "apply" /\ op'.who = "reconcile" /\ op'.step = "backup"
      BY <2>3, RecFields
    <3> QED
      BY <2>1, <3>1
  <2> QED
    BY <1>12, <2>2, <2>3 DEF RenewSelector
<1>13. ASSUME ReconcileBackup PROVE Holding'
  BY <1>13, OpFields, RecFields, OpMoves DEF ReconcileBackup, Detaches, Spend,
       Outcomes, sourceVars, haltVars
<1>14. ASSUME ReconcilePlaylist PROVE Holding'
  BY <1>14, OpFields, RecFields, OpMoves DEF ReconcilePlaylist, Detaches,
       Spend, Outcomes, Ended, haltVars
<1>15. ASSUME StopTake PROVE Holding'
  BY <1>15, OpFields, RecFields, Idles DEF StopTake, Idle, Dead, Nothing,
       feedVars
<1>16. ASSUME StopDown PROVE Holding'
  BY <1>16, OpFields, RecFields, Idles DEF StopDown, Nothing, sourceVars,
       tierVars, selVars
<1>17. ASSUME Save PROVE Holding'
  BY <1>17, OpFields, RecFields, Idles DEF Save, Act, Idle, sourceVars,
       tierVars, feedVars, haltVars
<1>18. ASSUME Probe PROVE Holding'
  BY <1>18, OpFields, RecFields, Idles DEF Probe, Act, Idle, sourceVars,
       tierVars, feedVars, haltVars
<1>19. ASSUME FeedExits PROVE Holding'
  BY <1>19, OpFields, RecFields, Idles DEF FeedExits, Act, Idle, sourceVars,
       tierVars, feedVars, haltVars
<1>20. ASSUME NEW d \in dying, Finish(d) PROVE Holding'
  BY <1>20, OpFields, RecFields, Idles DEF Finish, sourceVars, tierVars,
       selVars, haltVars
<1>21. ASSUME NEW k \in Sources, GraceElapses(k) PROVE Holding'
  BY <1>21, OpFields, RecFields, Idles DEF GraceElapses, Alive, Idle, tierVars,
       selVars, feedVars, haltVars
<1>22. ASSUME StableElapses PROVE Holding'
  BY <1>22, OpFields, RecFields, Idles DEF StableElapses, Alive, Idle,
       tierVars, selVars, feedVars, haltVars
<1>23. ASSUME RespawnElapses PROVE Holding'
  BY <1>23, OpFields, RecFields, Idles DEF RespawnElapses, Idle, sourceVars,
       tierVars, feedVars, haltVars
<1>y. ASSUME OutlivedExits PROVE Holding'
  BY <1>y, OpFields, RecFields, Idles DEF OutlivedExits, selVars, Idle, sourceVars,
       tierVars, feedVars, haltVars
<1>24. CASE UNCHANGED vars
  BY <1>24 DEF vars, sourceVars, tierVars, selVars, feedVars, haltVars
<1> HIDE DEF Holding
<1>z. Step \/ UNCHANGED vars
  BY StepsAre DEF TypeOK
<1> QED
  BY <1>1, <1>2, <1>3, <1>4, <1>5, <1>6, <1>7, <1>8, <1>9, <1>10, <1>11, <1>12,
     <1>13, <1>14, <1>15, <1>16, <1>17, <1>18, <1>19, <1>20, <1>21, <1>22,
     <1>23, <1>24, <1>y, <1>z
     DEF Step

LEMMA HaltedNext ==
  ASSUME TypeOK, Holding, Halted, [Next]_vars
  PROVE  Halted'
<1> USE DEF Halted, Stopped, SilenceUp
<1>1. ASSUME Sweep PROVE Halted'
  BY <1>1, OpFields, RecFields, OpMoves DEF Sweep, Sampled, Recovered, Alive,
       Idle, tierVars, selVars, feedVars, haltVars
<1>2. ASSUME Hold PROVE Halted'
  BY <1>2, OpFields, RecFields, OpMoves DEF Hold, Return, Idle, NoReconcile,
       sourceVars, tierVars, selVars, feedVars, haltVars
<1>3. ASSUME Choose PROVE Halted'
  BY <1>3, OpFields, RecFields, OpMoves DEF Choose, Left, MayHang, sourceVars,
       tierVars, haltVars
<1>4. ASSUME Start PROVE Halted'
  BY <1>4, OpFields, RecFields, OpMoves DEF Start, Return, Idle, NoReconcile,
       sourceVars, tierVars, haltVars
<1>5. ASSUME NEW k \in Kinds \cup {"auto"}, NEW who \in {"operator", "fix"}, SwitchSource(k, who)
      PROVE  Halted'
  BY <1>5, OpFields, RecFields, OpMoves DEF SwitchSource, Idle, sourceVars,
       tierVars, feedVars, haltVars
<1>6. ASSUME FixSource PROVE Halted'
  BY <1>6, OpFields, RecFields, OpMoves DEF FixSource, Idle, sourceVars,
       tierVars, haltVars
<1>7. ASSUME ReconcileBegin PROVE Halted'
  BY <1>7, OpFields, RecFields, OpMoves DEF ReconcileBegin, Idle, HoldSilence,
       sourceVars, selVars, feedVars, haltVars
<1>8. ASSUME DetachFeedForSilence PROVE Halted'
  BY <1>8, OpFields, RecFields, OpMoves DEF DetachFeedForSilence, Detaches,
       Idle, sourceVars, tierVars, haltVars
<1>9. ASSUME SilenceDown PROVE Halted'
  BY <1>9, NoHubs DEF SilenceDown, sourceVars, selVars, feedVars, haltVars
<1>10. ASSUME SilenceStart PROVE Halted'
  <2>1. sil' \in HubIds => halt = "no"
    BY <1>10, NoHubs DEF SilenceStart
  <2> QED
    BY <1>10, <2>1 DEF SilenceStart, selVars, haltVars
<1>11. ASSUME KeepSelector PROVE Halted'
  BY <1>11, OpFields, RecFields, OpMoves DEF KeepSelector, Idle, sourceVars,
       tierVars, selVars, feedVars, haltVars
<1>12. ASSUME RenewSelector PROVE Halted'
  BY <1>12, OpFields, RecFields, OpMoves DEF RenewSelector, Idle, Dead,
       NoReconcile, Spend, Outcomes, tierVars, haltVars
<1>13. ASSUME ReconcileBackup PROVE Halted'
  BY <1>13, OpFields, RecFields, OpMoves DEF ReconcileBackup, Detaches, Spend,
       Outcomes, sourceVars, haltVars, BackupSig, Holding
<1>14. ASSUME ReconcilePlaylist PROVE Halted'
  BY <1>14, OpFields, RecFields, OpMoves DEF ReconcilePlaylist, Detaches,
       Spend, Outcomes, Ended, haltVars, PlaylistSig, Holding
<1>15. ASSUME StopTake PROVE Halted'
  BY <1>15, NoHubs DEF StopTake, Idle, Dead, Nothing, feedVars
<1>16. ASSUME StopDown PROVE Halted'
  BY <1>16, OpFields, RecFields, OpMoves DEF StopDown, Nothing, sourceVars,
       tierVars, selVars
<1>17. ASSUME Save PROVE Halted'
  BY <1>17, OpFields, RecFields, OpMoves DEF Save, Act, Idle, sourceVars,
       tierVars, feedVars, haltVars
<1>18. ASSUME Probe PROVE Halted'
  BY <1>18, OpFields, RecFields, OpMoves DEF Probe, Act, Idle, sourceVars,
       tierVars, feedVars, haltVars
<1>19. ASSUME FeedExits PROVE Halted'
  BY <1>19, OpFields, RecFields, OpMoves DEF FeedExits, Act, Idle, sourceVars,
       tierVars, feedVars, haltVars
<1>20. ASSUME NEW d \in dying, Finish(d) PROVE Halted'
  BY <1>20, OpFields, RecFields, OpMoves DEF Finish, sourceVars, tierVars,
       selVars, haltVars
<1>21. ASSUME NEW k \in Sources, GraceElapses(k) PROVE Halted'
  BY <1>21, OpFields, RecFields, OpMoves DEF GraceElapses, Alive, Idle,
       tierVars, selVars, feedVars, haltVars
<1>22. ASSUME StableElapses PROVE Halted'
  BY <1>22, OpFields, RecFields, OpMoves DEF StableElapses, Alive, Idle,
       tierVars, selVars, feedVars, haltVars
<1>23. ASSUME RespawnElapses PROVE Halted'
  BY <1>23, OpFields, RecFields, OpMoves DEF RespawnElapses, Idle, sourceVars,
       tierVars, feedVars, haltVars
<1>y. ASSUME OutlivedExits PROVE Halted'
  BY <1>y, OpFields, RecFields, OpMoves DEF OutlivedExits, selVars, Idle, sourceVars,
       tierVars, feedVars, haltVars
<1>24. CASE UNCHANGED vars
  BY <1>24 DEF vars, sourceVars, tierVars, selVars, feedVars, haltVars
<1> HIDE DEF Halted, Stopped, SilenceUp
<1>z. Step \/ UNCHANGED vars
  BY StepsAre DEF TypeOK
<1> QED
  BY <1>1, <1>2, <1>3, <1>4, <1>5, <1>6, <1>7, <1>8, <1>9, <1>10, <1>11, <1>12,
     <1>13, <1>14, <1>15, <1>16, <1>17, <1>18, <1>19, <1>20, <1>21, <1>22,
     <1>23, <1>24, <1>y, <1>z
     DEF Step

(* At most one of the two happens to a feed.                               *)
LEMMA NotBoth ==
  ASSUME Subscribed, MayHang(feed) PROVE ~MayOutlive(feed)
BY DEF MayHang, MayOutlive, Subscribed

(* A slate outlives its Stop, or none does.                                *)
LEMMA OneMoreOutlives ==
  ASSUME Apart, Outlives(feed), dying' = dying, feed' = None, taken' = taken, taken.feed = None
  PROVE  Apart'
<1> USE DEF Apart, DyingIds
<1>1. CASE outlived' = outlived
  BY <1>1
<1>2. CASE MayOutlive(feed) /\ outlived' = outlived \cup {feed.id}
  <2>1. /\ Cardinality(dying) \in Nat /\ Cardinality(outlived) \in Nat /\ MaxDying \in Nat
        /\ Cardinality(dying) + Cardinality(outlived) < MaxDying
    BY <1>2, FS_CardinalityType, BoundsAssumption DEF MayOutlive, Room
  <2>2. IsFiniteSet(outlived') /\ Cardinality(outlived') <= Cardinality(outlived) + 1
    <3>1. Cardinality(outlived) <= Cardinality(outlived)
      BY <2>1
    <3> QED
      BY <1>2, <2>1, <3>1, OneMore
  <2>3. Cardinality(outlived') \in Nat
    BY <2>2, FS_CardinalityType
  <2> QED
    BY <2>1, <2>2, <2>3
<1> QED
  BY <1>1, <1>2 DEF Outlives

(* Those that outlive their Stop become fewer.                             *)
LEMMA FewerOutlive ==
  ASSUME Apart, outlived' \subseteq outlived, dying' = dying
  PROVE  IsFiniteSet(outlived') /\ Cardinality(dying') + Cardinality(outlived') <= MaxDying
<1>1. IsFiniteSet(outlived') /\ Cardinality(outlived') <= Cardinality(outlived)
  BY FS_Subset DEF Apart
<1>2. /\ Cardinality(outlived') \in Nat /\ Cardinality(outlived) \in Nat
      /\ Cardinality(dying) \in Nat /\ MaxDying \in Nat
  BY <1>1, FS_CardinalityType, BoundsAssumption DEF Apart
<1> QED
  BY <1>1, <1>2 DEF Apart

LEMMA ApartNext ==
  ASSUME TypeOK, Halted, Apart, Subscribed, [Next]_vars
  PROVE  Apart'
<1> USE DEF Apart, DyingIds
<1>1. ASSUME Sweep PROVE Apart'
  BY <1>1 DEF Sweep, Sampled, Recovered, Alive, Idle, tierVars, selVars,
       feedVars, haltVars
<1>2. ASSUME Hold PROVE Apart'
  BY <1>2 DEF Hold, Return, Idle, NoReconcile, sourceVars, tierVars, selVars,
       feedVars, haltVars
<1>3. ASSUME Choose PROVE Apart'
  <2>1. PICK late \in BOOLEAN :
          /\ late => MayHang(feed)
          /\ dying' = IF late THEN dying \cup {Left(feed)} ELSE dying
    BY <1>3, Zenon DEF Choose
  <2>2. feed' = None /\ taken' = taken /\ taken.feed = None
    BY <1>3 DEF Choose, Halted, Stopped, Nothing, haltVars
  <2>3. Outlives(feed)
    BY <1>3 DEF Choose
  <2>4. CASE ~late
    BY <2>1, <2>2, <2>3, <2>4, OneMoreOutlives
  <2>5. CASE late
    <3>1. outlived' = outlived /\ Room
      BY <2>1, <2>3, <2>5, NotBoth DEF MayHang, Outlives
    <3>2. /\ Cardinality(dying) \in Nat /\ Cardinality(outlived) \in Nat /\ MaxDying \in Nat
          /\ Cardinality(dying) + Cardinality(outlived) < MaxDying
      BY <3>1, FS_CardinalityType, BoundsAssumption DEF Room
    <3> DEFINE x == Left(feed)
    <3>3. dying' = dying \cup {x}
      BY <2>1, <2>5
    <3> HIDE DEF x
    <3>4. IsFiniteSet(dying') /\ Cardinality(dying') <= Cardinality(dying) + 1
      <4>1. Cardinality(dying) <= Cardinality(dying)
        BY <3>2
      <4> QED
        BY <3>2, <3>3, <4>1, OneMore
    <3>5. Cardinality(dying') \in Nat
      BY <3>4, FS_CardinalityType
    <3>6. \A d \in dying' : ~d.named
      BY <3>3 DEF x, Left
    <3> QED
      BY <2>2, <3>1, <3>2, <3>4, <3>5, <3>6
  <2> QED
    BY <2>4, <2>5
<1>4. ASSUME Start PROVE Apart'
  BY <1>4, NewFeedIdExists DEF Start, Return, Idle, NoReconcile, sourceVars,
       tierVars, haltVars
<1>5. ASSUME NEW k \in Kinds \cup {"auto"}, NEW who \in {"operator", "fix"}, SwitchSource(k, who)
      PROVE  Apart'
  BY <1>5 DEF SwitchSource, Idle, sourceVars, tierVars, feedVars, haltVars
<1>6. ASSUME FixSource PROVE Apart'
  <2>1. CASE sel # "up"
    BY <1>6, <2>1 DEF FixSource, haltVars
  <2>2. CASE sel = "up"
    <3>1. /\ Outlives(feed) /\ dying' = dying /\ feed' = None /\ taken' = taken
          /\ taken.feed = None
      BY <1>6, <2>2 DEF FixSource, Halted, Stopped, Nothing, haltVars
    <3> QED
      BY <3>1, OneMoreOutlives
  <2> QED
    BY <2>1, <2>2
<1>7. ASSUME ReconcileBegin PROVE Apart'
  BY <1>7 DEF ReconcileBegin, Idle, HoldSilence, sourceVars, selVars, feedVars,
       haltVars
<1>8. ASSUME DetachFeedForSilence PROVE Apart'
  BY <1>8 DEF DetachFeedForSilence, Detaches, Idle, sourceVars, tierVars,
       haltVars
<1>9. ASSUME SilenceDown PROVE Apart'
  BY <1>9 DEF SilenceDown, sourceVars, selVars, feedVars, haltVars
<1>10. ASSUME SilenceStart PROVE Apart'
  BY <1>10 DEF SilenceStart, Spend, Outcomes, sourceVars, selVars, haltVars
<1>11. ASSUME KeepSelector PROVE Apart'
  BY <1>11 DEF KeepSelector, Idle, sourceVars, tierVars, selVars, feedVars,
       haltVars
<1>12. ASSUME RenewSelector PROVE Apart'
  <2>1. outlived' = {} /\ dying' = dying /\ feed' = None /\ taken' = taken
    BY <1>12 DEF RenewSelector, haltVars
  <2> QED
    BY <2>1, FewerOutlive
<1>13. ASSUME ReconcileBackup PROVE Apart'
  BY <1>13 DEF ReconcileBackup, Detaches, Spend, Outcomes, sourceVars, haltVars
<1>14. ASSUME ReconcilePlaylist PROVE Apart'
  BY <1>14 DEF ReconcilePlaylist, Detaches, Spend, Outcomes, Ended, haltVars
<1>15. ASSUME StopTake PROVE Apart'
  BY <1>15 DEF StopTake, Idle, Dead, Nothing, feedVars
<1>16. ASSUME StopDown PROVE Apart'
  <2>1. outlived' = {} /\ dying' = dying /\ feed' = feed /\ taken'.feed = None
    BY <1>16 DEF StopDown, Nothing, selVars
  <2> QED
    BY <2>1, FewerOutlive
<1>17. ASSUME Save PROVE Apart'
  BY <1>17 DEF Save, Act, Idle, sourceVars, tierVars, feedVars, haltVars
<1>18. ASSUME Probe PROVE Apart'
  BY <1>18 DEF Probe, Act, Idle, sourceVars, tierVars, feedVars, haltVars
<1>19. ASSUME FeedExits PROVE Apart'
  BY <1>19, ExitedFeed DEF FeedExits, Act, Idle, sourceVars, tierVars,
       feedVars, haltVars
<1>20. ASSUME NEW d \in dying, Finish(d) PROVE Apart'
  <2>1. dying' = dying \ {d} /\ feed' = feed /\ taken' = taken /\ outlived' = outlived
    BY <1>20 DEF Finish, selVars, haltVars
  <2>2. IsFiniteSet(dying') /\ Cardinality(dying') <= Cardinality(dying)
        /\ Cardinality(dying') \in Nat /\ Cardinality(dying) \in Nat
    BY <2>1, FS_Subset, FS_CardinalityType
  <2>3. Cardinality(outlived) \in Nat /\ MaxDying \in Nat
    BY BoundsAssumption, FS_CardinalityType
  <2>4. Cardinality(dying') + Cardinality(outlived') <= MaxDying
    BY <2>1, <2>2, <2>3
  <2> QED
    BY <2>1, <2>2, <2>4
<1>21. ASSUME NEW k \in Sources, GraceElapses(k) PROVE Apart'
  BY <1>21 DEF GraceElapses, Alive, Idle, tierVars, selVars, feedVars, haltVars
<1>22. ASSUME StableElapses PROVE Apart'
  BY <1>22 DEF StableElapses, Alive, Idle, tierVars, selVars, feedVars,
       haltVars
<1>23. ASSUME RespawnElapses PROVE Apart'
  BY <1>23 DEF RespawnElapses, Idle, sourceVars, tierVars, feedVars, haltVars
<1>y. ASSUME OutlivedExits PROVE Apart'
  <2>1. /\ outlived' \subseteq outlived
        /\ dying' = dying /\ feed' = feed /\ taken' = taken
    BY <1>y DEF OutlivedExits, selVars, haltVars
  <2>2. IsFiniteSet(outlived') /\ Cardinality(dying') + Cardinality(outlived') <= MaxDying
    BY <2>1, FewerOutlive
  <2> QED
    BY <2>1, <2>2
<1>24. CASE UNCHANGED vars
  BY <1>24 DEF vars, sourceVars, tierVars, selVars, feedVars, haltVars
<1> HIDE DEF Apart, DyingIds
<1>z. Step \/ UNCHANGED vars
  BY StepsAre DEF TypeOK
<1> QED
  BY <1>1, <1>2, <1>3, <1>4, <1>5, <1>6, <1>7, <1>8, <1>9, <1>10, <1>11, <1>12,
     <1>13, <1>14, <1>15, <1>16, <1>17, <1>18, <1>19, <1>20, <1>21, <1>22,
     <1>23, <1>24, <1>y, <1>z
     DEF Step

LEMMA ChainNext ==
  ASSUME TypeOK, Holding, Halted, Apart, Chain, [Next]_vars
  PROVE  Chain'
<1> USE DEF Chain, Line
<1>1. ASSUME Sweep PROVE Chain'
  BY <1>1, OpFields, DyingKept, DieBehind DEF Sweep, Sampled, Recovered, Alive,
       Idle, tierVars, selVars, feedVars, haltVars
<1>2. ASSUME Hold PROVE Chain'
  BY <1>2, OpFields, DyingKept, DieBehind DEF Hold, Return, Idle, NoReconcile,
       sourceVars, tierVars, selVars, feedVars, haltVars
<1>3. ASSUME Choose PROVE Chain'
  <2>1. PICK late \in BOOLEAN :
          /\ late => MayHang(feed)
          /\ dying' = IF late THEN dying \cup {Left(feed)} ELSE dying
          /\ op' = [who |-> op.who, step |-> "start", s |-> op.s, want |-> Choice(op.s),
                    up |-> Upstream(op.s, Choice(op.s), Silence), behind |-> Behind(feed, late)]
    BY <1>3, Zenon DEF Choose
  <2>2. op.step = "choose" /\ sel = "up" /\ feed' = None
    BY <1>3 DEF Choose
  <2>3. Line' = Behind(feed, late)
    BY <2>1, <2>2
  <2>4. DyingIds' = IF late THEN DyingIds \cup {feed.id} ELSE DyingIds
    <3>1. CASE ~late
      BY <2>1, <3>1 DEF DyingIds
    <3>2. CASE late
      <4>1. DyingIds' = DyingIds \cup {Left(feed).id}
        BY <2>1, <3>2, OneMoreDies
      <4> QED
        BY <3>2, <4>1 DEF Left
    <3> QED
      BY <3>1, <3>2
  <2>5. CASE feed = None
    BY <2>1, <2>2, <2>3, <2>4, <2>5, DieBehind DEF MayHang
  <2>6. CASE feed # None
    BY <2>1, <2>3, <2>4, <2>6, DieBehind DEF Behind
  <2> QED
    BY <2>5, <2>6
<1>4. ASSUME Start PROVE Chain'
  BY <1>4, DyingKept, DieBehind, StartedFeed DEF Start, Return, Idle,
       NoReconcile, sourceVars, tierVars, haltVars
<1>5. ASSUME NEW k \in Kinds \cup {"auto"}, NEW who \in {"operator", "fix"}, SwitchSource(k, who)
      PROVE  Chain'
  BY <1>5, OpFields, DyingKept, DieBehind DEF SwitchSource, Idle, sourceVars,
       tierVars, feedVars, haltVars
<1>6. ASSUME FixSource PROVE Chain'
  BY <1>6, OpFields, DyingKept, DieBehind DEF FixSource, Idle, sourceVars,
       tierVars, haltVars
<1>7. ASSUME ReconcileBegin PROVE Chain'
  BY <1>7, OpFields, DyingKept, DieBehind DEF ReconcileBegin, Idle,
       HoldSilence, sourceVars, selVars, feedVars, haltVars
<1>8. ASSUME DetachFeedForSilence PROVE Chain'
  BY <1>8, OpFields, DyingKept, DieBehind DEF DetachFeedForSilence, Detaches,
       Idle, sourceVars, tierVars, haltVars
<1>9. ASSUME SilenceDown PROVE Chain'
  BY <1>9, OpFields, DyingKept, DieBehind DEF SilenceDown, sourceVars, selVars,
       feedVars, haltVars
<1>10. ASSUME SilenceStart PROVE Chain'
  BY <1>10, OpFields, DyingKept, DieBehind DEF SilenceStart, Spend, Outcomes,
       sourceVars, selVars, haltVars
<1>11. ASSUME KeepSelector PROVE Chain'
  BY <1>11, OpFields, DyingKept, DieBehind DEF KeepSelector, Idle, sourceVars,
       tierVars, selVars, feedVars, haltVars
<1>12. ASSUME RenewSelector PROVE Chain'
  BY <1>12, OpFields, DyingKept, DieBehind DEF RenewSelector, Idle, Dead,
       NoReconcile, Spend, Outcomes, tierVars, haltVars
<1>13. ASSUME ReconcileBackup PROVE Chain'
  BY <1>13, OpFields, OpMoves, DyingKept, DieBehind DEF ReconcileBackup,
       Detaches, Spend, Outcomes, sourceVars, haltVars
<1>14. ASSUME ReconcilePlaylist PROVE Chain'
  BY <1>14, OpFields, OpMoves, DyingKept, DieBehind DEF ReconcilePlaylist,
       Detaches, Spend, Outcomes, Ended, haltVars
<1>15. ASSUME StopTake PROVE Chain'
  <2>1. taken = Nothing /\ op.step # "start" /\ op'.step # "start"
    BY <1>15 DEF StopTake, Halted, Idle
  <2>2. feed' = None /\ taken'.feed = feed /\ taken.feed = None /\ DyingIds' = DyingIds
    BY <1>15, <2>1, DyingKept DEF StopTake, Nothing, feedVars
  <2> QED
    BY <2>1, <2>2
<1>16. ASSUME StopDown PROVE Chain'
  BY <1>16, OpFields, DyingKept, DieBehind DEF StopDown, Nothing, sourceVars,
       tierVars, selVars, Stopped
<1>17. ASSUME Save PROVE Chain'
  BY <1>17, OpFields, DyingKept, DieBehind DEF Save, Act, Idle, sourceVars,
       tierVars, feedVars, haltVars
<1>18. ASSUME Probe PROVE Chain'
  BY <1>18, OpFields, DyingKept, DieBehind DEF Probe, Act, Idle, sourceVars,
       tierVars, feedVars, haltVars
<1>19. ASSUME FeedExits PROVE Chain'
  BY <1>19, OpFields, DyingKept, DieBehind, ExitedFeed, FeedFields DEF
       FeedExits, Act, Idle, sourceVars, tierVars, feedVars, haltVars, TypeOK,
       FeedTypes
<1>20. ASSUME NEW d \in dying, Finish(d) PROVE Chain'
  BY <1>20, FewerDying DEF Finish, sourceVars, tierVars, selVars, haltVars
<1>21. ASSUME NEW k \in Sources, GraceElapses(k) PROVE Chain'
  BY <1>21, OpFields, DyingKept, DieBehind DEF GraceElapses, Alive, Idle,
       tierVars, selVars, feedVars, haltVars
<1>22. ASSUME StableElapses PROVE Chain'
  BY <1>22, OpFields, DyingKept, DieBehind DEF StableElapses, Alive, Idle,
       tierVars, selVars, feedVars, haltVars
<1>23. ASSUME RespawnElapses PROVE Chain'
  BY <1>23, OpFields, DyingKept, DieBehind DEF RespawnElapses, Idle,
       sourceVars, tierVars, feedVars, haltVars
<1>y. ASSUME OutlivedExits PROVE Chain'
  BY <1>y, OpFields, DyingKept, DieBehind DEF OutlivedExits, selVars, Idle,
       sourceVars, tierVars, feedVars, haltVars
<1>24. CASE UNCHANGED vars
  BY <1>24 DEF vars, sourceVars, tierVars, selVars, feedVars, haltVars,
       DyingIds
<1> HIDE DEF Chain, Line
<1>z. Step \/ UNCHANGED vars
  BY StepsAre DEF TypeOK
<1> QED
  BY <1>1, <1>2, <1>3, <1>4, <1>5, <1>6, <1>7, <1>8, <1>9, <1>10, <1>11, <1>12,
     <1>13, <1>14, <1>15, <1>16, <1>17, <1>18, <1>19, <1>20, <1>21, <1>22,
     <1>23, <1>24, <1>y, <1>z
     DEF Step

LEMMA SubscribedNext ==
  ASSUME TypeOK, Holding, Halted, Apart, Subscribed, [Next]_vars
  PROVE  Subscribed'
<1> USE DEF Subscribed, Reads, Fed
<1>1. ASSUME Sweep PROVE Subscribed'
  BY <1>1 DEF Sweep, Sampled, Recovered, Alive, Idle, tierVars, selVars,
       feedVars, haltVars
<1>2. ASSUME Hold PROVE Subscribed'
  BY <1>2 DEF Hold, Return, Idle, NoReconcile, sourceVars, tierVars, selVars,
       feedVars, haltVars
<1>3. ASSUME Choose PROVE Subscribed'
  <2>1. subs' = Unsubscribed(feed) /\ feed' = None /\ taken' = taken
    BY <1>3 DEF Choose, Cut, haltVars
  <2> QED
    BY <2>1, Torn
<1>4. ASSUME Start PROVE Subscribed'
  <2>1. feed = None /\ taken' = taken /\ op.want \in Kinds /\ HubOf(op.want) \in Inputs
    BY <1>4, OpFields, HubOfInputs DEF Start, Holding, haltVars
  <2>2. CASE Startable /\ op.want = "slate"
    <3>1. feed'.in = None /\ feed'.kind = "slate" /\ subs' = subs
      BY <1>4, <2>1, <2>2, HubOfInputs DEF Start
    <3> QED
      BY <2>1, <3>1
  <2>3. CASE Startable /\ op.want # "slate"
    <3>1. HubOf(op.want) \in HubIds \cup {Ingest} /\ HubOf(op.want) # None
      BY <2>1, <2>3 DEF Startable, Inputs
    <3>2. /\ feed'.in = HubOf(op.want) /\ feed'.kind = op.want /\ feed'.id = NewFeedId
          /\ subs' = [subs EXCEPT ![HubOf(op.want)] = NewFeedId]
      BY <1>4, <2>3 DEF Start
    <3>3. /\ subs'[HubOf(op.want)] = NewFeedId
          /\ \A h \in (HubIds \cup {Ingest}) \ {HubOf(op.want)} : subs'[h] = subs[h]
      BY <3>1, <3>2 DEF TypeOK, RelayTypes
    <3>4. feed' # None
      BY <1>4, <2>3, StartedFeed
    <3> QED
      BY <2>1, <2>3, <3>1, <3>2, <3>3, <3>4
  <2>4. CASE ~Startable
    BY <1>4, <2>1, <2>4 DEF Start
  <2> QED
    BY <2>2, <2>3, <2>4
<1>5. ASSUME NEW k \in Kinds \cup {"auto"}, NEW who \in {"operator", "fix"}, SwitchSource(k, who)
      PROVE  Subscribed'
  BY <1>5 DEF SwitchSource, Idle, sourceVars, tierVars, feedVars, haltVars
<1>6. ASSUME FixSource PROVE Subscribed'
  BY <1>6, Torn, SubscribedKept DEF FixSource, Idle, sourceVars, tierVars,
       haltVars
<1>7. ASSUME ReconcileBegin PROVE Subscribed'
  BY <1>7 DEF ReconcileBegin, Idle, HoldSilence, sourceVars, selVars, feedVars,
       haltVars
<1>8. ASSUME DetachFeedForSilence PROVE Subscribed'
  BY <1>8, Torn, SubscribedKept DEF DetachFeedForSilence, Detaches, Idle,
       sourceVars, tierVars, haltVars
<1>9. ASSUME SilenceDown PROVE Subscribed'
  BY <1>9 DEF SilenceDown, sourceVars, selVars, feedVars, haltVars
<1>10. ASSUME SilenceStart PROVE Subscribed'
  <2>1. feed' = feed /\ taken' = taken
    BY <1>10 DEF SilenceStart, selVars, haltVars
  <2>2. CASE ~SilenceUp'
    BY <1>10, <2>1, <2>2 DEF SilenceStart
  <2>3. CASE SilenceUp'
    <3>1. sil' = NewHub /\ subs' = [subs EXCEPT ![NewHub] = None]
      BY <1>10, <2>3, NoHubs DEF SilenceStart, SilenceUp
    <3>2. NewHub \in HubIds
      BY NewHubIsFree
    <3>3. /\ subs'[NewHub] = None
          /\ \A h \in (HubIds \cup {Ingest}) \ {NewHub} : subs'[h] = subs[h]
      BY <3>1, <3>2 DEF TypeOK, RelayTypes
    <3>4. feed # None => feed.in \in HubIds \cup {Ingest, None} /\ feed.in # NewHub
      BY FeedFields, NewHubIsFree DEF TypeOK, FeedTypes, Inputs
    <3> QED
      BY <2>1, <3>3, <3>4
  <2> QED
    BY <2>2, <2>3
<1>11. ASSUME KeepSelector PROVE Subscribed'
  BY <1>11 DEF KeepSelector, Idle, sourceVars, tierVars, selVars, feedVars,
       haltVars
<1>12. ASSUME RenewSelector PROVE Subscribed'
  BY <1>12, Torn, SubscribedKept DEF RenewSelector, Idle, Dead, NoReconcile,
       Spend, Outcomes, tierVars, haltVars
<1>13. ASSUME ReconcileBackup PROVE Subscribed'
  BY <1>13, Torn, SubscribedKept DEF ReconcileBackup, Detaches, Spend,
       Outcomes, sourceVars, haltVars
<1>14. ASSUME ReconcilePlaylist PROVE Subscribed'
  BY <1>14, Torn, SubscribedKept DEF ReconcilePlaylist, Detaches, Spend,
       Outcomes, Ended, haltVars
<1>15. ASSUME StopTake PROVE Subscribed'
  <2>1. taken.feed = None /\ taken'.feed = feed /\ feed' = None /\ subs' = subs
    BY <1>15 DEF StopTake, Halted, Nothing, feedVars
  <2> QED
    BY <2>1
<1>16. ASSUME StopDown PROVE Subscribed'
  <2>1. taken.feed \in Feeds \cup {None}
    BY TakenFields
  <2>2. \A h \in HubIds \cup {Ingest} :
          subs'[h] = IF taken.feed # None /\ taken.feed.in = h THEN None ELSE subs[h]
    BY <1>16, <2>1, UnsubscribedAt DEF StopDown
  <2>3. feed = None /\ feed' = None
    BY <1>16 DEF StopDown, Halted, Stopped, Holding, selVars
  <2> QED
    BY <2>2, <2>3
<1>17. ASSUME Save PROVE Subscribed'
  BY <1>17 DEF Save, Act, Idle, sourceVars, tierVars, feedVars, haltVars
<1>18. ASSUME Probe PROVE Subscribed'
  BY <1>18 DEF Probe, Act, Idle, sourceVars, tierVars, feedVars, haltVars
<1>19. ASSUME FeedExits PROVE Subscribed'
  <2>1. feed \in Feeds /\ feed' = [feed EXCEPT !.run = FALSE] /\ subs' = subs /\ taken' = taken
    BY <1>19 DEF FeedExits, Act, TypeOK, FeedTypes, feedVars, haltVars
  <2>2. /\ feed' \in Feeds /\ feed'.id = feed.id /\ feed'.kind = feed.kind /\ feed'.in = feed.in
        /\ feed' # None /\ feed # None
    BY <2>1, ExitedFeed, FeedFields
  <2> QED
    BY <2>1, <2>2
<1>20. ASSUME NEW d \in dying, Finish(d) PROVE Subscribed'
  <2>1. subs' = subs /\ feed' = feed /\ taken' = taken
    BY <1>20 DEF Finish, Apart, selVars, haltVars
  <2> QED
    BY <2>1
<1>21. ASSUME NEW k \in Sources, GraceElapses(k) PROVE Subscribed'
  BY <1>21 DEF GraceElapses, Alive, Idle, tierVars, selVars, feedVars, haltVars
<1>22. ASSUME StableElapses PROVE Subscribed'
  BY <1>22 DEF StableElapses, Alive, Idle, tierVars, selVars, feedVars,
       haltVars
<1>23. ASSUME RespawnElapses PROVE Subscribed'
  BY <1>23 DEF RespawnElapses, Idle, sourceVars, tierVars, feedVars, haltVars
<1>y. ASSUME OutlivedExits PROVE Subscribed'
  BY <1>y DEF OutlivedExits, selVars, Idle, sourceVars, tierVars, feedVars, haltVars
<1>24. CASE UNCHANGED vars
  BY <1>24 DEF vars, sourceVars, tierVars, selVars, feedVars, haltVars
<1> HIDE DEF Subscribed, Reads, Fed
<1>z. Step \/ UNCHANGED vars
  BY StepsAre DEF TypeOK
<1> QED
  BY <1>1, <1>2, <1>3, <1>4, <1>5, <1>6, <1>7, <1>8, <1>9, <1>10, <1>11, <1>12,
     <1>13, <1>14, <1>15, <1>16, <1>17, <1>18, <1>19, <1>20, <1>21, <1>22,
     <1>23, <1>24, <1>y, <1>z
     DEF Step

LEMMA InletNext ==
  ASSUME TypeOK, Holding, Inlet, [Next]_vars
  PROVE  Inlet'
<1> USE DEF Inlet
<1>1. ASSUME Sweep PROVE Inlet'
  BY <1>1, OpFields DEF Sweep, Sampled, Recovered, Alive, Idle, tierVars,
       selVars, feedVars, haltVars
<1>2. ASSUME Hold PROVE Inlet'
  BY <1>2, OpFields DEF Hold, Return, Idle, NoReconcile, sourceVars, tierVars,
       selVars, feedVars, haltVars
<1>3. ASSUME Choose PROVE Inlet'
  <2>1. op.step = "choose" /\ feed' = None
    BY <1>3 DEF Choose
  <2>2. op'.want = Choice(op.s) /\ op'.up = Upstream(op.s, Choice(op.s), Silence)
    BY <1>3 DEF Choose
  <2> QED
    BY <2>1, <2>2, ChosenIs
<1>4. ASSUME Start PROVE Inlet'
  <2>1. op'.step = "idle" \/ op' = Idle
    BY <1>4 DEF Start, Return
  <2>2. CASE Startable
    <3>1. feed'.kind = op.want /\ feed'.up = op.up /\ feed'.in = HubOf(op.want)
      BY <1>4, <2>2 DEF Start
    <3>2. op.up.kind = op.want /\ bk' = bk /\ pl' = pl
      BY <1>4 DEF Start, tierVars
    <3>3. op.want = "backup" => bk # None /\ HubOf(op.want) = bk.hub
      BY <2>2 DEF Startable, HubOf, Hub
    <3>4. op.want = "playlist" => pl # None /\ HubOf(op.want) = pl.hub
      BY <2>2 DEF Startable, HubOf, Hub
    <3> QED
      BY <2>1, <3>1, <3>2, <3>3, <3>4 DEF Idle
  <2>3. CASE ~Startable
    BY <1>4, <2>1, <2>3 DEF Start, Idle
  <2> QED
    BY <2>2, <2>3
<1>5. ASSUME NEW k \in Kinds \cup {"auto"}, NEW who \in {"operator", "fix"}, SwitchSource(k, who)
      PROVE  Inlet'
  BY <1>5, OpFields DEF SwitchSource, Idle, sourceVars, tierVars, feedVars,
       haltVars
<1>6. ASSUME FixSource PROVE Inlet'
  BY <1>6, OpFields DEF FixSource, Idle, sourceVars, tierVars, haltVars
<1>7. ASSUME ReconcileBegin PROVE Inlet'
  BY <1>7, OpFields DEF ReconcileBegin, Idle, HoldSilence, sourceVars, selVars,
       feedVars, haltVars
<1>8. ASSUME DetachFeedForSilence PROVE Inlet'
  BY <1>8, OpFields DEF DetachFeedForSilence, Detaches, Idle, sourceVars,
       tierVars, haltVars
<1>9. ASSUME SilenceDown PROVE Inlet'
  BY <1>9, OpFields DEF SilenceDown, sourceVars, selVars, feedVars, haltVars
<1>10. ASSUME SilenceStart PROVE Inlet'
  BY <1>10, OpFields DEF SilenceStart, Spend, Outcomes, sourceVars, selVars,
       haltVars
<1>11. ASSUME KeepSelector PROVE Inlet'
  BY <1>11, OpFields DEF KeepSelector, Idle, sourceVars, tierVars, selVars,
       feedVars, haltVars
<1>12. ASSUME RenewSelector PROVE Inlet'
  BY <1>12, OpFields DEF RenewSelector, Idle, Dead, NoReconcile, Spend,
       Outcomes, tierVars, haltVars
<1>13. ASSUME ReconcileBackup PROVE Inlet'
  BY <1>13, OpFields, OpMoves DEF ReconcileBackup, Detaches, Spend, Outcomes,
       sourceVars, haltVars
<1>14. ASSUME ReconcilePlaylist PROVE Inlet'
  BY <1>14, OpFields, OpMoves DEF ReconcilePlaylist, Detaches, Spend, Outcomes,
       Ended, haltVars
<1>15. ASSUME StopTake PROVE Inlet'
  BY <1>15, OpFields DEF StopTake, Idle, Dead, Nothing, feedVars
<1>16. ASSUME StopDown PROVE Inlet'
  BY <1>16, OpFields DEF StopDown, Nothing, sourceVars, tierVars, selVars
<1>17. ASSUME Save PROVE Inlet'
  BY <1>17, OpFields DEF Save, Act, Idle, sourceVars, tierVars, feedVars,
       haltVars
<1>18. ASSUME Probe PROVE Inlet'
  BY <1>18, OpFields DEF Probe, Act, Idle, sourceVars, tierVars, feedVars,
       haltVars
<1>19. ASSUME FeedExits PROVE Inlet'
  BY <1>19, OpFields DEF FeedExits, Act, Idle, sourceVars, tierVars, feedVars,
       haltVars
<1>20. ASSUME NEW d \in dying, Finish(d) PROVE Inlet'
  BY <1>20, OpFields DEF Finish, sourceVars, tierVars, selVars, haltVars
<1>21. ASSUME NEW k \in Sources, GraceElapses(k) PROVE Inlet'
  BY <1>21, OpFields DEF GraceElapses, Alive, Idle, tierVars, selVars,
       feedVars, haltVars
<1>22. ASSUME StableElapses PROVE Inlet'
  BY <1>22, OpFields DEF StableElapses, Alive, Idle, tierVars, selVars,
       feedVars, haltVars
<1>23. ASSUME RespawnElapses PROVE Inlet'
  BY <1>23, OpFields DEF RespawnElapses, Idle, sourceVars, tierVars, feedVars,
       haltVars
<1>y. ASSUME OutlivedExits PROVE Inlet'
  BY <1>y, OpFields DEF OutlivedExits, selVars, Idle, sourceVars, tierVars, feedVars,
       haltVars
<1>24. CASE UNCHANGED vars
  BY <1>24 DEF vars, sourceVars, tierVars, selVars, feedVars, haltVars
<1> HIDE DEF Inlet
<1>z. Step \/ UNCHANGED vars
  BY StepsAre DEF TypeOK
<1> QED
  BY <1>1, <1>2, <1>3, <1>4, <1>5, <1>6, <1>7, <1>8, <1>9, <1>10, <1>11, <1>12,
     <1>13, <1>14, <1>15, <1>16, <1>17, <1>18, <1>19, <1>20, <1>21, <1>22,
     <1>23, <1>24, <1>y, <1>z
     DEF Step

LEMMA IntakeNext ==
  ASSUME TypeOK, Holding, Apart, Intake, [Next]_vars
  PROVE  Intake'
<1> USE DEF Intake, Quiet, HubOf, SilenceUp
<1>1. ASSUME Sweep PROVE Intake'
  BY <1>1, OpFields, RecFields DEF Sweep, Sampled, Recovered, Alive, Idle,
       tierVars, selVars, feedVars, haltVars
<1>2. ASSUME Hold PROVE Intake'
  <2>1. sil' = sil /\ feed' = feed /\ op' = Idle /\ HubOf("primary")' = HubOf("primary")
    BY <1>2 DEF Hold, Return, tierVars, selVars
  <2>2. feed # None /\ feed.kind = "primary" => feed.up.hub = HubOf("primary")
    <3> DEFINE k == Choice(op.s)
               u == Upstream(op.s, k, Silence)
    <3>1. k = "primary" => u.hub = HubOf("primary")
      BY <1>2, ChosenIs DEF Hold
    <3>2. feed # None => feed.kind = k /\ feed.up = u
      BY <1>2 DEF Hold, LetBe, Holding
    <3> QED
      BY <3>1, <3>2
  <2>3. rec' = NoReconcile \/ rec' = rec
    BY <1>2 DEF Hold, Return
  <2> QED
    BY <2>1, <2>2, <2>3 DEF Idle
<1>3. ASSUME Choose PROVE Intake'
  <2>1. op.step = "choose" /\ feed' = None /\ HubOf("primary")' = HubOf("primary")
    BY <1>3 DEF Choose, tierVars
  <2>2. op'.want = Choice(op.s) /\ op'.up = Upstream(op.s, Choice(op.s), Silence)
    BY <1>3 DEF Choose
  <2>3. op'.want = "primary" => op'.up.hub = HubOf("primary")
    BY <2>1, <2>2, ChosenIs
  <2> HIDE DEF HubOf
  <2> QED
    BY <2>1, <2>3
<1>4. ASSUME Start PROVE Intake'
  <2>1. op' = Idle /\ feed = None /\ op.step = "start" /\ HubOf("primary")' = HubOf("primary")
    BY <1>4 DEF Start, Return, Holding, tierVars
  <2>2. CASE Startable
    <3>1. feed'.kind = op.want /\ feed'.up = op.up /\ feed'.in = HubOf(op.want)
      BY <1>4, <2>2 DEF Start
    <3>2. Quiet' => rec.pc = "apply" \/ Quiet
      BY <1>4 DEF Start, Return, Holding
    <3> HIDE DEF HubOf
    <3> QED
      BY <2>1, <3>1, <3>2 DEF Idle
  <2>3. CASE ~Startable
    BY <1>4, <2>1, <2>3 DEF Start, Idle
  <2> QED
    BY <2>2, <2>3
<1>5. ASSUME NEW k \in Kinds \cup {"auto"}, NEW who \in {"operator", "fix"}, SwitchSource(k, who)
      PROVE  Intake'
  BY <1>5, OpFields, RecFields DEF SwitchSource, Idle, sourceVars, tierVars,
       feedVars, haltVars
<1>6. ASSUME FixSource PROVE Intake'
  BY <1>6, OpFields, RecFields DEF FixSource, Idle, sourceVars, tierVars,
       haltVars
<1>7. ASSUME ReconcileBegin PROVE Intake'
  BY <1>7, OpFields, RecFields DEF ReconcileBegin, Idle, HoldSilence,
       sourceVars, selVars, feedVars, haltVars
<1>8. ASSUME DetachFeedForSilence PROVE Intake'
  BY <1>8, OpFields, RecFields DEF DetachFeedForSilence, Detaches, Idle,
       sourceVars, tierVars, haltVars
<1>9. ASSUME SilenceDown PROVE Intake'
  <2>1. rec.pc = "down" /\ feed' = feed /\ op' = op /\ rec'.pc \in {"up", "selector"}
    BY <1>9, RecFields DEF SilenceDown, selVars
  <2>2. sil' = sil \/ sil' = None
    BY <1>9 DEF SilenceDown
  <2> QED
    BY <2>1, <2>2, NoHubs
<1>10. ASSUME SilenceStart PROVE Intake'
  <2>1. rec.pc = "up" /\ feed' = feed /\ op' = op /\ rec'.pc = "selector" /\ sil = None
    BY <1>10, RecFields DEF SilenceStart, Holding, selVars
  <2>2. sil' \in {None, Failed, NewHub}
    BY <1>10 DEF SilenceStart
  <2>3. feed # None => feed.up.hub # NewHub
    BY NewHubIsFree
  <2> QED
    BY <2>1, <2>2, <2>3, NoHubs
<1>11. ASSUME KeepSelector PROVE Intake'
  BY <1>11, OpFields, RecFields DEF KeepSelector, Idle, sourceVars, tierVars,
       selVars, feedVars, haltVars
<1>12. ASSUME RenewSelector PROVE Intake'
  BY <1>12, OpFields, RecFields DEF RenewSelector, Idle, Dead, NoReconcile,
       Spend, Outcomes, tierVars, haltVars
<1>13. ASSUME ReconcileBackup PROVE Intake'
  BY <1>13, OpFields, RecFields, OpMoves DEF ReconcileBackup, Detaches, Spend,
       Outcomes, sourceVars, haltVars
<1>14. ASSUME ReconcilePlaylist PROVE Intake'
  BY <1>14, OpFields, RecFields, OpMoves DEF ReconcilePlaylist, Detaches,
       Spend, Outcomes, Ended, haltVars
<1>15. ASSUME StopTake PROVE Intake'
  BY <1>15, OpFields, RecFields DEF StopTake, Idle, Dead, Nothing, feedVars
<1>16. ASSUME StopDown PROVE Intake'
  BY <1>16, OpFields, RecFields DEF StopDown, Nothing, sourceVars, tierVars,
       selVars
<1>17. ASSUME Save PROVE Intake'
  BY <1>17, OpFields, RecFields DEF Save, Act, Idle, sourceVars, tierVars,
       feedVars, haltVars
<1>18. ASSUME Probe PROVE Intake'
  BY <1>18, OpFields, RecFields DEF Probe, Act, Idle, sourceVars, tierVars,
       feedVars, haltVars
<1>19. ASSUME FeedExits PROVE Intake'
  BY <1>19, OpFields, RecFields DEF FeedExits, Act, Idle, sourceVars, tierVars,
       feedVars, haltVars
<1>20. ASSUME NEW d \in dying, Finish(d) PROVE Intake'
  BY <1>20, OpFields, RecFields DEF Finish, sourceVars, tierVars, selVars,
       haltVars
<1>21. ASSUME NEW k \in Sources, GraceElapses(k) PROVE Intake'
  BY <1>21, OpFields, RecFields DEF GraceElapses, Alive, Idle, tierVars,
       selVars, feedVars, haltVars
<1>22. ASSUME StableElapses PROVE Intake'
  BY <1>22, OpFields, RecFields DEF StableElapses, Alive, Idle, tierVars,
       selVars, feedVars, haltVars
<1>23. ASSUME RespawnElapses PROVE Intake'
  BY <1>23, OpFields, RecFields DEF RespawnElapses, Idle, sourceVars, tierVars,
       feedVars, haltVars
<1>y. ASSUME OutlivedExits PROVE Intake'
  BY <1>y, OpFields, RecFields DEF OutlivedExits, selVars, Idle, sourceVars, tierVars,
       feedVars, haltVars
<1>24. CASE UNCHANGED vars
  BY <1>24 DEF vars, sourceVars, tierVars, selVars, feedVars, haltVars
<1> HIDE DEF Intake, Quiet, HubOf, SilenceUp
<1>z. Step \/ UNCHANGED vars
  BY StepsAre DEF TypeOK
<1> QED
  BY <1>1, <1>2, <1>3, <1>4, <1>5, <1>6, <1>7, <1>8, <1>9, <1>10, <1>11, <1>12,
     <1>13, <1>14, <1>15, <1>16, <1>17, <1>18, <1>19, <1>20, <1>21, <1>22,
     <1>23, <1>24, <1>y, <1>z
     DEF Step

LEMMA NoHubNoCandidateNext ==
  ASSUME TypeOK, NoHubNoCandidate, [Next]_vars
  PROVE  NoHubNoCandidate'
<1> USE DEF NoHubNoCandidate, Alive
<1>1. ASSUME Sweep PROVE NoHubNoCandidate'
  <2>1. pl' = pl /\ live \in [Sources -> {"dead", "fresh", "steady"}]
    BY <1>1 DEF Sweep, TypeOK, SourceTypes, tierVars
  <2>2. PICK grew \in SUBSET {k \in DOMAIN live : HubOf(k) # None} :
          live' = Sampled(grew) \/ live' = Recovered(Sampled(grew))
    BY <1>1 DEF Sweep
  <2>3. pl = None => "playlist" \notin grew
    BY <2>2 DEF HubOf, Hub
  <2>4. "playlist" \notin grew => Sampled(grew)["playlist"] = live["playlist"]
    BY <2>1 DEF Sampled, Sources
  <2>5. Recovered(Sampled(grew))["playlist"] = Sampled(grew)["playlist"]
    BY <2>1 DEF Recovered, Sampled, Sources
  <2> QED
    BY <2>1, <2>2, <2>3, <2>4, <2>5
<1>2. ASSUME Hold PROVE NoHubNoCandidate'
  BY <1>2 DEF Hold, Return, Idle, NoReconcile, sourceVars, tierVars, selVars,
       feedVars, haltVars, SourceTypes, TypeOK, Sources
<1>3. ASSUME Choose PROVE NoHubNoCandidate'
  BY <1>3 DEF Choose, Left, MayHang, sourceVars, tierVars, haltVars,
       SourceTypes, TypeOK, Sources
<1>4. ASSUME Start PROVE NoHubNoCandidate'
  BY <1>4 DEF Start, Return, Idle, NoReconcile, sourceVars, tierVars, haltVars,
       SourceTypes, TypeOK, Sources
<1>5. ASSUME NEW k \in Kinds \cup {"auto"}, NEW who \in {"operator", "fix"}, SwitchSource(k, who)
      PROVE  NoHubNoCandidate'
  BY <1>5 DEF SwitchSource, Idle, sourceVars, tierVars, feedVars, haltVars,
       SourceTypes, TypeOK, Sources
<1>6. ASSUME FixSource PROVE NoHubNoCandidate'
  BY <1>6 DEF FixSource, Idle, sourceVars, tierVars, haltVars, SourceTypes,
       TypeOK, Sources
<1>7. ASSUME ReconcileBegin PROVE NoHubNoCandidate'
  BY <1>7 DEF ReconcileBegin, Idle, HoldSilence, sourceVars, selVars, feedVars,
       haltVars, SourceTypes, TypeOK, Sources
<1>8. ASSUME DetachFeedForSilence PROVE NoHubNoCandidate'
  BY <1>8 DEF DetachFeedForSilence, Detaches, Idle, sourceVars, tierVars,
       haltVars, SourceTypes, TypeOK, Sources
<1>9. ASSUME SilenceDown PROVE NoHubNoCandidate'
  BY <1>9 DEF SilenceDown, sourceVars, selVars, feedVars, haltVars,
       SourceTypes, TypeOK, Sources
<1>10. ASSUME SilenceStart PROVE NoHubNoCandidate'
  BY <1>10 DEF SilenceStart, Spend, Outcomes, sourceVars, selVars, haltVars,
       SourceTypes, TypeOK, Sources
<1>11. ASSUME KeepSelector PROVE NoHubNoCandidate'
  BY <1>11 DEF KeepSelector, Idle, sourceVars, tierVars, selVars, feedVars,
       haltVars, SourceTypes, TypeOK, Sources
<1>12. ASSUME RenewSelector PROVE NoHubNoCandidate'
  BY <1>12 DEF RenewSelector, Idle, Dead, NoReconcile, Spend, Outcomes,
       tierVars, haltVars, SourceTypes, TypeOK, Sources
<1>13. ASSUME ReconcileBackup PROVE NoHubNoCandidate'
  BY <1>13 DEF ReconcileBackup, Detaches, Spend, Outcomes, sourceVars,
       haltVars, SourceTypes, TypeOK, Sources
<1>14. ASSUME ReconcilePlaylist PROVE NoHubNoCandidate'
  BY <1>14 DEF ReconcilePlaylist, Detaches, Spend, Outcomes, Ended, haltVars,
       SourceTypes, TypeOK, Sources
<1>15. ASSUME StopTake PROVE NoHubNoCandidate'
  BY <1>15 DEF StopTake, Idle, Dead, Nothing, feedVars, SourceTypes, TypeOK,
       Sources
<1>16. ASSUME StopDown PROVE NoHubNoCandidate'
  BY <1>16 DEF StopDown, Nothing, sourceVars, tierVars, selVars, SourceTypes,
       TypeOK, Sources
<1>17. ASSUME Save PROVE NoHubNoCandidate'
  BY <1>17 DEF Save, Act, Idle, sourceVars, tierVars, feedVars, haltVars,
       SourceTypes, TypeOK, Sources
<1>18. ASSUME Probe PROVE NoHubNoCandidate'
  BY <1>18 DEF Probe, Act, Idle, sourceVars, tierVars, feedVars, haltVars,
       SourceTypes, TypeOK, Sources
<1>19. ASSUME FeedExits PROVE NoHubNoCandidate'
  BY <1>19 DEF FeedExits, Act, Idle, sourceVars, tierVars, feedVars, haltVars,
       SourceTypes, TypeOK, Sources
<1>20. ASSUME NEW d \in dying, Finish(d) PROVE NoHubNoCandidate'
  BY <1>20 DEF Finish, sourceVars, tierVars, selVars, haltVars, SourceTypes,
       TypeOK, Sources
<1>21. ASSUME NEW k \in Sources, GraceElapses(k) PROVE NoHubNoCandidate'
  BY <1>21 DEF GraceElapses, Alive, Idle, tierVars, selVars, feedVars,
       haltVars, SourceTypes, TypeOK, Sources
<1>22. ASSUME StableElapses PROVE NoHubNoCandidate'
  BY <1>22 DEF StableElapses, Alive, Idle, tierVars, selVars, feedVars,
       haltVars, SourceTypes, TypeOK, Sources
<1>23. ASSUME RespawnElapses PROVE NoHubNoCandidate'
  BY <1>23 DEF RespawnElapses, Idle, sourceVars, tierVars, feedVars, haltVars,
       SourceTypes, TypeOK, Sources
<1>y. ASSUME OutlivedExits PROVE NoHubNoCandidate'
  BY <1>y DEF OutlivedExits, selVars, Idle, sourceVars, tierVars, feedVars, haltVars,
       SourceTypes, TypeOK, Sources
<1>24. CASE UNCHANGED vars
  BY <1>24 DEF vars, sourceVars, tierVars, selVars, feedVars, haltVars
<1> HIDE DEF NoHubNoCandidate, Alive
<1>z. Step \/ UNCHANGED vars
  BY StepsAre DEF TypeOK
<1> QED
  BY <1>1, <1>2, <1>3, <1>4, <1>5, <1>6, <1>7, <1>8, <1>9, <1>10, <1>11, <1>12,
     <1>13, <1>14, <1>15, <1>16, <1>17, <1>18, <1>19, <1>20, <1>21, <1>22,
     <1>23, <1>24, <1>y, <1>z
     DEF Step

LEMMA StableNext ==
  ASSUME TypeOK, Stable, [Next]_vars
  PROVE  Stable'
<1> USE DEF Stable
<1>1. ASSUME Sweep PROVE Stable'
  <2>1. live \in [Sources -> {"dead", "fresh", "steady"}] /\ "primary" \in Sources
    BY DEF TypeOK, SourceTypes, Sources
  <2>2. PICK grew \in SUBSET {k \in DOMAIN live : HubOf(k) # None}, trip \in BOOLEAN :
          LET s == IF stale = None THEN cfg ELSE stale
              l == Sampled(grew)
          IN /\ trip => s.degraded /\ l["primary"] # "dead"
             /\ deg' = trip
             /\ live' = IF deg /\ ~trip /\ s.degraded /\ l["primary"] # "dead"
                        THEN Recovered(l) ELSE l
             /\ calm' = IF s.degraded THEN calm /\ ~trip /\ ~deg /\ Alive("primary")
                        ELSE l["primary"] = "steady"
    BY <1>1, Zenon DEF Sweep
  <2> DEFINE l == Sampled(grew)
  <2>3. l["primary"] = "steady" <=> live["primary"] = "steady"
    BY <2>1 DEF Sampled, Alive
  <2>4. Recovered(l)["primary"] = "fresh"
    BY <2>1 DEF Sampled, Recovered
  <2> HIDE DEF l
  <2> SUFFICES ASSUME live'["primary"] = "steady", ~deg' PROVE calm'
    OBVIOUS
  <2>5. ~trip /\ live' = l
    BY <2>2, <2>4 DEF l
  <2>6. live["primary"] = "steady" /\ Alive("primary")
    BY <2>3, <2>5 DEF Alive
  <2>7. CASE ~(IF stale = None THEN cfg ELSE stale).degraded
    BY <2>2, <2>3, <2>5, <2>6, <2>7 DEF l
  <2>8. CASE (IF stale = None THEN cfg ELSE stale).degraded
    <3>1. ~deg
      BY <2>2, <2>4, <2>5, <2>6, <2>8 DEF l
    <3>2. calm
      BY <2>6, <3>1
    <3> QED
      BY <2>2, <2>5, <2>6, <2>8, <3>1, <3>2 DEF l
  <2> QED
    BY <2>7, <2>8
<1>2. ASSUME Hold PROVE Stable'
  BY <1>2 DEF Hold, Return, Idle, NoReconcile, sourceVars, tierVars, selVars,
       feedVars, haltVars, SourceTypes, TypeOK, Sources
<1>3. ASSUME Choose PROVE Stable'
  BY <1>3 DEF Choose, Left, MayHang, sourceVars, tierVars, haltVars,
       SourceTypes, TypeOK, Sources
<1>4. ASSUME Start PROVE Stable'
  BY <1>4 DEF Start, Return, Idle, NoReconcile, sourceVars, tierVars, haltVars,
       SourceTypes, TypeOK, Sources
<1>5. ASSUME NEW k \in Kinds \cup {"auto"}, NEW who \in {"operator", "fix"}, SwitchSource(k, who)
      PROVE  Stable'
  BY <1>5 DEF SwitchSource, Idle, sourceVars, tierVars, feedVars, haltVars,
       SourceTypes, TypeOK, Sources
<1>6. ASSUME FixSource PROVE Stable'
  BY <1>6 DEF FixSource, Idle, sourceVars, tierVars, haltVars, SourceTypes,
       TypeOK, Sources
<1>7. ASSUME ReconcileBegin PROVE Stable'
  BY <1>7 DEF ReconcileBegin, Idle, HoldSilence, sourceVars, selVars, feedVars,
       haltVars, SourceTypes, TypeOK, Sources
<1>8. ASSUME DetachFeedForSilence PROVE Stable'
  BY <1>8 DEF DetachFeedForSilence, Detaches, Idle, sourceVars, tierVars,
       haltVars, SourceTypes, TypeOK, Sources
<1>9. ASSUME SilenceDown PROVE Stable'
  BY <1>9 DEF SilenceDown, sourceVars, selVars, feedVars, haltVars,
       SourceTypes, TypeOK, Sources
<1>10. ASSUME SilenceStart PROVE Stable'
  BY <1>10 DEF SilenceStart, Spend, Outcomes, sourceVars, selVars, haltVars,
       SourceTypes, TypeOK, Sources
<1>11. ASSUME KeepSelector PROVE Stable'
  BY <1>11 DEF KeepSelector, Idle, sourceVars, tierVars, selVars, feedVars,
       haltVars, SourceTypes, TypeOK, Sources
<1>12. ASSUME RenewSelector PROVE Stable'
  BY <1>12 DEF RenewSelector, Idle, Dead, NoReconcile, Spend, Outcomes,
       tierVars, haltVars, SourceTypes, TypeOK, Sources
<1>13. ASSUME ReconcileBackup PROVE Stable'
  BY <1>13 DEF ReconcileBackup, Detaches, Spend, Outcomes, sourceVars,
       haltVars, SourceTypes, TypeOK, Sources
<1>14. ASSUME ReconcilePlaylist PROVE Stable'
  BY <1>14 DEF ReconcilePlaylist, Detaches, Spend, Outcomes, Ended, haltVars,
       SourceTypes, TypeOK, Sources
<1>15. ASSUME StopTake PROVE Stable'
  BY <1>15 DEF StopTake, Idle, Dead, Nothing, feedVars, SourceTypes, TypeOK,
       Sources
<1>16. ASSUME StopDown PROVE Stable'
  BY <1>16 DEF StopDown, Nothing, sourceVars, tierVars, selVars, SourceTypes,
       TypeOK, Sources
<1>17. ASSUME Save PROVE Stable'
  BY <1>17 DEF Save, Act, Idle, sourceVars, tierVars, feedVars, haltVars,
       SourceTypes, TypeOK, Sources
<1>18. ASSUME Probe PROVE Stable'
  BY <1>18 DEF Probe, Act, Idle, sourceVars, tierVars, feedVars, haltVars,
       SourceTypes, TypeOK, Sources
<1>19. ASSUME FeedExits PROVE Stable'
  BY <1>19 DEF FeedExits, Act, Idle, sourceVars, tierVars, feedVars, haltVars,
       SourceTypes, TypeOK, Sources
<1>20. ASSUME NEW d \in dying, Finish(d) PROVE Stable'
  BY <1>20 DEF Finish, sourceVars, tierVars, selVars, haltVars, SourceTypes,
       TypeOK, Sources
<1>21. ASSUME NEW k \in Sources, GraceElapses(k) PROVE Stable'
  BY <1>21 DEF GraceElapses, Alive, Idle, tierVars, selVars, feedVars,
       haltVars, SourceTypes, TypeOK, Sources
<1>22. ASSUME StableElapses PROVE Stable'
  BY <1>22 DEF StableElapses, Alive, Idle, tierVars, selVars, feedVars,
       haltVars, SourceTypes, TypeOK, Sources
<1>23. ASSUME RespawnElapses PROVE Stable'
  BY <1>23 DEF RespawnElapses, Idle, sourceVars, tierVars, feedVars, haltVars,
       SourceTypes, TypeOK, Sources
<1>y. ASSUME OutlivedExits PROVE Stable'
  BY <1>y DEF OutlivedExits, selVars, Idle, sourceVars, tierVars, feedVars, haltVars,
       SourceTypes, TypeOK, Sources
<1>24. CASE UNCHANGED vars
  BY <1>24 DEF vars, sourceVars, tierVars, selVars, feedVars, haltVars
<1> HIDE DEF Stable
<1>z. Step \/ UNCHANGED vars
  BY StepsAre DEF TypeOK
<1> QED
  BY <1>1, <1>2, <1>3, <1>4, <1>5, <1>6, <1>7, <1>8, <1>9, <1>10, <1>11, <1>12,
     <1>13, <1>14, <1>15, <1>16, <1>17, <1>18, <1>19, <1>20, <1>21, <1>22,
     <1>23, <1>24, <1>y, <1>z
     DEF Step

(* A decision that something must start is made by Choose and by no other  *)
(* step.                                                                   *)
LEMMA OnlyChooseDecides ==
  ASSUME TypeOK, [Next]_vars
  PROVE  op.step = "choose" /\ op'.step = "start" => Choose
<1>1. ASSUME Sweep PROVE op.step = "choose" /\ op'.step = "start" => Choose
  BY <1>1, OpFields DEF Sweep, Sampled, Recovered, Alive, Idle, tierVars,
       selVars, feedVars, haltVars
<1>2. ASSUME Hold PROVE op.step = "choose" /\ op'.step = "start" => Choose
  BY <1>2, OpFields DEF Hold, Return, Idle, NoReconcile, sourceVars, tierVars,
       selVars, feedVars, haltVars
<1>3. ASSUME Choose PROVE op.step = "choose" /\ op'.step = "start" => Choose
  BY <1>3 DEF Choose, Left, MayHang, sourceVars, tierVars, haltVars
<1>4. ASSUME Start PROVE op.step = "choose" /\ op'.step = "start" => Choose
  BY <1>4, OpFields DEF Start, Return, Idle, NoReconcile, sourceVars, tierVars,
       haltVars
<1>5. ASSUME NEW k \in Kinds \cup {"auto"}, NEW who \in {"operator", "fix"}, SwitchSource(k, who)
      PROVE  op.step = "choose" /\ op'.step = "start" => Choose
  BY <1>5, OpFields DEF SwitchSource, Idle, sourceVars, tierVars, feedVars,
       haltVars
<1>6. ASSUME FixSource PROVE op.step = "choose" /\ op'.step = "start" => Choose
  BY <1>6, OpFields DEF FixSource, Idle, sourceVars, tierVars, haltVars
<1>7. ASSUME ReconcileBegin
      PROVE  op.step = "choose" /\ op'.step = "start" => Choose
  BY <1>7, OpFields DEF ReconcileBegin, Idle, HoldSilence, sourceVars, selVars,
       feedVars, haltVars
<1>8. ASSUME DetachFeedForSilence
      PROVE  op.step = "choose" /\ op'.step = "start" => Choose
  BY <1>8, OpFields DEF DetachFeedForSilence, Detaches, Idle, sourceVars,
       tierVars, haltVars
<1>9. ASSUME SilenceDown
      PROVE  op.step = "choose" /\ op'.step = "start" => Choose
  BY <1>9, OpFields DEF SilenceDown, sourceVars, selVars, feedVars, haltVars
<1>10. ASSUME SilenceStart
      PROVE  op.step = "choose" /\ op'.step = "start" => Choose
  BY <1>10, OpFields DEF SilenceStart, Spend, Outcomes, sourceVars, selVars,
       haltVars
<1>11. ASSUME KeepSelector
      PROVE  op.step = "choose" /\ op'.step = "start" => Choose
  BY <1>11, OpFields DEF KeepSelector, Idle, sourceVars, tierVars, selVars,
       feedVars, haltVars
<1>12. ASSUME RenewSelector
      PROVE  op.step = "choose" /\ op'.step = "start" => Choose
  BY <1>12, OpFields DEF RenewSelector, Idle, Dead, NoReconcile, Spend,
       Outcomes, tierVars, haltVars
<1>13. ASSUME ReconcileBackup
      PROVE  op.step = "choose" /\ op'.step = "start" => Choose
  BY <1>13, OpFields, OpMoves DEF ReconcileBackup, Detaches, Spend, Outcomes,
       sourceVars, haltVars
<1>14. ASSUME ReconcilePlaylist
      PROVE  op.step = "choose" /\ op'.step = "start" => Choose
  BY <1>14, OpFields, OpMoves DEF ReconcilePlaylist, Detaches, Spend, Outcomes,
       Ended, haltVars
<1>15. ASSUME StopTake PROVE op.step = "choose" /\ op'.step = "start" => Choose
  BY <1>15, OpFields DEF StopTake, Idle, Dead, Nothing, feedVars
<1>16. ASSUME StopDown PROVE op.step = "choose" /\ op'.step = "start" => Choose
  BY <1>16, OpFields DEF StopDown, Nothing, sourceVars, tierVars, selVars
<1>17. ASSUME Save PROVE op.step = "choose" /\ op'.step = "start" => Choose
  BY <1>17, OpFields DEF Save, Act, Idle, sourceVars, tierVars, feedVars,
       haltVars
<1>18. ASSUME Probe PROVE op.step = "choose" /\ op'.step = "start" => Choose
  BY <1>18, OpFields DEF Probe, Act, Idle, sourceVars, tierVars, feedVars,
       haltVars
<1>19. ASSUME FeedExits
      PROVE  op.step = "choose" /\ op'.step = "start" => Choose
  BY <1>19, OpFields DEF FeedExits, Act, Idle, sourceVars, tierVars, feedVars,
       haltVars
<1>20. ASSUME NEW d \in dying, Finish(d)
      PROVE  op.step = "choose" /\ op'.step = "start" => Choose
  BY <1>20, OpFields DEF Finish, sourceVars, tierVars, selVars, haltVars
<1>21. ASSUME NEW k \in Sources, GraceElapses(k)
      PROVE  op.step = "choose" /\ op'.step = "start" => Choose
  BY <1>21, OpFields DEF GraceElapses, Alive, Idle, tierVars, selVars,
       feedVars, haltVars
<1>22. ASSUME StableElapses
      PROVE  op.step = "choose" /\ op'.step = "start" => Choose
  BY <1>22, OpFields DEF StableElapses, Alive, Idle, tierVars, selVars,
       feedVars, haltVars
<1>23. ASSUME RespawnElapses
      PROVE  op.step = "choose" /\ op'.step = "start" => Choose
  BY <1>23, OpFields DEF RespawnElapses, Idle, sourceVars, tierVars, feedVars,
       haltVars
<1>y. ASSUME OutlivedExits
      PROVE  op.step = "choose" /\ op'.step = "start" => Choose
  BY <1>y, OpFields DEF OutlivedExits
<1>24. CASE UNCHANGED vars
  BY <1>24 DEF vars, sourceVars, tierVars, selVars, feedVars, haltVars
<1>z. Step \/ UNCHANGED vars
  BY StepsAre DEF TypeOK
<1> QED
  BY <1>1, <1>2, <1>3, <1>4, <1>5, <1>6, <1>7, <1>8, <1>9, <1>10, <1>11, <1>12,
     <1>13, <1>14, <1>15, <1>16, <1>17, <1>18, <1>19, <1>20, <1>21, <1>22,
     <1>23, <1>24, <1>y, <1>z
     DEF Step

-----------------------------------------------------------------------------
(* The inductive invariant holds at the start and is kept.                 *)
LEMMA InitInv ==
  ASSUME Init PROVE IInv
<1>1. Idle \in Holders /\ NoReconcile \in Passes /\ Nothing.feed = None
  BY Idles DEF Nothing
<1>2. WorldTypes
  <2>1. MaxActs \in Nat
    BY BoundsAssumption
  <2>2. MaxActs \in 0..MaxActs
    BY <2>1
  <2> QED
    BY <2>2 DEF Init, WorldTypes
<1>3. HolderTypes
  BY <1>1, Idles DEF Init, HolderTypes
<1>4. FeedTypes
  BY DEF Init, FeedTypes
<1>5. SourceTypes
  BY DEF Init, SourceTypes, Dead
<1>6. TierTypes
  BY DEF Init, TierTypes, SilenceTiers
<1>7. RelayTypes
  BY DEF Init, RelayTypes
<1>8. HaltTypes
  BY DEF Init, HaltTypes, Nothing, SilenceTiers
<1>9. TypeOK
  BY <1>2, <1>3, <1>4, <1>5, <1>6, <1>7, <1>8 DEF TypeOK
<1>10. Holding
  BY DEF Init, Holding, Idle, NoReconcile
<1>11. Halted
  BY DEF Init, Halted, Stopped
<1>12. DyingIds = {}
  BY DEF Init, DyingIds
<1>13. Chain
  BY <1>12 DEF Chain
<1>14. Apart
  BY <1>1, <1>12, FS_EmptySet, BoundsAssumption DEF Init, Apart
<1>15. Subscribed
  BY DEF Init, Subscribed
<1>16. Inlet
  BY DEF Init, Inlet, Idle
<1>17. Intake
  BY DEF Init, Intake, Idle
<1>18. NoHubNoCandidate
  BY DEF Init, NoHubNoCandidate, Alive, Dead, Sources
<1>19. Stable
  BY DEF Init, Stable, Dead, Sources
<1> QED
  BY <1>9, <1>10, <1>11, <1>13, <1>14, <1>15, <1>16, <1>17, <1>18, <1>19 DEF IInv

LEMMA NextInv ==
  ASSUME IInv, [Next]_vars PROVE IInv'
<1> USE DEF IInv
<1>1. TypeOK'
  <2>1. WorldTypes /\ SourceTypes
    BY DEF TypeOK
  <2>2. WorldTypes' /\ HolderTypes' /\ FeedTypes' /\ SourceTypes'
    BY <2>1, WorldTypesNext, HolderTypesNext, FeedTypesNext, SourceTypesNext
  <2>3. TierTypes' /\ RelayTypes' /\ HaltTypes'
    BY TierTypesNext, RelayTypesNext, HaltTypesNext
  <2> QED
    BY <2>2, <2>3 DEF TypeOK
<1>2. Holding' /\ Halted' /\ Apart'
  BY HoldingNext, HaltedNext, ApartNext
<1>3. Chain' /\ Subscribed' /\ Inlet'
  BY ChainNext, SubscribedNext, InletNext
<1>4. Intake' /\ NoHubNoCandidate' /\ Stable'
  BY IntakeNext, NoHubNoCandidateNext, StableNext
<1> QED
  BY <1>1, <1>2, <1>3, <1>4

(* The inductive invariant is one.                                         *)
THEOREM Invariance == Spec => []IInv
<1>1. Init => IInv
  BY InitInv
<1>2. IInv /\ [Next]_vars => IInv'
  BY NextInv
<1> QED
  BY <1>1, <1>2, PTL DEF Spec

-----------------------------------------------------------------------------
(* Its consequences.                                                       *)
LEMMA TheInvariantIsTrueOfTheFeed ==
  ASSUME IInv PROVE FeedIsTrue
<1> USE DEF IInv
<1>1. OnePublisher
  <2>1. \A d \in dying : ~Fed(d)
    <3> SUFFICES ASSUME NEW d \in dying, Fed(d) PROVE FALSE
      OBVIOUS
    <3>1. d.id \in FeedIds /\ d.in \in HubIds \cup {Ingest} /\ d.id \in DyingIds
      BY DEF TypeOK, RelayTypes, Leavings, DyingIds
    <3>2. d.id # None
      BY <3>1, NoneAssumption, BoundsAssumption, HubsAssumption DEF FeedIds
    <3>3. subs[d.in] = d.id
      BY DEF Fed
    <3>4. Reads(feed, d.in) \/ Reads(taken.feed, d.in)
      BY <3>1, <3>2, <3>3 DEF Subscribed
    <3> QED
      BY <3>1, <3>3, <3>4 DEF Reads, Apart
  <2>2. Publishing \ outlived \subseteq {feed.id}
    BY <2>1 DEF Publishing
  <2>3. IsFiniteSet({feed.id}) /\ Cardinality({feed.id}) = 1
    BY FS_Singleton
  <2>4. Cardinality(Publishing \ outlived) <= Cardinality({feed.id})
    BY <2>2, <2>3, FS_Subset
  <2> QED
    BY <2>3, <2>4 DEF OnePublisher
<1>2. ReadsItsHub
  <2> SUFFICES ASSUME rec.pc = "idle", feed # None, feed.kind # "slate"
               PROVE  feed.in = HubOf(feed.kind) /\ Fed(feed)
    BY DEF ReadsItsHub
  <2>1. feed.kind \in {"primary", "backup", "playlist"}
    BY FeedFields, KindsAre DEF TypeOK, FeedTypes
  <2>2. CASE feed.kind = "primary"
    BY <2>2 DEF Intake, Quiet, Subscribed
  <2>3. CASE feed.kind = "backup"
    BY <2>3 DEF Inlet, HubOf, Hub, Subscribed
  <2>4. CASE feed.kind = "playlist"
    BY <2>4 DEF Inlet, HubOf, Hub, Subscribed
  <2> QED
    BY <2>1, <2>2, <2>3, <2>4
<1>3. StopLeavesNothing
  <2> SUFFICES ASSUME halt = "down"
               PROVE  feed = None /\ dying = {} /\ bk = None /\ pl = None /\ ~SilenceUp
                      /\ sel # "up"
    BY DEF StopLeavesNothing
  <2>1. bk = None /\ pl = None /\ ~SilenceUp /\ sel # "up" /\ feed = None
    BY DEF Halted, Holding, Stopped
  <2>2. op.step # "start" /\ taken.feed = None
    BY <2>1 DEF Halted, Holding, Nothing
  <2>3. DyingIds = {}
    BY <2>1, <2>2 DEF Chain, Line
  <2>4. dying = {}
    BY <2>3 DEF DyingIds
  <2> QED
    BY <2>1, <2>4
<1> QED
  BY <1>1, <1>2, <1>3 DEF FeedIsTrue

(* The selector's relay has one publisher, whatever dies late and besides  *)
(* slates whose Stop ran out of time, which reads the relay that serves    *)
(* its kind; nothing that has no relay is chosen; a shutdown leaves        *)
(* nothing behind (applySourceChoice, ensureFeed, retireFeed, reportStop,  *)
(* reconcileSilence, reconcilePlaylist, StopWithin).                       *)
THEOREM FeedIsTrueAlways == Spec => []FeedIsTrue
<1>1. IInv => FeedIsTrue
  BY TheInvariantIsTrueOfTheFeed
<1> QED
  BY <1>1, Invariance, PTL

(* A backup that delivers is left for the primary when it is pinned, or    *)
(* returns by itself and was undisturbed for all of returnStable           *)
(* (fromBackup, primaryStableLocked): in a step that decides so.           *)
LEMMA ReturnsInTime ==
  ASSUME IInv, [Next]_vars, op.step = "choose", op'.step = "start", op'.want = "primary",
         active = "backup", "backup" \in Available(op.s)
  PROVE  pinned = "primary" \/ (op.s.auto /\ Undisturbed(op.s))
<1>1. op'.want = Choice(op.s)
  BY OnlyChooseDecides DEF IInv, Choose
<1>2. CASE pinned \in Pinnable(op.s)
  BY <1>1, <1>2 DEF Choice
<1>3. CASE pinned \notin Pinnable(op.s)
  <2>1. Returns(op.s)
    BY <1>1, <1>3 DEF Choice
  <2>2. ~Degraded(op.s) /\ op.s.auto /\ live["primary"] = "steady"
    BY <2>1 DEF Returns, Available
  <2> QED
    BY <2>2 DEF IInv, Stable, Undisturbed, Degraded
<1> QED
  BY <1>2, <1>3

(* The selector does not flap: NoFlapping holds of every behaviour.        *)
THEOREM NoFlappingAlways == Spec => NoFlapping
<1>1. IInv /\ [Next]_vars =>
        [op.step = "choose" /\ op'.step = "start" /\ op'.want = "primary"
           /\ active = "backup" /\ "backup" \in Available(op.s)
         => pinned = "primary" \/ (op.s.auto /\ Undisturbed(op.s))]_vars
  BY ReturnsInTime
<1> QED
  BY <1>1, Invariance, PTL DEF Spec, NoFlapping
=============================================================================

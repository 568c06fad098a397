------------------------------ MODULE Selector ------------------------------
(***************************************************************************)
(* internal/engine/selector.go with silence.go and degrade.go: failover.   *)
(* The selector's hub is what every destination reads for its whole life;  *)
(* one feed, a copy hop or the slate, publishes into it.  A feed reads the *)
(* hub of its kind: the primary's (the ingest's, or the silence tier's     *)
(* when one stands in between), the backup's, the playlist's.              *)
(*                                                                         *)
(* Who holds selMu is op: a reconcile, a sweep or the operator.  All three *)
(* end in Choose and Start, the two halves of applySourceChoice: between   *)
(* them the old feed is being stopped, and only what does not take selMu   *)
(* moves: the silence tier, the settings, the child processes, the clock.  *)
(***************************************************************************)
EXTENDS Integers, FiniteSets

CONSTANTS Configs,   \* settings the operator saves
          MaxActs,   \* saves, probes, switches, fixes, deaths and failures
          MaxDying,  \* replaced feeds that are still dying, or outlived their Stop
          MaxHubs,   \* relays besides the ingest's
          None,      \* no feed, no hub, no settings
          Failed     \* a silence tier that has no hub

ASSUME BoundsAssumption == {MaxActs, MaxDying, MaxHubs} \subseteq Nat
\* There is always a free port: the tiers, the feeds and the shutdown refer to so many.
ASSUME HubsAssumption == MaxHubs > MaxDying + 11
ASSUME SettingsAssumption ==
  Configs \subseteq [failover : BOOLEAN, backup : Nat, playlist : Nat, slate : BOOLEAN,
                    auto : BOOLEAN, degraded : BOOLEAN]

VARIABLES
  cfg, mute, acts,    \* the settings; the probe found no audio; acts left
  rec,                \* reconcileOutputs: stage, its settings, its silence signature
  stale, fixing,      \* settings a sweep read that were saved over since; what FixSource read
  op,                 \* who holds selMu, its stage, its settings, its choice
  sel,                \* e.sel: none, broken (its hub failed), up
  active, pinned, feed,  \* fields of e.sel
  recent,             \* a feed that does not run was last tried within feedRespawn
  live, deg,          \* e.sel.live and e.sel.degrade.tripped
  calm,               \* the primary delivered, undegraded, all of returnStable
  held,               \* e.heldSilenceSig
  sil, bk, pl,        \* e.silence, e.backup, e.playlist
  subs,               \* of each hub: the feed subscribed as selectorSubName
  dying,              \* feeds that retireFeed left to die
  outlived,           \* slates whose Stop ran out of time, writing into e.sel's hub
  halt, taken         \* StopWithin: stage, what it collected

sourceVars == <<live, deg, calm>>
tierVars == <<held, sil, bk, pl>>
selVars  == <<sel, active, pinned, feed, recent>>
feedVars == <<subs, dying, outlived>>
haltVars == <<halt, taken>>
vars == <<cfg, mute, acts, rec, stale, fixing, op, selVars, sourceVars, tierVars, feedVars, haltVars>>

Ingest == 0                     \* e.hub
HubIds == 1..MaxHubs
FeedIds == 1..(MaxDying + 1)
Ladder == <<"primary", "backup", "playlist", "slate">>
Kinds == {Ladder[i] : i \in DOMAIN Ladder}
Idle == [who |-> "nobody", step |-> "idle"]
NoReconcile == [pc |-> "idle", s |-> None, sig |-> FALSE]
Stopped == halt # "no"          \* e.stopped

\* What the feeds and the tiers read, what a feed was started for, and who holds selMu.
Inputs == HubIds \cup {Ingest, None}
Sources == {"primary", "backup", "playlist"}
Upstreams == [kind : Kinds, sig : Nat, hub : Inputs]
Feeds == [id : FeedIds, kind : Kinds, up : Upstreams, in : Inputs, run : BOOLEAN,
          prev : SUBSET FeedIds]
Leavings == [id : FeedIds, in : HubIds \cup {Ingest}, named : BOOLEAN]
Tiers == [hub : HubIds, sig : Nat]
SilenceTiers == HubIds \cup {None, Failed}
Callers == {"reconcile", "sweep", "operator", "fix"}
Holders ==
  {Idle} \cup [who : Callers, step : {"backup", "playlist", "choose"}, s : Configs]
    \cup [who : Callers, step : {"start"}, s : Configs, want : Kinds, up : Upstreams,
          behind : SUBSET FeedIds]
Passes == [pc : {"idle", "detach", "down", "up", "selector", "apply"},
           s : Configs \cup {None}, sig : BOOLEAN]

ASSUME NoneAssumption ==
  /\ None # Failed
  /\ \A x \in {None, Failed} : x \notin Feeds /\ x \notin Tiers /\ x \notin 0..MaxHubs

WorldTypes  == /\ cfg \in Configs /\ mute \in BOOLEAN /\ acts \in 0..MaxActs
               /\ stale \in Configs \cup {None} /\ fixing \in Configs \cup {None}
HolderTypes == rec \in Passes /\ (rec.pc # "idle" => rec.s \in Configs) /\ op \in Holders
FeedTypes   == /\ sel \in {"none", "broken", "up"} /\ active \in Kinds \cup {"none"}
               /\ pinned \in Kinds \cup {"auto"} /\ recent \in BOOLEAN
               /\ feed \in Feeds \cup {None}
SourceTypes == /\ live \in [Sources -> {"dead", "fresh", "steady"}]
               /\ deg \in BOOLEAN /\ calm \in BOOLEAN /\ held \in BOOLEAN
TierTypes   == sil \in SilenceTiers /\ bk \in Tiers \cup {None} /\ pl \in Tiers \cup {None}
RelayTypes  == /\ subs \in [HubIds \cup {Ingest} -> FeedIds \cup {None}]
               /\ dying \subseteq Leavings /\ outlived \subseteq FeedIds
HaltTypes   == /\ halt \in {"no", "taken", "down"}
               /\ taken \in [feed : Feeds \cup {None}, sil : SilenceTiers, bk : Tiers \cup {None},
                             pl : Tiers \cup {None}]
TypeOK == /\ WorldTypes /\ HolderTypes /\ FeedTypes /\ SourceTypes /\ TierTypes
          /\ RelayTypes /\ HaltTypes

Dead == [k \in Sources |-> "dead"]
Nothing == [feed |-> None, sil |-> None, bk |-> None, pl |-> None]

Init ==
  /\ cfg \in Configs /\ mute = FALSE /\ acts = MaxActs
  /\ rec = NoReconcile
  /\ stale = None /\ fixing = None /\ op = Idle
  /\ sel = "none" /\ active = "none" /\ pinned = "auto" /\ feed = None /\ recent = FALSE
  /\ live = Dead /\ deg = FALSE /\ calm = FALSE
  /\ held = FALSE /\ sil = None /\ bk = None /\ pl = None
  /\ subs = [h \in HubIds \cup {Ingest} |-> None] /\ dying = {} /\ outlived = {}
  /\ halt = "no" /\ taken = Nothing
-----------------------------------------------------------------------------
(* Hubs and feeds *)

SilenceUp == sil \in HubIds
Hub(tier) == IF tier = None THEN None ELSE tier.hub

\* sourceHub and downstreamFeedInput: the relay the feed of a kind reads.
HubOf(k) ==
  CASE k = "primary"  -> IF SilenceUp THEN sil ELSE Ingest
    [] k = "backup"   -> Hub(bk)
    [] k = "playlist" -> Hub(pl)
    [] OTHER          -> None

\* relay.New takes a port that nothing refers to any more.
InUse ==
  {sil, Hub(bk), Hub(pl), taken.sil, Hub(taken.bk), Hub(taken.pl)} \cup {d.in : d \in dying}
    \cup (UNION {IF f = None THEN {} ELSE {f.in, f.up.hub} : f \in {feed, taken.feed}})
    \cup (IF op.step = "start" THEN {op.up.hub} ELSE {})
NewHub == CHOOSE h \in HubIds : h \notin InUse

DyingIds == {d.id : d \in dying}
NewFeedId == CHOOSE i \in FeedIds : i \notin DyingIds \cup outlived

\* stopFeed: the tail, <-f.prev, which closes when the chain behind is gone.
Waited(f) == f # None => f.prev \cap DyingIds = {}

\* stopOwn: the process stops, or is given up, then the subscription goes; the port is
\* the feed's.  A copy hop that is given up is cut off and publishes nothing.
Unsubscribed(f) ==
  IF f = None \/ f.in = None THEN subs ELSE [subs EXCEPT ![f.in] = None]

\* The outcomes of a call that may fail: relay.New, a backup that is refused.
Outcomes == IF acts > 0 THEN BOOLEAN ELSE {TRUE}
Spend(ok) == acts' = IF ok THEN acts ELSE acts - 1
-----------------------------------------------------------------------------
(* The decision *)

Alive(k) == live[k] # "dead"
Degraded(s) == s.degraded /\ deg

\* candidatesFor: what would deliver if it were on air, and what a pin asks.
Available(s) ==
  {k \in Kinds : CASE k = "primary"  -> Alive(k) /\ ~Degraded(s)
                   [] k = "backup"   -> s.backup # 0 /\ Alive(k)
                   [] k = "playlist" -> Alive(k)
                   [] OTHER          -> s.slate}
Pinnable(s) == Available(s) \cup {k \in {"primary"} : Alive(k)}

Rank(k) == CHOOSE i \in DOMAIN Ladder : Ladder[i] = k
\* ladder.best, with the primary to park on when nothing at all is available.
Best(S) == IF S = {} THEN "primary" ELSE CHOOSE k \in S : \A j \in S : Rank(k) <= Rank(j)

\* Mutant of Returns: the primary is taken back as soon as it delivers.
ReturnsAtOnce(s) == "primary" \in Available(s) /\ s.auto

\* fromBackup while the backup delivers: the flapping guard.
Returns(s) == "primary" \in Available(s) /\ s.auto /\ live["primary"] = "steady"

\* chooseFrom.
Choice(s) ==
  IF pinned \in Pinnable(s) THEN pinned
  ELSE IF active = "backup" /\ "backup" \in Available(s)
       THEN IF Returns(s) THEN "primary" ELSE "backup"
       ELSE Best(Available(s))

BackupSig(s) == IF s.failover THEN s.backup ELSE 0
PlaylistSig(s) == IF s.failover THEN s.playlist ELSE 0
Bit(b) == IF b THEN 1 ELSE 0

\* Mutant of Upstream: the signature says what the settings want, not what the feed reads.
UpstreamBySettings(s, k, silence) ==
  CASE k = "primary"  -> [kind |-> k, sig |-> Bit(silence), hub |-> None]
    [] k = "backup"   -> [kind |-> k, sig |-> BackupSig(s), hub |-> None]
    [] k = "playlist" -> [kind |-> k, sig |-> PlaylistSig(s), hub |-> None]
    [] OTHER          -> [kind |-> k, sig |-> 0, hub |-> None]

\* feedUpstreamSig; a primary's also names the hub it reads.
Upstream(s, k, silence) ==
  CASE k = "primary"  -> [kind |-> k, sig |-> Bit(silence), hub |-> HubOf(k)]
    [] k = "backup"   -> [kind |-> k, sig |-> BackupSig(s), hub |-> None]
    [] k = "playlist" -> [kind |-> k, sig |-> PlaylistSig(s), hub |-> None]
    [] OTHER          -> [kind |-> k, sig |-> 0, hub |-> None]

-----------------------------------------------------------------------------
(* applySourceChoice, under selMu *)

\* The holder returns: its caller goes on.
Return ==
  /\ op' = Idle
  /\ rec' = IF op.who = "reconcile" THEN NoReconcile ELSE rec
  /\ fixing' = IF op.who = "fix" THEN cfg ELSE fixing

Silence == IF op.who = "reconcile" THEN rec.sig ELSE held

\* Mutant of LetBe: a feed that matches is let be whether or not it runs.
LetBeMatching(want, up) ==
  \/ feed = None /\ recent
  \/ feed # None /\ feed.kind = want /\ feed.up = up

\* ensureFeed lets be what runs as it should, and what failed a moment ago.
LetBe(want, up) ==
  \/ feed = None /\ recent
  \/ feed # None /\ feed.kind = want /\ feed.up = up /\ (feed.run \/ recent)

Hold ==
  /\ op.step = "choose"
  /\ sel = "up" => LetBe(Choice(op.s), Upstream(op.s, Choice(op.s), Silence))
  /\ Return
  /\ UNCHANGED <<cfg, mute, acts, stale, selVars, sourceVars, tierVars, feedVars, haltVars>>

\* Mutant of Left: the name stays in the feed, so its end unsubscribes the successor.
LeftNamed(f) == [id |-> f.id, in |-> f.in, named |-> TRUE]
\* retireFeed, the feed did not stop within seamStopWait: it is left to die.
Left(f) == [id |-> f.id, in |-> f.in, named |-> FALSE]
Room == Cardinality(dying) + Cardinality(outlived) < MaxDying
MayHang(f) == f # None /\ f.run /\ f.in # None /\ Room

\* reportStop: the slate's Stop ran out of time, and its replacement starts regardless.
MayOutlive(f) == f # None /\ f.run /\ f.kind = "slate" /\ Room
Outlives(f) == \/ outlived' = outlived
               \/ MayOutlive(f) /\ outlived' = outlived \cup {f.id}

\* Mutant of Cut: a feed that hangs keeps its input.
CutNot(f, late) == IF late THEN subs ELSE Unsubscribed(f)
\* retireFeed: its input is gone once it stopped, or cut before it is left.
Cut(f, late) == Unsubscribed(f)

\* Mutant of Behind: whoever waits for the next feed does not wait for this one.
BehindNot(f, late) == {}
\* What retireFeed returns as done: feeds that a later teardown has to wait for.
Behind(f, late) ==
  IF f = None THEN {} ELSE (f.prev \cap DyingIds) \cup (IF late THEN {f.id} ELSE {})

\* applySourceChoice decides, ensureFeed takes the feed on air off it.
Choose ==
  /\ op.step = "choose" /\ sel = "up"
  /\ LET want == Choice(op.s)
         up   == Upstream(op.s, want, Silence)
     IN /\ ~LetBe(want, up)
        /\ \E late \in BOOLEAN :
             /\ late => MayHang(feed)
             /\ dying' = IF late THEN dying \cup {Left(feed)} ELSE dying
             /\ subs' = Cut(feed, late)
             /\ op' = [who |-> op.who, step |-> "start", s |-> op.s, want |-> want,
                       up |-> up, behind |-> Behind(feed, late)]
  /\ Outlives(feed)
  /\ feed' = None
  /\ UNCHANGED <<cfg, mute, acts, rec, stale, fixing, sel, active, pinned, recent, sourceVars,
                 tierVars, haltVars>>

\* startFeed has an input to read, its name is not taken there.
Startable == op.want = "slate" \/ (HubOf(op.want) # None /\ subs[HubOf(op.want)] = None)

\* ensureFeed records what it started, or that nothing could be started: that waits for
\* the feeds still dying, because no later teardown would.
Start ==
  /\ op.step = "start"
  /\ \/ /\ Startable
        /\ feed' = [id |-> NewFeedId, kind |-> op.want, up |-> op.up,
                    in |-> HubOf(op.want), run |-> TRUE, prev |-> op.behind]
        /\ subs' = IF op.want = "slate" THEN subs
                   ELSE [subs EXCEPT ![HubOf(op.want)] = NewFeedId]
     \/ /\ ~Startable /\ op.behind \cap DyingIds = {}
        /\ feed' = None /\ subs' = subs
  /\ active' = op.want /\ recent' = ~Startable
  /\ Return
  /\ UNCHANGED <<cfg, mute, acts, stale, sel, pinned, sourceVars, tierVars, dying, outlived,
                 haltVars>>

-----------------------------------------------------------------------------
(* Sweeps and the operator *)

\* liveness.sample: a source whose counter rose is alive, from now on if it was not.
Sampled(grew) ==
  [k \in DOMAIN live |-> IF k \in grew /\ ~Alive(k) THEN "fresh" ELSE live[k]]

\* Mutant of Recovered: a link that recovers keeps the clock of its delivery.
RecoveredKeeps(l) == l
\* sampleDegradeLocked on a clear: the stable clock starts over.
Recovered(l) == [l EXCEPT !["primary"] = "fresh"]

\* sweepSelector reads the settings before it waits for selMu.
Sweep ==
  /\ sel = "up" /\ op = Idle
  /\ stale' = None
  /\ \E grew \in SUBSET {k \in DOMAIN live : HubOf(k) # None}, trip \in BOOLEAN :
       LET s == IF stale = None THEN cfg ELSE stale
           l == Sampled(grew)
       IN /\ trip => s.degraded /\ l["primary"] # "dead"
          /\ deg' = trip
          /\ live' = IF deg /\ ~trip /\ s.degraded /\ l["primary"] # "dead"
                     THEN Recovered(l) ELSE l
          /\ calm' = IF s.degraded THEN calm /\ ~trip /\ ~deg /\ Alive("primary")
                     ELSE l["primary"] = "steady"
          /\ op' = [who |-> "sweep", step |-> "choose", s |-> s]
  /\ UNCHANGED <<cfg, mute, acts, rec, fixing, selVars, tierVars, feedVars, haltVars>>

\* SwitchSource; FixSource begins with one back to automatic.
SwitchSource(k, who) ==
  /\ acts > 0 /\ sel = "up" /\ op = Idle /\ fixing = None
  /\ acts' = acts - 1
  /\ pinned' = k
  /\ op' = [who |-> who, step |-> "choose", s |-> cfg]
  /\ UNCHANGED <<cfg, mute, rec, stale, fixing, sel, active, feed, recent, sourceVars, tierVars,
                 feedVars, haltVars>>

\* The rest of FixSource, which has read the settings before it waited for selMu: the
\* feed on air is torn down and chosen again.
FixSource ==
  /\ fixing # None /\ op = Idle
  /\ fixing' = None
  /\ IF sel # "up" THEN UNCHANGED <<op, feed, recent, subs, outlived>>
     ELSE /\ Waited(feed) /\ Outlives(feed)
          /\ feed' = None /\ recent' = FALSE /\ subs' = Unsubscribed(feed)
          /\ op' = [who |-> "operator", step |-> "choose", s |-> fixing]
  /\ UNCHANGED <<cfg, mute, acts, rec, stale, sel, active, pinned, sourceVars, tierVars,
                 dying, haltVars>>

-----------------------------------------------------------------------------
(* reconcileOutputs *)

\* holdSilence: the answer is kept while the selector stands in for the primary.
HoldSilence == IF sel = "up" /\ active # "primary" THEN held ELSE mute

ReconcileBegin ==
  /\ rec.pc = "idle" /\ op = Idle
  /\ rec' = [pc |-> "detach", s |-> cfg, sig |-> HoldSilence]
  /\ held' = HoldSilence
  /\ UNCHANGED <<cfg, mute, acts, stale, fixing, op, selVars, sourceVars, sil, bk, pl, feedVars, haltVars>>

\* A deliberate teardown, the start that follows it is not held back.
Detaches(kind) ==
  IF feed # None /\ feed.kind = kind
  THEN Waited(feed) /\ feed' = None /\ recent' = FALSE /\ subs' = Unsubscribed(feed)
  ELSE UNCHANGED <<feed, recent, subs>>

DetachFeedForSilence ==
  /\ rec.pc = "detach" /\ op = Idle
  /\ rec' = [rec EXCEPT !.pc = "down"]
  /\ IF feed # None /\ feed.up # Upstream(rec.s, "primary", rec.sig)
     THEN Detaches("primary")
     ELSE UNCHANGED <<feed, recent, subs>>
  /\ UNCHANGED <<cfg, mute, acts, stale, fixing, op, sel, active, pinned, sourceVars, tierVars,
                 dying, outlived, haltVars>>

\* reconcileSilence takes the tier away, closing its hub, unless it is what is wanted;
\* it does not hold selMu.
SilenceDown ==
  /\ rec.pc = "down"
  /\ IF SilenceUp = rec.sig /\ sil # Failed
     THEN rec' = [rec EXCEPT !.pc = "selector"] /\ sil' = sil
     ELSE rec' = [rec EXCEPT !.pc = "up"] /\ sil' = None
  /\ UNCHANGED <<cfg, mute, acts, stale, fixing, op, selVars, sourceVars, held, bk, pl, feedVars, haltVars>>

\* startSilence; a tier that could not be started is recorded as such.
SilenceStart ==
  /\ rec.pc = "up"
  /\ rec' = [rec EXCEPT !.pc = "selector"]
  /\ \E ok \in Outcomes :
       /\ Spend(ok)
       /\ ~ok => rec.sig
       /\ sil' = IF ~rec.sig THEN None
                 ELSE IF ~ok THEN Failed
                 ELSE IF Stopped THEN None ELSE NewHub
  /\ subs' = IF SilenceUp' THEN [subs EXCEPT ![sil'] = None] ELSE subs
  /\ UNCHANGED <<cfg, mute, stale, fixing, op, selVars, sourceVars, held, bk, pl, dying, outlived,
                 haltVars>>

\* reconcileSelector, the tier is as it should be: its sources and its feed remain.
KeepSelector ==
  /\ rec.pc = "selector" /\ op = Idle
  /\ rec.s.failover /\ sel = "up"
  /\ rec' = [rec EXCEPT !.pc = "apply"]
  /\ op' = [who |-> "reconcile", step |-> "backup", s |-> rec.s]
  /\ UNCHANGED <<cfg, mute, acts, stale, fixing, selVars, sourceVars, tierVars, feedVars, haltVars>>

\* reconcileSelector, the tier is taken away, and started if it is wanted.  A slate that
\* outlives this writes to a hub that is closed.
RenewSelector ==
  /\ rec.pc = "selector" /\ op = Idle
  /\ ~rec.s.failover \/ sel # "up"
  /\ Waited(feed) /\ feed' = None /\ subs' = Unsubscribed(feed) /\ outlived' = {}
  /\ active' = "none" /\ pinned' = "auto" /\ recent' = FALSE
  /\ live' = Dead /\ deg' = FALSE /\ calm' = FALSE
  /\ \E ok \in Outcomes :
       /\ ~ok => rec.s.failover
       /\ Spend(ok)
       /\ sel' = IF ~rec.s.failover THEN "none"
                 ELSE IF ~ok THEN "broken"
                 ELSE IF Stopped THEN "none" ELSE "up"
  /\ IF rec.s.failover /\ sel' # "up"
     THEN op' = op /\ rec' = NoReconcile
     ELSE /\ op' = [who |-> "reconcile", step |-> "backup", s |-> rec.s]
          /\ rec' = [rec EXCEPT !.pc = "apply"]
  /\ UNCHANGED <<cfg, mute, stale, fixing, tierVars, dying, haltVars>>

\* reconcileBackupIngest: the feed goes before the hub it reads; a new hub may be refused.
ReconcileBackup ==
  /\ op.step = "backup"
  /\ op' = [op EXCEPT !.step = "playlist"]
  /\ LET want == BackupSig(op.s)
         have == IF bk = None THEN 0 ELSE bk.sig
     IN IF have = want THEN UNCHANGED <<acts, bk, feed, recent, subs>>
        ELSE /\ Detaches("backup")
             /\ \E ok \in Outcomes :
                  /\ ~ok => want # 0
                  /\ Spend(ok)
                  /\ bk' = IF want # 0 /\ ok THEN [hub |-> NewHub, sig |-> want] ELSE None
  /\ UNCHANGED <<cfg, mute, rec, stale, fixing, sel, active, pinned, sourceVars, held, sil, pl,
                 dying, outlived, haltVars>>

\* Mutant of Ended: a playlist that was taken away still reads as delivering.
EndedKeeps(l) == l
\* reconcilePlaylist zeroes what its old hub delivered.
Ended(l) == [l EXCEPT !["playlist"] = "dead"]

\* reconcilePlaylist: a list that is not ready leaves the running one as it is.
ReconcilePlaylist ==
  /\ op.step = "playlist"
  /\ op' = [op EXCEPT !.step = "choose"]
  /\ LET want == PlaylistSig(op.s)
         have == IF pl = None THEN 0 ELSE pl.sig
     IN \/ /\ have = want \/ want # 0
           /\ UNCHANGED <<acts, pl, live, feed, recent, subs>>
        \/ /\ have # want
           /\ Detaches("playlist")
           /\ live' = IF pl = None THEN live ELSE Ended(live)
           /\ \E ok \in Outcomes :
                /\ ~ok => want # 0
                /\ Spend(ok)
                /\ pl' = IF want # 0 /\ ok THEN [hub |-> NewHub, sig |-> want] ELSE None
  /\ UNCHANGED <<cfg, mute, rec, stale, fixing, sel, active, pinned, deg, calm, held, sil, bk,
                 dying, outlived, haltVars>>

-----------------------------------------------------------------------------
(* StopWithin *)

StopTake ==
  /\ halt = "no" /\ op = Idle
  /\ halt' = "taken"
  /\ taken' = [feed |-> feed, sil |-> sil, bk |-> bk, pl |-> pl]
  /\ sel' = "none" /\ active' = "none" /\ pinned' = "auto" /\ feed' = None /\ recent' = FALSE
  /\ live' = Dead /\ deg' = FALSE /\ calm' = FALSE
  /\ sil' = None /\ bk' = None /\ pl' = None
  /\ UNCHANGED <<cfg, mute, acts, rec, stale, fixing, op, held, feedVars>>

\* teardownStoppedSelector: the feed, then the hub, whether or not the feed has gone.
StopDown ==
  /\ halt = "taken" /\ Waited(taken.feed)
  /\ halt' = "down"
  /\ subs' = Unsubscribed(taken.feed) /\ outlived' = {}
  /\ taken' = Nothing
  /\ UNCHANGED <<cfg, mute, acts, rec, stale, fixing, op, selVars, sourceVars, tierVars, dying>>

-----------------------------------------------------------------------------
(* What happens to it *)

\* Nobody who holds selMu looks at the settings, the probe or the clock twice, so
\* they move while it is free.
Act ==
  /\ op = Idle /\ acts > 0 /\ acts' = acts - 1
  /\ UNCHANGED <<rec, op, sel, active, pinned, sourceVars, tierVars, feedVars, haltVars>>

\* A save, which a sweep or a FixSource that has read the settings may not have seen.
Save ==
  /\ Act /\ cfg' \in Configs \ {cfg}
  /\ fixing' \in IF fixing = None THEN {None} ELSE {fixing, cfg'}
  /\ stale' \in IF stale = None /\ sel = "up" THEN {None, cfg} ELSE {stale}
  /\ UNCHANGED <<mute, feed, recent>>
Probe == Act /\ mute' = ~mute /\ UNCHANGED <<cfg, stale, fixing, feed, recent>>
\* A feed exits, within feedRespawn of its start or later.
FeedExits ==
  /\ Act /\ feed # None /\ feed.run
  /\ feed' = [feed EXCEPT !.run = FALSE] /\ recent' \in BOOLEAN
  /\ UNCHANGED <<cfg, mute, stale, fixing>>

\* retireFeed, finish: a feed left to die has exited or is given up, and what it held is
\* given back.
Finish(d) ==
  /\ dying' = dying \ {d}
  /\ subs' = IF d.named THEN [subs EXCEPT ![d.in] = None] ELSE subs
  /\ UNCHANGED <<cfg, mute, acts, rec, stale, fixing, op, selVars, sourceVars, tierVars,
                 outlived, haltVars>>

\* A slate that outlived its Stop has gone.
OutlivedExits ==
  /\ \E i \in outlived : outlived' = outlived \ {i}
  /\ UNCHANGED <<cfg, mute, acts, rec, stale, fixing, op, selVars, sourceVars, tierVars, subs,
                 dying, haltVars>>

\* The clock: a source has been quiet for the grace period, the primary delivers for
\* returnStable, feedRespawn goes by.
GraceElapses(k) ==
  /\ op = Idle /\ Alive(k)
  /\ live' = [live EXCEPT ![k] = "dead"]
  /\ calm' = (calm /\ k # "primary")
  /\ UNCHANGED <<cfg, mute, acts, rec, stale, fixing, op, selVars, deg, tierVars, feedVars, haltVars>>

StableElapses ==
  /\ op = Idle /\ Alive("primary")
  /\ live["primary"] = "fresh" \/ (~calm /\ ~deg)
  /\ live' = [live EXCEPT !["primary"] = "steady"]
  /\ calm' = (calm \/ ~deg)
  /\ UNCHANGED <<cfg, mute, acts, rec, stale, fixing, op, selVars, deg, tierVars, feedVars, haltVars>>

RespawnElapses ==
  /\ op = Idle /\ recent /\ recent' = FALSE
  /\ UNCHANGED <<cfg, mute, acts, rec, stale, fixing, op, sel, active, pinned, feed, sourceVars,
                 tierVars, feedVars, haltVars>>

Applies == Hold \/ Choose \/ Start
Reconciles ==
  \/ DetachFeedForSilence \/ SilenceDown \/ SilenceStart
  \/ KeepSelector \/ RenewSelector \/ ReconcileBackup \/ ReconcilePlaylist

Next ==
  \/ Sweep \/ Applies \/ ReconcileBegin \/ Reconciles
  \/ \E k \in Kinds \cup {"auto"} : SwitchSource(k, "operator")
  \/ SwitchSource("auto", "fix") \/ FixSource
  \/ StopTake \/ StopDown
  \/ Save \/ Probe \/ FeedExits
  \/ OutlivedExits \/ \E d \in dying : Finish(d)
  \/ \E k \in DOMAIN live : GraceElapses(k)
  \/ StableElapses \/ RespawnElapses

\* The ticker, the goroutines that hold a lock or wait for a process, and the clock
\* go on; nothing obliges the world outside to do anything.
Fairness ==
  /\ SF_vars(Sweep) /\ WF_vars(Applies \/ ReconcileBackup \/ ReconcilePlaylist)
  /\ WF_vars(\E d \in dying : Finish(d)) /\ SF_vars(RespawnElapses)
  /\ SF_vars(bk = None /\ GraceElapses("backup"))

Spec == Init /\ [][Next]_vars /\ Fairness

-----------------------------------------------------------------------------
(* Properties *)

\* A feed publishes while it runs: the slate always, a copy hop while it is fed.
Fed(f) == subs[f.in] = f.id
Publishing == {d.id : d \in {e \in dying : Fed(e)}} \cup outlived
  \cup {f.id : f \in {g \in {feed} \ {None} : g.run /\ (g.kind = "slate" \/ Fed(g))}}

\* What retireFeed says of the slate, that it answers SIGTERM at once, makes the
\* selector's hub have one publisher.  THE CODE DOES NOT KEEP IT (MCSelector_slate.cfg):
\* when the slate's Stop runs out of time its replacement starts beside it.
NeverTwoPublishers == Cardinality(Publishing) <= 1

\* The selector's hub has one publisher besides such slates: what a switch replaced has
\* stopped or has nothing left to read, however late it dies, also when the next switch
\* goes back to the hub it read.  No copy hop is ever a second one.
OnePublisher == Cardinality(Publishing \ outlived) <= 1

\* Between reconciles and with selMu free, a running feed is subscribed on the relay
\* that now serves its kind, however a sweep and the replacement of the silence tier
\* interleaved.
ReadsItsHub ==
  rec.pc = "idle" /\ op = Idle /\ feed # None /\ feed.run /\ feed.kind # "slate"
    => feed.in = HubOf(feed.kind) /\ Fed(feed)

\* Once StopWithin has returned and no reconcile is under way, no feed runs or dies
\* with its port, and no tier is left.  (A slate whose Stop ran out of time may live.)
StopLeavesNothing ==
  halt = "down" /\ rec.pc = "idle" =>
    feed = None /\ dying = {} /\ bk = None /\ pl = None /\ ~SilenceUp /\ sel # "up"

\* No hub, no liveness, no candidate: a playlist that was taken off the air, or whose
\* replacement did not come up, is not chosen on the strength of what it once delivered.
NoHubNoCandidate == pl = None => ~Alive("playlist")

\* The four of them: the relay has one publisher besides a slate that would not stop,
\* which reads what it should; nothing is chosen that cannot deliver; a shutdown leaves
\* nothing behind.
FeedIsTrue ==
  TypeOK /\ OnePublisher /\ ReadsItsHub /\ NoHubNoCandidate /\ StopLeavesNothing

\* The selector leaves a backup that delivers for the primary only if the operator
\* pinned it, or has it return by itself and the primary has delivered, undegraded if
\* thresholds are set, for the whole of returnStable.
Undisturbed(s) == IF s.degraded THEN calm ELSE live["primary"] = "steady"
NoFlapping ==
  [][op.step = "choose" /\ op'.step = "start" /\ op'.want = "primary"
       /\ active = "backup" /\ "backup" \in Available(op.s)
     => pinned = "primary" \/ (op.s.auto /\ Undisturbed(op.s))]_vars

\* While failover is on, some feed is on air again and again: running, and reading the
\* relay that serves its kind.  No replacement of a tier leaves it with a feed that
\* carries nothing.
OnAir ==
  feed # None /\ feed.run
    /\ (feed.kind = "slate" \/ (Fed(feed) /\ feed.in = HubOf(feed.kind)))
NeverOffAirForGood == []<>(sel = "up" => OnAir)

=============================================================================

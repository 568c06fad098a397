------------------------------ MODULE Manager ------------------------------
(***************************************************************************)
(* internal/engine/manager.go: one engine per programme, the listeners all *)
(* of them share, the settings every engine is handed, and what the rest   *)
(* of the server asks of the set: is any recorder alive, how many alerts   *)
(* were sent.  Reconcile is called by several HTTP handlers, a save by     *)
(* others, and the shutdown comes whenever it comes.                       *)
(*                                                                         *)
(* An action is one section under Manager.mu, or one call made between two *)
(* of them; syncMu and settingsMu are variables.  The reconcile of one     *)
(* engine, which a caller runs last, is the subject of Reconcile.          *)
(***************************************************************************)
EXTENDS Naturals, FiniteSets, Functions

CONSTANTS Sources,   \* ids of programmes
          Engines,   \* engine structures, one for each New
          Callers,   \* requests that end in Manager.Reconcile
          Ports,     \* ports the SRT listener may be given
          MaxEdits,  \* rows added or deleted, ports changed
          MaxSaves,  \* settings saved
          MaxSent,   \* alerts one engine sends
          None       \* nobody holds a lock; no engine

ASSUME EnginesAssumption == IsFiniteSet(Engines)
ASSUME PortsAssumption == Ports \subseteq Nat \ {0}
ASSUME BoundsAssumption == {MaxEdits, MaxSaves, MaxSent} \subseteq Nat
ASSUME NoneAssumption == None \notin Engines \cup Callers \cup {"saver"}
ASSUME SaverAssumption == "saver" \notin Callers

VARIABLES
  rows, port, edits,    \* the store: the sources, the SRT port; changes made
  sync, settings,       \* who holds syncMu, who holds settingsMu
  started, stopped,     \* m.started, m.stopped
  engines,              \* m.engines, as the set of its values
  stopping, done,       \* keys of m.stopping, and those with the value true
  saved, push,          \* m.settings; engines a save has still to reach
  retired, retiring,    \* m.retiredAlerts, m.retiring
  srt, bonded,          \* the port SRT listens on, the port SRTLA sends to
  st, src, has, rec, sent,  \* an engine: stage, source, settings, recorder, alerts
  pc, gone, todo, fresh, conf,   \* a caller: stage, and the locals of Sync
  halt, taken,          \* StopWithin: stage, what it collected
  probe,                \* RecorderRunning: stage, the sets it read, two histories
  lost                  \* engines a shutdown collected and Sync untracked after

storeVars  == <<rows, port, edits>>
listenVars == <<srt, bonded>>
alertVars  == <<retired, retiring, sent>>
engineVars == <<st, src, rec>>
saveVars   == <<settings, saved, push, has>>
callVars   == <<sync, pc, gone, todo, fresh, conf>>
haltVars   == <<stopped, halt, taken, lost>>
vars == <<storeVars, listenVars, alertVars, engineVars, saveVars, callVars, haltVars,
          started, engines, stopping, done, probe>>

NoPort == 0

TypeOK ==
  /\ rows \subseteq Sources /\ port \in Ports /\ edits \in 0..MaxEdits
  /\ sync \in Callers \cup {None} /\ settings \in Callers \cup {"saver", None}
  /\ started \in BOOLEAN /\ stopped \in BOOLEAN
  /\ engines \subseteq Engines /\ stopping \subseteq Engines /\ done \subseteq stopping
  /\ saved \in 0..MaxSaves /\ push \subseteq Engines
  /\ retired \in Nat /\ retiring \subseteq Engines
  /\ srt \in Ports \cup {NoPort} /\ bonded \in Ports \cup {NoPort}
  /\ st \in [Engines -> {"new", "starting", "up", "stopping", "returned", "stopped"}]
  /\ src \in [Engines -> Sources \cup {None}]
  /\ has \in [Engines -> 0..MaxSaves]
  /\ rec \in [Engines -> {"none", "up", "leaving", "waited"}]
  /\ sent \in [Engines -> 0..MaxSent]
  /\ pc \in [Callers -> {"idle", "srt", "srtla", "sync", "decide", "stop", "build", "start",
                         "push", "untrack"}]
  /\ gone \in [Callers -> SUBSET Engines] /\ todo \in [Callers -> SUBSET Sources]
  /\ fresh \in [Callers -> Engines \cup {None}] /\ conf \in [Callers -> Ports \cup {NoPort}]
  /\ halt \in {"no", "flagged", "engines", "over"}
  /\ taken \subseteq Engines
  /\ probe \in [at : {"idle", "engines", "both"}, seen : SUBSET Engines, missed : SUBSET Engines,
                moved : SUBSET Engines]
  /\ lost \subseteq Engines

NoProbe == [at |-> "idle", seen |-> {}, missed |-> {}, moved |-> {}]

Init ==
  /\ rows \in SUBSET Sources /\ port \in Ports /\ edits = 0
  /\ sync = None /\ settings = None
  /\ started = FALSE /\ stopped = FALSE
  /\ engines = {} /\ stopping = {} /\ done = {}
  /\ saved = 0 /\ push = {}
  /\ retired = 0 /\ retiring = {}
  /\ srt = NoPort /\ bonded = NoPort
  /\ st = [e \in Engines |-> "new"] /\ src = [e \in Engines |-> None]
  /\ has = [e \in Engines |-> 0] /\ rec = [e \in Engines |-> "none"]
  /\ sent = [e \in Engines |-> 0]
  /\ pc = [c \in Callers |-> "idle"]
  /\ gone = [c \in Callers |-> {}] /\ todo = [c \in Callers |-> {}]
  /\ fresh = [c \in Callers |-> None] /\ conf = [c \in Callers |-> NoPort]
  /\ halt = "no" /\ taken = {}
  /\ probe = NoProbe
  /\ lost = {}

Alive == {e \in Engines : st[e] \in {"starting", "up", "stopping"}}
Recording == {e \in Engines : rec[e] # "none"}

(***************************************************************************)
(* The store, edited by handlers, and the locks.                           *)
(***************************************************************************)
EditSource ==
  /\ edits < MaxEdits /\ edits' = edits + 1
  /\ \E s \in Sources : rows' = IF s \in rows THEN rows \ {s} ELSE rows \cup {s}
  /\ UNCHANGED <<port, listenVars, alertVars, engineVars, saveVars, callVars, haltVars,
                 started, engines, stopping, done, probe>>

EditPort ==
  /\ edits < MaxEdits /\ edits' = edits + 1
  /\ \E p \in Ports \ {port} : port' = p
  /\ UNCHANGED <<rows, listenVars, alertVars, engineVars, saveVars, callVars, haltVars,
                 started, engines, stopping, done, probe>>

\* Mutant of SyncFree: the callers do not wait for each other.
SyncFreeAlways(c) == c = c
SyncFree(c) == sync \in {None, c}
SettingsFree == settings = None

At(c, here, next) == pc[c] = here /\ pc' = [pc EXCEPT ![c] = next]

(***************************************************************************)
(* What an engine does by itself.  Its Start and its Reconcile launch a    *)
(* recorder; a Reconcile stops one; an Engine.Stop takes the one in the    *)
(* slot and waits for it, and does not wait for one a Reconcile took.      *)
(* rec is the recorder as its engine counts it, in the slot or in          *)
(* recorderStopping.  The count ends when the process's Stop returns, the  *)
(* child gone or, out of time, given up alive: see Supervisor for that.    *)
(***************************************************************************)
RecorderStarts(e) ==
  /\ st[e] \in {"starting", "up"} /\ rec[e] = "none"
  /\ rec' = [rec EXCEPT ![e] = "up"]
  /\ UNCHANGED <<storeVars, listenVars, alertVars, st, src, saveVars, callVars, haltVars,
                 started, engines, stopping, done, probe>>

RecorderLeaves(e) ==
  /\ st[e] = "up" /\ rec[e] = "up"
  /\ rec' = [rec EXCEPT ![e] = "leaving"]
  /\ UNCHANGED <<storeVars, listenVars, alertVars, st, src, saveVars, callVars, haltVars,
                 started, engines, stopping, done, probe>>

RecorderStopped(e) ==
  /\ rec[e] \in {"leaving", "waited"}
  /\ rec' = [rec EXCEPT ![e] = "none"]
  /\ probe' = [probe EXCEPT !.missed = @ \ {e}, !.moved = @ \ {e}]
  /\ UNCHANGED <<storeVars, listenVars, alertVars, st, src, saveVars, callVars, haltVars,
                 started, engines, stopping, done>>

\* An alert is delivered; a stopping engine still has a notifier.
Deliver(e) ==
  /\ e \in Alive /\ sent[e] < MaxSent
  /\ sent' = [sent EXCEPT ![e] = @ + 1]
  /\ UNCHANGED <<storeVars, listenVars, retired, retiring, engineVars, saveVars, callVars,
                 haltVars, started, engines, stopping, done, probe>>

StopCalled(e) ==
  /\ st' = [st EXCEPT ![e] = "stopping"]
  /\ rec' = [rec EXCEPT ![e] = IF @ = "up" THEN "waited" ELSE @]
  /\ UNCHANGED src

\* Engine.Stop returns, and doneStopping.  A deadline that runs out ends the
\* wait for the recorder by ending its Stop: RecorderStopped is that step too.
StopReturns(e) ==
  /\ st[e] = "stopping" /\ rec[e] # "waited"
  /\ st' = [st EXCEPT ![e] = "returned"]
  /\ done' = done \cup ({e} \cap stopping)
  /\ UNCHANGED <<storeVars, listenVars, alertVars, src, rec, saveVars, callVars, haltVars,
                 started, engines, stopping, probe>>

\* Mutant of Forgotten: an engine is dropped once its Stop has returned.
ForgottenAnyway(E) == E \cap done
Forgotten(E) == {e \in E \cap done : rec[e] = "none"}
Forget(E) == stopping' = stopping \ Forgotten(E) /\ done' = done \ Forgotten(E)

\* The rest of finishStopping.
FinishStopping(e) ==
  /\ st[e] = "returned"
  /\ st' = [st EXCEPT ![e] = "stopped"]
  /\ Forget({e})
  /\ UNCHANGED <<storeVars, listenVars, alertVars, src, rec, saveVars, callVars, haltVars,
                 started, engines, probe>>

(***************************************************************************)
(* Start, and reconcileSharedIngest.                                       *)
(***************************************************************************)
Start ==
  /\ ~started /\ halt = "no"
  /\ started' = TRUE /\ stopped' = FALSE
  /\ UNCHANGED <<storeVars, listenVars, alertVars, engineVars, saveVars, callVars, halt, taken,
                 lost, engines, stopping, done, probe>>

\* syncMu is taken and the settings are read.  A stopped manager, and one that
\* cannot read them, goes on to Sync.
SharedIngest(c) ==
  /\ SyncFree(c)
  /\ \E readable \in BOOLEAN :
       IF ~stopped /\ readable
       THEN At(c, "idle", "srt") /\ sync' = c /\ conf' = [conf EXCEPT ![c] = port]
       ELSE At(c, "idle", "sync") /\ sync' = None /\ UNCHANGED conf
  /\ UNCHANGED <<storeVars, listenVars, alertVars, engineVars, saveVars, gone, todo, fresh,
                 haltVars, started, engines, stopping, done, probe>>

\* reconcileListener for SRT: kept, or rebound, or the bind fails.
ListenSRT(c) ==
  /\ At(c, "srt", "srtla")
  /\ srt' \in IF srt = conf[c] THEN {srt} ELSE {conf[c], NoPort}
  /\ conf' = [conf EXCEPT ![c] = NoPort]
  /\ UNCHANGED <<storeVars, bonded, alertVars, engineVars, saveVars, sync, gone, todo, fresh,
                 haltVars, started, engines, stopping, done, probe>>

\* The SRTLA receiver: stopped when what it feeds moved, started when there is
\* something to feed.  The end of reconcileSharedIngest.
ListenBonded(c) ==
  /\ At(c, "srtla", "sync") /\ sync' = None
  /\ bonded' \in IF bonded = srt THEN {bonded} ELSE {srt, NoPort}
  /\ UNCHANGED <<storeVars, srt, alertVars, engineVars, saveVars, gone, todo, fresh, conf,
                 haltVars, started, engines, stopping, done, probe>>

(***************************************************************************)
(* Sync.                                                                   *)
(***************************************************************************)
\* pruneStopping and ListSources, which fails or answers.
SyncEnter(c) ==
  /\ SyncFree(c)
  /\ \E readable \in BOOLEAN :
       IF readable THEN At(c, "sync", "decide") /\ sync' = c /\ todo' = [todo EXCEPT ![c] = rows]
                   ELSE At(c, "sync", "idle") /\ sync' = None /\ UNCHANGED todo
  /\ Forget(stopping)
  /\ UNCHANGED <<storeVars, listenVars, alertVars, engineVars, saveVars, gone, fresh, conf,
                 haltVars, started, engines, probe>>

\* Mutant of Retire: the notifier is remembered only once its engine stopped.
RetireLater(E) == {}
Retire(E) == E

\* The section under mu: engines of deleted sources leave the map.
SyncDecide(c) ==
  LET unwanted == {e \in engines : src[e] \notin todo[c]} IN
  /\ At(c, "decide", "stop")
  /\ gone' = [gone EXCEPT ![c] = unwanted]
  /\ engines' = engines \ unwanted
  /\ stopping' = stopping \cup unwanted /\ done' = done \ unwanted
  /\ retiring' = retiring \cup Retire(unwanted)
  /\ todo' = [todo EXCEPT ![c] = IF started THEN @ \ {src[e] : e \in engines} ELSE {}]
  /\ UNCHANGED <<storeVars, listenVars, retired, sent, engineVars, saveVars, sync, fresh, conf,
                 haltVars, started, probe>>

\* stopEngine, one engine after the other.
SyncStops(c) ==
  /\ pc[c] = "stop" /\ \A e \in gone[c] : st[e] = "up"
  /\ \E e \in gone[c] : StopCalled(e)
  /\ UNCHANGED <<storeVars, listenVars, alertVars, saveVars, callVars, haltVars, started, engines,
                 stopping, done, probe>>

\* retireAlerts, once stopEngine returned.
RetireAlerts(c) ==
  \E e \in gone[c] :
    /\ pc[c] = "stop" /\ st[e] = "stopped"
    /\ retiring' = retiring \ {e} /\ retired' = retired + sent[e]
    /\ gone' = [gone EXCEPT ![c] = @ \ {e}]
    /\ UNCHANGED <<storeVars, listenVars, sent, engineVars, saveVars, sync, pc, todo, fresh, conf,
                   haltVars, started, engines, stopping, done, probe>>

\* All that had to stop has stopped: a missing engine is next, and syncMu is
\* given up after the last.
SyncBuilds(c) ==
  /\ gone[c] = {} /\ fresh[c] \in {None} \cup {e \in Engines : st[e] = "stopped"}
  /\ fresh' = [fresh EXCEPT ![c] = None]
  /\ IF todo[c] = {} THEN At(c, "stop", "idle") /\ sync' = None
                     ELSE At(c, "stop", "build") /\ UNCHANGED sync
  /\ UNCHANGED <<storeVars, listenVars, alertVars, engineVars, saveVars, gone, todo, conf,
                 haltVars, started, engines, stopping, done, probe>>

\* New fails, or the engine is handed the settings and tracked as stopping.
Build(c) ==
  \E s \in todo[c] :
    /\ todo' = [todo EXCEPT ![c] = @ \ {s}]
    /\ \/ /\ At(c, "build", "stop")
          /\ UNCHANGED <<engineVars, has, stopping, fresh>>
       \/ \E e \in Engines :
            /\ st[e] = "new" /\ At(c, "build", "start")
            /\ st' = [st EXCEPT ![e] = "starting"] /\ src' = [src EXCEPT ![e] = s]
            /\ has' = [has EXCEPT ![e] = saved]
            /\ stopping' = stopping \cup {e} /\ fresh' = [fresh EXCEPT ![c] = e]
            /\ UNCHANGED rec
    /\ UNCHANGED <<storeVars, listenVars, alertVars, settings, saved, push, sync, gone, conf,
                   haltVars, started, engines, done, probe>>

\* Engine.Start fails, and stopEngine is next.
StartFails(c) ==
  LET e == fresh[c] IN
  /\ At(c, "start", "stop") /\ StopCalled(e)
  /\ UNCHANGED <<storeVars, listenVars, alertVars, saveVars, sync, gone, todo, fresh, conf,
                 haltVars, started, engines, stopping, done, probe>>

\* Engine.Start succeeds and publishEngine takes settingsMu: the engine is in
\* the map.
Publish(c) ==
  LET e == fresh[c] IN
  /\ SettingsFree /\ settings' = c
  /\ At(c, "start", "push")
  /\ st' = [st EXCEPT ![e] = "up"]
  /\ engines' = engines \cup {e}
  /\ UNCHANGED <<storeVars, listenVars, alertVars, src, rec, saved, push, has, sync, gone, todo,
                 fresh, conf, haltVars, started, stopping, done, probe>>

\* Mutant of Handed: the engine keeps what it was built with.
HandedBefore(e) == has[e]
Handed(e) == saved

PublishPush(c) ==
  LET e == fresh[c] IN
  /\ At(c, "push", "untrack") /\ settings' = None
  /\ has' = [has EXCEPT ![e] = Handed(e)]
  /\ UNCHANGED <<storeVars, listenVars, alertVars, engineVars, saved, push, sync, gone, todo,
                 fresh, conf, haltVars, started, engines, stopping, done, probe>>

\* The engine is in the map by now and leaves m.stopping.  A probe that read
\* the map before and reads m.stopping after this finds it in neither (moved);
\* and when a shutdown has taken it from the map meanwhile, nothing refers to it
\* any more (lost).
Untrack(c) ==
  LET e == fresh[c] IN
  /\ At(c, "untrack", "stop")
  /\ stopping' = stopping \ {e} /\ done' = done \ {e}
  /\ fresh' = [fresh EXCEPT ![c] = None]
  /\ probe' = [probe EXCEPT !.moved =
                   IF probe.at = "engines" THEN @ \cup ({e} \cap probe.missed) ELSE @]
  /\ lost' = lost \cup ({e} \cap taken)
  /\ UNCHANGED <<storeVars, listenVars, alertVars, engineVars, saveVars, sync, gone, todo, conf,
                 stopped, halt, taken, started, engines>>

(***************************************************************************)
(* A save: the block is written, then pushed to the engines that were in   *)
(* the map at one instant, with settingsMu held across both.               *)
(***************************************************************************)
Save ==
  /\ SettingsFree /\ saved < MaxSaves
  /\ settings' = "saver" /\ saved' = saved + 1 /\ push' = engines
  /\ UNCHANGED <<storeVars, listenVars, alertVars, engineVars, has, callVars, haltVars,
                 started, engines, stopping, done, probe>>

SavePush(e) ==
  /\ e \in push /\ push' = push \ {e}
  /\ has' = [has EXCEPT ![e] = saved]
  /\ UNCHANGED <<storeVars, listenVars, alertVars, engineVars, settings, saved, callVars, haltVars,
                 started, engines, stopping, done, probe>>

SaveEnds ==
  /\ settings = "saver" /\ push = {} /\ settings' = None
  /\ UNCHANGED <<storeVars, listenVars, alertVars, engineVars, saved, push, has, callVars, haltVars,
                 started, engines, stopping, done, probe>>

(***************************************************************************)
(* StopWithin.                                                             *)
(***************************************************************************)
\* Mutant of FlagWaits: the flag is set without syncMu.
FlagWaitsNot == sync \in Callers \cup {None}
FlagWaits == sync = None

StopFlag ==
  /\ started /\ halt = "no" /\ FlagWaits
  /\ stopped' = TRUE /\ halt' = "flagged"
  /\ UNCHANGED <<storeVars, listenVars, alertVars, engineVars, saveVars, callVars, taken,
                 lost, started, engines, stopping, done, probe>>

\* The section under mu that collects the engines and the listeners.
StopCollect ==
  /\ halt = "flagged" /\ halt' = "engines"
  /\ taken' = engines /\ engines' = {}
  /\ stopping' = stopping \cup engines /\ done' = done \ engines
  /\ srt' = NoPort /\ bonded' = NoPort
  /\ started' = FALSE
  /\ UNCHANGED <<storeVars, alertVars, engineVars, saveVars, callVars, stopped, lost, probe>>

\* Each engine is stopped by a goroutine of its own.
StopEngine(e) ==
  /\ halt = "engines" /\ e \in taken /\ st[e] = "up" /\ StopCalled(e)
  /\ UNCHANGED <<storeVars, listenVars, alertVars, saveVars, callVars, haltVars, started, engines,
                 stopping, done, probe>>

\* SRTLA, SRT and RTMP, after the engines.
CloseListeners ==
  /\ halt = "engines" /\ \A e \in taken : st[e] = "stopped"
  /\ halt' = "over"
  /\ UNCHANGED <<storeVars, listenVars, alertVars, engineVars, saveVars, callVars, stopped, taken, lost,
                 started, engines, stopping, done, probe>>

(***************************************************************************)
(* RecorderRunning, asked before a segment is deleted: the map is read,    *)
(* then m.stopping, then each engine is asked.  missed: the engines that   *)
(* have had a recorder ever since and are in nothing it has read; moved:   *)
(* those of them that were untracked between the two reads.                *)
(***************************************************************************)
Probe ==
  /\ probe.at = "idle"
  /\ probe' = [NoProbe EXCEPT !.at = "engines", !.seen = engines, !.missed = Recording \ engines]
  /\ UNCHANGED <<storeVars, listenVars, alertVars, engineVars, saveVars, callVars, haltVars,
                 started, engines, stopping, done>>

ProbeStopping ==
  /\ probe.at = "engines"
  /\ probe' = [probe EXCEPT !.at = "both", !.seen = @ \cup stopping, !.missed = @ \ stopping]
  /\ UNCHANGED <<storeVars, listenVars, alertVars, engineVars, saveVars, callVars, haltVars,
                 started, engines, stopping, done>>

\* The answer; stopped engines it finds without a recorder are forgotten, up to
\* the first one in the map that has one.
ProbeAnswers ==
  /\ probe.at = "both"
  /\ probe' = NoProbe
  /\ \E asked \in SUBSET probe.seen : Forget(asked)
  /\ UNCHANGED <<storeVars, listenVars, alertVars, engineVars, saveVars, callVars, haltVars,
                 started, engines>>

CallerNext(c) ==
  \/ SharedIngest(c) \/ ListenSRT(c) \/ ListenBonded(c)
  \/ SyncEnter(c) \/ SyncDecide(c) \/ SyncStops(c) \/ RetireAlerts(c) \/ SyncBuilds(c)
  \/ Build(c) \/ StartFails(c) \/ Publish(c) \/ PublishPush(c) \/ Untrack(c)

EngineNext(e) ==
  \/ RecorderStarts(e) \/ RecorderLeaves(e) \/ RecorderStopped(e) \/ Deliver(e)
  \/ StopReturns(e) \/ FinishStopping(e) \/ SavePush(e) \/ StopEngine(e)

Next ==
  \/ EditSource \/ EditPort \/ Start \/ Save \/ SaveEnds
  \/ StopFlag \/ StopCollect \/ CloseListeners
  \/ Probe \/ ProbeStopping \/ ProbeAnswers
  \/ \E c \in Callers : CallerNext(c)
  \/ \E e \in Engines : EngineNext(e)

Spec == Init /\ [][Next]_vars

(***************************************************************************)
(* Properties.                                                             *)
(***************************************************************************)

(* Two engines for one programme are never up together, however the calls  *)
(* of Reconcile overlap and whatever is added and deleted between them: an *)
(* old engine has stopped before a new one claims its ports (syncMu, and   *)
(* "Stop first" in Sync).                                                  *)
OneEnginePerSource ==
  \A e, f \in Alive : src[e] = src[f] => e = f

(* While no save is under way every engine in the map has the settings     *)
(* last saved: a save that ran while the engine was starting reached it    *)
(* too (publishEngine, #741).                                              *)
PublishedIsConfigured ==
  SettingsFree => \A e \in engines : has[e] = saved

(* One engine a programme, and that one configured.                        *)
EnginesAreTheStores == TypeOK /\ OneEnginePerSource /\ PublishedIsConfigured

(* What RecorderRunning's comment promises: a probe that has read both     *)
(* sets holds every engine that has had a recorder since it began.  THE    *)
(* CODE DOES NOT KEEP IT (MCManager_recorder.cfg): Sync's last section     *)
(* drops the engine it has just published from m.stopping, which a probe   *)
(* between its two reads then finds in neither set, and which, when a      *)
(* shutdown has collected the engine meanwhile, no later probe finds       *)
(* either, while its recorder finalises.                                   *)
EveryRecorderIsSeen ==
  probe.at = "both" => probe.missed = {}

(* What the code keeps: the engines a probe misses are those two and no    *)
(* others.  It holds every other engine that has had a recorder since it   *)
(* began, one being started, one being stopped or deleted, one a shutdown  *)
(* collected and one whose recorder outlives its engine's Stop included    *)
(* (RecorderRunning, markStopping, forgetStopped).                         *)
RecorderIsSeen ==
  probe.at = "both" => probe.missed \subseteq probe.moved \cup lost

SentBy(E) == SumFunctionOnSet(sent, E)
Total == retired + SentBy(engines \cup retiring)

(* The install's alert counts never fall while it runs, and count nothing  *)
(* twice: an engine that is deleted takes its share along (retiring,       *)
(* retireAlerts; a fall reads as a counter reset to Prometheus).           *)
TotalsNeverFall ==
  [][(started' => Total' >= Total) /\ Total' <= SentBy(Engines)']_vars

(* The receiver of bonded publishers forwards to the port SRT listens on,  *)
(* or is off, whenever no reconcile is moving them; a shutdown leaves      *)
(* nothing bound, no reconcile binds after it, and the feed is cut only    *)
(* once the Stop of every recorder it took from a slot has returned, the   *)
(* child finalised or given up (reconcileSharedIngest, StopWithin).        *)
ListenersFollow ==
  /\ sync = None => bonded \in {NoPort, srt}
  /\ halt = "over" => srt = NoPort /\ \A e \in taken : rec[e] # "waited"
=============================================================================

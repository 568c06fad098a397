--------------------------- MODULE ManagerProofs ---------------------------
(***************************************************************************)
(* The engines of the programmes, the listeners they share and what a      *)
(* probe sees of them, for any programmes, engines, callers and ports.     *)
(***************************************************************************)
EXTENDS Manager, FiniteSetTheorems, TLAPS

(* The stages of a call that hold syncMu, and those of Sync after its      *)
(* section under mu.                                                       *)
Syncing == {"stop", "build", "start", "push", "untrack"}
Holding == {"srt", "srtla", "decide"} \cup Syncing

Locks ==
  /\ \A c \in Callers : (sync = c <=> pc[c] \in Holding) /\ (settings = c <=> pc[c] = "push")
  /\ push # {} => settings = "saver"

(* What a call remembers goes with its stage.                              *)
Locals ==
  \A c \in Callers :
    /\ gone[c] # {} => pc[c] = "stop"
    /\ pc[c] \in {"start", "push", "untrack"} => fresh[c] \in Engines
    /\ pc[c] = "start" => st[fresh[c]] = "starting"
    /\ pc[c] \in {"push", "untrack"} =>
         fresh[c] \in engines \cup taken /\ st[fresh[c]] # "starting"

(* The map holds engines that are up, and that nobody stops.               *)
MapIsUp ==
  /\ \A e \in engines : st[e] = "up" /\ e \notin taken /\ \A c \in Callers : e \notin gone[c]
  /\ \A e \in taken : st[e] \notin {"new", "starting"}

(* An engine that is alive is somebody's to start, to keep or to stop.     *)
Owned(e) ==
  /\ st[e] = "starting" => \E c \in Callers : pc[c] = "start" /\ fresh[c] = e
  /\ st[e] = "up" =>
       e \in engines \/ (halt = "engines" /\ e \in taken) \/ \E c \in Callers : e \in gone[c]
  /\ st[e] = "stopping" =>
       \/ halt = "engines" /\ e \in taken
       \/ \E c \in Callers : pc[c] = "stop" /\ (e \in gone[c] \/ fresh[c] = e)

Ownership == \A e \in Engines : Owned(e)

(* What Sync still has to build has no engine alive.                       *)
TodoIsMissing ==
  \A c \in Callers : pc[c] \in Syncing => \A e \in Alive : src[e] \notin todo[c]

(* A shutdown goes by its stages, and nothing listens after it.            *)
Halting ==
  /\ halt \in {"no", "flagged"} => taken = {}
  /\ halt # "no" => stopped /\ \A c \in Callers : pc[c] \notin {"srt", "srtla"}
  /\ halt \in {"engines", "over"} => ~started /\ srt = NoPort /\ bonded = NoPort
  /\ halt = "over" => \A e \in taken : st[e] = "stopped"
  /\ (\A c \in Callers : pc[c] # "srtla") => bonded \in {NoPort, srt}
  /\ \A e \in Engines : rec[e] = "waited" => st[e] = "stopping"

(* An engine in the map has the settings, or somebody who holds settingsMu *)
(* is about to hand them to it.                                            *)
Configured ==
  \A e \in engines :
    \/ has[e] = saved
    \/ e \in push
    \/ \E c \in Callers : settings = c /\ fresh[c] = e

(* An engine that may have a recorder is in the map or in m.stopping,      *)
(* unless a shutdown lost it.                                              *)
Tracked ==
  /\ \A e \in Engines : st[e] \in {"starting", "up"} \/ rec[e] # "none" =>
       e \in engines \cup stopping \cup lost
  /\ \A e \in Engines : st[e] = "starting" => e \in stopping
  /\ \A e \in done : st[e] \in {"returned", "stopped"}

(* What a probe has not seen it has yet to see in m.stopping, unless it was *)
(* untracked.                                                              *)
Probing ==
  /\ probe.missed \subseteq Recording
  /\ probe.at = "idle" => probe.missed = {}
  /\ probe.at = "engines" => probe.missed \subseteq stopping \cup probe.moved \cup lost
  /\ probe.at = "both" => probe.missed \subseteq probe.moved \cup lost

(* What has been added to m.retiredAlerts is what engines that have stopped *)
(* sent, engines that are neither in the map nor in m.retiring: nothing is *)
(* in two of the three at once.                                            *)
Accounts ==
  /\ \A c \in Callers : gone[c] \subseteq retiring
  /\ \E R \in SUBSET Engines :
       /\ R \cap (engines \cup retiring) = {}
       /\ \A e \in R : st[e] = "stopped"
       /\ retired = SentBy(R)

IInv == /\ TypeOK /\ Locks /\ Locals /\ MapIsUp /\ Ownership /\ TodoIsMissing /\ Halting
        /\ Configured /\ Tracked /\ Probing /\ OneEnginePerSource /\ Accounts

-----------------------------------------------------------------------------

(* Every step preserves the types.                                         *)
LEMMA TypesNext ==
  ASSUME TypeOK, Locals, [Next]_vars
  PROVE  TypeOK'
<1> USE PortsAssumption, BoundsAssumption
<1> USE DEF storeVars, listenVars, alertVars, engineVars, saveVars, callVars,
         haltVars, TypeOK, NoPort
<1>1. ASSUME EditSource PROVE TypeOK'
  BY <1>1 DEF EditSource
<1>2. ASSUME EditPort PROVE TypeOK'
  BY <1>2 DEF EditPort
<1>3. ASSUME Start PROVE TypeOK'
  BY <1>3 DEF Start
<1>4. ASSUME Save PROVE TypeOK'
  BY <1>4 DEF Save, SettingsFree
<1>5. ASSUME SaveEnds PROVE TypeOK'
  BY <1>5 DEF SaveEnds
<1>6. ASSUME StopFlag PROVE TypeOK'
  BY <1>6 DEF StopFlag, FlagWaits
<1>7. ASSUME StopCollect PROVE TypeOK'
  BY <1>7 DEF StopCollect
<1>8. ASSUME CloseListeners PROVE TypeOK'
  BY <1>8 DEF CloseListeners
<1>9. ASSUME Probe PROVE TypeOK'
  <2>1. probe' = [at |-> "engines", seen |-> engines, missed |-> Recording \ engines, moved |-> {}]
    BY <1>9 DEF Probe, NoProbe
  <2>2. engines \in SUBSET Engines /\ Recording \ engines \in SUBSET Engines
    BY DEF Recording
  <2>3. probe' \in [at : {"idle", "engines", "both"}, seen : SUBSET Engines,
                    missed : SUBSET Engines, moved : SUBSET Engines]
    BY <2>1, <2>2
  <2> QED
    BY <1>9, <2>3 DEF Probe
<1>10. ASSUME ProbeStopping PROVE TypeOK'
  BY <1>10 DEF ProbeStopping
<1>11. ASSUME ProbeAnswers PROVE TypeOK'
  BY <1>11 DEF ProbeAnswers, Forget, Forgotten, NoProbe
<1>12. ASSUME NEW c \in Callers, SharedIngest(c) PROVE TypeOK'
  BY <1>12 DEF SharedIngest, SyncFree, At
<1>13. ASSUME NEW c \in Callers, ListenSRT(c) PROVE TypeOK'
  BY <1>13 DEF ListenSRT, At
<1>14. ASSUME NEW c \in Callers, ListenBonded(c) PROVE TypeOK'
  BY <1>14 DEF ListenBonded, At
<1>15. ASSUME NEW c \in Callers, SyncEnter(c) PROVE TypeOK'
  BY <1>15 DEF SyncEnter, SyncFree, Forget, Forgotten, At
<1>16. ASSUME NEW c \in Callers, SyncDecide(c) PROVE TypeOK'
  BY <1>16 DEF SyncDecide, Retire, At
<1>17. ASSUME NEW c \in Callers, SyncStops(c) PROVE TypeOK'
  BY <1>17 DEF SyncStops, StopCalled
<1>18. ASSUME NEW c \in Callers, RetireAlerts(c) PROVE TypeOK'
  BY <1>18 DEF RetireAlerts
<1>19. ASSUME NEW c \in Callers, SyncBuilds(c) PROVE TypeOK'
  BY <1>19 DEF SyncBuilds, At
<1>20. ASSUME NEW c \in Callers, Build(c) PROVE TypeOK'
  BY <1>20 DEF Build, At
<1>21. ASSUME NEW c \in Callers, StartFails(c) PROVE TypeOK'
  BY <1>21 DEF StartFails, StopCalled, At, Locals
<1>22. ASSUME NEW c \in Callers, Publish(c) PROVE TypeOK'
  BY <1>22 DEF Publish, SettingsFree, At, Locals
<1>23. ASSUME NEW c \in Callers, PublishPush(c) PROVE TypeOK'
  BY <1>23 DEF PublishPush, Handed, At, Locals
<1>24. ASSUME NEW c \in Callers, Untrack(c) PROVE TypeOK'
  BY <1>24 DEF Untrack, At, Locals
<1>25. ASSUME NEW e \in Engines, RecorderStarts(e) PROVE TypeOK'
  BY <1>25 DEF RecorderStarts
<1>26. ASSUME NEW e \in Engines, RecorderLeaves(e) PROVE TypeOK'
  BY <1>26 DEF RecorderLeaves
<1>27. ASSUME NEW e \in Engines, RecorderStopped(e) PROVE TypeOK'
  BY <1>27 DEF RecorderStopped
<1>28. ASSUME NEW e \in Engines, Deliver(e) PROVE TypeOK'
  BY <1>28 DEF Deliver, Alive
<1>29. ASSUME NEW e \in Engines, StopReturns(e) PROVE TypeOK'
  BY <1>29 DEF StopReturns
<1>30. ASSUME NEW e \in Engines, FinishStopping(e) PROVE TypeOK'
  BY <1>30 DEF FinishStopping, Forget, Forgotten
<1>31. ASSUME NEW e \in Engines, SavePush(e) PROVE TypeOK'
  BY <1>31 DEF SavePush
<1>32. ASSUME NEW e \in Engines, StopEngine(e) PROVE TypeOK'
  BY <1>32 DEF StopEngine, StopCalled
<1>33. CASE UNCHANGED vars
  BY <1>33 DEF vars
<1> HIDE DEF storeVars, listenVars, alertVars, engineVars, saveVars, callVars,
          haltVars, TypeOK, NoPort
<1> QED
  BY <1>1, <1>2, <1>3, <1>4, <1>5, <1>6, <1>7, <1>8, <1>9, <1>10, <1>11, <1>12,
     <1>13, <1>14, <1>15, <1>16, <1>17, <1>18, <1>19, <1>20, <1>21, <1>22,
     <1>23, <1>24, <1>25, <1>26, <1>27, <1>28, <1>29, <1>30, <1>31, <1>32,
     <1>33
     DEF Next, CallerNext, EngineNext

(* syncMu and settingsMu are held at the stages that need them.            *)
LEMMA LocksNext ==
  ASSUME TypeOK, Locks, [Next]_vars
  PROVE  Locks'
<1> USE NoneAssumption, SaverAssumption
<1> USE DEF storeVars, listenVars, alertVars, engineVars, saveVars, callVars,
         haltVars, TypeOK, Locks, Holding, Syncing
<1>1. ASSUME EditSource PROVE Locks'
  BY <1>1 DEF EditSource
<1>2. ASSUME EditPort PROVE Locks'
  BY <1>2 DEF EditPort
<1>3. ASSUME Start PROVE Locks'
  BY <1>3 DEF Start
<1>4. ASSUME Save PROVE Locks'
  BY <1>4 DEF Save, SettingsFree
<1>5. ASSUME SaveEnds PROVE Locks'
  BY <1>5 DEF SaveEnds
<1>6. ASSUME StopFlag PROVE Locks'
  BY <1>6 DEF StopFlag, FlagWaits
<1>7. ASSUME StopCollect PROVE Locks'
  BY <1>7 DEF StopCollect
<1>8. ASSUME CloseListeners PROVE Locks'
  BY <1>8 DEF CloseListeners
<1>9. ASSUME Probe PROVE Locks'
  BY <1>9 DEF Probe, NoProbe
<1>10. ASSUME ProbeStopping PROVE Locks'
  BY <1>10 DEF ProbeStopping
<1>11. ASSUME ProbeAnswers PROVE Locks'
  BY <1>11 DEF ProbeAnswers, Forget, Forgotten, NoProbe
<1>12. ASSUME NEW c \in Callers, SharedIngest(c) PROVE Locks'
  BY <1>12 DEF SharedIngest, SyncFree, At
<1>13. ASSUME NEW c \in Callers, ListenSRT(c) PROVE Locks'
  BY <1>13 DEF ListenSRT, At
<1>14. ASSUME NEW c \in Callers, ListenBonded(c) PROVE Locks'
  BY <1>14 DEF ListenBonded, At
<1>15. ASSUME NEW c \in Callers, SyncEnter(c) PROVE Locks'
  BY <1>15 DEF SyncEnter, SyncFree, Forget, Forgotten, At
<1>16. ASSUME NEW c \in Callers, SyncDecide(c) PROVE Locks'
  BY <1>16 DEF SyncDecide, Retire, At
<1>17. ASSUME NEW c \in Callers, SyncStops(c) PROVE Locks'
  BY <1>17 DEF SyncStops, StopCalled
<1>18. ASSUME NEW c \in Callers, RetireAlerts(c) PROVE Locks'
  BY <1>18 DEF RetireAlerts
<1>19. ASSUME NEW c \in Callers, SyncBuilds(c) PROVE Locks'
  BY <1>19 DEF SyncBuilds, At
<1>20. ASSUME NEW c \in Callers, Build(c) PROVE Locks'
  BY <1>20 DEF Build, At
<1>21. ASSUME NEW c \in Callers, StartFails(c) PROVE Locks'
  BY <1>21 DEF StartFails, StopCalled, At
<1>22. ASSUME NEW c \in Callers, Publish(c) PROVE Locks'
  BY <1>22 DEF Publish, SettingsFree, At
<1>23. ASSUME NEW c \in Callers, PublishPush(c) PROVE Locks'
  BY <1>23 DEF PublishPush, Handed, At
<1>24. ASSUME NEW c \in Callers, Untrack(c) PROVE Locks'
  BY <1>24 DEF Untrack, At
<1>25. ASSUME NEW e \in Engines, RecorderStarts(e) PROVE Locks'
  BY <1>25 DEF RecorderStarts
<1>26. ASSUME NEW e \in Engines, RecorderLeaves(e) PROVE Locks'
  BY <1>26 DEF RecorderLeaves
<1>27. ASSUME NEW e \in Engines, RecorderStopped(e) PROVE Locks'
  BY <1>27 DEF RecorderStopped
<1>28. ASSUME NEW e \in Engines, Deliver(e) PROVE Locks'
  BY <1>28 DEF Deliver, Alive
<1>29. ASSUME NEW e \in Engines, StopReturns(e) PROVE Locks'
  BY <1>29 DEF StopReturns
<1>30. ASSUME NEW e \in Engines, FinishStopping(e) PROVE Locks'
  BY <1>30 DEF FinishStopping, Forget, Forgotten
<1>31. ASSUME NEW e \in Engines, SavePush(e) PROVE Locks'
  BY <1>31 DEF SavePush
<1>32. ASSUME NEW e \in Engines, StopEngine(e) PROVE Locks'
  BY <1>32 DEF StopEngine, StopCalled
<1>33. CASE UNCHANGED vars
  BY <1>33 DEF vars
<1> HIDE DEF storeVars, listenVars, alertVars, engineVars, saveVars, callVars,
          haltVars, TypeOK, Locks, Holding, Syncing
<1> QED
  BY <1>1, <1>2, <1>3, <1>4, <1>5, <1>6, <1>7, <1>8, <1>9, <1>10, <1>11, <1>12,
     <1>13, <1>14, <1>15, <1>16, <1>17, <1>18, <1>19, <1>20, <1>21, <1>22,
     <1>23, <1>24, <1>25, <1>26, <1>27, <1>28, <1>29, <1>30, <1>31, <1>32,
     <1>33
     DEF Next, CallerNext, EngineNext

LEMMA LocalsNext ==
  ASSUME TypeOK, Locks, Locals, MapIsUp, Ownership, Tracked, Halting,
         [Next]_vars
  PROVE  Locals'
<1> USE NoneAssumption
<1> USE DEF storeVars, listenVars, alertVars, engineVars, saveVars, callVars,
         haltVars, TypeOK, Locks, Locals, MapIsUp, Ownership, Tracked, Halting,
         Owned, Holding, Syncing
<1>1. ASSUME EditSource PROVE Locals'
  BY <1>1 DEF EditSource
<1>2. ASSUME EditPort PROVE Locals'
  BY <1>2 DEF EditPort
<1>3. ASSUME Start PROVE Locals'
  BY <1>3 DEF Start
<1>4. ASSUME Save PROVE Locals'
  BY <1>4 DEF Save, SettingsFree
<1>5. ASSUME SaveEnds PROVE Locals'
  BY <1>5 DEF SaveEnds
<1>6. ASSUME StopFlag PROVE Locals'
  BY <1>6 DEF StopFlag, FlagWaits
<1>7. ASSUME StopCollect PROVE Locals'
  BY <1>7 DEF StopCollect
<1>8. ASSUME CloseListeners PROVE Locals'
  BY <1>8 DEF CloseListeners
<1>9. ASSUME Probe PROVE Locals'
  BY <1>9 DEF Probe, NoProbe
<1>10. ASSUME ProbeStopping PROVE Locals'
  BY <1>10 DEF ProbeStopping
<1>11. ASSUME ProbeAnswers PROVE Locals'
  BY <1>11 DEF ProbeAnswers, Forget, Forgotten, NoProbe
<1>12. ASSUME NEW c \in Callers, SharedIngest(c) PROVE Locals'
  BY <1>12 DEF SharedIngest, SyncFree, At
<1>13. ASSUME NEW c \in Callers, ListenSRT(c) PROVE Locals'
  BY <1>13 DEF ListenSRT, At
<1>14. ASSUME NEW c \in Callers, ListenBonded(c) PROVE Locals'
  BY <1>14 DEF ListenBonded, At
<1>15. ASSUME NEW c \in Callers, SyncEnter(c) PROVE Locals'
  BY <1>15 DEF SyncEnter, SyncFree, Forget, Forgotten, At
<1>16. ASSUME NEW c \in Callers, SyncDecide(c) PROVE Locals'
  BY <1>16 DEF SyncDecide, Retire, At
<1>17. ASSUME NEW c \in Callers, SyncStops(c) PROVE Locals'
  BY <1>17 DEF SyncStops, StopCalled
<1>18. ASSUME NEW c \in Callers, RetireAlerts(c) PROVE Locals'
  BY <1>18 DEF RetireAlerts
<1>19. ASSUME NEW c \in Callers, SyncBuilds(c) PROVE Locals'
  BY <1>19 DEF SyncBuilds, At
<1>20. ASSUME NEW c \in Callers, Build(c) PROVE Locals'
  BY <1>20 DEF Build, At
<1>21. ASSUME NEW c \in Callers, StartFails(c) PROVE Locals'
  BY <1>21 DEF StartFails, StopCalled, At
<1>22. ASSUME NEW c \in Callers, Publish(c) PROVE Locals'
  BY <1>22 DEF Publish, SettingsFree, At
<1>23. ASSUME NEW c \in Callers, PublishPush(c) PROVE Locals'
  BY <1>23 DEF PublishPush, Handed, At
<1>24. ASSUME NEW c \in Callers, Untrack(c) PROVE Locals'
  BY <1>24 DEF Untrack, At
<1>25. ASSUME NEW e \in Engines, RecorderStarts(e) PROVE Locals'
  BY <1>25 DEF RecorderStarts
<1>26. ASSUME NEW e \in Engines, RecorderLeaves(e) PROVE Locals'
  BY <1>26 DEF RecorderLeaves
<1>27. ASSUME NEW e \in Engines, RecorderStopped(e) PROVE Locals'
  BY <1>27 DEF RecorderStopped
<1>28. ASSUME NEW e \in Engines, Deliver(e) PROVE Locals'
  BY <1>28 DEF Deliver, Alive
<1>29. ASSUME NEW e \in Engines, StopReturns(e) PROVE Locals'
  BY <1>29 DEF StopReturns
<1>30. ASSUME NEW e \in Engines, FinishStopping(e) PROVE Locals'
  BY <1>30 DEF FinishStopping, Forget, Forgotten
<1>31. ASSUME NEW e \in Engines, SavePush(e) PROVE Locals'
  BY <1>31 DEF SavePush
<1>32. ASSUME NEW e \in Engines, StopEngine(e) PROVE Locals'
  BY <1>32 DEF StopEngine, StopCalled
<1>33. CASE UNCHANGED vars
  BY <1>33 DEF vars
<1> HIDE DEF storeVars, listenVars, alertVars, engineVars, saveVars, callVars,
          haltVars, TypeOK, Locks, Locals, MapIsUp, Ownership, Tracked,
          Halting, Owned, Holding, Syncing
<1> QED
  BY <1>1, <1>2, <1>3, <1>4, <1>5, <1>6, <1>7, <1>8, <1>9, <1>10, <1>11, <1>12,
     <1>13, <1>14, <1>15, <1>16, <1>17, <1>18, <1>19, <1>20, <1>21, <1>22,
     <1>23, <1>24, <1>25, <1>26, <1>27, <1>28, <1>29, <1>30, <1>31, <1>32,
     <1>33
     DEF Next, CallerNext, EngineNext

LEMMA MapNext ==
  ASSUME TypeOK, Locks, Locals, MapIsUp, [Next]_vars
  PROVE  MapIsUp'
<1> USE NoneAssumption
<1> USE DEF storeVars, listenVars, alertVars, engineVars, saveVars, callVars,
         haltVars, TypeOK, Locks, Locals, MapIsUp, Holding, Syncing
<1>1. ASSUME EditSource PROVE MapIsUp'
  BY <1>1 DEF EditSource
<1>2. ASSUME EditPort PROVE MapIsUp'
  BY <1>2 DEF EditPort
<1>3. ASSUME Start PROVE MapIsUp'
  BY <1>3 DEF Start
<1>4. ASSUME Save PROVE MapIsUp'
  BY <1>4 DEF Save, SettingsFree
<1>5. ASSUME SaveEnds PROVE MapIsUp'
  BY <1>5 DEF SaveEnds
<1>6. ASSUME StopFlag PROVE MapIsUp'
  BY <1>6 DEF StopFlag, FlagWaits
<1>7. ASSUME StopCollect PROVE MapIsUp'
  BY <1>7 DEF StopCollect
<1>8. ASSUME CloseListeners PROVE MapIsUp'
  BY <1>8 DEF CloseListeners
<1>9. ASSUME Probe PROVE MapIsUp'
  BY <1>9 DEF Probe, NoProbe
<1>10. ASSUME ProbeStopping PROVE MapIsUp'
  BY <1>10 DEF ProbeStopping
<1>11. ASSUME ProbeAnswers PROVE MapIsUp'
  BY <1>11 DEF ProbeAnswers, Forget, Forgotten, NoProbe
<1>12. ASSUME NEW c \in Callers, SharedIngest(c) PROVE MapIsUp'
  BY <1>12 DEF SharedIngest, SyncFree, At
<1>13. ASSUME NEW c \in Callers, ListenSRT(c) PROVE MapIsUp'
  BY <1>13 DEF ListenSRT, At
<1>14. ASSUME NEW c \in Callers, ListenBonded(c) PROVE MapIsUp'
  BY <1>14 DEF ListenBonded, At
<1>15. ASSUME NEW c \in Callers, SyncEnter(c) PROVE MapIsUp'
  BY <1>15 DEF SyncEnter, SyncFree, Forget, Forgotten, At
<1>16. ASSUME NEW c \in Callers, SyncDecide(c) PROVE MapIsUp'
  BY <1>16 DEF SyncDecide, Retire, At
<1>17. ASSUME NEW c \in Callers, SyncStops(c) PROVE MapIsUp'
  BY <1>17 DEF SyncStops, StopCalled
<1>18. ASSUME NEW c \in Callers, RetireAlerts(c) PROVE MapIsUp'
  BY <1>18 DEF RetireAlerts
<1>19. ASSUME NEW c \in Callers, SyncBuilds(c) PROVE MapIsUp'
  BY <1>19 DEF SyncBuilds, At
<1>20. ASSUME NEW c \in Callers, Build(c) PROVE MapIsUp'
  BY <1>20 DEF Build, At
<1>21. ASSUME NEW c \in Callers, StartFails(c) PROVE MapIsUp'
  BY <1>21 DEF StartFails, StopCalled, At
<1>22. ASSUME NEW c \in Callers, Publish(c) PROVE MapIsUp'
  BY <1>22 DEF Publish, SettingsFree, At
<1>23. ASSUME NEW c \in Callers, PublishPush(c) PROVE MapIsUp'
  BY <1>23 DEF PublishPush, Handed, At
<1>24. ASSUME NEW c \in Callers, Untrack(c) PROVE MapIsUp'
  BY <1>24 DEF Untrack, At
<1>25. ASSUME NEW e \in Engines, RecorderStarts(e) PROVE MapIsUp'
  BY <1>25 DEF RecorderStarts
<1>26. ASSUME NEW e \in Engines, RecorderLeaves(e) PROVE MapIsUp'
  BY <1>26 DEF RecorderLeaves
<1>27. ASSUME NEW e \in Engines, RecorderStopped(e) PROVE MapIsUp'
  BY <1>27 DEF RecorderStopped
<1>28. ASSUME NEW e \in Engines, Deliver(e) PROVE MapIsUp'
  BY <1>28 DEF Deliver, Alive
<1>29. ASSUME NEW e \in Engines, StopReturns(e) PROVE MapIsUp'
  BY <1>29 DEF StopReturns
<1>30. ASSUME NEW e \in Engines, FinishStopping(e) PROVE MapIsUp'
  BY <1>30 DEF FinishStopping, Forget, Forgotten
<1>31. ASSUME NEW e \in Engines, SavePush(e) PROVE MapIsUp'
  BY <1>31 DEF SavePush
<1>32. ASSUME NEW e \in Engines, StopEngine(e) PROVE MapIsUp'
  BY <1>32 DEF StopEngine, StopCalled
<1>33. CASE UNCHANGED vars
  BY <1>33 DEF vars
<1> HIDE DEF storeVars, listenVars, alertVars, engineVars, saveVars, callVars,
          haltVars, TypeOK, Locks, Locals, MapIsUp, Holding, Syncing
<1> QED
  BY <1>1, <1>2, <1>3, <1>4, <1>5, <1>6, <1>7, <1>8, <1>9, <1>10, <1>11, <1>12,
     <1>13, <1>14, <1>15, <1>16, <1>17, <1>18, <1>19, <1>20, <1>21, <1>22,
     <1>23, <1>24, <1>25, <1>26, <1>27, <1>28, <1>29, <1>30, <1>31, <1>32,
     <1>33
     DEF Next, CallerNext, EngineNext

LEMMA OwnershipNext ==
  ASSUME TypeOK, Locks, Locals, MapIsUp, Ownership, Halting, [Next]_vars
  PROVE  Ownership'
<1> USE NoneAssumption
<1> USE DEF storeVars, listenVars, alertVars, engineVars, saveVars, callVars,
         haltVars, TypeOK, Locks, Locals, MapIsUp, Ownership, Owned, Halting,
         Holding, Syncing
<1>1. ASSUME EditSource PROVE Ownership'
  BY <1>1 DEF EditSource
<1>2. ASSUME EditPort PROVE Ownership'
  BY <1>2 DEF EditPort
<1>3. ASSUME Start PROVE Ownership'
  BY <1>3 DEF Start
<1>4. ASSUME Save PROVE Ownership'
  BY <1>4 DEF Save, SettingsFree
<1>5. ASSUME SaveEnds PROVE Ownership'
  BY <1>5 DEF SaveEnds
<1>6. ASSUME StopFlag PROVE Ownership'
  BY <1>6 DEF StopFlag, FlagWaits
<1>7. ASSUME StopCollect PROVE Ownership'
  BY <1>7 DEF StopCollect
<1>8. ASSUME CloseListeners PROVE Ownership'
  BY <1>8 DEF CloseListeners
<1>9. ASSUME Probe PROVE Ownership'
  BY <1>9 DEF Probe, NoProbe
<1>10. ASSUME ProbeStopping PROVE Ownership'
  BY <1>10 DEF ProbeStopping
<1>11. ASSUME ProbeAnswers PROVE Ownership'
  BY <1>11 DEF ProbeAnswers, Forget, Forgotten, NoProbe
<1>12. ASSUME NEW c \in Callers, SharedIngest(c) PROVE Ownership'
  BY <1>12 DEF SharedIngest, SyncFree, At
<1>13. ASSUME NEW c \in Callers, ListenSRT(c) PROVE Ownership'
  BY <1>13 DEF ListenSRT, At
<1>14. ASSUME NEW c \in Callers, ListenBonded(c) PROVE Ownership'
  BY <1>14 DEF ListenBonded, At
<1>15. ASSUME NEW c \in Callers, SyncEnter(c) PROVE Ownership'
  BY <1>15 DEF SyncEnter, SyncFree, Forget, Forgotten, At
<1>16. ASSUME NEW c \in Callers, SyncDecide(c) PROVE Ownership'
  BY <1>16 DEF SyncDecide, Retire, At
<1>17. ASSUME NEW c \in Callers, SyncStops(c) PROVE Ownership'
  BY <1>17 DEF SyncStops, StopCalled
<1>18. ASSUME NEW c \in Callers, RetireAlerts(c) PROVE Ownership'
  BY <1>18 DEF RetireAlerts
<1>19. ASSUME NEW c \in Callers, SyncBuilds(c) PROVE Ownership'
  BY <1>19 DEF SyncBuilds, At
<1>20. ASSUME NEW c \in Callers, Build(c) PROVE Ownership'
  BY <1>20 DEF Build, At
<1>21. ASSUME NEW c \in Callers, StartFails(c) PROVE Ownership'
  BY <1>21 DEF StartFails, StopCalled, At
<1>22. ASSUME NEW c \in Callers, Publish(c) PROVE Ownership'
  BY <1>22 DEF Publish, SettingsFree, At
<1>23. ASSUME NEW c \in Callers, PublishPush(c) PROVE Ownership'
  BY <1>23 DEF PublishPush, Handed, At
<1>24. ASSUME NEW c \in Callers, Untrack(c) PROVE Ownership'
  BY <1>24 DEF Untrack, At
<1>25. ASSUME NEW e \in Engines, RecorderStarts(e) PROVE Ownership'
  BY <1>25 DEF RecorderStarts
<1>26. ASSUME NEW e \in Engines, RecorderLeaves(e) PROVE Ownership'
  BY <1>26 DEF RecorderLeaves
<1>27. ASSUME NEW e \in Engines, RecorderStopped(e) PROVE Ownership'
  BY <1>27 DEF RecorderStopped
<1>28. ASSUME NEW e \in Engines, Deliver(e) PROVE Ownership'
  BY <1>28 DEF Deliver, Alive
<1>29. ASSUME NEW e \in Engines, StopReturns(e) PROVE Ownership'
  BY <1>29 DEF StopReturns
<1>30. ASSUME NEW e \in Engines, FinishStopping(e) PROVE Ownership'
  BY <1>30 DEF FinishStopping, Forget, Forgotten
<1>31. ASSUME NEW e \in Engines, SavePush(e) PROVE Ownership'
  BY <1>31 DEF SavePush
<1>32. ASSUME NEW e \in Engines, StopEngine(e) PROVE Ownership'
  BY <1>32 DEF StopEngine, StopCalled
<1>33. CASE UNCHANGED vars
  BY <1>33 DEF vars
<1> HIDE DEF storeVars, listenVars, alertVars, engineVars, saveVars, callVars,
          haltVars, TypeOK, Locks, Locals, MapIsUp, Ownership, Owned, Halting,
          Holding, Syncing
<1> QED
  BY <1>1, <1>2, <1>3, <1>4, <1>5, <1>6, <1>7, <1>8, <1>9, <1>10, <1>11, <1>12,
     <1>13, <1>14, <1>15, <1>16, <1>17, <1>18, <1>19, <1>20, <1>21, <1>22,
     <1>23, <1>24, <1>25, <1>26, <1>27, <1>28, <1>29, <1>30, <1>31, <1>32,
     <1>33
     DEF Next, CallerNext, EngineNext

LEMMA TodoNext ==
  ASSUME TypeOK, Locks, Locals, Ownership, Halting, TodoIsMissing, [Next]_vars
  PROVE  TodoIsMissing'
<1> USE NoneAssumption
<1> USE DEF storeVars, listenVars, alertVars, engineVars, saveVars, callVars,
         haltVars, TypeOK, Locks, Locals, Ownership, Owned, Halting,
         TodoIsMissing, Alive, Holding, Syncing
<1>1. ASSUME EditSource PROVE TodoIsMissing'
  BY <1>1 DEF EditSource
<1>2. ASSUME EditPort PROVE TodoIsMissing'
  BY <1>2 DEF EditPort
<1>3. ASSUME Start PROVE TodoIsMissing'
  BY <1>3 DEF Start
<1>4. ASSUME Save PROVE TodoIsMissing'
  BY <1>4 DEF Save, SettingsFree
<1>5. ASSUME SaveEnds PROVE TodoIsMissing'
  BY <1>5 DEF SaveEnds
<1>6. ASSUME StopFlag PROVE TodoIsMissing'
  BY <1>6 DEF StopFlag, FlagWaits
<1>7. ASSUME StopCollect PROVE TodoIsMissing'
  BY <1>7 DEF StopCollect
<1>8. ASSUME CloseListeners PROVE TodoIsMissing'
  BY <1>8 DEF CloseListeners
<1>9. ASSUME Probe PROVE TodoIsMissing'
  BY <1>9 DEF Probe, NoProbe
<1>10. ASSUME ProbeStopping PROVE TodoIsMissing'
  BY <1>10 DEF ProbeStopping
<1>11. ASSUME ProbeAnswers PROVE TodoIsMissing'
  BY <1>11 DEF ProbeAnswers, Forget, Forgotten, NoProbe
<1>12. ASSUME NEW c \in Callers, SharedIngest(c) PROVE TodoIsMissing'
  BY <1>12 DEF SharedIngest, SyncFree, At
<1>13. ASSUME NEW c \in Callers, ListenSRT(c) PROVE TodoIsMissing'
  BY <1>13 DEF ListenSRT, At
<1>14. ASSUME NEW c \in Callers, ListenBonded(c) PROVE TodoIsMissing'
  BY <1>14 DEF ListenBonded, At
<1>15. ASSUME NEW c \in Callers, SyncEnter(c) PROVE TodoIsMissing'
  BY <1>15 DEF SyncEnter, SyncFree, Forget, Forgotten, At
<1>16. ASSUME NEW c \in Callers, SyncDecide(c) PROVE TodoIsMissing'
  BY <1>16 DEF SyncDecide, Retire, At
<1>17. ASSUME NEW c \in Callers, SyncStops(c) PROVE TodoIsMissing'
  BY <1>17 DEF SyncStops, StopCalled
<1>18. ASSUME NEW c \in Callers, RetireAlerts(c) PROVE TodoIsMissing'
  BY <1>18 DEF RetireAlerts
<1>19. ASSUME NEW c \in Callers, SyncBuilds(c) PROVE TodoIsMissing'
  BY <1>19 DEF SyncBuilds, At
<1>20. ASSUME NEW c \in Callers, Build(c) PROVE TodoIsMissing'
  BY <1>20 DEF Build, At
<1>21. ASSUME NEW c \in Callers, StartFails(c) PROVE TodoIsMissing'
  BY <1>21 DEF StartFails, StopCalled, At
<1>22. ASSUME NEW c \in Callers, Publish(c) PROVE TodoIsMissing'
  BY <1>22 DEF Publish, SettingsFree, At
<1>23. ASSUME NEW c \in Callers, PublishPush(c) PROVE TodoIsMissing'
  BY <1>23 DEF PublishPush, Handed, At
<1>24. ASSUME NEW c \in Callers, Untrack(c) PROVE TodoIsMissing'
  BY <1>24 DEF Untrack, At
<1>25. ASSUME NEW e \in Engines, RecorderStarts(e) PROVE TodoIsMissing'
  BY <1>25 DEF RecorderStarts
<1>26. ASSUME NEW e \in Engines, RecorderLeaves(e) PROVE TodoIsMissing'
  BY <1>26 DEF RecorderLeaves
<1>27. ASSUME NEW e \in Engines, RecorderStopped(e) PROVE TodoIsMissing'
  BY <1>27 DEF RecorderStopped
<1>28. ASSUME NEW e \in Engines, Deliver(e) PROVE TodoIsMissing'
  BY <1>28 DEF Deliver, Alive
<1>29. ASSUME NEW e \in Engines, StopReturns(e) PROVE TodoIsMissing'
  BY <1>29 DEF StopReturns
<1>30. ASSUME NEW e \in Engines, FinishStopping(e) PROVE TodoIsMissing'
  BY <1>30 DEF FinishStopping, Forget, Forgotten
<1>31. ASSUME NEW e \in Engines, SavePush(e) PROVE TodoIsMissing'
  BY <1>31 DEF SavePush
<1>32. ASSUME NEW e \in Engines, StopEngine(e) PROVE TodoIsMissing'
  BY <1>32 DEF StopEngine, StopCalled
<1>33. CASE UNCHANGED vars
  BY <1>33 DEF vars
<1> HIDE DEF storeVars, listenVars, alertVars, engineVars, saveVars, callVars,
          haltVars, TypeOK, Locks, Locals, Ownership, Owned, Halting,
          TodoIsMissing, Alive, Holding, Syncing
<1> QED
  BY <1>1, <1>2, <1>3, <1>4, <1>5, <1>6, <1>7, <1>8, <1>9, <1>10, <1>11, <1>12,
     <1>13, <1>14, <1>15, <1>16, <1>17, <1>18, <1>19, <1>20, <1>21, <1>22,
     <1>23, <1>24, <1>25, <1>26, <1>27, <1>28, <1>29, <1>30, <1>31, <1>32,
     <1>33
     DEF Next, CallerNext, EngineNext

LEMMA HaltingNext ==
  ASSUME TypeOK, Locks, Locals, MapIsUp, Halting, [Next]_vars
  PROVE  Halting'
<1> USE NoneAssumption
<1> USE DEF storeVars, listenVars, alertVars, engineVars, saveVars, callVars,
         haltVars, TypeOK, Locks, Locals, MapIsUp, Halting, NoPort, Holding,
         Syncing
<1>1. ASSUME EditSource PROVE Halting'
  BY <1>1 DEF EditSource
<1>2. ASSUME EditPort PROVE Halting'
  BY <1>2 DEF EditPort
<1>3. ASSUME Start PROVE Halting'
  BY <1>3 DEF Start
<1>4. ASSUME Save PROVE Halting'
  BY <1>4 DEF Save, SettingsFree
<1>5. ASSUME SaveEnds PROVE Halting'
  BY <1>5 DEF SaveEnds
<1>6. ASSUME StopFlag PROVE Halting'
  BY <1>6 DEF StopFlag, FlagWaits
<1>7. ASSUME StopCollect PROVE Halting'
  BY <1>7 DEF StopCollect
<1>8. ASSUME CloseListeners PROVE Halting'
  BY <1>8 DEF CloseListeners
<1>9. ASSUME Probe PROVE Halting'
  BY <1>9 DEF Probe, NoProbe
<1>10. ASSUME ProbeStopping PROVE Halting'
  BY <1>10 DEF ProbeStopping
<1>11. ASSUME ProbeAnswers PROVE Halting'
  BY <1>11 DEF ProbeAnswers, Forget, Forgotten, NoProbe
<1>12. ASSUME NEW c \in Callers, SharedIngest(c) PROVE Halting'
  BY <1>12 DEF SharedIngest, SyncFree, At
<1>13. ASSUME NEW c \in Callers, ListenSRT(c) PROVE Halting'
  BY <1>13 DEF ListenSRT, At
<1>14. ASSUME NEW c \in Callers, ListenBonded(c) PROVE Halting'
  BY <1>14 DEF ListenBonded, At
<1>15. ASSUME NEW c \in Callers, SyncEnter(c) PROVE Halting'
  BY <1>15 DEF SyncEnter, SyncFree, Forget, Forgotten, At
<1>16. ASSUME NEW c \in Callers, SyncDecide(c) PROVE Halting'
  BY <1>16 DEF SyncDecide, Retire, At
<1>17. ASSUME NEW c \in Callers, SyncStops(c) PROVE Halting'
  BY <1>17 DEF SyncStops, StopCalled
<1>18. ASSUME NEW c \in Callers, RetireAlerts(c) PROVE Halting'
  BY <1>18 DEF RetireAlerts
<1>19. ASSUME NEW c \in Callers, SyncBuilds(c) PROVE Halting'
  BY <1>19 DEF SyncBuilds, At
<1>20. ASSUME NEW c \in Callers, Build(c) PROVE Halting'
  BY <1>20 DEF Build, At
<1>21. ASSUME NEW c \in Callers, StartFails(c) PROVE Halting'
  BY <1>21 DEF StartFails, StopCalled, At
<1>22. ASSUME NEW c \in Callers, Publish(c) PROVE Halting'
  BY <1>22 DEF Publish, SettingsFree, At
<1>23. ASSUME NEW c \in Callers, PublishPush(c) PROVE Halting'
  BY <1>23 DEF PublishPush, Handed, At
<1>24. ASSUME NEW c \in Callers, Untrack(c) PROVE Halting'
  BY <1>24 DEF Untrack, At
<1>25. ASSUME NEW e \in Engines, RecorderStarts(e) PROVE Halting'
  BY <1>25 DEF RecorderStarts
<1>26. ASSUME NEW e \in Engines, RecorderLeaves(e) PROVE Halting'
  BY <1>26 DEF RecorderLeaves
<1>27. ASSUME NEW e \in Engines, RecorderStopped(e) PROVE Halting'
  BY <1>27 DEF RecorderStopped
<1>28. ASSUME NEW e \in Engines, Deliver(e) PROVE Halting'
  BY <1>28 DEF Deliver, Alive
<1>29. ASSUME NEW e \in Engines, StopReturns(e) PROVE Halting'
  BY <1>29 DEF StopReturns
<1>30. ASSUME NEW e \in Engines, FinishStopping(e) PROVE Halting'
  BY <1>30 DEF FinishStopping, Forget, Forgotten
<1>31. ASSUME NEW e \in Engines, SavePush(e) PROVE Halting'
  BY <1>31 DEF SavePush
<1>32. ASSUME NEW e \in Engines, StopEngine(e) PROVE Halting'
  BY <1>32 DEF StopEngine, StopCalled
<1>33. CASE UNCHANGED vars
  BY <1>33 DEF vars
<1> HIDE DEF storeVars, listenVars, alertVars, engineVars, saveVars, callVars,
          haltVars, TypeOK, Locks, Locals, MapIsUp, Halting, NoPort, Holding,
          Syncing
<1> QED
  BY <1>1, <1>2, <1>3, <1>4, <1>5, <1>6, <1>7, <1>8, <1>9, <1>10, <1>11, <1>12,
     <1>13, <1>14, <1>15, <1>16, <1>17, <1>18, <1>19, <1>20, <1>21, <1>22,
     <1>23, <1>24, <1>25, <1>26, <1>27, <1>28, <1>29, <1>30, <1>31, <1>32,
     <1>33
     DEF Next, CallerNext, EngineNext

LEMMA ConfiguredNext ==
  ASSUME TypeOK, Locks, Locals, Configured, [Next]_vars
  PROVE  Configured'
<1> USE NoneAssumption, SaverAssumption
<1> USE DEF storeVars, listenVars, alertVars, engineVars, saveVars, callVars,
         haltVars, TypeOK, Locks, Locals, Configured, Holding, Syncing
<1>1. ASSUME EditSource PROVE Configured'
  BY <1>1 DEF EditSource
<1>2. ASSUME EditPort PROVE Configured'
  BY <1>2 DEF EditPort
<1>3. ASSUME Start PROVE Configured'
  BY <1>3 DEF Start
<1>4. ASSUME Save PROVE Configured'
  BY <1>4 DEF Save, SettingsFree
<1>5. ASSUME SaveEnds PROVE Configured'
  BY <1>5 DEF SaveEnds
<1>6. ASSUME StopFlag PROVE Configured'
  BY <1>6 DEF StopFlag, FlagWaits
<1>7. ASSUME StopCollect PROVE Configured'
  BY <1>7 DEF StopCollect
<1>8. ASSUME CloseListeners PROVE Configured'
  BY <1>8 DEF CloseListeners
<1>9. ASSUME Probe PROVE Configured'
  BY <1>9 DEF Probe, NoProbe
<1>10. ASSUME ProbeStopping PROVE Configured'
  BY <1>10 DEF ProbeStopping
<1>11. ASSUME ProbeAnswers PROVE Configured'
  BY <1>11 DEF ProbeAnswers, Forget, Forgotten, NoProbe
<1>12. ASSUME NEW c \in Callers, SharedIngest(c) PROVE Configured'
  BY <1>12 DEF SharedIngest, SyncFree, At
<1>13. ASSUME NEW c \in Callers, ListenSRT(c) PROVE Configured'
  BY <1>13 DEF ListenSRT, At
<1>14. ASSUME NEW c \in Callers, ListenBonded(c) PROVE Configured'
  BY <1>14 DEF ListenBonded, At
<1>15. ASSUME NEW c \in Callers, SyncEnter(c) PROVE Configured'
  BY <1>15 DEF SyncEnter, SyncFree, Forget, Forgotten, At
<1>16. ASSUME NEW c \in Callers, SyncDecide(c) PROVE Configured'
  BY <1>16 DEF SyncDecide, Retire, At
<1>17. ASSUME NEW c \in Callers, SyncStops(c) PROVE Configured'
  BY <1>17 DEF SyncStops, StopCalled
<1>18. ASSUME NEW c \in Callers, RetireAlerts(c) PROVE Configured'
  BY <1>18 DEF RetireAlerts
<1>19. ASSUME NEW c \in Callers, SyncBuilds(c) PROVE Configured'
  BY <1>19 DEF SyncBuilds, At
<1>20. ASSUME NEW c \in Callers, Build(c) PROVE Configured'
  BY <1>20 DEF Build, At
<1>21. ASSUME NEW c \in Callers, StartFails(c) PROVE Configured'
  BY <1>21 DEF StartFails, StopCalled, At
<1>22. ASSUME NEW c \in Callers, Publish(c) PROVE Configured'
  BY <1>22 DEF Publish, SettingsFree, At
<1>23. ASSUME NEW c \in Callers, PublishPush(c) PROVE Configured'
  BY <1>23 DEF PublishPush, Handed, At
<1>24. ASSUME NEW c \in Callers, Untrack(c) PROVE Configured'
  BY <1>24 DEF Untrack, At
<1>25. ASSUME NEW e \in Engines, RecorderStarts(e) PROVE Configured'
  BY <1>25 DEF RecorderStarts
<1>26. ASSUME NEW e \in Engines, RecorderLeaves(e) PROVE Configured'
  BY <1>26 DEF RecorderLeaves
<1>27. ASSUME NEW e \in Engines, RecorderStopped(e) PROVE Configured'
  BY <1>27 DEF RecorderStopped
<1>28. ASSUME NEW e \in Engines, Deliver(e) PROVE Configured'
  BY <1>28 DEF Deliver, Alive
<1>29. ASSUME NEW e \in Engines, StopReturns(e) PROVE Configured'
  BY <1>29 DEF StopReturns
<1>30. ASSUME NEW e \in Engines, FinishStopping(e) PROVE Configured'
  BY <1>30 DEF FinishStopping, Forget, Forgotten
<1>31. ASSUME NEW e \in Engines, SavePush(e) PROVE Configured'
  BY <1>31 DEF SavePush
<1>32. ASSUME NEW e \in Engines, StopEngine(e) PROVE Configured'
  BY <1>32 DEF StopEngine, StopCalled
<1>33. CASE UNCHANGED vars
  BY <1>33 DEF vars
<1> HIDE DEF storeVars, listenVars, alertVars, engineVars, saveVars, callVars,
          haltVars, TypeOK, Locks, Locals, Configured, Holding, Syncing
<1> QED
  BY <1>1, <1>2, <1>3, <1>4, <1>5, <1>6, <1>7, <1>8, <1>9, <1>10, <1>11, <1>12,
     <1>13, <1>14, <1>15, <1>16, <1>17, <1>18, <1>19, <1>20, <1>21, <1>22,
     <1>23, <1>24, <1>25, <1>26, <1>27, <1>28, <1>29, <1>30, <1>31, <1>32,
     <1>33
     DEF Next, CallerNext, EngineNext

LEMMA TrackedNext ==
  ASSUME TypeOK, Locks, Locals, MapIsUp, Tracked, [Next]_vars
  PROVE  Tracked'
<1> USE NoneAssumption
<1> USE DEF storeVars, listenVars, alertVars, engineVars, saveVars, callVars,
         haltVars, TypeOK, Locks, Locals, MapIsUp, Tracked, Holding, Syncing
<1>1. ASSUME EditSource PROVE Tracked'
  BY <1>1 DEF EditSource
<1>2. ASSUME EditPort PROVE Tracked'
  BY <1>2 DEF EditPort
<1>3. ASSUME Start PROVE Tracked'
  BY <1>3 DEF Start
<1>4. ASSUME Save PROVE Tracked'
  BY <1>4 DEF Save, SettingsFree
<1>5. ASSUME SaveEnds PROVE Tracked'
  BY <1>5 DEF SaveEnds
<1>6. ASSUME StopFlag PROVE Tracked'
  BY <1>6 DEF StopFlag, FlagWaits
<1>7. ASSUME StopCollect PROVE Tracked'
  BY <1>7 DEF StopCollect
<1>8. ASSUME CloseListeners PROVE Tracked'
  BY <1>8 DEF CloseListeners
<1>9. ASSUME Probe PROVE Tracked'
  BY <1>9 DEF Probe, NoProbe
<1>10. ASSUME ProbeStopping PROVE Tracked'
  BY <1>10 DEF ProbeStopping
<1>11. ASSUME ProbeAnswers PROVE Tracked'
  BY <1>11 DEF ProbeAnswers, Forget, Forgotten, NoProbe
<1>12. ASSUME NEW c \in Callers, SharedIngest(c) PROVE Tracked'
  BY <1>12 DEF SharedIngest, SyncFree, At
<1>13. ASSUME NEW c \in Callers, ListenSRT(c) PROVE Tracked'
  BY <1>13 DEF ListenSRT, At
<1>14. ASSUME NEW c \in Callers, ListenBonded(c) PROVE Tracked'
  BY <1>14 DEF ListenBonded, At
<1>15. ASSUME NEW c \in Callers, SyncEnter(c) PROVE Tracked'
  BY <1>15 DEF SyncEnter, SyncFree, Forget, Forgotten, At
<1>16. ASSUME NEW c \in Callers, SyncDecide(c) PROVE Tracked'
  BY <1>16 DEF SyncDecide, Retire, At
<1>17. ASSUME NEW c \in Callers, SyncStops(c) PROVE Tracked'
  BY <1>17 DEF SyncStops, StopCalled
<1>18. ASSUME NEW c \in Callers, RetireAlerts(c) PROVE Tracked'
  BY <1>18 DEF RetireAlerts
<1>19. ASSUME NEW c \in Callers, SyncBuilds(c) PROVE Tracked'
  BY <1>19 DEF SyncBuilds, At
<1>20. ASSUME NEW c \in Callers, Build(c) PROVE Tracked'
  BY <1>20 DEF Build, At
<1>21. ASSUME NEW c \in Callers, StartFails(c) PROVE Tracked'
  BY <1>21 DEF StartFails, StopCalled, At
<1>22. ASSUME NEW c \in Callers, Publish(c) PROVE Tracked'
  BY <1>22 DEF Publish, SettingsFree, At
<1>23. ASSUME NEW c \in Callers, PublishPush(c) PROVE Tracked'
  BY <1>23 DEF PublishPush, Handed, At
<1>24. ASSUME NEW c \in Callers, Untrack(c) PROVE Tracked'
  BY <1>24 DEF Untrack, At
<1>25. ASSUME NEW e \in Engines, RecorderStarts(e) PROVE Tracked'
  BY <1>25 DEF RecorderStarts
<1>26. ASSUME NEW e \in Engines, RecorderLeaves(e) PROVE Tracked'
  BY <1>26 DEF RecorderLeaves
<1>27. ASSUME NEW e \in Engines, RecorderStopped(e) PROVE Tracked'
  BY <1>27 DEF RecorderStopped
<1>28. ASSUME NEW e \in Engines, Deliver(e) PROVE Tracked'
  BY <1>28 DEF Deliver, Alive
<1>29. ASSUME NEW e \in Engines, StopReturns(e) PROVE Tracked'
  BY <1>29 DEF StopReturns
<1>30. ASSUME NEW e \in Engines, FinishStopping(e) PROVE Tracked'
  BY <1>30 DEF FinishStopping, Forget, Forgotten
<1>31. ASSUME NEW e \in Engines, SavePush(e) PROVE Tracked'
  BY <1>31 DEF SavePush
<1>32. ASSUME NEW e \in Engines, StopEngine(e) PROVE Tracked'
  BY <1>32 DEF StopEngine, StopCalled
<1>33. CASE UNCHANGED vars
  BY <1>33 DEF vars
<1> HIDE DEF storeVars, listenVars, alertVars, engineVars, saveVars, callVars,
          haltVars, TypeOK, Locks, Locals, MapIsUp, Tracked, Holding, Syncing
<1> QED
  BY <1>1, <1>2, <1>3, <1>4, <1>5, <1>6, <1>7, <1>8, <1>9, <1>10, <1>11, <1>12,
     <1>13, <1>14, <1>15, <1>16, <1>17, <1>18, <1>19, <1>20, <1>21, <1>22,
     <1>23, <1>24, <1>25, <1>26, <1>27, <1>28, <1>29, <1>30, <1>31, <1>32,
     <1>33
     DEF Next, CallerNext, EngineNext

LEMMA ProbingNext ==
  ASSUME TypeOK, Locals, Tracked, Probing, [Next]_vars
  PROVE  Probing'
<1> USE DEF storeVars, listenVars, alertVars, engineVars, saveVars, callVars,
         haltVars, TypeOK, Locals, Tracked, Probing, Recording
<1>1. ASSUME EditSource PROVE Probing'
  BY <1>1 DEF EditSource
<1>2. ASSUME EditPort PROVE Probing'
  BY <1>2 DEF EditPort
<1>3. ASSUME Start PROVE Probing'
  BY <1>3 DEF Start
<1>4. ASSUME Save PROVE Probing'
  BY <1>4 DEF Save, SettingsFree
<1>5. ASSUME SaveEnds PROVE Probing'
  BY <1>5 DEF SaveEnds
<1>6. ASSUME StopFlag PROVE Probing'
  BY <1>6 DEF StopFlag, FlagWaits
<1>7. ASSUME StopCollect PROVE Probing'
  BY <1>7 DEF StopCollect
<1>8. ASSUME CloseListeners PROVE Probing'
  BY <1>8 DEF CloseListeners
<1>9. ASSUME Probe PROVE Probing'
  BY <1>9 DEF Probe, NoProbe
<1>10. ASSUME ProbeStopping PROVE Probing'
  <2>1. /\ probe.at = "engines" /\ probe'.at = "both"
        /\ probe'.missed = probe.missed \ stopping /\ probe'.moved = probe.moved
        /\ lost' = lost /\ rec' = rec
    BY <1>10 DEF ProbeStopping
  <2>2. probe.missed \subseteq stopping \cup probe.moved \cup lost
    BY <2>1
  <2> QED
    BY <2>1, <2>2
<1>11. ASSUME ProbeAnswers PROVE Probing'
  <2> HIDE DEF storeVars, listenVars, alertVars, engineVars, saveVars, callVars,
         haltVars, TypeOK, Locals, Tracked, Probing, Recording
  <2>1. probe' = NoProbe
    BY <1>11 DEF ProbeAnswers
  <2>2. probe'.at = "idle" /\ probe'.missed = {} /\ probe'.moved = {}
    BY <2>1 DEF NoProbe
  <2> QED
    BY <2>2 DEF Probing
<1>12. ASSUME NEW c \in Callers, SharedIngest(c) PROVE Probing'
  BY <1>12 DEF SharedIngest, SyncFree, At
<1>13. ASSUME NEW c \in Callers, ListenSRT(c) PROVE Probing'
  BY <1>13 DEF ListenSRT, At
<1>14. ASSUME NEW c \in Callers, ListenBonded(c) PROVE Probing'
  BY <1>14 DEF ListenBonded, At
<1>15. ASSUME NEW c \in Callers, SyncEnter(c) PROVE Probing'
  BY <1>15 DEF SyncEnter, SyncFree, Forget, Forgotten, At
<1>16. ASSUME NEW c \in Callers, SyncDecide(c) PROVE Probing'
  BY <1>16 DEF SyncDecide, Retire, At
<1>17. ASSUME NEW c \in Callers, SyncStops(c) PROVE Probing'
  BY <1>17 DEF SyncStops, StopCalled
<1>18. ASSUME NEW c \in Callers, RetireAlerts(c) PROVE Probing'
  BY <1>18 DEF RetireAlerts
<1>19. ASSUME NEW c \in Callers, SyncBuilds(c) PROVE Probing'
  BY <1>19 DEF SyncBuilds, At
<1>20. ASSUME NEW c \in Callers, Build(c) PROVE Probing'
  BY <1>20 DEF Build, At
<1>21. ASSUME NEW c \in Callers, StartFails(c) PROVE Probing'
  BY <1>21 DEF StartFails, StopCalled, At
<1>22. ASSUME NEW c \in Callers, Publish(c) PROVE Probing'
  BY <1>22 DEF Publish, SettingsFree, At
<1>23. ASSUME NEW c \in Callers, PublishPush(c) PROVE Probing'
  BY <1>23 DEF PublishPush, Handed, At
<1>24. ASSUME NEW c \in Callers, Untrack(c) PROVE Probing'
  BY <1>24 DEF Untrack, At
<1>25. ASSUME NEW e \in Engines, RecorderStarts(e) PROVE Probing'
  BY <1>25 DEF RecorderStarts
<1>26. ASSUME NEW e \in Engines, RecorderLeaves(e) PROVE Probing'
  BY <1>26 DEF RecorderLeaves
<1>27. ASSUME NEW e \in Engines, RecorderStopped(e) PROVE Probing'
  BY <1>27 DEF RecorderStopped
<1>28. ASSUME NEW e \in Engines, Deliver(e) PROVE Probing'
  BY <1>28 DEF Deliver, Alive
<1>29. ASSUME NEW e \in Engines, StopReturns(e) PROVE Probing'
  BY <1>29 DEF StopReturns
<1>30. ASSUME NEW e \in Engines, FinishStopping(e) PROVE Probing'
  BY <1>30 DEF FinishStopping, Forget, Forgotten
<1>31. ASSUME NEW e \in Engines, SavePush(e) PROVE Probing'
  BY <1>31 DEF SavePush
<1>32. ASSUME NEW e \in Engines, StopEngine(e) PROVE Probing'
  BY <1>32 DEF StopEngine, StopCalled
<1>33. CASE UNCHANGED vars
  BY <1>33 DEF vars
<1> HIDE DEF storeVars, listenVars, alertVars, engineVars, saveVars, callVars,
          haltVars, TypeOK, Locals, Tracked, Probing, Recording
<1> QED
  BY <1>1, <1>2, <1>3, <1>4, <1>5, <1>6, <1>7, <1>8, <1>9, <1>10, <1>11, <1>12,
     <1>13, <1>14, <1>15, <1>16, <1>17, <1>18, <1>19, <1>20, <1>21, <1>22,
     <1>23, <1>24, <1>25, <1>26, <1>27, <1>28, <1>29, <1>30, <1>31, <1>32,
     <1>33
     DEF Next, CallerNext, EngineNext

LEMMA OneEngineNext ==
  ASSUME TypeOK, Locals, TodoIsMissing, OneEnginePerSource, [Next]_vars
  PROVE  OneEnginePerSource'
<1> USE DEF storeVars, listenVars, alertVars, engineVars, saveVars, callVars,
         haltVars, TypeOK, Locals, TodoIsMissing, OneEnginePerSource, Alive,
         Syncing
<1>1. ASSUME EditSource PROVE OneEnginePerSource'
  BY <1>1 DEF EditSource
<1>2. ASSUME EditPort PROVE OneEnginePerSource'
  BY <1>2 DEF EditPort
<1>3. ASSUME Start PROVE OneEnginePerSource'
  BY <1>3 DEF Start
<1>4. ASSUME Save PROVE OneEnginePerSource'
  BY <1>4 DEF Save, SettingsFree
<1>5. ASSUME SaveEnds PROVE OneEnginePerSource'
  BY <1>5 DEF SaveEnds
<1>6. ASSUME StopFlag PROVE OneEnginePerSource'
  BY <1>6 DEF StopFlag, FlagWaits
<1>7. ASSUME StopCollect PROVE OneEnginePerSource'
  BY <1>7 DEF StopCollect
<1>8. ASSUME CloseListeners PROVE OneEnginePerSource'
  BY <1>8 DEF CloseListeners
<1>9. ASSUME Probe PROVE OneEnginePerSource'
  BY <1>9 DEF Probe, NoProbe
<1>10. ASSUME ProbeStopping PROVE OneEnginePerSource'
  BY <1>10 DEF ProbeStopping
<1>11. ASSUME ProbeAnswers PROVE OneEnginePerSource'
  BY <1>11 DEF ProbeAnswers, Forget, Forgotten, NoProbe
<1>12. ASSUME NEW c \in Callers, SharedIngest(c) PROVE OneEnginePerSource'
  BY <1>12 DEF SharedIngest, SyncFree, At
<1>13. ASSUME NEW c \in Callers, ListenSRT(c) PROVE OneEnginePerSource'
  BY <1>13 DEF ListenSRT, At
<1>14. ASSUME NEW c \in Callers, ListenBonded(c) PROVE OneEnginePerSource'
  BY <1>14 DEF ListenBonded, At
<1>15. ASSUME NEW c \in Callers, SyncEnter(c) PROVE OneEnginePerSource'
  BY <1>15 DEF SyncEnter, SyncFree, Forget, Forgotten, At
<1>16. ASSUME NEW c \in Callers, SyncDecide(c) PROVE OneEnginePerSource'
  BY <1>16 DEF SyncDecide, Retire, At
<1>17. ASSUME NEW c \in Callers, SyncStops(c) PROVE OneEnginePerSource'
  BY <1>17 DEF SyncStops, StopCalled
<1>18. ASSUME NEW c \in Callers, RetireAlerts(c) PROVE OneEnginePerSource'
  BY <1>18 DEF RetireAlerts
<1>19. ASSUME NEW c \in Callers, SyncBuilds(c) PROVE OneEnginePerSource'
  BY <1>19 DEF SyncBuilds, At
<1>20. ASSUME NEW c \in Callers, Build(c) PROVE OneEnginePerSource'
  BY <1>20 DEF Build, At
<1>21. ASSUME NEW c \in Callers, StartFails(c) PROVE OneEnginePerSource'
  BY <1>21 DEF StartFails, StopCalled, At
<1>22. ASSUME NEW c \in Callers, Publish(c) PROVE OneEnginePerSource'
  BY <1>22 DEF Publish, SettingsFree, At
<1>23. ASSUME NEW c \in Callers, PublishPush(c) PROVE OneEnginePerSource'
  BY <1>23 DEF PublishPush, Handed, At
<1>24. ASSUME NEW c \in Callers, Untrack(c) PROVE OneEnginePerSource'
  BY <1>24 DEF Untrack, At
<1>25. ASSUME NEW e \in Engines, RecorderStarts(e) PROVE OneEnginePerSource'
  BY <1>25 DEF RecorderStarts
<1>26. ASSUME NEW e \in Engines, RecorderLeaves(e) PROVE OneEnginePerSource'
  BY <1>26 DEF RecorderLeaves
<1>27. ASSUME NEW e \in Engines, RecorderStopped(e) PROVE OneEnginePerSource'
  BY <1>27 DEF RecorderStopped
<1>28. ASSUME NEW e \in Engines, Deliver(e) PROVE OneEnginePerSource'
  BY <1>28 DEF Deliver, Alive
<1>29. ASSUME NEW e \in Engines, StopReturns(e) PROVE OneEnginePerSource'
  BY <1>29 DEF StopReturns
<1>30. ASSUME NEW e \in Engines, FinishStopping(e) PROVE OneEnginePerSource'
  BY <1>30 DEF FinishStopping, Forget, Forgotten
<1>31. ASSUME NEW e \in Engines, SavePush(e) PROVE OneEnginePerSource'
  BY <1>31 DEF SavePush
<1>32. ASSUME NEW e \in Engines, StopEngine(e) PROVE OneEnginePerSource'
  BY <1>32 DEF StopEngine, StopCalled
<1>33. CASE UNCHANGED vars
  BY <1>33 DEF vars
<1> HIDE DEF storeVars, listenVars, alertVars, engineVars, saveVars, callVars,
          haltVars, TypeOK, Locals, TodoIsMissing, OneEnginePerSource, Alive,
          Syncing
<1> QED
  BY <1>1, <1>2, <1>3, <1>4, <1>5, <1>6, <1>7, <1>8, <1>9, <1>10, <1>11, <1>12,
     <1>13, <1>14, <1>15, <1>16, <1>17, <1>18, <1>19, <1>20, <1>21, <1>22,
     <1>23, <1>24, <1>25, <1>26, <1>27, <1>28, <1>29, <1>30, <1>31, <1>32,
     <1>33
     DEF Next, CallerNext, EngineNext

(* An engine that has stopped never runs again.                            *)
LEMMA StoppedStays ==
  ASSUME TypeOK, Locals, [Next]_vars
  PROVE  \A e \in Engines : st[e] = "stopped" => st'[e] = "stopped"
<1> DEFINE Stays == \A e \in Engines : st[e] = "stopped" => st'[e] = "stopped"
<1> USE DEF storeVars, listenVars, alertVars, engineVars, saveVars, callVars,
         haltVars, TypeOK, Locals
<1>1. ASSUME EditSource PROVE Stays
  BY <1>1 DEF EditSource
<1>2. ASSUME EditPort PROVE Stays
  BY <1>2 DEF EditPort
<1>3. ASSUME Start PROVE Stays
  BY <1>3 DEF Start
<1>4. ASSUME Save PROVE Stays
  BY <1>4 DEF Save, SettingsFree
<1>5. ASSUME SaveEnds PROVE Stays
  BY <1>5 DEF SaveEnds
<1>6. ASSUME StopFlag PROVE Stays
  BY <1>6 DEF StopFlag, FlagWaits
<1>7. ASSUME StopCollect PROVE Stays
  BY <1>7 DEF StopCollect
<1>8. ASSUME CloseListeners PROVE Stays
  BY <1>8 DEF CloseListeners
<1>9. ASSUME Probe PROVE Stays
  BY <1>9 DEF Probe, NoProbe
<1>10. ASSUME ProbeStopping PROVE Stays
  BY <1>10 DEF ProbeStopping
<1>11. ASSUME ProbeAnswers PROVE Stays
  BY <1>11 DEF ProbeAnswers, Forget, Forgotten, NoProbe
<1>12. ASSUME NEW c \in Callers, SharedIngest(c) PROVE Stays
  BY <1>12 DEF SharedIngest, SyncFree, At
<1>13. ASSUME NEW c \in Callers, ListenSRT(c) PROVE Stays
  BY <1>13 DEF ListenSRT, At
<1>14. ASSUME NEW c \in Callers, ListenBonded(c) PROVE Stays
  BY <1>14 DEF ListenBonded, At
<1>15. ASSUME NEW c \in Callers, SyncEnter(c) PROVE Stays
  BY <1>15 DEF SyncEnter, SyncFree, Forget, Forgotten, At
<1>16. ASSUME NEW c \in Callers, SyncDecide(c) PROVE Stays
  BY <1>16 DEF SyncDecide, Retire, At
<1>17. ASSUME NEW c \in Callers, SyncStops(c) PROVE Stays
  BY <1>17 DEF SyncStops, StopCalled
<1>18. ASSUME NEW c \in Callers, RetireAlerts(c) PROVE Stays
  BY <1>18 DEF RetireAlerts
<1>19. ASSUME NEW c \in Callers, SyncBuilds(c) PROVE Stays
  BY <1>19 DEF SyncBuilds, At
<1>20. ASSUME NEW c \in Callers, Build(c) PROVE Stays
  BY <1>20 DEF Build, At
<1>21. ASSUME NEW c \in Callers, StartFails(c) PROVE Stays
  BY <1>21 DEF StartFails, StopCalled, At
<1>22. ASSUME NEW c \in Callers, Publish(c) PROVE Stays
  BY <1>22 DEF Publish, SettingsFree, At
<1>23. ASSUME NEW c \in Callers, PublishPush(c) PROVE Stays
  BY <1>23 DEF PublishPush, Handed, At
<1>24. ASSUME NEW c \in Callers, Untrack(c) PROVE Stays
  BY <1>24 DEF Untrack, At
<1>25. ASSUME NEW e \in Engines, RecorderStarts(e) PROVE Stays
  BY <1>25 DEF RecorderStarts
<1>26. ASSUME NEW e \in Engines, RecorderLeaves(e) PROVE Stays
  BY <1>26 DEF RecorderLeaves
<1>27. ASSUME NEW e \in Engines, RecorderStopped(e) PROVE Stays
  BY <1>27 DEF RecorderStopped
<1>28. ASSUME NEW e \in Engines, Deliver(e) PROVE Stays
  BY <1>28 DEF Deliver, Alive
<1>29. ASSUME NEW e \in Engines, StopReturns(e) PROVE Stays
  BY <1>29 DEF StopReturns
<1>30. ASSUME NEW e \in Engines, FinishStopping(e) PROVE Stays
  BY <1>30 DEF FinishStopping, Forget, Forgotten
<1>31. ASSUME NEW e \in Engines, SavePush(e) PROVE Stays
  BY <1>31 DEF SavePush
<1>32. ASSUME NEW e \in Engines, StopEngine(e) PROVE Stays
  BY <1>32 DEF StopEngine, StopCalled
<1>33. CASE UNCHANGED vars
  BY <1>33 DEF vars
<1> HIDE DEF storeVars, listenVars, alertVars, engineVars, saveVars, callVars,
          haltVars, TypeOK, Locals
<1> QED
  BY <1>1, <1>2, <1>3, <1>4, <1>5, <1>6, <1>7, <1>8, <1>9, <1>10, <1>11, <1>12,
     <1>13, <1>14, <1>15, <1>16, <1>17, <1>18, <1>19, <1>20, <1>21, <1>22,
     <1>23, <1>24, <1>25, <1>26, <1>27, <1>28, <1>29, <1>30, <1>31, <1>32,
     <1>33
     DEF Next, CallerNext, EngineNext

(* The steps that move an alert or an engine from one account to another.  *)
LEMMA BookSteps ==
  ASSUME [Next]_vars
  PROVE  \/ UNCHANGED <<retired, retiring, sent, engines, gone>>
         \/ StopCollect
         \/ \E c \in Callers : SyncDecide(c) \/ RetireAlerts(c) \/ Publish(c)
         \/ \E e \in Engines : Deliver(e)
<1> DEFINE Quiet == UNCHANGED <<retired, retiring, sent, engines, gone>>
           Booked ==
             \/ Quiet
             \/ StopCollect
             \/ \E c \in Callers : SyncDecide(c) \/ RetireAlerts(c) \/ Publish(c)
             \/ \E e \in Engines : Deliver(e)
<1> USE DEF storeVars, listenVars, alertVars, engineVars, saveVars, callVars, haltVars
<1>1. ASSUME EditSource PROVE Booked
  BY <1>1 DEF EditSource
<1>2. ASSUME EditPort PROVE Booked
  BY <1>2 DEF EditPort
<1>3. ASSUME Start PROVE Booked
  BY <1>3 DEF Start
<1>4. ASSUME Save PROVE Booked
  BY <1>4 DEF Save, SettingsFree
<1>5. ASSUME SaveEnds PROVE Booked
  BY <1>5 DEF SaveEnds
<1>6. ASSUME StopFlag PROVE Booked
  BY <1>6 DEF StopFlag, FlagWaits
<1>7. ASSUME StopCollect PROVE Booked
  BY <1>7
<1>8. ASSUME CloseListeners PROVE Booked
  BY <1>8 DEF CloseListeners
<1>9. ASSUME Probe PROVE Booked
  BY <1>9 DEF Probe, NoProbe
<1>10. ASSUME ProbeStopping PROVE Booked
  BY <1>10 DEF ProbeStopping
<1>11. ASSUME ProbeAnswers PROVE Booked
  BY <1>11 DEF ProbeAnswers, Forget, Forgotten, NoProbe
<1>12. ASSUME NEW c \in Callers, SharedIngest(c) PROVE Booked
  BY <1>12 DEF SharedIngest, SyncFree, At
<1>13. ASSUME NEW c \in Callers, ListenSRT(c) PROVE Booked
  BY <1>13 DEF ListenSRT, At
<1>14. ASSUME NEW c \in Callers, ListenBonded(c) PROVE Booked
  BY <1>14 DEF ListenBonded, At
<1>15. ASSUME NEW c \in Callers, SyncEnter(c) PROVE Booked
  BY <1>15 DEF SyncEnter, SyncFree, Forget, Forgotten, At
<1>16. ASSUME NEW c \in Callers, SyncDecide(c) PROVE Booked
  BY <1>16
<1>17. ASSUME NEW c \in Callers, SyncStops(c) PROVE Booked
  BY <1>17 DEF SyncStops, StopCalled
<1>18. ASSUME NEW c \in Callers, RetireAlerts(c) PROVE Booked
  BY <1>18
<1>19. ASSUME NEW c \in Callers, SyncBuilds(c) PROVE Booked
  BY <1>19 DEF SyncBuilds, At
<1>20. ASSUME NEW c \in Callers, Build(c) PROVE Booked
  BY <1>20 DEF Build, At
<1>21. ASSUME NEW c \in Callers, StartFails(c) PROVE Booked
  BY <1>21 DEF StartFails, StopCalled, At
<1>22. ASSUME NEW c \in Callers, Publish(c) PROVE Booked
  BY <1>22
<1>23. ASSUME NEW c \in Callers, PublishPush(c) PROVE Booked
  BY <1>23 DEF PublishPush, Handed, At
<1>24. ASSUME NEW c \in Callers, Untrack(c) PROVE Booked
  BY <1>24 DEF Untrack, At
<1>25. ASSUME NEW e \in Engines, RecorderStarts(e) PROVE Booked
  BY <1>25 DEF RecorderStarts
<1>26. ASSUME NEW e \in Engines, RecorderLeaves(e) PROVE Booked
  BY <1>26 DEF RecorderLeaves
<1>27. ASSUME NEW e \in Engines, RecorderStopped(e) PROVE Booked
  BY <1>27 DEF RecorderStopped
<1>28. ASSUME NEW e \in Engines, Deliver(e) PROVE Booked
  BY <1>28
<1>29. ASSUME NEW e \in Engines, StopReturns(e) PROVE Booked
  BY <1>29 DEF StopReturns
<1>30. ASSUME NEW e \in Engines, FinishStopping(e) PROVE Booked
  BY <1>30 DEF FinishStopping, Forget, Forgotten
<1>31. ASSUME NEW e \in Engines, SavePush(e) PROVE Booked
  BY <1>31 DEF SavePush
<1>32. ASSUME NEW e \in Engines, StopEngine(e) PROVE Booked
  BY <1>32 DEF StopEngine, StopCalled
<1>33. CASE UNCHANGED vars
  BY <1>33 DEF vars
<1> HIDE DEF storeVars, listenVars, alertVars, engineVars, saveVars, callVars, haltVars
<1> QED
  BY <1>1, <1>2, <1>3, <1>4, <1>5, <1>6, <1>7, <1>8, <1>9, <1>10, <1>11, <1>12,
     <1>13, <1>14, <1>15, <1>16, <1>17, <1>18, <1>19, <1>20, <1>21, <1>22,
     <1>23, <1>24, <1>25, <1>26, <1>27, <1>28, <1>29, <1>30, <1>31, <1>32,
     <1>33
     DEF Next, CallerNext, EngineNext

-----------------------------------------------------------------------------
(***************************************************************************)
(* The laws of the sum of a function over a finite set, for the counts of  *)
(* alerts.  The sum is defined by a recursive function on the subsets: its *)
(* table, of which there is one for each finite set.                       *)
(***************************************************************************)
First(s) == CHOOSE x \in s : TRUE
Entry(f, g, s) == IF s = {} THEN 0 ELSE f[First(s)] + g[s \ {First(s)}]
IsTable(f, g, S) == g = [s \in SUBSET S |-> Entry(f, g, s)]
TableOf(f, S) == CHOOSE g : IsTable(f, g, S)

(* Some set of a family of subsets of a finite set has no other inside it.  *)
LEMMA LeastSubset ==
  ASSUME NEW S, IsFiniteSet(S), NEW B \in SUBSET SUBSET S, B # {}
  PROVE  \E T \in B : \A U \in B : U \subseteq T => U = T
<1>1. IsWellFoundedOn(StrictSubsetOrdering(S), SUBSET S)
  BY FS_StrictSubsetOrderingWellFounded, FS_FiniteSubsetsOfFinite
<1>2. PICK T \in B : \A U \in B : <<U, T>> \notin StrictSubsetOrdering(S)
  BY <1>1, WFMin
<1> QED
  BY <1>2 DEF StrictSubsetOrdering

(* A table says of each set what its elements add up to.                   *)
LEMMA TableEntry ==
  ASSUME NEW f, NEW g, NEW S, IsTable(f, g, S), NEW s \in SUBSET S
  PROVE  /\ s = {} => g[s] = 0
         /\ s # {} => /\ First(s) \in s
                      /\ s \ {First(s)} \in SUBSET S
                      /\ g[s] = f[First(s)] + g[s \ {First(s)}]
<1>1. g[s] = Entry(f, g, s)
  BY DEF IsTable
<1>2. s # {} => First(s) \in s
  BY DEF First
<1> QED
  BY <1>1, <1>2 DEF Entry

(* Two tables agree on the sets both have.                                 *)
LEMMA TableUnique ==
  ASSUME NEW f, NEW g, NEW h, NEW S, NEW T, IsFiniteSet(S),
         IsTable(f, g, S), IsTable(f, h, T), NEW s \in SUBSET S, s \in SUBSET T
  PROVE  g[s] = h[s]
<1> DEFINE B == {u \in SUBSET S : u \in SUBSET T /\ g[u] # h[u]}
<1>1. ASSUME B # {} PROVE FALSE
  <2>1. PICK u \in B : \A v \in B : v \subseteq u => v = u
    <3>1. B \in SUBSET SUBSET S
      OBVIOUS
    <3> HIDE DEF B
    <3> QED
      BY <1>1, <3>1, LeastSubset
  <2>2. u # {}
    BY TableEntry
  <2>3. /\ First(u) \in u
        /\ g[u] = f[First(u)] + g[u \ {First(u)}]
        /\ h[u] = f[First(u)] + h[u \ {First(u)}]
    <3>1. u \in SUBSET S /\ u \in SUBSET T
      OBVIOUS
    <3>2. First(u) \in u /\ g[u] = f[First(u)] + g[u \ {First(u)}]
      BY <2>2, <3>1, TableEntry
    <3> HIDE DEF B
    <3>3. h[u] = f[First(u)] + h[u \ {First(u)}]
      BY <2>2, <3>1, IsTable(f, h, T), TableEntry
    <3> QED
      BY <3>2, <3>3
  <2>4. u \ {First(u)} \notin B
    BY <2>1, <2>3
  <2> QED
    BY <2>3, <2>4
<1> QED
  BY <1>1

(* Every finite set has a table.                                           *)
LEMMA TableExists ==
  ASSUME NEW f, NEW S, IsFiniteSet(S)
  PROVE  IsTable(f, TableOf(f, S), S)
<1> DEFINE B == {u \in SUBSET S : ~IsTable(f, TableOf(f, u), u)}
<1>1. ASSUME B # {} PROVE FALSE
  <2>1. PICK T \in B : \A v \in B : v \subseteq T => v = T
    <3>1. B \in SUBSET SUBSET S
      OBVIOUS
    <3> HIDE DEF B
    <3> QED
      BY <1>1, <3>1, LeastSubset
  <2>2. ASSUME NEW u \in SUBSET T, u # T PROVE IsTable(f, TableOf(f, u), u) /\ IsFiniteSet(u)
    BY <2>1, <2>2, FS_Subset
  <2> DEFINE c == First(T)
             h == [s \in SUBSET T |->
                     IF s = T THEN Entry(f, TableOf(f, T \ {c}), T) ELSE TableOf(f, s)[s]]
  <2>3. ASSUME NEW s \in SUBSET T PROVE h[s] = Entry(f, h, s)
    <3>1. CASE s = T
      <4>1. T # {} => c \in T
        BY DEF First
      <4>2. T # {} => h[T \ {c}] = TableOf(f, T \ {c})[T \ {c}]
        BY <4>1
      <4>3. h[T] = Entry(f, TableOf(f, T \ {c}), T)
        OBVIOUS
      <4> HIDE DEF h
      <4> QED
        BY <3>1, <4>2, <4>3 DEF Entry
    <3>2. CASE s # T /\ s = {}
      <4>1. h[s] = TableOf(f, s)[s]
        BY <3>2
      <4> HIDE DEF h
      <4> QED
        BY <3>2, <4>1, <2>2, TableEntry DEF Entry
    <3>3. CASE s # T /\ s # {}
      <4> DEFINE x == First(s)
                 r == s \ {x}
      <4>1. h[s] = TableOf(f, s)[s]
        BY <3>3
      <4>2. IsTable(f, TableOf(f, s), s) /\ IsFiniteSet(s)
        BY <3>3, <2>2
      <4>3. x \in s /\ TableOf(f, s)[s] = f[x] + TableOf(f, s)[r]
        BY <3>3, <4>2, TableEntry
      <4>4. r \in SUBSET T /\ r # T /\ r \in SUBSET s
        BY <3>3, <4>3
      <4>5. IsTable(f, TableOf(f, r), r)
        BY <4>4, <2>2
      <4>6. TableOf(f, s)[r] = TableOf(f, r)[r]
        BY <4>2, <4>4, <4>5, TableUnique
      <4>7. h[r] = TableOf(f, r)[r]
        BY <4>4
      <4> HIDE DEF h
      <4> QED
        BY <3>3, <4>1, <4>3, <4>6, <4>7 DEF Entry
    <3> QED
      BY <3>1, <3>2, <3>3
  <2>4. h = [s \in SUBSET T |-> Entry(f, h, s)]
    <3>1. h = [s \in SUBSET T |-> h[s]]
      OBVIOUS
    <3> HIDE DEF h
    <3> QED
      BY <3>1, <2>3
  <2>5. IsTable(f, h, T)
    BY <2>4 DEF IsTable
  <2>6. IsTable(f, TableOf(f, T), T)
    <3> HIDE DEF h
    <3> QED
      BY <2>5 DEF TableOf
  <2> QED
    BY <2>6
<1> QED
  BY <1>1

(* What a sum over a finite set is, one element at a time.                 *)
LEMMA SumIsTable ==
  ASSUME NEW f, NEW S
  PROVE  SumFunctionOnSet(f, S) = TableOf(f, S)[S]
BY DEF SumFunctionOnSet, FoldFunctionOnSet, MapThenFoldSet, TableOf, IsTable, Entry, First

LEMMA SumStep ==
  ASSUME NEW f, NEW S, IsFiniteSet(S)
  PROVE  /\ S = {} => SumFunctionOnSet(f, S) = 0
         /\ S # {} => /\ First(S) \in S
                      /\ SumFunctionOnSet(f, S)
                           = f[First(S)] + SumFunctionOnSet(f, S \ {First(S)})
<1>1. IsTable(f, TableOf(f, S), S)
  BY TableExists
<1>2. CASE S = {}
  BY <1>1, <1>2, TableEntry, SumIsTable
<1>3. CASE S # {}
  <2> DEFINE r == S \ {First(S)}
  <2>1. First(S) \in S /\ TableOf(f, S)[S] = f[First(S)] + TableOf(f, S)[r]
    BY <1>1, <1>3, TableEntry
  <2>2. IsFiniteSet(r) /\ r \in SUBSET S
    BY FS_RemoveElement
  <2>3. IsTable(f, TableOf(f, r), r)
    BY <2>2, TableExists
  <2>4. TableOf(f, S)[r] = TableOf(f, r)[r]
    BY <1>1, <2>2, <2>3, TableUnique
  <2> QED
    BY <1>3, <2>1, <2>4, SumIsTable
<1> QED
  BY <1>2, <1>3

LEMMA SumType ==
  ASSUME NEW E, NEW f \in [E -> Nat], NEW S \in SUBSET E, IsFiniteSet(S)
  PROVE  SumFunctionOnSet(f, S) \in Nat
<1> DEFINE B == {u \in SUBSET S : SumFunctionOnSet(f, u) \notin Nat}
<1>1. ASSUME B # {} PROVE FALSE
  <2>1. PICK u \in B : \A v \in B : v \subseteq u => v = u
    <3>1. B \in SUBSET SUBSET S
      OBVIOUS
    <3> HIDE DEF B
    <3> QED
      BY <1>1, <3>1, LeastSubset
  <2>2. IsFiniteSet(u)
    BY FS_Subset
  <2>3. u # {}
    <3>1. SumFunctionOnSet(f, {}) = 0
      BY SumStep, FS_EmptySet
    <3> QED
      BY <3>1
  <2>4. /\ First(u) \in u
        /\ SumFunctionOnSet(f, u) = f[First(u)] + SumFunctionOnSet(f, u \ {First(u)})
    BY <2>2, <2>3, SumStep
  <2>5. u \ {First(u)} \notin B
    BY <2>1, <2>4
  <2>6. SumFunctionOnSet(f, u \ {First(u)}) \in Nat
    BY <2>5
  <2>7. f[First(u)] \in Nat
    BY <2>4
  <2> QED
    BY <2>4, <2>6, <2>7
<1> QED
  BY <1>1

(* Any element may be taken first.                                         *)
LEMMA SumRemove ==
  ASSUME NEW E, NEW f \in [E -> Nat], NEW S \in SUBSET E, IsFiniteSet(S), NEW x \in S
  PROVE  SumFunctionOnSet(f, S) = f[x] + SumFunctionOnSet(f, S \ {x})
<1> DEFINE Sm(s) == SumFunctionOnSet(f, s)
           B == {u \in SUBSET S : \E y \in u : Sm(u) # f[y] + Sm(u \ {y})}
<1>0. ASSUME NEW u \in SUBSET S PROVE IsFiniteSet(u) /\ Sm(u) \in Nat
  BY FS_Subset, SumType
<1>1. ASSUME B # {} PROVE FALSE
  <2>1. PICK u \in B : \A v \in B : v \subseteq u => v = u
    <3>1. B \in SUBSET SUBSET S
      OBVIOUS
    <3> HIDE DEF B
    <3> QED
      BY <1>1, <3>1, LeastSubset
  <2>2. PICK y \in u : Sm(u) # f[y] + Sm(u \ {y})
    OBVIOUS
  <2> DEFINE c == First(u)
  <2>3. c \in u /\ Sm(u) = f[c] + Sm(u \ {c})
    BY <1>0, SumStep
  <2>4. y # c
    BY <2>2, <2>3
  <2>5. u \ {c} \notin B /\ u \ {y} \notin B
    BY <2>1, <2>2, <2>3
  <2>6. Sm(u \ {c}) = f[y] + Sm((u \ {c}) \ {y})
    BY <2>4, <2>5
  <2>7. Sm(u \ {y}) = f[c] + Sm((u \ {y}) \ {c})
    BY <2>3, <2>4, <2>5
  <2>8. (u \ {c}) \ {y} = (u \ {y}) \ {c}
    OBVIOUS
  <2>9. f[c] \in Nat /\ f[y] \in Nat /\ Sm((u \ {c}) \ {y}) \in Nat
    BY <2>3, <1>0
  <2> HIDE DEF c, Sm
  <2> QED
    BY <2>2, <2>3, <2>6, <2>7, <2>8, <2>9
<1> QED
  BY <1>1

(* Only the values on the set matter.                                      *)
LEMMA SumSame ==
  ASSUME NEW f, NEW g, NEW S, IsFiniteSet(S), \A x \in S : f[x] = g[x]
  PROVE  SumFunctionOnSet(f, S) = SumFunctionOnSet(g, S)
<1> DEFINE B == {u \in SUBSET S : SumFunctionOnSet(f, u) # SumFunctionOnSet(g, u)}
<1>1. ASSUME B # {} PROVE FALSE
  <2>1. PICK u \in B : \A v \in B : v \subseteq u => v = u
    <3>1. B \in SUBSET SUBSET S
      OBVIOUS
    <3> HIDE DEF B
    <3> QED
      BY <1>1, <3>1, LeastSubset
  <2>2. IsFiniteSet(u)
    BY FS_Subset
  <2>3. u # {}
    <3>1. SumFunctionOnSet(f, {}) = 0 /\ SumFunctionOnSet(g, {}) = 0
      BY SumStep, FS_EmptySet
    <3> QED
      BY <3>1
  <2>4. /\ First(u) \in u
        /\ SumFunctionOnSet(f, u) = f[First(u)] + SumFunctionOnSet(f, u \ {First(u)})
        /\ SumFunctionOnSet(g, u) = g[First(u)] + SumFunctionOnSet(g, u \ {First(u)})
    BY <2>2, <2>3, SumStep
  <2>5. u \ {First(u)} \notin B
    BY <2>1, <2>4
  <2> QED
    BY <2>4, <2>5
<1> QED
  BY <1>1

(* The sum over two sets without a common element.                         *)
LEMMA SumDisjoint ==
  ASSUME NEW E, NEW f \in [E -> Nat], NEW S \in SUBSET E, NEW T \in SUBSET E,
         IsFiniteSet(S), IsFiniteSet(T), S \cap T = {}
  PROVE  SumFunctionOnSet(f, S \cup T) = SumFunctionOnSet(f, S) + SumFunctionOnSet(f, T)
<1> DEFINE Sm(s) == SumFunctionOnSet(f, s)
           B == {u \in SUBSET T : Sm(S \cup u) # Sm(S) + Sm(u)}
<1>0. ASSUME NEW u \in SUBSET T
      PROVE  /\ IsFiniteSet(u) /\ Sm(u) \in Nat
             /\ IsFiniteSet(S \cup u) /\ Sm(S \cup u) \in Nat /\ Sm(S) \in Nat
  BY FS_Subset, FS_Union, SumType
<1>1. ASSUME B # {} PROVE FALSE
  <2>1. PICK u \in B : \A v \in B : v \subseteq u => v = u
    <3>1. B \in SUBSET SUBSET T
      OBVIOUS
    <3> HIDE DEF B
    <3> QED
      BY <1>1, <3>1, LeastSubset
  <2>2. u # {}
    <3>1. Sm({}) = 0
      BY SumStep, FS_EmptySet
    <3>2. S \cup {} = S /\ Sm(S) \in Nat
      BY <1>0
    <3> HIDE DEF Sm
    <3> QED
      BY <3>1, <3>2
  <2>3. PICK c \in u : TRUE
    BY <2>2
  <2>4. u \ {c} \notin B
    BY <2>1, <2>3
  <2>5. Sm(S \cup (u \ {c})) = Sm(S) + Sm(u \ {c})
    BY <2>4
  <2>6. Sm(u) = f[c] + Sm(u \ {c})
    BY <1>0, SumRemove
  <2>7. c \in S \cup u /\ (S \cup u) \ {c} = S \cup (u \ {c})
    OBVIOUS
  <2>8. Sm(S \cup u) = f[c] + Sm((S \cup u) \ {c})
    BY <1>0, <2>7, SumRemove
  <2>9. f[c] \in Nat /\ Sm(u \ {c}) \in Nat /\ Sm(S) \in Nat
    BY <1>0
  <2>10. Sm(S \cup u) # Sm(S) + Sm(u)
    OBVIOUS
  <2>11. Sm(S \cup u) = f[c] + Sm(S \cup (u \ {c}))
    BY <2>7, <2>8
  <2> HIDE DEF Sm, B
  <2> QED
    BY <2>5, <2>6, <2>9, <2>10, <2>11
<1> QED
  BY <1>1

LEMMA SumMonotone ==
  ASSUME NEW E, NEW f \in [E -> Nat], NEW T \in SUBSET E, IsFiniteSet(T), NEW S \in SUBSET T
  PROVE  SumFunctionOnSet(f, S) <= SumFunctionOnSet(f, T)
<1> DEFINE R == T \ S
<1>1. IsFiniteSet(S) /\ IsFiniteSet(R) /\ S \cap R = {} /\ S \cup R = T
  BY FS_Subset
<1>2. SumFunctionOnSet(f, S \cup R) = SumFunctionOnSet(f, S) + SumFunctionOnSet(f, R)
  BY <1>1, SumDisjoint
<1>3. SumFunctionOnSet(f, S) \in Nat /\ SumFunctionOnSet(f, R) \in Nat
  BY <1>1, SumType
<1>4. SumFunctionOnSet(f, T) = SumFunctionOnSet(f, S) + SumFunctionOnSet(f, R)
  BY <1>1, <1>2
<1> HIDE DEF R
<1> QED
  BY <1>3, <1>4

-----------------------------------------------------------------------------
(* The accounts are kept, and the total never falls while the manager runs. *)
LEMMA AccountsNext ==
  ASSUME TypeOK, Locks, Locals, MapIsUp, Accounts, [Next]_vars
  PROVE  Accounts' /\ (started' => Total' >= Total)
<1> DEFINE Kept == Accounts' /\ (started' => Total' >= Total)
<1> PICK R \in SUBSET Engines :
      /\ R \cap (engines \cup retiring) = {}
      /\ \A e \in R : st[e] = "stopped"
      /\ retired = SentBy(R)
  BY DEF Accounts
<1>a. \A e \in R : st'[e] = "stopped"
  BY StoppedStays
<1>b. /\ sent \in [Engines -> Nat] /\ retired \in Nat
      /\ engines \in SUBSET Engines /\ retiring \in SUBSET Engines
  BY BoundsAssumption DEF TypeOK
<1>c. ASSUME NEW E \in SUBSET Engines PROVE IsFiniteSet(E) /\ SentBy(E) \in Nat
  BY <1>b, EnginesAssumption, FS_Subset, SumType DEF SentBy
<1>d. Total \in Nat
  BY <1>b, <1>c DEF Total
<1>1. CASE UNCHANGED <<retired, retiring, sent, engines, gone>>
  <2>1. SentBy(R)' = SentBy(R) /\ Total' = Total
    BY <1>1 DEF SentBy, Total
  <2>2. Accounts'
    BY <1>1, <1>a, <2>1 DEF Accounts
  <2> QED
    BY <1>d, <2>1, <2>2
<1>2. CASE StopCollect
  <2>1. /\ ~started' /\ engines' = {} /\ UNCHANGED <<retired, retiring, sent, gone>>
    BY <1>2 DEF StopCollect, alertVars, callVars
  <2>2. SentBy(R)' = SentBy(R)
    BY <2>1 DEF SentBy
  <2> QED
    BY <1>a, <2>1, <2>2 DEF Accounts
<1>3. ASSUME NEW c \in Callers, SyncDecide(c) PROVE Kept
  <2> DEFINE unwanted == {e \in engines : src[e] \notin todo[c]}
  <2>1. /\ engines' = engines \ unwanted /\ retiring' = retiring \cup unwanted
        /\ gone' = [gone EXCEPT ![c] = unwanted]
        /\ UNCHANGED <<retired, sent>>
    BY <1>3 DEF SyncDecide, Retire
  <2>2. (engines \cup retiring)' = engines \cup retiring
    BY <2>1
  <2>3. SentBy(R)' = SentBy(R) /\ Total' = Total
    BY <2>1, <2>2 DEF SentBy, Total
  <2>4. \A d \in Callers : gone'[d] \subseteq retiring'
    BY <2>1 DEF Accounts, TypeOK
  <2>5. Accounts'
    BY <1>a, <2>1, <2>2, <2>3, <2>4 DEF Accounts
  <2> QED
    BY <1>d, <2>3, <2>5
<1>4. ASSUME NEW c \in Callers, RetireAlerts(c) PROVE Kept
  <2>1. PICK e \in gone[c] :
          /\ pc[c] = "stop" /\ st[e] = "stopped"
          /\ retiring' = retiring \ {e} /\ retired' = retired + sent[e]
          /\ gone' = [gone EXCEPT ![c] = @ \ {e}]
          /\ UNCHANGED <<sent, engines, st>>
    BY <1>4 DEF RetireAlerts, engineVars
  <2>2. e \in retiring /\ e \in Engines /\ e \notin engines /\ e \notin R
    BY <1>b, <2>1 DEF Accounts, MapIsUp
  <2>3. \A d \in Callers : gone'[d] \subseteq retiring'
    <3>1. ASSUME NEW d \in Callers, d # c PROVE gone[d] = {}
      BY <2>1, <3>1 DEF Locks, Locals, Holding, Syncing
    <3> QED
      BY <2>1, <3>1 DEF Accounts, TypeOK
  <2> DEFINE Q == R \cup {e}
  <2>4. Q \in SUBSET Engines /\ Q \ {e} = R /\ e \in Q
    BY <2>2
  <2>5. SentBy(Q) = sent[e] + SentBy(R)
    <3> HIDE DEF Q
    <3> QED
      BY <1>b, <1>c, <2>4, SumRemove DEF SentBy
  <2>6. SentBy(Q)' = SentBy(Q)
    BY <2>1 DEF SentBy
  <2>7. retired' = SentBy(Q)'
    BY <1>b, <1>c, <2>1, <2>2, <2>5, <2>6
  <2>8. Q \cap (engines \cup retiring)' = {} /\ \A x \in Q : st'[x] = "stopped"
    BY <1>a, <2>1, <2>2
  <2>9. Accounts'
    <3> HIDE DEF Q
    <3> QED
      BY <2>3, <2>4, <2>7, <2>8 DEF Accounts
  <2> DEFINE U == engines \cup retiring
  <2>10. U \in SUBSET Engines /\ e \in U /\ (engines \cup retiring)' = U \ {e}
    BY <1>b, <2>1, <2>2
  <2>11. SentBy(U) = sent[e] + SentBy(U \ {e})
    <3> HIDE DEF U
    <3> QED
      BY <1>b, <1>c, <2>10, SumRemove DEF SentBy
  <2>12. SentBy(engines \cup retiring)' = SentBy(U \ {e})
    BY <2>1, <2>10 DEF SentBy
  <2>13. Total = retired + SentBy(U) /\ Total' = retired' + SentBy(U \ {e})
    BY <2>12 DEF Total
  <2>14. sent[e] \in Nat /\ SentBy(U \ {e}) \in Nat
    BY <1>b, <1>c, <2>2, <2>10
  <2>15. Total' = Total
    BY <1>b, <2>1, <2>11, <2>13, <2>14
  <2> QED
    BY <1>d, <2>9, <2>15
<1>5. ASSUME NEW c \in Callers, Publish(c) PROVE Kept
  <2> DEFINE e == fresh[c]
             U == engines \cup retiring
  <2>1. /\ pc[c] = "start" /\ engines' = engines \cup {e}
        /\ UNCHANGED <<retired, retiring, sent, gone>>
    BY <1>5 DEF Publish, At, alertVars
  <2>2. e \in Engines /\ st[e] = "starting"
    BY <2>1 DEF Locals
  <2>3. e \notin R
    BY <2>2
  <2>4. SentBy(R)' = SentBy(R)
    BY <2>1 DEF SentBy
  <2>5. Accounts'
    BY <1>a, <2>1, <2>3, <2>4 DEF Accounts
  <2>6. U \cup {e} \in SUBSET Engines /\ (engines \cup retiring)' = U \cup {e}
    BY <1>b, <2>1, <2>2
  <2>7. SentBy(U) <= SentBy(U \cup {e})
    BY <1>b, <1>c, <2>6, SumMonotone DEF SentBy
  <2>8. SentBy(engines \cup retiring)' = SentBy(U \cup {e})
    BY <2>1, <2>6 DEF SentBy
  <2>9. Total = retired + SentBy(U) /\ Total' = retired + SentBy(U \cup {e})
    BY <2>1, <2>8 DEF Total
  <2>10. SentBy(U) \in Nat /\ SentBy(U \cup {e}) \in Nat
    BY <1>b, <1>c, <2>6
  <2>11. Total' >= Total
    BY <1>b, <2>7, <2>9, <2>10
  <2> QED
    BY <2>5, <2>11
<1>6. ASSUME NEW e \in Engines, Deliver(e) PROVE Kept
  <2> DEFINE U == engines \cup retiring
  <2>1. /\ st[e] \in {"starting", "up", "stopping"}
        /\ sent' = [sent EXCEPT ![e] = @ + 1]
        /\ UNCHANGED <<retired, retiring, engines, gone>>
    BY <1>6 DEF Deliver, Alive, callVars
  <2>2. SentBy(R)' = SentBy(R)
    <3>1. \A x \in R : sent'[x] = sent[x]
      BY <1>b, <2>1
    <3> QED
      BY <1>c, <3>1, SumSame DEF SentBy
  <2>3. Accounts'
    BY <1>a, <2>1, <2>2 DEF Accounts
  <2>4. U \in SUBSET Engines /\ IsFiniteSet(U)
    BY <1>b, <1>c
  <2>5. sent' \in [Engines -> Nat] /\ sent[e] \in Nat /\ sent'[e] = sent[e] + 1
    BY <1>b, <2>1
  <2>6. SumFunctionOnSet(sent', U) >= SumFunctionOnSet(sent, U)
    <3> HIDE DEF U
    <3>1. CASE e \notin U
      <4>1. \A x \in U : sent'[x] = sent[x]
        BY <1>b, <2>1, <2>4, <3>1
      <4>2. SumFunctionOnSet(sent', U) = SumFunctionOnSet(sent, U)
        BY <2>4, <4>1, SumSame
      <4> QED
        BY <1>c, <2>4, <4>2 DEF SentBy
    <3>2. CASE e \in U
      <4> DEFINE V == U \ {e}
      <4>1. V \in SUBSET Engines /\ IsFiniteSet(V)
        BY <1>c, <2>4
      <4>2. \A x \in V : sent'[x] = sent[x]
        BY <1>b, <2>1, <2>4
      <4>3. SumFunctionOnSet(sent', V) = SumFunctionOnSet(sent, V)
        BY <4>1, <4>2, SumSame
      <4>4. SumFunctionOnSet(sent, U) = sent[e] + SumFunctionOnSet(sent, V)
        BY <1>b, <2>4, <3>2, SumRemove
      <4>5. SumFunctionOnSet(sent', U) = sent'[e] + SumFunctionOnSet(sent', V)
        BY <2>4, <2>5, <3>2, SumRemove
      <4>6. SumFunctionOnSet(sent, V) \in Nat
        BY <1>b, <4>1, SumType
      <4> HIDE DEF V
      <4> QED
        BY <2>5, <4>3, <4>4, <4>5, <4>6
    <3> QED
      BY <3>1, <3>2
  <2>7. SumFunctionOnSet(sent, U) \in Nat /\ SumFunctionOnSet(sent', U) \in Nat
    BY <1>b, <2>4, <2>5, SumType
  <2>8. /\ Total = retired + SumFunctionOnSet(sent, U)
        /\ Total' = retired + SumFunctionOnSet(sent', U)
    BY <2>1 DEF Total, SentBy
  <2> HIDE DEF U
  <2>9. Total' >= Total
    BY <1>b, <2>6, <2>7, <2>8
  <2> QED
    BY <2>3, <2>9
<1> QED
  BY <1>1, <1>2, <1>3, <1>4, <1>5, <1>6, BookSteps

Bounded == Total <= SentBy(Engines)

(* What the accounts hold was sent, and once.                              *)
LEMMA NothingTwice ==
  ASSUME TypeOK, Accounts
  PROVE  Bounded
<1> PICK R \in SUBSET Engines :
      R \cap (engines \cup retiring) = {} /\ retired = SentBy(R)
  BY DEF Accounts
<1> DEFINE U == engines \cup retiring
<1>1. sent \in [Engines -> Nat] /\ U \in SUBSET Engines /\ R \cup U \in SUBSET Engines
  BY BoundsAssumption DEF TypeOK
<1>2. IsFiniteSet(R) /\ IsFiniteSet(U) /\ IsFiniteSet(Engines)
  BY <1>1, EnginesAssumption, FS_Subset
<1>3. R \cap U = {} /\ Total = SentBy(R) + SentBy(U)
  BY DEF Total
<1> HIDE DEF U
<1>4. SentBy(R \cup U) = SentBy(R) + SentBy(U)
  BY <1>1, <1>2, <1>3, SumDisjoint DEF SentBy
<1>5. SentBy(R \cup U) <= SentBy(Engines)
  BY <1>1, <1>2, SumMonotone DEF SentBy
<1> QED
  BY <1>3, <1>4, <1>5 DEF Bounded

-----------------------------------------------------------------------------
LEMMA InitIInv == Init => IInv
<1> SUFFICES ASSUME Init PROVE IInv
  OBVIOUS
<1> USE PortsAssumption, BoundsAssumption, NoneAssumption, SaverAssumption
         DEF Init, NoPort, NoProbe
<1>1. TypeOK
  <2>1. probe \in [at : {"idle", "engines", "both"}, seen : SUBSET Engines,
                 missed : SUBSET Engines, moved : SUBSET Engines]
    OBVIOUS
  <2>2. /\ gone \in [Callers -> SUBSET Engines] /\ todo \in [Callers -> SUBSET Sources]
        /\ pc \in [Callers -> {"idle", "srt", "srtla", "sync", "decide", "stop", "build", "start",
                               "push", "untrack"}]
    OBVIOUS
  <2>3. st \in [Engines -> {"new", "starting", "up", "stopping", "returned", "stopped"}]
    OBVIOUS
  <2>4. /\ src \in [Engines -> Sources \cup {None}] /\ has \in [Engines -> 0..MaxSaves]
        /\ rec \in [Engines -> {"none", "up", "leaving", "waited"}]
        /\ sent \in [Engines -> 0..MaxSent]
    OBVIOUS
  <2>5. /\ fresh \in [Callers -> Engines \cup {None}]
        /\ conf \in [Callers -> Ports \cup {NoPort}]
    OBVIOUS
  <2>6. /\ rows \subseteq Sources /\ port \in Ports /\ edits \in 0..MaxEdits
        /\ saved \in 0..MaxSaves /\ retired \in Nat
    OBVIOUS
  <2> QED
    BY <2>1, <2>2, <2>3, <2>4, <2>5, <2>6 DEF TypeOK
<1>2. Locks /\ Locals /\ MapIsUp /\ Ownership /\ TodoIsMissing
  BY DEF Locks, Locals, MapIsUp, Ownership, Owned, TodoIsMissing, Holding, Syncing
<1>3. Halting /\ Configured /\ Tracked /\ Probing /\ OneEnginePerSource
  BY DEF Halting, Configured, Tracked, Probing, OneEnginePerSource, Alive
<1>4. Accounts
  <2>1. SentBy({}) = 0
    BY SumStep, FS_EmptySet DEF SentBy
  <2> QED
    BY <2>1 DEF Accounts
<1> QED
  BY <1>1, <1>2, <1>3, <1>4 DEF IInv

LEMMA IInvInductive == IInv /\ [Next]_vars => IInv'
BY TypesNext, LocksNext, LocalsNext, MapNext, OwnershipNext, TodoNext, HaltingNext,
   ConfiguredNext, TrackedNext, ProbingNext, OneEngineNext, AccountsNext
   DEF IInv

(* Every reachable state satisfies the inductive invariant.                *)
THEOREM Invariance == Spec => []IInv
BY InitIInv, IInvInductive, PTL DEF Spec

(* However requests, saves and a shutdown overlap, a programme has at most *)
(* one engine alive, and an engine in the map has the settings last saved  *)
(* whenever no save is under way (Sync, publishEngine).                    *)
THEOREM EnginesAreTheStoresAlways == Spec => []EnginesAreTheStores
<1>1. IInv => EnginesAreTheStores
  BY NoneAssumption
     DEF IInv, EnginesAreTheStores, PublishedIsConfigured, SettingsFree, Configured, Locks,
         TypeOK
<1> QED
  BY Invariance, <1>1, PTL

(* Of the engines that have had a recorder since it began, a probe that    *)
(* read the map and then m.stopping misses only those Sync untracked in    *)
(* between, or untracked after a shutdown had collected them: everything   *)
(* else that is started, stopped, deleted or collected is found            *)
(* (RecorderRunning, markStopping, forgetStopped).                         *)
THEOREM RecorderIsSeenAlways == Spec => []RecorderIsSeen
<1>1. IInv => RecorderIsSeen
  BY DEF IInv, RecorderIsSeen, Probing
<1> QED
  BY Invariance, <1>1, PTL

(* Bonded publishers are forwarded to where SRT listens, or nowhere, and a *)
(* shutdown leaves no listener and no recorder it had to wait for          *)
(* (reconcileSharedIngest, StopWithin).                                    *)
THEOREM ListenersFollowAlways == Spec => []ListenersFollow
<1>1. IInv => ListenersFollow
  BY NoneAssumption DEF IInv, ListenersFollow, Halting, Locks, Holding, Syncing, TypeOK
<1> QED
  BY Invariance, <1>1, PTL

(* The install's alert counts never fall while it runs and never exceed    *)
(* what its engines sent, whoever deletes an engine and whenever: its      *)
(* share is in the map, in m.retiring or in m.retiredAlerts, and in one of *)
(* them (Sync, retireAlerts, AlertTotals).                                 *)
THEOREM TotalsNeverFallAlways == Spec => TotalsNeverFall
<1>1. IInv => Bounded
  BY NothingTwice DEF IInv, Bounded
<1>2. IInv /\ Bounded' /\ [Next]_vars
        => (started' => Total' >= Total) /\ Total' <= SentBy(Engines)'
  <2> SUFFICES ASSUME IInv, Bounded', [Next]_vars
               PROVE  (started' => Total' >= Total) /\ Total' <= SentBy(Engines)'
    OBVIOUS
  <2>1. started' => Total' >= Total
    BY AccountsNext DEF IInv
  <2>2. Total' <= SentBy(Engines)'
    BY DEF Bounded
  <2> QED
    BY <2>1, <2>2
<1>3. IInv /\ Bounded' /\ [Next]_vars
        => [(started' => Total' >= Total) /\ Total' <= SentBy(Engines)']_vars
  BY <1>2
<1> QED
  BY Invariance, <1>1, <1>3, PTL DEF Spec, TotalsNeverFall
=============================================================================

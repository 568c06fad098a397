--------------------------- MODULE SupervisorProofs ---------------------------
(***************************************************************************)
(* The safety of the supervised process, for any set of callers and any    *)
(* bounds. Each part of the inductive invariant is proved preserved from   *)
(* the parts before it.                                                    *)
(***************************************************************************)
EXTENDS Supervisor, TLAPS

StopPCs      == {"cancel", "terminate", "signal", "wait", "resolve", "check",
                 "kill", "finish"}
ChildPCs     == {"publish", "ctxcheck", "signal", "run", "wait"}
PublishedPCs == {"ctxcheck", "signal", "run", "wait", "reaped", "drain"}
SpawnPCs     == {"publish"} \union PublishedPCs

(* Generations live one after the other, and only the newest can be alive. *)
LoopOrder ==
  /\ \A g \in Gens : /\ g > gen => loop[g] = "unborn"
                     /\ g < gen => loop[g] = "ended"
                     /\ g = gen => loop[g] # "unborn"
  /\ running => gen # None

(* What a goroutine is handling exists.                                    *)
Handles ==
  /\ \A c \in Callers :
       /\ pc[c] \in StopPCs => cgen[c] \in 1..gen
       /\ pc[c] \in StopPCs \ {"cancel"} => cgen[c] \in cancelled
       /\ pc[c] \in {"signal", "kill"} => target[c] \in Spawns
  /\ \A g \in Gens : loop[g] \in SpawnPCs => lspawn[g] \in Spawns

(* A child belongs to the loop that spawned it, and is handled by it until *)
(* it is reaped; what is published belongs to the newest loop.             *)
Ownership ==
  /\ \A s \in Spawns : child[s] = "unborn" <=> owner[s] = None
  /\ \A g \in Gens : loop[g] \in SpawnPCs => owner[lspawn[g]] = g
  /\ \A s \in Spawns :
       ChildUnreaped(s) => /\ loop[owner[s]] \in ChildPCs
                           /\ lspawn[owner[s]] = s
  /\ cmd # None => gen # None /\ loop[gen] \in PublishedPCs
  /\ \A g \in Gens : loop[g] \in PublishedPCs => cmd = lspawn[g]

(* The spawn a stop may kill was spawned by the generation it is stopping. *)
KillScope ==
  \A c \in Callers :
    /\ pc[c] \in StopPCs /\ ccmd[c] # None => owner[ccmd[c]] = cgen[c]
    /\ pc[c] \in {"check", "kill"} /\ target[c] # None =>
         owner[target[c]] = cgen[c]

(* A spawn nobody has signalled yet: unborn, unpublished, or published     *)
(* with signalled still false.                                             *)
Unsignalled(s) ==
  \/ child[s] = "unborn"
  \/ gen # None /\ loop[gen] = "publish" /\ lspawn[gen] = s
  \/ cmd = s /\ ~signalled

(* Whoever is about to send SIGTERM is alone in that, and it is the first. *)
OneSignaller ==
  /\ \A s \in Spawns : Unsignalled(s) => terms[s] = 0
  /\ \A c \in Callers : pc[c] = "signal" => /\ terms[target[c]] = 0
                                            /\ ~Unsignalled(target[c])
  /\ \A g \in Gens : loop[g] = "signal" => /\ terms[lspawn[g]] = 0
                                           /\ ~Unsignalled(lspawn[g])
  /\ \A c, d \in Callers :
       pc[c] = "signal" /\ pc[d] = "signal" /\ target[c] = target[d] => c = d
  /\ \A c \in Callers, g \in Gens :
       pc[c] = "signal" /\ loop[g] = "signal" => target[c] # lspawn[g]
  /\ AtMostOneTerm

(* A Stop latches, and the generation it ends is the last one.             *)
LastGenerationFor(c) ==
  /\ pc[c] = "idle" => op[c] = "start"
  /\ pc[c] = "start" => op[c] = "restart"
  /\ pc[c] \in {"resolve", "check", "kill"} => result[c] = "deadline"
  /\ op[c] = "stop" =>
       /\ retired /\ ~running
       /\ pc[c] \in StopPCs => cgen[c] = gen
       /\ pc[c] \in {"finish", "returned"} /\ result[c] = "clean" =>
            gen # None /\ loop[gen] = "ended"
       /\ pc[c] = "returned" /\ result[c] = "clean" => state = "stopped"

LastGeneration == \A c \in Callers : LastGenerationFor(c)
-----------------------------------------------------------------------------
(* Steps that only move a loop, and Start's body, keep every type.         *)
LEMMA MoveTypes ==
  ASSUME TypeOK, NEW g \in Gens, NEW from, NEW to \in LoopPCs,
         LoopMove(g, from, to)
  PROVE  TypeOK'
BY DEF LoopMove, Goto, TypeOK, callerVars, runVars, cmdVars, osVars

LEMMA ReportTypes ==
  ASSUME TypeOK, NEW g \in Gens, NEW from, NEW s \in States,
         NEW to \in LoopPCs, LoopReport(g, from, s, to)
  PROVE  TypeOK'
BY DEF LoopReport, Goto, TypeOK, callerVars, runVars, cmdVars, osVars

LEMMA StartBodyTypes ==
  ASSUME TypeOK, NEW w \in [Gens -> {"off", "wait", "go"}], StartBody(w)
  PROVE  /\ running' \in BOOLEAN /\ startPending' \in BOOLEAN
         /\ gen' \in 0..MaxGen
         /\ loop' \in [Gens -> LoopPCs]
         /\ pend' \in [Gens -> {"off", "wait", "go"}]
<1> USE BoundsAssumption DEF StartBody, TypeOK, Gens, None
<1>1. CASE retired \/ running \/ startPending
  BY <1>1
<1>2. CASE ~(retired \/ running \/ startPending) /\ gen' = gen
  <2>1. /\ startPending' = TRUE /\ UNCHANGED <<running, gen, loop>>
        /\ pend' = [w EXCEPT ![gen] = "wait"]
    BY <1>2
  <2> QED
    BY <2>1
<1>3. CASE ~(retired \/ running \/ startPending) /\ gen' # gen
  <2>1. gen' \in 0..MaxGen
    BY <1>3
  <2>2. loop' \in [Gens -> LoopPCs]
    BY <1>3 DEF LoopPCs
  <2> QED
    BY <1>3, <2>1, <2>2
<1> QED
  BY <1>1, <1>2, <1>3

(* Every step preserves the types.                                         *)
LEMMA TypeNext ==
  ASSUME TypeOK, Handles, [Next]_vars
  PROVE  TypeOK'
<1> USE BoundsAssumption DEF Gens, Spawns, None, callerVars, runVars, loopVars,
         cmdVars, osVars, TypeOK, LoopPCs, CallerPCs, States, Ops
<1>1. ASSUME NEW c \in Callers, CallStart(c) PROVE TypeOK'
  <2>1. StartBody(pend)
    BY <1>1 DEF CallStart
  <2> QED
    BY <1>1, <2>1, StartBodyTypes DEF CallStart
<1>2. ASSUME NEW c \in Callers, RestartStart(c) PROVE TypeOK'
  <2>1. StartBody(pend)
    BY <1>2 DEF RestartStart
  <2> QED
    BY <1>2, <2>1, StartBodyTypes DEF RestartStart
<1>3. ASSUME NEW c \in Callers, StopCancel(c) PROVE TypeOK'
  <2>1. cgen[c] \in Gens
    BY <1>3 DEF StopCancel, Handles, StopPCs
  <2> QED
    BY <1>3, <2>1 DEF StopCancel
<1>4. ASSUME NEW c \in Callers, StopTerminate(c) PROVE TypeOK'
  <2> signalled' \in BOOLEAN
    BY <1>4 DEF StopTerminate
  <2>1. pc' \in [Callers -> CallerPCs]
    <3>1. PICK v \in {"wait", "signal"} : pc' = [pc EXCEPT ![c] = v]
      BY <1>4 DEF StopTerminate
    <3>2. v \in CallerPCs
      OBVIOUS
    <3> QED
      BY <3>1, <3>2
  <2>2. target' \in [Callers -> 0..MaxSpawn]
    BY ZenonT(60), <1>4 DEF StopTerminate
  <2>3. UNCHANGED <<runVars, cancelled, loopVars, pend, cmd, exited, osVars,
                    state, op, cgen, ccmd, result>>
    BY <1>4 DEF StopTerminate
  <2> QED
    BY <2>1, <2>2, <2>3
<1>5. ASSUME NEW c \in Callers, StopSignal(c) PROVE TypeOK'
  <2> target[c] \in Spawns /\ terms[target[c]] + 1 \in Nat
    BY <1>5 DEF StopSignal, Handles
  <2>1. terms' \in [Spawns -> Nat]
    BY <1>5 DEF StopSignal
  <2> QED
    BY <1>5, <2>1 DEF StopSignal
<1>6. ASSUME NEW c \in Callers, StopDone(c) PROVE TypeOK'
  BY <1>6 DEF StopDone, DoneClosed
<1>7. ASSUME NEW c \in Callers, StopDeadline(c) PROVE TypeOK'
  BY <1>7 DEF StopDeadline, DoneClosed
<1>8. ASSUME NEW c \in Callers, StopResolve(c) PROVE TypeOK'
  BY ZenonT(60), <1>8 DEF StopResolve, KillTarget, DoneClosed
<1>9. ASSUME NEW c \in Callers, StopCheck(c) PROVE TypeOK'
  BY <1>9 DEF StopCheck
<1>10. ASSUME NEW c \in Callers, StopKill(c) PROVE TypeOK'
  <2>1. target[c] \in Spawns
    BY <1>10 DEF StopKill, Handles
  <2> QED
    BY <1>10, <2>1 DEF StopKill
<1>11. ASSUME NEW c \in Callers, StopFinish(c) PROVE TypeOK'
  BY <1>11 DEF StopFinish, SetStateFor
<1>12. ASSUME NEW c \in Callers, NEW o \in {"stop", "restart"}, StopEnter(c, o)
      PROVE  TypeOK'
  <2>1. /\ running' \in BOOLEAN /\ retired' \in BOOLEAN
        /\ op' \in [Callers -> Ops]
    BY <1>12 DEF StopEnter
  <2>2. pc' \in [Callers -> CallerPCs]
    <3>1. \E v \in CallerPCs : pc' = [pc EXCEPT ![c] = v]
      BY <1>12 DEF StopEnter
    <3> QED
      BY <3>1
  <2>3. /\ cgen' \in [Callers -> 0..MaxGen] /\ ccmd' \in [Callers -> 0..MaxSpawn]
        /\ result' \in [Callers -> {"none", "idle", "clean", "deadline"}]
    <3>1. CASE running
      <4>1. /\ cgen' = [cgen EXCEPT ![c] = gen] /\ ccmd' = [ccmd EXCEPT ![c] = cmd]
            /\ result' = result
        BY SMTT(30), <1>12, <3>1 DEF StopEnter
      <4> QED
        BY SMTT(30), <4>1
    <3>2. CASE ~running
      <4>1. /\ cgen' = cgen /\ ccmd' = ccmd
            /\ result' = [result EXCEPT ![c] = "idle"]
        BY <1>12, <3>2 DEF StopEnter
      <4> QED
        BY <4>1
    <3> QED
      BY <3>1, <3>2
  <2>4. UNCHANGED <<startPending, gen, cancelled, loopVars, pend, cmdVars,
                    osVars, state, target>>
    BY SMTT(30), <1>12 DEF StopEnter
  <2> QED
    BY <2>1, <2>2, <2>3, <2>4
<1>13. ASSUME NEW g \in Gens, StartDelay(g) PROVE TypeOK'
  BY <1>13, MoveTypes, ReportTypes DEF StartDelay
<1>14. ASSUME NEW g \in Gens, LoopTop(g) PROVE TypeOK'
  BY <1>14, MoveTypes DEF LoopTop
<1>15. ASSUME NEW g \in Gens, LoopStarting(g) PROVE TypeOK'
  BY <1>15, ReportTypes DEF LoopStarting
<1>16. ASSUME NEW g \in Gens, Exec(g) PROVE TypeOK'
  <2>1. /\ child' \in [Spawns -> {"unborn", "alive", "zombie", "reaped"}]
        /\ owner' \in [Spawns -> 0..MaxGen] /\ lspawn' \in [Gens -> 0..MaxSpawn]
    BY <1>16 DEF Exec
  <2>2. loop' \in [Gens -> LoopPCs]
    BY <1>16 DEF Exec, Goto
  <2>3. UNCHANGED <<runVars, cancelled, pend, cmdVars, terms, killed, esc,
                    state, callerVars>>
    BY <1>16 DEF Exec
  <2> QED
    BY <2>1, <2>2, <2>3
<1>17. ASSUME NEW g \in Gens, ExecFails(g) PROVE TypeOK'
  BY <1>17, MoveTypes DEF ExecFails
<1>18. ASSUME NEW g \in Gens, Publish(g) PROVE TypeOK'
  <2>1. loop' \in [Gens -> LoopPCs]
    BY <1>18 DEF Publish, Goto
  <2>2. /\ UNCHANGED <<runVars, cancelled, lspawn, pend, osVars, state, callerVars>>
        /\ cmd' = lspawn[g] /\ signalled' = FALSE /\ exited' = exited
    BY <1>18 DEF Publish
  <2>3. cmd' \in 0..MaxSpawn
    BY <2>2
  <2> QED
    BY ZenonT(60), <2>1, <2>2, <2>3
<1>19. ASSUME NEW g \in Gens, CtxCheck(g) PROVE TypeOK'
  <2>1. loop' \in [Gens -> LoopPCs] /\ signalled' \in BOOLEAN
    BY ZenonT(60), <1>19 DEF CtxCheck, LoopMove, Goto
  <2>2. UNCHANGED <<runVars, cancelled, lspawn, pend, cmd, exited, osVars,
                    state, callerVars>>
    BY <1>19 DEF CtxCheck, LoopMove
  <2> QED
    BY <2>1, <2>2
<1>20. ASSUME NEW g \in Gens, SelfSignal(g) PROVE TypeOK'
  <2> lspawn[g] \in Spawns /\ terms[lspawn[g]] + 1 \in Nat
    BY SMTT(30), <1>20 DEF SelfSignal, Handles, SpawnPCs, PublishedPCs
  <2>1. terms' \in [Spawns -> Nat]
    BY <1>20 DEF SelfSignal
  <2> QED
    BY <1>20, <2>1 DEF SelfSignal, Goto
<1>21. ASSUME NEW g \in Gens, LoopRunning(g) PROVE TypeOK'
  BY <1>21, ReportTypes DEF LoopRunning
<1>22. ASSUME NEW g \in Gens, Reap(g) PROVE TypeOK'
  BY <1>22 DEF Reap, Goto
<1>23. ASSUME NEW g \in Gens, AnnounceReap(g) PROVE TypeOK'
  <2>1. lspawn[g] \in Spawns
    BY <1>23 DEF AnnounceReap, Handles, SpawnPCs, PublishedPCs
  <2> QED
    BY <1>23, <2>1 DEF AnnounceReap, Goto
<1>24. ASSUME NEW g \in Gens, DrainAndClear(g) PROVE TypeOK'
  <2>1. cmd' \in 0..MaxSpawn
    BY <1>24 DEF DrainAndClear
  <2> QED
    BY ZenonT(60), <1>24, <2>1 DEF DrainAndClear, Goto
<1>25. ASSUME NEW g \in Gens, AfterRun(g) PROVE TypeOK'
  BY <1>25, MoveTypes DEF AfterRun
<1>26. ASSUME NEW g \in Gens, ReportStopped(g) PROVE TypeOK'
  BY <1>26, ReportTypes DEF ReportStopped
<1>27. ASSUME NEW g \in Gens, ReportFailed(g) PROVE TypeOK'
  BY <1>27, ReportTypes DEF ReportFailed
<1>28. ASSUME NEW g \in Gens, ScheduleRetry(g) PROVE TypeOK'
  BY <1>28, ReportTypes DEF ScheduleRetry
<1>29. ASSUME NEW g \in Gens, Backoff(g) PROVE TypeOK'
  BY <1>29, MoveTypes DEF Backoff
<1>30. ASSUME NEW g \in Gens, CloseDone(g) PROVE TypeOK'
  BY <1>30, MoveTypes DEF CloseDone
<1>31. ASSUME NEW g \in Gens, PendingWake(g) PROVE TypeOK'
  BY <1>31 DEF PendingWake, DoneClosed
<1>32. ASSUME NEW g \in Gens, PendingStart(g) PROVE TypeOK'
  <2>1. StartBody([pend EXCEPT ![g] = "off"])
    BY <1>32 DEF PendingStart
  <2> QED
    BY <1>32, <2>1, StartBodyTypes DEF PendingStart
<1>33. ASSUME NEW s \in Spawns, ChildExits(s) PROVE TypeOK'
  BY <1>33 DEF ChildExits
<1>34. ASSUME NEW s \in Spawns, EscalatorStandsDown(s) PROVE TypeOK'
  BY <1>34 DEF EscalatorStandsDown
<1>35. ASSUME NEW s \in Spawns, GraceExpires(s) PROVE TypeOK'
  BY <1>35 DEF GraceExpires
<1>36. CASE UNCHANGED vars
  BY <1>36 DEF vars
<1> HIDE DEF TypeOK, LoopPCs, CallerPCs, States, Ops
<1> QED
  BY <1>1, <1>2, <1>3, <1>4, <1>5, <1>6, <1>7, <1>8, <1>9, <1>10, <1>11, <1>12,
     <1>13, <1>14, <1>15, <1>16, <1>17, <1>18, <1>19, <1>20, <1>21, <1>22,
     <1>23, <1>24, <1>25, <1>26, <1>27, <1>28, <1>29, <1>30, <1>31, <1>32,
     <1>33, <1>34, <1>35, <1>36
     DEF Next, CallerNext, LoopNext, PendNext, EscalatorNext

(* Start either launches the next generation, the newest loop having       *)
(* ended, or leaves the loops alone.                                       *)
Launched == /\ ~retired /\ ~running /\ running'
            /\ gen' = gen + 1 /\ gen' \in Gens
            /\ loop[gen'] = "unborn"
            /\ gen \in Gens => loop[gen] = "ended"
            /\ loop' = [loop EXCEPT ![gen'] = "delay"]

LEMMA StartBodyEffect ==
  ASSUME TypeOK, LoopOrder, NEW w, StartBody(w)
  PROVE  UNCHANGED <<running, gen, loop>> \/ Launched
BY BoundsAssumption
   DEF StartBody, Launched, DoneClosed, TypeOK, LoopOrder, Gens, None

(* A loop that is neither unborn nor ended is the newest one's.             *)
LEMMA AliveIsNewest ==
  ASSUME TypeOK, LoopOrder, NEW g \in Gens, LoopAlive(g)
  PROVE  g = gen
BY BoundsAssumption DEF TypeOK, LoopOrder, LoopAlive, Gens

(* Only Start launches a loop, and only when the newest one has ended.      *)
LEMMA LoopOrderNext ==
  ASSUME TypeOK, LoopOrder, [Next]_vars
  PROVE  LoopOrder'
<1> /\ gen \in 0..MaxGen
    /\ loop \in [Gens -> LoopPCs]
  BY DEF TypeOK
<1> USE BoundsAssumption DEF Gens, Spawns, None, callerVars, runVars, loopVars,
         cmdVars, osVars, LoopOrder
<1>1. ASSUME NEW c \in Callers, CallStart(c) PROVE LoopOrder'
  BY <1>1 DEF CallStart, StartBody, DoneClosed
<1>2. ASSUME NEW c \in Callers, RestartStart(c) PROVE LoopOrder'
  BY <1>2 DEF RestartStart, StartBody, DoneClosed
<1>3. ASSUME NEW c \in Callers, StopCancel(c) PROVE LoopOrder'
  BY <1>3 DEF StopCancel
<1>4. ASSUME NEW c \in Callers, StopTerminate(c) PROVE LoopOrder'
  BY <1>4 DEF StopTerminate
<1>5. ASSUME NEW c \in Callers, StopSignal(c) PROVE LoopOrder'
  BY <1>5 DEF StopSignal
<1>6. ASSUME NEW c \in Callers, StopDone(c) PROVE LoopOrder'
  BY <1>6 DEF StopDone, DoneClosed
<1>7. ASSUME NEW c \in Callers, StopDeadline(c) PROVE LoopOrder'
  BY <1>7 DEF StopDeadline, DoneClosed
<1>8. ASSUME NEW c \in Callers, StopResolve(c) PROVE LoopOrder'
  BY <1>8 DEF StopResolve, KillTarget, DoneClosed
<1>9. ASSUME NEW c \in Callers, StopCheck(c) PROVE LoopOrder'
  BY <1>9 DEF StopCheck
<1>10. ASSUME NEW c \in Callers, StopKill(c) PROVE LoopOrder'
  BY <1>10 DEF StopKill
<1>11. ASSUME NEW c \in Callers, StopFinish(c) PROVE LoopOrder'
  BY <1>11 DEF StopFinish, SetStateFor
<1>12. ASSUME NEW c \in Callers, NEW o \in {"stop", "restart"}, StopEnter(c, o)
      PROVE  LoopOrder'
  BY <1>12 DEF StopEnter
<1>13. ASSUME NEW g \in Gens, StartDelay(g) PROVE LoopOrder'
  BY <1>13 DEF StartDelay, LoopMove, LoopReport, Goto, Cancelled
<1>14. ASSUME NEW g \in Gens, LoopTop(g) PROVE LoopOrder'
  BY <1>14 DEF LoopTop, LoopMove, Goto, Cancelled
<1>15. ASSUME NEW g \in Gens, LoopStarting(g) PROVE LoopOrder'
  BY <1>15 DEF LoopStarting, LoopReport, Goto
<1>16. ASSUME NEW g \in Gens, Exec(g) PROVE LoopOrder'
  BY <1>16 DEF Exec, Goto
<1>17. ASSUME NEW g \in Gens, ExecFails(g) PROVE LoopOrder'
  BY <1>17 DEF ExecFails, LoopMove, Goto
<1>18. ASSUME NEW g \in Gens, Publish(g) PROVE LoopOrder'
  BY <1>18 DEF Publish, Goto
<1>19. ASSUME NEW g \in Gens, CtxCheck(g) PROVE LoopOrder'
  BY <1>19 DEF CtxCheck, LoopMove, Goto, Cancelled
<1>20. ASSUME NEW g \in Gens, SelfSignal(g) PROVE LoopOrder'
  BY <1>20 DEF SelfSignal, Goto
<1>21. ASSUME NEW g \in Gens, LoopRunning(g) PROVE LoopOrder'
  BY <1>21 DEF LoopRunning, LoopReport, Goto
<1>22. ASSUME NEW g \in Gens, Reap(g) PROVE LoopOrder'
  BY <1>22 DEF Reap, Goto
<1>23. ASSUME NEW g \in Gens, AnnounceReap(g) PROVE LoopOrder'
  BY <1>23 DEF AnnounceReap, Goto
<1>24. ASSUME NEW g \in Gens, DrainAndClear(g) PROVE LoopOrder'
  BY <1>24 DEF DrainAndClear, Goto
<1>25. ASSUME NEW g \in Gens, AfterRun(g) PROVE LoopOrder'
  BY <1>25 DEF AfterRun, LoopMove, Goto, Cancelled
<1>26. ASSUME NEW g \in Gens, ReportStopped(g) PROVE LoopOrder'
  BY <1>26 DEF ReportStopped, LoopReport, Goto
<1>27. ASSUME NEW g \in Gens, ReportFailed(g) PROVE LoopOrder'
  BY <1>27 DEF ReportFailed, LoopReport, Goto
<1>28. ASSUME NEW g \in Gens, ScheduleRetry(g) PROVE LoopOrder'
  BY <1>28 DEF ScheduleRetry, LoopReport, Goto
<1>29. ASSUME NEW g \in Gens, Backoff(g) PROVE LoopOrder'
  BY <1>29 DEF Backoff, LoopMove, Goto, Cancelled
<1>30. ASSUME NEW g \in Gens, CloseDone(g) PROVE LoopOrder'
  BY <1>30 DEF CloseDone, LoopMove, Goto
<1>31. ASSUME NEW g \in Gens, PendingWake(g) PROVE LoopOrder'
  BY <1>31 DEF PendingWake, DoneClosed
<1>32. ASSUME NEW g \in Gens, PendingStart(g) PROVE LoopOrder'
  BY <1>32 DEF PendingStart, StartBody, DoneClosed
<1>33. ASSUME NEW s \in Spawns, ChildExits(s) PROVE LoopOrder'
  BY <1>33 DEF ChildExits
<1>34. ASSUME NEW s \in Spawns, EscalatorStandsDown(s) PROVE LoopOrder'
  BY <1>34 DEF EscalatorStandsDown
<1>35. ASSUME NEW s \in Spawns, GraceExpires(s) PROVE LoopOrder'
  BY <1>35 DEF GraceExpires
<1>36. CASE UNCHANGED vars
  BY <1>36 DEF vars
<1> HIDE DEF LoopOrder
<1> QED
  BY <1>1, <1>2, <1>3, <1>4, <1>5, <1>6, <1>7, <1>8, <1>9, <1>10, <1>11, <1>12,
     <1>13, <1>14, <1>15, <1>16, <1>17, <1>18, <1>19, <1>20, <1>21, <1>22,
     <1>23, <1>24, <1>25, <1>26, <1>27, <1>28, <1>29, <1>30, <1>31, <1>32,
     <1>33, <1>34, <1>35, <1>36
     DEF Next, CallerNext, LoopNext, PendNext, EscalatorNext

(* What a goroutine is handling exists while it handles it.                *)
LEMMA HandlesNext ==
  ASSUME TypeOK, LoopOrder, Handles, [Next]_vars
  PROVE  Handles'
<1> /\ gen \in 0..MaxGen
    /\ cancelled \subseteq Gens
    /\ loop \in [Gens -> LoopPCs]
    /\ lspawn \in [Gens -> 0..MaxSpawn]
    /\ cmd \in 0..MaxSpawn
    /\ pc \in [Callers -> CallerPCs]
    /\ cgen \in [Callers -> 0..MaxGen]
    /\ target \in [Callers -> 0..MaxSpawn]
  BY DEF TypeOK
<1> USE BoundsAssumption DEF Gens, Spawns, None, callerVars, runVars, loopVars,
         cmdVars, osVars, LoopOrder, Handles, StopPCs, SpawnPCs, PublishedPCs
<1>1. ASSUME NEW c \in Callers, CallStart(c) PROVE Handles'
  <2>1. UNCHANGED <<running, gen, loop>> \/ Launched
    <3>1. StartBody(pend)
      BY <1>1 DEF CallStart
    <3> QED
      BY <3>1, StartBodyEffect
  <2>2. CASE UNCHANGED <<running, gen, loop>>
    BY <1>1, <2>2 DEF CallStart
  <2>3. CASE Launched
    BY <1>1, <2>3 DEF CallStart, Launched
  <2> QED
    BY <2>1, <2>2, <2>3
<1>2. ASSUME NEW c \in Callers, RestartStart(c) PROVE Handles'
  <2>1. UNCHANGED <<running, gen, loop>> \/ Launched
    <3>1. StartBody(pend)
      BY <1>2 DEF RestartStart
    <3> QED
      BY <3>1, StartBodyEffect
  <2>2. CASE UNCHANGED <<running, gen, loop>>
    BY <1>2, <2>2 DEF RestartStart
  <2>3. CASE Launched
    BY <1>2, <2>3 DEF RestartStart, Launched
  <2> QED
    BY <2>1, <2>2, <2>3
<1>3. ASSUME NEW c \in Callers, StopCancel(c) PROVE Handles'
  BY <1>3 DEF StopCancel
<1>4. ASSUME NEW c \in Callers, StopTerminate(c) PROVE Handles'
  <2>1. CASE cmd = None \/ signalled
    BY <1>4, <2>1 DEF StopTerminate
  <2>2. CASE cmd # None /\ ~signalled
    <3>1. cmd \in Spawns
      BY <2>2
    <3>2. /\ pc[c] = "terminate" /\ pc' = [pc EXCEPT ![c] = "signal"]
          /\ target' = [target EXCEPT ![c] = cmd]
          /\ UNCHANGED <<gen, cancelled, loop, lspawn, owner, cgen, ccmd>>
      BY <1>4, <2>2 DEF StopTerminate
    <3> QED
      BY <3>1, <3>2
  <2> QED
    BY <2>1, <2>2
<1>5. ASSUME NEW c \in Callers, StopSignal(c) PROVE Handles'
  BY <1>5 DEF StopSignal
<1>6. ASSUME NEW c \in Callers, StopDone(c) PROVE Handles'
  BY <1>6 DEF StopDone, DoneClosed
<1>7. ASSUME NEW c \in Callers, StopDeadline(c) PROVE Handles'
  BY <1>7 DEF StopDeadline, DoneClosed
<1>8. ASSUME NEW c \in Callers, StopResolve(c) PROVE Handles'
  BY <1>8 DEF StopResolve, KillTarget, DoneClosed
<1>9. ASSUME NEW c \in Callers, StopCheck(c) PROVE Handles'
  BY <1>9 DEF StopCheck
<1>10. ASSUME NEW c \in Callers, StopKill(c) PROVE Handles'
  BY <1>10 DEF StopKill
<1>11. ASSUME NEW c \in Callers, StopFinish(c) PROVE Handles'
  BY <1>11 DEF StopFinish, SetStateFor
<1>12. ASSUME NEW c \in Callers, NEW o \in {"stop", "restart"}, StopEnter(c, o)
      PROVE  Handles'
  BY <1>12 DEF StopEnter
<1>13. ASSUME NEW g \in Gens, StartDelay(g) PROVE Handles'
  BY <1>13 DEF StartDelay, LoopMove, LoopReport, Goto, Cancelled
<1>14. ASSUME NEW g \in Gens, LoopTop(g) PROVE Handles'
  BY <1>14 DEF LoopTop, LoopMove, Goto, Cancelled
<1>15. ASSUME NEW g \in Gens, LoopStarting(g) PROVE Handles'
  BY <1>15 DEF LoopStarting, LoopReport, Goto
<1>16. ASSUME NEW g \in Gens, Exec(g) PROVE Handles'
  BY <1>16 DEF Exec, Goto
<1>17. ASSUME NEW g \in Gens, ExecFails(g) PROVE Handles'
  BY <1>17 DEF ExecFails, LoopMove, Goto
<1>18. ASSUME NEW g \in Gens, Publish(g) PROVE Handles'
  BY <1>18 DEF Publish, Goto
<1>19. ASSUME NEW g \in Gens, CtxCheck(g) PROVE Handles'
  BY <1>19 DEF CtxCheck, LoopMove, Goto, Cancelled
<1>20. ASSUME NEW g \in Gens, SelfSignal(g) PROVE Handles'
  BY <1>20 DEF SelfSignal, Goto
<1>21. ASSUME NEW g \in Gens, LoopRunning(g) PROVE Handles'
  BY <1>21 DEF LoopRunning, LoopReport, Goto
<1>22. ASSUME NEW g \in Gens, Reap(g) PROVE Handles'
  BY <1>22 DEF Reap, Goto
<1>23. ASSUME NEW g \in Gens, AnnounceReap(g) PROVE Handles'
  BY <1>23 DEF AnnounceReap, Goto
<1>24. ASSUME NEW g \in Gens, DrainAndClear(g) PROVE Handles'
  BY <1>24 DEF DrainAndClear, Goto
<1>25. ASSUME NEW g \in Gens, AfterRun(g) PROVE Handles'
  BY <1>25 DEF AfterRun, LoopMove, Goto, Cancelled
<1>26. ASSUME NEW g \in Gens, ReportStopped(g) PROVE Handles'
  BY <1>26 DEF ReportStopped, LoopReport, Goto
<1>27. ASSUME NEW g \in Gens, ReportFailed(g) PROVE Handles'
  BY <1>27 DEF ReportFailed, LoopReport, Goto
<1>28. ASSUME NEW g \in Gens, ScheduleRetry(g) PROVE Handles'
  BY <1>28 DEF ScheduleRetry, LoopReport, Goto
<1>29. ASSUME NEW g \in Gens, Backoff(g) PROVE Handles'
  BY <1>29 DEF Backoff, LoopMove, Goto, Cancelled
<1>30. ASSUME NEW g \in Gens, CloseDone(g) PROVE Handles'
  BY <1>30 DEF CloseDone, LoopMove, Goto
<1>31. ASSUME NEW g \in Gens, PendingWake(g) PROVE Handles'
  BY <1>31 DEF PendingWake, DoneClosed
<1>32. ASSUME NEW g \in Gens, PendingStart(g) PROVE Handles'
  <2>1. UNCHANGED <<running, gen, loop>> \/ Launched
    <3>1. StartBody([pend EXCEPT ![g] = "off"])
      BY <1>32 DEF PendingStart
    <3> QED
      BY <3>1, StartBodyEffect
  <2>2. CASE UNCHANGED <<running, gen, loop>>
    BY <1>32, <2>2 DEF PendingStart
  <2>3. CASE Launched
    BY <1>32, <2>3 DEF PendingStart, Launched
  <2> QED
    BY <2>1, <2>2, <2>3
<1>33. ASSUME NEW s \in Spawns, ChildExits(s) PROVE Handles'
  BY <1>33 DEF ChildExits
<1>34. ASSUME NEW s \in Spawns, EscalatorStandsDown(s) PROVE Handles'
  BY <1>34 DEF EscalatorStandsDown
<1>35. ASSUME NEW s \in Spawns, GraceExpires(s) PROVE Handles'
  BY <1>35 DEF GraceExpires
<1>36. CASE UNCHANGED vars
  BY <1>36 DEF vars
<1> HIDE DEF LoopOrder, Handles, StopPCs, SpawnPCs, PublishedPCs
<1> QED
  BY <1>1, <1>2, <1>3, <1>4, <1>5, <1>6, <1>7, <1>8, <1>9, <1>10, <1>11, <1>12,
     <1>13, <1>14, <1>15, <1>16, <1>17, <1>18, <1>19, <1>20, <1>21, <1>22,
     <1>23, <1>24, <1>25, <1>26, <1>27, <1>28, <1>29, <1>30, <1>31, <1>32,
     <1>33, <1>34, <1>35, <1>36
     DEF Next, CallerNext, LoopNext, PendNext, EscalatorNext

(* A child is spawned, handled and published by one loop.                  *)
LEMMA OwnershipNext ==
  ASSUME TypeOK, LoopOrder, Handles, Ownership, [Next]_vars
  PROVE  Ownership'
<1> /\ gen \in 0..MaxGen
    /\ loop \in [Gens -> LoopPCs]
    /\ lspawn \in [Gens -> 0..MaxSpawn]
    /\ cmd \in 0..MaxSpawn
    /\ child \in [Spawns -> {"unborn", "alive", "zombie", "reaped"}]
    /\ owner \in [Spawns -> 0..MaxGen]
  BY DEF TypeOK
<1> USE BoundsAssumption DEF Gens, Spawns, None, callerVars, runVars, loopVars,
         cmdVars, osVars, LoopOrder, Handles, Ownership, SpawnPCs,
         PublishedPCs, ChildPCs, ChildUnreaped
<1>1. ASSUME NEW c \in Callers, CallStart(c) PROVE Ownership'
  <2>1. UNCHANGED <<running, gen, loop>> \/ Launched
    <3>1. StartBody(pend)
      BY <1>1 DEF CallStart
    <3> QED
      BY <3>1, StartBodyEffect
  <2>2. CASE UNCHANGED <<running, gen, loop>>
    BY <1>1, <2>2 DEF CallStart
  <2>3. CASE Launched
    <3>1. cmd = None
      BY <2>3 DEF Launched
    <3>2. \A s \in Spawns : ~ChildUnreaped(s)
      <4> SUFFICES ASSUME NEW s \in Spawns, ChildUnreaped(s) PROVE FALSE
        OBVIOUS
      <4>1. owner[s] \in Gens /\ loop[owner[s]] \in ChildPCs
        OBVIOUS
      <4>2. LoopAlive(owner[s])
        BY <4>1 DEF LoopAlive
      <4>3. owner[s] = gen
        BY <4>1, <4>2, AliveIsNewest
      <4> QED
        BY <2>3, <4>1, <4>3 DEF Launched
    <3> QED
      BY <1>1, <2>3, <3>1, <3>2 DEF CallStart, Launched
  <2> QED
    BY <2>1, <2>2, <2>3
<1>2. ASSUME NEW c \in Callers, RestartStart(c) PROVE Ownership'
  <2>1. UNCHANGED <<running, gen, loop>> \/ Launched
    <3>1. StartBody(pend)
      BY <1>2 DEF RestartStart
    <3> QED
      BY <3>1, StartBodyEffect
  <2>2. CASE UNCHANGED <<running, gen, loop>>
    BY <1>2, <2>2 DEF RestartStart
  <2>3. CASE Launched
    <3>1. cmd = None
      BY <2>3 DEF Launched
    <3>2. \A s \in Spawns : ~ChildUnreaped(s)
      <4> SUFFICES ASSUME NEW s \in Spawns, ChildUnreaped(s) PROVE FALSE
        OBVIOUS
      <4>1. owner[s] \in Gens /\ loop[owner[s]] \in ChildPCs
        OBVIOUS
      <4>2. LoopAlive(owner[s])
        BY <4>1 DEF LoopAlive
      <4>3. owner[s] = gen
        BY <4>1, <4>2, AliveIsNewest
      <4> QED
        BY <2>3, <4>1, <4>3 DEF Launched
    <3> QED
      BY <1>2, <2>3, <3>1, <3>2 DEF RestartStart, Launched
  <2> QED
    BY <2>1, <2>2, <2>3
<1>3. ASSUME NEW c \in Callers, StopCancel(c) PROVE Ownership'
  BY <1>3 DEF StopCancel
<1>4. ASSUME NEW c \in Callers, StopTerminate(c) PROVE Ownership'
  BY <1>4 DEF StopTerminate
<1>5. ASSUME NEW c \in Callers, StopSignal(c) PROVE Ownership'
  BY <1>5 DEF StopSignal
<1>6. ASSUME NEW c \in Callers, StopDone(c) PROVE Ownership'
  BY <1>6 DEF StopDone, DoneClosed
<1>7. ASSUME NEW c \in Callers, StopDeadline(c) PROVE Ownership'
  BY <1>7 DEF StopDeadline, DoneClosed
<1>8. ASSUME NEW c \in Callers, StopResolve(c) PROVE Ownership'
  BY <1>8 DEF StopResolve, KillTarget, DoneClosed
<1>9. ASSUME NEW c \in Callers, StopCheck(c) PROVE Ownership'
  BY <1>9 DEF StopCheck
<1>10. ASSUME NEW c \in Callers, StopKill(c) PROVE Ownership'
  BY <1>10 DEF StopKill
<1>11. ASSUME NEW c \in Callers, StopFinish(c) PROVE Ownership'
  BY <1>11 DEF StopFinish, SetStateFor
<1>12. ASSUME NEW c \in Callers, NEW o \in {"stop", "restart"}, StopEnter(c, o)
      PROVE  Ownership'
  BY <1>12 DEF StopEnter
<1>13. ASSUME NEW g \in Gens, StartDelay(g) PROVE Ownership'
  <2>1. CASE LoopMove(g, "delay", "top")
    BY <2>1 DEF LoopMove, LoopReport, Goto
  <2>2. CASE LoopReport(g, "delay", "stopped", "closing")
    BY <2>2 DEF LoopMove, LoopReport, Goto
  <2> QED
    BY <1>13, <2>1, <2>2 DEF StartDelay
<1>14. ASSUME NEW g \in Gens, LoopTop(g) PROVE Ownership'
  <2>1. CASE LoopMove(g, "top", "closing")
    BY SMTT(30), <2>1 DEF LoopMove, Goto
  <2>2. CASE LoopMove(g, "top", "starting")
    BY <2>2 DEF LoopMove, Goto
  <2> QED
    BY <1>14, <2>1, <2>2 DEF LoopTop
<1>15. ASSUME NEW g \in Gens, LoopStarting(g) PROVE Ownership'
  BY <1>15 DEF LoopStarting, LoopReport, Goto
<1>16. ASSUME NEW g \in Gens, Exec(g) PROVE Ownership'
  <2> PICK s \in Spawns :
         /\ child[s] = "unborn"
         /\ child'  = [child EXCEPT ![s] = "alive"]
         /\ owner'  = [owner EXCEPT ![s] = g]
         /\ lspawn' = [lspawn EXCEPT ![g] = s]
    BY <1>16 DEF Exec
  <2>1. loop[g] = "exec" /\ loop' = [loop EXCEPT ![g] = "publish"]
    BY <1>16 DEF Exec, Goto
  <2> g = gen
    BY <2>1, AliveIsNewest DEF LoopAlive
  <2>2. cmd = None /\ UNCHANGED <<gen, cmd>>
    BY <1>16, <2>1 DEF Exec
  <2>3. \A h \in Gens : loop'[h] \in SpawnPCs => h = g
    <3> SUFFICES ASSUME NEW h \in Gens, h # g PROVE loop'[h] \notin SpawnPCs
      OBVIOUS
    <3>1. loop'[h] = loop[h]
      BY <2>1
    <3>2. ~LoopAlive(h)
      BY AliveIsNewest
    <3> QED
      BY <3>1, <3>2 DEF LoopAlive
  <2>4. \A t \in Spawns : ~ChildUnreaped(t)
    <3> SUFFICES ASSUME NEW t \in Spawns, ChildUnreaped(t) PROVE FALSE
      OBVIOUS
    <3>1. owner[t] \in Gens /\ loop[owner[t]] \in ChildPCs
      OBVIOUS
    <3> QED
      BY <2>1, <3>1, AliveIsNewest DEF LoopAlive
  <2>5. \A t \in Spawns : ChildUnreaped(t)' => t = s
    BY <2>4
  <2>6. \A t \in Spawns : child'[t] = "unborn" <=> owner'[t] = None
    OBVIOUS
  <2>7. \A h \in Gens : loop'[h] \in SpawnPCs => owner'[lspawn'[h]] = h
    BY <2>1, <2>3
  <2>8. \A t \in Spawns : ChildUnreaped(t)' => /\ loop'[owner'[t]] \in ChildPCs
                                               /\ lspawn'[owner'[t]] = t
    BY <2>1, <2>5
  <2>9. \A h \in Gens : loop'[h] \notin PublishedPCs
    BY <2>1, <2>3
  <2> HIDE DEF ChildUnreaped
  <2> QED
    BY <2>2, <2>6, <2>7, <2>8, <2>9
<1>17. ASSUME NEW g \in Gens, ExecFails(g) PROVE Ownership'
  BY <1>17 DEF ExecFails, LoopMove, Goto
<1>18. ASSUME NEW g \in Gens, Publish(g) PROVE Ownership'
  BY SMTT(30), <1>18 DEF Publish, Goto
<1>19. ASSUME NEW g \in Gens, CtxCheck(g) PROVE Ownership'
  <2>1. CASE LoopMove(g, "ctxcheck", "run")
    <3>1. /\ loop[g] = "ctxcheck" /\ loop' = [loop EXCEPT ![g] = "run"]
          /\ UNCHANGED <<gen, cmd, lspawn, child, owner>>
      BY <2>1 DEF LoopMove, Goto
    <3>2. \A h \in Gens : /\ loop'[h] \in SpawnPCs <=> loop[h] \in SpawnPCs
                          /\ loop'[h] \in ChildPCs <=> loop[h] \in ChildPCs
                          /\ loop'[h] \in PublishedPCs <=> loop[h] \in PublishedPCs
      BY <3>1
    <3>3. \A t \in Spawns : ChildUnreaped(t)' <=> ChildUnreaped(t)
      BY <3>1
    <3>4. ASSUME NEW t \in Spawns, ChildUnreaped(t) PROVE owner[t] \in Gens
      <4>1. child[t] # "unborn" /\ owner[t] \in 0..MaxGen
        BY <3>4
      <4>2. owner[t] # None
        BY <4>1
      <4> QED
        BY <4>1, <4>2
    <3>5. gen # None => gen \in Gens
      OBVIOUS
    <3>6. \A t \in Spawns : ChildUnreaped(t) => loop'[owner[t]] \in ChildPCs
      BY <3>2, <3>4
    <3>7. cmd # None => loop'[gen] \in PublishedPCs
      BY <3>2, <3>5
    <3> HIDE DEF SpawnPCs, ChildPCs, PublishedPCs, ChildUnreaped
    <3> QED
      BY <3>1, <3>2, <3>3, <3>6, <3>7
  <2>2. CASE ~LoopMove(g, "ctxcheck", "run")
    <3>1. /\ loop[g] = "ctxcheck"
          /\ loop' = [loop EXCEPT ![g] = "signal"]
          /\ UNCHANGED <<gen, cmd, cancelled, lspawn, osVars, callerVars>>
      BY <1>19, <2>2 DEF CtxCheck, Goto
    <3> QED
      BY <3>1
  <2> QED
    BY <2>1, <2>2
<1>20. ASSUME NEW g \in Gens, SelfSignal(g) PROVE Ownership'
  BY <1>20 DEF SelfSignal, Goto
<1>21. ASSUME NEW g \in Gens, LoopRunning(g) PROVE Ownership'
  BY <1>21 DEF LoopRunning, LoopReport, Goto
<1>22. ASSUME NEW g \in Gens, Reap(g) PROVE Ownership'
  BY <1>22 DEF Reap, Goto
<1>23. ASSUME NEW g \in Gens, AnnounceReap(g) PROVE Ownership'
  BY <1>23 DEF AnnounceReap, Goto
<1>24. ASSUME NEW g \in Gens, DrainAndClear(g) PROVE Ownership'
  BY <1>24 DEF DrainAndClear, Goto
<1>25. ASSUME NEW g \in Gens, AfterRun(g) PROVE Ownership'
  <2>1. CASE LoopMove(g, "after", "stopped")
    BY <2>1 DEF LoopMove, Goto
  <2>2. CASE LoopMove(g, "after", "failed")
    BY <2>2 DEF LoopMove, Goto
  <2>3. CASE LoopMove(g, "after", "retry")
    BY <2>3 DEF LoopMove, Goto
  <2> QED
    BY <1>25, <2>1, <2>2, <2>3 DEF AfterRun
<1>26. ASSUME NEW g \in Gens, ReportStopped(g) PROVE Ownership'
  BY <1>26 DEF ReportStopped, LoopReport, Goto
<1>27. ASSUME NEW g \in Gens, ReportFailed(g) PROVE Ownership'
  BY <1>27 DEF ReportFailed, LoopReport, Goto
<1>28. ASSUME NEW g \in Gens, ScheduleRetry(g) PROVE Ownership'
  BY <1>28 DEF ScheduleRetry, LoopReport, Goto
<1>29. ASSUME NEW g \in Gens, Backoff(g) PROVE Ownership'
  <2>1. CASE LoopMove(g, "backoff", "top")
    BY <2>1 DEF LoopMove, Goto
  <2>2. CASE LoopMove(g, "backoff", "stopped")
    BY <2>2 DEF LoopMove, Goto
  <2> QED
    BY <1>29, <2>1, <2>2 DEF Backoff
<1>30. ASSUME NEW g \in Gens, CloseDone(g) PROVE Ownership'
  BY <1>30 DEF CloseDone, LoopMove, Goto
<1>31. ASSUME NEW g \in Gens, PendingWake(g) PROVE Ownership'
  BY <1>31 DEF PendingWake, DoneClosed
<1>32. ASSUME NEW g \in Gens, PendingStart(g) PROVE Ownership'
  <2>1. UNCHANGED <<running, gen, loop>> \/ Launched
    <3>1. StartBody([pend EXCEPT ![g] = "off"])
      BY <1>32 DEF PendingStart
    <3> QED
      BY <3>1, StartBodyEffect
  <2>2. CASE UNCHANGED <<running, gen, loop>>
    BY <1>32, <2>2 DEF PendingStart
  <2>3. CASE Launched
    <3>1. cmd = None
      BY <2>3 DEF Launched
    <3>2. \A s \in Spawns : ~ChildUnreaped(s)
      <4> SUFFICES ASSUME NEW s \in Spawns, ChildUnreaped(s) PROVE FALSE
        OBVIOUS
      <4>1. owner[s] \in Gens /\ loop[owner[s]] \in ChildPCs
        OBVIOUS
      <4>2. LoopAlive(owner[s])
        BY <4>1 DEF LoopAlive
      <4>3. owner[s] = gen
        BY <4>1, <4>2, AliveIsNewest
      <4> QED
        BY <2>3, <4>1, <4>3 DEF Launched
    <3> QED
      BY SMTT(30), <1>32, <2>3, <3>1, <3>2 DEF PendingStart, Launched
  <2> QED
    BY <2>1, <2>2, <2>3
<1>33. ASSUME NEW s \in Spawns, ChildExits(s) PROVE Ownership'
  BY <1>33 DEF ChildExits
<1>34. ASSUME NEW s \in Spawns, EscalatorStandsDown(s) PROVE Ownership'
  BY <1>34 DEF EscalatorStandsDown
<1>35. ASSUME NEW s \in Spawns, GraceExpires(s) PROVE Ownership'
  BY <1>35 DEF GraceExpires
<1>36. CASE UNCHANGED vars
  BY <1>36 DEF vars
<1> HIDE DEF LoopOrder, Handles, Ownership, SpawnPCs, PublishedPCs, ChildPCs,
             ChildUnreaped
<1> QED
  BY <1>1, <1>2, <1>3, <1>4, <1>5, <1>6, <1>7, <1>8, <1>9, <1>10, <1>11, <1>12,
     <1>13, <1>14, <1>15, <1>16, <1>17, <1>18, <1>19, <1>20, <1>21, <1>22,
     <1>23, <1>24, <1>25, <1>26, <1>27, <1>28, <1>29, <1>30, <1>31, <1>32,
     <1>33, <1>34, <1>35, <1>36
     DEF Next, CallerNext, LoopNext, PendNext, EscalatorNext

(* What is published was spawned by the newest generation.                  *)
LEMMA PublishedBelongsToNewest ==
  ASSUME TypeOK, Ownership, cmd # None
  PROVE  cmd \in Spawns /\ gen \in Gens /\ owner[cmd] = gen
<1>1. cmd \in Spawns /\ gen \in Gens
  BY BoundsAssumption DEF TypeOK, Ownership, Gens, Spawns, None
<1>2. loop[gen] \in PublishedPCs
  BY DEF Ownership
<1>3. cmd = lspawn[gen] /\ owner[lspawn[gen]] = gen
  BY <1>1, <1>2 DEF Ownership, SpawnPCs
<1> QED
  BY <1>1, <1>3

(* A stop's kill stays within the generation it ended.                      *)
LEMMA KillScopeNext ==
  ASSUME TypeOK, LoopOrder, Handles, Ownership, KillScope, [Next]_vars
  PROVE  KillScope'
<1> /\ gen \in 0..MaxGen
    /\ loop \in [Gens -> LoopPCs]
    /\ cmd \in 0..MaxSpawn
    /\ owner \in [Spawns -> 0..MaxGen]
    /\ pc \in [Callers -> CallerPCs]
    /\ cgen \in [Callers -> 0..MaxGen]
    /\ ccmd \in [Callers -> 0..MaxSpawn]
    /\ target \in [Callers -> 0..MaxSpawn]
  BY DEF TypeOK
<1> USE BoundsAssumption DEF Gens, Spawns, None, callerVars, runVars, loopVars,
         cmdVars, osVars, KillScope, StopPCs
<1>1. ASSUME NEW c \in Callers, CallStart(c) PROVE KillScope'
  BY <1>1 DEF CallStart, StartBody, DoneClosed
<1>2. ASSUME NEW c \in Callers, RestartStart(c) PROVE KillScope'
  BY <1>2 DEF RestartStart, StartBody, DoneClosed
<1>3. ASSUME NEW c \in Callers, StopCancel(c) PROVE KillScope'
  BY <1>3 DEF StopCancel
<1>4. ASSUME NEW c \in Callers, StopTerminate(c) PROVE KillScope'
  <2>1. /\ pc[c] = "terminate"
        /\ pc' \in {[pc EXCEPT ![c] = "signal"], [pc EXCEPT ![c] = "wait"]}
        /\ target' \in {target, [target EXCEPT ![c] = cmd]}
        /\ UNCHANGED <<owner, cgen, ccmd>>
    BY <1>4 DEF StopTerminate
  <2>2. \A d \in Callers : pc'[d] \in StopPCs => pc[d] \in StopPCs
    BY <2>1
  <2>3. \A d \in Callers : pc'[d] \in {"check", "kill"} =>
                               pc[d] = pc'[d] /\ target'[d] = target[d]
    BY <2>1
  <2> QED
    BY <2>1, <2>2, <2>3
<1>5. ASSUME NEW c \in Callers, StopSignal(c) PROVE KillScope'
  <2>1. /\ pc[c] = "signal" /\ pc' = [pc EXCEPT ![c] = "wait"]
        /\ UNCHANGED <<owner, cgen, ccmd, target>>
    BY <1>5 DEF StopSignal
  <2>2. \A d \in Callers : pc'[d] \in StopPCs => pc[d] \in StopPCs
    BY <2>1
  <2>3. \A d \in Callers : pc'[d] \in {"check", "kill"} => pc[d] = pc'[d]
    BY <2>1
  <2> QED
    BY <2>1, <2>2, <2>3
<1>6. ASSUME NEW c \in Callers, StopDone(c) PROVE KillScope'
  BY <1>6 DEF StopDone, DoneClosed
<1>7. ASSUME NEW c \in Callers, StopDeadline(c) PROVE KillScope'
  BY <1>7 DEF StopDeadline, DoneClosed
<1>8. ASSUME NEW c \in Callers, StopResolve(c) PROVE KillScope'
  <2>1. KillTarget(c) # None => owner[KillTarget(c)] = cgen[c]
    <3>1. CASE ccmd[c] # None
      BY <1>8, <3>1 DEF StopResolve, KillTarget
    <3>2. CASE ccmd[c] = None /\ cmd # None /\ ~DoneClosed(cgen[c])
      <4>1. cgen[c] = gen
        BY <1>8, <3>2 DEF StopResolve, DoneClosed, Handles, LoopOrder
      <4> QED
        BY <3>2, <4>1, PublishedBelongsToNewest DEF KillTarget
    <3> QED
      BY <3>1, <3>2 DEF KillTarget
  <2> QED
    BY <1>8, <2>1 DEF StopResolve
<1>9. ASSUME NEW c \in Callers, StopCheck(c) PROVE KillScope'
  BY <1>9 DEF StopCheck
<1>10. ASSUME NEW c \in Callers, StopKill(c) PROVE KillScope'
  BY <1>10 DEF StopKill
<1>11. ASSUME NEW c \in Callers, StopFinish(c) PROVE KillScope'
  BY <1>11 DEF StopFinish, SetStateFor
<1>12. ASSUME NEW c \in Callers, NEW o \in {"stop", "restart"}, StopEnter(c, o)
      PROVE  KillScope'
  <2>1. cmd # None => owner[cmd] = gen
    BY PublishedBelongsToNewest
  <2>2. pc[c] = "idle" /\ UNCHANGED <<owner, target>>
    BY <1>12 DEF StopEnter
  <2>3. CASE running
    <3>1. /\ pc' = [pc EXCEPT ![c] = "cancel"]
          /\ cgen' = [cgen EXCEPT ![c] = gen] /\ ccmd' = [ccmd EXCEPT ![c] = cmd]
      BY <1>12, <2>3 DEF StopEnter
    <3> QED
      BY <2>1, <2>2, <3>1
  <2>4. CASE ~running
    <3>1. /\ pc' \in {[pc EXCEPT ![c] = "start"], [pc EXCEPT ![c] = "returned"]}
          /\ UNCHANGED <<cgen, ccmd>>
      BY <1>12, <2>4 DEF StopEnter
    <3> QED
      BY <2>2, <3>1
  <2> QED
    BY <2>3, <2>4
<1>13. ASSUME NEW g \in Gens, StartDelay(g) PROVE KillScope'
  <2>1. CASE LoopMove(g, "delay", "top")
    BY <2>1 DEF LoopMove, LoopReport, Goto
  <2>2. CASE LoopReport(g, "delay", "stopped", "closing")
    BY <2>2 DEF LoopMove, LoopReport, Goto
  <2> QED
    BY <1>13, <2>1, <2>2 DEF StartDelay
<1>14. ASSUME NEW g \in Gens, LoopTop(g) PROVE KillScope'
  <2>1. CASE LoopMove(g, "top", "closing")
    BY <2>1 DEF LoopMove, Goto
  <2>2. CASE LoopMove(g, "top", "starting")
    BY <2>2 DEF LoopMove, Goto
  <2> QED
    BY <1>14, <2>1, <2>2 DEF LoopTop
<1>15. ASSUME NEW g \in Gens, LoopStarting(g) PROVE KillScope'
  BY <1>15 DEF LoopStarting, LoopReport, Goto
<1>16. ASSUME NEW g \in Gens, Exec(g) PROVE KillScope'
  <2> PICK s \in Spawns : /\ child[s] = "unborn"
                          /\ owner' = [owner EXCEPT ![s] = g]
    BY <1>16 DEF Exec
  <2>1. owner[s] = None
    BY DEF Ownership
  <2>2. \A c \in Callers : pc[c] \in StopPCs => cgen[c] # None
    BY DEF Handles
  <2> QED
    BY <1>16, <2>1, <2>2 DEF Exec
<1>17. ASSUME NEW g \in Gens, ExecFails(g) PROVE KillScope'
  BY <1>17 DEF ExecFails, LoopMove, Goto
<1>18. ASSUME NEW g \in Gens, Publish(g) PROVE KillScope'
  BY <1>18 DEF Publish, Goto
<1>19. ASSUME NEW g \in Gens, CtxCheck(g) PROVE KillScope'
  <2>1. CASE LoopMove(g, "ctxcheck", "run")
    BY <2>1, SMTT(30) DEF LoopMove, Goto
  <2>2. CASE ~LoopMove(g, "ctxcheck", "run")
    <3>1. /\ loop[g] = "ctxcheck"
          /\ loop' = [loop EXCEPT ![g] = "signal"]
          /\ UNCHANGED <<gen, cmd, cancelled, lspawn, osVars, callerVars>>
      BY <1>19, <2>2 DEF CtxCheck, Goto
    <3> QED
      BY <3>1
  <2> QED
    BY <2>1, <2>2
<1>20. ASSUME NEW g \in Gens, SelfSignal(g) PROVE KillScope'
  BY <1>20 DEF SelfSignal, Goto
<1>21. ASSUME NEW g \in Gens, LoopRunning(g) PROVE KillScope'
  BY <1>21 DEF LoopRunning, LoopReport, Goto
<1>22. ASSUME NEW g \in Gens, Reap(g) PROVE KillScope'
  BY <1>22 DEF Reap, Goto
<1>23. ASSUME NEW g \in Gens, AnnounceReap(g) PROVE KillScope'
  BY <1>23 DEF AnnounceReap, Goto
<1>24. ASSUME NEW g \in Gens, DrainAndClear(g) PROVE KillScope'
  BY <1>24 DEF DrainAndClear, Goto
<1>25. ASSUME NEW g \in Gens, AfterRun(g) PROVE KillScope'
  <2>1. CASE LoopMove(g, "after", "stopped")
    BY <2>1 DEF LoopMove, Goto
  <2>2. CASE LoopMove(g, "after", "failed")
    BY <2>2 DEF LoopMove, Goto
  <2>3. CASE LoopMove(g, "after", "retry")
    BY <2>3 DEF LoopMove, Goto
  <2> QED
    BY <1>25, <2>1, <2>2, <2>3 DEF AfterRun
<1>26. ASSUME NEW g \in Gens, ReportStopped(g) PROVE KillScope'
  BY <1>26 DEF ReportStopped, LoopReport, Goto
<1>27. ASSUME NEW g \in Gens, ReportFailed(g) PROVE KillScope'
  BY <1>27 DEF ReportFailed, LoopReport, Goto
<1>28. ASSUME NEW g \in Gens, ScheduleRetry(g) PROVE KillScope'
  BY <1>28 DEF ScheduleRetry, LoopReport, Goto
<1>29. ASSUME NEW g \in Gens, Backoff(g) PROVE KillScope'
  <2>1. CASE LoopMove(g, "backoff", "top")
    BY <2>1 DEF LoopMove, Goto
  <2>2. CASE LoopMove(g, "backoff", "stopped")
    BY <2>2 DEF LoopMove, Goto
  <2> QED
    BY <1>29, <2>1, <2>2 DEF Backoff
<1>30. ASSUME NEW g \in Gens, CloseDone(g) PROVE KillScope'
  BY <1>30 DEF CloseDone, LoopMove, Goto
<1>31. ASSUME NEW g \in Gens, PendingWake(g) PROVE KillScope'
  BY <1>31 DEF PendingWake, DoneClosed
<1>32. ASSUME NEW g \in Gens, PendingStart(g) PROVE KillScope'
  BY <1>32 DEF PendingStart, StartBody, DoneClosed
<1>33. ASSUME NEW s \in Spawns, ChildExits(s) PROVE KillScope'
  BY <1>33 DEF ChildExits
<1>34. ASSUME NEW s \in Spawns, EscalatorStandsDown(s) PROVE KillScope'
  BY <1>34 DEF EscalatorStandsDown
<1>35. ASSUME NEW s \in Spawns, GraceExpires(s) PROVE KillScope'
  BY <1>35 DEF GraceExpires
<1>36. CASE UNCHANGED vars
  BY <1>36 DEF vars
<1> HIDE DEF KillScope, StopPCs
<1> QED
  BY <1>1, <1>2, <1>3, <1>4, <1>5, <1>6, <1>7, <1>8, <1>9, <1>10, <1>11, <1>12,
     <1>13, <1>14, <1>15, <1>16, <1>17, <1>18, <1>19, <1>20, <1>21, <1>22,
     <1>23, <1>24, <1>25, <1>26, <1>27, <1>28, <1>29, <1>30, <1>31, <1>32,
     <1>33, <1>34, <1>35, <1>36
     DEF Next, CallerNext, LoopNext, PendNext, EscalatorNext

(* Only the newest loop, or a stop that cancelled it, writes the state.       *)
LEMMA LiveLoopNext ==
  ASSUME TypeOK, LoopOrder, Handles, LiveLoopReadsRunning, [Next]_vars
  PROVE  LiveLoopReadsRunning'
<1> /\ gen \in 0..MaxGen
    /\ cancelled \subseteq Gens
    /\ loop \in [Gens -> LoopPCs]
    /\ pc \in [Callers -> CallerPCs]
    /\ cgen \in [Callers -> 0..MaxGen]
  BY DEF TypeOK
<1> USE BoundsAssumption DEF Gens, Spawns, None, callerVars, runVars, loopVars,
         cmdVars, osVars, LoopOrder, Handles, LiveLoopReadsRunning, Cancelled,
         StopPCs
<1>1. ASSUME NEW c \in Callers, CallStart(c) PROVE LiveLoopReadsRunning'
  <2>1. UNCHANGED <<running, gen, loop>> \/ Launched
    <3>1. StartBody(pend)
      BY <1>1 DEF CallStart
    <3> QED
      BY <3>1, StartBodyEffect
  <2>2. CASE UNCHANGED <<running, gen, loop>>
    BY <1>1, <2>2 DEF CallStart
  <2>3. CASE Launched
    BY <1>1, <2>3 DEF CallStart, Launched
  <2> QED
    BY <2>1, <2>2, <2>3
<1>2. ASSUME NEW c \in Callers, RestartStart(c) PROVE LiveLoopReadsRunning'
  <2>1. UNCHANGED <<running, gen, loop>> \/ Launched
    <3>1. StartBody(pend)
      BY <1>2 DEF RestartStart
    <3> QED
      BY <3>1, StartBodyEffect
  <2>2. CASE UNCHANGED <<running, gen, loop>>
    BY <1>2, <2>2 DEF RestartStart
  <2>3. CASE Launched
    BY <1>2, <2>3 DEF RestartStart, Launched
  <2> QED
    BY <2>1, <2>2, <2>3
<1>3. ASSUME NEW c \in Callers, StopCancel(c) PROVE LiveLoopReadsRunning'
  BY <1>3 DEF StopCancel
<1>4. ASSUME NEW c \in Callers, StopTerminate(c) PROVE LiveLoopReadsRunning'
  BY <1>4 DEF StopTerminate
<1>5. ASSUME NEW c \in Callers, StopSignal(c) PROVE LiveLoopReadsRunning'
  BY <1>5 DEF StopSignal
<1>6. ASSUME NEW c \in Callers, StopDone(c) PROVE LiveLoopReadsRunning'
  BY <1>6 DEF StopDone, DoneClosed
<1>7. ASSUME NEW c \in Callers, StopDeadline(c) PROVE LiveLoopReadsRunning'
  BY <1>7 DEF StopDeadline, DoneClosed
<1>8. ASSUME NEW c \in Callers, StopResolve(c) PROVE LiveLoopReadsRunning'
  BY <1>8 DEF StopResolve, KillTarget, DoneClosed
<1>9. ASSUME NEW c \in Callers, StopCheck(c) PROVE LiveLoopReadsRunning'
  BY <1>9 DEF StopCheck
<1>10. ASSUME NEW c \in Callers, StopKill(c) PROVE LiveLoopReadsRunning'
  BY <1>10 DEF StopKill
<1>11. ASSUME NEW c \in Callers, StopFinish(c) PROVE LiveLoopReadsRunning'
  <2>1. \A g \in Gens : LoopAlive(g) => g = gen
    BY AliveIsNewest
  <2>2. /\ cgen[c] \in cancelled
        /\ state' = state \/ cgen[c] = gen
        /\ UNCHANGED <<loop, cancelled>>
    BY <1>11 DEF StopFinish, SetStateFor
  <2> QED
    BY <2>1, <2>2 DEF LoopAlive
<1>12. ASSUME NEW c \in Callers, NEW o \in {"stop", "restart"}, StopEnter(c, o)
      PROVE  LiveLoopReadsRunning'
  BY <1>12 DEF StopEnter
<1>13. ASSUME NEW g \in Gens, StartDelay(g) PROVE LiveLoopReadsRunning'
  <2>1. CASE LoopMove(g, "delay", "top")
    BY <2>1 DEF LoopMove, Goto
  <2>2. CASE LoopReport(g, "delay", "stopped", "closing")
    <3>1. g = gen
      BY <2>2, AliveIsNewest DEF LoopReport, LoopAlive
    <3>2. \A h \in Gens : h # g => ~LoopAlive(h) /\ loop'[h] = loop[h]
      BY <2>2, <3>1, AliveIsNewest DEF LoopReport, Goto
    <3> QED
      BY <2>2, <3>1, <3>2 DEF LoopReport, Goto, LoopAlive
  <2> QED
    BY <1>13, <2>1, <2>2 DEF StartDelay
<1>14. ASSUME NEW g \in Gens, LoopTop(g) PROVE LiveLoopReadsRunning'
  <2>1. CASE LoopMove(g, "top", "closing")
    BY <2>1 DEF LoopMove, Goto
  <2>2. CASE LoopMove(g, "top", "starting")
    BY <2>2 DEF LoopMove, Goto
  <2> QED
    BY <1>14, <2>1, <2>2 DEF LoopTop
<1>15. ASSUME NEW g \in Gens, LoopStarting(g) PROVE LiveLoopReadsRunning'
  <2>1. g = gen
    BY <1>15, AliveIsNewest DEF LoopStarting, LoopReport, LoopAlive
  <2>2. \A h \in Gens : h # g => ~LoopAlive(h) /\ loop'[h] = loop[h]
    BY <1>15, <2>1, AliveIsNewest DEF LoopStarting, LoopReport, Goto
  <2> QED
    BY <1>15, <2>1, <2>2 DEF LoopStarting, LoopReport, Goto, LoopAlive
<1>16. ASSUME NEW g \in Gens, Exec(g) PROVE LiveLoopReadsRunning'
  BY <1>16 DEF Exec, Goto
<1>17. ASSUME NEW g \in Gens, ExecFails(g) PROVE LiveLoopReadsRunning'
  BY <1>17 DEF ExecFails, LoopMove, Goto
<1>18. ASSUME NEW g \in Gens, Publish(g) PROVE LiveLoopReadsRunning'
  BY <1>18 DEF Publish, Goto
<1>19. ASSUME NEW g \in Gens, CtxCheck(g) PROVE LiveLoopReadsRunning'
  <2>1. CASE LoopMove(g, "ctxcheck", "run")
    BY <2>1, SMTT(30) DEF LoopMove, Goto
  <2>2. CASE ~LoopMove(g, "ctxcheck", "run")
    <3>1. /\ loop[g] = "ctxcheck"
          /\ loop' = [loop EXCEPT ![g] = "signal"]
          /\ UNCHANGED <<gen, state, cancelled>>
      BY <1>19, <2>2 DEF CtxCheck, Goto
    <3> QED
      BY <3>1
  <2> QED
    BY <2>1, <2>2
<1>20. ASSUME NEW g \in Gens, SelfSignal(g) PROVE LiveLoopReadsRunning'
  BY <1>20 DEF SelfSignal, Goto
<1>21. ASSUME NEW g \in Gens, LoopRunning(g) PROVE LiveLoopReadsRunning'
  BY <1>21 DEF LoopRunning, LoopReport, Goto
<1>22. ASSUME NEW g \in Gens, Reap(g) PROVE LiveLoopReadsRunning'
  BY <1>22 DEF Reap, Goto
<1>23. ASSUME NEW g \in Gens, AnnounceReap(g) PROVE LiveLoopReadsRunning'
  BY <1>23 DEF AnnounceReap, Goto
<1>24. ASSUME NEW g \in Gens, DrainAndClear(g) PROVE LiveLoopReadsRunning'
  BY <1>24 DEF DrainAndClear, Goto
<1>25. ASSUME NEW g \in Gens, AfterRun(g) PROVE LiveLoopReadsRunning'
  <2>1. CASE LoopMove(g, "after", "stopped")
    BY <2>1 DEF LoopMove, Goto
  <2>2. CASE LoopMove(g, "after", "failed")
    BY <2>2 DEF LoopMove, Goto
  <2>3. CASE LoopMove(g, "after", "retry")
    BY <2>3 DEF LoopMove, Goto
  <2> QED
    BY <1>25, <2>1, <2>2, <2>3 DEF AfterRun
<1>26. ASSUME NEW g \in Gens, ReportStopped(g) PROVE LiveLoopReadsRunning'
  <2>1. g = gen
    BY <1>26, AliveIsNewest DEF ReportStopped, LoopReport, LoopAlive
  <2>2. \A h \in Gens : h # g => ~LoopAlive(h) /\ loop'[h] = loop[h]
    BY <1>26, <2>1, AliveIsNewest DEF ReportStopped, LoopReport, Goto
  <2> QED
    BY <1>26, <2>1, <2>2 DEF ReportStopped, LoopReport, Goto, LoopAlive
<1>27. ASSUME NEW g \in Gens, ReportFailed(g) PROVE LiveLoopReadsRunning'
  <2>1. g = gen
    BY <1>27, AliveIsNewest DEF ReportFailed, LoopReport, LoopAlive
  <2>2. \A h \in Gens : h # g => ~LoopAlive(h) /\ loop'[h] = loop[h]
    BY <1>27, <2>1, AliveIsNewest DEF ReportFailed, LoopReport, Goto
  <2> QED
    BY <1>27, <2>1, <2>2 DEF ReportFailed, LoopReport, Goto, LoopAlive
<1>28. ASSUME NEW g \in Gens, ScheduleRetry(g) PROVE LiveLoopReadsRunning'
  <2>1. g = gen
    BY <1>28, AliveIsNewest DEF ScheduleRetry, LoopReport, LoopAlive
  <2>2. \A h \in Gens : h # g => ~LoopAlive(h) /\ loop'[h] = loop[h]
    BY <1>28, <2>1, AliveIsNewest DEF ScheduleRetry, LoopReport, Goto
  <2> QED
    BY <1>28, <2>1, <2>2 DEF ScheduleRetry, LoopReport, Goto, LoopAlive
<1>29. ASSUME NEW g \in Gens, Backoff(g) PROVE LiveLoopReadsRunning'
  <2>1. CASE LoopMove(g, "backoff", "top")
    BY <2>1 DEF LoopMove, Goto
  <2>2. CASE LoopMove(g, "backoff", "stopped")
    BY <2>2 DEF LoopMove, Goto
  <2> QED
    BY <1>29, <2>1, <2>2 DEF Backoff
<1>30. ASSUME NEW g \in Gens, CloseDone(g) PROVE LiveLoopReadsRunning'
  BY <1>30 DEF CloseDone, LoopMove, Goto
<1>31. ASSUME NEW g \in Gens, PendingWake(g) PROVE LiveLoopReadsRunning'
  BY <1>31 DEF PendingWake, DoneClosed
<1>32. ASSUME NEW g \in Gens, PendingStart(g) PROVE LiveLoopReadsRunning'
  <2>1. UNCHANGED <<running, gen, loop>> \/ Launched
    <3>1. StartBody([pend EXCEPT ![g] = "off"])
      BY <1>32 DEF PendingStart
    <3> QED
      BY <3>1, StartBodyEffect
  <2>2. CASE UNCHANGED <<running, gen, loop>>
    BY <1>32, <2>2 DEF PendingStart
  <2>3. CASE Launched
    BY <1>32, <2>3 DEF PendingStart, Launched
  <2> QED
    BY <2>1, <2>2, <2>3
<1>33. ASSUME NEW s \in Spawns, ChildExits(s) PROVE LiveLoopReadsRunning'
  BY <1>33 DEF ChildExits
<1>34. ASSUME NEW s \in Spawns, EscalatorStandsDown(s)
      PROVE  LiveLoopReadsRunning'
  BY <1>34 DEF EscalatorStandsDown
<1>35. ASSUME NEW s \in Spawns, GraceExpires(s) PROVE LiveLoopReadsRunning'
  BY <1>35 DEF GraceExpires
<1>36. CASE UNCHANGED vars
  BY <1>36 DEF vars
<1> HIDE DEF LoopOrder, Handles, LiveLoopReadsRunning, Cancelled, StopPCs
<1> QED
  BY <1>1, <1>2, <1>3, <1>4, <1>5, <1>6, <1>7, <1>8, <1>9, <1>10, <1>11, <1>12,
     <1>13, <1>14, <1>15, <1>16, <1>17, <1>18, <1>19, <1>20, <1>21, <1>22,
     <1>23, <1>24, <1>25, <1>26, <1>27, <1>28, <1>29, <1>30, <1>31, <1>32,
     <1>33, <1>34, <1>35, <1>36
     DEF Next, CallerNext, LoopNext, PendNext, EscalatorNext

(* One SIGTERM at most is on its way to a spawn, and it is the first.        *)
LEMMA OneSignallerNext ==
  ASSUME TypeOK, LoopOrder, Handles, Ownership, OneSignaller, [Next]_vars
  PROVE  OneSignaller'
<1> /\ gen \in 0..MaxGen
    /\ loop \in [Gens -> LoopPCs]
    /\ lspawn \in [Gens -> 0..MaxSpawn]
    /\ cmd \in 0..MaxSpawn
    /\ child \in [Spawns -> {"unborn", "alive", "zombie", "reaped"}]
    /\ owner \in [Spawns -> 0..MaxGen]
    /\ terms \in [Spawns -> Nat]
    /\ pc \in [Callers -> CallerPCs]
    /\ target \in [Callers -> 0..MaxSpawn]
  BY DEF TypeOK
<1> USE BoundsAssumption DEF Gens, Spawns, None, callerVars, runVars, loopVars,
         cmdVars, osVars, LoopOrder, Handles, Ownership, OneSignaller,
         AtMostOneTerm, Unsignalled, StopPCs, SpawnPCs, PublishedPCs, ChildPCs
<1>1. ASSUME NEW c \in Callers, CallStart(c) PROVE OneSignaller'
  <2>1. UNCHANGED <<running, gen, loop>> \/ Launched
    <3>1. StartBody(pend)
      BY <1>1 DEF CallStart
    <3> QED
      BY <3>1, StartBodyEffect
  <2>2. CASE UNCHANGED <<running, gen, loop>>
    BY <1>1, <2>2 DEF CallStart
  <2>3. CASE Launched
    BY <1>1, <2>3 DEF CallStart, Launched
  <2> QED
    BY <2>1, <2>2, <2>3
<1>2. ASSUME NEW c \in Callers, RestartStart(c) PROVE OneSignaller'
  <2>1. UNCHANGED <<running, gen, loop>> \/ Launched
    <3>1. StartBody(pend)
      BY <1>2 DEF RestartStart
    <3> QED
      BY <3>1, StartBodyEffect
  <2>2. CASE UNCHANGED <<running, gen, loop>>
    BY <1>2, <2>2 DEF RestartStart
  <2>3. CASE Launched
    BY <1>2, <2>3 DEF RestartStart, Launched
  <2> QED
    BY <2>1, <2>2, <2>3
<1>3. ASSUME NEW c \in Callers, StopCancel(c) PROVE OneSignaller'
  BY <1>3 DEF StopCancel
<1>4. ASSUME NEW c \in Callers, StopTerminate(c) PROVE OneSignaller'
  <2>1. CASE cmd = None \/ signalled
    <3>1. /\ pc' = [pc EXCEPT ![c] = "wait"]
          /\ UNCHANGED <<gen, loop, lspawn, child, cmd, signalled, terms, target>>
      BY <1>4, <2>1 DEF StopTerminate
    <3>2. \A s \in Spawns : Unsignalled(s)' <=> Unsignalled(s)
      BY <3>1
    <3>3. \A d \in Callers : pc'[d] = "signal" => pc[d] = "signal"
      BY <3>1
    <3> HIDE DEF Unsignalled
    <3> QED
      BY <3>1, <3>2, <3>3
  <2>2. CASE cmd # None /\ ~signalled
    <3>1. /\ signalled' = TRUE
          /\ target' = [target EXCEPT ![c] = cmd]
          /\ pc' = [pc EXCEPT ![c] = "signal"]
          /\ UNCHANGED <<gen, loop, lspawn, child, cmd, terms>>
      BY <1>4, <2>2 DEF StopTerminate
    <3>2. cmd \in Spawns /\ Unsignalled(cmd) /\ owner[cmd] = gen
      BY <2>2
    <3>3. ~Unsignalled(cmd)'
      BY <2>2, <3>1, <3>2
    <3>4. \A s \in Spawns : Unsignalled(s)' => Unsignalled(s)
      BY <3>1
    <3>5. \A d \in Callers : pc[d] = "signal" => target[d] # cmd
      BY <3>2
    <3>6. \A g \in Gens : loop[g] = "signal" => lspawn[g] # cmd
      BY <3>2
    <3> HIDE DEF Unsignalled
    <3> QED
      BY SMTT(30), <3>1, <3>2, <3>3, <3>4, <3>5, <3>6
  <2> QED
    BY <2>1, <2>2
<1>5. ASSUME NEW c \in Callers, StopSignal(c) PROVE OneSignaller'
  BY SMTT(30), <1>5 DEF StopSignal
<1>6. ASSUME NEW c \in Callers, StopDone(c) PROVE OneSignaller'
  BY <1>6 DEF StopDone, DoneClosed
<1>7. ASSUME NEW c \in Callers, StopDeadline(c) PROVE OneSignaller'
  BY <1>7 DEF StopDeadline, DoneClosed
<1>8. ASSUME NEW c \in Callers, StopResolve(c) PROVE OneSignaller'
  <2>1. /\ pc' = [pc EXCEPT ![c] = "check"]
        /\ target' = [target EXCEPT ![c] = KillTarget(c)]
        /\ UNCHANGED <<gen, loop, lspawn, child, cmd, signalled, terms>>
    BY <1>8 DEF StopResolve
  <2>2. \A d \in Callers : pc'[d] = "signal" => pc[d] = "signal" /\ d # c
    BY <2>1
  <2>3. \A s \in Spawns : Unsignalled(s)' <=> Unsignalled(s)
    BY <2>1
  <2> HIDE DEF Unsignalled
  <2> QED
    BY <2>1, <2>2, <2>3
<1>9. ASSUME NEW c \in Callers, StopCheck(c) PROVE OneSignaller'
  BY <1>9 DEF StopCheck
<1>10. ASSUME NEW c \in Callers, StopKill(c) PROVE OneSignaller'
  BY <1>10 DEF StopKill
<1>11. ASSUME NEW c \in Callers, StopFinish(c) PROVE OneSignaller'
  BY <1>11 DEF StopFinish, SetStateFor
<1>12. ASSUME NEW c \in Callers, NEW o \in {"stop", "restart"}, StopEnter(c, o)
      PROVE  OneSignaller'
  <2>1. /\ pc[c] = "idle"
        /\ \E v \in {"start", "returned", "cancel"} : pc' = [pc EXCEPT ![c] = v]
        /\ UNCHANGED <<gen, loop, lspawn, child, cmd, signalled, terms, target>>
    BY <1>12 DEF StopEnter
  <2>2. \A d \in Callers : pc'[d] = "signal" => pc[d] = "signal"
    BY <2>1
  <2>3. \A s \in Spawns : Unsignalled(s)' <=> Unsignalled(s)
    BY <2>1
  <2> QED
    BY <2>1, <2>2, <2>3
<1>13. ASSUME NEW g \in Gens, StartDelay(g) PROVE OneSignaller'
  <2>1. CASE LoopMove(g, "delay", "top")
    BY <2>1 DEF LoopMove, LoopReport, Goto
  <2>2. CASE LoopReport(g, "delay", "stopped", "closing")
    BY <2>2 DEF LoopMove, LoopReport, Goto
  <2> QED
    BY <1>13, <2>1, <2>2 DEF StartDelay
<1>14. ASSUME NEW g \in Gens, LoopTop(g) PROVE OneSignaller'
  <2>1. CASE LoopMove(g, "top", "closing")
    BY <2>1 DEF LoopMove, Goto
  <2>2. CASE LoopMove(g, "top", "starting")
    BY <2>2 DEF LoopMove, Goto
  <2> QED
    BY <1>14, <2>1, <2>2 DEF LoopTop
<1>15. ASSUME NEW g \in Gens, LoopStarting(g) PROVE OneSignaller'
  BY <1>15 DEF LoopStarting, LoopReport, Goto
<1>16. ASSUME NEW g \in Gens, Exec(g) PROVE OneSignaller'
  BY SMTT(30), <1>16 DEF Exec, Goto
<1>17. ASSUME NEW g \in Gens, ExecFails(g) PROVE OneSignaller'
  BY <1>17 DEF ExecFails, LoopMove, Goto
<1>18. ASSUME NEW g \in Gens, Publish(g) PROVE OneSignaller'
  <2>1. /\ loop[g] = "publish" /\ loop' = [loop EXCEPT ![g] = "ctxcheck"]
        /\ cmd' = lspawn[g] /\ signalled' = FALSE
        /\ UNCHANGED <<gen, lspawn, child, terms, pc, target>>
    BY <1>18 DEF Publish, Goto
  <2>2. g = gen
    BY <2>1, AliveIsNewest DEF LoopAlive
  <2>3. \A s \in Spawns : Unsignalled(s)' => Unsignalled(s)
    BY <2>1, <2>2
  <2>4. \A h \in Gens : loop'[h] = "signal" => loop[h] = "signal"
    BY <2>1
  <2> HIDE DEF Unsignalled
  <2> QED
    BY SMTT(30), <2>1, <2>3, <2>4
<1>19. ASSUME NEW g \in Gens, CtxCheck(g) PROVE OneSignaller'
  <2>1. CASE LoopMove(g, "ctxcheck", "run")
    BY <2>1 DEF LoopMove, Goto
  <2>2. CASE ~LoopMove(g, "ctxcheck", "run")
    <3>1. /\ loop[g] = "ctxcheck" /\ loop' = [loop EXCEPT ![g] = "signal"]
          /\ ~signalled /\ signalled' = TRUE
          /\ UNCHANGED <<gen, lspawn, child, cmd, terms, pc, target>>
      BY <1>19, <2>2 DEF CtxCheck, Goto
    <3>2. g = gen
      BY <3>1, AliveIsNewest DEF LoopAlive
    <3>3. lspawn[g] \in Spawns /\ cmd = lspawn[g] /\ Unsignalled(lspawn[g])
      BY <3>1, <3>2
    <3>4. ~Unsignalled(lspawn[g])'
      BY <3>1, <3>2, <3>3
    <3>5. \A s \in Spawns : Unsignalled(s)' => Unsignalled(s)
      BY <3>1
    <3>6. \A h \in Gens : loop'[h] = "signal" => h = g
      <4> SUFFICES ASSUME NEW h \in Gens, h # g PROVE loop'[h] # "signal"
        OBVIOUS
      <4>1. ~LoopAlive(h)
        BY <3>2, AliveIsNewest
      <4> QED
        BY <3>1, <4>1 DEF LoopAlive
    <3>7. \A c \in Callers : pc[c] = "signal" => target[c] # lspawn[g]
      BY <3>3
    <3> HIDE DEF Unsignalled
    <3> QED
      BY <3>1, <3>3, <3>4, <3>5, <3>6, <3>7
  <2> QED
    BY <2>1, <2>2
<1>20. ASSUME NEW g \in Gens, SelfSignal(g) PROVE OneSignaller'
  BY SMTT(30), <1>20 DEF SelfSignal, Goto
<1>21. ASSUME NEW g \in Gens, LoopRunning(g) PROVE OneSignaller'
  BY SMTT(30), <1>21 DEF LoopRunning, LoopReport, Goto
<1>22. ASSUME NEW g \in Gens, Reap(g) PROVE OneSignaller'
  BY <1>22 DEF Reap, Goto
<1>23. ASSUME NEW g \in Gens, AnnounceReap(g) PROVE OneSignaller'
  BY <1>23 DEF AnnounceReap, Goto
<1>24. ASSUME NEW g \in Gens, DrainAndClear(g) PROVE OneSignaller'
  BY <1>24 DEF DrainAndClear, Goto
<1>25. ASSUME NEW g \in Gens, AfterRun(g) PROVE OneSignaller'
  <2>1. CASE LoopMove(g, "after", "stopped")
    BY <2>1 DEF LoopMove, Goto
  <2>2. CASE LoopMove(g, "after", "failed")
    BY <2>2 DEF LoopMove, Goto
  <2>3. CASE LoopMove(g, "after", "retry")
    BY <2>3 DEF LoopMove, Goto
  <2> QED
    BY <1>25, <2>1, <2>2, <2>3 DEF AfterRun
<1>26. ASSUME NEW g \in Gens, ReportStopped(g) PROVE OneSignaller'
  BY <1>26 DEF ReportStopped, LoopReport, Goto
<1>27. ASSUME NEW g \in Gens, ReportFailed(g) PROVE OneSignaller'
  BY <1>27 DEF ReportFailed, LoopReport, Goto
<1>28. ASSUME NEW g \in Gens, ScheduleRetry(g) PROVE OneSignaller'
  BY <1>28 DEF ScheduleRetry, LoopReport, Goto
<1>29. ASSUME NEW g \in Gens, Backoff(g) PROVE OneSignaller'
  <2>1. CASE LoopMove(g, "backoff", "top")
    BY <2>1 DEF LoopMove, Goto
  <2>2. CASE LoopMove(g, "backoff", "stopped")
    BY <2>2 DEF LoopMove, Goto
  <2> QED
    BY <1>29, <2>1, <2>2 DEF Backoff
<1>30. ASSUME NEW g \in Gens, CloseDone(g) PROVE OneSignaller'
  BY <1>30 DEF CloseDone, LoopMove, Goto
<1>31. ASSUME NEW g \in Gens, PendingWake(g) PROVE OneSignaller'
  BY <1>31 DEF PendingWake, DoneClosed
<1>32. ASSUME NEW g \in Gens, PendingStart(g) PROVE OneSignaller'
  <2>1. UNCHANGED <<running, gen, loop>> \/ Launched
    <3>1. StartBody([pend EXCEPT ![g] = "off"])
      BY <1>32 DEF PendingStart
    <3> QED
      BY <3>1, StartBodyEffect
  <2>2. CASE UNCHANGED <<running, gen, loop>>
    BY <1>32, <2>2 DEF PendingStart
  <2>3. CASE Launched
    BY <1>32, <2>3 DEF PendingStart, Launched
  <2> QED
    BY <2>1, <2>2, <2>3
<1>33. ASSUME NEW s \in Spawns, ChildExits(s) PROVE OneSignaller'
  BY <1>33 DEF ChildExits
<1>34. ASSUME NEW s \in Spawns, EscalatorStandsDown(s) PROVE OneSignaller'
  BY <1>34 DEF EscalatorStandsDown
<1>35. ASSUME NEW s \in Spawns, GraceExpires(s) PROVE OneSignaller'
  BY <1>35 DEF GraceExpires
<1>36. CASE UNCHANGED vars
  BY <1>36 DEF vars
<1> HIDE DEF LoopOrder, Handles, Ownership, OneSignaller, AtMostOneTerm,
             Unsignalled, StopPCs, SpawnPCs, PublishedPCs, ChildPCs
<1> QED
  BY <1>1, <1>2, <1>3, <1>4, <1>5, <1>6, <1>7, <1>8, <1>9, <1>10, <1>11, <1>12,
     <1>13, <1>14, <1>15, <1>16, <1>17, <1>18, <1>19, <1>20, <1>21, <1>22,
     <1>23, <1>24, <1>25, <1>26, <1>27, <1>28, <1>29, <1>30, <1>31, <1>32,
     <1>33, <1>34, <1>35, <1>36
     DEF Next, CallerNext, LoopNext, PendNext, EscalatorNext

(* Nothing is launched, and no state but Stopped written, after a Stop.      *)
LEMMA LastGenerationNext ==
  ASSUME TypeOK, LoopOrder, Handles, LastGeneration, [Next]_vars
  PROVE  LastGeneration'
<1> /\ gen \in 0..MaxGen
    /\ loop \in [Gens -> LoopPCs]
    /\ pc \in [Callers -> CallerPCs]
    /\ op \in [Callers -> Ops]
    /\ cgen \in [Callers -> 0..MaxGen]
    /\ result \in [Callers -> {"none", "idle", "clean", "deadline"}]
  BY DEF TypeOK
<1> USE BoundsAssumption DEF Gens, Spawns, None, callerVars, runVars, loopVars,
         cmdVars, osVars, LoopOrder, Handles, LastGeneration,
         LastGenerationFor, StopPCs
<1>1. ASSUME NEW c \in Callers, CallStart(c) PROVE LastGeneration'
  <2>1. UNCHANGED <<running, gen, loop>> \/ Launched
    <3>1. StartBody(pend)
      BY <1>1 DEF CallStart
    <3> QED
      BY <3>1, StartBodyEffect
  <2>2. CASE UNCHANGED <<running, gen, loop>>
    BY <1>1, <2>2 DEF CallStart
  <2>3. CASE Launched
    BY <1>1, <2>3 DEF CallStart, Launched
  <2> QED
    BY <2>1, <2>2, <2>3
<1>2. ASSUME NEW c \in Callers, RestartStart(c) PROVE LastGeneration'
  <2>1. UNCHANGED <<running, gen, loop>> \/ Launched
    <3>1. StartBody(pend)
      BY <1>2 DEF RestartStart
    <3> QED
      BY <3>1, StartBodyEffect
  <2>2. CASE UNCHANGED <<running, gen, loop>>
    BY <1>2, <2>2 DEF RestartStart
  <2>3. CASE Launched
    BY <1>2, <2>3 DEF RestartStart, Launched
  <2> QED
    BY <2>1, <2>2, <2>3
<1>3. ASSUME NEW c \in Callers, StopCancel(c) PROVE LastGeneration'
  BY <1>3 DEF StopCancel
<1>4. ASSUME NEW c \in Callers, StopTerminate(c) PROVE LastGeneration'
  BY <1>4 DEF StopTerminate
<1>5. ASSUME NEW c \in Callers, StopSignal(c) PROVE LastGeneration'
  BY <1>5 DEF StopSignal
<1>6. ASSUME NEW c \in Callers, StopDone(c) PROVE LastGeneration'
  BY <1>6 DEF StopDone, DoneClosed
<1>7. ASSUME NEW c \in Callers, StopDeadline(c) PROVE LastGeneration'
  BY <1>7 DEF StopDeadline, DoneClosed
<1>8. ASSUME NEW c \in Callers, StopResolve(c) PROVE LastGeneration'
  BY <1>8 DEF StopResolve, KillTarget, DoneClosed
<1>9. ASSUME NEW c \in Callers, StopCheck(c) PROVE LastGeneration'
  BY <1>9 DEF StopCheck
<1>10. ASSUME NEW c \in Callers, StopKill(c) PROVE LastGeneration'
  BY <1>10 DEF StopKill
<1>11. ASSUME NEW c \in Callers, StopFinish(c) PROVE LastGeneration'
  BY <1>11 DEF StopFinish, SetStateFor
<1>12. ASSUME NEW c \in Callers, NEW o \in {"stop", "restart"}, StopEnter(c, o)
      PROVE  LastGeneration'
  <2>1. /\ pc[c] = "idle" /\ UNCHANGED <<gen, loop, state>>
        /\ ~running' /\ (retired => retired') /\ (o = "stop" => retired')
        /\ op' = [op EXCEPT ![c] = o]
    <3> HIDE DEF LoopOrder, Handles, LastGeneration
    <3>1. pc[c] = "idle" /\ UNCHANGED <<gen, loop, state>>
      BY <1>12 DEF StopEnter
    <3>2. ~running' /\ retired' = (retired \/ o = "stop")
      BY <1>12 DEF StopEnter
    <3>3. op' = [op EXCEPT ![c] = o]
      BY <1>12 DEF StopEnter
    <3> QED
      BY <3>1, <3>2, <3>3
  <2>2. \/ /\ pc' = [pc EXCEPT ![c] = "cancel"]
           /\ cgen' = [cgen EXCEPT ![c] = gen] /\ result' = result
        \/ /\ o = "restart" /\ pc' = [pc EXCEPT ![c] = "start"]
           /\ cgen' = cgen /\ result' = [result EXCEPT ![c] = "idle"]
        \/ /\ o = "stop" /\ pc' = [pc EXCEPT ![c] = "returned"]
           /\ cgen' = cgen /\ result' = [result EXCEPT ![c] = "idle"]
    BY <1>12 DEF StopEnter
  <2>3. ASSUME NEW d \in Callers, d # c PROVE LastGenerationFor(d)'
    <3>1. /\ pc'[d] = pc[d] /\ op'[d] = op[d]
          /\ cgen'[d] = cgen[d] /\ result'[d] = result[d]
      BY <2>1, <2>2, <2>3
    <3> QED
      BY <2>1, <3>1
  <2>4. LastGenerationFor(c)'
    BY <2>1, <2>2
  <2> QED
    BY <2>3, <2>4
<1>13. ASSUME NEW g \in Gens, StartDelay(g) PROVE LastGeneration'
  <2>1. CASE LoopMove(g, "delay", "top")
    BY <2>1 DEF LoopMove, LoopReport, Goto
  <2>2. CASE LoopReport(g, "delay", "stopped", "closing")
    BY <2>2 DEF LoopMove, LoopReport, Goto
  <2> QED
    BY <1>13, <2>1, <2>2 DEF StartDelay
<1>14. ASSUME NEW g \in Gens, LoopTop(g) PROVE LastGeneration'
  <2>1. CASE LoopMove(g, "top", "closing")
    BY <2>1 DEF LoopMove, Goto
  <2>2. CASE LoopMove(g, "top", "starting")
    BY <2>2 DEF LoopMove, Goto
  <2> QED
    BY <1>14, <2>1, <2>2 DEF LoopTop
<1>15. ASSUME NEW g \in Gens, LoopStarting(g) PROVE LastGeneration'
  BY <1>15 DEF LoopStarting, LoopReport, Goto
<1>16. ASSUME NEW g \in Gens, Exec(g) PROVE LastGeneration'
  BY <1>16 DEF Exec, Goto
<1>17. ASSUME NEW g \in Gens, ExecFails(g) PROVE LastGeneration'
  BY <1>17 DEF ExecFails, LoopMove, Goto
<1>18. ASSUME NEW g \in Gens, Publish(g) PROVE LastGeneration'
  BY <1>18 DEF Publish, Goto
<1>19. ASSUME NEW g \in Gens, CtxCheck(g) PROVE LastGeneration'
  BY <1>19 DEF CtxCheck, LoopMove, Goto, Cancelled
<1>20. ASSUME NEW g \in Gens, SelfSignal(g) PROVE LastGeneration'
  BY <1>20 DEF SelfSignal, Goto
<1>21. ASSUME NEW g \in Gens, LoopRunning(g) PROVE LastGeneration'
  BY <1>21 DEF LoopRunning, LoopReport, Goto
<1>22. ASSUME NEW g \in Gens, Reap(g) PROVE LastGeneration'
  BY <1>22 DEF Reap, Goto
<1>23. ASSUME NEW g \in Gens, AnnounceReap(g) PROVE LastGeneration'
  BY <1>23 DEF AnnounceReap, Goto
<1>24. ASSUME NEW g \in Gens, DrainAndClear(g) PROVE LastGeneration'
  BY <1>24 DEF DrainAndClear, Goto
<1>25. ASSUME NEW g \in Gens, AfterRun(g) PROVE LastGeneration'
  <2>1. CASE LoopMove(g, "after", "stopped")
    BY <2>1 DEF LoopMove, Goto
  <2>2. CASE LoopMove(g, "after", "failed")
    BY <2>2 DEF LoopMove, Goto
  <2>3. CASE LoopMove(g, "after", "retry")
    BY <2>3 DEF LoopMove, Goto
  <2> QED
    BY <1>25, <2>1, <2>2, <2>3 DEF AfterRun
<1>26. ASSUME NEW g \in Gens, ReportStopped(g) PROVE LastGeneration'
  BY <1>26 DEF ReportStopped, LoopReport, Goto
<1>27. ASSUME NEW g \in Gens, ReportFailed(g) PROVE LastGeneration'
  BY <1>27 DEF ReportFailed, LoopReport, Goto
<1>28. ASSUME NEW g \in Gens, ScheduleRetry(g) PROVE LastGeneration'
  BY <1>28 DEF ScheduleRetry, LoopReport, Goto
<1>29. ASSUME NEW g \in Gens, Backoff(g) PROVE LastGeneration'
  <2>1. CASE LoopMove(g, "backoff", "top")
    BY <2>1 DEF LoopMove, Goto
  <2>2. CASE LoopMove(g, "backoff", "stopped")
    BY <2>2 DEF LoopMove, Goto
  <2> QED
    BY <1>29, <2>1, <2>2 DEF Backoff
<1>30. ASSUME NEW g \in Gens, CloseDone(g) PROVE LastGeneration'
  BY <1>30 DEF CloseDone, LoopMove, Goto
<1>31. ASSUME NEW g \in Gens, PendingWake(g) PROVE LastGeneration'
  BY <1>31 DEF PendingWake, DoneClosed
<1>32. ASSUME NEW g \in Gens, PendingStart(g) PROVE LastGeneration'
  <2>1. UNCHANGED <<running, gen, loop>> \/ Launched
    <3>1. StartBody([pend EXCEPT ![g] = "off"])
      BY <1>32 DEF PendingStart
    <3> QED
      BY <3>1, StartBodyEffect
  <2>2. CASE UNCHANGED <<running, gen, loop>>
    BY <1>32, <2>2 DEF PendingStart
  <2>3. CASE Launched
    BY <1>32, <2>3 DEF PendingStart, Launched
  <2> QED
    BY <2>1, <2>2, <2>3
<1>33. ASSUME NEW s \in Spawns, ChildExits(s) PROVE LastGeneration'
  BY <1>33 DEF ChildExits
<1>34. ASSUME NEW s \in Spawns, EscalatorStandsDown(s) PROVE LastGeneration'
  BY <1>34 DEF EscalatorStandsDown
<1>35. ASSUME NEW s \in Spawns, GraceExpires(s) PROVE LastGeneration'
  BY <1>35 DEF GraceExpires
<1>36. CASE UNCHANGED vars
  BY <1>36 DEF vars
<1> HIDE DEF LoopOrder, Handles, LastGeneration, LastGenerationFor, StopPCs
<1> QED
  BY <1>1, <1>2, <1>3, <1>4, <1>5, <1>6, <1>7, <1>8, <1>9, <1>10, <1>11, <1>12,
     <1>13, <1>14, <1>15, <1>16, <1>17, <1>18, <1>19, <1>20, <1>21, <1>22,
     <1>23, <1>24, <1>25, <1>26, <1>27, <1>28, <1>29, <1>30, <1>31, <1>32,
     <1>33, <1>34, <1>35, <1>36
     DEF Next, CallerNext, LoopNext, PendNext, EscalatorNext

-----------------------------------------------------------------------------
(* The inductive invariant.                                                *)
IInv == /\ TypeOK /\ LoopOrder /\ Handles /\ Ownership /\ KillScope
        /\ OneSignaller /\ LiveLoopReadsRunning /\ LastGeneration

LEMMA InitIInv == Init => IInv
<1> SUFFICES ASSUME Init PROVE IInv
  OBVIOUS
<1> USE BoundsAssumption DEF Init, Gens, Spawns, None
<1>1. TypeOK
  <2> /\ running \in BOOLEAN /\ retired \in BOOLEAN
      /\ startPending \in BOOLEAN /\ signalled \in BOOLEAN
    OBVIOUS
  <2>1. /\ gen \in 0..MaxGen /\ cancelled \subseteq Gens
        /\ cmd \in 0..MaxSpawn
        /\ exited \subseteq Spawns /\ killed \subseteq Spawns
        /\ state \in States
    BY DEF States
  <2>2. /\ loop \in [Gens -> LoopPCs] /\ lspawn \in [Gens -> 0..MaxSpawn]
        /\ pend \in [Gens -> {"off", "wait", "go"}]
    BY DEF LoopPCs
  <2>3. /\ child \in [Spawns -> {"unborn", "alive", "zombie", "reaped"}]
        /\ owner \in [Spawns -> 0..MaxGen] /\ terms \in [Spawns -> Nat]
        /\ esc \in [Spawns -> {"off", "armed"}]
    OBVIOUS
  <2>4. /\ pc \in [Callers -> CallerPCs] /\ op \in [Callers -> Ops]
        /\ cgen \in [Callers -> 0..MaxGen] /\ ccmd \in [Callers -> 0..MaxSpawn]
        /\ target \in [Callers -> 0..MaxSpawn]
        /\ result \in [Callers -> {"none", "idle", "clean", "deadline"}]
    BY DEF CallerPCs, Ops
  <2> QED
    BY <2>1, <2>2, <2>3, <2>4 DEF TypeOK
<1>2. LoopOrder /\ Handles /\ LiveLoopReadsRunning
  BY DEF LoopOrder, Handles, LiveLoopReadsRunning, StopPCs, SpawnPCs,
         PublishedPCs
<1>3. Ownership
  BY DEF Ownership, ChildUnreaped, SpawnPCs, PublishedPCs
<1>4. KillScope /\ LastGeneration
  BY DEF KillScope, LastGeneration, LastGenerationFor, StopPCs
<1>5. OneSignaller
  BY DEF OneSignaller, AtMostOneTerm
<1> QED
  BY <1>1, <1>2, <1>3, <1>4, <1>5 DEF IInv

LEMMA IInvInductive == IInv /\ [Next]_vars => IInv'
BY TypeNext, LoopOrderNext, HandlesNext, OwnershipNext, KillScopeNext,
   OneSignallerNext, LiveLoopNext, LastGenerationNext DEF IInv

(* Every reachable state satisfies the inductive invariant.                *)
THEOREM Invariance == Spec => []IInv
BY InitIInv, IInvInductive, PTL DEF Spec

(* Every reachable state is well typed.                                    *)
THEOREM TypeCorrect == Spec => []TypeOK
BY Invariance, PTL DEF IInv

(* "ONE SUPERVISE LOOP AT A TIME": for any number of callers and whatever  *)
(* deadlines expire, no two supervise loops of a Process are alive at once.*)
THEOREM OneLoopAlways == Spec => []OneLoop
<1>1. IInv => OneLoop
  BY AliveIsNewest DEF IInv, OneLoop
<1> QED
  BY Invariance, <1>1, PTL

(* Two children of one Process are never in the process table together.    *)
THEOREM OneChildAlways == Spec => []OneChild
<1>1. IInv => OneChild
  <2> SUFFICES ASSUME IInv, NEW s \in Spawns, NEW t \in Spawns,
                      ChildUnreaped(s), ChildUnreaped(t)
               PROVE  s = t
    BY DEF OneChild
  <2>1. ASSUME NEW u \in Spawns, ChildUnreaped(u)
        PROVE  owner[u] = gen /\ lspawn[owner[u]] = u
    <3>1. /\ owner[u] \in Gens /\ loop[owner[u]] \in ChildPCs
          /\ lspawn[owner[u]] = u
      BY <2>1 DEF IInv, TypeOK, Ownership, ChildUnreaped, Gens, None
    <3>2. LoopAlive(owner[u])
      BY <3>1 DEF LoopAlive, ChildPCs
    <3> QED
      BY <3>1, <3>2, AliveIsNewest DEF IInv
  <2> QED
    BY <2>1
<1> QED
  BY Invariance, <1>1, PTL

(* No spawn is ever sent a second SIGTERM, whoever else calls terminate(). *)
THEOREM AtMostOneTermAlways == Spec => []AtMostOneTerm
BY Invariance, PTL DEF IInv, OneSignaller

(* The SIGKILL of an expired Stop never reaches a successor's child.       *)
THEOREM KillIsScopedAlways == Spec => []KillIsScoped
<1>1. IInv => KillIsScoped
  BY DEF IInv, KillScope, Handles, KillIsScoped, Spawns, None
<1> QED
  BY Invariance, <1>1, PTL

(* An uncancelled loop waiting on its child reads Running.                 *)
THEOREM LiveLoopReadsRunningAlways == Spec => []LiveLoopReadsRunning
BY Invariance, PTL DEF IInv

(* A Stop that ended a loop in time leaves no loop and no child, for good. *)
THEOREM CleanStopIsFinalAlways == Spec => []CleanStopIsFinal
<1>1. IInv => CleanStopIsFinal
  <2> SUFFICES ASSUME IInv, NEW c \in Callers, op[c] = "stop",
                      pc[c] = "returned", result[c] = "clean"
               PROVE  /\ state = "stopped"
                      /\ \A g \in Gens : ~LoopAlive(g)
                      /\ \A s \in Spawns : ~ChildUnreaped(s)
    BY DEF CleanStopIsFinal
  <2>1. state = "stopped" /\ loop[gen] = "ended"
    BY DEF IInv, LastGeneration, LastGenerationFor
  <2>2. ASSUME NEW g \in Gens PROVE ~LoopAlive(g)
    BY <2>1, AliveIsNewest DEF IInv, LoopAlive
  <2>3. ASSUME NEW s \in Spawns PROVE ~ChildUnreaped(s)
    <3> SUFFICES ASSUME ChildUnreaped(s) PROVE FALSE
      OBVIOUS
    <3>1. owner[s] \in Gens /\ loop[owner[s]] \in ChildPCs
      BY DEF IInv, TypeOK, Ownership, ChildUnreaped, Gens, None
    <3> QED
      BY <3>1, <2>2 DEF LoopAlive, ChildPCs
  <2> QED
    BY <2>1, <2>2, <2>3
<1> QED
  BY Invariance, <1>1, PTL

(* The three safety properties of the run, from the theorems above: one    *)
(* loop and one child at a time,                                           *)
THEOREM OneAtATimeAlways == Spec => []OneAtATime
BY OneLoopAlways, OneChildAlways, PTL DEF OneAtATime

(* no second SIGTERM and no SIGKILL of a successor,                        *)
THEOREM SignalsInScopeAlways == Spec => []SignalsInScope
BY AtMostOneTermAlways, KillIsScopedAlways, PTL DEF SignalsInScope

(* and a status that is true while a child runs and after a clean Stop.    *)
THEOREM StatusIsTrueAlways == Spec => []StatusIsTrue
BY LiveLoopReadsRunningAlways, CleanStopIsFinalAlways, PTL DEF StatusIsTrue

-----------------------------------------------------------------------------
(* A process that was retired in time reads Stopped once it is at rest.       *)

(* Without an expired Stop, whoever took running away from the newest loop *)
(* is still on its way to report Stopped, or has: nobody else reports once *)
(* that loop has ended.                                                    *)
InTime == \A c \in Callers : result[c] # "deadline"
Stopping(c) == pc[c] \in {"cancel", "terminate", "signal", "wait", "finish"} /\ cgen[c] = gen
Retirement ==
  /\ retired => ~running
  /\ gen = None => state = "stopped"
  /\ \A c \in Callers :
       /\ pc[c] \in {"idle", "cancel", "terminate", "signal", "wait"} => result[c] # "deadline"
       /\ pc[c] = "finish" /\ result[c] # "deadline" => loop[cgen[c]] = "ended"
  /\ InTime /\ gen # None /\ ~running =>
       \/ \E c \in Callers : Stopping(c)
       \/ loop[gen] = "ended" /\ state = "stopped"

(* A step of a loop keeps it: the loop that steps is the newest.           *)
LEMMA LoopStepKeeps ==
  ASSUME IInv, Retirement, NEW g \in Gens, loop[g] \notin {"unborn", "ended"},
         UNCHANGED <<runVars, callerVars>>, NEW to \in LoopPCs, loop' = [loop EXCEPT ![g] = to]
  PROVE  Retirement'
<1>1. g = gen /\ gen # None /\ loop[gen] # "ended" /\ loop \in [Gens -> LoopPCs]
  BY SMTT(30), AliveIsNewest, BoundsAssumption DEF IInv, TypeOK, LoopAlive, Gens, None
<1>2. \A h \in Gens : loop[h] = "ended" => loop'[h] = "ended"
  BY <1>1
<1>3. \A c \in Callers : pc[c] = "finish" => cgen[c] \in Gens
  BY BoundsAssumption DEF IInv, TypeOK, Handles, StopPCs, Gens
<1> QED
  BY <1>1, <1>2, <1>3 DEF Retirement, InTime, Stopping, runVars, callerVars

(* So does a Start, whether it launches a loop or not.                     *)
LEMMA LaunchRetires ==
  ASSUME IInv, Retirement, UNCHANGED <<running, gen, loop>> \/ Launched,
         UNCHANGED <<state, cgen, result, retired>>,
         \A d \in Callers : pc'[d] = pc[d] \/ (pc[d] \in {"idle", "start"} /\ pc'[d] = "returned")
  PROVE  Retirement'
<1>1. \A c \in Callers : pc'[c] = "finish" => pc[c] = "finish" /\ cgen[c] \in Gens
  BY BoundsAssumption DEF IInv, TypeOK, Handles, StopPCs, Gens
<1>2. CASE UNCHANGED <<running, gen, loop>>
  BY <1>1, <1>2 DEF Retirement, InTime, Stopping
<1>3. CASE Launched
  <2>1. loop \in [Gens -> LoopPCs] /\ gen' # None /\ running' /\ ~retired
    BY <1>3, BoundsAssumption DEF IInv, TypeOK, Launched, Gens, None
  <2>2. \A h \in Gens : loop[h] = "ended" => loop'[h] = "ended"
    BY <1>3, <2>1 DEF Launched
  <2> QED
    BY <1>1, <2>1, <2>2 DEF Retirement
<1> QED
  BY <1>2, <1>3

LEMMA CallerTypes ==
  ASSUME IInv
  PROVE  /\ pc \in [Callers -> CallerPCs] /\ op \in [Callers -> Ops]
         /\ cgen \in [Callers -> 0..MaxGen]
         /\ result \in [Callers -> {"none", "idle", "clean", "deadline"}]
         /\ \A c \in Callers : pc[c] \in {"resolve", "check", "kill"} => result[c] = "deadline"
BY DEF IInv, TypeOK, LastGeneration, LastGenerationFor

LEMMA RetirementNext ==
  ASSUME IInv, Retirement, [Next]_vars
  PROVE  Retirement'
<1> USE DEF Retirement, InTime, Stopping
<1>1. ASSUME NEW c \in Callers, CallStart(c) PROVE Retirement'
  <2>1. UNCHANGED <<running, gen, loop>> \/ Launched
    BY <1>1, StartBodyEffect DEF CallStart, IInv
  <2>2. UNCHANGED <<state, cgen, result, retired>>
    BY <1>1 DEF CallStart, callerVars
  <2>3. \A d \in Callers : pc'[d] = pc[d] \/ (pc[d] \in {"idle", "start"} /\ pc'[d] = "returned")
    BY <1>1 DEF CallStart, IInv, TypeOK, callerVars
  <2> QED
    BY <2>1, <2>2, <2>3, LaunchRetires
<1>2. ASSUME NEW c \in Callers, RestartStart(c) PROVE Retirement'
  <2>1. UNCHANGED <<running, gen, loop>> \/ Launched
    BY <1>2, StartBodyEffect DEF RestartStart, IInv
  <2>2. UNCHANGED <<state, cgen, result, retired>>
    BY <1>2 DEF RestartStart, callerVars
  <2>3. \A d \in Callers : pc'[d] = pc[d] \/ (pc[d] \in {"idle", "start"} /\ pc'[d] = "returned")
    BY <1>2 DEF RestartStart, IInv, TypeOK, callerVars
  <2> QED
    BY <2>1, <2>2, <2>3, LaunchRetires
<1>3. ASSUME NEW c \in Callers, StopCancel(c) PROVE Retirement'
  BY <1>3, CallerTypes DEF StopCancel, runVars, loopVars, callerVars
<1>4. ASSUME NEW c \in Callers, StopTerminate(c) PROVE Retirement'
  BY <1>4, CallerTypes DEF StopTerminate, runVars, loopVars, callerVars
<1>5. ASSUME NEW c \in Callers, StopSignal(c) PROVE Retirement'
  BY <1>5, CallerTypes DEF StopSignal, runVars, loopVars, callerVars
<1>6. ASSUME NEW c \in Callers, StopDone(c) PROVE Retirement'
  BY <1>6, CallerTypes DEF StopDone, runVars, loopVars, callerVars, DoneClosed
<1>7. ASSUME NEW c \in Callers, StopDeadline(c) PROVE Retirement'
  BY <1>7, CallerTypes DEF StopDeadline, runVars, loopVars, callerVars
<1>8. ASSUME NEW c \in Callers, StopResolve(c) PROVE Retirement'
  BY <1>8, CallerTypes DEF StopResolve, runVars, loopVars, callerVars
<1>9. ASSUME NEW c \in Callers, StopCheck(c) PROVE Retirement'
  BY <1>9, CallerTypes DEF StopCheck, runVars, loopVars, callerVars
<1>10. ASSUME NEW c \in Callers, StopKill(c) PROVE Retirement'
  BY <1>10, CallerTypes DEF StopKill, runVars, loopVars, callerVars
<1>11. ASSUME NEW c \in Callers, StopFinish(c) PROVE Retirement'
  BY <1>11, CallerTypes DEF StopFinish, runVars, loopVars, callerVars,
       SetStateFor
<1>12. ASSUME NEW c \in Callers, NEW o \in {"stop", "restart"}, StopEnter(c, o)
      PROVE  Retirement'
  BY <1>12, CallerTypes DEF StopEnter, runVars, loopVars, callerVars
<1>13. ASSUME NEW g \in Gens, StartDelay(g) PROVE Retirement'
  <2>1. loop[g] \notin {"unborn", "ended"} /\ UNCHANGED <<runVars, callerVars>>
    BY <1>13 DEF StartDelay, LoopMove, LoopReport, callerVars
  <2>2. \E to \in LoopPCs : loop' = [loop EXCEPT ![g] = to]
    BY <1>13 DEF StartDelay, LoopMove, LoopReport, Goto, LoopPCs
  <2> QED
    BY <2>1, <2>2, LoopStepKeeps
<1>14. ASSUME NEW g \in Gens, LoopTop(g) PROVE Retirement'
  <2>1. loop[g] \notin {"unborn", "ended"} /\ UNCHANGED <<runVars, callerVars>>
    BY <1>14 DEF LoopTop, LoopMove, LoopReport, callerVars
  <2>2. \E to \in LoopPCs : loop' = [loop EXCEPT ![g] = to]
    BY <1>14 DEF LoopTop, LoopMove, LoopReport, Goto, LoopPCs
  <2> QED
    BY <2>1, <2>2, LoopStepKeeps
<1>15. ASSUME NEW g \in Gens, LoopStarting(g) PROVE Retirement'
  <2>1. loop[g] \notin {"unborn", "ended"} /\ UNCHANGED <<runVars, callerVars>>
    BY <1>15 DEF LoopStarting, LoopMove, LoopReport, callerVars
  <2>2. \E to \in LoopPCs : loop' = [loop EXCEPT ![g] = to]
    BY <1>15 DEF LoopStarting, LoopMove, LoopReport, Goto, LoopPCs
  <2> QED
    BY <2>1, <2>2, LoopStepKeeps
<1>16. ASSUME NEW g \in Gens, Exec(g) PROVE Retirement'
  <2>1. loop[g] \notin {"unborn", "ended"} /\ UNCHANGED <<runVars, callerVars>>
    BY <1>16 DEF Exec, LoopMove, LoopReport, callerVars
  <2>2. \E to \in LoopPCs : loop' = [loop EXCEPT ![g] = to]
    BY <1>16 DEF Exec, LoopMove, LoopReport, Goto, LoopPCs
  <2> QED
    BY <2>1, <2>2, LoopStepKeeps
<1>17. ASSUME NEW g \in Gens, ExecFails(g) PROVE Retirement'
  <2>1. loop[g] \notin {"unborn", "ended"} /\ UNCHANGED <<runVars, callerVars>>
    BY <1>17 DEF ExecFails, LoopMove, LoopReport, callerVars
  <2>2. \E to \in LoopPCs : loop' = [loop EXCEPT ![g] = to]
    BY <1>17 DEF ExecFails, LoopMove, LoopReport, Goto, LoopPCs
  <2> QED
    BY <2>1, <2>2, LoopStepKeeps
<1>18. ASSUME NEW g \in Gens, Publish(g) PROVE Retirement'
  <2>1. loop[g] \notin {"unborn", "ended"} /\ UNCHANGED <<runVars, callerVars>>
    BY <1>18 DEF Publish, LoopMove, LoopReport, callerVars
  <2>2. \E to \in LoopPCs : loop' = [loop EXCEPT ![g] = to]
    BY <1>18 DEF Publish, LoopMove, LoopReport, Goto, LoopPCs
  <2> QED
    BY <2>1, <2>2, LoopStepKeeps
<1>19. ASSUME NEW g \in Gens, CtxCheck(g) PROVE Retirement'
  <2>1. loop[g] \notin {"unborn", "ended"} /\ UNCHANGED <<runVars, callerVars>>
    BY <1>19 DEF CtxCheck, LoopMove, LoopReport, callerVars
  <2>2. \E to \in LoopPCs : loop' = [loop EXCEPT ![g] = to]
    BY <1>19 DEF CtxCheck, LoopMove, LoopReport, Goto, LoopPCs
  <2> QED
    BY <2>1, <2>2, LoopStepKeeps
<1>20. ASSUME NEW g \in Gens, SelfSignal(g) PROVE Retirement'
  <2>1. loop[g] \notin {"unborn", "ended"} /\ UNCHANGED <<runVars, callerVars>>
    BY <1>20 DEF SelfSignal, LoopMove, LoopReport, callerVars
  <2>2. \E to \in LoopPCs : loop' = [loop EXCEPT ![g] = to]
    BY <1>20 DEF SelfSignal, LoopMove, LoopReport, Goto, LoopPCs
  <2> QED
    BY <2>1, <2>2, LoopStepKeeps
<1>21. ASSUME NEW g \in Gens, LoopRunning(g) PROVE Retirement'
  <2>1. loop[g] \notin {"unborn", "ended"} /\ UNCHANGED <<runVars, callerVars>>
    BY <1>21 DEF LoopRunning, LoopMove, LoopReport, callerVars
  <2>2. \E to \in LoopPCs : loop' = [loop EXCEPT ![g] = to]
    BY <1>21 DEF LoopRunning, LoopMove, LoopReport, Goto, LoopPCs
  <2> QED
    BY <2>1, <2>2, LoopStepKeeps
<1>22. ASSUME NEW g \in Gens, Reap(g) PROVE Retirement'
  <2>1. loop[g] \notin {"unborn", "ended"} /\ UNCHANGED <<runVars, callerVars>>
    BY <1>22 DEF Reap, LoopMove, LoopReport, callerVars
  <2>2. \E to \in LoopPCs : loop' = [loop EXCEPT ![g] = to]
    BY <1>22 DEF Reap, LoopMove, LoopReport, Goto, LoopPCs
  <2> QED
    BY <2>1, <2>2, LoopStepKeeps
<1>23. ASSUME NEW g \in Gens, AnnounceReap(g) PROVE Retirement'
  <2>1. loop[g] \notin {"unborn", "ended"} /\ UNCHANGED <<runVars, callerVars>>
    BY <1>23 DEF AnnounceReap, LoopMove, LoopReport, callerVars
  <2>2. \E to \in LoopPCs : loop' = [loop EXCEPT ![g] = to]
    BY <1>23 DEF AnnounceReap, LoopMove, LoopReport, Goto, LoopPCs
  <2> QED
    BY <2>1, <2>2, LoopStepKeeps
<1>24. ASSUME NEW g \in Gens, DrainAndClear(g) PROVE Retirement'
  <2>1. loop[g] \notin {"unborn", "ended"} /\ UNCHANGED <<runVars, callerVars>>
    BY <1>24 DEF DrainAndClear, LoopMove, LoopReport, callerVars
  <2>2. \E to \in LoopPCs : loop' = [loop EXCEPT ![g] = to]
    BY <1>24 DEF DrainAndClear, LoopMove, LoopReport, Goto, LoopPCs
  <2> QED
    BY <2>1, <2>2, LoopStepKeeps
<1>25. ASSUME NEW g \in Gens, AfterRun(g) PROVE Retirement'
  <2>1. loop[g] \notin {"unborn", "ended"} /\ UNCHANGED <<runVars, callerVars>>
    BY <1>25 DEF AfterRun, LoopMove, LoopReport, callerVars
  <2>2. \E to \in LoopPCs : loop' = [loop EXCEPT ![g] = to]
    BY <1>25 DEF AfterRun, LoopMove, LoopReport, Goto, LoopPCs
  <2> QED
    BY <2>1, <2>2, LoopStepKeeps
<1>26. ASSUME NEW g \in Gens, ReportStopped(g) PROVE Retirement'
  <2>1. loop[g] \notin {"unborn", "ended"} /\ UNCHANGED <<runVars, callerVars>>
    BY <1>26 DEF ReportStopped, LoopMove, LoopReport, callerVars
  <2>2. \E to \in LoopPCs : loop' = [loop EXCEPT ![g] = to]
    BY <1>26 DEF ReportStopped, LoopMove, LoopReport, Goto, LoopPCs
  <2> QED
    BY <2>1, <2>2, LoopStepKeeps
<1>27. ASSUME NEW g \in Gens, ReportFailed(g) PROVE Retirement'
  <2>1. loop[g] \notin {"unborn", "ended"} /\ UNCHANGED <<runVars, callerVars>>
    BY <1>27 DEF ReportFailed, LoopMove, LoopReport, callerVars
  <2>2. \E to \in LoopPCs : loop' = [loop EXCEPT ![g] = to]
    BY <1>27 DEF ReportFailed, LoopMove, LoopReport, Goto, LoopPCs
  <2> QED
    BY <2>1, <2>2, LoopStepKeeps
<1>28. ASSUME NEW g \in Gens, ScheduleRetry(g) PROVE Retirement'
  <2>1. loop[g] \notin {"unborn", "ended"} /\ UNCHANGED <<runVars, callerVars>>
    BY <1>28 DEF ScheduleRetry, LoopMove, LoopReport, callerVars
  <2>2. \E to \in LoopPCs : loop' = [loop EXCEPT ![g] = to]
    BY <1>28 DEF ScheduleRetry, LoopMove, LoopReport, Goto, LoopPCs
  <2> QED
    BY <2>1, <2>2, LoopStepKeeps
<1>29. ASSUME NEW g \in Gens, Backoff(g) PROVE Retirement'
  <2>1. loop[g] \notin {"unborn", "ended"} /\ UNCHANGED <<runVars, callerVars>>
    BY <1>29 DEF Backoff, LoopMove, LoopReport, callerVars
  <2>2. \E to \in LoopPCs : loop' = [loop EXCEPT ![g] = to]
    BY <1>29 DEF Backoff, LoopMove, LoopReport, Goto, LoopPCs
  <2> QED
    BY <2>1, <2>2, LoopStepKeeps
<1>30. ASSUME NEW g \in Gens, CloseDone(g) PROVE Retirement'
  <2>1. loop[g] \notin {"unborn", "ended"} /\ UNCHANGED <<runVars, callerVars>>
    BY <1>30 DEF CloseDone, LoopMove, LoopReport, callerVars
  <2>2. \E to \in LoopPCs : loop' = [loop EXCEPT ![g] = to]
    BY <1>30 DEF CloseDone, LoopMove, LoopReport, Goto, LoopPCs
  <2> QED
    BY <2>1, <2>2, LoopStepKeeps
<1>31. ASSUME NEW g \in Gens, PendingWake(g) PROVE Retirement'
  BY <1>31 DEF PendingWake, runVars, loopVars, callerVars
<1>32. ASSUME NEW g \in Gens, PendingStart(g) PROVE Retirement'
  <2>1. UNCHANGED <<running, gen, loop>> \/ Launched
    BY <1>32, StartBodyEffect DEF PendingStart, IInv
  <2>2. UNCHANGED <<state, cgen, result, retired>>
    BY <1>32 DEF PendingStart, callerVars
  <2>3. \A d \in Callers : pc'[d] = pc[d] \/ (pc[d] \in {"idle", "start"} /\ pc'[d] = "returned")
    BY <1>32 DEF PendingStart, IInv, TypeOK, callerVars
  <2> QED
    BY <2>1, <2>2, <2>3, LaunchRetires
<1>33. ASSUME NEW s \in Spawns, ChildExits(s) PROVE Retirement'
  BY <1>33 DEF ChildExits, runVars, loopVars, callerVars
<1>34. ASSUME NEW s \in Spawns, EscalatorStandsDown(s) PROVE Retirement'
  BY <1>34 DEF EscalatorStandsDown, runVars, loopVars, callerVars
<1>35. ASSUME NEW s \in Spawns, GraceExpires(s) PROVE Retirement'
  BY <1>35 DEF GraceExpires, runVars, loopVars, callerVars
<1>36. CASE UNCHANGED vars
  BY <1>36 DEF vars, runVars, loopVars, callerVars
<1> HIDE DEF Retirement, InTime, Stopping
<1> QED
  BY <1>1, <1>2, <1>3, <1>4, <1>5, <1>6, <1>7, <1>8, <1>9, <1>10, <1>11, <1>12,
     <1>13, <1>14, <1>15, <1>16, <1>17, <1>18, <1>19, <1>20, <1>21, <1>22,
     <1>23, <1>24, <1>25, <1>26, <1>27, <1>28, <1>29, <1>30, <1>31, <1>32,
     <1>33, <1>34, <1>35, <1>36
     DEF Next, CallerNext, LoopNext, PendNext, EscalatorNext

(* A retired process at rest reads Stopped, unless a Stop gave up on its   *)
(* deadline: "Both end at StateStopped" (supervisor.go:832).               *)
THEOREM CleanlyRetiredReadsStoppedAlways == Spec => []CleanlyRetiredReadsStopped
<1>1. Init => IInv /\ Retirement
  BY InitIInv DEF Init, Retirement, InTime
<1>2. IInv /\ Retirement /\ [Next]_vars => (IInv /\ Retirement)'
  BY IInvInductive, RetirementNext
<1>3. IInv /\ Retirement => CleanlyRetiredReadsStopped
  BY DEF Retirement, InTime, Stopping, CleanlyRetiredReadsStopped, RetiredReadsStopped, Quiet
<1> QED
  BY <1>1, <1>2, <1>3, PTL DEF Spec
=============================================================================

--------------------------- MODULE JobQueueProofs ---------------------------
(***************************************************************************)
(* The safety of the job queue, and that it implements the ledger, for any *)
(* jobs, limits and bounds.                                                *)
(*                                                                         *)
(* Everything but the unique index rests on OnePerKind, which holds of     *)
(* every kind the server registers: q.running is keyed by job, so a job    *)
(* must not be started again while its last execution has yet to give up   *)
(* its slot.                                                               *)
(***************************************************************************)
EXTENDS JobQueue, FiniteSetTheorems, FunctionTheorems, TLAPS

OnePerKind == KindLimit = 1

(* The registered jobs and the executions that are not over are each       *)
(* other's.                                                                *)
Registration ==
  /\ \A e \in Execs : phase[e] # "over" => /\ job[e] \in Jobs
                                           /\ running[job[e]] = e
  /\ \A j \in Jobs : running[j] # None => /\ phase[running[j]] # "over"
                                          /\ job[running[j]] = j

(* byKind tells which kinds are taken, and each is taken by one job.       *)
KindCount ==
  /\ \A k \in Kinds :
       byKind[k] = IF \E j \in Registered : KindOf[j] = k THEN 1 ELSE 0
  /\ \A i, j \in Registered : KindOf[i] = KindOf[j] => i = j
  /\ Cardinality(Registered) <= Limit

(* What a Tick found free is free until it has started its job: it holds   *)
(* dispatchMu, as a Cancel does. There is no execution without a process.  *)
Dispatch ==
  /\ disp \in {"claim", "start"} => /\ \A k \in kinds : byKind[k] = 0
                                    /\ Cardinality(Registered) < Limit
  /\ disp = "start" <=> claimed # None
  /\ disp = "start" => KindOf[claimed] \in kinds
  /\ disp \in {"down", "recover", "exited"} =>
       \A e \in Execs : phase[e] = "over"
  /\ disp \in {"unwind", "exited"} => stopping
  /\ cancelling # None =>
       /\ ~DispatcherLocked
       /\ found = None => running[cancelling] = None

(* Whoever has a job in hand has its row, and charged it for the attempt.  *)
Holding ==
  /\ WorkerHoldsRow
  /\ claimed # None => row[claimed] = "running"
  /\ \A e \in Working : attempt[e] = attempts[job[e]]

(* The partial unique index.                                               *)
UniqueIndex ==
  \A j, k \in Jobs : Same(j, k) => ~(row[j] \in Active /\ row[k] \in Active)

(* Attempts pay for crashes, and a row that waits, or is yet to, has one   *)
(* left.                                                                   *)
Charged ==
  \A j \in Jobs :
    /\ attempts[j] <= MaxAttempts
    /\ row[j] \in Waiting \union {"none"} => attempts[j] < MaxAttempts
    /\ crashes[j] <= attempts[j]
    /\ j \in InHand => crashes[j] < attempts[j]

IInv == /\ TypeOK /\ Registration /\ KindCount /\ Dispatch /\ Holding
        /\ UniqueIndex /\ Charged
-----------------------------------------------------------------------------
(* What a counter per kind is counted up and down to.                      *)
LEMMA Counting ==
  ASSUME NEW S, NEW f \in [S -> Nat], NEW k
  PROVE  /\ [f EXCEPT ![k] = @ + 1] \in [S -> Nat]
         /\ [f EXCEPT ![k] = IF @ > 0 THEN @ - 1 ELSE 0] \in [S -> Nat]
<1>1. CASE k \in S
  BY <1>1
<1>2. CASE k \notin S
  <2>1. /\ [f EXCEPT ![k] = @ + 1] = f
        /\ [f EXCEPT ![k] = IF @ > 0 THEN @ - 1 ELSE 0] = f
    BY <1>2
  <2> QED
    BY <2>1
<1> QED
  BY <1>1, <1>2

(* Every step preserves the types.                                         *)
LEMMA TypeNext ==
  ASSUME TypeOK, Registration, Dispatch, [Next]_vars
  PROVE  TypeOK'
<1> USE JobsAssumption, ExecsAssumption, LimitsAssumption
    DEF TypeOK, rowVars, dispVars, execVars, cancelVars, history, vars, None,
        Waiting, Active, Terminal, NoOutcome
<1>1. ASSUME NEW j \in Jobs, Submit(j) PROVE TypeOK'
  BY <1>1 DEF Submit
<1>2. ASSUME NEW j \in Jobs, CancelLook(j) PROVE TypeOK'
  BY <1>2 DEF CancelLook
<1>3. ASSUME NEW j \in Jobs, Defer(j) PROVE TypeOK'
  BY <1>3 DEF Defer
<1>4. ASSUME NEW j \in Jobs, RetryJob(j) PROVE TypeOK'
  BY <1>4 DEF RetryJob
<1>5. ASSUME NEW j \in Jobs, Remove(j) PROVE TypeOK'
  BY <1>5 DEF Remove
<1>6. ASSUME NEW j \in Jobs, TimePasses(j) PROVE TypeOK'
  BY <1>6 DEF TimePasses
<1>7. ASSUME NEW p \in BOOLEAN, SetPaused(p) PROVE TypeOK'
  BY <1>7 DEF SetPaused
<1>8. ASSUME Recover PROVE TypeOK'
  BY <1>8 DEF Recover
<1>9. ASSUME Tick PROVE TypeOK'
  <2>1. Eligible \subseteq Kinds
    BY DEF Eligible
  <2>2. PICK admitted \in SUBSET Kinds :
          /\ kinds' = admitted
          /\ disp' = IF admitted = {} THEN "select" ELSE "claim"
    BY <1>9, <2>1 DEF Tick
  <2> QED
    BY <1>9, <2>2 DEF Tick
<1>10. ASSUME ClaimJob PROVE TypeOK'
  BY <1>10 DEF ClaimJob, Claimable
<1>11. ASSUME ClaimNothing PROVE TypeOK'
  BY <1>11 DEF ClaimNothing
<1>12. ASSUME Unwind PROVE TypeOK'
  BY <1>12 DEF Unwind
<1>13. ASSUME RunReturns PROVE TypeOK'
  BY <1>13 DEF RunReturns
<1>14. ASSUME CancelAct PROVE TypeOK'
  BY <1>14 DEF CancelAct
<1>15. ASSUME Shutdown PROVE TypeOK'
  BY <1>15 DEF Shutdown
<1>16. ASSUME ProcessEnds PROVE TypeOK'
  <2>1. downs' \in 0..MaxDowns
    BY <1>16 DEF ProcessEnds, Dispatch
  <2>2. crashes' \in [Jobs -> Nat]
    BY <1>16 DEF ProcessEnds
  <2>3. outcome' \in [Execs -> [err : {"none", "nil", "permanent", "retryable"},
                               cancelled : BOOLEAN]]
    BY <1>16 DEF ProcessEnds
  <2> QED
    BY <1>16, <2>1, <2>2, <2>3 DEF ProcessEnds
<1>17. ASSUME ProcessStarts PROVE TypeOK'
  BY <1>17 DEF ProcessStarts
<1>18. ASSUME NEW e \in Execs, StartExecution(e) PROVE TypeOK'
  <2>1. claimed \in Jobs
    BY <1>18 DEF StartExecution, Dispatch
  <2>2. byKind' \in [Kinds -> Nat]
    BY <1>18, Counting DEF StartExecution
  <2>3. /\ running' \in [Jobs -> Execs \union {None}]
        /\ attempt' \in [Execs -> Nat] /\ cancelled' \in [Execs -> BOOLEAN]
        /\ job' \in [Execs -> Jobs \union {None}]
        /\ phase' \in [Execs -> {"over", "work", "finish", "release"}]
    BY <1>18, <2>1 DEF StartExecution
  <2> QED
    BY <1>18, <2>2, <2>3 DEF StartExecution
<1>19. ASSUME NEW e \in Execs, WorkerReturns(e) PROVE TypeOK'
  BY <1>19 DEF WorkerReturns
<1>20. ASSUME NEW e \in Execs, FinishWrite(e) PROVE TypeOK'
  <2>1. /\ row' \in [Jobs -> Active \union Terminal \union {"none", "gone"}]
        /\ UNCHANGED <<dispVars, running, byKind, paused, stopping, job, attempt,
                       cancelled, outcome, cancelVars, crashes, retries, downs, faults>>
    BY <1>20 DEF FinishWrite, UpdateRow, Verdict
  <2>2. attempts' \in [Jobs -> Nat]
    <3>1. \/ attempts' = attempts
          \/ /\ attempts[job[e]] > 0
             /\ attempts' = [attempts EXCEPT ![job[e]] = @ - 1]
      BY <1>20 DEF FinishWrite
    <3> QED
      BY <3>1
  <2>3. held' \subseteq Jobs
    <3>1. job[e] \in Jobs
      BY <1>20 DEF FinishWrite, Registration
    <3>2. held' \in {held \union {job[e]}, held \ {job[e]}, held}
      BY <1>20 DEF FinishWrite
    <3> QED
      BY <3>1, <3>2
  <2>4. /\ acked' \subseteq Jobs
        /\ phase' \in [Execs -> {"over", "work", "finish", "release"}]
    BY <1>20 DEF FinishWrite
  <2> QED
    BY <2>1, <2>2, <2>3, <2>4
<1>21. ASSUME NEW e \in Execs, FinishWriteFails(e) PROVE TypeOK'
  BY <1>21 DEF FinishWriteFails
<1>22. ASSUME NEW e \in Execs, Release(e) PROVE TypeOK'
  <2>1. byKind' \in [Kinds -> Nat]
    BY <1>22, Counting DEF Release
  <2>2. /\ running' \in [Jobs -> Execs \union {None}]
        /\ outcome' \in [Execs -> [err : {"none", "nil", "permanent", "retryable"},
                                  cancelled : BOOLEAN]]
        /\ attempt' \in [Execs -> Nat] /\ cancelled' \in [Execs -> BOOLEAN]
        /\ job' \in [Execs -> Jobs \union {None}]
        /\ phase' \in [Execs -> {"over", "work", "finish", "release"}]
    BY <1>22 DEF Release
  <2> QED
    BY <1>22, <2>1, <2>2 DEF Release
<1>23. ASSUME UNCHANGED vars PROVE TypeOK'
  BY <1>23
<1> QED
  BY <1>1, <1>2, <1>3, <1>4, <1>5, <1>6, <1>7, <1>8, <1>9, <1>10, <1>11, <1>12, <1>13, <1>14,
     <1>15, <1>16, <1>17, <1>18, <1>19, <1>20, <1>21, <1>22, <1>23
  DEF Next, Dispatcher, Operator, Process, Execution
-----------------------------------------------------------------------------
(* Only these steps touch the slots.                                       *)
LEMMA SlotSteps ==
  ASSUME [Next]_vars
  PROVE  \/ \E e \in Execs : StartExecution(e) \/ Execution(e)
         \/ ProcessEnds
         \/ UNCHANGED <<running, byKind, phase, job, attempt>>
<1> USE DEF vars, execVars
<1>1. CASE UNCHANGED vars
  BY <1>1
<1>2. CASE Dispatcher
  BY <1>2 DEF Dispatcher, Recover, Tick, ClaimJob, ClaimNothing, Unwind, RunReturns
<1>3. CASE Operator
  BY <1>3 DEF Operator, Submit, CancelLook, Defer, RetryJob, Remove, TimePasses,
              CancelAct, SetPaused
<1>4. CASE Process
  BY <1>4 DEF Process, Shutdown, ProcessStarts
<1> QED
  BY <1>1, <1>2, <1>3, <1>4 DEF Next

(* Nobody is on the job the dispatcher has claimed.                        *)
LEMMA ClaimedIsFree ==
  ASSUME TypeOK, KindCount, Dispatch, disp = "start"
  PROVE  /\ claimed \in Jobs /\ running[claimed] = None
         /\ KindOf[claimed] \in Kinds
         /\ \A j \in Registered : KindOf[j] # KindOf[claimed]
<1>1. /\ claimed \in Jobs /\ KindOf[claimed] \in Kinds
      /\ byKind[KindOf[claimed]] = 0
  BY DEF TypeOK, Dispatch
<1>2. ASSUME NEW j \in Registered PROVE KindOf[j] # KindOf[claimed]
  BY <1>1 DEF KindCount
<1> QED
  BY <1>1, <1>2 DEF Registered

LEMMA RegistrationNext ==
  ASSUME TypeOK, Registration, KindCount, Dispatch, [Next]_vars
  PROVE  Registration'
<1> USE ExecsAssumption DEF TypeOK, Registration, None
<1>1. ASSUME NEW e \in Execs, StartExecution(e) PROVE Registration'
  BY <1>1, ClaimedIsFree DEF StartExecution
<1>2. ASSUME NEW e \in Execs, WorkerReturns(e) PROVE Registration'
  BY <1>2 DEF WorkerReturns
<1>3. ASSUME NEW e \in Execs, FinishWrite(e) PROVE Registration'
  BY <1>3 DEF FinishWrite
<1>4. ASSUME NEW e \in Execs, FinishWriteFails(e) PROVE Registration'
  BY <1>4 DEF FinishWriteFails
<1>5. ASSUME NEW e \in Execs, Release(e) PROVE Registration'
  BY <1>5 DEF Release
<1>6. CASE ProcessEnds
  BY <1>6 DEF ProcessEnds
<1>7. CASE UNCHANGED <<running, byKind, phase, job, attempt>>
  BY <1>7
<1> QED
  BY <1>1, <1>2, <1>3, <1>4, <1>5, <1>6, <1>7, SlotSteps DEF Execution

(* The registered jobs are finitely many.                                  *)
LEMMA RegisteredFinite ==
  IsFiniteSet(Registered) /\ Cardinality(Registered) \in Nat
<1>1. Registered \subseteq Jobs
  BY DEF Registered
<1> QED
  BY <1>1, JobsAssumption, FS_Subset, FS_CardinalityType

LEMMA KindCountNext ==
  ASSUME TypeOK, Registration, KindCount, Dispatch, [Next]_vars
  PROVE  KindCount'
<1> USE DEF None
<1>1. ASSUME NEW e \in Execs, StartExecution(e) PROVE KindCount'
  <2>1. /\ disp = "start" /\ e # None
        /\ running' = [running EXCEPT ![claimed] = e]
        /\ byKind' = [byKind EXCEPT ![KindOf[claimed]] = @ + 1]
    BY <1>1, ExecsAssumption DEF StartExecution
  <2>2. Registered' = Registered \union {claimed}
    BY <2>1, ClaimedIsFree DEF Registered, TypeOK
  <2>3. ASSUME NEW k \in Kinds
        PROVE byKind'[k] = IF \E j \in Registered' : KindOf[j] = k THEN 1 ELSE 0
    BY <2>1, <2>2, ClaimedIsFree DEF KindCount, TypeOK
  <2>4. \A i, j \in Registered' : KindOf[i] = KindOf[j] => i = j
    BY <2>1, <2>2, ClaimedIsFree DEF KindCount
  <2>5. Cardinality(Registered') <= Limit
    <3>1. Cardinality(Registered') = Cardinality(Registered) + 1
      BY <2>1, <2>2, ClaimedIsFree, RegisteredFinite, FS_AddElement DEF Registered
    <3> QED
      BY <2>1, <3>1, RegisteredFinite, LimitsAssumption DEF Dispatch
  <2> QED
    BY <2>3, <2>4, <2>5 DEF KindCount
<1>2. ASSUME NEW e \in Execs, Release(e) PROVE KindCount'
  <2> DEFINE j == job[e]
  <2>1. /\ j \in Jobs /\ j \in Registered /\ KindOf[j] \in Kinds
        /\ running' = [running EXCEPT ![j] = None]
        /\ byKind' = [byKind EXCEPT ![KindOf[j]] = IF @ > 0 THEN @ - 1 ELSE 0]
    BY <1>2, ExecsAssumption DEF Release, Registration, Registered, Kinds
  <2> HIDE DEF j
  <2>2. Registered' = Registered \ {j}
    BY <2>1 DEF Registered, TypeOK
  <2>3. ASSUME NEW k \in Kinds
        PROVE byKind'[k] = IF \E i \in Registered' : KindOf[i] = k THEN 1 ELSE 0
    <3>1. CASE k = KindOf[j]
      <4>1. byKind[k] = 1 /\ byKind'[k] = 0
        BY <2>1, <3>1 DEF KindCount, TypeOK
      <4>2. ~ \E i \in Registered' : KindOf[i] = k
        BY <2>1, <2>2, <3>1 DEF KindCount
      <4> QED
        BY <4>1, <4>2
    <3>2. CASE k # KindOf[j]
      <4>1. byKind'[k] = byKind[k]
        BY <2>1, <3>2 DEF TypeOK
      <4> QED
        BY <2>2, <3>2, <4>1 DEF KindCount
    <3> QED
      BY <3>1, <3>2
  <2>4. \A i, h \in Registered' : KindOf[i] = KindOf[h] => i = h
    BY <2>2 DEF KindCount
  <2>5. Cardinality(Registered') <= Cardinality(Registered)
    BY <2>2, RegisteredFinite, FS_Subset
  <2> QED
    BY <2>3, <2>4, <2>5, <2>2, RegisteredFinite, FS_Subset, FS_CardinalityType, LimitsAssumption
    DEF KindCount
<1>3. CASE ProcessEnds
  <2>1. Registered' = {} /\ byKind' = [k \in Kinds |-> 0]
    BY <1>3 DEF ProcessEnds, Registered
  <2> QED
    BY <2>1, FS_EmptySet, LimitsAssumption DEF KindCount
<1>4. CASE UNCHANGED <<running, byKind>>
  BY <1>4 DEF KindCount, Registered
<1> QED
  BY <1>1, <1>2, <1>3, <1>4, SlotSteps
  DEF Execution, WorkerReturns, FinishWrite, FinishWriteFails
-----------------------------------------------------------------------------
(* Only these steps touch the dispatcher, or the Cancel that excludes it.  *)
LEMMA DispatchSteps ==
  ASSUME TypeOK, [Next]_vars
  PROVE  \/ Dispatcher \/ CancelAct \/ \E j \in Jobs : CancelLook(j)
         \/ ProcessEnds \/ ProcessStarts
         \/ \E e \in Execs : Release(e)
         \/ /\ UNCHANGED <<dispVars, running, byKind, cancelVars>>
            /\ \A e \in Execs : phase[e] = "over" => phase'[e] = "over"
            /\ stopping => stopping'
<1> USE DEF vars, execVars
<1>1. CASE UNCHANGED vars
  BY <1>1
<1>2. CASE Operator
  BY <1>2 DEF Operator, Submit, Defer, RetryJob, Remove, TimePasses, SetPaused
<1>3. CASE Process
  BY <1>3 DEF Process, Shutdown
<1>4. ASSUME NEW e \in Execs, Execution(e)
      PROVE  \/ Release(e)
             \/ /\ UNCHANGED <<dispVars, running, byKind, cancelVars, stopping>>
                /\ \A f \in Execs : phase[f] = "over" => phase'[f] = "over"
  BY <1>4 DEF Execution, WorkerReturns, FinishWrite, FinishWriteFails, TypeOK
<1> QED
  BY <1>1, <1>2, <1>3, <1>4 DEF Next

LEMMA DispatchNext ==
  ASSUME OnePerKind, TypeOK, Registration, KindCount, Dispatch, [Next]_vars
  PROVE  Dispatch'
<1> USE DEF Dispatch, DispatcherLocked, dispVars, cancelVars
<1>1. CASE Recover
  BY <1>1 DEF Recover, Registered
<1>2. CASE Tick
  <2>1. \A k \in Eligible : byKind[k] = 0 /\ Cardinality(Registered) < Limit
    BY RegisteredFinite, LimitsAssumption DEF Eligible, OnePerKind, TypeOK
  <2>2. kinds' \subseteq Eligible /\ disp' = IF kinds' = {} THEN "select" ELSE "claim"
    BY <1>2 DEF Tick
  <2>3. /\ disp \in {"select", "again"} /\ cancelling = None
        /\ UNCHANGED <<claimed, running, byKind, stopping, phase, cancelVars>>
    BY <1>2 DEF Tick, execVars
  <2>4. claimed = None
    BY <2>3
  <2> QED
    BY <2>1, <2>2, <2>3, <2>4 DEF Registered
<1>3. CASE ClaimJob
  <2>1. PICK j \in Claimable : claimed' = j
    BY <1>3 DEF ClaimJob
  <2>2. j # None /\ KindOf[j] \in kinds
    BY <2>1, JobsAssumption DEF Claimable, None
  <2> QED
    BY <1>3, <2>1, <2>2 DEF ClaimJob, Registered, execVars
<1>4. CASE ClaimNothing
  BY <1>4 DEF ClaimNothing, Registered, execVars
<1>5. CASE Unwind
  BY <1>5 DEF Unwind, Registered, execVars
<1>6. CASE RunReturns
  BY <1>6 DEF RunReturns, Registered, execVars
<1>7. ASSUME NEW e \in Execs, StartExecution(e) PROVE Dispatch'
  BY <1>7 DEF StartExecution
<1>8. CASE CancelAct
  BY <1>8 DEF CancelAct, Registered, execVars
<1>9. ASSUME NEW j \in Jobs, CancelLook(j) PROVE Dispatch'
  BY <1>9 DEF CancelLook, Registered
<1>10. CASE ProcessEnds
  BY <1>10 DEF ProcessEnds, Registered
<1>11. CASE ProcessStarts
  BY <1>11 DEF ProcessStarts, Registered, execVars
<1>12. ASSUME NEW e \in Execs, Release(e) PROVE Dispatch'
  <2>1. /\ running' = [running EXCEPT ![job[e]] = None]
        /\ byKind' = [byKind EXCEPT ![KindOf[job[e]]] = IF @ > 0 THEN @ - 1 ELSE 0]
        /\ UNCHANGED <<dispVars, stopping, cancelVars>>
    BY <1>12 DEF Release
  <2>2. \A k \in Kinds : byKind[k] = 0 => byKind'[k] = 0
    BY <2>1 DEF TypeOK
  <2>3. Registered' \subseteq Registered
    BY <2>1 DEF Registered, TypeOK
  <2>4. Cardinality(Registered') <= Cardinality(Registered)
        /\ Cardinality(Registered') \in Nat
    BY <2>3, RegisteredFinite, FS_Subset, FS_CardinalityType
  <2>5. disp \in {"claim", "start"} => /\ \A k \in kinds' : byKind'[k] = 0
                                       /\ Cardinality(Registered') < Limit
    BY <2>1, <2>2, <2>4, RegisteredFinite, LimitsAssumption DEF TypeOK
  <2>6. \A f \in Execs : phase[f] = "over" => phase'[f] = "over"
    BY <1>12 DEF Release, TypeOK
  <2>7. cancelling # None /\ found = None => running'[cancelling] = None
    BY <2>1 DEF TypeOK
  <2> QED
    BY <2>1, <2>5, <2>6, <2>7
<1>13. ASSUME UNCHANGED <<dispVars, running, byKind, cancelVars>>,
              \A e \in Execs : phase[e] = "over" => phase'[e] = "over",
              stopping => stopping'
       PROVE  Dispatch'
  BY <1>13 DEF Registered
<1> QED
  BY <1>1, <1>2, <1>3, <1>4, <1>5, <1>6, <1>7, <1>8, <1>9, <1>10, <1>11, <1>12, <1>13,
     DispatchSteps
  DEF Dispatcher
-----------------------------------------------------------------------------
(* What a step does to the jobs in hand.                                   *)
LEMMA HandOfRelease ==
  ASSUME TypeOK, NEW e \in Execs, phase[e] \in {"over", "release"},
         phase' = [phase EXCEPT ![e] = "over"],
         NEW j, job' = [job EXCEPT ![e] = j], claimed' = claimed
  PROVE  InHand' = InHand
<1>1. Working' = Working
  BY DEF Working, TypeOK
<1>2. \A f \in Working : job'[f] = job[f]
  BY DEF Working, TypeOK
<1> QED
  BY <1>1, <1>2 DEF InHand

LEMMA HandOfClaim ==
  ASSUME Dispatch, ClaimJob
  PROVE  InHand' = InHand \union {claimed'} /\ claimed' \in Claimable
<1>1. claimed = None /\ claimed' \in Claimable /\ Working' = Working /\ job' = job
  BY DEF ClaimJob, Dispatch, execVars, Working
<1>2. claimed' # None
  BY <1>1, JobsAssumption DEF Claimable, None
<1> QED
  BY <1>1, <1>2 DEF InHand

LEMMA HandOfStart ==
  ASSUME TypeOK, Dispatch, NEW e \in Execs, StartExecution(e)
  PROVE  InHand' = InHand
<1>1. /\ Working' = Working \union {e} /\ e \notin Working
      /\ job' = [job EXCEPT ![e] = claimed]
      /\ claimed # None /\ claimed' = None
  BY DEF StartExecution, Working, TypeOK, Dispatch
<1>2. job'[e] = claimed /\ \A f \in Working : job'[f] = job[f]
  BY <1>1 DEF TypeOK, Working
<1> QED
  BY <1>1, <1>2 DEF InHand

LEMMA HandOfReturn ==
  ASSUME TypeOK, NEW e \in Execs, WorkerReturns(e)
  PROVE  InHand' = InHand
BY DEF WorkerReturns, InHand, Working, TypeOK, dispVars

LEMMA HandOfFinish ==
  ASSUME TypeOK, Registration, KindCount, Dispatch, NEW e \in Execs,
         FinishWrite(e) \/ FinishWriteFails(e)
  PROVE  /\ job[e] \in Jobs /\ job[e] \in InHand
         /\ InHand' = InHand \ {job[e]}
<1>1. /\ e \in Working /\ Working' = Working \ {e}
      /\ job' = job /\ claimed' = claimed
  BY DEF FinishWrite, FinishWriteFails, Working, TypeOK, dispVars
<1>2. job[e] \in Jobs /\ running[job[e]] = e
  BY <1>1 DEF Registration, Working
<1>3. \A f \in Working : job[f] = job[e] => f = e
  BY <1>2 DEF Registration, Working
<1>4. claimed # job[e]
  BY <1>1, <1>2, ClaimedIsFree, ExecsAssumption, JobsAssumption DEF Dispatch, None
<1> QED
  BY <1>1, <1>2, <1>3, <1>4 DEF InHand

LEMMA HandOfEnd ==
  ASSUME ProcessEnds
  PROVE  InHand' = {}
BY DEF ProcessEnds, InHand, Working

LEMMA HandOfRest ==
  ASSUME UNCHANGED <<phase, job, claimed>>
  PROVE  InHand' = InHand
BY DEF InHand, Working

(* A job in hand is in the table, and nobody is registered for it but the  *)
(* execution that has it.                                                  *)
LEMMA HandIsJob ==
  ASSUME TypeOK, Registration, Dispatch, NEW j \in InHand
  PROVE  /\ j \in Jobs
         /\ running[j] # None \/ (j = claimed /\ disp = "start")
<1>1. ASSUME j = claimed, claimed # None
      PROVE  j \in Jobs /\ disp = "start"
  BY <1>1 DEF Dispatch, TypeOK
<1>2. ASSUME NEW e \in Working, j = job[e]
      PROVE  j \in Jobs /\ running[j] # None
  BY <1>2, ExecsAssumption DEF Working, Registration, None
<1>3. (j = claimed /\ claimed # None) \/ \E e \in Working : j = job[e]
  BY DEF InHand
<1> QED
  BY <1>1, <1>2, <1>3

(* No process, no hands.                                                   *)
LEMMA NoHands ==
  ASSUME Dispatch, disp \in {"down", "recover", "exited"}
  PROVE  InHand = {}
BY DEF Dispatch, InHand, Working
-----------------------------------------------------------------------------
(* Only these steps touch the table.                                       *)
LEMMA RowSteps ==
  ASSUME [Next]_vars
  PROVE  \/ \E j \in Jobs : Submit(j) \/ Defer(j) \/ RetryJob(j) \/ Remove(j)
         \/ CancelAct \/ Recover \/ ClaimJob
         \/ \E e \in Execs : FinishWrite(e)
         \/ UNCHANGED <<row, attempts>>
<1> USE DEF vars, rowVars
<1>1. CASE UNCHANGED vars
  BY <1>1
<1>2. CASE Dispatcher
  BY <1>2 DEF Dispatcher, Tick, ClaimNothing, Unwind, RunReturns, StartExecution
<1>3. CASE Operator
  BY <1>3 DEF Operator, CancelLook, TimePasses, SetPaused
<1>4. CASE Process
  BY <1>4 DEF Process, Shutdown, ProcessEnds, ProcessStarts
<1>5. ASSUME NEW e \in Execs, Execution(e)
      PROVE  FinishWrite(e) \/ UNCHANGED <<row, attempts>>
  BY <1>5 DEF Execution, WorkerReturns, FinishWriteFails, Release
<1> QED
  BY <1>1, <1>2, <1>3, <1>4, <1>5 DEF Next

(* What Submit, RetryJob and the unique index keep out of the table.       *)
LEMMA UniqueIndexNext ==
  ASSUME TypeOK, Registration, Holding, UniqueIndex, [Next]_vars
  PROVE  UniqueIndex'
<1> USE DEF UniqueIndex, TypeOK
<1>1. ASSUME NEW j \in Jobs, Submit(j) \/ RetryJob(j) PROVE UniqueIndex'
  <2>1. ~Taken(j) /\ row' = [row EXCEPT ![j] = "queued"]
    BY <1>1 DEF Submit, RetryJob
  <2>2. \A k \in Jobs : Same(j, k) \/ Same(k, j) => row[k] \notin Active
    BY <2>1 DEF Taken, Same
  <2>3. \A k \in Jobs : ~Same(j, j)
    BY DEF Same
  <2> QED
    BY <2>1, <2>2, <2>3
<1>2. ASSUME NEW j \in Jobs, Defer(j) PROVE UniqueIndex'
  BY <1>2 DEF Defer, Active
<1>3. ASSUME NEW j \in Jobs, Remove(j) PROVE UniqueIndex'
  BY <1>3 DEF Remove, Active, Waiting
<1>4. CASE CancelAct
  BY <1>4 DEF CancelAct, Active, Waiting
<1>5. CASE Recover
  <2>1. \A j \in Jobs : row'[j] \in Active => row[j] \in Active
    BY <1>5 DEF Recover, Active
  <2> QED
    BY <2>1
<1>6. CASE ClaimJob
  <2>1. \A j \in Jobs : row'[j] \in Active => row[j] \in Active
    BY <1>6 DEF ClaimJob, Claimable, Active
  <2> QED
    BY <2>1
<1>7. ASSUME NEW e \in Execs, FinishWrite(e) PROVE UniqueIndex'
  <2>1. row[job[e]] = "running"
    BY <1>7 DEF FinishWrite, Holding, WorkerHoldsRow, Working
  <2>2. \A j \in Jobs : row'[j] \in Active => row[j] \in Active
    BY <1>7, <2>1 DEF FinishWrite, UpdateRow, Active
  <2> QED
    BY <2>2
<1>8. CASE UNCHANGED row
  BY <1>8
<1> QED
  BY <1>1, <1>2, <1>3, <1>4, <1>5, <1>6, <1>7, <1>8, RowSteps

(* Whoever has a job in hand has its row.                                  *)
LEMMA HandHasRow ==
  ASSUME Holding, NEW j \in InHand
  PROVE  row[j] = "running"
BY DEF InHand, Holding, WorkerHoldsRow

(* What finish writes, over a row that reads running.                      *)
LEMMA FinishRow ==
  ASSUME TypeOK, Registration, Holding, NEW e \in Execs, FinishWrite(e)
  PROVE  /\ job[e] \in Jobs /\ row[job[e]] = "running"
         /\ attempt[e] = attempts[job[e]]
         /\ \/ /\ Verdict(e) \in Terminal
               /\ row' = [row EXCEPT ![job[e]] = Verdict(e)]
               /\ attempts' = attempts
            \/ /\ Verdict(e) = "reschedule" /\ attempt[e] < MaxAttempts
               /\ row' = [row EXCEPT ![job[e]] = "queued"]
               /\ attempts' = attempts
            \/ /\ Verdict(e) = "requeue"
               /\ row' = [row EXCEPT ![job[e]] = "queued"]
               /\ attempts' = IF attempts[job[e]] > 0
                              THEN [attempts EXCEPT ![job[e]] = @ - 1] ELSE attempts
<1>1. /\ e \in Working /\ job[e] \in Jobs /\ row[job[e]] = "running"
      /\ attempt[e] = attempts[job[e]]
  BY DEF FinishWrite, Working, Registration, Holding, WorkerHoldsRow
<1>2. \/ Verdict(e) \in Terminal
      \/ Verdict(e) = "reschedule" /\ attempt[e] < MaxAttempts
      \/ Verdict(e) = "requeue"
  BY LimitsAssumption DEF Verdict, Terminal, TypeOK
<1>3. /\ row' = [row EXCEPT ![job[e]] =
                   IF Verdict(e) \in {"requeue", "reschedule"} THEN "queued"
                   ELSE Verdict(e)]
      /\ row'[job[e]] = IF Verdict(e) \in {"requeue", "reschedule"} THEN "queued"
                        ELSE Verdict(e)
  BY <1>1 DEF FinishWrite, UpdateRow, Active, TypeOK
<1>4. attempts' = IF Verdict(e) = "requeue" /\ attempts[job[e]] > 0
                  THEN [attempts EXCEPT ![job[e]] = @ - 1] ELSE attempts
  BY <1>3 DEF FinishWrite
<1> QED
  BY <1>1, <1>2, <1>3, <1>4 DEF Terminal
LEMMA HoldingNext ==
  ASSUME TypeOK, Registration, KindCount, Dispatch, Holding, [Next]_vars
  PROVE  Holding'
<1> USE DEF Holding, WorkerHoldsRow
<1>1. ASSUME UNCHANGED <<phase, job, claimed, attempt>>,
             \A j \in InHand : row'[j] = row[j] /\ attempts'[j] = attempts[j]
      PROVE  Holding'
  BY <1>1 DEF Working, InHand
<1>2. ASSUME NEW j \in Jobs, Submit(j) \/ Defer(j) \/ RetryJob(j) \/ Remove(j)
      PROVE  Holding'
  <2>1. row[j] # "running"
    BY <1>2 DEF Submit, Defer, RetryJob, Remove, Waiting, Terminal
  <2>2. /\ \A i \in Jobs \ {j} : row'[i] = row[i] /\ attempts'[i] = attempts[i]
        /\ UNCHANGED <<phase, job, claimed, attempt>>
    BY <1>2 DEF Submit, Defer, RetryJob, Remove, TypeOK, dispVars, execVars
  <2> QED
    BY <1>1, <2>1, <2>2, HandHasRow, HandIsJob
<1>3. CASE CancelAct
  <2>1. UNCHANGED <<attempts, phase, job, claimed, attempt>>
    BY <1>3 DEF CancelAct, dispVars, execVars
  <2>2. cancelling \notin InHand \/ row' = row
    BY <1>3, HandIsJob DEF CancelAct, Dispatch, DispatcherLocked
  <2>3. \A j \in Jobs \ {cancelling} : row'[j] = row[j]
    BY <1>3 DEF CancelAct, TypeOK
  <2> QED
    BY <1>1, <2>1, <2>2, <2>3, HandIsJob
<1>4. CASE Recover
  <2>1. InHand = {} /\ UNCHANGED <<phase, job, claimed, attempt>>
    BY <1>4, NoHands DEF Recover, execVars
  <2> QED
    BY <1>1, <2>1
<1>5. CASE ClaimJob
  <2>1. PICK j \in Claimable : /\ row' = [row EXCEPT ![j] = "running"]
                               /\ attempts' = [attempts EXCEPT ![j] = @ + 1]
                               /\ claimed' = j
    BY <1>5 DEF ClaimJob
  <2>2. j \in Jobs /\ j \notin InHand /\ row'[j] = "running"
    BY <2>1, HandHasRow DEF Claimable, Waiting, TypeOK
  <2>3. \A e \in Working : job[e] \in Jobs \ {j}
    BY <2>2, HandIsJob DEF InHand
  <2>4. UNCHANGED <<phase, job, attempt>>
    BY <1>5 DEF ClaimJob, execVars
  <2> QED
    BY <2>1, <2>2, <2>3, <2>4 DEF Working, TypeOK
<1>6. ASSUME NEW e \in Execs, StartExecution(e) PROVE Holding'
  <2>1. claimed \in Jobs /\ row[claimed] = "running" /\ claimed' = None
    BY <1>6, ClaimedIsFree DEF StartExecution, Dispatch
  <2> QED
    BY <1>6, <2>1 DEF StartExecution, Working, TypeOK, rowVars
<1>7. ASSUME NEW e \in Execs, WorkerReturns(e) PROVE Holding'
  BY <1>7 DEF WorkerReturns, Working, TypeOK, rowVars, dispVars
<1>8. ASSUME NEW e \in Execs, FinishWrite(e) PROVE Holding'
  <2>1. /\ job[e] \notin InHand' /\ InHand' \subseteq InHand /\ InHand \subseteq Jobs
        /\ \A i \in Jobs \ {job[e]} : row'[i] = row[i] /\ attempts'[i] = attempts[i]
    BY <1>8, HandOfFinish, FinishRow, HandIsJob DEF TypeOK
  <2>2. \A i \in InHand' : row'[i] = row[i] /\ attempts'[i] = attempts[i]
    BY <2>1
  <2>3. Working' \subseteq Working /\ UNCHANGED <<job, attempt, claimed>>
    BY <1>8 DEF FinishWrite, Working, TypeOK, dispVars
  <2> QED
    BY <2>2, <2>3 DEF InHand
<1>9. ASSUME NEW e \in Execs, FinishWriteFails(e) PROVE Holding'
  BY <1>9 DEF FinishWriteFails, Working, TypeOK, rowVars, dispVars
<1>10. ASSUME NEW e \in Execs, Release(e) PROVE Holding'
  BY <1>10 DEF Release, Working, TypeOK, rowVars, dispVars
<1>11. CASE ProcessEnds
  BY <1>11 DEF ProcessEnds, Working
<1>12. CASE UNCHANGED <<row, attempts, phase, job, claimed, attempt>>
  BY <1>1, <1>12
<1>13. CASE Dispatcher
  BY <1>4, <1>5, <1>6, <1>12, <1>13
  DEF Dispatcher, Tick, ClaimNothing, Unwind, RunReturns, rowVars, execVars
<1>14. CASE Operator
  BY <1>2, <1>3, <1>12, <1>14
  DEF Operator, CancelLook, TimePasses, SetPaused, rowVars, dispVars, execVars
<1>15. CASE Process
  BY <1>11, <1>12, <1>15
  DEF Process, Shutdown, ProcessStarts, rowVars, dispVars, execVars
<1> QED
  BY <1>7, <1>8, <1>9, <1>10, <1>12, <1>13, <1>14, <1>15
  DEF Next, Execution, vars, rowVars, dispVars, execVars
(* A refund goes to a job that gave its attempt back, never to a crash.    *)
LEMMA ChargedNext ==
  ASSUME TypeOK, Registration, KindCount, Dispatch, Holding, Charged, [Next]_vars
  PROVE  Charged'
<1> USE LimitsAssumption DEF Charged, TypeOK
<1> DEFINE Open(s) == s \in Waiting \union {"none"}
<1>1. ASSUME UNCHANGED <<attempts, crashes>>, InHand' \subseteq InHand,
             \A j \in Jobs : Open(row'[j]) => Open(row[j])
      PROVE  Charged'
  BY <1>1
<1>2. ASSUME NEW j \in Jobs, Submit(j) \/ Defer(j) \/ Remove(j) PROVE Charged'
  <2>1. UNCHANGED <<attempts, crashes>> /\ InHand' = InHand
    BY <1>2, HandOfRest
    DEF Submit, Defer, Remove, dispVars, execVars, history
  <2>2. \A i \in Jobs : Open(row'[i]) => Open(row[i])
    BY <1>2 DEF Submit, Defer, Remove, Waiting
  <2> QED
    BY <1>1, <2>1, <2>2
<1>3. ASSUME NEW j \in Jobs, RetryJob(j) PROVE Charged'
  <2>1. InHand' = InHand
    BY <1>3, HandOfRest DEF RetryJob, dispVars, execVars
  <2>2. j \notin InHand
    BY <1>3, HandHasRow DEF RetryJob, Terminal
  <2> QED
    BY <1>3, <2>1, <2>2 DEF RetryJob
<1>4. CASE CancelAct
  <2>1. UNCHANGED <<attempts, crashes>> /\ InHand' = InHand
    BY <1>4, HandOfRest DEF CancelAct, dispVars, execVars
  <2>2. \A i \in Jobs : Open(row'[i]) => Open(row[i])
    BY <1>4 DEF CancelAct, Waiting
  <2> QED
    BY <1>1, <2>1, <2>2
<1>5. CASE Recover
  <2>1. UNCHANGED <<attempts, crashes>> /\ InHand' = InHand
    BY <1>5, HandOfRest DEF Recover, execVars, history
  <2>2. ASSUME NEW i \in Jobs, Open(row'[i])
        PROVE  Open(row[i]) \/ attempts[i] < MaxAttempts
    BY <1>5, <2>2 DEF Recover, Waiting
  <2> QED
    BY <2>1, <2>2
<1>6. CASE ClaimJob
  <2>1. PICK j \in Claimable : /\ row' = [row EXCEPT ![j] = "running"]
                               /\ attempts' = [attempts EXCEPT ![j] = @ + 1]
                               /\ claimed' = j
    BY <1>6 DEF ClaimJob
  <2>2. j \in Jobs /\ row[j] \in Waiting
    BY <2>1 DEF Claimable
  <2>3. InHand' = InHand \union {j} /\ crashes' = crashes
    BY <1>6, <2>1, HandOfClaim DEF ClaimJob, history
  <2>4. ASSUME NEW i \in Jobs
        PROVE  /\ attempts'[i] <= MaxAttempts
               /\ Open(row'[i]) => attempts'[i] < MaxAttempts
               /\ crashes'[i] <= attempts'[i]
               /\ i \in InHand' => crashes'[i] < attempts'[i]
    BY <2>1, <2>2, <2>3 DEF Waiting
  <2> QED
    BY <2>4
<1>7. ASSUME NEW e \in Execs, StartExecution(e) PROVE Charged'
  BY <1>1, <1>7, HandOfStart DEF StartExecution, rowVars, history
<1>8. ASSUME NEW e \in Execs, WorkerReturns(e) PROVE Charged'
  BY <1>1, <1>8, HandOfReturn DEF WorkerReturns, rowVars, history
<1>9. ASSUME NEW e \in Execs, FinishWrite(e) PROVE Charged'
  <2> DEFINE j == job[e]
  <2>1. /\ j \in Jobs /\ j \in InHand /\ InHand' = InHand \ {j}
        /\ crashes' = crashes /\ crashes[j] < attempts[j]
    BY <1>9, HandOfFinish DEF FinishWrite
  <2>2. /\ attempts' = attempts \/ attempts' = [attempts EXCEPT ![j] = @ - 1]
        /\ \A i \in Jobs \ {j} : row'[i] = row[i]
        /\ Open(row'[j]) => attempts'[j] < MaxAttempts
    <3>1. /\ row[j] = "running" /\ attempt[e] = attempts[j]
          /\ attempts[j] <= MaxAttempts /\ attempts[j] > 0
      BY <1>9, <2>1, FinishRow
    <3>2. CASE Verdict(e) \in Terminal
      BY <1>9, <2>1, <3>2, FinishRow DEF Terminal, Waiting
    <3>3. CASE Verdict(e) = "reschedule"
      BY <1>9, <2>1, <3>1, <3>3, FinishRow DEF Terminal, Waiting
    <3>4. CASE Verdict(e) = "requeue"
      BY <1>9, <2>1, <3>1, <3>4, FinishRow DEF Terminal, Waiting
    <3> QED
      BY <1>9, <3>2, <3>3, <3>4, FinishRow
  <2> HIDE DEF j
  <2>3. ASSUME NEW i \in Jobs
        PROVE  /\ attempts'[i] <= MaxAttempts
               /\ Open(row'[i]) => attempts'[i] < MaxAttempts
               /\ crashes'[i] <= attempts'[i]
               /\ i \in InHand' => crashes'[i] < attempts'[i]
    <3>1. CASE i = j
      BY <2>1, <2>2, <3>1
    <3>2. CASE i # j
      BY <2>1, <2>2, <3>2
    <3> QED
      BY <3>1, <3>2
  <2> QED
    BY <2>3
<1>10. ASSUME NEW e \in Execs, FinishWriteFails(e) PROVE Charged'
  BY <1>1, <1>10, HandOfFinish DEF FinishWriteFails, rowVars
<1>11. ASSUME NEW e \in Execs, Release(e) PROVE Charged'
  <2>1. InHand' = InHand
    BY <1>11, HandOfRelease DEF Release, dispVars
  <2> QED
    BY <1>1, <1>11, <2>1 DEF Release, rowVars, history
<1>12. CASE ProcessEnds
  <2>1. UNCHANGED <<row, attempts>> /\ InHand' = {}
    BY <1>12, HandOfEnd DEF ProcessEnds, rowVars
  <2>2. \A j \in Jobs : crashes'[j] <= attempts[j]
    BY <1>12 DEF ProcessEnds
  <2> QED
    BY <2>1, <2>2
<1>13. CASE UNCHANGED <<row, attempts, crashes, phase, job, claimed>>
  BY <1>1, <1>13, HandOfRest
<1>14. CASE Dispatcher
  BY <1>5, <1>6, <1>7, <1>13, <1>14
  DEF Dispatcher, Tick, ClaimNothing, Unwind, RunReturns, rowVars, execVars, history
<1>15. CASE Operator
  BY <1>2, <1>3, <1>4, <1>13, <1>15
  DEF Operator, CancelLook, TimePasses, SetPaused, rowVars, dispVars, execVars, history
<1>16. CASE Process
  BY <1>12, <1>13, <1>16
  DEF Process, Shutdown, ProcessStarts, rowVars, dispVars, execVars, history
<1> QED
  BY <1>8, <1>9, <1>10, <1>11, <1>13, <1>14, <1>15, <1>16
  DEF Next, Execution, vars, rowVars, dispVars, execVars, history
-----------------------------------------------------------------------------
LEMMA InitInv == Init => IInv
<1> SUFFICES ASSUME Init PROVE IInv
  OBVIOUS
<1> USE JobsAssumption, ExecsAssumption, LimitsAssumption DEF Init, None
<1>1. TypeOK
  <2>1. outcome \in [Execs -> [err : {"none", "nil", "permanent", "retryable"},
                               cancelled : BOOLEAN]]
    BY DEF NoOutcome
  <2>2. /\ running \in [Jobs -> Execs \union {None}] /\ byKind \in [Kinds -> Nat]
        /\ row \in [Jobs -> Active \union Terminal \union {"none", "gone"}]
        /\ attempts \in [Jobs -> Nat] /\ crashes \in [Jobs -> Nat]
    OBVIOUS
  <2>3. /\ phase \in [Execs -> {"over", "work", "finish", "release"}]
        /\ job \in [Execs -> Jobs \union {None}] /\ attempt \in [Execs -> Nat]
        /\ cancelled \in [Execs -> BOOLEAN]
    OBVIOUS
  <2>4. /\ retries \in 0..MaxRetries /\ downs \in 0..MaxDowns
        /\ faults \in 0..MaxFaults
    OBVIOUS
  <2> QED
    BY <2>1, <2>2, <2>3, <2>4 DEF TypeOK
<1>2. Registration
  BY DEF Registration
<1>3. KindCount
  <2>1. Registered = {}
    BY DEF Registered
  <2> QED
    BY <2>1, FS_EmptySet DEF KindCount
<1>4. Dispatch
  BY DEF Dispatch
<1>5. Working = {} /\ InHand = {}
  BY DEF Working, InHand
<1>6. Holding
  BY <1>5 DEF Holding, WorkerHoldsRow
<1>7. UniqueIndex
  BY DEF UniqueIndex, Active, Waiting
<1>8. Charged
  BY <1>5 DEF Charged
<1> QED
  BY <1>1, <1>2, <1>3, <1>4, <1>6, <1>7, <1>8 DEF IInv

LEMMA Inductive ==
  ASSUME OnePerKind, IInv, [Next]_vars
  PROVE  IInv'
BY TypeNext, RegistrationNext, KindCountNext, DispatchNext, HoldingNext,
   UniqueIndexNext, ChargedNext
DEF IInv

LEMMA Invariance == ASSUME OnePerKind PROVE Spec => []IInv
BY InitInv, Inductive, PTL DEF Spec

-----------------------------------------------------------------------------
(* The variables keep their types.                                         *)
THEOREM TypeCorrect == ASSUME OnePerKind PROVE Spec => []TypeOK
BY Invariance, PTL DEF IInv

(* A job somebody works on stays running in the table, whatever the        *)
(* operator, the governor and the other executions write there.            *)
THEOREM WorkerHoldsRowAlways == ASSUME OnePerKind PROVE Spec => []WorkerHoldsRow
BY Invariance, PTL DEF IInv, Holding

(* A Cancel that comes after the registration finds the worker.            *)
THEOREM CancelFindsWorkerAlways ==
  ASSUME OnePerKind PROVE Spec => []CancelFindsWorker
<1>1. IInv => CancelFindsWorker
  BY DEF IInv, Registration, CancelFindsWorker, Working
<1> QED
  BY Invariance, <1>1, PTL

(* There are never more workers than the limits allow.                     *)
THEOREM LimitsHoldAlways == ASSUME OnePerKind PROVE Spec => []LimitsHold
<1>1. ASSUME OnePerKind, IInv PROVE LimitsHold
  <2>1. /\ \A e \in Working : job[e] \in Registered /\ running[job[e]] = e
        /\ IsFiniteSet(Working)
    BY <1>1, ExecsAssumption, FS_Subset DEF IInv, Registration, Working, Registered, None
  <2>2. Cardinality(Working) <= Limit
    <3> DEFINE f == [e \in Working |-> job[e]]
    <3>1. f \in Injection(Working, Registered)
      BY <2>1, Fun_IsInj
    <3>2. Cardinality(Working) <= Cardinality(Registered)
      BY <3>1, RegisteredFinite, FS_Injection
    <3> QED
      BY <1>1, <2>1, <3>2, RegisteredFinite, FS_CardinalityType, LimitsAssumption
      DEF IInv, KindCount
  <2>3. ASSUME NEW k \in Kinds
        PROVE  Cardinality({e \in Working : KindOf[job[e]] = k}) <= 1
    <3> DEFINE S == {e \in Working : KindOf[job[e]] = k}
    <3>1. \A d, e \in S : d = e
      BY <1>1, <2>1 DEF IInv, KindCount
    <3>2. S = {} \/ \E e \in S : S = {e}
      BY <3>1
    <3> HIDE DEF S
    <3>3. Cardinality(S) = 0 \/ Cardinality(S) = 1
      BY <3>2, FS_EmptySet, FS_Singleton
    <3> QED
      BY <3>3 DEF S
  <2> QED
    BY <1>1, <2>2, <2>3 DEF LimitsHold, OnePerKind
<1> QED
  BY Invariance, <1>1, PTL

(* A job takes the server down with it at most MaxAttempts times.          *)
THEOREM CrashesAreChargedAlways ==
  ASSUME OnePerKind PROVE Spec => []CrashesAreCharged
<1>1. IInv => CrashesAreCharged
  BY LimitsAssumption DEF IInv, TypeOK, Charged, CrashesAreCharged
<1> QED
  BY Invariance, <1>1, PTL
-----------------------------------------------------------------------------
(* A row reads running only while somebody holds it, as long as the store  *)
(* refuses no outcome.                                                     *)
LEMMA RunningRowNext ==
  ASSUME OnePerKind, MaxFaults = 0, IInv, RunningRowHasWorker, [Next]_vars
  PROVE  RunningRowHasWorker'
<1> USE DEF IInv, RunningRowHasWorker
<1>1. ASSUME UNCHANGED disp, InHand' = InHand,
             \A j \in Jobs : row'[j] = "running" => row[j] = "running"
      PROVE  RunningRowHasWorker'
  BY <1>1
<1>2. ASSUME NEW j \in Jobs, Submit(j) \/ Defer(j) \/ RetryJob(j) \/ Remove(j)
      PROVE  RunningRowHasWorker'
  <2>1. disp' = disp /\ InHand' = InHand
    BY <1>2, HandOfRest
    DEF Submit, Defer, RetryJob, Remove, dispVars, execVars
  <2>2. \A i \in Jobs : row'[i] = "running" => row[i] = "running"
    BY <1>2 DEF Submit, Defer, RetryJob, Remove, TypeOK
  <2> QED
    BY <1>1, <2>1, <2>2
<1>3. CASE CancelAct
  <2>1. disp' = disp /\ InHand' = InHand
    BY <1>3, HandOfRest DEF CancelAct, dispVars, execVars
  <2>2. \A i \in Jobs : row'[i] = "running" => row[i] = "running"
    BY <1>3 DEF CancelAct, TypeOK
  <2> QED
    BY <1>1, <2>1, <2>2
<1>4. CASE Recover
  BY <1>4 DEF Recover, TypeOK
<1>5. CASE ClaimJob
  <2>1. PICK j \in Claimable : /\ row' = [row EXCEPT ![j] = "running"]
                               /\ claimed' = j
    BY <1>5 DEF ClaimJob
  <2>2. InHand' = InHand \union {j} /\ disp = "claim"
    BY <1>5, <2>1, HandOfClaim DEF ClaimJob
  <2> QED
    BY <2>1, <2>2 DEF TypeOK
<1>6. ASSUME NEW e \in Execs, StartExecution(e) PROVE RunningRowHasWorker'
  BY <1>6, HandOfStart DEF StartExecution, rowVars
<1>7. ASSUME NEW e \in Execs, WorkerReturns(e) PROVE RunningRowHasWorker'
  BY <1>1, <1>7, HandOfReturn DEF WorkerReturns, rowVars, dispVars
<1>8. ASSUME NEW e \in Execs, FinishWrite(e) PROVE RunningRowHasWorker'
  <2>1. /\ job[e] \in Jobs /\ InHand' = InHand \ {job[e]} /\ disp' = disp
    BY <1>8, HandOfFinish DEF FinishWrite, dispVars
  <2>2. PICK s \in Terminal \union {"queued"} : row' = [row EXCEPT ![job[e]] = s]
    BY <1>8, FinishRow
  <2>3. s # "running"
    BY DEF Terminal
  <2> QED
    BY <2>1, <2>2, <2>3 DEF TypeOK
<1>9. ASSUME NEW e \in Execs, FinishWriteFails(e) PROVE RunningRowHasWorker'
  BY <1>9 DEF FinishWriteFails, TypeOK
<1>10. ASSUME NEW e \in Execs, Release(e) PROVE RunningRowHasWorker'
  <2>1. InHand' = InHand
    BY <1>10, HandOfRelease DEF Release, dispVars
  <2> QED
    BY <1>1, <1>10, <2>1 DEF Release, rowVars, dispVars
<1>11. CASE ProcessEnds
  BY <1>11 DEF ProcessEnds
<1>12. CASE ProcessStarts
  BY <1>12 DEF ProcessStarts
<1>13. ASSUME UNCHANGED <<row, phase, job, claimed>>,
              disp' \in {"down", "recover"} \/ disp \notin {"down", "recover"}
       PROVE  RunningRowHasWorker'
  BY <1>13, HandOfRest
<1>14. CASE Dispatcher
  BY <1>4, <1>5, <1>6, <1>13, <1>14
  DEF Dispatcher, Tick, ClaimNothing, Unwind, RunReturns, rowVars, execVars
<1>15. CASE Operator
  BY <1>2, <1>3, <1>13, <1>15
  DEF Operator, CancelLook, TimePasses, SetPaused, rowVars, dispVars, execVars
<1>16. CASE Process
  BY <1>11, <1>12, <1>13, <1>16
  DEF Process, Shutdown, rowVars, dispVars, execVars
<1> QED
  BY <1>7, <1>8, <1>9, <1>10, <1>13, <1>14, <1>15, <1>16
  DEF Next, Execution, vars, rowVars, dispVars, execVars

(* After recovery no row is stuck at running.                              *)
THEOREM RunningRowHasWorkerAlways ==
  ASSUME OnePerKind, MaxFaults = 0 PROVE Spec => []RunningRowHasWorker
<1>1. Init => RunningRowHasWorker
  BY DEF Init, RunningRowHasWorker
<1> QED
  BY <1>1, RunningRowNext, Invariance, PTL DEF Spec

-----------------------------------------------------------------------------
(* The queue implements the ledger: each of its steps is one of the        *)
(* ledger's, or leaves the rows and the hands as they are.                 *)
LEMMA LedgerInit == Init => Ledger!Init
BY DEF Init, Ledger!Init, InHand, Working

LEMMA LedgerNext ==
  ASSUME OnePerKind, MaxFaults = 0, IInv, [Next]_vars
  PROVE  [Ledger!Next]_(Ledger!vars)
<1> USE DEF IInv, Ledger!vars
<1>1. ASSUME row' = row, InHand' = InHand PROVE UNCHANGED Ledger!vars
  BY <1>1
<1>2. ASSUME NEW j \in Jobs, Submit(j) \/ Defer(j) \/ RetryJob(j) \/ Remove(j)
      PROVE  Ledger!Next
  <2>1. InHand' = InHand
    BY <1>2, HandOfRest DEF Submit, Defer, RetryJob, Remove, dispVars, execVars
  <2>2. \/ Ledger!Submit(j) \/ Ledger!Defer(j) \/ Ledger!Rearm(j) \/ Ledger!Remove(j)
    BY <1>2, <2>1
    DEF Submit, Defer, RetryJob, Remove, Waiting, Terminal,
        Ledger!Submit, Ledger!Defer, Ledger!Rearm, Ledger!Remove, Ledger!Move,
        Ledger!Waiting, Ledger!Terminal
  <2> QED
    BY <2>2 DEF Ledger!Next
<1>3. CASE CancelAct
  <2>1. InHand' = InHand
    BY <1>3, HandOfRest DEF CancelAct, dispVars, execVars
  <2>2. CASE row' = row
    BY <1>1, <2>1, <2>2
  <2>3. CASE row' # row
    <3>1. /\ cancelling \in Jobs /\ row[cancelling] \in Active
          /\ row' = [row EXCEPT ![cancelling] = "cancelled"]
          /\ running[cancelling] = None /\ disp # "start"
      BY <1>3, <2>3 DEF CancelAct, Dispatch, DispatcherLocked, TypeOK, None
    <3>2. cancelling \notin InHand
      BY <3>1, HandIsJob
    <3>3. Ledger!Cancel(cancelling)
      BY <2>1, <3>1, <3>2
      DEF Active, Waiting, Ledger!Cancel, Ledger!Move, Ledger!Waiting
    <3> QED
      BY <3>1, <3>3 DEF Ledger!Next
  <2> QED
    BY <2>2, <2>3
<1>4. CASE Recover
  <2>1. InHand = {} /\ InHand' = {}
    BY <1>4, NoHands, HandOfRest DEF Recover, execVars
  <2>2. Ledger!Recover
    BY <1>4, <2>1 DEF Recover, Ledger!Recover
  <2> QED
    BY <2>2 DEF Ledger!Next
<1>5. CASE ClaimJob
  <2>1. PICK j \in Claimable : /\ row' = [row EXCEPT ![j] = "running"]
                               /\ claimed' = j
    BY <1>5 DEF ClaimJob
  <2>2. InHand' = InHand \union {j} /\ j \in Jobs /\ row[j] \in Waiting
    BY <1>5, <2>1, HandOfClaim DEF Claimable
  <2>3. ASSUME NEW k \in InHand PROVE k # j /\ ~Same(j, k)
    BY <2>2, <2>3, HandHasRow, HandIsJob DEF UniqueIndex, Active, Waiting
  <2>4. Ledger!Begin(j)
    BY <2>1, <2>2, <2>3 DEF Waiting, Ledger!Begin, Ledger!Move, Ledger!Waiting
  <2> QED
    BY <2>2, <2>4 DEF Ledger!Next
<1>6. ASSUME NEW e \in Execs, StartExecution(e) PROVE UNCHANGED Ledger!vars
  BY <1>1, <1>6, HandOfStart DEF StartExecution, rowVars
<1>7. ASSUME NEW e \in Execs, WorkerReturns(e) PROVE UNCHANGED Ledger!vars
  BY <1>1, <1>7, HandOfReturn DEF WorkerReturns, rowVars
<1>8. ASSUME NEW e \in Execs, FinishWrite(e) PROVE Ledger!Next
  <2>1. /\ job[e] \in Jobs /\ job[e] \in InHand /\ InHand' = InHand \ {job[e]}
        /\ row[job[e]] = "running"
        /\ \E s \in Terminal \union {"queued"} : row' = [row EXCEPT ![job[e]] = s]
    BY <1>8, HandOfFinish, FinishRow
  <2>2. Ledger!Settle(job[e])
    BY <2>1 DEF Terminal, Ledger!Settle, Ledger!Move, Ledger!Terminal
  <2> QED
    BY <2>1, <2>2 DEF Ledger!Next
<1>9. ASSUME NEW e \in Execs PROVE ~FinishWriteFails(e)
  BY DEF FinishWriteFails, TypeOK
<1>10. ASSUME NEW e \in Execs, Release(e) PROVE UNCHANGED Ledger!vars
  <2>1. InHand' = InHand
    BY <1>10, HandOfRelease DEF Release, dispVars
  <2> QED
    BY <1>1, <1>10, <2>1 DEF Release, rowVars
<1>11. CASE ProcessEnds
  <2>1. Ledger!Crash
    BY <1>11, HandOfEnd DEF ProcessEnds, rowVars, Ledger!Crash
  <2> QED
    BY <2>1 DEF Ledger!Next
<1>12. CASE UNCHANGED <<row, phase, job, claimed>>
  BY <1>1, <1>12, HandOfRest
<1>13. CASE Dispatcher
  BY <1>4, <1>5, <1>6, <1>12, <1>13
  DEF Dispatcher, Tick, ClaimNothing, Unwind, RunReturns, rowVars, execVars
<1>14. CASE Operator
  BY <1>2, <1>3, <1>12, <1>14
  DEF Operator, CancelLook, TimePasses, SetPaused, rowVars, dispVars, execVars
<1>15. CASE Process
  BY <1>11, <1>12, <1>15
  DEF Process, Shutdown, ProcessStarts, rowVars, dispVars, execVars
<1> QED
  BY <1>7, <1>8, <1>9, <1>10, <1>12, <1>13, <1>14, <1>15
  DEF Next, Execution, vars, rowVars, dispVars, execVars

(* JobQueue's behaviours are JobLedger's, with workers read as InHand.     *)
THEOREM QueueImplementsLedger ==
  ASSUME OnePerKind, MaxFaults = 0 PROVE Spec => ImplementsLedger
BY LedgerInit, LedgerNext, Invariance, PTL DEF Spec, ImplementsLedger, Ledger!Spec

(* Rows and workers agree as long as the store takes every outcome.        *)
THEOREM RowsAndWorkersAgreeAlways ==
  ASSUME OnePerKind, MaxFaults = 0 PROVE Spec => []RowsAndWorkersAgree
BY WorkerHoldsRowAlways, RunningRowHasWorkerAlways, CancelFindsWorkerAlways, PTL
   DEF RowsAndWorkersAgree
=============================================================================

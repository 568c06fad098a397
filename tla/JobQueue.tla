------------------------------- MODULE JobQueue -------------------------------
(***************************************************************************)
(* The durable background job queue: internal/jobs/queue.go over the rows  *)
(* of internal/db/jobs.go.                                                 *)
(*                                                                         *)
(* The actors are the dispatcher (Run and its Tick), one goroutine per     *)
(* execution, the API and the governor (Submit, Cancel, Retry, Delete,     *)
(* Purge, Defer, Pause, Resume), and the process, which may shut down or   *)
(* die. Rows survive; everything else is memory. Each store call is one    *)
(* step: the database has a single connection and each call is one         *)
(* statement or transaction.                                               *)
(*                                                                         *)
(* Times are told apart only as past or future: held is the rows whose     *)
(* available_at has not come. Progress, logs, results and counters are     *)
(* data. wakeCh only shortens the wait for the ticker, so a Tick may begin *)
(* at any time. A kind is claimed only if a worker is registered for it,   *)
(* so start's branch for an unregistered kind is never taken.              *)
(***************************************************************************)
EXTENDS Integers, FiniteSets

CONSTANTS
  Jobs,          \* the rows that may be submitted: ids, in insertion order
  KindOf,        \* KindOf[j]
  TargetOf,      \* TargetOf[j]
  UniqueJobs,    \* rows with unique_target = 1 and a target
  Priority,      \* Priority[j]
  MaxAttempts,   \* Job.MaxAttempts
  Limit,         \* the global concurrency limit
  KindLimit,     \* every kind's own limit; 0: none
  Governed,      \* whether a resource policy's veto is installed (SetAdmit)
  Controls,      \* what the operator and the governor do: of "defer", "retry",
                 \* "remove", "pause"
  Execs,         \* bound: executions in flight at once
  MaxRetries,    \* bound: operator retries
  MaxDowns,      \* bound: shutdowns and crashes
  MaxFaults      \* bound: outcome writes the store refuses

ASSUME JobsAssumption == Jobs \subseteq Nat \ {0} /\ IsFiniteSet(Jobs)
ASSUME ExecsAssumption == Execs \subseteq Nat \ {0} /\ IsFiniteSet(Execs)
ASSUME LimitsAssumption ==
  /\ MaxAttempts \in Nat \ {0} /\ Limit \in Nat \ {0} /\ KindLimit \in Nat
  /\ Governed \in BOOLEAN /\ Controls \subseteq {"defer", "retry", "remove", "pause"}
  /\ MaxRetries \in Nat /\ MaxDowns \in Nat /\ MaxFaults \in Nat

None     == 0
Kinds    == {KindOf[j] : j \in Jobs}
Waiting  == {"queued", "deferred"}             \* claimableStates
Active   == Waiting \union {"running"}
Terminal == {"done", "failed", "cancelled"}

VARIABLES
  row, attempts, held,   \* the jobs table
  disp,        \* where the dispatcher is
  kinds,       \* the kinds eligibleKinds returned to the Tick in progress
  claimed,     \* the job ClaimJob returned and start has not registered
  running,     \* q.running: running[j] is j's execution, or None
  byKind,      \* q.byKind
  paused,      \* q.paused
  stopping,    \* the parent context is done
  phase,       \* phase[e]: where execution e is
  job,         \* job[e]: ex.job
  attempt,     \* attempt[e]: ex.job.Attempts, as claimed
  cancelled,   \* cancelled[e]: ex.cancelled
  outcome,     \* outcome[e]: what w.Run returned, and ex.cancelled as finish read it
  cancelling,  \* the job whose Cancel is in progress, or None
  found,       \* the execution that Cancel found
  acked,       \* jobs whose running execution a Cancel was told it had stopped,
               \* until their row ends (history)
  crashes,     \* crashes[j]: times the process died with j in hand, since j was
               \* last armed (history)
  retries, downs, faults   \* counters for the bounds

rowVars    == <<row, attempts, held>>
dispVars   == <<disp, kinds, claimed>>
execVars   == <<phase, job, attempt, cancelled, outcome>>
cancelVars == <<cancelling, found>>
history    == <<acked, crashes, retries, downs, faults>>
vars == <<rowVars, dispVars, running, byKind, paused, stopping, execVars,
          cancelVars, history>>

NoOutcome == [err |-> "none", cancelled |-> FALSE]

Init ==
  /\ row = [j \in Jobs |-> "none"] /\ attempts = [j \in Jobs |-> 0] /\ held = {}
  /\ disp = "recover" /\ kinds = {} /\ claimed = None
  /\ running = [j \in Jobs |-> None] /\ byKind = [k \in Kinds |-> 0]
  /\ paused = FALSE /\ stopping = FALSE
  /\ phase = [e \in Execs |-> "over"] /\ job = [e \in Execs |-> None]
  /\ attempt = [e \in Execs |-> 0] /\ cancelled = [e \in Execs |-> FALSE]
  /\ outcome = [e \in Execs |-> NoOutcome]
  /\ cancelling = None /\ found = None
  /\ acked = {} /\ crashes = [j \in Jobs |-> 0]
  /\ retries = 0 /\ downs = 0 /\ faults = 0

Up == disp # "down"
Registered == {j \in Jobs : running[j] # None}     \* the keys of q.running
Working    == {e \in Execs : phase[e] \in {"work", "finish"}}

(* Jobs a worker or the dispatcher is holding, their outcome not written.  *)
InHand == {job[e] : e \in Working} \union ({claimed} \ {None})

-----------------------------------------------------------------------------
(* The jobs table                                                          *)

(* The partial unique index: another active row, unique like this one, has *)
(* its kind and target.                                                    *)
Same(j, k) ==
  /\ j # k /\ {j, k} \subseteq UniqueJobs
  /\ KindOf[j] = KindOf[k] /\ TargetOf[j] = TargetOf[k]
Taken(j) == \E k \in Jobs : Same(j, k) /\ row[k] \in Active

(* An UPDATE by id alone: no effect on a row that was deleted; refused by  *)
(* the index when it would make an ended row active beside its twin.       *)
UpdateRow(j, s) ==
  row' = [row EXCEPT ![j] =
            IF @ = "gone" \/ (s \in Active /\ @ \notin Active /\ Taken(j))
            THEN @ ELSE s]

-----------------------------------------------------------------------------
(* The operator and the governor                                           *)

(* FindActiveJob and the INSERT are two steps, but only the INSERT writes, *)
(* and the index folds what slipped between them. Ids are never reused.    *)
Submit(j) ==
  /\ Up /\ row[j] = "none"
  /\ \A k \in Jobs : k < j => row[k] # "none"
  /\ ~Taken(j)
  /\ row' = [row EXCEPT ![j] = "queued"]
  /\ UNCHANGED <<attempts, held, dispVars, running, byKind, paused, stopping,
                 execVars, cancelVars, history>>

DispatcherLocked == disp \in {"again", "claim", "start"}

(* Mutant of CancelLook: the lookup does not wait for dispatchMu.          *)
CancelLookUnlocked(j) ==
  /\ Up /\ cancelling = None /\ row[j] # "none"
  /\ cancelling' = j /\ found' = running[j]
  /\ cancelled' = IF running[j] = None THEN cancelled
                  ELSE [cancelled EXCEPT ![running[j]] = TRUE]
  /\ UNCHANGED <<rowVars, dispVars, running, byKind, paused, stopping,
                 phase, job, attempt, outcome, history>>

(* Cancel, holding dispatchMu to its end: under mu, find the execution and *)
(* mark it ...                                                             *)
CancelLook(j) ==
  /\ Up /\ cancelling = None /\ ~DispatcherLocked /\ row[j] # "none"
  /\ cancelling' = j /\ found' = running[j]
  /\ cancelled' = IF running[j] = None THEN cancelled
                  ELSE [cancelled EXCEPT ![running[j]] = TRUE]
  /\ UNCHANGED <<rowVars, dispVars, running, byKind, paused, stopping,
                 phase, job, attempt, outcome, history>>

(* ... then cancel its context, which the worker answers when it likes, or *)
(* CancelJob the row, which is refused for a row that has ended.           *)
CancelAct ==
  /\ cancelling # None
  /\ cancelling' = None /\ found' = None
  /\ LET heard == found # None \/ row[cancelling] \in Active IN
     /\ acked' = IF found # None THEN acked \union {cancelling} ELSE acked
     /\ row' = IF found = None /\ heard
               THEN [row EXCEPT ![cancelling] = "cancelled"] ELSE row
  /\ UNCHANGED <<attempts, held, dispVars, running, byKind, paused, stopping,
                 execVars, crashes, retries, downs, faults>>

(* DeferJob. available_at is in the future, or, from pullForward, now.     *)
Defer(j) ==
  /\ Up /\ "defer" \in Controls /\ row[j] \in Waiting
  /\ row' = [row EXCEPT ![j] = "deferred"]
  /\ \E later \in {held \union {j}, held \ {j}} : held' = later
  /\ UNCHANGED <<attempts, dispVars, running, byKind, paused, stopping,
                 execVars, cancelVars, history>>

RetryJob(j) ==
  /\ Up /\ "retry" \in Controls /\ retries < MaxRetries
  /\ row[j] \in Terminal /\ ~Taken(j)
  /\ row' = [row EXCEPT ![j] = "queued"]
  /\ attempts' = [attempts EXCEPT ![j] = 0]
  /\ held' = held \ {j}
  /\ crashes' = [crashes EXCEPT ![j] = 0]
  /\ retries' = retries + 1
  /\ UNCHANGED <<dispVars, running, byKind, paused, stopping, execVars,
                 cancelVars, acked, downs, faults>>

(* Mutant of Remove: DELETE without a state guard.                         *)
RemoveAny(j) ==
  /\ Up /\ "remove" \in Controls /\ row[j] \notin {"none", "gone"}
  /\ row' = [row EXCEPT ![j] = "gone"]
  /\ UNCHANGED <<attempts, held, dispVars, running, byKind, paused, stopping,
                 execVars, cancelVars, history>>

(* DeleteJob, guarded by its own WHERE; PurgeJobs removes ended rows only. *)
Remove(j) ==
  /\ Up /\ "remove" \in Controls /\ row[j] \in Waiting \union Terminal
  /\ row' = [row EXCEPT ![j] = "gone"]
  /\ UNCHANGED <<attempts, held, dispVars, running, byKind, paused, stopping,
                 execVars, cancelVars, history>>

SetPaused(p) ==
  /\ Up /\ "pause" \in Controls /\ paused # p
  /\ paused' = p
  /\ UNCHANGED <<rowVars, dispVars, running, byKind, stopping, execVars,
                 cancelVars, history>>

TimePasses(j) ==
  /\ j \in held
  /\ held' = held \ {j}
  /\ UNCHANGED <<row, attempts, dispVars, running, byKind, paused, stopping,
                 execVars, cancelVars, history>>

-----------------------------------------------------------------------------
(* The dispatcher                                                          *)

(* Mutants of Recover: the attempt a crash spent is refunded; rows with no *)
(* attempt left are overlooked.                                            *)
RecoverRefunds ==
  /\ disp = "recover" /\ disp' = "select"
  /\ row' = [j \in Jobs |-> IF row[j] = "running" THEN "queued" ELSE row[j]]
  /\ attempts' = [j \in Jobs |-> IF row[j] = "running" THEN attempts[j] - 1
                                 ELSE attempts[j]]
  /\ held' = held \ {j \in Jobs : row[j] = "running"}
  /\ UNCHANGED <<kinds, claimed, running, byKind, paused, stopping, execVars,
                 cancelVars, history>>

RecoverSkipsExhausted ==
  /\ disp = "recover" /\ disp' = "select"
  /\ LET orphans == {j \in Jobs : row[j] = "running" /\ attempts[j] < MaxAttempts}
     IN row' = [j \in Jobs |-> IF j \in orphans THEN "queued" ELSE row[j]]
        /\ held' = held \ orphans
  /\ UNCHANGED <<attempts, kinds, claimed, running, byKind, paused, stopping,
                 execVars, cancelVars, history>>

(* RequeueRunningJobs, one transaction, before anything is claimed.        *)
Recover ==
  /\ disp = "recover" /\ disp' = "select"
  /\ LET orphans   == {j \in Jobs : row[j] = "running"}
         exhausted == {j \in orphans : attempts[j] >= MaxAttempts}
     IN /\ row' = [j \in Jobs |-> IF j \in exhausted THEN "failed"
                                  ELSE IF j \in orphans THEN "queued" ELSE row[j]]
        /\ held' = held \ (orphans \ exhausted)
  /\ UNCHANGED <<attempts, kinds, claimed, running, byKind, paused, stopping,
                 execVars, cancelVars, history>>

(* Mutants of Eligible: one job too many; the context is not looked at.    *)
EligibleOverLimit ==
  IF stopping \/ paused \/ Cardinality(Registered) >= Limit THEN {}
  ELSE {k \in Kinds : KindLimit = 0 \/ byKind[k] <= KindLimit}

EligibleWhileStopping ==
  IF paused \/ Cardinality(Registered) >= Limit THEN {}
  ELSE {k \in Kinds : KindLimit = 0 \/ byKind[k] < KindLimit}

(* Tick's look at the context, and eligibleKinds.                          *)
Eligible ==
  IF stopping \/ paused \/ Cardinality(Registered) >= Limit THEN {}
  ELSE {k \in Kinds : KindLimit = 0 \/ byKind[k] < KindLimit}

(* The governor's veto (admit) may strike any kind out; it fails open, and *)
(* what it decides is not the queue's.                                     *)
Tick ==
  /\ (disp = "select" /\ cancelling = None) \/ disp = "again"
  /\ \E admitted \in (IF Governed THEN SUBSET Eligible ELSE {Eligible}) :
       /\ kinds' = admitted
       /\ disp' = IF admitted = {} THEN "select" ELSE "claim"
  /\ UNCHANGED <<rowVars, claimed, running, byKind, paused, stopping, execVars,
                 cancelVars, history>>

(* Mutant of Claimable: a deferral is a lock, not a time.                  *)
ClaimableQueued ==
  {j \in Jobs : row[j] = "queued" /\ j \notin held /\ KindOf[j] \in kinds}

Claimable ==
  {j \in Jobs : row[j] \in Waiting /\ j \notin held /\ KindOf[j] \in kinds}

(* ORDER BY priority DESC, created_at ASC, id ASC                          *)
Before(k, j) ==
  Priority[k] > Priority[j] \/ (Priority[k] = Priority[j] /\ k < j)

ClaimJob ==
  /\ disp = "claim"
  /\ \E j \in Claimable :
       /\ \A k \in Claimable : ~Before(k, j)
       /\ row' = [row EXCEPT ![j] = "running"]
       /\ attempts' = [attempts EXCEPT ![j] = @ + 1]
       /\ claimed' = j
  /\ disp' = "start"
  /\ UNCHANGED <<held, kinds, running, byKind, paused, stopping, execVars,
                 cancelVars, history>>

ClaimNothing ==
  /\ disp = "claim" /\ Claimable = {}
  /\ disp' = "select" /\ kinds' = {}
  /\ UNCHANGED <<rowVars, claimed, running, byKind, paused, stopping, execVars,
                 cancelVars, history>>

(* start: register the execution, launch its goroutine, look for more. An  *)
(* execution that is over is nobody's, so its number is used again.        *)
StartExecution(e) ==
  /\ disp = "start" /\ phase[e] = "over"
  /\ \A f \in Execs : f < e => phase[f] # "over"
  /\ running' = [running EXCEPT ![claimed] = e]
  /\ byKind' = [byKind EXCEPT ![KindOf[claimed]] = @ + 1]
  /\ phase' = [phase EXCEPT ![e] = "work"]
  /\ job' = [job EXCEPT ![e] = claimed]
  /\ attempt' = [attempt EXCEPT ![e] = attempts[claimed]]
  /\ cancelled' = [cancelled EXCEPT ![e] = FALSE]
  /\ disp' = "again" /\ kinds' = {} /\ claimed' = None
  /\ UNCHANGED <<rowVars, paused, stopping, outcome, cancelVars, history>>

(* Run, its context done: wait for the workers, then return.               *)
Unwind ==
  /\ disp = "select" /\ stopping
  /\ disp' = "unwind"
  /\ UNCHANGED <<rowVars, kinds, claimed, running, byKind, paused, stopping,
                 execVars, cancelVars, history>>

RunReturns ==
  /\ disp = "unwind" /\ \A e \in Execs : phase[e] = "over"
  /\ disp' = "exited"
  /\ UNCHANGED <<rowVars, kinds, claimed, running, byKind, paused, stopping,
                 execVars, cancelVars, history>>

-----------------------------------------------------------------------------
(* The goroutine of execution e                                            *)

(* Mutant of WorkerReturns: the slot is freed before the outcome is        *)
(* written.                                                                *)
WorkerReturnsFreed(e) ==
  /\ phase[e] = "work"
  /\ \E err \in {"nil", "permanent", "retryable"} :
       outcome' = [outcome EXCEPT ![e] =
                     [err |-> err, cancelled |-> cancelled[e]]]
  /\ phase' = [phase EXCEPT ![e] = "finish"]
  /\ running' = [running EXCEPT ![job[e]] = None]
  /\ UNCHANGED <<rowVars, dispVars, byKind, paused, stopping, job,
                 attempt, cancelled, cancelVars, history>>

(* w.Run returns, in its own time or because its context was cancelled,    *)
(* and finish reads ex.cancelled under mu.                                 *)
WorkerReturns(e) ==
  /\ phase[e] = "work"
  /\ \E err \in {"nil", "permanent", "retryable"} :
       outcome' = [outcome EXCEPT ![e] =
                     [err |-> err, cancelled |-> cancelled[e]]]
  /\ phase' = [phase EXCEPT ![e] = "finish"]
  /\ UNCHANGED <<rowVars, dispVars, running, byKind, paused, stopping, job,
                 attempt, cancelled, cancelVars, history>>

(* finish's switch: what the row is to read next. A shutdown is not the    *)
(* job's fault; anything else that failed spends the attempt.              *)
Verdict(e) ==
  IF outcome[e].err = "nil"            THEN "done"
  ELSE IF outcome[e].cancelled         THEN "cancelled"
  ELSE IF stopping                     THEN "requeue"
  ELSE IF outcome[e].err = "permanent"
          \/ attempt[e] >= MaxAttempts THEN "failed"
  ELSE "reschedule"

(* FinishJob, RequeueJob (available now, the attempt refunded) or          *)
(* RescheduleJob (available after the backoff).                            *)
FinishWrite(e) ==
  /\ phase[e] = "finish"
  /\ phase' = [phase EXCEPT ![e] = "release"]
  /\ LET j == job[e]
         v == Verdict(e)
         again == v \in {"requeue", "reschedule"}
     IN /\ UpdateRow(j, IF again THEN "queued" ELSE v)
        /\ attempts' = IF v = "requeue" /\ row'[j] = "queued" /\ attempts[j] > 0
                       THEN [attempts EXCEPT ![j] = @ - 1] ELSE attempts
        /\ held' = IF v = "reschedule" /\ row'[j] = "queued" THEN held \union {j}
                   ELSE IF v = "requeue" /\ row'[j] = "queued" THEN held \ {j}
                   ELSE held
        /\ acked' = IF row'[j] \in Terminal THEN acked \ {j} ELSE acked
  /\ UNCHANGED <<dispVars, running, byKind, paused, stopping, job, attempt,
                 cancelled, outcome, cancelVars, crashes, retries, downs, faults>>

(* The store refuses the write: finish logs it and goes on.                *)
FinishWriteFails(e) ==
  /\ phase[e] = "finish" /\ faults < MaxFaults
  /\ phase' = [phase EXCEPT ![e] = "release"]
  /\ faults' = faults + 1
  /\ UNCHANGED <<rowVars, dispVars, running, byKind, paused, stopping, job,
                 attempt, cancelled, outcome, cancelVars,
                 acked, crashes, retries, downs>>

(* The slot is given up, by job id, after the outcome was written.         *)
Release(e) ==
  /\ phase[e] = "release"
  /\ phase' = [phase EXCEPT ![e] = "over"]
  /\ running' = [running EXCEPT ![job[e]] = None]
  /\ byKind' = [byKind EXCEPT ![KindOf[job[e]]] = IF @ > 0 THEN @ - 1 ELSE 0]
  /\ job' = [job EXCEPT ![e] = None]
  /\ attempt' = [attempt EXCEPT ![e] = 0]
  /\ cancelled' = [cancelled EXCEPT ![e] = FALSE]
  /\ outcome' = [outcome EXCEPT ![e] = NoOutcome]
  /\ UNCHANGED <<rowVars, dispVars, paused, stopping, cancelVars, history>>

-----------------------------------------------------------------------------
(* The process                                                             *)

Shutdown ==
  /\ Up /\ ~stopping /\ downs < MaxDowns
  /\ stopping' = TRUE
  /\ downs' = downs + 1
  /\ UNCHANGED <<rowVars, dispVars, running, byKind, paused, execVars,
                 cancelVars, acked, crashes, retries, faults>>

(* The process ends: after Run returned, or before (a crash, a kill, a     *)
(* shutdown that overran its budget). Memory is gone.                      *)
ProcessEnds ==
  /\ Up
  /\ disp = "exited" \/ stopping \/ downs < MaxDowns
  /\ downs' = IF stopping THEN downs ELSE downs + 1
  /\ crashes' = [j \in Jobs |-> IF j \in InHand THEN crashes[j] + 1
                                 ELSE crashes[j]]
  /\ disp' = "down" /\ kinds' = {} /\ claimed' = None
  /\ running' = [j \in Jobs |-> None] /\ byKind' = [k \in Kinds |-> 0]
  /\ paused' = FALSE /\ stopping' = FALSE
  /\ phase' = [e \in Execs |-> "over"] /\ job' = [e \in Execs |-> None]
  /\ attempt' = [e \in Execs |-> 0] /\ cancelled' = [e \in Execs |-> FALSE]
  /\ outcome' = [e \in Execs |-> NoOutcome]
  /\ cancelling' = None /\ found' = None /\ acked' = {}
  /\ UNCHANGED <<rowVars, retries, faults>>

ProcessStarts ==
  /\ disp = "down" /\ disp' = "recover"
  /\ UNCHANGED <<rowVars, kinds, claimed, running, byKind, paused, stopping,
                 execVars, cancelVars, history>>

-----------------------------------------------------------------------------
Dispatcher == Recover \/ Tick \/ ClaimJob \/ ClaimNothing \/ Unwind
              \/ RunReturns \/ \E e \in Execs : StartExecution(e)
Operator   == (\E j \in Jobs : Submit(j) \/ CancelLook(j) \/ Defer(j)
                               \/ RetryJob(j) \/ Remove(j) \/ TimePasses(j))
              \/ CancelAct \/ \E p \in BOOLEAN : SetPaused(p)
Execution(e) == WorkerReturns(e) \/ FinishWrite(e) \/ FinishWriteFails(e)
                \/ Release(e)
Process    == Shutdown \/ ProcessEnds \/ ProcessStarts

Next == Dispatcher \/ Operator \/ Process \/ \E e \in Execs : Execution(e)

Spec == Init /\ [][Next]_vars

(* Goroutines are scheduled, sync.Mutex does not starve the dispatcher,    *)
(* the ticker ticks, time passes, and a worker returns in the end.         *)
FairSpec ==
  /\ Spec
  /\ WF_vars(Recover) /\ SF_vars(Tick)
  /\ WF_vars(ClaimJob \/ ClaimNothing \/ Unwind \/ RunReturns)
  /\ WF_vars(\E e \in Execs : StartExecution(e))
  /\ WF_vars(CancelAct)
  /\ \A e \in Execs : WF_vars(Execution(e))
  /\ \A j \in Jobs : WF_vars(TimePasses(j))

-----------------------------------------------------------------------------
(* Properties                                                              *)

TypeOK ==
  /\ row \in [Jobs -> Active \union Terminal \union {"none", "gone"}]
  /\ attempts \in [Jobs -> Nat] /\ held \subseteq Jobs
  /\ disp \in {"down", "recover", "select", "again", "claim", "start",
               "unwind", "exited"}
  /\ kinds \subseteq Kinds /\ claimed \in Jobs \union {None}
  /\ running \in [Jobs -> Execs \union {None}] /\ byKind \in [Kinds -> Nat]
  /\ paused \in BOOLEAN /\ stopping \in BOOLEAN
  /\ phase \in [Execs -> {"over", "work", "finish", "release"}]
  /\ job \in [Execs -> Jobs \union {None}] /\ attempt \in [Execs -> Nat]
  /\ cancelled \in [Execs -> BOOLEAN]
  /\ outcome \in [Execs -> [err : {"none", "nil", "permanent", "retryable"},
                            cancelled : BOOLEAN]]
  /\ cancelling \in Jobs \union {None} /\ found \in Execs \union {None}
  /\ acked \subseteq Jobs /\ crashes \in [Jobs -> Nat]
  /\ retries \in 0..MaxRetries /\ downs \in 0..MaxDowns /\ faults \in 0..MaxFaults

(* The row of a live worker reads running, so the unique index keeps every *)
(* other job off its target: no Cancel or Delete frees the target under    *)
(* the worker that is writing its output.                                  *)
WorkerHoldsRow == \A e \in Working : row[job[e]] = "running"

(* After recovery, a row reads running only while somebody holds it: an    *)
(* execution that has not written its outcome, or the dispatcher between   *)
(* claim and start. A row stuck at running is never claimed again and its  *)
(* target is never free.                                                   *)
RunningRowHasWorker ==
  disp \notin {"down", "recover"} =>
    \A j \in Jobs : row[j] = "running" => j \in InHand

(* A worker's execution is in q.running, so a Cancel that comes after the  *)
(* registration finds it.                                                  *)
CancelFindsWorker == \A e \in Working : running[job[e]] = e

(* Rows and workers agree, in both directions, and the map a Cancel looks  *)
(* into names the worker there is.                                         *)
RowsAndWorkersAgree == WorkerHoldsRow /\ RunningRowHasWorker /\ CancelFindsWorker

(* The limits bound the workers there are, whatever the two maps that      *)
(* count them say.                                                         *)
LimitsHold ==
  /\ Cardinality(Working) <= Limit
  /\ KindLimit # 0 => \A k \in Kinds :
       Cardinality({e \in Working : KindOf[job[e]] = k}) <= KindLimit

(* A job that takes the server down with it does so at most MaxAttempts    *)
(* times before somebody re-arms it: a crash is never refunded.            *)
CrashesAreCharged == \A j \in Jobs : crashes[j] <= MaxAttempts

(* A job whose execution a Cancel reported stopped is not put back in the  *)
(* queue by it and started again. (A restart in between loses the Cancel,  *)
(* as it loses everything in memory.)  Violated: a Cancel between finish's  *)
(* read of ex.cancelled and the release of the entry is lost.              *)
CancelIsHeeded == [][\A j \in acked : attempts'[j] <= attempts[j]]_vars

(* The queue implements the ledger.                                        *)
Ledger == INSTANCE JobLedger WITH
  workers <- InHand
ImplementsLedger == Ledger!Spec

(* Waiting work is not forgotten: it is claimed or otherwise moved on,     *)
(* unless the queue is paused, the process ends, or the governor defers it *)
(* for ever. A deferral is a time, not a lock.                             *)
WaitingIsServed ==
  \A j \in Jobs :
    \/ row[j] \in Waiting ~> row[j] \notin Waiting \/ paused \/ stopping \/ ~Up
    \/ []<><<Defer(j)>>_vars

(* A shutdown ends: Run returns after the workers it started, or the       *)
(* process is gone.                                                        *)
ShutdownCompletes == stopping ~> disp \in {"exited", "down"}
=============================================================================

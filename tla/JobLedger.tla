------------------------------ MODULE JobLedger ------------------------------
(***************************************************************************)
(* What the background job queue promises, without its machinery: a row    *)
(* per job, and the set of jobs a worker is on. A row moves only along the *)
(* transitions below; a worker is on a job only while its row reads        *)
(* running, one worker per job and one per unique target; a row that ended *)
(* stays ended until somebody re-arms it. A crash takes the workers and    *)
(* leaves the rows, and recovery puts every orphaned row back in play.     *)
(***************************************************************************)
EXTENDS Naturals

CONSTANTS Jobs, Same(_, _)  \* Same(j, k): two jobs may not be worked at once

Waiting  == {"queued", "deferred"}
Terminal == {"done", "failed", "cancelled"}

VARIABLES row, workers
vars == <<row, workers>>

Init == row = [j \in Jobs |-> "none"] /\ workers = {}

Move(j, from, to) == row[j] \in from /\ row' = [row EXCEPT ![j] = to]

Submit(j) == Move(j, {"none"}, "queued") /\ UNCHANGED workers
Defer(j)  == Move(j, Waiting, "deferred") /\ UNCHANGED workers
Rearm(j)  == Move(j, Terminal, "queued") /\ UNCHANGED workers
Remove(j) == Move(j, Waiting \union Terminal, "gone") /\ UNCHANGED workers

Cancel(j) ==
  /\ Move(j, Waiting \union {"running"}, "cancelled")
  /\ j \notin workers
  /\ UNCHANGED workers

Begin(j) ==
  /\ Move(j, Waiting, "running")
  /\ \A k \in workers : k # j /\ ~Same(j, k)
  /\ workers' = workers \union {j}

Settle(j) ==
  /\ j \in workers
  /\ \E s \in Terminal \union {"queued"} : Move(j, {"running"}, s)
  /\ workers' = workers \ {j}

Crash == workers' = {} /\ UNCHANGED row

Recover ==
  /\ workers = {}
  /\ \E gaveUp \in SUBSET {j \in Jobs : row[j] = "running"} :
       row' = [j \in Jobs |-> IF j \in gaveUp THEN "failed"
                              ELSE IF row[j] = "running" THEN "queued"
                              ELSE row[j]]
  /\ UNCHANGED workers

Next ==
  \/ \E j \in Jobs : \/ Submit(j) \/ Defer(j) \/ Rearm(j) \/ Remove(j)
                     \/ Cancel(j) \/ Begin(j) \/ Settle(j)
  \/ Crash
  \/ Recover

Spec == Init /\ [][Next]_vars
=============================================================================

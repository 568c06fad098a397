----------------------------- MODULE MCJobQueue -----------------------------
EXTENDS JobQueue

(* Jobs 1 and 2 are unique for one target of one kind; job 3 is of another *)
(* kind, and more urgent.                                                  *)
MCKindOf   == [j \in Jobs |-> IF j < 3 THEN "encode" ELSE "clip"]
MCTargetOf == [j \in Jobs |-> IF j < 3 THEN "r1" ELSE "r2"]
MCPriority == [j \in Jobs |-> IF j = 3 THEN 10 ELSE 0]
=============================================================================

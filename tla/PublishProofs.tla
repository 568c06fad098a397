--------------------------- MODULE PublishProofs ---------------------------
(***************************************************************************)
(* What the publication of a clip guarantees, for any number of clicks,    *)
(* requests, attempts, crashes and failed writes.                          *)
(***************************************************************************)
EXTENDS Publish, FiniteSetTheorems, TLAPS

(* The ledger: a row in flight is somebody's click, a posted one names its *)
(* post, and a linked job is the click's own and has been queued.          *)
Ledger ==
  /\ row.state \in InFlight => row.nonce \in Clicks /\ row.cause = "none"
  /\ row.state = "posted" => row.remote \in posts
  /\ row.job \in {0, row.nonce}
  /\ row.job # 0 => job[row.job].st # "none"

(* The queue: who runs is the worker's, and who waits has tries left.      *)
Queueing ==
  \A n \in Clicks : /\ job[n].st = "running" => w.k = n
                    /\ job[n].st = "queued" => job[n].tries < MaxAttempts
                    /\ job[n].st # "none" => n <= clicks

(* A click's job is queued by the one request that claimed its row, and    *)
(* once.                                                                   *)
Fresh(n) == \A r \in Requests : req[r].n # n
Submitting ==
  /\ \A r, s \in Requests : r # s /\ req[r].n # 0 => req[s].n # req[r].n
  /\ \A r \in Requests : req[r].pc \in {"submit", "resubmit", "retire"} =>
       req[r].n # 0 /\ job[req[r].n].st = "none"
  /\ \A r \in Requests : req[r].pc \in {"retire", "revoke"} => req[r].job # 0
  /\ \A r \in Requests : req[r].pc = "link" => req[r].n # 0 /\ job[req[r].n].st # "none"

(* A status read looks at a click's own job, and what it is about to judge *)
(* dead does not come to life.                                             *)
Reading ==
  \A r \in Requests :
    /\ req[r].pc = "ask" => /\ req[r].nonce # 0 /\ req[r].job \in {0, req[r].nonce}
                            /\ req[r].job # 0 => job[req[r].job].st # "none"
    /\ req[r].pc = "judge" =>
         /\ req[r].nonce # 0 /\ job[req[r].nonce].st \notin Active
         /\ job[req[r].nonce].st # "none" \/ Fresh(req[r].nonce)

(* The platform's side.                                                    *)
Books ==
  /\ \A i \in Ids : (up[i] = "done" => i \in posts) /\ (up[i] # "none" => i <= ids)
  /\ plat # "x" => \A i \in Ids : i \in posts => up[i] \in {"done", "gone"}

(* What the platform holds or may still act on and that did not go astray, *)
(* by count; the upload the row names is the one that may be resumed.      *)
Named == IF plat = "youtube" THEN row.sess ELSE row.remote
Settled == Cardinality(Owed) <= acks
Counted ==
  /\ Cardinality(Owed) <= 1 + acks
  /\ row.state # "posted" /\ ~row.stamp => Settled
  /\ row.state # "posted" /\ plat # "x" => Cardinality(Owed \ {Named}) <= acks

(* The worker knows what the row says, whoever else has moved it.          *)
Toil == \/ Begin \/ Prepare \/ GetSession \/ ProbeSession \/ ProbePublishId \/ DropRemote
        \/ ClearSession \/ Open \/ Save \/ Upload \/ SaveFinalized \/ AwaitProcessing
        \/ Forget \/ StampFinalizing \/ Send \/ Wait \/ ForgetAddress \/ Poll
        \/ Record \/ GiveUp \/ Settle
Working == w.pc \notin {"idle", "begin", "done", "dead", "ended"}
Knows ==
  /\ Working => row.state # "posted" /\ row.cause # "outcome_unknown"
  /\ w.pc \in {"pre", "get", "probe"} => w.had = row.stamp
  /\ w.pc \in {"send", "wait"} => row.stamp
  /\ w.pc = "record" => w.id \in posts
  /\ w.pc \in {"upload", "finalized", "process", "forget"} => plat = "x"
  /\ w.pc \in {"get", "probe", "drop", "dropid", "clear", "address", "expired", "poll"} => plat # "x"
  /\ w.pc \in {"drop", "dropid", "address", "expired", "poll"} => plat = "tiktok"
Uploading ==
  /\ plat # "x" => row.sess <= ids /\ w.u <= ids /\ row.remote <= ids /\ w.remote <= ids
  /\ plat = "youtube" /\ w.pc \in {"probe", "stamp", "send", "wait"} => w.u = row.sess /\ w.u # 0
  /\ plat # "x" /\ w.pc = "wait" => w.id = w.u
  /\ plat = "youtube" /\ w.pc = "save" => w.u # 0
  /\ plat = "tiktok" =>
       /\ w.pc \in {"pre", "get", "probe", "address", "stamp", "send", "wait", "poll"} =>
            w.remote = row.remote
       /\ w.pc \in {"probe", "address", "save", "stamp", "send", "wait", "poll"} => w.remote # 0
       /\ w.pc \in {"save", "address", "stamp", "send", "wait"} => w.u # 0
       /\ w.pc = "save" => w.u = w.remote

(* Where the worker forgets or opens an upload, or sends X's post, nothing *)
(* is out that has not been acknowledged.                                  *)
Clean ==
  /\ plat # "x" /\ w.pc \in {"drop", "dropid", "clear", "open", "save"} => Settled
  /\ plat = "x" /\ w.pc = "send" => Settled

(* What holds of the parts, and what counts.                               *)
Base == /\ TypeOK /\ Ledger /\ Queueing /\ Submitting /\ Reading /\ Books /\ Knows
        /\ Uploading
IInv == Base /\ Counted /\ Clean

-----------------------------------------------------------------------------

(* The fields of the records, one by one.                                  *)
LEMMA RowFields ==
  ASSUME RowTypes
  PROVE  /\ row.state \in States /\ row.nonce \in 0 .. MaxClicks /\ row.cause \in Causes
         /\ row.words \in Words /\ row.job \in 0 .. MaxClicks /\ row.sess \in 0 .. MaxIds
         /\ row.have \in Words /\ row.remote \in 0 .. MaxIds /\ row.final \in BOOLEAN
         /\ row.stamp \in BOOLEAN
BY DEF RowTypes, Rows

LEMMA WorkFields ==
  ASSUME WorkTypes
  PROVE  /\ w.pc \in Stages /\ w.k \in 0 .. MaxClicks /\ w.words \in Words /\ w.u \in 0 .. MaxIds
         /\ w.have \in Words /\ w.remote \in 0 .. MaxIds /\ w.final \in BOOLEAN
         /\ w.had \in BOOLEAN /\ w.id \in 0 .. MaxIds /\ w.cause \in Causes
BY DEF WorkTypes, Attempts

LEMMA ReqFields ==
  ASSUME ReqTypes, NEW r \in Requests
  PROVE  /\ req[r].pc \in Steps /\ req[r].n \in 0 .. MaxClicks
         /\ req[r].nonce \in 0 .. MaxClicks /\ req[r].job \in 0 .. MaxClicks
BY DEF ReqTypes, Handlers

(* The writes of the ledger's statements leave a row.                      *)
LEMMA RemoteDropped ==
  ASSUME NEW q \in Rows
  PROVE  [q EXCEPT !.remote = 0, !.final = FALSE] \in Rows
<1>1. 0 \in 0 .. MaxIds /\ 0 \in 0 .. MaxClicks /\ 0 \in Words
  BY BoundsAssumption DEF Words
<1> QED
  BY <1>1 DEF Rows

LEMMA SessionCleared ==
  ASSUME NEW q \in Rows
  PROVE  [q EXCEPT !.sess = 0, !.have = 0] \in Rows
<1>1. 0 \in 0 .. MaxIds /\ 0 \in 0 .. MaxClicks /\ 0 \in Words
  BY BoundsAssumption DEF Words
<1> QED
  BY <1>1 DEF Rows

LEMMA RowFailed ==
  ASSUME NEW q \in Rows
  PROVE  [q EXCEPT !.state = "failed", !.cause = "other"] \in Rows
BY DEF Rows, States, Causes

LEMMA RowPosted ==
  ASSUME NEW q \in Rows, NEW y \in 0 .. MaxIds
  PROVE  [q EXCEPT !.state = "posted", !.remote = y, !.cause = "none", !.sess = 0] \in Rows
<1>1. 0 \in 0 .. MaxIds /\ 0 \in 0 .. MaxClicks /\ 0 \in Words
  BY BoundsAssumption DEF Words
<1>2. "posted" \in States /\ "none" \in Causes
  BY DEF States, Causes
<1> QED
  BY <1>1, <1>2 DEF Rows

LEMMA UploadSaved ==
  ASSUME NEW q \in Rows, NEW y \in 0 .. MaxIds, NEW v \in Words
  PROVE  /\ [q EXCEPT !.sess = y, !.have = v] \in Rows
         /\ [q EXCEPT !.remote = y, !.final = FALSE] \in Rows
BY DEF Rows

LEMMA RowFailedFor ==
  ASSUME NEW q \in Rows, NEW c \in Causes
  PROVE  [q EXCEPT !.state = "failed", !.cause = c] \in Rows
<1>1. "failed" \in States
  BY DEF States
<1> QED
  BY <1>1 DEF Rows

LEMMA RowClaimed ==
  ASSUME NEW q \in Rows, NEW n \in 0 .. MaxClicks, NEW v \in Words, NEW b \in BOOLEAN
  PROVE  [q EXCEPT !.state = "confirmed", !.nonce = n, !.words = v, !.job = 0,
                   !.cause = "none", !.stamp = b] \in Rows
<1>1. 0 \in 0 .. MaxIds /\ 0 \in 0 .. MaxClicks /\ 0 \in Words
  BY BoundsAssumption DEF Words
<1>2. "confirmed" \in States /\ "none" \in Causes
  BY DEF States, Causes, InFlight
<1> QED
  BY <1>1, <1>2 DEF Rows

LEMMA RowWrites ==
  ASSUME RowTypes, WorkTypes
  PROVE  /\ [row EXCEPT !.remote = 0, !.final = FALSE] \in Rows
         /\ [row EXCEPT !.sess = 0, !.have = 0] \in Rows
         /\ [row EXCEPT !.state = "failed", !.cause = "other"] \in Rows
         /\ [row EXCEPT !.state = "posted", !.remote = w.id, !.cause = "none", !.sess = 0] \in Rows
<1> row \in Rows /\ w.id \in 0 .. MaxIds
  BY WorkFields DEF RowTypes
<1>1. [row EXCEPT !.remote = 0, !.final = FALSE] \in Rows
  BY RemoteDropped
<1>2. [row EXCEPT !.sess = 0, !.have = 0] \in Rows
  BY SessionCleared
<1>3. [row EXCEPT !.state = "failed", !.cause = "other"] \in Rows
  BY RowFailed
<1>4. [row EXCEPT !.state = "posted", !.remote = w.id, !.cause = "none", !.sess = 0] \in Rows
  BY RowPosted
<1> QED
  BY <1>1, <1>2, <1>3, <1>4

LEMMA RowClaim ==
  ASSUME RowTypes, NEW n \in 0 .. MaxClicks, NEW v \in Words, Rearm(n, v)
  PROVE  row' \in Rows
<1> DEFINE b == row.stamp /\ row.cause # "outcome_unknown"
<1>1. row \in Rows /\ b \in BOOLEAN
  BY DEF RowTypes
<1>2. row' = [row EXCEPT !.state = "confirmed", !.nonce = n, !.words = v, !.job = 0,
                         !.cause = "none", !.stamp = b]
  BY DEF Rearm
<1> HIDE DEF b
<1>3. [row EXCEPT !.state = "confirmed", !.nonce = n, !.words = v, !.job = 0,
                  !.cause = "none", !.stamp = b] \in Rows
  BY <1>1, RowClaimed
<1> QED
  BY <1>2, <1>3

(* Every step preserves the types, group by group.                         *)
LEMMA CountsNext ==
  ASSUME CountTypes, RowTypes, [Next]_vars
  PROVE  CountTypes'
<1> USE PlatformsAssumption, BoundsAssumption DEF Clicks, Ids
<1> USE DEF CountTypes
<1>1. ASSUME NEW r \in Requests, Look(r) PROVE CountTypes'
  BY <1>1 DEF Look, ApiOnly, cloud, counts, NoReq
<1>2. ASSUME NEW r \in Requests, Claim(r) PROVE CountTypes'
  BY <1>2 DEF Claim, ApiOnly, MayClaim, Rearm, NewWords, cloud, counts, NoReq
<1>3. ASSUME NEW r \in Requests, CancelJob(r) PROVE CountTypes'
  BY <1>3 DEF CancelJob, ApiOnly, Cancel, ActiveJobs, Active, cloud, counts,
       NoReq
<1>4. ASSUME NEW r \in Requests, ReadJob(r) PROVE CountTypes'
  BY <1>4 DEF ReadJob, Go, Leave, ApiOnly, StillGoing, Link, ActiveJobs,
       Active, Unqueued, cloud, counts, NoReq
<1>5. ASSUME NEW r \in Requests, Judge(r) PROVE CountTypes'
  BY <1>5 DEF Judge, Leave, ApiOnly, FailPublicationFor, Holds, cloud, counts,
       NoReq
<1>6. ASSUME NEW r \in Requests, Submit(r) PROVE CountTypes'
  BY <1>6 DEF Submit, Go, ApiOnly, Queued, ActiveJobs, Active, cloud, counts,
       NoReq
<1>7. ASSUME NEW r \in Requests, Retire(r) PROVE CountTypes'
  BY <1>7 DEF Retire, Go, ApiOnly, Cancel, cloud, counts, NoReq
<1>8. ASSUME NEW r \in Requests, GiveBack(r) PROVE CountTypes'
  BY <1>8 DEF GiveBack, Leave, ApiOnly, FailPublication, cloud, counts, NoReq
<1>9. ASSUME NEW r \in Requests, LinkJob(r) PROVE CountTypes'
  BY <1>9 DEF LinkJob, Leave, ApiOnly, Link, cloud, counts, NoReq
<1>10. ASSUME NEW r \in Requests, Revoke(r) PROVE CountTypes'
  BY <1>10 DEF Revoke, Leave, ApiOnly, FailPublicationFor, Holds, cloud,
       counts, NoReq
<1>11. ASSUME NEW n \in Clicks, ClaimJob(n) PROVE CountTypes'
  BY <1>11 DEF ClaimJob, Active, At, To, Stop, NoWork, Ended, Retryable, Final,
       Errors, Quiet, NoCloud, Fails, Write, Refused, cloud, counts, Holds
<1>12. ASSUME Begin PROVE CountTypes'
  BY <1>12 DEF Begin, At, To, Stop, NoWork, Ended, Retryable, Final, Errors,
       Quiet, NoCloud, Fails, Write, Refused, cloud, counts, Holds
<1>13. ASSUME Prepare PROVE CountTypes'
  BY <1>13 DEF Prepare, Entry, At, To, Stop, NoWork, Ended, Retryable, Final,
       Errors, Quiet, NoCloud, Fails, Write, Refused, cloud, counts, Holds
<1>14. ASSUME GetSession PROVE CountTypes'
  BY <1>14 DEF GetSession, At, To, Stop, NoWork, Ended, Retryable, Final,
       Errors, Quiet, NoCloud, Fails, Write, Refused, cloud, counts, Holds
<1>15. ASSUME ProbeSession PROVE CountTypes'
  BY <1>15 DEF ProbeSession, Finished, StartOver, At, To, Stop, NoWork, Ended,
       Retryable, Final, Errors, Quiet, NoCloud, Fails, Write, Refused, cloud,
       counts, Holds
<1>16. ASSUME ProbePublishId PROVE CountTypes'
  BY <1>16 DEF ProbePublishId, Finished, At, To, Stop, NoWork, Ended,
       Retryable, Final, Errors, Quiet, NoCloud, Fails, Write, Refused, cloud,
       counts, Holds
<1>17. ASSUME DropRemote PROVE CountTypes'
  BY <1>17 DEF DropRemote, Dead, At, To, Stop, NoWork, Ended, Retryable, Final,
       Errors, Quiet, NoCloud, Fails, Write, Refused, cloud, counts, Holds
<1>18. ASSUME ClearSession PROVE CountTypes'
  BY <1>18 DEF ClearSession, Dead, At, To, Stop, NoWork, Ended, Retryable,
       Final, Errors, Quiet, NoCloud, Fails, Write, Refused, cloud, counts,
       Holds
<1>19. ASSUME Open PROVE CountTypes'
  BY <1>19 DEF Open, At, To, Stop, NoWork, Ended, Retryable, Final, Errors,
       Quiet, NoCloud, Fails, Write, Refused, cloud, counts, Holds
<1>20. ASSUME Save PROVE CountTypes'
  BY <1>20 DEF Save, At, To, Stop, NoWork, Ended, Retryable, Final, Errors,
       Quiet, NoCloud, Fails, Write, Refused, cloud, counts, Holds
<1>21. ASSUME Upload PROVE CountTypes'
  BY <1>21 DEF Upload, At, To, Stop, NoWork, Ended, Retryable, Final, Errors,
       Quiet, NoCloud, Fails, Write, Refused, cloud, counts, Holds
<1>22. ASSUME SaveFinalized PROVE CountTypes'
  BY <1>22 DEF SaveFinalized, At, To, Stop, NoWork, Ended, Retryable, Final,
       Errors, Quiet, NoCloud, Fails, Write, Refused, cloud, counts, Holds
<1>23. ASSUME AwaitProcessing PROVE CountTypes'
  BY <1>23 DEF AwaitProcessing, At, To, Stop, NoWork, Ended, Retryable, Final,
       Errors, Quiet, NoCloud, Fails, Write, Refused, cloud, counts, Holds
<1>24. ASSUME Forget PROVE CountTypes'
  BY <1>24 DEF Forget, Dead, At, To, Stop, NoWork, Ended, Retryable, Final,
       Errors, Quiet, NoCloud, Fails, Write, Refused, cloud, counts, Holds
<1>25. ASSUME StampFinalizing PROVE CountTypes'
  BY <1>25 DEF StampFinalizing, Stamped, At, To, Stop, NoWork, Ended,
       Retryable, Final, Errors, Quiet, NoCloud, Fails, Write, Refused, cloud,
       counts, Holds
<1>26. ASSUME Send PROVE CountTypes'
  BY <1>26 DEF Send, At, To, Stop, NoWork, Ended, Retryable, Final, Errors,
       Quiet, NoCloud, Fails, Write, Refused, cloud, counts, Holds
<1>27. ASSUME Wait PROVE CountTypes'
  BY <1>27 DEF Wait, Abandon, Lost, At, To, Stop, NoWork, Ended, Retryable,
       Final, Errors, Quiet, NoCloud, Fails, Write, Refused, cloud, counts,
       Holds
<1>28. ASSUME ForgetAddress PROVE CountTypes'
  BY <1>28 DEF ForgetAddress, Dead, At, To, Stop, NoWork, Ended, Retryable,
       Final, Errors, Quiet, NoCloud, Fails, Write, Refused, cloud, counts,
       Holds
<1>29. ASSUME Poll PROVE CountTypes'
  BY <1>29 DEF Poll, Finished, At, To, Stop, NoWork, Ended, Retryable, Final,
       Errors, Quiet, NoCloud, Fails, Write, Refused, cloud, counts, Holds
<1>30. ASSUME Record PROVE CountTypes'
  BY <1>30 DEF Record, RecordPost, CanRecord, At, To, Stop, NoWork, Ended,
       Retryable, Final, Errors, Quiet, NoCloud, Fails, Write, Refused, cloud,
       counts, Holds
<1>31. ASSUME GiveUp PROVE CountTypes'
  BY <1>31 DEF GiveUp, FailPublicationFor, Holds, At, To, Stop, NoWork, Ended,
       Retryable, Final, Errors, Quiet, NoCloud, Fails, Write, Refused, cloud,
       counts
<1>32. ASSUME Settle PROVE CountTypes'
  BY <1>32 DEF Settle, LastTry, FailPublicationFor, Holds, At, To, Stop,
       NoWork, Ended, Retryable, Final, Errors, Quiet, NoCloud, Fails, Write,
       Refused, cloud, counts
<1>33. ASSUME FinishJob PROVE CountTypes'
  BY <1>33 DEF FinishJob, Outcome, LastTry, Active, At, To, Stop, NoWork,
       Ended, Retryable, Final, Errors, Quiet, NoCloud, Fails, Write, Refused,
       cloud, counts, Holds
<1>34. ASSUME NEW i \in Ids, Receive(i) PROVE CountTypes'
  BY <1>34 DEF Receive, CloudOnly, counts
<1>35. ASSUME NEW i \in Ids, Process(i) PROVE CountTypes'
  BY <1>35 DEF Process, CloudOnly, counts
<1>36. ASSUME NEW i \in Ids, Expire(i) PROVE CountTypes'
  BY <1>36 DEF Expire, CloudOnly, counts
<1>37. ASSUME Crash PROVE CountTypes'
  BY <1>37 DEF Crash, NoWork, NoReq, counts
<1>38. CASE UNCHANGED vars
  BY <1>38 DEF vars, cloud, counts, WorkTypes
<1> HIDE DEF CountTypes
<1> QED
  BY <1>1, <1>2, <1>3, <1>4, <1>5, <1>6, <1>7, <1>8, <1>9, <1>10, <1>11, <1>12,
     <1>13, <1>14, <1>15, <1>16, <1>17, <1>18, <1>19, <1>20, <1>21, <1>22,
     <1>23, <1>24, <1>25, <1>26, <1>27, <1>28, <1>29, <1>30, <1>31, <1>32,
     <1>33, <1>34, <1>35, <1>36, <1>37, <1>38
     DEF Next, Api, Work

LEMMA RowTypesNext ==
  ASSUME CountTypes, RowTypes, WorkTypes, [Next]_vars
  PROVE  RowTypes'
<1>a. /\ w.k \in 0 .. MaxClicks /\ w.words \in Words /\ w.u \in 0 .. MaxIds
      /\ w.have \in Words /\ w.remote \in 0 .. MaxIds /\ w.id \in 0 .. MaxIds /\ w.cause \in Causes
  BY WorkFields
<1>b. row \in Rows
  BY DEF RowTypes
<1>c. /\ [row EXCEPT !.remote = 0, !.final = FALSE] \in Rows
      /\ [row EXCEPT !.sess = 0, !.have = 0] \in Rows
      /\ [row EXCEPT !.state = "failed", !.cause = "other"] \in Rows
      /\ [row EXCEPT !.state = "posted", !.remote = w.id, !.cause = "none", !.sess = 0] \in Rows
  BY RowWrites
<1>d. /\ [row EXCEPT !.sess = w.u, !.have = w.words] \in Rows
      /\ [row EXCEPT !.remote = w.u, !.final = FALSE] \in Rows
      /\ [row EXCEPT !.state = "failed", !.cause = w.cause] \in Rows
  BY <1>a, <1>b, UploadSaved, RowFailedFor
<1> USE PlatformsAssumption, BoundsAssumption DEF Clicks, Ids
<1> USE DEF RowTypes, CountTypes, Rows, States, Causes, Words, InFlight
<1>1. ASSUME NEW r \in Requests, Look(r) PROVE RowTypes'
  BY <1>1 DEF Look, ApiOnly, cloud, counts, NoReq
<1>2. ASSUME NEW r \in Requests, Claim(r) PROVE RowTypes'
  <2>1. PICK words \in Words : Rearm(clicks', words)
    BY <1>2 DEF Claim, NewWords
  <2>2. clicks' = clicks + 1 /\ clicks' \in 0 .. MaxClicks /\ plat' = plat
    BY <1>2 DEF Claim, ApiOnly
  <2>4. row' \in Rows
    BY <2>1, <2>2, RowClaim
  <2>5. row'.nonce = clicks'
    BY <2>1 DEF Rearm
  <2> QED
    BY <2>2, <2>4, <2>5
<1>3. ASSUME NEW r \in Requests, CancelJob(r) PROVE RowTypes'
  BY <1>3 DEF CancelJob, ApiOnly, Cancel, ActiveJobs, Active, cloud, counts,
       NoReq
<1>4. ASSUME NEW r \in Requests, ReadJob(r) PROVE RowTypes'
  BY <1>4 DEF ReadJob, Go, Leave, ApiOnly, StillGoing, Link, ActiveJobs,
       Active, Unqueued, cloud, counts, NoReq
<1>5. ASSUME NEW r \in Requests, Judge(r) PROVE RowTypes'
  BY <1>5 DEF Judge, Leave, ApiOnly, FailPublicationFor, Holds, cloud, counts,
       NoReq
<1>6. ASSUME NEW r \in Requests, Submit(r) PROVE RowTypes'
  BY <1>6 DEF Submit, Go, ApiOnly, Queued, ActiveJobs, Active, cloud, counts,
       NoReq
<1>7. ASSUME NEW r \in Requests, Retire(r) PROVE RowTypes'
  BY <1>7 DEF Retire, Go, ApiOnly, Cancel, cloud, counts, NoReq
<1>8. ASSUME NEW r \in Requests, GiveBack(r) PROVE RowTypes'
  BY <1>8 DEF GiveBack, Leave, ApiOnly, FailPublication, cloud, counts, NoReq
<1>9. ASSUME NEW r \in Requests, LinkJob(r) PROVE RowTypes'
  BY <1>9 DEF LinkJob, Leave, ApiOnly, Link, cloud, counts, NoReq
<1>10. ASSUME NEW r \in Requests, Revoke(r) PROVE RowTypes'
  BY <1>10 DEF Revoke, Leave, ApiOnly, FailPublicationFor, Holds, cloud,
       counts, NoReq
<1>11. ASSUME NEW n \in Clicks, ClaimJob(n) PROVE RowTypes'
  BY <1>11 DEF ClaimJob, Active, At, To, Stop, NoWork, Ended, Retryable, Final,
       Errors, Quiet, NoCloud, Fails, Write, Refused, cloud, counts, Holds
<1>12. ASSUME Begin PROVE RowTypes'
  BY <1>12, <1>a DEF Begin, At, To, Stop, NoWork, Ended, Retryable, Final,
       Errors, Quiet, NoCloud, Fails, Write, Refused, cloud, counts, Holds
<1>13. ASSUME Prepare PROVE RowTypes'
  BY <1>13, <1>a DEF Prepare, Entry, At, To, Stop, NoWork, Ended, Retryable,
       Final, Errors, Quiet, NoCloud, Fails, Write, Refused, cloud, counts,
       Holds
<1>14. ASSUME GetSession PROVE RowTypes'
  BY <1>14, <1>a DEF GetSession, At, To, Stop, NoWork, Ended, Retryable, Final,
       Errors, Quiet, NoCloud, Fails, Write, Refused, cloud, counts, Holds
<1>15. ASSUME ProbeSession PROVE RowTypes'
  BY <1>15, <1>a DEF ProbeSession, Finished, StartOver, At, To, Stop, NoWork,
       Ended, Retryable, Final, Errors, Quiet, NoCloud, Fails, Write, Refused,
       cloud, counts, Holds
<1>16. ASSUME ProbePublishId PROVE RowTypes'
  BY <1>16, <1>a DEF ProbePublishId, Finished, At, To, Stop, NoWork, Ended,
       Retryable, Final, Errors, Quiet, NoCloud, Fails, Write, Refused, cloud,
       counts, Holds
<1>17. ASSUME DropRemote PROVE RowTypes'
  <2>1. \/ row' = row
        \/ row' = [row EXCEPT !.remote = 0, !.final = FALSE]
    BY <1>17, <1>a DEF DropRemote, Dead, At, To, Stop, NoWork, Ended, Retryable,
         Final, Errors, Quiet, NoCloud, Fails, Write, Refused, cloud, counts,
         Holds
  <2>2. plat' = plat /\ clicks' = clicks /\ row'.nonce = row.nonce
    <3>1. plat' = plat /\ clicks' = clicks
      BY <1>17 DEF DropRemote, Dead, At, To, Stop, NoWork, Ended, Retryable, Final,
         Errors, Quiet, NoCloud, Fails, Write, Refused, cloud, counts, Holds
    <3> QED
      BY <2>1, <3>1
  <2>3. row' \in Rows
    <3> HIDE DEF Rows, States, Causes, Words
    <3> QED
      BY <2>1, <1>b, <1>c
  <2> QED
    BY <2>2, <2>3
<1>18. ASSUME ClearSession PROVE RowTypes'
  <2>1. \/ row' = row
        \/ row' = [row EXCEPT !.sess = 0, !.have = 0]
    BY <1>18, <1>a DEF ClearSession, Dead, At, To, Stop, NoWork, Ended, Retryable,
         Final, Errors, Quiet, NoCloud, Fails, Write, Refused, cloud, counts,
         Holds
  <2>2. plat' = plat /\ clicks' = clicks /\ row'.nonce = row.nonce
    <3>1. plat' = plat /\ clicks' = clicks
      BY <1>18 DEF ClearSession, Dead, At, To, Stop, NoWork, Ended, Retryable, Final,
         Errors, Quiet, NoCloud, Fails, Write, Refused, cloud, counts, Holds
    <3> QED
      BY <2>1, <3>1
  <2>3. row' \in Rows
    <3> HIDE DEF Rows, States, Causes, Words
    <3> QED
      BY <2>1, <1>b, <1>c
  <2> QED
    BY <2>2, <2>3
<1>19. ASSUME Open PROVE RowTypes'
  BY <1>19, <1>a DEF Open, At, To, Stop, NoWork, Ended, Retryable, Final,
       Errors, Quiet, NoCloud, Fails, Write, Refused, cloud, counts, Holds
<1>20. ASSUME Save PROVE RowTypes'
  <2>1. \/ row' = row
        \/ row' = [row EXCEPT !.sess = w.u, !.have = w.words]
        \/ row' = [row EXCEPT !.remote = w.u, !.final = FALSE]
    BY <1>20 DEF Save, Write, Refused
  <2>2. plat' = plat /\ clicks' = clicks
    BY <1>20 DEF Save, Quiet, counts
  <2>3. row'.nonce = row.nonce
    BY <2>1, <1>b
  <2>4. row' \in Rows
    <3> HIDE DEF Rows, States, Causes, Words
    <3> QED
      BY <2>1, <1>b, <1>d
  <2> QED
    BY <2>2, <2>3, <2>4
<1>21. ASSUME Upload PROVE RowTypes'
  BY <1>21, <1>a DEF Upload, At, To, Stop, NoWork, Ended, Retryable, Final,
       Errors, Quiet, NoCloud, Fails, Write, Refused, cloud, counts, Holds
<1>22. ASSUME SaveFinalized PROVE RowTypes'
  BY <1>22, <1>a DEF SaveFinalized, At, To, Stop, NoWork, Ended, Retryable,
       Final, Errors, Quiet, NoCloud, Fails, Write, Refused, cloud, counts,
       Holds
<1>23. ASSUME AwaitProcessing PROVE RowTypes'
  BY <1>23, <1>a DEF AwaitProcessing, At, To, Stop, NoWork, Ended, Retryable,
       Final, Errors, Quiet, NoCloud, Fails, Write, Refused, cloud, counts,
       Holds
<1>24. ASSUME Forget PROVE RowTypes'
  <2>1. \/ row' = row
        \/ row' = [row EXCEPT !.remote = 0, !.final = FALSE]
    BY <1>24, <1>a DEF Forget, Dead, At, To, Stop, NoWork, Ended, Retryable, Final,
         Errors, Quiet, NoCloud, Fails, Write, Refused, cloud, counts, Holds
  <2>2. plat' = plat /\ clicks' = clicks /\ row'.nonce = row.nonce
    <3>1. plat' = plat /\ clicks' = clicks
      BY <1>24 DEF Forget, Dead, At, To, Stop, NoWork, Ended, Retryable, Final, Errors,
         Quiet, NoCloud, Fails, Write, Refused, cloud, counts, Holds
    <3> QED
      BY <2>1, <3>1
  <2>3. row' \in Rows
    <3> HIDE DEF Rows, States, Causes, Words
    <3> QED
      BY <2>1, <1>b, <1>c
  <2> QED
    BY <2>2, <2>3
<1>25. ASSUME StampFinalizing PROVE RowTypes'
  BY ZenonT(60), <1>25, <1>a DEF StampFinalizing, Stamped, At, To, Stop, NoWork, Ended,
       Retryable, Final, Errors, Quiet, NoCloud, Fails, Write, Refused, cloud,
       counts, Holds
<1>26. ASSUME Send PROVE RowTypes'
  BY <1>26, <1>a DEF Send, At, To, Stop, NoWork, Ended, Retryable, Final,
       Errors, Quiet, NoCloud, Fails, Write, Refused, cloud, counts, Holds
<1>27. ASSUME Wait PROVE RowTypes'
  BY <1>27, <1>a DEF Wait, Abandon, Lost, At, To, Stop, NoWork, Ended,
       Retryable, Final, Errors, Quiet, NoCloud, Fails, Write, Refused, cloud,
       counts, Holds
<1>28. ASSUME ForgetAddress PROVE RowTypes'
  <2>1. \/ row' = row
        \/ row' = [row EXCEPT !.sess = 0, !.have = 0]
    BY <1>28, <1>a DEF ForgetAddress, Dead, At, To, Stop, NoWork, Ended, Retryable,
         Final, Errors, Quiet, NoCloud, Fails, Write, Refused, cloud, counts,
         Holds
  <2>2. plat' = plat /\ clicks' = clicks /\ row'.nonce = row.nonce
    <3>1. plat' = plat /\ clicks' = clicks
      BY <1>28 DEF ForgetAddress, Dead, At, To, Stop, NoWork, Ended, Retryable, Final,
         Errors, Quiet, NoCloud, Fails, Write, Refused, cloud, counts, Holds
    <3> QED
      BY <2>1, <3>1
  <2>3. row' \in Rows
    <3> HIDE DEF Rows, States, Causes, Words
    <3> QED
      BY <2>1, <1>b, <1>c
  <2> QED
    BY <2>2, <2>3
<1>29. ASSUME Poll PROVE RowTypes'
  BY <1>29, <1>a DEF Poll, Finished, At, To, Stop, NoWork, Ended, Retryable,
       Final, Errors, Quiet, NoCloud, Fails, Write, Refused, cloud, counts,
       Holds
<1>30. ASSUME Record PROVE RowTypes'
  <2>1. \/ row' = row
        \/ row' = [row EXCEPT !.state = "posted", !.remote = w.id,
                                  !.cause = "none", !.sess = 0]
    BY <1>30, <1>a DEF Record, RecordPost, CanRecord, At, To, Stop, NoWork, Ended,
         Retryable, Final, Errors, Quiet, NoCloud, Fails, Write, Refused, cloud,
         counts, Holds
  <2>2. plat' = plat /\ clicks' = clicks /\ row'.nonce = row.nonce
    <3>1. plat' = plat /\ clicks' = clicks
      BY <1>30 DEF Record, RecordPost, CanRecord, At, To, Stop, NoWork, Ended,
         Retryable, Final, Errors, Quiet, NoCloud, Fails, Write, Refused, cloud,
         counts, Holds
    <3> QED
      BY <2>1, <3>1
  <2>3. row' \in Rows
    <3> HIDE DEF Rows, States, Causes, Words
    <3> QED
      BY <2>1, <1>b, <1>c
  <2> QED
    BY <2>2, <2>3
<1>31. ASSUME GiveUp PROVE RowTypes'
  <2>1. row' = row \/ row' = [row EXCEPT !.state = "failed", !.cause = w.cause]
    BY <1>31 DEF GiveUp, FailPublicationFor
  <2>2. plat' = plat /\ clicks' = clicks
    BY <1>31 DEF GiveUp, Quiet, counts
  <2>3. row'.nonce = row.nonce
    BY <2>1, <1>b
  <2>4. row' \in Rows
    <3> HIDE DEF Rows, States, Causes, Words
    <3> QED
      BY <2>1, <1>b, <1>d
  <2> QED
    BY <2>2, <2>3, <2>4
<1>32. ASSUME Settle PROVE RowTypes'
  <2>1. \/ row' = row
        \/ row' = [row EXCEPT !.state = "failed", !.cause = "other"]
    BY <1>32, <1>a DEF Settle, LastTry, FailPublicationFor, Holds, At, To, Stop,
         NoWork, Ended, Retryable, Final, Errors, Quiet, NoCloud, Fails, Write,
         Refused, cloud, counts
  <2>2. plat' = plat /\ clicks' = clicks /\ row'.nonce = row.nonce
    <3>1. plat' = plat /\ clicks' = clicks
      BY <1>32 DEF Settle, LastTry, FailPublicationFor, Holds, At, To, Stop, NoWork,
         Ended, Retryable, Final, Errors, Quiet, NoCloud, Fails, Write, Refused,
         cloud, counts
    <3> QED
      BY <2>1, <3>1
  <2>3. row' \in Rows
    <3> HIDE DEF Rows, States, Causes, Words
    <3> QED
      BY <2>1, <1>b, <1>c
  <2> QED
    BY <2>2, <2>3
<1>33. ASSUME FinishJob PROVE RowTypes'
  BY <1>33, <1>a DEF FinishJob, Outcome, LastTry, Active, At, To, Stop, NoWork,
       Ended, Retryable, Final, Errors, Quiet, NoCloud, Fails, Write, Refused,
       cloud, counts, Holds
<1>34. ASSUME NEW i \in Ids, Receive(i) PROVE RowTypes'
  BY <1>34 DEF Receive, CloudOnly, counts
<1>35. ASSUME NEW i \in Ids, Process(i) PROVE RowTypes'
  BY <1>35 DEF Process, CloudOnly, counts
<1>36. ASSUME NEW i \in Ids, Expire(i) PROVE RowTypes'
  BY <1>36 DEF Expire, CloudOnly, counts
<1>37. ASSUME Crash PROVE RowTypes'
  BY <1>37 DEF Crash, NoWork, NoReq, counts
<1>38. CASE UNCHANGED vars
  BY <1>38 DEF vars, cloud, counts, WorkTypes
<1> HIDE DEF RowTypes, CountTypes, Rows, States, Causes, Words, InFlight
<1> QED
  BY <1>1, <1>2, <1>3, <1>4, <1>5, <1>6, <1>7, <1>8, <1>9, <1>10, <1>11, <1>12,
     <1>13, <1>14, <1>15, <1>16, <1>17, <1>18, <1>19, <1>20, <1>21, <1>22,
     <1>23, <1>24, <1>25, <1>26, <1>27, <1>28, <1>29, <1>30, <1>31, <1>32,
     <1>33, <1>34, <1>35, <1>36, <1>37, <1>38
     DEF Next, Api, Work

LEMMA EntryQueued == [st |-> "queued", tries |-> 0] \in Entries
<1>1. 0 \in 0 .. MaxAttempts
  BY BoundsAssumption
<1>2. "queued" \in Active
  BY DEF Active
<1> QED
  BY <1>1, <1>2 DEF Entries

LEMMA JobTypesNext ==
  ASSUME CountTypes, RowTypes, JobTypes, ReqTypes, WorkTypes, Queueing,
         Submitting, [Next]_vars
  PROVE  JobTypes'
<1>a. w.k \in 0 .. MaxClicks /\ (w.k # 0 <=> w.pc # "idle")
  BY WorkFields DEF WorkTypes
<1> USE PlatformsAssumption, BoundsAssumption DEF Clicks, Ids
<1> USE DEF JobTypes, Entries, Queueing
<1>1. ASSUME NEW r \in Requests, Look(r) PROVE JobTypes'
  BY <1>1, <1>a DEF Look, ApiOnly, cloud, counts, NoReq, Active
<1>2. ASSUME NEW r \in Requests, Claim(r) PROVE JobTypes'
  <2>1. job' = job
    BY <1>2 DEF Claim
  <2> QED
    BY <2>1
<1>3. ASSUME NEW r \in Requests, CancelJob(r) PROVE JobTypes'
  BY SMTT(30), <1>3, <1>a DEF CancelJob, ApiOnly, Cancel, ActiveJobs, Active, cloud,
       counts, NoReq
<1>4. ASSUME NEW r \in Requests, ReadJob(r) PROVE JobTypes'
  BY <1>4, <1>a DEF ReadJob, Go, Leave, ApiOnly, StillGoing, Link, ActiveJobs,
       Active, Unqueued, cloud, counts, NoReq
<1>5. ASSUME NEW r \in Requests, Judge(r) PROVE JobTypes'
  BY <1>5, <1>a DEF Judge, Leave, ApiOnly, FailPublicationFor, Holds, cloud,
       counts, NoReq, Active
<1>6. ASSUME NEW r \in Requests, Submit(r) PROVE JobTypes'
  <2>1. job' = job \/ job' = [job EXCEPT ![req[r].n] = [st |-> "queued", tries |-> 0]]
    BY <1>6 DEF Submit, Queued
  <2>2. [st |-> "queued", tries |-> 0] \in Entries
    BY EntryQueued
  <2> QED
    BY <2>1, <2>2
<1>7. ASSUME NEW r \in Requests, Retire(r) PROVE JobTypes'
  <2> DEFINE j == req[r].job
  <2>1. j \in Clicks /\ job[j] \in Entries
    BY <1>7, ReqFields DEF Submitting, Retire
  <2>2. \/ job' = job
        \/ job' = [job EXCEPT ![j].st = IF job[j].st = "queued" THEN "cancelled" ELSE job[j].st]
    BY <1>7 DEF Retire, Cancel
  <2>3. [job[j] EXCEPT !.st = IF job[j].st = "queued" THEN "cancelled" ELSE job[j].st] \in Entries
    BY <2>1
  <2> HIDE DEF j, Entries
  <2> QED
    BY <2>1, <2>2, <2>3
<1>8. ASSUME NEW r \in Requests, GiveBack(r) PROVE JobTypes'
  BY <1>8, <1>a DEF GiveBack, Leave, ApiOnly, FailPublication, cloud, counts,
       NoReq, Active
<1>9. ASSUME NEW r \in Requests, LinkJob(r) PROVE JobTypes'
  BY <1>9, <1>a DEF LinkJob, Leave, ApiOnly, Link, cloud, counts, NoReq, Active
<1>10. ASSUME NEW r \in Requests, Revoke(r) PROVE JobTypes'
  BY <1>10, <1>a DEF Revoke, Leave, ApiOnly, FailPublicationFor, Holds, cloud,
       counts, NoReq, Active
<1>11. ASSUME NEW n \in Clicks, ClaimJob(n) PROVE JobTypes'
  BY <1>11, <1>a DEF ClaimJob, Active, At, To, Stop, NoWork, Ended, Retryable,
       Final, Errors, Quiet, NoCloud, Fails, Write, Refused, cloud, counts,
       Holds
<1>12. ASSUME Begin PROVE JobTypes'
  BY <1>12, <1>a DEF Begin, At, To, Stop, NoWork, Ended, Retryable, Final,
       Errors, Quiet, NoCloud, Fails, Write, Refused, cloud, counts, Holds,
       Active
<1>13. ASSUME Prepare PROVE JobTypes'
  BY <1>13, <1>a DEF Prepare, Entry, At, To, Stop, NoWork, Ended, Retryable,
       Final, Errors, Quiet, NoCloud, Fails, Write, Refused, cloud, counts,
       Holds, Active
<1>14. ASSUME GetSession PROVE JobTypes'
  BY <1>14, <1>a DEF GetSession, At, To, Stop, NoWork, Ended, Retryable, Final,
       Errors, Quiet, NoCloud, Fails, Write, Refused, cloud, counts, Holds,
       Active
<1>15. ASSUME ProbeSession PROVE JobTypes'
  BY <1>15, <1>a DEF ProbeSession, Finished, StartOver, At, To, Stop, NoWork,
       Ended, Retryable, Final, Errors, Quiet, NoCloud, Fails, Write, Refused,
       cloud, counts, Holds, Active
<1>16. ASSUME ProbePublishId PROVE JobTypes'
  BY <1>16, <1>a DEF ProbePublishId, Finished, At, To, Stop, NoWork, Ended,
       Retryable, Final, Errors, Quiet, NoCloud, Fails, Write, Refused, cloud,
       counts, Holds, Active
<1>17. ASSUME DropRemote PROVE JobTypes'
  BY <1>17, <1>a DEF DropRemote, Dead, At, To, Stop, NoWork, Ended, Retryable,
       Final, Errors, Quiet, NoCloud, Fails, Write, Refused, cloud, counts,
       Holds, Active
<1>18. ASSUME ClearSession PROVE JobTypes'
  BY <1>18, <1>a DEF ClearSession, Dead, At, To, Stop, NoWork, Ended,
       Retryable, Final, Errors, Quiet, NoCloud, Fails, Write, Refused, cloud,
       counts, Holds, Active
<1>19. ASSUME Open PROVE JobTypes'
  BY <1>19, <1>a DEF Open, At, To, Stop, NoWork, Ended, Retryable, Final,
       Errors, Quiet, NoCloud, Fails, Write, Refused, cloud, counts, Holds,
       Active
<1>20. ASSUME Save PROVE JobTypes'
  BY <1>20, <1>a DEF Save, At, To, Stop, NoWork, Ended, Retryable, Final,
       Errors, Quiet, NoCloud, Fails, Write, Refused, cloud, counts, Holds,
       Active
<1>21. ASSUME Upload PROVE JobTypes'
  BY <1>21, <1>a DEF Upload, At, To, Stop, NoWork, Ended, Retryable, Final,
       Errors, Quiet, NoCloud, Fails, Write, Refused, cloud, counts, Holds,
       Active
<1>22. ASSUME SaveFinalized PROVE JobTypes'
  BY <1>22, <1>a DEF SaveFinalized, At, To, Stop, NoWork, Ended, Retryable,
       Final, Errors, Quiet, NoCloud, Fails, Write, Refused, cloud, counts,
       Holds, Active
<1>23. ASSUME AwaitProcessing PROVE JobTypes'
  BY <1>23, <1>a DEF AwaitProcessing, At, To, Stop, NoWork, Ended, Retryable,
       Final, Errors, Quiet, NoCloud, Fails, Write, Refused, cloud, counts,
       Holds, Active
<1>24. ASSUME Forget PROVE JobTypes'
  BY <1>24, <1>a DEF Forget, Dead, At, To, Stop, NoWork, Ended, Retryable,
       Final, Errors, Quiet, NoCloud, Fails, Write, Refused, cloud, counts,
       Holds, Active
<1>25. ASSUME StampFinalizing PROVE JobTypes'
  BY <1>25, <1>a DEF StampFinalizing, Stamped, At, To, Stop, NoWork, Ended,
       Retryable, Final, Errors, Quiet, NoCloud, Fails, Write, Refused, cloud,
       counts, Holds, Active
<1>26. ASSUME Send PROVE JobTypes'
  BY <1>26, <1>a DEF Send, At, To, Stop, NoWork, Ended, Retryable, Final,
       Errors, Quiet, NoCloud, Fails, Write, Refused, cloud, counts, Holds,
       Active
<1>27. ASSUME Wait PROVE JobTypes'
  BY <1>27, <1>a DEF Wait, Abandon, Lost, At, To, Stop, NoWork, Ended,
       Retryable, Final, Errors, Quiet, NoCloud, Fails, Write, Refused, cloud,
       counts, Holds, Active
<1>28. ASSUME ForgetAddress PROVE JobTypes'
  BY <1>28, <1>a DEF ForgetAddress, Dead, At, To, Stop, NoWork, Ended,
       Retryable, Final, Errors, Quiet, NoCloud, Fails, Write, Refused, cloud,
       counts, Holds, Active
<1>29. ASSUME Poll PROVE JobTypes'
  BY <1>29, <1>a DEF Poll, Finished, At, To, Stop, NoWork, Ended, Retryable,
       Final, Errors, Quiet, NoCloud, Fails, Write, Refused, cloud, counts,
       Holds, Active
<1>30. ASSUME Record PROVE JobTypes'
  BY <1>30, <1>a DEF Record, RecordPost, CanRecord, At, To, Stop, NoWork,
       Ended, Retryable, Final, Errors, Quiet, NoCloud, Fails, Write, Refused,
       cloud, counts, Holds, Active
<1>31. ASSUME GiveUp PROVE JobTypes'
  BY <1>31, <1>a DEF GiveUp, FailPublicationFor, Holds, At, To, Stop, NoWork,
       Ended, Retryable, Final, Errors, Quiet, NoCloud, Fails, Write, Refused,
       cloud, counts, Active
<1>32. ASSUME Settle PROVE JobTypes'
  BY <1>32, <1>a DEF Settle, LastTry, FailPublicationFor, Holds, At, To, Stop,
       NoWork, Ended, Retryable, Final, Errors, Quiet, NoCloud, Fails, Write,
       Refused, cloud, counts, Active
<1>33. ASSUME FinishJob PROVE JobTypes'
  BY SMTT(30), <1>33, <1>a DEF FinishJob, Outcome, LastTry, Active, At, To, Stop, NoWork,
       Ended, Retryable, Final, Errors, Quiet, NoCloud, Fails, Write, Refused,
       cloud, counts, Holds
<1>34. ASSUME NEW i \in Ids, Receive(i) PROVE JobTypes'
  BY <1>34, <1>a DEF Receive, CloudOnly, counts, Active
<1>35. ASSUME NEW i \in Ids, Process(i) PROVE JobTypes'
  BY <1>35, <1>a DEF Process, CloudOnly, counts, Active
<1>36. ASSUME NEW i \in Ids, Expire(i) PROVE JobTypes'
  BY <1>36, <1>a DEF Expire, CloudOnly, counts, Active
<1>37. ASSUME Crash PROVE JobTypes'
  BY <1>37, <1>a DEF Crash, NoWork, NoReq, counts, Active
<1>38. CASE UNCHANGED vars
  BY <1>38 DEF vars, cloud, counts, WorkTypes
<1> HIDE DEF JobTypes, Entries, Queueing
<1> QED
  BY <1>1, <1>2, <1>3, <1>4, <1>5, <1>6, <1>7, <1>8, <1>9, <1>10, <1>11, <1>12,
     <1>13, <1>14, <1>15, <1>16, <1>17, <1>18, <1>19, <1>20, <1>21, <1>22,
     <1>23, <1>24, <1>25, <1>26, <1>27, <1>28, <1>29, <1>30, <1>31, <1>32,
     <1>33, <1>34, <1>35, <1>36, <1>37, <1>38
     DEF Next, Api, Work

LEMMA CloudTypesNext ==
  ASSUME CountTypes, RowTypes, CloudTypes, WorkTypes, Uploading, Knows, Books,
         [Next]_vars
  PROVE  CloudTypes'
<1> USE PlatformsAssumption, BoundsAssumption DEF Clicks, Ids
<1> USE DEF CloudTypes, CountTypes
<1>1. ASSUME NEW r \in Requests, Look(r) PROVE CloudTypes'
  BY <1>1 DEF Look, ApiOnly, cloud, counts, NoReq
<1>2. ASSUME NEW r \in Requests, Claim(r) PROVE CloudTypes'
  BY <1>2 DEF Claim, ApiOnly, MayClaim, Rearm, NewWords, cloud, counts, NoReq
<1>3. ASSUME NEW r \in Requests, CancelJob(r) PROVE CloudTypes'
  BY <1>3 DEF CancelJob, ApiOnly, Cancel, ActiveJobs, Active, cloud, counts,
       NoReq
<1>4. ASSUME NEW r \in Requests, ReadJob(r) PROVE CloudTypes'
  BY <1>4 DEF ReadJob, Go, Leave, ApiOnly, StillGoing, Link, ActiveJobs,
       Active, Unqueued, cloud, counts, NoReq
<1>5. ASSUME NEW r \in Requests, Judge(r) PROVE CloudTypes'
  BY <1>5 DEF Judge, Leave, ApiOnly, FailPublicationFor, Holds, cloud, counts,
       NoReq
<1>6. ASSUME NEW r \in Requests, Submit(r) PROVE CloudTypes'
  BY <1>6 DEF Submit, Go, ApiOnly, Queued, ActiveJobs, Active, cloud, counts,
       NoReq
<1>7. ASSUME NEW r \in Requests, Retire(r) PROVE CloudTypes'
  BY <1>7 DEF Retire, Go, ApiOnly, Cancel, cloud, counts, NoReq
<1>8. ASSUME NEW r \in Requests, GiveBack(r) PROVE CloudTypes'
  BY <1>8 DEF GiveBack, Leave, ApiOnly, FailPublication, cloud, counts, NoReq
<1>9. ASSUME NEW r \in Requests, LinkJob(r) PROVE CloudTypes'
  BY <1>9 DEF LinkJob, Leave, ApiOnly, Link, cloud, counts, NoReq
<1>10. ASSUME NEW r \in Requests, Revoke(r) PROVE CloudTypes'
  BY <1>10 DEF Revoke, Leave, ApiOnly, FailPublicationFor, Holds, cloud,
       counts, NoReq
<1>11. ASSUME NEW n \in Clicks, ClaimJob(n) PROVE CloudTypes'
  BY <1>11 DEF ClaimJob, Active, At, To, Stop, NoWork, Ended, Retryable, Final,
       Errors, Quiet, NoCloud, Fails, Write, Refused, cloud, counts, Holds
<1>12. ASSUME Begin PROVE CloudTypes'
  BY <1>12 DEF Begin, At, To, Stop, NoWork, Ended, Retryable, Final, Errors,
       Quiet, NoCloud, Fails, Write, Refused, cloud, counts, Holds
<1>13. ASSUME Prepare PROVE CloudTypes'
  BY <1>13 DEF Prepare, Entry, At, To, Stop, NoWork, Ended, Retryable, Final,
       Errors, Quiet, NoCloud, Fails, Write, Refused, cloud, counts, Holds
<1>14. ASSUME GetSession PROVE CloudTypes'
  BY <1>14 DEF GetSession, At, To, Stop, NoWork, Ended, Retryable, Final,
       Errors, Quiet, NoCloud, Fails, Write, Refused, cloud, counts, Holds
<1>15. ASSUME ProbeSession PROVE CloudTypes'
  BY <1>15 DEF ProbeSession, Finished, StartOver, At, To, Stop, NoWork, Ended,
       Retryable, Final, Errors, Quiet, NoCloud, Fails, Write, Refused, cloud,
       counts, Holds
<1>16. ASSUME ProbePublishId PROVE CloudTypes'
  BY <1>16 DEF ProbePublishId, Finished, At, To, Stop, NoWork, Ended,
       Retryable, Final, Errors, Quiet, NoCloud, Fails, Write, Refused, cloud,
       counts, Holds
<1>17. ASSUME DropRemote PROVE CloudTypes'
  BY <1>17 DEF DropRemote, Dead, At, To, Stop, NoWork, Ended, Retryable, Final,
       Errors, Quiet, NoCloud, Fails, Write, Refused, cloud, counts, Holds
<1>18. ASSUME ClearSession PROVE CloudTypes'
  BY <1>18 DEF ClearSession, Dead, At, To, Stop, NoWork, Ended, Retryable,
       Final, Errors, Quiet, NoCloud, Fails, Write, Refused, cloud, counts,
       Holds
<1>19. ASSUME Open PROVE CloudTypes'
  BY <1>19 DEF Open, At, To, Stop, NoWork, Ended, Retryable, Final, Errors,
       Quiet, NoCloud, Fails, Write, Refused, cloud, counts, Holds, Uploads
<1>20. ASSUME Save PROVE CloudTypes'
  BY <1>20 DEF Save, At, To, Stop, NoWork, Ended, Retryable, Final, Errors,
       Quiet, NoCloud, Fails, Write, Refused, cloud, counts, Holds
<1>21. ASSUME Upload PROVE CloudTypes'
  BY <1>21 DEF Upload, At, To, Stop, NoWork, Ended, Retryable, Final, Errors,
       Quiet, NoCloud, Fails, Write, Refused, cloud, counts, Holds
<1>22. ASSUME SaveFinalized PROVE CloudTypes'
  BY <1>22 DEF SaveFinalized, At, To, Stop, NoWork, Ended, Retryable, Final,
       Errors, Quiet, NoCloud, Fails, Write, Refused, cloud, counts, Holds
<1>23. ASSUME AwaitProcessing PROVE CloudTypes'
  BY <1>23 DEF AwaitProcessing, At, To, Stop, NoWork, Ended, Retryable, Final,
       Errors, Quiet, NoCloud, Fails, Write, Refused, cloud, counts, Holds
<1>24. ASSUME Forget PROVE CloudTypes'
  BY <1>24 DEF Forget, Dead, At, To, Stop, NoWork, Ended, Retryable, Final,
       Errors, Quiet, NoCloud, Fails, Write, Refused, cloud, counts, Holds
<1>25. ASSUME StampFinalizing PROVE CloudTypes'
  BY <1>25 DEF StampFinalizing, Stamped, At, To, Stop, NoWork, Ended,
       Retryable, Final, Errors, Quiet, NoCloud, Fails, Write, Refused, cloud,
       counts, Holds
<1>26. ASSUME Send PROVE CloudTypes'
  <2>1. plat # "x" => w.u \in 1 .. ids
    BY <1>26, WorkFields DEF Uploading, Send, At, RowTypes
  <2> QED
    BY <1>26, <2>1 DEF Send, At, To, Quiet, cloud, counts
<1>27. ASSUME Wait PROVE CloudTypes'
  BY <1>27 DEF Wait, Abandon, Lost, At, To, Stop, NoWork, Ended, Retryable,
       Final, Errors, Quiet, NoCloud, Fails, Write, Refused, cloud, counts,
       Holds
<1>28. ASSUME ForgetAddress PROVE CloudTypes'
  BY <1>28 DEF ForgetAddress, Dead, At, To, Stop, NoWork, Ended, Retryable,
       Final, Errors, Quiet, NoCloud, Fails, Write, Refused, cloud, counts,
       Holds
<1>29. ASSUME Poll PROVE CloudTypes'
  BY <1>29 DEF Poll, Finished, At, To, Stop, NoWork, Ended, Retryable, Final,
       Errors, Quiet, NoCloud, Fails, Write, Refused, cloud, counts, Holds
<1>30. ASSUME Record PROVE CloudTypes'
  BY <1>30 DEF Record, RecordPost, CanRecord, At, To, Stop, NoWork, Ended,
       Retryable, Final, Errors, Quiet, NoCloud, Fails, Write, Refused, cloud,
       counts, Holds, Knows
<1>31. ASSUME GiveUp PROVE CloudTypes'
  BY <1>31 DEF GiveUp, FailPublicationFor, Holds, At, To, Stop, NoWork, Ended,
       Retryable, Final, Errors, Quiet, NoCloud, Fails, Write, Refused, cloud,
       counts
<1>32. ASSUME Settle PROVE CloudTypes'
  BY <1>32 DEF Settle, LastTry, FailPublicationFor, Holds, At, To, Stop,
       NoWork, Ended, Retryable, Final, Errors, Quiet, NoCloud, Fails, Write,
       Refused, cloud, counts
<1>33. ASSUME FinishJob PROVE CloudTypes'
  BY <1>33 DEF FinishJob, Outcome, LastTry, Active, At, To, Stop, NoWork,
       Ended, Retryable, Final, Errors, Quiet, NoCloud, Fails, Write, Refused,
       cloud, counts, Holds
<1>34. ASSUME NEW i \in Ids, Receive(i) PROVE CloudTypes'
  BY <1>34 DEF Receive, CloudOnly, counts, Uploads
<1>35. ASSUME NEW i \in Ids, Process(i) PROVE CloudTypes'
  <2>1. i \in 1 .. ids
    BY <1>35 DEF Process, Books
  <2> QED
    BY <1>35, <2>1 DEF Process, CloudOnly, counts, Uploads
<1>36. ASSUME NEW i \in Ids, Expire(i) PROVE CloudTypes'
  BY <1>36 DEF Expire, CloudOnly, counts, Uploads
<1>37. ASSUME Crash PROVE CloudTypes'
  BY <1>37 DEF Crash, NoWork, NoReq, counts
<1>38. CASE UNCHANGED vars
  BY <1>38 DEF vars, cloud, counts, WorkTypes
<1> HIDE DEF CloudTypes, CountTypes
<1> QED
  BY <1>1, <1>2, <1>3, <1>4, <1>5, <1>6, <1>7, <1>8, <1>9, <1>10, <1>11, <1>12,
     <1>13, <1>14, <1>15, <1>16, <1>17, <1>18, <1>19, <1>20, <1>21, <1>22,
     <1>23, <1>24, <1>25, <1>26, <1>27, <1>28, <1>29, <1>30, <1>31, <1>32,
     <1>33, <1>34, <1>35, <1>36, <1>37, <1>38
     DEF Next, Api, Work

LEMMA ReqTypesNext ==
  ASSUME CountTypes, RowTypes, ReqTypes, [Next]_vars
  PROVE  ReqTypes'
<1>a. row.nonce \in 0 .. MaxClicks /\ row.job \in 0 .. MaxClicks /\ row.nonce <= clicks
  BY RowFields DEF RowTypes
<1> USE PlatformsAssumption, BoundsAssumption DEF Clicks, Ids
<1> USE DEF ReqTypes, CountTypes, Handlers, Steps
<1>1. ASSUME NEW r \in Requests, Look(r) PROVE ReqTypes'
  <2>1. req' = [req EXCEPT ![r].pc = "ask", ![r].nonce = row.nonce, ![r].job = row.job]
    BY <1>1 DEF Look
  <2>2. \A s \in Requests \ {r} : req'[s] = req[s]
    BY <2>1
  <2>3. req'[r] \in Handlers /\ req'[r].n = req[r].n /\ req'[r].nonce = row.nonce
    BY <1>a, <2>1
  <2>4. req' \in [Requests -> Handlers]
    BY <2>1, <2>2, <2>3
  <2>5. clicks' = clicks
    BY <1>1 DEF Look, counts
  <2> QED
    BY <1>a, <2>2, <2>3, <2>4, <2>5
<1>2. ASSUME NEW r \in Requests, Claim(r) PROVE ReqTypes'
  <2>1. clicks < MaxClicks /\ clicks' = clicks + 1
    BY <1>2 DEF Claim
  <2>2. req' = [req EXCEPT ![r].pc = "submit", ![r].n = clicks']
    BY <1>2 DEF Claim
  <2>3. \A s \in Requests \ {r} : req'[s] = req[s]
    BY <2>2
  <2>4. req'[r] \in Handlers /\ req'[r].n = clicks' /\ req'[r].nonce = req[r].nonce
    BY <2>1, <2>2
  <2>5. req' \in [Requests -> Handlers]
    BY <2>2, <2>3, <2>4
  <2> QED
    BY <2>1, <2>3, <2>4, <2>5
<1>3. ASSUME NEW r \in Requests, CancelJob(r) PROVE ReqTypes'
  <2>1. PICK j \in Clicks : req' = [req EXCEPT ![r] = [pc |-> "revoke", n |-> 0, nonce |-> 0, job |-> j]]
    BY <1>3 DEF CancelJob, ActiveJobs
  <2>2. [pc |-> "revoke", n |-> 0, nonce |-> 0, job |-> j] \in Handlers
    OBVIOUS
  <2>4. clicks' = clicks
    BY <1>3 DEF CancelJob, counts
  <2>3. \A s \in Requests \ {r} : req'[s] = req[s]
    BY <2>1
  <2>5. req'[r].n = 0 /\ req'[r].nonce = 0
    BY <2>1
  <2> HIDE DEF Handlers
  <2> QED
    BY <2>1, <2>2, <2>3, <2>4, <2>5
<1>4. ASSUME NEW r \in Requests, ReadJob(r) PROVE ReqTypes'
  BY <1>4 DEF ReadJob, Go, Leave, ApiOnly, StillGoing, Link, ActiveJobs,
       Active, Unqueued, cloud, counts, NoReq
<1>5. ASSUME NEW r \in Requests, Judge(r) PROVE ReqTypes'
  BY <1>5 DEF Judge, Leave, ApiOnly, FailPublicationFor, Holds, cloud, counts,
       NoReq
<1>6. ASSUME NEW r \in Requests, Submit(r) PROVE ReqTypes'
  BY <1>6 DEF Submit, Go, ApiOnly, Queued, ActiveJobs, Active, cloud, counts,
       NoReq
<1>7. ASSUME NEW r \in Requests, Retire(r) PROVE ReqTypes'
  BY <1>7 DEF Retire, Go, ApiOnly, Cancel, cloud, counts, NoReq
<1>8. ASSUME NEW r \in Requests, GiveBack(r) PROVE ReqTypes'
  BY <1>8 DEF GiveBack, Leave, ApiOnly, FailPublication, cloud, counts, NoReq
<1>9. ASSUME NEW r \in Requests, LinkJob(r) PROVE ReqTypes'
  BY <1>9 DEF LinkJob, Leave, ApiOnly, Link, cloud, counts, NoReq
<1>10. ASSUME NEW r \in Requests, Revoke(r) PROVE ReqTypes'
  BY <1>10 DEF Revoke, Leave, ApiOnly, FailPublicationFor, Holds, cloud,
       counts, NoReq
<1>11. ASSUME NEW n \in Clicks, ClaimJob(n) PROVE ReqTypes'
  BY <1>11 DEF ClaimJob, Active, At, To, Stop, NoWork, Ended, Retryable, Final,
       Errors, Quiet, NoCloud, Fails, Write, Refused, cloud, counts, Holds
<1>12. ASSUME Begin PROVE ReqTypes'
  BY <1>12 DEF Begin, At, To, Stop, NoWork, Ended, Retryable, Final, Errors,
       Quiet, NoCloud, Fails, Write, Refused, cloud, counts, Holds
<1>13. ASSUME Prepare PROVE ReqTypes'
  BY <1>13 DEF Prepare, Entry, At, To, Stop, NoWork, Ended, Retryable, Final,
       Errors, Quiet, NoCloud, Fails, Write, Refused, cloud, counts, Holds
<1>14. ASSUME GetSession PROVE ReqTypes'
  BY <1>14 DEF GetSession, At, To, Stop, NoWork, Ended, Retryable, Final,
       Errors, Quiet, NoCloud, Fails, Write, Refused, cloud, counts, Holds
<1>15. ASSUME ProbeSession PROVE ReqTypes'
  BY <1>15 DEF ProbeSession, Finished, StartOver, At, To, Stop, NoWork, Ended,
       Retryable, Final, Errors, Quiet, NoCloud, Fails, Write, Refused, cloud,
       counts, Holds
<1>16. ASSUME ProbePublishId PROVE ReqTypes'
  BY <1>16 DEF ProbePublishId, Finished, At, To, Stop, NoWork, Ended,
       Retryable, Final, Errors, Quiet, NoCloud, Fails, Write, Refused, cloud,
       counts, Holds
<1>17. ASSUME DropRemote PROVE ReqTypes'
  BY <1>17 DEF DropRemote, Dead, At, To, Stop, NoWork, Ended, Retryable, Final,
       Errors, Quiet, NoCloud, Fails, Write, Refused, cloud, counts, Holds
<1>18. ASSUME ClearSession PROVE ReqTypes'
  BY <1>18 DEF ClearSession, Dead, At, To, Stop, NoWork, Ended, Retryable,
       Final, Errors, Quiet, NoCloud, Fails, Write, Refused, cloud, counts,
       Holds
<1>19. ASSUME Open PROVE ReqTypes'
  BY <1>19 DEF Open, At, To, Stop, NoWork, Ended, Retryable, Final, Errors,
       Quiet, NoCloud, Fails, Write, Refused, cloud, counts, Holds
<1>20. ASSUME Save PROVE ReqTypes'
  BY <1>20 DEF Save, At, To, Stop, NoWork, Ended, Retryable, Final, Errors,
       Quiet, NoCloud, Fails, Write, Refused, cloud, counts, Holds
<1>21. ASSUME Upload PROVE ReqTypes'
  BY <1>21 DEF Upload, At, To, Stop, NoWork, Ended, Retryable, Final, Errors,
       Quiet, NoCloud, Fails, Write, Refused, cloud, counts, Holds
<1>22. ASSUME SaveFinalized PROVE ReqTypes'
  BY <1>22 DEF SaveFinalized, At, To, Stop, NoWork, Ended, Retryable, Final,
       Errors, Quiet, NoCloud, Fails, Write, Refused, cloud, counts, Holds
<1>23. ASSUME AwaitProcessing PROVE ReqTypes'
  BY <1>23 DEF AwaitProcessing, At, To, Stop, NoWork, Ended, Retryable, Final,
       Errors, Quiet, NoCloud, Fails, Write, Refused, cloud, counts, Holds
<1>24. ASSUME Forget PROVE ReqTypes'
  BY <1>24 DEF Forget, Dead, At, To, Stop, NoWork, Ended, Retryable, Final,
       Errors, Quiet, NoCloud, Fails, Write, Refused, cloud, counts, Holds
<1>25. ASSUME StampFinalizing PROVE ReqTypes'
  BY <1>25 DEF StampFinalizing, Stamped, At, To, Stop, NoWork, Ended,
       Retryable, Final, Errors, Quiet, NoCloud, Fails, Write, Refused, cloud,
       counts, Holds
<1>26. ASSUME Send PROVE ReqTypes'
  BY <1>26 DEF Send, At, To, Stop, NoWork, Ended, Retryable, Final, Errors,
       Quiet, NoCloud, Fails, Write, Refused, cloud, counts, Holds
<1>27. ASSUME Wait PROVE ReqTypes'
  BY <1>27 DEF Wait, Abandon, Lost, At, To, Stop, NoWork, Ended, Retryable,
       Final, Errors, Quiet, NoCloud, Fails, Write, Refused, cloud, counts,
       Holds
<1>28. ASSUME ForgetAddress PROVE ReqTypes'
  BY <1>28 DEF ForgetAddress, Dead, At, To, Stop, NoWork, Ended, Retryable,
       Final, Errors, Quiet, NoCloud, Fails, Write, Refused, cloud, counts,
       Holds
<1>29. ASSUME Poll PROVE ReqTypes'
  BY <1>29 DEF Poll, Finished, At, To, Stop, NoWork, Ended, Retryable, Final,
       Errors, Quiet, NoCloud, Fails, Write, Refused, cloud, counts, Holds
<1>30. ASSUME Record PROVE ReqTypes'
  BY <1>30 DEF Record, RecordPost, CanRecord, At, To, Stop, NoWork, Ended,
       Retryable, Final, Errors, Quiet, NoCloud, Fails, Write, Refused, cloud,
       counts, Holds
<1>31. ASSUME GiveUp PROVE ReqTypes'
  BY <1>31 DEF GiveUp, FailPublicationFor, Holds, At, To, Stop, NoWork, Ended,
       Retryable, Final, Errors, Quiet, NoCloud, Fails, Write, Refused, cloud,
       counts
<1>32. ASSUME Settle PROVE ReqTypes'
  BY <1>32 DEF Settle, LastTry, FailPublicationFor, Holds, At, To, Stop,
       NoWork, Ended, Retryable, Final, Errors, Quiet, NoCloud, Fails, Write,
       Refused, cloud, counts
<1>33. ASSUME FinishJob PROVE ReqTypes'
  BY <1>33 DEF FinishJob, Outcome, LastTry, Active, At, To, Stop, NoWork,
       Ended, Retryable, Final, Errors, Quiet, NoCloud, Fails, Write, Refused,
       cloud, counts, Holds
<1>34. ASSUME NEW i \in Ids, Receive(i) PROVE ReqTypes'
  BY <1>34 DEF Receive, CloudOnly, counts
<1>35. ASSUME NEW i \in Ids, Process(i) PROVE ReqTypes'
  BY <1>35 DEF Process, CloudOnly, counts
<1>36. ASSUME NEW i \in Ids, Expire(i) PROVE ReqTypes'
  BY <1>36 DEF Expire, CloudOnly, counts
<1>37. ASSUME Crash PROVE ReqTypes'
  BY <1>37 DEF Crash, NoWork, NoReq, counts
<1>38. CASE UNCHANGED vars
  BY <1>38 DEF vars, cloud, counts, WorkTypes
<1> HIDE DEF ReqTypes, CountTypes, Handlers, Steps
<1> QED
  BY <1>1, <1>2, <1>3, <1>4, <1>5, <1>6, <1>7, <1>8, <1>9, <1>10, <1>11, <1>12,
     <1>13, <1>14, <1>15, <1>16, <1>17, <1>18, <1>19, <1>20, <1>21, <1>22,
     <1>23, <1>24, <1>25, <1>26, <1>27, <1>28, <1>29, <1>30, <1>31, <1>32,
     <1>33, <1>34, <1>35, <1>36, <1>37, <1>38
     DEF Next, Api, Work

(* What a Cancel and a Submit do to the queue.                             *)
LEMMA CancelEffect ==
  ASSUME JobTypes, WorkTypes, Queueing, NEW n \in Clicks, Cancel(n)
  PROVE  /\ \A m \in Clicks : job'[m].tries = job[m].tries
         /\ \A m \in Clicks :
              job'[m].st = job[m].st \/ (job[m].st = "queued" /\ job'[m].st = "cancelled")
         /\ cxl' \in BOOLEAN /\ (cxl' => w.k # 0)
<1>1. CASE job[n].st = "running"
  <2>1. cxl' = TRUE /\ job' = job
    BY <1>1 DEF Cancel
  <2>2. w.k = n
    BY <1>1 DEF Queueing
  <2>3. n # 0
    BY BoundsAssumption DEF Clicks
  <2> QED
    BY <2>1, <2>2, <2>3
<1>2. CASE job[n].st # "running"
  <2>1. job' = [job EXCEPT ![n].st = IF @ = "queued" THEN "cancelled" ELSE @] /\ cxl' = cxl
    BY <1>2 DEF Cancel
  <2>2. \A m \in Clicks : m # n => job'[m] = job[m]
    BY <2>1 DEF JobTypes
  <2>3. job'[n] = [job[n] EXCEPT !.st = IF @ = "queued" THEN "cancelled" ELSE @]
    BY <2>1 DEF JobTypes
  <2>4. job[n] \in Entries
    BY DEF JobTypes
  <2>5. /\ job'[n].tries = job[n].tries
        /\ job'[n].st = IF job[n].st = "queued" THEN "cancelled" ELSE job[n].st
    BY <2>3, <2>4 DEF Entries
  <2>6. cxl' \in BOOLEAN /\ (cxl' => w.k # 0)
    BY <2>1, Zenon DEF WorkTypes
  <2> QED
    BY <2>2, <2>5, <2>6
<1> QED
  BY <1>1, <1>2

LEMMA SubmitEffect ==
  ASSUME JobTypes, WorkTypes, NEW r \in Requests, Queued(r)
  PROVE  /\ w.k = 0 /\ \A n \in Clicks : job[n].st \notin Active
         /\ \A m \in Clicks \ {req[r].n} : job'[m] = job[m]
         /\ req[r].n \in Clicks => job'[req[r].n] = [st |-> "queued", tries |-> 0]
<1>1. ActiveJobs = {} /\ job' = [job EXCEPT ![req[r].n] = [st |-> "queued", tries |-> 0]]
  BY DEF Queued
<1>2. \A n \in Clicks : job[n].st \notin Active
  BY <1>1 DEF ActiveJobs
<1>3. w.k # 0 => w.k \in Clicks
  BY WorkFields DEF Clicks
<1>4. w.k = 0
  BY <1>2, <1>3 DEF WorkTypes, Active
<1> QED
  BY <1>1, <1>2, <1>4 DEF JobTypes

(* Where a step leaves the worker: further on, or at an end.               *)
Onward == w' \in Attempts /\ w'.k = w.k /\ w'.pc # "idle"

LEMMA ToGoesOn ==
  ASSUME WorkTypes, NEW p \in Stages \ {"idle"}, To(p)
  PROVE  Onward
BY DEF To, Onward, WorkTypes, Attempts

LEMMA StopGoesOn ==
  ASSUME WorkTypes, NEW p \in Stages \ {"idle"}, NEW c \in Causes, Stop(p, c)
  PROVE  Onward
<1>1. w' = [pc |-> p, k |-> w.k, words |-> 0, u |-> 0, have |-> 0, remote |-> 0,
            final |-> FALSE, had |-> FALSE, id |-> 0, cause |-> c]
  BY DEF Stop, NoWork
<1>2. 0 \in Words /\ 0 \in 0 .. MaxIds /\ w.k \in 0 .. MaxClicks
  BY WorkFields, BoundsAssumption DEF Words
<1> QED
  BY <1>1, <1>2 DEF Onward, Attempts

LEMMA BeganGoesOn ==
  ASSUME WorkTypes, NEW p \in Stages \ {"idle"}, NEW v \in Words, NEW y \in 0 .. MaxIds, NEW b \in BOOLEAN, NEW d \in BOOLEAN,
         w' = [w EXCEPT !.pc = p, !.words = v, !.remote = y, !.final = b, !.had = d]
  PROVE  Onward
BY DEF Onward, WorkTypes, Attempts

LEMMA SetGoesOn ==
  ASSUME WorkTypes, NEW p \in Stages \ {"idle"}, NEW y \in 0 .. MaxIds,
         w' = [w EXCEPT !.pc = p, !.u = y]
  PROVE  Onward
BY DEF Onward, WorkTypes, Attempts

LEMMA ReadGoesOn ==
  ASSUME WorkTypes, NEW p \in Stages \ {"idle"}, NEW y \in 0 .. MaxIds, NEW v \in Words,
         w' = [w EXCEPT !.pc = p, !.u = y, !.have = v]
  PROVE  Onward
BY DEF Onward, WorkTypes, Attempts

LEMMA OpenedGoesOn ==
  ASSUME WorkTypes, NEW p \in Stages \ {"idle"}, NEW y \in 0 .. MaxIds, NEW z \in 0 .. MaxIds,
         w' = [w EXCEPT !.pc = p, !.u = y, !.remote = z]
  PROVE  Onward
BY DEF Onward, WorkTypes, Attempts

LEMMA NamedGoesOn ==
  ASSUME WorkTypes, NEW p \in Stages \ {"idle"}, NEW y \in 0 .. MaxIds,
         w' = [w EXCEPT !.pc = p, !.id = y]
  PROVE  Onward
BY DEF Onward, WorkTypes, Attempts

(* The worker goes on with the job it has, and touches nobody else.        *)
LEMMA WorkGoesOn ==
  ASSUME CountTypes, RowTypes, WorkTypes, Toil
  PROVE  Onward /\ w.k # 0 /\ UNCHANGED <<plat, job, req, cxl, clicks, acks>>
<1>1. ASSUME Begin PROVE Onward /\ w.k # 0 /\ UNCHANGED <<plat, job, req, cxl, clicks, acks>>
  <2>1. Onward \/ w' = [w EXCEPT !.pc = "pre", !.words = row.words, !.remote = row.remote,
                               !.final = row.final, !.had = row.stamp]
    BY <1>1, ToGoesOn, StopGoesOn DEF Begin, At, Ended, Retryable, Final, Errors,
         Quiet, NoCloud, Fails, Write, Refused, cloud, counts, Holds, Stages,
         Causes
  <2>a. ASSUME w' = [w EXCEPT !.pc = "pre", !.words = row.words, !.remote = row.remote,
                               !.final = row.final, !.had = row.stamp]
        PROVE  Onward
    BY <2>a, RowFields, BeganGoesOn DEF Stages
  <2>2. Onward
    BY <2>1, <2>a
  <2>3. w.k # 0 /\ UNCHANGED <<plat, job, req, cxl, clicks, acks>>
    BY <1>1 DEF Begin, At, To, Stop, NoWork, Ended, Retryable, Final, Errors, Quiet,
         NoCloud, Fails, Write, Refused, cloud, counts, Holds, WorkTypes
  <2> QED
    BY <2>2, <2>3
<1>2. ASSUME Prepare PROVE Onward /\ w.k # 0 /\ UNCHANGED <<plat, job, req, cxl, clicks, acks>>
  <2>1. Onward \/ w' = [w EXCEPT !.pc = Entry, !.u = IF plat = "x" THEN w.remote ELSE 0]
    BY <1>2, ToGoesOn, StopGoesOn DEF Prepare, Entry, At, Ended, Retryable, Final,
         Errors, Quiet, NoCloud, Fails, Write, Refused, cloud, counts, Holds,
         Stages, Causes
  <2>a. ASSUME w' = [w EXCEPT !.pc = Entry, !.u = IF plat = "x" THEN w.remote ELSE 0]
        PROVE  Onward
    <3>1. Entry \in Stages \ {"idle"}
      BY DEF Entry, Stages
    <3>2. (IF plat = "x" THEN w.remote ELSE 0) \in 0 .. MaxIds
      BY WorkFields, BoundsAssumption
    <3> QED
      BY <2>a, <3>1, <3>2, SetGoesOn
  <2>2. Onward
    BY <2>1, <2>a
  <2>3. w.k # 0 /\ UNCHANGED <<plat, job, req, cxl, clicks, acks>>
    BY <1>2 DEF Prepare, Entry, At, To, Stop, NoWork, Ended, Retryable, Final,
         Errors, Quiet, NoCloud, Fails, Write, Refused, cloud, counts, Holds,
         WorkTypes
  <2> QED
    BY <2>2, <2>3
<1>3. ASSUME GetSession PROVE Onward /\ w.k # 0 /\ UNCHANGED <<plat, job, req, cxl, clicks, acks>>
  <2>1. Onward \/ \E p \in {"probe", "open"} : w' = [w EXCEPT !.pc = p, !.u = row.sess, !.have = row.have]
    BY <1>3, ToGoesOn, StopGoesOn DEF GetSession, At, Ended, Retryable, Final,
         Errors, Quiet, NoCloud, Fails, Write, Refused, cloud, counts, Holds,
         Stages, Causes
  <2>a. ASSUME NEW p \in {"probe", "open"}, w' = [w EXCEPT !.pc = p, !.u = row.sess, !.have = row.have]
        PROVE  Onward
    <3>1. p \in Stages \ {"idle"}
      BY DEF Stages
    <3>2. row.sess \in 0 .. MaxIds /\ row.have \in Words
      BY RowFields
    <3> QED
      BY <2>a, <3>1, <3>2, ReadGoesOn
  <2>2. Onward
    BY <2>1, <2>a
  <2>3. w.k # 0 /\ UNCHANGED <<plat, job, req, cxl, clicks, acks>>
    BY <1>3 DEF GetSession, At, To, Stop, NoWork, Ended, Retryable, Final, Errors,
         Quiet, NoCloud, Fails, Write, Refused, cloud, counts, Holds, WorkTypes
  <2> QED
    BY <2>2, <2>3
<1>4. ASSUME ProbeSession PROVE Onward /\ w.k # 0 /\ UNCHANGED <<plat, job, req, cxl, clicks, acks>>
  <2>1. Onward \/ w' = [w EXCEPT !.pc = "record", !.id = w.u]
    BY <1>4, ToGoesOn, StopGoesOn DEF ProbeSession, Finished, StartOver, At, Ended,
         Retryable, Final, Errors, Quiet, NoCloud, Fails, Write, Refused, cloud,
         counts, Holds, Stages, Causes
  <2>a. ASSUME w' = [w EXCEPT !.pc = "record", !.id = w.u]
        PROVE  Onward
    BY <2>a, WorkFields, NamedGoesOn DEF Stages
  <2>2. Onward
    BY <2>1, <2>a
  <2>3. w.k # 0 /\ UNCHANGED <<plat, job, req, cxl, clicks, acks>>
    BY <1>4 DEF ProbeSession, Finished, StartOver, At, To, Stop, NoWork, Ended,
         Retryable, Final, Errors, Quiet, NoCloud, Fails, Write, Refused, cloud,
         counts, Holds, WorkTypes
  <2> QED
    BY <2>2, <2>3
<1>5. ASSUME ProbePublishId PROVE Onward /\ w.k # 0 /\ UNCHANGED <<plat, job, req, cxl, clicks, acks>>
  <2>1. Onward \/ w' = [w EXCEPT !.pc = "record", !.id = w.remote]
    BY <1>5, ToGoesOn, StopGoesOn DEF ProbePublishId, Finished, At, Ended,
         Retryable, Final, Errors, Quiet, NoCloud, Fails, Write, Refused, cloud,
         counts, Holds, Stages, Causes
  <2>a. ASSUME w' = [w EXCEPT !.pc = "record", !.id = w.remote]
        PROVE  Onward
    BY <2>a, WorkFields, NamedGoesOn DEF Stages
  <2>2. Onward
    BY <2>1, <2>a
  <2>3. w.k # 0 /\ UNCHANGED <<plat, job, req, cxl, clicks, acks>>
    BY <1>5 DEF ProbePublishId, Finished, At, To, Stop, NoWork, Ended, Retryable,
         Final, Errors, Quiet, NoCloud, Fails, Write, Refused, cloud, counts,
         Holds, WorkTypes
  <2> QED
    BY <2>2, <2>3
<1>6. ASSUME DropRemote PROVE Onward /\ w.k # 0 /\ UNCHANGED <<plat, job, req, cxl, clicks, acks>>
  <2>2. Onward
    BY <1>6, ToGoesOn, StopGoesOn DEF DropRemote, Dead, At, Ended, Retryable, Final,
         Errors, Quiet, NoCloud, Fails, Write, Refused, cloud, counts, Holds,
         Stages, Causes
  <2>3. w.k # 0 /\ UNCHANGED <<plat, job, req, cxl, clicks, acks>>
    BY <1>6 DEF DropRemote, Dead, At, To, Stop, NoWork, Ended, Retryable, Final,
         Errors, Quiet, NoCloud, Fails, Write, Refused, cloud, counts, Holds,
         WorkTypes
  <2> QED
    BY <2>2, <2>3
<1>7. ASSUME ClearSession PROVE Onward /\ w.k # 0 /\ UNCHANGED <<plat, job, req, cxl, clicks, acks>>
  <2>2. Onward
    BY <1>7, ToGoesOn, StopGoesOn DEF ClearSession, Dead, At, Ended, Retryable,
         Final, Errors, Quiet, NoCloud, Fails, Write, Refused, cloud, counts,
         Holds, Stages, Causes
  <2>3. w.k # 0 /\ UNCHANGED <<plat, job, req, cxl, clicks, acks>>
    BY <1>7 DEF ClearSession, Dead, At, To, Stop, NoWork, Ended, Retryable, Final,
         Errors, Quiet, NoCloud, Fails, Write, Refused, cloud, counts, Holds,
         WorkTypes
  <2> QED
    BY <2>2, <2>3
<1>8. ASSUME Open PROVE Onward /\ w.k # 0 /\ UNCHANGED <<plat, job, req, cxl, clicks, acks>>
  <2>1. ASSUME plat = "x" /\ w' = [w EXCEPT !.pc = "save", !.u = 1] PROVE Onward
    <3>1. 1 \in 0 .. MaxIds
      BY BoundsAssumption
    <3> QED
      BY <2>1, <3>1, SetGoesOn DEF Stages
  <2>2. ASSUME /\ plat # "x" /\ ids < MaxIds /\ ids' = ids + 1
             /\ w' = [w EXCEPT !.pc = "save", !.u = ids',
                               !.remote = IF plat = "tiktok" THEN ids' ELSE 0]
        PROVE  Onward
    <3>1. ids' \in 0 .. MaxIds /\ (IF plat = "tiktok" THEN ids' ELSE 0) \in 0 .. MaxIds
      BY <2>2, BoundsAssumption DEF CountTypes
    <3> QED
      BY <2>2, <3>1, OpenedGoesOn DEF Stages
  <2>3. ASSUME Errors PROVE Onward
    BY <2>3, StopGoesOn DEF Errors, Retryable, Final, Ended, Stages, Causes
  <2>4. Onward
    BY <1>8, <2>1, <2>2, <2>3 DEF Open
  <2>5. w.k # 0 /\ UNCHANGED <<plat, job, req, cxl, clicks, acks>>
    BY <1>8 DEF Open, At, Quiet, counts, WorkTypes
  <2> QED
    BY <2>4, <2>5
<1>9. ASSUME Save PROVE Onward /\ w.k # 0 /\ UNCHANGED <<plat, job, req, cxl, clicks, acks>>
  <2>2. Onward
    BY <1>9, ToGoesOn, StopGoesOn DEF Save, At, Ended, Retryable, Final, Errors,
         Quiet, NoCloud, Fails, Write, Refused, cloud, counts, Holds, Stages,
         Causes
  <2>3. w.k # 0 /\ UNCHANGED <<plat, job, req, cxl, clicks, acks>>
    BY <1>9 DEF Save, At, To, Stop, NoWork, Ended, Retryable, Final, Errors, Quiet,
         NoCloud, Fails, Write, Refused, cloud, counts, Holds, WorkTypes
  <2> QED
    BY <2>2, <2>3
<1>10. ASSUME Upload PROVE Onward /\ w.k # 0 /\ UNCHANGED <<plat, job, req, cxl, clicks, acks>>
  <2>2. Onward
    BY <1>10, ToGoesOn, StopGoesOn DEF Upload, At, Ended, Retryable, Final, Errors,
         Quiet, NoCloud, Fails, Write, Refused, cloud, counts, Holds, Stages,
         Causes
  <2>3. w.k # 0 /\ UNCHANGED <<plat, job, req, cxl, clicks, acks>>
    BY <1>10 DEF Upload, At, To, Stop, NoWork, Ended, Retryable, Final, Errors,
         Quiet, NoCloud, Fails, Write, Refused, cloud, counts, Holds, WorkTypes
  <2> QED
    BY <2>2, <2>3
<1>11. ASSUME SaveFinalized PROVE Onward /\ w.k # 0 /\ UNCHANGED <<plat, job, req, cxl, clicks, acks>>
  <2>2. Onward
    BY <1>11, ToGoesOn, StopGoesOn DEF SaveFinalized, At, Ended, Retryable, Final,
         Errors, Quiet, NoCloud, Fails, Write, Refused, cloud, counts, Holds,
         Stages, Causes
  <2>3. w.k # 0 /\ UNCHANGED <<plat, job, req, cxl, clicks, acks>>
    BY <1>11 DEF SaveFinalized, At, To, Stop, NoWork, Ended, Retryable, Final,
         Errors, Quiet, NoCloud, Fails, Write, Refused, cloud, counts, Holds,
         WorkTypes
  <2> QED
    BY <2>2, <2>3
<1>12. ASSUME AwaitProcessing PROVE Onward /\ w.k # 0 /\ UNCHANGED <<plat, job, req, cxl, clicks, acks>>
  <2>2. Onward
    BY <1>12, ToGoesOn, StopGoesOn DEF AwaitProcessing, At, Ended, Retryable, Final,
         Errors, Quiet, NoCloud, Fails, Write, Refused, cloud, counts, Holds,
         Stages, Causes
  <2>3. w.k # 0 /\ UNCHANGED <<plat, job, req, cxl, clicks, acks>>
    BY <1>12 DEF AwaitProcessing, At, To, Stop, NoWork, Ended, Retryable, Final,
         Errors, Quiet, NoCloud, Fails, Write, Refused, cloud, counts, Holds,
         WorkTypes
  <2> QED
    BY <2>2, <2>3
<1>13. ASSUME Forget PROVE Onward /\ w.k # 0 /\ UNCHANGED <<plat, job, req, cxl, clicks, acks>>
  <2>2. Onward
    BY <1>13, ToGoesOn, StopGoesOn DEF Forget, Dead, At, Ended, Retryable, Final,
         Errors, Quiet, NoCloud, Fails, Write, Refused, cloud, counts, Holds,
         Stages, Causes
  <2>3. w.k # 0 /\ UNCHANGED <<plat, job, req, cxl, clicks, acks>>
    BY <1>13 DEF Forget, Dead, At, To, Stop, NoWork, Ended, Retryable, Final, Errors,
         Quiet, NoCloud, Fails, Write, Refused, cloud, counts, Holds, WorkTypes
  <2> QED
    BY <2>2, <2>3
<1>14. ASSUME StampFinalizing PROVE Onward /\ w.k # 0 /\ UNCHANGED <<plat, job, req, cxl, clicks, acks>>
  <2>2. Onward
    BY <1>14, ToGoesOn, StopGoesOn DEF StampFinalizing, Stamped, At, Ended,
         Retryable, Final, Errors, Quiet, NoCloud, Fails, Write, Refused, cloud,
         counts, Holds, Stages, Causes
  <2>3. w.k # 0 /\ UNCHANGED <<plat, job, req, cxl, clicks, acks>>
    BY <1>14 DEF StampFinalizing, Stamped, At, To, Stop, NoWork, Ended, Retryable,
         Final, Errors, Quiet, NoCloud, Fails, Write, Refused, cloud, counts,
         Holds, WorkTypes
  <2> QED
    BY <2>2, <2>3
<1>15. ASSUME Send PROVE Onward /\ w.k # 0 /\ UNCHANGED <<plat, job, req, cxl, clicks, acks>>
  <2>1. \/ Onward
        \/ w' = [w EXCEPT !.pc = "wait", !.id = w.u]
        \/ ids' = ids + 1 /\ ids < MaxIds /\ w' = [w EXCEPT !.pc = "wait", !.id = ids']
    BY <1>15, ToGoesOn, StopGoesOn DEF Send, At, Ended, Retryable, Final, Errors,
         Quiet, NoCloud, Fails, Write, Refused, cloud, counts, Holds, Stages,
         Causes
  <2>a. ASSUME w' = [w EXCEPT !.pc = "wait", !.id = w.u]
        PROVE  Onward
    BY <2>a, WorkFields, NamedGoesOn DEF Stages
  <2>b. ASSUME ids' = ids + 1 /\ ids < MaxIds /\ w' = [w EXCEPT !.pc = "wait", !.id = ids']
        PROVE  Onward
    <3>1. ids' \in 0 .. MaxIds
      BY <2>b, BoundsAssumption DEF CountTypes
    <3> QED
      BY <2>b, <3>1, NamedGoesOn DEF Stages
  <2>2. Onward
    BY <2>1, <2>a, <2>b
  <2>3. w.k # 0 /\ UNCHANGED <<plat, job, req, cxl, clicks, acks>>
    BY <1>15 DEF Send, At, To, Stop, NoWork, Ended, Retryable, Final, Errors, Quiet,
         NoCloud, Fails, Write, Refused, cloud, counts, Holds, WorkTypes
  <2> QED
    BY <2>2, <2>3
<1>16. ASSUME Wait PROVE Onward /\ w.k # 0 /\ UNCHANGED <<plat, job, req, cxl, clicks, acks>>
  <2>2. Onward
    BY <1>16, ToGoesOn, StopGoesOn DEF Wait, Abandon, Lost, At, Ended, Retryable,
         Final, Errors, Quiet, NoCloud, Fails, Write, Refused, cloud, counts,
         Holds, Stages, Causes
  <2>3. w.k # 0 /\ UNCHANGED <<plat, job, req, cxl, clicks, acks>>
    BY <1>16 DEF Wait, Abandon, Lost, At, To, Stop, NoWork, Ended, Retryable, Final,
         Errors, Quiet, NoCloud, Fails, Write, Refused, cloud, counts, Holds,
         WorkTypes
  <2> QED
    BY <2>2, <2>3
<1>17. ASSUME ForgetAddress PROVE Onward /\ w.k # 0 /\ UNCHANGED <<plat, job, req, cxl, clicks, acks>>
  <2>2. Onward
    BY <1>17, ToGoesOn, StopGoesOn DEF ForgetAddress, Dead, At, Ended, Retryable,
         Final, Errors, Quiet, NoCloud, Fails, Write, Refused, cloud, counts,
         Holds, Stages, Causes
  <2>3. w.k # 0 /\ UNCHANGED <<plat, job, req, cxl, clicks, acks>>
    BY <1>17 DEF ForgetAddress, Dead, At, To, Stop, NoWork, Ended, Retryable, Final,
         Errors, Quiet, NoCloud, Fails, Write, Refused, cloud, counts, Holds,
         WorkTypes
  <2> QED
    BY <2>2, <2>3
<1>18. ASSUME Poll PROVE Onward /\ w.k # 0 /\ UNCHANGED <<plat, job, req, cxl, clicks, acks>>
  <2>1. Onward \/ w' = [w EXCEPT !.pc = "record", !.id = w.remote]
    BY <1>18, ToGoesOn, StopGoesOn DEF Poll, Finished, At, Ended, Retryable, Final,
         Errors, Quiet, NoCloud, Fails, Write, Refused, cloud, counts, Holds,
         Stages, Causes
  <2>a. ASSUME w' = [w EXCEPT !.pc = "record", !.id = w.remote]
        PROVE  Onward
    BY <2>a, WorkFields, NamedGoesOn DEF Stages
  <2>2. Onward
    BY <2>1, <2>a
  <2>3. w.k # 0 /\ UNCHANGED <<plat, job, req, cxl, clicks, acks>>
    BY <1>18 DEF Poll, Finished, At, To, Stop, NoWork, Ended, Retryable, Final,
         Errors, Quiet, NoCloud, Fails, Write, Refused, cloud, counts, Holds,
         WorkTypes
  <2> QED
    BY <2>2, <2>3
<1>19. ASSUME Record PROVE Onward /\ w.k # 0 /\ UNCHANGED <<plat, job, req, cxl, clicks, acks>>
  <2>2. Onward
    BY <1>19, ToGoesOn, StopGoesOn DEF Record, RecordPost, CanRecord, At, Ended,
         Retryable, Final, Errors, Quiet, NoCloud, Fails, Write, Refused, cloud,
         counts, Holds, Stages, Causes
  <2>3. w.k # 0 /\ UNCHANGED <<plat, job, req, cxl, clicks, acks>>
    BY <1>19 DEF Record, RecordPost, CanRecord, At, To, Stop, NoWork, Ended,
         Retryable, Final, Errors, Quiet, NoCloud, Fails, Write, Refused, cloud,
         counts, Holds, WorkTypes
  <2> QED
    BY <2>2, <2>3
<1>20. ASSUME GiveUp PROVE Onward /\ w.k # 0 /\ UNCHANGED <<plat, job, req, cxl, clicks, acks>>
  <2>2. Onward
    BY <1>20, ToGoesOn, StopGoesOn DEF GiveUp, FailPublicationFor, Holds, At, Ended,
         Retryable, Final, Errors, Quiet, NoCloud, Fails, Write, Refused, cloud,
         counts, Stages, Causes
  <2>3. w.k # 0 /\ UNCHANGED <<plat, job, req, cxl, clicks, acks>>
    BY <1>20 DEF GiveUp, FailPublicationFor, Holds, At, To, Stop, NoWork, Ended,
         Retryable, Final, Errors, Quiet, NoCloud, Fails, Write, Refused, cloud,
         counts, WorkTypes
  <2> QED
    BY <2>2, <2>3
<1>21. ASSUME Settle PROVE Onward /\ w.k # 0 /\ UNCHANGED <<plat, job, req, cxl, clicks, acks>>
  <2>2. Onward
    BY <1>21, ToGoesOn, StopGoesOn DEF Settle, LastTry, FailPublicationFor, Holds,
         At, Ended, Retryable, Final, Errors, Quiet, NoCloud, Fails, Write,
         Refused, cloud, counts, Stages, Causes
  <2>3. w.k # 0 /\ UNCHANGED <<plat, job, req, cxl, clicks, acks>>
    BY <1>21 DEF Settle, LastTry, FailPublicationFor, Holds, At, To, Stop, NoWork,
         Ended, Retryable, Final, Errors, Quiet, NoCloud, Fails, Write, Refused,
         cloud, counts, WorkTypes
  <2> QED
    BY <2>2, <2>3
<1> QED
  BY <1>1, <1>2, <1>3, <1>4, <1>5, <1>6, <1>7, <1>8, <1>9, <1>10, <1>11, <1>12,
     <1>13, <1>14, <1>15, <1>16, <1>17, <1>18, <1>19, <1>20, <1>21 DEF Toil

LEMMA WorkTypesNext ==
  ASSUME CountTypes, RowTypes, JobTypes, ReqTypes, WorkTypes, Queueing,
         Submitting, [Next]_vars
  PROVE  WorkTypes'
<1> USE PlatformsAssumption, BoundsAssumption DEF Clicks, Ids
<1>1. ASSUME NEW r \in Requests, Look(r) PROVE WorkTypes'
  BY <1>1 DEF Look, ApiOnly, cloud, counts, NoReq, WorkTypes, CountTypes,
       JobTypes, Queueing
<1>2. ASSUME NEW r \in Requests, Claim(r) PROVE WorkTypes'
  BY <1>2, WorkFields DEF Claim, ApiOnly, MayClaim, Rearm, NewWords, cloud,
       counts, NoReq, WorkTypes, CountTypes, JobTypes, Queueing
<1>3. ASSUME NEW r \in Requests, CancelJob(r) PROVE WorkTypes'
  <2>1. PICK j \in ActiveJobs : Cancel(j)
    BY <1>3 DEF CancelJob
  <2>2. j \in Clicks /\ w' = w /\ clicks' = clicks
    BY <1>3 DEF CancelJob, ActiveJobs, ApiOnly, counts
  <2>3. \A m \in Clicks : job[m].st = "running" => job'[m].st = "running"
    BY <2>1, <2>2, CancelEffect
  <2>4. cxl' \in BOOLEAN /\ (cxl' => w.k # 0)
    BY <2>1, <2>2, CancelEffect
  <2>5. w.k # 0 => w.k \in Clicks
    BY WorkFields
  <2>7. w.k # 0 => job'[w.k].st = "running"
    BY <2>3, <2>5 DEF WorkTypes
  <2> QED
    BY <2>2, <2>4, <2>7 DEF WorkTypes
<1>4. ASSUME NEW r \in Requests, ReadJob(r) PROVE WorkTypes'
  BY <1>4 DEF ReadJob, Go, Leave, ApiOnly, StillGoing, Link, ActiveJobs,
       Active, Unqueued, cloud, counts, NoReq, WorkTypes, CountTypes, JobTypes,
       Queueing
<1>5. ASSUME NEW r \in Requests, Judge(r) PROVE WorkTypes'
  BY <1>5 DEF Judge, Leave, ApiOnly, FailPublicationFor, Holds, cloud, counts,
       NoReq, WorkTypes, CountTypes, JobTypes, Queueing
<1>6. ASSUME NEW r \in Requests, Submit(r) PROVE WorkTypes'
  <2>1. w' = w /\ clicks' = clicks /\ cxl' = cxl
    BY <1>6 DEF Submit, ApiOnly, counts
  <2>2. CASE Queued(r)
    BY <2>1, <2>2, SubmitEffect DEF WorkTypes
  <2>3. CASE ~Queued(r)
    BY <1>6, <2>1, <2>3 DEF Submit, WorkTypes
  <2> QED
    BY <2>2, <2>3
<1>7. ASSUME NEW r \in Requests, Retire(r) PROVE WorkTypes'
  <2>1. req[r].job \in Clicks
    BY <1>7, ReqFields DEF Submitting, Retire
  <2>2. Cancel(req[r].job) /\ w' = w /\ clicks' = clicks
    BY <1>7 DEF Retire, ApiOnly, counts
  <2>3. \A m \in Clicks : job[m].st = "running" => job'[m].st = "running"
    BY <2>1, <2>2, CancelEffect
  <2>4. cxl' \in BOOLEAN /\ (cxl' => w.k # 0)
    BY <2>1, <2>2, CancelEffect
  <2>5. w.k # 0 => w.k \in Clicks
    BY WorkFields
  <2>7. w.k # 0 => job'[w.k].st = "running"
    BY <2>3, <2>5 DEF WorkTypes
  <2> QED
    BY <2>2, <2>4, <2>7 DEF WorkTypes
<1>8. ASSUME NEW r \in Requests, GiveBack(r) PROVE WorkTypes'
  BY <1>8 DEF GiveBack, Leave, ApiOnly, FailPublication, cloud, counts, NoReq,
       WorkTypes, CountTypes, JobTypes, Queueing
<1>9. ASSUME NEW r \in Requests, LinkJob(r) PROVE WorkTypes'
  BY <1>9 DEF LinkJob, Leave, ApiOnly, Link, cloud, counts, NoReq, WorkTypes,
       CountTypes, JobTypes, Queueing
<1>10. ASSUME NEW r \in Requests, Revoke(r) PROVE WorkTypes'
  BY <1>10 DEF Revoke, Leave, ApiOnly, FailPublicationFor, Holds, cloud,
       counts, NoReq, WorkTypes, CountTypes, JobTypes, Queueing
<1>11. ASSUME NEW n \in Clicks, ClaimJob(n) PROVE WorkTypes'
  <2>1. w' = [pc |-> "begin", k |-> n, words |-> 0, u |-> 0, have |-> 0, remote |-> 0,
              final |-> FALSE, had |-> FALSE, id |-> 0, cause |-> "none"]
    BY <1>11 DEF ClaimJob, NoWork
  <2>2. 0 \in Words /\ 0 \in 0 .. MaxIds /\ "begin" \in Stages /\ "none" \in Causes
    BY BoundsAssumption DEF Words, Stages, Causes
  <2>3. w' \in Attempts
    BY <2>1, <2>2 DEF Attempts
  <2>4. n <= clicks
    BY <1>11 DEF ClaimJob, Queueing
  <2> QED
    BY <1>11, <2>1, <2>3, <2>4 DEF ClaimJob, WorkTypes, JobTypes, Entries, Quiet, counts, At
<1>12. ASSUME Toil PROVE WorkTypes'
  BY <1>12, WorkGoesOn DEF WorkTypes, Onward
<1>13. ASSUME FinishJob PROVE WorkTypes'
  <2>1. w' \in Attempts /\ w'.k = 0 /\ w'.pc = "idle"
    <3>1. 0 \in Words /\ 0 \in 0 .. MaxIds /\ "idle" \in Stages /\ "none" \in Causes /\ 0 \in 0 .. MaxClicks
      BY BoundsAssumption DEF Words, Stages, Causes
    <3> QED
      BY <1>13, <3>1 DEF FinishJob, NoWork, Attempts
  <2>2. clicks' = clicks /\ cxl' = FALSE
    BY <1>13 DEF FinishJob, counts
  <2>3. 0 <= clicks
    BY DEF CountTypes
  <2> QED
    BY <2>1, <2>2, <2>3 DEF WorkTypes
<1>14. ASSUME NEW i \in Ids, Receive(i) PROVE WorkTypes'
  BY <1>14 DEF Receive, CloudOnly, counts, WorkTypes, CountTypes, JobTypes,
       Queueing
<1>15. ASSUME NEW i \in Ids, Process(i) PROVE WorkTypes'
  BY <1>15 DEF Process, CloudOnly, counts, WorkTypes, CountTypes, JobTypes,
       Queueing
<1>16. ASSUME NEW i \in Ids, Expire(i) PROVE WorkTypes'
  BY <1>16 DEF Expire, CloudOnly, counts, WorkTypes, CountTypes, JobTypes,
       Queueing
<1>17. ASSUME Crash PROVE WorkTypes'
  <2>1. w' \in Attempts /\ w'.k = 0 /\ w'.pc = "idle"
    <3>1. 0 \in Words /\ 0 \in 0 .. MaxIds /\ "idle" \in Stages /\ "none" \in Causes /\ 0 \in 0 .. MaxClicks
      BY BoundsAssumption DEF Words, Stages, Causes
    <3> QED
      BY <1>17, <3>1 DEF Crash, NoWork, Attempts
  <2>2. clicks' = clicks /\ cxl' = FALSE
    BY <1>17 DEF Crash, counts
  <2>3. 0 <= clicks
    BY DEF CountTypes
  <2> QED
    BY <2>1, <2>2, <2>3 DEF WorkTypes
<1>18. CASE UNCHANGED vars
  BY <1>18 DEF vars, cloud, counts, WorkTypes
<1> QED
  BY <1>1, <1>2, <1>3, <1>4, <1>5, <1>6, <1>7, <1>8, <1>9, <1>10, <1>11, <1>12,
     <1>13, <1>14, <1>15, <1>16, <1>17, <1>18
     DEF Next, Api, Work, Toil

(* What the dispatcher, the end of an attempt and a crash do to the queue. *)
LEMMA ClaimJobEffect ==
  ASSUME JobTypes, NEW n \in Clicks, ClaimJob(n)
  PROVE  /\ \A m \in Clicks \ {n} : job'[m] = job[m]
         /\ job'[n].st = "running" /\ job[n].st = "queued" /\ w.pc = "idle"
         /\ w'.k = n /\ w'.pc = "begin"
         /\ UNCHANGED <<plat, row, req, clicks, acks, up, wire, posts, ids>>
<1>1. job' = [job EXCEPT ![n] = [st |-> "running", tries |-> job[n].tries + 1]]
  BY DEF ClaimJob
<1>2. w' = [pc |-> "begin", k |-> n, words |-> 0, u |-> 0, have |-> 0, remote |-> 0,
            final |-> FALSE, had |-> FALSE, id |-> 0, cause |-> "none"]
  BY DEF ClaimJob, NoWork
<1>3. job'[n] = [st |-> "running", tries |-> job[n].tries + 1]
  BY <1>1 DEF JobTypes
<1> QED
  BY <1>1, <1>2, <1>3 DEF ClaimJob, JobTypes, At, NoCloud, cloud, Quiet, counts

LEMMA FinishEffect ==
  ASSUME JobTypes, WorkTypes, FinishJob
  PROVE  /\ w.k \in Clicks /\ \A m \in Clicks \ {w.k} : job'[m] = job[m]
         /\ job'[w.k].st \in {"done", "cancelled", "failed", "queued"}
         /\ job'[w.k].st = "queued" => job'[w.k].tries < MaxAttempts
         /\ w'.k = 0 /\ w'.pc = "idle" /\ w.pc \in {"done", "dead", "ended"}
         /\ UNCHANGED <<plat, row, req, clicks, acks, up, wire, posts, ids>>
<1>1. w.k \in Clicks /\ w.pc \in {"done", "dead", "ended"}
  BY WorkFields DEF FinishJob, WorkTypes, Clicks
<1>2. job' = [job EXCEPT ![w.k].st = Outcome]
  BY DEF FinishJob
<1>3. job'[w.k] = [job[w.k] EXCEPT !.st = Outcome] /\ \A m \in Clicks \ {w.k} : job'[m] = job[m]
  BY <1>1, <1>2 DEF JobTypes
<1>4. job'[w.k].st = Outcome /\ job'[w.k].tries = job[w.k].tries /\ job[w.k].tries \in 0 .. MaxAttempts
  BY <1>1, <1>3 DEF JobTypes, Entries
<1>5. Outcome \in {"done", "cancelled", "failed", "queued"} /\ (Outcome = "queued" => ~LastTry)
  BY DEF Outcome
<1>6. w'.k = 0 /\ w'.pc = "idle"
  BY DEF FinishJob, NoWork
<1> QED
  BY <1>1, <1>3, <1>4, <1>5, <1>6, BoundsAssumption DEF LastTry, FinishJob, NoCloud, cloud, counts

LEMMA CrashEffect ==
  ASSUME JobTypes, Crash
  PROVE  /\ \A m \in Clicks :
              \/ job'[m] = job[m] /\ job[m].st # "running"
              \/ /\ job'[m].st \in {"failed", "queued"} /\ job[m].st = "running"
                 /\ job'[m].st = "queued" => job'[m].tries < MaxAttempts
         /\ w'.k = 0 /\ w'.pc = "idle" /\ req' = [r \in Requests |-> NoReq]
         /\ UNCHANGED <<plat, row, clicks, acks, up, posts, ids>> /\ wire' \subseteq wire
<1>1. ASSUME NEW m \in Clicks
      PROVE  \/ job'[m] = job[m] /\ job[m].st # "running"
             \/ /\ job'[m].st \in {"failed", "queued"} /\ job[m].st = "running"
                /\ job'[m].st = "queued" => job'[m].tries < MaxAttempts
  <2>1. job'[m] = IF job[m].st # "running" THEN job[m]
                  ELSE [job[m] EXCEPT !.st = IF job[m].tries >= MaxAttempts THEN "failed"
                                             ELSE "queued"]
    BY DEF Crash
  <2>2. job[m].tries \in 0 .. MaxAttempts /\ job[m] \in Entries
    BY DEF JobTypes, Entries
  <2> QED
    BY <2>1, <2>2, BoundsAssumption DEF Entries
<1>2. w'.k = 0 /\ w'.pc = "idle"
  BY DEF Crash, NoWork
<1> QED
  BY <1>1, <1>2 DEF Crash, counts

(* The queue, the requests and what a status read remembers.               *)
LEMMA QueueingNext ==
  ASSUME CountTypes, RowTypes, JobTypes, ReqTypes, WorkTypes, CloudTypes,
         Queueing, Submitting, [Next]_vars
  PROVE  Queueing'
<1> USE PlatformsAssumption, BoundsAssumption DEF Clicks, Ids
<1> USE DEF Queueing
<1>1. ASSUME NEW r \in Requests, Look(r) PROVE Queueing'
  BY <1>1 DEF Look, ApiOnly, cloud, counts, NoReq
<1>2. ASSUME NEW r \in Requests, Claim(r) PROVE Queueing'
  BY <1>2, WorkFields DEF Claim, ApiOnly, MayClaim, Rearm, NewWords, cloud,
       counts, NoReq, CountTypes
<1>3. ASSUME NEW r \in Requests, CancelJob(r) PROVE Queueing'
  <2>1. PICK j \in Clicks : Cancel(j)
    BY <1>3 DEF CancelJob, ActiveJobs
  <2>2. w' = w /\ clicks' = clicks
    BY <1>3 DEF CancelJob, ApiOnly, counts
  <2> QED
    BY <2>1, <2>2, CancelEffect
<1>4. ASSUME NEW r \in Requests, ReadJob(r) PROVE Queueing'
  BY <1>4 DEF ReadJob, Go, Leave, ApiOnly, StillGoing, Link, ActiveJobs,
       Active, Unqueued, cloud, counts, NoReq
<1>5. ASSUME NEW r \in Requests, Judge(r) PROVE Queueing'
  BY <1>5 DEF Judge, Leave, ApiOnly, FailPublicationFor, Holds, cloud, counts,
       NoReq
<1>6. ASSUME NEW r \in Requests, Submit(r) PROVE Queueing'
  <2>1. w' = w /\ clicks' = clicks /\ row' = row
    BY <1>6 DEF Submit, ApiOnly, counts
  <2>2. CASE Queued(r)
    <3>1. req[r].n \in Clicks /\ req[r].n <= clicks
      BY <1>6, ReqFields DEF Submitting, Submit, ReqTypes
    <3>2. /\ job'[req[r].n].st = "queued" /\ job'[req[r].n].tries = 0
          /\ \A m \in Clicks \ {req[r].n} : job'[m] = job[m]
      BY <3>1, <2>2, SubmitEffect
    <3> QED
      BY <2>1, <3>1, <3>2
  <2>3. CASE ~Queued(r)
    <3>1. job' = job
      BY <1>6, <2>3 DEF Submit
    <3> QED
      BY <2>1, <3>1
  <2> QED
    BY <2>2, <2>3
<1>7. ASSUME NEW r \in Requests, Retire(r) PROVE Queueing'
  <2>1. Cancel(req[r].job) /\ req[r].job \in Clicks
    BY <1>7, ReqFields DEF Submitting, Retire
  <2>2. w' = w /\ clicks' = clicks
    BY <1>7 DEF Retire, ApiOnly, counts
  <2> QED
    BY <2>1, <2>2, CancelEffect
<1>8. ASSUME NEW r \in Requests, GiveBack(r) PROVE Queueing'
  BY <1>8 DEF GiveBack, Leave, ApiOnly, FailPublication, cloud, counts, NoReq
<1>9. ASSUME NEW r \in Requests, LinkJob(r) PROVE Queueing'
  BY <1>9 DEF LinkJob, Leave, ApiOnly, Link, cloud, counts, NoReq
<1>10. ASSUME NEW r \in Requests, Revoke(r) PROVE Queueing'
  BY <1>10 DEF Revoke, Leave, ApiOnly, FailPublicationFor, Holds, cloud,
       counts, NoReq
<1>11. ASSUME NEW n \in Clicks, ClaimJob(n) PROVE Queueing'
  BY <1>11, ClaimJobEffect DEF WorkTypes
<1>12. ASSUME Toil PROVE Queueing'
  <2>1. w'.k = w.k /\ job' = job /\ clicks' = clicks
    BY <1>12, WorkGoesOn DEF Onward
  <2> QED
    BY <2>1
<1>13. ASSUME FinishJob PROVE Queueing'
  BY <1>13, FinishEffect DEF WorkTypes
<1>14. ASSUME NEW i \in Ids, Receive(i) PROVE Queueing'
  BY <1>14 DEF Receive, CloudOnly, counts
<1>15. ASSUME NEW i \in Ids, Process(i) PROVE Queueing'
  BY <1>15 DEF Process, CloudOnly, counts
<1>16. ASSUME NEW i \in Ids, Expire(i) PROVE Queueing'
  BY <1>16 DEF Expire, CloudOnly, counts
<1>17. ASSUME Crash PROVE Queueing'
  BY <1>17, CrashEffect
<1>18. CASE UNCHANGED vars
  BY <1>18 DEF vars, cloud, counts, WorkTypes
<1> HIDE DEF Queueing
<1> QED
  BY <1>1, <1>2, <1>3, <1>4, <1>5, <1>6, <1>7, <1>8, <1>9, <1>10, <1>11, <1>12,
     <1>13, <1>14, <1>15, <1>16, <1>17, <1>18
     DEF Next, Api, Work, Toil

LEMMA SubmittingNext ==
  ASSUME CountTypes, RowTypes, JobTypes, ReqTypes, WorkTypes, CloudTypes,
         Queueing, Submitting, [Next]_vars
  PROVE  Submitting'
<1> USE PlatformsAssumption, BoundsAssumption DEF Clicks, Ids
<1> USE DEF Submitting
<1>1. ASSUME NEW r \in Requests, Look(r) PROVE Submitting'
  BY <1>1 DEF Look, ApiOnly, cloud, counts, NoReq, ReqTypes, Handlers
<1>2. ASSUME NEW r \in Requests, Claim(r) PROVE Submitting'
  BY <1>2, ReqFields DEF Claim, ApiOnly, MayClaim, Rearm, NewWords, cloud,
       counts, NoReq, ReqTypes, Handlers, CountTypes, Queueing
<1>3. ASSUME NEW r \in Requests, CancelJob(r) PROVE Submitting'
  <2>1. PICK j \in Clicks : Cancel(j) /\ req' = [req EXCEPT ![r] =
                                [pc |-> "revoke", n |-> 0, nonce |-> 0, job |-> j]]
    BY <1>3 DEF CancelJob, ActiveJobs
  <2>2. \A s \in Requests \ {r} : req'[s] = req[s]
    BY <2>1 DEF ReqTypes
  <2>3. req'[r].n = 0 /\ req'[r].job # 0 /\ req'[r].pc = "revoke"
    BY <2>1 DEF ReqTypes
  <2>4. \A m \in Clicks : job[m].st = "none" <=> job'[m].st = "none"
    BY <2>1, CancelEffect
  <2> QED
    BY <2>2, <2>3, <2>4, ReqFields
<1>4. ASSUME NEW r \in Requests, ReadJob(r) PROVE Submitting'
  BY <1>4 DEF ReadJob, Go, Leave, ApiOnly, StillGoing, Link, ActiveJobs,
       Active, Unqueued, cloud, counts, NoReq, ReqTypes, Handlers
<1>5. ASSUME NEW r \in Requests, Judge(r) PROVE Submitting'
  BY <1>5 DEF Judge, Leave, ApiOnly, FailPublicationFor, Holds, cloud, counts,
       NoReq, ReqTypes, Handlers
<1>6. ASSUME NEW r \in Requests, Submit(r) PROVE Submitting'
  <2>1. \A s \in Requests \ {r} : req'[s] = req[s]
    BY <1>6 DEF Submit, Queued, Go, ReqTypes
  <2>2. req'[r].n = req[r].n /\ req[r].pc \in {"submit", "resubmit"} /\ req[r].n \in Clicks
    BY <1>6, ReqFields DEF Submit, Queued, Go, ReqTypes, Handlers, Submitting
  <2>3. CASE Queued(r)
    <3>1. req'[r].pc = "link"
      BY <2>3 DEF Queued, Go, ReqTypes, Handlers
    <3>2. job'[req[r].n].st = "queued" /\ \A m \in Clicks \ {req[r].n} : job'[m] = job[m]
      BY <2>2, <2>3, SubmitEffect
    <3> QED
      BY <2>1, <2>2, <3>1, <3>2, ReqFields
  <2>4. CASE ~Queued(r)
    <3>1. job' = job /\ req'[r].pc \in {"retire", "giveback"} /\ (req'[r].pc = "retire" => req'[r].job # 0)
      BY <1>6, <2>4 DEF Submit, Go, ReqTypes, Handlers, ActiveJobs
    <3> QED
      BY <2>1, <2>2, <3>1, ReqFields
  <2> QED
    BY <2>3, <2>4
<1>7. ASSUME NEW r \in Requests, Retire(r) PROVE Submitting'
  <2>1. Cancel(req[r].job) /\ req[r].job \in Clicks
    BY <1>7, ReqFields DEF Submitting, Retire
  <2>2. \A m \in Clicks : job[m].st = "none" <=> job'[m].st = "none"
    BY <2>1, CancelEffect
  <2>3. \A s \in Requests \ {r} : req'[s] = req[s]
    BY <1>7 DEF Retire, Go, ReqTypes
  <2>4. req'[r].n = req[r].n /\ req'[r].pc = "resubmit" /\ req[r].pc = "retire"
    BY <1>7 DEF Retire, Go, ReqTypes, Handlers
  <2> QED
    BY <2>2, <2>3, <2>4, ReqFields
<1>8. ASSUME NEW r \in Requests, GiveBack(r) PROVE Submitting'
  BY <1>8 DEF GiveBack, Leave, ApiOnly, FailPublication, cloud, counts, NoReq,
       ReqTypes, Handlers
<1>9. ASSUME NEW r \in Requests, LinkJob(r) PROVE Submitting'
  BY <1>9 DEF LinkJob, Leave, ApiOnly, Link, cloud, counts, NoReq, ReqTypes,
       Handlers
<1>10. ASSUME NEW r \in Requests, Revoke(r) PROVE Submitting'
  BY <1>10 DEF Revoke, Leave, ApiOnly, FailPublicationFor, Holds, cloud,
       counts, NoReq, ReqTypes, Handlers
<1>11. ASSUME NEW n \in Clicks, ClaimJob(n) PROVE Submitting'
  <2>1. /\ req' = req /\ \A m \in Clicks \ {n} : job'[m] = job[m]
        /\ job'[n].st = "running" /\ job[n].st = "queued"
    BY <1>11, ClaimJobEffect
  <2>2. \A m \in Clicks : job[m].st = "none" <=> job'[m].st = "none"
    BY <2>1, Zenon
  <2> QED
    BY <2>1, <2>2, ReqFields
<1>12. ASSUME Toil PROVE Submitting'
  <2>1. UNCHANGED <<req, job>>
    BY <1>12, WorkGoesOn
  <2> QED
    BY <2>1
<1>13. ASSUME FinishJob PROVE Submitting'
  <2>1. req' = req /\ job[w.k].st = "running" /\ w.k \in Clicks
    BY <1>13, FinishEffect DEF FinishJob, WorkTypes
  <2>2. \A m \in Clicks : job[m].st = "none" <=> job'[m].st = "none"
    BY <1>13, <2>1, FinishEffect
  <2> QED
    BY <2>1, <2>2, ReqFields
<1>14. ASSUME NEW i \in Ids, Receive(i) PROVE Submitting'
  BY <1>14 DEF Receive, CloudOnly, counts
<1>15. ASSUME NEW i \in Ids, Process(i) PROVE Submitting'
  BY <1>15 DEF Process, CloudOnly, counts
<1>16. ASSUME NEW i \in Ids, Expire(i) PROVE Submitting'
  BY <1>16 DEF Expire, CloudOnly, counts
<1>17. ASSUME Crash PROVE Submitting'
  BY <1>17, CrashEffect DEF NoReq
<1>18. CASE UNCHANGED vars
  BY <1>18 DEF vars, cloud, counts, WorkTypes
<1> HIDE DEF Submitting
<1> QED
  BY <1>1, <1>2, <1>3, <1>4, <1>5, <1>6, <1>7, <1>8, <1>9, <1>10, <1>11, <1>12,
     <1>13, <1>14, <1>15, <1>16, <1>17, <1>18
     DEF Next, Api, Work, Toil

LEMMA ReadingNext ==
  ASSUME CountTypes, RowTypes, JobTypes, ReqTypes, WorkTypes, CloudTypes,
         Ledger, Queueing, Submitting, Reading, [Next]_vars
  PROVE  Reading'
<1> USE PlatformsAssumption, BoundsAssumption DEF Clicks, Ids
<1> USE DEF Reading, Fresh
<1>1. ASSUME NEW r \in Requests, Look(r) PROVE Reading'
  BY <1>1, ReqFields DEF Look, ApiOnly, cloud, counts, NoReq, ReqTypes,
       Handlers, Ledger
<1>2. ASSUME NEW r \in Requests, Claim(r) PROVE Reading'
  BY <1>2, ReqFields DEF Claim, ApiOnly, MayClaim, Rearm, NewWords, cloud,
       counts, NoReq, ReqTypes, Handlers, CountTypes
<1>3. ASSUME NEW r \in Requests, CancelJob(r) PROVE Reading'
  <2>1. PICK j \in Clicks : Cancel(j) /\ req' = [req EXCEPT ![r] =
                                [pc |-> "revoke", n |-> 0, nonce |-> 0, job |-> j]]
    BY <1>3 DEF CancelJob, ActiveJobs
  <2>2. \A s \in Requests \ {r} : req'[s] = req[s]
    BY <2>1 DEF ReqTypes
  <2>3. req'[r].n = 0 /\ req'[r].pc = "revoke"
    BY <2>1 DEF ReqTypes
  <2>4. \A m \in Clicks : /\ job[m].st = "none" <=> job'[m].st = "none"
                          /\ job'[m].st \in Active => job[m].st \in Active
    BY <2>1, CancelEffect DEF Active
  <2> QED
    BY <2>2, <2>3, <2>4, ReqFields
<1>4. ASSUME NEW r \in Requests, ReadJob(r) PROVE Reading'
  BY <1>4, ReqFields DEF ReadJob, Go, Leave, ApiOnly, StillGoing, Link,
       ActiveJobs, Active, Unqueued, cloud, counts, NoReq, ReqTypes, Handlers,
       Ledger
<1>5. ASSUME NEW r \in Requests, Judge(r) PROVE Reading'
  BY <1>5 DEF Judge, Leave, ApiOnly, FailPublicationFor, Holds, cloud, counts,
       NoReq, ReqTypes, Handlers
<1>6. ASSUME NEW r \in Requests, Submit(r) PROVE Reading'
  <2>1. \A s \in Requests \ {r} : req'[s] = req[s]
    BY <1>6 DEF Submit, Queued, Go, ReqTypes
  <2>2. req'[r].n = req[r].n /\ req[r].pc \in {"submit", "resubmit"} /\ req[r].n \in Clicks
    BY <1>6, ReqFields DEF Submit, Queued, Go, ReqTypes, Handlers, Submitting
  <2>3. CASE Queued(r)
    <3>1. req'[r].pc = "link" /\ job[req[r].n].st = "none"
      BY <1>6, <2>3 DEF Queued, Go, ReqTypes, Handlers, Submitting, Submit
    <3>2. job'[req[r].n].st = "queued" /\ \A m \in Clicks \ {req[r].n} : job'[m] = job[m]
      BY <2>2, <2>3, SubmitEffect
    <3> QED
      BY <2>1, <2>2, <3>1, <3>2, ReqFields
  <2>4. CASE ~Queued(r)
    <3>1. job' = job /\ req'[r].pc \in {"retire", "giveback"}
      BY <1>6, <2>4 DEF Submit, Go, ReqTypes, Handlers, ActiveJobs
    <3> QED
      BY <2>1, <2>2, <3>1, ReqFields
  <2> QED
    BY <2>3, <2>4
<1>7. ASSUME NEW r \in Requests, Retire(r) PROVE Reading'
  <2>1. Cancel(req[r].job) /\ req[r].job \in Clicks
    BY <1>7, ReqFields DEF Submitting, Retire
  <2>2. \A m \in Clicks : /\ job[m].st = "none" <=> job'[m].st = "none"
                          /\ job'[m].st \in Active => job[m].st \in Active
    BY <2>1, CancelEffect DEF Active
  <2>3. \A s \in Requests \ {r} : req'[s] = req[s]
    BY <1>7 DEF Retire, Go, ReqTypes
  <2>4. req'[r].n = req[r].n /\ req'[r].pc = "resubmit" /\ req[r].pc = "retire"
    BY <1>7 DEF Retire, Go, ReqTypes, Handlers
  <2> QED
    BY <2>2, <2>3, <2>4, ReqFields
<1>8. ASSUME NEW r \in Requests, GiveBack(r) PROVE Reading'
  BY <1>8 DEF GiveBack, Leave, ApiOnly, FailPublication, cloud, counts, NoReq,
       ReqTypes, Handlers
<1>9. ASSUME NEW r \in Requests, LinkJob(r) PROVE Reading'
  BY <1>9 DEF LinkJob, Leave, ApiOnly, Link, cloud, counts, NoReq, ReqTypes,
       Handlers
<1>10. ASSUME NEW r \in Requests, Revoke(r) PROVE Reading'
  BY <1>10 DEF Revoke, Leave, ApiOnly, FailPublicationFor, Holds, cloud,
       counts, NoReq, ReqTypes, Handlers
<1>11. ASSUME NEW n \in Clicks, ClaimJob(n) PROVE Reading'
  <2>1. req' = req
    BY <1>11 DEF ClaimJob, Quiet
  <2>2. \A m \in Clicks : /\ job[m].st = "none" <=> job'[m].st = "none"
                          /\ job'[m].st \in Active => job[m].st \in Active
    BY <1>11, ClaimJobEffect DEF Active
  <2> QED
    BY <2>1, <2>2, ReqFields
<1>12. ASSUME Toil PROVE Reading'
  <2>1. UNCHANGED <<req, job>>
    BY <1>12, WorkGoesOn
  <2> QED
    BY <2>1
<1>13. ASSUME FinishJob PROVE Reading'
  <2>1. req' = req /\ job[w.k].st = "running" /\ w.k \in Clicks
    BY <1>13, FinishEffect DEF FinishJob, WorkTypes
  <2>2. \A m \in Clicks : /\ job[m].st = "none" <=> job'[m].st = "none"
                          /\ job'[m].st \in Active => job[m].st \in Active
    BY <1>13, <2>1, FinishEffect DEF Active
  <2> QED
    BY <2>1, <2>2, ReqFields
<1>14. ASSUME NEW i \in Ids, Receive(i) PROVE Reading'
  BY <1>14 DEF Receive, CloudOnly, counts
<1>15. ASSUME NEW i \in Ids, Process(i) PROVE Reading'
  BY <1>15 DEF Process, CloudOnly, counts
<1>16. ASSUME NEW i \in Ids, Expire(i) PROVE Reading'
  BY <1>16 DEF Expire, CloudOnly, counts
<1>17. ASSUME Crash PROVE Reading'
  BY <1>17, CrashEffect DEF NoReq
<1>18. CASE UNCHANGED vars
  BY <1>18 DEF vars, cloud, counts, WorkTypes
<1> HIDE DEF Reading, Fresh
<1> QED
  BY <1>1, <1>2, <1>3, <1>4, <1>5, <1>6, <1>7, <1>8, <1>9, <1>10, <1>11, <1>12,
     <1>13, <1>14, <1>15, <1>16, <1>17, <1>18
     DEF Next, Api, Work, Toil

(* What a step leaves in the worker's hands.                               *)
LEMMA ToFields ==
  ASSUME WorkTypes, NEW p, To(p)
  PROVE  /\ w'.pc = p /\ w'.u = w.u /\ w'.remote = w.remote /\ w'.had = w.had /\ w'.id = w.id
         /\ w'.have = w.have /\ w'.words = w.words
BY DEF To, WorkTypes, Attempts

LEMMA StopFields ==
  ASSUME NEW p, NEW c, Stop(p, c)
  PROVE  w'.pc = p /\ w'.u = 0 /\ w'.remote = 0 /\ w'.id = 0 /\ w'.cause = c
BY DEF Stop, NoWork

LEMMA BeganFields ==
  ASSUME WorkTypes, w' = [w EXCEPT !.pc = "pre", !.words = row.words, !.remote = row.remote,
                       !.final = row.final, !.had = row.stamp]
  PROVE  w'.pc = "pre" /\ w'.u = w.u /\ w'.remote = row.remote /\ w'.had = row.stamp /\ w'.id = w.id
         /\ w'.words = row.words
BY DEF WorkTypes, Attempts

LEMMA PreparedFields ==
  ASSUME WorkTypes, w' = [w EXCEPT !.pc = Entry, !.u = IF plat = "x" THEN w.remote ELSE 0]
  PROVE  w'.pc = Entry /\ w'.u = (IF plat = "x" THEN w.remote ELSE 0) /\ w'.remote = w.remote
         /\ w'.had = w.had /\ w'.id = w.id
BY DEF WorkTypes, Attempts

LEMMA GotFields ==
  ASSUME WorkTypes, w' = [w EXCEPT !.u = row.sess, !.have = row.have,
                       !.pc = IF (IF plat = "youtube" THEN row.sess ELSE w.remote) # 0
                              THEN "probe" ELSE "open"]
  PROVE  /\ w'.pc = IF (IF plat = "youtube" THEN row.sess ELSE w.remote) # 0 THEN "probe" ELSE "open"
         /\ w'.u = row.sess /\ w'.remote = w.remote /\ w'.had = w.had /\ w'.id = w.id
BY DEF WorkTypes, Attempts

LEMMA ProbedFields ==
  ASSUME WorkTypes, w' = [w EXCEPT !.pc = "record", !.id = w.u]
  PROVE  w'.pc = "record" /\ w'.id = w.u /\ w'.u = w.u /\ w'.remote = w.remote /\ w'.had = w.had
BY DEF WorkTypes, Attempts

LEMMA PolledFields ==
  ASSUME WorkTypes, w' = [w EXCEPT !.pc = "record", !.id = w.remote]
  PROVE  w'.pc = "record" /\ w'.id = w.remote /\ w'.u = w.u /\ w'.remote = w.remote
         /\ w'.had = w.had
BY DEF WorkTypes, Attempts

LEMMA MediumFields ==
  ASSUME WorkTypes, w' = [w EXCEPT !.pc = "save", !.u = 1]
  PROVE  w'.pc = "save" /\ w'.u = 1 /\ w'.remote = w.remote /\ w'.had = w.had /\ w'.id = w.id
BY DEF WorkTypes, Attempts

LEMMA OpenedFields ==
  ASSUME WorkTypes, w' = [w EXCEPT !.pc = "save", !.u = ids',
                       !.remote = IF plat = "tiktok" THEN ids' ELSE 0]
  PROVE  w'.pc = "save" /\ w'.u = ids' /\ w'.remote = (IF plat = "tiktok" THEN ids' ELSE 0)
         /\ w'.had = w.had /\ w'.id = w.id
BY DEF WorkTypes, Attempts

LEMMA TweetedFields ==
  ASSUME WorkTypes, w' = [w EXCEPT !.pc = "wait", !.id = ids']
  PROVE  w'.pc = "wait" /\ w'.id = ids' /\ w'.u = w.u /\ w'.remote = w.remote /\ w'.had = w.had
BY DEF WorkTypes, Attempts

LEMMA SentFields ==
  ASSUME WorkTypes, w' = [w EXCEPT !.pc = "wait", !.id = w.u]
  PROVE  w'.pc = "wait" /\ w'.id = w.u /\ w'.u = w.u /\ w'.remote = w.remote /\ w'.had = w.had
BY DEF WorkTypes, Attempts

(* The ledger.                                                             *)
LEMMA LedgerNext ==
  ASSUME CountTypes, RowTypes, JobTypes, ReqTypes, WorkTypes, CloudTypes,
         Ledger, Queueing, Submitting, Knows, [Next]_vars
  PROVE  Ledger'
<1> USE PlatformsAssumption, BoundsAssumption DEF Clicks, Ids
<1> USE DEF Ledger, RowTypes, Rows, InFlight
<1>1. ASSUME NEW r \in Requests, Look(r) PROVE Ledger'
  BY <1>1 DEF Look, ApiOnly, cloud, counts, NoReq
<1>2. ASSUME NEW r \in Requests, Claim(r) PROVE Ledger'
  BY <1>2 DEF Claim, ApiOnly, MayClaim, Rearm, NewWords, cloud, counts, NoReq,
       CountTypes
<1>3. ASSUME NEW r \in Requests, CancelJob(r) PROVE Ledger'
  <2>1. PICK j \in Clicks : Cancel(j)
    BY <1>3 DEF CancelJob, ActiveJobs
  <2>2. row' = row /\ posts' = posts
    BY <1>3 DEF CancelJob, ApiOnly, cloud
  <2>3. \A m \in Clicks : job[m].st = "none" <=> job'[m].st = "none"
    BY <2>1, CancelEffect
  <2> QED
    BY <2>2, <2>3, RowFields
<1>4. ASSUME NEW r \in Requests, ReadJob(r) PROVE Ledger'
  <2>1. posts' = posts /\ job' = job
    BY <1>4 DEF ReadJob, ApiOnly, cloud
  <2>2. CASE row' = row
    BY <2>1, <2>2
  <2>3. ASSUME NEW j \in ActiveJobs, Link(j, j) PROVE Ledger'
    BY <2>1, <2>3 DEF Link, ActiveJobs, Active
  <2> QED
    BY <1>4, <2>2, <2>3 DEF ReadJob
<1>5. ASSUME NEW r \in Requests, Judge(r) PROVE Ledger'
  BY <1>5 DEF Judge, Leave, ApiOnly, FailPublicationFor, Holds, cloud, counts,
       NoReq
<1>6. ASSUME NEW r \in Requests, Submit(r) PROVE Ledger'
  <2>1. row' = row /\ posts' = posts
    BY <1>6 DEF Submit, ApiOnly, cloud
  <2>2. req[r].n \in Clicks
    BY <1>6, ReqFields DEF Submit, Submitting
  <2>3. \A m \in Clicks : job'[m].st = "none" => job[m].st = "none"
    <3>1. CASE Queued(r)
      <4>1. job'[req[r].n].st = "queued" /\ \A m \in Clicks \ {req[r].n} : job'[m] = job[m]
        BY <2>2, <3>1, SubmitEffect
      <4> QED
        BY <4>1
    <3>2. CASE ~Queued(r)
      BY <1>6, <3>2 DEF Submit
    <3> QED
      BY <3>1, <3>2
  <2> QED
    BY <2>1, <2>3, RowFields
<1>7. ASSUME NEW r \in Requests, Retire(r) PROVE Ledger'
  <2>1. Cancel(req[r].job) /\ req[r].job \in Clicks
    BY <1>7, ReqFields DEF Submitting, Retire
  <2>2. row' = row /\ posts' = posts
    BY <1>7 DEF Retire, ApiOnly, cloud
  <2>3. \A m \in Clicks : job[m].st = "none" <=> job'[m].st = "none"
    BY <2>1, CancelEffect
  <2> QED
    BY <2>2, <2>3, RowFields
<1>8. ASSUME NEW r \in Requests, GiveBack(r) PROVE Ledger'
  BY <1>8 DEF GiveBack, Leave, ApiOnly, FailPublication, cloud, counts, NoReq
<1>9. ASSUME NEW r \in Requests, LinkJob(r) PROVE Ledger'
  <2>1. posts' = posts /\ job' = job /\ req[r].n # 0 /\ job[req[r].n].st # "none"
    BY <1>9 DEF LinkJob, ApiOnly, cloud, Submitting
  <2> QED
    BY <1>9, <2>1 DEF LinkJob, Link
<1>10. ASSUME NEW r \in Requests, Revoke(r) PROVE Ledger'
  BY <1>10 DEF Revoke, Leave, ApiOnly, FailPublicationFor, Holds, cloud,
       counts, NoReq
<1>11. ASSUME NEW n \in Clicks, ClaimJob(n) PROVE Ledger'
  BY <1>11, ClaimJobEffect, RowFields
<1>12. ASSUME Begin PROVE Ledger'
  BY <1>12 DEF Begin, At, To, Stop, NoWork, Ended, Retryable, Final, Errors,
       Quiet, NoCloud, Fails, Write, Refused, cloud, counts, Holds
<1>13. ASSUME Prepare PROVE Ledger'
  BY <1>13 DEF Prepare, Entry, At, To, Stop, NoWork, Ended, Retryable, Final,
       Errors, Quiet, NoCloud, Fails, Write, Refused, cloud, counts, Holds
<1>14. ASSUME GetSession PROVE Ledger'
  BY <1>14 DEF GetSession, At, To, Stop, NoWork, Ended, Retryable, Final,
       Errors, Quiet, NoCloud, Fails, Write, Refused, cloud, counts, Holds
<1>15. ASSUME ProbeSession PROVE Ledger'
  BY <1>15 DEF ProbeSession, Finished, StartOver, At, To, Stop, NoWork, Ended,
       Retryable, Final, Errors, Quiet, NoCloud, Fails, Write, Refused, cloud,
       counts, Holds
<1>16. ASSUME ProbePublishId PROVE Ledger'
  BY <1>16 DEF ProbePublishId, Finished, At, To, Stop, NoWork, Ended,
       Retryable, Final, Errors, Quiet, NoCloud, Fails, Write, Refused, cloud,
       counts, Holds
<1>17. ASSUME DropRemote PROVE Ledger'
  <2>1. UNCHANGED <<job, posts>>
    BY <1>17 DEF DropRemote, NoCloud, cloud
  <2>2. \/ row' = row
        \/ row.state \in InFlight /\ row' = [row EXCEPT !.remote = 0, !.final = FALSE]
    BY <1>17 DEF DropRemote, Write, Refused, Fails, Holds
  <2>3. CASE row' = row
    BY <2>1, <2>3
  <2>4. CASE row.state \in InFlight /\ row' = [row EXCEPT !.remote = 0, !.final = FALSE]
    BY <2>1, <2>4
  <2> QED
    BY <2>2, <2>3, <2>4
<1>18. ASSUME ClearSession PROVE Ledger'
  BY <1>18 DEF ClearSession, Dead, At, To, Stop, NoWork, Ended, Retryable,
       Final, Errors, Quiet, NoCloud, Fails, Write, Refused, cloud, counts,
       Holds
<1>19. ASSUME Open PROVE Ledger'
  BY <1>19 DEF Open, At, To, Stop, NoWork, Ended, Retryable, Final, Errors,
       Quiet, NoCloud, Fails, Write, Refused, cloud, counts, Holds
<1>20. ASSUME Save PROVE Ledger'
  <2>1. UNCHANGED <<job, posts>>
    BY <1>20 DEF Save, NoCloud, cloud
  <2>2. \/ row' = row
        \/ /\ row.state \in InFlight
           /\ \/ row' = [row EXCEPT !.sess = w.u, !.have = w.words]
              \/ row' = [row EXCEPT !.remote = w.u, !.final = FALSE]
    BY <1>20 DEF Save, Write, Refused, Holds
  <2>3. CASE row' = row
    BY <2>1, <2>3
  <2>4. CASE row.state \in InFlight /\ row' = [row EXCEPT !.sess = w.u, !.have = w.words]
    BY <2>1, <2>4
  <2>5. CASE row.state \in InFlight /\ row' = [row EXCEPT !.remote = w.u, !.final = FALSE]
    BY <2>1, <2>5
  <2> QED
    BY <2>2, <2>3, <2>4, <2>5
<1>21. ASSUME Upload PROVE Ledger'
  BY <1>21 DEF Upload, At, To, Stop, NoWork, Ended, Retryable, Final, Errors,
       Quiet, NoCloud, Fails, Write, Refused, cloud, counts, Holds
<1>22. ASSUME SaveFinalized PROVE Ledger'
  BY <1>22 DEF SaveFinalized, At, To, Stop, NoWork, Ended, Retryable, Final,
       Errors, Quiet, NoCloud, Fails, Write, Refused, cloud, counts, Holds
<1>23. ASSUME AwaitProcessing PROVE Ledger'
  BY <1>23 DEF AwaitProcessing, At, To, Stop, NoWork, Ended, Retryable, Final,
       Errors, Quiet, NoCloud, Fails, Write, Refused, cloud, counts, Holds
<1>24. ASSUME Forget PROVE Ledger'
  BY <1>24 DEF Forget, Dead, At, To, Stop, NoWork, Ended, Retryable, Final,
       Errors, Quiet, NoCloud, Fails, Write, Refused, cloud, counts, Holds
<1>25. ASSUME StampFinalizing PROVE Ledger'
  BY <1>25 DEF StampFinalizing, Stamped, At, To, Stop, NoWork, Ended,
       Retryable, Final, Errors, Quiet, NoCloud, Fails, Write, Refused, cloud,
       counts, Holds
<1>26. ASSUME Send PROVE Ledger'
  BY <1>26 DEF Send, At, To, Stop, NoWork, Ended, Retryable, Final, Errors,
       Quiet, NoCloud, Fails, Write, Refused, cloud, counts, Holds
<1>27. ASSUME Wait PROVE Ledger'
  BY <1>27 DEF Wait, Abandon, Lost, At, To, Stop, NoWork, Ended, Retryable,
       Final, Errors, Quiet, NoCloud, Fails, Write, Refused, cloud, counts,
       Holds
<1>28. ASSUME ForgetAddress PROVE Ledger'
  BY <1>28 DEF ForgetAddress, Dead, At, To, Stop, NoWork, Ended, Retryable,
       Final, Errors, Quiet, NoCloud, Fails, Write, Refused, cloud, counts,
       Holds
<1>29. ASSUME Poll PROVE Ledger'
  BY <1>29 DEF Poll, Finished, At, To, Stop, NoWork, Ended, Retryable, Final,
       Errors, Quiet, NoCloud, Fails, Write, Refused, cloud, counts, Holds
<1>30. ASSUME Record PROVE Ledger'
  <2>1. w.id \in posts /\ posts' = posts /\ job' = job
    BY <1>30 DEF Record, At, Knows, cloud, Working
  <2>2. CASE row' = row
    BY <2>1, <2>2
  <2>3. CASE row' = [row EXCEPT !.state = "posted", !.remote = w.id, !.cause = "none", !.sess = 0]
    BY <2>1, <2>3
  <2>4. \/ row' = row
        \/ row' = [row EXCEPT !.state = "posted", !.remote = w.id, !.cause = "none", !.sess = 0]
    BY <1>30 DEF Record, RecordPost
  <2> QED
    BY <2>2, <2>3, <2>4
<1>31. ASSUME GiveUp PROVE Ledger'
  <2>1. UNCHANGED <<job, posts>>
    BY <1>31 DEF GiveUp, NoCloud, cloud
  <2>2. row' = row \/ row' = [row EXCEPT !.state = "failed", !.cause = w.cause]
    BY <1>31 DEF GiveUp, FailPublicationFor
  <2>3. CASE row' = row
    BY <2>1, <2>3
  <2>4. CASE row' = [row EXCEPT !.state = "failed", !.cause = w.cause]
    BY <2>1, <2>4
  <2> QED
    BY <2>2, <2>3, <2>4
<1>32. ASSUME Settle PROVE Ledger'
  <2>1. posts' = posts /\ job' = job
    BY <1>32 DEF Settle, NoCloud, cloud
  <2>2. CASE row' = row
    BY <2>1, <2>2
  <2>3. CASE row' = [row EXCEPT !.state = "failed", !.cause = "other"]
    BY <2>1, <2>3
  <2> QED
    BY <1>32, <2>2, <2>3 DEF Settle, FailPublicationFor
<1>33. ASSUME FinishJob PROVE Ledger'
  BY <1>33, FinishEffect, RowFields
<1>34. ASSUME NEW i \in Ids, Receive(i) PROVE Ledger'
  BY <1>34 DEF Receive, CloudOnly, counts
<1>35. ASSUME NEW i \in Ids, Process(i) PROVE Ledger'
  BY <1>35 DEF Process, CloudOnly, counts
<1>36. ASSUME NEW i \in Ids, Expire(i) PROVE Ledger'
  BY <1>36 DEF Expire, CloudOnly, counts
<1>37. ASSUME Crash PROVE Ledger'
  BY <1>37, CrashEffect, RowFields
<1>38. CASE UNCHANGED vars
  BY <1>38 DEF vars, cloud, counts, WorkTypes
<1> HIDE DEF Ledger, RowTypes, Rows, InFlight
<1> QED
  BY <1>1, <1>2, <1>3, <1>4, <1>5, <1>6, <1>7, <1>8, <1>9, <1>10, <1>11, <1>12,
     <1>13, <1>14, <1>15, <1>16, <1>17, <1>18, <1>19, <1>20, <1>21, <1>22,
     <1>23, <1>24, <1>25, <1>26, <1>27, <1>28, <1>29, <1>30, <1>31, <1>32,
     <1>33, <1>34, <1>35, <1>36, <1>37, <1>38
     DEF Next, Api, Work

(* The platform and the worker.                                            *)
LEMMA BooksNext ==
  ASSUME CountTypes, RowTypes, JobTypes, ReqTypes, WorkTypes, CloudTypes,
         Books, Knows, Uploading, [Next]_vars
  PROVE  Books'
<1> USE PlatformsAssumption, BoundsAssumption DEF Clicks, Ids
<1> USE DEF Books, CloudTypes, CountTypes
<1>1. ASSUME NEW r \in Requests, Look(r) PROVE Books'
  BY <1>1 DEF Look, ApiOnly, cloud, counts, NoReq
<1>2. ASSUME NEW r \in Requests, Claim(r) PROVE Books'
  BY <1>2 DEF Claim, ApiOnly, MayClaim, Rearm, NewWords, cloud, counts, NoReq
<1>3. ASSUME NEW r \in Requests, CancelJob(r) PROVE Books'
  BY <1>3 DEF CancelJob, ApiOnly, Cancel, ActiveJobs, Active, cloud, counts,
       NoReq
<1>4. ASSUME NEW r \in Requests, ReadJob(r) PROVE Books'
  BY <1>4 DEF ReadJob, Go, Leave, ApiOnly, StillGoing, Link, ActiveJobs,
       Active, Unqueued, cloud, counts, NoReq
<1>5. ASSUME NEW r \in Requests, Judge(r) PROVE Books'
  BY <1>5 DEF Judge, Leave, ApiOnly, FailPublicationFor, Holds, cloud, counts,
       NoReq
<1>6. ASSUME NEW r \in Requests, Submit(r) PROVE Books'
  BY <1>6 DEF Submit, Go, ApiOnly, Queued, ActiveJobs, Active, cloud, counts,
       NoReq
<1>7. ASSUME NEW r \in Requests, Retire(r) PROVE Books'
  BY <1>7 DEF Retire, Go, ApiOnly, Cancel, cloud, counts, NoReq
<1>8. ASSUME NEW r \in Requests, GiveBack(r) PROVE Books'
  BY <1>8 DEF GiveBack, Leave, ApiOnly, FailPublication, cloud, counts, NoReq
<1>9. ASSUME NEW r \in Requests, LinkJob(r) PROVE Books'
  BY <1>9 DEF LinkJob, Leave, ApiOnly, Link, cloud, counts, NoReq
<1>10. ASSUME NEW r \in Requests, Revoke(r) PROVE Books'
  BY <1>10 DEF Revoke, Leave, ApiOnly, FailPublicationFor, Holds, cloud,
       counts, NoReq
<1>11. ASSUME NEW n \in Clicks, ClaimJob(n) PROVE Books'
  BY <1>11, ClaimJobEffect
<1>12. ASSUME Begin PROVE Books'
  BY <1>12 DEF Begin, At, To, Stop, NoWork, Ended, Retryable, Final, Errors,
       Quiet, NoCloud, Fails, Write, Refused, cloud, counts, Holds
<1>13. ASSUME Prepare PROVE Books'
  BY <1>13 DEF Prepare, Entry, At, To, Stop, NoWork, Ended, Retryable, Final,
       Errors, Quiet, NoCloud, Fails, Write, Refused, cloud, counts, Holds
<1>14. ASSUME GetSession PROVE Books'
  BY <1>14 DEF GetSession, At, To, Stop, NoWork, Ended, Retryable, Final,
       Errors, Quiet, NoCloud, Fails, Write, Refused, cloud, counts, Holds
<1>15. ASSUME ProbeSession PROVE Books'
  BY <1>15 DEF ProbeSession, Finished, StartOver, At, To, Stop, NoWork, Ended,
       Retryable, Final, Errors, Quiet, NoCloud, Fails, Write, Refused, cloud,
       counts, Holds
<1>16. ASSUME ProbePublishId PROVE Books'
  BY <1>16 DEF ProbePublishId, Finished, At, To, Stop, NoWork, Ended,
       Retryable, Final, Errors, Quiet, NoCloud, Fails, Write, Refused, cloud,
       counts, Holds
<1>17. ASSUME DropRemote PROVE Books'
  BY <1>17 DEF DropRemote, Dead, At, To, Stop, NoWork, Ended, Retryable, Final,
       Errors, Quiet, NoCloud, Fails, Write, Refused, cloud, counts, Holds
<1>18. ASSUME ClearSession PROVE Books'
  BY <1>18 DEF ClearSession, Dead, At, To, Stop, NoWork, Ended, Retryable,
       Final, Errors, Quiet, NoCloud, Fails, Write, Refused, cloud, counts,
       Holds
<1>19. ASSUME Open PROVE Books'
  <2>1. UNCHANGED <<posts, plat>>
    BY <1>19 DEF Open, Quiet
  <2>2. CASE up' = up /\ ids' = ids
    BY <2>1, <2>2
  <2>3. CASE ids < MaxIds /\ ids' = ids + 1 /\ up' = [up EXCEPT ![ids'] = "part"]
    <3>1. ids' \in Ids /\ ids' \notin posts
      BY <2>3
    <3>2. \A i \in Ids : up'[i] = IF i = ids' THEN "part" ELSE up[i]
      BY <2>3
    <3> QED
      BY <2>1, <2>3, <3>1, <3>2
  <2> QED
    BY <1>19, <2>2, <2>3 DEF Open
<1>20. ASSUME Save PROVE Books'
  BY <1>20 DEF Save, At, To, Stop, NoWork, Ended, Retryable, Final, Errors,
       Quiet, NoCloud, Fails, Write, Refused, cloud, counts, Holds
<1>21. ASSUME Upload PROVE Books'
  BY <1>21 DEF Upload, At, To, Stop, NoWork, Ended, Retryable, Final, Errors,
       Quiet, NoCloud, Fails, Write, Refused, cloud, counts, Holds
<1>22. ASSUME SaveFinalized PROVE Books'
  BY <1>22 DEF SaveFinalized, At, To, Stop, NoWork, Ended, Retryable, Final,
       Errors, Quiet, NoCloud, Fails, Write, Refused, cloud, counts, Holds
<1>23. ASSUME AwaitProcessing PROVE Books'
  BY <1>23 DEF AwaitProcessing, At, To, Stop, NoWork, Ended, Retryable, Final,
       Errors, Quiet, NoCloud, Fails, Write, Refused, cloud, counts, Holds
<1>24. ASSUME Forget PROVE Books'
  BY <1>24 DEF Forget, Dead, At, To, Stop, NoWork, Ended, Retryable, Final,
       Errors, Quiet, NoCloud, Fails, Write, Refused, cloud, counts, Holds
<1>25. ASSUME StampFinalizing PROVE Books'
  BY <1>25 DEF StampFinalizing, Stamped, At, To, Stop, NoWork, Ended,
       Retryable, Final, Errors, Quiet, NoCloud, Fails, Write, Refused, cloud,
       counts, Holds
<1>26. ASSUME Send PROVE Books'
  BY <1>26 DEF Send, At, To, Stop, NoWork, Ended, Retryable, Final, Errors,
       Quiet, NoCloud, Fails, Write, Refused, cloud, counts, Holds
<1>27. ASSUME Wait PROVE Books'
  BY <1>27 DEF Wait, Abandon, Lost, At, To, Stop, NoWork, Ended, Retryable,
       Final, Errors, Quiet, NoCloud, Fails, Write, Refused, cloud, counts,
       Holds
<1>28. ASSUME ForgetAddress PROVE Books'
  BY <1>28 DEF ForgetAddress, Dead, At, To, Stop, NoWork, Ended, Retryable,
       Final, Errors, Quiet, NoCloud, Fails, Write, Refused, cloud, counts,
       Holds
<1>29. ASSUME Poll PROVE Books'
  BY <1>29 DEF Poll, Finished, At, To, Stop, NoWork, Ended, Retryable, Final,
       Errors, Quiet, NoCloud, Fails, Write, Refused, cloud, counts, Holds
<1>30. ASSUME Record PROVE Books'
  BY <1>30 DEF Record, RecordPost, CanRecord, At, To, Stop, NoWork, Ended,
       Retryable, Final, Errors, Quiet, NoCloud, Fails, Write, Refused, cloud,
       counts, Holds
<1>31. ASSUME GiveUp PROVE Books'
  BY <1>31 DEF GiveUp, FailPublicationFor, Holds, At, To, Stop, NoWork, Ended,
       Retryable, Final, Errors, Quiet, NoCloud, Fails, Write, Refused, cloud,
       counts
<1>32. ASSUME Settle PROVE Books'
  BY <1>32 DEF Settle, LastTry, FailPublicationFor, Holds, At, To, Stop,
       NoWork, Ended, Retryable, Final, Errors, Quiet, NoCloud, Fails, Write,
       Refused, cloud, counts
<1>33. ASSUME FinishJob PROVE Books'
  BY <1>33 DEF FinishJob, Outcome, LastTry, Active, At, To, Stop, NoWork,
       Ended, Retryable, Final, Errors, Quiet, NoCloud, Fails, Write, Refused,
       cloud, counts, Holds
<1>34. ASSUME NEW i \in Ids, Receive(i) PROVE Books'
  BY <1>34 DEF Receive, CloudOnly, counts
<1>35. ASSUME NEW i \in Ids, Process(i) PROVE Books'
  <2>1. \A j \in Ids \ {i} : up'[j] = up[j]
    BY <1>35 DEF Process
  <2>2. UNCHANGED <<plat, ids>> /\ plat # "x" /\ up[i] = "full"
    BY <1>35 DEF Process, CloudOnly
  <2>3. \/ up'[i] = "done" /\ posts' = posts \cup {i}
        \/ up'[i] = "failed" /\ posts' = posts
    BY <1>35 DEF Process
  <2> QED
    BY <2>1, <2>2, <2>3
<1>36. ASSUME NEW i \in Ids, Expire(i) PROVE Books'
  <2>1. \A j \in Ids \ {i} : up'[j] = up[j]
    BY <1>36 DEF Expire
  <2>2. UNCHANGED <<plat, ids, posts>>
    BY <1>36 DEF Expire, CloudOnly
  <2>3. up'[i] \in {"gone", "failed"} /\ up[i] \in {"part", "done"} /\ (up[i] = "done" => up'[i] = "gone")
    BY <1>36 DEF Expire
  <2> QED
    BY <2>1, <2>2, <2>3
<1>37. ASSUME Crash PROVE Books'
  BY <1>37 DEF Crash, NoWork, NoReq, counts
<1>38. CASE UNCHANGED vars
  BY <1>38 DEF vars, cloud, counts, WorkTypes
<1> HIDE DEF Books, CloudTypes, CountTypes
<1> QED
  BY <1>1, <1>2, <1>3, <1>4, <1>5, <1>6, <1>7, <1>8, <1>9, <1>10, <1>11, <1>12,
     <1>13, <1>14, <1>15, <1>16, <1>17, <1>18, <1>19, <1>20, <1>21, <1>22,
     <1>23, <1>24, <1>25, <1>26, <1>27, <1>28, <1>29, <1>30, <1>31, <1>32,
     <1>33, <1>34, <1>35, <1>36, <1>37, <1>38
     DEF Next, Api, Work

(* What a write of the remote id, and of the session, leaves of the row.   *)
LEMMA RemoteFields ==
  ASSUME RowTypes, NEW y, NEW b, row' = [row EXCEPT !.remote = y, !.final = b]
  PROVE  /\ row'.state = row.state /\ row'.cause = row.cause /\ row'.stamp = row.stamp
         /\ row'.job = row.job /\ row'.nonce = row.nonce
         /\ row'.remote = y /\ row'.sess = row.sess
BY DEF RowTypes, Rows

LEMMA SessionFields ==
  ASSUME RowTypes, NEW y, NEW v, row' = [row EXCEPT !.sess = y, !.have = v]
  PROVE  /\ row'.state = row.state /\ row'.cause = row.cause /\ row'.stamp = row.stamp
         /\ row'.job = row.job /\ row'.nonce = row.nonce
         /\ row'.remote = row.remote /\ row'.sess = y
BY DEF RowTypes, Rows

LEMMA KnowsNext ==
  ASSUME CountTypes, RowTypes, JobTypes, ReqTypes, WorkTypes, CloudTypes,
         Ledger, Books, Uploading, Knows, [Next]_vars
  PROVE  Knows'
<1> USE PlatformsAssumption, BoundsAssumption DEF Clicks, Ids
<1> USE DEF Knows, Working
<1>1. ASSUME NEW r \in Requests, Look(r) PROVE Knows'
  BY <1>1 DEF Look, ApiOnly, cloud, counts, NoReq
<1>2. ASSUME NEW r \in Requests, Claim(r) PROVE Knows'
  BY <1>2 DEF Claim, ApiOnly, MayClaim, Rearm, NewWords, cloud, counts, NoReq,
       RowTypes, Rows
<1>3. ASSUME NEW r \in Requests, CancelJob(r) PROVE Knows'
  BY <1>3 DEF CancelJob, ApiOnly, Cancel, ActiveJobs, Active, cloud, counts,
       NoReq
<1>4. ASSUME NEW r \in Requests, ReadJob(r) PROVE Knows'
  BY <1>4 DEF ReadJob, Go, Leave, ApiOnly, StillGoing, Link, ActiveJobs,
       Active, Unqueued, cloud, counts, NoReq, RowTypes, Rows
<1>5. ASSUME NEW r \in Requests, Judge(r) PROVE Knows'
  BY <1>5 DEF Judge, Leave, ApiOnly, FailPublicationFor, Holds, cloud, counts,
       NoReq, RowTypes, Rows
<1>6. ASSUME NEW r \in Requests, Submit(r) PROVE Knows'
  BY <1>6 DEF Submit, Go, ApiOnly, Queued, ActiveJobs, Active, cloud, counts,
       NoReq
<1>7. ASSUME NEW r \in Requests, Retire(r) PROVE Knows'
  BY <1>7 DEF Retire, Go, ApiOnly, Cancel, cloud, counts, NoReq
<1>8. ASSUME NEW r \in Requests, GiveBack(r) PROVE Knows'
  BY <1>8 DEF GiveBack, Leave, ApiOnly, FailPublication, cloud, counts, NoReq,
       RowTypes, Rows
<1>9. ASSUME NEW r \in Requests, LinkJob(r) PROVE Knows'
  BY <1>9 DEF LinkJob, Leave, ApiOnly, Link, cloud, counts, NoReq, RowTypes,
       Rows
<1>10. ASSUME NEW r \in Requests, Revoke(r) PROVE Knows'
  BY <1>10 DEF Revoke, Leave, ApiOnly, FailPublicationFor, Holds, cloud,
       counts, NoReq, RowTypes, Rows
<1>11. ASSUME NEW n \in Clicks, ClaimJob(n) PROVE Knows'
  BY <1>11, ClaimJobEffect
<1>12. ASSUME Begin PROVE Knows'
  BY <1>12, ToFields, StopFields, BeganFields DEF Begin, At, Ended, Retryable, Final,
         Errors, Quiet, NoCloud, Fails, Write, Refused, cloud, counts, Holds,
         RowTypes, Rows, Ledger, InFlight
<1>13. ASSUME Prepare PROVE Knows'
  BY <1>13, ToFields, StopFields, PreparedFields DEF Prepare, Entry, At, Ended,
         Retryable, Final, Errors, Quiet, NoCloud, Fails, Write, Refused, cloud,
         counts, Holds
<1>14. ASSUME GetSession PROVE Knows'
  BY <1>14, ToFields, StopFields, GotFields DEF GetSession, At, Ended, Retryable,
         Final, Errors, Quiet, NoCloud, Fails, Write, Refused, cloud, counts,
         Holds
<1>15. ASSUME ProbeSession PROVE Knows'
  BY SMTT(30), <1>15, ToFields, StopFields, ProbedFields, WorkFields DEF ProbeSession,
         Finished, StartOver, At, Ended, Retryable, Final, Errors, Quiet,
         NoCloud, Fails, Write, Refused, cloud, counts, Holds, Books, Uploading,
         CloudTypes, CountTypes
<1>16. ASSUME ProbePublishId PROVE Knows'
  BY SMTT(30), <1>16, ToFields, StopFields, PolledFields, WorkFields DEF ProbePublishId,
         Finished, At, Ended, Retryable, Final, Errors, Quiet, NoCloud, Fails,
         Write, Refused, cloud, counts, Holds, Books, Uploading, CloudTypes,
         CountTypes
<1>17. ASSUME DropRemote PROVE Knows'
  <2>1. row'.state = row.state /\ row'.cause = row.cause /\ row'.stamp = row.stamp
    BY <1>17, RemoteFields, SessionFields DEF DropRemote, Write, Refused, Fails
  <2>2. UNCHANGED <<plat, posts>> /\ w.pc \in {"drop", "dropid"} /\ w'.pc \in {"clear", "open", "ended", "dead", "settle"}
    BY <1>17, ToFields, StopFields DEF DropRemote, Dead, At, Ended, Retryable, Final,
         Errors, Quiet, NoCloud, Fails, Write, Refused, cloud, counts, Holds
  <2> QED
    BY <2>1, <2>2
<1>18. ASSUME ClearSession PROVE Knows'
  <2>1. row'.state = row.state /\ row'.cause = row.cause /\ row'.stamp = row.stamp
    BY <1>18, RemoteFields, SessionFields DEF ClearSession, Write, Refused, Fails
  <2>2. UNCHANGED <<plat, posts>> /\ w.pc = "clear" /\ w'.pc \in {"open", "giveup", "ended", "dead", "settle"}
    BY <1>18, ToFields, StopFields DEF ClearSession, Dead, At, Ended, Retryable,
         Final, Errors, Quiet, NoCloud, Fails, Write, Refused, cloud, counts,
         Holds
  <2> QED
    BY <2>1, <2>2
<1>19. ASSUME Open PROVE Knows'
  BY <1>19, ToFields, StopFields, MediumFields, OpenedFields DEF Open, At, Ended,
         Retryable, Final, Errors, Quiet, NoCloud, Fails, Write, Refused, cloud,
         counts, Holds
<1>20. ASSUME Save PROVE Knows'
  <2>1. row'.state = row.state /\ row'.cause = row.cause /\ row'.stamp = row.stamp
    BY <1>20, RemoteFields, SessionFields DEF Save, Write, Refused, Fails
  <2>2. plat' = plat /\ posts' = posts
    BY <1>20 DEF Save, Quiet, NoCloud, cloud
  <2>3. \/ w.pc \in {"save", "address"} /\ w'.pc \in {"stamp", "settle", "ended"}
        \/ w.pc = "save" /\ plat = "x" /\ w'.pc = "upload"
        \/ w.pc = "save" /\ plat = "tiktok" /\ w'.pc = "address"
    <3>1. plat \in {"youtube", "tiktok", "x"}
      BY PlatformsAssumption DEF RowTypes
    <3>2. ASSUME To(IF plat = "x" THEN "upload" ELSE "address")
          PROVE  w'.pc = IF plat = "x" THEN "upload" ELSE "address"
      BY <3>2, ToFields
    <3>3. CASE Retryable
      BY <1>20, <3>3, StopFields DEF Save, At, Retryable, Ended
    <3>4. CASE To("stamp")
      BY <1>20, <3>4, ToFields DEF Save, At
    <3> QED
      BY <1>20, <3>1, <3>2, <3>3, <3>4 DEF Save, At
  <2> QED
    BY <2>1, <2>2, <2>3
<1>21. ASSUME Upload PROVE Knows'
  BY <1>21, ToFields, StopFields DEF Upload, At, Ended, Retryable, Final, Errors,
         Quiet, NoCloud, Fails, Write, Refused, cloud, counts, Holds
<1>22. ASSUME SaveFinalized PROVE Knows'
  <2>1. row'.state = row.state /\ row'.cause = row.cause /\ row'.stamp = row.stamp
    BY <1>22, RemoteFields, SessionFields DEF SaveFinalized, Write, Refused, Fails
  <2>2. UNCHANGED <<plat, posts>> /\ w.pc = "finalized" /\ w'.pc \in {"process", "stamp", "settle", "ended"}
    BY <1>22, ToFields, StopFields DEF SaveFinalized, At, Ended, Retryable, Final,
         Errors, Quiet, NoCloud, Fails, Write, Refused, cloud, counts, Holds
  <2> QED
    BY <2>1, <2>2
<1>23. ASSUME AwaitProcessing PROVE Knows'
  BY <1>23, ToFields, StopFields DEF AwaitProcessing, At, Ended, Retryable, Final,
         Errors, Quiet, NoCloud, Fails, Write, Refused, cloud, counts, Holds
<1>24. ASSUME Forget PROVE Knows'
  <2>1. row'.state = row.state /\ row'.cause = row.cause /\ row'.stamp = row.stamp
    BY <1>24, RemoteFields, SessionFields DEF Forget, Write, Refused, Fails
  <2>2. UNCHANGED <<plat, posts>> /\ w.pc = "forget" /\ w'.pc \in {"giveup", "ended", "dead", "settle"}
    BY <1>24, ToFields, StopFields DEF Forget, Dead, At, Ended, Retryable, Final,
         Errors, Quiet, NoCloud, Fails, Write, Refused, cloud, counts, Holds
  <2> QED
    BY <2>1, <2>2
<1>25. ASSUME StampFinalizing PROVE Knows'
  BY <1>25, ToFields, StopFields DEF StampFinalizing, Stamped, At, Ended, Retryable,
         Final, Errors, Quiet, NoCloud, Fails, Write, Refused, cloud, counts,
         Holds, RowTypes, Rows
<1>26. ASSUME Send PROVE Knows'
  BY <1>26, ToFields, StopFields, TweetedFields, SentFields DEF Send, At, Ended,
         Retryable, Final, Errors, Quiet, NoCloud, Fails, Write, Refused, cloud,
         counts, Holds
<1>27. ASSUME Wait PROVE Knows'
  BY <1>27, ToFields, StopFields DEF Wait, Abandon, Lost, At, Ended, Retryable,
         Final, Errors, Quiet, NoCloud, Fails, Write, Refused, cloud, counts,
         Holds
<1>28. ASSUME ForgetAddress PROVE Knows'
  <2>1. row'.state = row.state /\ row'.cause = row.cause /\ row'.stamp = row.stamp
    BY <1>28, RemoteFields, SessionFields DEF ForgetAddress, Write, Refused, Fails
  <2>2. UNCHANGED <<plat, posts>> /\ w.pc = "expired" /\ w'.pc \in {"giveup", "ended", "dead", "settle"}
    BY <1>28, ToFields, StopFields DEF ForgetAddress, Dead, At, Ended, Retryable,
         Final, Errors, Quiet, NoCloud, Fails, Write, Refused, cloud, counts,
         Holds
  <2> QED
    BY <2>1, <2>2
<1>29. ASSUME Poll PROVE Knows'
  BY SMTT(30), <1>29, ToFields, StopFields, PolledFields, WorkFields DEF Poll, Finished, At,
         Ended, Retryable, Final, Errors, Quiet, NoCloud, Fails, Write, Refused,
         cloud, counts, Holds, Books, Uploading, CloudTypes, CountTypes
<1>30. ASSUME Record PROVE Knows'
  BY <1>30, ToFields, StopFields DEF Record, RecordPost, CanRecord, At, Ended,
         Retryable, Final, Errors, Quiet, NoCloud, Fails, Write, Refused, cloud,
         counts, Holds, RowTypes, Rows
<1>31. ASSUME GiveUp PROVE Knows'
  BY <1>31, ToFields, StopFields DEF GiveUp, FailPublicationFor, Holds, At, Ended,
         Retryable, Final, Errors, Quiet, NoCloud, Fails, Write, Refused, cloud,
         counts, RowTypes, Rows
<1>32. ASSUME Settle PROVE Knows'
  BY <1>32, ToFields, StopFields DEF Settle, LastTry, FailPublicationFor, Holds, At,
         Ended, Retryable, Final, Errors, Quiet, NoCloud, Fails, Write, Refused,
         cloud, counts, RowTypes, Rows
<1>33. ASSUME FinishJob PROVE Knows'
  BY <1>33, FinishEffect
<1>34. ASSUME NEW i \in Ids, Receive(i) PROVE Knows'
  BY <1>34 DEF Receive, CloudOnly, counts
<1>35. ASSUME NEW i \in Ids, Process(i) PROVE Knows'
  BY <1>35 DEF Process, CloudOnly, counts
<1>36. ASSUME NEW i \in Ids, Expire(i) PROVE Knows'
  BY <1>36 DEF Expire, CloudOnly, counts
<1>37. ASSUME Crash PROVE Knows'
  BY <1>37 DEF Crash, NoWork, NoReq, counts
<1>38. CASE UNCHANGED vars
  BY <1>38 DEF vars, cloud, counts, WorkTypes
<1> HIDE DEF Knows, Working
<1> QED
  BY <1>1, <1>2, <1>3, <1>4, <1>5, <1>6, <1>7, <1>8, <1>9, <1>10, <1>11, <1>12,
     <1>13, <1>14, <1>15, <1>16, <1>17, <1>18, <1>19, <1>20, <1>21, <1>22,
     <1>23, <1>24, <1>25, <1>26, <1>27, <1>28, <1>29, <1>30, <1>31, <1>32,
     <1>33, <1>34, <1>35, <1>36, <1>37, <1>38
     DEF Next, Api, Work

LEMMA UploadingNext ==
  ASSUME CountTypes, RowTypes, JobTypes, ReqTypes, WorkTypes, CloudTypes,
         Knows, Uploading, [Next]_vars
  PROVE  Uploading'
<1>a. /\ row.sess \in 0 .. MaxIds /\ row.remote \in 0 .. MaxIds
      /\ w.u \in 0 .. MaxIds /\ w.remote \in 0 .. MaxIds
  BY RowFields, WorkFields
<1> USE PlatformsAssumption, BoundsAssumption DEF Clicks, Ids
<1> USE DEF Uploading, CountTypes
<1>1. ASSUME NEW r \in Requests, Look(r) PROVE Uploading'
  BY <1>1 DEF Look, ApiOnly, cloud, counts, NoReq
<1>2. ASSUME NEW r \in Requests, Claim(r) PROVE Uploading'
  BY <1>2 DEF Claim, ApiOnly, MayClaim, Rearm, NewWords, cloud, counts, NoReq,
       RowTypes, Rows
<1>3. ASSUME NEW r \in Requests, CancelJob(r) PROVE Uploading'
  BY <1>3 DEF CancelJob, ApiOnly, Cancel, ActiveJobs, Active, cloud, counts,
       NoReq
<1>4. ASSUME NEW r \in Requests, ReadJob(r) PROVE Uploading'
  BY <1>4 DEF ReadJob, Go, Leave, ApiOnly, StillGoing, Link, ActiveJobs,
       Active, Unqueued, cloud, counts, NoReq, RowTypes, Rows
<1>5. ASSUME NEW r \in Requests, Judge(r) PROVE Uploading'
  BY <1>5 DEF Judge, Leave, ApiOnly, FailPublicationFor, Holds, cloud, counts,
       NoReq, RowTypes, Rows
<1>6. ASSUME NEW r \in Requests, Submit(r) PROVE Uploading'
  BY <1>6 DEF Submit, Go, ApiOnly, Queued, ActiveJobs, Active, cloud, counts,
       NoReq
<1>7. ASSUME NEW r \in Requests, Retire(r) PROVE Uploading'
  BY <1>7 DEF Retire, Go, ApiOnly, Cancel, cloud, counts, NoReq
<1>8. ASSUME NEW r \in Requests, GiveBack(r) PROVE Uploading'
  BY <1>8 DEF GiveBack, Leave, ApiOnly, FailPublication, cloud, counts, NoReq,
       RowTypes, Rows
<1>9. ASSUME NEW r \in Requests, LinkJob(r) PROVE Uploading'
  BY <1>9 DEF LinkJob, Leave, ApiOnly, Link, cloud, counts, NoReq, RowTypes,
       Rows
<1>10. ASSUME NEW r \in Requests, Revoke(r) PROVE Uploading'
  BY <1>10 DEF Revoke, Leave, ApiOnly, FailPublicationFor, Holds, cloud,
       counts, NoReq, RowTypes, Rows
<1>11. ASSUME NEW n \in Clicks, ClaimJob(n) PROVE Uploading'
  <2>1. w'.pc = "begin" /\ w'.u = 0 /\ w'.remote = 0 /\ UNCHANGED <<plat, row, ids>>
    BY <1>11, ClaimJobEffect DEF ClaimJob, NoWork
  <2> QED
    BY <2>1, <1>a
<1>12. ASSUME Begin PROVE Uploading'
  BY <1>12, ToFields, StopFields, BeganFields, <1>a DEF Begin, At, Ended, Retryable,
         Final, Errors, Quiet, NoCloud, Fails, Write, Refused, cloud, counts,
         Holds, RowTypes, Rows
<1>13. ASSUME Prepare PROVE Uploading'
  BY <1>13, ToFields, StopFields, PreparedFields, <1>a DEF Prepare, Entry, At, Ended,
         Retryable, Final, Errors, Quiet, NoCloud, Fails, Write, Refused, cloud,
         counts, Holds
<1>14. ASSUME GetSession PROVE Uploading'
  BY <1>14, ToFields, StopFields, GotFields, <1>a DEF GetSession, At, Ended,
         Retryable, Final, Errors, Quiet, NoCloud, Fails, Write, Refused, cloud,
         counts, Holds
<1>15. ASSUME ProbeSession PROVE Uploading'
  BY <1>15, ToFields, StopFields, ProbedFields, <1>a DEF ProbeSession, Finished,
         StartOver, At, Ended, Retryable, Final, Errors, Quiet, NoCloud, Fails,
         Write, Refused, cloud, counts, Holds
<1>16. ASSUME ProbePublishId PROVE Uploading'
  BY <1>16, ToFields, StopFields, PolledFields, <1>a DEF ProbePublishId, Finished,
         At, Ended, Retryable, Final, Errors, Quiet, NoCloud, Fails, Write,
         Refused, cloud, counts, Holds
<1>17. ASSUME DropRemote PROVE Uploading'
  <2>1. row'.sess \in {row.sess, 0} /\ row'.remote \in {row.remote, 0}
    <3>1. row' = row \/ row' = [row EXCEPT !.remote = 0, !.final = FALSE]
      BY <1>17 DEF DropRemote, Write, Refused
    <3> QED
      BY <3>1, RemoteFields
  <2>2. plat' = plat /\ ids' = ids
    BY <1>17 DEF DropRemote, Quiet, NoCloud, cloud
  <2>3. /\ w'.u \in {w.u, 0} /\ w'.remote \in {w.remote, 0}
        /\ w'.pc \in {"clear", "open", "ended", "dead", "settle"}
    BY <1>17, ToFields, StopFields DEF DropRemote, Dead, At, Ended, Retryable, Final,
         Errors, Quiet, NoCloud, Fails, Write, Refused, cloud, counts, Holds
  <2> QED
    BY <2>1, <2>2, <2>3
<1>18. ASSUME ClearSession PROVE Uploading'
  <2>1. row'.sess \in {row.sess, 0} /\ row'.remote \in {row.remote, 0}
    BY <1>18, RemoteFields, SessionFields DEF ClearSession, Write, Refused, Fails
  <2>2. plat' = plat /\ ids' = ids
    BY <1>18 DEF ClearSession, Quiet, NoCloud, cloud
  <2>3. /\ w'.u \in {w.u, 0} /\ w'.remote \in {w.remote, 0}
        /\ w'.pc \in {"open", "giveup", "ended", "dead", "settle"}
    BY <1>18, ToFields, StopFields DEF ClearSession, Dead, At, Ended, Retryable,
         Final, Errors, Quiet, NoCloud, Fails, Write, Refused, cloud, counts,
         Holds
  <2> QED
    BY <2>1, <2>2, <2>3
<1>19. ASSUME Open PROVE Uploading'
  BY <1>19, ToFields, StopFields, MediumFields, OpenedFields, <1>a DEF Open, At,
         Ended, Retryable, Final, Errors, Quiet, NoCloud, Fails, Write, Refused,
         cloud, counts, Holds
<1>20. ASSUME Save PROVE Uploading'
  <2>1. /\ w'.u \in {w.u, 0} /\ w'.remote \in {w.remote, 0} /\ ids' = ids
        /\ w'.pc \in {"address", "stamp"} => w'.u = w.u /\ w'.remote = w.remote
    BY <1>20, ToFields, StopFields DEF Save, Retryable, Ended, NoCloud, cloud
  <2>2. plat' = plat /\ posts' = posts
    BY <1>20 DEF Save, Quiet, NoCloud, cloud
  <2>3. \/ w.pc \in {"save", "address"} /\ w'.pc \in {"stamp", "settle", "ended"}
        \/ w.pc = "save" /\ plat = "x" /\ w'.pc = "upload"
        \/ w.pc = "save" /\ plat = "tiktok" /\ w'.pc = "address"
    <3>1. plat \in {"youtube", "tiktok", "x"}
      BY PlatformsAssumption DEF RowTypes
    <3>2. ASSUME To(IF plat = "x" THEN "upload" ELSE "address")
          PROVE  w'.pc = IF plat = "x" THEN "upload" ELSE "address"
      BY <3>2, ToFields
    <3>3. CASE Retryable
      BY <1>20, <3>3, StopFields DEF Save, At, Retryable, Ended
    <3>4. CASE To("stamp")
      BY <1>20, <3>4, ToFields DEF Save, At
    <3> QED
      BY <1>20, <3>1, <3>2, <3>3, <3>4 DEF Save, At
  <2>4. \/ row'.sess = row.sess /\ row'.remote = row.remote /\ w'.pc \in {"settle", "ended"}
        \/ /\ row'.sess = w.u /\ row'.remote = row.remote
           /\ plat = "youtube" \/ w.pc = "address"
        \/ /\ row'.sess = row.sess /\ row'.remote = w.u
           /\ plat # "youtube" /\ w.pc = "save" /\ w'.pc \in {"upload", "address"}
    <3>1. CASE row' = row /\ Retryable
      BY <3>1, StopFields DEF Retryable, Ended
    <3>2. CASE /\ row' = [row EXCEPT !.sess = w.u, !.have = w.words]
               /\ plat = "youtube" \/ w.pc = "address"
      BY <3>2, SessionFields
    <3>3. CASE /\ row' = [row EXCEPT !.remote = w.u, !.final = FALSE] /\ w.pc = "save"
               /\ plat # "youtube" /\ To(IF plat = "x" THEN "upload" ELSE "address")
      BY <3>3, RemoteFields, ToFields
    <3> QED
      BY <1>20, <3>1, <3>2, <3>3 DEF Save, At, Write, Refused
  <2> QED
    BY <2>1, <2>2, <2>3, <2>4, <1>a DEF Knows
<1>21. ASSUME Upload PROVE Uploading'
  <2>1. plat = "x" /\ plat' = plat
    BY <1>21 DEF Upload, At, Quiet, Knows
  <2> QED
    BY <2>1
<1>22. ASSUME SaveFinalized PROVE Uploading'
  <2>1. plat = "x" /\ plat' = plat
    BY <1>22 DEF SaveFinalized, At, Quiet, Knows
  <2> QED
    BY <2>1
<1>23. ASSUME AwaitProcessing PROVE Uploading'
  <2>1. plat = "x" /\ plat' = plat
    BY <1>23 DEF AwaitProcessing, At, Quiet, Knows
  <2> QED
    BY <2>1
<1>24. ASSUME Forget PROVE Uploading'
  <2>1. plat = "x" /\ plat' = plat
    BY <1>24 DEF Forget, At, Quiet, Knows
  <2> QED
    BY <2>1
<1>25. ASSUME StampFinalizing PROVE Uploading'
  BY <1>25, ToFields, StopFields, <1>a DEF StampFinalizing, Stamped, At, Ended,
         Retryable, Final, Errors, Quiet, NoCloud, Fails, Write, Refused, cloud,
         counts, Holds, RowTypes, Rows
<1>26. ASSUME Send PROVE Uploading'
  BY <1>26, ToFields, StopFields, TweetedFields, SentFields, <1>a DEF Send, At,
         Ended, Retryable, Final, Errors, Quiet, NoCloud, Fails, Write, Refused,
         cloud, counts, Holds
<1>27. ASSUME Wait PROVE Uploading'
  BY <1>27, SMTT(30), ToFields, StopFields, <1>a DEF Wait, Abandon, Lost, At, Ended, Retryable,
         Final, Errors, Quiet, NoCloud, Fails, Write, Refused, cloud, counts,
         Holds
<1>28. ASSUME ForgetAddress PROVE Uploading'
  <2>1. row'.sess \in {row.sess, 0} /\ row'.remote \in {row.remote, 0}
    BY <1>28, RemoteFields, SessionFields DEF ForgetAddress, Write, Refused, Fails
  <2>2. plat' = plat /\ ids' = ids
    BY <1>28 DEF ForgetAddress, Quiet, NoCloud, cloud
  <2>3. /\ w'.u \in {w.u, 0} /\ w'.remote \in {w.remote, 0}
        /\ w'.pc \in {"giveup", "ended", "dead", "settle"}
    BY <1>28, ToFields, StopFields DEF ForgetAddress, Dead, At, Ended, Retryable,
         Final, Errors, Quiet, NoCloud, Fails, Write, Refused, cloud, counts,
         Holds
  <2> QED
    BY <2>1, <2>2, <2>3
<1>29. ASSUME Poll PROVE Uploading'
  BY <1>29, ToFields, StopFields, PolledFields, <1>a DEF Poll, Finished, At, Ended,
         Retryable, Final, Errors, Quiet, NoCloud, Fails, Write, Refused, cloud,
         counts, Holds
<1>30. ASSUME Record PROVE Uploading'
  <2>1. w'.u = 0 /\ w'.remote = 0 /\ w'.pc \in {"done", "ended"} /\ UNCHANGED <<plat, ids>>
    BY <1>30, StopFields DEF Record, Ended, Quiet, cloud
  <2>2. row'.sess \in {row.sess, 0} /\ row'.remote \in {row.remote, w.id}
    BY <1>30 DEF Record, RecordPost, RowTypes, Rows
  <2>3. w.id \in posts
    BY <1>30 DEF Record, At, Knows
  <2>4. w.id \in 1 .. ids
    BY <2>3 DEF CloudTypes
  <2> QED
    BY <2>1, <2>2, <2>4, <1>a
<1>31. ASSUME GiveUp PROVE Uploading'
  <2>1. row'.sess = row.sess /\ row'.remote = row.remote
    BY <1>31 DEF GiveUp, FailPublicationFor, RowTypes, Rows
  <2>2. w'.u = 0 /\ w'.remote = 0 /\ w'.pc \in {"dead", "ended"} /\ UNCHANGED <<plat, ids>>
    BY <1>31, StopFields DEF GiveUp, Ended, Quiet, NoCloud, cloud
  <2> QED
    BY <2>1, <2>2, <1>a
<1>32. ASSUME Settle PROVE Uploading'
  <2>1. row'.sess = row.sess /\ row'.remote = row.remote
    BY <1>32 DEF Settle, FailPublicationFor, RowTypes, Rows
  <2>2. w'.u = 0 /\ w'.remote = 0 /\ w'.pc \in {"dead", "ended"} /\ UNCHANGED <<plat, ids>>
    BY <1>32, StopFields DEF Settle, Ended, Quiet, NoCloud, cloud
  <2> QED
    BY <2>1, <2>2, <1>a
<1>33. ASSUME FinishJob PROVE Uploading'
  <2>1. w'.u = 0 /\ w'.remote = 0 /\ w'.pc = "idle" /\ UNCHANGED <<plat, row, ids>>
    BY <1>33, FinishEffect DEF FinishJob, NoWork
  <2> QED
    BY <2>1, <1>a
<1>34. ASSUME NEW i \in Ids, Receive(i) PROVE Uploading'
  BY <1>34 DEF Receive, CloudOnly, counts
<1>35. ASSUME NEW i \in Ids, Process(i) PROVE Uploading'
  BY <1>35 DEF Process, CloudOnly, counts
<1>36. ASSUME NEW i \in Ids, Expire(i) PROVE Uploading'
  BY <1>36 DEF Expire, CloudOnly, counts
<1>37. ASSUME Crash PROVE Uploading'
  <2>1. w'.u = 0 /\ w'.remote = 0 /\ w'.pc = "idle" /\ UNCHANGED <<plat, row, ids>>
    BY <1>37, CrashEffect DEF Crash, NoWork
  <2> QED
    BY <2>1, <1>a
<1>38. CASE UNCHANGED vars
  BY <1>38 DEF vars, cloud, counts, WorkTypes
<1> HIDE DEF Uploading, CountTypes
<1> QED
  BY <1>1, <1>2, <1>3, <1>4, <1>5, <1>6, <1>7, <1>8, <1>9, <1>10, <1>11, <1>12,
     <1>13, <1>14, <1>15, <1>16, <1>17, <1>18, <1>19, <1>20, <1>21, <1>22,
     <1>23, <1>24, <1>25, <1>26, <1>27, <1>28, <1>29, <1>30, <1>31, <1>32,
     <1>33, <1>34, <1>35, <1>36, <1>37, <1>38
     DEF Next, Api, Work

(* All of this holds at the start, and every step keeps it.                *)
LEMMA InitBase == Init => Base
<1> SUFFICES ASSUME Init PROVE Base
  OBVIOUS
<1> USE PlatformsAssumption, BoundsAssumption DEF Init
<1>1. CountTypes
  BY DEF CountTypes
<1>2. RowTypes
  BY DEF RowTypes, Rows, States, Causes, Words
<1>3. JobTypes /\ Queueing
  BY DEF JobTypes, Entries, Queueing, Clicks
<1>4. ReqTypes
  BY DEF ReqTypes, Handlers, Steps, NoReq
<1>5. WorkTypes
  <2>1. w \in Attempts
    BY DEF Attempts, Stages, Causes, Words, NoWork
  <2>2. w.k = 0 /\ w.pc = "idle" /\ clicks = 0 /\ cxl = FALSE
    BY DEF NoWork
  <2>3. w.k <= clicks
    BY <2>2
  <2> HIDE DEF Init
  <2>4. cxl \in BOOLEAN /\ ~cxl
    BY <2>2, Zenon
  <2> QED
    BY <2>1, <2>2, <2>3, <2>4, Zenon DEF WorkTypes
<1>6. CloudTypes
  BY DEF CloudTypes, Uploads, Ids
<1>7. Ledger
  BY DEF Ledger, InFlight, Clicks
<1>8. Submitting /\ Reading
  BY DEF Submitting, Reading, NoReq
<1>9. Books
  BY DEF Books, Ids
<1>10. Knows /\ Uploading
  BY DEF Knows, Uploading, Working, NoWork
<1> QED
  BY <1>1, <1>2, <1>3, <1>4, <1>5, <1>6, <1>7, <1>8, <1>9, <1>10 DEF Base, TypeOK

LEMMA BaseInductive == Base /\ [Next]_vars => Base'
<1> SUFFICES ASSUME Base, [Next]_vars PROVE Base'
  OBVIOUS
<1> USE DEF Base, TypeOK
<1>1. TypeOK'
  BY CountsNext, RowTypesNext, JobTypesNext, ReqTypesNext, WorkTypesNext, CloudTypesNext
<1>2. Ledger' /\ Queueing' /\ Submitting' /\ Reading'
  BY LedgerNext, QueueingNext, SubmittingNext, ReadingNext
<1>3. Books' /\ Knows' /\ Uploading'
  BY BooksNext, KnowsNext, UploadingNext
<1> QED
  BY <1>1, <1>2, <1>3

(* The ledger, the queue, the requests, the worker and the platform stay   *)
(* in step, for any number of clicks, requests and uploads.                *)
THEOREM BaseInvariance == Spec => []Base
<1>1. Init => Base
  BY InitBase
<1>2. Base /\ [Next]_vars => Base'
  BY BaseInductive
<1> QED
  BY <1>1, <1>2, PTL DEF Spec

(* A row that says posted names a post that exists, and its job is that of *)
(* its own click: RecordPublicationPosted and SetPublicationJob.           *)
THEOREM RowIsTrueAlways == Spec => []RowIsTrue
<1>1. Base => RowIsTrue
  BY DEF Base, RowIsTrue, Ledger, PostedIsThere, LinkIsOwn
<1> QED
  BY <1>1, BaseInvariance, PTL

(* What a step may not do to a post, and to a publication under way.       *)
StaysPosted == row.state = "posted" => row'.state = "posted" /\ row'.remote = row.remote
Spares ==
  \A s \in Requests :
    req[s].pc = "judge" /\ req'[s].pc # "judge" /\ row.state \in InFlight
      /\ row'.state = "failed" => job[row.nonce].st \notin Active

LEMMA PostedNext ==
  ASSUME RowTypes, [Next]_vars
  PROVE  StaysPosted
<1> USE DEF StaysPosted, RowTypes, Rows, InFlight
<1>1. ASSUME NEW r \in Requests, Look(r) PROVE StaysPosted
  BY <1>1 DEF Look, ApiOnly, cloud, counts, NoReq
<1>2. ASSUME NEW r \in Requests, Claim(r) PROVE StaysPosted
  BY <1>2 DEF Claim, ApiOnly, MayClaim, Rearm, NewWords, cloud, counts, NoReq
<1>3. ASSUME NEW r \in Requests, CancelJob(r) PROVE StaysPosted
  BY <1>3 DEF CancelJob, ApiOnly, Cancel, ActiveJobs, Active, cloud, counts,
       NoReq
<1>4. ASSUME NEW r \in Requests, ReadJob(r) PROVE StaysPosted
  BY <1>4 DEF ReadJob, Go, Leave, ApiOnly, StillGoing, Link, ActiveJobs,
       Active, Unqueued, cloud, counts, NoReq
<1>5. ASSUME NEW r \in Requests, Judge(r) PROVE StaysPosted
  BY <1>5 DEF Judge, Leave, ApiOnly, FailPublicationFor, Holds, cloud, counts,
       NoReq
<1>6. ASSUME NEW r \in Requests, Submit(r) PROVE StaysPosted
  BY <1>6 DEF Submit, Go, ApiOnly, Queued, ActiveJobs, Active, cloud, counts,
       NoReq
<1>7. ASSUME NEW r \in Requests, Retire(r) PROVE StaysPosted
  BY <1>7 DEF Retire, Go, ApiOnly, Cancel, cloud, counts, NoReq
<1>8. ASSUME NEW r \in Requests, GiveBack(r) PROVE StaysPosted
  BY <1>8 DEF GiveBack, Leave, ApiOnly, FailPublication, cloud, counts, NoReq
<1>9. ASSUME NEW r \in Requests, LinkJob(r) PROVE StaysPosted
  BY <1>9 DEF LinkJob, Leave, ApiOnly, Link, cloud, counts, NoReq
<1>10. ASSUME NEW r \in Requests, Revoke(r) PROVE StaysPosted
  BY <1>10 DEF Revoke, Leave, ApiOnly, FailPublicationFor, Holds, cloud,
       counts, NoReq
<1>11. ASSUME NEW n \in Clicks, ClaimJob(n) PROVE StaysPosted
  BY <1>11 DEF ClaimJob
<1>12. ASSUME Begin PROVE StaysPosted
  BY <1>12 DEF Begin, At, To, Stop, NoWork, Ended, Retryable, Final, Errors,
       Quiet, NoCloud, Fails, Write, Refused, cloud, counts, Holds
<1>13. ASSUME Prepare PROVE StaysPosted
  BY <1>13 DEF Prepare, Entry, At, To, Stop, NoWork, Ended, Retryable, Final,
       Errors, Quiet, NoCloud, Fails, Write, Refused, cloud, counts, Holds
<1>14. ASSUME GetSession PROVE StaysPosted
  BY <1>14 DEF GetSession, At, To, Stop, NoWork, Ended, Retryable, Final,
       Errors, Quiet, NoCloud, Fails, Write, Refused, cloud, counts, Holds
<1>15. ASSUME ProbeSession PROVE StaysPosted
  BY <1>15 DEF ProbeSession, Finished, StartOver, At, To, Stop, NoWork, Ended,
       Retryable, Final, Errors, Quiet, NoCloud, Fails, Write, Refused, cloud,
       counts, Holds
<1>16. ASSUME ProbePublishId PROVE StaysPosted
  BY <1>16 DEF ProbePublishId, Finished, At, To, Stop, NoWork, Ended,
       Retryable, Final, Errors, Quiet, NoCloud, Fails, Write, Refused, cloud,
       counts, Holds
<1>17. ASSUME DropRemote PROVE StaysPosted
  BY <1>17 DEF DropRemote, Dead, At, To, Stop, NoWork, Ended, Retryable, Final,
       Errors, Quiet, NoCloud, Fails, Write, Refused, cloud, counts, Holds
<1>18. ASSUME ClearSession PROVE StaysPosted
  BY <1>18 DEF ClearSession, Dead, At, To, Stop, NoWork, Ended, Retryable,
       Final, Errors, Quiet, NoCloud, Fails, Write, Refused, cloud, counts,
       Holds
<1>19. ASSUME Open PROVE StaysPosted
  BY <1>19 DEF Open, At, To, Stop, NoWork, Ended, Retryable, Final, Errors,
       Quiet, NoCloud, Fails, Write, Refused, cloud, counts, Holds
<1>20. ASSUME Save PROVE StaysPosted
  BY <1>20 DEF Save, At, To, Stop, NoWork, Ended, Retryable, Final, Errors,
       Quiet, NoCloud, Fails, Write, Refused, cloud, counts, Holds
<1>21. ASSUME Upload PROVE StaysPosted
  BY <1>21 DEF Upload, At, To, Stop, NoWork, Ended, Retryable, Final, Errors,
       Quiet, NoCloud, Fails, Write, Refused, cloud, counts, Holds
<1>22. ASSUME SaveFinalized PROVE StaysPosted
  BY <1>22 DEF SaveFinalized, At, To, Stop, NoWork, Ended, Retryable, Final,
       Errors, Quiet, NoCloud, Fails, Write, Refused, cloud, counts, Holds
<1>23. ASSUME AwaitProcessing PROVE StaysPosted
  BY <1>23 DEF AwaitProcessing, At, To, Stop, NoWork, Ended, Retryable, Final,
       Errors, Quiet, NoCloud, Fails, Write, Refused, cloud, counts, Holds
<1>24. ASSUME Forget PROVE StaysPosted
  BY <1>24 DEF Forget, Dead, At, To, Stop, NoWork, Ended, Retryable, Final,
       Errors, Quiet, NoCloud, Fails, Write, Refused, cloud, counts, Holds
<1>25. ASSUME StampFinalizing PROVE StaysPosted
  BY <1>25 DEF StampFinalizing, Stamped, At, To, Stop, NoWork, Ended,
       Retryable, Final, Errors, Quiet, NoCloud, Fails, Write, Refused, cloud,
       counts, Holds
<1>26. ASSUME Send PROVE StaysPosted
  BY <1>26 DEF Send, At, To, Stop, NoWork, Ended, Retryable, Final, Errors,
       Quiet, NoCloud, Fails, Write, Refused, cloud, counts, Holds
<1>27. ASSUME Wait PROVE StaysPosted
  BY <1>27 DEF Wait, Abandon, Lost, At, To, Stop, NoWork, Ended, Retryable,
       Final, Errors, Quiet, NoCloud, Fails, Write, Refused, cloud, counts,
       Holds
<1>28. ASSUME ForgetAddress PROVE StaysPosted
  BY <1>28 DEF ForgetAddress, Dead, At, To, Stop, NoWork, Ended, Retryable,
       Final, Errors, Quiet, NoCloud, Fails, Write, Refused, cloud, counts,
       Holds
<1>29. ASSUME Poll PROVE StaysPosted
  BY <1>29 DEF Poll, Finished, At, To, Stop, NoWork, Ended, Retryable, Final,
       Errors, Quiet, NoCloud, Fails, Write, Refused, cloud, counts, Holds
<1>30. ASSUME Record PROVE StaysPosted
  <2>1. row' = row \/ row' = [row EXCEPT !.state = "posted", !.remote = w.id, !.cause = "none", !.sess = 0]
    BY <1>30 DEF Record, RecordPost
  <2>2. row' # row /\ row.state = "posted" => row.remote = w.id
    BY <1>30 DEF Record, RecordPost, CanRecord, InFlight
  <2>3. CASE row' = row
    BY <2>3
  <2>4. CASE row' = [row EXCEPT !.state = "posted", !.remote = w.id, !.cause = "none", !.sess = 0] /\ row' # row
    BY <2>2, <2>4
  <2> QED
    BY <2>1, <2>3, <2>4
<1>31. ASSUME GiveUp PROVE StaysPosted
  BY <1>31 DEF GiveUp, FailPublicationFor, Holds, At, To, Stop, NoWork, Ended,
       Retryable, Final, Errors, Quiet, NoCloud, Fails, Write, Refused, cloud,
       counts
<1>32. ASSUME Settle PROVE StaysPosted
  BY <1>32 DEF Settle, LastTry, FailPublicationFor, Holds, At, To, Stop,
       NoWork, Ended, Retryable, Final, Errors, Quiet, NoCloud, Fails, Write,
       Refused, cloud, counts
<1>33. ASSUME FinishJob PROVE StaysPosted
  BY <1>33 DEF FinishJob
<1>34. ASSUME NEW i \in Ids, Receive(i) PROVE StaysPosted
  BY <1>34 DEF Receive, CloudOnly, counts
<1>35. ASSUME NEW i \in Ids, Process(i) PROVE StaysPosted
  BY <1>35 DEF Process, CloudOnly, counts
<1>36. ASSUME NEW i \in Ids, Expire(i) PROVE StaysPosted
  BY <1>36 DEF Expire, CloudOnly, counts
<1>37. ASSUME Crash PROVE StaysPosted
  BY <1>37 DEF Crash, NoWork, NoReq, counts
<1>38. CASE UNCHANGED vars
  BY <1>38 DEF vars, cloud, counts, WorkTypes
<1> HIDE DEF StaysPosted, RowTypes, Rows, InFlight
<1> QED
  BY <1>1, <1>2, <1>3, <1>4, <1>5, <1>6, <1>7, <1>8, <1>9, <1>10, <1>11, <1>12,
     <1>13, <1>14, <1>15, <1>16, <1>17, <1>18, <1>19, <1>20, <1>21, <1>22,
     <1>23, <1>24, <1>25, <1>26, <1>27, <1>28, <1>29, <1>30, <1>31, <1>32,
     <1>33, <1>34, <1>35, <1>36, <1>37, <1>38
     DEF Next, Api, Work

LEMMA SparesNext ==
  ASSUME TypeOK, Reading, [Next]_vars
  PROVE  Spares
<1> USE DEF Spares, InFlight
<1>1. ASSUME NEW r \in Requests, Look(r) PROVE Spares
  <2>1. row' = row
    BY <1>1 DEF Look
  <2> QED
    BY <2>1
<1>2. ASSUME NEW r \in Requests, Claim(r) PROVE Spares
  <2>1. \A s \in Requests \ {r} : req'[s] = req[s]
    BY <1>2 DEF Claim, ReqTypes, TypeOK
  <2>2. req[r].pc # "judge"
    BY <1>2 DEF Claim
  <2> QED
    BY <2>1, <2>2
<1>3. ASSUME NEW r \in Requests, CancelJob(r) PROVE Spares
  <2>1. row' = row
    BY <1>3 DEF CancelJob
  <2> QED
    BY <2>1
<1>4. ASSUME NEW r \in Requests, ReadJob(r) PROVE Spares
  <2>1. \A s \in Requests \ {r} : req'[s] = req[s]
    BY <1>4 DEF ReadJob, Go, Leave, ReqTypes, TypeOK
  <2>2. req[r].pc # "judge"
    BY <1>4 DEF ReadJob
  <2> QED
    BY <2>1, <2>2
<1>5. ASSUME NEW r \in Requests, Judge(r) PROVE Spares
  <2>1. \A s \in Requests \ {r} : req'[s] = req[s]
    BY <1>5 DEF Judge, Leave, ReqTypes
  <2>2. row.state \in InFlight /\ row'.state = "failed" => row.nonce = req[r].nonce
    BY <1>5 DEF Judge, FailPublicationFor, Holds, InFlight
  <2>3. job[req[r].nonce].st \notin Active
    BY <1>5 DEF Judge, Reading
  <2> QED
    BY <2>1, <2>2, <2>3
<1>6. ASSUME NEW r \in Requests, Submit(r) PROVE Spares
  <2>1. row' = row
    BY <1>6 DEF Submit
  <2> QED
    BY <2>1
<1>7. ASSUME NEW r \in Requests, Retire(r) PROVE Spares
  <2>1. row' = row
    BY <1>7 DEF Retire
  <2> QED
    BY <2>1
<1>8. ASSUME NEW r \in Requests, GiveBack(r) PROVE Spares
  <2>1. \A s \in Requests \ {r} : req'[s] = req[s]
    BY <1>8 DEF GiveBack, Leave, ReqTypes, TypeOK
  <2>2. req[r].pc # "judge"
    BY <1>8 DEF GiveBack
  <2> QED
    BY <2>1, <2>2
<1>9. ASSUME NEW r \in Requests, LinkJob(r) PROVE Spares
  <2>1. \A s \in Requests \ {r} : req'[s] = req[s]
    BY <1>9 DEF LinkJob, Leave, ReqTypes, TypeOK
  <2>2. req[r].pc # "judge"
    BY <1>9 DEF LinkJob
  <2> QED
    BY <2>1, <2>2
<1>10. ASSUME NEW r \in Requests, Revoke(r) PROVE Spares
  <2>1. \A s \in Requests \ {r} : req'[s] = req[s]
    BY <1>10 DEF Revoke, Leave, ReqTypes, TypeOK
  <2>2. req[r].pc # "judge"
    BY <1>10 DEF Revoke
  <2> QED
    BY <2>1, <2>2
<1>11. ASSUME NEW n \in Clicks, ClaimJob(n) PROVE Spares
  <2>1. row' = row
    BY <1>11 DEF ClaimJob
  <2> QED
    BY <2>1
<1>12. ASSUME Begin PROVE Spares
  <2>1. req' = req
    BY <1>12, WorkGoesOn DEF Toil, TypeOK
  <2> QED
    BY <2>1
<1>13. ASSUME Prepare PROVE Spares
  <2>1. req' = req
    BY <1>13, WorkGoesOn DEF Toil, TypeOK
  <2> QED
    BY <2>1
<1>14. ASSUME GetSession PROVE Spares
  <2>1. req' = req
    BY <1>14, WorkGoesOn DEF Toil, TypeOK
  <2> QED
    BY <2>1
<1>15. ASSUME ProbeSession PROVE Spares
  <2>1. req' = req
    BY <1>15, WorkGoesOn DEF Toil, TypeOK
  <2> QED
    BY <2>1
<1>16. ASSUME ProbePublishId PROVE Spares
  <2>1. req' = req
    BY <1>16, WorkGoesOn DEF Toil, TypeOK
  <2> QED
    BY <2>1
<1>17. ASSUME DropRemote PROVE Spares
  <2>1. req' = req
    BY <1>17, WorkGoesOn DEF Toil, TypeOK
  <2> QED
    BY <2>1
<1>18. ASSUME ClearSession PROVE Spares
  <2>1. req' = req
    BY <1>18, WorkGoesOn DEF Toil, TypeOK
  <2> QED
    BY <2>1
<1>19. ASSUME Open PROVE Spares
  <2>1. req' = req
    BY <1>19, WorkGoesOn DEF Toil, TypeOK
  <2> QED
    BY <2>1
<1>20. ASSUME Save PROVE Spares
  <2>1. req' = req
    BY <1>20, WorkGoesOn DEF Toil, TypeOK
  <2> QED
    BY <2>1
<1>21. ASSUME Upload PROVE Spares
  <2>1. req' = req
    BY <1>21, WorkGoesOn DEF Toil, TypeOK
  <2> QED
    BY <2>1
<1>22. ASSUME SaveFinalized PROVE Spares
  <2>1. req' = req
    BY <1>22, WorkGoesOn DEF Toil, TypeOK
  <2> QED
    BY <2>1
<1>23. ASSUME AwaitProcessing PROVE Spares
  <2>1. req' = req
    BY <1>23, WorkGoesOn DEF Toil, TypeOK
  <2> QED
    BY <2>1
<1>24. ASSUME Forget PROVE Spares
  <2>1. req' = req
    BY <1>24, WorkGoesOn DEF Toil, TypeOK
  <2> QED
    BY <2>1
<1>25. ASSUME StampFinalizing PROVE Spares
  <2>1. req' = req
    BY <1>25, WorkGoesOn DEF Toil, TypeOK
  <2> QED
    BY <2>1
<1>26. ASSUME Send PROVE Spares
  <2>1. req' = req
    BY <1>26, WorkGoesOn DEF Toil, TypeOK
  <2> QED
    BY <2>1
<1>27. ASSUME Wait PROVE Spares
  <2>1. req' = req
    BY <1>27, WorkGoesOn DEF Toil, TypeOK
  <2> QED
    BY <2>1
<1>28. ASSUME ForgetAddress PROVE Spares
  <2>1. req' = req
    BY <1>28, WorkGoesOn DEF Toil, TypeOK
  <2> QED
    BY <2>1
<1>29. ASSUME Poll PROVE Spares
  <2>1. req' = req
    BY <1>29, WorkGoesOn DEF Toil, TypeOK
  <2> QED
    BY <2>1
<1>30. ASSUME Record PROVE Spares
  <2>1. req' = req
    BY <1>30, WorkGoesOn DEF Toil, TypeOK
  <2> QED
    BY <2>1
<1>31. ASSUME GiveUp PROVE Spares
  <2>1. req' = req
    BY <1>31, WorkGoesOn DEF Toil, TypeOK
  <2> QED
    BY <2>1
<1>32. ASSUME Settle PROVE Spares
  <2>1. req' = req
    BY <1>32, WorkGoesOn DEF Toil, TypeOK
  <2> QED
    BY <2>1
<1>33. ASSUME FinishJob PROVE Spares
  <2>1. row' = row
    BY <1>33 DEF FinishJob
  <2> QED
    BY <2>1
<1>34. ASSUME NEW i \in Ids, Receive(i) PROVE Spares
  <2>1. row' = row
    BY <1>34 DEF Receive, CloudOnly
  <2> QED
    BY <2>1
<1>35. ASSUME NEW i \in Ids, Process(i) PROVE Spares
  <2>1. row' = row
    BY <1>35 DEF Process, CloudOnly
  <2> QED
    BY <2>1
<1>36. ASSUME NEW i \in Ids, Expire(i) PROVE Spares
  <2>1. row' = row
    BY <1>36 DEF Expire, CloudOnly
  <2> QED
    BY <2>1
<1>37. ASSUME Crash PROVE Spares
  <2>1. row' = row
    BY <1>37 DEF Crash
  <2> QED
    BY <2>1
<1>38. CASE UNCHANGED vars
  BY <1>38 DEF vars, cloud, counts, WorkTypes
<1> HIDE DEF Spares, InFlight
<1> QED
  BY <1>1, <1>2, <1>3, <1>4, <1>5, <1>6, <1>7, <1>8, <1>9, <1>10, <1>11, <1>12,
     <1>13, <1>14, <1>15, <1>16, <1>17, <1>18, <1>19, <1>20, <1>21, <1>22,
     <1>23, <1>24, <1>25, <1>26, <1>27, <1>28, <1>29, <1>30, <1>31, <1>32,
     <1>33, <1>34, <1>35, <1>36, <1>37, <1>38
     DEF Next, Api, Work

(* Once the ledger says posted it says so for good, and of the same post:  *)
(* every statement of the ledger is fenced by the row's state.             *)
THEOREM PostedIsFinalAlways == Spec => PostedIsFinal
<1>1. Base /\ [Next]_vars =>
        [row.state = "posted" => row'.state = "posted" /\ row'.remote = row.remote]_vars
  BY PostedNext DEF Base, TypeOK, StaysPosted
<1> QED
  BY <1>1, BaseInvariance, PTL DEF Spec, PostedIsFinal

(* A status read never fails a publication whose own job is still going,   *)
(* however long it took between reading the row, the job, and writing.     *)
THEOREM ReconcileSparesTheLivingAlways == Spec => ReconcileSparesTheLiving
<1>1. Base /\ [Next]_vars =>
        [\A r \in Requests :
           req[r].pc = "judge" /\ req'[r].pc # "judge" /\ row.state \in InFlight
             /\ row'.state = "failed" => job[row.nonce].st \notin Active]_vars
  BY SparesNext DEF Base, Spares
<1> QED
  BY <1>1, BaseInvariance, PTL DEF Spec, ReconcileSparesTheLiving

-----------------------------------------------------------------------------
(* What the platform holds or may still act on is finite, and one more     *)
(* adds at most one.                                                       *)
LEMMA Few ==
  ASSUME NEW T, T \subseteq Ids, NEW S, S \subseteq T
  PROVE  /\ IsFiniteSet(S) /\ Cardinality(S) \in Nat /\ Cardinality(T) \in Nat
         /\ Cardinality(S) <= Cardinality(T)
<1>1. IsFiniteSet(Ids)
  BY BoundsAssumption, FS_Interval DEF Ids
<1>2. IsFiniteSet(T)
  BY <1>1, FS_Subset
<1>3. IsFiniteSet(S) /\ Cardinality(S) <= Cardinality(T)
  BY <1>2, FS_Subset
<1> QED
  BY <1>2, <1>3, FS_CardinalityType

LEMMA ButOne ==
  ASSUME NEW S, S \subseteq Ids, NEW x
  PROVE  /\ Cardinality(S) <= 1 + Cardinality(S \ {x})
         /\ x \notin S => Cardinality(S) = Cardinality(S \ {x})
<1>1. IsFiniteSet(S) /\ Cardinality(S) \in Nat
  BY Few
<1> QED
  BY SMTT(30), <1>1, FS_RemoveElement

LEMMA OutIds ==
  ASSUME CountTypes, CloudTypes
  PROVE  Out \subseteq Ids /\ wire \subseteq Ids
<1>1. 1 .. ids \subseteq Ids
  BY BoundsAssumption DEF CountTypes, Ids
<1>2. posts \subseteq Ids /\ wire \subseteq Ids
  BY <1>1 DEF CloudTypes
<1> QED
  BY <1>2 DEF Out

(* Only sending the last request adds to it.                               *)
LEMMA OutShrinks ==
  ASSUME CountTypes, CloudTypes, [Next]_vars
  PROVE  (Send \/ Out' \subseteq Out)
<1>1. ASSUME NEW r \in Requests, Look(r) PROVE (Send \/ Out' \subseteq Out)
  <2>1. UNCHANGED <<plat, up, wire, posts>>
    BY <1>1 DEF Look, ApiOnly, cloud
  <2> QED
    BY <2>1 DEF Out
<1>2. ASSUME NEW r \in Requests, Claim(r) PROVE (Send \/ Out' \subseteq Out)
  <2>1. UNCHANGED <<plat, up, wire, posts>>
    BY <1>2 DEF Claim, ApiOnly, cloud
  <2> QED
    BY <2>1 DEF Out
<1>3. ASSUME NEW r \in Requests, CancelJob(r)
      PROVE  (Send \/ Out' \subseteq Out)
  <2>1. UNCHANGED <<plat, up, wire, posts>>
    BY <1>3 DEF CancelJob, ApiOnly, cloud
  <2> QED
    BY <2>1 DEF Out
<1>4. ASSUME NEW r \in Requests, ReadJob(r) PROVE (Send \/ Out' \subseteq Out)
  <2>1. UNCHANGED <<plat, up, wire, posts>>
    BY <1>4 DEF ReadJob, ApiOnly, cloud
  <2> QED
    BY <2>1 DEF Out
<1>5. ASSUME NEW r \in Requests, Judge(r) PROVE (Send \/ Out' \subseteq Out)
  <2>1. UNCHANGED <<plat, up, wire, posts>>
    BY <1>5 DEF Judge, ApiOnly, cloud
  <2> QED
    BY <2>1 DEF Out
<1>6. ASSUME NEW r \in Requests, Submit(r) PROVE (Send \/ Out' \subseteq Out)
  <2>1. UNCHANGED <<plat, up, wire, posts>>
    BY <1>6 DEF Submit, ApiOnly, cloud
  <2> QED
    BY <2>1 DEF Out
<1>7. ASSUME NEW r \in Requests, Retire(r) PROVE (Send \/ Out' \subseteq Out)
  <2>1. UNCHANGED <<plat, up, wire, posts>>
    BY <1>7 DEF Retire, ApiOnly, cloud
  <2> QED
    BY <2>1 DEF Out
<1>8. ASSUME NEW r \in Requests, GiveBack(r) PROVE (Send \/ Out' \subseteq Out)
  <2>1. UNCHANGED <<plat, up, wire, posts>>
    BY <1>8 DEF GiveBack, ApiOnly, cloud
  <2> QED
    BY <2>1 DEF Out
<1>9. ASSUME NEW r \in Requests, LinkJob(r) PROVE (Send \/ Out' \subseteq Out)
  <2>1. UNCHANGED <<plat, up, wire, posts>>
    BY <1>9 DEF LinkJob, ApiOnly, cloud
  <2> QED
    BY <2>1 DEF Out
<1>10. ASSUME NEW r \in Requests, Revoke(r) PROVE (Send \/ Out' \subseteq Out)
  <2>1. UNCHANGED <<plat, up, wire, posts>>
    BY <1>10 DEF Revoke, ApiOnly, cloud
  <2> QED
    BY <2>1 DEF Out
<1>11. ASSUME NEW n \in Clicks, ClaimJob(n) PROVE (Send \/ Out' \subseteq Out)
  <2>1. UNCHANGED <<plat, up, wire, posts>>
    BY <1>11 DEF ClaimJob, NoCloud, Quiet, cloud
  <2> QED
    BY <2>1 DEF Out
<1>12. ASSUME Begin PROVE (Send \/ Out' \subseteq Out)
  <2>1. UNCHANGED <<plat, up, wire, posts>>
    BY <1>12 DEF Begin, NoCloud, Quiet, cloud
  <2> QED
    BY <2>1 DEF Out
<1>13. ASSUME Prepare PROVE (Send \/ Out' \subseteq Out)
  <2>1. UNCHANGED <<plat, up, wire, posts>>
    BY <1>13 DEF Prepare, NoCloud, Quiet, cloud
  <2> QED
    BY <2>1 DEF Out
<1>14. ASSUME GetSession PROVE (Send \/ Out' \subseteq Out)
  <2>1. UNCHANGED <<plat, up, wire, posts>>
    BY <1>14 DEF GetSession, NoCloud, Quiet, cloud
  <2> QED
    BY <2>1 DEF Out
<1>15. ASSUME ProbeSession PROVE (Send \/ Out' \subseteq Out)
  <2>1. UNCHANGED <<plat, up, wire, posts>>
    BY <1>15 DEF ProbeSession, NoCloud, Quiet, cloud
  <2> QED
    BY <2>1 DEF Out
<1>16. ASSUME ProbePublishId PROVE (Send \/ Out' \subseteq Out)
  <2>1. UNCHANGED <<plat, up, wire, posts>>
    BY <1>16 DEF ProbePublishId, NoCloud, Quiet, cloud
  <2> QED
    BY <2>1 DEF Out
<1>17. ASSUME DropRemote PROVE (Send \/ Out' \subseteq Out)
  <2>1. UNCHANGED <<plat, up, wire, posts>>
    BY <1>17 DEF DropRemote, NoCloud, Quiet, cloud
  <2> QED
    BY <2>1 DEF Out
<1>18. ASSUME ClearSession PROVE (Send \/ Out' \subseteq Out)
  <2>1. UNCHANGED <<plat, up, wire, posts>>
    BY <1>18 DEF ClearSession, NoCloud, Quiet, cloud
  <2> QED
    BY <2>1 DEF Out
<1>19. ASSUME Open PROVE (Send \/ Out' \subseteq Out)
  <2>1. UNCHANGED <<plat, wire, posts>>
    BY <1>19 DEF Open, Quiet
  <2>2. CASE up' = up
    BY <2>1, <2>2 DEF Out
  <2>3. CASE ids' = ids + 1 /\ up' = [up EXCEPT ![ids'] = "part"]
    <3>1. ids' \notin wire
      BY <2>3 DEF CountTypes, CloudTypes
    <3>2. \A i \in Ids : up'[i] = "full" => up[i] = "full"
      BY <2>3 DEF CloudTypes
    <3>3. \A i \in wire : up'[i] = up[i]
      BY <2>3, <3>1, BoundsAssumption DEF CloudTypes, CountTypes, Ids
    <3> QED
      BY <2>1, <3>2, <3>3 DEF Out
  <2> QED
    BY <1>19, <2>2, <2>3 DEF Open
<1>20. ASSUME Save PROVE (Send \/ Out' \subseteq Out)
  <2>1. UNCHANGED <<plat, up, wire, posts>>
    BY <1>20 DEF Save, NoCloud, Quiet, cloud
  <2> QED
    BY <2>1 DEF Out
<1>21. ASSUME Upload PROVE (Send \/ Out' \subseteq Out)
  <2>1. UNCHANGED <<plat, up, wire, posts>>
    BY <1>21 DEF Upload, NoCloud, Quiet, cloud
  <2> QED
    BY <2>1 DEF Out
<1>22. ASSUME SaveFinalized PROVE (Send \/ Out' \subseteq Out)
  <2>1. UNCHANGED <<plat, up, wire, posts>>
    BY <1>22 DEF SaveFinalized, NoCloud, Quiet, cloud
  <2> QED
    BY <2>1 DEF Out
<1>23. ASSUME AwaitProcessing PROVE (Send \/ Out' \subseteq Out)
  <2>1. UNCHANGED <<plat, up, wire, posts>>
    BY <1>23 DEF AwaitProcessing, NoCloud, Quiet, cloud
  <2> QED
    BY <2>1 DEF Out
<1>24. ASSUME Forget PROVE (Send \/ Out' \subseteq Out)
  <2>1. UNCHANGED <<plat, up, wire, posts>>
    BY <1>24 DEF Forget, NoCloud, Quiet, cloud
  <2> QED
    BY <2>1 DEF Out
<1>25. ASSUME StampFinalizing PROVE (Send \/ Out' \subseteq Out)
  <2>1. UNCHANGED <<plat, up, wire, posts>>
    BY <1>25 DEF StampFinalizing, NoCloud, Quiet, cloud
  <2> QED
    BY <2>1 DEF Out
<1>26. ASSUME Send PROVE (Send \/ Out' \subseteq Out)
  BY <1>26
<1>27. ASSUME Wait PROVE (Send \/ Out' \subseteq Out)
  <2>1. UNCHANGED <<plat, up, posts>> /\ wire' \subseteq wire
    BY <1>27 DEF Wait, Abandon, Quiet
  <2> QED
    BY <2>1 DEF Out
<1>28. ASSUME ForgetAddress PROVE (Send \/ Out' \subseteq Out)
  <2>1. UNCHANGED <<plat, up, wire, posts>>
    BY <1>28 DEF ForgetAddress, NoCloud, Quiet, cloud
  <2> QED
    BY <2>1 DEF Out
<1>29. ASSUME Poll PROVE (Send \/ Out' \subseteq Out)
  <2>1. UNCHANGED <<plat, up, wire, posts>>
    BY <1>29 DEF Poll, NoCloud, Quiet, cloud
  <2> QED
    BY <2>1 DEF Out
<1>30. ASSUME Record PROVE (Send \/ Out' \subseteq Out)
  <2>1. UNCHANGED <<plat, up, wire, posts>>
    BY <1>30 DEF Record, NoCloud, Quiet, cloud
  <2> QED
    BY <2>1 DEF Out
<1>31. ASSUME GiveUp PROVE (Send \/ Out' \subseteq Out)
  <2>1. UNCHANGED <<plat, up, wire, posts>>
    BY <1>31 DEF GiveUp, NoCloud, Quiet, cloud
  <2> QED
    BY <2>1 DEF Out
<1>32. ASSUME Settle PROVE (Send \/ Out' \subseteq Out)
  <2>1. UNCHANGED <<plat, up, wire, posts>>
    BY <1>32 DEF Settle, NoCloud, Quiet, cloud
  <2> QED
    BY <2>1 DEF Out
<1>33. ASSUME FinishJob PROVE (Send \/ Out' \subseteq Out)
  <2>1. UNCHANGED <<plat, up, wire, posts>>
    BY <1>33 DEF FinishJob, NoCloud, Quiet, cloud
  <2> QED
    BY <2>1 DEF Out
<1>34. ASSUME NEW i \in Ids, Receive(i) PROVE (Send \/ Out' \subseteq Out)
  <2>1. plat' = plat /\ i \in wire /\ wire' = wire \ {i}
    BY <1>34 DEF Receive, CloudOnly
  <2>2. CASE plat = "x"
    BY <1>34, <2>1, <2>2 DEF Receive, Out
  <2>3. CASE plat # "x"
    <3>1. posts' = posts /\ \A j \in Ids : up'[j] = IF j = i /\ up[i] = "part" THEN "full" ELSE up[j]
      BY <1>34, <2>3 DEF Receive, CloudTypes
    <3> QED
      BY <2>1, <2>3, <3>1, OutIds DEF Out
  <2> QED
    BY <2>2, <2>3
<1>35. ASSUME NEW i \in Ids, Process(i) PROVE (Send \/ Out' \subseteq Out)
  <2>1. UNCHANGED <<plat, wire>> /\ posts' \subseteq posts \cup {i} /\ up[i] = "full"
    BY <1>35 DEF Process, CloudOnly
  <2>2. \A j \in Ids \ {i} : up'[j] = up[j]
    BY <1>35 DEF Process, CloudTypes
  <2>3. up'[i] \in {"done", "failed"}
    BY <1>35 DEF Process, CloudTypes
  <2>4. wire \subseteq Ids
    BY OutIds
  <2> QED
    BY <2>1, <2>2, <2>3, <2>4 DEF Out
<1>36. ASSUME NEW i \in Ids, Expire(i) PROVE (Send \/ Out' \subseteq Out)
  <2>1. UNCHANGED <<plat, wire, posts>>
    BY <1>36 DEF Expire, CloudOnly
  <2>2. \A j \in Ids \ {i} : up'[j] = up[j]
    BY <1>36 DEF Expire, CloudTypes
  <2>3. up'[i] \in {"gone", "failed"}
    BY <1>36 DEF Expire, CloudTypes
  <2>4. wire \subseteq Ids
    BY OutIds
  <2> QED
    BY <2>1, <2>2, <2>3, <2>4 DEF Out
<1>37. ASSUME Crash PROVE (Send \/ Out' \subseteq Out)
  <2>1. UNCHANGED <<plat, up, posts>> /\ wire' \subseteq wire
    BY <1>37 DEF Crash
  <2> QED
    BY <2>1 DEF Out
<1>38. CASE UNCHANGED vars
  BY <1>38 DEF vars, cloud, counts, WorkTypes, Out
<1> QED
  BY <1>1, <1>2, <1>3, <1>4, <1>5, <1>6, <1>7, <1>8, <1>9, <1>10, <1>11, <1>12,
     <1>13, <1>14, <1>15, <1>16, <1>17, <1>18, <1>19, <1>20, <1>21, <1>22,
     <1>23, <1>24, <1>25, <1>26, <1>27, <1>28, <1>29, <1>30, <1>31, <1>32,
     <1>33, <1>34, <1>35, <1>36, <1>37, <1>38
     DEF Next, Api, Work

(* What went astray stays so.                                              *)
LEMMA AstrayGrows ==
  ASSUME [Next]_vars
  PROVE  astray \subseteq astray'
<1>1. ASSUME NEW r \in Requests, Look(r) \/ Claim(r) \/ CancelJob(r) \/ Api(r)
      PROVE  astray' = astray
  BY <1>1 DEF Look, Claim, CancelJob, Api, ReadJob, Judge, Submit, Retire, GiveBack, LinkJob,
       Revoke, ApiOnly
<1>2. ASSUME NEW n \in Clicks, ClaimJob(n) PROVE astray' = astray
  BY <1>2 DEF ClaimJob, NoCloud
<1>3. CASE \/ Begin \/ Prepare \/ GetSession \/ ProbePublishId \/ DropRemote \/ ClearSession
           \/ Save \/ Upload \/ SaveFinalized \/ AwaitProcessing \/ Forget \/ StampFinalizing
           \/ ForgetAddress \/ Poll \/ GiveUp \/ Settle \/ FinishJob
  BY <1>3 DEF Begin, Prepare, GetSession, ProbePublishId, DropRemote, ClearSession, Save, Upload,
       SaveFinalized, AwaitProcessing, Forget, StampFinalizing, ForgetAddress, Poll, GiveUp,
       Settle, FinishJob, NoCloud
<1>4. CASE Open \/ Wait \/ Record
  BY <1>4 DEF Open, Wait, Record
<1>5. CASE ProbeSession
  BY <1>5 DEF ProbeSession
<1>6. CASE Send
  BY <1>6 DEF Send
<1>7. ASSUME NEW i \in Ids, Receive(i) \/ Process(i) \/ Expire(i) PROVE astray' = astray
  BY <1>7 DEF Receive, Process, Expire, CloudOnly
<1>8. CASE Crash \/ UNCHANGED vars
  BY <1>8 DEF Crash, vars
<1> QED
  BY <1>1, <1>2, <1>3, <1>4, <1>5, <1>6, <1>7, <1>8 DEF Next, Work

LEMMA OwedIds ==
  ASSUME CountTypes, CloudTypes
  PROVE  Owed \subseteq Ids
BY OutIds DEF Owed

LEMMA OwedShrinks ==
  ASSUME CountTypes, CloudTypes, [Next]_vars, ~Send
  PROVE  Owed' \subseteq Owed
BY OutShrinks, AstrayGrows DEF Owed

(* The stamp is taken off only against an acknowledgement; the name of the *)
(* upload that may be resumed is changed only where nothing is out.        *)
Acknowledged == /\ acks' \in {acks, acks + 1} /\ plat' = plat
                /\ row.stamp /\ ~row'.stamp => acks' = acks + 1
Renamed == plat = "x" \/ Named' = Named \/ row'.state = "posted" \/ Settled

LEMMA AcknowledgedNext ==
  ASSUME CountTypes, RowTypes, [Next]_vars
  PROVE  Acknowledged
<1> USE DEF Acknowledged, RowTypes, Rows, CountTypes
<1>1. ASSUME NEW r \in Requests, Look(r) PROVE Acknowledged
  BY <1>1 DEF Look, ApiOnly, cloud, counts, NoReq
<1>2. ASSUME NEW r \in Requests, Claim(r) PROVE Acknowledged
  <2>1. row'.stamp = (row.stamp /\ row.cause # "outcome_unknown")
      BY <1>2 DEF Claim, Rearm
  <2> QED
    BY <1>2, <2>1 DEF Claim, ApiOnly
<1>3. ASSUME NEW r \in Requests, CancelJob(r) PROVE Acknowledged
  BY <1>3 DEF CancelJob, ApiOnly, Cancel, ActiveJobs, Active, cloud, counts,
       NoReq
<1>4. ASSUME NEW r \in Requests, ReadJob(r) PROVE Acknowledged
  BY <1>4 DEF ReadJob, Go, Leave, ApiOnly, StillGoing, Link, ActiveJobs,
       Active, Unqueued, cloud, counts, NoReq
<1>5. ASSUME NEW r \in Requests, Judge(r) PROVE Acknowledged
  BY <1>5 DEF Judge, Leave, ApiOnly, FailPublicationFor, Holds, cloud, counts,
       NoReq
<1>6. ASSUME NEW r \in Requests, Submit(r) PROVE Acknowledged
  BY <1>6 DEF Submit, Go, ApiOnly, Queued, ActiveJobs, Active, cloud, counts,
       NoReq
<1>7. ASSUME NEW r \in Requests, Retire(r) PROVE Acknowledged
  BY <1>7 DEF Retire, Go, ApiOnly, Cancel, cloud, counts, NoReq
<1>8. ASSUME NEW r \in Requests, GiveBack(r) PROVE Acknowledged
  BY <1>8 DEF GiveBack, Leave, ApiOnly, FailPublication, cloud, counts, NoReq
<1>9. ASSUME NEW r \in Requests, LinkJob(r) PROVE Acknowledged
  BY <1>9 DEF LinkJob, Leave, ApiOnly, Link, cloud, counts, NoReq
<1>10. ASSUME NEW r \in Requests, Revoke(r) PROVE Acknowledged
  BY <1>10 DEF Revoke, Leave, ApiOnly, FailPublicationFor, Holds, cloud,
       counts, NoReq
<1>11. ASSUME NEW n \in Clicks, ClaimJob(n) PROVE Acknowledged
  BY <1>11 DEF ClaimJob, Quiet, counts
<1>12. ASSUME Begin PROVE Acknowledged
  BY <1>12 DEF Begin, At, To, Stop, NoWork, Ended, Retryable, Final, Errors,
       Quiet, NoCloud, Fails, Write, Refused, cloud, counts, Holds
<1>13. ASSUME Prepare PROVE Acknowledged
  BY <1>13 DEF Prepare, Entry, At, To, Stop, NoWork, Ended, Retryable, Final,
       Errors, Quiet, NoCloud, Fails, Write, Refused, cloud, counts, Holds
<1>14. ASSUME GetSession PROVE Acknowledged
  BY <1>14 DEF GetSession, At, To, Stop, NoWork, Ended, Retryable, Final,
       Errors, Quiet, NoCloud, Fails, Write, Refused, cloud, counts, Holds
<1>15. ASSUME ProbeSession PROVE Acknowledged
  BY <1>15 DEF ProbeSession, Finished, StartOver, At, To, Stop, NoWork, Ended,
       Retryable, Final, Errors, Quiet, NoCloud, Fails, Write, Refused, cloud,
       counts, Holds
<1>16. ASSUME ProbePublishId PROVE Acknowledged
  BY <1>16 DEF ProbePublishId, Finished, At, To, Stop, NoWork, Ended,
       Retryable, Final, Errors, Quiet, NoCloud, Fails, Write, Refused, cloud,
       counts, Holds
<1>17. ASSUME DropRemote PROVE Acknowledged
  <2>1. row'.stamp = row.stamp
    BY <1>17, RemoteFields, SessionFields DEF DropRemote, Write, Refused, Fails
  <2>2. plat' = plat /\ acks' = acks
    BY <1>17 DEF DropRemote, Quiet, counts
  <2> QED
    BY <2>1, <2>2
<1>18. ASSUME ClearSession PROVE Acknowledged
  <2>1. row'.stamp = row.stamp
    BY <1>18, RemoteFields, SessionFields DEF ClearSession, Write, Refused, Fails
  <2>2. plat' = plat /\ acks' = acks
    BY <1>18 DEF ClearSession, Quiet, counts
  <2> QED
    BY <2>1, <2>2
<1>19. ASSUME Open PROVE Acknowledged
  BY <1>19 DEF Open, At, To, Stop, NoWork, Ended, Retryable, Final, Errors,
       Quiet, NoCloud, Fails, Write, Refused, cloud, counts, Holds
<1>20. ASSUME Save PROVE Acknowledged
  <2>1. row'.stamp = row.stamp
    BY <1>20, RemoteFields, SessionFields DEF Save, Write, Refused, Fails
  <2>2. plat' = plat /\ acks' = acks
    BY <1>20 DEF Save, Quiet, counts
  <2> QED
    BY <2>1, <2>2
<1>21. ASSUME Upload PROVE Acknowledged
  BY <1>21 DEF Upload, At, To, Stop, NoWork, Ended, Retryable, Final, Errors,
       Quiet, NoCloud, Fails, Write, Refused, cloud, counts, Holds
<1>22. ASSUME SaveFinalized PROVE Acknowledged
  <2>1. row'.stamp = row.stamp
    BY <1>22, RemoteFields, SessionFields DEF SaveFinalized, Write, Refused, Fails
  <2>2. plat' = plat /\ acks' = acks
    BY <1>22 DEF SaveFinalized, Quiet, counts
  <2> QED
    BY <2>1, <2>2
<1>23. ASSUME AwaitProcessing PROVE Acknowledged
  BY <1>23 DEF AwaitProcessing, At, To, Stop, NoWork, Ended, Retryable, Final,
       Errors, Quiet, NoCloud, Fails, Write, Refused, cloud, counts, Holds
<1>24. ASSUME Forget PROVE Acknowledged
  <2>1. row'.stamp = row.stamp
    BY <1>24, RemoteFields, SessionFields DEF Forget, Write, Refused, Fails
  <2>2. plat' = plat /\ acks' = acks
    BY <1>24 DEF Forget, Quiet, counts
  <2> QED
    BY <2>1, <2>2
<1>25. ASSUME StampFinalizing PROVE Acknowledged
  BY <1>25 DEF StampFinalizing, Stamped, At, To, Stop, NoWork, Ended,
       Retryable, Final, Errors, Quiet, NoCloud, Fails, Write, Refused, cloud,
       counts, Holds
<1>26. ASSUME Send PROVE Acknowledged
  BY <1>26 DEF Send, At, To, Stop, NoWork, Ended, Retryable, Final, Errors,
       Quiet, NoCloud, Fails, Write, Refused, cloud, counts, Holds
<1>27. ASSUME Wait PROVE Acknowledged
  BY <1>27 DEF Wait, Abandon, Lost, At, To, Stop, NoWork, Ended, Retryable,
       Final, Errors, Quiet, NoCloud, Fails, Write, Refused, cloud, counts,
       Holds
<1>28. ASSUME ForgetAddress PROVE Acknowledged
  <2>1. row'.stamp = row.stamp
    BY <1>28, RemoteFields, SessionFields DEF ForgetAddress, Write, Refused, Fails
  <2>2. plat' = plat /\ acks' = acks
    BY <1>28 DEF ForgetAddress, Quiet, counts
  <2> QED
    BY <2>1, <2>2
<1>29. ASSUME Poll PROVE Acknowledged
  BY <1>29 DEF Poll, Finished, At, To, Stop, NoWork, Ended, Retryable, Final,
       Errors, Quiet, NoCloud, Fails, Write, Refused, cloud, counts, Holds
<1>30. ASSUME Record PROVE Acknowledged
  <2>1. row'.stamp = row.stamp
    BY <1>30 DEF Record, FailPublicationFor, RecordPost
  <2>2. plat' = plat /\ acks' = acks
    BY <1>30 DEF Record, Quiet, counts
  <2> QED
    BY <2>1, <2>2
<1>31. ASSUME GiveUp PROVE Acknowledged
  <2>1. row'.stamp = row.stamp
    BY <1>31 DEF GiveUp, FailPublicationFor, RecordPost
  <2>2. plat' = plat /\ acks' = acks
    BY <1>31 DEF GiveUp, Quiet, counts
  <2> QED
    BY <2>1, <2>2
<1>32. ASSUME Settle PROVE Acknowledged
  <2>1. row'.stamp = row.stamp
    BY <1>32 DEF Settle, FailPublicationFor, RecordPost
  <2>2. plat' = plat /\ acks' = acks
    BY <1>32 DEF Settle, Quiet, counts
  <2> QED
    BY <2>1, <2>2
<1>33. ASSUME FinishJob PROVE Acknowledged
  BY <1>33 DEF FinishJob, counts
<1>34. ASSUME NEW i \in Ids, Receive(i) PROVE Acknowledged
  BY <1>34 DEF Receive, CloudOnly, counts
<1>35. ASSUME NEW i \in Ids, Process(i) PROVE Acknowledged
  BY <1>35 DEF Process, CloudOnly, counts
<1>36. ASSUME NEW i \in Ids, Expire(i) PROVE Acknowledged
  BY <1>36 DEF Expire, CloudOnly, counts
<1>37. ASSUME Crash PROVE Acknowledged
  BY <1>37 DEF Crash, NoWork, NoReq, counts
<1>38. CASE UNCHANGED vars
  BY <1>38 DEF vars, cloud, counts, WorkTypes
<1> HIDE DEF Acknowledged, RowTypes, Rows, CountTypes
<1> QED
  BY <1>1, <1>2, <1>3, <1>4, <1>5, <1>6, <1>7, <1>8, <1>9, <1>10, <1>11, <1>12,
     <1>13, <1>14, <1>15, <1>16, <1>17, <1>18, <1>19, <1>20, <1>21, <1>22,
     <1>23, <1>24, <1>25, <1>26, <1>27, <1>28, <1>29, <1>30, <1>31, <1>32,
     <1>33, <1>34, <1>35, <1>36, <1>37, <1>38
     DEF Next, Api, Work

LEMMA RenamedNext ==
  ASSUME CountTypes, RowTypes, WorkTypes, Knows, Clean, [Next]_vars
  PROVE  Renamed
<1> USE DEF Renamed, Named, RowTypes, Rows
<1>1. ASSUME NEW r \in Requests, Look(r) PROVE Renamed
  BY <1>1 DEF Look, ApiOnly, cloud, counts, NoReq
<1>2. ASSUME NEW r \in Requests, Claim(r) PROVE Renamed
  BY <1>2 DEF Claim, ApiOnly, MayClaim, Rearm, NewWords, cloud, counts, NoReq
<1>3. ASSUME NEW r \in Requests, CancelJob(r) PROVE Renamed
  BY <1>3 DEF CancelJob, ApiOnly, Cancel, ActiveJobs, Active, cloud, counts,
       NoReq
<1>4. ASSUME NEW r \in Requests, ReadJob(r) PROVE Renamed
  BY <1>4 DEF ReadJob, Go, Leave, ApiOnly, StillGoing, Link, ActiveJobs,
       Active, Unqueued, cloud, counts, NoReq
<1>5. ASSUME NEW r \in Requests, Judge(r) PROVE Renamed
  BY <1>5 DEF Judge, Leave, ApiOnly, FailPublicationFor, Holds, cloud, counts,
       NoReq
<1>6. ASSUME NEW r \in Requests, Submit(r) PROVE Renamed
  BY <1>6 DEF Submit, Go, ApiOnly, Queued, ActiveJobs, Active, cloud, counts,
       NoReq
<1>7. ASSUME NEW r \in Requests, Retire(r) PROVE Renamed
  BY <1>7 DEF Retire, Go, ApiOnly, Cancel, cloud, counts, NoReq
<1>8. ASSUME NEW r \in Requests, GiveBack(r) PROVE Renamed
  BY <1>8 DEF GiveBack, Leave, ApiOnly, FailPublication, cloud, counts, NoReq
<1>9. ASSUME NEW r \in Requests, LinkJob(r) PROVE Renamed
  BY <1>9 DEF LinkJob, Leave, ApiOnly, Link, cloud, counts, NoReq
<1>10. ASSUME NEW r \in Requests, Revoke(r) PROVE Renamed
  BY <1>10 DEF Revoke, Leave, ApiOnly, FailPublicationFor, Holds, cloud,
       counts, NoReq
<1>11. ASSUME NEW n \in Clicks, ClaimJob(n) PROVE Renamed
  BY <1>11 DEF ClaimJob, Quiet
<1>12. ASSUME Begin PROVE Renamed
  BY <1>12 DEF Begin, At, To, Stop, NoWork, Ended, Retryable, Final, Errors,
       Quiet, NoCloud, Fails, Write, Refused, cloud, counts, Holds
<1>13. ASSUME Prepare PROVE Renamed
  <2>1. UNCHANGED <<plat, row>>
    BY <1>13 DEF Prepare, Quiet
  <2> QED
    BY <2>1
<1>14. ASSUME GetSession PROVE Renamed
  <2>1. UNCHANGED <<plat, row>>
    BY <1>14 DEF GetSession, Quiet
  <2> QED
    BY <2>1
<1>15. ASSUME ProbeSession PROVE Renamed
  <2>1. UNCHANGED <<plat, row>>
    BY <1>15 DEF ProbeSession, Quiet
  <2> QED
    BY <2>1
<1>16. ASSUME ProbePublishId PROVE Renamed
  <2>1. UNCHANGED <<plat, row>>
    BY <1>16 DEF ProbePublishId, Quiet
  <2> QED
    BY <2>1
<1>17. ASSUME DropRemote PROVE Renamed
  <2>1. plat' = plat
    BY <1>17 DEF DropRemote, Quiet
  <2> QED
    BY <1>17, <2>1, RemoteFields DEF DropRemote, At, Write, Refused, Fails, Knows,
         Clean
<1>18. ASSUME ClearSession PROVE Renamed
  <2>1. plat' = plat
    BY <1>18 DEF ClearSession, Quiet
  <2> QED
    BY <1>18, <2>1, SessionFields DEF ClearSession, At, Write, Refused, Fails, Knows,
         Clean
<1>19. ASSUME Open PROVE Renamed
  <2>1. UNCHANGED <<plat, row>>
    BY <1>19 DEF Open, Quiet
  <2> QED
    BY <2>1
<1>20. ASSUME Save PROVE Renamed
  <2>1. plat' = plat
    BY <1>20 DEF Save, Quiet
  <2> QED
    BY <1>20, <2>1, RemoteFields, SessionFields DEF Save, At, Write, Refused, Fails,
         Knows, Clean
<1>21. ASSUME Upload PROVE Renamed
  <2>1. UNCHANGED <<plat, row>>
    BY <1>21 DEF Upload, Quiet
  <2> QED
    BY <2>1
<1>22. ASSUME SaveFinalized PROVE Renamed
  <2>1. plat' = plat
    BY <1>22 DEF SaveFinalized, Quiet
  <2> QED
    BY <1>22, <2>1, RemoteFields DEF SaveFinalized, At, Write, Refused, Fails, Knows,
         Clean
<1>23. ASSUME AwaitProcessing PROVE Renamed
  <2>1. UNCHANGED <<plat, row>>
    BY <1>23 DEF AwaitProcessing, Quiet
  <2> QED
    BY <2>1
<1>24. ASSUME Forget PROVE Renamed
  <2>1. plat' = plat
    BY <1>24 DEF Forget, Quiet
  <2> QED
    BY <1>24, <2>1, RemoteFields DEF Forget, At, Write, Refused, Fails, Knows, Clean
<1>25. ASSUME StampFinalizing PROVE Renamed
  BY <1>25 DEF StampFinalizing, Stamped, At, To, Stop, NoWork, Ended,
       Retryable, Final, Errors, Quiet, NoCloud, Fails, Write, Refused, cloud,
       counts, Holds
<1>26. ASSUME Send PROVE Renamed
  <2>1. UNCHANGED <<plat, row>>
    BY <1>26 DEF Send, Quiet
  <2> QED
    BY <2>1
<1>27. ASSUME Wait PROVE Renamed
  <2>1. UNCHANGED <<plat, row>>
    BY <1>27 DEF Wait, Quiet
  <2> QED
    BY <2>1
<1>28. ASSUME ForgetAddress PROVE Renamed
  <2>1. plat' = plat
    BY <1>28 DEF ForgetAddress, Quiet
  <2> QED
    BY <1>28, <2>1, SessionFields DEF ForgetAddress, At, Write, Refused, Fails,
         Knows, Clean
<1>29. ASSUME Poll PROVE Renamed
  <2>1. UNCHANGED <<plat, row>>
    BY <1>29 DEF Poll, Quiet
  <2> QED
    BY <2>1
<1>30. ASSUME Record PROVE Renamed
  <2>1. plat' = plat
    BY <1>30 DEF Record, Quiet
  <2>2. row' = row \/ row'.state = "posted"
    BY <1>30 DEF Record, RecordPost
  <2> QED
    BY <2>1, <2>2
<1>31. ASSUME GiveUp PROVE Renamed
  <2>1. row'.sess = row.sess /\ row'.remote = row.remote
    BY <1>31 DEF GiveUp, FailPublicationFor
  <2>2. plat' = plat
    BY <1>31 DEF GiveUp, Quiet
  <2> QED
    BY <2>1, <2>2
<1>32. ASSUME Settle PROVE Renamed
  <2>1. row'.sess = row.sess /\ row'.remote = row.remote
    BY <1>32 DEF Settle, FailPublicationFor
  <2>2. plat' = plat
    BY <1>32 DEF Settle, Quiet
  <2> QED
    BY <2>1, <2>2
<1>33. ASSUME FinishJob PROVE Renamed
  BY <1>33 DEF FinishJob
<1>34. ASSUME NEW i \in Ids, Receive(i) PROVE Renamed
  BY <1>34 DEF Receive, CloudOnly, counts
<1>35. ASSUME NEW i \in Ids, Process(i) PROVE Renamed
  BY <1>35 DEF Process, CloudOnly, counts
<1>36. ASSUME NEW i \in Ids, Expire(i) PROVE Renamed
  BY <1>36 DEF Expire, CloudOnly, counts
<1>37. ASSUME Crash PROVE Renamed
  BY <1>37 DEF Crash, NoWork, NoReq, counts
<1>38. CASE UNCHANGED vars
  BY <1>38 DEF vars, cloud, counts, WorkTypes
<1> HIDE DEF Renamed, Named, RowTypes, Rows
<1> QED
  BY <1>1, <1>2, <1>3, <1>4, <1>5, <1>6, <1>7, <1>8, <1>9, <1>10, <1>11, <1>12,
     <1>13, <1>14, <1>15, <1>16, <1>17, <1>18, <1>19, <1>20, <1>21, <1>22,
     <1>23, <1>24, <1>25, <1>26, <1>27, <1>28, <1>29, <1>30, <1>31, <1>32,
     <1>33, <1>34, <1>35, <1>36, <1>37, <1>38
     DEF Next, Api, Work

(* Sending adds the one upload the row names, or, for X, the post that     *)
(* nothing else can be; what else TikTok is sent goes astray.              *)
LEMMA SendAdds ==
  ASSUME TypeOK, Knows, Uploading, Send
  PROVE  /\ UNCHANGED <<plat, row, acks>> /\ row.stamp
         /\ plat # "x" => Owed' \subseteq Owed \cup {Named}
         /\ plat = "x" => Owed' \subseteq Owed \cup {ids'}
<1>1. UNCHANGED <<plat, row, acks, up, posts>> /\ w.pc = "send"
  BY DEF Send, Quiet, counts, At
<1>0. astray \subseteq astray' /\ (plat = "tiktok" /\ w.u # w.remote => w.u \in astray')
  BY DEF Send
<1>2. row.stamp
  BY <1>1 DEF Knows
<1>3. CASE plat = "x"
  <2>1. wire' = wire \cup {ids'}
    BY <1>3 DEF Send
  <2> QED
    BY <1>0, <1>1, <1>2, <1>3, <2>1 DEF Owed, Out
<1>4. CASE plat # "x"
  <2>1. wire' = wire \cup {w.u}
    BY <1>4 DEF Send
  <2>2. w.u = Named \/ w.u \in astray'
    <3>1. plat \in {"youtube", "tiktok"}
      BY <1>4, PlatformsAssumption DEF TypeOK, RowTypes
    <3>2. CASE plat = "youtube"
      BY <1>1, <3>2 DEF Uploading, Named
    <3>3. CASE plat = "tiktok"
      BY <1>0, <1>1, <3>3 DEF Uploading, Named
    <3> QED
      BY <3>1, <3>2, <3>3
  <2>3. Owed' \subseteq Owed \cup {Named}
    BY <1>0, <1>1, <1>4, <2>1, <2>2 DEF Owed, Out
  <2> QED
    BY <1>1, <1>2, <1>4, <2>3
<1> QED
  BY <1>3, <1>4

(* The count is kept.                                                      *)
LEMMA CountedNext ==
  ASSUME Base, Counted, Clean, [Next]_vars
  PROVE  Counted'
<1> USE DEF Base, TypeOK
<1>1. Owed \subseteq Ids
  BY OwedIds
<1>2. Owed' \subseteq Ids
  <2>1. CountTypes' /\ CloudTypes'
    BY BaseInductive
  <2>2. (CountTypes /\ CloudTypes => Owed \subseteq Ids)'
    BY OwedIds, PTL
  <2> QED
    BY <2>1, <2>2
<1>3. acks \in Nat
  BY DEF CountTypes
<1>4. Cardinality(Owed) \in Nat /\ Cardinality(Owed') \in Nat
  BY <1>1, <1>2, Few
<1>5. CASE Send
  <2>1. /\ UNCHANGED <<plat, row, acks>> /\ row.stamp
        /\ plat # "x" => Owed' \subseteq Owed \cup {Named}
        /\ plat = "x" => Owed' \subseteq Owed \cup {ids'}
    BY <1>5, SendAdds
  <2>2. row.state # "posted"
    BY <1>5 DEF Send, At, Knows, Working
  <2>3. Named' = Named
    BY <2>1 DEF Named
  <2>4. ASSUME plat # "x" PROVE Counted'
    <3>1. Owed' \ {Named} \subseteq Owed \ {Named} /\ Owed \ {Named} \subseteq Ids
      BY <2>1, <2>4, <1>1
    <3>2. Cardinality(Owed' \ {Named}) <= Cardinality(Owed \ {Named})
      BY <3>1, Few
    <3>3. Cardinality(Owed') <= 1 + Cardinality(Owed' \ {Named})
      BY <1>2, ButOne
    <3>4. Cardinality(Owed \ {Named}) <= acks
      BY <2>2, <2>4 DEF Counted
    <3>5. Cardinality(Owed \ {Named}) \in Nat /\ Cardinality(Owed' \ {Named}) \in Nat
      BY <1>1, <1>2, Few
    <3>6. Cardinality(Owed') <= 1 + acks /\ Cardinality(Owed' \ {Named}) <= acks
      BY <3>2, <3>3, <3>4, <3>5, <1>3, <1>4
    <3> QED
      BY <2>1, <2>3, <3>6 DEF Counted, Settled
  <2>5. ASSUME plat = "x" PROVE Counted'
    <3>1. Owed' \ {ids'} \subseteq Owed
      BY <2>1, <2>5
    <3>2. Cardinality(Owed' \ {ids'}) <= Cardinality(Owed)
      BY <3>1, <1>1, Few
    <3>3. Cardinality(Owed') <= 1 + Cardinality(Owed' \ {ids'})
      BY <1>2, ButOne
    <3>4. Cardinality(Owed) <= acks
      BY <1>5, <2>5 DEF Send, At, Clean, Settled
    <3>5. Cardinality(Owed' \ {ids'}) \in Nat
      BY <1>2, Few
    <3>6. Cardinality(Owed') <= 1 + acks
      BY <3>2, <3>3, <3>4, <3>5, <1>3, <1>4
    <3> QED
      BY <2>1, <2>5, <3>6 DEF Counted, Settled
  <2> QED
    BY <2>4, <2>5
<1>6. CASE ~Send
  <2>1. Owed' \subseteq Owed
    BY <1>6, OwedShrinks
  <2>2. Cardinality(Owed') <= Cardinality(Owed)
    BY <2>1, <1>1, Few
  <2>3. Acknowledged /\ Renamed /\ StaysPosted
    BY AcknowledgedNext, RenamedNext, PostedNext
  <2>4. Cardinality(Owed) <= 1 + acks /\ acks' \in {acks, acks + 1} /\ plat' = plat
    BY <2>3 DEF Counted, Acknowledged
  <2>5. ASSUME row'.state # "posted" PROVE row.state # "posted"
    BY <2>3, <2>5 DEF StaysPosted
  <2>6. Cardinality(Owed') <= 1 + acks'
    BY <2>2, <2>4, <1>3, <1>4
  <2>7. ASSUME row'.state # "posted", ~row'.stamp PROVE Cardinality(Owed') <= acks'
    <3>1. CASE ~row.stamp
      <4>1. Cardinality(Owed) <= acks
        BY <3>1, <2>5, <2>7 DEF Counted, Settled
      <4> QED
        BY <4>1, <2>2, <2>4, <1>3, <1>4
    <3>2. CASE row.stamp
      <4>1. acks' = acks + 1
        BY <3>2, <2>3, <2>7 DEF Acknowledged
      <4> QED
        BY <4>1, <2>2, <2>4, <1>3, <1>4
    <3> QED
      BY <3>1, <3>2
  <2>8. ASSUME row'.state # "posted", plat # "x" PROVE Cardinality(Owed' \ {Named'}) <= acks'
    <3>1. Cardinality(Owed' \ {Named'}) <= Cardinality(Owed') /\ Cardinality(Owed' \ {Named'}) \in Nat
      BY <1>2, Few
    <3>2. CASE Named' = Named
      <4>1. Owed' \ {Named'} \subseteq Owed \ {Named} /\ Owed \ {Named} \subseteq Ids
        BY <2>1, <3>2, <1>1
      <4>2. /\ Cardinality(Owed' \ {Named'}) <= Cardinality(Owed \ {Named})
            /\ Cardinality(Owed \ {Named}) \in Nat
        BY <4>1, Few
      <4>3. Cardinality(Owed \ {Named}) <= acks
        BY <2>5, <2>8 DEF Counted
      <4> QED
        BY <4>2, <4>3, <3>1, <2>4, <1>3
    <3>3. CASE Settled
      BY <3>1, <3>3, <2>2, <2>4, <1>3, <1>4 DEF Settled
    <3> QED
      BY <3>2, <3>3, <2>3, <2>8 DEF Renamed
  <2> QED
    BY <2>4, <2>6, <2>7, <2>8 DEF Counted, Settled
<1> QED
  BY <1>5, <1>6

(* An upload that is named and is not out leaves nothing unacknowledged.   *)
LEMMA NothingIsOut ==
  ASSUME CountTypes, CloudTypes, Counted, row.state # "posted", plat # "x", Named \notin Owed
  PROVE  Settled
<1>1. Owed \subseteq Ids
  BY OwedIds
<1>2. Cardinality(Owed) = Cardinality(Owed \ {Named})
  BY <1>1, ButOne
<1> QED
  BY <1>2 DEF Counted, Settled

(* Where the worker arrives to forget, open or send, all is settled.       *)
Arrived ==
  \/ plat # "x" /\ w'.pc \in {"drop", "dropid", "clear", "open", "save"}
  \/ plat = "x" /\ w'.pc = "send"

LEMMA ArrivedNext ==
  ASSUME CountTypes, RowTypes, JobTypes, ReqTypes, WorkTypes, CloudTypes,
         Books, Knows, Uploading, Counted, Clean, [Next]_vars
  PROVE  (Arrived => Settled \/ Settled')
<1> USE DEF Arrived
<1>1. ASSUME NEW r \in Requests, Look(r) PROVE (Arrived => Settled)
  <2>1. UNCHANGED <<plat, w>>
    BY <1>1 DEF Look, ApiOnly
  <2> QED
    BY <2>1 DEF Clean
<1>2. ASSUME NEW r \in Requests, Claim(r) PROVE (Arrived => Settled)
  <2>1. UNCHANGED <<plat, w>>
    BY <1>2 DEF Claim, ApiOnly
  <2> QED
    BY <2>1 DEF Clean
<1>3. ASSUME NEW r \in Requests, CancelJob(r) PROVE (Arrived => Settled)
  <2>1. UNCHANGED <<plat, w>>
    BY <1>3 DEF CancelJob, ApiOnly
  <2> QED
    BY <2>1 DEF Clean
<1>4. ASSUME NEW r \in Requests, ReadJob(r) PROVE (Arrived => Settled)
  <2>1. UNCHANGED <<plat, w>>
    BY <1>4 DEF ReadJob, ApiOnly
  <2> QED
    BY <2>1 DEF Clean
<1>5. ASSUME NEW r \in Requests, Judge(r) PROVE (Arrived => Settled)
  <2>1. UNCHANGED <<plat, w>>
    BY <1>5 DEF Judge, ApiOnly
  <2> QED
    BY <2>1 DEF Clean
<1>6. ASSUME NEW r \in Requests, Submit(r) PROVE (Arrived => Settled)
  <2>1. UNCHANGED <<plat, w>>
    BY <1>6 DEF Submit, ApiOnly
  <2> QED
    BY <2>1 DEF Clean
<1>7. ASSUME NEW r \in Requests, Retire(r) PROVE (Arrived => Settled)
  <2>1. UNCHANGED <<plat, w>>
    BY <1>7 DEF Retire, ApiOnly
  <2> QED
    BY <2>1 DEF Clean
<1>8. ASSUME NEW r \in Requests, GiveBack(r) PROVE (Arrived => Settled)
  <2>1. UNCHANGED <<plat, w>>
    BY <1>8 DEF GiveBack, ApiOnly
  <2> QED
    BY <2>1 DEF Clean
<1>9. ASSUME NEW r \in Requests, LinkJob(r) PROVE (Arrived => Settled)
  <2>1. UNCHANGED <<plat, w>>
    BY <1>9 DEF LinkJob, ApiOnly
  <2> QED
    BY <2>1 DEF Clean
<1>10. ASSUME NEW r \in Requests, Revoke(r) PROVE (Arrived => Settled)
  <2>1. UNCHANGED <<plat, w>>
    BY <1>10 DEF Revoke, ApiOnly
  <2> QED
    BY <2>1 DEF Clean
<1>11. ASSUME NEW n \in Clicks, ClaimJob(n) PROVE (Arrived => Settled)
  <2>1. w'.pc = "begin"
    BY <1>11, ClaimJobEffect
  <2> QED
    BY <2>1
<1>12. ASSUME Begin PROVE (Arrived => Settled)
  <2>1. w'.pc \in {"pre", "done", "dead", "ended"}
    BY <1>12, ToFields, StopFields, BeganFields DEF Begin, At, Ended, Retryable,
         Final, Errors, Quiet, NoCloud, Fails, Write, Refused, cloud, counts,
         Holds
  <2> QED
    BY <2>1
<1>13. ASSUME Prepare PROVE (Arrived => Settled)
  <2>1. plat # "x" => w'.pc \in {"get", "giveup", "settle", "ended"}
    BY <1>13, PreparedFields, StopFields DEF Prepare, Entry, Errors, Retryable, Final, Ended
  <2>2. w'.pc # "send"
    BY <1>13, PreparedFields, StopFields DEF Prepare, Entry, Errors, Retryable, Final, Ended
  <2> QED
    BY <2>1, <2>2
<1>14. ASSUME GetSession PROVE (Arrived => Settled)
  <2>1. plat # "x" /\ row.state # "posted"
    BY <1>14 DEF GetSession, At, Knows, Working
  <2>2. w'.pc # "send" /\ w'.pc \notin {"drop", "dropid", "clear", "save"}
    BY <1>14, GotFields, StopFields DEF GetSession, Retryable, Ended
  <2>3. ASSUME w'.pc = "open" PROVE Settled
    <3>1. (IF plat = "youtube" THEN row.sess ELSE w.remote) = 0
      BY <1>14, <2>3, GotFields, StopFields DEF GetSession, Retryable, Ended
    <3>2. plat = "tiktok" => w.remote = row.remote
      BY <1>14 DEF GetSession, At, Uploading
    <3>3. Named = 0
      BY <3>1, <3>2, <2>1, PlatformsAssumption DEF Named, RowTypes
    <3>4. Named \notin Owed
      BY <3>3, OwedIds DEF Ids
    <3> QED
      BY <2>1, <3>4, NothingIsOut
  <2> QED
    BY <2>1, <2>2, <2>3
<1>15. ASSUME ProbeSession PROVE (Arrived => Settled \/ Settled')
  <2>1. plat = "youtube" /\ row.state # "posted" /\ w.had = row.stamp /\ w.u = row.sess
    BY <1>15 DEF ProbeSession, At, Knows, Working, Uploading
  <2>2. \/ w'.pc \in {"record", "stamp", "giveup", "settle", "ended"}
        \/ w'.pc = "clear" /\ (~w.had \/ up[w.u] = "part")
    BY <1>15, ProbedFields, ToFields, StopFields
       DEF ProbeSession, StartOver, Errors, Retryable, Final, Ended
  <2>3. CASE ~w.had
    BY <2>1, <2>3 DEF Counted
  <2>4. CASE up[w.u] = "part" /\ w'.pc = "clear" /\ w.u \notin wire
    <3>1. w.u \in Ids
      BY <1>15, <2>1, WorkFields DEF ProbeSession, At, Uploading, Ids
    <3>3. w.u \notin posts
      BY <2>1, <2>4, <3>1 DEF Books
    <3>4. Named \notin Owed
      BY <2>1, <2>4, <3>3 DEF Named, Owed, Out
    <3> QED
      BY <2>1, <3>4, NothingIsOut
  <2>5. CASE w.had /\ w'.pc = "clear" /\ w.u \in wire
    <3>1. w.u \in astray' /\ astray \subseteq astray' /\ UNCHANGED <<plat, acks, wire, up, posts>>
      <4>1. \/ UNCHANGED astray /\ w'.pc # "clear"
            \/ UNCHANGED astray /\ up[w.u] = "gone" /\ StartOver
            \/ astray' = astray \cup (wire \cap {w.u})
        BY <1>15, ProbedFields, ToFields, StopFields
           DEF ProbeSession, Errors, Retryable, Final, Ended
      <4>2. StartOver => w'.pc # "clear"
        BY <2>5, StopFields DEF StartOver, Final, Ended
      <4>3. UNCHANGED <<plat, acks, wire, up, posts>>
        BY <1>15 DEF ProbeSession, Quiet, cloud, counts
      <4> QED
        BY <2>5, <4>1, <4>2, <4>3
    <3>2. Owed' \subseteq Owed \ {Named} /\ Owed \ {Named} \subseteq Ids
      BY <2>1, <3>1, OwedIds DEF Owed, Out, Named
    <3>3. Cardinality(Owed') <= Cardinality(Owed \ {Named}) /\ Cardinality(Owed') \in Nat
          /\ Cardinality(Owed \ {Named}) \in Nat
      BY <3>2, Few
    <3>4. Cardinality(Owed \ {Named}) <= acks /\ acks \in Nat
      BY <2>1 DEF Counted, CountTypes
    <3> QED
      BY <3>1, <3>3, <3>4 DEF Settled
  <2> QED
    BY <2>1, <2>2, <2>3, <2>4, <2>5
<1>16. ASSUME ProbePublishId PROVE (Arrived => Settled)
  <2>1. plat = "tiktok" /\ row.state # "posted" /\ w.had = row.stamp /\ w.remote = row.remote
    BY <1>16 DEF ProbePublishId, At, Knows, Working, Uploading
  <2>2. \/ w'.pc \in {"record", "stamp", "poll", "giveup", "settle", "ended"}
        \/ w'.pc \in {"drop", "dropid"} /\ (~w.had \/ up[w.remote] = "failed")
    BY <1>16, PolledFields, ToFields, StopFields DEF ProbePublishId, Errors, Retryable, Final, Ended
  <2>3. CASE ~w.had
    BY <2>1, <2>3 DEF Counted
  <2>4. CASE up[w.remote] = "failed"
    <3>1. w.remote \in Ids
      BY <1>16, <2>1, WorkFields DEF ProbePublishId, At, Uploading, Ids
    <3>2. w.remote \notin posts
      BY <2>1, <2>4, <3>1 DEF Books
    <3>3. Named \notin Owed
      BY <2>1, <2>4, <3>2 DEF Named, Owed, Out
    <3> QED
      BY <2>1, <3>3, NothingIsOut
  <2> QED
    BY <2>1, <2>2, <2>3, <2>4
<1>17. ASSUME DropRemote PROVE (Arrived => Settled)
  <2>1. plat # "x" /\ w.pc \in {"drop", "dropid"}
    BY <1>17 DEF DropRemote, At, Knows
  <2> QED
    BY <2>1 DEF Clean
<1>18. ASSUME ClearSession PROVE (Arrived => Settled)
  <2>1. plat # "x" /\ w.pc = "clear"
    BY <1>18 DEF ClearSession, At, Knows
  <2> QED
    BY <2>1 DEF Clean
<1>19. ASSUME Open PROVE (Arrived => Settled)
  <2>1. w.pc = "open"
    BY <1>19 DEF Open, At
  <2>2. w'.pc # "send"
    BY <1>19, MediumFields, OpenedFields, StopFields DEF Open, Errors, Retryable, Final, Ended
  <2> QED
    BY <2>1, <2>2 DEF Clean
<1>20. ASSUME Save PROVE (Arrived => Settled)
  <2>1. w'.pc \in {"stamp", "upload", "address", "settle", "ended"}
    BY <1>20, ToFields, StopFields DEF Save, At, Ended, Retryable, Final, Errors,
         Quiet, NoCloud, Fails, Write, Refused, cloud, counts, Holds
  <2> QED
    BY <2>1
<1>21. ASSUME Upload PROVE (Arrived => Settled)
  <2>1. w'.pc \in {"finalized", "forget", "settle", "ended"}
    BY <1>21, ToFields, StopFields DEF Upload, At, Ended, Retryable, Final, Errors,
         Quiet, NoCloud, Fails, Write, Refused, cloud, counts, Holds
  <2> QED
    BY <2>1
<1>22. ASSUME SaveFinalized PROVE (Arrived => Settled)
  <2>1. w'.pc \in {"process", "stamp", "settle", "ended"}
    BY <1>22, ToFields, StopFields DEF SaveFinalized, At, Ended, Retryable, Final,
         Errors, Quiet, NoCloud, Fails, Write, Refused, cloud, counts, Holds
  <2> QED
    BY <2>1
<1>23. ASSUME AwaitProcessing PROVE (Arrived => Settled)
  <2>1. w'.pc \in {"stamp", "forget", "giveup", "settle", "ended"}
    BY <1>23, ToFields, StopFields DEF AwaitProcessing, At, Ended, Retryable, Final,
         Errors, Quiet, NoCloud, Fails, Write, Refused, cloud, counts, Holds
  <2> QED
    BY <2>1
<1>24. ASSUME Forget PROVE (Arrived => Settled)
  <2>1. w'.pc \in {"giveup", "dead", "settle", "ended"}
    BY <1>24, ToFields, StopFields DEF Forget, Dead, At, Ended, Retryable, Final,
         Errors, Quiet, NoCloud, Fails, Write, Refused, cloud, counts, Holds
  <2> QED
    BY <2>1
<1>25. ASSUME StampFinalizing PROVE (Arrived => Settled)
  <2>1. row.state # "posted"
    BY <1>25 DEF StampFinalizing, At, Knows, Working
  <2>2. \/ w'.pc \in {"expired", "giveup", "settle", "ended"}
        \/ w'.pc = "send" /\ (plat # "x" \/ ~row.stamp)
    BY <1>25, ToFields, StopFields DEF StampFinalizing, Stamped, Errors, Retryable, Final, Ended
  <2> QED
    BY <2>1, <2>2 DEF Counted
<1>26. ASSUME Send PROVE (Arrived => Settled)
  <2>1. w'.pc \in {"wait"}
    BY <1>26, ToFields, StopFields, TweetedFields, SentFields DEF Send, At, Ended,
         Retryable, Final, Errors, Quiet, NoCloud, Fails, Write, Refused, cloud,
         counts, Holds
  <2> QED
    BY <2>1
<1>27. ASSUME Wait PROVE (Arrived => Settled)
  <2>1. w'.pc \in {"record", "poll", "expired", "giveup", "settle", "ended"}
    BY <1>27, ToFields, StopFields DEF Wait, Abandon, Lost, At, Ended, Retryable,
         Final, Errors, Quiet, NoCloud, Fails, Write, Refused, cloud, counts,
         Holds
  <2> QED
    BY <2>1
<1>28. ASSUME ForgetAddress PROVE (Arrived => Settled)
  <2>1. w'.pc \in {"giveup", "dead", "settle", "ended"}
    BY <1>28, ToFields, StopFields DEF ForgetAddress, Dead, At, Ended, Retryable,
         Final, Errors, Quiet, NoCloud, Fails, Write, Refused, cloud, counts,
         Holds
  <2> QED
    BY <2>1
<1>29. ASSUME Poll PROVE (Arrived => Settled)
  <2>1. plat = "tiktok" /\ row.state # "posted" /\ w.remote = row.remote
    BY <1>29 DEF Poll, At, Knows, Working, Uploading
  <2>2. w'.pc \in {"record", "giveup", "settle", "ended"} \/ up[w.remote] = "failed"
    BY <1>29, PolledFields, ToFields, StopFields DEF Poll, Errors, Retryable, Final, Ended
  <2>4. CASE up[w.remote] = "failed"
    <3>1. w.remote \in Ids
      BY <1>29, <2>1, WorkFields DEF Poll, At, Uploading, Ids
    <3>2. w.remote \notin posts
      BY <2>1, <2>4, <3>1 DEF Books
    <3>3. Named \notin Owed
      BY <2>1, <2>4, <3>2 DEF Named, Owed, Out
    <3> QED
      BY <2>1, <3>3, NothingIsOut
  <2> QED
    BY <2>1, <2>2, <2>4
<1>30. ASSUME Record PROVE (Arrived => Settled)
  <2>1. w'.pc \in {"done", "ended"}
    BY <1>30, ToFields, StopFields DEF Record, RecordPost, CanRecord, At, Ended,
         Retryable, Final, Errors, Quiet, NoCloud, Fails, Write, Refused, cloud,
         counts, Holds
  <2> QED
    BY <2>1
<1>31. ASSUME GiveUp PROVE (Arrived => Settled)
  <2>1. w'.pc \in {"dead"}
    BY <1>31, ToFields, StopFields DEF GiveUp, FailPublicationFor, Holds, At, Ended,
         Retryable, Final, Errors, Quiet, NoCloud, Fails, Write, Refused, cloud,
         counts
  <2> QED
    BY <2>1
<1>32. ASSUME Settle PROVE (Arrived => Settled)
  <2>1. w'.pc \in {"ended", "dead"}
    BY <1>32, ToFields, StopFields DEF Settle, LastTry, FailPublicationFor, Holds,
         At, Ended, Retryable, Final, Errors, Quiet, NoCloud, Fails, Write,
         Refused, cloud, counts
  <2> QED
    BY <2>1
<1>33. ASSUME FinishJob PROVE (Arrived => Settled)
  <2>1. w'.pc = "idle"
    BY <1>33, FinishEffect
  <2> QED
    BY <2>1
<1>34. ASSUME NEW i \in Ids, Receive(i) PROVE (Arrived => Settled)
  <2>1. UNCHANGED <<plat, w>>
    BY <1>34 DEF Receive, CloudOnly
  <2> QED
    BY <2>1 DEF Clean
<1>35. ASSUME NEW i \in Ids, Process(i) PROVE (Arrived => Settled)
  <2>1. UNCHANGED <<plat, w>>
    BY <1>35 DEF Process, CloudOnly
  <2> QED
    BY <2>1 DEF Clean
<1>36. ASSUME NEW i \in Ids, Expire(i) PROVE (Arrived => Settled)
  <2>1. UNCHANGED <<plat, w>>
    BY <1>36 DEF Expire, CloudOnly
  <2> QED
    BY <2>1 DEF Clean
<1>37. ASSUME Crash PROVE (Arrived => Settled)
  <2>1. w'.pc = "idle"
    BY <1>37, CrashEffect
  <2> QED
    BY <2>1
<1>38. CASE UNCHANGED vars
  BY <1>38 DEF vars, cloud, counts, WorkTypes, Clean
<1> HIDE DEF Arrived
<1> QED
  BY <1>1, <1>2, <1>3, <1>4, <1>5, <1>6, <1>7, <1>8, <1>9, <1>10, <1>11, <1>12,
     <1>13, <1>14, <1>15, <1>16, <1>17, <1>18, <1>19, <1>20, <1>21, <1>22,
     <1>23, <1>24, <1>25, <1>26, <1>27, <1>28, <1>29, <1>30, <1>31, <1>32,
     <1>33, <1>34, <1>35, <1>36, <1>37, <1>38
     DEF Next, Api, Work

LEMMA CleanNext ==
  ASSUME Base, Counted, Clean, [Next]_vars
  PROVE  Clean'
<1> USE DEF Base, TypeOK
<1>1. Arrived => Settled \/ Settled'
  BY ArrivedNext
<1>2. acks' \in {acks, acks + 1} /\ plat' = plat
  BY AcknowledgedNext DEF Acknowledged
<1>3. CASE Send
  <2>1. w'.pc = "wait"
    BY <1>3, TweetedFields, SentFields DEF Send
  <2> QED
    BY <2>1 DEF Clean
<1>4. CASE ~Send
  <2>1. Owed' \subseteq Owed /\ Owed \subseteq Ids
    BY <1>4, OwedShrinks, OwedIds
  <2>2. /\ Cardinality(Owed') <= Cardinality(Owed)
        /\ Cardinality(Owed) \in Nat /\ Cardinality(Owed') \in Nat /\ acks \in Nat
    BY <2>1, Few DEF CountTypes
  <2>3. Settled => Settled'
    BY <2>2, <1>2 DEF Settled
  <2> QED
    BY <1>1, <1>2, <2>3 DEF Clean, Arrived
<1> QED
  BY <1>3, <1>4

(* The inductive invariant: Base, and the count.                           *)
THEOREM Invariance == Spec => []IInv
<1>1. Init => IInv
  <2> SUFFICES ASSUME Init PROVE IInv
    OBVIOUS
  <2>1. Base
    BY InitBase
  <2>2. Owed = {} /\ acks = 0
    BY DEF Init, Owed, Out
  <2>3. \A S : S \subseteq Owed => Cardinality(S) = 0
    BY <2>2, FS_EmptySet
  <2>4. w.pc = "idle"
    BY DEF Init, NoWork
  <2> QED
    BY <2>1, <2>2, <2>3, <2>4 DEF IInv, Counted, Settled, Clean
<1>2. IInv /\ [Next]_vars => IInv'
  BY BaseInductive, CountedNext, CleanNext DEF IInv
<1> QED
  BY <1>1, <1>2, PTL DEF Spec

(* Never post twice but by what went astray: for any number of clicks,     *)
(* requests, attempts, crashes and failed writes, and whichever platforms  *)
(* act on a request after its client has gone.                             *)
THEOREM TwiceOnlyAstrayAlways == Spec => []TwiceOnlyAstray
<1>1. IInv => TwiceOnlyAstray
  <2> SUFFICES ASSUME IInv PROVE TwiceOnlyAstray
    OBVIOUS
  <2> USE DEF IInv, Base, TypeOK
  <2>1. posts \ astray \subseteq Owed /\ Owed \subseteq Ids
    BY OwedIds DEF Owed, Out
  <2>2. /\ Cardinality(posts \ astray) <= Cardinality(Owed)
        /\ Cardinality(posts \ astray) \in Nat /\ Cardinality(Owed) \in Nat /\ acks \in Nat
    BY <2>1, Few DEF CountTypes
  <2> QED
    BY <2>2 DEF Counted, TwiceOnlyAstray
<1> QED
  BY <1>1, Invariance, PTL

(* What the platform holds or may still act on, and did not go astray, is  *)
(* recorded, or stamped and named.                                         *)
THEOREM NothingForgottenAlways == Spec => []NothingForgotten
<1>1. IInv => NothingForgotten
  <2> SUFFICES ASSUME IInv, acks = 0, row.state # "posted", NEW i \in Owed
               PROVE  row.stamp /\ (plat = "x" \/ i \in {row.sess, row.remote})
    BY DEF NothingForgotten
  <2> USE DEF IInv, Base, TypeOK
  <2>1. Owed \subseteq Ids
    BY OwedIds
  <2>2. \A S : S \subseteq Owed => IsFiniteSet(S) /\ Cardinality(S) \in Nat
    BY <2>1, Few
  <2>3. row.stamp
    <3>1. CASE Cardinality(Owed) <= acks
      <4>1. Cardinality(Owed) = 0
        BY <2>2, <3>1
      <4> QED
        BY <2>2, <4>1, FS_EmptySet
    <3> QED
      BY <3>1 DEF Counted, Settled
  <2>4. CASE plat # "x"
    <3>1. Cardinality(Owed \ {Named}) = 0
      BY <2>2, <2>4 DEF Counted
    <3>2. Owed \ {Named} = {}
      BY <2>2, <3>1, FS_EmptySet
    <3> QED
      BY <2>3, <3>2 DEF Named
  <2> QED
    BY <2>3, <2>4
<1> QED
  BY <1>1, Invariance, PTL
=============================================================================

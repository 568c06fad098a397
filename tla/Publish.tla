------------------------------ MODULE Publish ------------------------------
(***************************************************************************)
(* Publishing one clip to one account (internal/publish, the handlers of   *)
(* internal/api/publish.go, the ledger of internal/db): a click arms a     *)
(* ledger row and queues a job, the job's worker uploads and posts, and    *)
(* nothing may post the clip twice.  Between the two lie a process that    *)
(* crashes, requests whose answer is lost, cancels, second clicks, and     *)
(* ledger writes that fail.  A click's nonce is its number; its job and    *)
(* that job's number are the same.                                         *)
(***************************************************************************)
EXTENDS Integers, FiniteSets

CONSTANTS
  Platforms,    \* the adapters considered: "youtube", "tiktok", "x"
  Late,         \* those whose servers may act on a request after the client gave it up
  Requests,     \* HTTP requests of the operator's browser in flight at once
  MaxClicks,    \* bound: clicks on Publish
  MaxAttempts,  \* publishMaxAttempts
  MaxIds,       \* bound: uploads opened and posts made on the platform
  MaxTrouble    \* bound: crashes, failed ledger writes and cancels together

ASSUME PlatformsAssumption ==
  Platforms \subseteq {"youtube", "tiktok", "x"} /\ Late \subseteq Platforms
ASSUME BoundsAssumption == /\ MaxClicks \in Nat /\ MaxAttempts \in Nat \ {0}
                           /\ MaxIds \in Nat \ {0} /\ MaxTrouble \in Nat

VARIABLES
  plat,     \* the account's platform
  row,      \* the ledger row
  job,      \* job[n]: the queue's row for click n
  req,      \* the requests being handled
  w,        \* the one publish worker (the kind's concurrency is 1)
  cxl,      \* its context is cancelled
  up,       \* the platform's side of each upload
  wire,     \* those whose last, irreversible request is out and not acted on
  posts,    \* posts that exist on the platform
  unsaid,   \* posts made that the ledger could not be told of (history)
  astray,   \* uploads whose last request the row no longer answers for (history)
  ids,      \* ids used, by YouTube and TikTok for uploads, by X for posts
  clicks, acks, trouble    \* counts; acks: unknown outcomes acknowledged

cloud  == <<up, wire, posts, ids>>
counts == <<clicks, acks>>
vars   == <<plat, row, job, req, w, cxl, cloud, unsaid, astray, counts, trouble>>

Clicks   == 1 .. MaxClicks
Ids      == 1 .. MaxIds
Words    == {0, 1}              \* what the person confirmed: title, description, ...
InFlight == {"confirmed", "uploading"}
Active   == {"queued", "running"}

States   == {"none", "posted", "failed"} \cup InFlight
Causes   == {"none", "outcome_unknown", "other"}

Rows == [state : States, nonce : 0 .. MaxClicks, cause : Causes, words : Words,
         job : 0 .. MaxClicks,  \* publish_job_id
         sess : 0 .. MaxIds, have : Words,       \* the stored session and its words
         remote : 0 .. MaxIds, final : BOOLEAN,  \* platform_post_id; X's ":f"
         stamp : BOOLEAN]       \* finalizing_ms
NoWork == [pc |-> "idle", k |-> 0, words |-> 0, u |-> 0, have |-> 0, remote |-> 0,
           final |-> FALSE, had |-> FALSE, id |-> 0, cause |-> "none"]
NoReq  == [pc |-> "idle", n |-> 0, nonce |-> 0, job |-> 0]

Init ==
  /\ plat \in Platforms
  /\ row = [state |-> "none", nonce |-> 0, cause |-> "none", words |-> 0, job |-> 0,
            sess |-> 0, have |-> 0, remote |-> 0, final |-> FALSE, stamp |-> FALSE]
  /\ job = [n \in Clicks |-> [st |-> "none", tries |-> 0]]
  /\ req = [r \in Requests |-> NoReq]
  /\ w = NoWork /\ cxl = FALSE
  /\ up = [i \in Ids |-> "none"] /\ wire = {} /\ posts = {} /\ ids = 0
  /\ unsaid = {} /\ astray = {}
  /\ clicks = 0 /\ acks = 0 /\ trouble = 0

-----------------------------------------------------------------------------
(* The ledger's statements, each one transaction.                          *)

(* A worker's write goes through only for the click it was started by.     *)
(* Mutant of Holds: the fence forgets the nonce.                           *)
HoldsAny(n) == row.state \in InFlight
Holds(n)    == row.nonce = n /\ row.state \in InFlight

FailPublicationFor(n, cause) ==
  row' = IF Holds(n) THEN [row EXCEPT !.state = "failed", !.cause = cause] ELSE row

(* Mutant of FailPublication: whatever the row says.                       *)
FailPublicationAny == row' = [row EXCEPT !.state = "failed", !.cause = "other"]
(* The API's, without the nonce.                                           *)
FailPublication ==
  row' = IF row.state \in InFlight THEN [row EXCEPT !.state = "failed", !.cause = "other"] ELSE row

(* Mutant of Rearm: a second click starts from a clean row.                *)
RearmClean(n, words) ==
  row' = [row EXCEPT !.state = "confirmed", !.nonce = n, !.words = words, !.job = 0,
                     !.cause = "none", !.stamp = FALSE]
(* A re-arm keeps the stored session, the remote id and, but for an        *)
(* acknowledged unknown outcome, the stamp.                                *)
Rearm(n, words) ==
  row' = [row EXCEPT !.state = "confirmed", !.nonce = n, !.words = words, !.job = 0,
                     !.cause = "none",
                     !.stamp = @ /\ row.cause # "outcome_unknown"]

(* Not fenced: a post that exists is recorded over a local failure.        *)
CanRecord(id) == \/ row.state \in InFlight \cup {"failed"}
                 \/ row.state = "posted" /\ row.remote = id
RecordPost(id) ==
  row' = IF CanRecord(id) THEN [row EXCEPT !.state = "posted", !.remote = id,
                                           !.cause = "none", !.sess = 0]
         ELSE row

(* SetPublicationJob.                                                      *)
(* Mutant of Link: the link is not fenced by the nonce.                    *)
LinkAny(n, j) == row' = [row EXCEPT !.job = j]
Link(n, j)    == row' = IF row.nonce = n THEN [row EXCEPT !.job = j] ELSE row

ActiveJobs == {n \in Clicks : job[n].st \in Active}      \* of this target: at most one
Cancel(n)  ==           \* Queue.Cancel
  IF job[n].st = "running" THEN cxl' = TRUE /\ UNCHANGED job
  ELSE /\ UNCHANGED cxl
       /\ job' = [job EXCEPT ![n].st = IF @ = "queued" THEN "cancelled" ELSE @]

-----------------------------------------------------------------------------
(* The API.  A status read and a click both begin by making the row agree  *)
(* with its job (reconcilePublication): they read the row, then the job,   *)
(* and fail the row when the job has ended without finishing it.  A click  *)
(* then claims the row, carrying nothing over, so the two stand here as    *)
(* two requests.                                                           *)
Go(r, pc)   == req' = [req EXCEPT ![r].pc = pc]
Leave(r)    == req' = [req EXCEPT ![r] = NoReq]
ApiOnly     == UNCHANGED <<plat, w, cloud, unsaid, astray>>

Look(r) ==
  /\ req[r].pc = "idle" /\ row.state \in InFlight
  /\ req' = [req EXCEPT ![r].pc = "ask", ![r].nonce = row.nonce, ![r].job = row.job]
  /\ ApiOnly /\ UNCHANGED <<row, job, cxl, counts, trouble>>

(* A row with no job is called unqueued after two minutes; no handler      *)
(* takes that long between its claim and its link.                         *)
Unqueued(n) == \A r \in Requests : req[r].n # n
(* Mutant of StillGoing: a failed job is taken to have failed its row.     *)
StillGoingOrFailed(n) == job[n].st \in Active \cup {"failed"}
StillGoing(n) == job[n].st \in Active
ReadJob(r) ==
  /\ req[r].pc = "ask"
  /\ IF req[r].job # 0
     THEN /\ UNCHANGED row
          /\ IF StillGoing(req[r].job) THEN Leave(r) ELSE Go(r, "judge")
     ELSE IF ActiveJobs # {}
          THEN (\E j \in ActiveJobs : Link(j, j)) /\ Leave(r)
          ELSE /\ UNCHANGED row
               /\ \/ Leave(r)
                  \/ Unqueued(req[r].nonce) /\ Go(r, "judge")
  /\ ApiOnly /\ UNCHANGED <<job, cxl, counts, trouble>>
Judge(r) ==
  /\ req[r].pc = "judge"
  /\ FailPublicationFor(req[r].nonce, "other")
  /\ Leave(r)
  /\ ApiOnly /\ UNCHANGED <<job, cxl, counts, trouble>>

(* ClaimPublication: one row per clip and account, re-armed only from      *)
(* failed, and from an unknown outcome only by somebody who says to have   *)
(* looked.                                                                 *)
MayClaim(ack) == \/ row.state = "none"
                 \/ row.state = "failed" /\ (row.cause = "outcome_unknown" => ack)
(* The first words are 0, whatever they are; X never compares them.        *)
NewWords == IF row.state = "none" \/ plat = "x" THEN {0} ELSE Words
Claim(r) ==
  /\ req[r].pc = "idle"
  /\ clicks < MaxClicks /\ clicks' = clicks + 1
  /\ \E words \in NewWords, ack \in BOOLEAN : MayClaim(ack) /\ Rearm(clicks', words)
  /\ req' = [req EXCEPT ![r].pc = "submit", ![r].n = clicks']
  /\ acks' = IF row.cause = "outcome_unknown" THEN acks + 1 ELSE acks
  /\ ApiOnly /\ UNCHANGED <<job, cxl, trouble>>

(* Submit is unique by target: it queues this click's job, or folds into   *)
(* an older click's that is still active; that one is retired first.       *)
Queued(r) == /\ ActiveJobs = {}
             /\ job' = [job EXCEPT ![req[r].n] = [st |-> "queued", tries |-> 0]]
             /\ Go(r, "link")
Submit(r) ==
  /\ req[r].pc \in {"submit", "resubmit"}
  /\ \/ Queued(r) /\ UNCHANGED trouble
     \/ /\ ActiveJobs # {} /\ UNCHANGED <<job, trouble>>
        /\ IF req[r].pc = "submit"
           THEN \E j \in ActiveJobs : req' = [req EXCEPT ![r].pc = "retire", ![r].job = j]
           ELSE Go(r, "giveback")
     \/ /\ trouble < MaxTrouble /\ trouble' = trouble + 1
        /\ Go(r, "giveback") /\ UNCHANGED job
  /\ ApiOnly /\ UNCHANGED <<row, cxl, counts>>
Retire(r) ==
  /\ req[r].pc = "retire"
  /\ Cancel(req[r].job) /\ Go(r, "resubmit")
  /\ ApiOnly /\ UNCHANGED <<row, counts, trouble>>
GiveBack(r) ==
  /\ req[r].pc = "giveback"
  /\ FailPublication /\ Leave(r)
  /\ ApiOnly /\ UNCHANGED <<job, cxl, counts, trouble>>
LinkJob(r) ==
  /\ req[r].pc = "link"
  /\ Link(req[r].n, req[r].n) /\ Leave(r)
  /\ ApiOnly /\ UNCHANGED <<job, cxl, counts, trouble>>

(* Cancelling a publish job revokes its click, in a second write.          *)
CancelJob(r) ==
  /\ req[r].pc = "idle" /\ trouble < MaxTrouble
  /\ \E j \in ActiveJobs :
       /\ Cancel(j)
       /\ req' = [req EXCEPT ![r] = [pc |-> "revoke", n |-> 0, nonce |-> 0, job |-> j]]
  /\ trouble' = trouble + 1
  /\ ApiOnly /\ UNCHANGED <<row, counts>>
Revoke(r) ==
  /\ req[r].pc = "revoke"
  /\ FailPublicationFor(req[r].job, "other") /\ Leave(r)
  /\ ApiOnly /\ UNCHANGED <<job, cxl, counts, trouble>>

-----------------------------------------------------------------------------
(* The worker.  An error from an adapter ends the attempt with nothing     *)
(* written when the context is cancelled, is settled with the ledger when  *)
(* waiting can help, and gives the publication up when it cannot.          *)
At(pc)     == w.pc = pc
To(pc)     == w' = [w EXCEPT !.pc = pc]
Stop(pc, cause) == w' = [NoWork EXCEPT !.pc = pc, !.k = w.k, !.cause = cause]
Ended      == Stop("ended", "none")
Retryable  == IF cxl THEN Ended ELSE Stop("settle", "other")
Final(c)   == IF cxl THEN Ended ELSE Stop("giveup", c)
Errors     == Retryable \/ Final("other")
Quiet      == UNCHANGED <<plat, req, cxl, counts>>      \* nobody else moves
NoCloud    == UNCHANGED <<cloud, unsaid, astray>>
(* A ledger write of the worker: it lands, is refused, or fails.           *)
Fails      == trouble < MaxTrouble /\ trouble' = trouble + 1
Write(fields) == Holds(w.k) /\ row' = fields /\ UNCHANGED trouble
Refused    == UNCHANGED row /\ ~Holds(w.k) /\ UNCHANGED trouble

ClaimJob(n) ==          \* the queue's dispatcher starts an attempt
  /\ At("idle") /\ job[n].st = "queued"
  /\ job' = [job EXCEPT ![n] = [st |-> "running", tries |-> @.tries + 1]]
  /\ w' = [NoWork EXCEPT !.pc = "begin", !.k = n]
  /\ UNCHANGED <<row, trouble>> /\ NoCloud /\ Quiet

(* BeginPublication: the worker's gate.                                    *)
Begin ==
  /\ At("begin")
  /\ \/ /\ Write([row EXCEPT !.state = "uploading"])
        /\ w' = [w EXCEPT !.pc = "pre", !.words = row.words, !.remote = row.remote,
                          !.final = row.final, !.had = row.stamp]
     \/ /\ Refused
        /\ Stop(IF row.state = "posted" /\ row.nonce = w.k THEN "done" ELSE "dead", "none")
     \/ UNCHANGED row /\ Fails /\ Ended
  /\ UNCHANGED job /\ NoCloud /\ Quiet

(* The token, the grant and the clip; then where this adapter starts.      *)
Entry ==
  IF plat # "x" THEN "get"
  ELSE IF w.remote = 0 THEN "open" ELSE IF w.final THEN "process" ELSE "upload"
Prepare ==
  /\ At("pre")
  /\ \/ w' = [w EXCEPT !.pc = Entry, !.u = IF plat = "x" THEN w.remote ELSE 0]
     \/ Errors                                    \* token
     \/ Stop("settle", "other") \/ Stop("giveup", "other")     \* grant, clip
  /\ UNCHANGED <<row, job, trouble>> /\ NoCloud /\ Quiet

GetSession ==
  /\ At("get")
  /\ \/ /\ w' = [w EXCEPT !.u = row.sess, !.have = row.have,
                  !.pc = IF (IF plat = "youtube" THEN row.sess ELSE w.remote) # 0
                         THEN "probe" ELSE "open"]
        /\ UNCHANGED trouble
     \/ Fails /\ Retryable
  /\ UNCHANGED <<row, job>> /\ NoCloud /\ Quiet

(* YouTube is asked what the stored session holds; one that is gone and    *)
(* may have carried bytes cannot say what became of them. One opened with  *)
(* other words is forgotten, stamp or no stamp: a PUT to it that is still  *)
(* out goes astray.                                                        *)
(* Mutant of Finished: every byte being in is taken for the post.          *)
FinishedEager(i) == up[i] \in {"full", "done"}
Finished(i)      == up[i] = "done"
StartOver == IF w.had THEN Final("outcome_unknown") ELSE To("clear")
ProbeSession ==
  /\ At("probe") /\ plat = "youtube"
  /\ \/ /\ UNCHANGED astray
        /\ \/ Errors
           \/ Finished(w.u) /\ w' = [w EXCEPT !.pc = "record", !.id = w.u]
           \/ up[w.u] = "gone" /\ StartOver
           \/ up[w.u] = "full" /\ Retryable
           \/ up[w.u] = "part" /\ w.have = w.words /\ To("stamp")
     \/ /\ up[w.u] = "part" /\ w.have # w.words /\ To("clear")
        /\ astray' = astray \cup (wire \cap {w.u})
  /\ UNCHANGED <<row, job, trouble, cloud, unsaid>> /\ Quiet

(* TikTok is asked what became of the stored publish id.                   *)
ProbePublishId ==
  /\ At("probe") /\ plat = "tiktok"
  /\ \/ Errors
     \/ Finished(w.remote) /\ w' = [w EXCEPT !.pc = "record", !.id = w.remote]
     \/ up[w.remote] = "failed" /\ To("drop")
     \/ up[w.remote] = "full" /\ To("poll")
     \/ /\ up[w.remote] = "part"
        /\ To(IF w.u = 0 /\ w.had THEN "poll"
              ELSE IF w.have # w.words /\ ~w.had THEN "drop"
              ELSE IF w.u = 0 THEN "dropid" ELSE "stamp")
  /\ UNCHANGED <<row, job, trouble>> /\ NoCloud /\ Quiet

(* What cannot complete is forgotten: the remote id, then the session.     *)
Dead == IF cxl THEN Ended ELSE Stop("dead", "none")
DropRemote ==
  /\ At("drop") \/ At("dropid")
  /\ \/ /\ Write([row EXCEPT !.remote = 0, !.final = FALSE])
        /\ To(IF At("drop") THEN "clear" ELSE "open")
     \/ Refused /\ IF At("drop") THEN Dead ELSE Retryable
     \/ UNCHANGED row /\ Fails /\ Retryable
  /\ UNCHANGED job /\ NoCloud /\ Quiet
ClearSession ==
  /\ At("clear")
  /\ \/ /\ Write([row EXCEPT !.sess = 0, !.have = 0])
        /\ IF w.cause = "none" THEN To("open") ELSE Final("other")
     \/ Refused /\ Dead
     \/ UNCHANGED row /\ Fails /\ Retryable
  /\ UNCHANGED job /\ NoCloud /\ Quiet

(* A fresh upload: nothing is sent on it before it is stored.  One medium  *)
(* of X is as good as another.                                             *)
Open ==
  /\ At("open")
  /\ \/ IF plat = "x"
        THEN w' = [w EXCEPT !.pc = "save", !.u = 1] /\ UNCHANGED <<ids, up>>
        ELSE /\ ids < MaxIds /\ ids' = ids + 1
             /\ up' = [up EXCEPT ![ids'] = "part"]
             /\ w' = [w EXCEPT !.pc = "save", !.u = ids',
                               !.remote = IF plat = "tiktok" THEN ids' ELSE 0]
     \/ Errors /\ UNCHANGED <<ids, up>>
  /\ UNCHANGED <<row, job, trouble, wire, posts, unsaid, astray>> /\ Quiet
Save ==
  /\ At("save") \/ At("address")
  /\ \/ IF plat = "youtube" \/ At("address")
        THEN Write([row EXCEPT !.sess = w.u, !.have = w.words]) /\ To("stamp")
        ELSE /\ Write([row EXCEPT !.remote = w.u, !.final = FALSE])
             /\ To(IF plat = "x" THEN "upload" ELSE "address")
     \/ Refused /\ Retryable
     \/ UNCHANGED row /\ Fails /\ Retryable
  /\ UNCHANGED job /\ NoCloud /\ Quiet

(* X: segments, finalize, and the wait for processing.                     *)
Upload ==
  /\ At("upload")
  /\ \/ To("finalized") \/ Retryable
     \/ IF cxl THEN Ended ELSE Stop("forget", "other")
  /\ UNCHANGED <<row, job, trouble>> /\ NoCloud /\ Quiet
SaveFinalized ==
  /\ At("finalized")
  /\ \/ Write([row EXCEPT !.remote = w.u, !.final = TRUE]) /\ (To("process") \/ To("stamp"))
     \/ Refused /\ Retryable
     \/ UNCHANGED row /\ Fails /\ Retryable
  /\ UNCHANGED job /\ NoCloud /\ Quiet
AwaitProcessing ==
  /\ At("process")
  /\ To("stamp") \/ Errors \/ Stop("forget", "other")
  /\ UNCHANGED <<row, job, trouble>> /\ NoCloud /\ Quiet
Forget ==               \* a medium X refused for good, or could not process
  /\ At("forget")
  /\ \/ Write([row EXCEPT !.remote = 0, !.final = FALSE]) /\ Final("other")
     \/ Refused /\ (Dead \/ Retryable)
     \/ UNCHANGED row /\ Fails /\ Retryable
  /\ UNCHANGED job /\ NoCloud /\ Quiet

(* The intent is durable before the one request that cannot be undone.     *)
(* X does not act on an old stamp.                                         *)
(* Mutant of Stamped: it posts again.                                      *)
StampedAgain == To("send")
Stamped == IF plat = "x" /\ row.stamp THEN Final("outcome_unknown") ELSE To("send")
StampFinalizing ==
  /\ At("stamp")
  /\ \/ Write([row EXCEPT !.stamp = TRUE]) /\ Stamped
     \/ Refused /\ Retryable
     \/ UNCHANGED row /\ Fails /\ Retryable
     \/ /\ plat = "tiktok" /\ UNCHANGED <<row, trouble>>   \* an earlier chunk fails,
        /\ (Errors \/ Stop("expired", "other"))        \* or its address is gone
  /\ UNCHANGED job /\ NoCloud /\ Quiet
(* TikTok's goes astray if the address it goes to is not that of the id    *)
(* the row names.                                                          *)
Send ==
  /\ At("send")
  /\ IF plat = "x"
     THEN /\ ids < MaxIds /\ ids' = ids + 1
          /\ wire' = wire \cup {ids'} /\ w' = [w EXCEPT !.pc = "wait", !.id = ids']
     ELSE UNCHANGED ids /\ wire' = wire \cup {w.u} /\ w' = [w EXCEPT !.pc = "wait", !.id = w.u]
  /\ astray' = IF plat = "tiktok" /\ w.u # w.remote THEN astray \cup {w.u} ELSE astray
  /\ UNCHANGED <<row, job, trouble, up, posts, unsaid>> /\ Quiet

(* The answer, an error that says nothing of what became of the request,   *)
(* or a refusal, which says it did nothing.                                *)
Abandon(i) == wire' = IF plat \in Late THEN wire ELSE wire \ {i}
Lost == IF plat = "x" THEN Final("outcome_unknown") ELSE Retryable
Wait ==
  /\ At("wait")
  /\ \/ /\ w.id \in posts /\ plat # "tiktok"
        /\ To("record") /\ UNCHANGED wire
     \/ /\ plat = "tiktok" /\ w.id \notin wire /\ up[w.id] # "part"
        /\ To("poll") /\ UNCHANGED wire
     \/ Abandon(w.id) /\ Lost
     \/ /\ w.id \in wire /\ wire' = wire \ {w.id}
        /\ \/ Final("other")
           \/ plat = "tiktok" /\ Stop("expired", "other")
  /\ UNCHANGED <<row, job, trouble, up, posts, ids, unsaid, astray>> /\ Quiet
ForgetAddress ==        \* TikTok's upload address has expired
  /\ At("expired")
  /\ \/ Write([row EXCEPT !.sess = 0, !.have = 0]) /\ Final("other")
     \/ Refused /\ Dead
     \/ UNCHANGED row /\ Fails /\ Retryable
  /\ UNCHANGED job /\ NoCloud /\ Quiet
Poll ==
  /\ At("poll")
  /\ \/ Finished(w.remote) /\ w' = [w EXCEPT !.pc = "record", !.id = w.remote]
     \/ up[w.remote] = "failed" /\ Stop("drop", "other")
     \/ Errors
  /\ UNCHANGED <<row, job, trouble>> /\ NoCloud /\ Quiet

Record ==
  /\ At("record")
  /\ \/ /\ RecordPost(w.id) /\ UNCHANGED <<unsaid, trouble>>
        /\ Stop(IF CanRecord(w.id) THEN "done" ELSE "ended", "none")
     \/ UNCHANGED row /\ Fails /\ Ended /\ unsaid' = unsaid \cup {w.id}
  /\ UNCHANGED <<job, cloud, astray>> /\ Quiet

(* giveUp and settle: the row is failed, or noted and left to the queue's  *)
(* next attempt.                                                           *)
GiveUp ==
  /\ At("giveup")
  /\ \/ FailPublicationFor(w.k, w.cause) /\ UNCHANGED trouble
     \/ UNCHANGED row /\ Fails
  /\ Stop("dead", "none")
  /\ UNCHANGED job /\ NoCloud /\ Quiet
LastTry == job[w.k].tries >= MaxAttempts
Settle ==
  /\ At("settle")
  /\ \/ /\ IF LastTry THEN FailPublicationFor(w.k, "other") ELSE UNCHANGED row
        /\ UNCHANGED trouble
        /\ Stop(IF Holds(w.k) THEN "ended" ELSE "dead", "none")
     \/ UNCHANGED row /\ Fails /\ Ended
  /\ UNCHANGED job /\ NoCloud /\ Quiet

(* Queue.finish: done, permanent, or an error that counts against the      *)
(* attempts.                                                               *)
Outcome ==
  IF At("done") THEN "done" ELSE IF cxl THEN "cancelled"
  ELSE IF At("dead") \/ LastTry THEN "failed" ELSE "queued"
FinishJob ==
  /\ w.pc \in {"done", "dead", "ended"}
  /\ job' = [job EXCEPT ![w.k].st = Outcome]
  /\ w' = NoWork /\ cxl' = FALSE
  /\ UNCHANGED <<plat, row, req, counts, trouble>> /\ NoCloud

-----------------------------------------------------------------------------
(* The platform, and the process dying and coming back.                    *)
CloudOnly == UNCHANGED <<plat, row, job, req, w, cxl, unsaid, astray, ids, counts, trouble>>
Receive(i) ==           \* the last request arrives
  /\ i \in wire /\ wire' = wire \ {i}
  /\ IF plat = "x" THEN posts' = posts \cup {i} /\ UNCHANGED up
     ELSE up' = [up EXCEPT ![i] = IF @ = "part" THEN "full" ELSE @] /\ UNCHANGED posts
  /\ CloudOnly
Process(i) ==           \* every byte is in: the post is made, or TikTok declines
  /\ up[i] = "full" /\ plat # "x"
  /\ \/ up' = [up EXCEPT ![i] = "done"] /\ posts' = posts \cup {i}
     \/ plat = "tiktok" /\ up' = [up EXCEPT ![i] = "failed"] /\ UNCHANGED posts
  /\ UNCHANGED wire /\ CloudOnly
Expire(i) ==            \* sessions are forgotten, unfinished publish ids fail
  /\ \/ plat = "youtube" /\ up[i] \in {"part", "done"} /\ up' = [up EXCEPT ![i] = "gone"]
     \/ plat = "tiktok" /\ up[i] = "part" /\ up' = [up EXCEPT ![i] = "failed"]
  /\ UNCHANGED <<wire, posts>> /\ CloudOnly

(* A crash and the restart: Recover requeues what was running.             *)
Crash ==
  /\ trouble < MaxTrouble /\ trouble' = trouble + 1
  /\ w' = NoWork /\ cxl' = FALSE /\ req' = [r \in Requests |-> NoReq]
  /\ job' = [n \in Clicks |->
       IF job[n].st # "running" THEN job[n]
       ELSE [job[n] EXCEPT !.st = IF job[n].tries >= MaxAttempts THEN "failed" ELSE "queued"]]
  /\ wire' = IF plat \in Late THEN wire ELSE {}
  /\ UNCHANGED <<plat, row, up, posts, unsaid, astray, ids, counts>>

Api(r) == \/ ReadJob(r) \/ Judge(r) \/ Submit(r)
          \/ Retire(r) \/ GiveBack(r) \/ LinkJob(r) \/ Revoke(r)
Work   == \/ Begin \/ Prepare \/ GetSession \/ ProbeSession \/ ProbePublishId \/ DropRemote
          \/ ClearSession \/ Open \/ Save \/ Upload \/ SaveFinalized \/ AwaitProcessing
          \/ Forget \/ StampFinalizing \/ Send \/ Wait \/ ForgetAddress \/ Poll
          \/ Record \/ GiveUp \/ Settle \/ FinishJob
Next ==
  \/ \E r \in Requests : Look(r) \/ Claim(r) \/ CancelJob(r) \/ Api(r)
  \/ \E n \in Clicks : ClaimJob(n)
  \/ Work
  \/ \E i \in Ids : Receive(i) \/ Process(i) \/ Expire(i)
  \/ Crash
Spec == Init /\ [][Next]_vars

(* Handlers and the worker run, the queue dispatches, somebody looks at    *)
(* the publication now and then, and two minutes pass.                     *)
Fairness ==
  /\ \A r \in Requests : WF_vars(Api(r)) /\ WF_vars(Look(r))
  /\ \A n \in Clicks : WF_vars(ClaimJob(n))
  /\ WF_vars(Work)
  /\ \A r \in Requests : SF_vars(ReadJob(r) /\ req'[r].pc = "judge")
FairSpec == Spec /\ Fairness

-----------------------------------------------------------------------------
(* The types of all variables.                                             *)
Stages   == {"idle", "begin", "pre", "get", "probe", "drop", "dropid", "clear", "open", "save",
             "address", "upload", "finalized", "process", "forget", "stamp", "send", "wait",
             "expired", "poll", "record", "giveup", "settle", "done", "dead", "ended"}
Attempts == [pc : Stages, k : 0 .. MaxClicks, words : Words, u : 0 .. MaxIds, have : Words,
             remote : 0 .. MaxIds, final : BOOLEAN, had : BOOLEAN, id : 0 .. MaxIds,
             cause : Causes]
Steps    == {"idle", "ask", "judge", "submit", "resubmit", "retire", "giveback", "link", "revoke"}
Handlers == [pc : Steps, n : 0 .. MaxClicks, nonce : 0 .. MaxClicks, job : 0 .. MaxClicks]
Entries  == [st : {"none", "done", "failed", "cancelled"} \cup Active, tries : 0 .. MaxAttempts]
Uploads  == {"none", "part", "full", "done", "failed", "gone"}
CountTypes == /\ ids \in 0 .. MaxIds /\ clicks \in 0 .. MaxClicks
              /\ acks \in 0 .. clicks /\ trouble \in 0 .. MaxTrouble
RowTypes   == plat \in Platforms /\ row \in Rows /\ row.nonce <= clicks
JobTypes   == job \in [Clicks -> Entries]
ReqTypes   == /\ req \in [Requests -> Handlers]
              /\ \A r \in Requests : req[r].n <= clicks /\ req[r].nonce <= clicks
WorkTypes  == /\ w \in Attempts /\ w.k <= clicks /\ (w.k # 0 <=> w.pc # "idle")
              /\ (w.k # 0 => job[w.k].st = "running") /\ cxl \in BOOLEAN /\ (cxl => w.k # 0)
CloudTypes == /\ up \in [Ids -> Uploads] /\ wire \subseteq 1 .. ids
              /\ posts \subseteq 1 .. ids /\ unsaid \subseteq posts
              /\ astray \subseteq 0 .. MaxIds
TypeOK == CountTypes /\ RowTypes /\ JobTypes /\ ReqTypes /\ WorkTypes /\ CloudTypes

(* docs/CLIP-PUBLISHING.md, "Never twice": however clicks, cancels,        *)
(* retries, crashes and lost answers fall, the platform holds one post of  *)
(* the clip, and one more for each time a person was told the outcome is   *)
(* unknown and said to have looked.  Violated: what went astray is posted  *)
(* beside what the row answers for (MCPublish_twice.cfg).                  *)
NeverTwice == Cardinality(posts) <= 1 + acks

(* What is kept of it: a second post is made only by a request that went   *)
(* astray, a TikTok chunk sent to an address that is not the stored id's   *)
(* or a YouTube PUT still out when new words make the worker forget its    *)
(* session. Every other way of clicking, cancelling, crashing, losing an   *)
(* answer or a ledger write leaves one post.                               *)
TwiceOnlyAstray == Cardinality(posts \ astray) <= 1 + acks

(* What makes that so: until somebody acknowledges an unknown outcome,     *)
(* anything the platform holds or may still act on, and that did not go    *)
(* astray, is recorded as posted, or bears the stamp and, where the        *)
(* platform can be asked, is still named by the row.                       *)
Out  == posts \cup {i \in wire : plat = "x" \/ up[i] = "part"} \cup {i \in Ids : up[i] = "full"}
Owed == Out \ astray
NothingForgotten ==
  acks = 0 /\ row.state # "posted" =>
    \A i \in Owed : row.stamp /\ (plat = "x" \/ i \in {row.sess, row.remote})

(* A row that says posted names a post that exists.                        *)
PostedIsThere == row.state = "posted" => row.remote \in posts

(* Once the ledger says posted it says so for good, and of the same post.  *)
PostedIsFinal ==
  [][row.state = "posted" => row'.state = "posted" /\ row'.remote = row.remote]_vars

(* A row is linked to no job but its own click's.                          *)
LinkIsOwn == row.job \in {0, row.nonce}

(* The row tells the truth about the clip: a row that says posted names a  *)
(* post there is, and the job it is linked to is that of its own click.    *)
RowIsTrue == TypeOK /\ PostedIsThere /\ LinkIsOwn

(* A status read never fails a publication whose own job is still going.   *)
ReconcileSparesTheLiving ==
  [][\A r \in Requests :
       req[r].pc = "judge" /\ req'[r].pc # "judge" /\ row.state \in InFlight
         /\ row'.state = "failed" => job[row.nonce].st \notin Active]_vars

(* A click ends: posted, or failed and open to the next click.             *)
ClickEnds == row.state \in InFlight ~> row.state \notin InFlight

(* The worker's comment on a post it could not record: a retry finds the   *)
(* stored session or remote id and resolves to the same post.  So the      *)
(* publication does not end as one whose outcome nobody knows.  Violated   *)
(* for X, whose retry finds the stamp and never the id it was answered.    *)
AnswerIsKept == unsaid # {} => row.cause # "outcome_unknown"

(* docs/CLIP-PUBLISHING.md:78: TikTok's publish id and upload address are  *)
(* stored before the first chunk, and a retry polls that id.  So what goes *)
(* to a stored address is the upload the worker then asks about, or one    *)
(* that can no longer complete.  Violated: ClearSession fails after the id *)
(* was dropped, Save fails on the next address, and the row pairs the new  *)
(* id with the old address; a click with the old words sends there.        *)
AddressIsOfTheId ==
  plat = "tiktok" /\ At("send") => w.u = w.remote \/ up[w.u] = "failed"
=============================================================================

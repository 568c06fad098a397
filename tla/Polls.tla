------------------------------- MODULE Polls -------------------------------
(***************************************************************************)
(* One poll of internal/polls: the votes typed in chat, the verdicts and   *)
(* moderation that arrive later, the native polls of the platform that     *)
(* mirror it, the clock that closes it, and a crash.  Everything the code  *)
(* does under Engine.mu is one action; the calls to the platform are       *)
(* outside it and answer in any order.  Every structure is built anew by   *)
(* Start, so one poll stands for each of them.                             *)
(*                                                                         *)
(* A message is the number of its arrival, which is also the vote's seq:   *)
(* the option it names is a function of it and does not appear.            *)
(***************************************************************************)
EXTENDS Integers, Sequences

CONSTANTS Viewers,     \* user ids of one platform
          Chats,       \* connected accounts of that platform
          MaxMsgs,     \* bound on the messages offered
          MaxTally     \* bound on the votes cast in one native poll

ASSUME BoundsAssumption == MaxMsgs \in Nat /\ MaxTally \in Nat

Msgs == 1..MaxMsgs
None == 0
NoCount == -1
Readers == {"periodic", "final"}

VARIABLES
  state,      \* of the poll; "lost" once the process died with it
  row,        \* the stored row's state
  due,        \* EndsAt has passed
  n,          \* messages offered so far: a.seq
  said,       \* said[m]: who typed message m, and in which chat
  votes,      \* a.votes; its inverse a.byMsg is not kept
  aside,      \* messages whose vote or held vote carries native
  pending,    \* a.pending
  expired,    \* the held votes whose deadline passed
  banned,     \* a.banned
  creating,   \* the goroutine in Mirror.Start: off, calling, done
  status,     \* what became of the native poll of each chat
  count,      \* a.mirrorVotes
  native,     \* a.native
  fallback,   \* a.fallback
  final,      \* a.mirrorFinal
  reading,    \* a.mirrorReading
  mirrorOver, \* a.mirrorBy has passed
  reads,      \* reads[r]: the goroutine in readMirrors
  platform,   \* the native poll of each chat, on the platform
  tally,      \* and the votes cast there
  fate,       \* what became of each message, for the properties
  after       \* messages typed once their chat's native poll was over

chatVars == <<n, said, votes, aside, pending, expired, banned, fate, after>>
mirrorVars == <<creating, status, count, native, fallback, final, reading, reads>>
clockVars == <<due, mirrorOver>>
outside == <<platform, tally>>
vars == <<state, row, chatVars, mirrorVars, clockVars, outside>>

Running == state \in {"open", "closing"}
Idle == [on |-> FALSE, ask |-> {}, got |-> [c \in Chats |-> [kind |-> "none", n |-> NoCount]]]
(* A reader sets out: it reads the chats that are mirrored at this moment. *)
Reading(chats) == [Idle EXCEPT !.on = TRUE, !.ask = chats]
Mirrored == {c \in Chats : status[c] = "mirrored"}

Message == [who : Viewers, chat : Chats]
Fate == {"judging", "cleared", "out", "voided"}
VoteTypes ==
  /\ state \in {"none", "open", "closing", "ended", "lost"}
  /\ row \in {"none", "open", "ended", "interrupted"}
  /\ due \in BOOLEAN /\ mirrorOver \in BOOLEAN
  /\ n \in 0..MaxMsgs
  /\ said \in [1..n -> Message]
  /\ votes \in [Viewers -> 0..n]
  /\ aside \subseteq 1..n /\ pending \subseteq 1..n /\ expired \subseteq pending
  /\ banned \subseteq Viewers
  /\ fate \in [1..n -> Fate]
  /\ after \subseteq 1..n

Answering == [kind : {"none", "live", "over", "error"}, n : NoCount..MaxTally]
Reader == [on : BOOLEAN, ask : SUBSET Chats, got : [Chats -> Answering]]
MirrorTypes ==
  /\ creating \in {"off", "calling", "done"}
  /\ status \in [Chats -> {"none", "mirrored", "stopped", "failed"}]
  /\ count \in [Chats -> NoCount..MaxTally]
  /\ native \subseteq Chats /\ fallback \subseteq Chats
  /\ final \in BOOLEAN /\ reading \in BOOLEAN
  /\ reads \in [Readers -> Reader]
  /\ platform \in [Chats -> {"none", "running", "closed"}]
  /\ tally \in [Chats -> 0..MaxTally]

TypeOK == VoteTypes /\ MirrorTypes

Init ==
  /\ state = "none" /\ row = "none"
  /\ due = FALSE /\ mirrorOver = FALSE
  /\ n = 0 /\ said = <<>> /\ fate = <<>> /\ after = {}
  /\ votes = [w \in Viewers |-> None]
  /\ aside = {} /\ pending = {} /\ expired = {} /\ banned = {}
  /\ creating = "off" /\ final = TRUE /\ reading = FALSE
  /\ status = [c \in Chats |-> "none"]
  /\ count = [c \in Chats |-> NoCount]
  /\ native = {} /\ fallback = {}
  /\ reads = [r \in Readers |-> Idle]
  /\ platform = [c \in Chats |-> "none"]
  /\ tally = [c \in Chats |-> 0]

-----------------------------------------------------------------------------
(* The votes.                                                              *)

(* Start: the row is stored, the native polls are created in the           *)
(* background where they were asked for.                                   *)
Start(mirror) ==
  /\ state = "none"
  /\ state' = "open" /\ row' = "open"
  /\ final' = ~mirror
  /\ creating' = IF mirror THEN "calling" ELSE "off"
  /\ UNCHANGED <<chatVars, status, count, native, fallback, reading, reads, clockVars, outside>>

(* The later of two votes of one viewer stays, whichever is applied last.  *)
\* Mutant of ApplyVote: the vote applied last wins.
ApplyVoteUnordered(w, m) == votes' = [votes EXCEPT ![w] = m]
ApplyVote(w, m) ==
  votes' = IF votes[w] > m THEN votes ELSE [votes EXCEPT ![w] = m]

\* Mutant of Accepts: a banned viewer is heard again.
AcceptsBanned(w) == state = "open" /\ ~due
Accepts(w) == state = "open" /\ ~due /\ w \notin banned

(* A vote typed in chat c, which automod lets stand or still judges.  One  *)
(* it blocks leaves nothing behind.                                        *)
Offer(w, c, verdict) ==
  LET m == n + 1 IN
  /\ n < MaxMsgs /\ Accepts(w)
  /\ n' = m
  /\ said' = Append(said, [who |-> w, chat |-> c])
  /\ after' = IF platform[c] = "closed" THEN after \cup {m} ELSE after
  /\ fate' = Append(fate, verdict)
  /\ aside' = IF c \in native THEN aside \cup {m} ELSE aside
  /\ \/ verdict = "cleared" /\ ApplyVote(w, m) /\ UNCHANGED pending
     \/ verdict = "judging" /\ pending' = pending \cup {m} /\ UNCHANGED votes
  /\ UNCHANGED <<state, row, expired, banned, mirrorVars, clockVars, outside>>

(* The model's verdict on a held message, in time or not.                  *)
Judge(m, clear) ==
  LET counts == clear /\ m \notin expired /\ said[m].who \notin banned IN
  /\ Running /\ m \in pending
  /\ pending' = pending \ {m}
  /\ expired' = expired \ {m}
  /\ fate' = [fate EXCEPT ![m] = IF counts THEN "cleared" ELSE "out"]
  /\ IF counts THEN ApplyVote(said[m].who, m) ELSE UNCHANGED votes
  /\ UNCHANGED <<state, row, n, said, aside, banned, after, mirrorVars, clockVars, outside>>

(* A moderator, or the platform, deletes or hides message m.               *)
RetractMessage(m) ==
  LET w == said[m].who IN
  /\ Running /\ fate[m] \in {"judging", "cleared"}
  /\ pending' = pending \ {m}
  /\ expired' = expired \ {m}
  /\ votes' = IF votes[w] = m THEN [votes EXCEPT ![w] = None] ELSE votes
  /\ fate' = [fate EXCEPT ![m] = IF votes[w] = m THEN "voided" ELSE "out"]
  /\ UNCHANGED <<state, row, n, said, aside, banned, after, mirrorVars, clockVars, outside>>

(* A ban or a time-out: the vote is void and so are those still held.      *)
RetractAuthor(w) ==
  LET hers == {m \in pending : said[m].who = w} IN
  /\ Running /\ w \notin banned
  /\ banned' = banned \cup {w}
  /\ votes' = [votes EXCEPT ![w] = None]
  /\ pending' = pending \ hers
  /\ expired' = expired \ hers
  /\ UNCHANGED <<state, row, n, said, aside, fate, after, mirrorVars, clockVars, outside>>

-----------------------------------------------------------------------------
(* The native polls.                                                       *)

(* Mirror.Start creates one chat's poll, or is refused; an answer that is  *)
(* lost leaves behind a poll nobody knows of.                              *)
CreateNative(c) ==
  /\ creating = "calling" /\ status[c] = "none"
  /\ \/ status' = [status EXCEPT ![c] = "mirrored"] /\ platform' = [platform EXCEPT ![c] = "running"]
     \/ status' = [status EXCEPT ![c] = "failed"] /\ UNCHANGED platform
     \/ status' = [status EXCEPT ![c] = "failed"] /\ platform' = [platform EXCEPT ![c] = "running"]
  /\ UNCHANGED <<state, row, chatVars, creating, count, native, fallback, final, reading, reads,
                 clockVars, tally>>

(* startMirror with all the answers, under mu.  A vote typed before its    *)
(* chat's native poll existed is moved to the native side.  A poll that    *)
(* closed meanwhile has its native polls ended at once.                    *)
\* Mutant of Typed: only what was counted is moved, what was held is not.
TypedCounted(chats) == {m \in {votes[w] : w \in Viewers} \ {None} : said[m].chat \in chats}
Typed(chats) == {m \in ({votes[w] : w \in Viewers} \ {None}) \cup pending : said[m].chat \in chats}

\* Mutant of StartMirror: a poll that closed meanwhile keeps what was made.
StartMirrorForgets ==
  /\ creating = "calling" /\ \A c \in Chats : status[c] # "none"
  /\ creating' = "done"
  /\ IF state = "open"
     THEN /\ native' = Mirrored
          /\ aside' = aside \cup Typed(Mirrored)
          /\ final' = (Mirrored = {})
     ELSE UNCHANGED <<native, aside, final>>
  /\ UNCHANGED <<state, row, n, said, votes, pending, expired, banned, fate, after,
                 status, count, fallback, reading, reads, clockVars, outside>>
StartMirror ==
  /\ creating = "calling" /\ \A c \in Chats : status[c] # "none"
  /\ creating' = "done"
  /\ IF state = "open"
     THEN /\ native' = Mirrored
          /\ aside' = aside \cup Typed(Mirrored)
          /\ final' = (Mirrored = {})
          /\ UNCHANGED reads
     ELSE /\ reads' = [reads EXCEPT !["final"] = Reading(Mirrored)]
          /\ UNCHANGED <<native, aside, final>>
  /\ UNCHANGED <<state, row, n, said, votes, pending, expired, banned, fate, after,
                 status, count, fallback, reading, clockVars, outside>>

(* What the platform may answer: the count so far, or an error; that it    *)
(* has no count of a running poll (YouTube) changes as little as an error. *)
(* Asked to end it, it ends it and says so, ends it and the answer is      *)
(* lost, or fails, and the count is read all the same (Twitch).            *)
Answer(kind, k, p) == [a |-> [kind |-> kind, n |-> k], p |-> p]
Answers(c, end) ==
  LET p == platform[c]
      now == IF p = "running" THEN "live" ELSE "over" IN
  {Answer("error", NoCount, p), Answer(now, tally[c], p)}
    \cup IF end THEN {Answer("over", tally[c], "closed"), Answer("error", NoCount, "closed")}
      ELSE {}

(* One call of readMirrors: the platform is asked about one chat.          *)
ReadNative(r, c) ==
  /\ reads[r].on /\ c \in reads[r].ask /\ reads[r].got[c].kind = "none"
  /\ \E x \in Answers(c, r = "final") :
       /\ reads' = [reads EXCEPT ![r].got[c] = x.a]
       /\ platform' = [platform EXCEPT ![c] = x.p]
  /\ UNCHANGED <<state, row, chatVars, creating, status, count, native, fallback, final, reading,
                 clockVars, tally>>

(* readMirrors with all the answers, under mu: a chat that still counts as *)
(* mirrored takes them.  After the poll ended this changes a record that   *)
(* nobody reads any more.                                                  *)
Applies(r) == {c \in reads[r].ask : status[c] = "mirrored"}
Lost(r) == {c \in Applies(r) : r = "final" /\ reads[r].got[c].kind = "error"}
Stopped(r) == {c \in Applies(r) : r = "periodic" /\ reads[r].got[c].kind = "over"}
NewCount(r, c) ==
  IF c \in Lost(r) THEN NoCount
  ELSE IF c \in Applies(r) /\ reads[r].got[c].n # NoCount THEN reads[r].got[c].n
  ELSE count[c]
\* Mutant of FallsBack: the chat of a lost final count is not counted again.
FallsBackNever(r) == fallback
FallsBack(r) == fallback \cup Lost(r)

ApplyReads(r) ==
  /\ reads[r].on /\ \A c \in reads[r].ask : reads[r].got[c].kind # "none"
  /\ reads' = [reads EXCEPT ![r] = Idle]
  /\ status' = [c \in Chats |-> IF c \in Lost(r) THEN "failed"
                                ELSE IF c \in Stopped(r) THEN "stopped" ELSE status[c]]
  /\ count' = [c \in Chats |-> NewCount(r, c)]
  /\ fallback' = FallsBack(r)
  /\ native' = native \ (Lost(r) \cup Stopped(r))
  /\ reading' = FALSE
  /\ final' = (final \/ r = "final")
  /\ UNCHANGED <<state, row, chatVars, creating, clockVars, outside>>

-----------------------------------------------------------------------------
(* The clock.                                                              *)

(* beginCloseLocked: what is mirrored is asked to end, and to count.       *)
BeginClose ==
  /\ state' = "closing"
  /\ IF creating = "done" /\ ~final
     THEN reads' = [reads EXCEPT !["final"] = Reading(Mirrored)]
     ELSE UNCHANGED reads
  /\ UNCHANGED <<row, creating, status, count, native, fallback, final, reading, clockVars, outside>>

(* End, up to its own call of Tick.                                        *)
End == state = "open" /\ BeginClose /\ UNCHANGED chatVars

Kept == pending \ expired
(* A vote is held for four seconds and no more are made once the poll       *)
(* closes, so closeBy, four seconds after that, never decides.             *)
Judged == Kept = {}
\* Mutant of Merged: the native polls are waited for without end.
MergedFinal == final
Merged == final \/ mirrorOver

(* Tick drops the holds that expired, then does one of these.              *)
DropExpired ==
  /\ pending' = Kept /\ expired' = {}
  /\ UNCHANGED <<n, said, votes, aside, banned, fate, after>>

TickOpen ==
  /\ state = "open" /\ ~due
  /\ DropExpired
  /\ \/ /\ creating = "done" /\ ~reading
        /\ reading' = TRUE
        /\ reads' = [reads EXCEPT !["periodic"] = Reading(Mirrored)]
     \/ UNCHANGED <<reading, reads>>
  /\ UNCHANGED <<state, row, creating, status, count, native, fallback, final, clockVars, outside>>

TickClose ==
  /\ state = "open" /\ due /\ ~(Judged /\ final)
  /\ DropExpired /\ BeginClose

TickWait ==
  /\ state = "closing" /\ ~(Judged /\ Merged)
  /\ DropExpired
  /\ UNCHANGED <<state, row, mirrorVars, clockVars, outside>>

(* finaliseLocked: what is still held is no vote, and the result is        *)
(* written, or cannot be, which is logged.                                 *)
Finalise ==
  /\ \/ state = "open" /\ due /\ Judged /\ final
     \/ state = "closing" /\ Judged /\ Merged
  /\ state' = "ended"
  /\ row' \in {"ended", row}
  /\ pending' = {} /\ expired' = {}
  /\ UNCHANGED <<n, said, votes, aside, banned, fate, after, mirrorVars, clockVars, outside>>

Tick == TickOpen \/ TickClose \/ TickWait \/ Finalise

(* Time passes: holds expire in the order they were made, all of them      *)
(* before the ten seconds a closing poll gives its native polls are over.  *)
EndsAt == state = "open" /\ ~due /\ due' = TRUE
          /\ UNCHANGED <<state, row, chatVars, mirrorVars, mirrorOver, outside>>
HoldExpires(m) ==
  /\ m \in Kept /\ \A k \in Kept : k >= m
  /\ expired' = expired \cup {m}
  /\ UNCHANGED <<state, row, n, said, votes, aside, pending, banned, fate, after,
                 mirrorVars, clockVars, outside>>
MirrorBy == state = "closing" /\ Kept = {} /\ ~mirrorOver /\ mirrorOver' = TRUE
            /\ UNCHANGED <<state, row, chatVars, mirrorVars, due, outside>>

-----------------------------------------------------------------------------
(* The platform and the process.                                           *)

Poll(c) == platform[c] = "running" /\ tally[c] < MaxTally
           /\ tally' = [tally EXCEPT ![c] = @ + 1]
           /\ UNCHANGED <<state, row, chatVars, mirrorVars, clockVars, platform>>
StopNative(c) == platform[c] = "running" /\ platform' = [platform EXCEPT ![c] = "closed"]
                 /\ UNCHANGED <<state, row, chatVars, mirrorVars, clockVars, tally>>

Crash ==
  /\ row = "open" /\ state # "lost"
  /\ state' = "lost"
  /\ n' = 0 /\ said' = <<>> /\ fate' = <<>> /\ after' = {} /\ votes' = [w \in Viewers |-> None]
  /\ aside' = {} /\ pending' = {} /\ expired' = {} /\ banned' = {}
  /\ creating' = "off" /\ reads' = [r \in Readers |-> Idle]
  /\ status' = [c \in Chats |-> "none"] /\ count' = [c \in Chats |-> NoCount]
  /\ native' = {} /\ fallback' = {} /\ final' = TRUE /\ reading' = FALSE
  /\ UNCHANGED <<row, clockVars, outside>>

(* InterruptOpenPolls, at the next start of the server.                    *)
Restart ==
  /\ state = "lost" /\ row = "open" /\ row' = "interrupted"
  /\ UNCHANGED <<state, chatVars, mirrorVars, clockVars, outside>>

Next ==
  \/ \E mirror \in BOOLEAN : Start(mirror)
  \/ \E w \in Viewers, c \in Chats, v \in {"cleared", "judging"} : Offer(w, c, v)
  \/ \E m \in 1..n : \/ \E clear \in BOOLEAN : Judge(m, clear)
                     \/ RetractMessage(m) \/ HoldExpires(m)
  \/ \E w \in Viewers : RetractAuthor(w)
  \/ \E c \in Chats : CreateNative(c) \/ Poll(c) \/ StopNative(c)
  \/ \E r \in Readers : ApplyReads(r) \/ \E c \in Chats : ReadNative(r, c)
  \/ StartMirror \/ End \/ Tick \/ EndsAt \/ MirrorBy
  \/ Crash \/ Restart

Spec == Init /\ [][Next]_vars

(* The ticker ticks, time passes, and what was answered is applied.        *)
(* Nothing makes the platform answer, and nothing makes a verdict, a vote  *)
(* or an End come.                                                         *)
Fairness ==
  /\ WF_vars(Tick) /\ WF_vars(EndsAt) /\ WF_vars(MirrorBy)
  /\ WF_vars(\E m \in 1..n : HoldExpires(m))
  /\ WF_vars(StartMirror) /\ \A r \in Readers : WF_vars(ApplyReads(r))
  /\ WF_vars(Restart)
FairSpec == Spec /\ Fairness

-----------------------------------------------------------------------------
(* Properties.                                                             *)

Counted == {m \in Msgs : /\ \E w \in Viewers : votes[w] = m
                         /\ m \in aside => said[m].chat \in fallback}
NativeCounts(c) == status[c] \in {"mirrored", "stopped"} /\ count[c] > 0

(* Each viewer's one vote is the last they cast that automod let stand, in *)
(* whatever order verdicts and moderation come; only a vote older than one *)
(* a moderator voided may be missing, and a banned viewer has none.        *)
TheLastStandingVoteCounts ==
  state # "lost" =>
    \A w \in Viewers :
      LET hers == {m \in 1..n : said[m].who = w /\ fate[m] = "cleared"}
          voided == {k \in 1..n : said[k].who = w /\ fate[k] = "voided"} IN
      /\ votes[w] \in hers \cup {None}
      /\ w \in banned => votes[w] = None
      /\ w \notin banned =>
           \A m \in hers : m <= votes[w] \/ \E k \in voided : k > m

VotesAreTrue == TypeOK /\ TheLastStandingVoteCounts

(* A removed vote voids that vote, and an earlier vote does not come back  *)
(* (polls.go:24, docs/POLLS.md:68).  Violated: a vote held by automod when *)
(* the later one was cast is applied once that one is gone.                *)
VoidedStaysVoid ==
  \A k \in 1..n : fate[k] = "voided" =>
    votes[said[k].who] = None \/ votes[said[k].who] > k

(* Where a native poll's votes are in the result, a typed vote of its chat *)
(* is too only if it came after that native poll was over                  *)
(* (docs/POLLS.md:132-133).  Violated (MCPolls_late.cfg): a native poll    *)
(* whose creation is answered after the close sets no typed vote aside,    *)
(* and its final count is merged beside them (startMirror, Tick).          *)
NeverCountedTwice ==
  \A m \in Counted : NativeCounts(said[m].chat) => m \in after

(* A chat is counted once if its native poll was known of while the poll   *)
(* was open, or stopped on the platform: the native votes in the result, a *)
(* typed one only if it came after that native poll was over.              *)
CountedOnce ==
  \A m \in Counted : LET c == said[m].chat IN
    NativeCounts(c) /\ c \in native \cup {d \in Chats : status[d] = "stopped"} => m \in after

(* And it is counted at all: once the native polls have answered, a vote   *)
(* is left out of the result only where the native poll's count is in it.  *)
NoChatIsLost ==
  [][state # "ended" /\ state' = "ended" /\ final =>
       \A w \in Viewers : votes[w] # None /\ votes[w] \notin Counted =>
         count[said[votes[w]].chat] # NoCount]_vars

(* Once, unless its native poll appeared after the close, and not less     *)
(* than once.                                                              *)
EveryChatCountsOnce == []CountedOnce /\ NoChatIsLost

(* A poll that started ends, whatever the chats and the platforms do or    *)
(* leave undone; one lost with the process is marked interrupted by the    *)
(* next.                                                                   *)
EveryPollEnds == Running ~> (state = "ended" \/ row = "interrupted")

(* A native poll the server knows of is asked to end, unless it stopped or *)
(* the process died, however late the answer that it was created came.     *)
NativePollsAreEnded ==
  \A c \in Chats :
    (status[c] = "mirrored" /\ creating = "done") ~>
      (status[c] # "mirrored" \/ final \/ (reads["final"].on /\ c \in reads["final"].ask))
=============================================================================

------------------------------ MODULE PollsProofs ------------------------------
(***************************************************************************)
(* The votes of one poll, and that each chat is counted once and counted   *)
(* at all, for any viewers, chats, messages and tallies.                   *)
(***************************************************************************)
EXTENDS Polls, SequenceTheorems, TLAPS

(* A vote that is held has not been judged yet.                            *)
HeldAreUnjudged == \A m \in pending : fate[m] = "judging"

(* The vote of w is the last of hers that stands.                          *)
LastStands(w) ==
  /\ votes[w] # None => said[votes[w]].who = w /\ fate[votes[w]] = "cleared"
  /\ w \in banned => votes[w] = None
  /\ w \notin banned =>
       \A m \in 1..n : said[m].who = w /\ fate[m] = "cleared" =>
         \/ m <= votes[w]
         \/ \E k \in 1..n : said[k].who = w /\ fate[k] = "voided" /\ k > m

VotesStand == HeldAreUnjudged /\ \A w \in Viewers : LastStands(w)

(* What is known of a chat's native poll goes with the stage of its        *)
(* creation, and only a chat that was mirrored is read.                    *)
Stages ==
  /\ creating # "done" =>
       /\ native = {} /\ fallback = {} /\ aside = {}
       /\ \A r \in Readers : ~reads[r].on
       /\ \A c \in Chats : status[c] # "stopped"
  /\ creating = "off" => \A c \in Chats : status[c] = "none"
  /\ creating = "done" => \A c \in Chats : status[c] # "none"
  /\ state = "none" => creating = "off"
  /\ state = "open" /\ creating = "done" =>
       \A c \in Chats : status[c] = "mirrored" => c \in native
  /\ \A c \in native : status[c] = "mirrored"
  /\ \A c \in fallback : status[c] = "failed"
  /\ \A c \in Chats : status[c] = "mirrored" => platform[c] # "none"
  /\ \A c \in Chats : status[c] = "stopped" => platform[c] = "closed"

(* An answer says what the platform said: a count, and that the poll is    *)
(* over only when it is.                                                   *)
Answered ==
  \A r \in Readers, c \in Chats : reads[r].on /\ c \in reads[r].ask =>
    /\ reads[r].got[c].kind \in {"live", "over"} => reads[r].got[c].n # NoCount
    /\ r = "periodic" /\ status[c] = "mirrored" =>
         /\ c \in native
         /\ reads[r].got[c].kind = "over" => platform[c] = "closed"

(* A message counted or held in a chat that is mirrored was set aside, or  *)
(* typed once the native poll was over.                                    *)
SetAside ==
  \A m \in 1..n : LET c == said[m].chat IN
    (m \in pending \/ \E w \in Viewers : votes[w] = m) =>
      (c \in native \/ status[c] = "stopped" => m \in aside \/ m \in after)

(* And what was set aside is in the native poll, in its count, or counted  *)
(* here again.                                                             *)
Accounted ==
  /\ \A m \in aside : LET c == said[m].chat IN
       c \in native \/ c \in fallback \/ (status[c] = "stopped" /\ count[c] # NoCount)
  /\ reads["final"].on => native \subseteq reads["final"].ask
  /\ final => \A c \in native : count[c] # NoCount

-----------------------------------------------------------------------------
(* Appending one message leaves the others alone.                          *)
LEMMA AppendOne ==
  ASSUME NEW S, NEW k \in Nat, NEW q \in [1..k -> S], NEW e \in S
  PROVE  /\ Append(q, e) \in [1..(k + 1) -> S]
         /\ \A i \in 1..k : Append(q, e)[i] = q[i]
         /\ Append(q, e)[k + 1] = e
<1>1. q \in Seq(S) /\ Len(q) = k
  OBVIOUS
<1>2. /\ Append(q, e) \in Seq(S) /\ Len(Append(q, e)) = k + 1
      /\ \A i \in 1..k : Append(q, e)[i] = q[i]
      /\ Append(q, e)[k + 1] = e
  BY <1>1, AppendProperties
<1>3. Append(q, e) \in [1..(k + 1) -> S]
  BY <1>2, LenProperties
<1> QED
  BY <1>2, <1>3

(* What a reader is given has its type.                                    *)
LEMMA ReaderIsTyped ==
  /\ Idle \in Reader
  /\ \A S \in SUBSET Chats : Reading(S) \in Reader
<1>1. [c \in Chats |-> [kind |-> "none", n |-> NoCount]] \in [Chats -> Answering]
  BY BoundsAssumption DEF Answering, NoCount
<1>2. Idle \in Reader
  BY <1>1 DEF Idle, Reader
<1>3. ASSUME NEW S \in SUBSET Chats PROVE Reading(S) \in Reader
  BY <1>2 DEF Reading, Reader
<1> QED
  BY <1>2, <1>3

(* and it begins with no answer from the chats it asks.                    *)
LEMMA ReadingStarts ==
  /\ Mirrored \subseteq Chats
  /\ Reading(Mirrored).on /\ Reading(Mirrored).ask = Mirrored
  /\ \A c \in Chats : Reading(Mirrored).got[c].kind = "none"
  /\ ~Idle.on
<1>1. Mirrored \subseteq Chats
  BY DEF Mirrored
<1> HIDE DEF Mirrored
<1> QED
  BY <1>1 DEF Reading, Idle

(* What answers that are applied do to a chat's native poll.               *)
LEMMA ApplyReadsEffect ==
  ASSUME TypeOK, Stages, Answered, NEW r \in Readers, ApplyReads(r)
  PROVE  /\ creating = "done"
         /\ \A c \in Chats :
              \/ /\ c \notin Lost(r) /\ c \notin Stopped(r) /\ status'[c] = status[c]
                 /\ c \in native' <=> c \in native
                 /\ c \in fallback' <=> c \in fallback
              \/ /\ c \in Lost(r) /\ status[c] = "mirrored" /\ status'[c] = "failed"
                 /\ c \notin native' /\ c \in fallback'
              \/ /\ c \in Stopped(r) /\ status[c] = "mirrored" /\ status'[c] = "stopped"
                 /\ c \in native /\ c \notin native' /\ platform[c] = "closed"
                 /\ c \in fallback' <=> c \in fallback
<1>1. creating = "done"
  BY DEF ApplyReads, Stages
<1>2. ASSUME NEW c \in Chats, c \in Lost(r)
      PROVE  c \notin Stopped(r) /\ status[c] = "mirrored"
  BY <1>2 DEF Lost, Stopped, Applies
<1>3. ASSUME NEW c \in Chats, c \in Stopped(r)
      PROVE  c \notin Lost(r) /\ status[c] = "mirrored" /\ c \in native /\ platform[c] = "closed"
  BY <1>3 DEF Lost, Stopped, Applies, Answered, ApplyReads
<1> QED
  BY <1>1, <1>2, <1>3 DEF ApplyReads, FallsBack, TypeOK, MirrorTypes

(* The table of messages after one more.                                   *)
LEMMA OfferAppends ==
  ASSUME TypeOK, NEW w \in Viewers, NEW c \in Chats, NEW v \in Fate, Offer(w, c, v)
  PROVE  /\ n' = n + 1 /\ n' \in 0..MaxMsgs
         /\ said' \in [1..n' -> Message] /\ fate' \in [1..n' -> Fate]
         /\ \A i \in 1..n : said'[i] = said[i] /\ fate'[i] = fate[i]
         /\ said'[n'] = [who |-> w, chat |-> c] /\ fate'[n'] = v
<1> DEFINE e == [who |-> w, chat |-> c]
<1>1. n' = n + 1 /\ n' \in 0..MaxMsgs
  BY BoundsAssumption DEF TypeOK, VoteTypes, Offer
<1>0. n \in Nat
  BY BoundsAssumption DEF TypeOK, VoteTypes
<1>2. said \in [1..n -> Message] /\ e \in Message /\ fate \in [1..n -> Fate]
  BY DEF TypeOK, VoteTypes, Message
<1>3. said' = Append(said, e) /\ fate' = Append(fate, v)
  BY DEF Offer
<1> HIDE DEF e
<1>4. /\ said' \in [1..(n + 1) -> Message]
      /\ \A i \in 1..n : said'[i] = said[i]
      /\ said'[n + 1] = e
  <2>1. said' \in [1..(n + 1) -> Message]
    BY <1>0, <1>2, <1>3, AppendOne
  <2>2. \A i \in 1..n : said'[i] = said[i]
    BY <1>0, <1>2, <1>3, AppendOne
  <2>3. said'[n + 1] = e
    BY <1>0, <1>2, <1>3, AppendOne
  <2> QED
    BY <2>1, <2>2, <2>3
<1>5. /\ fate' \in [1..(n + 1) -> Fate]
      /\ \A i \in 1..n : fate'[i] = fate[i]
      /\ fate'[n + 1] = v
  <2>1. fate' \in [1..(n + 1) -> Fate]
    BY <1>0, <1>2, <1>3, AppendOne
  <2>2. \A i \in 1..n : fate'[i] = fate[i]
    BY <1>0, <1>2, <1>3, AppendOne
  <2>3. fate'[n + 1] = v
    BY <1>0, <1>2, <1>3, AppendOne
  <2> QED
    BY <2>1, <2>2, <2>3
<1> QED
  BY <1>1, <1>4, <1>5 DEF e

(* Every step preserves the types.                                         *)
LEMMA VoteTypesNext ==
  ASSUME TypeOK, [Next]_vars
  PROVE  VoteTypes'
<1> VoteTypes
  BY DEF TypeOK
<1> USE BoundsAssumption
<1> USE DEF chatVars, mirrorVars, clockVars, outside, None, NoCount, VoteTypes
<1>1. ASSUME NEW b \in BOOLEAN, Start(b) PROVE VoteTypes'
  BY <1>1 DEF Start
<1>2. ASSUME NEW w \in Viewers, NEW c \in Chats, NEW v \in {"cleared", "judging"}, Offer(w, c, v)
      PROVE  VoteTypes'
  <2>1. v \in Fate
    BY DEF Fate
  <2>2. /\ n' = n + 1 /\ n' \in 0..MaxMsgs
        /\ said' \in [1..n' -> Message] /\ fate' \in [1..n' -> Fate]
    BY <1>2, <2>1, OfferAppends
  <2>3. votes' \in [Viewers -> 0..n']
    BY <1>2, <2>2 DEF Offer, ApplyVote
  <2>4. /\ aside' \subseteq 1..n' /\ after' \subseteq 1..n'
        /\ pending' \subseteq 1..n' /\ expired' \subseteq pending'
    <3>1. /\ \A k \in 1..n : k \in 1..n'
          /\ n + 1 \in 1..n'
      BY <2>2
    <3> QED
      BY <1>2, <3>1 DEF Offer
  <2> QED
    BY <1>2, <2>2, <2>3, <2>4 DEF Offer
<1>3. ASSUME NEW m \in 1..n, NEW b \in BOOLEAN, Judge(m, b) PROVE VoteTypes'
  <2>1. votes' \in [Viewers -> 0..n]
    BY <1>3 DEF Judge, ApplyVote, Message
  <2>2. fate' \in [1..n -> Fate]
    BY <1>3 DEF Judge, Fate
  <2> QED
    BY <1>3, <2>1, <2>2 DEF Judge
<1>4. ASSUME NEW m \in 1..n, RetractMessage(m) PROVE VoteTypes'
  <2>1. fate' \in [1..n -> Fate]
    BY <1>4 DEF RetractMessage, Fate
  <2>2. votes' \in [Viewers -> 0..n]
    <3>1. 0 \in 0..n
      OBVIOUS
    <3> QED
      BY <1>4, <3>1 DEF RetractMessage
  <2> QED
    BY <1>4, <2>1, <2>2 DEF RetractMessage
<1>5. ASSUME NEW m \in 1..n, HoldExpires(m) PROVE VoteTypes'
  BY <1>5 DEF HoldExpires, Kept
<1>6. ASSUME NEW w \in Viewers, RetractAuthor(w) PROVE VoteTypes'
  <2>1. votes' \in [Viewers -> 0..n]
    BY <1>6 DEF RetractAuthor
  <2>2. pending' \subseteq 1..n /\ expired' \subseteq pending' /\ banned' \subseteq Viewers
    BY <1>6 DEF RetractAuthor
  <2> QED
    BY <1>6, <2>1, <2>2 DEF RetractAuthor
<1>7. ASSUME NEW c \in Chats, CreateNative(c) PROVE VoteTypes'
  BY <1>7 DEF CreateNative
<1>8. ASSUME NEW c \in Chats, Poll(c) PROVE VoteTypes'
  BY <1>8 DEF Poll
<1>9. ASSUME NEW c \in Chats, StopNative(c) PROVE VoteTypes'
  BY <1>9 DEF StopNative
<1>10. ASSUME NEW r \in Readers, ApplyReads(r) PROVE VoteTypes'
  BY <1>10 DEF ApplyReads
<1>11. ASSUME NEW r \in Readers, NEW c \in Chats, ReadNative(r, c)
      PROVE  VoteTypes'
  BY <1>11 DEF ReadNative
<1>12. ASSUME StartMirror PROVE VoteTypes'
  <2>1. \A w \in Viewers : votes[w] # None => votes[w] \in 1..n
    OBVIOUS
  <2>2. aside' \subseteq 1..n
    <3>1. Typed(Mirrored) \subseteq 1..n
      BY <2>1 DEF Typed
    <3> QED
      BY <1>12, <3>1 DEF StartMirror
  <2> QED
    BY <1>12, <2>2 DEF StartMirror
<1>13. ASSUME End PROVE VoteTypes'
  BY <1>13 DEF End, BeginClose
<1>14. ASSUME TickOpen PROVE VoteTypes'
  BY <1>14 DEF TickOpen, DropExpired, Kept
<1>15. ASSUME TickClose PROVE VoteTypes'
  BY <1>15 DEF TickClose, DropExpired, Kept, BeginClose
<1>16. ASSUME TickWait PROVE VoteTypes'
  BY <1>16 DEF TickWait, DropExpired, Kept
<1>17. ASSUME Finalise PROVE VoteTypes'
  BY <1>17 DEF Finalise
<1>18. ASSUME EndsAt PROVE VoteTypes'
  BY <1>18 DEF EndsAt
<1>19. ASSUME MirrorBy PROVE VoteTypes'
  BY <1>19 DEF MirrorBy
<1>20. ASSUME Crash PROVE VoteTypes'
  <2>1. /\ n' = 0 /\ said' \in [1..0 -> Message] /\ fate' \in [1..0 -> Fate]
    BY <1>20 DEF Crash
  <2>2. votes' \in [Viewers -> 0..0]
    BY <1>20 DEF Crash
  <2> QED
    BY <1>20, <2>1, <2>2, BoundsAssumption DEF Crash
<1>21. ASSUME Restart PROVE VoteTypes'
  BY <1>21 DEF Restart
<1>22. CASE UNCHANGED vars
  BY <1>22 DEF vars
<1> HIDE DEF chatVars, mirrorVars, clockVars, outside, None, NoCount, VoteTypes
<1> QED
  BY <1>1, <1>2, <1>3, <1>4, <1>5, <1>6, <1>7, <1>8, <1>9, <1>10, <1>11, <1>12,
     <1>13, <1>14, <1>15, <1>16, <1>17, <1>18, <1>19, <1>20, <1>21, <1>22
     DEF Next, Tick

LEMMA MirrorTypesNext ==
  ASSUME TypeOK, [Next]_vars
  PROVE  MirrorTypes'
<1> MirrorTypes
  BY DEF TypeOK
<1> USE BoundsAssumption
<1> USE DEF chatVars, mirrorVars, clockVars, outside, None, NoCount,
         MirrorTypes
<1>1. ASSUME NEW b \in BOOLEAN, Start(b) PROVE MirrorTypes'
  BY <1>1 DEF Start
<1>2. ASSUME NEW w \in Viewers, NEW c \in Chats, NEW v \in {"cleared", "judging"}, Offer(w, c, v)
      PROVE  MirrorTypes'
  BY <1>2 DEF Offer, Accepts, ApplyVote
<1>3. ASSUME NEW m \in 1..n, NEW b \in BOOLEAN, Judge(m, b) PROVE MirrorTypes'
  BY <1>3 DEF Judge, ApplyVote
<1>4. ASSUME NEW m \in 1..n, RetractMessage(m) PROVE MirrorTypes'
  BY <1>4 DEF RetractMessage
<1>5. ASSUME NEW m \in 1..n, HoldExpires(m) PROVE MirrorTypes'
  BY <1>5 DEF HoldExpires, Kept
<1>6. ASSUME NEW w \in Viewers, RetractAuthor(w) PROVE MirrorTypes'
  BY <1>6 DEF RetractAuthor
<1>7. ASSUME NEW c \in Chats, CreateNative(c) PROVE MirrorTypes'
  BY <1>7 DEF CreateNative
<1>8. ASSUME NEW c \in Chats, Poll(c) PROVE MirrorTypes'
  BY <1>8 DEF Poll
<1>9. ASSUME NEW c \in Chats, StopNative(c) PROVE MirrorTypes'
  BY <1>9 DEF StopNative
<1>10. ASSUME NEW r \in Readers, ApplyReads(r) PROVE MirrorTypes'
  <2>1. reads' \in [Readers -> Reader]
    BY <1>10, ReaderIsTyped DEF ApplyReads
  <2>2. status' \in [Chats -> {"none", "mirrored", "stopped", "failed"}]
    BY <1>10 DEF ApplyReads
  <2>3. ASSUME NEW c \in Chats PROVE reads[r].got[c].n \in NoCount..MaxTally
    BY DEF Reader, Answering
  <2>4. count' \in [Chats -> NoCount..MaxTally]
    BY <1>10, <2>3 DEF ApplyReads, NewCount
  <2>5. native' \subseteq Chats /\ fallback' \subseteq Chats
    BY <1>10 DEF ApplyReads, FallsBack, Lost, Applies, Reader
  <2> QED
    BY <1>10, <2>1, <2>2, <2>4, <2>5 DEF ApplyReads
<1>11. ASSUME NEW r \in Readers, NEW c \in Chats, ReadNative(r, c)
      PROVE  MirrorTypes'
  <2>1. PICK x \in Answers(c, r = "final") :
          /\ reads' = [reads EXCEPT ![r].got[c] = x.a]
          /\ platform' = [platform EXCEPT ![c] = x.p]
    BY <1>11 DEF ReadNative
  <2>2. x.a \in Answering /\ x.p \in {"none", "running", "closed"}
    BY <2>1 DEF Answers, Answer, Answering
  <2>3. reads' \in [Readers -> Reader]
    <3>1. [reads[r] EXCEPT !.got[c] = x.a] \in Reader
      BY <2>2 DEF Reader
    <3> QED
      BY <2>1, <3>1
  <2> QED
    BY <1>11, <2>1, <2>2, <2>3 DEF ReadNative
<1>12. ASSUME StartMirror PROVE MirrorTypes'
  <2>1. Mirrored \subseteq Chats
    BY DEF Mirrored
  <2>2. reads' \in [Readers -> Reader]
    BY <1>12, <2>1, ReaderIsTyped DEF StartMirror
  <2> QED
    BY <1>12, <2>1, <2>2 DEF StartMirror
<1>13. ASSUME End PROVE MirrorTypes'
  BY <1>13, ReaderIsTyped DEF End, BeginClose, Mirrored
<1>14. ASSUME TickOpen PROVE MirrorTypes'
  <2>1. Mirrored \subseteq Chats
    BY DEF Mirrored
  <2>2. reads' \in [Readers -> Reader]
    BY <1>14, <2>1, ReaderIsTyped DEF TickOpen
  <2> QED
    BY <1>14, <2>2 DEF TickOpen
<1>15. ASSUME TickClose PROVE MirrorTypes'
  BY <1>15, ReaderIsTyped DEF TickClose, DropExpired, Kept, BeginClose,
       Mirrored
<1>16. ASSUME TickWait PROVE MirrorTypes'
  BY <1>16 DEF TickWait, DropExpired, Kept
<1>17. ASSUME Finalise PROVE MirrorTypes'
  BY <1>17 DEF Finalise
<1>18. ASSUME EndsAt PROVE MirrorTypes'
  BY <1>18 DEF EndsAt
<1>19. ASSUME MirrorBy PROVE MirrorTypes'
  BY <1>19 DEF MirrorBy
<1>20. ASSUME Crash PROVE MirrorTypes'
  <2>1. reads' \in [Readers -> Reader]
    BY <1>20, ReaderIsTyped DEF Crash
  <2>2. /\ status' \in [Chats -> {"none", "mirrored", "stopped", "failed"}]
        /\ count' \in [Chats -> NoCount..MaxTally]
    BY <1>20 DEF Crash
  <2> QED
    BY <1>20, <2>1, <2>2 DEF Crash
<1>21. ASSUME Restart PROVE MirrorTypes'
  BY <1>21 DEF Restart
<1>22. CASE UNCHANGED vars
  BY <1>22 DEF vars
<1> HIDE DEF chatVars, mirrorVars, clockVars, outside, None, NoCount,
          MirrorTypes
<1> QED
  BY <1>1, <1>2, <1>3, <1>4, <1>5, <1>6, <1>7, <1>8, <1>9, <1>10, <1>11, <1>12,
     <1>13, <1>14, <1>15, <1>16, <1>17, <1>18, <1>19, <1>20, <1>21, <1>22
     DEF Next, Tick

(* Verdicts, deletions and bans in any order leave each viewer the last    *)
(* vote that stands.                                                       *)
LEMMA VotesStandNext ==
  ASSUME TypeOK, VotesStand, [Next]_vars
  PROVE  VotesStand'
<1> USE DEF chatVars, mirrorVars, clockVars, outside, None, NoCount, TypeOK,
         VoteTypes, MirrorTypes, VotesStand, HeldAreUnjudged, LastStands
<1>1. ASSUME NEW b \in BOOLEAN, Start(b) PROVE VotesStand'
  BY <1>1 DEF Start
<1>2. ASSUME NEW w \in Viewers, NEW c \in Chats, NEW v \in {"cleared", "judging"}, Offer(w, c, v)
      PROVE  VotesStand'
  BY <1>2, OfferAppends DEF Offer, Accepts, ApplyVote
<1>3. ASSUME NEW m \in 1..n, NEW b \in BOOLEAN, Judge(m, b) PROVE VotesStand'
  BY <1>3 DEF Judge, ApplyVote
<1>4. ASSUME NEW m \in 1..n, RetractMessage(m) PROVE VotesStand'
  BY <1>4 DEF RetractMessage
<1>5. ASSUME NEW m \in 1..n, HoldExpires(m) PROVE VotesStand'
  BY <1>5 DEF HoldExpires, Kept
<1>6. ASSUME NEW w \in Viewers, RetractAuthor(w) PROVE VotesStand'
  BY <1>6 DEF RetractAuthor
<1>7. ASSUME NEW c \in Chats, CreateNative(c) PROVE VotesStand'
  BY <1>7 DEF CreateNative
<1>8. ASSUME NEW c \in Chats, Poll(c) PROVE VotesStand'
  BY <1>8 DEF Poll
<1>9. ASSUME NEW c \in Chats, StopNative(c) PROVE VotesStand'
  BY <1>9 DEF StopNative
<1>10. ASSUME NEW r \in Readers, ApplyReads(r) PROVE VotesStand'
  BY <1>10 DEF ApplyReads
<1>11. ASSUME NEW r \in Readers, NEW c \in Chats, ReadNative(r, c)
      PROVE  VotesStand'
  BY <1>11 DEF ReadNative
<1>12. ASSUME StartMirror PROVE VotesStand'
  BY <1>12 DEF StartMirror
<1>13. ASSUME End PROVE VotesStand'
  BY <1>13 DEF End, BeginClose
<1>14. ASSUME TickOpen PROVE VotesStand'
  BY <1>14 DEF TickOpen, DropExpired, Kept
<1>15. ASSUME TickClose PROVE VotesStand'
  BY <1>15 DEF TickClose, DropExpired, Kept, BeginClose
<1>16. ASSUME TickWait PROVE VotesStand'
  BY <1>16 DEF TickWait, DropExpired, Kept
<1>17. ASSUME Finalise PROVE VotesStand'
  BY <1>17 DEF Finalise
<1>18. ASSUME EndsAt PROVE VotesStand'
  BY <1>18 DEF EndsAt
<1>19. ASSUME MirrorBy PROVE VotesStand'
  BY <1>19 DEF MirrorBy
<1>20. ASSUME Crash PROVE VotesStand'
  BY <1>20 DEF Crash
<1>21. ASSUME Restart PROVE VotesStand'
  BY <1>21 DEF Restart
<1>22. CASE UNCHANGED vars
  BY <1>22 DEF vars
<1> HIDE DEF chatVars, mirrorVars, clockVars, outside, None, NoCount, TypeOK,
          VoteTypes, MirrorTypes, VotesStand, HeldAreUnjudged, LastStands
<1> QED
  BY <1>1, <1>2, <1>3, <1>4, <1>5, <1>6, <1>7, <1>8, <1>9, <1>10, <1>11, <1>12,
     <1>13, <1>14, <1>15, <1>16, <1>17, <1>18, <1>19, <1>20, <1>21, <1>22
     DEF Next, Tick

(* A native poll is created, mirrored, and then stopped, ended or lost.    *)
LEMMA StagesNext ==
  ASSUME TypeOK, Stages, Answered, [Next]_vars
  PROVE  Stages'
<1> USE DEF chatVars, mirrorVars, clockVars, outside, None, NoCount, TypeOK,
         VoteTypes, MirrorTypes, Stages
<1>1. ASSUME NEW b \in BOOLEAN, Start(b) PROVE Stages'
  BY <1>1 DEF Start
<1>2. ASSUME NEW w \in Viewers, NEW c \in Chats, NEW v \in {"cleared", "judging"}, Offer(w, c, v)
      PROVE  Stages'
  BY <1>2 DEF Offer, Accepts, ApplyVote
<1>3. ASSUME NEW m \in 1..n, NEW b \in BOOLEAN, Judge(m, b) PROVE Stages'
  BY <1>3 DEF Judge, ApplyVote
<1>4. ASSUME NEW m \in 1..n, RetractMessage(m) PROVE Stages'
  BY <1>4 DEF RetractMessage
<1>5. ASSUME NEW m \in 1..n, HoldExpires(m) PROVE Stages'
  BY <1>5 DEF HoldExpires, Kept
<1>6. ASSUME NEW w \in Viewers, RetractAuthor(w) PROVE Stages'
  BY <1>6 DEF RetractAuthor
<1>7. ASSUME NEW c \in Chats, CreateNative(c) PROVE Stages'
  BY ZenonT(60), <1>7 DEF CreateNative
<1>8. ASSUME NEW c \in Chats, Poll(c) PROVE Stages'
  BY <1>8 DEF Poll
<1>9. ASSUME NEW c \in Chats, StopNative(c) PROVE Stages'
  BY <1>9 DEF StopNative
<1>10. ASSUME NEW r \in Readers, ApplyReads(r) PROVE Stages'
  <2>1. ASSUME NEW c \in Chats
        PROVE  /\ status'[c] # "none" /\ (status'[c] = "mirrored" => platform'[c] # "none")
               /\ status'[c] = "stopped" => platform'[c] = "closed"
               /\ c \in native' => status'[c] = "mirrored"
               /\ c \in fallback' => status'[c] = "failed"
               /\ state' = "open" /\ status'[c] = "mirrored" => c \in native'
    BY <1>10, ApplyReadsEffect DEF ApplyReads
  <2>2. creating' = "done" /\ native' \subseteq Chats /\ fallback' \subseteq Chats /\ state' = state
    BY <1>10, ApplyReadsEffect DEF ApplyReads, FallsBack, Lost, Applies, Reader
  <2> QED
    BY <1>10, <2>1, <2>2, ApplyReadsEffect DEF Stages
<1>11. ASSUME NEW r \in Readers, NEW c \in Chats, ReadNative(r, c)
      PROVE  Stages'
  BY <1>11 DEF ReadNative, Answers, Answer
<1>12. ASSUME StartMirror PROVE Stages'
  BY <1>12 DEF StartMirror, Mirrored, Reading, Idle, Typed
<1>13. ASSUME End PROVE Stages'
  BY <1>13 DEF End, BeginClose, Reading, Idle, Mirrored
<1>14. ASSUME TickOpen PROVE Stages'
  BY <1>14 DEF TickOpen, DropExpired, Kept, Reading, Idle, Mirrored
<1>15. ASSUME TickClose PROVE Stages'
  BY <1>15 DEF TickClose, DropExpired, Kept, BeginClose, Reading, Idle,
       Mirrored
<1>16. ASSUME TickWait PROVE Stages'
  BY <1>16 DEF TickWait, DropExpired, Kept
<1>17. ASSUME Finalise PROVE Stages'
  BY <1>17 DEF Finalise
<1>18. ASSUME EndsAt PROVE Stages'
  BY <1>18 DEF EndsAt
<1>19. ASSUME MirrorBy PROVE Stages'
  BY <1>19 DEF MirrorBy
<1>20. ASSUME Crash PROVE Stages'
  BY <1>20 DEF Crash, Idle
<1>21. ASSUME Restart PROVE Stages'
  BY <1>21 DEF Restart
<1>22. CASE UNCHANGED vars
  BY <1>22 DEF vars
<1> HIDE DEF chatVars, mirrorVars, clockVars, outside, None, NoCount, TypeOK,
          VoteTypes, MirrorTypes, Stages
<1> QED
  BY <1>1, <1>2, <1>3, <1>4, <1>5, <1>6, <1>7, <1>8, <1>9, <1>10, <1>11, <1>12,
     <1>13, <1>14, <1>15, <1>16, <1>17, <1>18, <1>19, <1>20, <1>21, <1>22
     DEF Next, Tick

(* Answers arrive one by one, while the platform's polls only end.         *)
LEMMA AnsweredNext ==
  ASSUME TypeOK, Stages, Answered, [Next]_vars
  PROVE  Answered'
<1> USE DEF chatVars, mirrorVars, clockVars, outside, None, NoCount, TypeOK,
         VoteTypes, MirrorTypes, Answered
<1>1. ASSUME NEW b \in BOOLEAN, Start(b) PROVE Answered'
  BY <1>1 DEF Start
<1>2. ASSUME NEW w \in Viewers, NEW c \in Chats, NEW v \in {"cleared", "judging"}, Offer(w, c, v)
      PROVE  Answered'
  BY <1>2 DEF Offer, Accepts, ApplyVote
<1>3. ASSUME NEW m \in 1..n, NEW b \in BOOLEAN, Judge(m, b) PROVE Answered'
  BY <1>3 DEF Judge, ApplyVote
<1>4. ASSUME NEW m \in 1..n, RetractMessage(m) PROVE Answered'
  BY <1>4 DEF RetractMessage
<1>5. ASSUME NEW m \in 1..n, HoldExpires(m) PROVE Answered'
  BY <1>5 DEF HoldExpires, Kept
<1>6. ASSUME NEW w \in Viewers, RetractAuthor(w) PROVE Answered'
  BY <1>6 DEF RetractAuthor
<1>7. ASSUME NEW c \in Chats, CreateNative(c) PROVE Answered'
  BY <1>7 DEF CreateNative, Stages
<1>8. ASSUME NEW c \in Chats, Poll(c) PROVE Answered'
  BY <1>8 DEF Poll
<1>9. ASSUME NEW c \in Chats, StopNative(c) PROVE Answered'
  BY <1>9 DEF StopNative
<1>10. ASSUME NEW r \in Readers, ApplyReads(r) PROVE Answered'
  BY <1>10 DEF ApplyReads, Idle, Applies, Lost, Stopped
<1>11. ASSUME NEW r \in Readers, NEW c \in Chats, ReadNative(r, c)
      PROVE  Answered'
  BY <1>11 DEF ReadNative, Answers, Answer, Stages
<1>12. ASSUME StartMirror PROVE Answered'
  <2>1. Mirrored \subseteq Chats
    BY DEF Mirrored
  <2>2. \A q \in Readers :
          \/ reads'[q] = reads[q]
          \/ reads'[q] = Reading(Mirrored) /\ q = "final"
    BY <1>12 DEF StartMirror
  <2> SUFFICES ASSUME NEW q \in Readers, NEW c \in Chats, reads'[q].on, c \in reads'[q].ask
               PROVE  /\ reads'[q].got[c].kind \in {"live", "over"} => reads'[q].got[c].n # NoCount
                      /\ q = "periodic" /\ status'[c] = "mirrored" =>
                           /\ c \in native'
                           /\ reads'[q].got[c].kind = "over" => platform'[c] = "closed"
    BY DEF Answered
  <2>3. CASE reads'[q] = reads[q]
    BY <1>12, <2>3 DEF StartMirror, Stages, Answered
  <2>4. CASE reads'[q] = Reading(Mirrored) /\ q = "final"
    <3>1. reads'[q].got[c].kind = "none"
      BY <2>1, <2>4, ReadingStarts
    <3> QED
      BY <1>12, <2>4, <3>1 DEF StartMirror, Stages
  <2> QED
    BY <2>2, <2>3, <2>4
<1>13. ASSUME End PROVE Answered'
  <2>1. Mirrored \subseteq Chats
    BY DEF Mirrored
  <2>2. \A q \in Readers :
          \/ reads'[q] = reads[q]
          \/ reads'[q] = Reading(Mirrored) /\ q = "final"
    BY <1>13 DEF End, BeginClose
  <2> SUFFICES ASSUME NEW q \in Readers, NEW c \in Chats, reads'[q].on, c \in reads'[q].ask
               PROVE  /\ reads'[q].got[c].kind \in {"live", "over"} => reads'[q].got[c].n # NoCount
                      /\ q = "periodic" /\ status'[c] = "mirrored" =>
                           /\ c \in native'
                           /\ reads'[q].got[c].kind = "over" => platform'[c] = "closed"
    BY DEF Answered
  <2>3. CASE reads'[q] = reads[q]
    BY <1>13, <2>3 DEF End, BeginClose, Stages, Answered
  <2>4. CASE reads'[q] = Reading(Mirrored) /\ q = "final"
    <3>1. reads'[q].got[c].kind = "none"
      BY <2>1, <2>4, ReadingStarts
    <3> QED
      BY <1>13, <2>4, <3>1 DEF End, BeginClose, Stages
  <2> QED
    BY <2>2, <2>3, <2>4
<1>14. ASSUME TickOpen PROVE Answered'
  <2>1. Mirrored \subseteq Chats
    BY DEF Mirrored
  <2>2. \A q \in Readers :
          \/ reads'[q] = reads[q]
          \/ reads'[q] = Reading(Mirrored) /\ creating = "done"
    BY <1>14 DEF TickOpen
  <2> SUFFICES ASSUME NEW q \in Readers, NEW c \in Chats, reads'[q].on, c \in reads'[q].ask
               PROVE  /\ reads'[q].got[c].kind \in {"live", "over"} => reads'[q].got[c].n # NoCount
                      /\ q = "periodic" /\ status'[c] = "mirrored" =>
                           /\ c \in native'
                           /\ reads'[q].got[c].kind = "over" => platform'[c] = "closed"
    BY DEF Answered
  <2>3. CASE reads'[q] = reads[q]
    BY <1>14, <2>3 DEF TickOpen, DropExpired, Stages, Answered
  <2>4. CASE reads'[q] = Reading(Mirrored) /\ creating = "done"
    <3>1. reads'[q].got[c].kind = "none"
      BY <2>1, <2>4, ReadingStarts
    <3> QED
      BY <1>14, <2>4, <3>1 DEF TickOpen, Stages
  <2> QED
    BY <2>2, <2>3, <2>4
<1>15. ASSUME TickClose PROVE Answered'
  <2>1. Mirrored \subseteq Chats
    BY DEF Mirrored
  <2>2. \A q \in Readers :
          \/ reads'[q] = reads[q]
          \/ reads'[q] = Reading(Mirrored) /\ q = "final"
    BY <1>15 DEF TickClose, BeginClose
  <2> SUFFICES ASSUME NEW q \in Readers, NEW c \in Chats, reads'[q].on, c \in reads'[q].ask
               PROVE  /\ reads'[q].got[c].kind \in {"live", "over"} => reads'[q].got[c].n # NoCount
                      /\ q = "periodic" /\ status'[c] = "mirrored" =>
                           /\ c \in native'
                           /\ reads'[q].got[c].kind = "over" => platform'[c] = "closed"
    BY DEF Answered
  <2>3. CASE reads'[q] = reads[q]
    BY <1>15, <2>3 DEF TickClose, BeginClose, DropExpired, Stages, Answered
  <2>4. CASE reads'[q] = Reading(Mirrored) /\ q = "final"
    <3>1. reads'[q].got[c].kind = "none"
      BY <2>1, <2>4, ReadingStarts
    <3> QED
      BY <1>15, <2>4, <3>1 DEF TickClose, BeginClose, Stages
  <2> QED
    BY <2>2, <2>3, <2>4
<1>16. ASSUME TickWait PROVE Answered'
  BY <1>16 DEF TickWait, DropExpired, Kept
<1>17. ASSUME Finalise PROVE Answered'
  BY <1>17 DEF Finalise
<1>18. ASSUME EndsAt PROVE Answered'
  BY <1>18 DEF EndsAt
<1>19. ASSUME MirrorBy PROVE Answered'
  BY <1>19 DEF MirrorBy
<1>20. ASSUME Crash PROVE Answered'
  BY <1>20 DEF Crash, Idle
<1>21. ASSUME Restart PROVE Answered'
  BY <1>21 DEF Restart
<1>22. CASE UNCHANGED vars
  BY <1>22 DEF vars
<1> HIDE DEF chatVars, mirrorVars, clockVars, outside, None, NoCount, TypeOK,
          VoteTypes, MirrorTypes, Answered
<1> QED
  BY <1>1, <1>2, <1>3, <1>4, <1>5, <1>6, <1>7, <1>8, <1>9, <1>10, <1>11, <1>12,
     <1>13, <1>14, <1>15, <1>16, <1>17, <1>18, <1>19, <1>20, <1>21, <1>22
     DEF Next, Tick

(* Votes and held votes are moved when the native poll comes to be, and    *)
(* set aside as they come from then on.                                    *)
LEMMA SetAsideNext ==
  ASSUME TypeOK, Stages, Answered, SetAside, [Next]_vars
  PROVE  SetAside'
<1> USE DEF chatVars, mirrorVars, clockVars, outside, None, NoCount, TypeOK,
         VoteTypes, MirrorTypes, Message, SetAside
<1>1. ASSUME NEW b \in BOOLEAN, Start(b) PROVE SetAside'
  BY <1>1 DEF Start
<1>2. ASSUME NEW w \in Viewers, NEW c \in Chats, NEW v \in {"cleared", "judging"}, Offer(w, c, v)
      PROVE  SetAside'
  <2>1. v \in Fate /\ n \in Nat
    BY BoundsAssumption DEF Fate
  <2> SUFFICES ASSUME NEW m \in 1..n', m \in pending' \/ \E x \in Viewers : votes'[x] = m,
                      said'[m].chat \in native' \/ status'[said'[m].chat] = "stopped"
               PROVE  m \in aside' \/ m \in after'
    OBVIOUS
  <2>2. CASE m = n + 1
    <3>1. n' = n + 1 /\ said'[n'] = [who |-> w, chat |-> c]
      BY <1>2, <2>1, OfferAppends
    <3>2. said'[m].chat = c
      BY <2>2, <3>1
    <3> QED
      BY <1>2, <2>2, <3>2 DEF Offer, Stages
  <2>3. CASE m # n + 1
    <3>0. /\ n' = n + 1
          /\ \A i \in 1..n : said'[i] = said[i]
      BY <1>2, <2>1, OfferAppends
    <3>3. m \in 1..(n + 1)
      BY <3>0
    <3>4. m \in 1..n
      BY <2>1, <2>3, <3>3
    <3>1. m \in 1..n /\ said'[m] = said[m]
      BY <3>0, <3>4
    <3>2. m \in pending \/ \E x \in Viewers : votes[x] = m
      BY SMTT(30), <1>2, <2>3 DEF Offer, ApplyVote
    <3> QED
      BY <1>2, <3>1, <3>2 DEF Offer
  <2> QED
    BY <2>2, <2>3
<1>3. ASSUME NEW m \in 1..n, NEW b \in BOOLEAN, Judge(m, b) PROVE SetAside'
  BY SMTT(30), <1>3 DEF Judge, ApplyVote
<1>4. ASSUME NEW m \in 1..n, RetractMessage(m) PROVE SetAside'
  BY <1>4 DEF RetractMessage
<1>5. ASSUME NEW m \in 1..n, HoldExpires(m) PROVE SetAside'
  BY <1>5 DEF HoldExpires, Kept
<1>6. ASSUME NEW w \in Viewers, RetractAuthor(w) PROVE SetAside'
  BY <1>6 DEF RetractAuthor
<1>7. ASSUME NEW c \in Chats, CreateNative(c) PROVE SetAside'
  BY SMTT(30), <1>7 DEF CreateNative, Stages
<1>8. ASSUME NEW c \in Chats, Poll(c) PROVE SetAside'
  BY <1>8 DEF Poll
<1>9. ASSUME NEW c \in Chats, StopNative(c) PROVE SetAside'
  BY <1>9 DEF StopNative
<1>10. ASSUME NEW r \in Readers, ApplyReads(r) PROVE SetAside'
  BY ZenonT(60), <1>10, ApplyReadsEffect DEF ApplyReads
<1>11. ASSUME NEW r \in Readers, NEW c \in Chats, ReadNative(r, c)
      PROVE  SetAside'
  BY <1>11 DEF ReadNative
<1>12. ASSUME StartMirror PROVE SetAside'
  <2>1. CASE state = "open"
    <3>1. ASSUME NEW m \in 1..n, m \in pending \/ \E w \in Viewers : votes[w] = m,
                 said[m].chat \in Mirrored
          PROVE  m \in aside'
      <4>1. m # None
        OBVIOUS
      <4>2. m \in Typed(Mirrored)
        BY <3>1, <4>1 DEF Typed
      <4> QED
        BY <1>12, <2>1, <4>2 DEF StartMirror
    <3>2. native' = Mirrored /\ \A c \in Chats : status'[c] # "stopped"
      BY <1>12, <2>1 DEF StartMirror, Stages
    <3> QED
      BY <1>12, <3>1, <3>2 DEF StartMirror
  <2>2. CASE state # "open"
    BY <1>12, <2>2 DEF StartMirror, Stages
  <2> QED
    BY <2>1, <2>2
<1>13. ASSUME End PROVE SetAside'
  BY <1>13 DEF End, BeginClose
<1>14. ASSUME TickOpen PROVE SetAside'
  BY <1>14 DEF TickOpen, DropExpired, Kept
<1>15. ASSUME TickClose PROVE SetAside'
  BY <1>15 DEF TickClose, DropExpired, Kept, BeginClose
<1>16. ASSUME TickWait PROVE SetAside'
  BY <1>16 DEF TickWait, DropExpired, Kept
<1>17. ASSUME Finalise PROVE SetAside'
  BY <1>17 DEF Finalise
<1>18. ASSUME EndsAt PROVE SetAside'
  BY <1>18 DEF EndsAt
<1>19. ASSUME MirrorBy PROVE SetAside'
  BY <1>19 DEF MirrorBy
<1>20. ASSUME Crash PROVE SetAside'
  BY <1>20 DEF Crash
<1>21. ASSUME Restart PROVE SetAside'
  BY <1>21 DEF Restart
<1>22. CASE UNCHANGED vars
  BY <1>22 DEF vars
<1> HIDE DEF chatVars, mirrorVars, clockVars, outside, None, NoCount, TypeOK,
          VoteTypes, MirrorTypes, Message, SetAside
<1> QED
  BY <1>1, <1>2, <1>3, <1>4, <1>5, <1>6, <1>7, <1>8, <1>9, <1>10, <1>11, <1>12,
     <1>13, <1>14, <1>15, <1>16, <1>17, <1>18, <1>19, <1>20, <1>21, <1>22
     DEF Next, Tick

(* The final count is asked of every native poll, and a lost one puts its  *)
(* chat's votes back.                                                      *)
LEMMA AccountedNext ==
  ASSUME TypeOK, Stages, Answered, Accounted, [Next]_vars
  PROVE  Accounted'
<1> USE DEF chatVars, mirrorVars, clockVars, outside, None, NoCount, TypeOK,
         VoteTypes, MirrorTypes, Message, Accounted
<1>1. ASSUME NEW b \in BOOLEAN, Start(b) PROVE Accounted'
  BY <1>1 DEF Start, Stages
<1>2. ASSUME NEW w \in Viewers, NEW c \in Chats, NEW v \in {"cleared", "judging"}, Offer(w, c, v)
      PROVE  Accounted'
  <2>1. v \in Fate /\ n \in Nat
    BY BoundsAssumption DEF Fate
  <2>2. ASSUME NEW m \in aside'
        PROVE  (m \in aside /\ said'[m] = said[m]) \/ said'[m].chat \in native
    <3>1. m \in aside \/ (m = n' /\ c \in native)
      BY <1>2, <2>2 DEF Offer
    <3>2. CASE m \in aside
      <4>1. m \in 1..n
        BY <3>2
      <4>2. said'[m] = said[m]
        BY <1>2, <2>1, <4>1, OfferAppends
      <4> QED
        BY <3>2, <4>2
    <3>3. CASE m = n' /\ c \in native
      <4>1. said'[n'] = [who |-> w, chat |-> c]
        BY <1>2, <2>1, OfferAppends
      <4> QED
        BY <3>3, <4>1
    <3> QED
      BY <3>1, <3>2, <3>3
  <2> QED
    BY <1>2, <2>2 DEF Offer
<1>3. ASSUME NEW m \in 1..n, NEW b \in BOOLEAN, Judge(m, b) PROVE Accounted'
  BY <1>3 DEF Judge, ApplyVote
<1>4. ASSUME NEW m \in 1..n, RetractMessage(m) PROVE Accounted'
  BY <1>4 DEF RetractMessage
<1>5. ASSUME NEW m \in 1..n, HoldExpires(m) PROVE Accounted'
  BY <1>5 DEF HoldExpires, Kept
<1>6. ASSUME NEW w \in Viewers, RetractAuthor(w) PROVE Accounted'
  BY <1>6 DEF RetractAuthor
<1>7. ASSUME NEW c \in Chats, CreateNative(c) PROVE Accounted'
  BY <1>7 DEF CreateNative, Stages
<1>8. ASSUME NEW c \in Chats, Poll(c) PROVE Accounted'
  BY <1>8 DEF Poll
<1>9. ASSUME NEW c \in Chats, StopNative(c) PROVE Accounted'
  BY <1>9 DEF StopNative
<1>10. ASSUME NEW r \in Readers, ApplyReads(r) PROVE Accounted'
  <2>1. ASSUME NEW m \in aside
        PROVE  LET c == said[m].chat IN
               c \in native' \/ c \in fallback' \/ (status'[c] = "stopped" /\ count'[c] # NoCount)
    <3> DEFINE c == said[m].chat
    <3>1. m \in 1..n /\ c \in Chats
      BY <2>1
    <3>2. c \in Stopped(r) => count'[c] # NoCount
      BY <1>10, <3>1 DEF ApplyReads, Stopped, Lost, Applies, NewCount, Answered
    <3>3. count[c] # NoCount /\ c \notin Lost(r) => count'[c] # NoCount
      BY <1>10, <3>1 DEF ApplyReads, NewCount
    <3> QED
      BY <1>10, <2>1, <3>1, <3>2, <3>3, ApplyReadsEffect
  <2>2. reads'["final"].on => native' \subseteq reads'["final"].ask
    BY <1>10 DEF ApplyReads, Idle, Readers
  <2>3. ASSUME final', NEW c \in native' PROVE count'[c] # NoCount
    <3>1. c \in Chats /\ c \in native /\ c \notin Lost(r) /\ status[c] = "mirrored"
      BY <1>10, <2>3, ApplyReadsEffect DEF Stages, ApplyReads
    <3>2. CASE final
      BY <1>10, <3>1, <3>2 DEF ApplyReads, NewCount
    <3>3. CASE r = "final"
      <4>1. c \in reads[r].ask
        BY <1>10, <3>1, <3>3 DEF ApplyReads
      <4>2. reads[r].got[c].kind \in {"live", "over"}
        BY <1>10, <3>1, <3>3, <4>1 DEF ApplyReads, Lost, Applies, Reader, Answering
      <4> QED
        BY <1>10, <3>1, <4>1, <4>2 DEF ApplyReads, NewCount, Applies, Answered
    <3> QED
      BY <1>10, <2>3, <3>2, <3>3 DEF ApplyReads
  <2> QED
    BY <1>10, <2>1, <2>2, <2>3 DEF ApplyReads
<1>11. ASSUME NEW r \in Readers, NEW c \in Chats, ReadNative(r, c)
      PROVE  Accounted'
  BY <1>11 DEF ReadNative
<1>12. ASSUME StartMirror PROVE Accounted'
  <2>1. Mirrored \subseteq Chats /\ \A c \in Chats : status[c] = "mirrored" => c \in Mirrored
    BY DEF Mirrored
  <2>2. CASE state = "open"
    <3>1. ASSUME NEW m \in aside' PROVE said[m].chat \in native'
      BY <1>12, <2>2, <3>1 DEF StartMirror, Typed, Stages
    <3>2. ~reads'["final"].on
      BY <1>12, <2>2 DEF StartMirror, Stages, Readers
    <3>3. final' => native' = {}
      BY <1>12, <2>2 DEF StartMirror
    <3> QED
      BY <1>12, <3>1, <3>2, <3>3 DEF StartMirror
  <2>3. CASE state # "open"
    BY <1>12, <2>3 DEF StartMirror, Stages
  <2> QED
    BY <2>2, <2>3
<1>13. ASSUME End PROVE Accounted'
  <2>1. Mirrored \subseteq Chats /\ \A c \in native : c \in Mirrored
    BY DEF Mirrored, Stages
  <2>2. \/ reads'["final"] = reads["final"]
        \/ reads'["final"] = Reading(Mirrored)
    BY <1>13 DEF End, BeginClose, Readers
  <2>3. reads'["final"].on => native' \subseteq reads'["final"].ask
    BY <1>13, <2>1, <2>2, ReadingStarts DEF End, BeginClose, Stages
  <2> QED
    BY <1>13, <2>3 DEF End, BeginClose
<1>14. ASSUME TickOpen PROVE Accounted'
  <2>1. Mirrored \subseteq Chats /\ \A c \in native : c \in Mirrored
    BY DEF Mirrored, Stages
  <2>2. \/ reads'["final"] = reads["final"]
        \/ reads'["final"] = Reading(Mirrored)
    BY <1>14 DEF TickOpen, Readers
  <2>3. reads'["final"].on => native' \subseteq reads'["final"].ask
    BY <1>14, <2>1, <2>2, ReadingStarts DEF TickOpen, DropExpired, Stages
  <2> QED
    BY <1>14, <2>3 DEF TickOpen, DropExpired
<1>15. ASSUME TickClose PROVE Accounted'
  <2>1. Mirrored \subseteq Chats /\ \A c \in native : c \in Mirrored
    BY DEF Mirrored, Stages
  <2>2. \/ reads'["final"] = reads["final"]
        \/ reads'["final"] = Reading(Mirrored)
    BY <1>15 DEF TickClose, BeginClose, Readers
  <2>3. reads'["final"].on => native' \subseteq reads'["final"].ask
    BY <1>15, <2>1, <2>2, ReadingStarts DEF TickClose, BeginClose, DropExpired, Stages
  <2> QED
    BY <1>15, <2>3 DEF TickClose, BeginClose, DropExpired
<1>16. ASSUME TickWait PROVE Accounted'
  BY <1>16 DEF TickWait, DropExpired, Kept
<1>17. ASSUME Finalise PROVE Accounted'
  BY <1>17 DEF Finalise
<1>18. ASSUME EndsAt PROVE Accounted'
  BY <1>18 DEF EndsAt
<1>19. ASSUME MirrorBy PROVE Accounted'
  BY <1>19 DEF MirrorBy
<1>20. ASSUME Crash PROVE Accounted'
  BY <1>20 DEF Crash, Idle
<1>21. ASSUME Restart PROVE Accounted'
  BY <1>21 DEF Restart
<1>22. CASE UNCHANGED vars
  BY <1>22 DEF vars
<1> HIDE DEF chatVars, mirrorVars, clockVars, outside, None, NoCount, TypeOK,
          VoteTypes, MirrorTypes, Message, Accounted
<1> QED
  BY <1>1, <1>2, <1>3, <1>4, <1>5, <1>6, <1>7, <1>8, <1>9, <1>10, <1>11, <1>12,
     <1>13, <1>14, <1>15, <1>16, <1>17, <1>18, <1>19, <1>20, <1>21, <1>22
     DEF Next, Tick

-----------------------------------------------------------------------------
(* The inductive invariant.                                                *)
IInv == TypeOK /\ VotesStand /\ Stages /\ Answered /\ SetAside /\ Accounted

LEMMA InitIInv == Init => IInv
<1> SUFFICES ASSUME Init PROVE IInv
  OBVIOUS
<1> USE BoundsAssumption DEF Init, None, NoCount, Idle
<1>1. TypeOK
  <2>1. VoteTypes
    <3>1. said \in [1..n -> Message] /\ fate \in [1..n -> Fate]
      OBVIOUS
    <3>2. n \in 0..MaxMsgs /\ votes \in [Viewers -> 0..n]
      OBVIOUS
    <3> QED
      BY <3>1, <3>2 DEF VoteTypes
  <2>2. reads \in [Readers -> Reader]
    BY ReaderIsTyped
  <2>3. count \in [Chats -> NoCount..MaxTally] /\ tally \in [Chats -> 0..MaxTally]
    OBVIOUS
  <2> QED
    BY <2>1, <2>2, <2>3 DEF TypeOK, MirrorTypes
<1>2. VotesStand
  BY DEF VotesStand, HeldAreUnjudged, LastStands
<1>3. Stages /\ Answered
  BY DEF Stages, Answered, Readers
<1>4. SetAside /\ Accounted
  BY DEF SetAside, Accounted, Readers
<1> QED
  BY <1>1, <1>2, <1>3, <1>4 DEF IInv

LEMMA IInvInductive == IInv /\ [Next]_vars => IInv'
BY VoteTypesNext, MirrorTypesNext, VotesStandNext, StagesNext, AnsweredNext, SetAsideNext,
   AccountedNext
   DEF IInv, TypeOK

(* Every reachable state satisfies the inductive invariant.                *)
THEOREM Invariance == Spec => []IInv
BY InitIInv, IInvInductive, PTL DEF Spec

(* Whatever the order of votes, verdicts, deletions and bans, a viewer has *)
(* one vote, the last that stands, and a banned viewer none.               *)
THEOREM VotesAreTrueAlways == Spec => []VotesAreTrue
<1>1. IInv => VotesAreTrue
  <2> SUFFICES ASSUME IInv, NEW w \in Viewers
               PROVE  LET hers == {m \in 1..n : said[m].who = w /\ fate[m] = "cleared"}
                          voided == {k \in 1..n : said[k].who = w /\ fate[k] = "voided"} IN
                      /\ votes[w] \in hers \cup {None}
                      /\ w \in banned => votes[w] = None
                      /\ w \notin banned =>
                           \A m \in hers : m <= votes[w] \/ \E k \in voided : k > m
    BY DEF IInv, VotesAreTrue, TheLastStandingVoteCounts
  <2>1. LastStands(w) /\ votes[w] \in 0..n
    BY DEF IInv, VotesStand, TypeOK, VoteTypes
  <2>2. votes[w] # None => votes[w] \in 1..n
    BY <2>1, BoundsAssumption DEF IInv, TypeOK, VoteTypes, None
  <2> QED
    BY <2>1, <2>2 DEF LastStands
<1> QED
  BY Invariance, <1>1, PTL

(* A chat whose native poll was known of while the poll was open is        *)
(* counted there or here, not in both, however late that poll stopped,     *)
(* answered or was lost; and once the final counts are in every chat is    *)
(* counted.  A native poll that appears after the close is not covered:    *)
(* see NeverCountedTwice.                                                  *)
THEOREM EveryChatCountsOnceAlways == Spec => EveryChatCountsOnce
<1>1. IInv /\ n \in Nat => \A w \in Viewers : votes[w] # None => votes[w] \in Msgs /\ votes[w] \in 1..n
  BY BoundsAssumption DEF IInv, TypeOK, VoteTypes, Msgs, None
<1>2. IInv => CountedOnce
  <2> SUFFICES ASSUME IInv, NEW m \in Counted, NativeCounts(said[m].chat),
                      said[m].chat \in native \cup {d \in Chats : status[d] = "stopped"}
               PROVE  m \in after
    BY DEF CountedOnce
  <2> DEFINE c == said[m].chat
  <2>1. PICK w \in Viewers : votes[w] = m
    BY DEF Counted
  <2>2. m \in 1..n /\ (m \in aside => c \in fallback)
    BY <2>1, BoundsAssumption DEF Counted, Msgs, IInv, TypeOK, VoteTypes
  <2>3. m \in aside \/ m \in after
    BY <2>1, <2>2 DEF IInv, SetAside
  <2>4. c \in fallback => status[c] = "failed"
    BY DEF IInv, Stages
  <2> QED
    BY <2>2, <2>3, <2>4 DEF NativeCounts
<1>3. IInv => [state # "ended" /\ state' = "ended" /\ final =>
                 \A w \in Viewers : votes[w] # None /\ votes[w] \notin Counted =>
                   count[said[votes[w]].chat] # NoCount]_vars
  <2> SUFFICES ASSUME IInv, final, NEW w \in Viewers, votes[w] # None, votes[w] \notin Counted
               PROVE  count[said[votes[w]].chat] # NoCount
    OBVIOUS
  <2>1. votes[w] \in aside /\ said[votes[w]].chat \notin fallback
    BY BoundsAssumption DEF Counted, Msgs, IInv, TypeOK, VoteTypes, None
  <2> QED
    BY <2>1 DEF IInv, Accounted
<1> QED
  BY Invariance, <1>2, <1>3, PTL DEF EveryChatCountsOnce, NoChatIsLost
=============================================================================

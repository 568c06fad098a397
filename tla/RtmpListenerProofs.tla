-------------------------- MODULE RtmpListenerProofs --------------------------
(***************************************************************************)
(* The safety of one publisher slot of the RTMP listener, for any encoders *)
(* and subscribers, and any number of streams that is never used up.       *)
(***************************************************************************)
EXTENDS RtmpListener, TLAPS

(* What a goroutine holds goes with where it is.                           *)
Handles ==
  \A p \in Pubs : /\ old[p] # None => pub[p] = "taken"
                  /\ hold[p] # None <=> pub[p] \in {"holding", "ending"}

(* Until its socket is closed, whoever has been admitted holds the slot or *)
(* is about to be cut off by the one who took it from them.                *)
CutOff ==
  \A p \in Pubs :
    pub[p] \in {"taken", "replaced", "pumping", "holding"} /\ p \in sock =>
      live = p \/ \E q \in Pubs : pub[q] = "taken" /\ old[q] = p

(* A subscriber is attached to the stream in the table or to none: the     *)
(* table does not let go of a stream that is read.                         *)
Attached ==
  /\ \A x \in Subs : /\ in[x] \in {None, cur}
                     /\ in[x] # None <=> sub[x] \in {"serving", "closing"}
  /\ live # None /\ pub[live] \in {"pumping", "holding"} => cur # None

-----------------------------------------------------------------------------
(* There is always a stream structure that nobody holds.                   *)
LEMMA NewStreamExists ==
  ASSUME TypeOK
  PROVE  NewStream \in Streams
<1>1. \E t \in Streams : (\A p \in Pubs : hold[p] # t) /\ (\A x \in Subs : in[x] # t)
  BY StreamsAssumption DEF TypeOK
<1>2. \E t \in Streams : Readers(t) = {} /\ \A p \in Pubs : hold[p] # t
  BY <1>1 DEF Readers
<1> QED
  BY <1>2 DEF NewStream

(* Every step preserves the types.                                         *)
LEMMA TypeNext ==
  ASSUME TypeOK, Handles, [Next]_vars
  PROVE  TypeOK'
<1> USE DEF pubVars, subVars, At, TypeOK
<1>1. ASSUME NEW p \in Pubs, Lookup(p) PROVE TypeOK'
  BY <1>1 DEF Lookup
<1>2. ASSUME NEW p \in Pubs, AwaitReady(p) PROVE TypeOK'
  BY <1>2 DEF AwaitReady
<1>3. ASSUME NEW p \in Pubs, Take(p) PROVE TypeOK'
  BY <1>3 DEF Take
<1>4. ASSUME NEW p \in Pubs, Replace(p) PROVE TypeOK'
  BY <1>4 DEF Replace
<1>5. ASSUME NEW p \in Pubs, OpenStream(p) PROVE TypeOK'
  BY <1>5, NewStreamExists DEF OpenStream, ResetSetup, Fresh
<1>6. ASSUME NEW p \in Pubs, Read(p) PROVE TypeOK'
  BY <1>6 DEF Read
<1>7. ASSUME NEW p \in Pubs, PumpEnds(p) PROVE TypeOK'
  BY <1>7 DEF PumpEnds
<1>8. ASSUME NEW p \in Pubs, Release(p) PROVE TypeOK'
  <2>1. cur' \in Streams \cup {None} /\ live' \in Pubs \cup {None}
    BY <1>8 DEF Release
  <2>2. hold' \in [Pubs -> Streams \cup {None}]
    BY <1>8, <2>1 DEF Release
  <2> QED
    BY <1>8, <2>1, <2>2 DEF Release, Fresh
<1>9. ASSUME NEW p \in Pubs, EndSubscribers(p) PROVE TypeOK'
  BY <1>9 DEF EndSubscribers
<1>10. ASSUME NEW p \in Pubs, Revoke(p) PROVE TypeOK'
  BY <1>10 DEF Revoke
<1>11. ASSUME NEW p \in Pubs, NEW s \in BOOLEAN, NEW l \in BOOLEAN, FanOut(p, s, l)
      PROVE  TypeOK'
  BY <1>11 DEF FanOut
<1>12. ASSUME NEW x \in Subs, Attach(x) PROVE TypeOK'
  BY <1>12, NewStreamExists DEF Attach, Fresh
<1>13. ASSUME NEW x \in Subs, PeerGone(x) PROVE TypeOK'
  BY <1>13 DEF PeerGone
<1>14. ASSUME NEW x \in Subs, Leave(x) PROVE TypeOK'
  BY <1>14 DEF Leave, Fresh, Idle
<1>15. ASSUME Revalidate PROVE TypeOK'
  BY <1>15 DEF Revalidate, Strikes, RevokeAfter
<1>16. CASE UNCHANGED vars
  BY <1>16 DEF vars
<1> HIDE DEF pubVars, subVars, At, TypeOK
<1> QED
  BY <1>1, <1>2, <1>3, <1>4, <1>5, <1>6, <1>7, <1>8, <1>9, <1>10, <1>11, <1>12,
     <1>13, <1>14, <1>15, <1>16
     DEF Next

(* A goroutine takes a stream or a predecessor in hand, and lets go of it, *)
(* as it moves.                                                            *)
LEMMA HandlesNext ==
  ASSUME TypeOK, Handles, [Next]_vars
  PROVE  Handles'
<1> USE DEF pubVars, subVars, At, TypeOK, Handles
<1>1. ASSUME NEW p \in Pubs, Lookup(p) PROVE Handles'
  BY <1>1 DEF Lookup
<1>2. ASSUME NEW p \in Pubs, AwaitReady(p) PROVE Handles'
  BY <1>2 DEF AwaitReady
<1>3. ASSUME NEW p \in Pubs, Take(p) PROVE Handles'
  BY <1>3 DEF Take
<1>4. ASSUME NEW p \in Pubs, Replace(p) PROVE Handles'
  BY <1>4 DEF Replace
<1>5. ASSUME NEW p \in Pubs, OpenStream(p) PROVE Handles'
  BY <1>5 DEF OpenStream, ResetSetup, Fresh
<1>6. ASSUME NEW p \in Pubs, Read(p) PROVE Handles'
  BY <1>6 DEF Read
<1>7. ASSUME NEW p \in Pubs, PumpEnds(p) PROVE Handles'
  BY <1>7 DEF PumpEnds
<1>8. ASSUME NEW p \in Pubs, Release(p) PROVE Handles'
  BY <1>8 DEF Release, Owns, Reaps, Fresh
<1>9. ASSUME NEW p \in Pubs, EndSubscribers(p) PROVE Handles'
  BY <1>9 DEF EndSubscribers
<1>10. ASSUME NEW p \in Pubs, Revoke(p) PROVE Handles'
  BY <1>10 DEF Revoke
<1>11. ASSUME NEW p \in Pubs, NEW s \in BOOLEAN, NEW l \in BOOLEAN, FanOut(p, s, l)
      PROVE  Handles'
  BY <1>11 DEF FanOut
<1>12. ASSUME NEW x \in Subs, Attach(x) PROVE Handles'
  BY <1>12 DEF Attach, Fresh
<1>13. ASSUME NEW x \in Subs, PeerGone(x) PROVE Handles'
  BY <1>13 DEF PeerGone
<1>14. ASSUME NEW x \in Subs, Leave(x) PROVE Handles'
  BY <1>14 DEF Leave, Fresh, Idle
<1>15. ASSUME Revalidate PROVE Handles'
  BY <1>15 DEF Revalidate, Strikes
<1>16. CASE UNCHANGED vars
  BY <1>16 DEF vars
<1> HIDE DEF pubVars, subVars, At, TypeOK, Handles
<1> QED
  BY <1>1, <1>2, <1>3, <1>4, <1>5, <1>6, <1>7, <1>8, <1>9, <1>10, <1>11, <1>12,
     <1>13, <1>14, <1>15, <1>16
     DEF Next

(* A session that loses the slot is named by its successor, who closes it. *)
LEMMA CutOffNext ==
  ASSUME TypeOK, Handles, CutOff, [Next]_vars
  PROVE  CutOff'
<1> USE DEF pubVars, subVars, At, TypeOK, Handles, CutOff
<1>1. ASSUME NEW p \in Pubs, Lookup(p) PROVE CutOff'
  BY <1>1 DEF Lookup
<1>2. ASSUME NEW p \in Pubs, AwaitReady(p) PROVE CutOff'
  BY <1>2 DEF AwaitReady
<1>3. ASSUME NEW p \in Pubs, Take(p) PROVE CutOff'
  BY <1>3 DEF Take
<1>4. ASSUME NEW p \in Pubs, Replace(p) PROVE CutOff'
  BY <1>4 DEF Replace
<1>5. ASSUME NEW p \in Pubs, OpenStream(p) PROVE CutOff'
  BY <1>5 DEF OpenStream, ResetSetup, Fresh
<1>6. ASSUME NEW p \in Pubs, Read(p) PROVE CutOff'
  BY <1>6 DEF Read
<1>7. ASSUME NEW p \in Pubs, PumpEnds(p) PROVE CutOff'
  BY <1>7 DEF PumpEnds
<1>8. ASSUME NEW p \in Pubs, Release(p) PROVE CutOff'
  BY <1>8 DEF Release, Owns, Reaps, Fresh
<1>9. ASSUME NEW p \in Pubs, EndSubscribers(p) PROVE CutOff'
  BY <1>9 DEF EndSubscribers
<1>10. ASSUME NEW p \in Pubs, Revoke(p) PROVE CutOff'
  BY <1>10 DEF Revoke
<1>11. ASSUME NEW p \in Pubs, NEW s \in BOOLEAN, NEW l \in BOOLEAN, FanOut(p, s, l)
      PROVE  CutOff'
  BY <1>11 DEF FanOut
<1>12. ASSUME NEW x \in Subs, Attach(x) PROVE CutOff'
  BY <1>12 DEF Attach, Fresh
<1>13. ASSUME NEW x \in Subs, PeerGone(x) PROVE CutOff'
  BY <1>13 DEF PeerGone
<1>14. ASSUME NEW x \in Subs, Leave(x) PROVE CutOff'
  BY <1>14 DEF Leave, Fresh, Idle
<1>15. ASSUME Revalidate PROVE CutOff'
  BY <1>15 DEF Revalidate, Strikes
<1>16. CASE UNCHANGED vars
  BY <1>16 DEF vars
<1> HIDE DEF pubVars, subVars, At, TypeOK, Handles, CutOff
<1> QED
  BY <1>1, <1>2, <1>3, <1>4, <1>5, <1>6, <1>7, <1>8, <1>9, <1>10, <1>11, <1>12,
     <1>13, <1>14, <1>15, <1>16
     DEF Next

(* Neither end drops a stream the other still uses.                        *)
LEMMA AttachedNext ==
  ASSUME TypeOK, Attached, [Next]_vars
  PROVE  Attached'
<1> USE DEF pubVars, subVars, At, TypeOK, Attached
<1>1. ASSUME NEW p \in Pubs, Lookup(p) PROVE Attached'
  BY <1>1 DEF Lookup
<1>2. ASSUME NEW p \in Pubs, AwaitReady(p) PROVE Attached'
  BY <1>2 DEF AwaitReady
<1>3. ASSUME NEW p \in Pubs, Take(p) PROVE Attached'
  BY <1>3 DEF Take
<1>4. ASSUME NEW p \in Pubs, Replace(p) PROVE Attached'
  BY <1>4 DEF Replace
<1>5. ASSUME NEW p \in Pubs, OpenStream(p) PROVE Attached'
  BY <1>5, NewStreamExists, NoneAssumption DEF OpenStream, ResetSetup, Fresh
<1>6. ASSUME NEW p \in Pubs, Read(p) PROVE Attached'
  BY <1>6 DEF Read
<1>7. ASSUME NEW p \in Pubs, PumpEnds(p) PROVE Attached'
  BY <1>7 DEF PumpEnds
<1>8. ASSUME NEW p \in Pubs, Release(p) PROVE Attached'
  BY <1>8 DEF Release, Owns, Reaps, Fresh, Readers
<1>9. ASSUME NEW p \in Pubs, EndSubscribers(p) PROVE Attached'
  BY <1>9 DEF EndSubscribers, Readers
<1>10. ASSUME NEW p \in Pubs, Revoke(p) PROVE Attached'
  BY <1>10 DEF Revoke
<1>11. ASSUME NEW p \in Pubs, NEW s \in BOOLEAN, NEW l \in BOOLEAN, FanOut(p, s, l)
      PROVE  Attached'
  BY <1>11 DEF FanOut
<1>12. ASSUME NEW x \in Subs, Attach(x) PROVE Attached'
  BY <1>12, NewStreamExists, NoneAssumption DEF Attach, Fresh
<1>13. ASSUME NEW x \in Subs, PeerGone(x) PROVE Attached'
  BY <1>13 DEF PeerGone
<1>14. ASSUME NEW x \in Subs, Leave(x) PROVE Attached'
  BY <1>14 DEF Leave, Fresh, Idle, Readers
<1>15. ASSUME Revalidate PROVE Attached'
  BY <1>15 DEF Revalidate, Strikes
<1>16. CASE UNCHANGED vars
  BY <1>16 DEF vars
<1> HIDE DEF pubVars, subVars, At, TypeOK, Attached
<1> QED
  BY <1>1, <1>2, <1>3, <1>4, <1>5, <1>6, <1>7, <1>8, <1>9, <1>10, <1>11, <1>12,
     <1>13, <1>14, <1>15, <1>16
     DEF Next

(* A session starts with no setup, and only the session on air leaves its  *)
(* own behind unmarked.                                                    *)
LEMMA SetupNext ==
  ASSUME TypeOK, Handles, Attached, SetupIsOfTheSession, [Next]_vars
  PROVE  SetupIsOfTheSession'
<1> USE DEF pubVars, subVars, At, TypeOK, Attached, SetupIsOfTheSession
<1>1. ASSUME NEW p \in Pubs, Lookup(p) PROVE SetupIsOfTheSession'
  BY <1>1 DEF Lookup
<1>2. ASSUME NEW p \in Pubs, AwaitReady(p) PROVE SetupIsOfTheSession'
  BY <1>2 DEF AwaitReady
<1>3. ASSUME NEW p \in Pubs, Take(p) PROVE SetupIsOfTheSession'
  BY <1>3 DEF Take
<1>4. ASSUME NEW p \in Pubs, Replace(p) PROVE SetupIsOfTheSession'
  BY <1>4 DEF Replace
<1>5. ASSUME NEW p \in Pubs, OpenStream(p) PROVE SetupIsOfTheSession'
  BY <1>5 DEF OpenStream, ResetSetup, Fresh
<1>6. ASSUME NEW p \in Pubs, Read(p) PROVE SetupIsOfTheSession'
  BY <1>6 DEF Read
<1>7. ASSUME NEW p \in Pubs, PumpEnds(p) PROVE SetupIsOfTheSession'
  BY <1>7 DEF PumpEnds
<1>8. ASSUME NEW p \in Pubs, Release(p) PROVE SetupIsOfTheSession'
  BY <1>8 DEF Release, Owns, Reaps, Fresh
<1>9. ASSUME NEW p \in Pubs, EndSubscribers(p) PROVE SetupIsOfTheSession'
  BY <1>9 DEF EndSubscribers
<1>10. ASSUME NEW p \in Pubs, Revoke(p) PROVE SetupIsOfTheSession'
  BY <1>10 DEF Revoke
<1>11. ASSUME NEW p \in Pubs, NEW s \in BOOLEAN, NEW l \in BOOLEAN, FanOut(p, s, l)
      PROVE  SetupIsOfTheSession'
  BY <1>11 DEF FanOut
<1>12. ASSUME NEW x \in Subs, Attach(x) PROVE SetupIsOfTheSession'
  BY <1>12 DEF Attach, Fresh
<1>13. ASSUME NEW x \in Subs, PeerGone(x) PROVE SetupIsOfTheSession'
  BY <1>13 DEF PeerGone
<1>14. ASSUME NEW x \in Subs, Leave(x) PROVE SetupIsOfTheSession'
  BY <1>14 DEF Leave, Fresh, Idle
<1>15. ASSUME Revalidate PROVE SetupIsOfTheSession'
  BY <1>15 DEF Revalidate, Strikes
<1>16. CASE UNCHANGED vars
  BY <1>16 DEF vars
<1> HIDE DEF pubVars, subVars, At, TypeOK, Attached, SetupIsOfTheSession
<1> QED
  BY <1>1, <1>2, <1>3, <1>4, <1>5, <1>6, <1>7, <1>8, <1>9, <1>10, <1>11, <1>12,
     <1>13, <1>14, <1>15, <1>16
     DEF Next

-----------------------------------------------------------------------------
(* The inductive invariant.                                                *)
IInv == TypeOK /\ Handles /\ CutOff /\ Attached /\ SetupIsOfTheSession

LEMMA InitIInv == Init => IInv
<1> SUFFICES ASSUME Init PROVE IInv
  OBVIOUS
<1>1. TypeOK
  <2>1. /\ pub \in [Pubs -> {"new", "waiting", "admitted", "taken", "replaced",
                         "pumping", "holding", "ended", "ending", "gone"}]
        /\ sub \in [Subs -> {"new", "serving", "closing", "gone"}]
    BY DEF Init
  <2>2. /\ old \in [Pubs -> Pubs \cup {None}]
        /\ hold \in [Pubs -> Streams \cup {None}]
        /\ in \in [Subs -> Streams \cup {None}]
        /\ refusals \in [Pubs -> 0..RevokeAfter]
    BY DEF Init, RevokeAfter
  <2>3. /\ sock \subseteq Pubs /\ revoked \subseteq Pubs
        /\ live \in Pubs \cup {None} /\ cur \in Streams \cup {None}
        /\ setup \in Pubs \cup {None} /\ dry \in BOOLEAN /\ stray \in BOOLEAN
    BY DEF Init
  <2> QED
    BY <2>1, <2>2, <2>3 DEF TypeOK
<1>2. Handles /\ CutOff /\ SetupIsOfTheSession
  BY DEF Init, Handles, CutOff, SetupIsOfTheSession
<1>3. Attached
  BY DEF Init, Attached
<1> QED
  BY <1>1, <1>2, <1>3 DEF IInv

LEMMA IInvInductive == IInv /\ [Next]_vars => IInv'
BY TypeNext, HandlesNext, CutOffNext, AttachedNext, SetupNext DEF IInv

(* Every reachable state satisfies the inductive invariant.                *)
THEOREM Invariance == Spec => []IInv
BY InitIInv, IInvInductive, PTL DEF Spec

(* Two encoders never feed one source side by side, and publishers and     *)
(* subscribers meet in the stream the table names, in whatever order       *)
(* sessions take the slot, are replaced, end and are revoked.              *)
THEOREM OneKeyOneStreamAlways == Spec => []OneKeyOneStream
<1>1. IInv => OneKeyOneStream
  BY DEF IInv, OneKeyOneStream, TheReplacedAreCutOff, TheyMeetInTheTable,
         CutOff, Attached
<1> QED
  BY Invariance, <1>1, PTL

(* A late subscriber is never replayed the configuration of a session that *)
(* is over, except what that one had in hand when it lost the slot.        *)
THEOREM SetupIsOfTheSessionAlways == Spec => []SetupIsOfTheSession
BY Invariance, PTL DEF IInv
=============================================================================

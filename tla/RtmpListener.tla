---------------------------- MODULE RtmpListener ----------------------------
(***************************************************************************)
(* One publisher slot of the one-port RTMP listener, internal/rtmpserver:  *)
(* the encoders that take it and replace each other, the subscribers that  *)
(* read it (the engine's ingest children), the grace a publisher waits for *)
(* a subscriber, and the re-resolving of keys.  A slot is a source and a   *)
(* role; slots share nothing but the two mutexes.  Stop is not modelled.   *)
(*                                                                         *)
(* An action is one section under Server.mu or stream.mu, or what a        *)
(* goroutine does to a socket between two of them.  A connection that has  *)
(* ended is not used again: Pubs and Subs bound the connections.           *)
(***************************************************************************)
EXTENDS Naturals, FiniteSets

CONSTANTS Pubs,        \* connections of encoders
          Subs,        \* connections of subscribers
          Rotating,    \* of those, the ones whose key an operator changes
          Streams,     \* stream structures, reused once nobody holds them
          MaxWaiters,  \* maxWaitersPerKey
          None         \* no publisher, no stream

ASSUME RotatingAssumption == Rotating \subseteq Pubs
ASSUME NoneAssumption == None \notin Pubs \cup Streams
(* A stream is a Go allocation: there is one more than anybody can hold.   *)
ASSUME StreamsAssumption ==
  \A f \in [Pubs -> Streams \cup {None}], g \in [Subs -> Streams \cup {None}] :
    \E t \in Streams : (\A p \in Pubs : f[p] # t) /\ (\A x \in Subs : g[x] # t)

RevokeAfter == 2

VARIABLES
  pub,       \* where the goroutine of each encoder is
  sock,      \* encoders whose socket is open
  old,       \* the session a publisher found in the slot
  hold,      \* the stream a goroutine took from the table and still uses
  refusals,  \* consecutive Revalidate passes that refused the session
  live,      \* s.live[key]
  cur,       \* s.streams[key]
  in,        \* in[x]: the stream whose subs hold subscriber x
  sub,       \* where the goroutine of each subscriber is
  setup,     \* whose configuration the table's stream would replay
  dry,       \* its emptySince is set
  revoked,   \* encoders whose key does not resolve (any more)
  stray      \* that setup was sent on by a session that had lost the slot

pubVars == <<pub, sock, old, hold, refusals>>
subVars == <<in, sub>>
vars == <<pubVars, live, cur, subVars, setup, dry, revoked, stray>>

TypeOK ==
  /\ pub \in [Pubs -> {"new", "waiting", "admitted", "taken", "replaced", "pumping",
                       "holding", "ended", "ending", "gone"}]
  /\ sock \subseteq Pubs
  /\ old \in [Pubs -> Pubs \cup {None}]
  /\ hold \in [Pubs -> Streams \cup {None}]
  /\ refusals \in [Pubs -> 0..RevokeAfter]
  /\ live \in Pubs \cup {None} /\ cur \in Streams \cup {None}
  /\ in \in [Subs -> Streams \cup {None}]
  /\ sub \in [Subs -> {"new", "serving", "closing", "gone"}]
  /\ setup \in Pubs \cup {None} /\ dry \in BOOLEAN
  /\ revoked \subseteq Pubs /\ stray \in BOOLEAN

Init ==
  /\ pub = [p \in Pubs |-> "new"] /\ sock = Pubs
  /\ old = [p \in Pubs |-> None] /\ hold = [p \in Pubs |-> None]
  /\ refusals = [p \in Pubs |-> 0]
  /\ live = None /\ cur = None
  /\ in = [x \in Subs |-> None] /\ sub = [x \in Subs |-> "new"]
  /\ setup = None /\ dry = FALSE
  /\ revoked = {} /\ stray = FALSE

Readers(t) == {x \in Subs : t # None /\ in[x] = t}
HasSubscriber == Readers(cur) # {}
Waiting == {p \in Pubs : pub[p] = "waiting"}
At(p, place) == pub' = [pub EXCEPT ![p] = place]

(* A stream structure that nothing points at any more.                     *)
NewStream == CHOOSE t \in Streams : Readers(t) = {} /\ \A p \in Pubs : hold[p] # t

(* A stream's setup and clock, as they are at first.                       *)
Fresh == setup' = None /\ stray' = FALSE /\ dry' = FALSE

-----------------------------------------------------------------------------
(* Admission.                                                              *)

(* handle, up to its verdict: a key that does not resolve is refused, one  *)
(* whose subscriber is on its way waits for it if there is room to wait.   *)
Lookup(p) ==
  /\ pub[p] = "new"
  /\ At(p, IF p \in revoked THEN "gone"
           ELSE IF HasSubscriber THEN "admitted"
           ELSE IF Cardinality(Waiting) < MaxWaiters THEN "waiting" ELSE "gone")
  /\ UNCHANGED <<sock, old, hold, refusals, live, cur, subVars, setup, dry, revoked, stray>>

(* awaitReady and leaveWait: the subscriber came, or the grace ran out, or *)
(* the server stops.                                                       *)
AwaitReady(p) ==
  /\ pub[p] = "waiting"
  /\ \/ p \notin revoked /\ HasSubscriber /\ At(p, "admitted")
     \/ At(p, "gone")
  /\ UNCHANGED <<sock, old, hold, refusals, live, cur, subVars, setup, dry, revoked, stray>>

(* admitSession takes the slot; the newest connection wins.                *)
Take(p) ==
  /\ pub[p] = "admitted" /\ At(p, "taken")
  /\ old' = [old EXCEPT ![p] = live]
  /\ live' = p
  /\ UNCHANGED <<sock, hold, refusals, cur, subVars, setup, dry, revoked, stray>>

(* and closes the connection it replaced.                                  *)
\* Mutant of Replace: the replaced encoder is left to time out.
ReplaceKeeps(p) ==
  /\ pub[p] = "taken" /\ At(p, "replaced")
  /\ old' = [old EXCEPT ![p] = None]
  /\ UNCHANGED <<sock, hold, refusals, live, cur, subVars, setup, dry, revoked, stray>>
Replace(p) ==
  /\ pub[p] = "taken" /\ At(p, "replaced")
  /\ sock' = sock \ {old[p]}
  /\ old' = [old EXCEPT ![p] = None]
  /\ UNCHANGED <<hold, refusals, live, cur, subVars, setup, dry, revoked, stray>>

(* A session's stream starts with no setup: resetSetup.                    *)
\* Mutant of ResetSetup: the setup of the last session is kept.
ResetSetupKeeps == dry' = FALSE /\ UNCHANGED <<setup, stray>>
ResetSetup == Fresh
OpenStream(p) ==
  /\ pub[p] = "replaced" /\ At(p, "pumping")
  /\ cur' = IF cur = None THEN NewStream ELSE cur
  /\ ResetSetup
  /\ UNCHANGED <<sock, old, hold, refusals, live, subVars, revoked>>

-----------------------------------------------------------------------------
(* The relay.                                                              *)

(* pump has a message and the stream it goes to.                           *)
Read(p) ==
  /\ pub[p] = "pumping" /\ p \in sock
  /\ IF cur = None THEN UNCHANGED <<pub, hold>>
     ELSE At(p, "holding") /\ hold' = [hold EXCEPT ![p] = cur]
  /\ UNCHANGED <<sock, old, refusals, live, cur, subVars, setup, dry, revoked, stray>>

(* fanOut: setup is kept for later subscribers; a stream that nobody read  *)
(* for the whole of subscriberGrace drops its publisher.                   *)
FanOut(p, isSetup, late) ==
  LET t == hold[p]
      unread == Readers(t) = {} IN
  /\ pub[p] = "holding"
  /\ hold' = [hold EXCEPT ![p] = None]
  /\ IF t # cur THEN UNCHANGED <<setup, stray, dry>>
     ELSE /\ dry' = unread
          /\ IF isSetup THEN setup' = p /\ stray' = (live # p) ELSE UNCHANGED <<setup, stray>>
  /\ At(p, IF late /\ unread /\ (t = cur => dry) THEN "ended" ELSE "pumping")
  /\ UNCHANGED <<sock, old, refusals, live, cur, subVars, revoked>>

(* The socket failed, or was closed from this side.                        *)
PumpEnds(p) ==
  /\ pub[p] = "pumping"
  /\ At(p, "ended") /\ sock' = sock \ {p}
  /\ UNCHANGED <<old, hold, refusals, live, cur, subVars, setup, dry, revoked, stray>>

-----------------------------------------------------------------------------
(* The end of a publish.                                                   *)

(* releaseSlot: only the session that holds the slot gives it up, and its  *)
(* stream is dropped unless somebody reads it.                             *)
\* Mutant of Reaps: the stream is dropped under its readers.
ReapsAlways(t) == TRUE
Reaps(t) == Readers(t) = {}
\* Mutant of Owns: whoever ends gives the slot up.
OwnsAlways(p) == TRUE
Owns(p) == live = p

Release(p) ==
  /\ pub[p] = "ended"
  /\ IF Owns(p)
     THEN /\ live' = None
          /\ cur' = IF Reaps(cur) THEN None ELSE cur
          /\ hold' = [hold EXCEPT ![p] = cur']
          /\ At(p, IF cur' = None THEN "gone" ELSE "ending")
          /\ IF cur' = None THEN Fresh ELSE UNCHANGED <<setup, stray, dry>>
     ELSE At(p, "gone") /\ UNCHANGED <<live, cur, hold, setup, stray, dry>>
  /\ sock' = sock \ {p}
  /\ UNCHANGED <<old, refusals, subVars, revoked>>

(* endSubscribers: everyone who reads the stream by then is closed.        *)
\* Mutant of EndSubscribers: nobody tells the subscribers.
EndSubscribersNot(p) ==
  /\ pub[p] = "ending" /\ At(p, "gone")
  /\ hold' = [hold EXCEPT ![p] = None]
  /\ UNCHANGED <<sock, old, refusals, live, cur, subVars, setup, dry, revoked, stray>>
EndSubscribers(p) ==
  /\ pub[p] = "ending" /\ At(p, "gone")
  /\ hold' = [hold EXCEPT ![p] = None]
  /\ sub' = [x \in Subs |-> IF x \in Readers(hold[p]) THEN "closing" ELSE sub[x]]
  /\ UNCHANGED <<sock, old, refusals, live, cur, in, setup, dry, revoked, stray>>

-----------------------------------------------------------------------------
(* Subscribers.                                                            *)

(* serveSubscriber attaches, to a stream made for it if there is none.     *)
Attach(x) ==
  /\ sub[x] = "new" /\ sub' = [sub EXCEPT ![x] = "serving"]
  /\ cur' = IF cur = None THEN NewStream ELSE cur
  /\ in' = [in EXCEPT ![x] = cur']
  /\ IF cur = None THEN Fresh ELSE UNCHANGED <<setup, stray, dry>>
  /\ UNCHANGED <<pubVars, live, revoked>>

(* watchPeer, or a write that failed: its FFmpeg is gone.                  *)
PeerGone(x) ==
  /\ sub[x] = "serving" /\ sub' = [sub EXCEPT ![x] = "closing"]
  /\ UNCHANGED <<pubVars, live, cur, in, setup, dry, revoked, stray>>

(* serveSubscriber's defer: out of the table's stream, which goes with its *)
(* last reader unless a publisher has the slot.                            *)
\* Mutant of Idle: the last reader takes the stream along.
IdleAlways(x) == Readers(cur) \ {x} = {}
Idle(x) == Readers(cur) \ {x} = {} /\ live = None
Leave(x) ==
  /\ sub[x] = "closing" /\ sub' = [sub EXCEPT ![x] = "gone"]
  /\ in' = [in EXCEPT ![x] = None]
  /\ IF cur # None /\ Idle(x) THEN cur' = None /\ Fresh ELSE UNCHANGED <<cur, setup, stray, dry>>
  /\ UNCHANGED <<pubVars, live, revoked>>

-----------------------------------------------------------------------------
(* Keys, and the end of the listener.                                      *)

(* A key is rotated, or its source disabled; and enabled again.            *)
Revoke(p) == revoked' = (IF p \in revoked THEN revoked \ {p} ELSE revoked \cup {p})
             /\ UNCHANGED <<pubVars, live, cur, subVars, setup, dry, stray>>

(* One pass of Revalidate: the second refusal in a row closes the session. *)
(* A pass that cannot read the sources is no answer and changes nothing.   *)
\* Mutant of Strikes: no refusal is remembered until the next pass.
StrikesForgotten(p) == IF p \in revoked THEN 1 ELSE 0
Strikes(p) == IF p \notin revoked THEN 0
              ELSE IF refusals[p] < RevokeAfter THEN refusals[p] + 1 ELSE refusals[p]
Revalidate ==
  /\ live # None
  /\ refusals' = [refusals EXCEPT ![live] = Strikes(live)]
  /\ sock' = IF refusals'[live] >= RevokeAfter THEN sock \ {live} ELSE sock
  /\ UNCHANGED <<pub, old, hold, live, cur, subVars, setup, dry, revoked, stray>>

Next ==
  \/ \E p \in Pubs :
       \/ Lookup(p) \/ AwaitReady(p) \/ Take(p) \/ Replace(p) \/ OpenStream(p)
       \/ Read(p) \/ PumpEnds(p) \/ Release(p) \/ EndSubscribers(p)
       \/ p \in Rotating /\ Revoke(p)
       \/ \E isSetup, late \in BOOLEAN : FanOut(p, isSetup, late)
  \/ \E x \in Subs : Attach(x) \/ PeerGone(x) \/ Leave(x)
  \/ Revalidate

Spec == Init /\ [][Next]_vars

(* A goroutine with a step to take takes it, a closed socket fails the     *)
(* read of its pump, the grace ends, and Revalidate ticks.  Nothing makes  *)
(* an encoder send, leave or come back, a key change, or the server stop.  *)
Fairness ==
  /\ \A p \in Pubs :
       /\ WF_vars(AwaitReady(p) \/ Take(p) \/ Replace(p) \/ OpenStream(p))
       /\ WF_vars(\E isSetup, late \in BOOLEAN : FanOut(p, isSetup, late))
       /\ SF_vars(p \notin sock /\ PumpEnds(p))
       /\ WF_vars(Release(p) \/ EndSubscribers(p))
  /\ \A x \in Subs : WF_vars(Leave(x))
  /\ WF_vars(Revalidate)
FairSpec == Spec /\ Fairness

-----------------------------------------------------------------------------
(* Properties.                                                             *)

(* A publisher that no longer holds the slot is cut off: its socket is     *)
(* closed, or its successor is about to close it.  Two encoders never feed *)
(* one source side by side, whatever the order in which replaced sessions  *)
(* end (admitSession, releaseSlot).                                        *)
TheReplacedAreCutOff ==
  \A p \in Pubs : pub[p] \in {"pumping", "holding"} /\ p \in sock =>
      live = p \/ \E q \in Pubs : pub[q] = "taken" /\ old[q] = p

(* Publisher and subscribers meet: whoever reads is in the stream the      *)
(* table names, and the publisher that relays finds one there, although    *)
(* both ends drop streams nobody uses.                                     *)
TheyMeetInTheTable ==
  /\ \A x \in Subs : sub[x] = "serving" => in[x] = cur
  /\ live # None /\ pub[live] \in {"pumping", "holding"} => cur # None

(* Two encoders never share a slot, two streams never share a key.         *)
OneKeyOneStream == TypeOK /\ TheReplacedAreCutOff /\ TheyMeetInTheTable

(* What a late subscriber is replayed is the configuration of the session  *)
(* on air, never of the one before, except for what that one had in hand   *)
(* when it lost the slot.                                                  *)
SetupIsOfTheSession ==
  live # None /\ pub[live] \in {"pumping", "holding"} /\ cur # None =>
    setup \in {live, None} \/ stray

(* A stale teardown cannot touch the live session's state                  *)
(* (rtmpserver.go:704).  Violated: releaseSlot lets go of the slot before  *)
(* endSubscribers closes its subscribers, and a successor may be on air.   *)
TeardownIsOwn ==
  [][\A p \in Pubs : pub[p] = "ending" /\ pub'[p] = "gone" =>
       live = None \/ Readers(hold[p]) = {}]_vars

(* The end of a publish reaches its subscribers: none stays on a stream    *)
(* that nobody feeds any more.                                             *)
EndReachesSubscribers ==
  \A x \in Subs :
    (sub[x] = "serving" /\ \E p \in Pubs : pub[p] = "ending" /\ in[x] = hold[p]) ~>
      (sub[x] # "serving")

(* A session whose key was taken away does not outlive it, however its     *)
(* admission raced with that.                                              *)
RevokedIsClosed ==
  \A p \in Pubs :
    (live = p /\ p \in revoked) ~> (live # p \/ p \notin revoked)
=============================================================================

----------------------------- MODULE Supervisor -----------------------------
(***************************************************************************)
(* One supervised FFmpeg child: the Process of internal/supervisor.        *)
(*                                                                         *)
(* The goroutines that share a Process are                                 *)
(*   - Callers, each making one call of Start, Stop or Restart;            *)
(*   - the supervise loop, one goroutine per generation (Gens): Start is   *)
(*     the only place that launches one;                                   *)
(*   - the goroutine Start leaves behind when the previous loop is still   *)
(*     unwinding (pend);                                                   *)
(*   - one escalator per signalled spawn (esc): SIGTERM, grace, SIGKILL.   *)
(* A step of a goroutine is one critical section or one statement between  *)
(* two of them: runMu, cmdMu and mu are never held across a step.          *)
(* A spawn is one exec of the child, and stands for p.cmd together with    *)
(* its exited channel, which are allocated together and never reused.      *)
(*                                                                         *)
(* Which exits exhaust the retry policy, and how long a backoff lasts, is  *)
(* not told apart here: a loop may retry or give up after any exit.        *)
(***************************************************************************)
EXTENDS Naturals

CONSTANTS
  Callers,      \* goroutines that call Start, Stop or Restart
  MaxGen,       \* bound: supervise loops ever launched
  MaxSpawn,     \* bound: children ever spawned
  AutoRestart,  \* Spec.AutoRestart
  Deadlines     \* whether a Stop's context may expire before the loop ends

ASSUME BoundsAssumption == MaxGen \in Nat /\ MaxSpawn \in Nat
ASSUME FlagsAssumption  == AutoRestart \in BOOLEAN /\ Deadlines \in BOOLEAN

Gens   == 1..MaxGen
Spawns == 1..MaxSpawn
None   == 0             \* a nil cmd, a nil done channel

Ops    == {"start", "stop", "restart"}
States == {"stopped", "starting", "running", "reconnecting", "failed"}
LoopPCs == {"unborn", "delay", "top", "starting", "exec", "publish",
            "ctxcheck", "signal", "run", "wait", "reaped", "drain", "after",
            "stopped", "failed", "retry", "backoff", "closing", "ended"}
CallerPCs == {"idle", "cancel", "terminate", "signal", "wait", "resolve",
              "check", "kill", "finish", "start", "returned"}

VARIABLES
  running, retired, startPending, gen,  \* guarded by runMu
  cancelled,   \* generations whose ctx has been cancelled
  loop,        \* loop[g]: where the supervise loop of generation g is
  lspawn,      \* lspawn[g]: the spawn runOnce of generation g is handling
  pend,        \* pend[g]: the goroutine Start left waiting for g's done
  cmd,         \* p.cmd with p.exited
  signalled,   \* p.signalled
  exited,      \* spawns whose exited channel is closed
  child,       \* child[s]: the operating system's view of the process
  owner,       \* owner[s]: the generation that spawned s (history)
  terms,       \* terms[s]: SIGTERMs sent for s
  killed,      \* spawns that have been sent SIGKILL
  esc,         \* esc[s]: the escalator goroutine of s
  state,       \* p.state, the status everyone reads
  pc, op,      \* where each caller is, and in which call
  cgen, ccmd,  \* stop(): the generation and the spawn it snapshotted
  target,      \* the spawn a caller is about to signal or kill
  result       \* what the caller's Stop returned

runVars    == <<running, retired, startPending, gen>>
loopVars   == <<loop, lspawn>>
cmdVars    == <<cmd, signalled, exited>>
osVars     == <<child, owner, terms, killed, esc>>
callerVars == <<pc, op, cgen, ccmd, target, result>>
vars == <<runVars, cancelled, loopVars, pend, cmdVars, osVars, state,
          callerVars>>

Init ==
  /\ running = FALSE /\ retired = FALSE /\ startPending = FALSE /\ gen = None
  /\ cancelled = {}
  /\ loop   = [g \in Gens |-> "unborn"]
  /\ lspawn = [g \in Gens |-> None]
  /\ pend   = [g \in Gens |-> "off"]
  /\ cmd = None /\ signalled = FALSE /\ exited = {}
  /\ child = [s \in Spawns |-> "unborn"]
  /\ owner = [s \in Spawns |-> None]
  /\ terms = [s \in Spawns |-> 0]
  /\ killed = {}
  /\ esc   = [s \in Spawns |-> "off"]
  /\ state = "stopped"
  /\ pc = [c \in Callers |-> "idle"]
  /\ op = [c \in Callers |-> "start"]
  /\ cgen = [c \in Callers |-> None]
  /\ ccmd = [c \in Callers |-> None]
  /\ target = [c \in Callers |-> None]
  /\ result = [c \in Callers |-> "none"]

(* The done channel of a generation is closed by the deferred close.       *)
DoneClosed(g) == loop[g] = "ended"
LoopAlive(g)  == loop[g] \notin {"unborn", "ended"}
ChildUnreaped(s) == child[s] \in {"alive", "zombie"}

-----------------------------------------------------------------------------
(* Start                                                                   *)

(* Mutants of StartBody: a loop is launched beside one still unwinding;    *)
(* the retired latch is not read.                                          *)
StartBodyNoWait(waiting) ==
  /\ ~(retired \/ running \/ startPending)
  /\ gen < MaxGen
  /\ gen' = gen + 1
  /\ running' = TRUE
  /\ loop' = [loop EXCEPT ![gen'] = "delay"]
  /\ pend' = waiting
  /\ UNCHANGED startPending

StartBodyUnlatched(waiting) ==
  \/ /\ running \/ startPending
     /\ pend' = waiting
     /\ UNCHANGED <<running, startPending, gen, loop>>
  \/ /\ ~(running \/ startPending)
     /\ gen # None => DoneClosed(gen)
     /\ gen < MaxGen
     /\ gen' = gen + 1
     /\ running' = TRUE
     /\ loop' = [loop EXCEPT ![gen'] = "delay"]
     /\ pend' = waiting
     /\ UNCHANGED startPending

(* The body of Start, under runMu throughout; waiting is pend less the     *)
(* goroutine that is calling. p.done is the newest generation's. While     *)
(* that loop is still unwinding the Start becomes a promise.               *)
StartBody(waiting) ==
  \/ /\ retired \/ running \/ startPending
     /\ pend' = waiting
     /\ UNCHANGED <<running, startPending, gen, loop>>
  \/ /\ ~(retired \/ running \/ startPending)
     /\ gen # None /\ ~DoneClosed(gen)
     /\ startPending' = TRUE
     /\ pend' = [waiting EXCEPT ![gen] = "wait"]
     /\ UNCHANGED <<running, gen, loop>>
  \/ /\ ~(retired \/ running \/ startPending)
     /\ gen # None => DoneClosed(gen)
     /\ gen < MaxGen
     /\ gen' = gen + 1
     /\ running' = TRUE
     /\ loop' = [loop EXCEPT ![gen'] = "delay"]
     /\ pend' = waiting
     /\ UNCHANGED startPending

CallStart(c) ==
  /\ pc[c] = "idle"
  /\ StartBody(pend)
  /\ pc' = [pc EXCEPT ![c] = "returned"]
  /\ UNCHANGED <<retired, cancelled, lspawn, cmdVars, osVars, state,
                 op, cgen, ccmd, target, result>>

(* The Start at the end of Restart.                                        *)
RestartStart(c) ==
  /\ pc[c] = "start"
  /\ StartBody(pend)
  /\ pc' = [pc EXCEPT ![c] = "returned"]
  /\ UNCHANGED <<retired, cancelled, lspawn, cmdVars, osVars, state,
                 op, cgen, ccmd, target, result>>

(* Mutant of PendingWake: the promise is cleared and forgotten.            *)
PendingWakeForgets(g) ==
  /\ pend[g] = "wait" /\ DoneClosed(g)
  /\ startPending' = FALSE
  /\ pend' = [pend EXCEPT ![g] = "off"]
  /\ UNCHANGED <<running, retired, gen, cancelled, loopVars, cmdVars, osVars,
                 state, callerVars>>

(* The goroutine behind a promised Start: it wakes on the old loop's done  *)
(* and clears startPending under runMu ...                                 *)
PendingWake(g) ==
  /\ pend[g] = "wait" /\ DoneClosed(g)
  /\ startPending' = FALSE
  /\ pend' = [pend EXCEPT ![g] = "go"]
  /\ UNCHANGED <<running, retired, gen, cancelled, loopVars, cmdVars, osVars,
                 state, callerVars>>

(* ... then, runMu having been released, calls Start, which re-reads the   *)
(* latch.                                                                  *)
PendingStart(g) ==
  /\ pend[g] = "go"
  /\ StartBody([pend EXCEPT ![g] = "off"])
  /\ UNCHANGED <<retired, cancelled, lspawn, cmdVars, osVars, state,
                 callerVars>>

-----------------------------------------------------------------------------
(* Stop and the stop half of Restart                                       *)

(* Under runMu: latch, give up running, and snapshot the generation and    *)
(* (under cmdMu) the published spawn. Nothing running: nothing to do.      *)
StopEnter(c, o) ==
  /\ pc[c] = "idle"
  /\ retired' = (retired \/ o = "stop")
  /\ op' = [op EXCEPT ![c] = o]
  /\ \/ /\ ~running
        /\ pc' = [pc EXCEPT ![c] = IF o = "restart" THEN "start" ELSE "returned"]
        /\ result' = [result EXCEPT ![c] = "idle"]
        /\ UNCHANGED <<running, cgen, ccmd>>
     \/ /\ running
        /\ running' = FALSE
        /\ cgen' = [cgen EXCEPT ![c] = gen]
        /\ ccmd' = [ccmd EXCEPT ![c] = cmd]
        /\ pc' = [pc EXCEPT ![c] = "cancel"]
        /\ UNCHANGED result
  /\ UNCHANGED <<startPending, gen, cancelled, loopVars, pend, cmdVars,
                 osVars, state, target>>

StopCancel(c) ==
  /\ pc[c] = "cancel"
  /\ cancelled' = cancelled \union {cgen[c]}
  /\ pc' = [pc EXCEPT ![c] = "terminate"]
  /\ UNCHANGED <<runVars, loopVars, pend, cmdVars, osVars, state,
                 op, cgen, ccmd, target, result>>

(* terminate(), first half: under cmdMu, read the published spawn -- the   *)
(* one published now, not the one stop() snapshotted -- and take signalled.*)
StopTerminate(c) ==
  /\ pc[c] = "terminate"
  /\ \/ /\ cmd = None \/ signalled
        /\ pc' = [pc EXCEPT ![c] = "wait"]
        /\ UNCHANGED <<signalled, target>>
     \/ /\ cmd # None /\ ~signalled
        /\ signalled' = TRUE
        /\ target' = [target EXCEPT ![c] = cmd]
        /\ pc' = [pc EXCEPT ![c] = "signal"]
  /\ UNCHANGED <<runVars, cancelled, loopVars, pend, cmd, exited, osVars,
                 state, op, cgen, ccmd, result>>

(* Mutant of StopSignal: SIGTERM without an escalator behind it.           *)
StopSignalOnly(c) ==
  /\ pc[c] = "signal"
  /\ terms' = [terms EXCEPT ![target[c]] = @ + 1]
  /\ pc' = [pc EXCEPT ![c] = "wait"]
  /\ UNCHANGED <<runVars, cancelled, loopVars, pend, cmdVars, child, owner,
                 killed, esc, state, op, cgen, ccmd, target, result>>

(* terminate(), second half, cmdMu released: signalGroup and the escalator.*)
StopSignal(c) ==
  /\ pc[c] = "signal"
  /\ terms' = [terms EXCEPT ![target[c]] = @ + 1]
  /\ esc'   = [esc EXCEPT ![target[c]] = "armed"]
  /\ pc' = [pc EXCEPT ![c] = "wait"]
  /\ UNCHANGED <<runVars, cancelled, loopVars, pend, cmdVars, child, owner,
                 killed, state, op, cgen, ccmd, target, result>>

(* The select on done and the deadline. Completion wins a tie: the         *)
(* deadline arm looks at done once more.                                   *)
StopDone(c) ==
  /\ pc[c] = "wait" /\ DoneClosed(cgen[c])
  /\ result' = [result EXCEPT ![c] = "clean"]
  /\ pc' = [pc EXCEPT ![c] = "finish"]
  /\ UNCHANGED <<runVars, cancelled, loopVars, pend, cmdVars, osVars, state,
                 op, cgen, ccmd, target>>

StopDeadline(c) ==
  /\ pc[c] = "wait" /\ Deadlines /\ ~DoneClosed(cgen[c])
  /\ result' = [result EXCEPT ![c] = "deadline"]
  /\ pc' = [pc EXCEPT ![c] = "resolve"]
  /\ UNCHANGED <<runVars, cancelled, loopVars, pend, cmdVars, osVars, state,
                 op, cgen, ccmd, target>>

(* Mutant of KillTarget: the kill re-reads the published spawn.            *)
KillTargetFresh(c) == cmd

(* cmdForKill: the snapshot, or, when it was nil, what is published now,   *)
(* provided done is still open under cmdMu.                                *)
KillTarget(c) ==
  IF ccmd[c] # None THEN ccmd[c]
  ELSE IF DoneClosed(cgen[c]) THEN None ELSE cmd

StopResolve(c) ==
  /\ pc[c] = "resolve"
  /\ target' = [target EXCEPT ![c] = KillTarget(c)]
  /\ pc' = [pc EXCEPT ![c] = "check"]
  /\ UNCHANGED <<runVars, cancelled, loopVars, pend, cmdVars, osVars, state,
                 op, cgen, ccmd, result>>

(* killCmd refuses a nil cmd and one whose exited channel is closed.       *)
StopCheck(c) ==
  /\ pc[c] = "check"
  /\ pc' = [pc EXCEPT ![c] = IF target[c] = None \/ target[c] \in exited
                             THEN "finish" ELSE "kill"]
  /\ UNCHANGED <<runVars, cancelled, loopVars, pend, cmdVars, osVars, state,
                 op, cgen, ccmd, target, result>>

StopKill(c) ==
  /\ pc[c] = "kill"
  /\ killed' = killed \union {target[c]}
  /\ pc' = [pc EXCEPT ![c] = "finish"]
  /\ UNCHANGED <<runVars, cancelled, loopVars, pend, cmdVars, child, owner,
                 terms, esc, state, op, cgen, ccmd, target, result>>

(* Mutants of SetStateFor: written whatever has begun since; never written *)
(* for the newest generation.                                              *)
SetStateForAny(g, s) == state' = s
SetStateForOlder(g, s) == state' = IF gen > g THEN s ELSE state

(* setStateFor: dropped when a newer generation has begun.                 *)
SetStateFor(g, s) == state' = IF gen = g THEN s ELSE state

StopFinish(c) ==
  /\ pc[c] = "finish"
  /\ SetStateFor(cgen[c], "stopped")
  /\ pc' = [pc EXCEPT ![c] = IF op[c] = "restart" THEN "start" ELSE "returned"]
  /\ UNCHANGED <<runVars, cancelled, loopVars, pend, cmdVars, osVars,
                 op, cgen, ccmd, target, result>>

-----------------------------------------------------------------------------
(* The supervise loop of generation g                                      *)

Goto(g, to) == loop' = [loop EXCEPT ![g] = to]

(* A loop step that touches nothing but its own pc.                        *)
LoopMove(g, from, to) ==
  /\ loop[g] = from
  /\ Goto(g, to)
  /\ UNCHANGED <<runVars, cancelled, lspawn, pend, cmdVars, osVars, state,
                 callerVars>>

(* A loop step that reports a state.                                       *)
LoopReport(g, from, s, to) ==
  /\ loop[g] = from
  /\ state' = s
  /\ Goto(g, to)
  /\ UNCHANGED <<runVars, cancelled, lspawn, pend, cmdVars, osVars,
                 callerVars>>

Cancelled(g) == g \in cancelled

(* waitStartDelay: a stop during the stagger ends the loop; when both arms *)
(* of the select are ready either may be taken.                            *)
StartDelay(g) ==
  \/ LoopMove(g, "delay", "top")
  \/ Cancelled(g) /\ LoopReport(g, "delay", "stopped", "closing")

(* for { if ctx.Err() != nil { return } ... setState(StateStarting)        *)
LoopTop(g) ==
  \/ Cancelled(g)  /\ LoopMove(g, "top", "closing")
  \/ ~Cancelled(g) /\ LoopMove(g, "top", "starting")

LoopStarting(g) == LoopReport(g, "starting", "starting", "exec")

(* cmd.Start(): the child exists, but p.cmd does not name it yet.          *)
Exec(g) ==
  /\ loop[g] = "exec"
  /\ \E s \in Spawns :
       /\ child[s] = "unborn"
       /\ \A t \in Spawns : t < s => child[t] # "unborn"
       /\ child'  = [child EXCEPT ![s] = "alive"]
       /\ owner'  = [owner EXCEPT ![s] = g]
       /\ lspawn' = [lspawn EXCEPT ![g] = s]
  /\ Goto(g, "publish")
  /\ UNCHANGED <<runVars, cancelled, pend, cmdVars, terms, killed, esc, state,
                 callerVars>>

ExecFails(g) == LoopMove(g, "exec", "after")

Publish(g) ==
  /\ loop[g] = "publish"
  /\ cmd' = lspawn[g]
  /\ signalled' = FALSE
  /\ Goto(g, "ctxcheck")
  /\ UNCHANGED <<runVars, cancelled, lspawn, pend, exited, osVars, state,
                 callerVars>>

(* Mutants of CtxCheck: the latch is not consulted; no look back at all.   *)
CtxCheckUnlatched(g) ==
  \/ ~Cancelled(g) /\ LoopMove(g, "ctxcheck", "run")
  \/ /\ Cancelled(g)
     /\ loop[g] = "ctxcheck"
     /\ signalled' = TRUE
     /\ Goto(g, "signal")
     /\ UNCHANGED <<runVars, cancelled, lspawn, pend, cmd, exited, osVars,
                    state, callerVars>>

CtxCheckAbsent(g) == LoopMove(g, "ctxcheck", "run")

(* if ctx.Err() != nil { p.terminate() }: a stop that landed while the     *)
(* spawn was in flight signalled nothing, so the spawn does it itself.     *)
CtxCheck(g) ==
  \/ ~Cancelled(g) /\ LoopMove(g, "ctxcheck", "run")
  \/ Cancelled(g) /\ signalled /\ LoopMove(g, "ctxcheck", "run")
  \/ /\ Cancelled(g) /\ ~signalled
     /\ loop[g] = "ctxcheck"
     /\ signalled' = TRUE
     /\ Goto(g, "signal")
     /\ UNCHANGED <<runVars, cancelled, lspawn, pend, cmd, exited, osVars,
                    state, callerVars>>

SelfSignal(g) ==
  /\ loop[g] = "signal"
  /\ terms' = [terms EXCEPT ![lspawn[g]] = @ + 1]
  /\ esc'   = [esc EXCEPT ![lspawn[g]] = "armed"]
  /\ Goto(g, "run")
  /\ UNCHANGED <<runVars, cancelled, lspawn, pend, cmdVars, child, owner,
                 killed, state, callerVars>>

LoopRunning(g) == LoopReport(g, "run", "running", "wait")

(* cmd.Wait() returns: the kernel has forgotten the pid.                   *)
Reap(g) ==
  /\ loop[g] = "wait"
  /\ child[lspawn[g]] = "zombie"
  /\ child' = [child EXCEPT ![lspawn[g]] = "reaped"]
  /\ Goto(g, "reaped")
  /\ UNCHANGED <<runVars, cancelled, lspawn, pend, cmdVars, owner, terms,
                 killed, esc, state, callerVars>>

(* close(exited), a statement later.                                       *)
AnnounceReap(g) ==
  /\ loop[g] = "reaped"
  /\ exited' = exited \union {lspawn[g]}
  /\ Goto(g, "drain")
  /\ UNCHANGED <<runVars, cancelled, lspawn, pend, cmd, signalled, osVars,
                 state, callerVars>>

(* The bounded drain, then clearSpawn: only this spawn's own publication.  *)
DrainAndClear(g) ==
  /\ loop[g] = "drain"
  /\ cmd' = IF cmd = lspawn[g] THEN None ELSE cmd
  /\ Goto(g, "after")
  /\ UNCHANGED <<runVars, cancelled, lspawn, pend, signalled, exited, osVars,
                 state, callerVars>>

(* Back in supervise. A cancelled loop reports Stopped; otherwise the exit *)
(* ends a one-shot (finishRun), is held or given up on, or is retried.     *)
AfterRun(g) ==
  \/ Cancelled(g) /\ LoopMove(g, "after", "stopped")
  \/ ~Cancelled(g) /\ LoopMove(g, "after", "failed")
  \/ ~Cancelled(g) /\ ~AutoRestart /\ LoopMove(g, "after", "stopped")
  \/ ~Cancelled(g) /\ AutoRestart /\ LoopMove(g, "after", "retry")

ReportStopped(g) == LoopReport(g, "stopped", "stopped", "closing")
ReportFailed(g)  == LoopReport(g, "failed", "failed", "closing")
ScheduleRetry(g) == LoopReport(g, "retry", "reconnecting", "backoff")

(* waitBackoff: the timer, or the stop; both ready, either may be taken.   *)
Backoff(g) ==
  \/ LoopMove(g, "backoff", "top")
  \/ Cancelled(g) /\ LoopMove(g, "backoff", "stopped")

CloseDone(g) == LoopMove(g, "closing", "ended")

-----------------------------------------------------------------------------
(* The operating system, and the escalators                                *)

(* A child exits: on its own, on SIGTERM, or on SIGKILL.                   *)
ChildExits(s) ==
  /\ child[s] = "alive"
  /\ child' = [child EXCEPT ![s] = "zombie"]
  /\ UNCHANGED <<runVars, cancelled, loopVars, pend, cmdVars, owner, terms,
                 killed, esc, state, callerVars>>

(* The escalator's select: exited, or the grace timer. With both ready     *)
(* either arm may be taken.                                                *)
EscalatorStandsDown(s) ==
  /\ esc[s] = "armed" /\ s \in exited
  /\ esc' = [esc EXCEPT ![s] = "off"]
  /\ UNCHANGED <<runVars, cancelled, loopVars, pend, cmdVars, child, owner,
                 terms, killed, state, callerVars>>

GraceExpires(s) ==
  /\ esc[s] = "armed"
  /\ esc' = [esc EXCEPT ![s] = "off"]
  /\ killed' = killed \union {s}
  /\ UNCHANGED <<runVars, cancelled, loopVars, pend, cmdVars, child, owner,
                 terms, state, callerVars>>

-----------------------------------------------------------------------------
CallerNext(c) ==  \* the deadline is the context's doing, not the caller's
  \/ CallStart(c) \/ RestartStart(c)
  \/ \E o \in {"stop", "restart"} : StopEnter(c, o)
  \/ StopCancel(c) \/ StopTerminate(c) \/ StopSignal(c)
  \/ StopDone(c)
  \/ StopResolve(c) \/ StopCheck(c) \/ StopKill(c) \/ StopFinish(c)

LoopNext(g) ==
  \/ StartDelay(g) \/ LoopTop(g) \/ LoopStarting(g) \/ Exec(g)
  \/ ExecFails(g) \/ Publish(g) \/ CtxCheck(g) \/ SelfSignal(g)
  \/ LoopRunning(g) \/ Reap(g) \/ AnnounceReap(g) \/ DrainAndClear(g)
  \/ AfterRun(g) \/ ReportStopped(g) \/ ReportFailed(g) \/ ScheduleRetry(g)
  \/ Backoff(g) \/ CloseDone(g)

PendNext(g) == PendingWake(g) \/ PendingStart(g)

EscalatorNext(s) == EscalatorStandsDown(s) \/ GraceExpires(s)

Next ==
  \/ \E c \in Callers : CallerNext(c) \/ StopDeadline(c)
  \/ \E g \in Gens : LoopNext(g) \/ PendNext(g)
  \/ \E s \in Spawns : ChildExits(s) \/ EscalatorNext(s)

Spec == Init /\ [][Next]_vars

(* Every goroutine is scheduled, the grace timer fires, and SIGKILL is     *)
(* obeyed. Nothing makes a child answer SIGTERM or exit by itself, and     *)
(* nothing makes a Stop's context expire.                                  *)
Fairness ==
  /\ \A c \in Callers : WF_vars(CallerNext(c) /\ pc[c] # "idle")
  /\ \A g \in Gens : WF_vars(LoopNext(g)) /\ WF_vars(PendNext(g))
  /\ \A s \in Spawns : /\ WF_vars(s \in killed /\ ChildExits(s))
                       /\ WF_vars(EscalatorNext(s))

FairSpec == Spec /\ Fairness

-----------------------------------------------------------------------------
(* Properties                                                              *)

(* Every variable has its type.                                            *)
TypeOK ==
  /\ running \in BOOLEAN /\ retired \in BOOLEAN /\ startPending \in BOOLEAN
  /\ gen \in 0..MaxGen
  /\ cancelled \subseteq Gens
  /\ loop \in [Gens -> LoopPCs]
  /\ lspawn \in [Gens -> 0..MaxSpawn]
  /\ pend \in [Gens -> {"off", "wait", "go"}]
  /\ cmd \in 0..MaxSpawn
  /\ signalled \in BOOLEAN
  /\ exited \subseteq Spawns
  /\ child \in [Spawns -> {"unborn", "alive", "zombie", "reaped"}]
  /\ owner \in [Spawns -> 0..MaxGen]
  /\ terms \in [Spawns -> Nat]
  /\ killed \subseteq Spawns
  /\ esc \in [Spawns -> {"off", "armed"}]
  /\ state \in States
  /\ pc \in [Callers -> CallerPCs]
  /\ op \in [Callers -> Ops]
  /\ cgen \in [Callers -> 0..MaxGen]
  /\ ccmd \in [Callers -> 0..MaxSpawn]
  /\ target \in [Callers -> 0..MaxSpawn]
  /\ result \in [Callers -> {"none", "idle", "clean", "deadline"}]

(* Start never launches a supervise loop beside one that is still          *)
(* unwinding, not even behind a Stop that gave up on its deadline          *)
(* ("ONE SUPERVISE LOOP AT A TIME").                                       *)
OneLoop == \A g, h \in Gens : LoopAlive(g) /\ LoopAlive(h) => g = h

(* No two children of one Process are ever in the process table together:  *)
(* they would publish to one destination key.                              *)
OneChild ==
  \A s, t \in Spawns : ChildUnreaped(s) /\ ChildUnreaped(t) => s = t

(* FFmpeg answers a second SIGTERM by exiting without finalising its       *)
(* output, so a spawn is sent at most one, although both stop() and the    *)
(* spawn itself call terminate().                                          *)
AtMostOneTerm == \A s \in Spawns : terms[s] <= 1

(* One at a time, loop and child: what keeps two FFmpegs off one           *)
(* destination, whatever deadlines expire and whoever calls Start.         *)
OneAtATime == OneLoop /\ OneChild

(* The SIGKILL of an expired Stop reaches a child of the generation that   *)
(* Stop ended, however late it runs, never a successor's.                  *)
KillIsScoped ==
  \A c \in Callers : pc[c] = "kill" => owner[target[c]] = cgen[c]

(* The signals sent while runMu is released stay what they were meant to   *)
(* be: one SIGTERM a spawn, and a SIGKILL of the generation that was ended.*)
SignalsInScope == AtMostOneTerm /\ KillIsScoped

(* A loop that waits on its child and has not been cancelled reads         *)
(* Running: a Stop finishing an older generation never writes Stopped over *)
(* a live one.                                                             *)
LiveLoopReadsRunning ==
  \A g \in Gens : loop[g] = "wait" /\ ~Cancelled(g) => state = "running"

(* A Stop that ended a loop and returned nil really ended it: from then on *)
(* nothing of this Process is running or ever will be, and it reads        *)
(* Stopped.                                                                *)
CleanStopIsFinal ==
  \A c \in Callers :
    op[c] = "stop" /\ pc[c] = "returned" /\ result[c] = "clean" =>
      /\ state = "stopped"
      /\ \A g \in Gens : ~LoopAlive(g)
      /\ \A s \in Spawns : ~ChildUnreaped(s)

(* The status is true at both ends: a loop that runs its child reads       *)
(* Running, and a Stop that returned nil left Stopped and nothing behind.  *)
StatusIsTrue == LiveLoopReadsRunning /\ CleanStopIsFinal

Quiet ==
  /\ \A c \in Callers : pc[c] = "returned"
  /\ \A g \in Gens : ~LoopAlive(g) /\ pend[g] = "off"

(* "Both end at StateStopped": once a retired process has come to rest it  *)
(* reads Stopped, the state an operator asked for, and not Failed, the     *)
(* state that raises an alert.                                             *)
RetiredReadsStopped == retired /\ Quiet => state = "stopped"

(* That holds when no Stop's context expired: a loop that outlives an      *)
(* expired one may still report its own exit.                              *)
CleanlyRetiredReadsStopped ==
  (\A c \in Callers : result[c] # "deadline") => RetiredReadsStopped

(* stop() signals the child it was asked to stop ("THIS generation's child *)
(* -- the one terminate() just signalled").  Violated: terminate() reads    *)
(* p.cmd again, with runMu released.                                       *)
TermIsScoped ==
  \A c \in Callers : pc[c] = "signal" => owner[target[c]] = cgen[c]

(* A retired process ends up with no loop and no child, whatever the child *)
(* does with its SIGTERM, and without any Stop's deadline.                 *)
RetiredIsReaped ==
  retired ~> /\ \A g \in Gens : ~LoopAlive(g)
             /\ \A s \in Spawns : ~ChildUnreaped(s)

(* Every Start, Stop and Restart returns: the escalator bounds the wait    *)
(* even when the context never expires.                                    *)
CallersReturn ==
  \A c \in Callers : pc[c] # "idle" ~> pc[c] = "returned"

(* A Start that had to wait for the previous loop is not forgotten.        *)
PromiseIsKept == startPending ~> running \/ retired
=============================================================================

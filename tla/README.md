# A TLA+ model of polyemesis

polyemesis is a self-hosted restreaming server written in Go. One programme
comes in (RTMP, SRT, a file, a generated source), is published once as MPEG-TS
over loopback UDP into a relay hub, and is fanned out to FFmpeg children: shared
renditions, one publisher per destination, a recorder, previews, a playout
packager. A database holds what the operator wants; the engine reconciles the
running processes against it. Beside the stream run a durable background job
queue, webhook and alert deliveries, chat, schedules and uploads.

This directory models the concurrent core of the Go server, checks it with TLC
on small instances and proves its central safety properties with TLAPS. Every
definition is translated from the code; `PROJECT.json` gives, for each, the
file and lines it stands for.

## Inventory

The parts with concurrency, failure handling or ordering of their own, the
state each keeps, and what makes it correct. The last column names the module,
or the place in the plan.

| Part | State and operations | How it interacts | What is hard, what must hold | Module |
|---|---|---|---|---|
| `internal/supervisor` process lifecycle | run latch, generation, published child, status; Start, Stop, Restart, supervise loop, terminate, kill | called by every engine path; OnState fans out to events and alerts | overlapping Stop/Restart/Start, a Stop mid-spawn, deadlines, grace escalation; one loop and one child, signals only to one's own child | `Supervisor` |
| `internal/supervisor` restart policy | retry count, consecutive failures, quick rejections, backoff, next retry; SetPolicy, RestartCounted, InheritRestarts | engine retunes it on a settings save; alerts and MQTT read the counts | a retune during a wait, a hold against a give-up; a wait is only ever shortened, an exhausted process stays down | plan (`RestartPolicy`) |
| `internal/supervisor` live commands | command pipe of the running child, pending reply; SetVolume, deliverReply, clearLive | the engine's live gains | a late reply taken for the next command's; a command racing the reap | plan (`LiveCommands`) |
| `internal/relay` hub, ports, wakes | subscribers by name with port and drop count, spare ports, live flag; Subscribe, Unsubscribe, run, Wake | engine subscribes before it starts a reader; the ingest feeds it | subscription replaced under a running reader, a port handed out twice, a port released while a child still reads | `Reconcile` (subscriptions, ports), in part |
| `internal/engine` reconcile | running destinations, renditions with reference counts, ports, signatures; Reconcile, StopWithin, teardown | reads `db`, drives `supervisor` and `relay` | order of stops and starts, shared renditions, a Stop racing a Reconcile, failed allocation; no reader of a stopped rendition, nothing started after shutdown, no leak | `Reconcile` |
| `internal/engine` selector, `silence.go` | the selector's hub and its one feed, the source on air, the pin, delivery per source; the backup, playlist and silence tiers; sweep, SwitchSource, FixSource, reconcileSelector | reads the byte counters of each source's hub, stops one feed and starts another into the same hub; a reconcile replaces the hubs the feeds read | two feeds in one hub, a feed left to die, a feed on a hub that closes, flapping, a playlist that is gone; one publisher, and never off air for good | `Selector` |
| `internal/engine` manager | engines by source, engines being stopped, shared listeners, saved settings, retired alert counts; Sync, StopWithin, RecorderRunning | HTTP handlers reconcile and save at any time; main stops it | two Syncs at once, a save while an engine starts, a shutdown between two sections; one configured engine a programme, no recorder unseen | `Manager` |
| `internal/engine` degrade, liveness, onair | link thresholds, stream liveness, on-air latch | stats and meters in, alerts out | hysteresis, stale samples | the verdict of degrade in `Selector`; the rest not modelled |
| `internal/jobs` queue and governor | rows in SQLite, running set; Enqueue, claim, finish, Cancel, Retry, recovery at start | workers of `transcribe`, `media`, `clipper`, `highlights`, `publish`, `playlistmedia`, `uploadverify` | crash between claim and finish, cancel racing completion, attempts exhausted; a job is run by one worker, a terminal state is final, nothing queued is forgotten | `JobQueue` |
| `internal/hooks`, `internal/alerts`, `internal/mqtt` | bounded queues, per-endpoint retry, edge state, retained topics | engine events in, HTTP and MQTT out | a full queue, retries out of order, a shutdown with deliveries in flight | plan |
| `internal/scheduler` | schedules, last run, next run | flips `enabled`, asks for a reconcile | missed runs, a clock that jumps, overlapping windows | plan |
| `internal/delayline` | byte ring, splice state, release clock | between hub and publisher | a full ring, a discontinuity, a change of delay | plan |
| `internal/rtmpserver` | publisher slots by key, streams with their subscribers and replayed setup, waiters, refusals; Admit, relay, teardown, Revalidate | encoders in, the engine's ingest children read | a reconnect racing the old session's end, a key revoked during admission; one encoder a slot, no stale setup, readers are told of the end | `RtmpListener` |
| `internal/srtserver`, `internal/srtla`, `internal/authgate` | session tables, bonded links, backoff per peer | encoders in, hub out | a reconnect racing the old session's end, slot leaks | plan |
| `internal/events`, `internal/eventstream` | subscriber channels, sequence numbers, replay ring | everything publishes, browsers read | slow subscribers, resume after a gap | plan |
| `internal/polls` | votes by viewer, votes held for automod, native mirrors and their reads, the stored row; Offer, Resolve, Retract, Start, End, tick | chat and automod in, the platforms' poll APIs, the store | verdicts in any order, an answer after the poll closed, a lost final count; one vote a viewer, each chat counted once, every poll ends | `Polls` |
| `internal/chat`, `internal/automod`, `internal/overlay`, `internal/chatcmd` | adapters, reconnect loops, verdicts | platforms in and out | duplicate delivery, reconnects | not modelled |
| `internal/uploads`, `internal/uploadverify`, `internal/playlistmedia` | upload rows and files, verdicts | API in, playlists out | crash between file and row, delete of a file in use | plan |
| `internal/publish` with the publication handlers of `internal/api` | publication row with its stamp, linked job, stored session; click, worker, reconcile of a dead attempt | clicks from the API, a job of the queue, uploads to YouTube, TikTok and X | a crash on either side of an irreversible request, an answer that never comes; never posted twice without a person's acknowledgement, nothing forgotten | `Publish` |
| `internal/recording`, `internal/media`, `internal/offload`, `internal/clipper`, `internal/clips`, `internal/highlights`, `internal/transcribe` | recording index, derived files, mirror ledger, publish ledger, clip ring | jobs, retention | retention deleting what a job reads | plan |
| `internal/playout`, `internal/captions`, `internal/meters`, `internal/stats`, `internal/analytics` | packager state, viewer sessions, caption queue, samples | hub in, HTTP out | windows and counters at their limits | plan |
| `internal/auth`, `internal/db`, `internal/api`, `internal/oauth` | sessions and throttles, SQLite rows, handlers, token refresh | the operator | two refreshes of one token, a read-modify-write of settings | plan, in part |
| `internal/ffmpeg`, `internal/routing`, `internal/multitrack`, `internal/failreason`, `internal/redact`, `internal/config`, `internal/tlsx`, `internal/platform`, `internal/services`, `internal/metrics`, `internal/diag`, `internal/netguard`, `internal/objstore`, `internal/secrets`, `internal/fsperm`, `internal/upgrade`, `internal/obsbridge`, `internal/mpegts`, small leaves | pure functions and tables, I/O adapters | called by the above | their results are text, command lines and bytes | not modelled |
| `ui`, `web`, `integrations`, `scripts`, `deploy`, `docs` | front end, site, plugins, tooling | HTTP | none of the server's state | not modelled |

## The modules

| Module | What it is | Extends |
|---|---|---|
| `Supervisor` | one supervised child | - |
| `SupervisorProofs` | its theorems | `Supervisor`, TLAPS |
| `JobLedger` | what the job queue promises: rows and the set of jobs in hand | - |
| `JobQueue` | the queue, which implements `JobLedger` | - |
| `JobQueueProofs` | its theorems, the refinement among them | `JobQueue`, TLAPS |
| `Reconcile` | one programme's engine: destinations, backups, renditions, hubs, ports, shutdown | - |
| `ReconcileProofs` | its theorems | `Reconcile`, TLAPS |
| `Publish` | one clip published to one account: click, job, worker, platform | - |
| `PublishProofs` | its theorems | `Publish`, TLAPS |
| `Selector` | failover of one programme: the choice, the feed, the tiers it reads, shutdown | - |
| `SelectorProofs` | its theorems | `Selector`, TLAPS |
| `Manager` | the engines of all programmes, their listeners and settings, shutdown | - |
| `ManagerProofs` | its theorems, and the laws of sums over a finite set | `Manager`, TLAPS |
| `RtmpListener` | one publisher slot of the RTMP listener: encoders, readers, revalidation | - |
| `RtmpListenerProofs` | its theorems | `RtmpListener`, TLAPS |
| `Polls` | one poll: votes, verdicts, the platforms' mirrors, the clock, a crash | - |
| `PollsProofs` | its theorems | `Polls`, TLAPS |
| `MCSupervisor`, `MCJobQueue`, `MCReconcile`, `MCPublish`, `MCSelector`, `MCManager`, `MCRtmpListener`, `MCPolls` | instances for TLC: symmetry sets and the functions a `.cfg` cannot write | the module they check |

Conventions. An action is one critical section, one store call or one request,
and everything the code does before it lets go of that. A `pc`-like variable says
where a goroutine is; its locals are a record or functions beside it. What a
goroutine read before an unlock stays in its locals, stale or not, and is used
from there. A comment `Mutant of X` marks the form a plausible mistake in the
code would give `X`; it is defined before `X` and used nowhere else.

### Supervisor

`Supervisor` models one `supervisor.Process` (`supervisor.go`): callers of Start,
Stop and Restart, the supervise loop of each generation, the goroutine that a
deferred Start leaves behind, and the escalator behind each SIGTERM. `running`,
`retired`, `startPending` and `gen` are the fields runMu guards; `cmd`,
`signalled` and `exited` those of cmdMu; `state` is the status everyone reads.
`child[s]` is the operating system's view of a spawn. `StartBody` is the part of
Start under runMu, shared by the three paths that reach it; stop() is the caller's
walk through `cancel`, `terminate`, `signal`, `wait`, `resolve`, `check`, `kill`
and `finish`, each a place where the code holds no lock.

Which exits exhaust the retry policy is not told apart: after any exit a loop may
retry or give up, which allows more than the code does.

Runs. `supervisor_safety`: three callers, three generations and spawns, contexts
that may expire. Three callers is the least that lets a Start meet two
overlapping Stops or Restarts; three generations are all they can launch.
It checks `OneAtATime` (one loop, one child), `SignalsInScope` (one SIGTERM a spawn,
a SIGKILL only for the generation stopped), `StatusIsTrue` (a loop on its child reads
Running, a clean Stop is final) and `CleanlyRetiredReadsStopped`. `supervisor_live`:
two callers, no symmetry.

Fairness: every goroutine that has a step takes it, the grace timer fires, and a
SIGKILL is obeyed. Nothing makes a child exit on SIGTERM or by itself and nothing
makes a Stop's context expire, so the liveness results hold for the child that
ignores everything but SIGKILL.

### JobQueue and JobLedger

`JobQueue` models `jobs/queue.go` over the rows of `db/jobs.go`: the dispatcher
(`disp` walks recovery, selection, claim and start), one goroutine per execution
(`phase`), the calls of API and governor, and the process, which shuts down or
dies and comes back with the rows and nothing else. Each store call is one step,
as it is one statement or transaction on a single connection. Times are past or
future (`held`).

`JobLedger` is the promise: a row per job and the set of jobs somebody is on; a
row moves only along its transitions, one worker per job and per unique target,
what ended stays ended until somebody re-arms it. `ImplementsLedger` is the
refinement, with `workers <- InHand`: the jobs an execution works on and the one
the dispatcher has claimed and not started.

Runs. `jobs_safety`: two jobs unique for one target, two slots, a governor's veto,
every operator control, one retry, one shutdown or crash. Two rows of one target
are the least that lets a stale operation on one disturb the worker of the other.
`RowsAndWorkersAgree` says that the row of a job in hand reads running, that no other
does, and that a Cancel finds whoever works. `jobs_live`: two kinds sharing one slot,
deferrals, two downs, one refused outcome write.

Fairness: goroutines are scheduled, the ticker ticks (strongly, as Tick competes
for the dispatch mutex), deferrals come due, and workers return in the end. The
last is an assumption about the registered workers, which run FFmpeg or a bounded
HTTP exchange under the execution's context.

### Reconcile

`Reconcile` models one engine: a pass of `Engine.Reconcile` over destinations,
backups and renditions under reconcileMu, from the three store reads through plan,
teardown, build, publish and run, and `StopWithin`, which does not take that mutex
and may land between any two of those steps. `place` and `tier` say whether an
output is in the engine's maps or in the hands of the pass or of the shutdown;
`con` holds each consumer's process, port, hub and restart signature; `subs`,
`open` and `feed` are the relay's hubs; `mine` and `pool` are `heldPorts` and the
allocator, which another engine shares (`other`). A child that outlived its Stop keeps
its port bound after the port was given back (`zombie`); what keeps it from the next
owner is that the allocator binds a number before it hands it out, and `PortOwnedOnce`
says that nobody owns a port such a child is still on.

The allocator's rotating cursor is abstracted: any free port may be found. The
configuration modelled has failover, silence, delay, captions and playout off.

Runs. `reconcile_safety`: two destinations, one with a backup, on one rendition or
one of them passing through (`OneOrAll`, the rows in `Stored`, which the module leaves
open); an edit at any point of a pass; a probe that lands; a
child that outlives its Stop; another engine on the pool. `PortsAccountedFor` joins
the books of the allocator (no port with two owners, none lost) with the processes:
whatever is up belongs to an entry or to somebody who is taking it down, and a
shutdown leaves nothing. `reconcile_live`: one destination, edits under fairness.

Fairness: the pass in flight and StopWithin take their steps, reconcileMu is
granted, a probe in flight lands. The stop of a child is one step since
`Supervisor` bounds it.

### Publish

`Publish` models the path from a click to a post. `row` is the
`clip_publications` row with what the decisions read: state, nonce, cause, linked
job, stored session and the words it was opened for, remote id, the finalizing
stamp. `req[r]` is an HTTP request in `reconcilePublication`, `handlePublish` or
`handleCancelJob`; each store call in it is one step. `job[n]` is the queue's row
for click `n`, `w` the one worker (the kind's concurrency is 1) and the attempt's
locals, `cxl` its cancelled context. The three adapters share the actions whose
control they share; `plat` chooses among them. The platform is external: an upload
is `part`, `full`, `done`, `failed` or `gone`; the irreversible request is on the
`wire` until it is received, refused or lost, and for the platforms in `Late` it
may still be received after its client gave up or died. Any ledger write of the
worker lands, is refused by its fence, or fails.

`NeverTwice` is the package's second rule: one post, plus one for each time a
person acknowledged an unknown outcome. The code does not keep it, in two ways, and
`astray` is the history of the requests that may break it: a TikTok chunk sent to an
address that is not the stored id's, and a YouTube PUT that is still out when new words
make the worker forget its session. The run checks what is kept: `TwiceOnlyAstray`, no
second post but by such a request, and `NothingForgotten`, which says why: whatever else
the platform has or may still act on is recorded as posted, or bears the stamp and is
named by the row. `ReconcileSparesTheLiving` relates a read of a job to a row that has moved on
since.

Runs. `publish_safety`: the three platforms, two requests in flight, two clicks of
two attempts, two uploads or posts, any two of crashes, cancels and failed writes, and
every platform may act on a request whose client is gone (`Late`). YouTube's stray PUT
needs two clicks and is in the run; TikTok's stray chunk needs three, which the run does
not reach and `MCPublish_twice.cfg` does, with TikTok alone. It is not one of the
project's runs, as it finds `NeverTwice` violated; with `TwiceOnlyAstray` and
`NothingForgotten` in its place it ends without an error (5.7 million states). The
theorems hold for any number of clicks and any `Late`.
`publish_live`: one request at a time, two clicks, four uploads (one per attempt,
so that the bound never stops a worker), one trouble. `RowIsTrue` says that a row
that reads posted has a post, and that its link is a job of its own stamp.

Fairness: handlers, worker and dispatcher are scheduled, somebody looks at the
publication now and then, and two minutes pass for a row that was never queued.

Left out: confirmation tokens, gates and scopes, the words themselves, and the
refund of an attempt at a graceful shutdown, for which a crash stands.

### Selector

`Selector` models the failover tier of one engine (`selector.go`, `silence.go`, the
verdict of `degrade.go`). The selector's hub is what every destination reads; one
feed publishes into it, reading the hub of the source on air. `op` is whoever holds
selMu, a sweep, the operator or a reconcile; all three end in `Choose` and `Start`,
the two halves of `applySourceChoice` and `ensureFeed`. Between the halves the old
feed is being stopped, and what does not take selMu moves: the silence tier
(`reconcileSilence` holds no lock of the selector), processes that exit. `rec` walks
through reconcileOutputs: hold the silence answer, detach the feed, replace the tier,
reconcile selector, backup and playlist, apply. `dying` are the feeds `retireFeed`
left to die after seamStopWait, `prev` the chain a later teardown waits for. `outlived` are
the slates whose synchronous Stop ran out of its deadline with the child alive: the code
reports it and starts the replacement (`reportStop`), and the slate writes into the
selector's hub until it ends or the hub is closed. `subs` is, for each hub, the feed
subscribed under the one name there is.

Delivery is abstracted to three values: dead (quiet for the grace period), fresh, and
steady (for returnStable); `calm` is the history that says the primary was also
undegraded all that time. A hub is an identity, its port too: a new relay never has the
port of one that a feed or a signature still names. No Stop is taken to end in time: a
slate it gives up on is in `outlived`, a copy hop that a switch gives up on in `dying`,
and one that a teardown gives up on has lost its input by then, publishes nothing, and
counts as gone. The settings and the clock move only while selMu is free, since nobody
who holds it looks twice; a sweep may hold settings that were saved over (`stale`), and
so may FixSource, which reads them before it waits for selMu (`fixing`).

Run `selector`: four settings (with and without backup, playlist, slate, thresholds and
automatic return; failover off), one act of the world (a save, a probe that finds the
audio gone, a switch, a fix, a feed that dies, a relay that does not come up), one feed
dying or slate outliving its Stop, a shutdown at any time, and more relays than can be
referred to (`HubsAssumption`: there is always a free port). `FeedIsTrue` has four
parts: `OnePublisher`, nothing but an outlived slate publishes beside the feed on air
(`NeverTwoPublishers`, without that exception, is violated: `MCSelector_slate.cfg`);
`ReadsItsHub`, a running feed is subscribed on the relay that now serves its kind
whenever nobody is at it; `NoHubNoCandidate`; `StopLeavesNothing`. `NoFlapping` states
the automatic return against the history and not against the clock the code keeps.
`NeverOffAirForGood`: while failover is on, a feed that runs and is fed comes back again
and again. Every case the properties are about needs one act: the interleavings are
between the sweep, the reconcile, the dying feed and the clock, which are not bounded.

Fairness: strong for the sweep, a ticker against a fair mutex, and for the two clocks
it waits for (feedRespawn; the grace of a backup that has no hub), which in the model
move only while selMu is free; weak for whoever holds selMu and for the end of a
killed child. Nothing makes an encoder deliver.

Left out: the recovery of a decision that panics, the slate's picture, the arithmetic
of the thresholds (a sweep may trip or clear as it likes), an allocator that is empty.

### Manager

`Manager` models `manager.go`: callers of Reconcile walk through the shared listeners,
Sync's decision, the stop of deleted programmes' engines, the start and publication
of new ones, and the saved settings pushed to them; `settings` and `sync` are the
mutexes. An engine is `new`, `starting`, `up`, `stopping`, `returned` (its Stop came
back, a recorder may still be finalising) or `stopped`; what it does inside is
`Reconcile`'s subject. `rec` is the recorder as its engine counts it: a Stop that comes
back leaves it finalised or, past its deadline, given up, and the engine answers for it
no longer. StopWithin sets its flag, collects, stops each engine and closes the
listeners. `probe` is one RecorderRunning, with the history of the engines that had a
recorder ever since it began and were in neither of the collections it read (`missed`).
`RecorderIsSeen` says of each of them that Sync forgot it: between the two reads
(`moved`) or after a shutdown had collected it (`lost`). `EveryRecorderIsSeen`, that
there are none, is violated (`MCManager_recorder.cfg`).

Run `manager`: one programme deleted and added again (so two engines), two callers,
one save, the SRT port moved, alerts sent, and a shutdown; callers are symmetric. Two
callers are what it takes for two Syncs to cross. No fairness: nothing here has to
happen.

Left out: the playout host, restarts of draining destinations, read-only accessors.

### RtmpListener

`RtmpListener` models one slot of `rtmpserver.go`: encoders look up their key, wait
for a subscriber (`AwaitReady`), take the slot, close whom they replaced, open the
stream, relay, and end in two sections, `Release` and `EndSubscribers`; subscribers
attach and leave; `Revalidate` closes a session whose key was refused in
`RevokeAfter` passes. `setup` is whose configuration a late subscriber is replayed.
Streams are structures, reused once nobody points at them.

Run `listener`: two encoders, one of whose keys is rotated, two readers, five
streams, one more than they can point at (`StreamsAssumption`: an allocation is
always new). Two encoders are the least for a takeover, and one may be replaced, not yet
torn down, while the other relays. Fairness: a goroutine goes on, a closed socket
fails the read of its pump (strongly, as messages in hand compete), Revalidate ticks.
Nothing makes an encoder send, leave or come back.

Left out: a subscriber's queue and its drops, the handshake, guessed keys, Stop.

### Polls

`Polls` models one poll of `polls/engine.go`, `polls/polls.go`, `api/polls.go` and
`db/polls.go`: a message is its arrival number. What runs under Engine.mu is one action,
a call to the platform is a gap in which anything may happen: `creating` is the
goroutine in Mirror.Start, `reads` the periodic and the final reader. `fate` is what
automod and the moderators said of each message, `after` those typed once their chat's
native poll was over.

Run `polls`: one viewer in one mirrored chat, two messages, one native vote. A rule
is per viewer and per chat, so one of each suffices; two messages are the least that
can be judged out of order. `VotesAreTrue` is one vote a viewer, the last that stands;
`EveryChatCountsOnce` that a chat's votes are in the platform's count or in ours, and in
both only if the native poll's creation is answered after the close (`NeverCountedTwice`,
without that exception, is violated: `MCPolls_late.cfg`);
`EveryPollEnds` and `NativePollsAreEnded` that the clock and a late answer leave
nothing open. Fairness: the ticker ticks, time passes, what was answered is applied.
The platform may never answer and a verdict may never come.

Left out: the announcements in chat, the display's cadence, the parsing of a vote.

## What is proved

`SupervisorProofs` proves, for any set of callers and any bounds and flags that
satisfy `BoundsAssumption` and `FlagsAssumption`, that `TypeOK`, `OneLoop`,
`OneChild`, `AtMostOneTerm`, `KillIsScoped`, `LiveLoopReadsRunning` and
`CleanStopIsFinal` hold of every behaviour of `Spec`.

None of them but the first is inductive by itself. The invariant `IInv` adds:

- `LoopOrder`: generations live one after the other, and only the newest can be
  alive. It carries `OneLoop`, and rests on `StartBody` waiting for the old loop.
- `Handles`: what a goroutine has in its locals exists.
- `Ownership`: an unreaped child is in the hands of the loop that spawned it, and
  what is published belongs to the newest loop. With `LoopOrder` it gives
  `OneChild`.
- `KillScope`: the spawn a stop pinned under runMu was spawned by the generation
  it is stopping, and nobody spawns for an ended generation. It gives
  `KillIsScoped`.
- `OneSignaller`: whoever is about to send SIGTERM is alone, and the first, since
  `signalled` is tested and set in one critical section. It gives `AtMostOneTerm`.
- `LastGeneration`: once a Stop has ended the newest loop of a retired process no
  step brings one back. It gives `CleanStopIsFinal`.
- `Retirement`: a process that is not running and was never stopped past a deadline
  has a Stop about to write Stopped, or has ended its newest loop and reads Stopped
  already. It gives `CleanlyRetiredReadsStopped`, and is proved preserved on top of
  the others.

Each part is proved preserved from the parts before it, one step per action.
`OneAtATimeAlways`, `SignalsInScopeAlways` and `StatusIsTrueAlways` join them to the
invariants the run checks. `TypeOK` is proved and therefore not an invariant of the
run, in `JobQueue` too.

`JobQueueProofs` proves, for any finite set of jobs, any kinds, targets, priorities,
attempts and bounds, and any global limit, that `TypeOK`, `WorkerHoldsRow`,
`CancelFindsWorker`, `LimitsHold` and `CrashesAreCharged` hold of every behaviour of
`Spec`, and with `MaxFaults = 0` also `RunningRowHasWorker` and the refinement, `Spec =>
ImplementsLedger`; `RowsAndWorkersAgreeAlways` joins the three about rows and workers.
The hypothesis of all of them is `OnePerKind` (`KindLimit = 1`), which every
registration of the server satisfies; without it `CancelFindsWorker` fails, see the
observations below. The invariant `IInv` consists of:

- `Registration`: the registered jobs and the executions that are not over are
  each other's.
- `KindCount`: `byKind` is 1 exactly for the kinds of registered jobs, of which
  there is one per kind. With `Registration` it bounds the workers (`LimitsHold`),
  and lets no job start again before its last execution gave up its slot.
- `Dispatch`: what a Tick found free stays free until it has started its job, and a
  Cancel in progress excludes it. It keeps a Cancel that found no execution off the
  row of a job in hand.
- `Holding`: `WorkerHoldsRow`, the claimed job's row, and the attempt it was
  charged for.
- `UniqueIndex`: two unique rows of one target are not both active. With
  `WorkerHoldsRow` it is the ledger's guard that one target has one worker.
- `Charged`: a job in hand has paid for more attempts than it has crashed, which
  makes the refund of a shutdown safe.

`HandOfClaim`, `HandOfStart`, `HandOfFinish` and the others say what each step does
to `InHand`; the refinement is read off them.

`PublishProofs` proves, for any platforms, requests, clicks, attempts, uploads and
troubles, `RowIsTrue` and the action properties `PostedIsFinal` and
`ReconcileSparesTheLiving`, from `Base`:

- `Ledger`, `Queueing`, `Submitting`: the row's click, the queue's rows and the one
  request that queues a click belong together. They give `RowIsTrue`.
- `Reading`: a job that a status read found dead does not come back to life before
  it is judged. It gives `ReconcileSparesTheLiving`.
- `Knows`, `Uploading`: what the worker remembers is what the row says, however the
  requests have moved it since. They give `PostedIsFinal`.
- `Books`: the platform's side.

`TwiceOnlyAstray` and `NothingForgotten` need two more parts. `Counted`: what is `Owed`,
posted or may still be and did not go astray, is at most one more than the
acknowledgements, no more than them while the stamp is not set, and never more besides
what the row names. `Clean`: where the worker forgets or opens an upload, or sends X's
post, nothing owed is unacknowledged. A request only ever joins `astray`
(`AstrayGrows`), so that what is owed shrinks when it does (`OwedShrinks`). Neither
theorem has a hypothesis on the platforms, the number of clicks or `Late`.

`SelectorProofs` proves, for any settings and bounds, `FeedIsTrue` and the action
property `NoFlapping`:

- `Holding`, `Halted`: who is between `Choose` and `Start`, and what a shutdown took.
- `Chain`, `Apart`: whoever answers for the feed on air has every feed that is dying
  behind it, and none of those, nor a slate that outlived its Stop, is the feed on air.
  They give `OnePublisher`.
- `Subscribed`, `Inlet`, `Intake`: a relay's subscriber is the feed that reads it; the
  hop of the backup or the playlist reads the relay that serves it now; so does the
  primary's while no reconcile is at the silence tier. They give `ReadsItsHub`.
- `Stable`: a primary that has delivered for returnStable and is not degraded was not
  degraded in that time. The code keeps a clock; the invariant ties it to the history.

Assumed: feeds, relays and tiers are not `None`; the settings are records of the
code's fields; there are more identities for relays than anything can refer to
(`HubsAssumption`), as `RenewSelector` and the tiers choose one that nothing names.

`ManagerProofs` proves, for any programmes, engines, callers and ports,
`EnginesAreTheStores`, `RecorderIsSeen` and `ListenersFollow`. `Locks` says which
stages hold which mutex; `MapIsUp`, `Ownership` and `TodoIsMissing` that an engine that is
alive is in the map or somebody's to start or to stop, and that a Sync builds only
what has none, which makes `OneEnginePerSource` inductive; `Configured` that an engine
of the map has the saved settings or somebody who holds settingsMu is about to hand
them over; `Tracked` and `Probing` that an engine with a recorder is in one of the two
collections a probe reads, unless Sync forgot it after a shutdown collected it, and
moves between them only in the direction it reads them, unless Sync untracks it between
the reads;
`Halting` what each stage of a shutdown has done.

It also proves the action property `TotalsNeverFall`. `Accounts`, checked by TLC on the
instance of the run first, says that what is in `retiredAlerts` is what some engines
sent that have stopped and are in neither the map nor `retiring`, and that an engine a
Sync has in hand is in `retiring`: no share is in two accounts. A share then moves
between accounts without a change of the total, and the total is a sum over a part of
the engines. The laws of such sums (`SumStep`, `SumRemove`, `SumSame`, `SumDisjoint`,
`SumMonotone`) are proved from the recursive function that defines them, whose
existence (`TableExists`) and order of elements are settled by taking a least set for
which they fail; no induction theorem is used. Assumed: the engines built are finitely
many (`EnginesAssumption`), without which the sums mean nothing.

`RtmpListenerProofs` proves, for any encoders and subscribers, `OneKeyOneStream` and
`SetupIsOfTheSession`. `CutOff`: until its socket is closed an admitted encoder holds
the slot, or the one who took it is about to close it. `Attached`: the table does not
let go of a stream that is read. Assumed: a stream structure is always free
(`StreamsAssumption`).

`PollsProofs` proves, for any viewers, chats, messages and tallies, `VotesAreTrue` and
the action property `EveryChatCountsOnce`. `VotesStand` is the rule of a vote over all
orders of verdicts, deletions and bans; `Stages` and `Answered` tie what the engine
believes of a native poll, and an answer in flight, to the platform; `SetAside` and
`Accounted` say that a vote counted here was set aside, or typed after the native
poll, and that what was set aside is in some count. The theorem has the run's exception,
the native poll that becomes known after the close.

`ReconcileProofs` proves, for any destinations, renditions, backups, ports, stored rows
and bounds, `RunningIsFed`, `PortsAccountedFor`, `AsTheStoreSays` and the action property
`OnlyItsOwnEdit`. Its `IInv` was checked by TLC on the instance of `reconcile_safety`
first. It has four layers:

- Where everybody is. `Passing` and `Halting` say what a pass and a shutdown have in
  hand at each of their stages, `Starting` what is published and not yet started,
  `Processes` which processes an entry may have at each stage. They give `NoOrphan`.
- Who owns what. `Accounted` says that every port in the books and every subscription
  is held by an entry of the maps, by somebody who is taking one down, or by what is
  being built. Conversely, `Delivered` says that until the shutdown each of those has its
  port and its subscription, and the port for itself; `Owned` that this stays true of
  the ports of live children in a shutdown, where a struct of `stopBackup` may give a
  port back twice (`OldIsAlone`). `HubsAccounted` does the same for the hubs. With
  `Pool` they give `PortOwnedOnce`, and with `Halting` that a shutdown leaves nothing.
- What feeds what. `Chained` and `IngestOpen` say that until the shutdown an output
  reads the rendition its signature names, at the settings it was started for, and that
  no pass closes that hub before it has taken the reader down. They give `RunningIsFed`.
- Whose plan it is. `Following` says that the plan in hand is made of the rows read, and
  what is left of it to do; `UpToDate` that with no caller waiting the rows read are the
  rows of the store; `CarriedOut` that what the pass has looked at is as planned or
  recorded as failed; `AtRest` what this leaves between two passes. They give
  `AsTheStoreSays` and `OnlyItsOwnEdit`.

Assumed: ids are naturals and a rendition's is not 0 (`IdsAssumption`; `min` takes them
in order and 0 is a destination's passthrough), `NoPort` is no port, the bounds are
naturals, and the stored rows are rows (`StoredAssumption`). None of the sets has to be
finite: a pass takes the least of what is left, which any set of naturals has.

Only model-checked: the liveness properties. The prover does neither fairness nor
ENABLED.

## Where the code and its comments disagree

Eleven statements of comments or docs are defined in the modules and are in no run,
because TLC finds each violated; the runs check what is true instead. Five have a `.cfg`
that shows the trace, in about a minute at most: `tlc -config MCPublish_twice.cfg
MCPublish`, and likewise `MCManager_recorder.cfg`, `MCSelector_slate.cfg`,
`MCPolls_late.cfg` and `MCPolls_voided.cfg`. For the others, name the definition as the
INVARIANT or PROPERTY of the component's `.cfg`.

- `TermIsScoped` (`Supervisor`): stop() pins the child for its SIGKILL, but its
  SIGTERM goes through `terminate()`, which reads `p.cmd` again with runMu released. A
  Restart descheduled there signals the next generation's child (supervisor.go:967).
- `CancelIsHeeded` (`JobQueue`): Cancel's comment rules out a third interleaving
  (queue.go:521). There is one between finish's read of `ex.cancelled` and the removal
  of the execution: the Cancel returns nil and the job runs again.
- `NeverTwice` (`Publish`): "Never twice" (docs/CLIP-PUBLISHING.md:65). TikTok's chunks
  may go to an address that is not the stored id's (`AddressIsOfTheId` below), and a
  YouTube session may be forgotten for its words, whatever its stamp says, while a PUT
  to it is still out (youtube.go:208). Whether Google's servers act on an upload whose
  client has gone is not known from this code. Each ends in a second post
  (`MCPublish_twice.cfg`; for YouTube with `Platforms` and `Late` set to it alone).
- `NeverTwoPublishers` (`Selector`): the slate "is stopped synchronously: starting early
  would be two publishers" (selector.go:1920). When that Stop runs out of its deadline the
  replacement starts regardless, as `reportStop` says of itself; the operator it is to
  tell learns of it from the log alone, as the start that follows clears `sel.err`
  (selector.go:1359).
- `EveryRecorderIsSeen` (`Manager`): RecorderRunning's answer "includes an engine already
  taken out of the map but still stopping" (manager.go:1684). Sync's last section
  untracks the engine it published (manager.go:617): a probe between its two reads finds
  it in neither collection, and when a shutdown has collected it meanwhile no later one
  does, while its recorder finalises.
- `NeverCountedTwice` (`Polls`): a viewer who votes in the native poll and in the same
  chat "is counted once" (docs/POLLS.md:132). Not if the poll closes while Mirror.Start
  is answering: nothing typed is set aside, and the final count is merged beside it.
- `NumberHandedOnce` (`Reconcile`): `stopBackup` gives a port back and leaves it in the
  struct a shutdown may have collected, which gives it back again after the same
  engine was handed it anew (relay/ports.go:19). It takes a pool that comes round in
  that window.
- `AnswerIsKept` (`Publish`): a post that could not be recorded "would resolve to the
  same post" on a retry (worker.go:203). For X it does not: the retry finds the stamp,
  and the publication ends as an unknown outcome although its id had been answered.
- `AddressIsOfTheId` (`Publish`): TikTok's publish id and upload address are stored
  before the first chunk, and "a retry polls that id" (docs/CLIP-PUBLISHING.md:78,
  under "Never twice"). The two columns are written one after the other
  (tiktok.go:148), and either write may fail. A click whose upload failed before its
  last chunk leaves id 1 with address 1. The next, with other words, forgets the id,
  fails to clear the session, opens upload 2 and fails to save its address, so the row
  holds id 2 with address 1. A third, with the words of the first, sends the last chunk
  to upload 1 and polls 2, which expires; it opens a fresh upload and posts again.
- `VoidedStaysVoid` (`Polls`): "an earlier vote does not come back"
  (docs/POLLS.md:68). It does when it was held: one vote held, a later one cleared and
  then deleted by a moderator, the held one cleared.
- `TeardownIsOwn` (`RtmpListener`): "a stale teardown cannot touch the live session's
  state" (rtmpserver.go:704). An old session gives up its slot and closes its stream's
  readers in two sections; a successor that took the slot in between loses them.

One comment is out of date. `db/jobs.go` (216-232, 579-588, 606-609) describes a hole
in Queue.Cancel between a claim and the registration of its execution, by which a
cancelled row keeps a live worker and frees its target. Cancel takes the dispatch mutex
since (queue.go:533), which Tick holds across both: `RowsAndWorkersAgree`, checked and
proved, is that the hole is closed, and its reopening is a mutant of `jobs_safety`.

Observed with the models, or while writing them:

- With a `KindLimit` other than 1 two executions of one job can overlap in `q.running`
  (`finish` deletes the entry by job id), and `CancelFindsWorker` fails. Every
  kind the server registers has a limit of 1, which closes that window.
- With `MaxFaults = 1` `RunningRowHasWorker` fails: an outcome write that the store
  refuses leaves the row running with nobody on it until the next start.
- After a Stop that gave up on its deadline, the loop it abandoned may set Failed
  over the Stopped the Stop had written (`RetiredReadsStopped` without its
  premise), although the doc of Stop says that both ends are StateStopped.
- The escalator's select may take its timer arm although `exited` is closed, and
  so sends a SIGKILL for a child that is already reaped.
- StopWithin does not wait for a destination that a pass in flight took out of the
  map, so a rendition's hub can close under a destination that is being stopped;
  `RunningIsFed` excludes exactly those.
- `Selector`: a backup's delivery record is kept when reconcileBackupIngest replaces
  its hub, where the playlist's is zeroed. A backup whose hub is gone stays a candidate
  until the grace period is over, and the start fails; the new hub's backup does not
  count as alive until it out-counts the old total (`liveness.sample`).
- A sweep between holdSilence and detachFeedForSilence rebuilds the primary's feed with
  the new silence signature on the old hub, so the detach lets it be and the tier's hub
  closes under it, against the comment above reconcileSilence. The port in the feed's
  signature makes reconcileSelector repair it a moment later, which is what
  `NeverOffAirForGood` and `ReadsItsHub` show.
- reconcileSilence reads `e.silence` and clears it in two sections; a StopWithin in
  between tears the same tier down too and its port is released twice (one step in
  the model). reconcilePlaylist leaves its new hub open when a path cannot be made
  absolute. A feed whose start failed is recorded as on air. With thresholds switched
  off while the link is degraded the stable clock is not restarted.
- The SRT arm of reconcileBackupIngest publishes `e.backup` without a look at
  `e.stopped`. That is safe because reconcileSelector holds selMu, which StopWithin
  takes.
- `Manager`: the API reads the retired alert
  counts and the engines in two sections, so the sum it shows may fall although
  `TotalsNeverFall` holds of the state. A Sync queued between StopWithin's two
  sections may publish an engine that nothing stops; main cancels the callers first.
- `Polls`: a periodic read in flight when the poll closes
  overwrites the final count. After the ten seconds' grace a native chat's votes may
  be in neither count. A failed EndPoll whose poll still reads ACTIVE is taken as
  final, and the platform's poll runs on. A row that could not be closed reads
  "interrupted" after the next start.
- `RtmpListener`: a replaced encoder with a message in hand stores its setup after the
  successor reset it (`stray`), and one that is slow between its two sections resets
  the successor's. A connection that is in its handshake while the server stops is
  admitted afterwards.

## Bounds

Every bound is a CONSTANT with its meaning beside it: `MaxGen`, `MaxSpawn`
(`Supervisor`); `Execs`, `MaxRetries`, `MaxDowns`, `MaxFaults` (`JobQueue`); `MaxEdits`,
`MaxFaults`, `MaxOther` (`Reconcile`); `MaxClicks`, `MaxIds`, `MaxTrouble` (`Publish`);
`MaxActs`, `MaxDying`, `MaxHubs` (`Selector`); `MaxEdits`, `MaxSaves`, `MaxSent`
(`Manager`); `MaxWaiters`, which is the code's own limit, 2 (`RtmpListener`); `MaxMsgs`,
`MaxTally` (`Polls`). A bound disables the step that would exceed it and nothing else.
Symmetry is used for callers, ports and requests, which no guard tells apart, and never
in a run with a liveness property. Deadlock is not checked where the system may come to
rest: a retired process, an idle queue whose jobs have ended, an engine that was shut
down, a clip that is posted, a poll that is over. `supervisor_live`, `jobs_live`,
`reconcile_live`, `publish_live`, `listener` and `polls` say that it does not come to
rest earlier; `selector` never comes to rest, and deadlock is checked there.

## Plan

In this order, the most consequential first:

1. `IngestProbe`: the generation that fences a probe, composed with `Reconcile`'s
   `known`.
2. `RestartPolicy` and `LiveCommands`, beside `Supervisor`.
3. `Governor`: parking and pausing, composed with `JobQueue`'s veto.
4. `Hooks`, `Alerts`, `Scheduler`, `EventStream`, `DelayLine`, the SRT and SRTLA
   listeners, uploads.

Each module with one safety run, aimed at the hazards `PROJECT.json` lists for it, and a
liveness run where something has to happen in the end.

## Not modelled

`PROJECT.json` lists every part with its reason. In short: pure functions to
command lines, text and bytes (FFmpeg arguments, routing, redaction), adapters of
external services beyond the three of `Publish`, row mapping and migrations,
projections to MQTT, metrics and OBS, the front end, integrations and deployment.

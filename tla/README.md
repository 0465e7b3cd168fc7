# nocx in TLA+

A verification development for nocx, a local-first terminal whose core is written in Go. It holds
TLA+ modules translated from that core, TLC configurations that check them on small instances, and
TLAPS proofs for every value of the constants.

Modelled so far:

- the authenticated shell-lifecycle **kernel** (`internal/lifecycle`);
- the **publisher** that tells the frontend what the kernel says of a lane (`internal/lifecyclepub`),
  composed with the kernel;
- the **frame**, the unit of work in which a coordinator stores what a shell's lifecycle stream
  reports (`internal/content/lifecycle_frame.go`, with its scope in `internal/app/lifecycle_cursor.go`
  and its effect queue `internal/lifecyclecommit`);
- the lifecycle **leg** of a helper-hosted session, from the helper's window to the stored cursor, over
  coordinators that stop, die and re-adopt (`internal/helper/session`, `internal/helper/client`,
  `internal/lifecyclechannel`, `internal/app/session_readopt*.go`);
- the **owner** of a session's terminal in the helper: its queue, its writer and the one-shot targets
  of intents (`internal/helper/session`: `owner.go`, `tokens.go`, `access.go`, `owner_ssh.go`);
- one **run** an assistant asks a renderer for, its lease and its broker request
  (`internal/transport`: `ws_run.go`, `run_lease.go`, `run_park.go`, `request_broker.go`);
- the in-place **update** of the application and its trial (`internal/update`);
- the **failure domains** that bound what a sick host may hold (`internal/operation/domains`).

The plan below says what comes next.

Paths without a prefix are under `src/internal/`.

## 1. The system

nocx runs a user's shells, locally or on remote hosts, and shows them in a TypeScript frontend.

- A **shell** with nocx's integration speaks, beside its terminal bytes, an authenticated *lifecycle
  channel* (ADR-0024, `docs/lifecycle-protocol.md`): "my command started", "it completed", "I am at
  a prompt", "I hand the pane to a child shell".
- A **helper** process owns the ptys, so that they outlive the coordinator, and keeps a replay window
  of each session's streams.
- The **coordinator** (the Go core proper) consumes the streams, applies lifecycle frames to the
  kernel, stores what they mean (the ledger of commands) and publishes to the frontend over a
  WebSocket with JSON-RPC. It can be replaced while shells run: its successor *adopts* their domains
  and resumes their streams at a stored cursor (ADR-0076, ADR-0077).
- The **frontend** renders; agents and tools act on panes through the coordinator.

### 1.1 Inventory

Line counts are of non-test Go. "M" = modelled, "P" = planned, "-" = left out; section 7 gives reasons.

| Component (packages) | State it keeps | Operations, interactions | Hard behaviour | What makes it correct | |
|---|---|---|---|---|---|
| lifecycle kernel (`lifecycle`, 2.7k) | domain registry, lane stacks and facts, attempts, budgets, recovery episodes | `Ingest` (per frame kind), `RequestDomain`, `AdoptDomain`, `SubmitAttempt`, `TransportLost`, `NotifyGap`, `Deliver`, ...; called by adapters and handlers, calls ports | frames of several shells, losses and user actions in any order; `Deliver` unlocks to send; budgets | one authority per lane; facts agree with stacks; attempts settled once; epochs fresh | M |
| lifecycle frame (`content/lifecycle_frame.go`, `lifecyclecommit`, `app/lifecycle_cursor.go`, 1.1k) | the store's rows and cursor; a transaction, its bound, its writes; queued effects | `ApplyLifecycleFrame`, `write`, `recover`, `expire`, `commit`, `After`/`End`, `applyFrame` | timer callback racing COMMIT, replay into a new transaction, crash at any point, stop in the middle | rows and cursor together; what is stored is what was answered; effects after the commit; bounded hold | M |
| lifecycle publisher (`lifecyclepub`, 1.4k) | last published fact per lane, emission turns | wraps every kernel call: read, mutate, derive, publish | three lock steps per publication, a dedupe baseline seeded outside the turn | the last fact told is the lane's; each closed attempt is reported once | M |
| lifecycle channel (`lifecyclechannel` 1.5k, `lifecycleremote` 0.8k, `lifecyclecodec` 0.8k) | adapter phase, sequence numbers, timers | pump, handshake, `Detach`, `Close`, `lose`, `halt` | six causes race to end one adapter | a loss told once; the frame in hand applied or left | M: the adapter, P: remote |
| session runtime (`sessionruntime`, 7.3k; `session` 2.7k; `pty`, `emulator`) | emulator, input lease, completion rendezvous | feed, resize, snapshot, subscribe | completion and its fence over two channels | in part | P |
| helper session owner (`helper/session`, 11.7k) | owners, tokens, replay window | attach, submit by intent token, drop and resume | duplicate submits around expiry; a reader behind the window | at most one write per intent; gaps add up | M: owner, leg; P: rest |
| helper client and protocol (`helper/client`, `proto`, `host`, `deploy`, ... 20k) | connection, downlink | connect, reconnect, upgrade | reconnects | framing and deployment otherwise | M: attachment, - |
| transport (`transport`, 63k) | run leases, parked requests, queues and budgets per connection | `run_lease.go`, `request_broker.go`, `outbound`, `control` | timers against results; park, resolve, withdraw and resume at once; closing queues | one answer per request; budget comes back; never silence | M: the run, P: queues |
| coordinator (`coordinator`, 2.3k) | lock and endpoint of the singleton | acquire, hand over, release | two processes start at once | one coordinator per profile | P |
| update (`update`, 2.7k) | journal, bundles on disk, launch count | stage, exchange, start, roll back, finalise | a crash between any two file operations | there is always a build to run | M |
| vault (`vault`, `vaultreset`, `contentkey`, `credential`, 5.5k) | sealed entries, keys, references | unlock, put, reset | a reset interrupted between its two steps | repeatable, locks nobody out | P |
| workers (`workers`, 6.2k) | mailboxes, one wake batch, its generation | deliver, wake, read, register | reading while a line is typed, a second batch under the first's writer | mail is announced and never twice | P |
| ssh pool, tunnels (`ssh` 10.5k, `tunnel`, `connectfwd`) | reference-counted connections | acquire, release, `Drain`, `CloseAll` | closing under a dial in flight; writers at their cap | no connection outlives its last user | P |
| operations (`operation`, 5.2k) | keyed gates, bulkheads, suspect domains | acquire, release, cancel | a cancellation crossing a grant | no lost permit, order kept | M: domains, P: gates |
| transfer (`transfer`, 0.9k) | a transfer's progress | start, cancel, resume | cancellation against completion | one outcome | P |
| content, storage, backup (`content` 19.8k, `storage`, `backup`, `note`, `snippet`, `uistate`) | SQLite schema, files | queries, atomic writes, restore | crash during a restore | in part; a schema otherwise | P/- |
| application wiring (`app`, 25k) | constructed components | start, stop, child domains | start and stop order | `lifecycle_cursor.go` is modelled; `childdomain.go` with the publisher, `session_readopt*.go` with the leg | M: these, - |
| assistant, agents, tools (`assistant`, `agent*`, `toolendpoint`, `mcpstdio`, `skill`, `capability`, about 40k) | conversations, approvals | model calls, tool calls | approvals against cancellation | text in, text out | - |
| API client (`api*`, `httppolicy`) | collections of requests | build, send, import | none | stateless | - |
| git, filesystem, shell integration, completion, processes | none of their own | operating-system calls, generated scripts | none that is theirs | pure I/O | - |
| settings, profiles, notifications, discovery | configuration files | read, write, notify | none | sequential | - |
| support packages; binaries, frontend, site | - | helpers, entry points, the renderer | - | - | - |

### 1.2 How the modelled parts meet

A shell's frame reaches the coordinator's adapter (`lifecyclechannel/adapter.go`, `pump`). The
cursor scope (`applyFrame`) opens one lifecycle frame on the store and runs the projection inside it:
the kernel ingests the event, the publisher derives facts, and the ledger writes rows through the
frame. The cursor past the frame is the frame's last write. Only once COMMIT has returned do the
queued effects go to the frontend (`lifecyclecommit.Queue.End`). The kernel is memory only; after a
restart it is rebuilt by adoption, and the store's cursor decides which frames it will see again.

Kernel and frame are separate models on purpose: the kernel never looks at the store, the frame never
looks at the event. The frame sees the projection as a sequence of writes the store answers; the kernel
sees a frame as one atomic step. Their common interface is that the frames reach the kernel in order
and once per coordinator.

The publisher stands around the kernel: every mutation of the kernel in production goes through it, on
the goroutine of whoever caused it. `LifecyclePublisher` therefore EXTENDS `LifecycleKernel` and makes
each mutation the middle step of a longer call. In the frame's terms its reports are effects: they leave
in order once the frame is stored, and the accept a frame answers with leaves before them.

A run crosses to the renderer and back: the lease and the request are the coordinator's, the shell's
command is started by the renderer's submission and ended by the shell, by a person or by a signal to
whatever is in the session's foreground. The kernel appears in it as the authenticated start that
opens the lease's accounting and as the lane's takeover state.

The leg is what carries frames to the pump: the helper's window, the attachment, the bridge and the
adapter before the frame, the stored cursor and the next coordinator after it. In `LifecycleLeg` a frame
is what `LifecycleFrame` shows it to be, stored whole together with its cursor or not at all, and the
kernel is reduced to the state of the session's own domain. Conversely the order in which frames reach
the kernel and the frame's "starts again at its cursor" are what `StoredExactly` shows of the leg.

The owner stands beside the leg in the helper's process and carries the other direction, what is typed.
It shares the process's end with the leg and nothing the two models' properties depend on. The update and
the failure domains share no state with the rest.

## 2. Modules

| Module | Contents |
|---|---|
| `LifecycleKernel` | the kernel: every public method and every inbound frame as an action; its properties |
| `LaneAuthority` | abstract: on each lane at most one shell speaks, authority never passes straight between two living shells, the dead stay silent |
| `MCLifecycleKernel` | symmetry for TLC |
| `LifecycleClaims` | what comments and documents say of the kernel and the code does not do |
| `LifecycleKernelProofs` | proofs: stacks and types, one authority per lane, published facts, attempts, epochs, the dead, refinement of `LaneAuthority` |
| `LifecyclePublisher` | the kernel's callers: emission turn, dedupe baseline, reports, accepts; EXTENDS `LifecycleKernel` |
| `LifecyclePublisherGrants` | the same with shells that ask for a child, where the baseline is seeded inside a frame |
| `LifecyclePublisherProofs` | proofs: the turns, the baseline and what is told, reports before completions, accepts before prompts |
| `LifecycleFrame` | a frame's transaction, bound, replay, commit, effects; crashes and stops |
| `FrameLedger` | abstract: frames enter whole and in order and are told of after, at most once |
| `LifecycleFrameClaims` | the same as `LifecycleClaims`, for the frame |
| `LifecycleFrameProofs` | proofs: inductive invariant, atomicity, answers, refinement of `FrameLedger` |
| `LifecycleLeg` | one session's lifecycle stream: shell, window, attachment, adapter, cursor, and the coordinators that follow each other |
| `LifecycleLegClaims` | what comments say of the leg's end and the code does not do |
| `LifecycleLegProofs` | proofs: the stream from the shell to the store, the handshake's end, the hand-over |
| `SessionOwner` | the owner goroutine, its writer, the targets, the access fence, and a stop while the program does not read |
| `SessionOwnerClaims` | what the helper says of an intent's record and the code does not do |
| `SessionOwnerProofs` | proofs: everybody is answered once, a target is spent once, nothing stale is written |
| `RunLease` | one run: the call, its request, the bounds, the stop, the park and its three possible enders, the renderers |
| `RunLeaseClaims` | what comments say of a run and the code does not do |
| `RunLeaseProofs` | proofs: where the caller stands for each piece of a run |
| `UpdateTransaction` | windows that settle, apply, certify and roll back updates, with a crash between any two changes of the disk |
| `UpdateTrial` | abstract: one atomic replacement on trial, taken back or certified |
| `MCUpdateTransaction` | symmetry for TLC |
| `UpdateClaims` | what comments and the design say of the update and the code does not do |
| `UpdateTransactionProofs` | proofs: the disk through crashes, refinement of `UpdateTrial` |
| `FailureDomains` | the bulkhead and breaker, with the race of a worker's return and its call's deadline |
| `MCFailureDomains` | four calls and which domain each is made on |
| `FailureDomainsClaims` | what the package says of its map and the code does not do |
| `FailureDomainsProofs` | proofs: counts of permits, waiters and abandoned workers |

Operators marked `\* mutant:` are plausible bugs of the action beneath them. Nothing uses them; each
shows, put in place of its action, that a property would notice.

### 2.1 LifecycleKernel

Every method of `Kernel` holds its mutex from beginning to end, so each is one atomic action;
`Deliver` alone unlocks while it sends and is three (`DeliverBegins`, `DeliverRefused`,
`DeliverEnds`).

| State | Code |
|---|---|
| `ports` | `Kernel.ports`, the transports bound |
| `parent`, `laneOf`, `transportOf`, `epoch`, `adopted` | `Domain`'s immutable fields, `DomainRegistry.Register` |
| `epochCounter` | `DomainRegistry`'s counter, also moved by `adoptEpoch` |
| `state`, `acceptPending`, `garbage`, `episodes`, `refresh` | `Domain`'s mutable fields |
| `stack`, `lifecycle`, `recovery` | `laneState`: its stack, its snapshot, its recovery episode and sighting |
| `failures` | `laneState`'s failed handshakes inside the window |
| `attempt` | `Kernel.attempts`; `shellID` is the alias `applyStart` records |
| `accepts`, `sending` | accepts returned by `Ingest` and not yet delivered; `Deliver`s outside the lock |

Actions follow the methods: `BindTransport`, `UnbindTransport`, `RequestDomain`, `AdoptDomain`,
`TransportLost`, `EstablishmentTimeout`, `SightRecovery`, `RecoverLane`, `SubmitAttempt`,
`AbandonAttempt`; `GapOpensEpisode`, `GapAccumulates` and `BudgetRevokes` are the branches of
`notifyGapLocked` (the last one of `checkDesyncBudget` too); `RejectFrame` is a frame that fails
authentication. The frames: `HelloEstablishes`, `HelloRefused`, `HelloReconnects`; `StartAttaches`,
`StartOpens`; `CompleteOpen`, `CompleteRebuilds`, `CompleteRefused`; `PromptReady`; `Suspend`;
`Activate`; `Close`; `Snapshot`; `EchoFrame` for the kinds that are validated and answered and change
nothing. A refused frame that leaves the state as it was is no action; one that does not is
(`HelloRefused`, `CompleteRefused`, `BudgetRevokes`).

Abstracted, and why it is sound for the properties stated:

- *Capability, fence, episode* are minted with the domain and compared for equality only: the
  domain's id stands for them. A wrong capability is `RejectFrame`.
- *Sequence numbers*: a replayed number is a frame refused without effect, so any frame may be new.
- *The clock*: the establishment timeout, the scan duration and the rate-limit window may each fire
  or expire at any time.
- *Ids*: the app's attempt ids and the shells' are disjoint and never repeat (`newAttemptID`; the
  shell's counter). Unknown ids are part of the sets, "no id" is `None`.
- *Payloads* (exit codes, command text, cwd, fence bytes) decide nothing in the kernel.

### 2.2 LifecycleFrame

The frame's goroutine is a program counter, the bound's callback a process of its own.

| State | Code |
|---|---|
| `rows`, `cursor` | the database file: what each frame stored, `recordLifecycleApplied` |
| `told` | the last effect that left the coordinator |
| `pc` | where `applyFrame`/`ApplyLifecycleFrame`/`write`/`recover`/`commit`/`finish` is |
| `stopping`, `frame` | `lifecycleCursor.isStopping`; the frame in hand |
| `tx`, `log`, `failed`, `dead`, `attempts` | `lifecycleFrame`'s `tx` and what it holds, `failed`, `dead`, `attempt` |
| `bound` | its `time.AfterFunc`: armed, its callback before the lock, past it, rolled back |
| `writes`, `settled`, `answers` | `lifecycleFrame.writes`, each closure's `frameAnswer`, what the projection was told |
| `current`, `resume` | the write in hand, where `recover` returns to |
| `effects` | `lifecyclecommit.Queue` |

The projection is arbitrary: it asks for writes one after another (`AskWrite`), reads (`Read`), queues
effects (`QueueEffect`), and ends (`EndProjection`) or is abandoned because the coordinator stops
(`AbandonFrame`). A write is *run* (`RunWrite`: its statements, its answer settled, its savepoint
open) and then *released* (`WriteStored`); between the two the bound may fire or a statement fail
(`WriteFails`), and the write runs again in another transaction. What the store answers is any value
of `Answer` or a refusal, chosen anew in each transaction, because other writers may have used the
connection while the frame paused. `expire` is three steps: the timer fires, the callback takes the
lock and fails the transaction, the rollback itself runs outside the lock. `Die` may happen anywhere,
`Start` resumes at the cursor.

Left out: nested writes are part of the outermost one (`write` runs them inline); the `framecheck`
build's assertions; errors of `apply` other than the abandonment (the only caller, `applyFrame`,
returns no other); a frame outside every relayed stretch, which has no cursor.

### 2.3 LifecyclePublisher

Each goroutine that calls the publisher (a transport's pump, a request handler, whoever closes an
adapter) has a record in `call`: which method, how far, what it read before it mutated, what it drew
and has still to tell.

| State | Code |
|---|---|
| `turn` | `Publisher.emitting`, the lane's emission turn (`laneEmission`), held by a frame from its first read on, by the rest only while they publish |
| `last` | `Publisher.last`, the dedupe baseline |
| `known` | `Publisher.known`, what `TransportLost` walks over |
| `call[c].open`, `.started` | `openAttempts`, the attempts open before the mutation |
| `call[c].drawn`, `.news` | what `derive` returned, what a frame has queued |
| `told`, `closedSaid`, `startSaid` | what the emitter was called with |

`derive` is two reads of the kernel (`ReadFact`, `ReadAttempt`), and the attempt may move between them.
`RequestDomain` and `AdoptDomain` are `OpenLane` and `AdoptLane`, each over a transport no other shell
has, as the adapter names its transport itself and at random (`lifecyclechannel/adapter.go`); `Ingest`, `NotifyGap`,
`TransportLost`, `SubmitAttempt` are `Begin...` (what is read first), the mutation, `Report`
(`transitionsBelow`), `TakeTurn`, `Derive`, `Record`, `Tell`, `EndTurn`; `RecoverLane` and `SightRecovery` are
`MoveLane`, `ReplayLane` is `BeginReplay`.

Left out: `AbandonAttempt` (nothing in production calls it), `EstablishmentTimeout` (a loss with another
name), the destinations a fact is routed to, the agent's frames and the suppression of dead
sessions, the projection emitters' own payloads (`publishLostLane`'s rendering). A frame is taken to be
stored: `LifecycleFrame` is about the rest.

### 2.4 RunLease

| State | Code |
|---|---|
| `req` | `pendingRequest`: in the map, its recipients, its one-place channel; `Broker.parked`; a `Resolve` between its consume and its send |
| `lease` | `runLease`: `done`, `fired`, `suspended`, `cancelStarted`, `parked`, `parkC`, the quiet timer, the lane's watch, `parkedEnd`, whose `cancel` it holds, the attempt and its accounting |
| `registry` | the parked-run registry |
| `call` | the goroutine of `RequestRun`, then of `RequestRunWait`, between them the model's |
| `bound`, `person`, `ender` | the goroutine `fire` runs on; `agent.cancel`; who is inside `finishParkedRun` |
| `renderer`, `shell`, `lane` | which renderers know the request and its withdrawal; the session's foreground; the takeover state and the callback owed |

Every critical section of the lease's and the broker's mutexes is one action, every step between two of
them another. The foreground is named when the code names it, so a signal may meet what was
started since (`shell.stray` remembers it).

A wait may take the park arm and a bound fire before the supervisor looks. `RunLeaseError` unwraps to
`ErrRequestParked`, so `RequestRun` and `RequestRunWait` park the run all the same, its command killed
and its lease disarmed (`AfterVerdict`, `ParkPut`): the model is told that it still runs, until it
asks again. Section 5 has the two comments this contradicts.

Abstracted: the session is local and the ladder's KILL succeeds; a bound is configured, hence the
broker's own timeout is off (`ws_run.go:283-290`); which bound fired is not distinguished; a resolution that
reports failure is an answer; a renderer that reconnects is another connection; the protected
foreground, the terminal's own interrupt and a command not yet started (which the code holds back) are
left out.

### 2.5 UpdateTransaction

A bundle on disk is its identity (device and inode) and the build it holds; the disk is three managed
names, the extraction directories and the journal, and every action that changes one of them changes
nothing else. `window` is where each process is; `Leave` is the release of the advisory lock, with or
without an error. `starts`, `tries` and `certified` are history: how often the build this journal
installed was started and reconciled, and whether its pair was certified.

Left out: the adoption of a journal of the first format, a foreign bundle at a managed name, the
preflight and the details of download, extraction and signature (one step that may fail);
`os.RemoveAll` succeeds; another hand replaces the installed bundle only, not the swap peer, and never in
the instant between the identity check and the exchange after it; the launch count is not followed past three; `State` reads nothing here
that the actions do not.

### 2.6 FailureDomains

`dom` is the registry's map (an absent entry and an idle one are told apart), `pc` the calling goroutine
in `Do` and `acquire`, `worker` the goroutine that runs the work, `state` the atomic the two swap. Each
critical section is an action; the swap and the section after it are two. Left out: a nil work, the
log of suspicion, `Stats`.

### 2.7 LifecycleLeg

| State | Code |
|---|---|
| `shell`, `sub` | the helper's `hostSession`: its lifecycle window and recorded exit; the subscriber and what it was served |
| `wire`, `att` | `AttachedSession`: its inbound queue with live resets, its offset, how it ended |
| `buf`, `eof` | what the bridge handed the adapter's decoder, with the relayed end of each unit; the carrier's end |
| `pump`, `leg` | `Adapter.pump` and the frame in its hand; the `once`, the cause, the handshake's bound |
| `dom` | the session's domain in this coordinator's kernel |
| `applied`, `store` | `lifecycleCursor.applied`; the durable cursor and the frames whose effect is stored |
| `coord` | the coordinator's phase, and what its inventory said (head, exit, where it resumed) |
| `settled` | `monitorExit` has settled the session |
| `hole` | history: a range was given up, and reported lost |

A frame is two units of the stream, so that a page, the window's base and the end of a coordinator may
fall inside one. Page sizes, the wire's credit and the pane's own output are left out; because of the
last, `FinishCarried` (the end of a carried session, which waits for the pane's replay as well) may come at any
time after the lifecycle replay was read. Also left out: the write lease's refusal of a re-adoption and
the rollback of a failed one, what a session says after it was served to its end, and several sessions
(they share only the store).

### 2.8 SessionOwner

| State | Code |
|---|---|
| `proc` | the terminal: local (a read barrier, writes that a close interrupts) or over ssh; what the program has still to write, what is unread |
| `screen` | the runtime's screen: its size, its look, whether it is known to be whole |
| `items` | every item `submit` accepted, with its answer; `handed` remembers that its bytes went to the writer |
| `incoming`, `pending`, `flight` | the channel, `sessionOwner.pending`, `inFlight` |
| `used`, `reserved` | `queueUsed`; `replyBytes` |
| `own` | the access epoch, `closing`, `eofSeen`, whether `run` has returned |
| `stop`, `detach` | the caller of `stop`; `detachPending` and what became of it |
| `book` | `tokenBook`'s slots: the minted screen, expiry, binding, result |

Dispatch, ingest, the deadlines, each way a pending item leaves, the closing and the exit are the
branches of the owner's select loop, one action each; the writer's return (`CompleteWrite`), the program, the mint, the clock,
the callers and the stop are the world. Bytes, styles and digests are reduced to a size and a look, a clock to
"this deadline has passed". Left out: intents that encode to nothing, the book's capacity and its
retention of old slots, targets of a remote terminal (minted only on a local one here), other causes of a
screen that is no longer whole, the second reply of a resize that is repaired, prompt boundaries.

## 3. Runs

All passing runs are exhaustive, and together they take every action.

| Run | Instance | Shows |
|---|---|---|
| `kernel_attempts` | 1 domain, 1 lane, 1 transport, 2 app and 2 shell attempt ids, scan budget 1, 1 desync episode | the attempt protocol with one shell: submit, start, complete, prompt_ready, gaps, snapshots, adoption. `AttemptsKept`, `DeadStayDead`, types. 449,814 states |
| `kernel_nesting` | 2 domains, 1 lane, 2 transports, 1 app attempt, 1 desync episode | a shell and its child or rival over separate transports, with an attempt open underneath. `FactMatchesStack`, `OpenAttemptsAreLive`, `RunningCommandKept`, and the refinement of `LaneAuthority`. 916,922 states |
| `kernel_cascade` | 3 domains, 1 lane, 2 transports, no attempts | chains of three, losses in the middle, siblings racing their hellos, adoption. `OneAuthority`, `FreshEpochs`. 492,530 states |
| `frame` | 2 frames, 2 writes and the cursor, 1 effect, 3 transactions per frame, 2 answers | `RowsWithCursor`, `CommitMeetsLive`, `StoredAsAnswered`, the refinement of `FrameLedger`, types, and under fairness `FrameEnds` and `HoldEnds`. 1,076,684 states |
| `publisher` | 1 domain, 1 lane, 1 transport, 1 attempt, a pump, a handler and a closer | pump, handler and loss publish one lane at once: `BaselineKept`, `QuietLaneIsTold`, `ClosedBeforeTold`, `AcceptBeforePrompt`. 2,200,124 states |
| `leg` | 3 frames of 2 units, a window of 3 units, 2 further coordinators | relay, live resets, handshake, hand-over, crash, re-adoption, carried exits: `StoredExactly`, `AcceptedInTime`, `ReplayApplied`, `HandedOverIsStill`, and under fairness `EndSettles`, `StopHandsOver`. 984,695 states |
| `session_owner` | a local or a remote terminal, 2 items, 1 target, 2 payloads, 2 looks and sizes, queue of 2, 1 reply, 1 chunk of output | `OwnerKeepsFaith`, `NothingStaleIsWritten`, and under fairness `OwnerComesRound`. 1,089,356 states |
| `run_lease` | 1 connection, 1 further wait, 1 takeover | `SettledOnce`, `AnsweredNeverExpires`, `ParkedRunHasAnEnding`, and under fairness `WaitEnds`, `StopReturns`. 932,755 states |
| `update` | 2 windows, builds 0 to 2, 4 identities, 4 launches, 1 replacement by hand, 1 legacy read | `Recoverable`, `RollbackAfterThreeTries`, the refinement of `UpdateTrial`. 1,326,703 states up to symmetry |
| `failure_domains` | 4 calls, 2 of them background, all on one domain or one person's on a second; 2 permits each, 1 of them a person's; 1 abandoned per domain, 2 in all, 1 of them for healthy domains | `Accounted`, and under fairness `DomainAnswersAgain`, `WaitersGoOn`. 180,697 states |
| `claim_resolve_never_blocks`, `claim_exit_heard` | the smallest instance that shows it | one statement of a comment each, violated; section 5 |

Configurations that no run names are for use by hand: `FrameEffects.cfg` (the frame's safety with two
effects, 2,382,852 states, passes) and the further claims of section 5.

### 3.1 What the properties say

Kernel:

- `OneAuthority`: each stack is the parent chain of its top, only the top may be Established, and no
  live shell is off its lane's stack. Losses and activations remove entries from the middle of
  stacks, and this is what must survive them.
- `ImplementsLaneAuthority`: seen through the stacks' tops, each step of the kernel is a step of
  `LaneAuthority`: the right to speak passes through silence or death, never straight from one living
  shell to another.
- `FactMatchesStack`: what a lane publishes (ready, running, desynchronized, native, lost) agrees
  with the top of its stack.
- `OpenAttemptsAreLive`: whatever ends a shell settles its open attempt.
- `AttemptsKept`: no prompt is shown over a live command and no second attempt is opened
  (`OpenAttemptHoldsLane`; shells never adopted, the adopted case is the finding `AtMostOneAttemptOpen`),
  and no exit status is kept for a command never reported running (`CompletedWasStarted`).
- `RunningCommandKept`: no running command is forgotten while its shell lives and is trusted, a nested
  child included.
- `DeadStayDead`: terminal domains and settled attempts stay as they are, whatever arrives late.
- `FreshEpochs`: a minted epoch is above all earlier ones, adopted ones included.

Frame:

- `RowsWithCursor`: rows of a frame are stored exactly if the cursor is past it, at every crash.
- `CommitMeetsLive`: when COMMIT is issued the bound is disarmed for good and nothing has failed.
- `StoredAsAnswered`: what commits is every write the projection was told is stored, once, in order
  and with the answer the projection acted on, however often it was replayed.
- `ImplementsFrameLedger`: over any number of coordinators frames are stored whole and in order, and
  an effect leaves after its frame is stored, in order and at most once.
- `FrameEnds`, `HoldEnds`: again and again no frame is in hand, if the frame's goroutine runs; again
  and again the connection is free, even if it hangs.

Publisher:

- `QuietLaneIsTold`: when every call that changed a lane has published, the last fact told is what the
  kernel says. `BaselineKept`: outside a turn the baseline a fact is deduped against is the fact told
  last.
- `ClosedBeforeTold`: a completion is reported before a fact closes its row; `AcceptBeforePrompt`: no
  prompt is told of a shell whose accept is still to be sent.

Leg:

- `StoredExactly`: over all coordinators each frame's effect is stored once and in order, and none is
  skipped unless a lost range was reported.
- `AcceptedInTime`: a shell that was sent its accept is not given up for its handshake's bound.
- `ReplayApplied`: a carried exit settles nothing ahead of the frames the window held, and the restart
  notice is not cleared ahead of the store.
- `HandedOverIsStill`: after `Detach` returned this coordinator stores nothing more of the session.
- `EndSettles`, `StopHandsOver`: the end of an attachment settles its session, and a stop gets its
  hand-over; Detach, the pump, the hold of the session's end and whoever loses the leg do not wait for
  each other.

Owner:

- `OwnerKeepsFaith`: each caller is answered once and holds one slot of the queue until then
  (`EachAnsweredOnce`); at most one presentation of a target is written, the one that bound it, and
  what the record says agrees with what was handed to the terminal (`SpentOnce`).
- `NothingStaleIsWritten`: bytes go out in the order accepted, none under a permission whose revocation
  was accepted first, none past its deadline, and an intent's only on the screen it was
  minted on, read to the end and known whole.
- `OwnerComesRound`: again and again no intent is waiting past its deadline and no stop is waiting,
  although the writer may never come back.

Run:

- `SettledOnce`: whoever settles a request takes its entry first, and a run whose outcome the model
  has leaves no request, park record or registry entry behind. A killed run that was parked has none yet.
- `AnsweredNeverExpires`: after an answer no bound fires against whatever the session runs next.
- `ParkedRunHasAnEnding`: a command left running while the model holds the question can be ended by
  the bound, the stop and the registry, or is being ended.
- `WaitEnds`, `StopReturns`: a wait ends though no renderer answers, unless a person took the lane
  over; after a stop the call comes back in any case.

Update:

- `Recoverable`: until the installed build is certified the replaced bundle is where a rollback looks
  for it; once it is certified this says nothing. `RollbackAfterThreeTries`: an update is taken back at
  the third reconciliation in which the build it installed found it neither finalised nor held, and what
  was taken back is not exchanged in again by the same journal. That a build which was certified is not
  taken back does *not* hold (`CertifiedStays`, section 5).
- `ImplementsUpdateTrial`: through every crash the updater ends an uncertified trial in one way, by going
  back to its fallback. The hands that replace a bundle are counted (`others`), so that no step of the
  updater passes for one of theirs.

Failure domains:

- `Accounted`: permits and abandonments are the workers that are out, and no wake-up is missed.
- `DomainAnswersAgain`, `WaitersGoOn`: a suspect domain recovers when its workers return, and a waiting
  call is served or refused.

### 3.2 Bounds, and why they are enough

Kernel: `MaxEpoch` bounds mintings and adoptions (one per domain at least); `ScanBudget` and
`MaxDesyncEpisodes` are small but both sides of each comparison occur; `HandshakeFailures = 1` makes
the limit reachable at once. Lanes do not interact except through one transport's loss, which treats
each of them alike, so one lane is enough for TLC; the proofs cover any number. Three
domains give every shape of nesting that matters (below, at and above a change), two transports give a
loss that hits a part of a chain. Attempts belong to one domain, hence the split between runs: the
attempt protocol in full depth with one shell, nesting with one attempt. Symmetry is over domains,
transports and the app's attempts, none of which the model orders or names; no liveness is checked
with it. `CHECK_DEADLOCK FALSE` in the kernel's, the publisher's and the update's runs and in the
claims: with every domain, id or launch used up a bounded system has nothing left to do. The same holds of
the leg (all said, no start left), the owner (stopped), the run (over) and the domains (every call made).
The frame's run checks deadlock: a stopped coordinator can always start again.

Frame: two frames show order and the resumption after a crash; two writes and the cursor show order
within a frame and a replay of a prefix; three transactions make the last one differ from the first
retry; two answers make a divergence possible; one effect per frame shows its place after the commit
(`FrameEffects.cfg` has two, for the order among them). The
code has four attempts (`lifecycleFrameAttempts`) and any number of writes; the safety proofs
hold for every value.

Publisher: the turn, the baseline and the reports are per lane, so one lane suffices; three callers are
one of each kind that meets the others in production. `MaxEpoch`, the budgets and the number of episodes
are the kernel's. Adding a child domain (`PublisherGrants.cfg`) is what shows the finding on the seed.

Leg: with three frames there is one between the hello and the goodbye; a window of three units has its
base inside a frame once the shell has said four; two further coordinators give a crash or a hand-over
during a re-adoption and a re-adoption after it.

Owner: every hazard is between two presentations of one target, or between an item and a
revocation, a resize, an answer of the emulator or a stop; two items, one target and a queue of two have
all of them, and the reply reserve of one is full after one reply. Two payloads tell a repeated
intent from another one under the same target.

Run: one request has one lease; one further wait makes the bound outlive the wait that armed it, one
takeover lifts it once; a second renderer would only repeat the first.

Update: two windows are two processes that race for the lock; three builds are an update, the one
before and one after it; four identities let a name be reused after its bundle moved; four launches pass
the limit of three. Symmetry is over windows and identities, which no action or property names, and no
liveness is checked with it.

Domains: four calls of one domain, so that both permits are taken, a background call meets the person's
reserve and others wait; or one person's call on a second domain, which meets what the first one's abandoned
workers left of the global bound. Each call is made once, so that a call starved by newcomers without
end (the code keeps no order among those who wait) is not among its behaviours.

### 3.3 Fairness

The kernel is reactive and has none: no shell must speak, no loss must be noticed.

`FairSpec` of the frame assumes that the bound's timer fires and its callback runs to its end
(`WF(BoundStep)`; a Go timer and a goroutine that waits only for a mutex held briefly), and that a
COMMIT returns (`WF(Commit \/ CommitFails)`; once the bound is disarmed nothing else uses the store's only
connection, and the code measures a COMMIT at up to 11 ms). That the frame's goroutine itself keeps running is *not* assumed for `HoldEnds`:
the point of the bound is a goroutine that hangs. It is the hypothesis `FrameRuns` of `FrameEnds`.
No fairness is assumed of `Start`, `Die` or the stop.

Leg: the client's relay and bridge, the pump, whoever has begun to lose the leg, the two halves of a
detach and `monitorExit` are goroutines that run when they can. Nothing is assumed of the shell, the
helper (it may serve nothing), the timer, the stop or the start of a coordinator.

Owner: `WF(Owner)`, one goroutine whose select takes some ready branch; it has finitely many steps to take here, so
none of its branches needs fairness of its own. The caller of `stop` waits on a timer (`StopGivesUp`) and then closes.
A write returns only where the code makes it: a local one once the terminal is closed. A write the program does not
read, and any remote one, may never return.

Run: the goroutines of the calls, of a fired bound and of whoever ends the run go on. The model, the
person and the renderers owe nothing; a bound that was armed fires (`WF(Fire)`).

Domains: work returns in the end and the calls' goroutines run. Deadlines need not pass.

## 4. Proofs

Assumptions on constants, each evaluated by TLC in the runs: `NumbersAssumption` (bounds are naturals,
at least one handshake failure allowed), `NoneAssumption` (`None` is nobody's id),
`DomainsAssumption` (finitely many domains), `AttemptIdsAssumption` (app and shell ids are disjoint);
for the publisher `CallersAssumption` (the goroutines of the three kinds are told apart);
for the frame `BoundsAssumption` and `AnswerAssumption` (the answers are none of the model's marks);
for the owner `BoundsAssumption` (a queue of at least one place, something to look at) and `MarksAssumption` (its
marks for nobody and for the emulator's answer are told from what they stand beside);
for the leg `LegAssumption`, for the run `RunLeaseAssumption`, for the update `UpdateAssumptions` and for the
domains `OptionsAssumption`: bounds are naturals, ids and builds are told from the marks for none, the
calls and connections are finitely many, and the options are those their constructor admits.

Every theorem rests on an inductive invariant (`IInv`, of the kernel also `KInv`). Before it was proved, TLC
checked each as an invariant of the runs: `KInv` on the three kernel instances, `PInv` on the publisher's,
`IInv` of the leg, the update
and the failure domains on theirs, `IInv` of the run on one with two connections (9,967,523
states), and `IInv` of the owner on its own run and on one with three items, a queue of three and no output (2,345,068
states). Each preservation proof has a step per action, and under it one per conjunct that the action can disturb.

### 4.1 Kernel

`TypeCorrect: Spec => []TypeOK` and `OneAuthorityHolds: Spec => []OneAuthority`, both from
`InductiveInvariant: Spec => []IInv`, where

    IInv = TypeOK /\ Registered /\ StackedOnce /\ StackIsParentChain /\ LiveIsStacked

Neither types nor authority is inductive alone. `removeFromStack` deletes entries anywhere, and what
remains is a chain only if what it deletes is a suffix: `CascadeCutsStack` shows that it is, because an entry
above a dead one is its child and dies with it, and `WithoutSuffix` that deleting a suffix
leaves the prefix before it. That argument needs the chain itself, that no domain is stacked twice
(`StackedOnce`, so that ending the top deletes one entry) and that a domain's lane, transport and
parent are set with its minting and never before (`Registered`, so that a child minted later cannot
already be on a stack). The proofs follow the groups of `Next`, one lemma per group for types and one
for structure.

The second half of the module builds on it: `KernelInvariant: Spec => []KInv`, where

    KInv = IInv /\ FactMatchesStack /\ Attempts /\ EpochsCounted
    Attempts = OpenIsOwned /\ OneOpen /\ OpenAttemptHoldsLane /\ StartsKnown

What a lane publishes and what its attempts are need each other. A complete, a prompt or a gap changes
the fact of the lane whose top it came from, and keeps `FactMatchesStack` only because a `Running` fact
names an open attempt of that top; and that attempt is the lane's only because a shell has one open attempt at most
(`OneOpen`). `OneOpen` must also hold while the shell is Suspended or Desynchronized and has no lane to name an
attempt on: its activation or its snapshot resumes from whichever open attempt it finds. `StartsKnown` says
that an attempt a shell can name, by its own id or by the alias of a start, has started, so that
nothing completes that was never reported running. `EpochsCounted` (no epoch above the counter) is what a minting needs.

The steps are first sorted by what they change (`Quiet`, `TopFalls`, `TopEnds`, `FrameOf` and a few more);
each conjunct is then shown to survive each kind, and not each of the 40 actions. From `KInv`:
`PublishedFactMatches`, `OpenAttemptsHaveShells`, `OneCommandAtATime`; the action properties `DeadStay`,
`EpochsAreFresh` and `NoCommandForgotten`; and `RefinesLaneAuthority`. The refinement rests on `SpeakersFit`: the
top that speaks is the one Established shell of its lane. A step then maps by what it does to that shell:
a minting is `Expect`; an adoption or a hello `Begin`; a gap or a suspension `Yield`; a close, a revocation, a loss
`End`; an activation or a snapshot `Resume`; all others stutter.

### 4.2 Frame

From `FrameInvariant: Spec => []IInv`: `FramesAreAtomic` (`RowsWithCursor`), `CommitsAreLive`
(`CommitMeetsLive`), `StoredIsAnswered` (the action property `StoredAsAnswered`) and
`FramesImplementLedger` (`ImplementsFrameLedger`), for any number of frames, writes, effects,
transactions and answers.

A frame commits whatever its last transaction holds, so `IInv` follows the transaction: `LogIsWrites`
(alive and not failed, it holds the frame's writes, or while they are replayed their first ones),
`WritesAnswered` (the writes are what the projection was answered, in order), `CursorLast` (a frame
that reaches its commit and is not dead has written its cursor), `Flags` (which failures exclude
which states; `CommitMeetsLive` is part of it), `InStep` (the write in hand is not among those made)
and `InHand` (the frame in hand is the one after the cursor). The refinement is a step simulation:
`Commit` is `Apply`, `Tell` is `Tell`, and every other step leaves the ledger and what was told alone.

### 4.3 Leg

From `LegInvariant`, for any number of frames and coordinators and any window: `EachFrameStoredOnce`
(`StoredExactly`), `AcceptExcludesTimeout` (`AcceptedInTime`), `ReplayComesFirst` (`ReplayApplied`),
`DetachedLegIsStill` (`HandedOverIsStill`).

What is stored says nothing of what is on its way, so `IInv` follows the stream: the wire, the decoder and the
pump hold an ascending run of units, all behind what was stored (`Ordered`), within what the shell said
(`Within`). The client counts along the wire's gaps (`Counted`), so that after a live reset its ends lag behind
the units they belong to. That a cursor may therefore lie behind a stored frame does no harm: the end of a unit
is its own or the window has passed the unit (`Passed`), and what the window has passed is never served again. Without a
hole the run has no gap from the cursor to the client (`Whole`). The control half says what a new coordinator starts
from (`Between`), that accept and bound exclude each other (`OneOrTheOther`), and that a resumed leg which ends
without a hole has applied all that was read (`ReplayIn`).

### 4.4 Update

From `UpdateInvariant`, for any windows, builds and identities: `AlwaysRecoverable`, `TakenBackOnTheThird`,
`RefinesUpdateTrial`. A process may die between any two steps, and what it has seen dies with it, so `IInv` is in
two halves. `FallbackKept` and `Counts` speak of the disk alone and survive whoever dies; `Holding` is what the
holder of the lock (`LockHeld`) has seen and relies on until its next step. Nobody else writes meanwhile, and a
replacement by hand can only make the transaction unexplained, never explained by another pair.
`TakenBackOnTheThird` follows from what the window that rolls back has counted (`Seen`), and from
`NotByTheJournal`: a bundle becomes the journal's new one by an exchange, which only a transaction that nobody
has reconciled yet makes.

### 4.5 Run

From `RunInvariant`: `SettlesOnce`, `AnswerBeatsTheBound`, `ParkedRunIsOwned`. Six goroutines touch a run; `Core` says for
each piece where the caller then stands: a pending entry has a waiter or a park record (`Waiter`), the
registry has the run only between `ParkPut` and the next continuation (`Registry`), an ending runs only while the model
holds the question or has just lost it (`Enders`). `Submitted` covers a run that parks though its bound fired: its
lease holds a park, its command was delivered. This is why `TakeBack`, which looks at three flags of
the lease, never hands back a run that is being ended.

### 4.6 Failure domains

`EverythingAccounted`, for any finite set of calls, any domains and options. The counts are cardinalities of sets
of calls, and each step moves one call into or out of one of them. `Phases` says which side of `Do`'s atomic
has the permit, `WaitersCounted` that a call which stops waiting was counted as one (the code's
counter is at least the number of waiters and not equal to it: section 5, `IdleDomainReclaimed`),
`NoLostWakeup` that a call which sleeps sleeps on the channel the next release closes.

### 4.7 Publisher

For any lanes, shells, attempts, pumps, handlers and closers, each at its own step:
`RecordIsTold` (`BaselineKept`), `NothingIsLost` (`QuietLaneIsTold`), and the action properties
`CompletionsAreReported` (`ClosedBeforeTold`) and `PromptFollowsAccept` (`AcceptBeforePrompt`).
`PublisherUsesKernel: PubSpec => Spec` says that the kernel's part of a publisher's behaviour is a behaviour
of the kernel, so that everything in 4.1 holds under it. All come from `PublisherInvariant: PubSpec => [](KInv /\ PInv)`:

    PInv = Types /\ Registry /\ FactNames /\ Turns /\ Calls /\ SilentLanes /\ Seeding
           /\ Baseline /\ Covered /\ Reported /\ ReadOpen /\ AcceptHeld

- `QuietLaneIsTold` speaks of the moment everyone is done, and `Covered` of all the moments before: of every
  lane, either some call will still publish it from a fact it has not read yet, or what the kernel says is
  in the hand of the turn's holder, or it was told. Any step of anyone may move a lane out of the second and third
  cases, and then has put its own call in the first.
- `Turns` and `Calls` say who holds which lane at which step. A holder has its drawn fact to itself, but not the
  kernel: between its two reads the fact may change, which `Covered` charges to whoever changed it.
- `Baseline` is `BaselineIsTold` with the holder's news put in: while a turn is held, what is recorded may be about
  to be told.
- The handler that opens a lane records its first fact without the turn. `Seeding` and `SilentLanes` are why
  that is harmless here: until the opening call returns nobody hears the lane's shell, and of a shell that has not
  spoken nothing but the idle fact was ever read, recorded or told. Where a shell asks for a child it is not
  harmless (section 5, `LastFactFollowsLastMutation`, about `LifecyclePublisherGrants`, which these proofs are not about).
- `Reported`: a completed attempt of a shell not adopted was reported, or the frame that brought it is about to
  (it read the attempt as open, `ReadOpen`, and keeps the turn until then). `ClosedBeforeTold` follows, as whoever else
  would tell it first needs the turn.
- `AcceptHeld`: an accept on its way belongs to a frame that holds the turn of its lane.

Kernel calls enter through one description: each moves one shell, of one lane (`StepOf`). `Shallow` says why,
as no shell under this publisher has a parent. One lemma per group of calls then keeps each part of `PInv`.

### 4.8 Owner

From `OwnerInvariant`: `OwnerIsFaithful` (`OwnerKeepsFaith`) and the action property
`OwnerWritesNothingStale` (`NothingStaleIsWritten`), for any tokens, payloads, looks and bounds.

    IInv = TypeOK /\ Unread /\ Standing /\ Slots /\ Replies /\ Shutdown /\ Shapes /\ Fence /\ Targets

- `Standing` says where an item is that has no answer: in the channel, in the queue or in the writer's hand, in one
  of them. Numbers rise along the channel and along the queue, and the queue's lie below the channel's. So the head of
  the queue is the oldest that waits, which is what the order of writing needs, and an answer takes an item
  from one place only.
- `Slots` and `Replies` are the counts: the slots in use are the ordinary items that wait, and no more answers of the
  emulator's are queued or being written than were reserved. Each step moves one item, except the sweeps (`Stop`, a bump, the drain), which empty a
  place or take from the queue whatever fails a test.
- `Shapes` says what an item's fields may be beside its answer and its place. `Targets` ties the slot of a token to
  the one presentation of it that is queued or in hand, so that a second presentation finds the slot spent.
- `Fence`: a bump that was answered has moved the epoch, and an intent in the queue has the epoch that holds, because
  the bump that moved it swept the others. At shutdown every bump still waiting is answered but the fence rises by
  one at most (`FenceAfterBumps`).
- `Shutdown` says what is already empty at each stage of the owner's end.

What is left of a queue from which members are taken (`Without`) is not found by induction along the queue:
`Counting` numbers the members of a finite set of places by how many lie below each, and the filtered
queue is that numbering read backwards. That it keeps the order and loses nothing else follows.

### 4.9 Only model-checked

- Publisher: where shells ask for a child (`LifecyclePublisherGrants`), nothing is proved; its run shows the finding
  of section 5.
- Liveness under fairness: `FrameEnds`, `HoldEnds`, `EndSettles`, `StopHandsOver`, `OwnerComesRound`, `WaitEnds`,
  `StopReturns`, `DomainAnswersAgain`, `WaitersGoOn`.

Liveness under fairness and ENABLED are beyond the provers used (SMT, Zenon, LS4) and stay with TLC. So is
induction over data; where a proof seemed to need it, counting took its place (4.6, 4.8).

## 5. Findings

Each is a configuration that ends in a counterexample, and a line of the repository that says otherwise.
Two are runs of the project:

| Run | The repository says | The code does |
|---|---|---|
| `claim_resolve_never_blocks` (`ResolveNeverBlocks`) | "at most one goroutine signals p.ch ..., so the send never blocks" (`request_broker.go:694-696`) | a `Resolve` has consumed the entry of a parked run and not yet sent; a bound ends the run (`finishParkedRun`), and `withdrawParked` fills the one place through the park record. Nobody waits for it any more, and the renderer's read loop blocks in `Resolve` for good |
| `claim_exit_heard` (`ExitIsHeard`) | with the exit the inventory carries, an attachment ends "on its own ... instead of hanging forever" (`session_readopt.go:887-892`) | a process that ends between the inventory and the attachment has its exit told to nobody: the inventory did not carry it, and the attachment registers too late |

The others have a configuration to run by hand (`ClaimUpdate.cfg` is for four, one at a time):

| Configuration (definition) | The repository says | The code does |
|---|---|---|
| `ClaimOneOpen.cfg` (`AtMostOneAttemptOpen`) | "At most one attempt is open per domain at a time", "Invalid events mutate nothing" (`kernel.go:620`, `:34`) | `applyComplete` on an adopted domain opens an attempt and gives it the lane before it refuses the frame |
| `ClaimAccept.cfg` (`NothingBeforeAccept`) | events are refused until the accept is delivered (`kernel.go:34`) | a gap and a snapshot re-establish a domain, and open attempts, before its accept went out |
| `ClaimLostFence.cfg` (`LostLaneKeepsFence`) | a lost lane can still publish its recovery fence (`kernel.go:189`) | a suspension forgets the lane's fence for good; lost after that, the lane cannot be recovered |
| `ClaimLossKeepsTop.cfg` (`LossKeepsTopsFact`) | "a live top re-derives the state its own events would have set" (`kernel.go:414`) | after a complete or an abandonment, a child's loss makes the parent's lane PromptReady with no prompt reported |
| `ClaimMismatch.cfg` (`MismatchedStartRejected`) | a start naming another attempt is rejected (`docs/lifecycle-protocol.md:276`) | any unknown id attaches and is kept as an alias |
| `ClaimForeign.cfg` (`ForeignCompletionRejected`) | a complete for an attempt of the previous coordinator is rejected (`docs/lifecycle-protocol.md:557`) | on an adopted domain it is rebuilt and completed (ADR-0076; the document is behind) |
| `ClaimDiverged.cfg` (`DivergedFrameFails`) | a frame whose write answers differently on replay fails "rather than store it" (`lifecycle_frame.go:126`) | a write that fails after it settled and answers otherwise on its next run is dropped, and the frame commits without it |
| `PublisherGrants.cfg` (`LastFactFollowsLastMutation`) | "Under the lane's turn, the last fact emitted is always the lane's state at the last derive, which follows the last mutation" (`publisher.go:1324`) | `RequestDomain` sets the baseline outside the turn and tells nobody (`:568-577`): a fact that another call then derives is deduped against the seed and never told |
| `ClaimGoodbye.cfg` (`GoodbyeIsClean`) | "A clean exit sends domain_closed first (stream ordering guarantees it precedes EOF)" (`adapter.go:752`) | the carrier of a hosted session may end by the exit's notification before the goodbye was relayed, and the leg is lost by EOF |
| `ClaimAnswerSurvives.cfg` (`AnswerSurvives`) | a parked request's answer "must survive that in the channel's buffer until somebody comes back for it" (`request_broker.go:210-212`) | an answer read just as the lease is parked is dropped: `supervise` looks at the park first and returns `errRunParked` (`run_lease.go:412`), and the model is told that the command still runs |
| `ClaimTerminalizedIsNotParked.cfg` (`TerminalizedIsNotParked`) | "a park record for a run that is being terminalized" is withdrawn (`ws_run.go:363-370`); "a verdict always wins over a question" (`run_lease.go:320-323`) | the branch before it takes the run for parked (`ws_run.go:344`, `requester.go:353`): a killed run keeps its request, its park record and its registry entry, and the model is told that it still runs |
| `ClaimParkedRunIsBounded.cfg` (`ParkedRunIsBounded`) | "a parked run is still bounded when nobody comes back", for "the wall timer is still armed" (`run_park.go:40-46`) | a wall clock that fires between supervise's look at the park and `setParkedEnd` finds no ending to call and is spent: the command runs on with no bound |
| `ClaimUpdate.cfg` (`LaunchesAreStarts`) | "LaunchAttempts counts starts of the build this transaction installed" (`journal.go:74`) | `Apply` reconciles too, so that asking for another update counts without a start |
| `ClaimUpdate.cfg` (`CertifiedStays`) | a rollback is for attempts that "reached startup without certifying health" (`journal.go:74-76`) | certification writes nothing before the finalisation: a build that certified itself on its first start and died in the finalisation is taken back on the third |
| `ClaimUpdate.cfg` (`FinalisationRepeats`) | a crash in the finalisation is resolved by running it again (the design, 7.5) | run again after the rename, it removes the copy it had just retained |
| `ClaimUpdate.cfg` (`ExtractionExplained`) | the extraction directory lives until reconcile or `ReportHealthy` removes it (`transaction.go:400`) | `ReportHealthy` does not: of a process that died after the exchange it deletes the journal, and nothing names the directory any more |
| `ClaimIdleDomain.cfg` (`IdleDomainReclaimed`) | an idle domain's state is dropped, "so changing host ids cannot grow the map" (`domains.go:26`) | a call counts itself waiting on each turn of its loop and takes one back (`:359-374`, `:387`): after a wait the entry stays |
| `ClaimRecordIsTerminal.cfg` (`RecordIsTerminal`) | "in_progress" is a target that awaits its result (`proto/intent.go:206`), and once the screen is not whole later intents are refused (`runtime.go:874`) | `Commit` refuses before it touches the record (`:1015`), and the owner records "in_progress" as the result (`owner.go:1064`), for good |

Noticed while modelling, with no run, for a reader of the code:

- Run: the check "again after the withdrawal"
  that `run_lease.go:729` describes is not in the code. `escalate` names the foreground when it
  is called, not when the run was (`:343`). A stop between the delivery of a request and its submission
  leaves a command that was submitted running. After `onLane`'s disarm the exact cancellation does nothing.
- Leg: a re-adoption refused by the write lease is said to detach (`adapter.go:524`), but
  `session_readopt.go` aborts it through `Close`, which reports the transport lost. `LifecycleReconciled`
  may be reported though a live reset lost frames; a reset that falls between two frames is told to nobody.
- Remote adapter: its hello timer loses the connection without claiming it under the lock; the end of a
  nested child's stream loses the whole transport, its parent included.
- Owner: a retry after the target's lifetime of 60 s is answered "expired" though the intent was executed
  (`Verify` before `Consume`; `tokens.go:100`). On a stop over ssh, a reply that is queued after the
  detachment found the writer idle may block on a closed window, and nothing detaches it. `performDetach`
  answers its caller and tells neither the runtime (`ReportOutcome`) nor the book what became of the intent.
  `beginClosing` drops queued replies and keeps their reserve. A
  revocation can be refused as busy when the channel is full, though its protocol "carries no refusal".
- Domains: `abandon` after `finish` leaves an empty entry until the next call (`domains.go:434`).

## 6. Plan

Done so far, in this order: kernel, frame, publisher, update, run, leg, failure domains, owner. What is
left, the most consequential first; each new module gets a type invariant, the properties of its hazards in
PROJECT.json, and an abstract specification where one is named.

1. `LifecycleRemote` (`lifecycleremote`): the adapter of a remote shell and its nested children, whose
   streams come over one transport.
2. The rendezvous of a completion and its fence in the session runtime (`sessionruntime`), composed with
   the owner: the input lease and the prompt boundary it waits for.
3. `Outbound` (`transport/outbound`, `control`): bounded queues whose budget must come back, also of a
   frame that was reserved before a close and queued after the drain (`outbound.go:274`).
4. `Schedule` (the keyed gate and the bulkhead of `operation`), `WorkerWake` (one batch, its generation),
   `ConnPool` (the reference-counted ssh connections): small concurrent protocols, each with a count that
   must come back.
5. The coordinator's singleton and hand-over, the capacity and retention of the target book, vault reset,
   transfer.

Theorems: the publisher with shells that ask for a child, as far as its properties hold there; after it
the invariants of new modules.

## 7. Not modelled, and why

`PROJECT.json` lists every component with its status. In short: byte pumps, framing, deployment,
generated scripts and operating-system wrappers are I/O without protocol state of their own; the
codec and the schema are data; cryptography is taken as given (a capability either matches or does
not); conversations with language models are text; the frontend is another program in another
language. Everything marked "P" above is meant to be modelled in the order of the plan.

## 8. Running it

    tlc -config KernelNesting.cfg MCLifecycleKernel.tla
    tlc -config LifecycleFrame.cfg LifecycleFrame.tla
    tlc -config LifecyclePublisher.cfg LifecyclePublisher.tla
    tlc -config LifecycleLeg.cfg LifecycleLeg.tla
    tlc -config SessionOwner.cfg SessionOwner.tla
    tlc -config RunLease.cfg RunLease.tla
    tlc -config UpdateTransaction.cfg MCUpdateTransaction.tla
    tlc -config FailureDomains.cfg MCFailureDomains.tla
    tlc -config ClaimExitIsHeard.cfg LifecycleLegClaims.tla
    tlapm LifecycleKernelProofs.tla
    tlapm LifecyclePublisherProofs.tla
    tlapm LifecycleFrameProofs.tla
    tlapm LifecycleLegProofs.tla
    tlapm SessionOwnerProofs.tla
    tlapm RunLeaseProofs.tla
    tlapm UpdateTransactionProofs.tla
    tlapm FailureDomainsProofs.tla

Each run and each module of proofs takes at most a few minutes on two cores.

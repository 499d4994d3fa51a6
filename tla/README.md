# Polymux: a TLA+ verification project

Polymux is a desktop assistant that runs language-model agents on a user's
behalf. The user talks to runs while they work, runs delegate to other runs, a
manager queues work per chat, and several devices share the load. This project
models the parts of it whose correctness depends on the *order* in which things
happen, checks them with TLC and proves the central ones with TLAPS.

## 1. Inventory

| Component (source) | State it keeps | Operations | Talks to | What is hard | What makes it correct | Status |
|---|---|---|---|---|---|---|
| Keyed mutex (`packages/core/src/locks.ts`) | a promise tail per key | `run`, `held` | every writer of shared files | clean-up reactions run after newer callers arrived | exclusion, order, empty table | modelled, proved |
| Run control (`packages/core/src/control.ts`) | steering queue, seal, abort signal | `steer`, `drainSteering`, `sealSteeringIfEmpty`, `cancel` | the host and the loop | user speaks between any two awaits | no accepted word lost | modelled, proved |
| Agent run loop (`packages/core/src/runner.ts`) | turn, repair, tool and attempt counters, context | one pass per turn, retries, tools, review, completion | model, tools, host callbacks | several counters extend one another; cancellation at each await | limits, end, contract with the speaker | modelled, proved |
| Subagent fleet (`packages/agent/src/subagents/fleet.ts`) and delegation tools (`task-tool.ts`) | roster, outbox, cancel handles, licence, dispatch count | spawn, resume, settle, wait, cancel, take post | parent's control, children's runs | children settle while the parent is anywhere, even gone | each end reported once, completion hears all, nobody waits for ever | modelled, proved |
| Agent runtime (`packages/agent/src/runtime.ts`) | retained tasks, callbacks of a run | `#runSubagent`, `reviewFinal`, `beforeComplete` | loop, fleet, storage | partial failure of a dispatch | see fleet | partly |
| Chat pool and manager scheduler (`apps/desktop/src/main/agent`), drains of `backend.ts`, task board (`main/tasks`) | durable job list, drain locks, active runs | enqueue, cancel, reprioritise, reorder, card moves, claim, settle, recover | agent runs, store, user, agents' task tool | claim before an awaited start; crash; cards moved under a run | limits, exclusivity, dependencies, no stall | modelled (local runs), proved |
| Goal loop (`packages/agent/src/goals`, `#driveGoal`, continuations in `backend.ts`) | goal row, spent turns, the continuation of each conversation | `afterRun`, `resetBudget`, `execute`, adopt, preempt | judge, runs, user | budget and goal are read before the judge and written after it; quitting while it answers | budget counts continuations, the user can stop the latest, the loop ends | modelled, proved |
| Cron scheduler (`main/scheduler`) | schedules, stored copy, one timer, running set | create, update, remove, runNow, fire, tick, start, stop | runs, clock, store | edits during a run, suspended computer, process dying in a run | a run at a time, pause holds, cadence unmoved by long runs, due schedules fired promptly, nothing replayed | modelled, but for `markRead`, proved |
| Host relay and client (`apps/connect/relay`, `main/team/host-relay.ts`) | host sockets, pending requests, timers; reconnection timer | connect, proxy, answer, time out, forward, reconnect, close | caller, host, its local server | socket replaced with requests in flight, late replies, restarts | each request answered once, one connection at a time | modelled, but for connect codes, proved |
| Locker (`main/locker`, `packages/locker`) | vault file, metadata, open vault, account's row and objects | create, unlock, save, lock, set storage, hydrate, sync | account, other devices | saves, pulls and pushes interleave across six awaits; crash between two files | the account restorable and truthful, no consent bypassed | desktop service modelled, proved; session of the extension and cryptography not |
| Device pairing, connections, team service, host server (`main/team`) | devices, grants, bots | pair, revoke, call | relay, runs | revocation against calls in flight | no call after revocation | not modelled |
| Headless host (`packages/host`) | active runs, approvals | start, steer, cancel | runs | check, then await | one run per conversation | environment of AgentRun only |
| Atomic file and storage | files, SQLite rows | write, statements | everyone | a write is atomic, a pair of writes is not | - | as far as `LockerSync` and `GoalLoop` use them |
| Protocol, inference, tools/MCP, drive, hub, browser, computer, external agents, messaging bridge, user interfaces | - | - | - | mostly I/O, types or presentation | - | not modelled, reasons in `PROJECT.json` |

`PROJECT.json` lists every component with its status and the hazards with the
lines where they bite.

## 2. Modules

| Module | Role |
|---|---|
| `KeyedLock` | abstract specification: a queue per key, no promises, no table |
| `KeyedMutex` | the mutex, one action per stretch between two awaits |
| `KeyedMutexProofs` | its theorems |
| `RunContract` | abstract specification: what a run promises whoever speaks to it |
| `AgentRun` | run loop and control |
| `AgentRunProofs` | its theorems |
| `FleetRun` | `AgentRun` composed with fleet, delegation tools and children |
| `FleetRunProofs` | its theorems, on top of those of `AgentRunProofs` |
| `MCFleetRun` | constants for its runs |
| `ManagerQueue` | chat pool, capacity rule, drains, task board |
| `MCManagerQueue` | constants for its runs |
| `ManagerQueueProofs` | its theorems |
| `RelayContract` | abstract specification: what a caller of the relay may rely on |
| `HostRelay`, `HostRelayProofs` | relay, connection and the host's client together; its theorems |
| `Schedules`, `MCSchedules`, `SchedulesProofs` | the scheduler with its store, clock and timer; constants for its runs; its theorems |
| `LockerSync`, `LockerSyncProofs` | the locker's service, the account and another device; its theorems |
| `GoalLoop`, `GoalLoopProofs` | goal loop, goal row, and the host's handling of continuations; its theorems |

Definitions whose comment begins "A mutated form" are deliberate mistakes. No
specification uses them; replacing the definition below them by one makes TLC
find the violation of a named property, which shows that the property can fail.

### How state and actions correspond to the code

JavaScript runs each stretch between two awaits alone, so an action is one such
stretch and concurrency is the interleaving of stretches.

**KeyedMutex.** `tails` is `#tails`; a tail is named by the call that installed
it. `Run` is `run` up to its first await, `Start` the resumption after
`await earlier`, `Release` the `finally` block, `SettleTail` the settling of
`earlier.then(() => mine)`, `Forget` the reaction that deletes the key. The
order of reactions is left open, which covers every order of the microtask
queue. `ahead` is an auxiliary variable for the refinement.

**AgentRun.** `pc` names the await the loop is suspended at; the other
variables carry the names of the locals and fields they model. `accepted` and
`answered` are auxiliary: what `steer` ever took, and how much of the context
the latest turn was sent. Stream outcomes, tool results, reviews and the
completion check are nondeterministic choices over the branches of the loop.
Event emission is one of the awaits folded into the neighbouring stretch; a
sink that throws is not modelled. Two abort signals are kept apart, the
control's (`aborted`) and the caller's (`revoked`), because the control refuses
steering only after its own.

**FleetRun.** A child is its roster entry (`entry`), the state of
`#runSubagent` (`child`), its own run (`childRun`) and its cancel handle. A
notification is the pair of task and dispatch number, so "reported exactly
once" can be stated across `resume`. `wait` is a pending `waitForNews`. A fleet
starts with any set of retained tasks of an earlier run. Hosts never give a
coordinator a signal of its own, so `Revoke` takes no part here.

**ManagerQueue.** `pool` is `#jobs` with the array order; `saved` is the stored
preference, which lags behind only by the refresh that `nextReady` does not
persist. `drain[c]` is both the membership of `c` in
`#drainingManagerConversations` and the run its drain is starting. Handlers
that drain do so in the same action, because the drain runs synchronously up to
its first await. `NewlyBlocked` states the one ordered pass of
`#refreshBlockedJobs` as the largest set of queued jobs each blocked by a
failed dependency or by a member in front of it; positions make that set
unique. `Keep` (the code's `filter`) and `DrainAll` (the loop over the chats) are
recursive functions of a position in the array, so that they can be reasoned
about. `Allowed` says how often each kind of event that the queue does not cause
itself may happen: `edit` (the user moves or creates cards), `claim` (an agent
takes one), `cancel`, `remove`, `reorder`, `fail`, `direct`, `crash`. Left out: remote runs (`replaceRun`, polling), a rewind's bulk
cancellation, `contextThroughSequence`, edits of a card's text, the reload of
MCP servers that may delay the drain after the last run, and the cancellation of
a single run by its id (its run may end with any status anyway).

**HostRelay.** `phase[r]` is where `#proxy` is with request `r`; the socket it
took before awaiting the body is `via[r]`. A connection has two ends,
`relayEnd` and `hostEnd`, which close separately, and messages in flight
(`toHost`, `toRelay`) that are delivered in any order or lost with it. `answers`
records every time a promise of `#proxy` is resolved or a caller gets a response,
so answering twice is visible. `discovering` counts the `#connect` calls awaiting
discovery; together with `timer` and the sockets in their handshake they are the
client's attempts. Either end closes its socket for a message it refuses
(`WebSocketRefuses`, `MessageRefused`): a header longer than the Host allows, or an
end of another protocol version. A body whose reading fails is thrown on by `#proxy`
("broken"). A restart of the relay (`RelayRestarts`) closes its sockets and
loses `#pending` and its timers. The Worker returns the durable object's `fetch`
without awaiting it, so its `catch` sees neither of these two errors and the caller
gets the platform's error response. Left out: a reply whose `Response` cannot be
built after its request left `#pending` (`relay/src/index.ts:161`). This Host sends
statuses a `fetch` returned, base64 of a buffer, and no more bytes than the relay
accepts, so that the construction does not throw. The mapping to
`RelayContract` reads a request's state off `phase`, `pending`, `handled` and
`answers`.

**Schedules.** `items` is `#items`, `stored` the preference; `running` is
`#running` and `inflight` counts the executions really under way, so that
overlap is not excluded by the shape of the model. Time is a small number of
instants and a frequency is the set of its instants, which is all the scheduler
uses of `nextRunAfter`; the calendar arithmetic behind it is left out. `timer`
is measured by a clock that stops while the computer sleeps (`Suspend`).
`wish`, `overridden`, `waited`, `since`, `owned` and `bootAt` are auxiliary: what
the user asked for, which schedules were edited while they ran, how long a due one
has waited, the instant its next run was computed from, which exist for the user,
when the process started. Create, update, remove and runNow work as long as the
process lives, after `stop()` too; before `start()` nobody calls them, since the
backend registers their handlers later. Left out: a `setPreference` that throws in
the middle of a handler.

**LockerSync.** A vault is the set of edits in it and stands for its own
checksum. `task` is the foreground request and its await (one at a time), `sync`
the one synchronisation `#syncing` allows, with the account's answer and the blob
it holds across awaits. `row` and `objects` are the account's table and bucket.
`mishaps` records the three histories the code does not defend against, and each
property names the ones it excepts: a save that overlaps a push (`overlapped`), a
pull that lands while a request holds an older copy (`overtaken`), and a crash
between the vault's and the metadata's write (`torn`). `made` and `chosen` are
auxiliary. That a new locker never overwrites the account's (`sync.ts:21`) is stated
of contents: what is pushed over a version seen in the account holds one of its
edits. Two saves that overlap in `saveDatabase`'s await (`service.ts:551`) are outside
the bound of one request at a time.

**GoalLoop.** `run[r]` goes from preparing (between the preemption and
`agent.start`) through running to judging, with the budget `afterRun` read in
`used`; records are used again once a run is over. `tracked` is
`#goalContinuations`, `closing` how far `close()` is. `since`, `newest` and
`lone` are auxiliary: continuations since the budget started over, the latest
one, and whether a budget changed while a judge was at work. Left out: the
deletion of a conversation (its next `start` would throw) and subagents, which
never drive the loop.

## 3. Runs

| Run | Instance | Shows |
|---|---|---|
| `keyed_mutex` | 4 calls, 2 keys | exclusion, table coverage, empty table, refinement of `KeyedLock` including its fairness |
| `agent_run_limited` | 2 turns, tool budget 1, the code's 3 repairs, 3 attempts, 2 quality repairs, 3 messages | conservation and seal, limits, cancellation, end, refinement of `RunContract` |
| `fleet_pair` | 2 tasks, 2 dispatches each, a budget of 2, one message | `FleetBooks` (parallel dispatches keep the budget), each end reported once; completion hears everyone |
| `fleet_resume` | 1 task, 2 dispatches, 2 messages | licence, `EveryoneSettles` (coordinator and tasks), run contract with the fleet |
| `manager_lane` | 1 chat, 3 jobs, 1 exclusive, 2 priorities, 1 cancel, 1 failed start, 1 direct run | exclusivity |
| `manager_board` | 1 chat, 3 jobs, 2 card operations by the user, 1 claim by an agent, 1 removal of the chat | `BoardInvariant`: well-formed pool, chat limit |
| `manager_world` | 2 chats, 3 jobs, 2 slots, 1 direct run, 1 crash, 1 reorder, history 1 | global limit, no chat forgotten, dependencies, recovery, every job dealt with |
| `host_relay` | 2 requests, 1 slot, 2 connections; close, restart and refused messages at any time | `ConnectionInvariant` (one open host, one attempt, silence after close), each request answered once, a late close leaves the new connection's requests alone, refinement of `RelayContract` with its promise that every accepted request is answered |
| `schedules` | 2 schedules, a recurring and a cron frequency, 4 instants, a sleep of 1, history 2 | `RunsAccounted` (no overlap, truthful history), pause, `CadenceKept` (the next run is the first slot after the latest start; an active due schedule is fired within one sleep of the timer), `RestartHonest` (nothing forgotten, nothing replayed) |
| `locker_sync` | 3 edits by two devices | `AccountSound` (restorable, one version's bytes with its revision), open vault current, clean means uploaded, `PushesAgreed` (what is pushed descends from what it replaces, local stays local), synchronising always becomes possible again |
| `goal_loop` | 3 runs, 2 messages, 1 further edit, budget 2 | budget exact, `LoopInHand` (the tracked run is live, the latest is tracked, closing reaches it), the loop ends |

One run ends in a violation and quotes the line it refutes (`findings` in
`PROJECT.json`): `schedules_failed`. A recurring schedule whose run failed keeps
a next run and is never fired for it, although `scheduler/index.test.ts:188`
says "a failing run is recorded and does not stop the cadence".

**Other divergences the models show.** Each was found as a counterexample; the
passing properties state exactly where they stop because of it.

| Where | What the code does | What it says |
|---|---|---|
| `core/src/runner.ts:472` | a run that ends with `max_turns` drops steering it accepted during its last turn | `runner.ts:448` "accepted steering always gets a turn" |
| `agent/src/runtime.ts:822` | a run cancelled while it waits for its tasks before completing is reported completed, with a task out | `runtime.ts:644` "the reason the run cannot end while one of them is still out" |
| `backend.ts:2743` | a job cancelled while its run starts gets a run that is never told to stop | `manager-scheduler.ts:72` |
| `backend.ts:6080` | if that start then fails, the drain throws and the sibling behind it sleeps | `chat-pool.test.ts:99` |
| `agent/chat-pool.ts:272` | moving the card of a running exclusive job opens its lane under its run | `manager-scheduler.ts:10` |
| `goals/loop.ts:128` | the judge's `continue` writes the budget it read before, undoing a reset by a message sent meanwhile | `runtime.ts:365` "a fresh instruction is never starved by turns an earlier one spent" |
| `backend.ts:5950` | a continuation that starts while a message's run is being prepared works beside it | `backend.ts:4900` "The user speaking outranks a goal continuation still working" |
| `scheduler/index.ts:142` | pausing a schedule while it runs is forgotten when the run ends | the comment above it |
| `scheduler/index.ts:296` | schedules with a cron expression are dropped at the next start | `KINDS` lacks a kind the rest accepts |
| `locker/service.ts:444`, `467` | a create that finds a synchronisation under way goes on beside it; its new vault is written over the one just pulled and the next synchronisation pushes it over the account's | `locker/src/sync.ts:21` "a new empty locker cannot overwrite an account vault" |
| `locker/service.ts:478` | a save that overlaps a push is marked clean under the pushed checksum | - |
| `locker/service.ts:483` | a push that ends after the user chose "This device" turns the locker back into an account's | - |

**Hazards no property covers**, because the code leaves them open and no document
promises otherwise: without a turn limit a model may call tools after its budget
for ever (`runner.ts:376`); `waitForNews` does not count a report queued just
before it (`fleet.ts:338`; the report still reaches the next turn); the outbox is
emptied before a `steer` that may be refused (`fleet.ts:403`; no host creates
that case); a run that claims a card and ends without completing it leaves a
second job with its run id (`chat-pool.ts:316`); the relay's capacity check
precedes the await on the body, so a burst exceeds it (`relay/src/index.ts:265`);
a verdict is applied to whatever goal the conversation has after the await
(`loop.ts:107`).

**Bounds and why they are enough.** Four calls on two keys give a holder, two
waiters and a newcomer on one key beside an independent key. Three messages let
one be in the context, one in the queue and one arrive late. `MaxTurns = 2` with
`ToolTurnBudget = 1` reaches the synthesis turn, all three repair turns and the
limit; the code's constants 3, 3 and 2 are used as they are. Two tasks are the
least for which the completion check applies and a wait can be woken by the
wrong task, and for which two dispatches of one turn are both between their
reservation and their start, with a budget of two that a third one meets; one task
with three rounds exercises retain and resume beside the user's redirections. `ModelTurns`
bounds only how long the model chooses to go on without a turn limit. In
`ManagerQueue` three jobs give a chain of two dependencies or a full chat and a
waiter; `Allowed` bounds how often each kind of event happens. The history limit
is 1 where pruning is the question. Where it is not (`manager_lane`) it is as
large as the number of jobs: in the code it is 100 per chat, and with a limit of
1 a cancelled job can be pruned while its run winds down, which in the program
would take a hundred finished jobs within that window.

In `host_relay` two connections are an old and a new one, and one slot with two
requests reaches the busy answer and the burst past it. In `schedules` four
instants hold two slots of the recurring frequency, a sleep or a run that passes one
of them, and a wait longer than the timer's sleep; only a restart tells the kinds of
frequency apart, so a recurring and a cron one are enough; a history of two shows an older entry beside the newest. In
`locker_sync` three edits allow a version on each device and a save during the
push of another. In `goal_loop` a budget of two with two messages lets a run be
judged while another starts; a third record is the continuation.

**What each manager run leaves out, and why.** `manager_world` has no failed
starts, because with them the code does stall (`backend.ts:6080` above; and a failed
start wakes only its own chat, so in two chats sharing their last slot it stalls
as well). `manager_lane` has no card
moves (`chat-pool.ts:272` above), and `manager_world` no cancellations, because a job
cancelled while its run starts is not counted until the run is active.

**Deadlock** is not checked where the system may stop: every run of a mutex,
agent, queue, relay, scheduler or locker comes to an end when nobody asks for more.
`goal_loop` checks it.

**Fairness.** `KeyedMutex`: reactions to settled promises run and the callers'
work ends. `AgentRun`: whatever the loop awaits settles; steering and
cancellation are never forced. `FleetRun`: additionally timers fire and children
end (their own runs have limits or are cancelled). `ManagerQueue`: starts return
and runs end. `HostRelay`: only the relay's own timers, which the platform fires;
no host, network or caller is assumed to do anything. `LockerSync`: the account
answers or the HTTP client gives up. `GoalLoop`: preparation settles, runs end
(which `AgentRun` shows) and the judge's model call returns or fails; the user is
never forced. `Schedules` states no fairness: that a due timer fires before the
next instant is part of `Pass`, and its properties are safety.
`ManagerQueue`'s two fairness conditions are weak fairness with the guard
written out (`[]<>~guard \/ []<><<A>>_vars`), which spares TLC the evaluation of
`ENABLED` on an action that contains a whole drain.

## 4. Proofs

Every theorem holds for every value of the constants that satisfies the named
`ASSUME`s: any sets of calls, keys, messages, tasks, requests, sockets and
schedules, finite or not, any jobs and chats, and any limits. The assumptions only say that limits
are natural numbers (a few of them positive), that a name for "none" is no
member of the set beside it, and that a coordinator's messages are the user's
words and the reports. `GoalLoopAssumption` also asks for finitely many run
records, but more than messages, since the model uses records again. Each proof module
has one inductive invariant, `IInv`, that Init establishes and each action
keeps; it was checked by TLC on the instances of section 3 before it was proved.

| Module | Theorem | States |
|---|---|---|
| `KeyedMutexProofs` | `TypeCorrect`, `Exclusion`, `Coverage`, `Refinement` | shapes, `MutualExclusion`, `TableCoversWork`, safety of `KeyedLock` |
| `AgentRunProofs` | `TypeCorrect`, `Conservation`, `SealHonest`, `TurnLimit`, `ToolBudget`, `CancelStopsTurns`, `ContractRefinement` | shapes, `SteeringConserved`, `SealedAnswersAll`, `TurnsBounded`, `ToolTurnsBounded`, `NoTurnAfterCancel`, `ImplementsRunContract` |
| `FleetRunProofs` | `EveryDispatchReported`, `CompletionHeardEveryone`, `BooksAreKept`, `CancellationsAreLicensed`, `FleetContract` | `PostConserved`, `CompletedHeardEveryone`, `FleetBooks`, `CancellationsLicensed`, `ImplementsContractWithFleet` |
| `HostRelayProofs` | `EveryRequestAnsweredOnce`, `ConnectionBooks`, `ReplacedSocketFailsNobody`, `RelayContractSafety` | `AnsweredOnce`, `ConnectionInvariant`, `NewHostKeepsItsRequests`, safety of `RelayContract` |
| `SchedulesProofs` | `RunsAreAccounted`, `PausesHold`, `CadenceIsKept`, `RestartsAreHonest` | `RunsAccounted`, `PauseHolds`, `CadenceKept`, `RestartHonest` |
| `LockerSyncProofs` | `AccountIsSound`, `OpenVaultStaysCurrent`, `CleanVaultIsUploaded`, `PushesAreAgreed` | `AccountSound`, `OpenVaultCurrent`, `CleanIsUploaded`, `PushesAgreed` |
| `GoalLoopProofs` | `BudgetIsExact`, `LoopStaysInHand` | `BudgetExact`, `LoopInHand` |
| `ManagerQueueProofs` | `BoardSafe`; under hypotheses on the history `RunningBacked`, `DependenciesGate`, `WorldSafe`, `ExclusiveSafe`, `QueueAwake` | `BoardInvariant`; `RunningHasRun`, `DependenciesKept`, `GlobalLimitKept`, `ExclusiveAlone`, `NeverAsleep` |

### The inductive invariants and why they are needed

**KeyedMutexProofs.** The invariant adds to `TypeOK` that the calls made on a
key form a chain through `earlier`, that a tail settles only after its call has
left and everything ahead of it has, and that the table names the last call of
its key unless that call's tail has settled. The last part is what
`MutualExclusion` and `TableCoversWork` need: without it a clean-up reaction
could remove the entry of a newer call.

**AgentRunProofs.** `IInv` is `TypeOK`, `SteeringConserved` and six further
parts: `AnsweredOK` (what a turn was sent is a prefix of the context, all of it
from the model call to the seal), `PurseOK` (turns taken beyond the limit have
been paid from the repair turns), `AttemptOK` (attempts are counted only below
their limit), `BudgetOK` (tools run only below the budget), `SealOK` (a sealed
run is on its way out with an empty queue and a fully answered context) and
`OutcomeOK` (the outcome is set exactly when the run is done). `TurnsBounded`,
for example, is not preserved by a repair turn unless the purse is known to
cover it. `ContractStep` shows of any single step of the loop that it is one of
`RunContract`'s, so that the fleet's composition can use it again.

**FleetRunProofs.** A step of the composition is a step of the run, which keeps
the run's `IInv`, or a post joining the queue (`SteerIInv`). The fleet adds
`Followed` (a task has a follower exactly while its entry runs), `OutboxOK` (only
a cancelled control leaves a post in the outbox), `QuietAtSeal`, `Ledger`
(reserved dispatches are the started ones and those in between, within the
budget), `LicenceOK`, and `ReportedIffEnded` with `ReportedOnce`. `QuietAtSeal` is
the crux: the outbox is emptied before `steer`, which a sealed control refuses,
so no report is lost only because nothing is out when a run that was not
cancelled seals.

**HostRelayProofs.** Three parts: the relay's books (`phase`, `pending`, `timers`
and `answers` agree request by request, one open socket), the client's books
(until `close()` exactly one of reconnection timer, discovery and connection
exists, a connection counting until its close event, and it is the one `#socket`
names), and `TransitOK` (only
requests that were passed on travel, and a reply on the wire is one the local
server produced). The agreement of `pending` with `phase` is what makes a late
reply or timeout harmless; `TransitOK` is needed for the contract only.

**SchedulesProofs.** Most of what must hold of a schedule is a property of its
record (`ItemOK`), required of the stored copy too since a restart brings it
back. `CadenceKept` does not say that every slot is run: slots that pass in a sleep or
in a run are made up for by one run, and a failed schedule is not fired at all
(`schedules_failed`). Its first half ties a record to the instant its next run was
computed from, which every handler that touches the record must keep in step;
`WaitOK` carries the second: what a due schedule has waited and what the
timer still sleeps are within `MaxSleep` together. `EarliestIsLeast` is proved
from well-foundedness (`WFMin`), since the library's induction rules are out of
reach.

**LockerSyncProofs.** Between two awaits anything may happen to the file, its
metadata and the account, so the invariant says of each suspended request what it
still knows: a version seen in or carried to the account is stored and was
written under its revision (`Sound`, `BlobOK`), a push that reads holds the file or
will be refused (`ReadingOK`), a foreground request's bytes contain the file
(`TaskCurrent`), a device that counts as synced has a file with one of the account's
edits (`Linked`). Each part names the recorded mishaps that void it.

**GoalLoopProofs.** `BudgetExact` needs `LoneJudge`: while nothing happened behind
a judge's back there is at most one judge and the budget it was given is what is
still spent; and `JudgesHaveBudget`, that a judge is asked only with budget left.

**ManagerQueueProofs.** A drain runs inside the handler that causes it, so a step
is a change of the pool followed by drains of some or all chats. `IInv` is
therefore a predicate on the record of all state (`Lands(State)`), kept by one
change and by one drain, and by a drain of all chats through any number of them.
Its parts:

- `Sound`: pool and stored copy are well-formed; a drain's start is of a job of
  its chat and a run not used before; each chat has room for its start beside
  its active runs. This alone gives `BoardSafe`, in every history.
- `Backed`: a running job has the user, a start or an active run behind it.
- `Gated`: an open job's dependencies are in the history, and completed if it
  runs; in the stored copy too, which a restart brings back. Pruning spares what open jobs need, however short the history.
- `Counted`, `Known`: a run under way has its job running, or at least known;
  the capacity rule counts jobs, so this ties what it counts to the runs. With
  them `WorldRoom` and `Alone` are kept by a claim.
- `Awake`: when nothing is under way no chat has a job a drain would claim.

All but the first are conditional on what happens in the history, and each
condition excludes something the code does not defend against (section 3):

| Hypothesis | Excludes | Because in the code |
|---|---|---|
| `Never("claim")` in `RunningBacked` | an agent claims a card | its run then stands behind two jobs, and its end settles one |
| `Untouched` in `DependenciesGate`, `ExclusiveSafe` and, in `Orderly`, `WorldSafe` | edits, claims, removal of the chat | a card moved by hand runs whatever its dependencies, and moved back loses its run id while the run goes on; a removed chat takes its jobs with it |
| no `cancel` (`Orderly`) in `WorldSafe` | cancellations | a job cancelled while its start is awaited is not counted until the run is active |
| no `cancel`, or `Ample`, in `ExclusiveSafe` | cancellations with a history shorter than the number of jobs | a cancelled job that is forgotten while its run winds down no longer holds its lane |
| `Undisturbed` in `QueueAwake` | edits, claims, failed starts | a failed start wakes only its own chat, and of a cancelled job it stalls the drain |

The hypotheses are on `Allowed` only: everything not excluded may happen any
number of times, and each run of section 3 satisfies those of the properties it
checks. The remaining argument is about the operators: what `Keep`, a prune, a
refresh, a reordering or an assignment does to array, statuses and run ids. Those
facts need induction over positions, which is done by the least position at
which the fact fails (`LeastNumber`), and the existence of a recursively defined
function by the same means (`Repeated`), since the library's rules take operators
as parameters.

### What the proof attempts found

Two errors in the models, none in the code. `Armed` in `Schedules` chose the
timer by a `CASE` with overlapping guards, whose value TLA+ leaves open (TLC takes
the first); it is now an `IF`. `RunContract` let a run accept one message per
step, which `takePost` refutes with two finished tasks in the outbox; `Accept`
now takes one or several, in order.

In the manager queue they settled which histories each property holds in.
`RunningHasRun` survives card moves by the user and deleted chats, which its run
does not exercise, and fails only with an agent's claims, which therefore became
a kind of event of their own; `NeverAsleep` survives cancellations and deleted
chats; the chat's limit holds in every history.

### Only model-checked

- Liveness (`TableEmpties`, `RunEnds`, `EveryoneSettles`, `QueueDrains`,
  `SyncReleases`, `LoopEnds`, and the fairness parts of `ImplementsKeyedLock` and
  `ImplementsRelayContract`): it needs fairness and `ENABLED`, which the prover
  does not handle.
- `FailureKeepsCadence`, which the code violates (`schedules_failed`).

Every other property of a run is stated by a theorem.

## 5. Plan

1. Done: keyed mutex; run loop and control; fleet; manager queue; host relay with
   its client; scheduler; locker synchronisation; goal loop; the safety proofs of
   all of them.
2. Next modules: connect codes and pairing over the relay, remote runs of the
   manager queue (`replaceRun`, polling), the extension's locker session.

## 6. Not modelled

Device pairing, the team service and the connect-code registry (the next
candidates); the calendar arithmetic of `scheduler/time.ts`; cryptography; what
models, judges and tools say; drive, hub, MCP and other connectors, whose state
is elsewhere; user interfaces, types and validation. `PROJECT.json` gives the
reason for each.

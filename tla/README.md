# Verification of SpaceApp's coordination protocols

SpaceApp is a workspace in which people and agents share rooms, panes and a
memory. Most of it reads and writes records in single transactions. Four
protocols are different: each spans several processes that fail on their own,
and acts on something that can be neither sent twice nor taken back.

- A *managed plan execution* drives a multi-stage plan through a native agent
  thread it does not own.
- A *memory mutation* replaces a canonical memory file on disk, next to savers
  and editors of the same file, and records what it did in a database.
- The *room supervisor* runs the turns of the Room Agent's missions as a durable
  workflow that is steered by signals.
- The *pane terminal* carries the output of a process from a host, through
  transports that come and go, into a stored transcript.

This project models the four, checks them with TLC and proves their main
properties with TLAPS. Source paths are relative to the repository root.

## Inventory

| Component | State | Operations | What is hard |
| --- | --- | --- | --- |
| Plan execution controller, `apps/api/src/plan-execution-controller.ts` | per process: observers, refusals and interrupt acknowledgments by command; the position of `advance()` | tick, claim, read the thread, prepare/send/settle SETTINGS, START, INTERRUPT, evaluate results, flush events | every await is a point where the lease, the record or the thread may change; START is never resent |
| Operator requests, `plan-execution-mutations.ts`, `plan-execution-routes.ts` | none (read, check, update) | create, pause, resume, override of a stage's model | stale reads; requests between a fence and a send |
| Plan execution repository, `packages/runtime/src` and `packages/db/src`, `plan-execution-repository.ts` | the records with lease, revision, command journal and outbox cursor | create, claim, update, release, list and acknowledge events | compare-and-set by revision, lease epochs, overlapping relays, a lost COMMIT answer |
| Managed turn transport, `packages/codex-app-server/src/managed-turn.ts` | one connection per START | send, response, observation of closure and configuration | three delivery outcomes; notifications lost or late |
| Native agent thread (Codex app server; not in the repository) | the thread's turns | accept, refuse, join, interrupt, finish a turn | shared with a user's prompt |
| Memory mutation executor, `packages/runtime/src/memory-mutation-executor.ts`, and its activity, `apps/worker/src/memory-mutation-activity.ts` | lock file, recovery journal, canonical files; the position of each attempt | claim, lock, validate, stage, rename, verify, settle, recover, finalise | a crash between any two steps; retries beside requested reconciliations |
| Canonical memory saves, `packages/runtime/src/shared-state.ts` | the same lock file, the monthly file | acquire, judge and remove a stale lock, append, release | two writers of the lock file with two formats; saves run concurrently |
| Change-set records, `packages/db/src/space-store.ts` | `memory_graph_change_sets` | propose, propose a rollback, review, claim, settle | rollbacks in any order |
| Room agent supervisor, `apps/worker/src/workflows.ts`, with `room-background-continuation.ts` and the turn activity in `activities.ts` | queue, interrupted turns, monitored missions, active turn | enqueue, stop, run, discard, finish, watch, prepare a continuation, continue as new | signals against activities under way; attempts that outlive their workflow step |
| Room agent API, `apps/api/src/room-agent.ts`, and its transactions in the store | missions, requests and runs | enqueue, signal, mark, recover at start, pause, resume, stop | the store and the workflow learn of things in different orders |
| CLI pane host, `packages/cli-host/src` | sessions, attachments, output ring, lease, accepted input keys | attach or spawn, replay, detach, reap, prune, input, resize, terminate | spawn races, replay gaps, exits nobody hears of |
| CLI terminal transports, `apps/api/src/cli-terminal.ts` | transports, batches and their queue, the transcript's cursor | open, attach, gather, flush, store, leave, detach, handle the exit | the cursor is read while output is still on its way |
| Claude driver, `plan-execution-claude-driver.ts` | pane process and transcript | the controller's driver interface without a protocol | acceptance is inferred |
| Socket multiplexer, `packages/codex-app-server/src/socket-multiplexer.ts` | clients, pending requests, primary | route, replace the primary, initialise once | replacement with requests pending |
| Gateway accounts, `packages/gateway/src` | blocks, cooldowns, credentials | select, block, recover, refresh | refreshes and blocks from concurrent requests |
| Stores, API, other worker activities, browser host, streaming, memory graph, web client | tables, sessions, views | mostly single transactions and I/O | — |

### How the parts interact, and what makes them correct

**Plan executions.** `tick()` flushes the outbox, lists active executions and
runs `advance()` on each runnable one. `advance()` claims the lease, reads the
thread, and takes the execution one step further; every save compares revision,
owner, epoch and expiry, and every native command is preceded by `fence()`.
Operators save without a lease against the revision they read, which makes the
controller's next fence or save fail. The agent answers the controller over one
connection and shows its history over another, so answers, history and
notifications arrive in any order. Correctness means:

- the agent takes up at most one START at a time, each at most once, and the
  record always names the one that may still run;
- a stage completes only by a turn of its own that nobody else took part in;
- a pause holds, a model change is honoured, an interrupt stops nothing else;
- the budget of turns bounds what is started, over crashes and takeovers;
- old continuations, old leases and old reads never overwrite newer state;
- every revision is published once and in order;
- and all of it comes to rest: nothing is awaited for ever.

**Memory mutations.** An approved change set is claimed (APPLYING) by a
retried Temporal activity. The executor takes the lock file, compares the
canonical files with the hashes the change was made for, writes a journal,
stages the new file and renames it over the old one, verifies it, updates the
journal and releases the lock; the activity settles the row. Whoever finds the
row APPLYING later, a retry or a reconciliation an operator asked for, has the
journal and the files to go by. Savers append entries under the same lock file,
editors know no lock. Correctness means:

- one process at a time works under the lock file, and an entry that was reported as
  saved is never written over (both only as long as no saver removes the lock file
  of a living holder, see below);
- FAILED means not written, APPLIED means written, and until the row says
  either there is a journal to recover from;
- a file is replaced at most once for a change, and a change undone at most once;
- a claimed change is settled or brought to an operator.

**Room missions.** The API stores a request and then signals the room's
supervisor workflow; a process that ends in between is made up for by
`recoverPending()` at the next start, which may signal again. The workflow runs
the turns one by one, in a cancellable scope, through activities that read the
mission in one step and write it in another. When the queue is empty and
background actions of a turn are still running it polls them and prepares an
automatic continuation; an operator's request takes precedence over it.
Correctness means:

- a mission that has ended never changes again, and ends over its newest turn;
- a request that reached the supervisor is run or its mission has ended;
- a recorded outcome is final, whatever is repeated;
- an automatic turn continues the newest turn and no other;
- a mission is interrupted only because somebody stopped it, completed only
  when its background work is done, and does not stay unfinished for ever.

**Pane terminals.** The host numbers the output of a process and keeps the last
of it; a transport that attaches sends the last sequence of the stored
transcript and gets what follows it replayed, or is told that some is gone. Its
output is gathered in batches and stored. A process without attachments is
ended after a lease. Correctness means:

- below the transcript's cursor nothing is missing but what was recorded as
  truncated: nothing later would bring it back;
- nothing is stored twice, and a process's output in order;
- a session recorded as ended has no living process behind it;
- a process nobody watches is ended.

`PROJECT.json` lists the hazards behind these at their lines.

## Modules

| Module | Role |
| --- | --- |
| `FencedRecord` | what a durable record promises its controllers: one continuation may write, and only on the revision it has; outcomes of comparisons instead of numbers |
| `PlanRepository` | the repository with its integers: create, claim, fence, update, release, operators' updates, the outbox and its relays; implements `FencedRecord` for each execution |
| `StageCommands` | the abstract promise about START commands: issue, take up, give up, end |
| `PlanExecution` | the controllers, operators, users and the agent around one execution, on top of `FencedRecord`; implements `StageCommands` |
| `MemoryMutation` | change sets, the attempts that execute and recover them, savers and editors of the canonical files |
| `RoomSupervisor` | one mission: its rows, the operator, the signals, the workflow and its activities |
| `PaneTerminal` | one session: the process at its host, the transports of the API and the transcript |
| `PlanRepositoryProofs`, `PlanExecutionProofs`, `MemoryMutationProofs`, `RoomSupervisorProofs`, `PaneTerminalProofs` | theorems and inductive invariants |
| `PlanCommandsProofs`, `PlanPromiseProofs` | on top of `PlanExecutionProofs`: the protocol of START commands, and the refinement of `StageCommands` |
| `MemoryEvidenceProofs` | on top of `MemoryMutationProofs`: what a recorded status says of the file |
| `MCPlanRepository`, `MCPlanExecution`, `MCMemoryMutation`, `MCRoomSupervisor`, `MCPaneTerminal` | definitions for TLC's instances |

An action is the code between two points at which others can intervene; where
only reading happens between several checks, they are one step with the write
or the send that follows. Alternatives marked `Mutant:` are plausible mistakes;
each property is broken by one of them (`PROJECT.json`).

### PlanExecution and the code

`exec` is the durable record: `active` is `activeStageIndex + 1`, `pending` the
`pendingCommand`, `interrupt` the `interruptCommand`, `reason` the
`interruptReason`, `choice` the selection that overrides and snapshot give each
stage, `corrected` whether `correctionCount > 0`, `verified` of an attempt its
`actualSelection`. `at[w]` is where worker `w`'s `advance()` stands between two
awaits, with its locals: `seen` is the thread it has read, `was` the delivery
status of the settings intent it works with. `mem[w]` is the three in-memory
maps. They may hold several commands in the code; only the pending command's
entries are ever read and the `finally` block drops the others, so one slot per
worker is enough. `native` is the thread as `readThread` shows it, `wire` the
requests under way. `proven` and `held` are history variables; `left` carries
the bounds.

Where several fences follow each other, `Conflict` covers a failure at each.
`Advance … ReadThread` is the head of `advance()`, `Settle … Reconciled` the
reconciliation of a START, `Watch … SaveAcknowledgement` a running turn and its
interrupt, `AwaitClosure … Sufficient` a closed one, `UserOwned … PrepareStart`
the way to the next START, `ArmStart … Uncertain` its send, `Conflict …
FinishUnread` the catch and finally blocks. `ArmStart` and `SendStart` are
separate steps because an operator's save can fall between the last fence and
the request; what must still hold at the send is only the lease, whose expiry
the code compares with the clock in the same tick of the event loop.

`Pause`, `Resume` and `Override` are accepted requests: the revision check makes
read and update one step; refused requests change nothing. That the read may be
old, and what then happens, is modelled in `PlanRepository`.

The agent is modelled from the way the controller uses it: a request is
accepted, refused or lost at any time after it was sent; if a user's turn is
running by then the request *joins* it, which is what the controller's
`userMessageCount` and `Matches` checks are for.

### PlanRepository and the code

One action per transaction. `record` is the row with its lease columns, `copy`
what a continuation of `advance()` carries, `form` what a request has read,
`batch` what a flush has listed, `log` the events table. The in-memory
repository runs the same comparisons without an await between them, so the one
module stands for both. `UpdateUnanswered` commits and leaves the worker with
its old copy. `Fence` renews or re-claims; the worker that finds epoch or
revision changed goes on to `Release`, which checks the epoch again.

`ImplementsFencing` is the bridge: for each execution the record's owner and
liveness, the worker whose copy has the current epoch and the workers whose copy
has the current revision behave as `FencedRecord` allows. `PlanExecution` uses
`FencedRecord`'s actions and so rests on what `PlanRepository` establishes.

### MemoryMutation and the code

The contents of a file are the set of *marks* that change sets, savers and
editors brought in, and a hash is the contents it is computed from; the
expectations `expected`, `before`, `after` and `result` of a `row` are the
hashes of its columns. `journal` is the recovery file of each change set,
`lock` who created the lock file, or `Orphan` when that process has ended,
`at` the position of each attempt, `saver` that of each saver. `saved`,
`replaced`, `asked` and `robbed` are history variables; `robbed` holds
whoever had its lock file removed by a saver while it was alive.

`Start` and `Claim` are the activity; `AcquireLock … Release` the executor:
`Prepare` validates the sources (`AsApproved`), writes the journal and stages the
file; `PrepareFails` may leave the journal behind, but only of a change set that was
validated; `Rename` replaces it, `Verify` reads it back and writes WRITTEN. `SettleApplied`
and `SettleFailed` are the transactions, `Reconcile`, `Recover` and `Finalize`
what a later attempt does with a row that is already APPLYING. A retry of the
activity and a reconciliation that an operator requested run the same code, so
both are further `Attempts`; they may overlap. `LockTimeout` sends an executor
that cannot get the lock to reconcile.

Savers go through `withFileLock`: `SaverAcquires`, `JudgeLock`,
`RemoveStaleLock`, `AppendEntry`, `SaverReleases`. `JudgeLock` reads the file
and `RemoveStaleLock` unlinks it later, whosever it is by then, and records a living
holder in `robbed`. Several saves may be under way at once, each entry by a saver of
its own (`POST /api/memory`, `memory-routes.ts:201`). `Edit` is a tool
outside the repository. `Crash` ends an attempt at any step and leaves the lock
file behind; nobody but a saver ever removes it. With `MayStall` a live
executor may hold its lock longer than the age at which a lock counts as stale.

### RoomSupervisor and the code

Turns are numbered in the order of their rows. A turn has the turn it continues
(`source`, 0 for a request), its `generation`, its `run` status, a recorded
`outcome`, and how far its `signal` is. `mission` is the row, with the
completion a pause keeps (`done`) and the status it was paused in (`origin`).
`sup` is the workflow: its position with the locals of the activity under way
(`seen` is what an activity has read), `pending`, `interrupted`, whether the
mission is monitored, whether a signal `changed` something during a
preparation, and `cancelled`/`caught`, the state of the cancellation scope.
`linger` holds turns with an attempt that the workflow no longer waits for: one
that missed its heartbeats, or one that was cancelled (the SDK's default,
TRY_CANCEL, reports a cancellation at once). A lingering attempt ends or
gives up at any later time (`LateEnd`).

`Request`, `Pause`, `Resume`, `Stop` are the API's transactions; `Signal`,
`MarkSignaled`, `Resignal`, `StopSignal` its signals; `TakeInterrupted`,
`TakePending` and `Watch` the branches of the loop. `Check` and `CheckWrite` are
`supervisorTurnState()`, `FinishRead` and `FinishWrite` `finishSupervisorTurn()`,
`PrepareRead` and `Prepare` `prepareBackgroundContinuation()`: each reads first
and writes in a guarded transaction later. `BeginWork … WorkRetried` is the turn,
a child workflow with one activity. `troubles` records what happened beside the
ordinary, for the properties that are only promised without it. A
continue-as-new carries the whole state over and is a stuttering step. Whether
the measured tokens have reached their limit is left open (`PrepareLimit`).

### PaneTerminal and the code

`host` is the session with its process: `gen` counts the processes there have
been, `low` and `next` delimit the ring buffer, `lease` is the time without an
attachment. `attached` are the attachments at the host, `trs[t]` the transports
of the API, with the process they saw (`gen`), the `next` output they expect,
the open `batch` and the `queue` of batches to store, and `feed[t]` what the
host sent them and they have not handled. `stored` is the transcript's batches,
`row` the session's status in the database.

`node-pty` spawns synchronously, so the host handles each request at one go:
`Spawned`, `AttachToTail`, `AttachRefused`. On the side of the API `Open`,
`Inspect…`, `ReadCursor`, the attach and `Ready` are separated by awaits.
`Output` gathers, and `Flush` closes a batch anywhere, as the size and the timer
may. `Store` writes the oldest batch unless a batch with the same last sequence
is there; `StoreFails` is a failed write, with or without effect, after which
the queue is kept and `stalled` until something flushes again. `Leave … Finish`
is `detachTransport()`, `ExitHandled` the exit, `ApiCrash` and `HostRestart` the
two processes' ends. `Reap`, `MarkGone` and `Prune` are the host's sweep. All
viewers of a transport are folded into its opening and its leaving.

## Runs

| Run | Instance | Question |
| --- | --- | --- |
| `takeover` | 2 workers, 1 stage of 2 attempts, 1 fault | is a START in doubt ever resent, given up or forgotten when another controller takes over? |
| `operators` | 2 workers, 1 attempt, 2 requests, 1 fault | is a paused or finished execution really at rest, and does a pause hold? |
| `stages` | 1 worker, 2 stages, 2 models, 1 request, 1 user turn, 1 fault | do stages complete in order, proven, with the chosen model, and are a user's turns left alone? |
| `progress` | 1 worker, 1 request, 1 fault, fairness | does it come to rest, and does a request take effect? |
| `repository` | 2 workers, 1 operator, 2 publishers, 1 execution, revisions and epochs to 2, fairness | do integers implement the fence, is a finished record final, is the log complete, ordered and free of duplicates? |
| `memory` | 2 change sets, 2 attempts, 1 saver, 1 fault | does what is recorded of a change agree with what was written, and are saves kept? |
| `memory_answers` | 1 change set, 1 attempt, 2 savers, 1 editor, 1 fault, fairness | what does it take to lose the exclusion, are saves kept until then, and is a claimed change settled or brought to an operator in any case? |
| `rooms` | 2 requests, 1 continuation, 1 pause, 1 fault, fairness | do requests, continuations, stops and repetitions leave a mission with its newest turn, its outcomes and its end? |
| `pane` | 2 transports, 2 processes, a buffer of 1, outputs to 2, 1 fault, fairness | is the transcript complete and free of duplicates, and is an unwatched process ended? |
| `blocked`, `memory_lock`, `rooms_resent` | the smallest | three statements of the source that its steps do not keep (below) |

The properties are stated, with their reasons, where they are defined.

| Module | Properties |
| --- | --- |
| `PlanExecution` | `OneOutstanding` (whatever may still run in the agent is the pending START), `KeepsPromise` (refinement of `StageCommands`), `TurnBudget`, `QuietAtRest`, `PauseHolds`, `ChoiceHonoured`, `InterruptsOwnTurn`, `CompletionProven`, `ComesToRest`, `RequestTakesEffect` |
| `PlanRepository` | `ImplementsFencing` (refinement of `FencedRecord`), `FinishedIsFinal`, `RelayInOrder`, `EverythingRelayed` |
| `MemoryMutation` | `OneInsideUnlessRobbed`, `SavesKept`, `FailedNeverWritten`, `AppliedIsWritten`, `EvidenceKept`, `RenamedOnce`, `Answered`; `UndoneOnce` is proved only |
| `RoomSupervisor` | `EndedStaysEnded`, `NewestTurnDecides`, `RecordedIsFinal`, `ContinuesTheNewest`, `RequestsAreKept`, `InterruptedInOrder`, `CompletedAfterWork`, `Settles` |
| `PaneTerminal` | `NothingLost`, `StoredOnce`, `EndedIsOver`, `Reaped` |

### What a property leaves out, and why

Some hold only without a disturbance the code does not protect against. The
disturbance is then named in the property, by a history variable:

- `OneInsideUnlessRobbed`, `SavesKept`, `FailedNeverWritten` and `AppliedIsWritten`
  hold until a saver removes the lock file of a living holder (`robbed`). After that
  they are wrong in the code: the robbed executor renames without a lock, over an entry
  that was saved meanwhile (the second finding); if its row was
  recovered before that, it is FAILED although the file is written after all; and
  the late rename can bring contents back which another recovery then takes for its
  own change. `OneInsideUnlessRobbed` also says what it takes to get there
  (`RobbedInRace`): a holder slower than the age of a stale lock, or a fault and two
  savers. `EvidenceKept`, `RenamedOnce`
  and `UndoneOnce` have no such condition, and are proved with the lock lost.
- `InterruptsOwnTurn` takes the turn a START joined for the START's own, as the
  controller does: that a user began it is not visible in the thread any more, so
  an interrupt that stops such a turn is no violation.
- `InterruptedInOrder` speaks of missions whose signals are neither sent again
  (`resent`, the third finding) nor overtaken by those of newer requests, and
  whose attempts answer: an answer lost with its worker (`unanswered`) or a
  stalled attempt leaves a run that the next attempt may find interrupted.
- `CompletedAfterWork` excludes the same signals, a failed supervisor (`lost`:
  its successor does not know what was monitored) and `late` attempts, whose
  background work nobody watches. It also excludes missions one of whose turns
  failed: that turn ends the monitoring, and a newer request may keep the mission
  alive nevertheless (below).
- `RequestsAreKept` covers missions that were stopped or are over as well, and
  excludes `lost` only: five failed attempts of an activity
  outside the cancellation scope fail the workflow, and the queue it held in
  memory is not in the store.
- `RecordedIsFinal` excludes an attempt that the workflow had given up and that
  writes its own end after another one recorded its outcome (`late`): nothing in the
  code fences such an attempt. `InterruptedInOrder` excludes it with the stalled ones.
- `Settles` assumes that troubles are retries, failures, lost answers or late
  attempts. Pausing stops a mission rightly; signals or supervisors that go
  astray may leave it RUNNING.
- `StoredOnce` excludes transports that *overlap*: the cursor is read while
  another one still has output to store, and the output is then stored twice. What
  such an overlap must not do is leave a gap, and `NothingLost` covers it.
- `EndedIsOver` excludes an exit that is recorded after a new process came.
- `Reaped` excludes a transport whose last flush failed before it was detached: its
  process is never reaped.

### Bounds

Two workers, attempts or transports are every case of "this one" against
"somebody else's"; the proofs hold for any number. Two stage attempts show
whatever one START leaves behind for the next. Two change sets of one file
include a change with its rollback and two changes that exclude each other. One
change set with two attempts is a retry beside a reconciliation. Two savers race in
removing a lock file; they have a run with one change set and one attempt at a time,
since two change sets and two attempts beside them give more than 14 million states.
Two rollbacks of one change take three change sets: a change, two rollbacks and one
attempt were checked as well (2 million states), and so were two savers beside two
attempts, and `Answered` with two attempts beside one saver; those instances are not
kept, and what the safety runs show is proved for any number of each, as is `UndoneOnce`.
Longer sequences of operator requests are covered by the theorems `PausesHold` and
`ChoiceIsHonoured`; three requests of one controller with two models and two attempts
were checked as well (1.7 million states).
Two requests and a continuation give a turn that is superseded,
one that is queued behind it and one that is discarded. Two processes with a
buffer of one output give a truncated replay, a second generation and an old
exit. The safety invariants of `PaneTerminal` also hold with two faults and
one output per process, `CompletedAfterWork` with three requests, a continuation and
a pause (2.9 million states; a run of this size takes too long to keep).

A fault is a crash, an abandoned tick, a failed file or database operation, a
lost answer, a repeated signal, a stalled attempt or a restarted host; one
occurs at any step, in any state. The faults of the agent's network (lost or
late answers, lost notifications, refusals) are unlimited. Each bound is a
constant: `MaxStageAttempts`, `MaxGeneration` and `BufferSize` are the code's
own limits, `MaxRequests`, `MaxFaults`, `MaxPauses`, `MaxUserTurns`,
`MaxRevision`, `MaxEpoch`, `MaxGenerations` and `MaxOutput` are ours. Workers,
change sets and attempts are interchangeable, so safety runs use symmetry;
runs with a liveness property do not. Deadlock is not checked: an execution, a
change or a mission that has ended, or that rests until somebody acts, stays as
it is.

### Fairness

*PlanExecution.* The scheduler sets its next timer in the `finally` of every
tick and every await has a timeout or settles, so a live controller keeps
taking steps: weak fairness of `Continue(w)`, `Notify`/`LoseContinuity`, of the
agent's decision on a request, of an interrupted turn's end and of the expiry
of a lease that nobody carries. Strong fairness is assumed where the code
retries and the outside world may fail any single time but not every time: the
retry delay passes, an advertised model comes back, a settings write and an
interrupt are once acknowledged, a relay once succeeds. A running turn need not
end (the code sets it no deadline): `ComesToRest` is therefore stated for turns
that do; `RequestTakesEffect` is not, and covers turns that would run for ever.

*MemoryMutation.* Attempts and savers take their steps, and both come back:
Temporal retries a change that is APPLYING, a reconciliation can be asked for
again, and a workspace keeps saving entries, which is what removes an orphaned
lock file. `AcquireLock` is strongly fair because the executor polls for the
lock, and other holders release it in between.

*RoomSupervisor.* The API signals what it has stored, Temporal runs the
workflow and its activities, and background actions settle. Lingering attempts,
operators and faults owe nothing.

*PaneTerminal.* The host's sweep and timers and the promises of the API run on.
Nobody has to watch, to leave or to retry, and no process has to end.

### What the source says and its steps do not keep

Three statements are refuted by a run:

1. `BlockedCanResume` (`blocked`). "Review before resuming"
   (`plan-execution-controller.ts:268` and `:424`), but an execution that blocked
   with its START unresolved refuses to resume, and nothing reconciles it
   while it is blocked. A pause is what sets it in motion again.
2. `OneInside` (`memory_lock`). A saver takes a lock file for stale after 30 s
   unless its first word is the number of a living process
   (`shared-state.ts:107`). The executor's lock file holds JSON, so a saver
   removes the lock of a living executor, and both work in the monthly file.
   `canonical-memory-save.test.ts:31` says it "waits for a live one". Nor does it
   take a slow process: `removeStaleLock()` judges a lock file and then removes
   whichever is there (`shared-state.ts:103-112`). After a crash two savers judge
   the lock file that was left; one removes it, an executor takes the lock and stages
   its file; the other removes the executor's lock file and saves its entry; the
   executor renames its file over it. TLC finds this course in the instance of
   `memory_answers` when `SavesKept` or `OneInsideUnlessRobbed` is asked for without
   its condition.
3. `InterruptedOnRequest` (`rooms_resent`). The signal of a turn that has finished,
   repeated by the recovery at the API's start, supersedes that turn's own
   continuation, and the mission ends INTERRUPTED although nobody stopped it.
   `docs/quality/failure-matrix.md:28` says "A duplicate signal is absorbed".

Others were met while modelling. They are in the models, where a property
excludes or allows them, and have no run of their own:

- A START built from a settings intent (`plan-execution-controller.ts:385`) has
  the intent's delivery status, SENT or UNKNOWN, before it is sent, next to
  "START is durably prepared" (`:389`). Nothing decides on it before acceptance.
- Blocked with a settings intent pending, then given another selection and
  resumed, an execution keeps the old intent and blocks again
  (`plan-execution-mutations.ts:17`).
- APPLYING without a journal, which a mere lock timeout can bring about, is an operator's for
  good; a rollback whose files hash differently stays APPLYING
  (`space-store.ts:14993`).
- A pause between the read and the write of `finishSupervisorTurn()` drops the
  completion that "is checkpointed for Resume"
  (`room-background-continuation.ts:195`).
- A continuation that was prepared and discarded is the latest turn,
  INTERRUPTED, and ends the monitoring of its mission.
- An attempt that stalled and was repeated may turn a COMPLETED run to FAILED.
- A turn that fails ends the monitoring of its mission before the activity that ends
  the mission refuses because a newer request was stored meanwhile
  (`workflows.ts:334-349`). When that request completes, the mission completes, with
  background actions of an earlier turn still at work. It takes three requests.
- The cursor is read (`cli-terminal.ts:3058`) while another transport still
  holds output, which is then stored twice; and in the other direction a larger
  batch with the same last sequence as a stored one is dropped
  (`space-store.ts:11033`), which `NothingLost` shows to be harmless.
- The flush of `detachTransport()` (`cli-terminal.ts:4747`) precedes its `try`: if
  it fails, `host.detach()` is skipped and the process is never reaped.
- A failed batch waits for whatever flushes next; `markProcessGone()` tells no
  attachment; the exit of an old process may end the session of a new one.

## Proofs

TLAPS proves, for all values of the constants that satisfy the modules'
assumptions (`PlanAssumption`, `RepositoryAssumption`, `NoWorkerAssumption`,
`MemoryAssumption`, `RoomAssumption`, `TerminalAssumption`), the theorems that
`PROJECT.json` lists. None needs a bound on how often anything happens.

`PlanExecutionProofs` (`TypeCorrect`, `CompletionIsProven`, `PausesHold`) rests on
one inductive invariant, `IndInv`. `CompletionProven` is not inductive. That a
recorded stage was proven by its own turn needs `PendingStage` (the pending START
is an attempt of the active stage) and `KnownIds`: the ids on the wire, in the
thread and in the copies workers have read were issued, and any of these
threads that closed COMPLETED without other messages has proven the stage of
its last turn (`ClosedProven`). That the active stage is the one after the
completed ones, until all are, is `StagesInOrder`. `PauseHolds` needs that while
a pause is in force the execution rests, is blocked or finished, or has a START
that is being stopped with reason PAUSE (`PauseKept`); that a resting execution
has no START pending (`RestReleased`); and that a worker whose copy is current,
on its way to a START, works on a runnable execution that has none
(`FreshRuns`), so that the one write which adds an attempt cannot follow a
pause. Each action is a lemma of its own; `Invariance` puts them together.

`PlanCommandsProofs` (`OneIsOutstanding`, `RestIsQuiet`, `TurnsWithinBudget`,
`ChoiceIsHonoured`, `InterruptsItsOwnTurn`) adds `CommandInv`. `OneOutstanding` speaks
of the wire, of controllers about to send and of the agent's running turn, and is kept
because nobody gives up a START that could still run. That needs all of these:

- what is on the wire, in a controller's hands or running is the pending START, and
  was taken up by no turn before (`WirePending`, `LaunchPending`, `RunsPending`,
  `TakenOnce`);
- a receipt of refusal, in memory until it is used, tells the truth for good
  (`ReceiptsTrue`), as does a thread that was read as closed (`SeenKept`): the two
  grounds on which a START is given up or ended;
- the turn a record names, and the one an interrupt stops, is the pending START's
  (`NamesOwnTurns`, `StopsPending`);
- a controller whose copy is current and that is on its way to a START carries the
  settings of the active stage, which has an attempt left (`FreshKnows`, `ChoiceFits`,
  `WithinBudget`).

Most lemmas are about kinds of steps instead of actions: a save that keeps the
pending command, a save after which none is pending, a request of an operator, a
step of the agent that starts nothing.

`PlanPromiseProofs` (`PromiseIsKept`) is the refinement of `StageCommands`. Its commands
are the attempts, the open one is the pending START, the taken up ones are the turns of
the thread that are not a user's. `PrepareStart` issues, an accepted request takes up, a
save that ends a START gives up or ends it, every other step is a stutter;
`CommandInv` is what makes the guards of the abstract steps hold, `ReceiptsTrue` in
particular that what is given up will never be taken up.

`PlanRepositoryProofs` (`TypeCorrect`, `FinishedFinal`, `FencingImplemented`,
`RelayOrdered`) has two more. `StampInv`: no copy carries an epoch or a revision
the record has not reached, so equality of numbers means that nothing came in
between, and whoever could still write a finished record carries an older
revision (`FinishedUnreachable`). Each repository step is then shown to be a step
of `FencedRecord` or a stutter (`ClaimFenced … RestartFenced`). `RelayInv` adds to
`RelayInOrder` that the predecessor of a listed event is listed as well, or in
the log (`BatchesFollow`).

`MemoryMutationProofs` layers its invariants: `Typed`; `Replacement` (a staged
change belongs to one attempt, `Staged` and `Alone`; a fresh journal means an
unwritten file, `FreshUnwritten`), which yields `EvidenceAlwaysKept` and
`FileRenamedOnce`; `Undone` for `ChangeUndoneOnce`. These hold with the lock lost.
`Exclusive` and `Kept` hold until a living holder is robbed of its lock file: steps
keep them as long as the history variable `robbed`, which only grows
(`RobbedStays`), is empty. `Exclusive` (who works under a lock file is the one who
created it) yields that one process at a time is inside. `Kept` yields
`SavesAlwaysKept`: whatever a change set writes, it adds and removes no saver's entry
(`Marked`), and between its validation and its rename nobody saves one (`Validated`).
`RobbedOnlyInRace` says when a holder can be robbed at all, by `Calm` (without a stall
and a fault no lock file is stale) and `Solo` (a single saver still finds the
orphaned lock file it has judged, since nobody else removes one). `OneInsideAlways`
puts the two together. There is no
assumption on the number of savers, and none on stalls.

`MemoryEvidenceProofs` (`AppliedAlwaysWritten`, `FailedIsNeverWritten`) is about
recovery, which judges from a journal and the contents of the files, and so about
everything else that may have written them. Both hold, like `Kept`, until a living
holder is robbed, with any number of savers: a saver that takes the lock of a living
executor can change the file between its validation and its rename. The invariant
`Evidence` rests on three facts. `Course`: a journal exists, and
an attempt works on a file, only while the row is APPLYING, and what was renamed or has
WRITTEN in its journal was claimed before. `Rooted`: every change set brings in the mark
of one proposal or takes it away again, since a rollback has the contents of its target
exchanged. And the entries a prepared change set has seen stay in the monthly file
(`EntriesStay`). So the contents after a change are found in the file only if that
change, or another rollback of the same change, wrote them (`Shown`); and a change that
was written and is not recorded yet is still to be seen in the file unless another
rollback put back what it replaced (`Standing`).

The last exception is in `FailedNeverWritten`, because the plain "FAILED was never
written" is wrong, as the attempt to prove it showed. It takes four change sets and two
faults: a change c1 is applied; two rollbacks of it, c2 and c3, are approved; c3 writes
its journal and its process ends; c2 replaces the file and fails in its verification;
the recovery of c3 finds the contents it wanted and records it as applied; c4, a
rollback of c3, puts the contents of c1 back; the recovery of c2 now finds its journal
PREPARED and the contents from before, and records FAILED. Nothing is lost by that: the
file holds what FAILED says, "Canonical source remains at the exact approved before
snapshot" (`memory-mutation-executor.ts:482`). For every change set that is not a rollback the
plain statement holds, and is what the theorem proves. `Evidence` and the invariants
below it were model-checked before they were proved, on the instance of `memory` and on
one with four change sets and two faults that follows this course (2.8 million states).

`RoomSupervisorProofs`: `RoomInv` says that what the workflow holds is well formed,
that an activity about to write the mission has read an unfinished one
(`Sound`), and what a turn continues (`Sources`). `NewestContinued` and
`MissionStaysEnded` follow. `RecordedOutcomeIsFinal` adds `WorkOpen`, that the
turn at work has no outcome yet: the one guard at its begin holds until its
end, because no step but an attempt's own records one. The others are layers on
`PlaceInv`, which places every turn the workflow holds (`Placed`: the queue has
no turn twice, and an active or prepared turn is not in it):

- `RoomTyped` is part of it.
- `NoRequestIsDropped` is one fact about steps, `Keeps`: what the workflow holds it
  holds after the step, or the turn has ended with it; and one about states,
  `Settled`: a mission is ended only over a turn that has ended.
- `NewestTurnIsDecisive` rests on `Decided`: while a completion is held back by a
  pause, the newest turn has ended and no activity that could start one is under
  way, and a continuation is written only over a turn that has ended.
- `OnlyStopsInterrupt` needs `Dropped` and `Superseded`: whatever is to be discarded,
  cancelled or still lingering has a newer turn, or the mission was stopped. That a newer turn
  comes with the signal that interrupts an older one is the order of the signals,
  `InTurn`, with `Heard` and `Unheard` (a turn the supervisor has not heard of is
  in none of its places and waits as it was stored).
- `CompletesAfterWork` has three invariants on top of `Dropped`. `Withdrawn`: what is
  discarded or skipped, or was interrupted, is over; and while a continuation is
  prepared only a newer turn or a stop interferes. `Continuing`: a continuation that is
  still the newest turn waits or runs alone and begins with no action at work
  (`AloneInQueue`, `AloneAtItem`, `AtRest`), and a continuation in the workflow's hands
  means that its mission is monitored (`Followed`). `Watching`: where actions are at
  work, the mission is monitored, or the answer that tells of them is on record and
  still to be read (`Answer`), or a turn has failed; and what completes a mission has
  ended its monitoring (`Unmonitored`). A request that finishes leaves a monitored
  mission alone, so the monitoring can end with a completion only by a continuation,
  which has none of these actions beside it. The steps are cases of `Ways`, the places
  the workflow can go to without a failure or a repeated signal.

What the moves of the workflow have in common is stated once (`SupMoves`). The queue
of superseded turns is computed by `Picked`, a recursive function; the lemma
`PickedQueue` says which items it keeps and that it repeats none. In place of an
induction its proof looks at the least index at which a claim would fail
(`LeastOf`).

`PaneTerminalProofs`: `PaneInv` is `Control`, `Data` and the two properties that are
inductive with them. `Control` says what the host's session (`HostSound`) and a
transport at each position (`Placed`) can be, and that at most one transport is
being attached or open (`OneBusy`). The heart of `Data` is `Held`: what is settled
for a transport, its queue, its batch and its feed continue each other without
a gap, up to what the process has produced; and `StoredSound`: each stored batch
has everything below it settled, stored or recorded as truncated. With them come
`TypeCorrect`, `OutputNeverLost`, `OutputStoredOnce` and `EndedSessionIsOver`;
`OutputStoredOnce` needs in addition that without overlap one transport at most has
output of a process (`Alone`).

Only model-checked are the liveness properties `ComesToRest`,
`RequestTakesEffect`, `EverythingRelayed`, `Answered`, `Settles` and `Reaped`,
which are out of the prover's reach. The invariants of the room were model-checked
before they were proved, those of `CompletesAfterWork` with up to three requests or two
faults (9.6 million states).

## Abstractions

- A selection is a model value; settings themselves are not kept, a readback
  shows the wanted ones or not at any time.
- Retry delays, deadlines, leases and retentions are not clocked: what waits
  for a time may find it passed or not. Clocks of processes and database are
  taken to agree on whether a lease has expired. Where the code relies on one
  time being much longer than another, the model says so at the action
  (`Prune`: the retention of an ended session, minutes, against the handling of
  its exit; `LockTimeout`: a saver's append against the executor's wait).
- Prompt texts, status reasons and the `errorCode` are left out; the prompt
  limit blocks like a failed inspection (`InspectionFails`).
- The command journal (`commands`) is kept by the record and read only to drop
  acknowledgments: its effect is in `Kept`.
- A `beforeSend` callback that outlives its connection's timeout fences
  without sending; it only renews the lease and is not a step of its own.
- An override of a later stage, saved between a START's preparation and its
  send, makes the controller's next save fail; the START is then found in doubt
  and the execution blocks. That is safe and modelled.
- The room's live broadcast of events may repeat or reorder; only the log is
  claimed to be ordered.
- The projection onto the plan's legacy progress fields is a function of the
  record written in the same transaction.
- File contents are sets of marks: order and wording inside a file, modes,
  owners and a power failure (as against the end of a process) are left out.
- One mission stands for a room: handlers and loop treat each mission apart in
  one queue. A write into the store by a cancelled attempt that is still inside
  its scope is left out; after the scope it is `LateEnd`.
- One NORMAL session stands for a host; output is counted, not read.

## Plan

1. Done: the managed plan execution (`FencedRecord`, `PlanRepository`,
   `StageCommands`, `PlanExecution`).
2. Done: memory mutations, the room supervisor, the pane terminal, each with its
   runs and its proofs.
3. Open, in this order: the Claude driver as a second agent under
   `PlanExecution`; routing and replacement of the primary in the multiplexer;
   blocks and recovery of gateway accounts; input of a pane with its
   idempotency keys; the per-pane exclusion `withPlanPaneMutation`.

## Not modelled

- Of the modelled parts: the workflow for histories from before the continuing
  supervisor; `replaceHostAttachment`, LOGIN sessions, explicit termination,
  interrupts, input and its keys, resizing, viewers, hosts with several lanes,
  the masking of upload paths (a held tail may be emitted under a sequence
  that is already stored, `cli-terminal.ts:4400`) and the row limit of a
  transcript; authorisation of requests.
- The Claude driver infers acceptance from a process and a transcript, and
  promises less than `StageCommands`; it needs a promise of its own first.
- Everything else has no protocol to check, or belongs to other software:
  stores' CRUD, authentication, vault, plugins, VPN and artifact storage, the
  parsing and indexing of the memory graph, browser host and streaming relays,
  OpenCode control, the web client, scripts, deployment, migrations, agent
  skills, demos and icons. These are nearly all of the repository's half a
  million lines, so the modelled share of its text stays small whatever is added
  to the list above.

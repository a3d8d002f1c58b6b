# MonoCode in TLA+

MonoCode drives coding agents (Claude Code, Codex, Cursor, ...) from a desktop,
a phone, or a remote machine. This directory models the parts whose mistakes cost
most and are tested least:

- the **host**, the process that owns conversations on a machine, accepts commands
  from any number of clients, runs one agent turn per conversation, survives
  crashes and storage failures, and promises that no prompt is ever executed twice;
- the **remote desktop** in front of it: the outbox that keeps a command until its
  fate is known, and the sync that keeps a pane's copy of a conversation;
- **orchestration**, which gives tasks to worker conversations, and
  **automations**, which start conversations on a schedule or on an event.

Contents: [inventory](#inventory), [modules](#modules), [runs](#runs-and-bounds),
[fairness](#fairness), [proofs](#proofs), [findings](#findings),
[what is left out](#what-is-left-out), [plan](#plan).

## Inventory

Paths are relative to the repository.

| Component | State | Operations | Correct when |
|---|---|---|---|
| Host engine, `host/engine.ts` | `running`, `live`, `retryTimers`, `switchingProjects`, `closing` | `command`, `run`, `event`, `flush`, `scheduledFlush`, `retrySettlement`, `updateSession`, `withIdleProject`, `generateFirstTurnNames`, constructor, `close` | memory and database agree; a prompt is accepted and executed at most once; a turn that ends leaves nothing open; no output or title is lost |
| Host store, `host/store.ts` | tables `sessions`, `receipts`, `events`, `projects`, `tokens`; a read cache | `transaction`, `save`, `updateSession`, `deleteSession`, `receipt`, `recordReceipt`, `sync` | a change is atomic and takes a revision |
| Transcript reducer, `integrations/harness/core/apply.ts` | the session value | `applyHarnessEvent`, `stopStreaming` | approvals, questions and plans do not outlive their turn |
| Provider adapters, `integrations/harness/providers/*` | `liveByThread`, `cancelledThreads`, handlers in `core/child.ts` | send, compact, cancel, stop, approve, answer | a turn told to end ends; a prompt is delivered or its failure reported |
| Process table, `host/child-backend.ts` | `children`, `streams` | start, kill, close | one process per conversation |
| RPC server, `host/server.ts`, `sync-transfer.ts`, `attachments.ts` | transfers, uploads, rate limits | dispatch, sync, chunks | a retried request has one effect; every chunk belongs to one revision |
| Desktop outbox, `features/connections` | pending commands in local storage, cached snapshots | save, dispatch, retry, clear, sync | an uncertain command keeps its ID until its fate is known |
| Connections, `src-tauri/src/remote*.rs` | tunnels by generation | lease, invalidate, bootstrap | a late failure does not kill a new tunnel |
| Orchestration, `features/orchestration` | runs, tasks, dispatches, write checks | dispatch, settle, cancel, pause, save | a worker runs only under a dispatch that is saved and current |
| Automations, `src-tauri/src/automations.rs` | automations, runs, event claims | claim, update, recover | an occurrence starts one run |
| Mobile link, `crates/mobile-link`, `mobile_access.rs` | pooled connections, cached pages | exchange, watch, patch | a resent request has one effect |
| Local runs and message queue, `src/app/App.tsx`, `features/sessions` | queue per conversation | enqueue, drain, edit, steer | a queued message is sent once, in order |
| The rest: desktop database, checkpoints, worktrees, files, terminal, windows, inbox, monos, notes, settings, ... | | | listed in `PROJECT.json` with the reason for leaving each out |

How they interact: clients send JSON commands over HTTP (through an SSH tunnel) to
the server, which calls the engine synchronously. The engine saves the session and
a receipt in one SQLite transaction and then, outside of it, calls the provider
adapter. The adapter starts a child process through the process table and reports
events back by callback; the engine applies them to the live session and writes
them, streamed text in batches. Clients poll `sessions.sync` with the revision they
have.

What makes it hard: Node runs one callback at a time, but a turn is a chain of
awaits (start, send, stop, settle, retry) between which any command, event, timer
or other turn runs; any SQLite write can fail; the process can crash between two
steps; answers to clients get lost and commands are repeated; cancels arrive at
every stage of a turn; stopping a process takes seconds. The list of such places,
line by line, is `hazards` in `PROJECT.json`.

## Modules

| Module | Models |
|---|---|
| `HostSession` | the value stored for a session and its pure transitions: commands (`Allowed`, `Applied`), provider events (`Absorb`), the end of a turn (`StopStreaming`, `Settled`) |
| `HostEngine` | the engine over its store: every entry point, the task of each turn, crashes, failed writes, recovery, close. Extends `HostSession` |
| `TurnLedger` | the abstract promise about prompts, which `HostEngine` implements |
| `ProviderTurns` | one session's turns as they meet an adapter and the process table |
| `RemoteOutbox` | the desktop's commands to a host: local storage, the network, receipts, retries, panes |
| `SessionSync` | one conversation at the host and a pane's copy of it: stamps, deltas, transfers in pieces, polls |
| `Orchestration` | one lead's run: dispatcher, workers, settlement, every way to stop, saves that fail, reloads, the lead's commands |
| `Automations` | one automation: database operations, launching, recovery, passes over the schedule, Inbox events, the user's edits |
| `MCHostEngine`, `MCOrchestration` | symmetry for the runs of `HostEngine`; the tasks of the runs of `Orchestration` |
| `HostEngine_proofs`, `HostTurns_proofs`, `HostTranscript_proofs`, `ProviderTurns_proofs`, `RemoteOutbox_proofs`, `SessionSync_proofs`, `Orchestration_proofs`, `Automations_proofs` | theorems, see [Proofs](#proofs) |

### HostSession and HostEngine

An action is the code between two awaits. State and code:

| Variable | Code |
|---|---|
| `sessions`, `receipts` | the two tables; they alone survive a crash |
| `running[s]` | the entry of `running`, with the stage of the turn's promise chain: `queued` (microtask not yet run), `sending`, `stopping`; `timer`, `retrying`, `abandoned` after a failed settlement |
| `live[s]` | the entry of `live`: the session as last changed in memory, the events not yet written, the timer |
| `switching` | `switchingProjects` |
| `naming` | outstanding `generateTitle` requests |
| `host` | `down`, `starting` (constructor), `up`, `closing` |
| `handed`, `asked`, `replies` | history: calls of `provider.send`, request numbers used, answers given |
| `spent` | counters that bound the exploration |

Commands: `Create`, `Start` (send, compact), `Edit` (draft, removeDraft,
configure), `Cancel`, `Reply` (approve, answer). Each is the whole of `command`:
duplicate check, flush, checks, save, receipt, refresh of the live entry, effect.
`Refuse` is a command that is turned down or whose transaction fails; it matters
because its flush has been written already. A duplicate of a known command does nothing and is
a stutter. Turn: `StartSend`, `EndSend`, `Settle`, `RetryTimer`,
`RetrySettle`; a failed write is a disjunct of the action that makes it. Events:
`ProviderEvent` (written at once or batched) and `ScheduledFlush`. Others:
`UpdateSession`, `DeleteSession`, `TitleArrives`, `BeginSwitch`, `EndSwitch`,
`Crash`, `Boot`, `Recover`, `Listen`, `Close`, `Exit`.

Abstractions. A transcript is its prompts, drafts, undecided approvals, open
question, plan states, kind of title and a count of absorbed output. The
`randomUUID` of a run is the id of the command that started it, which is fresh for
the same reason. A payload is part of a command, and each id has one payload at a
time, so "same id, other payload" is refused as any known id is. Request numbers
are used once by a turn, as the adapters count them up.
Sessions created with an automatic worktree branch are not among the inputs.

### ProviderTurns

`HostEngine` lets `provider.send` end whenever it likes and asks fairness of it only
after a stop. `ProviderTurns` opens that box for one session: the awaits of
`ensureLive` (`resolving`, `spawning`, `launched`, `initializing`), the markers
`cancelledThreads` and `turnEndPending`, the registered handlers, the process
table and the dying processes. `StopAwaited` is the turn's own `provider.stop`;
`StopFromOutside` the calls that nobody awaits (a failed write) or that come from
`close`. Each turn's process is named after the turn.

### TurnLedger

Three variables (open turn per session, accepted prompts, prompts handed over) and
three actions (`Accept`, `Hand`, `End`). The mapping reads `open` from the rows that
are `running`, `accepted` from the receipts of send and compact, `handed` from the
calls of `provider.send`. So a crash, which loses the memory of the engine, leaves the
ledger alone, and `Recover` is an `End`.

### RemoteOutbox

| Variable | Code |
|---|---|
| `outbox` | the entries `monocode.remote-command.v1:...` of local storage, each with its command, pane and followup |
| `bound` | the session each pane shows (`remoteSessionFor`), kept in local storage |
| `pending`, `starting` | the state of `RemoteSession` with these names; `starting.failed` offers "Try again", `pending` "Retry" |
| `call` | the `run` in progress: its command, the message it is about (`turn`), the session shown when it began, whether the pane's binding is still the same (`fresh`), and how far it is |
| `late` | requests that nobody waits for any more and that the host may still get |
| `sessions`, `turns` | the host's receipts, for creates and for messages |
| `rejected`, `meant` | history: what the user was told was turned down, the sessions a message was written for |

`Dispatch` is `run` up to its request; `Confirmed`, `SaveFollowup` and `Opened`,
`Rejected`, `TimesOut` are the ways it goes on. `SaveFollowup` and `Opened` are one
stretch of code, split where a crash may come between two writes of local storage;
nothing else does. `Rebind` is the pane being given another session, `Reload` a
restart of the program. `Handled` is the duplicate check of `HostEngine`, which
that module has in full; here the host is only its receipts.

Assumptions, each a guard: a pane is not bound by hand to the session its own
create is making before that create is confirmed (`onSelectRemoteSession` gives
such a session a pane of its own); identifiers of `crypto.randomUUID` are new.
Which of several entries local storage returns first is arbitrary but fixed.

### SessionSync

`stored` is the conversation with its `blockRevisions`, `transfers` the map of
`SyncTransfers`, oldest first, `shown` the pane's `snapshotRef`, `poll` a poll in
progress and one whose effect has been torn down, `receipt` the answer to a draft
the pane has sent. `save`, `sync`, `respond`, `chunk` and `prune` are the functions
of the host, `Ask`, `Deliver`, `Gone` and `Lost` a poll of the pane, `Refresh` and
`DraftAnswered` what overtakes it. Any answer but "unchanged" may be chunked, since
sizes are abstracted; a text has two pieces, its head and its blocks, which shows a
mixture of revisions if there ever were one.

Assumptions: the host's database is never replaced by an older one, and the answer
to a draft arrives before a sync that shows what the host did with that draft (the guard of
`DraftAnswered`; see the last section of [Findings](#findings)). The fallback to a
snapshot in `Deliver` is modelled and not reached: with those assumptions a delta always applies.

### Orchestration

The orchestrator is one object in one thread; its operations are asynchronous
functions, and each action is a stretch between two awaits. `run` is the run in
memory and `saved` the one in the database. `Save` is `commit`: memory, then the
save, and when that fails a paused run whose active workers are all being stopped.
It has a pass or fail branch wherever the code commits. `stops` holds each
`host.stop` that an operation waits for with what the operation does next;
`pump` is the dispatcher with what it has read, `again` its `pumpAgain`;
`order` the lead's command being executed (they are serialised by `actions`);
`starting` the run that `startRun` has computed; `pausing` the loop of `pause`.
`turn`, `settling` and `write` are the outside world per dispatch: the worker's turn,
the call of `settle` with its outcome, and a write of the worker being checked.

Two stretches commit what was read before an await, and the operations that stop a
task write its record after `host.stop` whatever it has become. These overtakings
really can happen; they are a flaw (finding 4) and with them
most of the other promises fall too. The constant `Overtakes` says whether they
do: `Quiet` and `Unstopped` are the guards it controls. The safety run has them
off, so it shows what holds apart from the flaw; `orchestration_resurrects` has
them on.

### Automations

`automation`, `runs`, `claims` are the rows of the database (one automation);
`run_update`, `Recover`, `ClaimDue`, `ClaimEvent`, `RunNow`, `Upsert`, `Delete` its
transactions. `cutoff`, `recovery`, `recovering`, `pass`, `batch`, `launches`,
`saving` are the window: what it awaits and what it read before. A pass may go on
after its effect has been torn down (`Dispose`), next to a new one. `retry` is the
queue of events in local storage. `launches` follows `launchAutomation`: session
reserved, run marked running, prompt sent, turn ended, outcome recorded.
An occurrence is due at each tick of the clock. The order in which a pass launches its
runs and in which the recovery reports them decides which run gets the session of the
last one (`SessionFor`) and which has the last word in the summary (`Reported`);
both are stated by position and by age, without a fold.

Assumptions: windows follow one another (see the last section of
[Findings](#findings)); polls of the Inbox do not overlap; the queue of events is not full
(`MAX_RETRY_ITEMS`) and a pass has fewer than 100 occurrences; a refused
submission is recorded at once; a turn's outcome is "succeeded", as the others are
recorded the same way.

## Runs and bounds

| Run | Configuration | Checks |
|---|---|---|
| `engine_turns` | 1 session, 3 commands out of send, draft, removeDraft, cancel, approve, answer; 1 request number, 2 events, 1 failed write, symmetry of commands | `TypeOK`, `PromptsRecordedOnce`, `OpenItemsBelongToTurn`, `RequestsAnsweredOnce` |
| `engine_projects` | 2 sessions of 1 project, 2 commands out of create, send; 1 event, update, failed write, crash each | `SwitchExcludesTurns`, `TaskPerRunningTurn`, `LiveMirrorsStore`, `HandedAtMostOnce`, `OutputIsKept`, `UserTitleIsKept`, `ChangesTakeRevisions`, `LedgerSpec` |
| `engine_settles` | 1 session, 2 commands out of send, compact, configure, cancel; 1 event, 2 failed writes, 1 crash; fairness | `EndedTurnSettles` |
| `provider_turns` | 3 turns, 2 failed writes; fairness | `TypeOK`, `OneProcessPerSession`, `StopEndsTurn` |
| `stale_cancel`, `cleanup_race`, `close_hangs` | 2 turns | one violated expectation each, see [Findings](#findings) |
| `remote_outbox` | 2 panes, 2 messages, 3 identifiers, 3 creates, 4 upsets (timeout, rejection, reload, change of session) | `TypeOK`, `PromptRunsOnce`, `RunsWhereMeant`, `KeptUntilKnown`, `OfferedForRetry` |
| `session_sync` | 3 blocks, 2 transfers, 4 revisions, 2 upsets (lost answer, foreign transfer, expiry, host restart, draft, new effect); fairness | `TypeOK`, `ShownWasStored`, `NeverBackward`, `Converges` |
| `orchestration` | 2 tasks with overlapping files, 2 dispatches, 2 requests, 1 upset (failed save, reload, failed preparation, pause or stop by the user), `Overtakes = FALSE` | `TypeOK`, `LiveWorkersApart`, `AuthoritySaved`, `OwnOutcome`, `NoUncheckedResult`, `DelegatedOnce`, `NoLostWakeup`, `CancellingIsStopped` |
| `orchestration_resurrects` | the same, `Overtakes = TRUE` | `SettledStaysSettled`, violated, see [Findings](#findings) |
| `automations` | 1 event, no grace, history of 1, 2 ticks, 3 runs, 2 upsets (crash, failed call, effect torn down, edit, run on request) | `TypeOK`, `ClaimedOnce`, `NoOccurrenceLost`, `SubmittedOnce`, `RunsApart`, `EventKept`, `SettledStays` |

Why these bounds are enough for the questions. Three commands are a prompt and two
competitors for the same turn (two clients that decide the same approval, a draft
that is sent while another client removes it, a cancel and an answer). Two events
are a request and something that closes it, or a batch and a write that flushes
it. One failed write reaches each failure branch, because every write may be the one that
fails; two reach a retry that fails again, which `engine_settles` allows. One crash
is placed between any two steps. Two sessions share a project so that a branch
switch, a creation and a turn of another session meet. In `provider_turns` a
third turn meets the processes and markers of two earlier ones.

In `remote_outbox` two messages are one in doubt and one typed after it; three
identifiers and creates leave a wrong retry a fresh one to use; four upsets are a
timeout, a late request, a reload and a change of the pane in one behaviour. In
`session_sync` a first revision, two changes and a third while pieces are read is
what mixes revisions if anything does, and two transfers make one of another
client evict the pane's. In `orchestration` two tasks that share files are what
the dispatcher must keep apart, in either order; two dispatches are a task
dispatched twice, or one after the other. In `automations` one run pending, one
running and one settled (three runs, a history of one) meet a restart; two ticks
are an overdue occurrence that is skipped and one in time; two upsets are a torn
pass and a crash, or a crash and an edit.

Deadlock is not checked, since a host whose commands are used up, or a session
without a next turn, really does stop. Symmetry is used only where safety is
checked.

## Fairness

`HostEngine`: weak fairness of the turn's own continuations (`StartSend`, `Settle`,
`RetrySettle`), of timers (`RetryTimer`), of recovery (`Boot`, `Recover`, `Listen`):
the event loop runs what is ready, and the service manager restarts the host
(`host/service.ts` installs it with automatic restart). No fairness of
`EndSend` alone: an agent may work for ever. Once the turn was cancelled or its provider stopped
after a failed write, `EndSend` is fair, and that is what `StopEndsTurn` of
`ProviderTurns` checks from the adapter's code. There is none for a host that is closing,
because close does not always end a starting turn (finding `close_hangs`).
Clients, renames, branch switches, failures and crashes have no fairness.

`ProviderTurns`: weak fairness of each await (the binary is resolved, the process
spawns, initialize is answered or times out after eight seconds), of a killed
process's death (SIGKILL follows after three seconds), of settlement and exit. None
for `Work`.

`SessionSync`: weak fairness of `Ask` (the timer starts a poll again after each,
failed or not) and of the steps of the live poll (every request has an answer or
fails in the end). None for the conversation, for other clients or for faults;
these are bounded, so the host's last revision stands and `Converges` says the
pane gets there.

`RemoteOutbox`, `Orchestration` and `Automations` state safety only. A command
in the outbox waits for the user, who may never press Retry; the lost wake-up of
the dispatcher is an invariant (`NoLostWakeup`) and needs no fairness.

## Proofs

The theorems are for every value of the constants, under the named assumptions of
the modules: `NoneIsNotAnId`, `NoneIsNotAReceipt` and `BoundsAreNat` for the host
(the placeholder is distinct, bounds are numbers); `NamesAssumption` for
`RemoteOutbox` (identifiers of creates and of turns differ and none is the
placeholder); `BlockAssumption` and `BoundsAssumption` for `SessionSync` (blocks are
finitely many positive numbers, the prompt among them, and bounds are numbers);
`TasksAssumption` and `BoundsAssumption` for `Orchestration` (tasks,
dispatches and requests are numbers, tasks and dispatches finitely many);
`BoundsAssumption` and `EventAssumption` for `Automations` (bounds are numbers, there is
time for a tick, events are finitely many and no numbers). Nor does a theorem rely on
the values of the runs: commands, sessions, panes, tasks, runs, events and faults may be
any number. `tlapm` checks each module.

- `HostEngine_proofs`: what each operator on session values returns (`...Type`)
  and leaves alone (`...Keeps`: run, turns, project, title), and `TypeCorrect`,
  `Spec => []TypeOK`, one lemma per action.
- `HostTurns_proofs`: the invariant of the turns. `TaskPerRunningTurn`,
  `SwitchExcludesTurns` and `HandedAtMostOnce` are not inductive. A settlement
  writes the live entry's value when events are waiting, so one must know that the entry
  is of the same turn as the row (`LiveAgrees`); `Recover` must know that no task
  is left (`MemoryOfProcess`); a prompt is handed over from `queued`, so one must
  know that a queued turn has not been handed (`QueuedNotHanded`), that a handed
  or recorded prompt has a receipt (`HandedAccepted`, `TurnsAccepted`), and that a
  session not yet created is blank (`AbsentIsBlank`). Their conjunction is
  `TurnInv`. Most actions neither begin nor end a turn; `QuietStep` treats them
  at once and the others have a lemma each.
  Theorems: `TurnInvariant`, `TasksMatchSessions`, `SwitchesExcludeTurns`,
  `PromptsHandedOnce`; from the same invariant `EngineImplementsLedger`,
  `Spec => LedgerSpec`: each action maps to `Accept`, `Hand`, `End` or a stutter; and
  `RevisionsTellChanges` and `UserTitlesStay`, action properties over every write
  of a session.
- `HostTranscript_proofs`: what transcripts hold. A value may be overwritten by an older
  one in two ways: the live value by a row and the row by the live value. So
  `ItemsInv` says of *both* values of a session that their open items belong to
  the turn that runs (`ValuesInv`), that the live one is the row while no
  event waits (`LiveIsWritten`), and that a request open in either was asked by its
  turn and is not answered yet (`Unanswered`); only accepted turns ask (`UsedByTurns`). Theorems: `ItemsInvariant`, `AnsweredOnce`,
  `ItemsOfTheTurn`, `PromptsInTranscript` and the action property `OutputStays`; and
  `LiveFollowsStore` (`LiveMirrorsStore`): the live entry is the row with the waiting
  events applied. A step that leaves events waiting has left the row's value alone and
  added one event at most (`WaitingStep`), and a replay of one event more is the replay
  with that event applied (`ReplayedAppend`). That what `Replayed` defines by recursion
  exists is an induction over the number of events, stated of a set of numbers
  (`Reaches`), since the library's induction takes an operator.
- `ProviderTurns_proofs`: `TurnsTypeCorrect` and `ProcessesOneByOne`. Where the
  processes of a session are depends on the stage of its turn (`Stages`), as long
  as the host is up and no write failed. The same invariant gives `CleanupAwaited`:
  without a failed write a session settles only when its process is gone. So a
  failed write is the only way into finding 2.
- `RemoteOutbox_proofs`: `OutboxTypeCorrect`, `PromptsRunOnce`,
  `RunsWhereItWasMeant`, `SentIsKept` and `RetryOffered`. The host keeps one turn for an identifier (`OneTurn`), so
  `PromptRunsOnce` needs that a message has one identifier *wherever* it is named:
  in local storage, in a pane's state, in a request, travelling, or accepted
  (`Known`, `OneIdentifier`). All steps but `submit` only repeat what is named
  already (`Quiet`), and `submit` takes a message nothing names (`Written`,
  `NewMessage`). `OutboxInv` is the conjunction. `RunsWhereMeant` needs in addition
  that each stored or travelling message is aimed at a session it was written for,
  and a first message at the one its entry creates (`AllAimed`); an entry saved
  again keeps its followup, and only a create has one, because no create has a
  turn's identifier (`SavedAimed`). `SentIsKept` (`KeptUntilKnown`) needs that a
  request whose receipt has arrived is among the host's turns and that a create
  past its first write has its message in an entry of its own (`KeptInv`).
  `RetryOffered` (`OfferedForRetry`) is about the state of a pane that is read before an
  await and looked up after it. `PanesInv` says that a pane creates one session at a
  time, stores that create until it opens the session, and does not show the session
  before (`OneCreate`); that it offers what was sent to the session it shows, or its own
  create, which no other pane offers (`OffersOwn`); that the session an answer is looked
  up for is the one shown, or everything else hides behind the message that was sent
  (`CallFollows`); and, for that exception to be true when a session is opened, that the
  message a create carries is the first written for its session (`InOrder`), which
  `tryAgain` keeps because a message shown in a pane was written for its session
  (`ShownThere`). Steps that store and send nothing are one lemma (`Settling`).
- `SessionSync_proofs`: `SyncInvariant`, `SyncTypeCorrect`, `PanesShowThePast` and the
  action property `PanesGoForward`. The idea is that a stamp names one value of a block: the host
  stamps each block it changes with the new revision, so whatever block was stamped no later
  than a pane's revision is in the pane's copy already. `Known` says of what a pane holds, or a
  poll asks from, that it is a conversation of the past (or its own draft ahead of
  one) and usable for a delta in this sense (`Usable`); `Good` says of every answer
  and every text in transfer that it becomes a conversation of the past, no older than what
  is shown, or makes the pane ask again; `PollsOK` says it of both polls through all their
  stages, and `ReceiptOK` that the draft whose answer is under way is in no conversation
  older than the answer. The past only grows, so what is good stays good while the host goes
  on (`SaveKnown`, `PollsLast`). That a transfer always finds an identifier is by
  counting (`UnusedIs`). The operators on sequences are sets and one filter, `Kept`,
  a recursive function whose value is characterised by induction over a set of
  numbers (`KeptIs`).
- `Orchestration_proofs`, in two layers. `RunTypeCorrect` (`TypeInv`) is for every
  behaviour, overtakings included. `RunInvariant` is for `~Overtakes`, as the
  safety run: with overtakings most of the promises are false (finding 4). Its
  `CoreInv` says what each part relies on. Nearly every step changes the run by
  `Save`, and a save that fails replaces the run in memory by a paused one with new
  stops and leaves the disk behind. So the run in memory must *fit* its stops
  (`Fit`: a task covered by a stop is not running in an active run, and one being cancelled
  has a stop), the disk alone must already name every live turn (`OnDisk`), and
  `FailedSave` shows that what a failed save leaves fits whenever the run to be
  saved did. What an operation read before an await must still be true when it is
  used: for the dispatcher (`Dispatching`), for `startRun` (`Resuming`), and for the
  lead's command (`Ordered`). `WakeInv` adds that every task that could start is
  still on the dispatcher's list or `again` is set, and that an active run has
  dispatches left for its queued tasks (the bound on dispatches is kept by the
  actions that queue one). Theorems: `WorkersApart`,
  `WorkersSaved`, `ResultsAreOwn`, `ResultsAreChecked`, `DelegatesOnce`,
  `CancellingStops`, `PumpWakes`, and `SettledStays`: the property that
  `orchestration_resurrects` refutes holds as soon as nothing overtakes an await,
  so overtakings are its only cause. With overtakings allowed TLC refutes
  `LiveWorkersApart`, `AuthoritySaved`, `OwnOutcome`, `NoUncheckedResult` and
  `NoLostWakeup` as well.
- `Automations_proofs`: the invariant `Inv` is `TypeInv`, `ScheduleInv`, `EventInv`,
  `LaunchInv` and `FreshInv`; the lemmas of an action are named for the part they keep. A run made from the
  schedule lies before the pointer and one made from an event has its event claimed
  (`Scheduled`, `Claimed`), hence `ClaimedOnce`; an event that was tried and did not
  fail is claimed (`EventInv`), hence `EventKept`. For `SubmittedOnce` one must know where a run
  is: in the hands of one pass, of the batch or of the recovery, or of one launch, and never of
  two (`OnceOnly`, `Distinct`), where a run that waits is pending and
  unsent and a launched one is as its stage says (`Fits`). The delicate step is the
  recovery, which takes whatever is old and unsettled, by age and not by who holds it:
  `FreshInv` says that until then the window holds only runs dated after the cutoff. It
  is true because windows follow one another in the model; two windows at once break it (see Findings).
  Theorems: `AutomationsInvariant`, `AutomationsTypeOK`, `OneRunEach`,
  `NoneLeftBehind`, `OnePromptEach`, `SessionsApart`, `EventsKept` and the action
  property `SettledForGood`: a step only makes runs or changes unsettled ones (`RunsStep`).

Every invariant, action property and refinement that a passing run checks is stated
by a theorem. Only model-checked: `EndedTurnSettles`, `StopEndsTurn` and `Converges`,
which are liveness under fairness and beyond the prover, and the four properties that
the runs refute.

## Findings

1. **A late cancel drops the next prompt** (`stale_cancel`). A cancel is accepted
   until a turn is settled, that is, also while `provider.stop` is awaited. By
   then `stopClaudeSession` has removed the live entry and cleared the marker, so
   `cancelClaudeTurn` sets the marker again and nothing clears it. The next
   turn's send sees it and returns without writing the prompt; the turn ends
   idle without a message. `devin.ts:186` names this very case and avoids it.
2. **An un-awaited stop defeats the cleanup barrier** (`cleanup_race`). After a
   failed write the engine stops the provider without waiting; `kill` removes the
   child from the table first, so the turn's own stop returns at once and the
   session settles while the old process is alive. The comment at
   `engine.ts:823` promises otherwise.
3. **Stopping the host can miss a starting turn** (`close_hangs`). A stop that arrives
   while the adapter is starting its process is lost, and `close` waits for the
   turn to end by itself; `docs/remote-access.md:81` says that stopping interrupts
   active turns.
4. **The dispatcher revives a settled worker** (`orchestration_resurrects`). `pump`
   reads the run, awaits `store.scopes` and commits what it read
   (`orchestration.ts:1548-1575`). A cancel, block, pause or stop that ends the
   task during the await is undone: the task is running again under its settled
   dispatch, and its prompt is submitted. The comment in `pause`
   (`orchestration.ts:1831`) warns of exactly this.

Met while modelling, and not shown by a run:

- *Orchestration.* The final commits of `cancelTask`, `interruptTask` and `blockTask`
  write the task's record after `host.stop` without looking at it again, and
  `startRun` computes the resumed tasks before `await host.stop(lead)`; `Overtakes`
  covers both. `pause` marks the run paused first, and until its task is interrupted `observe` ignores
  writes and `settle` does not look at the run's status, so a write outside the
  task's files in that window goes unchecked. `retry` checks its dependents before
  `await store.scopes`, and `cancel` of an accepted task does not check them at all.
  A task cancelled while `createWorker` runs leaves its worktree behind.
- *Automations.* `automationRecoveryCutoffRef` is the time a window opened. A
  second window therefore recovers the first one's runs although that one is alive:
  running ones are cancelled as "Interrupted when MonoCode last stopped." and
  pending ones launched a second time. Runs claimed by a pass that was
  disposed are dropped (`if (disposed) break;`) and stay pending until a restart,
  whose recovery ignores the grace period. Items that appear while recovery fails
  never reach the queue of events. Two runs claimed in one pass have the same
  `created_at`, so the older one's outcome may replace the newer one's in the summary.
- *Outbox.* `retryPending` clears `starting.failed`, and nothing sets it again when
  the retry is rejected: the pane stays busy until it is mounted anew. A first
  request that travels long enough may be accepted after its retry was rejected,
  so a message the user was told was turned down can still run. When two panes
  wait for the same session, Retry of a create may send the other pane's later message
  (`RemoteSession.tsx:608-616`, `1024-1036` look the session's entries up by session),
  and the earlier one is then not offered for retry: `OfferedForRetry` excepts it.
- *Sync.* If the answer to a draft comes after a sync in which the draft is already
  gone, the pane adds it again under the same revision, and "unchanged" answers
  keep it there until the conversation next changes.

## What is left out

Host: device tokens, pairing and rate limits; attachments; model settings; the
generated branch name of automatic worktrees; the read cache of the store
(it mirrors a table and is dropped whenever a transaction fails); the events
table; reads that fail; the text of messages. An adapter's `cancel` does not reject in the
model, as no adapter's does today. Two approvals attached to the same tool block
replace each other in the transcript; the model keeps both open.

Outbox: commands other than create and send (draft, compact, configure, cancel, approve,
answer take the same path and have no followup), uploads and worktree creation
before a command, local storage that is full, a second window. Sync: sizes, how a
text is cut, previews, sessions that are deleted. Orchestration: `steer`,
`respond` and `answer`, which change no task; the delivery of results to the lead
and its continuations; plans; worktrees and the integration of changes; deletion.
Automations: several automations and windows, calendars, the matching of events.

Everything the inventory's last rows name: user-interface state without
concurrency of its own, clients of external services, Git and file-system I/O.
The application is large (most of it React components and Rust commands over
files), and the modelled modules are where its processes meet.

## Plan

1. Done: `HostSession`, `HostEngine`, `TurnLedger`, `ProviderTurns` and the
   theorems above; `Orchestration`, `RemoteOutbox`, `SessionSync`, `Automations`.
2. Done: theorems for `RemoteOutbox`, `Orchestration`, `Automations` and
   `SessionSync`; no safety property is left without one.
3. Later candidates: uploads in chunks, the local message queue, tunnels by
   generation, the mobile link with the desktop's deduplication, two windows that
   share the automations.

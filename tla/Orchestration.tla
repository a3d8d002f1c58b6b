---------------------------- MODULE Orchestration ----------------------------
(***************************************************************************)
(* Orchestration of worker conversations                                   *)
(* (features/orchestration/model/orchestration.ts, class Orchestrator).    *)
(*                                                                         *)
(* One lead conversation and its run.  The run lives in memory and is      *)
(* saved as a whole; the operations that change it (pump, settle, the      *)
(* lead's commands, cancelTask, interruptTask, blockTask, pause, stopRun,  *)
(* startRun) are asynchronous functions of one thread: each await is a     *)
(* point where another operation may run, and what was read before it may  *)
(* be stale after it.  The actions below are the stretches between two     *)
(* awaits.                                                                 *)
(*                                                                         *)
(* A commit of something stale undoes what others did meanwhile.  Three     *)
(* commits can do that; overtaken records it, and most properties speak of *)
(* a run to which it has not happened.                                     *)
(*                                                                         *)
(* A commit and its save are one step (Save).  Saves are queued first in,  *)
(* first out, and an operation acts outside only after its own save, so a  *)
(* stop of the program between the two looks like one before the commit.   *)
(***************************************************************************)
EXTENDS Naturals, FiniteSets, FiniteSetsExt

CONSTANTS
    Task,           \* 1..n, in the order they are delegated
    Dispatch,       \* 1..n: identifiers of dispatches (bound)
    Request,        \* request ids of the lead's control commands, 1..n
    Shared,         \* pairs {t, u} of tasks whose file scopes overlap
    MaxWorkers,
    MaxUpsets       \* failed saves, reloads, failed turns of the lead, failed
                    \* preparations and stops by the user, together (bound)

ASSUME TasksAssumption ==
    /\ Task \subseteq Nat \ {0} /\ IsFiniteSet(Task)
    /\ Dispatch \subseteq Nat \ {0} /\ IsFiniteSet(Dispatch)
    /\ Request \subseteq Nat \ {0}
    /\ Shared \subseteq SUBSET Task
ASSUME BoundsAssumption == MaxWorkers \in Nat /\ MaxUpsets \in Nat

None == 0

VARIABLES
    run,        \* the run in memory
    saved,      \* the run in the database
    stops,      \* host.stop calls in progress, with what follows each
    faults,     \* saves that have failed
    pump,       \* the dispatcher: where it is and what it read
    again,      \* pumpAgain
    order,      \* the lead's command at the head of the actions chain
    starting,   \* the run startRun will commit, NoRun when it is not running
    pausing,    \* tasks the loop of pause has yet to interrupt
    owner,      \* the task of each dispatch
    turn,       \* the worker's turn of each dispatch, as it really is
    settling,   \* settle, called with the outcome of each dispatch
    write,      \* what became of a write reported by each dispatch's worker
    upsets,     \* how often something else upset the run
    overtaken   \* history: a commit has undone what others did meanwhile

disk == <<run, saved, stops, faults>>
pumping == <<pump, again>>
workers == <<turn, settling, write>>
vars == <<disk, pumping, order, starting, pausing, owner, workers, upsets,
          overtaken>>

TaskStatus == {"absent", "queued", "running", "cancelling", "completed",
               "failed", "blocked", "interrupted", "cancelled"}
\* Mutant: a word for the new task that nothing else knows.
CreatedPending(deps, r) ==
    [status |-> "pending", active |-> None, last |-> None, accepted |-> FALSE,
     deps |-> deps, by |-> r]
Created(deps, r) ==
    [status |-> "queued", active |-> None, last |-> None, accepted |-> FALSE,
     deps |-> deps, by |-> r]
Absent == [status |-> "absent", active |-> None, last |-> None,
           accepted |-> FALSE, deps |-> {}, by |-> None]
NoRun == [status |-> "none", task |-> [t \in Task |-> Absent],
          requests |-> {}]
NoOrder == [op |-> "none", task |-> None, deps |-> {}, request |-> None]
IdlePump == [stage |-> "idle", todo |-> {}, task |-> None,
             dispatch |-> None, seen |-> NoRun]

RunType ==
    [status : {"none", "active", "paused", "stopped", "finished"},
     task : [Task -> [status : TaskStatus,
                      active : Dispatch \cup {None}, last : Dispatch \cup {None},
                      accepted : BOOLEAN, deps : SUBSET Task, by : Request \cup {None}]],
     requests : SUBSET Request]
StopType ==
    [kind : {"cancel", "userCancel", "interrupt", "block", "unsaved", "run"},
     tasks : SUBSET Task, dispatch : Dispatch \cup {None}, done : BOOLEAN]

TypeOK ==
    /\ run \in RunType /\ saved \in RunType /\ starting \in RunType
    /\ stops \subseteq StopType
    /\ faults \in 0..MaxUpsets /\ upsets \in 0..MaxUpsets
    /\ pump \in [stage : {"idle", "scan", "create", "scopes", "submit"},
                 todo : SUBSET Task, task : Task \cup {None},
                 dispatch : Dispatch \cup {None}, seen : RunType]
    /\ again \in BOOLEAN
    /\ order \in [op : {"none", "delegate", "retry", "cancel", "review"},
                  task : Task \cup {None}, deps : SUBSET Task,
                  request : Request \cup {None}]
    /\ pausing \subseteq Task
    /\ owner \in [Dispatch -> Task \cup {None}]
    /\ turn \in [Dispatch -> {"none", "live", "completed", "failed", "stopped"}]
    /\ settling \in [Dispatch -> {"no", "waiting", "over"}]
    /\ write \in [Dispatch -> {"none", "checking", "bad", "missed"}]
    /\ overtaken \in BOOLEAN

Init ==
    /\ run = NoRun /\ saved = NoRun /\ starting = NoRun
    /\ stops = {} /\ faults = 0 /\ upsets = 0
    /\ pump = IdlePump /\ again = FALSE
    /\ order = NoOrder /\ pausing = {}
    /\ owner = [d \in Dispatch |-> None]
    /\ turn = [d \in Dispatch |-> "none"]
    /\ settling = [d \in Dispatch |-> "no"]
    /\ write = [d \in Dispatch |-> "none"]
    /\ overtaken = FALSE

-----------------------------------------------------------------------------
(* Helpers *)

activeTask(k) == k.status \in {"running", "cancelling"}
ActiveTasks(r) == {t \in Task : activeTask(r.task[t])}
\* Mutant: the dispatch is not compared.
RunningAny(t, d) == run.task[t].status = "running" /\ d \in Dispatch
Running(t, d) == run.task[t].status = "running" /\ run.task[t].active = d

Used == {d \in Dispatch : owner[d] # None}
\* Bound: every queued task has a dispatch id left for it.
Affordable(r) ==
    Cardinality({t \in Task : r.task[t].status = "queued"})
        <= Cardinality(Dispatch \ Used)

\* The task's record once its turn is over, however it ended.
Ended(k, status, d) ==
    [k EXCEPT !.status = status, !.active = None, !.accepted = FALSE,
              !.last = IF d = None THEN @ ELSE d]
Queued(k) ==
    [k EXCEPT !.status = "queued", !.active = None, !.accepted = FALSE]

\* The turn a task has, or had last.
LatestTurn(k) == IF k.active # None THEN k.active ELSE k.last

StopOf(kind, t) ==
    [kind |-> kind, tasks |-> {t}, dispatch |-> run.task[t].active, done |-> FALSE]

Upsettable == faults + upsets < MaxUpsets
Upset == Upsettable /\ upsets' = upsets + 1

\* Mutant: nothing is stopped when the save fails.
SaveNoStops(next, ok, ko) ==
    \/ run' = next /\ saved' = next /\ stops' = ok /\ UNCHANGED faults
    \/ /\ Upsettable /\ faults' = faults + 1 /\ stops' = ko /\ UNCHANGED saved
       /\ run' = [next EXCEPT
             !.status = "paused",
             !.task = [t \in Task |-> IF activeTask(@[t])
                                      THEN [@[t] EXCEPT !.status = "cancelling"]
                                      ELSE @[t]]]

\* commit: memory first, then the save.  When the save fails the run is
\* paused and every active worker stopped.  "ok" and "ko" are the stops in
\* progress afterwards.
Save(next, ok, ko) ==
    \/ /\ run' = next /\ saved' = next /\ stops' = ok
       /\ UNCHANGED faults
    \/ /\ Upsettable
       /\ faults' = faults + 1
       /\ run' = [next EXCEPT
             !.status = "paused",
             !.task = [t \in Task |-> IF activeTask(@[t])
                                      THEN [@[t] EXCEPT !.status = "cancelling"]
                                      ELSE @[t]]]
       /\ stops' = ko \cup {[kind |-> "unsaved", tasks |-> {t},
                             dispatch |-> next.task[t].active, done |-> FALSE]
                            : t \in ActiveTasks(next)}
       /\ UNCHANGED saved
Saved == faults' = faults

\* Mutant: a call is lost while a pass is under way.
CallPumpOnce ==
    IF pump.stage = "idle"
    THEN /\ pump' = [IdlePump EXCEPT !.stage = "scan",
                                     !.todo = {t \in Task : run'.task[t].status # "absent"}]
         /\ UNCHANGED again
    ELSE UNCHANGED pumping

\* A call of pump: a pass over the tasks of now, or one more pass later.
CallPump ==
    IF pump.stage = "idle"
    THEN /\ pump' = [IdlePump EXCEPT !.stage = "scan",
                                     !.todo = {t \in Task : run'.task[t].status # "absent"}]
         /\ UNCHANGED again
    ELSE again' = TRUE /\ UNCHANGED pump

\* Three commits rely on what was read before an await without reading it
\* again: with the scopes of a new worker (pump), of a resumed run (startRun),
\* and at the end of each operation that stops a task, which writes off the
\* task's turn whether it is the one it stopped or a later one.
Overtaken(undone) == overtaken' = (overtaken \/ undone)
OtherTurn(s) == \E t \in s.tasks : LatestTurn(run.task[t]) # s.dispatch

-----------------------------------------------------------------------------
(* Starting and resuming *)

\* Only a paused run is resumed, and only when its workers have stopped.
Startable ==
    (run.status = "paused" \/ saved.status = "none") /\ ActiveTasks(run) = {}

\* The next run: a resume continues the previous one, a new run replaces it.
Resumption ==
    [(IF run.status = "paused"
      THEN [run EXCEPT !.task = [t \in Task |->
               IF @[t].status = "interrupted" THEN Queued(@[t]) ELSE @[t]]]
      ELSE NoRun) EXCEPT !.status = "active"]

\* startRun computes the next run, and awaits host.stop(leadId) ...
startRun ==
    /\ starting = NoRun /\ Startable
    /\ starting' = Resumption
    /\ Affordable(starting')
    /\ UNCHANGED <<disk, pumping, order, pausing, owner, workers, upsets, overtaken>>

\* ... before it commits that run.  It is overtaken when the run has changed,
\* and when an operation is under way that will write over the resumed run.
startRunCommit ==
    /\ starting # NoRun
    /\ Save(starting, stops, stops)
    /\ Overtaken(~Startable \/ starting # Resumption \/ stops # {} \/ pausing # {})
    /\ starting' = NoRun
    /\ CallPump
    /\ UNCHANGED <<order, pausing, owner, workers, upsets>>

-----------------------------------------------------------------------------
(* pump *)

\* Mutant: a worker being stopped is taken for a stopped one.
ReadyBeside(r, t) ==
    /\ r.status = "active" /\ r.task[t].status = "queued"
    /\ \A u \in r.task[t].deps : r.task[u].accepted
    /\ \A u \in Task : r.task[u].status = "running" => {t, u} \notin Shared
    /\ Cardinality(ActiveTasks(r)) < MaxWorkers
\* Its dependencies are accepted, no active task has its files, and there is
\* a worker left.
Ready(r, t) ==
    /\ r.status = "active" /\ r.task[t].status = "queued"
    /\ \A u \in r.task[t].deps : r.task[u].accepted
    /\ \A u \in ActiveTasks(r) : {t, u} \notin Shared
    /\ Cardinality(ActiveTasks(r)) < MaxWorkers

NextTask == pump' = [IdlePump EXCEPT !.stage = "scan", !.todo = pump.todo]

\* The first task of the pass that may start is recorded as running, with a
\* new dispatch; with none left the pass is over.
pumpDispatch ==
    /\ pump.stage = "scan" /\ Dispatch # Used
    /\ \E u \in pump.todo : Ready(run, u)
    /\ LET t == Min({u \in pump.todo : Ready(run, u)})
           d == Min(Dispatch \ Used)
       IN  /\ Save([run EXCEPT !.task[t].status = "running", !.task[t].active = d],
                   stops, stops)
           /\ owner' = [owner EXCEPT ![d] = t]
           /\ pump' = IF Saved
                      THEN [stage |-> "create", todo |-> {u \in pump.todo : u > t},
                            task |-> t, dispatch |-> d, seen |-> NoRun]
                      ELSE IdlePump
           /\ again' = (again /\ Saved)
    /\ UNCHANGED <<order, starting, pausing, workers, upsets, overtaken>>

pumpEnds ==
    /\ pump.stage = "scan"
    /\ Dispatch = Used \/ \A u \in pump.todo : ~Ready(run, u)
    /\ pump' = IF again
               THEN [IdlePump EXCEPT !.stage = "scan",
                                     !.todo = {t \in Task : run.task[t].status # "absent"}]
               ELSE IdlePump
    /\ again' = FALSE
    /\ UNCHANGED <<disk, order, starting, pausing, owner, workers, upsets, overtaken>>

\* createWorker answered: the run is read, and its scopes are awaited.
pumpCreated ==
    /\ pump.stage = "create"
    /\ IF run.status = "active" /\ run.task[pump.task].status = "running"
       THEN pump' = [pump EXCEPT !.stage = "scopes", !.seen = run]
       ELSE NextTask
    /\ UNCHANGED <<disk, again, order, starting, pausing, owner, workers, upsets,
                   overtaken>>

\* createWorker or store.scopes threw: settle(failed) without a turn.
pumpFailed ==
    /\ Upset
    /\ pump.stage \in {"create", "scopes"}
    /\ turn' = [turn EXCEPT ![pump.dispatch] = "failed"]
    /\ NextTask
    /\ UNCHANGED <<disk, again, order, starting, pausing, owner, settling, write,
                   overtaken>>

\* The run read before the await is committed, with the worker's workspace.
pumpPrepared ==
    /\ pump.stage = "scopes"
    /\ Save(pump.seen, stops, stops)
    /\ Overtaken(run # pump.seen)
    /\ IF Saved THEN pump' = [pump EXCEPT !.stage = "submit", !.seen = NoRun]
                ELSE NextTask
    /\ UNCHANGED <<again, order, starting, pausing, owner, workers, upsets>>

\* Mutant: the task is not looked at again after the save.
pumpSubmitUnchecked ==
    /\ pump.stage = "submit"
    /\ turn' = [turn EXCEPT ![pump.dispatch] = "live"]
    /\ NextTask
    /\ UNCHANGED <<disk, again, order, starting, pausing, owner, settling, write,
                   upsets, overtaken>>

\* The worker gets its turn, unless its conversation is in one already.
pumpSubmit ==
    /\ pump.stage = "submit"
    /\ IF run.status = "active" /\ run.task[pump.task].status = "running"
       THEN turn' = [turn EXCEPT ![pump.dispatch] =
                        IF \E d \in Used : owner[d] = pump.task /\ turn[d] = "live"
                        THEN "failed" ELSE "live"]
       ELSE UNCHANGED turn
    /\ NextTask
    /\ UNCHANGED <<disk, again, order, starting, pausing, owner, settling, write,
                   upsets, overtaken>>

-----------------------------------------------------------------------------
(* Workers: what they report, and settle *)

TurnEnds(d) ==
    /\ turn[d] = "live"
    /\ \E outcome \in {"completed", "failed"} : turn' = [turn EXCEPT ![d] = outcome]
    /\ UNCHANGED <<disk, pumping, order, starting, pausing, owner, settling, write,
                   upsets, overtaken>>

\* observe: a reported write is checked when its task runs in an active run,
\* and is charged to the task's current dispatch.  Any other is ignored.
observe(d) ==
    /\ turn[d] = "live"
    /\ LET k == run.task[owner[d]] IN
       IF run.status = "active" /\ k.status = "running"
       THEN /\ write[k.active] = "none"
            /\ write' = [write EXCEPT ![k.active] = "checking"]
       ELSE /\ write[d] = "none"
            /\ write' = [write EXCEPT ![d] = "missed"]
    /\ UNCHANGED <<disk, pumping, order, starting, pausing, owner, turn, settling,
                   upsets, overtaken>>

\* The path of the write is resolved: in scope, or the task is blocked.  A
\* path that cannot be resolved blocks the task too.
writeInScope(d) ==
    /\ write[d] = "checking"
    /\ write' = [write EXCEPT ![d] = "none"]
    /\ UNCHANGED <<disk, pumping, order, starting, pausing, owner, turn, settling,
                   upsets, overtaken>>

blockTask(d) ==
    LET t == owner[d] IN
    /\ write[d] = "checking"
    /\ IF run.status = "active" /\ Running(t, d)
       THEN /\ Save([run EXCEPT !.task[t].status = "cancelling"],
                    stops \cup {StopOf("block", t)}, stops)
            /\ write' = [write EXCEPT ![d] = "bad"]
       ELSE write' = [write EXCEPT ![d] = "none"] /\ UNCHANGED disk
    /\ UNCHANGED <<pumping, order, starting, pausing, owner, turn, settling,
                   upsets, overtaken>>

\* settle up to the write checks: outcomes of a dispatch that is no longer
\* the task's own, or of a task being stopped, are dropped.
settle(d) ==
    /\ turn[d] \in {"completed", "failed", "stopped"} /\ settling[d] = "no"
    /\ settling' = [settling EXCEPT ![d] =
                       IF Running(owner[d], d) THEN "waiting" ELSE "over"]
    /\ UNCHANGED <<disk, pumping, order, starting, pausing, owner, turn, write,
                   upsets, overtaken>>

\* Mutant: the checks are not awaited.
UncheckedNever(d) == write[d] = "pending"
Unchecked(d) == write[d] = "checking"

\* After the checks the task is read again.
settleCommit(d) ==
    LET t == owner[d]
        status == IF turn[d] = "stopped" THEN "cancelled" ELSE turn[d]
    IN  /\ settling[d] = "waiting" /\ ~Unchecked(d)
        /\ settling' = [settling EXCEPT ![d] = "over"]
        /\ IF Running(t, d)
           THEN /\ Save([run EXCEPT !.task[t] = Ended(@, status, d)], stops, stops)
                /\ CallPump
           ELSE UNCHANGED <<disk, pumping>>
        /\ UNCHANGED <<order, starting, pausing, owner, turn, write, upsets, overtaken>>

-----------------------------------------------------------------------------
(* Stopping a task *)

\* cancelTask: an active task is marked and its worker stopped; another one
\* is cancelled at once.
Cancel(t, kind) ==
    IF activeTask(run.task[t])
    THEN /\ Save([run EXCEPT !.task[t].status = "cancelling"],
                 stops \cup {StopOf(kind, t)}, stops)
         /\ UNCHANGED pumping
    ELSE /\ Save([run EXCEPT !.task[t] = Ended(@, "cancelled", None)], stops, stops)
         /\ CallPump

\* host.stop: the worker's turn is over, and the operation may go on.
stop(s) ==
    /\ s \in stops /\ ~s.done
    /\ turn' = [d \in Dispatch |-> IF turn[d] = "live" /\ owner[d] \in s.tasks
                                   THEN "stopped" ELSE turn[d]]
    /\ stops' = (stops \ {s}) \cup {[s EXCEPT !.done = TRUE]}
    /\ UNCHANGED <<run, saved, faults, pumping, order, starting, pausing, owner,
                   settling, write, upsets, overtaken>>

\* What follows: the task's record is written whatever it has become.
cancelTaskStopped(s) ==
    /\ s \in stops /\ s.done /\ s.kind \in {"cancel", "userCancel"}
    /\ \E t \in s.tasks :
          Save([run EXCEPT !.task[t] = Ended(@, "cancelled", s.dispatch)],
               stops \ {s}, stops \ {s})
    /\ CallPump
    /\ order' = IF s.kind = "cancel" THEN NoOrder ELSE order
    /\ Overtaken(OtherTurn(s))
    /\ UNCHANGED <<starting, pausing, owner, workers, upsets>>

blockTaskStopped(s) ==
    /\ s \in stops /\ s.done /\ s.kind = "block"
    /\ \E t \in s.tasks :
          Save([run EXCEPT !.task[t] = Ended(@, "blocked", s.dispatch)],
               stops \ {s}, stops \ {s})
    /\ CallPump
    /\ Overtaken(OtherTurn(s))
    /\ UNCHANGED <<order, starting, pausing, owner, workers, upsets>>

interruptTaskStopped(s) ==
    /\ s \in stops /\ s.done /\ s.kind = "interrupt"
    /\ \E t \in s.tasks :
          Save([run EXCEPT !.task[t] = Ended(@, "interrupted", s.dispatch)],
               stops \ {s}, stops \ {s})
    /\ pausing' = IF Saved THEN pausing ELSE {}
    /\ Overtaken(OtherTurn(s))
    /\ UNCHANGED <<pumping, order, starting, owner, workers, upsets>>

\* After a failed save the record is changed in memory only.
unsavedStopped(s) ==
    /\ s \in stops /\ s.done /\ s.kind = "unsaved"
    /\ run' = [run EXCEPT !.task = [t \in Task |->
                  IF t \in s.tasks /\ activeTask(@[t])
                  THEN Ended(@[t], "interrupted", @[t].active) ELSE @[t]]]
    /\ stops' = stops \ {s}
    /\ Overtaken(OtherTurn(s))
    /\ UNCHANGED <<saved, faults, pumping, order, starting, pausing, owner,
                   workers, upsets>>

\* stopForSession of a worker: the user stops it from its own conversation.
userStops(t) ==
    /\ Upset
    /\ run.status \in {"active", "paused"} \/ ActiveTasks(run) # {}
    /\ run.task[t].status \notin {"absent", "cancelled"}
    /\ ~\E s \in stops : s.kind = "userCancel" /\ t \in s.tasks
    /\ Cancel(t, "userCancel")
    /\ UNCHANGED <<order, starting, pausing, owner, workers, overtaken>>

-----------------------------------------------------------------------------
(* Pausing and stopping the run *)

\* pause, when a turn of the lead fails or its continuations are used up: the
\* run first, then its running tasks one after the other.
pause ==
    /\ run.status = "active" /\ Upset
    /\ Save([run EXCEPT !.status = "paused"], stops, stops)
    /\ pausing' = IF Saved THEN {t \in Task : run.task[t].status = "running"} ELSE pausing
    /\ UNCHANGED <<pumping, order, starting, owner, workers, overtaken>>

interruptTask(t) ==
    /\ t \in pausing
    /\ \A u \in pausing : t <= u
    /\ \A s \in stops : s.kind # "interrupt"
    /\ IF run.task[t].status = "running"
       THEN /\ Save([run EXCEPT !.task[t].status = "cancelling"],
                    stops \cup {StopOf("interrupt", t)}, stops)
            /\ pausing' = IF Saved THEN pausing \ {t} ELSE {}
       ELSE pausing' = pausing \ {t} /\ UNCHANGED disk
    /\ UNCHANGED <<pumping, order, starting, owner, workers, upsets, overtaken>>

\* stopRun goes on when its save fails.
stopRun ==
    /\ Upset
    /\ run.status \in {"active", "paused"} \/ ActiveTasks(run) # {}
    /\ run.status # "none"
    /\ \A s \in stops : s.kind # "run"
    /\ LET all == [kind |-> "run", tasks |-> ActiveTasks(run), dispatch |-> None,
                   done |-> FALSE]
       IN  Save([run EXCEPT !.status = "stopped"], stops \cup {all}, stops \cup {all})
    /\ UNCHANGED <<pumping, order, starting, pausing, owner, workers, overtaken>>

stopRunStopped(s) ==
    /\ s \in stops /\ s.done /\ s.kind = "run"
    /\ Save([run EXCEPT !.status = "stopped",
                        !.task = [t \in Task |->
                            IF activeTask(@[t]) \/ @[t].status = "queued"
                            THEN Ended(@[t], "cancelled", @[t].active)
                            ELSE @[t]]],
            stops \ {s}, stops \ {s})
    /\ UNCHANGED <<pumping, order, starting, pausing, owner, workers, upsets,
                   overtaken>>

-----------------------------------------------------------------------------
(* The lead's commands: handle and execute, one at a time *)

\* Commands are executed one at a time, and only while the run is active.
handle ==
    order = NoOrder /\ run.status = "active"

\* No task that depends on this one has started.
Untouched(t) ==
    \A u \in Task : t \in run.task[u].deps =>
        run.task[u].status \in {"absent", "queued", "cancelled"}
Restartable(t) ==
    /\ run.task[t].status \notin {"absent", "queued", "running", "cancelling"}
    /\ Untouched(t)

Begin(op, t) == order' = [NoOrder EXCEPT !.op = op, !.task = t]

\* A request that has a receipt is answered from it.  (Bound: ids in order.)
delegate(deps, r) ==
    /\ handle /\ r \notin saved.requests /\ \A q \in Request : q < r => q \in saved.requests
    /\ \A u \in deps : run.task[u].status \notin {"absent", "cancelled"}
    /\ order' = [op |-> "delegate", task |-> None, deps |-> deps, request |-> r]
    /\ UNCHANGED <<disk, pumping, starting, pausing, owner, workers, upsets,
                   overtaken>>

\* The task that is added next.  (Bound: there is one left.)
Added(t) ==
    run.task[t].status = "absent" /\ \A u \in Task : u < t => run.task[u].status # "absent"

\* Mutant: the receipt is not part of what is saved.
delegateWithoutReceipt ==
    /\ order.op = "delegate"
    /\ \E t \in Task :
          LET next == [run EXCEPT !.task[t] = Created(order.deps, order.request)]
          IN  Added(t) /\ Affordable(next) /\ Save(next, stops, stops)
    /\ order' = NoOrder /\ CallPump
    /\ UNCHANGED <<starting, pausing, owner, workers, upsets, overtaken>>

\* The new task and the receipt are saved together.
delegateRecord ==
    /\ order.op = "delegate"
    /\ \E t \in Task :
          LET next == [run EXCEPT !.task[t] = Created(order.deps, order.request),
                                  !.requests = @ \cup {order.request}]
          IN  Added(t) /\ Affordable(next) /\ Save(next, stops, stops)
    /\ order' = NoOrder /\ CallPump
    /\ UNCHANGED <<starting, pausing, owner, workers, upsets, overtaken>>

Requeue(t) ==
    LET next == [run EXCEPT !.task[t] = Queued(@)]
    IN  Affordable(next) /\ Save(next, stops, stops)

message(t) ==
    /\ handle /\ Restartable(t)
    /\ Requeue(t) /\ CallPump
    /\ UNCHANGED <<order, starting, pausing, owner, workers, upsets, overtaken>>

\* retry resolves the new scopes between its checks and its commit.
retry(t) ==
    /\ handle /\ Restartable(t)
    /\ Begin("retry", t)
    /\ UNCHANGED <<disk, pumping, starting, pausing, owner, workers, upsets,
                   overtaken>>

retryRecord ==
    /\ order.op = "retry"
    /\ Requeue(order.task)
    /\ order' = NoOrder /\ CallPump
    /\ UNCHANGED <<starting, pausing, owner, workers, upsets, overtaken>>

cancel(t) ==
    /\ handle /\ run.task[t].status # "absent"
    /\ IF run.task[t].status = "cancelled"
       THEN /\ Save(run, stops, stops)
            /\ CallPump /\ UNCHANGED order
       ELSE IF activeTask(run.task[t])
       THEN /\ Cancel(t, "cancel")
            /\ IF Saved THEN Begin("cancel", t) ELSE UNCHANGED order
       ELSE /\ Save([run EXCEPT !.task[t] = Ended(@, "cancelled", None)], stops, stops)
            /\ CallPump /\ UNCHANGED order
    /\ UNCHANGED <<starting, pausing, owner, workers, upsets, overtaken>>

\* review integrates the worker's changes and accepts what it was given.
review(t) ==
    /\ handle /\ run.task[t].status = "completed" /\ ~run.task[t].accepted
    /\ Begin("review", t)
    /\ UNCHANGED <<disk, pumping, starting, pausing, owner, workers, upsets,
                   overtaken>>

reviewRecord ==
    /\ order.op = "review"
    /\ \/ Save([run EXCEPT !.task[order.task].accepted = TRUE], stops, stops)
       \/ UNCHANGED disk                \* the changes could not be integrated
    /\ order' = NoOrder /\ CallPump
    /\ UNCHANGED <<starting, pausing, owner, workers, upsets, overtaken>>

finish ==
    /\ handle
    /\ \A t \in Task : run.task[t].status \in {"absent", "cancelled"} \/ run.task[t].accepted
    /\ Save([run EXCEPT !.status = "finished"], stops, stops)
    /\ CallPump
    /\ UNCHANGED <<order, starting, pausing, owner, workers, upsets, overtaken>>

-----------------------------------------------------------------------------
(* Reload and restart *)

\* The window is reloaded: memory and callbacks are lost, processes may live on.
reload ==
    /\ run.status # "none" /\ Upset
    /\ run' = NoRun /\ starting' = NoRun /\ stops' = {} /\ pausing' = {}
    /\ pump' = IdlePump /\ again' = FALSE /\ order' = NoOrder
    /\ settling' = [d \in Dispatch |-> IF d \in Used THEN "over" ELSE settling[d]]
    /\ write' = [d \in Dispatch |-> IF write[d] = "checking" THEN "none" ELSE write[d]]
    /\ UNCHANGED <<saved, faults, owner, turn, overtaken>>

\* hydrate stops what the saved run says is running, and pauses it.
hydrate ==
    /\ run.status = "none" /\ saved.status # "none"
    /\ turn' = [d \in Dispatch |->
                  IF turn[d] = "live" /\ owner[d] \in ActiveTasks(saved)
                  THEN "stopped" ELSE turn[d]]
    /\ Save([saved EXCEPT
                !.status = IF @ = "active" THEN "paused" ELSE @,
                !.task = [t \in Task |->
                    IF activeTask(@[t]) THEN Ended(@[t], "interrupted", @[t].active)
                    ELSE @[t]]],
            stops, stops)
    /\ UNCHANGED <<pumping, order, starting, pausing, owner, settling, write,
                   upsets, overtaken>>

-----------------------------------------------------------------------------
Awaited ==
    \/ startRunCommit \/ pumpCreated \/ pumpPrepared
    \/ pumpSubmit \/ delegateRecord \/ retryRecord \/ reviewRecord
    \/ \E d \in Dispatch : settle(d) \/ settleCommit(d) \/ writeInScope(d) \/ blockTask(d)
    \/ \E t \in Task : interruptTask(t)
    \/ \E s \in stops : stop(s) \/ cancelTaskStopped(s) \/ blockTaskStopped(s)
                        \/ interruptTaskStopped(s) \/ unsavedStopped(s) \/ stopRunStopped(s)
Commands ==
    \/ finish
    \/ \E r \in Request, deps \in SUBSET Task : delegate(deps, r)
    \/ \E t \in Task : message(t) \/ retry(t) \/ cancel(t) \/ review(t)
Environment ==
    \/ startRun \/ stopRun \/ pause
    \/ pumpFailed \/ reload \/ hydrate
    \/ \E d \in Dispatch : TurnEnds(d) \/ observe(d)
    \/ \E t \in Task : userStops(t)

\* A pass of pump runs to its next await at once.
Next ==
    \/ pumpDispatch \/ pumpEnds
    \/ pump.stage # "scan" /\ (Awaited \/ Commands \/ Environment)
Spec == Init /\ [][Next]_vars

-----------------------------------------------------------------------------
(* Properties *)

Live == {d \in Dispatch : turn[d] = "live"}

\* Workers that are really working never share files, never are two in one
\* conversation and never more than the run allows, whatever was cancelled,
\* blocked, paused or retried meanwhile, until a commit undoes changes it did
\* not know of (pump: "Workers with overlapping files are queued").
LiveWorkersApart ==
    ~overtaken =>
        /\ Cardinality(Live) <= MaxWorkers
        /\ \A d, e \in Live : d # e => owner[d] # owner[e] /\ {owner[d], owner[e]} \notin Shared

\* A worker that is working is the active dispatch of its task in the saved
\* run, so that hydrate finds and stops it after a reload, until a commit
\* undoes changes it did not know of (pump: "Persist authority before any
\* external worker/resource operation").
AuthoritySaved ==
    ~overtaken => \A d \in Live : saved.task[owner[d]].active = d

\* A completed or accepted task got its result from the last turn it was
\* given: outcomes that come late are dropped (settle), until a commit undoes
\* changes it did not know of.
OwnOutcome ==
    ~overtaken => \A t \in Task : run.task[t].status = "completed" \/ run.task[t].accepted
        => /\ run.task[t].last # None /\ turn[run.task[t].last] = "completed"
           /\ \A d \in Dispatch : owner[d] = t => d <= run.task[t].last

\* No task is completed while a write of its turn is being checked, nor when
\* a check found one outside its files (settle, observe), until a commit undoes
\* changes it did not know of.  A write that is reported between the pause of
\* the run and the stop of its worker is ignored, and such a result can be
\* completed ("missed").
NoUncheckedResult ==
    ~overtaken => \A t \in Task : run.task[t].status = "completed"
        => write[run.task[t].last] \in {"none", "missed"}

\* A delegate request sent again never makes a second task, across failed
\* saves and reloads (handle, record), until a commit brings back a run that
\* does not have the receipt.
DelegatedOnce ==
    ~overtaken => \A t, u \in Task :
        run.task[t].by = run.task[u].by /\ run.task[t].by # None => t = u

\* The dispatcher does not sleep while a task could start: everything that
\* frees files or a worker, or queues a task, wakes it (pump, pumpAgain), until
\* a commit undoes changes it did not know of.
NoLostWakeup ==
    ~overtaken => (pump.stage = "idle" => \A t \in Task : ~Ready(run, t))

\* A task marked as being cancelled has a stop under way that will settle it,
\* also after a failed save; without one the run could never be resumed.  A
\* commit that brings back the mark after the stop leaves it there.
CancellingIsStopped ==
    ~overtaken => \A t \in Task :
        run.task[t].status = "cancelling" => \E s \in stops : t \in s.tasks

\* A dispatch that has been settled never becomes active again.
SettledStaysSettled ==
    [][\A t \in Task : run.task[t].last # None => run'.task[t].active # run.task[t].last]_vars

\* Bound of the safety run: nothing is claimed after an overtaken commit.
NotOvertaken == ~overtaken
=============================================================================

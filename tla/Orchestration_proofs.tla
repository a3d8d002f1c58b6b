-------------------------- MODULE Orchestration_proofs --------------------------
(***************************************************************************)
(* Theorems about Orchestration: type correctness, and the safety of       *)
(* workers, results and commands until a commit undoes what others did     *)
(* while it was awaited (~overtaken).                                      *)
(*                                                                         *)
(* Nearly every step changes the run by Save, which may fail.  A failed    *)
(* save leaves a run that fits its stops as soon as the run to be saved    *)
(* did (FailedSave), so each action only has to show that the run it wants *)
(* to save fits.                                                           *)
(***************************************************************************)
EXTENDS Orchestration, FiniteSetTheorems, WellFoundedInduction, TLAPS

-----------------------------------------------------------------------------
(* Types *)

\* What a record says of dispatches is about its own.
Owns(r, O) == \A t \in Task : r.task[t].active # None => O[r.task[t].active] = t

PumpType == [stage : {"idle", "scan", "create", "scopes", "submit"},
             todo : SUBSET Task, task : Task \cup {None},
             dispatch : Dispatch \cup {None}, seen : RunType]
OrderType == {o \in [op : {"none", "delegate", "retry", "cancel", "review"},
                    task : Task \cup {None}, deps : SUBSET Task,
                    request : Request \cup {None}] :
                 /\ o.op \in {"retry", "cancel", "review"} => o.task \in Task
                 /\ o.op = "delegate" => o.request \in Request}

DiskOK(r, s, S, f, O) ==
    /\ r \in RunType /\ s \in RunType /\ Owns(r, O) /\ Owns(s, O)
    /\ S \subseteq StopType /\ f \in 0..MaxUpsets

\* The dispatcher prepares a dispatch whose turn has not begun.
PreparingIn(p) == p.stage \in {"create", "scopes", "submit"}
PumpOK(p, O, T) ==
    /\ p \in PumpType /\ Owns(p.seen, O)
    /\ PreparingIn(p) => /\ p.task \in Task /\ p.dispatch \in Dispatch
                         /\ O[p.dispatch] = p.task /\ T[p.dispatch] = "none"

\* A turn and a write belong to a dispatch that was given out, and dispatches
\* are given out in order.
WorkOK(O, T, G, W) ==
    /\ O \in [Dispatch -> Task \cup {None}]
    /\ T \in [Dispatch -> {"none", "live", "completed", "failed", "stopped"}]
    /\ G \in [Dispatch -> {"no", "waiting", "over"}]
    /\ W \in [Dispatch -> {"none", "checking", "bad", "missed"}]
    /\ \A d \in Dispatch : T[d] # "none" \/ W[d] # "none" => O[d] # None
    /\ \A d \in Dispatch : G[d] = "waiting" => T[d] \in {"completed", "failed", "stopped"}
    /\ \A d, e \in Dispatch : O[d] # None /\ e < d => O[e] # None

TypeInv ==
    /\ DiskOK(run, saved, stops, faults, owner)
    /\ PumpOK(pump, owner, turn) /\ again \in BOOLEAN
    /\ WorkOK(owner, turn, settling, write)
    /\ starting \in RunType /\ Owns(starting, owner)
    /\ order \in OrderType /\ pausing \subseteq Task /\ upsets \in 0..MaxUpsets

-----------------------------------------------------------------------------
(* What a run holds.  O, T and W are the owners, turns and writes, S the     *)
(* stops under way.                                                          *)

\* The result in k comes from the last turn its task was given.
OwnResult(k, t, O, T) ==
    /\ k.last # None /\ T[k.last] = "completed"
    /\ \A d \in Dispatch : O[d] = t => d <= k.last

RecordOK(k, t, O, T, W) ==
    /\ activeTask(k) <=> k.active # None
    /\ k.active # None => /\ O[k.active] = t /\ k.active # k.last
                          /\ \A d \in Dispatch : O[d] = t => d <= k.active
    /\ k.last # None => O[k.last] = t
    /\ k.accepted => k.status \in {"completed", "cancelled"}
    /\ k.status = "completed" \/ k.accepted => OwnResult(k, t, O, T)
    /\ k.status = "completed" => W[k.last] \in {"none", "missed"}

Apart(r) ==
    /\ \A t, u \in ActiveTasks(r) : t # u => {t, u} \notin Shared
    /\ Cardinality(ActiveTasks(r)) <= MaxWorkers

Receipts(r) ==
    /\ \A t \in Task : r.task[t].by # None => r.task[t].by \in r.requests
    /\ \A t, u \in Task : r.task[t].by = r.task[u].by /\ r.task[t].by # None => t = u

RunOK(r, O, T, W) ==
    /\ \A t \in Task : RecordOK(r.task[t], t, O, T, W)
    /\ Apart(r) /\ Receipts(r)

\* Every live turn is the active dispatch of its task.
Lives(r, O, T) == \A d \in Dispatch : T[d] = "live" => r.task[O[d]].active = d

\* The stop s goes with the run r.
StopFits(s, r, O, T) ==
    /\ s.kind # "run" =>
           /\ s.dispatch # None /\ s.tasks = {O[s.dispatch]}
           /\ LatestTurn(r.task[O[s.dispatch]]) = s.dispatch =>
                  r.task[O[s.dispatch]].status \notin {"running", "completed"}
           /\ s.done => T[s.dispatch] # "live"
    /\ s.kind \in {"run", "interrupt", "unsaved"} => r.status # "active"
    /\ s.kind = "run" =>
           /\ s.dispatch = None /\ ActiveTasks(r) \subseteq s.tasks
           /\ s.done => \A d \in Dispatch : T[d] = "live" => O[d] \notin s.tasks

StopsOK(r, S, O, T) ==
    /\ \A s \in S : StopFits(s, r, O, T)
    /\ \A t \in Task : r.task[t].status = "cancelling" => \E s \in S : t \in s.tasks

\* No running worker wrote outside its files.
InScope(r, W) ==
    \A t \in Task : r.task[t].status = "running" => W[r.task[t].active] # "bad"

\* An active run has nothing interrupted.
Resumed(r) ==
    r.status = "active" => \A t \in Task : r.task[t].status # "interrupted"

Fit(r, S, O, T, W) ==
    /\ RunOK(r, O, T, W) /\ Lives(r, O, T)
    /\ StopsOK(r, S, O, T) /\ InScope(r, W) /\ Resumed(r)

\* The task of a command under way has not moved since its checks.
OrderOK(o, r, S, O, T) ==
    /\ o.op = "delegate" => o.request \notin r.requests
    /\ o.op \in {"retry", "review"} =>
           /\ r.task[o.task].status \in {"completed", "failed", "blocked", "cancelled"}
           /\ \A s \in S : s.kind = "interrupt" => o.task \notin s.tasks
    /\ o.op = "review" =>
           /\ r.task[o.task].status \in {"completed", "cancelled"}
           /\ OwnResult(r.task[o.task], o.task, O, T)
           /\ \A s \in S : o.task \in s.tasks => s.dispatch # r.task[o.task].last

-----------------------------------------------------------------------------
(* The invariant *)

Sync ==
    /\ run.status = "none" => /\ run = NoRun /\ stops = {} /\ pausing = {}
                              /\ order = NoOrder /\ pump = IdlePump /\ ~again
    /\ run.status = "active" => saved = run /\ pausing = {}
    /\ saved.status = "none" => saved = NoRun /\ run.status \in {"none", "paused"}

InMemory == run.status # "none" => Fit(run, stops, owner, turn, write)

OnDisk == RunOK(saved, owner, turn, write) /\ Lives(saved, owner, turn)

\* The dispatch being prepared is its task's own, unless it was stopped.
Dispatching ==
    PreparingIn(pump) => run.task[pump.task].active \in {None, pump.dispatch}

Ordered == OrderOK(order, run, stops, owner, turn)

CoreInv == Sync /\ InMemory /\ OnDisk /\ Dispatching /\ Ordered

\* The dispatcher will look at every task that could start.
WakeInv ==
    /\ pump.stage = "idle" => ~again /\ pump.todo = {}
    /\ ~again => \A t \in Task \ pump.todo : ~Ready(run, t)
    /\ run.status = "active" => Affordable(run)
    /\ starting # NoRun => run.status # "active" /\ Affordable(starting)

-----------------------------------------------------------------------------
(* Smallest elements *)

LEMMA MinIsLeast ==
  ASSUME NEW S \in SUBSET Nat, S # {}
  PROVE  Min(S) \in S /\ \A y \in S : Min(S) <= y
  <1>1. PICK x \in S : TRUE
    OBVIOUS
  <1> DEFINE Less == {ss \in Nat \X Nat : ss[1] < ss[2]}
  <1>2. IsWellFoundedOn(Less, Nat)
    BY NatLessThanWellFounded DEF OpToRel
  <1>3. PICK m \in S : \A y \in S : <<y, m>> \notin Less
    <2> HIDE DEF Less
    <2> QED BY <1>1, <1>2, WFMin
  <1>4. ASSUME NEW y \in S PROVE m <= y
    <2>1. y \in Nat /\ m \in Nat
      OBVIOUS
    <2>2. SUFFICES ASSUME y < m PROVE FALSE
      BY <2>1
    <2>3. <<y, m>> \in Nat \X Nat /\ <<y, m>>[1] = y /\ <<y, m>>[2] = m
      BY <2>1
    <2>4. <<y, m>> \in Less
      BY <2>2, <2>3
    <2> QED BY <1>3, <2>4
  <1> QED BY <1>3, <1>4 DEF Min

-----------------------------------------------------------------------------
(* A save that fails *)

Cancelling(f) ==
    [t \in Task |-> IF activeTask(f[t]) THEN [f[t] EXCEPT !.status = "cancelling"]
                                        ELSE f[t]]
Failed(r) ==
    [status |-> "paused", task |-> Cancelling(r.task), requests |-> r.requests]
Unsaved(r) ==
    {[kind |-> "unsaved", tasks |-> {t}, dispatch |-> r.task[t].active, done |-> FALSE]
     : t \in ActiveTasks(r)}

Succeeds(next, ok) == run' = next /\ saved' = next /\ stops' = ok /\ faults' = faults
Fails(next, ko) ==
    /\ Upsettable /\ faults' = faults + 1
    /\ run' = Failed(next) /\ stops' = ko \cup Unsaved(next) /\ saved' = saved

Record == [status : TaskStatus,
           active : Dispatch \cup {None}, last : Dispatch \cup {None},
           accepted : BOOLEAN, deps : SUBSET Task, by : Request \cup {None}]

LEMMA RunTypeFields ==
  ASSUME NEW r \in RunType
  PROVE  /\ r.status \in {"none", "active", "paused", "stopped", "finished"}
         /\ r.task \in [Task -> Record] /\ r.requests \in SUBSET Request
         /\ r = [status |-> r.status, task |-> r.task, requests |-> r.requests]
  BY DEF RunType, Record

LEMMA FailedTasks ==
  ASSUME NEW r \in RunType
  PROVE  Cancelling(r.task) \in [Task -> Record]
  <1>1. ASSUME NEW t \in Task
        PROVE  /\ r.task[t] \in Record
               /\ [r.task[t] EXCEPT !.status = "cancelling"] \in Record
    BY RunTypeFields DEF Record, TaskStatus
  <1> QED BY <1>1 DEF Cancelling

LEMMA SaveCases ==
  ASSUME NEW next \in RunType, NEW ok, NEW ko, Save(next, ok, ko)
  PROVE  Succeeds(next, ok) \/ Fails(next, ko)
  <1>1. CASE run' = next /\ saved' = next /\ stops' = ok /\ UNCHANGED faults
    BY <1>1 DEF Succeeds
  <1>2. CASE /\ Upsettable /\ faults' = faults + 1 /\ UNCHANGED saved
             /\ run' = [next EXCEPT
                   !.status = "paused",
                   !.task = [t \in Task |-> IF activeTask(@[t])
                                            THEN [@[t] EXCEPT !.status = "cancelling"]
                                            ELSE @[t]]]
             /\ stops' = ko \cup {[kind |-> "unsaved", tasks |-> {t},
                                   dispatch |-> next.task[t].active, done |-> FALSE]
                                  : t \in ActiveTasks(next)}
    <2>1. run' = [next EXCEPT !.status = "paused", !.task = Cancelling(next.task)]
      BY <1>2 DEF Cancelling
    <2>2. Cancelling(next.task) \in [Task -> Record]
      BY FailedTasks
    <2>3. /\ run' \in RunType /\ run'.status = "paused"
          /\ run'.task = Cancelling(next.task) /\ run'.requests = next.requests
      BY <2>1, <2>2 DEF RunType, Record
    <2>4. run' = Failed(next)
      BY <2>3, RunTypeFields DEF Failed
    <2> QED BY <1>2, <2>4 DEF Fails, Unsaved
  <1> QED BY <1>1, <1>2 DEF Save

LEMMA FailedType ==
  ASSUME NEW r \in RunType
  PROVE  Failed(r) \in RunType /\ Unsaved(r) \subseteq StopType
  <1>1. ASSUME NEW t \in Task PROVE r.task[t] \in Record
    BY RunTypeFields
  <1>2. Failed(r) \in RunType
    BY FailedTasks, RunTypeFields DEF Failed, RunType, Record
  <1>3. ASSUME NEW t \in Task
        PROVE  [kind |-> "unsaved", tasks |-> {t}, dispatch |-> r.task[t].active,
                done |-> FALSE] \in StopType
    BY <1>1 DEF StopType, Record
  <1>4. Unsaved(r) \subseteq StopType
    BY <1>3 DEF Unsaved, ActiveTasks
  <1> QED BY <1>2, <1>4

-----------------------------------------------------------------------------
(* Type correctness *)

LEMMA Constants ==
  /\ None \notin Task /\ None \notin Dispatch /\ None \notin Request
  /\ Task \subseteq Nat /\ Dispatch \subseteq Nat /\ Request \subseteq Nat
  /\ IsFiniteSet(Task) /\ IsFiniteSet(Dispatch)
  /\ MaxWorkers \in Nat /\ MaxUpsets \in Nat
  BY TasksAssumption, BoundsAssumption DEF None

LEMMA TypeInvImplies == TypeInv /\ overtaken \in BOOLEAN => TypeOK
  BY DEF TypeInv, TypeOK, DiskOK, PumpOK, WorkOK, PumpType, OrderType

LEMMA NoRunType ==
  /\ Absent \in Record /\ NoRun \in RunType
  /\ \A O : Owns(NoRun, O)
  /\ IdlePump \in PumpType /\ NoOrder \in OrderType
  /\ \A t \in Task : NoRun.task[t] = Absent
  /\ NoRun.status = "none" /\ NoRun.requests = {}
  <1>1. Absent \in Record
    BY DEF Absent, Record, TaskStatus
  <1>2. NoRun \in RunType
    BY <1>1 DEF NoRun, RunType, Record
  <1>3. \A t \in Task : NoRun.task[t] = Absent
    BY DEF NoRun
  <1>4. \A O : Owns(NoRun, O)
    BY <1>3 DEF Owns, Absent
  <1>5. IdlePump \in PumpType
    BY <1>2 DEF IdlePump, PumpType
  <1>6. NoOrder \in OrderType
    BY DEF NoOrder, OrderType
  <1>7. NoRun.status = "none" /\ NoRun.requests = {}
    BY DEF NoRun
  <1> QED BY <1>1, <1>2, <1>3, <1>4, <1>5, <1>6, <1>7

LEMMA Statuses ==
  /\ {"absent", "queued", "running", "cancelling", "completed"} \subseteq TaskStatus
  /\ {"failed", "blocked", "interrupted", "cancelled"} \subseteq TaskStatus
  BY DEF TaskStatus

LEMMA EndedRecord ==
  ASSUME NEW k \in Record, NEW status \in TaskStatus, NEW d \in Dispatch \cup {None}
  PROVE  /\ Ended(k, status, d) \in Record
         /\ Ended(k, status, d).status = status /\ Ended(k, status, d).active = None
         /\ ~Ended(k, status, d).accepted
         /\ Ended(k, status, d).last = IF d = None THEN k.last ELSE d
         /\ Ended(k, status, d).by = k.by
  BY DEF Record, Ended

LEMMA QueuedRecord ==
  ASSUME NEW k \in Record
  PROVE  /\ Queued(k) \in Record
         /\ Queued(k).status = "queued" /\ Queued(k).active = None /\ ~Queued(k).accepted
         /\ Queued(k).last = k.last /\ Queued(k).by = k.by
  BY DEF Record, Queued, TaskStatus

LEMMA StatusRecord ==
  ASSUME NEW k \in Record, NEW status \in TaskStatus
  PROVE  /\ [k EXCEPT !.status = status] \in Record
         /\ [k EXCEPT !.status = status].status = status
         /\ [k EXCEPT !.status = status].active = k.active
         /\ [k EXCEPT !.status = status].last = k.last
         /\ [k EXCEPT !.status = status].accepted = k.accepted
         /\ [k EXCEPT !.status = status].by = k.by
  BY DEF Record

\* The run r with the record k for t.
With(r, t, k) == [r EXCEPT !.task[t] = k]

LEMMA WithRun ==
  ASSUME NEW r \in RunType, NEW t \in Task, NEW k \in Record
  PROVE  /\ With(r, t, k) \in RunType
         /\ With(r, t, k).status = r.status /\ With(r, t, k).requests = r.requests
         /\ With(r, t, k).task[t] = k
         /\ \A u \in Task : u # t => With(r, t, k).task[u] = r.task[u]
  BY DEF With, RunType, Record

LEMMA OwnsWith ==
  ASSUME NEW r \in RunType, NEW t \in Task, NEW k \in Record, NEW O, Owns(r, O),
         k.active # None => O[k.active] = t
  PROVE  Owns(With(r, t, k), O)
  <1>1. /\ With(r, t, k).task[t] = k
        /\ \A u \in Task : u # t => With(r, t, k).task[u] = r.task[u]
    BY WithRun
  <1>2. ASSUME NEW u \in Task
        PROVE  With(r, t, k).task[u].active # None => O[With(r, t, k).task[u].active] = u
    <2>1. CASE u = t
      BY <1>1, <2>1
    <2>2. CASE u # t
      BY <1>1, <2>2 DEF Owns
    <2> QED BY <2>1, <2>2
  <1> QED BY <1>2 DEF Owns

LEMMA FailedFields ==
  ASSUME NEW r \in RunType, NEW t \in Task
  PROVE  /\ Failed(r).task[t].status = IF activeTask(r.task[t]) THEN "cancelling"
                                       ELSE r.task[t].status
         /\ Failed(r).task[t].active = r.task[t].active
         /\ Failed(r).task[t].last = r.task[t].last
         /\ Failed(r).task[t].accepted = r.task[t].accepted
         /\ Failed(r).task[t].by = r.task[t].by
         /\ Failed(r).status = "paused" /\ Failed(r).requests = r.requests
  <1>1. r.task[t] \in Record
    BY RunTypeFields
  <1> QED BY <1>1, StatusRecord, Statuses DEF Failed, Cancelling

LEMMA OwnsFailed ==
  ASSUME NEW r \in RunType, NEW O, Owns(r, O)
  PROVE  Owns(Failed(r), O)
  BY FailedFields DEF Owns

\* After a save the disk has its types, whoever owns the dispatches by then.
LEMMA SaveTypes ==
  ASSUME TypeInv, NEW next \in RunType, NEW ok, NEW ko, Save(next, ok, ko),
         ok \subseteq StopType, ko \subseteq StopType,
         NEW O, Owns(next, O), Owns(saved, O)
  PROVE  DiskOK(run', saved', stops', faults', O)
  <1>1. CASE Succeeds(next, ok)
    BY <1>1 DEF Succeeds, DiskOK, TypeInv
  <1>2. CASE Fails(next, ko)
    <2>1. faults' \in 0..MaxUpsets
      BY <1>2, Constants DEF Fails, Upsettable, TypeInv, DiskOK
    <2> QED BY <1>2, <2>1, FailedType, OwnsFailed DEF Fails, DiskOK, TypeInv
  <1> QED BY <1>1, <1>2, SaveCases

LEMMA CallPumpTypes ==
  ASSUME TypeInv, CallPump
  PROVE  PumpOK(pump', owner, turn) /\ again' \in BOOLEAN
  <1>1. ASSUME NEW todo \in SUBSET Task
        PROVE  PumpOK([IdlePump EXCEPT !.stage = "scan", !.todo = todo], owner, turn)
    BY NoRunType DEF IdlePump, PumpOK, PumpType, PreparingIn
  <1> QED BY <1>1 DEF CallPump, pumping, TypeInv

LEMMA NextTaskTypes ==
  ASSUME TypeInv, NextTask, NEW T
  PROVE  PumpOK(pump', owner, T)
  BY NoRunType DEF NextTask, TypeInv, IdlePump, PumpOK, PumpType, PreparingIn

\* What a stop of one task looks like.
LEMMA StopOfType ==
  ASSUME TypeInv, NEW t \in Task,
         NEW kind \in {"cancel", "userCancel", "interrupt", "block", "unsaved"}
  PROVE  StopOf(kind, t) \in StopType
  BY RunTypeFields DEF TypeInv, DiskOK, StopOf, StopType, Record

LEMMA CancelTypes ==
  ASSUME TypeInv, NEW t \in Task, NEW kind \in {"cancel", "userCancel"}, Cancel(t, kind)
  PROVE  /\ DiskOK(run', saved', stops', faults', owner)
         /\ PumpOK(pump', owner, turn) /\ again' \in BOOLEAN
  <1>1. /\ run \in RunType /\ run.task[t] \in Record /\ stops \subseteq StopType
        /\ Owns(run, owner) /\ Owns(saved, owner) /\ None \in Dispatch \cup {None}
    BY RunTypeFields DEF TypeInv, DiskOK
  <1>2. CASE activeTask(run.task[t])
    <2> DEFINE k == [run.task[t] EXCEPT !.status = "cancelling"]
    <2>1. k \in Record /\ k.active = run.task[t].active
      BY <1>1, StatusRecord, Statuses
    <2>2. Save(With(run, t, k), stops \cup {StopOf(kind, t)}, stops) /\ UNCHANGED pumping
      <3>1. [run EXCEPT !.task[t].status = "cancelling"] = With(run, t, k)
        BY <1>1 DEF With
      <3> QED BY <1>2, <3>1 DEF Cancel
    <2> HIDE DEF k
    <2>3. k.active # None => owner[k.active] = t
      BY <1>1, <2>1 DEF Owns
    <2>5. Owns(With(run, t, k), owner) /\ With(run, t, k) \in RunType
      BY <1>1, <2>1, <2>3, WithRun, OwnsWith
    <2>4. stops \cup {StopOf(kind, t)} \subseteq StopType
      BY <1>1, StopOfType
    <2> QED BY <1>1, <2>2, <2>4, <2>5, SaveTypes DEF pumping, TypeInv
  <1>3. CASE ~activeTask(run.task[t])
    <2> DEFINE k == Ended(run.task[t], "cancelled", None)
    <2>1. k \in Record /\ k.active = None
      BY <1>1, EndedRecord, Statuses
    <2>2. Save(With(run, t, k), stops, stops) /\ CallPump
      <3>1. [run EXCEPT !.task[t] = Ended(@, "cancelled", None)] = With(run, t, k)
        BY <1>1 DEF With
      <3> QED BY <1>3, <3>1 DEF Cancel
    <2> HIDE DEF k
    <2>3. Owns(With(run, t, k), owner) /\ With(run, t, k) \in RunType
      BY <1>1, <2>1, WithRun, OwnsWith
    <2> QED BY <1>1, <2>2, <2>3, SaveTypes, CallPumpTypes
  <1> QED BY <1>2, <1>3

\* A run with another status or other records.
RunStatus == {"none", "active", "paused", "stopped", "finished"}

LEMMA StatusRun ==
  ASSUME NEW r \in RunType, NEW status \in RunStatus
  PROVE  /\ [r EXCEPT !.status = status] \in RunType
         /\ [r EXCEPT !.status = status].status = status
         /\ [r EXCEPT !.status = status].task = r.task
         /\ [r EXCEPT !.status = status].requests = r.requests
  BY DEF RunType, RunStatus

\* The records of a run that is resumed, reloaded or stopped.
Resumable(r) == [t \in Task |-> IF r.task[t].status = "interrupted"
                                THEN Queued(r.task[t]) ELSE r.task[t]]
Interrupted(r, T) == [t \in Task |-> IF t \in T /\ activeTask(r.task[t])
                                     THEN Ended(r.task[t], "interrupted", r.task[t].active)
                                     ELSE r.task[t]]
Stopped(r) == [t \in Task |-> IF activeTask(r.task[t]) \/ r.task[t].status = "queued"
                              THEN Ended(r.task[t], "cancelled", r.task[t].active)
                              ELSE r.task[t]]

LEMMA RecordsTypes ==
  ASSUME NEW r \in RunType, NEW T
  PROVE  /\ Resumable(r) \in [Task -> Record]
         /\ Interrupted(r, T) \in [Task -> Record]
         /\ Stopped(r) \in [Task -> Record]
         /\ \A t \in Task : /\ Resumable(r)[t].active \in {None, r.task[t].active}
                            /\ Interrupted(r, T)[t].active \in {None, r.task[t].active}
                            /\ Stopped(r)[t].active \in {None, r.task[t].active}
  <1>1. ASSUME NEW t \in Task
        PROVE  r.task[t] \in Record /\ r.task[t].active \in Dispatch \cup {None}
    BY RunTypeFields DEF Record
  <1>2. Resumable(r) \in [Task -> Record]
    BY <1>1, QueuedRecord DEF Resumable
  <1>3. Interrupted(r, T) \in [Task -> Record]
    BY <1>1, EndedRecord, Statuses DEF Interrupted
  <1>4. Stopped(r) \in [Task -> Record]
    BY <1>1, EndedRecord, Statuses DEF Stopped
  <1>5. \A t \in Task : Resumable(r)[t].active \in {None, r.task[t].active}
    BY <1>1, QueuedRecord DEF Resumable
  <1>6. \A t \in Task : Interrupted(r, T)[t].active \in {None, r.task[t].active}
    BY <1>1, EndedRecord, Statuses DEF Interrupted
  <1>7. \A t \in Task : Stopped(r)[t].active \in {None, r.task[t].active}
    BY <1>1, EndedRecord, Statuses DEF Stopped
  <1> QED BY <1>2, <1>3, <1>4, <1>5, <1>6, <1>7

LEMMA OwnsRecords ==
  ASSUME NEW r, NEW r2, NEW O, Owns(r, O),
         \A t \in Task : r2.task[t].active \in {None, r.task[t].active}
  PROVE  Owns(r2, O)
  BY DEF Owns

\* The runs the actions save, or hold in memory.
NextStarted ==
    IF run.status = "paused" THEN [run EXCEPT !.status = "active", !.task = Resumable(run)]
                             ELSE [NoRun EXCEPT !.status = "active"]
NextStopped == [run EXCEPT !.status = "stopped", !.task = Stopped(run)]
NextHydrated ==
    [saved EXCEPT !.status = IF saved.status = "active" THEN "paused" ELSE saved.status,
                  !.task = Interrupted(saved, Task)]
NextUnsaved(T) == [run EXCEPT !.task = Interrupted(run, T)]

LEMMA NextRuns ==
  ASSUME TypeInv
  PROVE  /\ Resumption = NextStarted
         /\ \A s \in stops : stopRunStopped(s) => Save(NextStopped, stops \ {s}, stops \ {s})
         /\ hydrate => Save(NextHydrated, stops, stops)
         /\ \A s \in stops : unsavedStopped(s) => run' = NextUnsaved(s.tasks)
  <1> USE DEF TypeInv, DiskOK
  <1>1. Resumption = NextStarted
    BY NoRunType DEF Resumption, NextStarted, RunType, Resumable
  <1>2. ASSUME NEW s \in stops, stopRunStopped(s)
        PROVE  Save(NextStopped, stops \ {s}, stops \ {s})
    BY <1>2 DEF stopRunStopped, NextStopped, RunType, Stopped
  <1>3. hydrate => Save(NextHydrated, stops, stops)
    BY DEF hydrate, NextHydrated, RunType, Interrupted
  <1>4. ASSUME NEW s \in stops, unsavedStopped(s) PROVE run' = NextUnsaved(s.tasks)
    BY <1>4 DEF unsavedStopped, NextUnsaved, RunType, Interrupted
  <1> QED BY <1>1, <1>2, <1>3, <1>4

LEMMA NextStartedFields ==
  ASSUME run \in RunType
  PROVE  /\ NextStarted \in RunType /\ NextStarted.status = "active"
         /\ run.status = "paused" =>
              NextStarted.task = Resumable(run) /\ NextStarted.requests = run.requests
         /\ run.status # "paused" =>
              NextStarted.task = NoRun.task /\ NextStarted.requests = {}
  <1>1. CASE run.status = "paused"
    <2>1. Resumable(run) \in [Task -> Record]
      BY RecordsTypes
    <2> QED BY <1>1, <2>1 DEF NextStarted, RunType, Record
  <1>2. CASE run.status # "paused"
    BY <1>2, NoRunType DEF NextStarted, RunType
  <1> QED BY <1>1, <1>2

LEMMA NextFields ==
  ASSUME run \in RunType, saved \in RunType
  PROVE  /\ NextStopped \in RunType /\ NextStopped.status = "stopped"
         /\ NextStopped.task = Stopped(run) /\ NextStopped.requests = run.requests
         /\ NextHydrated \in RunType
         /\ NextHydrated.status = IF saved.status = "active" THEN "paused" ELSE saved.status
         /\ NextHydrated.task = Interrupted(saved, Task)
         /\ NextHydrated.requests = saved.requests
  <1>1. Stopped(run) \in [Task -> Record] /\ Interrupted(saved, Task) \in [Task -> Record]
    BY RecordsTypes
  <1>2. /\ NextStopped \in RunType /\ NextStopped.status = "stopped"
        /\ NextStopped.task = Stopped(run) /\ NextStopped.requests = run.requests
    BY <1>1 DEF NextStopped, RunType, Record
  <1>3. /\ NextHydrated \in RunType
        /\ NextHydrated.status = IF saved.status = "active" THEN "paused" ELSE saved.status
        /\ NextHydrated.task = Interrupted(saved, Task)
        /\ NextHydrated.requests = saved.requests
    BY <1>1 DEF NextHydrated, RunType, Record
  <1> QED BY <1>2, <1>3

LEMMA NextUnsavedFields ==
  ASSUME run \in RunType, NEW T
  PROVE  /\ NextUnsaved(T) \in RunType /\ NextUnsaved(T).status = run.status
         /\ NextUnsaved(T).task = Interrupted(run, T)
         /\ NextUnsaved(T).requests = run.requests
  BY RecordsTypes DEF NextUnsaved, RunType, Record

LEMMA NextOwns ==
  ASSUME TypeInv, NEW T
  PROVE  /\ Owns(NextStarted, owner) /\ Owns(NextStopped, owner)
         /\ Owns(NextHydrated, owner) /\ Owns(NextUnsaved(T), owner)
  <1>1. run \in RunType /\ saved \in RunType /\ Owns(run, owner) /\ Owns(saved, owner)
    BY DEF TypeInv, DiskOK
  <1>2. Owns(NextStarted, owner)
    <2>1. CASE run.status = "paused"
      <3>1. \A t \in Task : NextStarted.task[t].active \in {None, run.task[t].active}
        BY <1>1, <2>1, NextStartedFields, RecordsTypes
      <3> QED BY <1>1, <3>1, OwnsRecords
    <2>2. CASE run.status # "paused"
      <3>1. \A t \in Task : NextStarted.task[t].active = None
        BY <1>1, <2>2, NextStartedFields, NoRunType DEF Absent
      <3> QED BY <3>1 DEF Owns
    <2> QED BY <2>1, <2>2
  <1>3. Owns(NextStopped, owner)
    <2>1. \A t \in Task : NextStopped.task[t].active \in {None, run.task[t].active}
      BY <1>1, NextFields, RecordsTypes
    <2> QED BY <1>1, <2>1, OwnsRecords
  <1>4. Owns(NextHydrated, owner)
    <2>1. \A t \in Task : NextHydrated.task[t].active \in {None, saved.task[t].active}
      BY <1>1, NextFields, RecordsTypes
    <2> QED BY <1>1, <2>1, OwnsRecords
  <1>5. Owns(NextUnsaved(T), owner)
    <2>1. \A t \in Task : NextUnsaved(T).task[t].active \in {None, run.task[t].active}
      BY <1>1, NextUnsavedFields, RecordsTypes
    <2> QED BY <1>1, <2>1, OwnsRecords
  <1> QED BY <1>2, <1>3, <1>4, <1>5

\* Steps that change the run by Save, and those of the pump, type by type.
LEMMA EndedTypes ==
  ASSUME TypeInv, NEW s \in stops, NEW t \in s.tasks, NEW status \in TaskStatus
  PROVE  /\ t \in Task
         /\ [run EXCEPT !.task[t] = Ended(@, status, s.dispatch)] \in RunType
         /\ [run EXCEPT !.task[t] = Ended(@, status, s.dispatch)]
              = With(run, t, Ended(run.task[t], status, s.dispatch))
         /\ Owns([run EXCEPT !.task[t] = Ended(@, status, s.dispatch)], owner)
         /\ stops \ {s} \subseteq StopType
  <1>1. t \in Task /\ s.dispatch \in Dispatch \cup {None} /\ stops \ {s} \subseteq StopType
    BY DEF TypeInv, DiskOK, StopType
  <1>2. run \in RunType /\ run.task[t] \in Record /\ Owns(run, owner)
    BY <1>1, RunTypeFields DEF TypeInv, DiskOK
  <1>3. [run EXCEPT !.task[t] = Ended(@, status, s.dispatch)]
              = With(run, t, Ended(run.task[t], status, s.dispatch))
    BY <1>1, <1>2 DEF With
  <1>4. /\ Ended(run.task[t], status, s.dispatch) \in Record
        /\ Ended(run.task[t], status, s.dispatch).active = None
    BY <1>1, <1>2, EndedRecord
  <1>5. /\ With(run, t, Ended(run.task[t], status, s.dispatch)) \in RunType
        /\ Owns(With(run, t, Ended(run.task[t], status, s.dispatch)), owner)
    BY <1>1, <1>2, <1>4, WithRun, OwnsWith
  <1> QED BY <1>1, <1>3, <1>5

LEMMA QueuedTypes ==
  ASSUME TypeInv, NEW t \in Task
  PROVE  /\ [run EXCEPT !.task[t] = Queued(@)] = With(run, t, Queued(run.task[t]))
         /\ [run EXCEPT !.task[t] = Queued(@)] \in RunType
         /\ Owns([run EXCEPT !.task[t] = Queued(@)], owner)
  <1>1. run \in RunType /\ run.task[t] \in Record /\ Owns(run, owner)
    BY RunTypeFields DEF TypeInv, DiskOK
  <1>2. [run EXCEPT !.task[t] = Queued(@)] = With(run, t, Queued(run.task[t]))
    BY <1>1 DEF With
  <1>3. Queued(run.task[t]) \in Record /\ Queued(run.task[t]).active = None
    BY <1>1, QueuedRecord
  <1> QED BY <1>1, <1>2, <1>3, WithRun, OwnsWith

LEMMA MarkedTypes ==
  ASSUME TypeInv, NEW t \in Task
  PROVE  /\ [run EXCEPT !.task[t].status = "cancelling"]
              = With(run, t, [run.task[t] EXCEPT !.status = "cancelling"])
         /\ [run EXCEPT !.task[t].status = "cancelling"] \in RunType
         /\ Owns([run EXCEPT !.task[t].status = "cancelling"], owner)
  <1>1. run \in RunType /\ run.task[t] \in Record /\ Owns(run, owner)
    BY RunTypeFields DEF TypeInv, DiskOK
  <1>2. [run EXCEPT !.task[t].status = "cancelling"]
              = With(run, t, [run.task[t] EXCEPT !.status = "cancelling"])
    BY <1>1 DEF With
  <1>3. /\ [run.task[t] EXCEPT !.status = "cancelling"] \in Record
        /\ [run.task[t] EXCEPT !.status = "cancelling"].active = run.task[t].active
    BY <1>1, StatusRecord, Statuses
  <1>4. run.task[t].active # None => owner[run.task[t].active] = t
    BY <1>1 DEF Owns
  <1> DEFINE k == [run.task[t] EXCEPT !.status = "cancelling"]
  <1>5. k \in Record /\ (k.active # None => owner[k.active] = t)
    BY <1>3, <1>4
  <1> HIDE DEF k
  <1>6. With(run, t, k) \in RunType /\ Owns(With(run, t, k), owner)
    BY <1>1, <1>5, WithRun, OwnsWith
  <1> QED BY <1>2, <1>6 DEF k

\* What stays as it is keeps its type.
Rest == /\ WorkOK(owner', turn', settling', write') /\ starting' \in RunType
        /\ Owns(starting', owner') /\ order' \in OrderType
        /\ pausing' \subseteq Task /\ upsets' \in 0..MaxUpsets

LEMMA ParametersKeepTypes ==
  ASSUME TypeInv, UNCHANGED owner
  PROVE  /\ UNCHANGED workers => WorkOK(owner', turn', settling', write')
         /\ UNCHANGED starting => starting' \in RunType /\ Owns(starting', owner')
         /\ UNCHANGED order => order' \in OrderType
         /\ UNCHANGED pausing => pausing' \subseteq Task
         /\ UNCHANGED upsets => upsets' \in 0..MaxUpsets
         /\ Upset => upsets' \in 0..MaxUpsets
         /\ NoOrder \in OrderType
         /\ UNCHANGED disk => DiskOK(run', saved', stops', faults', owner)
         /\ UNCHANGED pumping /\ UNCHANGED turn =>
                PumpOK(pump', owner, turn') /\ again' \in BOOLEAN
  <1>1. Upset => upsets' \in 0..MaxUpsets
    BY Constants DEF Upset, Upsettable, TypeInv, DiskOK
  <1> QED BY <1>1, NoRunType DEF TypeInv, workers, disk, pumping

LEMMA TypesTogether ==
  ASSUME UNCHANGED owner, DiskOK(run', saved', stops', faults', owner),
         PumpOK(pump', owner, turn'), again' \in BOOLEAN, Rest
  PROVE  TypeInv'
  BY DEF TypeInv, Rest

LEMMA ResumeTypes ==
  ASSUME TypeInv, startRun \/ startRunCommit PROVE TypeInv'
  <1>1. CASE startRun
    <2>1. starting' = NextStarted /\ UNCHANGED <<run, owner>>
      BY <1>1, NextRuns DEF startRun, disk
    <2>2. starting' \in RunType
      BY <2>1, NextStartedFields DEF TypeInv, DiskOK
    <2>3. Owns(starting', owner)
      BY <2>1, NextOwns
    <2> QED BY <1>1, <2>1, <2>2, <2>3, ParametersKeepTypes, TypesTogether
        DEF startRun, Rest, workers, pumping
  <1>2. CASE startRunCommit
    <2>1. Save(starting, stops, stops) /\ CallPump /\ UNCHANGED owner
      BY <1>2 DEF startRunCommit
    <2>2. DiskOK(run', saved', stops', faults', owner)
      BY <2>1, SaveTypes DEF TypeInv, DiskOK
    <2>3. starting' \in RunType /\ Owns(starting', owner)
      BY <1>2, NoRunType DEF startRunCommit
    <2>4. PumpOK(pump', owner, turn) /\ again' \in BOOLEAN
      BY <2>1, CallPumpTypes
    <2> QED BY <1>2, <2>1, <2>2, <2>3, <2>4, ParametersKeepTypes, TypesTogether
        DEF startRunCommit, Rest, workers
  <1> QED BY <1>1, <1>2

LEMMA StopTypes ==
  ASSUME TypeInv, NEW s \in stops,
         cancelTaskStopped(s) \/ blockTaskStopped(s) \/ interruptTaskStopped(s)
           \/ stopRunStopped(s)
  PROVE  TypeInv'
  <1>1. ASSUME NEW status \in TaskStatus, NEW t \in s.tasks,
               Save([run EXCEPT !.task[t] = Ended(@, status, s.dispatch)],
                    stops \ {s}, stops \ {s})
        PROVE  DiskOK(run', saved', stops', faults', owner)
    BY <1>1, EndedTypes, SaveTypes DEF TypeInv, DiskOK
  <1>2. CASE cancelTaskStopped(s)
    <2>1. DiskOK(run', saved', stops', faults', owner)
      BY <1>1, <1>2, Statuses DEF cancelTaskStopped
    <2>2. PumpOK(pump', owner, turn) /\ again' \in BOOLEAN
      BY <1>2, CallPumpTypes DEF cancelTaskStopped
    <2>3. order' \in OrderType
      BY <1>2, NoRunType DEF cancelTaskStopped, TypeInv
    <2> QED BY <1>2, <2>1, <2>2, <2>3, ParametersKeepTypes, TypesTogether
        DEF cancelTaskStopped, Rest, workers
  <1>3. CASE blockTaskStopped(s)
    <2>1. DiskOK(run', saved', stops', faults', owner)
      BY <1>1, <1>3, Statuses DEF blockTaskStopped
    <2>2. PumpOK(pump', owner, turn) /\ again' \in BOOLEAN
      BY <1>3, CallPumpTypes DEF blockTaskStopped
    <2> QED BY <1>3, <2>1, <2>2, ParametersKeepTypes, TypesTogether
        DEF blockTaskStopped, Rest, workers
  <1>4. CASE interruptTaskStopped(s)
    <2>1. DiskOK(run', saved', stops', faults', owner)
      BY <1>1, <1>4, Statuses DEF interruptTaskStopped
    <2>2. pausing' \subseteq Task
      BY <1>4 DEF interruptTaskStopped, TypeInv
    <2> QED BY <1>4, <2>1, <2>2, ParametersKeepTypes, TypesTogether
        DEF interruptTaskStopped, Rest, workers
  <1>5. CASE stopRunStopped(s)
    <2>1. Save(NextStopped, stops \ {s}, stops \ {s})
      BY <1>5, NextRuns
    <2>2. NextStopped \in RunType /\ Owns(NextStopped, owner)
      BY NextFields, NextOwns DEF TypeInv, DiskOK
    <2>3. DiskOK(run', saved', stops', faults', owner)
      BY <2>1, <2>2, SaveTypes DEF TypeInv, DiskOK
    <2> QED BY <1>5, <2>3, ParametersKeepTypes, TypesTogether
        DEF stopRunStopped, Rest, workers
  <1> QED BY <1>2, <1>3, <1>4, <1>5

\* Turns that end, or begin, keep their types.
EndsTurns ==
    /\ turn' \in [Dispatch -> {"none", "live", "completed", "failed", "stopped"}]
    /\ \A d \in Dispatch :
           turn'[d] # turn[d] =>
               turn[d] = "live" /\ turn'[d] \in {"completed", "failed", "stopped"}

LEMMA EndsTurnsTypes ==
  ASSUME TypeInv, EndsTurns, UNCHANGED <<owner, settling, write>>
  PROVE  /\ WorkOK(owner', turn', settling', write')
         /\ UNCHANGED pump => PumpOK(pump', owner, turn')
  BY DEF EndsTurns, TypeInv, WorkOK, PumpOK

LEMMA StopKeepsTypes ==
  ASSUME TypeInv, NEW s \in stops, stop(s) \/ unsavedStopped(s)
  PROVE  TypeInv'
  <1>1. CASE stop(s)
    <2>1. EndsTurns
      BY <1>1 DEF stop, EndsTurns, TypeInv, WorkOK
    <2>2. [s EXCEPT !.done = TRUE] \in StopType
      BY DEF TypeInv, DiskOK, StopType
    <2>3. DiskOK(run', saved', stops', faults', owner)
      BY <1>1, <2>2 DEF stop, TypeInv, DiskOK
    <2> QED BY <1>1, <2>1, <2>3, EndsTurnsTypes, ParametersKeepTypes, TypesTogether
        DEF stop, Rest, pumping, TypeInv
  <1>2. CASE unsavedStopped(s)
    <2>1. run' = NextUnsaved(s.tasks)
      BY <1>2, NextRuns
    <2>2. run' \in RunType /\ Owns(run', owner)
      BY <2>1, NextUnsavedFields, NextOwns DEF TypeInv, DiskOK
    <2>3. DiskOK(run', saved', stops', faults', owner)
      BY <1>2, <2>2 DEF unsavedStopped, TypeInv, DiskOK
    <2> QED BY <1>2, <2>3, ParametersKeepTypes, TypesTogether
        DEF unsavedStopped, Rest, workers
  <1> QED BY <1>1, <1>2

\* Saves of the run with another status.
LEMMA StatusTypes ==
  ASSUME TypeInv, NEW status \in RunStatus
  PROVE  /\ [run EXCEPT !.status = status] \in RunType
         /\ Owns([run EXCEPT !.status = status], owner)
  <1> DEFINE r == [run EXCEPT !.status = status]
  <1>1. r \in RunType /\ r.task = run.task
    BY StatusRun DEF TypeInv, DiskOK
  <1> HIDE DEF r
  <1>2. Owns(r, owner)
    BY <1>1 DEF Owns, TypeInv, DiskOK
  <1> QED BY <1>1, <1>2 DEF r

LEMMA RunStatuses == {"active", "paused", "stopped", "finished"} \subseteq RunStatus
  BY DEF RunStatus

LEMMA PauseTypes ==
  ASSUME TypeInv, pause \/ stopRun \/ (\E t \in Task : interruptTask(t))
  PROVE  TypeInv'
  <1>1. CASE pause
    <2>1. Save([run EXCEPT !.status = "paused"], stops, stops)
      BY <1>1 DEF pause
    <2>2. DiskOK(run', saved', stops', faults', owner)
      BY <2>1, StatusTypes, RunStatuses, SaveTypes DEF TypeInv, DiskOK
    <2>3. pausing' \subseteq Task
      BY <1>1 DEF pause, TypeInv
    <2> QED BY <1>1, <2>2, <2>3, ParametersKeepTypes, TypesTogether
        DEF pause, Rest, workers, Upset
  <1>2. CASE stopRun
    <2>1. PICK all : /\ all = [kind |-> "run", tasks |-> ActiveTasks(run),
                               dispatch |-> None, done |-> FALSE]
                     /\ Save([run EXCEPT !.status = "stopped"],
                             stops \cup {all}, stops \cup {all})
      BY <1>2 DEF stopRun
    <2>2. stops \cup {all} \subseteq StopType
      <3>1. ActiveTasks(run) \subseteq Task
        BY DEF ActiveTasks
      <3>2. all \in StopType
        BY <2>1, <3>1 DEF StopType
      <3> QED BY <3>2 DEF TypeInv, DiskOK
    <2>3. DiskOK(run', saved', stops', faults', owner)
      BY <2>1, <2>2, StatusTypes, RunStatuses, SaveTypes DEF TypeInv, DiskOK
    <2> QED BY <1>2, <2>3, ParametersKeepTypes, TypesTogether DEF stopRun, Rest, workers, Upset
  <1>3. ASSUME NEW t \in Task, interruptTask(t) PROVE TypeInv'
    <2>1. DiskOK(run', saved', stops', faults', owner)
      <3>1. CASE run.task[t].status = "running"
        <4>1. stops \cup {StopOf("interrupt", t)} \subseteq StopType
          BY StopOfType DEF TypeInv, DiskOK
        <4> QED BY <1>3, <3>1, <4>1, MarkedTypes, SaveTypes DEF interruptTask, TypeInv, DiskOK
      <3>2. CASE run.task[t].status # "running"
        BY <1>3, <3>2, ParametersKeepTypes DEF interruptTask
      <3> QED BY <3>1, <3>2
    <2>2. pausing' \subseteq Task
      BY <1>3 DEF interruptTask, TypeInv
    <2> QED BY <1>3, <2>1, <2>2, ParametersKeepTypes, TypesTogether
        DEF interruptTask, Rest, workers
  <1> QED BY <1>1, <1>2, <1>3

LEMMA CommandTypes ==
  ASSUME TypeInv, NEW t \in Task, message(t) \/ retry(t) \/ cancel(t) \/ review(t) \/ userStops(t)
  PROVE  TypeInv'
  <1>0. ASSUME NEW op \in {"retry", "cancel", "review"}
        PROVE  [NoOrder EXCEPT !.op = op, !.task = t] \in OrderType
    BY DEF NoOrder, OrderType
  <1>1. CASE message(t)
    <2>1. Save([run EXCEPT !.task[t] = Queued(@)], stops, stops) /\ CallPump
      BY <1>1 DEF message, Requeue
    <2>2. DiskOK(run', saved', stops', faults', owner)
      BY <2>1, QueuedTypes, SaveTypes DEF TypeInv, DiskOK
    <2>3. PumpOK(pump', owner, turn) /\ again' \in BOOLEAN
      BY <2>1, CallPumpTypes
    <2> QED BY <1>1, <2>2, <2>3, ParametersKeepTypes, TypesTogether DEF message, Rest, workers
  <1>2. CASE retry(t)
    <2>1. order' \in OrderType
      BY <1>0, <1>2 DEF retry, Begin
    <2> QED BY <1>2, <2>1, ParametersKeepTypes, TypesTogether
        DEF retry, Rest, workers, pumping
  <1>3. CASE cancel(t)
    <2>1. order' \in OrderType
      BY <1>0, <1>3 DEF cancel, Begin, TypeInv
    <2>2. /\ DiskOK(run', saved', stops', faults', owner)
          /\ PumpOK(pump', owner, turn) /\ again' \in BOOLEAN
      <3>1. CASE run.task[t].status = "cancelled"
        <4>1. Save(run, stops, stops) /\ CallPump
          BY <1>3, <3>1 DEF cancel
        <4> QED BY <4>1, SaveTypes, CallPumpTypes DEF TypeInv, DiskOK
      <3>2. CASE run.task[t].status # "cancelled"
        <4>1. Cancel(t, "cancel")
          BY <1>3, <3>2 DEF cancel, Cancel
        <4> QED BY <4>1, CancelTypes
      <3> QED BY <3>1, <3>2
    <2> QED BY <1>3, <2>1, <2>2, ParametersKeepTypes, TypesTogether DEF cancel, Rest, workers
  <1>4. CASE review(t)
    <2>1. order' \in OrderType
      BY <1>0, <1>4 DEF review, Begin
    <2> QED BY <1>4, <2>1, ParametersKeepTypes, TypesTogether
        DEF review, Rest, workers, pumping
  <1>5. CASE userStops(t)
    <2>1. Cancel(t, "userCancel")
      BY <1>5 DEF userStops
    <2> QED BY <1>5, <2>1, CancelTypes, ParametersKeepTypes, TypesTogether
        DEF userStops, Rest, workers, Upset
  <1> QED BY <1>1, <1>2, <1>3, <1>4, <1>5

\* The task and the receipt of a delegate command.
Delegated(t) == [With(run, t, Created(order.deps, order.request))
                    EXCEPT !.requests = run.requests \cup {order.request}]

LEMMA DelegatedFields ==
  ASSUME TypeInv, order.op = "delegate", NEW t \in Task
  PROVE  /\ Delegated(t) = [run EXCEPT !.task[t] = Created(order.deps, order.request),
                                    !.requests = @ \cup {order.request}]
         /\ Delegated(t) \in RunType /\ Delegated(t).status = run.status
         /\ Delegated(t).requests = run.requests \cup {order.request}
         /\ Delegated(t).task[t] = Created(order.deps, order.request)
         /\ \A u \in Task : u # t => Delegated(t).task[u] = run.task[u]
         /\ order.request \in Request
         /\ Created(order.deps, order.request) \in Record
         /\ Owns(Delegated(t), owner)
  <1>1. /\ order.request \in Request /\ order.deps \subseteq Task
        /\ run \in RunType /\ Owns(run, owner)
    BY DEF TypeInv, DiskOK, OrderType
  <1> DEFINE k == Created(order.deps, order.request)
  <1>2. k \in Record /\ k.active = None
    BY <1>1 DEF Created, Record, TaskStatus
  <1> HIDE DEF k
  <1>3. [run EXCEPT !.task[t] = k, !.requests = @ \cup {order.request}]
          = [With(run, t, k) EXCEPT !.requests = run.requests \cup {order.request}]
    BY <1>1 DEF With, RunType
  <1> DEFINE w == With(run, t, k)
  <1>4. /\ w \in RunType /\ w.status = run.status
        /\ w.task[t] = k
        /\ \A u \in Task : u # t => w.task[u] = run.task[u]
    BY <1>1, <1>2, WithRun
  <1>5. Owns(w, owner)
    BY <1>1, <1>2, OwnsWith
  <1> HIDE DEF w
  <1> DEFINE x == [w EXCEPT !.requests = run.requests \cup {order.request}]
  <1>6. run.requests \cup {order.request} \in SUBSET Request
    BY <1>1, RunTypeFields
  <1>7. /\ x \in RunType /\ x.status = w.status /\ x.task = w.task
        /\ x.requests = run.requests \cup {order.request}
    BY <1>4, <1>6 DEF RunType
  <1> HIDE DEF x
  <1>8. Owns(x, owner)
    BY <1>5, <1>7 DEF Owns
  <1>9. Delegated(t) = x
    BY DEF Delegated, x, w, k
  <1>10. Delegated(t) = [run EXCEPT !.task[t] = Created(order.deps, order.request),
                                 !.requests = @ \cup {order.request}]
    BY <1>3 DEF Delegated, k
  <1>11. k = Created(order.deps, order.request)
    BY DEF k
  <1>12. /\ x.status = run.status /\ x.task[t] = k
         /\ \A u \in Task : u # t => x.task[u] = run.task[u]
    BY <1>4, <1>7
  <1> QED BY <1>1, <1>2, <1>7, <1>8, <1>9, <1>10, <1>11, <1>12

LEMMA DelegatedSave ==
  ASSUME TypeInv, delegateRecord
  PROVE  /\ order.op = "delegate" /\ CallPump /\ order' = NoOrder
         /\ \E t \in Task : /\ Added(t) /\ Affordable(Delegated(t))
                           /\ Save(Delegated(t), stops, stops)
  <1>1. PICK t \in Task :
           LET next == [run EXCEPT !.task[t] = Created(order.deps, order.request),
                                   !.requests = @ \cup {order.request}]
           IN  Added(t) /\ Affordable(next) /\ Save(next, stops, stops)
    BY DEF delegateRecord
  <1>2. Added(t) /\ Affordable(Delegated(t)) /\ Save(Delegated(t), stops, stops)
    BY <1>1, DelegatedFields DEF delegateRecord
  <1> QED BY <1>2 DEF delegateRecord

LEMMA AcceptedFields ==
  ASSUME run \in RunType, NEW t \in Task
  PROVE  /\ [run EXCEPT !.task[t].accepted = TRUE]
              = With(run, t, [run.task[t] EXCEPT !.accepted = TRUE])
         /\ [run.task[t] EXCEPT !.accepted = TRUE] \in Record
         /\ [run.task[t] EXCEPT !.accepted = TRUE].active = run.task[t].active
  <1>1. run.task[t] \in Record
    BY RunTypeFields
  <1>2. [run EXCEPT !.task[t].accepted = TRUE]
              = With(run, t, [run.task[t] EXCEPT !.accepted = TRUE])
    BY DEF With
  <1>3. /\ [run.task[t] EXCEPT !.accepted = TRUE] \in Record
        /\ [run.task[t] EXCEPT !.accepted = TRUE].active = run.task[t].active
    BY <1>1 DEF Record
  <1> QED BY <1>2, <1>3

LEMMA RecordedTypes ==
  ASSUME TypeInv, delegateRecord \/ retryRecord \/ reviewRecord \/ finish
  PROVE  TypeInv'
  <1>0. CallPump /\ UNCHANGED <<starting, pausing, owner, workers, upsets>>
    BY DEF delegateRecord, retryRecord, reviewRecord, finish
  <1>1. order' \in OrderType
    BY NoRunType DEF delegateRecord, retryRecord, reviewRecord, finish, TypeInv
  <1>2. PumpOK(pump', owner, turn) /\ again' \in BOOLEAN
    BY <1>0, CallPumpTypes
  <1>3. run \in RunType /\ Owns(run, owner) /\ Owns(saved, owner) /\ stops \subseteq StopType
    BY DEF TypeInv, DiskOK
  <1>4. DiskOK(run', saved', stops', faults', owner)
    <2>1. CASE delegateRecord
      <3>1. PICK t \in Task : Save(Delegated(t), stops, stops) /\ order.op = "delegate"
        BY <2>1, DelegatedSave
      <3>2. Delegated(t) \in RunType /\ Owns(Delegated(t), owner)
        BY <3>1, DelegatedFields
      <3> QED BY <1>3, <3>1, <3>2, SaveTypes
    <2>2. CASE retryRecord
      <3>1. order.task \in Task
        BY <2>2 DEF retryRecord, TypeInv, OrderType
      <3>2. Save([run EXCEPT !.task[order.task] = Queued(@)], stops, stops)
        BY <2>2 DEF retryRecord, Requeue
      <3> QED BY <1>3, <3>1, <3>2, QueuedTypes, SaveTypes
    <2>3. CASE reviewRecord
      <3>1. order.task \in Task
        BY <2>3 DEF reviewRecord, TypeInv, OrderType
      <3>2. CASE Save([run EXCEPT !.task[order.task].accepted = TRUE], stops, stops)
        <4> DEFINE k == [run.task[order.task] EXCEPT !.accepted = TRUE]
        <4>1. k \in Record /\ k.active = run.task[order.task].active
          BY <1>3, <3>1, AcceptedFields
        <4>2. Save(With(run, order.task, k), stops, stops)
          BY <1>3, <3>1, <3>2, AcceptedFields
        <4> HIDE DEF k
        <4>3. k.active # None => owner[k.active] = order.task
          BY <1>3, <3>1, <4>1 DEF Owns
        <4>4. With(run, order.task, k) \in RunType /\ Owns(With(run, order.task, k), owner)
          BY <1>3, <3>1, <4>1, <4>3, WithRun, OwnsWith
        <4> QED BY <1>3, <4>2, <4>4, SaveTypes
      <3>3. CASE UNCHANGED disk
        BY <3>3, <1>0, ParametersKeepTypes
      <3> QED BY <2>3, <3>2, <3>3 DEF reviewRecord
    <2>4. CASE finish
      <3>1. Save([run EXCEPT !.status = "finished"], stops, stops)
        BY <2>4 DEF finish
      <3> QED BY <1>3, <3>1, StatusTypes, RunStatuses, SaveTypes
    <2> QED BY <2>1, <2>2, <2>3, <2>4
  <1> QED BY <1>0, <1>1, <1>2, <1>4, ParametersKeepTypes, TypesTogether DEF Rest, workers

LEMMA DelegateTypes ==
  ASSUME TypeInv, NEW deps \in SUBSET Task, NEW r \in Request, delegate(deps, r)
  PROVE  TypeInv'
  <1>1. order' \in OrderType
    BY DEF delegate, OrderType
  <1> QED BY <1>1, ParametersKeepTypes, TypesTogether DEF delegate, Rest, workers, pumping

LEMMA WorkerTypes ==
  ASSUME TypeInv, NEW d \in Dispatch,
         TurnEnds(d) \/ observe(d) \/ writeInScope(d) \/ settle(d)
  PROVE  TypeInv'
  <1>1. CASE TurnEnds(d)
    <2>1. EndsTurns
      BY <1>1 DEF TurnEnds, EndsTurns, TypeInv, WorkOK
    <2> QED BY <1>1, <2>1, EndsTurnsTypes, ParametersKeepTypes, TypesTogether
        DEF TurnEnds, Rest, pumping, TypeInv
  <1>2. CASE observe(d)
    <2>1. owner[d] \in Task
      BY <1>2 DEF observe, TypeInv, WorkOK
    <2> DEFINE k == run.task[owner[d]]
    <2>2. k.active \in Dispatch => owner[k.active] # None
      BY <2>1, Constants DEF TypeInv, DiskOK, Owns
    <2>3. \/ write' = [write EXCEPT ![k.active] = "checking"]
          \/ write' = [write EXCEPT ![d] = "missed"]
      BY <1>2 DEF observe
    <2> HIDE DEF k
    <2>4. WorkOK(owner', turn', settling', write')
      BY <1>2, <2>2, <2>3 DEF observe, TypeInv, WorkOK
    <2> QED BY <1>2, <2>4, ParametersKeepTypes, TypesTogether DEF observe, Rest
  <1>3. CASE writeInScope(d)
    <2>1. WorkOK(owner', turn', settling', write')
      BY <1>3 DEF writeInScope, TypeInv, WorkOK
    <2> QED BY <1>3, <2>1, ParametersKeepTypes, TypesTogether DEF writeInScope, Rest
  <1>4. CASE settle(d)
    <2>1. WorkOK(owner', turn', settling', write')
      BY <1>4 DEF settle, TypeInv, WorkOK
    <2> QED BY <1>4, <2>1, ParametersKeepTypes, TypesTogether DEF settle, Rest
  <1> QED BY <1>1, <1>2, <1>3, <1>4

\* The dispatch whose outcome is settled, or whose write is refused, is one of
\* a task.
SettledAs(d) == IF turn[d] = "stopped" THEN "cancelled" ELSE turn[d]

LEMMA SettlesTask ==
  ASSUME TypeInv, NEW d \in Dispatch, settleCommit(d)
  PROVE  /\ owner[d] \in Task /\ SettledAs(d) \in {"completed", "failed", "cancelled"}
         /\ turn[d] \in {"completed", "failed", "stopped"}
         /\ Running(owner[d], d) =>
              /\ Save([run EXCEPT !.task[owner[d]] = Ended(@, SettledAs(d), d)], stops, stops)
              /\ CallPump
         /\ ~Running(owner[d], d) => UNCHANGED <<disk, pumping>>
  BY DEF settleCommit, TypeInv, WorkOK, SettledAs

LEMMA SettledSave ==
  ASSUME TypeInv, NEW d \in Dispatch, owner[d] \in Task, NEW status \in TaskStatus
  PROVE  /\ [run EXCEPT !.task[owner[d]] = Ended(@, status, d)]
              = With(run, owner[d], Ended(run.task[owner[d]], status, d))
         /\ [run EXCEPT !.task[owner[d]] = Ended(@, status, d)] \in RunType
         /\ Owns([run EXCEPT !.task[owner[d]] = Ended(@, status, d)], owner)
  <1>1. run \in RunType /\ run.task[owner[d]] \in Record /\ Owns(run, owner)
    BY RunTypeFields DEF TypeInv, DiskOK
  <1>2. [run EXCEPT !.task[owner[d]] = Ended(@, status, d)]
          = With(run, owner[d], Ended(run.task[owner[d]], status, d))
    BY <1>1 DEF With
  <1>3. /\ Ended(run.task[owner[d]], status, d) \in Record
        /\ Ended(run.task[owner[d]], status, d).active = None
    BY <1>1, EndedRecord
  <1> QED BY <1>1, <1>2, <1>3, WithRun, OwnsWith

LEMMA SettleTypes ==
  ASSUME TypeInv, NEW d \in Dispatch, settleCommit(d) \/ blockTask(d)
  PROVE  TypeInv'
  <1>0. stops \subseteq StopType /\ Owns(saved, owner)
    BY DEF TypeInv, DiskOK
  <1>1. CASE settleCommit(d)
    <2>1. owner[d] \in Task /\ SettledAs(d) \in TaskStatus
      BY <1>1, SettlesTask, Statuses
    <2>2. /\ DiskOK(run', saved', stops', faults', owner)
          /\ PumpOK(pump', owner, turn) /\ again' \in BOOLEAN
      <3>1. CASE Running(owner[d], d)
        BY <1>0, <1>1, <2>1, <3>1, SettlesTask, SettledSave, SaveTypes, CallPumpTypes
      <3>2. CASE ~Running(owner[d], d)
        <4>1. UNCHANGED <<disk, pumping, owner, turn>>
          BY <1>1, <3>2, SettlesTask DEF settleCommit
        <4> QED BY <4>1, ParametersKeepTypes
      <3> QED BY <3>1, <3>2
    <2>3. WorkOK(owner', turn', settling', write')
      BY <1>1 DEF settleCommit, TypeInv, WorkOK
    <2> QED BY <1>1, <2>2, <2>3, ParametersKeepTypes, TypesTogether DEF settleCommit, Rest
  <1>2. CASE blockTask(d)
    <2>1. owner[d] \in Task
      BY <1>2 DEF blockTask, TypeInv, WorkOK
    <2>2. DiskOK(run', saved', stops', faults', owner)
      <3>1. CASE run.status = "active" /\ Running(owner[d], d)
        <4>1. stops \cup {StopOf("block", owner[d])} \subseteq StopType
          BY <1>0, <2>1, StopOfType
        <4>2. Save([run EXCEPT !.task[owner[d]].status = "cancelling"],
                   stops \cup {StopOf("block", owner[d])}, stops)
          BY <1>2, <3>1 DEF blockTask
        <4> QED BY <1>0, <2>1, <4>1, <4>2, MarkedTypes, SaveTypes
      <3>2. CASE ~(run.status = "active" /\ Running(owner[d], d))
        BY <1>2, <3>2, ParametersKeepTypes DEF blockTask
      <3> QED BY <3>1, <3>2
    <2>3. WorkOK(owner', turn', settling', write')
      BY <1>2 DEF blockTask, TypeInv, WorkOK
    <2> QED BY <1>2, <2>2, <2>3, ParametersKeepTypes, TypesTogether DEF blockTask, Rest
  <1> QED BY <1>1, <1>2

LEMMA ReloadTypes ==
  ASSUME TypeInv, reload \/ hydrate PROVE TypeInv'
  <1>1. CASE reload
    <2>1. DiskOK(run', saved', stops', faults', owner)
      BY <1>1, NoRunType DEF reload, TypeInv, DiskOK
    <2>2. PumpOK(pump', owner, turn') /\ again' \in BOOLEAN
      BY <1>1, NoRunType DEF reload, PumpOK, PreparingIn, IdlePump
    <2>3. WorkOK(owner', turn', settling', write')
      BY <1>1 DEF reload, TypeInv, WorkOK
    <2>4. starting' \in RunType /\ Owns(starting', owner) /\ order' \in OrderType
      BY <1>1, NoRunType DEF reload
    <2> QED BY <1>1, <2>1, <2>2, <2>3, <2>4, ParametersKeepTypes, TypesTogether
        DEF reload, Rest, Upset
  <1>2. CASE hydrate
    <2>1. EndsTurns
      BY <1>2 DEF hydrate, EndsTurns, TypeInv, WorkOK
    <2>2. Save(NextHydrated, stops, stops)
      BY <1>2, NextRuns
    <2>3. DiskOK(run', saved', stops', faults', owner)
      BY <2>2, NextFields, NextOwns, SaveTypes DEF TypeInv, DiskOK
    <2> QED BY <1>2, <2>1, <2>3, EndsTurnsTypes, ParametersKeepTypes, TypesTogether
        DEF hydrate, Rest, pumping, TypeInv
  <1> QED BY <1>1, <1>2

\* What the dispatcher picks.
PickedTask == Min({u \in pump.todo : Ready(run, u)})
PickedDispatch == Min(Dispatch \ Used)
Dispatched(t, d) == [run.task[t] EXCEPT !.status = "running", !.active = d]

LEMMA Picked ==
  ASSUME TypeInv, pumpDispatch
  PROVE  /\ PickedTask \in pump.todo /\ PickedTask \in Task /\ Ready(run, PickedTask)
         /\ \A u \in pump.todo : Ready(run, u) => PickedTask <= u
         /\ PickedDispatch \in Dispatch /\ owner[PickedDispatch] = None
         /\ \A d \in Dispatch : owner[d] # None => d < PickedDispatch
         /\ \A d \in Dispatch : d < PickedDispatch => owner[d] # None
  <1> DEFINE S == {u \in pump.todo : Ready(run, u)}
             F == Dispatch \ Used
  <1>1. S \in SUBSET Task /\ S # {} /\ F \in SUBSET Dispatch /\ F # {}
    BY DEF pumpDispatch, TypeInv, PumpOK, PumpType, Used
  <1>2. S \in SUBSET Nat /\ F \in SUBSET Nat
    BY <1>1, Constants
  <1> DEFINE t == Min(S)
             d == Min(F)
  <1>3. t \in S /\ (\A u \in S : t <= u) /\ d \in F /\ (\A e \in F : d <= e)
    <2> HIDE DEF S, F
    <2> QED BY <1>1, <1>2, MinIsLeast
  <1>4. t = PickedTask /\ d = PickedDispatch
    BY DEF PickedTask, PickedDispatch
  <1> HIDE DEF t, d
  <1>5. d \in Dispatch /\ owner[d] = None
    BY <1>3 DEF Used
  <1>6. \A e \in Dispatch : e < d => owner[e] # None
    BY <1>3, <1>5, Constants DEF Used
  <1>7. \A e \in Dispatch : owner[e] # None => e < d
    <2> SUFFICES ASSUME NEW e \in Dispatch, owner[e] # None PROVE e < d
      OBVIOUS
    <2>1. e \in Nat /\ d \in Nat /\ e # d
      BY <1>5, Constants
    <2>2. ~(d < e)
      BY <1>5 DEF TypeInv, WorkOK
    <2> QED BY <2>1, <2>2
  <1>8. t \in pump.todo /\ t \in Task /\ Ready(run, t)
    BY <1>1, <1>3
  <1>9. \A u \in pump.todo : Ready(run, u) => t <= u
    BY <1>3
  <1> QED BY <1>4, <1>5, <1>6, <1>7, <1>8, <1>9

LEMMA DispatchSave ==
  ASSUME TypeInv, pumpDispatch, NEW t, NEW d, t = PickedTask, d = PickedDispatch
  PROVE  /\ Dispatched(t, d) \in Record
         /\ Dispatched(t, d).status = "running" /\ Dispatched(t, d).active = d
         /\ Dispatched(t, d).last = run.task[t].last
         /\ Dispatched(t, d).accepted = run.task[t].accepted
         /\ Dispatched(t, d).by = run.task[t].by
         /\ Save(With(run, t, Dispatched(t, d)), stops, stops)
         /\ owner' = [owner EXCEPT ![d] = t]
         /\ pump' = IF Saved
                    THEN [stage |-> "create", todo |-> {u \in pump.todo : u > t},
                          task |-> t, dispatch |-> d, seen |-> NoRun]
                    ELSE IdlePump
  <1>1. t \in Task /\ d \in Dispatch
    BY Picked
  <1>2. run \in RunType /\ run.task[t] \in Record
    BY <1>1, RunTypeFields DEF TypeInv, DiskOK
  <1>3. /\ Dispatched(t, d) \in Record
        /\ Dispatched(t, d).status = "running" /\ Dispatched(t, d).active = d
        /\ Dispatched(t, d).last = run.task[t].last
        /\ Dispatched(t, d).accepted = run.task[t].accepted
        /\ Dispatched(t, d).by = run.task[t].by
    BY <1>1, <1>2 DEF Dispatched, Record, TaskStatus
  <1>4. [run EXCEPT !.task[t].status = "running", !.task[t].active = d]
          = With(run, t, Dispatched(t, d))
    BY <1>1, <1>2 DEF With, Dispatched, RunType
  <1>5. /\ Save([run EXCEPT !.task[t].status = "running", !.task[t].active = d], stops, stops)
        /\ owner' = [owner EXCEPT ![d] = t]
        /\ pump' = IF Saved
                   THEN [stage |-> "create", todo |-> {u \in pump.todo : u > t},
                         task |-> t, dispatch |-> d, seen |-> NoRun]
                   ELSE IdlePump
    BY DEF pumpDispatch, PickedTask, PickedDispatch
  <1> QED BY <1>3, <1>4, <1>5

\* A new owner takes nothing from the others.
LEMMA NewOwner ==
  ASSUME NEW r, NEW d \in Dispatch, NEW t \in Task, owner[d] = None,
         owner \in [Dispatch -> Task \cup {None}], r \in RunType, Owns(r, owner)
  PROVE  Owns(r, [owner EXCEPT ![d] = t])
  <1> SUFFICES ASSUME NEW u \in Task, r.task[u].active # None
               PROVE  [owner EXCEPT ![d] = t][r.task[u].active] = u
    BY DEF Owns
  <1>1. r.task[u].active \in Dispatch /\ owner[r.task[u].active] = u /\ u # None
    BY RunTypeFields, Constants DEF Owns, Record
  <1> QED BY <1>1

LEMMA DispatchTypes ==
  ASSUME TypeInv, pumpDispatch PROVE TypeInv'
  <1> DEFINE t == PickedTask
             d == PickedDispatch
             k == Dispatched(t, d)
  <1>1. /\ t \in Task /\ d \in Dispatch /\ owner[d] = None
        /\ \A e \in Dispatch : owner[e] # None => e < d
        /\ \A e \in Dispatch : e < d => owner[e] # None
    BY Picked
  <1>2. /\ k \in Record /\ k.active = d
        /\ Save(With(run, t, k), stops, stops)
        /\ owner' = [owner EXCEPT ![d] = t]
        /\ pump' = IF Saved
                   THEN [stage |-> "create", todo |-> {u \in pump.todo : u > t},
                         task |-> t, dispatch |-> d, seen |-> NoRun]
                   ELSE IdlePump
    BY DispatchSave
  <1> HIDE DEF t, d, k
  <1>3. /\ run \in RunType /\ saved \in RunType /\ Owns(run, owner) /\ Owns(saved, owner)
        /\ owner \in [Dispatch -> Task \cup {None}] /\ stops \subseteq StopType
        /\ starting \in RunType /\ Owns(starting, owner)
    BY DEF TypeInv, DiskOK, WorkOK
  <1>4. Owns(run, owner') /\ Owns(saved, owner') /\ Owns(starting, owner') /\ owner'[d] = t
    BY <1>1, <1>2, <1>3, NewOwner
  <1>5. With(run, t, k) \in RunType /\ Owns(With(run, t, k), owner')
    <2>1. With(run, t, k) \in RunType
      BY <1>1, <1>2, <1>3, WithRun
    <2>2. Owns(With(run, t, k), owner')
      BY <1>1, <1>2, <1>3, <1>4, OwnsWith
    <2> QED BY <2>1, <2>2
  <1>6. DiskOK(run', saved', stops', faults', owner')
    BY <1>2, <1>3, <1>4, <1>5, SaveTypes
  <1>7. WorkOK(owner', turn', settling', write')
    <2>1. UNCHANGED workers
      BY DEF pumpDispatch
    <2>2. owner' \in [Dispatch -> Task \cup {None}]
      BY <1>1, <1>2, <1>3
    <2>3. \A e \in Dispatch : owner[e] # None => owner'[e] # None
      BY <1>1, <1>2, <1>3, Constants
    <2>4. ASSUME NEW x \in Dispatch, NEW e \in Dispatch, owner'[x] # None, e < x
          PROVE  owner'[e] # None
      <3>1. owner[x] # None \/ x = d
        BY <1>2, <1>3, <2>4
      <3>2. owner[e] # None
        BY <1>1, <2>4, <3>1 DEF TypeInv, WorkOK
      <3> QED BY <2>3, <3>2
    <2> QED BY <2>1, <2>2, <2>3, <2>4 DEF workers, TypeInv, WorkOK
  <1>8. PumpOK(pump', owner', turn') /\ again' \in BOOLEAN
    <2>1. UNCHANGED turn /\ again' \in BOOLEAN
      BY DEF pumpDispatch, workers, TypeInv
    <2>2. turn[d] = "none"
      BY <1>1 DEF TypeInv, WorkOK
    <2>3. CASE Saved
      <3>1. {u \in pump.todo : u > t} \in SUBSET Task
        BY DEF TypeInv, PumpOK, PumpType
      <3>2. pump' \in PumpType
        BY <1>1, <1>2, <2>3, <3>1, NoRunType DEF PumpType
      <3> QED BY <1>1, <1>2, <1>4, <2>1, <2>2, <2>3, <3>2, NoRunType DEF PumpOK, PreparingIn
    <2>4. CASE ~Saved
      BY <1>2, <2>1, <2>4, NoRunType DEF PumpOK, PreparingIn, IdlePump
    <2> QED BY <2>1, <2>3, <2>4
  <1> QED BY <1>3, <1>4, <1>6, <1>7, <1>8 DEF pumpDispatch, TypeInv

LEMMA PumpTypes ==
  ASSUME TypeInv,
         pumpEnds \/ pumpCreated \/ pumpFailed \/ pumpPrepared \/ pumpSubmit
  PROVE  TypeInv'
  <1>0. /\ run \in RunType /\ Owns(run, owner) /\ Owns(saved, owner) /\ stops \subseteq StopType
        /\ pump \in PumpType /\ Owns(pump.seen, owner) /\ pump.seen \in RunType
        /\ PumpOK(pump, owner, turn)
    BY DEF TypeInv, DiskOK, PumpOK, PumpType
  <1>1. CASE pumpEnds
    <2>1. ASSUME NEW todo \in SUBSET Task
          PROVE  PumpOK([IdlePump EXCEPT !.stage = "scan", !.todo = todo], owner, turn)
      BY NoRunType DEF IdlePump, PumpOK, PumpType, PreparingIn
    <2>2. PumpOK(IdlePump, owner, turn)
      BY NoRunType DEF IdlePump, PumpOK, PreparingIn
    <2>3. PumpOK(pump', owner, turn) /\ again' \in BOOLEAN
      BY <1>1, <2>1, <2>2 DEF pumpEnds
    <2> QED BY <1>1, <2>3, ParametersKeepTypes, TypesTogether DEF pumpEnds, Rest, workers
  <1>2. CASE pumpCreated
    <2>1. PumpOK([pump EXCEPT !.stage = "scopes", !.seen = run], owner, turn)
      <3>1. pump.stage = "create"
        BY <1>2 DEF pumpCreated
      <3>2. [pump EXCEPT !.stage = "scopes", !.seen = run] \in PumpType
        BY <1>0 DEF PumpType
      <3>3. /\ [pump EXCEPT !.stage = "scopes", !.seen = run].seen = run
            /\ [pump EXCEPT !.stage = "scopes", !.seen = run].task = pump.task
            /\ [pump EXCEPT !.stage = "scopes", !.seen = run].dispatch = pump.dispatch
        BY <1>0 DEF PumpType
      <3> QED BY <1>0, <3>1, <3>2, <3>3 DEF PumpOK, PreparingIn
    <2>2. PumpOK(pump', owner, turn) /\ again' \in BOOLEAN
      BY <1>2, <2>1, NextTaskTypes DEF pumpCreated, TypeInv
    <2> QED BY <1>2, <2>2, ParametersKeepTypes, TypesTogether DEF pumpCreated, Rest, workers
  <1>3. ASSUME NEW outcome \in {"failed", "live"},
               turn' = [turn EXCEPT ![pump.dispatch] = outcome] \/ UNCHANGED turn,
               PreparingIn(pump), UNCHANGED <<owner, settling, write>>
        PROVE  WorkOK(owner', turn', settling', write')
    BY <1>0, <1>3, Constants DEF TypeInv, WorkOK, PumpOK
  <1>4. CASE pumpFailed
    <2>1. WorkOK(owner', turn', settling', write')
      BY <1>3, <1>4 DEF pumpFailed, PreparingIn
    <2> QED BY <1>4, <2>1, NextTaskTypes, ParametersKeepTypes, TypesTogether
        DEF pumpFailed, Rest, TypeInv
  <1>5. CASE pumpPrepared
    <2>1. Save(pump.seen, stops, stops) /\ UNCHANGED <<owner, turn>>
      BY <1>5 DEF pumpPrepared, workers
    <2>2. DiskOK(run', saved', stops', faults', owner)
      BY <1>0, <2>1, SaveTypes
    <2>3. PumpOK([pump EXCEPT !.stage = "submit", !.seen = NoRun], owner, turn)
      <3>1. pump.stage = "scopes"
        BY <1>5 DEF pumpPrepared
      <3>2. [pump EXCEPT !.stage = "submit", !.seen = NoRun] \in PumpType
        BY <1>0, NoRunType DEF PumpType
      <3>3. /\ [pump EXCEPT !.stage = "submit", !.seen = NoRun].seen = NoRun
            /\ [pump EXCEPT !.stage = "submit", !.seen = NoRun].task = pump.task
            /\ [pump EXCEPT !.stage = "submit", !.seen = NoRun].dispatch = pump.dispatch
        BY <1>0 DEF PumpType
      <3> QED BY <1>0, <3>1, <3>2, <3>3, NoRunType DEF PumpOK, PreparingIn
    <2>4. PumpOK(pump', owner, turn) /\ again' \in BOOLEAN
      BY <1>5, <2>3, NextTaskTypes DEF pumpPrepared, TypeInv
    <2> QED BY <1>5, <2>1, <2>2, <2>4, ParametersKeepTypes, TypesTogether
        DEF pumpPrepared, Rest, workers
  <1>6. CASE pumpSubmit
    <2>1. WorkOK(owner', turn', settling', write')
      BY <1>3, <1>6 DEF pumpSubmit, PreparingIn
    <2> QED BY <1>6, <2>1, NextTaskTypes, ParametersKeepTypes, TypesTogether
        DEF pumpSubmit, Rest, TypeInv
  <1> QED BY <1>1, <1>2, <1>4, <1>5, <1>6

LEMMA TypeInit == Init => TypeInv
  <1> SUFFICES ASSUME Init PROVE TypeInv
    OBVIOUS
  <1>1. DiskOK(run, saved, stops, faults, owner)
    BY NoRunType, Constants DEF Init, DiskOK
  <1>2. PumpOK(pump, owner, turn)
    BY NoRunType DEF Init, PumpOK, PreparingIn, IdlePump
  <1>3. WorkOK(owner, turn, settling, write)
    BY DEF Init, WorkOK
  <1>4. starting \in RunType /\ Owns(starting, owner) /\ order \in OrderType
    BY NoRunType DEF Init
  <1>5. again \in BOOLEAN /\ pausing \subseteq Task /\ upsets \in 0..MaxUpsets
    <2>1. again = FALSE /\ pausing = {} /\ upsets = 0
      BY DEF Init
    <2>2. 0 \in 0..MaxUpsets
      BY Constants
    <2> QED BY <2>1, <2>2
  <1> QED BY <1>1, <1>2, <1>3, <1>4, <1>5 DEF TypeInv

LEMMA TypeStep == TypeInv /\ [Next]_vars => TypeInv'
  <1> SUFFICES ASSUME TypeInv, [Next]_vars PROVE TypeInv'
    OBVIOUS
  <1>1. CASE pumpDispatch \/ pumpEnds
    BY <1>1, DispatchTypes, PumpTypes
  <1>2. CASE Awaited
    BY <1>2, ResumeTypes, PumpTypes, RecordedTypes, WorkerTypes, SettleTypes, PauseTypes,
       StopKeepsTypes, StopTypes
    DEF Awaited
  <1>3. CASE Commands
    BY <1>3, RecordedTypes, DelegateTypes, CommandTypes DEF Commands
  <1>4. CASE Environment
    BY <1>4, ResumeTypes, PauseTypes, PumpTypes, ReloadTypes, WorkerTypes, CommandTypes
    DEF Environment
  <1>5. CASE UNCHANGED vars
    BY <1>5, ParametersKeepTypes, TypesTogether
    DEF vars, Rest, disk, pumping, workers
  <1> QED BY <1>1, <1>2, <1>3, <1>4, <1>5 DEF Next

\* What was undone stays undone.
LEMMA HistoryStep ==
  ASSUME [Next]_vars, overtaken \in BOOLEAN
  PROVE  overtaken' \in BOOLEAN /\ (overtaken => overtaken')
  <1>1. CASE pumpDispatch \/ pumpEnds
    BY <1>1 DEF pumpDispatch, pumpEnds
  <1>2. CASE Awaited
    BY <1>2 DEF Awaited, startRunCommit, pumpCreated, pumpPrepared, pumpSubmit,
       delegateRecord, retryRecord, reviewRecord, settle, settleCommit, writeInScope,
       blockTask, interruptTask, stop, cancelTaskStopped, blockTaskStopped,
       interruptTaskStopped, unsavedStopped, stopRunStopped, Overtaken
  <1>3. CASE Commands
    BY <1>3 DEF Commands, finish, delegate, message, retry, cancel, review
  <1>4. CASE Environment
    BY <1>4 DEF Environment, startRun, stopRun, pause, pumpFailed, reload, hydrate,
       TurnEnds, observe, userStops
  <1>5. CASE UNCHANGED vars
    BY <1>5 DEF vars
  <1> QED BY <1>1, <1>2, <1>3, <1>4, <1>5 DEF Next

\* The run in memory and on disk, the stops, the dispatcher, the lead's command
\* and the workers keep their shapes, whatever overtakes what.
THEOREM RunTypeCorrect == Spec => []TypeOK
  <1>1. Init => TypeInv /\ overtaken \in BOOLEAN
    BY TypeInit DEF Init
  <1>2. (TypeInv /\ overtaken \in BOOLEAN) /\ [Next]_vars
          => (TypeInv /\ overtaken \in BOOLEAN)'
    BY TypeStep, HistoryStep
  <1>3. TypeInv /\ overtaken \in BOOLEAN => TypeOK
    BY TypeInvImplies
  <1> QED BY <1>1, <1>2, <1>3, PTL DEF Spec

-----------------------------------------------------------------------------
(* Runs that fit *)

LEMMA FailedActive ==
  ASSUME NEW r \in RunType
  PROVE  /\ ActiveTasks(Failed(r)) = ActiveTasks(r)
         /\ \A t \in Task : Failed(r).task[t].status # "running"
         /\ \A t \in Task : Failed(r).task[t].status = "cancelling" <=> t \in ActiveTasks(r)
         /\ \A t \in Task : t \notin ActiveTasks(r) =>
                Failed(r).task[t].status = r.task[t].status
  BY FailedFields DEF ActiveTasks, activeTask

LEMMA FailedRunOK ==
  ASSUME NEW r \in RunType, NEW O, NEW T, NEW W, RunOK(r, O, T, W)
  PROVE  RunOK(Failed(r), O, T, W)
  <1>1. ASSUME NEW t \in Task PROVE RecordOK(Failed(r).task[t], t, O, T, W)
    <2> DEFINE k == r.task[t]
               f == Failed(r).task[t]
    <2>1. /\ f.status = IF activeTask(k) THEN "cancelling" ELSE k.status
          /\ f.active = k.active /\ f.last = k.last /\ f.accepted = k.accepted
      BY FailedFields
    <2>2. RecordOK(k, t, O, T, W)
      BY DEF RunOK
    <2> HIDE DEF k, f
    <2>3. RecordOK(f, t, O, T, W)
      BY <2>1, <2>2 DEF RecordOK, activeTask, OwnResult
    <2> QED BY <2>3 DEF f
  <1>2. Apart(Failed(r))
    BY FailedActive DEF RunOK, Apart
  <1>3. Receipts(Failed(r))
    BY FailedFields DEF RunOK, Receipts
  <1> QED BY <1>1, <1>2, <1>3 DEF RunOK

LEMMA FailedLives ==
  ASSUME NEW r \in RunType, NEW O, NEW T, Lives(r, O, T),
         \A d \in Dispatch : T[d] = "live" => O[d] \in Task
  PROVE  Lives(Failed(r), O, T)
  BY FailedFields DEF Lives

LEMMA FailedStops ==
  ASSUME NEW r \in RunType, NEW S \in SUBSET StopType, NEW ko \in SUBSET S,
         NEW O, NEW T, NEW W, RunOK(r, O, T, W), StopsOK(r, S, O, T)
  PROVE  StopsOK(Failed(r), ko \cup Unsaved(r), O, T)
  <1>1. ASSUME NEW s \in ko PROVE StopFits(s, Failed(r), O, T)
    <2>1. s \in StopType /\ StopFits(s, r, O, T) /\ s.tasks \subseteq Task
      BY DEF StopsOK, StopType
    <2>2. \A t \in Task : /\ LatestTurn(Failed(r).task[t]) = LatestTurn(r.task[t])
                          /\ Failed(r).task[t].status \in {"cancelling", r.task[t].status}
                          /\ Failed(r).task[t].status # "running"
      BY FailedFields, FailedActive DEF LatestTurn
    <2>3. s.kind # "run" => O[s.dispatch] \in Task
      BY <2>1 DEF StopFits
    <2>4. Failed(r).status = "paused" /\ ActiveTasks(Failed(r)) = ActiveTasks(r)
      BY FailedActive DEF Failed
    <2> QED BY <2>1, <2>2, <2>3, <2>4 DEF StopFits
  <1>2. ASSUME NEW s \in Unsaved(r) PROVE StopFits(s, Failed(r), O, T)
    <2>1. PICK t \in ActiveTasks(r) :
             s = [kind |-> "unsaved", tasks |-> {t}, dispatch |-> r.task[t].active,
                  done |-> FALSE]
      BY DEF Unsaved
    <2>2. t \in Task /\ RecordOK(r.task[t], t, O, T, W)
      BY DEF ActiveTasks, RunOK
    <2>3. /\ Failed(r).task[t].status = "cancelling" /\ Failed(r).status = "paused"
      BY <2>1, <2>2, FailedActive, FailedFields
    <2>4. r.task[t].active # None /\ O[r.task[t].active] = t
      BY <2>2 DEF RecordOK, ActiveTasks
    <2>5. /\ s.kind = "unsaved" /\ s.dispatch = r.task[t].active /\ s.tasks = {t}
          /\ s.done = FALSE
      BY <2>1
    <2> QED BY <2>3, <2>4, <2>5 DEF StopFits
  <1>3. ASSUME NEW t \in Task, Failed(r).task[t].status = "cancelling"
        PROVE  \E s \in ko \cup Unsaved(r) : t \in s.tasks
    <2>1. t \in ActiveTasks(r)
      BY <1>3, FailedActive
    <2> DEFINE s == [kind |-> "unsaved", tasks |-> {t}, dispatch |-> r.task[t].active,
                     done |-> FALSE]
    <2>2. s \in Unsaved(r) /\ t \in s.tasks
      BY <2>1 DEF Unsaved
    <2> QED BY <2>2
  <1> QED BY <1>1, <1>2, <1>3 DEF StopsOK

LEMMA FailedFit ==
  ASSUME NEW r \in RunType, NEW S \in SUBSET StopType, NEW ko \in SUBSET S,
         NEW O, NEW T, NEW W, Fit(r, S, O, T, W),
         \A d \in Dispatch : T[d] = "live" => O[d] \in Task
  PROVE  Fit(Failed(r), ko \cup Unsaved(r), O, T, W)
  <1>1. RunOK(r, O, T, W) /\ Lives(r, O, T) /\ StopsOK(r, S, O, T)
    BY DEF Fit
  <1>2. InScope(Failed(r), W)
    BY FailedActive DEF InScope
  <1>3. Resumed(Failed(r))
    BY FailedFields DEF Resumed, Failed
  <1> QED BY <1>1, <1>2, <1>3, FailedRunOK, FailedLives, FailedStops DEF Fit

LEMMA SaveFit ==
  ASSUME NEW next \in RunType, NEW ok \in SUBSET StopType, NEW ko \in SUBSET ok,
         Save(next, ok, ko), NEW O, NEW T, NEW W, Fit(next, ok, O, T, W),
         \A d \in Dispatch : T[d] = "live" => O[d] \in Task
  PROVE  Fit(run', stops', O, T, W)
  <1>1. CASE Succeeds(next, ok)
    BY <1>1 DEF Succeeds
  <1>2. CASE Fails(next, ko)
    BY <1>2, FailedFit DEF Fails
  <1> QED BY <1>1, <1>2, SaveCases

LEMMA SaveDisk ==
  ASSUME NEW next \in RunType, NEW ok, NEW ko, NEW S, Save(next, ok, ko),
         NEW O, NEW T, NEW W, Fit(next, S, O, T, W),
         RunOK(saved, O, T, W), Lives(saved, O, T)
  PROVE  RunOK(saved', O, T, W) /\ Lives(saved', O, T)
  BY SaveCases DEF Succeeds, Fails, Fit

LEMMA SaveSync ==
  ASSUME NEW next \in RunType, NEW ok, NEW ko, Save(next, ok, ko), Sync,
         next.status # "none", next.status = "active" => pausing' = {}
  PROVE  Sync'
  <1>1. CASE Succeeds(next, ok)
    BY <1>1 DEF Succeeds, Sync
  <1>2. CASE Fails(next, ko)
    <2>1. run'.status = "paused"
      BY <1>2 DEF Fails, Failed
    <2> QED BY <1>2, <2>1 DEF Fails, Sync
  <1> QED BY <1>1, <1>2, SaveCases

LEMMA SaveActive ==
  ASSUME NEW next \in RunType, NEW ok, NEW ko, Save(next, ok, ko), NEW t \in Task
  PROVE  run'.task[t].active = next.task[t].active
  BY SaveCases, FailedFields DEF Succeeds, Fails

\* The task of a command is not one that is being stopped.
LEMMA SaveOrdered ==
  ASSUME NEW next \in RunType, NEW ok, NEW ko \in SUBSET ok, Save(next, ok, ko),
         NEW o \in OrderType, NEW O, NEW T, OrderOK(o, next, ok, O, T)
  PROVE  OrderOK(o, run', stops', O, T)
  <1>1. CASE Succeeds(next, ok)
    BY <1>1 DEF Succeeds
  <1>2. CASE Fails(next, ko)
    <2>0. run' = Failed(next) /\ stops' = ko \cup Unsaved(next)
      BY <1>2 DEF Fails
    <2>1. CASE o.op = "delegate"
      <3>1. o.request \notin Failed(next).requests
        BY <2>1 DEF OrderOK, Failed
      <3> QED BY <2>0, <2>1, <3>1 DEF OrderOK
    <2>2. CASE o.op \in {"retry", "review"}
      <3>1. /\ o.task \in Task
            /\ next.task[o.task].status \in {"completed", "failed", "blocked", "cancelled"}
            /\ \A s \in ok : s.kind = "interrupt" => o.task \notin s.tasks
        BY <2>2 DEF OrderOK, OrderType
      <3>2. o.task \notin ActiveTasks(next)
        BY <3>1 DEF ActiveTasks, activeTask
      <3>3. Failed(next).task[o.task].status = next.task[o.task].status
        BY <3>1, <3>2, FailedActive
      <3>4. \A s \in Unsaved(next) : o.task \notin s.tasks
        BY <3>1, <3>2 DEF Unsaved
      <3>5. \A s \in ko \cup Unsaved(next) : s.kind = "interrupt" => o.task \notin s.tasks
        BY <3>1, <3>4
      <3>6. Failed(next).task[o.task].last = next.task[o.task].last
        BY <3>1, FailedFields
      <3>7. CASE o.op = "review"
        <4>1. /\ next.task[o.task].status \in {"completed", "cancelled"}
              /\ OwnResult(next.task[o.task], o.task, O, T)
              /\ \A s \in ok : o.task \in s.tasks => s.dispatch # next.task[o.task].last
          BY <3>7 DEF OrderOK
        <4>2. \A s \in ko \cup Unsaved(next) :
                 o.task \in s.tasks => s.dispatch # Failed(next).task[o.task].last
          BY <4>1, <3>4, <3>6
        <4>3. OwnResult(Failed(next).task[o.task], o.task, O, T)
          BY <4>1, <3>6 DEF OwnResult
        <4> QED BY <2>0, <3>7, <3>1, <3>3, <3>5, <4>1, <4>2, <4>3 DEF OrderOK
      <3> QED BY <2>0, <2>2, <3>1, <3>3, <3>5, <3>7 DEF OrderOK
    <2>3. CASE o.op \notin {"delegate", "retry", "review"}
      BY <2>3 DEF OrderOK
    <2> QED BY <2>1, <2>2, <2>3
  <1> QED BY <1>1, <1>2, SaveCases

LEMMA LiveOwned ==
  ASSUME TypeInv, NEW d \in Dispatch, turn[d] = "live"
  PROVE  owner[d] \in Task
  BY DEF TypeInv, WorkOK

\* What is to be saved fits, so what the save leaves fits.
LEMMA RunSave ==
  ASSUME TypeInv, TypeInv', CoreInv,
         NEW next \in RunType, NEW ok \in SUBSET StopType, NEW ko \in SUBSET ok,
         Save(next, ok, ko), next.status # "none",
         UNCHANGED <<owner, turn>>, RunOK(saved, owner, turn, write'),
         Fit(next, ok, owner, turn, write'),
         OrderOK(order', next, ok, owner, turn),
         next.status = "active" => pausing' = {},
         PreparingIn(pump') => /\ PreparingIn(pump) /\ pump'.task = pump.task
                               /\ pump'.dispatch = pump.dispatch,
         \A t \in Task : next.task[t].active \in {None, run.task[t].active}
  PROVE  CoreInv'
  <1>1. \A d \in Dispatch : turn[d] = "live" => owner[d] \in Task
    BY LiveOwned
  <1>2. Sync'
    BY SaveSync DEF CoreInv
  <1>3. InMemory'
    BY <1>1, SaveFit DEF InMemory
  <1>4. OnDisk'
    <2>1. RunOK(saved', owner, turn, write') /\ Lives(saved', owner, turn)
      BY SaveDisk DEF CoreInv, OnDisk
    <2> QED BY <2>1 DEF OnDisk
  <1>5. Dispatching'
    <2>1. ASSUME PreparingIn(pump')
          PROVE  run'.task[pump'.task].active \in {None, pump'.dispatch}
      <3>1. pump.task \in Task /\ run.task[pump.task].active \in {None, pump.dispatch}
        BY <2>1 DEF CoreInv, Dispatching, TypeInv, PumpOK
      <3>2. run'.task[pump.task].active = next.task[pump.task].active
        BY <3>1, SaveActive
      <3> QED BY <2>1, <3>1, <3>2
    <2> QED BY <2>1 DEF Dispatching
  <1>6. Ordered'
    <2>1. order' \in OrderType
      BY DEF TypeInv
    <2>2. OrderOK(order', run', stops', owner, turn)
      BY <2>1, SaveOrdered
    <2> QED BY <2>2 DEF Ordered
  <1> QED BY <1>2, <1>3, <1>4, <1>5, <1>6 DEF CoreInv

LEMMA ActiveFinite ==
  ASSUME NEW r
  PROVE  /\ ActiveTasks(r) \subseteq Task /\ IsFiniteSet(ActiveTasks(r))
         /\ Cardinality(ActiveTasks(r)) \in Nat
  <1>1. ActiveTasks(r) \in SUBSET Task
    BY DEF ActiveTasks
  <1> QED BY <1>1, Constants, FS_Subset, FS_CardinalityType

LEMMA ApartBelow ==
  ASSUME NEW r, NEW r2, Apart(r), ActiveTasks(r2) \subseteq ActiveTasks(r)
  PROVE  Apart(r2)
  <1>1. Cardinality(ActiveTasks(r2)) <= Cardinality(ActiveTasks(r))
    BY ActiveFinite, FS_Subset
  <1> QED BY <1>1, ActiveFinite, Constants DEF Apart

\* Changed records, as long as no task becomes active.
LEMMA FitChange ==
  ASSUME NEW r \in RunType, NEW r2 \in RunType, NEW S, NEW S2,
         NEW O, NEW T, NEW W, RunOK(r, O, T, W), Lives(r, O, T),
         \A d \in Dispatch : T[d] = "live" => O[d] \in Task,
         \A t \in Task : RecordOK(r2.task[t], t, O, T, W),
         ActiveTasks(r2) \subseteq ActiveTasks(r), Receipts(r2),
         \A t \in Task : r2.task[t].active # r.task[t].active =>
             \A d \in Dispatch : T[d] = "live" => O[d] # t,
         InScope(r2, W), StopsOK(r2, S2, O, T), Resumed(r2)
  PROVE  Fit(r2, S2, O, T, W)
  <1>1. Apart(r2)
    BY ApartBelow DEF RunOK
  <1>2. Lives(r2, O, T)
    BY DEF Lives
  <1> QED BY <1>1, <1>2 DEF Fit, RunOK

\* One changed record.
LEMMA FitWith ==
  ASSUME NEW r \in RunType, NEW t \in Task, NEW k \in Record, NEW S, NEW S2,
         NEW O, NEW T, NEW W, Fit(r, S, O, T, W),
         \A d \in Dispatch : T[d] = "live" => O[d] \in Task,
         RecordOK(k, t, O, T, W), activeTask(k) => activeTask(r.task[t]),
         k.by = r.task[t].by,
         k.active # r.task[t].active => \A d \in Dispatch : T[d] = "live" => O[d] # t,
         k.status = "running" => r.task[t].status = "running" /\ k.active = r.task[t].active,
         r.status = "active" => k.status # "interrupted",
         \A s \in S2 : StopFits(s, With(r, t, k), O, T),
         k.status = "cancelling" => \E s \in S2 : t \in s.tasks,
         \A s \in S \ S2 : s.tasks = {t}
  PROVE  Fit(With(r, t, k), S2, O, T, W)
  <1> DEFINE w == With(r, t, k)
  <1>1. /\ w \in RunType /\ w.status = r.status /\ w.requests = r.requests
        /\ w.task[t] = k /\ \A u \in Task : u # t => w.task[u] = r.task[u]
    BY WithRun
  <1>2. /\ RunOK(r, O, T, W) /\ Lives(r, O, T) /\ StopsOK(r, S, O, T)
        /\ InScope(r, W) /\ Resumed(r)
    BY DEF Fit
  <1>3. \A s \in S2 : StopFits(s, w, O, T)
    OBVIOUS
  <1> HIDE DEF w
  <1>4. \A u \in Task : RecordOK(w.task[u], u, O, T, W)
    BY <1>1, <1>2 DEF RunOK
  <1>5. ActiveTasks(w) \subseteq ActiveTasks(r)
    BY <1>1 DEF ActiveTasks
  <1>6. Receipts(w)
    <2>1. \A u \in Task : w.task[u].by = r.task[u].by
      BY <1>1
    <2> QED BY <1>1, <1>2, <2>1 DEF RunOK, Receipts
  <1>7. \A u \in Task : w.task[u].active # r.task[u].active =>
             \A d \in Dispatch : T[d] = "live" => O[d] # u
    BY <1>1
  <1>8. InScope(w, W)
    BY <1>1, <1>2 DEF InScope
  <1>9. StopsOK(w, S2, O, T)
    <2> SUFFICES ASSUME NEW u \in Task, w.task[u].status = "cancelling"
                 PROVE  \E s \in S2 : u \in s.tasks
      BY <1>3 DEF StopsOK
    <2>1. CASE u = t
      BY <1>1, <2>1
    <2>2. CASE u # t
      <3>1. PICK s \in S : u \in s.tasks
        BY <1>1, <1>2, <2>2 DEF StopsOK
      <3>2. s \in S2
        BY <2>2, <3>1
      <3> QED BY <3>1, <3>2
    <2> QED BY <2>1, <2>2
  <1>10. Resumed(w)
    BY <1>1, <1>2 DEF Resumed
  <1>11. Fit(w, S2, O, T, W)
    BY <1>1, <1>2, <1>4, <1>5, <1>6, <1>7, <1>8, <1>9, <1>10, FitChange
  <1> QED BY <1>11 DEF w

\* A stop that goes with a run goes with it after one record changed.
LEMMA StopWith ==
  ASSUME NEW r \in RunType, NEW t \in Task, NEW k \in Record, NEW s \in StopType,
         NEW O, NEW T, StopFits(s, r, O, T),
         activeTask(k) => activeTask(r.task[t]),
         s.kind # "run" /\ t \in s.tasks /\ LatestTurn(k) = s.dispatch =>
             k.status \notin {"running", "completed"}
  PROVE  StopFits(s, With(r, t, k), O, T)
  <1> DEFINE w == With(r, t, k)
  <1>1. /\ w.status = r.status /\ w.task[t] = k
        /\ \A u \in Task : u # t => w.task[u] = r.task[u]
    BY WithRun
  <1> HIDE DEF w
  <1>2. ActiveTasks(w) \subseteq ActiveTasks(r)
    BY <1>1 DEF ActiveTasks
  <1>3. s.kind # "run" => s.tasks = {O[s.dispatch]} /\ O[s.dispatch] \in Task
    BY DEF StopType, StopFits
  <1>4. s.kind # "run" /\ LatestTurn(w.task[O[s.dispatch]]) = s.dispatch =>
            w.task[O[s.dispatch]].status \notin {"running", "completed"}
    BY <1>1, <1>3 DEF StopFits
  <1>5. StopFits(s, w, O, T)
    BY <1>1, <1>2, <1>4 DEF StopFits
  <1> QED BY <1>5 DEF w

\* The task of a command under way is not the one that changes.
LEMMA OrderWith ==
  ASSUME NEW r \in RunType, NEW t \in Task, NEW k \in Record, NEW o \in OrderType,
         NEW S, NEW S2, NEW O, NEW T, OrderOK(o, r, S, O, T),
         o.op \in {"retry", "review"} => o.task # t,
         \A s \in S2 : s \in S \/ s.tasks = {t}
  PROVE  OrderOK(o, With(r, t, k), S2, O, T)
  <1> DEFINE w == With(r, t, k)
  <1>1. w.requests = r.requests /\ \A u \in Task : u # t => w.task[u] = r.task[u]
    BY WithRun
  <1> HIDE DEF w
  <1>2. o.op \in {"retry", "review"} =>
            /\ w.task[o.task] = r.task[o.task]
            /\ \A s \in S2 : o.task \in s.tasks => s \in S
    BY <1>1 DEF OrderType
  <1>3. OrderOK(o, w, S2, O, T)
    BY <1>1, <1>2 DEF OrderOK
  <1> QED BY <1>3 DEF w

\* Turns and writes that change around a run.
LEMMA RunOKWorld ==
  ASSUME NEW r \in RunType, NEW O, NEW T, NEW W, NEW T2, NEW W2, RunOK(r, O, T, W),
         \A d \in Dispatch : T[d] = "completed" => T2[d] = "completed",
         \A t \in Task : r.task[t].status = "completed" /\ r.task[t].last \in Dispatch
             /\ W[r.task[t].last] \in {"none", "missed"}
             => W2[r.task[t].last] \in {"none", "missed"}
  PROVE  RunOK(r, O, T2, W2)
  <1> SUFFICES ASSUME NEW t \in Task PROVE RecordOK(r.task[t], t, O, T2, W2)
    BY DEF RunOK
  <1>1. RecordOK(r.task[t], t, O, T, W)
    BY DEF RunOK
  <1>2. r.task[t].last \in Dispatch \cup {None}
    BY RunTypeFields DEF Record
  <1> DEFINE k == r.task[t]
  <1>3. RecordOK(k, t, O, T, W) /\ k.last \in Dispatch \cup {None}
    BY <1>1, <1>2
  <1>4. k.status = "completed" /\ k.last \in Dispatch /\ W[k.last] \in {"none", "missed"}
            => W2[k.last] \in {"none", "missed"}
    OBVIOUS
  <1> HIDE DEF k
  <1>5. RecordOK(k, t, O, T2, W2)
    BY <1>3, <1>4 DEF RecordOK, OwnResult
  <1> QED BY <1>5 DEF k

LEMMA StopsWorld ==
  ASSUME NEW r, NEW S \in SUBSET StopType, NEW O, NEW T, NEW T2, StopsOK(r, S, O, T),
         \A d \in Dispatch : T2[d] = "live" => T[d] = "live"
  PROVE  StopsOK(r, S, O, T2)
  <1> SUFFICES ASSUME NEW s \in S PROVE StopFits(s, r, O, T2)
    BY DEF StopsOK
  <1>1. StopFits(s, r, O, T) /\ s.dispatch \in Dispatch \cup {None}
    BY DEF StopsOK, StopType
  <1> QED BY <1>1 DEF StopFits

LEMMA FitWorld ==
  ASSUME NEW r \in RunType, NEW S \in SUBSET StopType, NEW O, NEW T, NEW W, NEW T2,
         Fit(r, S, O, T, W),
         \A d \in Dispatch : T2[d] = "live" => T[d] = "live",
         \A d \in Dispatch : T[d] = "completed" => T2[d] = "completed"
  PROVE  Fit(r, S, O, T2, W)
  <1>1. RunOK(r, O, T, W) /\ Lives(r, O, T) /\ StopsOK(r, S, O, T)
    BY DEF Fit
  <1>2. RunOK(r, O, T2, W)
    BY <1>1, RunOKWorld
  <1>3. StopsOK(r, S, O, T2)
    BY <1>1, StopsWorld
  <1>4. Lives(r, O, T2)
    BY <1>1 DEF Lives
  <1> QED BY <1>2, <1>3, <1>4 DEF Fit

LEMMA OrderWorld ==
  ASSUME NEW o \in OrderType, NEW r \in RunType, NEW S, NEW O, NEW T, NEW T2,
         OrderOK(o, r, S, O, T),
         \A d \in Dispatch : T[d] = "completed" => T2[d] = "completed"
  PROVE  OrderOK(o, r, S, O, T2)
  <1> SUFFICES ASSUME o.op = "review" PROVE OwnResult(r.task[o.task], o.task, O, T2)
    BY DEF OrderOK
  <1>1. o.task \in Task
    BY DEF OrderType
  <1>2. r.task[o.task].last \in Dispatch \cup {None}
    BY <1>1, RunTypeFields DEF Record
  <1>3. OwnResult(r.task[o.task], o.task, O, T)
    BY DEF OrderOK
  <1> QED BY <1>2, <1>3 DEF OwnResult

\* A step that only ends turns, or lets the dispatcher go on.
LEMMA StillStep ==
  ASSUME TypeInv, TypeInv', CoreInv,
         UNCHANGED <<run, saved, stops, order, pausing, owner, write>>,
         \A d \in Dispatch : turn'[d] = "live" => turn[d] = "live",
         \A d \in Dispatch : turn[d] = "completed" => turn'[d] = "completed",
         run.status = "none" => UNCHANGED pumping,
         PreparingIn(pump') => /\ PreparingIn(pump) /\ pump'.task = pump.task
                               /\ pump'.dispatch = pump.dispatch
  PROVE  CoreInv'
  <1>0. /\ run \in RunType /\ saved \in RunType /\ order \in OrderType
        /\ stops \in SUBSET StopType /\ owner' = owner /\ write' = write
    BY DEF TypeInv, DiskOK
  <1>1. Sync'
    BY DEF CoreInv, Sync, pumping
  <1>2. InMemory'
    BY <1>0, FitWorld DEF CoreInv, InMemory
  <1>3. OnDisk'
    <2>1. RunOK(saved, owner, turn', write)
      BY <1>0, RunOKWorld DEF CoreInv, OnDisk
    <2>2. Lives(saved, owner, turn')
      BY DEF CoreInv, OnDisk, Lives
    <2> QED BY <2>1, <2>2 DEF OnDisk
  <1>4. Dispatching'
    BY DEF CoreInv, Dispatching
  <1>5. Ordered'
    BY <1>0, OrderWorld DEF CoreInv, Ordered
  <1> QED BY <1>1, <1>2, <1>3, <1>4, <1>5 DEF CoreInv

-----------------------------------------------------------------------------
(* Steps that change one record *)

LEMMA Facts ==
  ASSUME TypeInv, CoreInv
  PROVE  /\ run \in RunType /\ saved \in RunType /\ starting \in RunType
         /\ order \in OrderType /\ stops \in SUBSET StopType /\ pump \in PumpType
         /\ run.status # "none" => Fit(run, stops, owner, turn, write)
         /\ RunOK(saved, owner, turn, write) /\ Lives(saved, owner, turn)
         /\ OrderOK(order, run, stops, owner, turn)
         /\ \A d \in Dispatch : turn[d] = "live" => owner[d] \in Task
         /\ run.status = "active" => saved = run /\ pausing = {}
         /\ \A t \in Task : run.task[t].status # "absent" => run.status # "none"
  <1>1. \A t \in Task : run.task[t].status # "absent" => run.status # "none"
    BY NoRunType DEF CoreInv, Sync, Absent
  <1>2. /\ run \in RunType /\ saved \in RunType /\ starting \in RunType
        /\ order \in OrderType /\ stops \in SUBSET StopType /\ pump \in PumpType
    BY DEF TypeInv, DiskOK, PumpOK
  <1>3. /\ run.status # "none" => Fit(run, stops, owner, turn, write)
        /\ RunOK(saved, owner, turn, write) /\ Lives(saved, owner, turn)
        /\ OrderOK(order, run, stops, owner, turn)
        /\ run.status = "active" => saved = run /\ pausing = {}
    BY DEF CoreInv, InMemory, OnDisk, Ordered, Sync
  <1> QED BY <1>1, <1>2, <1>3, LiveOwned

LEMMA RecordFacts ==
  ASSUME TypeInv, CoreInv, NEW t \in Task, run.status # "none"
  PROVE  /\ run.task[t] \in Record
         /\ RecordOK(run.task[t], t, owner, turn, write)
  BY Facts, RunTypeFields DEF Fit, RunOK

LEMMA CallPumpGoesOn ==
  ASSUME CallPump \/ UNCHANGED pumping
  PROVE  PreparingIn(pump') => PreparingIn(pump) /\ pump' = pump
  BY DEF CallPump, pumping, PreparingIn, IdlePump

LEMMA RecordSave ==
  ASSUME TypeInv, TypeInv', CoreInv,
         NEW t \in Task, NEW k \in Record, NEW ok \in SUBSET StopType, NEW ko \in SUBSET ok,
         Save(With(run, t, k), ok, ko), run.status # "none",
         UNCHANGED <<owner, turn, write>>,
         RecordOK(k, t, owner, turn, write), activeTask(k) => activeTask(run.task[t]),
         k.by = run.task[t].by, k.active \in {None, run.task[t].active},
         k.active # run.task[t].active => \A d \in Dispatch : turn[d] = "live" => owner[d] # t,
         k.status = "running" => run.task[t].status = "running" /\ k.active = run.task[t].active,
         run.status = "active" => k.status # "interrupted",
         \A s \in ok : StopFits(s, With(run, t, k), owner, turn),
         k.status = "cancelling" => \E s \in ok : t \in s.tasks,
         \A s \in stops \ ok : s.tasks = {t},
         OrderOK(order', With(run, t, k), ok, owner, turn),
         run.status = "active" => pausing' = {}, CallPump \/ UNCHANGED pumping
  PROVE  CoreInv'
  <1> DEFINE next == With(run, t, k)
  <1>1. /\ run \in RunType /\ Fit(run, stops, owner, turn, write)
        /\ RunOK(saved, owner, turn, write)
        /\ \A d \in Dispatch : turn[d] = "live" => owner[d] \in Task
    BY Facts
  <1>2. Fit(next, ok, owner, turn, write)
    BY <1>1, FitWith
  <1>3. /\ next \in RunType /\ next.status = run.status /\ next.task[t] = k
        /\ \A u \in Task : u # t => next.task[u] = run.task[u]
    BY <1>1, WithRun
  <1>4. Save(next, ok, ko) /\ OrderOK(order', next, ok, owner, turn)
    OBVIOUS
  <1> HIDE DEF next
  <1>5. \A u \in Task : next.task[u].active \in {None, run.task[u].active}
    BY <1>3
  <1>6. PreparingIn(pump') => PreparingIn(pump) /\ pump' = pump
    BY CallPumpGoesOn
  <1>7. write' = write
    OBVIOUS
  <1> QED BY <1>1, <1>2, <1>3, <1>4, <1>5, <1>6, <1>7, RunSave

LEMMA SettleCommitCore ==
  ASSUME TypeInv, TypeInv', CoreInv, NEW d \in Dispatch, settleCommit(d)
  PROVE  CoreInv'
  <1> DEFINE t == owner[d]
             k == Ended(run.task[t], SettledAs(d), d)
  <1>1. /\ t \in Task /\ SettledAs(d) \in {"completed", "failed", "cancelled"}
        /\ turn[d] \in {"completed", "failed", "stopped"} /\ d # None
        /\ UNCHANGED <<order, starting, pausing, owner, turn, write, upsets>>
        /\ write[d] # "checking" /\ SettledAs(d) \in TaskStatus
    BY SettlesTask, Constants, Statuses DEF settleCommit, Unchecked
  <1>2. CASE ~Running(t, d)
    <2>1. UNCHANGED <<disk, pumping>>
      BY <1>2, SettlesTask
    <2> QED BY <1>1, <2>1, StillStep DEF disk, pumping
  <1>3. CASE Running(t, d)
    <2>1. Save(With(run, t, k), stops, stops) /\ CallPump
      BY <1>1, <1>3, SettlesTask, SettledSave
    <2>2. /\ run.task[t].status = "running" /\ run.task[t].active = d /\ run.status # "none"
      BY <1>1, <1>3, Facts DEF Running
    <2>3. run.task[t] \in Record /\ RecordOK(run.task[t], t, owner, turn, write)
      BY <1>1, <2>2, RecordFacts
    <2>4. /\ k \in Record /\ k.status = SettledAs(d) /\ k.active = None /\ ~k.accepted
          /\ k.last = d /\ k.by = run.task[t].by
      BY <1>1, <2>3, EndedRecord
    <2>5. /\ run \in RunType /\ Fit(run, stops, owner, turn, write)
          /\ order \in OrderType /\ stops \in SUBSET StopType
          /\ OrderOK(order, run, stops, owner, turn)
          /\ run.status = "active" => pausing = {}
      BY <2>2, Facts
    <2>6. write[d] \in {"none", "missed"}
      <3>1. write[d] # "bad"
        BY <1>1, <2>2, <2>5 DEF Fit, InScope
      <3> QED BY <1>1, <3>1 DEF TypeInv, WorkOK
    <2>7. k.status = "completed" => turn[d] = "completed"
      BY <1>1, <2>4 DEF SettledAs
    <2>8. \A e \in Dispatch : turn[e] = "live" => owner[e] # t
      BY <1>1, <2>2, <2>5 DEF Fit, Lives
    <2>9. order.op \in {"retry", "review"} => order.task # t
      BY <2>2, <2>5 DEF OrderOK
    <2>0. owner[d] = t
      OBVIOUS
    <2> HIDE DEF k, t
    <2>10. RecordOK(k, t, owner, turn, write)
      BY <1>1, <2>0, <2>2, <2>3, <2>4, <2>6, <2>7 DEF RecordOK, OwnResult, activeTask
    <2>11. ~activeTask(k) /\ k.status \notin {"absent", "queued", "running", "interrupted", "cancelling"}
      BY <1>1, <2>4 DEF activeTask
    <2>12. \A s \in stops : StopFits(s, With(run, t, k), owner, turn)
      <3>1. \A s \in stops : StopFits(s, run, owner, turn) /\ s \in StopType
        BY <2>5 DEF Fit, StopsOK
      <3>2. LatestTurn(k) = d /\ LatestTurn(run.task[t]) = d
        BY <1>1, <2>2, <2>4 DEF LatestTurn
      <3>3. \A s \in stops : s.kind # "run" /\ t \in s.tasks => s.dispatch # d
        BY <2>2, <3>1, <3>2 DEF StopFits
      <3> QED BY <1>1, <2>4, <2>5, <2>11, <3>1, <3>2, <3>3, StopWith
    <2>13. OrderOK(order', With(run, t, k), stops, owner, turn)
      <3>1. OrderOK(order, With(run, t, k), stops, owner, turn)
        BY <1>1, <2>4, <2>5, <2>9, OrderWith
      <3> QED BY <1>1, <3>1
    <2>14. UNCHANGED <<owner, turn, write, starting>> /\ pausing' = pausing
      BY <1>1
    <2> QED BY <1>1, <2>1, <2>2, <2>4, <2>5, <2>8, <2>10, <2>11, <2>12, <2>13, <2>14, RecordSave
  <1> QED BY <1>2, <1>3

\* The end of a stop of the task's latest turn.
LEMMA StoppedSave ==
  ASSUME TypeInv, TypeInv', CoreInv,
         NEW s \in stops, s.done, s.kind # "run", ~OtherTurn(s), NEW t \in s.tasks,
         NEW status \in {"cancelled", "blocked", "interrupted"},
         status = "interrupted" => s.kind = "interrupt",
         Save([run EXCEPT !.task[t] = Ended(@, status, s.dispatch)], stops \ {s}, stops \ {s}),
         UNCHANGED <<owner, turn, write>>, order' \in {order, NoOrder},
         run.status = "active" => pausing' = {}, CallPump \/ UNCHANGED pumping
  PROVE  CoreInv'
  <1> DEFINE k == Ended(run.task[t], status, s.dispatch)
  <1>1. t \in Task /\ status \in TaskStatus /\ Save(With(run, t, k), stops \ {s}, stops \ {s})
    BY EndedTypes, Statuses
  <1>2. /\ run.status # "none" /\ run \in RunType /\ Fit(run, stops, owner, turn, write)
        /\ order \in OrderType /\ stops \in SUBSET StopType
        /\ OrderOK(order, run, stops, owner, turn)
    <2>1. run.status # "none"
      BY DEF CoreInv, Sync
    <2> QED BY <2>1, Facts
  <1>3. run.task[t] \in Record /\ RecordOK(run.task[t], t, owner, turn, write)
    BY <1>1, <1>2, RecordFacts
  <1>4. /\ s \in StopType /\ s.dispatch \in Dispatch \cup {None} /\ StopFits(s, run, owner, turn)
        /\ s.tasks = {t}
    BY <1>2 DEF StopType, Fit, StopsOK, StopFits
  <1>5. /\ k \in Record /\ k.status = status /\ k.active = None /\ ~k.accepted
        /\ k.last = (IF s.dispatch = None THEN run.task[t].last ELSE s.dispatch)
        /\ k.by = run.task[t].by
    BY <1>1, <1>3, <1>4, EndedRecord
  <1>7. s.dispatch # None /\ owner[s.dispatch] = t /\ LatestTurn(run.task[t]) = s.dispatch
    BY <1>4 DEF StopFits, OtherTurn
  <1>6. \A d \in Dispatch : turn[d] = "live" => owner[d] # t
    <2> SUFFICES ASSUME NEW d \in Dispatch, turn[d] = "live", owner[d] = t PROVE FALSE
      OBVIOUS
    <2>1. run.task[t].active = d /\ d # None
      BY <1>2, Constants DEF Fit, Lives
    <2>2. s.dispatch = d
      BY <1>7, <2>1 DEF LatestTurn
    <2> QED BY <1>4, <2>2 DEF StopFits
  <1> HIDE DEF k
  <1>8. ~activeTask(k) /\ k.status \notin {"absent", "queued", "running", "cancelling", "completed"}
    BY <1>5 DEF activeTask
  <1>9. RecordOK(k, t, owner, turn, write)
    BY <1>3, <1>5, <1>7, <1>8 DEF RecordOK
  <1>10. \A x \in stops \ {s} : StopFits(x, With(run, t, k), owner, turn)
    BY <1>1, <1>2, <1>5, <1>8, StopWith DEF Fit, StopsOK
  <1>11. OrderOK(order', With(run, t, k), stops \ {s}, owner, turn)
    <2>1. ASSUME order.op \in {"retry", "review"} => order.task # t
          PROVE  OrderOK(order, With(run, t, k), stops \ {s}, owner, turn)
      BY <1>1, <1>2, <1>5, <2>1, OrderWith
    <2>2. ASSUME order.op \in {"retry", "review"}, order.task = t
          PROVE  OrderOK(order, With(run, t, k), stops \ {s}, owner, turn)
      <3>1. LatestTurn(run.task[t]) = run.task[t].last
        BY <1>2, <1>3, <2>2 DEF OrderOK, RecordOK, LatestTurn, activeTask
      <3>2. order.op = "retry"
        BY <1>2, <1>7, <2>2, <3>1 DEF OrderOK
      <3>3. s.kind # "interrupt" /\ status # "interrupted"
        BY <1>2, <2>2 DEF OrderOK
      <3>4. With(run, t, k).task[t] = k
        BY <1>1, <1>2, <1>5, WithRun
      <3>5. With(run, t, k).task[order.task].status
               \in {"completed", "failed", "blocked", "cancelled"}
        BY <1>5, <2>2, <3>3, <3>4
      <3>6. \A x \in stops \ {s} : x.kind = "interrupt" => order.task \notin x.tasks
        BY <1>2, <2>2 DEF OrderOK
      <3> QED BY <3>2, <3>5, <3>6 DEF OrderOK
    <2>3. OrderOK(NoOrder, With(run, t, k), stops \ {s}, owner, turn)
      BY DEF OrderOK, NoOrder
    <2> QED BY <2>1, <2>2, <2>3
  <1>12. /\ stops \ {s} \in SUBSET StopType /\ stops \ {s} \in SUBSET (stops \ {s})
         /\ \A x \in stops \ (stops \ {s}) : x.tasks = {t}
    BY <1>2, <1>4
  <1>13. run.status = "active" => k.status # "interrupted"
    BY <1>4, <1>5 DEF StopFits
  <1> DEFINE ok == stops \ {s}
  <1>14. /\ ok \in SUBSET StopType /\ Save(With(run, t, k), ok, ok)
         /\ \A x \in ok : StopFits(x, With(run, t, k), owner, turn)
         /\ \A x \in stops \ ok : x.tasks = {t}
         /\ OrderOK(order', With(run, t, k), ok, owner, turn)
    BY <1>1, <1>10, <1>11, <1>12
  <1> HIDE DEF ok
  <1> QED BY <1>1, <1>2, <1>5, <1>6, <1>8, <1>9, <1>13, <1>14, RecordSave

LEMMA TaskStoppedCore ==
  ASSUME TypeInv, TypeInv', CoreInv, NEW s \in stops, ~overtaken',
         cancelTaskStopped(s) \/ blockTaskStopped(s) \/ interruptTaskStopped(s)
  PROVE  CoreInv'
  <1>0. (run.status = "active" => pausing = {}) /\ ~OtherTurn(s)
    BY Facts DEF cancelTaskStopped, blockTaskStopped, interruptTaskStopped, Overtaken
  <1>1. CASE cancelTaskStopped(s)
    <2>1. PICK t \in s.tasks :
             Save([run EXCEPT !.task[t] = Ended(@, "cancelled", s.dispatch)],
                  stops \ {s}, stops \ {s})
      BY <1>1 DEF cancelTaskStopped
    <2>2. /\ s.done /\ s.kind # "run" /\ order' \in {order, NoOrder}
          /\ UNCHANGED <<owner, turn, write, starting, pausing>> /\ CallPump
      BY <1>1 DEF cancelTaskStopped, workers
    <2> QED BY <1>0, <2>1, <2>2, StoppedSave
  <1>2. CASE blockTaskStopped(s)
    <2>1. PICK t \in s.tasks :
             Save([run EXCEPT !.task[t] = Ended(@, "blocked", s.dispatch)],
                  stops \ {s}, stops \ {s})
      BY <1>2 DEF blockTaskStopped
    <2>2. /\ s.done /\ s.kind # "run" /\ order' \in {order, NoOrder}
          /\ UNCHANGED <<owner, turn, write, starting, pausing>> /\ CallPump
      BY <1>2 DEF blockTaskStopped, workers
    <2> QED BY <1>0, <2>1, <2>2, StoppedSave
  <1>3. CASE interruptTaskStopped(s)
    <2>1. PICK t \in s.tasks :
             Save([run EXCEPT !.task[t] = Ended(@, "interrupted", s.dispatch)],
                  stops \ {s}, stops \ {s})
      BY <1>3 DEF interruptTaskStopped
    <2>2. /\ s.done /\ s.kind = "interrupt" /\ order' \in {order, NoOrder}
          /\ UNCHANGED <<owner, turn, write, starting>> /\ UNCHANGED pumping
          /\ pausing' \in {pausing, {}}
      BY <1>3 DEF interruptTaskStopped, workers
    <2> QED BY <1>0, <2>1, <2>2, StoppedSave
  <1> QED BY <1>1, <1>2, <1>3

\* A task is marked as being cancelled together with its stop.
LEMMA MarkSave ==
  ASSUME TypeInv, TypeInv', CoreInv,
         NEW t \in Task, activeTask(run.task[t]),
         NEW kind \in {"cancel", "userCancel", "interrupt", "block"},
         kind = "interrupt" => run.status # "active",
         Save([run EXCEPT !.task[t].status = "cancelling"], stops \cup {StopOf(kind, t)}, stops),
         UNCHANGED <<owner, turn>>,
         write' # write => run.status = "active",
         \A d \in Dispatch : write'[d] # write[d] =>
             d = run.task[t].active /\ run.task[t].status = "running",
         order' = order \/ order'.op = "cancel",
         run.status = "active" => pausing' = {}, UNCHANGED pumping
  PROVE  CoreInv'
  <1> DEFINE k == [run.task[t] EXCEPT !.status = "cancelling"]
             next == With(run, t, k)
             new == StopOf(kind, t)
             ok == stops \cup {new}
  <1>1. /\ run.status # "none" /\ run \in RunType /\ saved \in RunType
        /\ Fit(run, stops, owner, turn, write)
        /\ order \in OrderType /\ stops \in SUBSET StopType
        /\ OrderOK(order, run, stops, owner, turn) /\ RunOK(saved, owner, turn, write)
        /\ \A d \in Dispatch : turn[d] = "live" => owner[d] \in Task
    BY Facts DEF activeTask
  <1>2. run.task[t] \in Record /\ RecordOK(run.task[t], t, owner, turn, write)
    BY <1>1, RecordFacts
  <1>3. /\ k \in Record /\ k.status = "cancelling" /\ k.active = run.task[t].active
        /\ k.last = run.task[t].last /\ k.accepted = run.task[t].accepted
        /\ k.by = run.task[t].by
    BY <1>2, Statuses DEF Record
  <1>4. Save(next, ok, stops)
    BY MarkedTypes
  <1>5. /\ new \in StopType /\ new.tasks = {t} /\ new.dispatch = run.task[t].active
        /\ ~new.done /\ new.kind = kind
    BY StopOfType DEF StopOf
  <1>6. ok \in SUBSET StopType /\ stops \in SUBSET ok
        /\ \A s \in ok : s \in stops \/ s = new
    BY <1>1, <1>5
  <1> HIDE DEF k, new, ok
  <1>7. /\ next \in RunType /\ next.status = run.status /\ next.requests = run.requests
        /\ next.task[t] = k /\ \A u \in Task : u # t => next.task[u] = run.task[u]
    BY <1>1, <1>3, WithRun
  <1>8. \A s \in stops : StopFits(s, next, owner, turn)
    BY <1>1, <1>3, StopWith DEF Fit, StopsOK, activeTask
  <1>9. OrderOK(order', next, ok, owner, turn)
    <2>1. order.op \in {"retry", "review"} => order.task # t
      BY <1>1 DEF OrderOK, activeTask
    <2>2. \A s \in ok : s \in stops \/ s.tasks = {t}
      BY <1>5, <1>6
    <2>3. OrderOK(order, next, ok, owner, turn)
      BY <1>1, <1>3, <2>1, <2>2, OrderWith
    <2>4. order'.op = "cancel" => OrderOK(order', next, ok, owner, turn)
      BY DEF OrderOK
    <2> QED BY <2>3, <2>4
  <1> HIDE DEF next
  <1>10. ASSUME NEW r \in RunType, RunOK(r, owner, turn, write),
                \A u \in Task : r.task[u].status = "completed" => r.task[u].last # run.task[t].active
                                 \/ run.task[t].status # "running"
         PROVE  RunOK(r, owner, turn, write')
    <2>1. \A d \in Dispatch : turn[d] = "completed" => turn[d] = "completed"
      OBVIOUS
    <2>2. \A u \in Task : r.task[u].status = "completed" /\ r.task[u].last \in Dispatch
             /\ write[r.task[u].last] \in {"none", "missed"}
             => write'[r.task[u].last] \in {"none", "missed"}
      BY <1>10
    <2> QED BY <1>10, <2>1, <2>2, RunOKWorld
  <1>11. ASSUME NEW r \in RunType, RunOK(r, owner, turn, write), Owns(r, owner),
                run.task[t].status = "running", NEW u \in Task, r.task[u].status = "completed",
                r.task[u].last = run.task[t].active, r.task[t] = run.task[t]
         PROVE  FALSE
    <2>1. RecordOK(r.task[u], u, owner, turn, write) /\ RecordOK(r.task[t], t, owner, turn, write)
      BY <1>11 DEF RunOK
    <2>2. owner[r.task[u].last] = u /\ owner[run.task[t].active] = t
      BY <1>2, <1>11, <2>1 DEF RecordOK, activeTask
    <2>3. r.task[t].status = "completed"
      BY <1>11, <2>2
    <2> QED BY <1>11, <2>3
  <1>12. RunOK(run, owner, turn, write')
    <2>1. Owns(run, owner) /\ RunOK(run, owner, turn, write)
      BY <1>1 DEF TypeInv, DiskOK, Fit
    <2> QED BY <1>1, <1>10, <1>11, <2>1
  <1>13. RunOK(saved, owner, turn, write')
    <2>1. CASE write' = write
      BY <1>1, <2>1
    <2>2. CASE run.status = "active"
      BY <1>12, <2>2, Facts
    <2> QED BY <2>1, <2>2
  <1>14. RecordOK(k, t, owner, turn, write')
    <2>1. RecordOK(run.task[t], t, owner, turn, write')
      BY <1>12 DEF RunOK
    <2> QED BY <1>3, <2>1 DEF RecordOK, activeTask, OwnResult
  <1>15. Fit(next, ok, owner, turn, write')
    <2>1. RunOK(run, owner, turn, write') /\ Lives(run, owner, turn)
      BY <1>1, <1>12 DEF Fit
    <2>2. \A u \in Task : RecordOK(next.task[u], u, owner, turn, write')
      BY <1>7, <1>12, <1>14 DEF RunOK
    <2>3. ActiveTasks(next) \subseteq ActiveTasks(run)
      BY <1>7 DEF ActiveTasks
    <2>4. Receipts(next)
      <3>1. \A u \in Task : next.task[u].by = run.task[u].by
        BY <1>3, <1>7
      <3> QED BY <1>1, <1>7, <3>1 DEF Fit, RunOK, Receipts
    <2>5. \A u \in Task : next.task[u].active = run.task[u].active
      BY <1>3, <1>7
    <2>6. InScope(next, write')
      <3> SUFFICES ASSUME NEW u \in Task, next.task[u].status = "running"
                   PROVE  write'[next.task[u].active] # "bad"
        BY DEF InScope
      <3>1. u # t /\ next.task[u] = run.task[u]
        BY <1>3, <1>7
      <3>2. RecordOK(run.task[u], u, owner, turn, write)
        BY <1>1 DEF Fit, RunOK
      <3>3. run.task[u].active # None /\ owner[run.task[u].active] = u
        BY <3>1, <3>2 DEF RecordOK, activeTask
      <3>4. owner[run.task[t].active] = t /\ run.task[u].active \in Dispatch
        BY <1>1, <1>2, <3>3, RunTypeFields DEF RecordOK, activeTask, Record
      <3>5. write'[run.task[u].active] = write[run.task[u].active]
        BY <3>1, <3>3, <3>4
      <3> QED BY <1>1, <3>1, <3>5 DEF Fit, InScope
    <2>7. StopsOK(next, ok, owner, turn)
      <3>1. StopFits(new, next, owner, turn)
        BY <1>1, <1>2, <1>3, <1>5, <1>7 DEF StopFits, RecordOK
      <3>2. ASSUME NEW u \in Task, next.task[u].status = "cancelling"
            PROVE  \E s \in ok : u \in s.tasks
        <4>1. CASE u = t
          BY <1>5, <4>1 DEF ok
        <4>2. CASE u # t
          <5>1. \E s \in stops : u \in s.tasks
            BY <1>1, <1>7, <3>2, <4>2 DEF Fit, StopsOK
          <5> QED BY <1>6, <5>1
        <4> QED BY <4>1, <4>2
      <3> QED BY <1>6, <1>8, <3>1, <3>2 DEF StopsOK
    <2>8. Resumed(next)
      BY <1>1, <1>3, <1>7 DEF Fit, Resumed
    <2> QED BY <1>1, <1>7, <2>1, <2>2, <2>3, <2>4, <2>5, <2>6, <2>7, <2>8, FitChange
  <1>16. \A u \in Task : next.task[u].active \in {None, run.task[u].active}
    BY <1>3, <1>7
  <1>17. pump' = pump
    BY DEF pumping
  <1> QED BY <1>1, <1>4, <1>6, <1>7, <1>9, <1>13, <1>15, <1>16, <1>17, RunSave

\* A task that is not active is cancelled at once, also one that is under
\* review or is being retried.
LEMMA CancelSave ==
  ASSUME TypeInv, TypeInv', CoreInv,
         NEW t \in Task, ~activeTask(run.task[t]), run.task[t].status # "absent",
         Save([run EXCEPT !.task[t] = Ended(@, "cancelled", None)], stops, stops),
         UNCHANGED <<owner, turn, write, pausing, order>>, CallPump
  PROVE  CoreInv'
  <1> DEFINE k == Ended(run.task[t], "cancelled", None)
             next == With(run, t, k)
  <1>1. /\ run.status # "none" /\ run \in RunType /\ Fit(run, stops, owner, turn, write)
        /\ order \in OrderType /\ stops \in SUBSET StopType
        /\ OrderOK(order, run, stops, owner, turn)
        /\ run.status = "active" => pausing = {}
    BY Facts
  <1>2. run.task[t] \in Record /\ RecordOK(run.task[t], t, owner, turn, write)
    BY <1>1, RecordFacts
  <1>3. /\ k \in Record /\ k.status = "cancelled" /\ k.active = None /\ ~k.accepted
        /\ k.last = run.task[t].last /\ k.by = run.task[t].by
    BY <1>2, EndedRecord, Statuses
  <1>4. Save(With(run, t, k), stops, stops)
    BY <1>1 DEF With, RunType
  <1> HIDE DEF k
  <1>5. RecordOK(k, t, owner, turn, write) /\ run.task[t].active = None
    BY <1>2, <1>3 DEF RecordOK, activeTask
  <1>6. ~activeTask(k)
    BY <1>3 DEF activeTask
  <1>7. \A s \in stops : StopFits(s, With(run, t, k), owner, turn)
    BY <1>1, <1>3, <1>6, StopWith DEF Fit, StopsOK
  <1>8. /\ next.status = run.status /\ next.requests = run.requests
        /\ next.task[t] = k /\ \A u \in Task : u # t => next.task[u] = run.task[u]
    BY <1>1, <1>3, WithRun
  <1>9. OrderOK(order, With(run, t, k), stops, owner, turn)
    <2>1. CASE order.op \in {"retry", "review"} /\ order.task = t
      <3>1. OrderOK(order, next, stops, owner, turn)
        <4> HIDE DEF next
        <4> QED BY <1>1, <1>3, <1>8, <2>1 DEF OrderOK, OwnResult
      <3> QED BY <3>1
    <2>2. CASE ~(order.op \in {"retry", "review"} /\ order.task = t)
      <3>1. order.op \in {"retry", "review"} => order.task # t
        BY <1>1, <2>2 DEF OrderOK
      <3> QED BY <1>1, <1>3, <3>1, OrderWith
    <2> QED BY <2>1, <2>2
  <1>10. /\ OrderOK(order', With(run, t, k), stops, owner, turn)
         /\ run.status = "active" => pausing' = {}
         /\ stops \in SUBSET stops
    BY <1>1, <1>9
  <1> HIDE DEF next
  <1> QED BY <1>1, <1>3, <1>4, <1>5, <1>6, <1>7, <1>10, RecordSave

LEMMA SaveAgain ==
  ASSUME TypeInv, TypeInv', CoreInv, run.status # "none",
         Save(run, stops, stops),
         UNCHANGED <<owner, turn, write, pausing>>, order' \in {order, NoOrder},
         CallPump \/ UNCHANGED pumping
  PROVE  CoreInv'
  <1>1. /\ run \in RunType /\ Fit(run, stops, owner, turn, write')
        /\ stops \in SUBSET StopType /\ stops \in SUBSET stops
        /\ OrderOK(order, run, stops, owner, turn) /\ RunOK(saved, owner, turn, write')
        /\ run.status = "active" => pausing' = {}
    BY Facts
  <1>2. OrderOK(order', run, stops, owner, turn)
    BY <1>1 DEF OrderOK, NoOrder
  <1>3. PreparingIn(pump') => PreparingIn(pump) /\ pump' = pump
    BY CallPumpGoesOn
  <1>4. \A t \in Task : run.task[t].active \in {None, run.task[t].active}
    OBVIOUS
  <1> QED BY <1>1, <1>2, <1>3, <1>4, RunSave

LEMMA CancelCore ==
  ASSUME TypeInv, TypeInv', CoreInv, NEW t \in Task, userStops(t) \/ cancel(t)
  PROVE  CoreInv'
  <1>0. run.status = "active" => pausing = {}
    BY Facts
  <1>1. CASE userStops(t)
    <2>1. /\ Cancel(t, "userCancel") /\ run.task[t].status # "absent"
          /\ UNCHANGED <<owner, turn, write, starting, pausing, order>> /\ write' = write
      BY <1>1 DEF userStops, workers
    <2>2. CASE activeTask(run.task[t])
      <3>1. /\ Save([run EXCEPT !.task[t].status = "cancelling"],
                    stops \cup {StopOf("userCancel", t)}, stops)
            /\ UNCHANGED pumping
        BY <2>1, <2>2 DEF Cancel
      <3> QED BY <1>0, <2>1, <2>2, <3>1, MarkSave
    <2>3. CASE ~activeTask(run.task[t])
      <3>1. /\ Save([run EXCEPT !.task[t] = Ended(@, "cancelled", None)], stops, stops)
            /\ CallPump
        BY <2>1, <2>3 DEF Cancel
      <3> QED BY <2>1, <2>3, <3>1, CancelSave
    <2> QED BY <2>2, <2>3
  <1>2. CASE cancel(t)
    <2>1. /\ run.task[t].status # "absent" /\ run.status # "none"
          /\ UNCHANGED <<owner, turn, write, starting, pausing>> /\ write' = write
      BY <1>2 DEF cancel, handle, workers
    <2>2. CASE run.task[t].status = "cancelled"
      <3>1. Save(run, stops, stops) /\ CallPump /\ UNCHANGED order
        BY <1>2, <2>2 DEF cancel
      <3> QED BY <2>1, <3>1, SaveAgain
    <2>3. CASE run.task[t].status # "cancelled" /\ activeTask(run.task[t])
      <3>1. /\ Cancel(t, "cancel")
            /\ order' = order \/ order'.op = "cancel"
        BY <1>2, <2>3 DEF cancel, Begin, NoOrder
      <3>2. /\ Save([run EXCEPT !.task[t].status = "cancelling"],
                    stops \cup {StopOf("cancel", t)}, stops)
            /\ UNCHANGED pumping
        BY <2>3, <3>1 DEF Cancel
      <3> QED BY <1>0, <2>1, <2>3, <3>1, <3>2, MarkSave
    <2>4. CASE run.task[t].status # "cancelled" /\ ~activeTask(run.task[t])
      <3>1. /\ Save([run EXCEPT !.task[t] = Ended(@, "cancelled", None)], stops, stops)
            /\ CallPump /\ UNCHANGED order
        BY <1>2, <2>4 DEF cancel
      <3> QED BY <2>1, <2>4, <3>1, CancelSave
    <2> QED BY <2>2, <2>3, <2>4
  <1> QED BY <1>1, <1>2

\* A step that only changes writes, or shortens the list of pause.  A write to
\* be checked is charged to a worker that is running.
LEMMA WriteStep ==
  ASSUME TypeInv, TypeInv', CoreInv,
         UNCHANGED <<run, saved, stops, order, owner, turn>>, UNCHANGED pumping,
         pausing' \subseteq pausing,
         \A d \in Dispatch : write'[d] = "bad" => write[d] = "bad",
         \A d \in Dispatch : write[d] \in {"none", "missed"} /\ write'[d] \notin {"none", "missed"} =>
             /\ run.status = "active"
             /\ \E t \in Task : run.task[t].status = "running" /\ run.task[t].active = d
  PROVE  CoreInv'
  <1>1. /\ run \in RunType /\ saved \in RunType
        /\ run.status # "none" => Fit(run, stops, owner, turn, write)
        /\ RunOK(saved, owner, turn, write) /\ Lives(saved, owner, turn)
        /\ run.status = "active" => saved = run
    BY Facts
  <1>2. ASSUME NEW r \in RunType, RunOK(r, owner, turn, write),
               run.status = "active" => r = run
        PROVE  RunOK(r, owner, turn, write')
    <2>1. ASSUME NEW u \in Task, r.task[u].status = "completed", r.task[u].last \in Dispatch,
                 write[r.task[u].last] \in {"none", "missed"}
          PROVE  write'[r.task[u].last] \in {"none", "missed"}
      <3> SUFFICES ASSUME write'[r.task[u].last] \notin {"none", "missed"} PROVE FALSE
        OBVIOUS
      <3>1. PICK t \in Task : run.task[t].status = "running" /\ run.task[t].active = r.task[u].last
        BY <2>1
      <3>2. r = run
        BY <1>2, <2>1
      <3>3. RecordOK(run.task[t], t, owner, turn, write) /\ RecordOK(run.task[u], u, owner, turn, write)
        BY <1>2, <3>2 DEF RunOK
      <3>4. owner[run.task[t].active] = t /\ owner[run.task[u].last] = u
        BY <3>1, <3>2, <3>3, <2>1, Constants DEF RecordOK
      <3>5. t = u
        BY <3>1, <3>2, <3>4
      <3> QED BY <2>1, <3>1, <3>2, <3>5
    <2> QED BY <1>2, <2>1, RunOKWorld
  <1>3. ASSUME NEW r \in RunType, InScope(r, write),
               \A t \in Task : r.task[t].status = "running" => r.task[t].active \in Dispatch
        PROVE  InScope(r, write')
    BY <1>3 DEF InScope
  <1>4. ASSUME NEW r \in RunType, NEW S, Fit(r, S, owner, turn, write),
               run.status = "active" => r = run
        PROVE  Fit(r, S, owner, turn, write')
    <2>1. RunOK(r, owner, turn, write')
      BY <1>2, <1>4 DEF Fit
    <2>2. \A t \in Task : r.task[t].status = "running" => r.task[t].active \in Dispatch
      <3>1. \A t \in Task : r.task[t].active \in Dispatch \cup {None}
        BY RunTypeFields DEF Record
      <3>2. \A t \in Task : r.task[t].status = "running" => r.task[t].active # None
        BY <1>4 DEF Fit, RunOK, RecordOK, activeTask
      <3> QED BY <3>1, <3>2
    <2> QED BY <1>3, <1>4, <2>1, <2>2 DEF Fit
  <1>5. Sync'
    BY DEF CoreInv, Sync, pumping
  <1>6. InMemory'
    BY <1>1, <1>4 DEF InMemory
  <1>7. OnDisk'
    BY <1>1, <1>2 DEF OnDisk
  <1>8. Dispatching' /\ Ordered'
    BY DEF CoreInv, Dispatching, Ordered, pumping
  <1> QED BY <1>5, <1>6, <1>7, <1>8 DEF CoreInv

LEMMA WritesCore ==
  ASSUME TypeInv, TypeInv', CoreInv, NEW d \in Dispatch,
         observe(d) \/ writeInScope(d)
  PROVE  CoreInv'
  <1>0. write \in [Dispatch -> {"none", "checking", "bad", "missed"}]
    BY DEF TypeInv, WorkOK
  <1>1. CASE writeInScope(d)
    <2>1. \A e \in Dispatch : write'[e] \in {write[e], "none"}
      BY <1>0, <1>1 DEF writeInScope
    <2> QED BY <1>1, <2>1, WriteStep DEF writeInScope, disk, pumping
  <1>2. CASE observe(d)
    <2> DEFINE t == owner[d]
    <2>1. /\ t \in Task /\ UNCHANGED <<run, saved, stops, order, owner, turn, pausing>>
          /\ UNCHANGED pumping
      BY <1>2, Facts DEF observe, disk
    <2>2. CASE run.status = "active" /\ run.task[t].status = "running"
      <3>1. write' = [write EXCEPT ![run.task[t].active] = "checking"]
        BY <1>2, <2>2 DEF observe
      <3> HIDE DEF t
      <3>2. \A e \in Dispatch : write'[e] # write[e] => e = run.task[t].active /\ write'[e] = "checking"
        BY <1>0, <3>1
      <3> QED BY <2>1, <2>2, <3>2, WriteStep
    <2>3. CASE ~(run.status = "active" /\ run.task[t].status = "running")
      <3>1. write' = [write EXCEPT ![d] = "missed"]
        BY <1>2, <2>3 DEF observe
      <3>2. \A e \in Dispatch : write'[e] \in {write[e], "missed"}
        BY <1>0, <3>1
      <3> QED BY <2>1, <3>2, WriteStep
    <2> QED BY <2>2, <2>3
  <1> QED BY <1>1, <1>2

LEMMA BlockCore ==
  ASSUME TypeInv, TypeInv', CoreInv, NEW d \in Dispatch, blockTask(d)
  PROVE  CoreInv'
  <1> DEFINE t == owner[d]
  <1>1. /\ t \in Task /\ write[d] = "checking"
        /\ UNCHANGED <<owner, turn, starting, pausing, order>> /\ UNCHANGED pumping
    BY DEF blockTask, TypeInv, WorkOK
  <1>2. CASE run.status = "active" /\ Running(t, d)
    <2>1. /\ Save([run EXCEPT !.task[t].status = "cancelling"],
                  stops \cup {StopOf("block", t)}, stops)
          /\ write' = [write EXCEPT ![d] = "bad"]
      BY <1>2 DEF blockTask
    <2>2. activeTask(run.task[t]) /\ run.task[t].status = "running" /\ d = run.task[t].active
      BY <1>2 DEF Running, activeTask
    <2>3. \A e \in Dispatch : write'[e] # write[e] =>
              e = run.task[t].active /\ run.task[t].status = "running"
      BY <2>1, <2>2 DEF TypeInv, WorkOK
    <2>4. run.status = "active" => pausing' = {}
      BY <1>1, Facts
    <2>5. order' = order
      BY <1>1
    <2> HIDE DEF t
    <2> QED BY <1>1, <1>2, <2>1, <2>2, <2>3, <2>4, <2>5, MarkSave
  <1>3. CASE ~(run.status = "active" /\ Running(t, d))
    <2>1. write' = [write EXCEPT ![d] = "none"] /\ UNCHANGED disk
      BY <1>3 DEF blockTask
    <2>2. \A e \in Dispatch : write'[e] \in {write[e], "none"}
      BY <2>1 DEF TypeInv, WorkOK
    <2> QED BY <1>1, <2>1, <2>2, WriteStep DEF disk
  <1> QED BY <1>2, <1>3

LEMMA InterruptCore ==
  ASSUME TypeInv, TypeInv', CoreInv, NEW t \in Task, interruptTask(t)
  PROVE  CoreInv'
  <1>1. /\ UNCHANGED <<owner, turn, write, starting, order>> /\ UNCHANGED pumping
        /\ t \in pausing /\ write' = write /\ order' = order
    BY DEF interruptTask, workers
  <1>2. run.status # "active" /\ run.status # "none"
    BY <1>1 DEF CoreInv, Sync
  <1>3. CASE run.task[t].status = "running"
    <2>1. Save([run EXCEPT !.task[t].status = "cancelling"],
               stops \cup {StopOf("interrupt", t)}, stops)
      BY <1>3 DEF interruptTask
    <2>2. activeTask(run.task[t])
      BY <1>3 DEF activeTask
    <2> QED BY <1>1, <1>2, <2>1, <2>2, MarkSave
  <1>4. CASE run.task[t].status # "running"
    <2>1. pausing' \subseteq pausing /\ UNCHANGED disk
      BY <1>4 DEF interruptTask
    <2> QED BY <1>1, <2>1, WriteStep DEF disk
  <1> QED BY <1>3, <1>4

-----------------------------------------------------------------------------
(* The status of the run *)

\* The run stops being active; "more" are the stops of stopRun.
LEMMA StatusSave ==
  ASSUME TypeInv, TypeInv', CoreInv, run.status # "none",
         NEW status \in {"paused", "stopped", "finished"},
         NEW more \in SUBSET StopType,
         NEW ko \in SUBSET (stops \cup more),
         Save([run EXCEPT !.status = status], stops \cup more, ko),
         UNCHANGED <<owner, turn, write, order>>, CallPump \/ UNCHANGED pumping,
         \A s \in more : /\ s.kind = "run" /\ s.tasks = ActiveTasks(run) /\ s.dispatch = None
                         /\ ~s.done
  PROVE  CoreInv'
  <1> DEFINE next == [run EXCEPT !.status = status]
             ok == stops \cup more
  <1>1. /\ run \in RunType /\ Fit(run, stops, owner, turn, write')
        /\ stops \in SUBSET StopType /\ order \in OrderType
        /\ OrderOK(order, run, stops, owner, turn) /\ RunOK(saved, owner, turn, write')
        /\ \A d \in Dispatch : turn[d] = "live" => owner[d] \in Task
    BY Facts
  <1>2. /\ next \in RunType /\ next.status = status /\ next.task = run.task
        /\ next.requests = run.requests
    BY <1>1 DEF RunType
  <1>3. Save(next, ok, ko) /\ ok \in SUBSET StopType /\ ko \in SUBSET ok
        /\ \A s \in ok : s \in stops \/ s \in more
    BY <1>1
  <1> HIDE DEF next, ok
  <1>4. ActiveTasks(next) = ActiveTasks(run)
    BY <1>2 DEF ActiveTasks
  <1>5. StopsOK(next, ok, owner, turn)
    <2>1. \A s \in stops : StopFits(s, next, owner, turn)
      BY <1>1, <1>2, <1>4 DEF Fit, StopsOK, StopFits
    <2>2. \A s \in more : StopFits(s, next, owner, turn)
      BY <1>2, <1>4 DEF StopFits, ActiveTasks, activeTask
    <2>3. ASSUME NEW t \in Task, next.task[t].status = "cancelling"
          PROVE  \E s \in ok : t \in s.tasks
      BY <1>1, <1>2, <2>3 DEF Fit, StopsOK, ok
    <2> QED BY <1>3, <2>1, <2>2, <2>3 DEF StopsOK
  <1>6. Fit(next, ok, owner, turn, write')
    <2>1. RunOK(run, owner, turn, write') /\ Lives(run, owner, turn)
      BY <1>1 DEF Fit
    <2>2. \A t \in Task : RecordOK(next.task[t], t, owner, turn, write')
      BY <1>2, <2>1 DEF RunOK
    <2>3. Receipts(next)
      BY <1>2, <2>1 DEF RunOK, Receipts
    <2>4. InScope(next, write') /\ Resumed(next)
      BY <1>1, <1>2 DEF Fit, InScope, Resumed
    <2>5. ActiveTasks(next) \subseteq ActiveTasks(run) /\ next.task = run.task
      BY <1>2, <1>4
    <2> QED BY <1>1, <1>2, <1>5, <2>1, <2>2, <2>3, <2>4, <2>5, FitChange
  <1>7. OrderOK(order', next, ok, owner, turn)
    <2>1. order.op \in {"retry", "review"} => \A s \in more : order.task \notin s.tasks
      BY <1>1 DEF OrderOK, ActiveTasks, activeTask
    <2> QED BY <1>1, <1>2, <1>3, <2>1 DEF OrderOK
  <1>8. PreparingIn(pump') => PreparingIn(pump) /\ pump' = pump
    BY CallPumpGoesOn
  <1>9. \A t \in Task : next.task[t].active \in {None, run.task[t].active}
    BY <1>2
  <1> QED BY <1>1, <1>2, <1>3, <1>6, <1>7, <1>8, <1>9, RunSave

LEMMA StatusCore ==
  ASSUME TypeInv, TypeInv', CoreInv, pause \/ stopRun \/ finish
  PROVE  CoreInv'
  <1>0. stops \in SUBSET StopType /\ {} \in SUBSET StopType /\ stops \cup {} = stops
    BY Facts
  <1>1. CASE pause
    <2>1. /\ run.status # "none"
          /\ Save([run EXCEPT !.status = "paused"], stops, stops)
          /\ UNCHANGED <<owner, turn, write, starting, order>> /\ UNCHANGED pumping
      BY <1>1 DEF pause, workers
    <2>2. stops \in SUBSET (stops \cup {})
          /\ Save([run EXCEPT !.status = "paused"], stops \cup {}, stops)
      BY <1>0, <2>1
    <2> QED BY <1>0, <2>1, <2>2, StatusSave
  <1>2. CASE finish
    <2>1. /\ run.status # "none"
          /\ Save([run EXCEPT !.status = "finished"], stops, stops)
          /\ UNCHANGED <<owner, turn, write, starting, order>> /\ CallPump
      BY <1>2 DEF finish, handle, workers
    <2>2. stops \in SUBSET (stops \cup {})
          /\ Save([run EXCEPT !.status = "finished"], stops \cup {}, stops)
      BY <1>0, <2>1
    <2> QED BY <1>0, <2>1, <2>2, StatusSave
  <1>3. CASE stopRun
    <2> DEFINE all == [kind |-> "run", tasks |-> ActiveTasks(run), dispatch |-> None,
                       done |-> FALSE]
               ok == stops \cup {all}
    <2>1. /\ run.status # "none"
          /\ Save([run EXCEPT !.status = "stopped"], ok, ok)
          /\ UNCHANGED <<owner, turn, write, starting, order>> /\ UNCHANGED pumping
      BY <1>3 DEF stopRun, workers
    <2>2. {all} \in SUBSET StopType
      BY DEF StopType, ActiveTasks
    <2>3. \A s \in {all} : /\ s.kind = "run" /\ s.tasks = ActiveTasks(run) /\ s.dispatch = None
                           /\ ~s.done
      OBVIOUS
    <2>4. ok \in SUBSET (stops \cup {all})
      OBVIOUS
    <2> HIDE DEF all
    <2> QED BY <2>1, <2>2, <2>3, <2>4, StatusSave
  <1> QED BY <1>1, <1>2, <1>3

\* stopRun once its workers are stopped: nothing is left active or queued.
LEMMA StopRunStoppedCore ==
  ASSUME TypeInv, TypeInv', CoreInv, NEW s \in stops, stopRunStopped(s)
  PROVE  CoreInv'
  <1> DEFINE next == NextStopped
             ok == stops \ {s}
  <1>1. /\ s.done /\ s.kind = "run" /\ Save(next, ok, ok)
        /\ UNCHANGED <<owner, turn, write, starting, order, pausing>> /\ UNCHANGED pumping
    BY NextRuns DEF stopRunStopped, workers
  <1>2. /\ run.status # "none" /\ run \in RunType /\ Fit(run, stops, owner, turn, write')
        /\ stops \in SUBSET StopType /\ order \in OrderType
        /\ OrderOK(order, run, stops, owner, turn) /\ RunOK(saved, owner, turn, write')
        /\ \A d \in Dispatch : turn[d] = "live" => owner[d] \in Task
    <2>1. run.status # "none"
      BY DEF CoreInv, Sync
    <2> QED BY <1>1, <2>1, Facts
  <1>3. /\ next \in RunType /\ next.status = "stopped" /\ next.requests = run.requests
        /\ next.task = Stopped(run)
    BY <1>2, Facts, NextFields
  <1>4. ok \in SUBSET StopType /\ ok \in SUBSET ok /\ ok \subseteq stops
    BY <1>2
  <1> HIDE DEF next, ok
  <1>5. StopFits(s, run, owner, turn) /\ ActiveTasks(run) \subseteq s.tasks
    BY <1>1, <1>2 DEF Fit, StopsOK, StopFits
  <1>6. ASSUME NEW t \in Task
        PROVE  /\ RecordOK(next.task[t], t, owner, turn, write')
               /\ ~activeTask(next.task[t])
               /\ next.task[t].active = None /\ next.task[t].by = run.task[t].by
               /\ IF activeTask(run.task[t]) \/ run.task[t].status = "queued"
                  THEN next.task[t].status = "cancelled"
                  ELSE next.task[t] = run.task[t]
    <2> DEFINE k == run.task[t]
               e == Ended(k, "cancelled", k.active)
    <2>1. /\ k \in Record /\ RecordOK(k, t, owner, turn, write')
          /\ k.active \in Dispatch \cup {None}
      BY <1>2, RunTypeFields DEF Fit, RunOK, Record
    <2>3. next.task[t] = IF activeTask(k) \/ k.status = "queued" THEN e ELSE k
      BY <1>3 DEF Stopped
    <2> HIDE DEF k
    <2>2. /\ e.status = "cancelled" /\ e.active = None /\ ~e.accepted /\ e.by = k.by
          /\ e.last = IF k.active = None THEN k.last ELSE k.active
      <3>1. "cancelled" \in TaskStatus
        BY Statuses
      <3> QED BY <2>1, <3>1, EndedRecord
    <2> HIDE DEF e
    <2>4. RecordOK(e, t, owner, turn, write') /\ ~activeTask(e)
      BY <2>1, <2>2 DEF RecordOK, activeTask
    <2>5. ~activeTask(k) => k.active = None
      BY <2>1 DEF RecordOK
    <2>6. /\ RecordOK(next.task[t], t, owner, turn, write') /\ ~activeTask(next.task[t])
          /\ next.task[t].active = None /\ next.task[t].by = k.by
          /\ IF activeTask(k) \/ k.status = "queued" THEN next.task[t].status = "cancelled"
             ELSE next.task[t] = k
      BY <2>1, <2>2, <2>3, <2>4, <2>5
    <2> QED BY <2>6 DEF k
  <1>7. ActiveTasks(next) = {}
    BY <1>6 DEF ActiveTasks
  <1>8. StopsOK(next, ok, owner, turn)
    <2>1. ASSUME NEW x \in ok PROVE StopFits(x, next, owner, turn)
      <3>1. StopFits(x, run, owner, turn) /\ x.tasks \subseteq Task
        BY <1>2, <1>4 DEF Fit, StopsOK, StopType
      <3>2. x.kind # "run" => owner[x.dispatch] \in Task
        BY <3>1 DEF StopFits
      <3>3. x.kind # "run" /\ LatestTurn(next.task[owner[x.dispatch]]) = x.dispatch =>
                next.task[owner[x.dispatch]].status \notin {"running", "completed"}
        BY <1>6, <3>1, <3>2 DEF StopFits
      <3> QED BY <1>3, <1>7, <3>1, <3>3 DEF StopFits
    <2> QED BY <1>6, <2>1 DEF StopsOK, activeTask
  <1>9. \A d \in Dispatch : turn[d] = "live" => owner[d] \notin ActiveTasks(run)
    BY <1>1, <1>5 DEF StopFits
  <1>10. Fit(next, ok, owner, turn, write')
    <2>1. RunOK(run, owner, turn, write') /\ Lives(run, owner, turn)
      BY <1>2 DEF Fit
    <2>2. Receipts(next)
      BY <1>3, <1>6, <2>1 DEF RunOK, Receipts
    <2>3. InScope(next, write') /\ Resumed(next)
      BY <1>3, <1>6 DEF InScope, Resumed, activeTask
    <2>4. \A t \in Task : next.task[t].active # run.task[t].active =>
              \A d \in Dispatch : turn[d] = "live" => owner[d] # t
      <3>1. \A t \in Task : run.task[t].active # None => t \in ActiveTasks(run)
        BY <2>1 DEF RunOK, RecordOK, ActiveTasks
      <3>2. \A t \in Task : next.task[t].active = None
        BY <1>6
      <3> QED BY <1>9, <3>1, <3>2
    <2>5. \A t \in Task : RecordOK(next.task[t], t, owner, turn, write')
      BY <1>6
    <2>6. ActiveTasks(next) \subseteq ActiveTasks(run)
      BY <1>7
    <2> QED BY <1>2, <1>3, <1>8, <2>1, <2>2, <2>3, <2>4, <2>5, <2>6, FitChange
  <1>11. OrderOK(order', next, ok, owner, turn)
    <2>1. order.op \in {"retry", "review"} => next.task[order.task] = run.task[order.task]
      BY <1>2, <1>6 DEF OrderOK, OrderType, activeTask
    <2>2. order' = order
      BY <1>1
    <2> QED BY <1>2, <1>3, <1>4, <2>1, <2>2 DEF OrderOK
  <1>12. pump' = pump
    BY <1>1 DEF pumping
  <1>13. \A t \in Task : next.task[t].active \in {None, run.task[t].active}
    BY <1>6
  <1>14. UNCHANGED <<owner, turn>> /\ next.status # "none" /\ next.status # "active"
    BY <1>1, <1>3
  <1> QED BY <1>1, <1>2, <1>3, <1>4, <1>10, <1>11, <1>12, <1>13, <1>14, RunSave

-----------------------------------------------------------------------------
(* The lead's commands *)

\* A new task with its receipt.
LEMMA DelegateRecordCore ==
  ASSUME TypeInv, TypeInv', CoreInv, delegateRecord
  PROVE  CoreInv'
  <1>0. PICK t \in Task : Added(t) /\ Save(Delegated(t), stops, stops)
    BY DelegatedSave
  <1> DEFINE next == Delegated(t)
             k == Created(order.deps, order.request)
  <1>1. /\ Save(next, stops, stops) /\ CallPump /\ order' = NoOrder
        /\ UNCHANGED <<owner, turn, write, pausing>> /\ order.op = "delegate"
    BY <1>0, DelegatedSave DEF delegateRecord, workers
  <1>2. /\ run.status # "none" /\ run \in RunType /\ Fit(run, stops, owner, turn, write')
        /\ stops \in SUBSET StopType /\ RunOK(saved, owner, turn, write')
        /\ OrderOK(order, run, stops, owner, turn)
        /\ \A d \in Dispatch : turn[d] = "live" => owner[d] \in Task
        /\ run.status = "active" => pausing' = {}
    <2>1. run.status # "none"
      BY <1>1 DEF CoreInv, Sync, NoOrder
    <2> QED BY <1>1, <2>1, Facts
  <1>3. /\ next \in RunType /\ next.status = run.status
        /\ next.requests = run.requests \cup {order.request}
        /\ next.task[t] = k /\ order.request \in Request
        /\ \A u \in Task : u # t => next.task[u] = run.task[u]
    BY <1>1, DelegatedFields
  <1>4. /\ k.status = "queued" /\ k.active = None /\ k.last = None /\ ~k.accepted
        /\ k.by = order.request
    BY DEF Created
  <1>5. run.task[t].status = "absent" /\ order.request \notin run.requests
    BY <1>0, <1>1, <1>2 DEF OrderOK, Added
  <1> HIDE DEF next, k
  <1>6. RunOK(run, owner, turn, write') /\ Lives(run, owner, turn)
    BY <1>2 DEF Fit
  <1>7. run.task[t].active = None
    BY <1>3, <1>5, <1>6 DEF RunOK, RecordOK, activeTask
  <1>8. RecordOK(k, t, owner, turn, write') /\ ~activeTask(k)
    BY <1>4 DEF RecordOK, activeTask
  <1>9. \A u \in Task : RecordOK(next.task[u], u, owner, turn, write')
    BY <1>3, <1>6, <1>8 DEF RunOK
  <1>10. ActiveTasks(next) \subseteq ActiveTasks(run)
    BY <1>3, <1>8 DEF ActiveTasks
  <1>11. Receipts(next)
    <2>1. \A u \in Task : next.task[u].by # None => next.task[u].by \in next.requests
      BY <1>3, <1>4, <1>6 DEF RunOK, Receipts
    <2>2. ASSUME NEW u \in Task, NEW v \in Task,
                 next.task[u].by = next.task[v].by, next.task[u].by # None
          PROVE  u = v
      <3>1. \A x \in Task : x # t => next.task[x].by # order.request \/ next.task[x].by = None
        BY <1>3, <1>5, <1>6 DEF RunOK, Receipts
      <3>2. CASE u = t \/ v = t
        BY <1>3, <1>4, <2>2, <3>1, <3>2
      <3>3. CASE u # t /\ v # t
        <4>1. next.task[u] = run.task[u] /\ next.task[v] = run.task[v]
          BY <1>3, <3>3
        <4> QED BY <1>6, <2>2, <4>1 DEF RunOK, Receipts
      <3> QED BY <3>2, <3>3
    <2> QED BY <2>1, <2>2 DEF Receipts
  <1>12. \A u \in Task : next.task[u].active = run.task[u].active
    BY <1>3, <1>4, <1>7
  <1>13. InScope(next, write') /\ Resumed(next)
    BY <1>2, <1>3, <1>4 DEF Fit, InScope, Resumed
  <1>14. StopsOK(next, stops, owner, turn)
    <2>1. ASSUME NEW s \in stops PROVE StopFits(s, next, owner, turn)
      <3>1. StopFits(s, run, owner, turn) /\ s.tasks \subseteq Task
        BY <1>2 DEF Fit, StopsOK, StopType
      <3>2. s.kind # "run" => owner[s.dispatch] \in Task
        BY <3>1 DEF StopFits
      <3>3. \A u \in Task : next.task[u] = run.task[u] \/ next.task[u].status = "queued"
        BY <1>3, <1>4
      <3> QED BY <1>3, <1>10, <3>1, <3>2, <3>3 DEF StopFits
    <2>2. \A u \in Task : next.task[u].status = "cancelling" => run.task[u].status = "cancelling"
      BY <1>3, <1>4
    <2> QED BY <1>2, <2>1, <2>2 DEF Fit, StopsOK
  <1>15. Fit(next, stops, owner, turn, write')
    BY <1>2, <1>3, <1>6, <1>9, <1>10, <1>11, <1>12, <1>13, <1>14, FitChange
  <1>16. OrderOK(order', next, stops, owner, turn)
    BY <1>1 DEF OrderOK, NoOrder
  <1>17. PreparingIn(pump') => PreparingIn(pump) /\ pump' = pump
    BY <1>1, CallPumpGoesOn
  <1>18. stops \in SUBSET stops /\ UNCHANGED <<owner, turn>> /\ next.status # "none"
         /\ (next.status = "active" => pausing' = {})
    BY <1>1, <1>2, <1>3
  <1> QED BY <1>1, <1>2, <1>3, <1>12, <1>15, <1>16, <1>17, <1>18, RunSave

\* A task that waits again is not active.
LEMMA RequeueSave ==
  ASSUME TypeInv, TypeInv', CoreInv,
         NEW t \in Task, run.task[t].status # "absent", ~activeTask(run.task[t]),
         Requeue(t), CallPump, order' = NoOrder,
         UNCHANGED <<owner, turn, write, pausing>>
  PROVE  CoreInv'
  <1> DEFINE k == Queued(run.task[t])
  <1>1. /\ run.status # "none" /\ run \in RunType /\ Fit(run, stops, owner, turn, write)
        /\ stops \in SUBSET StopType /\ stops \in SUBSET stops
        /\ run.status = "active" => pausing' = {}
    BY Facts
  <1>2. run.task[t] \in Record /\ RecordOK(run.task[t], t, owner, turn, write)
    BY <1>1, RecordFacts
  <1>3. Save(With(run, t, k), stops, stops)
    BY QueuedTypes DEF Requeue
  <1>4. /\ k \in Record /\ k.status = "queued" /\ k.active = None /\ ~k.accepted
        /\ k.last = run.task[t].last /\ k.by = run.task[t].by
    BY <1>2, QueuedRecord
  <1> HIDE DEF k
  <1>5. ~activeTask(k) /\ RecordOK(k, t, owner, turn, write) /\ run.task[t].active = None
    BY <1>2, <1>4 DEF RecordOK, activeTask
  <1>6. \A s \in stops : StopFits(s, With(run, t, k), owner, turn)
    BY <1>1, <1>4, <1>5, StopWith DEF Fit, StopsOK
  <1>7. OrderOK(order', With(run, t, k), stops, owner, turn)
    BY DEF OrderOK, NoOrder
  <1> QED BY <1>1, <1>3, <1>4, <1>5, <1>6, <1>7, RecordSave

LEMMA RequeueCore ==
  ASSUME TypeInv, TypeInv', CoreInv,
         retryRecord \/ (\E t \in Task : message(t))
  PROVE  CoreInv'
  <1>1. CASE retryRecord
    <2>1. /\ order.op = "retry" /\ order.task \in Task
          /\ run.task[order.task].status \in {"completed", "failed", "blocked", "cancelled"}
      BY <1>1, Facts DEF retryRecord, OrderOK, OrderType
    <2>2. /\ Requeue(order.task) /\ CallPump /\ order' = NoOrder
          /\ UNCHANGED <<owner, turn, write, starting, pausing>>
      BY <1>1 DEF retryRecord, workers
    <2>3. run.task[order.task].status # "absent" /\ ~activeTask(run.task[order.task])
      BY <2>1 DEF activeTask
    <2> QED BY <2>1, <2>2, <2>3, RequeueSave
  <1>2. ASSUME NEW t \in Task, message(t) PROVE CoreInv'
    <2>1. run.task[t].status # "absent" /\ ~activeTask(run.task[t])
      BY <1>2 DEF message, Restartable, activeTask
    <2>2. /\ Requeue(t) /\ CallPump /\ order' = NoOrder
          /\ UNCHANGED <<owner, turn, write, starting, pausing>>
      BY <1>2 DEF message, handle, workers
    <2> QED BY <2>1, <2>2, RequeueSave
  <1> QED BY <1>1, <1>2

\* A command begins, or ends without a save.
LEMMA OrderStep ==
  ASSUME TypeInv, TypeInv', CoreInv, run.status # "none",
         UNCHANGED <<run, saved, stops, owner, turn, write, pausing>>,
         CallPump \/ UNCHANGED pumping, OrderOK(order', run, stops, owner, turn)
  PROVE  CoreInv'
  <1>1. PreparingIn(pump') => PreparingIn(pump) /\ pump' = pump
    BY CallPumpGoesOn
  <1>2. Sync' /\ InMemory' /\ OnDisk'
    BY DEF CoreInv, Sync, InMemory, OnDisk
  <1>3. Dispatching'
    BY <1>1 DEF CoreInv, Dispatching
  <1>4. Ordered'
    BY DEF Ordered
  <1> QED BY <1>2, <1>3, <1>4 DEF CoreInv

\* A command begins while the run is active, so that no pause or failed save is
\* stopping its task.
LEMMA BeginCore ==
  ASSUME TypeInv, TypeInv', CoreInv,
         \/ \E r \in Request, deps \in SUBSET Task : delegate(deps, r)
         \/ \E t \in Task : retry(t) \/ review(t)
  PROVE  CoreInv'
  <1>0. ASSUME handle
        PROVE  /\ run.status = "active" /\ run.status # "none" /\ saved = run
               /\ run \in RunType /\ Fit(run, stops, owner, turn, write)
    BY <1>0, Facts DEF handle
  <1>1. ASSUME NEW deps \in SUBSET Task, NEW r \in Request, delegate(deps, r)
        PROVE  CoreInv'
    <2>1. handle /\ UNCHANGED <<run, saved, stops, owner, turn, write, pausing>>
          /\ UNCHANGED pumping
      BY <1>1 DEF delegate, disk, workers
    <2>2. OrderOK(order', run, stops, owner, turn)
      BY <1>0, <1>1, <2>1 DEF delegate, OrderOK
    <2> QED BY <1>0, <2>1, <2>2, OrderStep
  <1>4. ASSUME handle
        PROVE  \A s \in stops : s.kind \notin {"run", "interrupt", "unsaved"}
    BY <1>0, <1>4 DEF Fit, StopsOK, StopFits
  <1>2. ASSUME NEW t \in Task, retry(t) PROVE CoreInv'
    <2>1. handle /\ UNCHANGED <<run, saved, stops, owner, turn, write, pausing>>
          /\ UNCHANGED pumping
      BY <1>2 DEF retry, disk, workers
    <2>2. order'.op = "retry" /\ order'.task = t
      BY <1>2 DEF retry, Begin, NoOrder
    <2>3. run.task[t].status \in {"completed", "failed", "blocked", "cancelled"}
      <3>1. run.task[t].status \in TaskStatus /\ run.task[t].status # "interrupted"
        BY <1>0, <2>1, RunTypeFields DEF Record, Fit, Resumed
      <3> QED BY <1>2, <3>1 DEF retry, Restartable, TaskStatus
    <2>4. OrderOK(order', run, stops, owner, turn)
      BY <1>4, <2>1, <2>2, <2>3 DEF OrderOK
    <2> QED BY <1>0, <2>1, <2>4, OrderStep
  <1>3. ASSUME NEW t \in Task, review(t) PROVE CoreInv'
    <2>1. handle /\ UNCHANGED <<run, saved, stops, owner, turn, write, pausing>>
          /\ UNCHANGED pumping
      BY <1>3 DEF review, disk, workers
    <2>2. order'.op = "review" /\ order'.task = t /\ run.task[t].status = "completed"
      BY <1>3 DEF review, Begin, NoOrder
    <2>3. RecordOK(run.task[t], t, owner, turn, write)
      BY <1>0, <2>1 DEF Fit, RunOK
    <2>4. LatestTurn(run.task[t]) = run.task[t].last
      BY <2>2, <2>3 DEF RecordOK, LatestTurn, activeTask
    <2>5. \A s \in stops : t \in s.tasks => s.dispatch # run.task[t].last
      BY <1>0, <1>4, <2>1, <2>2, <2>4 DEF Fit, StopsOK, StopFits
    <2>6. OwnResult(run.task[t], t, owner, turn)
      BY <2>2, <2>3 DEF RecordOK
    <2>7. OrderOK(order', run, stops, owner, turn)
      BY <1>4, <2>1, <2>2, <2>5, <2>6 DEF OrderOK
    <2> QED BY <1>0, <2>1, <2>7, OrderStep
  <1> QED BY <1>1, <1>2, <1>3

\* What is accepted is the result of the last turn.
LEMMA ReviewRecordCore ==
  ASSUME TypeInv, TypeInv', CoreInv, reviewRecord
  PROVE  CoreInv'
  <1> DEFINE t == order.task
             k == [run.task[t] EXCEPT !.accepted = TRUE]
  <1>1. /\ CallPump /\ order' = NoOrder /\ order.op = "review"
        /\ UNCHANGED <<owner, turn, write, starting, pausing>>
    BY DEF reviewRecord, workers
  <1>2. /\ run.status # "none" /\ run \in RunType /\ Fit(run, stops, owner, turn, write)
        /\ stops \in SUBSET StopType /\ stops \in SUBSET stops
        /\ OrderOK(order, run, stops, owner, turn)
        /\ run.status = "active" => pausing' = {}
    <2>1. run.status # "none"
      BY <1>1 DEF CoreInv, Sync, NoOrder
    <2> QED BY <1>1, <2>1, Facts
  <1>3. t \in Task
    BY <1>1, Facts DEF OrderType
  <1>4. CASE Save([run EXCEPT !.task[t].accepted = TRUE], stops, stops)
    <2>1. run.task[t] \in Record /\ RecordOK(run.task[t], t, owner, turn, write)
      BY <1>2, <1>3, RecordFacts
    <2>2. /\ run.task[t].status \in {"completed", "cancelled"}
          /\ OwnResult(run.task[t], t, owner, turn)
          /\ \A s \in stops : t \in s.tasks => s.dispatch # run.task[t].last
      BY <1>1, <1>2 DEF OrderOK
    <2>3. Save(With(run, t, k), stops, stops) /\ k \in Record
      BY <1>2, <1>3, <1>4, AcceptedFields
    <2>4. /\ k.status = run.task[t].status /\ k.active = run.task[t].active
          /\ k.last = run.task[t].last /\ k.by = run.task[t].by
      BY <2>1 DEF Record
    <2> HIDE DEF k, t
    <2>5. RecordOK(k, t, owner, turn, write)
      BY <2>1, <2>2, <2>4 DEF RecordOK, OwnResult, activeTask
    <2>6. ~activeTask(k) /\ k.status \notin {"running", "interrupted", "cancelling"}
      BY <2>2, <2>4 DEF activeTask
    <2>9. LatestTurn(k) = run.task[t].last
      BY <2>1, <2>2, <2>4 DEF RecordOK, LatestTurn, activeTask
    <2>7. \A s \in stops : StopFits(s, With(run, t, k), owner, turn)
      BY <1>2, <1>3, <2>2, <2>3, <2>6, <2>9, StopWith DEF Fit, StopsOK
    <2>8. OrderOK(order', With(run, t, k), stops, owner, turn)
      BY <1>1 DEF OrderOK, NoOrder
    <2> QED BY <1>1, <1>2, <1>3, <2>3, <2>4, <2>5, <2>6, <2>7, <2>8, RecordSave
  <1>5. CASE UNCHANGED disk
    <2>1. OrderOK(order', run, stops, owner, turn)
      BY <1>1 DEF OrderOK, NoOrder
    <2> QED BY <1>1, <1>2, <1>5, <2>1, OrderStep DEF disk
  <1> QED BY <1>4, <1>5 DEF reviewRecord

-----------------------------------------------------------------------------
(* Starting, resuming and reloading *)

\* A run with nothing active has no worker that works.
LEMMA NothingLive ==
  ASSUME NEW r, NEW O, NEW T, NEW W, RunOK(r, O, T, W), Lives(r, O, T), ActiveTasks(r) = {},
         \A d \in Dispatch : T[d] = "live" => O[d] \in Task
  PROVE  \A d \in Dispatch : T[d] # "live"
  <1> SUFFICES ASSUME NEW d \in Dispatch, T[d] = "live" PROVE FALSE
    OBVIOUS
  <1>1. O[d] \in Task /\ r.task[O[d]].active = d /\ d # None
    BY Constants DEF Lives
  <1>2. activeTask(r.task[O[d]])
    BY <1>1 DEF RunOK, RecordOK
  <1> QED BY <1>1, <1>2 DEF ActiveTasks

\* The run that a resume continues fits, and so does a new one.
LEMMA StartedFit ==
  ASSUME TypeInv, CoreInv, ActiveTasks(run) = {},
         run.status = "paused" \/ saved.status = "none"
  PROVE  /\ run.status \in {"none", "paused"} /\ (run.status = "none" => saved.status = "none")
         /\ \A d \in Dispatch : turn[d] # "live"
         /\ NextStarted \in RunType /\ NextStarted.status = "active"
         /\ ActiveTasks(NextStarted) = {}
         /\ Fit(NextStarted, {}, owner, turn, write)
         /\ OrderOK(order, NextStarted, {}, owner, turn)
  <1> DEFINE next == NextStarted
  <1>1. /\ run \in RunType /\ saved \in RunType /\ order \in OrderType
        /\ run.status # "none" => Fit(run, stops, owner, turn, write)
        /\ RunOK(saved, owner, turn, write) /\ Lives(saved, owner, turn)
        /\ OrderOK(order, run, stops, owner, turn)
        /\ \A d \in Dispatch : turn[d] = "live" => owner[d] \in Task
    BY Facts
  <1>2. /\ run.status \in {"none", "paused"} /\ (run.status = "none" => saved.status = "none")
        /\ saved.status = "none" => saved = NoRun
        /\ run.status = "none" => order = NoOrder
    BY DEF CoreInv, Sync
  <1>3. next \in RunType /\ next.status = "active"
    BY <1>1, NextStartedFields
  <1>4. CASE run.status = "paused"
    <2>1. next.task = Resumable(run) /\ next.requests = run.requests
      BY <1>1, <1>4, NextStartedFields
    <2>2. RunOK(run, owner, turn, write) /\ Lives(run, owner, turn) /\ run.status # "none"
      BY <1>1, <1>4 DEF Fit
    <2> HIDE DEF next
    <2>3. ASSUME NEW t \in Task
          PROVE  /\ RecordOK(next.task[t], t, owner, turn, write)
                 /\ ~activeTask(next.task[t]) /\ next.task[t].status # "interrupted"
                 /\ next.task[t].by = run.task[t].by
                 /\ run.task[t].status # "interrupted" => next.task[t] = run.task[t]
      <3> DEFINE k == run.task[t]
                 q == Queued(k)
      <3>1. k \in Record /\ RecordOK(k, t, owner, turn, write) /\ ~activeTask(k)
        BY <1>1, <2>2, RecordFacts DEF ActiveTasks
      <3>2. next.task[t] = IF k.status = "interrupted" THEN q ELSE k
        BY <2>1 DEF Resumable
      <3> HIDE DEF k
      <3>3. /\ q.status = "queued" /\ q.active = None /\ ~q.accepted
            /\ q.last = k.last /\ q.by = k.by
        BY <3>1, QueuedRecord
      <3> HIDE DEF q
      <3>4. RecordOK(q, t, owner, turn, write) /\ ~activeTask(q)
        BY <3>1, <3>3 DEF RecordOK, activeTask
      <3>5. /\ RecordOK(next.task[t], t, owner, turn, write)
            /\ ~activeTask(next.task[t]) /\ next.task[t].status # "interrupted"
            /\ next.task[t].by = k.by
            /\ k.status # "interrupted" => next.task[t] = k
        BY <3>1, <3>2, <3>3, <3>4
      <3> QED BY <3>5 DEF k
    <2>4. ActiveTasks(next) = {}
      BY <2>3 DEF ActiveTasks
    <2>5. \A d \in Dispatch : turn[d] # "live"
      BY <1>1, <2>2, NothingLive
    <2>6. Receipts(next)
      BY <2>1, <2>2, <2>3 DEF RunOK, Receipts
    <2>7. StopsOK(next, {}, owner, turn) /\ InScope(next, write) /\ Resumed(next)
      BY <2>3 DEF StopsOK, InScope, Resumed, activeTask
    <2>8. Fit(next, {}, owner, turn, write)
      <3>1. \A t \in Task : RecordOK(next.task[t], t, owner, turn, write)
        BY <2>3
      <3>2. ActiveTasks(next) \subseteq ActiveTasks(run)
        BY <2>4
      <3> QED BY <1>1, <1>3, <2>2, <2>5, <2>6, <2>7, <3>1, <3>2, FitChange
    <2>9. OrderOK(order, next, {}, owner, turn)
      BY <1>1, <2>1, <2>3 DEF OrderOK, OrderType
    <2> QED BY <1>2, <1>3, <2>4, <2>5, <2>8, <2>9 DEF next
  <1>5. CASE run.status # "paused"
    <2>1. next.task = NoRun.task /\ next.requests = {} /\ saved = NoRun /\ order = NoOrder
      BY <1>1, <1>2, <1>5, NextStartedFields
    <2> HIDE DEF next
    <2>2. \A t \in Task : next.task[t] = Absent /\ saved.task[t] = Absent
      BY <2>1, NoRunType
    <2>3. ActiveTasks(next) = {} /\ ActiveTasks(saved) = {}
      BY <2>2 DEF ActiveTasks, activeTask, Absent
    <2>4. \A d \in Dispatch : turn[d] # "live"
      BY <1>1, <2>3, NothingLive
    <2>5. \A t \in Task : RecordOK(next.task[t], t, owner, turn, write)
      BY <1>1, <2>2 DEF RunOK
    <2>6. Receipts(next)
      BY <2>2 DEF Receipts, Absent
    <2>7. StopsOK(next, {}, owner, turn) /\ InScope(next, write) /\ Resumed(next)
      BY <2>2 DEF StopsOK, InScope, Resumed, Absent
    <2>8. Fit(next, {}, owner, turn, write)
      BY <1>1, <1>3, <2>3, <2>4, <2>5, <2>6, <2>7, FitChange
    <2>9. OrderOK(order, next, {}, owner, turn)
      BY <2>1 DEF OrderOK, NoOrder
    <2> QED BY <1>2, <1>3, <2>3, <2>4, <2>8, <2>9 DEF next
  <1> QED BY <1>4, <1>5

LEMMA StartCore ==
  ASSUME CoreInv, startRun
  PROVE  CoreInv'
  BY DEF startRun, disk, pumping, workers, CoreInv, Sync, InMemory, OnDisk, Dispatching, Ordered

\* A commit that is not overtaken is of the run that would be started now.
LEMMA StartCommitCore ==
  ASSUME TypeInv, TypeInv', CoreInv, startRunCommit, ~overtaken'
  PROVE  CoreInv'
  <1>1. /\ Save(starting, stops, stops) /\ CallPump
        /\ UNCHANGED <<order, pausing, owner, turn, write>>
    BY DEF startRunCommit, workers
  <1>2. Startable /\ starting = Resumption /\ stops = {} /\ pausing = {}
    BY DEF startRunCommit, Overtaken
  <1>3. starting = NextStarted
    BY <1>2, NextRuns
  <1>4. /\ starting.status = "active" /\ ActiveTasks(starting) = {}
        /\ Fit(starting, stops, owner, turn, write')
        /\ OrderOK(order', starting, stops, owner, turn)
    BY <1>1, <1>2, <1>3, StartedFit DEF Startable
  <1>5. /\ starting \in RunType /\ RunOK(saved, owner, turn, write')
        /\ stops \in SUBSET StopType /\ stops \in SUBSET stops
    BY <1>1, Facts
  <1>6. \A t \in Task : starting.task[t].active = None
    BY <1>4 DEF ActiveTasks, Fit, RunOK, RecordOK
  <1>7. PreparingIn(pump') => PreparingIn(pump) /\ pump' = pump
    BY <1>1, CallPumpGoesOn
  <1> QED BY <1>1, <1>2, <1>4, <1>5, <1>6, <1>7, RunSave

\* A save in a step that may also give out a dispatch or end turns.
LEMMA WorldSave ==
  ASSUME TypeInv', CoreInv,
         NEW next \in RunType, NEW ok \in SUBSET StopType, NEW ko \in SUBSET ok,
         Save(next, ok, ko), next.status # "none",
         NEW O, NEW T, NEW W, owner' = O, turn' = T, write' = W,
         RunOK(saved, O, T, W), Lives(saved, O, T), Fit(next, ok, O, T, W),
         \A d \in Dispatch : T[d] = "live" => O[d] \in Task,
         OrderOK(order', next, ok, O, T),
         next.status = "active" => pausing' = {},
         PreparingIn(pump') => next.task[pump'.task].active \in {None, pump'.dispatch}
  PROVE  CoreInv'
  <1>1. Sync'
    BY SaveSync DEF CoreInv
  <1>2. InMemory'
    BY SaveFit DEF InMemory
  <1>3. OnDisk'
    BY SaveDisk DEF OnDisk
  <1>4. Dispatching'
    <2>1. ASSUME PreparingIn(pump')
          PROVE  run'.task[pump'.task].active \in {None, pump'.dispatch}
      <3>1. pump'.task \in Task
        BY <2>1 DEF TypeInv, PumpOK
      <3>2. run'.task[pump'.task].active = next.task[pump'.task].active
        BY <3>1, SaveActive
      <3> QED BY <2>1, <3>2
    <2> QED BY <2>1 DEF Dispatching
  <1>5. Ordered'
    <2>1. order' \in OrderType
      BY DEF TypeInv
    <2> QED BY <2>1, SaveOrdered DEF Ordered
  <1> QED BY <1>1, <1>2, <1>3, <1>4, <1>5 DEF CoreInv

\* hydrate finds every worker that works through the saved run.
LEMMA HydrateCore ==
  ASSUME TypeInv, TypeInv', CoreInv, hydrate
  PROVE  CoreInv'
  <1> DEFINE next == NextHydrated
             T == [d \in Dispatch |->
                      IF turn[d] = "live" /\ owner[d] \in ActiveTasks(saved)
                      THEN "stopped" ELSE turn[d]]
  <1>1. /\ run.status = "none" /\ saved.status # "none" /\ turn' = T
        /\ Save(next, stops, stops) /\ UNCHANGED pumping
        /\ UNCHANGED <<order, pausing, owner, write>>
    BY NextRuns DEF hydrate
  <1>2. /\ saved \in RunType /\ RunOK(saved, owner, turn, write) /\ Lives(saved, owner, turn)
        /\ \A d \in Dispatch : turn[d] = "live" => owner[d] \in Task
    BY Facts
  <1>3. stops = {} /\ pausing = {} /\ order = NoOrder /\ pump = IdlePump
    BY <1>1 DEF CoreInv, Sync
  <1>4. \A d \in Dispatch : T[d] # "live"
    <2> SUFFICES ASSUME NEW d \in Dispatch, T[d] = "live" PROVE FALSE
      OBVIOUS
    <2>1. turn[d] = "live" /\ owner[d] \notin ActiveTasks(saved)
      BY DEF T
    <2>2. owner[d] \in Task /\ saved.task[owner[d]].active # None
      BY <1>2, <2>1, Constants DEF Lives
    <2>3. activeTask(saved.task[owner[d]])
      BY <1>2, <2>2 DEF RunOK, RecordOK
    <2> QED BY <2>1, <2>2, <2>3 DEF ActiveTasks
  <1>5. \A d \in Dispatch : turn[d] = "completed" => T[d] = "completed"
    BY DEF T
  <1>6. /\ next \in RunType /\ next.requests = saved.requests
        /\ next.status = (IF saved.status = "active" THEN "paused" ELSE saved.status)
        /\ next.task = Interrupted(saved, Task)
    BY <1>2, Facts, NextFields
  <1> HIDE DEF T, next
  <1>7. RunOK(saved, owner, T, write) /\ Lives(saved, owner, T)
    BY <1>2, <1>4, <1>5, RunOKWorld DEF Lives
  <1>8. ASSUME NEW t \in Task
        PROVE  /\ RecordOK(next.task[t], t, owner, T, write) /\ ~activeTask(next.task[t])
               /\ next.task[t].by = saved.task[t].by
    <2> DEFINE k == saved.task[t]
               e == Ended(k, "interrupted", k.active)
    <2>1. /\ k \in Record /\ RecordOK(k, t, owner, T, write)
          /\ k.active \in Dispatch \cup {None}
      BY <1>2, <1>7, RunTypeFields DEF RunOK, Record
    <2>2. next.task[t] = IF activeTask(k) THEN e ELSE k
      BY <1>6 DEF Interrupted
    <2> HIDE DEF k
    <2>3. /\ e.status = "interrupted" /\ e.active = None /\ ~e.accepted /\ e.by = k.by
          /\ e.last = IF k.active = None THEN k.last ELSE k.active
      <3>1. "interrupted" \in TaskStatus
        BY Statuses
      <3> QED BY <2>1, <3>1, EndedRecord
    <2> HIDE DEF e
    <2>4. RecordOK(e, t, owner, T, write) /\ ~activeTask(e)
      BY <2>1, <2>3 DEF RecordOK, activeTask
    <2>5. /\ RecordOK(next.task[t], t, owner, T, write) /\ ~activeTask(next.task[t])
          /\ next.task[t].by = k.by
      BY <2>1, <2>2, <2>3, <2>4
    <2> QED BY <2>5 DEF k
  <1>9. Fit(next, stops, owner, T, write)
    <2>1. Receipts(next)
      BY <1>6, <1>7, <1>8 DEF RunOK, Receipts
    <2>2. InScope(next, write) /\ Resumed(next) /\ StopsOK(next, stops, owner, T)
      BY <1>3, <1>6, <1>8 DEF InScope, Resumed, StopsOK, activeTask
    <2>3. ActiveTasks(next) \subseteq ActiveTasks(saved)
      BY <1>8 DEF ActiveTasks
    <2>4. \A t \in Task : RecordOK(next.task[t], t, owner, T, write)
      BY <1>8
    <2> QED BY <1>2, <1>4, <1>6, <1>7, <2>1, <2>2, <2>3, <2>4, FitChange
  <1>10. OrderOK(order', next, stops, owner, T) /\ ~PreparingIn(pump')
    BY <1>1, <1>3 DEF OrderOK, NoOrder, pumping, IdlePump, PreparingIn
  <1>11. stops \in SUBSET StopType /\ stops \in SUBSET stops /\ next.status # "none"
         /\ owner' = owner /\ write' = write /\ pausing' = {}
    BY <1>1, <1>3, <1>6
  <1> QED BY <1>1, <1>4, <1>6, <1>7, <1>9, <1>10, <1>11, WorldSave

\* A reload leaves what is on disk, where the workers still stand.
LEMMA ReloadCore ==
  ASSUME TypeInv, TypeInv', CoreInv, reload
  PROVE  CoreInv'
  <1>1. /\ run.status # "none"
        /\ run' = NoRun /\ stops' = {} /\ pausing' = {}
        /\ pump' = IdlePump /\ again' = FALSE /\ order' = NoOrder
        /\ UNCHANGED <<saved, owner, turn>>
        /\ write' = [d \in Dispatch |-> IF write[d] = "checking" THEN "none" ELSE write[d]]
    BY DEF reload
  <1>2. saved \in RunType /\ RunOK(saved, owner, turn, write) /\ Lives(saved, owner, turn)
    BY Facts
  <1>3. \A d \in Dispatch : write[d] \in {"none", "missed"} => write'[d] \in {"none", "missed"}
    BY <1>1
  <1>4. RunOK(saved, owner, turn, write')
    BY <1>2, <1>3, RunOKWorld
  <1>5. OnDisk'
    BY <1>1, <1>2, <1>4 DEF OnDisk
  <1>6. Sync'
    BY <1>1, NoRunType DEF CoreInv, Sync
  <1>7. InMemory' /\ Dispatching' /\ Ordered'
    BY <1>1, NoRunType DEF InMemory, Dispatching, PreparingIn, IdlePump, Ordered,
       OrderOK, NoOrder
  <1> QED BY <1>5, <1>6, <1>7 DEF CoreInv

-----------------------------------------------------------------------------
(* Stops, and the ends of turns *)

LEMMA StopCore ==
  ASSUME TypeInv, TypeInv', CoreInv, NEW s \in stops, stop(s)
  PROVE  CoreInv'
  <1> DEFINE over == [s EXCEPT !.done = TRUE]
             T == [d \in Dispatch |-> IF turn[d] = "live" /\ owner[d] \in s.tasks
                                      THEN "stopped" ELSE turn[d]]
             S == (stops \ {s}) \cup {over}
  <1>1. /\ turn' = T /\ stops' = S
        /\ UNCHANGED <<run, saved, order, pausing, owner, write>>
        /\ UNCHANGED pumping
    BY DEF stop
  <1>2. run.status # "none"
    BY DEF CoreInv, Sync
  <1>3. /\ run \in RunType /\ saved \in RunType /\ order \in OrderType /\ stops \in SUBSET StopType
        /\ Fit(run, stops, owner, turn, write)
        /\ RunOK(saved, owner, turn, write) /\ Lives(saved, owner, turn)
        /\ OrderOK(order, run, stops, owner, turn)
    BY <1>2, Facts
  <1>4. /\ \A d \in Dispatch : T[d] = "live" => turn[d] = "live" /\ owner[d] \notin s.tasks
        /\ \A d \in Dispatch : turn[d] = "completed" => T[d] = "completed"
    BY DEF T
  <1>5. /\ over.tasks = s.tasks /\ over.kind = s.kind /\ over.dispatch = s.dispatch
    BY <1>3 DEF StopType
  <1>6. \A x \in S : x \in stops \/ x = over
    OBVIOUS
  <1>7. \A x \in stops : x = s \/ x \in S
    OBVIOUS
  <1>8. over \in S
    OBVIOUS
  <1> HIDE DEF T, S, over
  <1>9. Fit(run, stops, owner, T, write)
    BY <1>3, <1>4, FitWorld
  <1>10. StopsOK(run, S, owner, T)
    <2>1. StopFits(over, run, owner, T)
      <3>1. StopFits(s, run, owner, T)
        BY <1>9 DEF Fit, StopsOK
      <3>2. s.kind # "run" => T[s.dispatch] # "live"
        <4> SUFFICES ASSUME s.kind # "run", T[s.dispatch] = "live" PROVE FALSE
          OBVIOUS
        <4>1. s.dispatch \in Dispatch /\ owner[s.dispatch] \in s.tasks
          BY <1>3, <3>1 DEF StopFits, StopType
        <4> QED BY <1>4, <4>1
      <3> QED BY <1>4, <1>5, <3>1, <3>2 DEF StopFits
    <2>2. ASSUME NEW t \in Task, run.task[t].status = "cancelling"
          PROVE  \E x \in S : t \in x.tasks
      <3>1. PICK x \in stops : t \in x.tasks
        BY <1>9, <2>2 DEF Fit, StopsOK
      <3> QED BY <1>5, <1>7, <1>8, <3>1
    <2> QED BY <1>6, <1>9, <2>1, <2>2 DEF Fit, StopsOK
  <1>11. Fit(run, S, owner, T, write)
    BY <1>9, <1>10 DEF Fit
  <1>12. RunOK(saved, owner, T, write) /\ Lives(saved, owner, T)
    BY <1>3, <1>4, RunOKWorld DEF Lives
  <1>13. OrderOK(order, run, S, owner, T)
    <2>1. OrderOK(order, run, stops, owner, T)
      BY <1>3, <1>4, OrderWorld
    <2> QED BY <1>5, <1>6, <2>1 DEF OrderOK
  <1>14. Sync'
    BY <1>1, <1>2 DEF CoreInv, Sync, pumping
  <1>15. InMemory' /\ OnDisk' /\ Ordered'
    BY <1>1, <1>11, <1>12, <1>13 DEF InMemory, OnDisk, Ordered
  <1>16. Dispatching'
    BY <1>1 DEF CoreInv, Dispatching, pumping
  <1> QED BY <1>14, <1>15, <1>16 DEF CoreInv

\* After a failed save the stopped records change in memory only.
LEMMA UnsavedCore ==
  ASSUME TypeInv, TypeInv', CoreInv, NEW s \in stops, unsavedStopped(s), ~overtaken'
  PROVE  CoreInv'
  <1> DEFINE next == NextUnsaved(s.tasks)
             S == stops \ {s}
  <1>1. /\ run' = next /\ stops' = S /\ s.done /\ s.kind = "unsaved" /\ ~OtherTurn(s)
        /\ UNCHANGED <<saved, order, pausing, owner, turn, write>>
        /\ UNCHANGED pumping
    BY NextRuns DEF unsavedStopped, workers, Overtaken
  <1>2. run.status # "none"
    BY <1>1 DEF CoreInv, Sync
  <1>3. /\ run \in RunType /\ saved \in RunType /\ order \in OrderType /\ stops \in SUBSET StopType
        /\ Fit(run, stops, owner, turn, write)
        /\ RunOK(saved, owner, turn, write) /\ Lives(saved, owner, turn)
        /\ OrderOK(order, run, stops, owner, turn)
        /\ \A d \in Dispatch : turn[d] = "live" => owner[d] \in Task
    BY <1>2, Facts
  <1>4. StopFits(s, run, owner, turn)
    BY <1>3 DEF Fit, StopsOK
  <1>5. /\ run.status # "active"
        /\ \A d \in Dispatch : turn[d] = "live" => owner[d] \notin s.tasks
    <2>1. run.status # "active" /\ s.dispatch # None /\ turn[s.dispatch] # "live"
      BY <1>1, <1>4 DEF StopFits
    <2>2. ASSUME NEW d \in Dispatch, turn[d] = "live", owner[d] \in s.tasks PROVE FALSE
      <3>1. run.task[owner[d]].active = d /\ d # None
        BY <1>3, <2>2, Constants DEF Fit, Lives
      <3>2. d = s.dispatch
        BY <1>1, <2>2, <3>1 DEF OtherTurn, LatestTurn
      <3> QED BY <2>1, <2>2, <3>2
    <2> QED BY <2>1, <2>2
  <1>6. /\ next \in RunType /\ next.status = run.status /\ next.requests = run.requests
        /\ next.task = Interrupted(run, s.tasks)
    BY <1>3, NextUnsavedFields
  <1>7. S \subseteq stops /\ \A x \in stops : x = s \/ x \in S
    OBVIOUS
  <1> HIDE DEF next, S
  <1>8. ASSUME NEW t \in Task
        PROVE  /\ RecordOK(next.task[t], t, owner, turn, write)
               /\ next.task[t].by = run.task[t].by
               /\ next.task[t].active \in {None, run.task[t].active}
               /\ \/ next.task[t] = run.task[t] /\ ~(t \in s.tasks /\ activeTask(run.task[t]))
                  \/ t \in s.tasks /\ next.task[t].status = "interrupted" /\ activeTask(run.task[t])
    <2> DEFINE k == run.task[t]
               e == Ended(k, "interrupted", k.active)
    <2>1. /\ k \in Record /\ RecordOK(k, t, owner, turn, write)
          /\ k.active \in Dispatch \cup {None}
      BY <1>3, RunTypeFields DEF Fit, RunOK, Record
    <2>2. next.task[t] = IF t \in s.tasks /\ activeTask(k) THEN e ELSE k
      BY <1>6 DEF Interrupted
    <2> HIDE DEF k
    <2>3. /\ e.status = "interrupted" /\ e.active = None /\ ~e.accepted /\ e.by = k.by
          /\ e.last = IF k.active = None THEN k.last ELSE k.active
      <3>1. "interrupted" \in TaskStatus
        BY Statuses
      <3> QED BY <2>1, <3>1, EndedRecord
    <2> HIDE DEF e
    <2>4. RecordOK(e, t, owner, turn, write)
      BY <2>1, <2>3 DEF RecordOK, activeTask
    <2>5. /\ RecordOK(next.task[t], t, owner, turn, write)
          /\ next.task[t].by = k.by /\ next.task[t].active \in {None, k.active}
          /\ \/ next.task[t] = k /\ ~(t \in s.tasks /\ activeTask(k))
             \/ t \in s.tasks /\ next.task[t].status = "interrupted" /\ activeTask(k)
      BY <2>1, <2>2, <2>3, <2>4
    <2> QED BY <2>5 DEF k
  <1>9. ActiveTasks(next) \subseteq ActiveTasks(run)
    BY <1>8 DEF ActiveTasks
  <1>10. StopsOK(next, S, owner, turn)
    <2>1. ASSUME NEW x \in S PROVE StopFits(x, next, owner, turn)
      <3>1. StopFits(x, run, owner, turn) /\ x.tasks \subseteq Task
        BY <1>3, <1>7 DEF Fit, StopsOK, StopType
      <3>2. x.kind # "run" => owner[x.dispatch] \in Task
        BY <3>1 DEF StopFits
      <3>3. \A t \in Task : next.task[t] = run.task[t] \/ next.task[t].status = "interrupted"
        BY <1>8
      <3> QED BY <1>5, <1>6, <1>9, <3>1, <3>2, <3>3 DEF StopFits
    <2>2. ASSUME NEW t \in Task, next.task[t].status = "cancelling"
          PROVE  \E x \in S : t \in x.tasks
      <3>1. next.task[t] = run.task[t] /\ t \notin s.tasks
        BY <1>8, <2>2 DEF activeTask
      <3>2. \E x \in stops : t \in x.tasks
        BY <1>3, <2>2, <3>1 DEF Fit, StopsOK
      <3> QED BY <1>7, <3>1, <3>2
    <2> QED BY <2>1, <2>2 DEF StopsOK
  <1>11. Fit(next, S, owner, turn, write)
    <2>1. RunOK(run, owner, turn, write) /\ Lives(run, owner, turn)
      BY <1>3 DEF Fit
    <2>2. \A t \in Task : RecordOK(next.task[t], t, owner, turn, write)
      BY <1>8
    <2>3. Receipts(next)
      BY <1>6, <1>8, <2>1 DEF RunOK, Receipts
    <2>4. InScope(next, write) /\ Resumed(next)
      <3>1. \A t \in Task : next.task[t].status = "running" => next.task[t] = run.task[t]
        BY <1>8
      <3> QED BY <1>3, <1>5, <1>6, <3>1 DEF Fit, InScope, Resumed
    <2>5. \A t \in Task : next.task[t].active # run.task[t].active =>
              \A d \in Dispatch : turn[d] = "live" => owner[d] # t
      BY <1>5, <1>8
    <2> QED BY <1>3, <1>6, <1>9, <1>10, <2>1, <2>2, <2>3, <2>4, <2>5, FitChange
  <1>12. OrderOK(order, next, S, owner, turn)
    <2>1. order.op \in {"retry", "review"} => next.task[order.task] = run.task[order.task]
      BY <1>3, <1>8 DEF OrderOK, OrderType, activeTask
    <2> QED BY <1>3, <1>6, <1>7, <2>1 DEF OrderOK
  <1>13. Sync'
    BY <1>1, <1>2, <1>5, <1>6 DEF CoreInv, Sync
  <1>14. InMemory' /\ OnDisk' /\ Ordered'
    BY <1>1, <1>3, <1>11, <1>12 DEF InMemory, OnDisk, Ordered
  <1>15. Dispatching'
    <2>1. PreparingIn(pump) => pump.task \in Task /\ run.task[pump.task].active \in {None, pump.dispatch}
      BY DEF CoreInv, Dispatching, TypeInv, PumpOK
    <2>2. PreparingIn(pump) => next.task[pump.task].active \in {None, pump.dispatch}
      BY <1>8, <2>1
    <2> QED BY <1>1, <1>2, <2>2 DEF Dispatching, pumping
  <1> QED BY <1>13, <1>14, <1>15 DEF CoreInv

LEMMA TurnCore ==
  ASSUME TypeInv, TypeInv', CoreInv, NEW d \in Dispatch, TurnEnds(d) \/ settle(d)
  PROVE  CoreInv'
  <1>1. CASE TurnEnds(d)
    <2>1. /\ \A e \in Dispatch : turn'[e] = "live" => turn[e] = "live"
          /\ \A e \in Dispatch : turn[e] = "completed" => turn'[e] = "completed"
      BY <1>1 DEF TurnEnds, TypeInv, WorkOK
    <2> QED BY <1>1, <2>1, StillStep DEF TurnEnds, disk, pumping
  <1>2. CASE settle(d)
    BY <1>2, StillStep DEF settle, disk, pumping
  <1> QED BY <1>1, <1>2

-----------------------------------------------------------------------------
(* The dispatcher *)

LEMMA PumpGoesOnCore ==
  ASSUME TypeInv, TypeInv', CoreInv, pumpEnds \/ pumpCreated \/ pumpFailed
  PROVE  CoreInv'
  <1>0. /\ pump \in PumpType
        /\ PreparingIn(pump) => pump.dispatch \in Dispatch /\ turn[pump.dispatch] = "none"
        /\ turn \in [Dispatch -> {"none", "live", "completed", "failed", "stopped"}]
    BY DEF TypeInv, PumpOK, WorkOK
  <1>1. pump.stage # "idle" => run.status # "none"
    BY DEF CoreInv, Sync, IdlePump
  <1>2. NextTask => pump'.stage = "scan"
    BY DEF NextTask, IdlePump
  <1>3. CASE pumpEnds
    <2>1. pump'.stage \in {"scan", "idle"} /\ run.status # "none"
      BY <1>1, <1>3 DEF pumpEnds, IdlePump
    <2> QED BY <1>3, <2>1, StillStep DEF pumpEnds, disk, workers, PreparingIn
  <1>4. CASE pumpCreated
    <2>1. /\ UNCHANGED <<run, saved, stops, order, pausing, owner, turn, write>>
          /\ pump.stage = "create" /\ run.status # "none"
      BY <1>1, <1>4 DEF pumpCreated, disk, workers
    <2>2. CASE run.status = "active" /\ run.task[pump.task].status = "running"
      <3>1. pump'.task = pump.task /\ pump'.dispatch = pump.dispatch
        BY <1>0, <1>4, <2>2 DEF pumpCreated, PumpType
      <3> QED BY <2>1, <3>1, StillStep DEF PreparingIn
    <2>3. CASE ~(run.status = "active" /\ run.task[pump.task].status = "running")
      <3>1. pump'.stage = "scan"
        BY <1>2, <1>4, <2>3 DEF pumpCreated
      <3> QED BY <2>1, <3>1, StillStep DEF PreparingIn
    <2> QED BY <2>2, <2>3
  <1>5. CASE pumpFailed
    <2>1. /\ UNCHANGED <<run, saved, stops, order, pausing, owner, write>>
          /\ PreparingIn(pump) /\ run.status # "none" /\ pump'.stage = "scan"
          /\ turn' = [turn EXCEPT ![pump.dispatch] = "failed"]
      BY <1>1, <1>2, <1>5 DEF pumpFailed, disk, PreparingIn
    <2>2. /\ \A e \in Dispatch : turn'[e] = "live" => turn[e] = "live"
          /\ \A e \in Dispatch : turn[e] = "completed" => turn'[e] = "completed"
      BY <1>0, <2>1
    <2> QED BY <2>1, <2>2, StillStep DEF PreparingIn
  <1> QED BY <1>3, <1>4, <1>5

\* A commit that is not overtaken is of the run as it is.
LEMMA PreparedCore ==
  ASSUME TypeInv, TypeInv', CoreInv, pumpPrepared, ~overtaken'
  PROVE  CoreInv'
  <1>1. /\ pump.stage = "scopes" /\ Save(pump.seen, stops, stops)
        /\ UNCHANGED <<order, pausing, owner, turn, write>>
    BY DEF pumpPrepared, workers
  <1>2. pump.seen = run /\ run.status # "none"
    <2>1. Overtaken(run # pump.seen)
      BY DEF pumpPrepared
    <2>2. pump.seen = run
      BY <2>1 DEF Overtaken
    <2>3. run.status = "none" => pump = IdlePump
      BY DEF CoreInv, Sync
    <2> QED BY <1>1, <2>2, <2>3 DEF IdlePump
  <1>3. /\ run \in RunType /\ Fit(run, stops, owner, turn, write')
        /\ RunOK(saved, owner, turn, write') /\ stops \in SUBSET StopType
        /\ stops \in SUBSET stops /\ OrderOK(order', run, stops, owner, turn)
        /\ run.status = "active" => pausing' = {}
    BY <1>1, <1>2, Facts
  <1>4. pump \in PumpType
    BY Facts
  <1>5. PreparingIn(pump') => /\ PreparingIn(pump) /\ pump'.task = pump.task
                              /\ pump'.dispatch = pump.dispatch
    <2>1. CASE Saved
      <3>1. pump' = [pump EXCEPT !.stage = "submit", !.seen = NoRun]
        BY <2>1 DEF pumpPrepared
      <3> QED BY <1>1, <1>4, <3>1 DEF PumpType, PreparingIn
    <2>2. CASE ~Saved
      BY <2>2 DEF pumpPrepared, NextTask, IdlePump, PreparingIn
    <2> QED BY <2>1, <2>2
  <1>6. \A t \in Task : run.task[t].active \in {None, run.task[t].active}
    OBVIOUS
  <1> QED BY <1>1, <1>2, <1>3, <1>5, <1>6, RunSave

\* A turn begins: it is the active dispatch of its task, on disk too.
LEMMA SubmitCore ==
  ASSUME TypeInv, TypeInv', CoreInv, pumpSubmit
  PROVE  CoreInv'
  <1>1. /\ pump.stage = "submit" /\ PreparingIn(pump) /\ pump'.stage = "scan"
        /\ UNCHANGED <<run, saved, stops, order, pausing, owner, write>>
    BY DEF pumpSubmit, NextTask, IdlePump, PreparingIn, disk
  <1>2. /\ run.status # "none" /\ pump.task \in Task /\ pump.dispatch \in Dispatch
        /\ owner[pump.dispatch] = pump.task /\ turn[pump.dispatch] = "none"
        /\ run.task[pump.task].active \in {None, pump.dispatch}
        /\ turn \in [Dispatch -> {"none", "live", "completed", "failed", "stopped"}]
    BY <1>1 DEF CoreInv, Sync, IdlePump, TypeInv, PumpOK, WorkOK, Dispatching
  <1>3. CASE ~(run.status = "active" /\ run.task[pump.task].status = "running")
    <2>1. UNCHANGED turn
      BY <1>3 DEF pumpSubmit
    <2> QED BY <1>1, <1>2, <2>1, StillStep DEF PreparingIn
  <1>4. CASE run.status = "active" /\ run.task[pump.task].status = "running"
    <2> DEFINE d == pump.dispatch
               t == pump.task
    <2>1. PICK x \in {"failed", "live"} : turn' = [turn EXCEPT ![d] = x]
      BY <1>4 DEF pumpSubmit
    <2> DEFINE T == [turn EXCEPT ![d] = x]
    <2>2. /\ run \in RunType /\ saved = run /\ order \in OrderType
          /\ Fit(run, stops, owner, turn, write) /\ OrderOK(order, run, stops, owner, turn)
      BY <1>2, <1>4, Facts
    <2>3. run.task[t].active = d
      BY <1>2, <1>4, <2>2 DEF Fit, RunOK, RecordOK, activeTask
    <2>4. /\ \A e \in Dispatch : e # d => T[e] = turn[e]
          /\ turn[d] = "none" /\ owner[d] = t
          /\ \A e \in Dispatch : turn[e] = "completed" => T[e] = "completed"
      BY <1>2
    <2>5. turn' = T
      BY <2>1
    <2> HIDE DEF T, d, t
    <2>6. RunOK(run, owner, T, write)
      BY <2>2, <2>4, RunOKWorld DEF Fit
    <2>7. Lives(run, owner, T)
      BY <2>2, <2>3, <2>4 DEF Fit, Lives
    <2>8. StopsOK(run, stops, owner, T)
      <3>0. run.status = "active" /\ run.task[t].status = "running" /\ d # None /\ d \in Dispatch
        BY <1>2, <1>4, Constants DEF t, d
      <3>1. LatestTurn(run.task[t]) = d
        BY <2>3, <3>0 DEF LatestTurn
      <3>2. ASSUME NEW s \in stops PROVE StopFits(s, run, owner, T)
        <4>1. StopFits(s, run, owner, turn) /\ s.dispatch \in Dispatch \cup {None}
          BY <2>2, Facts DEF Fit, StopsOK, StopType
        <4>2. s.kind # "run"
          BY <3>0, <4>1 DEF StopFits
        <4>3. s.dispatch # d
          BY <2>4, <3>0, <3>1, <4>1, <4>2 DEF StopFits
        <4> QED BY <2>4, <4>1, <4>2, <4>3 DEF StopFits
      <3> QED BY <2>2, <3>2 DEF Fit, StopsOK
    <2>9. Fit(run, stops, owner, T, write)
      BY <2>2, <2>6, <2>7, <2>8 DEF Fit
    <2>10. OrderOK(order, run, stops, owner, T)
      BY <2>2, <2>4, OrderWorld
    <2>11. Sync'
      BY <1>1, <1>2 DEF CoreInv, Sync
    <2>12. InMemory' /\ OnDisk' /\ Ordered'
      BY <1>1, <2>2, <2>5, <2>6, <2>7, <2>9, <2>10 DEF InMemory, OnDisk, Ordered
    <2>13. Dispatching'
      BY <1>1 DEF Dispatching, PreparingIn
    <2> QED BY <2>11, <2>12, <2>13 DEF CoreInv
  <1> QED BY <1>3, <1>4

\* A new worker: its files are free, and there is room for it.
LEMMA DispatchCore ==
  ASSUME TypeInv, TypeInv', CoreInv, pumpDispatch
  PROVE  CoreInv'
  <1> DEFINE t == PickedTask
             d == PickedDispatch
             k == Dispatched(t, d)
             O == [owner EXCEPT ![d] = t]
             next == With(run, t, k)
  <1>1. /\ t \in Task /\ d \in Dispatch /\ owner[d] = None /\ Ready(run, t)
        /\ \A e \in Dispatch : owner[e] # None => e < d
    BY Picked
  <1>2. /\ k \in Record /\ k.status = "running" /\ k.active = d
        /\ k.last = run.task[t].last /\ k.accepted = run.task[t].accepted
        /\ k.by = run.task[t].by
        /\ Save(next, stops, stops) /\ owner' = O
        /\ pump' = IF Saved
                   THEN [stage |-> "create", todo |-> {u \in pump.todo : u > t},
                         task |-> t, dispatch |-> d, seen |-> NoRun]
                   ELSE IdlePump
    BY DispatchSave
  <1> HIDE DEF t, d, k
  <1>3. /\ run.status = "active" /\ run.status # "none" /\ run \in RunType /\ saved = run
        /\ Fit(run, stops, owner, turn, write) /\ stops \in SUBSET StopType
        /\ order \in OrderType /\ OrderOK(order, run, stops, owner, turn)
        /\ pausing = {}
        /\ \A e \in Dispatch : turn[e] = "live" => owner[e] \in Task
    <2>1. run.status = "active"
      BY <1>1 DEF Ready
    <2> QED BY <2>1, Facts
  <1>4. /\ UNCHANGED <<order, pausing, turn, write>>
        /\ turn[d] = "none" /\ write[d] = "none"
        /\ owner \in [Dispatch -> Task \cup {None}]
    BY <1>1 DEF pumpDispatch, workers, TypeInv, WorkOK
  <1>5. /\ O[d] = t /\ \A e \in Dispatch : e # d => O[e] = owner[e]
    BY <1>1, <1>4
  <1>6. /\ next \in RunType /\ next.status = run.status /\ next.requests = run.requests
        /\ next.task[t] = k /\ \A u \in Task : u # t => next.task[u] = run.task[u]
    BY <1>1, <1>2, <1>3, WithRun
  <1> HIDE DEF O, next
  <1>7. run.task[t].status = "queued" /\ ~run.task[t].accepted /\ run.task[t].active = None
    <2>1. run.task[t].status = "queued" /\ RecordOK(run.task[t], t, owner, turn, write)
      BY <1>1, <1>3 DEF Ready, Fit, RunOK
    <2> QED BY <2>1 DEF RecordOK, activeTask
  <1>8. ASSUME NEW u \in Task PROVE RecordOK(run.task[u], u, O, turn, write)
    <2> DEFINE r == run.task[u]
    <2>1. RecordOK(r, u, owner, turn, write)
      BY <1>3 DEF Fit, RunOK
    <2>2. r.active \in Dispatch \cup {None} /\ r.last \in Dispatch \cup {None}
      BY <1>3, RunTypeFields DEF Record
    <2>3. u = t => r.status = "queued" /\ ~r.accepted /\ r.active = None
      BY <1>7
    <2>4. u # None
      BY Constants
    <2> HIDE DEF r
    <2>5. r.active # None => O[r.active] = u /\ \A e \in Dispatch : O[e] = u => e <= r.active
      BY <1>1, <1>5, <2>1, <2>2, <2>3, <2>4 DEF RecordOK
    <2>6. r.last # None => O[r.last] = u
      BY <1>1, <1>5, <2>1, <2>2, <2>4 DEF RecordOK
    <2>7. r.status = "completed" \/ r.accepted => OwnResult(r, u, O, turn)
      BY <1>1, <1>5, <2>1, <2>2, <2>3 DEF RecordOK, OwnResult
    <2>8. RecordOK(r, u, O, turn, write)
      BY <2>1, <2>5, <2>6, <2>7 DEF RecordOK
    <2> QED BY <2>8 DEF r
  <1>9. RunOK(saved, O, turn, write) /\ Lives(saved, O, turn)
    <2>1. RunOK(run, O, turn, write)
      BY <1>3, <1>8 DEF Fit, RunOK
    <2>2. Lives(run, O, turn)
      BY <1>3, <1>4, <1>5 DEF Fit, Lives
    <2> QED BY <1>3, <2>1, <2>2
  <1>10. RecordOK(k, t, O, turn, write)
    <2>1. run.task[t].last \in Dispatch \cup {None} /\ RecordOK(run.task[t], t, owner, turn, write)
      BY <1>1, <1>3, RunTypeFields DEF Record, Fit, RunOK
    <2>2. run.task[t].last # None => O[run.task[t].last] = t /\ run.task[t].last # d
      BY <1>1, <1>5, <2>1, Constants DEF RecordOK
    <2>3. \A e \in Dispatch : O[e] = t => e <= d
      <3> SUFFICES ASSUME NEW e \in Dispatch, O[e] = t PROVE e <= d
        OBVIOUS
      <3>1. e = d \/ owner[e] # None
        BY <1>1, <1>5, Constants
      <3>2. e \in Nat /\ d \in Nat
        BY <1>1, Constants
      <3> QED BY <1>1, <3>1, <3>2
    <2>4. d # None /\ activeTask(k)
      BY <1>1, <1>2, Constants DEF activeTask
    <2> QED BY <1>2, <1>5, <1>7, <2>2, <2>3, <2>4 DEF RecordOK
  <1>11. Apart(next)
    <2>1. ActiveTasks(next) = ActiveTasks(run) \cup {t} /\ t \notin ActiveTasks(run)
      BY <1>1, <1>2, <1>6, <1>7 DEF ActiveTasks, activeTask
    <2>2. Cardinality(ActiveTasks(next)) = Cardinality(ActiveTasks(run)) + 1
      BY <2>1, ActiveFinite, FS_AddElement
    <2>3. Cardinality(ActiveTasks(next)) <= MaxWorkers
      BY <1>1, <2>2, ActiveFinite, Constants DEF Ready
    <2>4. ASSUME NEW u \in ActiveTasks(next), NEW v \in ActiveTasks(next), u # v
          PROVE  {u, v} \notin Shared
      <3>1. \A x \in ActiveTasks(run) : {t, x} \notin Shared /\ {x, t} = {t, x}
        BY <1>1 DEF Ready
      <3>2. CASE u = t \/ v = t
        BY <2>1, <2>4, <3>1, <3>2
      <3>3. CASE u # t /\ v # t
        BY <1>3, <2>1, <2>4, <3>3 DEF Fit, RunOK, Apart
      <3> QED BY <3>2, <3>3
    <2> QED BY <2>3, <2>4 DEF Apart
  <1>12. RunOK(next, O, turn, write)
    <2>1. \A u \in Task : RecordOK(next.task[u], u, O, turn, write)
      BY <1>6, <1>8, <1>10
    <2>2. Receipts(next)
      <3>1. \A u \in Task : next.task[u].by = run.task[u].by
        BY <1>2, <1>6
      <3> QED BY <1>3, <1>6, <3>1 DEF Fit, RunOK, Receipts
    <2> QED BY <1>11, <2>1, <2>2 DEF RunOK
  <1>13. Lives(next, O, turn)
    <2> SUFFICES ASSUME NEW e \in Dispatch, turn[e] = "live"
                 PROVE  next.task[O[e]].active = e
      BY DEF Lives
    <2>1. e # d /\ O[e] = owner[e] /\ owner[e] \in Task /\ run.task[owner[e]].active = e
      BY <1>3, <1>4, <1>5 DEF Fit, Lives
    <2>2. owner[e] # t
      BY <1>7, <2>1, Constants
    <2> QED BY <1>6, <2>1, <2>2
  <1>14. StopsOK(next, stops, O, turn)
    <2>1. ASSUME NEW s \in stops PROVE StopFits(s, next, O, turn)
      <3>1. /\ StopFits(s, run, owner, turn) /\ s.tasks \subseteq Task
            /\ s.dispatch \in Dispatch \cup {None} /\ s \in StopType
        BY <1>3 DEF Fit, StopsOK, StopType
      <3>2. s.kind \notin {"run", "interrupt", "unsaved"}
        BY <1>3, <3>1 DEF StopFits
      <3>3. /\ s.dispatch \in Dispatch /\ owner[s.dispatch] \in Task
            /\ s.dispatch # d /\ O[s.dispatch] = owner[s.dispatch]
        BY <1>1, <1>5, <3>1, <3>2, Constants DEF StopFits
      <3>4. LatestTurn(next.task[t]) = d
        BY <1>1, <1>2, <1>6, Constants DEF LatestTurn
      <3>5. LatestTurn(next.task[O[s.dispatch]]) = s.dispatch =>
                next.task[O[s.dispatch]].status \notin {"running", "completed"}
        BY <1>6, <3>1, <3>2, <3>3, <3>4 DEF StopFits
      <3> QED BY <3>1, <3>2, <3>3, <3>5 DEF StopFits
    <2>2. \A u \in Task : next.task[u].status = "cancelling" => run.task[u].status = "cancelling"
      BY <1>2, <1>6
    <2> QED BY <1>3, <2>1, <2>2 DEF Fit, StopsOK
  <1>15. InScope(next, write) /\ Resumed(next)
    BY <1>2, <1>3, <1>4, <1>6 DEF Fit, InScope, Resumed
  <1>16. Fit(next, stops, O, turn, write)
    BY <1>12, <1>13, <1>14, <1>15 DEF Fit
  <1>17. OrderOK(order', next, stops, O, turn)
    <2>1. order.op \in {"retry", "review"} =>
              order.task # t /\ next.task[order.task] = run.task[order.task]
      BY <1>3, <1>6, <1>7 DEF OrderOK, OrderType
    <2>2. order.op = "review" => OwnResult(run.task[order.task], order.task, O, turn)
      BY <1>3, <1>5, <2>1 DEF OrderOK, OwnResult
    <2> QED BY <1>3, <1>4, <1>6, <2>1, <2>2 DEF OrderOK
  <1>18. PreparingIn(pump') => next.task[pump'.task].active \in {None, pump'.dispatch}
    <2>1. CASE Saved
      BY <1>2, <1>6, <2>1
    <2>2. CASE ~Saved
      BY <1>2, <2>2 DEF IdlePump, PreparingIn
    <2> QED BY <2>1, <2>2
  <1>19. /\ turn' = turn /\ write' = write /\ pausing' = {}
         /\ stops \in SUBSET stops /\ next.status # "none"
         /\ \A e \in Dispatch : turn[e] = "live" => O[e] \in Task
    BY <1>3, <1>4, <1>5, <1>6
  <1> QED BY <1>2, <1>3, <1>6, <1>9, <1>16, <1>17, <1>18, <1>19, WorldSave

-----------------------------------------------------------------------------
(* The invariant holds *)

LEMMA CoreInit == Init => CoreInv
  <1> SUFFICES ASSUME Init PROVE CoreInv
    OBVIOUS
  <1>1. \A t \in Task : NoRun.task[t] = Absent
    BY NoRunType
  <1>2. ActiveTasks(NoRun) = {}
    BY <1>1 DEF ActiveTasks, activeTask, Absent
  <1>3. Apart(NoRun)
    <2>1. Cardinality(ActiveTasks(NoRun)) = 0
      BY <1>2, FS_EmptySet
    <2> QED BY <1>2, <2>1, Constants DEF Apart
  <1>4. RunOK(NoRun, owner, turn, write)
    <2>1. \A t \in Task : RecordOK(NoRun.task[t], t, owner, turn, write)
      BY <1>1 DEF RecordOK, Absent, activeTask
    <2>2. Receipts(NoRun)
      BY <1>1 DEF Receipts, Absent
    <2> QED BY <1>3, <2>1, <2>2 DEF RunOK
  <1>5. Lives(NoRun, owner, turn)
    BY DEF Init, Lives
  <1>6. Sync
    BY NoRunType DEF Init, Sync
  <1>7. InMemory /\ OnDisk
    BY <1>4, <1>5, NoRunType DEF Init, InMemory, OnDisk
  <1>8. Dispatching /\ Ordered
    BY DEF Init, Dispatching, PreparingIn, IdlePump, Ordered, OrderOK, NoOrder
  <1> QED BY <1>6, <1>7, <1>8 DEF CoreInv

LEMMA CoreStep ==
  ASSUME TypeInv, CoreInv, [Next]_vars, ~overtaken'
  PROVE  CoreInv'
  <1>0. TypeInv'
    BY TypeStep
  <1>1. CASE pumpDispatch \/ pumpEnds
    BY <1>0, <1>1, DispatchCore, PumpGoesOnCore
  <1>2. CASE Awaited
    <2>1. ASSUME NEW d \in Dispatch,
                 settle(d) \/ settleCommit(d) \/ writeInScope(d) \/ blockTask(d)
          PROVE  CoreInv'
      BY <1>0, <2>1, TurnCore, SettleCommitCore, WritesCore, BlockCore
    <2>2. ASSUME NEW s \in stops,
                 stop(s) \/ cancelTaskStopped(s) \/ blockTaskStopped(s)
                   \/ interruptTaskStopped(s) \/ unsavedStopped(s) \/ stopRunStopped(s)
          PROVE  CoreInv'
      BY <1>0, <2>2, StopCore, TaskStoppedCore, UnsavedCore, StopRunStoppedCore
    <2> QED BY <1>0, <1>2, <2>1, <2>2, StartCommitCore, PumpGoesOnCore, PreparedCore, SubmitCore,
            DelegateRecordCore, RequeueCore, ReviewRecordCore, InterruptCore
        DEF Awaited
  <1>3. CASE Commands
    <2>1. ASSUME NEW t \in Task, message(t) \/ retry(t) \/ cancel(t) \/ review(t)
          PROVE  CoreInv'
      BY <1>0, <2>1, BeginCore, RequeueCore, CancelCore
    <2>2. ASSUME NEW r \in Request, NEW deps \in SUBSET Task, delegate(deps, r)
          PROVE  CoreInv'
      BY <1>0, <2>2, BeginCore
    <2> QED BY <1>0, <1>3, <2>1, <2>2, StatusCore DEF Commands
  <1>4. CASE Environment
    BY <1>0, <1>4, StartCore, StatusCore, PumpGoesOnCore, ReloadCore, HydrateCore, TurnCore,
       WritesCore, CancelCore
    DEF Environment
  <1>5. CASE UNCHANGED vars
    BY <1>0, <1>5, StillStep DEF vars, disk, pumping, workers
  <1> QED BY <1>1, <1>2, <1>3, <1>4, <1>5 DEF Next

\* The whole run, in memory and on disk, with its stops and commands under
\* way, stays consistent until a commit undoes changes it did not know of
\* (pump, startRun, cancelTask, blockTask, interruptTask); its types stay right
\* after that too.
THEOREM RunInvariant ==
  Spec => [](TypeInv /\ (~overtaken => CoreInv))
  <1>1. Init => TypeInv /\ CoreInv /\ overtaken \in BOOLEAN
    BY TypeInit, CoreInit DEF Init
  <1>2. /\ TypeInv /\ (~overtaken => CoreInv) /\ overtaken \in BOOLEAN /\ [Next]_vars
        => TypeInv' /\ (~overtaken => CoreInv)' /\ (overtaken \in BOOLEAN)'
    BY TypeStep, CoreStep, HistoryStep
  <1> QED BY <1>1, <1>2, PTL DEF Spec

LEMMA FitParts ==
  ASSUME TypeInv, CoreInv
  PROVE  /\ \A t \in Task : RecordOK(run.task[t], t, owner, turn, write)
         /\ Receipts(run)
         /\ \A t \in Task : run.task[t].status = "cancelling" => \E s \in stops : t \in s.tasks
  <1>1. CASE run.status # "none"
    BY <1>1, Facts DEF Fit, RunOK, StopsOK
  <1>2. CASE run.status = "none"
    <2>1. \A t \in Task : run.task[t] = Absent
      BY <1>2, NoRunType DEF CoreInv, Sync
    <2> QED BY <2>1 DEF RecordOK, Receipts, Absent, activeTask
  <1> QED BY <1>1, <1>2

LEMMA ApartImplies ==
  ASSUME TypeInv, CoreInv PROVE LiveWorkersApart
  <1>1. /\ saved \in RunType /\ RunOK(saved, owner, turn, write) /\ Lives(saved, owner, turn)
        /\ \A d \in Dispatch : turn[d] = "live" => owner[d] \in Task
    BY Facts
  <1>2. ASSUME NEW d \in Live
        PROVE  owner[d] \in ActiveTasks(saved) /\ saved.task[owner[d]].active = d
    <2>1. d \in Dispatch /\ turn[d] = "live" /\ d # None
      BY Constants DEF Live
    <2>2. owner[d] \in Task /\ saved.task[owner[d]].active = d
      BY <1>1, <2>1 DEF Lives
    <2> QED BY <1>1, <2>1, <2>2 DEF RunOK, RecordOK, ActiveTasks
  <1>3. \A d, e \in Live : d # e => owner[d] # owner[e]
    BY <1>2
  <1>4. \A d, e \in Live : d # e => {owner[d], owner[e]} \notin Shared
    BY <1>1, <1>2, <1>3 DEF RunOK, Apart
  <1>5. Cardinality(Live) <= MaxWorkers
    <2> DEFINE f == [d \in Live |-> owner[d]]
    <2>1. f \in Injection(Live, ActiveTasks(saved))
      BY <1>2, <1>3 DEF Injection, IsInjective
    <2>2. IsFiniteSet(Live)
      BY Constants, FS_Subset DEF Live
    <2>3. Cardinality(Live) <= Cardinality(ActiveTasks(saved))
      BY <2>1, ActiveFinite, FS_Injection
    <2>4. Cardinality(Live) \in Nat
      BY <2>2, FS_CardinalityType
    <2> QED BY <1>1, <2>3, <2>4, ActiveFinite, Constants DEF RunOK, Apart
  <1> QED BY <1>3, <1>4, <1>5 DEF LiveWorkersApart

\* Workers that work never share files, never are two in one conversation,
\* never more than the run allows (pump), until a commit undoes changes it did
\* not know of.
THEOREM WorkersApart ==
  Spec => []LiveWorkersApart
  <1>1. TypeInv /\ (~overtaken => CoreInv) => LiveWorkersApart
    BY ApartImplies DEF LiveWorkersApart
  <1> QED BY <1>1, RunInvariant, PTL

\* A worker that works is the active dispatch of its task in the saved run
\* (pump saves before it submits), until a commit undoes changes it did not
\* know of.
THEOREM WorkersSaved ==
  Spec => []AuthoritySaved
  <1>1. TypeInv /\ (~overtaken => CoreInv) => AuthoritySaved
    BY Facts DEF Lives, AuthoritySaved, Live
  <1> QED BY <1>1, RunInvariant, PTL

\* A completed or accepted task got its result from the last turn it was given
\* (settle, review), until a commit undoes changes it did not know of.
THEOREM ResultsAreOwn ==
  Spec => []OwnOutcome
  <1>1. TypeInv /\ (~overtaken => CoreInv) => OwnOutcome
    BY FitParts DEF RecordOK, OwnResult, OwnOutcome
  <1> QED BY <1>1, RunInvariant, PTL

\* A completed task has no write that is being checked or was refused (settle,
\* observe), until a commit undoes changes it did not know of.
THEOREM ResultsAreChecked ==
  Spec => []NoUncheckedResult
  <1>1. TypeInv /\ (~overtaken => CoreInv) => NoUncheckedResult
    BY FitParts DEF RecordOK, NoUncheckedResult
  <1> QED BY <1>1, RunInvariant, PTL

\* A delegate request never makes two tasks (handle), until a commit brings
\* back a run that does not have its receipt.
THEOREM DelegatesOnce ==
  Spec => []DelegatedOnce
  <1>1. TypeInv /\ (~overtaken => CoreInv) => DelegatedOnce
    BY FitParts DEF Receipts, DelegatedOnce
  <1> QED BY <1>1, RunInvariant, PTL

\* A task marked as being cancelled has its stop under way (cancelTask,
\* interruptTask, blockTask, a failed save), until a commit brings back the
\* mark after the stop.
THEOREM CancellingStops ==
  Spec => []CancellingIsStopped
  <1>1. TypeInv /\ (~overtaken => CoreInv) => CancellingIsStopped
    BY FitParts DEF CancellingIsStopped
  <1> QED BY <1>1, RunInvariant, PTL

-----------------------------------------------------------------------------
(* The dispatcher is awake while a task could start, and a settled dispatch  *)
(* is never active again                                                     *)

\* What a step may never do, for every task.
Kept == \A t \in Task : run.task[t].last # None => run'.task[t].active # run.task[t].last

PumpKeeps ==
    /\ again' = again /\ pump'.todo = pump.todo
    /\ pump'.stage = "idle" => pump.stage = "idle"

LEMMA PumpGoesOn ==
  /\ UNCHANGED pumping => PumpKeeps
  /\ NextTask /\ again' = again => PumpKeeps
  BY DEF PumpKeeps, pumping, NextTask, IdlePump

LEMMA ActiveKept ==
  ASSUME TypeInv, CoreInv, \A t \in Task : run'.task[t].active \in {None, run.task[t].active}
  PROVE  Kept
  <1>1. \A t \in Task : RecordOK(run.task[t], t, owner, turn, write)
    BY FitParts
  <1> QED BY <1>1 DEF RecordOK, Kept

QueuedTasks(r) == {t \in Task : r.task[t].status = "queued"}

LEMMA QueuedFinite ==
  ASSUME NEW r
  PROVE  /\ QueuedTasks(r) \subseteq Task /\ IsFiniteSet(QueuedTasks(r))
         /\ Cardinality(QueuedTasks(r)) \in Nat
         /\ IsFiniteSet(Dispatch \ Used) /\ Cardinality(Dispatch \ Used) \in Nat
  <1>1. QueuedTasks(r) \in SUBSET Task /\ Dispatch \ Used \in SUBSET Dispatch
    BY DEF QueuedTasks
  <1> QED BY <1>1, Constants, FS_Subset, FS_CardinalityType

LEMMA AffordableBelow ==
  ASSUME NEW r, NEW r2, Affordable(r), QueuedTasks(r2) \subseteq QueuedTasks(r)
  PROVE  Affordable(r2)
  <1>1. Cardinality(QueuedTasks(r2)) <= Cardinality(QueuedTasks(r))
    BY QueuedFinite, FS_Subset
  <1>2. Cardinality(QueuedTasks(r)) <= Cardinality(Dispatch \ Used)
    BY DEF Affordable, QueuedTasks
  <1>3. Cardinality(QueuedTasks(r2)) <= Cardinality(Dispatch \ Used)
    BY <1>1, <1>2, QueuedFinite
  <1> QED BY <1>3 DEF Affordable, QueuedTasks

\* A call of pump looks at every task there is, now or in one more pass.
LEMMA CallWakes ==
  ASSUME CallPump
  PROVE  /\ pump'.stage # "idle"
         /\ again' \/ \A t \in Task \ pump'.todo : ~Ready(run', t)
  <1>1. CASE pump.stage = "idle"
    <2>1. pump' = [IdlePump EXCEPT !.stage = "scan",
                                   !.todo = {t \in Task : run'.task[t].status # "absent"}]
      BY <1>1 DEF CallPump
    <2>2. pump'.stage = "scan" /\ pump'.todo = {t \in Task : run'.task[t].status # "absent"}
      BY <2>1 DEF IdlePump
    <2> QED BY <2>2 DEF Ready
  <1>2. CASE pump.stage # "idle"
    BY <1>2 DEF CallPump
  <1> QED BY <1>1, <1>2

\* A save: either it calls pump, or no task becomes ready by it.
LEMMA WakeSave ==
  ASSUME TypeInv, CoreInv, WakeInv, NEW next \in RunType, NEW ok, NEW ko, Save(next, ok, ko),
         UNCHANGED owner, starting' \in {starting, NoRun},
         starting' # NoRun => next.status # "active",
         next.status = "active" => Affordable(next),
         \A t \in Task : next.task[t].active \in {None, run.task[t].active},
         CallPump \/ (PumpKeeps /\ \A t \in Task : Ready(next, t) => Ready(run, t))
  PROVE  WakeInv' /\ Kept
  <1>1. run' = next \/ run'.status = "paused"
    BY SaveCases DEF Succeeds, Fails, Failed
  <1>2. Kept
    BY SaveActive, ActiveKept
  <1>3. /\ run'.status = "active" => Affordable(run')
        /\ starting' # NoRun => run'.status # "active" /\ Affordable(starting')
    BY <1>1 DEF WakeInv
  <1>5. CASE CallPump
    BY <1>2, <1>3, <1>5, CallWakes DEF WakeInv, Affordable, Used
  <1>6. CASE PumpKeeps /\ \A t \in Task : Ready(next, t) => Ready(run, t)
    <2>1. \A t \in Task : Ready(run', t) => Ready(run, t)
      BY <1>1, <1>6 DEF Ready
    <2> QED BY <1>2, <1>3, <1>6, <2>1 DEF WakeInv, PumpKeeps, Affordable, Used
  <1> QED BY <1>5, <1>6

LEMMA WakeStill ==
  ASSUME TypeInv, CoreInv, WakeInv, UNCHANGED <<run, owner>>, starting' \in {starting, NoRun},
         CallPump \/ PumpKeeps
  PROVE  WakeInv' /\ Kept
  <1>1. Kept
    BY ActiveKept
  <1>2. CASE CallPump
    BY <1>1, <1>2, CallWakes DEF WakeInv, Affordable, Used
  <1>3. CASE PumpKeeps
    BY <1>1, <1>3 DEF WakeInv, PumpKeeps, Affordable, Used
  <1> QED BY <1>2, <1>3

\* A run that is not active has nothing that could start.
LEMMA WakeNotActive ==
  ASSUME WakeInv, run'.status # "active", starting' \in {starting, NoRun}, UNCHANGED owner,
         pump'.stage = "idle" => ~again' /\ pump'.todo = {}
  PROVE  WakeInv'
  <1>1. starting' # NoRun => Affordable(starting')
    BY DEF WakeInv
  <1> QED BY <1>1 DEF WakeInv, Ready, Affordable, Used

\* One changed record.
LEMMA WakeWith ==
  ASSUME TypeInv, CoreInv, WakeInv,
         NEW t \in Task, NEW k \in Record, NEW ok, NEW ko, Save(With(run, t, k), ok, ko),
         UNCHANGED <<owner, starting>>,
         k.status = "queued" => run.task[t].status = "queued" \/ Affordable(With(run, t, k)),
         k.active \in {None, run.task[t].active},
         \/ CallPump
         \/ /\ PumpKeeps
            /\ \/ run.status # "active"
               \/ /\ k.status = "cancelling" /\ activeTask(run.task[t])
                  /\ k.accepted = run.task[t].accepted
  PROVE  WakeInv' /\ Kept
  <1> DEFINE next == With(run, t, k)
  <1>1. /\ next \in RunType /\ next.status = run.status /\ next.task[t] = k
        /\ \A u \in Task : u # t => next.task[u] = run.task[u]
    BY Facts, WithRun
  <1>2. Save(next, ok, ko) /\ (k.status = "queued" => run.task[t].status = "queued" \/ Affordable(next))
    OBVIOUS
  <1> HIDE DEF next
  <1>4. next.status = "active" => Affordable(next)
    <2> SUFFICES ASSUME next.status = "active", ~Affordable(next) PROVE FALSE
      OBVIOUS
    <2>1. QueuedTasks(next) \subseteq QueuedTasks(run)
      BY <1>1, <1>2 DEF QueuedTasks
    <2> QED BY <1>1, <2>1, AffordableBelow DEF WakeInv
  <1>5. \A u \in Task : next.task[u].active \in {None, run.task[u].active}
    BY <1>1
  <1>6. starting' \in {starting, NoRun} /\ (starting' # NoRun => next.status # "active")
    BY <1>1 DEF WakeInv
  <1>7. CASE CallPump
    BY <1>1, <1>2, <1>4, <1>5, <1>6, <1>7, WakeSave
  <1>8. CASE PumpKeeps /\ run.status # "active"
    <2>1. \A u \in Task : ~Ready(next, u)
      BY <1>1, <1>8 DEF Ready
    <2> QED BY <1>1, <1>2, <1>4, <1>5, <1>6, <1>8, <2>1, WakeSave
  <1>9. CASE /\ PumpKeeps /\ k.status = "cancelling" /\ activeTask(run.task[t])
             /\ k.accepted = run.task[t].accepted
    <2>1. ActiveTasks(next) = ActiveTasks(run)
      BY <1>1, <1>9 DEF ActiveTasks, activeTask
    <2>2. ASSUME NEW u \in Task, Ready(next, u) PROVE Ready(run, u)
      <3>1. u # t /\ next.task[u] = run.task[u]
        BY <1>1, <1>9, <2>2 DEF Ready
      <3>2. \A x \in Task : next.task[x].accepted = run.task[x].accepted
        BY <1>1, <1>9
      <3>3. run.task[u].deps \subseteq Task
        BY Facts, RunTypeFields DEF Record
      <3> QED BY <1>1, <2>1, <2>2, <3>1, <3>2, <3>3 DEF Ready
    <2> QED BY <1>1, <1>2, <1>4, <1>5, <1>6, <1>9, <2>2, WakeSave
  <1> QED BY <1>7, <1>8, <1>9

Woken == WakeInv' /\ Kept

LEMMA WakeStopped ==
  ASSUME TypeInv, CoreInv, WakeInv, NEW s \in stops,
         cancelTaskStopped(s) \/ blockTaskStopped(s) \/ interruptTaskStopped(s)
           \/ unsavedStopped(s) \/ stopRunStopped(s) \/ stop(s)
  PROVE  Woken
  <1>0. run.status # "none" /\ s \in StopType /\ s.dispatch \in Dispatch \cup {None}
        /\ StopFits(s, run, owner, turn) /\ run \in RunType
    <2>1. run.status # "none"
      BY DEF CoreInv, Sync
    <2> QED BY <2>1, Facts DEF Fit, StopsOK, StopType
  <1>1. ASSUME NEW t \in s.tasks, NEW status \in {"cancelled", "blocked", "interrupted"},
               Save([run EXCEPT !.task[t] = Ended(@, status, s.dispatch)],
                    stops \ {s}, stops \ {s}), UNCHANGED <<owner, starting>>,
               CallPump \/ (PumpKeeps /\ run.status # "active")
        PROVE  Woken
    <2> DEFINE k == Ended(run.task[t], status, s.dispatch)
    <2>1. /\ t \in Task /\ status \in TaskStatus /\ status # "queued"
          /\ Save(With(run, t, k), stops \ {s}, stops \ {s})
      BY <1>1, EndedTypes, Statuses
    <2>2. run.task[t] \in Record
      BY <1>0, <2>1, RecordFacts
    <2>3. k \in Record /\ k.status = status /\ k.active = None
      BY <1>0, <2>1, <2>2, EndedRecord
    <2> HIDE DEF k
    <2> QED BY <1>1, <2>1, <2>3, WakeWith DEF Woken
  <1>2. CASE cancelTaskStopped(s)
    <2>1. \E t \in s.tasks : Save([run EXCEPT !.task[t] = Ended(@, "cancelled", s.dispatch)],
                                  stops \ {s}, stops \ {s})
      BY <1>2 DEF cancelTaskStopped
    <2>2. UNCHANGED <<owner, starting>> /\ CallPump
      BY <1>2 DEF cancelTaskStopped
    <2> QED BY <1>1, <2>1, <2>2
  <1>3. CASE blockTaskStopped(s)
    <2>1. \E t \in s.tasks : Save([run EXCEPT !.task[t] = Ended(@, "blocked", s.dispatch)],
                                  stops \ {s}, stops \ {s})
      BY <1>3 DEF blockTaskStopped
    <2>2. UNCHANGED <<owner, starting>> /\ CallPump
      BY <1>3 DEF blockTaskStopped
    <2> QED BY <1>1, <2>1, <2>2
  <1>4. CASE interruptTaskStopped(s)
    <2>1. \E t \in s.tasks : Save([run EXCEPT !.task[t] = Ended(@, "interrupted", s.dispatch)],
                                  stops \ {s}, stops \ {s})
      BY <1>4 DEF interruptTaskStopped
    <2>2. UNCHANGED <<owner, starting>> /\ PumpKeeps /\ run.status # "active"
      BY <1>0, <1>4, PumpGoesOn DEF interruptTaskStopped, StopFits
    <2> QED BY <1>1, <2>1, <2>2
  <1>5. CASE stopRunStopped(s)
    <2>1. /\ UNCHANGED <<owner, starting>> /\ PumpKeeps
          /\ Save(NextStopped, stops \ {s}, stops \ {s})
      BY <1>5, NextRuns, PumpGoesOn DEF stopRunStopped
    <2>2. /\ NextStopped \in RunType /\ NextStopped.status = "stopped"
          /\ NextStopped.task = Stopped(run)
      BY <1>0, Facts, NextFields
    <2>3. \A t \in Task : NextStopped.task[t].active \in {None, run.task[t].active}
      BY <1>0, <2>2, RecordsTypes
    <2>4. \A t \in Task : ~Ready(NextStopped, t)
      BY <2>2 DEF Ready
    <2>5. starting' \in {starting, NoRun} /\ NextStopped.status # "active"
      BY <2>1, <2>2
    <2> QED BY <2>1, <2>2, <2>3, <2>4, <2>5, WakeSave DEF Woken
  <1>6. CASE unsavedStopped(s)
    <2>1. /\ UNCHANGED <<owner, starting>> /\ PumpKeeps
          /\ run' = NextUnsaved(s.tasks) /\ run.status # "active"
      BY <1>0, <1>6, NextRuns, PumpGoesOn DEF unsavedStopped, StopFits
    <2>2. run'.status # "active" /\ run'.task = Interrupted(run, s.tasks)
      BY <1>0, <2>1, NextUnsavedFields
    <2>3. Kept
      BY <1>0, <2>2, RecordsTypes, ActiveKept
    <2>4. WakeInv'
      BY <2>1, <2>2, WakeNotActive DEF PumpKeeps, WakeInv
    <2> QED BY <2>3, <2>4 DEF Woken
  <1>7. CASE stop(s)
    <2>1. UNCHANGED <<run, owner>> /\ starting' = starting /\ PumpKeeps
      BY <1>7, PumpGoesOn DEF stop
    <2> QED BY <2>1, WakeStill DEF Woken
  <1> QED BY <1>2, <1>3, <1>4, <1>5, <1>6, <1>7

LEMMA WakeMark ==
  ASSUME TypeInv, CoreInv, WakeInv, NEW t \in Task, activeTask(run.task[t]),
         NEW ok, NEW ko, Save([run EXCEPT !.task[t].status = "cancelling"], ok, ko),
         UNCHANGED <<owner, starting>>, UNCHANGED pumping
  PROVE  Woken
  <1> DEFINE k == [run.task[t] EXCEPT !.status = "cancelling"]
  <1>1. run.task[t] \in Record
    BY Facts, RunTypeFields
  <1>2. /\ k \in Record /\ k.status = "cancelling" /\ k.active = run.task[t].active
        /\ k.accepted = run.task[t].accepted
    BY <1>1, Statuses DEF Record
  <1>3. Save(With(run, t, k), ok, ko) /\ PumpKeeps
    BY MarkedTypes, PumpGoesOn
  <1> HIDE DEF k
  <1> QED BY <1>2, <1>3, WakeWith DEF Woken

LEMMA WakeCancel ==
  ASSUME TypeInv, CoreInv, WakeInv, NEW t \in Task,
         userStops(t) \/ cancel(t) \/ interruptTask(t)
  PROVE  Woken
  <1>0. run \in RunType /\ run.task[t] \in Record
    BY Facts, RunTypeFields
  <1>1. ASSUME Save([run EXCEPT !.task[t] = Ended(@, "cancelled", None)], stops, stops), CallPump, UNCHANGED <<owner, starting>>
        PROVE  Woken
    <2> DEFINE k == Ended(run.task[t], "cancelled", None)
    <2>1. k \in Record /\ k.status = "cancelled" /\ k.active = None
      BY <1>0, EndedRecord, Statuses
    <2>2. Save(With(run, t, k), stops, stops)
      BY <1>0, <1>1 DEF With, RunType
    <2> HIDE DEF k
    <2> QED BY <1>1, <2>1, <2>2, WakeWith DEF Woken
  <1>2. CASE userStops(t)
    <2>1. Cancel(t, "userCancel") /\ UNCHANGED <<owner, starting>>
      BY <1>2 DEF userStops
    <2> QED BY <1>1, <2>1, WakeMark DEF Cancel
  <1>3. CASE cancel(t)
    <2>1. UNCHANGED <<owner, starting>>
      BY <1>3 DEF cancel, handle
    <2>2. CASE run.task[t].status = "cancelled"
      <3>1. /\ Save(run, stops, stops) /\ CallPump /\ starting' \in {starting, NoRun}
            /\ starting' # NoRun => run.status # "active"
        BY <1>3, <2>1, <2>2 DEF cancel, WakeInv
      <3>2. run.status = "active" => Affordable(run)
        BY DEF WakeInv
      <3>3. \A u \in Task : run.task[u].active \in {None, run.task[u].active}
        OBVIOUS
      <3> QED BY <1>0, <2>1, <3>1, <3>2, <3>3, WakeSave DEF Woken
    <2>3. CASE run.task[t].status # "cancelled"
      BY <1>1, <1>3, <2>1, <2>3, WakeMark DEF cancel, Cancel
    <2> QED BY <2>2, <2>3
  <1>4. CASE interruptTask(t)
    <2>1. UNCHANGED <<owner, starting>> /\ UNCHANGED pumping
      BY <1>4 DEF interruptTask
    <2>2. CASE run.task[t].status = "running"
      <3>1. Save([run EXCEPT !.task[t].status = "cancelling"],
                 stops \cup {StopOf("interrupt", t)}, stops)
        BY <1>4, <2>2 DEF interruptTask
      <3> QED BY <2>1, <2>2, <3>1, WakeMark DEF activeTask
    <2>3. CASE run.task[t].status # "running"
      <3>1. UNCHANGED <<run, owner>> /\ starting' = starting /\ PumpKeeps
        BY <1>4, <2>1, <2>3, PumpGoesOn DEF interruptTask, disk
      <3> QED BY <3>1, WakeStill DEF Woken
    <2> QED BY <2>2, <2>3
  <1> QED BY <1>2, <1>3, <1>4

LEMMA WakeWorker ==
  ASSUME TypeInv, CoreInv, WakeInv, NEW d \in Dispatch,
         settle(d) \/ settleCommit(d) \/ writeInScope(d) \/ blockTask(d)
           \/ TurnEnds(d) \/ observe(d)
  PROVE  Woken
  <1>0. run \in RunType
    BY Facts
  <1>1. CASE settle(d) \/ writeInScope(d) \/ TurnEnds(d) \/ observe(d)
    <2>1. UNCHANGED <<run, owner>> /\ starting' = starting /\ UNCHANGED pumping
      BY <1>1 DEF settle, writeInScope, TurnEnds, observe, disk
    <2> QED BY <2>1, PumpGoesOn, WakeStill DEF Woken
  <1>2. CASE settleCommit(d)
    <2> DEFINE t == owner[d]
               k == Ended(run.task[t], SettledAs(d), d)
    <2>1. /\ t \in Task /\ UNCHANGED <<owner, starting>>
          /\ SettledAs(d) \in TaskStatus /\ SettledAs(d) # "queued"
      BY <1>2, SettlesTask, Statuses DEF settleCommit
    <2>2. CASE Running(t, d)
      <3>1. Save(With(run, t, k), stops, stops) /\ CallPump
        BY <1>2, <2>1, <2>2, SettlesTask, SettledSave
      <3>2. run.task[t] \in Record
        BY <1>0, <2>1, RunTypeFields
      <3>3. k \in Record /\ k.status = SettledAs(d) /\ k.active = None
        BY <2>1, <3>2, EndedRecord
      <3> HIDE DEF k, t
      <3> QED BY <2>1, <3>1, <3>3, WakeWith DEF Woken
    <2>3. CASE ~Running(t, d)
      <3>1. UNCHANGED <<run, owner>> /\ starting' = starting /\ UNCHANGED pumping
        BY <1>2, <2>1, <2>3, SettlesTask DEF disk
      <3> QED BY <3>1, PumpGoesOn, WakeStill DEF Woken
    <2> QED BY <2>2, <2>3
  <1>3. CASE blockTask(d)
    <2> DEFINE t == owner[d]
    <2>1. t \in Task /\ UNCHANGED <<owner, starting>> /\ UNCHANGED pumping
      BY <1>3 DEF blockTask, TypeInv, WorkOK
    <2>2. CASE run.status = "active" /\ Running(t, d)
      <3>1. Save([run EXCEPT !.task[t].status = "cancelling"],
                 stops \cup {StopOf("block", t)}, stops)
        BY <1>3, <2>2 DEF blockTask
      <3>2. activeTask(run.task[t])
        BY <2>2 DEF Running, activeTask
      <3> HIDE DEF t
      <3> QED BY <2>1, <3>1, <3>2, WakeMark
    <2>3. CASE ~(run.status = "active" /\ Running(t, d))
      <3>1. UNCHANGED <<run, owner>> /\ starting' = starting
        BY <1>3, <2>1, <2>3 DEF blockTask, disk
      <3> QED BY <2>1, <3>1, PumpGoesOn, WakeStill DEF Woken
    <2> QED BY <2>2, <2>3
  <1> QED BY <1>1, <1>2, <1>3

LEMMA WakeCommand ==
  ASSUME TypeInv, CoreInv, WakeInv,
         \/ delegateRecord \/ retryRecord \/ reviewRecord
         \/ \E t \in Task : message(t) \/ retry(t) \/ review(t)
         \/ \E deps \in SUBSET Task, r \in Request : delegate(deps, r)
  PROVE  Woken
  <1>0. run \in RunType
    BY Facts
  <1>1. ASSUME NEW t \in Task, Requeue(t), CallPump, UNCHANGED <<owner, starting>>
        PROVE  Woken
    <2> DEFINE k == Queued(run.task[t])
    <2>1. run.task[t] \in Record
      BY <1>0, RunTypeFields
    <2>2. k \in Record /\ k.active = None
      BY <2>1, QueuedRecord
    <2>3. Affordable(With(run, t, k)) /\ Save(With(run, t, k), stops, stops)
      BY <1>1, QueuedTypes DEF Requeue
    <2> HIDE DEF k
    <2> QED BY <1>1, <2>2, <2>3, WakeWith DEF Woken
  <1>2. ASSUME NEW t \in Task, message(t) PROVE Woken
    BY <1>1, <1>2 DEF message, handle
  <1>3. CASE retryRecord
    <2>1. order.task \in Task
      BY <1>3, Facts DEF retryRecord, OrderType
    <2> QED BY <1>1, <1>3, <2>1 DEF retryRecord
  <1>4. CASE delegateRecord
    <2>1. order.op = "delegate" /\ CallPump
      BY <1>4, DelegatedSave
    <2>2. PICK t \in Task : Affordable(Delegated(t)) /\ Save(Delegated(t), stops, stops)
      BY <1>4, DelegatedSave
    <2>3. /\ Delegated(t) \in RunType /\ Delegated(t).status = run.status
          /\ Delegated(t).task[t] = Created(order.deps, order.request)
          /\ \A u \in Task : u # t => Delegated(t).task[u] = run.task[u]
      BY <2>1, DelegatedFields
    <2>4. \A u \in Task : Delegated(t).task[u].active \in {None, run.task[u].active}
      BY <2>3 DEF Created
    <2>5. UNCHANGED owner /\ starting' = starting
      BY <1>4 DEF delegateRecord
    <2>6. starting' # NoRun => Delegated(t).status # "active"
      BY <2>3, <2>5 DEF WakeInv
    <2> QED BY <2>1, <2>2, <2>3, <2>4, <2>5, <2>6, WakeSave DEF Woken
  <1>5. CASE reviewRecord
    <2>1. CallPump /\ UNCHANGED <<owner, starting>> /\ order.op = "review"
      BY <1>5 DEF reviewRecord
    <2>2. CASE UNCHANGED disk
      BY <2>1, <2>2, WakeStill DEF disk, Woken
    <2>3. CASE Save([run EXCEPT !.task[order.task].accepted = TRUE], stops, stops)
      <3> DEFINE t == order.task
                 k == [run.task[t] EXCEPT !.accepted = TRUE]
      <3>1. t \in Task
        BY <2>1, Facts DEF OrderType
      <3>2. /\ Save(With(run, t, k), stops, stops) /\ k \in Record
            /\ k.active = run.task[t].active
        BY <1>0, <2>3, <3>1, AcceptedFields
      <3>3. k.status = run.task[t].status
        BY <1>0, <3>1, RunTypeFields DEF Record
      <3> HIDE DEF k, t
      <3> QED BY <2>1, <3>1, <3>2, <3>3, WakeWith DEF Woken
    <2> QED BY <1>5, <2>2, <2>3 DEF reviewRecord
  <1>6. ASSUME \/ \E deps \in SUBSET Task, r \in Request : delegate(deps, r)
               \/ \E t \in Task : retry(t) \/ review(t)
        PROVE  Woken
    <2>1. UNCHANGED <<run, owner>> /\ starting' = starting /\ UNCHANGED pumping
      BY <1>6 DEF delegate, retry, review, disk
    <2> QED BY <2>1, PumpGoesOn, WakeStill DEF Woken
  <1> QED BY <1>2, <1>3, <1>4, <1>5, <1>6

LEMMA WakeStatus ==
  ASSUME TypeInv, CoreInv, WakeInv, pause \/ stopRun \/ finish
  PROVE  Woken
  <1>0. run \in RunType
    BY Facts
  <1>1. ASSUME NEW status \in {"paused", "stopped", "finished"}, NEW ok, NEW ko,
               Save([run EXCEPT !.status = status], ok, ko),
               UNCHANGED <<owner, starting>>, CallPump \/ UNCHANGED pumping
        PROVE  Woken
    <2> DEFINE next == [run EXCEPT !.status = status]
    <2>1. next \in RunType /\ next.status = status /\ next.task = run.task
      BY <1>0 DEF RunType
    <2>2. Save(next, ok, ko) /\ starting' \in {starting, NoRun}
      BY <1>1
    <2> HIDE DEF next
    <2>3. next.status # "active"
      BY <2>1
    <2>4. \A t \in Task : next.task[t].active \in {None, run.task[t].active}
      BY <2>1
    <2>5. \A t \in Task : Ready(next, t) => Ready(run, t)
      BY <2>3 DEF Ready
    <2>6. CallPump \/ (PumpKeeps /\ \A t \in Task : Ready(next, t) => Ready(run, t))
      BY <1>1, <2>5, PumpGoesOn
    <2>7. UNCHANGED owner
      BY <1>1
    <2>8. WakeInv' /\ Kept
      BY <2>1, <2>2, <2>3, <2>4, <2>6, <2>7, WakeSave
    <2> QED BY <2>8 DEF Woken
  <1>2. CASE pause
    BY <1>1, <1>2 DEF pause
  <1>3. CASE stopRun
    <2> DEFINE all == [kind |-> "run", tasks |-> ActiveTasks(run), dispatch |-> None,
                       done |-> FALSE]
    <2>1. Save([run EXCEPT !.status = "stopped"], stops \cup {all}, stops \cup {all})
      BY <1>3 DEF stopRun
    <2> HIDE DEF all
    <2> QED BY <1>1, <1>3, <2>1 DEF stopRun
  <1>4. CASE finish
    BY <1>1, <1>4 DEF finish, handle
  <1> QED BY <1>2, <1>3, <1>4

LEMMA WakeStart ==
  ASSUME TypeInv, CoreInv, WakeInv, ~overtaken',
         startRun \/ startRunCommit \/ reload \/ hydrate
  PROVE  Woken
  <1>1. CASE startRun
    <2>1. UNCHANGED <<run, owner>> /\ UNCHANGED pumping /\ Affordable(starting')
      BY <1>1 DEF startRun, disk
    <2>2. Kept
      BY <2>1, ActiveKept
    <2>3. run.status # "active"
      BY <1>1 DEF startRun, Startable, CoreInv, Sync
    <2>4. WakeInv'
      BY <2>1, <2>3 DEF WakeInv, pumping, Affordable, Used
    <2> QED BY <2>2, <2>4 DEF Woken
  <1>2. CASE startRunCommit
    <2>1. /\ Save(starting, stops, stops) /\ starting' = NoRun /\ CallPump /\ UNCHANGED owner
          /\ starting # NoRun /\ Startable /\ starting = Resumption
      BY <1>2 DEF startRunCommit, Overtaken
    <2>2. starting \in RunType /\ Affordable(starting)
      BY <2>1, Facts DEF WakeInv
    <2>3. \A t \in Task : starting.task[t].active = None
      <3>1. starting = NextStarted
        BY <2>1, NextRuns
      <3>2. ActiveTasks(starting) = {} /\ Fit(starting, {}, owner, turn, write)
        BY <2>1, <3>1, StartedFit DEF Startable
      <3> QED BY <3>2 DEF ActiveTasks, Fit, RunOK, RecordOK
    <2> QED BY <2>1, <2>2, <2>3, WakeSave DEF Woken
  <1>3. CASE reload
    <2>1. run' = NoRun /\ starting' = NoRun /\ pump' = IdlePump /\ ~again' /\ UNCHANGED owner
      BY <1>3 DEF reload
    <2>2. Kept
      BY <2>1, NoRunType, ActiveKept DEF Absent
    <2>3. WakeInv'
      BY <2>1, NoRunType, WakeNotActive DEF IdlePump
    <2> QED BY <2>2, <2>3 DEF Woken
  <1>4. CASE hydrate
    <2>1. /\ run.status = "none" /\ saved.status # "none" /\ UNCHANGED pumping
          /\ starting' = starting /\ Save(NextHydrated, stops, stops) /\ UNCHANGED owner
      BY <1>4, NextRuns DEF hydrate
    <2>2. run = NoRun
      BY <2>1 DEF CoreInv, Sync
    <2>3. Kept
      BY <2>2, NoRunType DEF Kept, Absent
    <2>4. NextHydrated \in RunType /\ NextHydrated.status # "active"
      BY Facts, NextFields
    <2>5. run'.status # "active"
      BY <2>1, <2>4, SaveCases DEF Succeeds, Fails, Failed
    <2>6. WakeInv'
      BY <2>1, <2>2, <2>5, WakeNotActive DEF WakeInv, pumping
    <2> QED BY <2>3, <2>6 DEF Woken
  <1> QED BY <1>1, <1>2, <1>3, <1>4

LEMMA WakePump ==
  ASSUME TypeInv, CoreInv, WakeInv, ~overtaken',
         pumpEnds \/ pumpCreated \/ pumpFailed \/ pumpPrepared \/ pumpSubmit
  PROVE  Woken
  <1>0. run \in RunType /\ pump \in PumpType
    BY Facts
  <1>1. CASE pumpEnds
    <2>1. /\ UNCHANGED <<run, owner, starting>> /\ again' = FALSE
          /\ Dispatch = Used \/ \A u \in pump.todo : ~Ready(run, u)
      BY <1>1 DEF pumpEnds, disk
    <2>2. \A u \in pump.todo : ~Ready(run, u)
      <3> SUFFICES ASSUME Dispatch = Used, NEW u \in pump.todo, Ready(run, u) PROVE FALSE
        BY <2>1
      <3>1. Cardinality(Dispatch \ Used) = 0
        BY FS_EmptySet
      <3>2. Cardinality(QueuedTasks(run)) <= 0
        BY <3>1 DEF Ready, WakeInv, Affordable, QueuedTasks
      <3>3. QueuedTasks(run) = {}
        BY <3>2, QueuedFinite, FS_EmptySet
      <3>4. u \in Task
        BY <1>0 DEF PumpType
      <3> QED BY <3>3, <3>4 DEF QueuedTasks, Ready
    <2>3. CASE again
      <3>1. pump' = [IdlePump EXCEPT !.stage = "scan",
                                     !.todo = {t \in Task : run.task[t].status # "absent"}]
        BY <1>1, <2>3 DEF pumpEnds
      <3>2. pump'.stage = "scan" /\ pump'.todo = {t \in Task : run.task[t].status # "absent"}
        BY <3>1 DEF IdlePump
      <3>3. \A t \in Task \ pump'.todo : ~Ready(run, t)
        BY <3>2 DEF Ready
      <3>4. WakeInv'
        BY <2>1, <3>2, <3>3 DEF WakeInv, Affordable, Used
      <3> QED BY <2>1, <3>4, ActiveKept DEF Woken
    <2>4. CASE ~again
      <3>1. pump' = IdlePump
        BY <1>1, <2>4 DEF pumpEnds
      <3>2. pump'.stage = "idle" /\ pump'.todo = {}
        BY <3>1 DEF IdlePump
      <3>3. \A t \in Task : ~Ready(run, t)
        BY <2>2, <2>4 DEF WakeInv
      <3>4. WakeInv'
        BY <2>1, <3>2, <3>3 DEF WakeInv, Affordable, Used
      <3> QED BY <2>1, <3>4, ActiveKept DEF Woken
    <2> QED BY <2>3, <2>4
  <1>2. CASE pumpCreated
    <2>1. UNCHANGED <<run, owner>> /\ starting' = starting /\ again' = again
      BY <1>2 DEF pumpCreated, disk
    <2>2. PumpKeeps
      <3>1. CASE run.status = "active" /\ run.task[pump.task].status = "running"
        <4>1. pump' = [pump EXCEPT !.stage = "scopes", !.seen = run]
          BY <1>2, <3>1 DEF pumpCreated
        <4> QED BY <1>0, <2>1, <4>1 DEF PumpType, PumpKeeps
      <3>2. CASE ~(run.status = "active" /\ run.task[pump.task].status = "running")
        BY <1>2, <2>1, <3>2, PumpGoesOn DEF pumpCreated
      <3> QED BY <3>1, <3>2
    <2> QED BY <2>1, <2>2, WakeStill DEF Woken
  <1>3. CASE pumpFailed \/ pumpSubmit
    <2>1. UNCHANGED <<run, owner>> /\ starting' = starting /\ again' = again /\ NextTask
      BY <1>3 DEF pumpFailed, pumpSubmit, disk
    <2> QED BY <2>1, PumpGoesOn, WakeStill DEF Woken
  <1>4. CASE pumpPrepared
    <2>1. /\ pump.stage = "scopes" /\ Save(pump.seen, stops, stops)
          /\ UNCHANGED owner /\ starting' = starting /\ again' = again
      BY <1>4 DEF pumpPrepared
    <2>2. /\ pump.seen = run /\ starting' \in {starting, NoRun}
          /\ starting' # NoRun => run.status # "active"
      BY <1>4, <2>1 DEF pumpPrepared, Overtaken, WakeInv
    <2>3. PumpKeeps
      <3>1. CASE Saved
        <4>1. pump' = [pump EXCEPT !.stage = "submit", !.seen = NoRun]
          BY <1>4, <3>1 DEF pumpPrepared
        <4> QED BY <1>0, <2>1, <4>1 DEF PumpType, PumpKeeps
      <3>2. CASE ~Saved
        BY <1>4, <2>1, <3>2, PumpGoesOn DEF pumpPrepared
      <3> QED BY <3>1, <3>2
    <2>4. \A t \in Task : run.task[t].active \in {None, run.task[t].active}
      OBVIOUS
    <2>5. run.status = "active" => Affordable(run)
      BY DEF WakeInv
    <2>6. Save(run, stops, stops)
      BY <2>1, <2>2
    <2> QED BY <1>0, <2>1, <2>2, <2>3, <2>4, <2>5, <2>6, WakeSave DEF Woken
  <1> QED BY <1>1, <1>2, <1>3, <1>4

LEMMA RemoveOne ==
  ASSUME NEW S, NEW x \in S, IsFiniteSet(S)
  PROVE  Cardinality(S) = Cardinality(S \ {x}) + 1
  <1>1. IsFiniteSet(S \ {x}) /\ x \notin S \ {x} /\ (S \ {x}) \cup {x} = S
    BY FS_Subset
  <1> QED BY <1>1, FS_AddElement

\* The tasks before the one that was picked could not start, and cannot now
\* that one more worker is active.
LEMMA WakeDispatch ==
  ASSUME TypeInv, CoreInv, WakeInv, pumpDispatch
  PROVE  Woken
  <1> DEFINE t == PickedTask
             d == PickedDispatch
             k == Dispatched(t, d)
             next == With(run, t, k)
  <1>1. /\ t \in Task /\ d \in Dispatch /\ owner[d] = None /\ Ready(run, t)
        /\ \A u \in pump.todo : Ready(run, u) => t <= u
    BY Picked
  <1>2. /\ k \in Record /\ k.status = "running" /\ k.active = d
        /\ k.accepted = run.task[t].accepted
        /\ Save(next, stops, stops) /\ owner' = [owner EXCEPT ![d] = t]
        /\ pump' = IF Saved
                   THEN [stage |-> "create", todo |-> {u \in pump.todo : u > t},
                         task |-> t, dispatch |-> d, seen |-> NoRun]
                   ELSE IdlePump
    BY DispatchSave
  <1> HIDE DEF t, d, k
  <1>3. /\ run.status = "active" /\ run \in RunType /\ starting = NoRun /\ starting' = NoRun
        /\ run.task[t].status = "queued" /\ pump \in PumpType /\ Affordable(run)
        /\ owner \in [Dispatch -> Task \cup {None}]
        /\ again \in BOOLEAN /\ again' = (again /\ Saved) /\ faults \in Nat
    <2>1. run.status = "active" /\ run.task[t].status = "queued"
      BY <1>1 DEF Ready
    <2> QED BY <2>1, Facts DEF WakeInv, TypeInv, WorkOK, DiskOK, pumpDispatch
  <1>4. /\ next \in RunType /\ next.status = run.status
        /\ next.task[t] = k /\ \A u \in Task : u # t => next.task[u] = run.task[u]
    BY <1>1, <1>2, <1>3, WithRun
  <1> HIDE DEF next
  <1>5. Kept
    <2> SUFFICES ASSUME NEW u \in Task, run.task[u].last # None
                 PROVE  run'.task[u].active # run.task[u].last
      BY DEF Kept
    <2>1. run'.task[u].active = next.task[u].active
      BY <1>2, <1>4, SaveActive
    <2>2. RecordOK(run.task[u], u, owner, turn, write)
      BY FitParts
    <2>3. CASE u = t
      BY <1>1, <1>2, <1>4, <2>1, <2>2, <2>3, Constants DEF RecordOK
    <2>4. CASE u # t
      BY <1>4, <2>1, <2>2, <2>4 DEF RecordOK
    <2> QED BY <2>3, <2>4
  <1>6. CASE ~Saved
    <2>1. run'.status # "active"
      BY <1>2, <1>4, <1>6, SaveCases DEF Succeeds, Fails, Failed, Saved
    <2>2. pump' = IdlePump /\ ~again'
      BY <1>2, <1>3, <1>6
    <2>3. ~Ready(run', t) /\ WakeInv'
      BY <1>3, <2>1, <2>2 DEF IdlePump, WakeInv, Ready
    <2> QED BY <1>5, <2>3 DEF Woken
  <1>7. CASE Saved
    <2>1. run' = next
      <3>1. faults + 1 # faults
        BY <1>3
      <3> QED BY <1>2, <1>4, <1>7, <3>1, SaveCases DEF Succeeds, Fails, Saved
    <2>2. /\ pump'.stage = "create" /\ pump'.todo = {u \in pump.todo : u > t}
          /\ again' = again
      <3>1. pump'.stage = "create" /\ pump'.todo = {u \in pump.todo : u > t}
        BY <1>2, <1>7
      <3>2. again' = again
        BY <1>3, <1>7
      <3> QED BY <3>1, <3>2
    <2>3. ASSUME ~again, NEW u \in Task, u \notin pump'.todo PROVE ~Ready(next, u)
      <3> SUFFICES ASSUME Ready(next, u) PROVE FALSE
        OBVIOUS
      <3>1. u # t /\ next.task[u] = run.task[u]
        BY <1>2, <1>4 DEF Ready
      <3>2. ActiveTasks(next) = ActiveTasks(run) \cup {t} /\ t \notin ActiveTasks(run)
        BY <1>1, <1>2, <1>3, <1>4 DEF ActiveTasks, activeTask
      <3>3. Cardinality(ActiveTasks(run)) < MaxWorkers
        BY <1>1 DEF Ready
      <3>4. \A x \in Task : next.task[x].accepted = run.task[x].accepted
        BY <1>2, <1>4
      <3>5. run.task[u].deps \subseteq Task
        BY <1>3, RunTypeFields DEF Record
      <3>6. Ready(run, u)
        BY <1>4, <3>1, <3>2, <3>3, <3>4, <3>5 DEF Ready
      <3>7. u \in pump.todo
        BY <2>3, <3>6 DEF WakeInv
      <3>8. t <= u
        BY <1>1, <3>6, <3>7
      <3>9. t \in Nat /\ u \in Nat
        BY <1>1, Constants
      <3>10. u > t
        BY <3>1, <3>8, <3>9
      <3> QED BY <2>2, <2>3, <3>7, <3>10
    <2>4. Affordable(run)'
      <3>1. QueuedTasks(next) = QueuedTasks(run) \ {t} /\ t \in QueuedTasks(run)
        BY <1>1, <1>2, <1>3, <1>4 DEF QueuedTasks
      <3>2. (Dispatch \ Used)' = (Dispatch \ Used) \ {d} /\ d \in Dispatch \ Used
        BY <1>1, <1>2, <1>3, Constants DEF Used
      <3>3. /\ Cardinality(QueuedTasks(run)) = Cardinality(QueuedTasks(next)) + 1
            /\ Cardinality(Dispatch \ Used) = Cardinality((Dispatch \ Used) \ {d}) + 1
        <4>1. Cardinality(QueuedTasks(run)) = Cardinality(QueuedTasks(run) \ {t}) + 1
          BY <3>1, RemoveOne, QueuedFinite
        <4>2. Cardinality(Dispatch \ Used) = Cardinality((Dispatch \ Used) \ {d}) + 1
          BY <3>2, RemoveOne, QueuedFinite
        <4> QED BY <3>1, <4>1, <4>2
      <3>4. IsFiniteSet((Dispatch \ Used) \ {d})
        BY QueuedFinite, FS_Subset
      <3>5. /\ Cardinality(QueuedTasks(next)) \in Nat
            /\ Cardinality((Dispatch \ Used) \ {d}) \in Nat
        BY <3>4, QueuedFinite, FS_CardinalityType
      <3>6. Cardinality(QueuedTasks(run)) <= Cardinality(Dispatch \ Used)
        BY <1>3 DEF Affordable, QueuedTasks
      <3>7. Cardinality(QueuedTasks(next)) <= Cardinality((Dispatch \ Used) \ {d})
        BY <3>3, <3>5, <3>6
      <3> QED BY <2>1, <3>2, <3>7 DEF Affordable, QueuedTasks
    <2>5. WakeInv'
      BY <1>3, <2>1, <2>2, <2>3, <2>4 DEF WakeInv
    <2> QED BY <1>5, <2>5 DEF Woken
  <1> QED BY <1>6, <1>7

LEMMA WakeStep ==
  ASSUME TypeInv, CoreInv, WakeInv, [Next]_vars, ~overtaken'
  PROVE  WakeInv' /\ Kept
  <1>1. CASE pumpDispatch \/ pumpEnds
    BY <1>1, WakeDispatch, WakePump DEF Woken
  <1>2. CASE Awaited
    BY <1>2, WakeStart, WakePump, WakeCommand, WakeWorker, WakeCancel, WakeStopped
    DEF Awaited, Woken
  <1>3. CASE Commands
    BY <1>3, WakeCommand, WakeCancel, WakeStatus DEF Commands, Woken
  <1>4. CASE Environment
    BY <1>4, WakeStart, WakeStatus, WakePump, WakeWorker, WakeCancel DEF Environment, Woken
  <1>5. CASE UNCHANGED vars
    <2>1. UNCHANGED <<run, owner>> /\ starting' = starting /\ UNCHANGED pumping
      BY <1>5 DEF vars, disk, pumping
    <2> QED BY <2>1, PumpGoesOn, WakeStill
  <1> QED BY <1>1, <1>2, <1>3, <1>4, <1>5 DEF Next

LEMMA WakeInit == Init => WakeInv
  <1> SUFFICES ASSUME Init PROVE WakeInv
    OBVIOUS
  <1>1. run.status = "none" /\ starting = NoRun
    BY NoRunType DEF Init
  <1>2. pump.todo = {} /\ again = FALSE
    BY DEF Init, IdlePump
  <1> QED BY <1>1, <1>2 DEF WakeInv, Ready

AwakeInv ==
    TypeInv /\ overtaken \in BOOLEAN /\ (~overtaken => CoreInv /\ WakeInv)

LEMMA AwakeStep ==
  AwakeInv /\ [Next]_vars => AwakeInv' /\ (~overtaken' => Kept)
  <1> SUFFICES ASSUME AwakeInv, [Next]_vars
               PROVE  AwakeInv' /\ (~overtaken' => Kept)
    OBVIOUS
  <1>1. TypeInv' /\ overtaken' \in BOOLEAN /\ (~overtaken' => ~overtaken)
    BY TypeStep, HistoryStep DEF AwakeInv
  <1>2. ~overtaken' => CoreInv' /\ WakeInv' /\ Kept
    BY <1>1, CoreStep, WakeStep DEF AwakeInv
  <1> QED BY <1>1, <1>2 DEF AwakeInv

LEMMA AwakeInit == Init => AwakeInv
  BY TypeInit, CoreInit, WakeInit DEF Init, AwakeInv

\* The dispatcher does not sleep while a task could start (pump, pumpAgain),
\* until a commit undoes changes it did not know of.
THEOREM PumpWakes ==
  Spec => []NoLostWakeup
  <1>1. AwakeInv /\ [Next]_vars => AwakeInv'
    BY AwakeStep
  <1>2. AwakeInv => NoLostWakeup
    BY DEF AwakeInv, WakeInv, NoLostWakeup
  <1> QED BY AwakeInit, <1>1, <1>2, PTL DEF Spec

\* Only a commit that undoes changes it did not know of makes a dispatch that
\* has been settled active again (pump, startRun, cancelTask, interruptTask);
\* no other step of a run ever does.
THEOREM SettledStays ==
  Spec => [][~overtaken' => \A t \in Task :
                 run.task[t].last # None => run'.task[t].active # run.task[t].last]_vars
  <1>1. AwakeInv /\ [Next]_vars => AwakeInv'
    BY AwakeStep
  <1>2. AwakeInv /\ [Next]_vars =>
          [~overtaken' => \A t \in Task :
               run.task[t].last # None => run'.task[t].active # run.task[t].last]_vars
    BY AwakeStep DEF Kept
  <1> QED BY AwakeInit, <1>1, <1>2, PTL DEF Spec
=============================================================================

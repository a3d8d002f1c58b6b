------------------------------ MODULE HostEngine ------------------------------
(***************************************************************************)
(* The engine of a MonoCode host (host/engine.ts) over its SQLite store    *)
(* (host/store.ts).  Clients send commands over HTTP; each is checked      *)
(* against the latest session, saved with its receipt in one transaction,  *)
(* and may start a turn: an asynchronous task that drives a provider       *)
(* process and streams its events back.  Node runs one callback at a time, *)
(* so an action is the code between two awaits, and actions interleave.    *)
(*                                                                         *)
(* sessions and receipts are on disk; the process can crash between any    *)
(* two actions and loses the rest.  Every write may fail.                  *)
(***************************************************************************)
EXTENDS HostSession

CONSTANTS
    MaxEvents,   \* provider events per history
    MaxUpdates,  \* renames and other metadata changes
    MaxFaults,   \* failed transactions
    MaxCrashes   \* crashes of the host process

ASSUME BoundsAreNat ==
    /\ MaxEvents \in Nat /\ MaxUpdates \in Nat
    /\ MaxFaults \in Nat /\ MaxCrashes \in Nat

VARIABLES
    host,       \* the process: "down", "starting", "up", or "closing"
    sessions,   \* table sessions
    receipts,   \* table receipts: the command accepted under an id, or None
    running,    \* HostEngine.running, and how far each turn's task has come
    live,       \* HostEngine.live
    switching,  \* HostEngine.switchingProjects
    naming,     \* sessions whose generated title has been asked for
    handed,     \* how often a command's prompt went to a provider
    asked,      \* request numbers a turn's provider has used
    replies,    \* how often a request was answered towards the provider
    spent       \* events, updates, faults and crashes so far

vars == <<host, sessions, receipts, running, live, switching, naming,
          handed, asked, replies, spent>>

-----------------------------------------------------------------------------
(* State. *)

(* A turn's task: queued (its microtask has not run), sending (provider.send *)
(* is pending), stopping (provider.stop is pending), and, when the storage   *)
(* failed, timer (retryTimers holds it) and retrying (provider.stop is       *)
(* pending again).  An abandoned task stays in running without a timer.      *)
Phase == {"none", "queued", "sending", "stopping", "timer", "retrying",
          "abandoned"}
Task == [phase : Phase, run : CommandIds \cup {None}, cancelled : BOOLEAN,
         persistenceFailed : BOOLEAN, error : BOOLEAN]
NoTask == [phase |-> "none", run |-> None, cancelled |-> FALSE,
           persistenceFailed |-> FALSE, error |-> FALSE]

(* A live entry: the session as clients will see it, the events not yet      *)
(* written, and whether the timer that writes them is set.                   *)
Live == [open : BOOLEAN, value : HostSession, events : Seq(Event),
         timer : BOOLEAN]
NotLive == [open |-> FALSE, value |-> AbsentSession, events |-> <<>>,
            timer |-> FALSE]
LiveEntry(v) == [open |-> TRUE, value |-> v, events |-> <<>>, timer |-> FALSE]

Receipt == [command : Command, session : SessionIds, revision : Nat]

ASSUME NoneIsNotAReceipt == None \notin Receipt

Serving == host \in {"up", "closing"}
InMap(s) == running[s].phase # "none"

(* Some sessions may have been created in an earlier life of the host, under *)
(* commands that are not in CommandIds.                                      *)
Init ==
    /\ host = "up"
    /\ sessions \in [SessionIds -> {AbsentSession}
                                   \cup {Save(NewSession(p)) : p \in Projects}]
    /\ receipts = [c \in CommandIds |-> None]
    /\ running = [s \in SessionIds |-> NoTask]
    /\ live = [s \in SessionIds |-> NotLive]
    /\ switching = {}
    /\ naming = {}
    /\ handed = [c \in CommandIds |-> 0]
    /\ asked = [c \in CommandIds |-> {}]
    /\ replies = [c \in CommandIds |-> [q \in Requests |-> 0]]
    /\ spent = [events |-> 0, updates |-> 0, faults |-> 0, crashes |-> 0]

Fault ==
    /\ spent.faults < MaxFaults
    /\ spent' = [spent EXCEPT !.faults = @ + 1]

-----------------------------------------------------------------------------
(* flush: unwritten events are saved before anything else is decided. *)

Unwritten(s) == live[s].open /\ live[s].events # <<>>

(* Defect: the stored session is taken for the latest one. *)
LatestStored(s) == sessions[s]

(* What the store holds for s after a flush, and the live entry it leaves. *)
Latest(s) == IF Unwritten(s) THEN Save(live[s].value) ELSE sessions[s]
Flushed(s) ==
    IF Unwritten(s) THEN LiveEntry(Save(live[s].value))
    ELSE [live[s] EXCEPT !.timer = FALSE]

(* flush of s and nothing more; FlushFails is its exception. *)
FlushOnly(s) ==
    /\ sessions' = [sessions EXCEPT ![s] = Latest(s)]
    /\ live' = [live EXCEPT ![s] = Flushed(s)]
FlushFails(s) ==
    /\ Unwritten(s)
    /\ Fault
    /\ live' = [live EXCEPT ![s].timer = FALSE]
    /\ UNCHANGED sessions

(* Defects: the live entry is not refreshed; the revision is reused. *)
SaveBehindLive(s, v) ==
    /\ sessions' = [sessions EXCEPT ![s] = Save(v)]
    /\ UNCHANGED live
SaveInPlace(s, v) ==
    /\ sessions' = [sessions EXCEPT ![s] = v]
    /\ live' = [live EXCEPT ![s] = IF @.open THEN LiveEntry(v) ELSE @]

(* flush, then a save of v that the live entry takes over. *)
FlushAndSave(s, v) ==
    /\ sessions' = [sessions EXCEPT ![s] = Save(v)]
    /\ live' = [live EXCEPT ![s] = IF @.open THEN LiveEntry(Save(v)) ELSE @]

-----------------------------------------------------------------------------
(* Commands. *)

(* Defect: only a command whose turn is still running counts as a duplicate. *)
KnownWhileRunning(c) ==
    \E s \in SessionIds : sessions[s].run = c.id /\ sessions[s].status = "running"

Known(c) == receipts[c.id] # None

(* Defect: branch switches are not looked at. *)
AcceptsDuringSwitch(c) ==
    /\ Exists(Latest(c.session))
    /\ Allowed(c, Latest(c.session))

Accepts(c) ==
    /\ Exists(Latest(c.session))
    /\ StartsTurn(c) => Latest(c.session).project \notin switching
    /\ Allowed(c, Latest(c.session))

RecordReceipt(c, s) ==
    receipts' = [receipts EXCEPT ![c.id] =
                   [command |-> c, session |-> s,
                    revision |-> sessions'[s].revision]]

Create(c) ==
    /\ host = "up"
    /\ c \in CreateCommand /\ ~Known(c)
    /\ c.project \notin switching
    /\ \E s \in SessionIds :
         /\ sessions[s].status = "absent"
         /\ sessions' = [sessions EXCEPT ![s] = Save(NewSession(c.project))]
         /\ RecordReceipt(c, s)
    /\ UNCHANGED <<host, running, live, switching, naming, handed, asked,
                   replies, spent>>

(* send and compact: the turn's task is queued, and the first prompt of a    *)
(* conversation without a title asks for one.                                *)
Start(c) ==
    LET s     == c.session
        saved == Save(Applied(c, Latest(s)))
    IN /\ host = "up"
       /\ c \in SendCommand \cup CompactCommand /\ ~Known(c)
       /\ Accepts(c)
       /\ sessions' = [sessions EXCEPT ![s] = saved]
       /\ RecordReceipt(c, s)
       /\ running' = [running EXCEPT ![s] = [NoTask EXCEPT !.phase = "queued",
                                                           !.run = c.id]]
       /\ live' = [live EXCEPT ![s] = LiveEntry(saved)]
       /\ naming' = IF /\ c.type = "send" /\ FirstTurn(Latest(s))
                       /\ Latest(s).title = "placeholder"
                    THEN naming \cup {s} ELSE naming
       /\ UNCHANGED <<host, switching, handed, asked, replies, spent>>

Edit(c) ==
    /\ host = "up"
    /\ c \in EditCommand \cup RemoveCommand /\ ~Known(c)
    /\ Accepts(c)
    /\ FlushAndSave(c.session, Applied(c, Latest(c.session)))
    /\ RecordReceipt(c, c.session)
    /\ UNCHANGED <<host, running, switching, naming, handed, asked, replies,
                   spent>>

Cancel(c) ==
    /\ host = "up"
    /\ c \in CancelCommand /\ ~Known(c)
    /\ Accepts(c)
    /\ FlushAndSave(c.session, Applied(c, Latest(c.session)))
    /\ RecordReceipt(c, c.session)
    /\ running' = [running EXCEPT ![c.session].cancelled = InMap(c.session)]
    /\ UNCHANGED <<host, switching, naming, handed, asked, replies, spent>>

(* approve and answer go to whatever process the session has now. *)
Reply(c) ==
    /\ host = "up"
    /\ c \in ReplyCommand /\ ~Known(c)
    /\ Accepts(c)
    /\ FlushAndSave(c.session, Applied(c, Latest(c.session)))
    /\ RecordReceipt(c, c.session)
    /\ replies' = IF InMap(c.session)
                  THEN [replies EXCEPT ![running[c.session].run][c.request] = @ + 1]
                  ELSE replies
    /\ UNCHANGED <<host, running, switching, naming, handed, asked, spent>>

(* A command that is turned down, or whose transaction is rolled back, has   *)
(* still written the events that were waiting.                               *)
Refuse(c) ==
    /\ host = "up"
    /\ c \in SessionCommand /\ ~Known(c)
    /\ Unwritten(c.session)
    /\ \/ ~Accepts(c) /\ FlushOnly(c.session) /\ UNCHANGED spent
       \/ Accepts(c) /\ FlushOnly(c.session) /\ Fault
       \/ FlushFails(c.session)
    /\ UNCHANGED <<host, receipts, running, switching, naming, handed, asked,
                   replies>>

-----------------------------------------------------------------------------
(* The task of a turn. *)

(* The microtask run queued: a turn cancelled before it, or a host that is   *)
(* closing, goes straight to cleanup; so does one whose attachment cannot    *)
(* be read any more.                                                         *)
StartSend(s) ==
    /\ Serving
    /\ running[s].phase = "queued"
    /\ \/ /\ host # "closing" /\ ~running[s].cancelled
          /\ handed' = [handed EXCEPT ![running[s].run] = @ + 1]
          /\ running' = [running EXCEPT ![s].phase = "sending"]
       \/ /\ host # "closing" /\ ~running[s].cancelled
          /\ running' = [running EXCEPT ![s] = [@ EXCEPT !.phase = "stopping",
                                                         !.error = TRUE]]
          /\ UNCHANGED handed
       \/ /\ host = "closing" \/ running[s].cancelled
          /\ running' = [running EXCEPT ![s].phase = "stopping"]
          /\ UNCHANGED handed
    /\ UNCHANGED <<host, sessions, receipts, live, switching, naming, asked,
                   replies, spent>>

(* provider.send resolves or rejects; provider.stop is called. *)
EndSend(s) ==
    /\ Serving
    /\ running[s].phase = "sending"
    /\ \E failed \in BOOLEAN :
         running' = [running EXCEPT ![s] = [@ EXCEPT !.phase = "stopping",
                                                     !.error = failed]]
    /\ UNCHANGED <<host, sessions, receipts, live, switching, naming, handed,
                   asked, replies, spent>>

(* Defects: no timer is armed; the state of the host is taken for a phase. *)
ParkedForGood == "abandoned"
ParkedAsHost == IF host = "closing" THEN "closing" ELSE "timer"

(* retrySettlement arms a timer unless the host is closing. *)
Parked == IF host = "closing" THEN "abandoned" ELSE "timer"

(* Defect: running.delete as part of every ending. *)
SettleForgets(s) ==
    /\ Fault
    /\ running' = [running EXCEPT ![s] = NoTask]
    /\ sessions' = [sessions EXCEPT ![s] = Latest(s)]
    /\ live' = [live EXCEPT ![s] = NotLive]

SettleFails(s) ==
    /\ Fault
    /\ running' = [running EXCEPT ![s].phase = Parked]
    /\ \/ /\ Unwritten(s)                                  \* in flush
          /\ live' = [live EXCEPT ![s].timer = FALSE]
          /\ UNCHANGED sessions
       \/ /\ sessions' = [sessions EXCEPT ![s] = Latest(s)] \* in save
          /\ live' = [live EXCEPT ![s] = NotLive]

Settle(s) ==
    LET task   == running[s]
        latest == Latest(s)
        broken == host = "closing" \/ task.persistenceFailed
        silent == ~broken /\ ~task.cancelled /\ ~task.error
        status == IF broken THEN "interrupted" ELSE "idle"
    IN /\ Serving
       /\ task.phase = "stopping"
       /\ \/ /\ sessions' = [sessions EXCEPT ![s] =
                               IF latest.run = task.run
                               THEN Save(Settled(latest, status, silent))
                               ELSE latest]
             /\ live' = [live EXCEPT ![s] = NotLive]
             /\ running' = [running EXCEPT ![s] = NoTask]
             /\ UNCHANGED spent
          \/ SettleFails(s)
       /\ UNCHANGED <<host, receipts, switching, naming, handed, asked, replies>>

RetryTimer(s) ==
    /\ host = "up"
    /\ running[s].phase = "timer"
    /\ running' = [running EXCEPT ![s].phase = "retrying"]
    /\ UNCHANGED <<host, sessions, receipts, live, switching, naming, handed,
                   asked, replies, spent>>

(* The retry deletes the live entry last, so a failed save leaves it.        *)
RetryFails(s) ==
    /\ Fault
    /\ running' = [running EXCEPT ![s].phase = Parked]
    /\ \/ /\ Unwritten(s)
          /\ live' = [live EXCEPT ![s].timer = FALSE]
          /\ UNCHANGED sessions
       \/ FlushOnly(s)

RetrySettle(s) ==
    LET latest == Latest(s)
    IN /\ Serving
       /\ running[s].phase = "retrying"
       /\ \/ /\ sessions' = [sessions EXCEPT ![s] =
                               IF latest.run = running[s].run /\ latest.status = "running"
                               THEN Save(Settled(latest, "interrupted", FALSE))
                               ELSE latest]
             /\ live' = [live EXCEPT ![s] = NotLive]
             /\ running' = [running EXCEPT ![s] = NoTask]
             /\ UNCHANGED spent
          \/ RetryFails(s)
       /\ UNCHANGED <<host, receipts, switching, naming, handed, asked, replies>>

-----------------------------------------------------------------------------
(* Provider events. *)

(* event drops what does not belong to the turn the live entry is of. *)
Delivers(s, r) ==
    /\ live[s].open
    /\ live[s].value.run = r
    /\ live[s].value.status = "running"

(* A turn's number for an approval or a question is used once. *)
Numbered(r, e) ==
    e.kind \in {"ask", "question"} => e.request \notin asked[r]

(* Text is left for the timer; anything else is written at once, and a write *)
(* that fails marks the turn and has its provider stopped.                   *)
ProviderEvent(s, r, e) ==
    LET value  == Absorb(live[s].value, e)
        events == Append(live[s].events, e)
    IN /\ Serving
       /\ handed[r] > 0 /\ Numbered(r, e)
       /\ Delivers(s, r)
       /\ Changes(live[s].value, e)
       /\ spent.events < MaxEvents
       /\ asked' = IF e.kind \in {"ask", "question"}
                   THEN [asked EXCEPT ![r] = @ \cup {e.request}] ELSE asked
       /\ \/ /\ Batched(e)
             /\ live' = [live EXCEPT ![s] = [@ EXCEPT !.value = value,
                                                      !.events = events,
                                                      !.timer = TRUE]]
             /\ spent' = [spent EXCEPT !.events = @ + 1]
             /\ UNCHANGED <<sessions, running>>
          \/ /\ ~Batched(e)
             /\ sessions' = [sessions EXCEPT ![s] = Save(value)]
             /\ live' = [live EXCEPT ![s] = LiveEntry(Save(value))]
             /\ spent' = [spent EXCEPT !.events = @ + 1]
             /\ UNCHANGED running
          \/ /\ ~Batched(e)
             /\ spent.faults < MaxFaults
             /\ live' = [live EXCEPT ![s] = [@ EXCEPT !.value = value,
                                                      !.events = events,
                                                      !.timer = FALSE]]
             /\ running' = [running EXCEPT ![s].persistenceFailed = InMap(s)]
             /\ spent' = [spent EXCEPT !.events = @ + 1, !.faults = @ + 1]
             /\ UNCHANGED sessions
       /\ UNCHANGED <<host, receipts, switching, naming, handed, replies>>

(* scheduledFlush, from its timer. *)
ScheduledFlush(s) ==
    /\ Serving
    /\ live[s].timer
    /\ \/ FlushOnly(s) /\ UNCHANGED <<running, spent>>
       \/ /\ FlushFails(s)
          /\ running' = [running EXCEPT ![s].persistenceFailed = InMap(s)]
    /\ UNCHANGED <<host, receipts, switching, naming, handed, asked, replies>>

-----------------------------------------------------------------------------
(* Other entry points. *)

(* updateSession: a new title, or (title unchanged) another property.  A     *)
(* patch that is refused or rolled back has still written what was waiting.  *)
UpdateSession(s, title) ==
    /\ Serving
    /\ Exists(sessions[s])
    /\ \/ /\ spent.updates < MaxUpdates
          /\ FlushAndSave(s, [Latest(s) EXCEPT !.title = title])
          /\ spent' = [spent EXCEPT !.updates = @ + 1]
       \/ Unwritten(s) /\ FlushOnly(s) /\ UNCHANGED spent
       \/ FlushFails(s)
    /\ UNCHANGED <<host, receipts, running, switching, naming, handed, asked,
                   replies>>

DeleteSession(s) ==
    /\ Serving
    /\ Exists(sessions[s])
    /\ sessions[s].status # "running"
    /\ sessions' = [sessions EXCEPT ![s].status = "deleted"]
    /\ UNCHANGED <<host, receipts, running, live, switching, naming, handed,
                   asked, replies, spent>>

(* The title asked for on the first turn arrives, if one was found.  It is   *)
(* dropped when the session is gone or has another title by now.             *)
TitleArrives(s) ==
    /\ Serving
    /\ s \in naming
    /\ naming' = naming \ {s}
    /\ \/ UNCHANGED <<sessions, live, spent>>
       \/ /\ Exists(sessions[s])
          /\ IF Latest(s).title = "prompt"
             THEN FlushAndSave(s, [Latest(s) EXCEPT !.title = "generated"])
             ELSE FlushOnly(s)
          /\ UNCHANGED spent
       \/ FlushFails(s)
       \/ /\ Exists(sessions[s]) /\ Latest(s).title = "prompt"
          /\ FlushOnly(s) /\ Fault
    /\ UNCHANGED <<host, receipts, running, switching, handed, asked, replies>>

(* withIdleProject, around a branch switch. *)
BeginSwitch(p) ==
    /\ host = "up"
    /\ p \notin switching
    /\ \A s \in SessionIds :
         sessions[s].project = p => sessions[s].status # "running"
    /\ switching' = switching \cup {p}
    /\ UNCHANGED <<host, sessions, receipts, running, live, naming, handed,
                   asked, replies, spent>>

EndSwitch(p) ==
    /\ Serving
    /\ p \in switching
    /\ switching' = switching \ {p}
    /\ UNCHANGED <<host, sessions, receipts, running, live, naming, handed,
                   asked, replies, spent>>

-----------------------------------------------------------------------------
(* The process. *)

LoseMemory ==
    /\ running' = [s \in SessionIds |-> NoTask]
    /\ live' = [s \in SessionIds |-> NotLive]
    /\ switching' = {}
    /\ naming' = {}

Crash ==
    /\ host # "down"
    /\ spent.crashes < MaxCrashes
    /\ host' = "down"
    /\ LoseMemory
    /\ spent' = [spent EXCEPT !.crashes = @ + 1]
    /\ UNCHANGED <<sessions, receipts, handed, asked, replies>>

Boot ==
    /\ host = "down"
    /\ host' = "starting"
    /\ UNCHANGED <<sessions, receipts, running, live, switching, naming, handed,
                   asked, replies, spent>>

(* The constructor interrupts the turns it finds running, one save each; a   *)
(* save that fails ends the process.                                         *)
Recover(s) ==
    /\ host = "starting"
    /\ sessions[s].status = "running"
    /\ \/ /\ sessions' = [sessions EXCEPT ![s] =
                            Save(Settled(@, "interrupted", FALSE))]
          /\ UNCHANGED <<host, spent>>
       \/ host' = "down" /\ Fault /\ UNCHANGED sessions
    /\ UNCHANGED <<receipts, running, live, switching, naming, handed, asked,
                   replies>>

Listen ==
    /\ host = "starting"
    /\ \A s \in SessionIds : sessions[s].status # "running"
    /\ host' = "up"
    /\ UNCHANGED <<sessions, receipts, running, live, switching, naming, handed,
                   asked, replies, spent>>

(* close: no command is accepted from here on, and retry timers are cleared. *)
Close ==
    /\ host = "up"
    /\ host' = "closing"
    /\ running' = [s \in SessionIds |->
                     IF running[s].phase = "timer"
                     THEN [running[s] EXCEPT !.phase = "abandoned"]
                     ELSE running[s]]
    /\ UNCHANGED <<sessions, receipts, live, switching, naming, handed, asked,
                   replies, spent>>

(* The process ends once every turn's task has. *)
Exit ==
    /\ host = "closing"
    /\ \A s \in SessionIds :
         running[s].phase \notin {"queued", "sending", "stopping"}
    /\ host' = "down"
    /\ LoseMemory
    /\ UNCHANGED <<sessions, receipts, handed, asked, replies, spent>>

-----------------------------------------------------------------------------

Next ==
    \/ \E c \in CreateCommand : Create(c)
    \/ \E c \in SendCommand \cup CompactCommand : Start(c)
    \/ \E c \in EditCommand \cup RemoveCommand : Edit(c)
    \/ \E c \in CancelCommand : Cancel(c)
    \/ \E c \in ReplyCommand : Reply(c)
    \/ \E c \in SessionCommand : Refuse(c)
    \/ \E s \in SessionIds :
         \/ StartSend(s) \/ EndSend(s) \/ Settle(s)
         \/ RetryTimer(s) \/ RetrySettle(s)
         \/ ScheduledFlush(s)
         \/ DeleteSession(s) \/ TitleArrives(s)
         \/ Recover(s)
    \/ \E s \in SessionIds, r \in CommandIds :
         \E e \in EventsOf(r, live[s].value) : ProviderEvent(s, r, e)
    \/ \E s \in SessionIds : \E title \in {"renamed", sessions[s].title} :
         UpdateSession(s, title)
    \/ \E p \in Projects : BeginSwitch(p) \/ EndSwitch(p)
    \/ Crash \/ Boot \/ Listen \/ Close \/ Exit

Spec == Init /\ [][Next]_vars

-----------------------------------------------------------------------------
(* Fairness.  The event loop runs what is ready, timers fire, provider.stop  *)
(* resolves, and the service manager starts a host that is down.  A provider *)
(* may work on a prompt for ever, so the end of provider.send is fair only   *)
(* when the turn was cancelled or its provider was stopped after a failed    *)
(* write; ProviderTurns shows why that ends it.                              *)

StopAsked(s) == running[s].cancelled \/ running[s].persistenceFailed

Fairness ==
    /\ \A s \in SessionIds :
         /\ WF_vars(StartSend(s))
         /\ WF_vars(StopAsked(s) /\ EndSend(s))
         /\ WF_vars(Settle(s))
         /\ WF_vars(RetryTimer(s))
         /\ WF_vars(RetrySettle(s))
         /\ WF_vars(Recover(s))
    /\ WF_vars(Boot) /\ WF_vars(Listen)

FairSpec == Spec /\ Fairness

-----------------------------------------------------------------------------
(* Properties. *)

TypeOK ==
    /\ host \in {"down", "starting", "up", "closing"}
    /\ sessions \in [SessionIds -> HostSession]
    /\ receipts \in [CommandIds -> Receipt \cup {None}]
    /\ running \in [SessionIds -> Task]
    /\ live \in [SessionIds -> Live]
    /\ switching \in SUBSET Projects
    /\ naming \in SUBSET SessionIds
    /\ handed \in [CommandIds -> Nat]
    /\ asked \in [CommandIds -> SUBSET Requests]
    /\ replies \in [CommandIds -> [Requests -> Nat]]
    /\ spent \in [events : Nat, updates : Nat, faults : Nat, crashes : Nat]

(* While the host serves, a session is running in the database exactly when  *)
(* its turn has a task in memory: a failed settlement that forgot the task   *)
(* would leave a session nobody can end, and one that forgot the row would   *)
(* refuse every later prompt.                                                *)
TaskPerRunningTurn ==
    Serving => \A s \in SessionIds :
        /\ InMap(s) <=> sessions[s].status = "running"
        /\ InMap(s) => running[s].run = sessions[s].run

(* The value v after the events, one by one.                                 *)
Replayed(v, events) ==
    LET after[n \in 0..Len(events)] ==
            IF n = 0 THEN v ELSE Absorb(after[n - 1], events[n])
    IN  after[Len(events)]

(* The entry in live is the durable session with exactly the events that are *)
(* not written yet applied to it: metadata changes, generated titles,        *)
(* commands and failed writes never leave it stale, and the next flush loses *)
(* or repeats nothing.                                                       *)
LiveMirrorsStore ==
    \A s \in SessionIds : live[s].open =>
        live[s].value = Replayed(sessions[s], live[s].events)

(* No turn runs in a project while one of its branches is being switched.    *)
SwitchExcludesTurns ==
    \A s \in SessionIds :
        sessions[s].status = "running" => sessions[s].project \notin switching

(* Every accepted prompt is in the transcript of its session exactly once,   *)
(* and no other prompt is.                                                   *)
PromptsRecordedOnce ==
    \A s \in SessionIds, c \in CommandIds :
        Cardinality({i \in DOMAIN sessions[s].turns : sessions[s].turns[i] = c}) =
          IF /\ receipts[c] # None
             /\ StartsTurn(receipts[c].command) /\ receipts[c].session = s
          THEN 1 ELSE 0

(* Requests of a provider, a streaming or building plan, exist only in a     *)
(* running turn, and a plan under construction is the one the running turn   *)
(* was asked to build; after a crash or a storage failure as after a normal  *)
(* end.  Drafts exist only between turns, one at a time.                     *)
OpenItemsBelongToTurn ==
    \A s \in SessionIds :
        LET v == sessions[s] IN
        /\ v.status # "running" =>
             /\ v.asks = {} /\ v.question = None
             /\ \A p \in CommandIds : v.plans[p] \notin {"streaming", "building"}
        /\ v.status = "running" =>
             /\ v.drafts = {}
             /\ \A p \in CommandIds : v.plans[p] = "building" =>
                  receipts[v.run].command.plan = p
        /\ Cardinality(v.drafts) <= 1

(* However many clients decide it, a request is answered towards the         *)
(* provider at most once, by the turn that asked it.                         *)
RequestsAnsweredOnce ==
    \A r \in CommandIds, q \in Requests :
        replies[r][q] <= 1 /\ (replies[r][q] = 1 => q \in asked[r])

(* What clients have been able to see or will see of a session's output.     *)
Absorbed(s) == IF live[s].open THEN live[s].value.output ELSE sessions[s].output

(* Only the loss of the process loses streamed output: no failed write,      *)
(* retry, settlement or other command does.                                  *)
OutputIsKept ==
    [][host' # "down" => \A s \in SessionIds : Absorbed(s)' >= Absorbed(s)]_vars

(* A title the user gave stays, whatever first-turn generation, flushes of   *)
(* the live entry or settlement write later.  The one exception is in the    *)
(* code of the draft command: the first block of a conversation names it.    *)
UserTitleIsKept ==
    [][\A s \in SessionIds :
         sessions[s].title = "renamed" =>
           \/ sessions'[s].title = "renamed"
           \/ sessions[s].turns = <<>> /\ sessions'[s].drafts # {}]_vars

(* A session never changes without taking a later revision: a client that    *)
(* has the current revision has the current session, so sync may answer      *)
(* "unchanged".                                                              *)
ChangesTakeRevisions ==
    [][\A s \in SessionIds :
         \/ sessions'[s] = sessions[s]
         \/ sessions'[s].revision > sessions[s].revision
         \/ sessions'[s].status = "deleted"]_vars

(* The engine keeps the promise of TurnLedger: the turn open in a session is *)
(* the one its row says is running, a prompt is accepted with its receipt.   *)
LedgerOpen == [s \in SessionIds |->
                 IF sessions[s].status = "running" THEN sessions[s].run ELSE None]
LedgerAccepted == {c \in CommandIds : receipts[c] # None
                                         /\ StartsTurn(receipts[c].command)}
LedgerHanded == {c \in CommandIds : handed[c] > 0}
Ledger == INSTANCE TurnLedger WITH open     <- LedgerOpen,
                                   accepted <- LedgerAccepted,
                                   handed   <- LedgerHanded
LedgerSpec == Ledger!Spec

(* The engine calls provider.send for a command at most once.                *)
HandedAtMostOnce == \A c \in CommandIds : handed[c] <= 1

(* A turn that was told to end, or whose provider has returned, is over      *)
(* sooner or later, whatever writes fail and whenever the host crashes.      *)
(* (A host that is closing waits for every turn, told to end or not.)        *)
Ending(s) ==
    \/ InMap(s) /\ StopAsked(s)
    \/ running[s].phase \in {"stopping", "timer", "retrying"}
EndedTurnSettles ==
    \A s \in SessionIds :
        Ending(s) ~> (sessions[s].status # "running" \/ host = "closing")
=============================================================================

----------------------------- MODULE ProviderTurns -----------------------------
(***************************************************************************)
(* One session's turns seen from below the engine: how run, cancel, stop   *)
(* and close of host/engine.ts meet an adapter (claude.ts; codex.ts,       *)
(* cursor.ts, grok.ts, fx.ts, hermes.ts, opencode.ts and piFamily.ts keep  *)
(* the same cancelledThreads and liveByThread) and the process table of    *)
(* host/child-backend.ts.  What HostEngine takes for granted about the end *)
(* of provider.send is checked here.                                       *)
(*                                                                         *)
(* Each turn has its own provider process, named after the turn.           *)
(***************************************************************************)
EXTENDS Naturals, FiniteSets

CONSTANTS
    Turns,      \* runIds
    None,
    MaxFaults   \* failed writes of streamed events

ASSUME NoneIsNotATurn == None \notin Turns
ASSUME MaxFaultsIsNat == MaxFaults \in Nat

VARIABLES
    host,       \* "up", "closing" or "down"
    turn,       \* the turn the session is running, or None
    step,       \* how far provider.send and the cleanup after it have come
    stopped,    \* turns that ended
    cancelled,  \* turns a client cancelled
    failed,     \* turns whose send rejected or whose events were not written
    prompted,   \* turns whose prompt was written to their process
    marker,     \* the session is in cancelledThreads
    live,       \* the turn that owns the entry in liveByThread, or None
    endPending, \* live.turnEndPending
    watched,    \* the session's line and exit handlers are registered
    child,      \* the process in HostChildBackend.children, or None
    dying,      \* processes being killed, already out of children
    killing,    \* the process the turn's own provider.stop waits for, or None
    faults

vars == <<host, turn, step, stopped, cancelled, failed, prompted, marker, live,
          endPending, watched, child, dying, killing, faults>>

adapter == <<marker, live, endPending, watched>>
processes == <<child, dying, killing>>

(* queued: before the microtask of run.  resolving, spawning, launched,      *)
(* initializing: the awaits of ensureLive.  working: the prompt is written.  *)
(* stopping: provider.send is over, provider.stop is awaited.                *)
Step == {"none", "queued", "resolving", "spawning", "launched", "initializing",
         "working", "stopping"}

Init ==
    /\ host = "up"
    /\ turn = None /\ step = "none"
    /\ stopped = {} /\ cancelled = {} /\ failed = {} /\ prompted = {}
    /\ marker = FALSE /\ live = None /\ endPending = FALSE /\ watched = FALSE
    /\ child = None /\ dying = {} /\ killing = None
    /\ faults = 0

-----------------------------------------------------------------------------
(* provider.stop: forgetClaudeSession, stopClaudeSession, killChild, kill.   *)
(* Everything up to the wait for the process happens at the call.  kill      *)
(* takes the process out of children first, so a second call finds none and  *)
(* waits for nothing.                                                        *)

(* Defect: whatever children holds is killed, also when it holds nothing. *)
KillBlindly == /\ child' = None
               /\ dying' = dying \cup {child}

Kill == /\ child' = None
        /\ dying' = IF child = None THEN dying ELSE dying \cup {child}

DropLive ==
    /\ marker' = FALSE
    /\ live' = None
    /\ watched' = FALSE
    /\ endPending' = FALSE

(* Defect: cleanup is not awaited. *)
StopUnawaited ==
    /\ step' = "stopping"
    /\ DropLive /\ Kill
    /\ killing' = None

(* The turn's send is over and its own stop is called and awaited. *)
StopAwaited ==
    /\ step' = "stopping"
    /\ DropLive /\ Kill
    /\ killing' = child

(* A stop from outside the turn's task: not awaited by it.  It resolves the  *)
(* promise a working turn waits on, whose own stop then has nothing to kill; *)
(* a send still in ensureLive does not notice.                               *)
StopFromOutside ==
    /\ DropLive /\ Kill
    /\ killing' = killing
    /\ step' = IF step = "working" THEN "stopping" ELSE step

-----------------------------------------------------------------------------
(* The turn's task and the adapter's send. *)

Send(t) ==
    /\ host = "up"
    /\ turn = None /\ t \notin stopped
    /\ turn' = t /\ step' = "queued"
    /\ UNCHANGED <<host, stopped, cancelled, failed, prompted, adapter,
                   processes, faults>>

Begin ==
    /\ step = "queued"
    /\ IF host = "closing" \/ turn \in cancelled
       THEN StopAwaited
       ELSE step' = "resolving" /\ UNCHANGED <<adapter, processes>>
    /\ UNCHANGED <<host, turn, stopped, cancelled, failed, prompted, faults>>

(* The binary is found: handlers are registered and a process is asked for.  *)
Resolve ==
    /\ step = "resolving"
    /\ step' = "spawning"
    /\ watched' = TRUE
    /\ UNCHANGED <<host, turn, stopped, cancelled, failed, prompted, marker,
                   live, endPending, processes, faults>>

Launch ==
    /\ step = "spawning"
    /\ step' = "launched"
    /\ child' = turn
    /\ UNCHANGED <<host, turn, stopped, cancelled, failed, prompted, adapter,
                   dying, killing, faults>>

(* ensureLive rejects: no binary, no process, a process killed before        *)
(* initialize could be written.  The marker goes with it.                    *)
StartFails ==
    /\ step \in {"resolving", "spawning", "launched"}
    /\ failed' = failed \cup {turn}
    /\ StopAwaited
    /\ UNCHANGED <<host, turn, stopped, cancelled, prompted, faults>>

Initialize ==
    /\ step = "launched"
    /\ child = turn
    /\ step' = "initializing"
    /\ live' = turn
    /\ UNCHANGED <<host, turn, stopped, cancelled, failed, prompted, marker,
                   endPending, watched, processes, faults>>

(* initialize is answered, or its eight seconds are over.  A marker left by  *)
(* a cancel ends the send here; otherwise the prompt is written, unless the  *)
(* process is gone; a cancel since initialize then ends the turn at once.    *)
Prompt ==
    /\ step = "initializing"
    /\ IF marker
       THEN StopAwaited /\ UNCHANGED <<prompted, failed>>
       ELSE IF child # turn
       THEN StopAwaited /\ failed' = failed \cup {turn} /\ UNCHANGED prompted
       ELSE /\ prompted' = prompted \cup {turn}
            /\ IF endPending THEN StopAwaited
               ELSE step' = "working" /\ UNCHANGED <<adapter, processes>>
            /\ UNCHANGED failed
    /\ UNCHANGED <<host, turn, stopped, cancelled, faults>>

(* The provider reports the end of its turn, or exits: both only through the *)
(* handlers.                                                                 *)
Work ==
    /\ step = "working"
    /\ watched
    /\ \/ UNCHANGED failed
       \/ failed' = failed \cup {turn}
    /\ StopAwaited
    /\ UNCHANGED <<host, turn, stopped, cancelled, prompted, faults>>

Die(t) ==
    /\ t \in dying
    /\ dying' = dying \ {t}
    /\ UNCHANGED <<host, turn, step, stopped, cancelled, failed, prompted,
                   adapter, child, killing, faults>>

(* provider.stop has resolved: the turn is settled. *)
Settle ==
    /\ step = "stopping"
    /\ killing \notin dying
    /\ turn' = None /\ step' = "none"
    /\ stopped' = stopped \cup {turn}
    /\ killing' = None
    /\ UNCHANGED <<host, cancelled, failed, prompted, adapter, child, dying,
                   faults>>

-----------------------------------------------------------------------------
(* What reaches the turn from outside. *)

(* Defect: the request is dropped when no entry is live. *)
CancelLiveOnly ==
    /\ IF live = None THEN UNCHANGED <<adapter, processes, step>>
       ELSE IF step = "working" THEN StopAwaited
       ELSE endPending' = TRUE /\ UNCHANGED <<marker, live, watched, step, processes>>

(* cancelClaudeTurn. *)
CancelTurn ==
    /\ IF live = None
       THEN marker' = TRUE /\ UNCHANGED <<live, endPending, watched, step, processes>>
       ELSE IF step = "working" THEN StopAwaited
       ELSE endPending' = TRUE /\ UNCHANGED <<marker, live, watched, step, processes>>

(* The session is running until its turn is settled, so a cancel can come    *)
(* as late as during the cleanup.                                            *)
Cancel ==
    /\ host = "up"
    /\ turn # None
    /\ cancelled' = cancelled \cup {turn}
    /\ CancelTurn
    /\ UNCHANGED <<host, turn, stopped, failed, prompted, faults>>

(* scheduledFlush could not write an event of a live turn. *)
FlushFails ==
    /\ faults < MaxFaults
    /\ live # None
    /\ faults' = faults + 1
    /\ failed' = failed \cup {turn}
    /\ StopFromOutside
    /\ UNCHANGED <<host, turn, stopped, cancelled, prompted>>

(* close stops the provider of a running turn once, and waits for the turn.  *)
Close ==
    /\ host = "up"
    /\ host' = "closing"
    /\ IF turn = None THEN UNCHANGED <<step, adapter, processes>>
       ELSE StopFromOutside
    /\ UNCHANGED <<turn, stopped, cancelled, failed, prompted, faults>>

(* Then every process is killed and the host exits. *)
Exit ==
    /\ host = "closing"
    /\ turn = None
    /\ host' = "down"
    /\ Kill
    /\ UNCHANGED <<turn, step, stopped, cancelled, failed, prompted, adapter,
                   killing, faults>>

-----------------------------------------------------------------------------

Next ==
    \/ \E t \in Turns : Send(t) \/ Die(t)
    \/ Begin \/ Resolve \/ Launch \/ StartFails \/ Initialize \/ Prompt
    \/ Work \/ Settle
    \/ Cancel \/ FlushFails \/ Close \/ Exit

Spec == Init /\ [][Next]_vars

(* What the event loop and the operating system do on their own.  A provider *)
(* need not ever finish its work.                                            *)
Fairness ==
    /\ WF_vars(Begin) /\ WF_vars(Resolve) /\ WF_vars(Launch)
    /\ WF_vars(Initialize) /\ WF_vars(step = "launched" /\ child # turn /\ StartFails)
    /\ WF_vars(Prompt) /\ WF_vars(Settle) /\ WF_vars(Exit)
    /\ \A t \in Turns : WF_vars(Die(t))

FairSpec == Spec /\ Fairness

-----------------------------------------------------------------------------
(* Properties. *)

TypeOK ==
    /\ host \in {"up", "closing", "down"}
    /\ turn \in Turns \cup {None} /\ step \in Step
    /\ stopped \subseteq Turns /\ cancelled \subseteq Turns
    /\ failed \subseteq Turns /\ prompted \subseteq Turns
    /\ marker \in BOOLEAN /\ endPending \in BOOLEAN /\ watched \in BOOLEAN
    /\ live \in Turns \cup {None} /\ child \in Turns \cup {None}
    /\ dying \subseteq Turns /\ killing \in Turns \cup {None}
    /\ faults \in 0..MaxFaults

(* A turn told to end ends, in whatever stage of its start, its work or its  *)
(* cleanup it is: HostEngine's fairness of EndSend rests on this.  A host    *)
(* that is closing is the exception: its stop also clears the marker.        *)
StopEndsTurn ==
    \A t \in Turns :
        (turn = t /\ (t \in cancelled \/ t \in failed)) ~> (turn # t \/ host = "closing")

(* While the host accepts turns, processes of two turns of a session live at *)
(* the same time only after a write failed.                                  *)
OneProcessPerSession ==
    host = "up" /\ Cardinality(dying \cup ({child} \ {None})) > 1 => faults > 0

(* engine.ts: "Keep the session running until the old process has stopped."  *)
CleanupBeforeSettling ==
    host = "up" /\ turn = None => child = None /\ dying = {}

(* As long as the host is up, a turn that ended without having been          *)
(* cancelled and without an error has had its prompt delivered.  devin.ts    *)
(* names what goes wrong otherwise: "a stale marker would drop the next      *)
(* prompt."                                                                  *)
CompletedTurnWasPrompted ==
    host = "up" =>
        \A t \in stopped : t \in cancelled \/ t \in failed \/ t \in prompted

(* remote-access.md: "Stopping the host interrupts active turns".            *)
CloseInterruptsTurns == (host = "closing") ~> (host = "down")
=============================================================================

------------------------------ MODULE RemoteOutbox ------------------------------
(***************************************************************************)
(* The outbox of remote commands                                           *)
(* (features/connections/ui/RemoteSession.tsx, ../model/connections.ts,    *)
(* src-tauri/src/remote.rs).                                               *)
(*                                                                         *)
(* A desktop sends the user's messages to a host over a network that may   *)
(* lose a request, lose its answer, or deliver a request after the desktop *)
(* has given it up.  A command is written to local storage under its own   *)
(* identifier before it is sent and stays there until the host has         *)
(* answered; what is unconfirmed is sent again only when the user asks for *)
(* it, under the same identifier.  The first message of a new conversation *)
(* travels with the command that creates the conversation.                 *)
(*                                                                         *)
(* The host is what its receipts make of it (HostStore.receipt); a session *)
(* is named by the create command that made it.                            *)
(***************************************************************************)
EXTENDS Naturals, FiniteSets

CONSTANTS
    Tab,            \* panes of one remote project
    Text,           \* 1..n: the user's messages, in the order they are typed
    Id,             \* 1..n: identifiers of turns (bound)
    Create,         \* identifiers of create commands, 101.. (bound)
    MaxUpsets       \* timeouts, rejections, reloads and changes of the
                    \* conversation a pane shows, together (bound)

ASSUME NamesAssumption ==
    /\ Text \subseteq Nat \ {0} /\ Id \subseteq Nat \ {0} /\ Create \subseteq Nat \ {0}
    /\ IsFiniteSet(Id) /\ IsFiniteSet(Create) /\ Id \cap Create = {}
ASSUME BoundAssumption == MaxUpsets \in Nat

None == 0

VARIABLES
    outbox,     \* local storage: the commands not confirmed yet
    bound,      \* local storage: the session each pane shows, None for a new one
    pending,    \* the unconfirmed command a pane offers to retry
    starting,   \* the message a pane shows although no sync has it
    call,       \* the request a pane waits for
    late,       \* requests still travelling that nobody waits for
    sessions,   \* the host: sessions it has created
    turns,      \* the host: messages it has accepted, with their receipts
    rejected,   \* messages the user was told were turned down
    meant,      \* the sessions a message was written for
    upsets

desktop == <<outbox, bound, pending, starting, call>>
host == <<sessions, turns>>
history == <<rejected, meant>>
vars == <<desktop, late, host, history, upsets>>

Session == Create
CreateCommand(c) == [type |-> "create", id |-> c, session |-> None, text |-> None]
Send(s, m, i) == [type |-> "send", id |-> i, session |-> s, text |-> m]
NoCommand == [type |-> "none", id |-> None, session |-> None, text |-> None]
CommandType ==
    {CreateCommand(c) : c \in Create} \cup
    {Send(s, m, i) : s \in Session \cup {None}, m \in Text, i \in Id}
NotStarting == [text |-> None, id |-> None, failed |-> FALSE]
NoCall == [command |-> NoCommand, from |-> None, turn |-> NotStarting,
           fresh |-> FALSE, stage |-> "none"]

TypeOK ==
    /\ outbox \subseteq [command : CommandType, shell : Tab,
                         followup : CommandType \cup {NoCommand}]
    /\ bound \in [Tab -> Session \cup {None}]
    /\ pending \in [Tab -> CommandType \cup {NoCommand}]
    /\ starting \in [Tab -> [text : Text \cup {None}, id : Id \cup {None},
                             failed : BOOLEAN]]
    /\ call \in [Tab -> [command : CommandType \cup {NoCommand},
                         from : Session \cup {None}, fresh : BOOLEAN,
                         turn : [text : Text \cup {None}, id : Id \cup {None},
                                 failed : {FALSE}],
                         stage : {"none", "sent", "receipt", "rejected", "saved"}]]
    /\ \A t \in Tab : call[t].stage = "saved" => call[t].command.type = "create"
    /\ late \subseteq CommandType
    /\ sessions \subseteq Session
    /\ \A p \in turns : p \in CommandType /\ p.session \in sessions
    /\ rejected \subseteq Text /\ meant \in [Text -> SUBSET Session]
    /\ upsets \in 0..MaxUpsets
    \* One entry for a command.
    /\ \A e, f \in outbox : e.command.id = f.command.id => e = f

Init ==
    /\ outbox = {} /\ late = {}
    /\ bound = [t \in Tab |-> None]
    /\ pending = [t \in Tab |-> NoCommand]
    /\ starting = [t \in Tab |-> NotStarting]
    /\ call = [t \in Tab |-> NoCall]
    /\ sessions = {} /\ turns = {}
    /\ rejected = {} /\ meant = [m \in Text |-> {}]
    /\ upsets = 0

Upset == upsets < MaxUpsets /\ upsets' = upsets + 1

-----------------------------------------------------------------------------
(* Local storage *)

pendingRemoteFollowup(box, id) ==
    LET own == {e \in box : e.command.id = id}
    IN  IF own = {} THEN NoCommand ELSE (CHOOSE e \in own : TRUE).followup

\* Mutant: the entry of a command is added, not replaced.
savePendingBeside(box, command, t, followup) ==
    box \cup {[command |-> command, shell |-> t, followup |-> followup]}

savePendingRemoteCommand(box, command, t, followup) ==
    {e \in box : e.command.id # command.id} \cup
    {[command |-> command, shell |-> t,
      followup |-> IF followup # NoCommand THEN followup
                   ELSE pendingRemoteFollowup(box, command.id)]}

clearPendingRemoteCommand(box, id) == {e \in box : e.command.id # id}

\* What a pane on session s finds: the commands for s, or for a new session
\* the creates of its own.  Local storage has no order of its own.
pendingRemoteCommand(box, s, t) ==
    LET found == {e \in box : IF s = None
                              THEN e.command.type = "create" /\ e.shell = t
                              ELSE e.command.type = "send" /\ e.command.session = s}
    IN  IF found = {} THEN NoCommand ELSE (CHOOSE e \in found : TRUE).command

-----------------------------------------------------------------------------
(* Sending *)

Idle(t) == call[t] = NoCall

\* run up to the request: the entry is saved, then the command is sent.
\* "from" is the session the pane showed when the operation began, "turn" the
\* message it is about, NotStarting for a retry.
Dispatch(t, command, from, turn, followup) ==
    /\ outbox' = savePendingRemoteCommand(outbox, command, t, followup)
    /\ pending' = [pending EXCEPT ![t] = command]
    /\ call' = [call EXCEPT ![t] = [command |-> command, from |-> from, turn |-> turn,
                                    fresh |-> TRUE, stage |-> "sent"]]

\* Identifiers that occur nowhere (crypto.randomUUID).
Occurring ==
    late \cup turns \cup {pending[t] : t \in Tab} \cup {call[t].command : t \in Tab}
    \cup UNION {{e.command, e.followup} : e \in outbox}
UnusedCreates ==
    {c \in Create \ sessions : \A command \in Occurring : command.id # c}
    \ UNION {meant[m] : m \in Text}
UnusedIds ==
    {i \in Id : /\ \A command \in Occurring : command.id # i
                /\ \A t \in Tab : starting[t].id # i}

FirstOf(S) == {x \in S : \A y \in S : x <= y}
Shown(m, i) == [text |-> m, id |-> i, failed |-> FALSE]

\* startSession: a create command that carries the first message.
startSession(t, m, i) ==
    \E c \in FirstOf(UnusedCreates) :
        /\ Dispatch(t, CreateCommand(c), None, Shown(m, i), Send(None, m, i))
        /\ meant' = [meant EXCEPT ![m] = @ \cup {c}]

dispatchTurn(t, m, i) ==
    /\ Dispatch(t, Send(bound[t], m, i), bound[t], Shown(m, i), NoCommand)
    /\ meant' = [meant EXCEPT ![m] = @ \cup {bound[t]}]

Turn(t, m, i) == IF bound[t] = None THEN startSession(t, m, i) ELSE dispatchTurn(t, m, i)

submit(t, m) ==
    /\ Idle(t) /\ pending[t] = NoCommand
    /\ starting[t].text = None \/ starting[t].failed
    /\ meant[m] = {} /\ \A n \in Text : n < m => meant[n] # {}
    /\ \E i \in FirstOf(UnusedIds) :
          /\ Turn(t, m, i)
          /\ starting' = [starting EXCEPT ![t] = Shown(m, i)]
    /\ UNCHANGED <<bound, late, host, rejected, upsets>>

\* Mutant: the message gets an identifier of its own again.
tryAgainRenamed(t) ==
    /\ Idle(t) /\ pending[t] = NoCommand /\ starting[t].failed
    /\ \E i \in FirstOf(UnusedIds) :
          /\ Turn(t, starting[t].text, i)
          /\ starting' = [starting EXCEPT ![t] = Shown(@.text, i)]
    /\ UNCHANGED <<bound, late, host, rejected, upsets>>

\* "Try again": the message under its identifier, with a new create command
\* when the pane has no session.
tryAgain(t) ==
    /\ Idle(t) /\ pending[t] = NoCommand /\ starting[t].failed
    /\ Turn(t, starting[t].text, starting[t].id)
    /\ starting' = [starting EXCEPT ![t].failed = FALSE]
    /\ UNCHANGED <<bound, late, host, rejected, upsets>>

\* "Retry": the unconfirmed command as it was saved.
retryPending(t) ==
    /\ Idle(t) /\ pending[t] # NoCommand
    /\ Dispatch(t, pending[t], bound[t], NotStarting, NoCommand)
    /\ starting' = [starting EXCEPT ![t].failed = FALSE]
    /\ UNCHANGED <<bound, late, host, history, upsets>>

-----------------------------------------------------------------------------
(* The host and the network *)

\* HostEngine.command: a command that has a receipt is answered from it, and
\* turned down when its receipt is for another request.
Handled(command, result) ==
    LET same == {p \in turns : p.id = command.id} IN
    \/ /\ command.type = "create" /\ result = "receipt"
       /\ sessions' = sessions \cup {command.id}
       /\ UNCHANGED <<turns, upsets>>
    \/ /\ command.type = "send" /\ same # {}
       /\ result = IF command \in same THEN "receipt" ELSE "rejected"
       /\ UNCHANGED <<host, upsets>>
    \/ /\ command.type = "send" /\ same = {}
       /\ command.session \in sessions /\ result = "receipt"
       /\ turns' = turns \cup {command}
       /\ UNCHANGED <<sessions, upsets>>
    \/ /\ same = {} /\ command.id \notin sessions
       /\ result = "rejected" /\ Upset
       /\ UNCHANGED host

Handle(t) ==
    /\ call[t].stage = "sent"
    /\ \E result \in {"receipt", "rejected"} :
          /\ Handled(call[t].command, result)
          /\ call' = [call EXCEPT ![t].stage = result]
    /\ UNCHANGED <<outbox, bound, pending, starting, late, history>>

\* A request arrives that the desktop has given up.
HandleLate(command) ==
    /\ command \in late /\ late' = late \ {command}
    /\ Handled(command, "receipt")
    /\ UNCHANGED <<desktop, history>>

-----------------------------------------------------------------------------
(* Answers *)

\* The message of a pane's own operation is shown as not sent.
ShowFailed(t) ==
    starting' = IF call[t].fresh /\ call[t].turn # NotStarting
                THEN [starting EXCEPT ![t] = [call[t].turn EXCEPT !.failed = TRUE]]
                ELSE starting

\* Mutant: an answer that did not come is taken for a refusal.
TimesOutForgetful(t) ==
    /\ Upset
    /\ call[t].stage \in {"sent", "receipt", "rejected"}
    /\ late' = IF call[t].stage = "sent" THEN late \cup {call[t].command} ELSE late
    /\ outbox' = clearPendingRemoteCommand(outbox, call[t].command.id)
    /\ ShowFailed(t)
    /\ call' = [call EXCEPT ![t] = NoCall]
    /\ UNCHANGED <<bound, pending, host, history>>

\* No answer, or one that could not be read or acted on: the entry stays.
TimesOut(t) ==
    /\ Upset
    /\ call[t].stage \in {"sent", "receipt", "rejected"}
    /\ late' = IF call[t].stage = "sent" THEN late \cup {call[t].command} ELSE late
    /\ ShowFailed(t)
    /\ call' = [call EXCEPT ![t] = NoCall]
    /\ UNCHANGED <<outbox, bound, pending, host, history>>

\* "Host rejected request": the entry goes, unless the pane shows another
\* session by now.
Rejected(t) ==
    LET c == call[t] IN
    /\ c.stage = "rejected"
    /\ IF c.fresh
       THEN /\ outbox' = clearPendingRemoteCommand(outbox, c.command.id)
            /\ pending' = [pending EXCEPT ![t] = pendingRemoteCommand(outbox', c.from, t)]
            /\ rejected' = rejected \cup
                  ({c.command.text, pendingRemoteFollowup(outbox, c.command.id).text} \ {None})
       ELSE UNCHANGED <<outbox, pending, rejected>>
    /\ ShowFailed(t)
    /\ call' = [call EXCEPT ![t] = NoCall]
    /\ UNCHANGED <<bound, late, host, meant, upsets>>

Confirmed(t) ==
    LET c == call[t] IN
    /\ c.stage = "receipt" /\ c.command.type = "send"
    /\ outbox' = clearPendingRemoteCommand(outbox, c.command.id)
    /\ pending' = IF c.fresh
                  THEN [pending EXCEPT ![t] = pendingRemoteCommand(outbox', c.from, t)]
                  ELSE pending
    /\ call' = [call EXCEPT ![t] = NoCall]
    /\ UNCHANGED <<bound, starting, late, host, history, upsets>>

\* Mutant: the first message goes to the session the pane shows.
FollowupToPane(t, next) ==
    [next EXCEPT !.session = IF bound[t] = None THEN call[t].command.id ELSE bound[t]]
\* The first message goes to the session its create command made.
Followup(t, next) == [next EXCEPT !.session = call[t].command.id]

\* A create is confirmed: its first message becomes an entry of its own ...
SaveFollowup(t) ==
    LET next == pendingRemoteFollowup(outbox, call[t].command.id) IN
    /\ call[t].stage = "receipt" /\ call[t].command.type = "create"
    /\ outbox' = IF next = NoCommand THEN outbox
                 ELSE savePendingRemoteCommand(outbox, Followup(t, next), t, NoCommand)
    /\ call' = [call EXCEPT ![t].stage = "saved"]
    /\ UNCHANGED <<bound, pending, starting, late, host, history, upsets>>

\* ... then the pane opens the session, the create's entry goes, and the
\* message is sent: the one the pane holds, or after a restart whatever is
\* stored for the session.  The panes look up what is unconfirmed again.
ToSend(c, box) ==
    LET found == {e.command : e \in {f \in box : f.command.type = "send"
                                                  /\ f.command.session = c.command.id}}
    IN  IF c.turn # NotStarting THEN {Send(c.command.id, c.turn.text, c.turn.id)}
        ELSE IF found = {} THEN {NoCommand} ELSE found

Opened(t) ==
    LET c == call[t]
        box == clearPendingRemoteCommand(outbox, c.command.id)
    IN  /\ c.stage = "saved"
        /\ IF c.fresh
           THEN \E next \in ToSend(c, box) :
                /\ bound' = [bound EXCEPT ![t] = c.command.id]
                /\ IF next = NoCommand
                   THEN outbox' = box /\ call' = [call EXCEPT ![t] = NoCall]
                   ELSE /\ outbox' = savePendingRemoteCommand(box, next, t, NoCommand)
                        /\ call' = [call EXCEPT ![t] =
                              [@ EXCEPT !.command = next, !.stage = "sent"]]
                /\ pending' = [u \in Tab |->
                      IF u = t THEN next ELSE pendingRemoteCommand(outbox', bound[u], u)]
           ELSE /\ outbox' = box /\ call' = [call EXCEPT ![t] = NoCall]
                /\ UNCHANGED <<bound, pending>>
        /\ UNCHANGED <<starting, late, host, history, upsets>>

-----------------------------------------------------------------------------
(* The pane and the program *)

\* Mutant: what is unconfirmed is not looked up for the new session.
RebindStale(t, s) ==
    /\ Upset /\ s # bound[t] /\ s \in sessions \cup {None}
    /\ \A e \in outbox : e.shell = t => e.command.id # s
    /\ bound' = [bound EXCEPT ![t] = s]
    /\ pending' = [pending EXCEPT ![t] = NoCommand]
    /\ starting' = [starting EXCEPT ![t] = NotStarting]
    /\ call' = [call EXCEPT ![t].fresh = FALSE]
    /\ UNCHANGED <<outbox, late, host, history>>

\* The user opens another session in the pane, or a new one.  A running
\* operation finds the binding changed.  (The session of a create that is not
\* confirmed opens in a pane of its own: onSelectRemoteSession.)
Rebind(t, s) ==
    /\ Upset /\ s # bound[t] /\ s \in sessions \cup {None}
    /\ \A e \in outbox : e.shell = t => e.command.id # s
    /\ bound' = [bound EXCEPT ![t] = s]
    /\ pending' = [u \in Tab |-> pendingRemoteCommand(outbox, bound'[u], u)]
    /\ starting' = [starting EXCEPT ![t] = NotStarting]
    /\ call' = [call EXCEPT ![t].fresh = FALSE]
    /\ UNCHANGED <<outbox, late, host, history>>

\* A sync shows the host's copy of the message.
Poll(t) ==
    /\ starting[t].text # None /\ ~starting[t].failed
    /\ \E p \in turns : p.id = starting[t].id /\ p.session = bound[t]
    /\ starting' = [starting EXCEPT ![t] = NotStarting]
    /\ UNCHANGED <<outbox, bound, pending, call, late, host, history, upsets>>

\* The program ends and starts again, or its window is reloaded.
Reload ==
    /\ Upset
    /\ late' = late \cup {call[t].command : t \in {u \in Tab : call[u].stage = "sent"}}
    /\ call' = [t \in Tab |-> NoCall]
    /\ starting' = [t \in Tab |-> NotStarting]
    /\ pending' = [t \in Tab |-> pendingRemoteCommand(outbox, bound[t], t)]
    /\ UNCHANGED <<outbox, bound, host, history>>

\* SaveFollowup and Opened are one stretch of code: only the end of the
\* program comes between them.
Next ==
    \/ Reload
    \/ \E t \in Tab : Opened(t)
    \/ /\ \A t \in Tab : call[t].stage # "saved"
       /\ \/ \E t \in Tab :
                \/ \E m \in Text : submit(t, m)
                \/ tryAgain(t) \/ retryPending(t)
                \/ Handle(t) \/ TimesOut(t) \/ Rejected(t)
                \/ Confirmed(t) \/ SaveFollowup(t) \/ Poll(t)
                \/ \E s \in Session \cup {None} : Rebind(t, s)
          \/ \E command \in late : HandleLate(command)
Spec == Init /\ [][Next]_vars

-----------------------------------------------------------------------------
(* Properties *)

\* A message the user sent once starts at most one turn on the host, whatever
\* is lost, late, rejected, retried in another pane or after a restart (run:
\* "retried explicitly instead of silently sending a new prompt").
PromptRunsOnce ==
    \A p, q \in turns : p.text = q.text => p = q

\* A message runs only in a session it was written for, also when the pane
\* shows another one by the time its create command is answered.
RunsWhereMeant ==
    \A p \in turns : p.session \in meant[p.text]

\* A message that was sent is known to the host, was turned down, or is in
\* local storage, alone or with its create command: no crash, timeout or
\* change of panes drops one whose fate is unknown.
KeptUntilKnown ==
    \A m \in Text : meant[m] # {} =>
        \/ m \in rejected
        \/ \E p \in turns : p.text = m
        \/ \E e \in outbox : m \in {e.command.text, e.followup.text}

\* A pane that rests on a session offers to retry what it sent there and the
\* host has not confirmed, and takes no new message before that.  A message may
\* hide behind a later one for its session: "Retry" of a create may send that
\* one, and looks for what is left among the creates.
OfferedForRetry ==
    \A e \in outbox :
        Idle(e.shell) /\ bound[e.shell] = e.command.session =>
            \/ pending[e.shell] # NoCommand
            \/ \E m \in Text : m > e.command.text /\ e.command.session \in meant[m]
=============================================================================

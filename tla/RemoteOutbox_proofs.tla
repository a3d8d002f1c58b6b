-------------------------- MODULE RemoteOutbox_proofs --------------------------
(***************************************************************************)
(* Theorems about RemoteOutbox: type correctness, that a message the user  *)
(* sent once starts at most one turn, that it runs where it was meant,     *)
(* that it stays stored or shown until its turn is accepted, and that a    *)
(* pane offers to retry what is unconfirmed.                               *)
(***************************************************************************)
EXTENDS RemoteOutbox, TLAPS

-----------------------------------------------------------------------------
(* The inductive type invariant *)

Commands == CommandType \cup {NoCommand}
Entry == {e \in [command : CommandType, shell : Tab, followup : Commands] :
             e.followup # NoCommand => e.followup.type = "send"}
OutboxOK(box) ==
    /\ box \subseteq Entry
    /\ \A e, f \in box : e.command.id = f.command.id => e = f

\* A message shown as failed is one that can be sent.
Message == {s \in [text : Text \cup {None}, id : Id \cup {None}, failed : BOOLEAN] :
               s.failed => s.text \in Text /\ s.id \in Id}
TurnOfCall == [text : Text, id : Id, failed : {FALSE}] \cup {NotStarting}
\* A call in progress has a command; only a create saves a followup.
Call == {c \in [command : Commands, from : Session \cup {None}, turn : TurnOfCall,
                fresh : BOOLEAN,
                stage : {"none", "sent", "receipt", "rejected", "saved"}] :
            /\ c.stage = "saved" => c.command.type = "create"
            /\ c.stage # "none" => c.command # NoCommand}

TypeInv ==
    /\ OutboxOK(outbox)
    /\ bound \in [Tab -> Session \cup {None}]
    /\ pending \in [Tab -> Commands]
    /\ starting \in [Tab -> Message]
    /\ call \in [Tab -> Call]
    /\ late \subseteq CommandType
    /\ sessions \subseteq Session
    /\ turns \subseteq {p \in CommandType : p.type = "send"}
    /\ \A p \in turns : p.session \in sessions
    /\ rejected \subseteq Text /\ meant \in [Text -> SUBSET Session]
    /\ upsets \in 0..MaxUpsets

-----------------------------------------------------------------------------
(* Commands and entries *)

\* A command is a create with its identifier, or a send with its message.
LEMMA CommandShape ==
    ASSUME NEW c \in CommandType
    PROVE  /\ c # NoCommand
           /\ \/ /\ c.type = "create" /\ c.id \in Create /\ c.text = None /\ c.session = None
              \/ /\ c.type = "send" /\ c.id \in Id /\ c.text \in Text
                 /\ c.session \in Session \cup {None}
                 /\ c = Send(c.session, c.text, c.id)
BY DEF CommandType, CreateCommand, Send, NoCommand

LEMMA SendShape ==
    ASSUME NEW s \in Session \cup {None}, NEW m \in Text, NEW i \in Id
    PROVE  /\ Send(s, m, i) \in CommandType /\ Send(s, m, i).type = "send"
           /\ Send(s, m, i).text = m /\ Send(s, m, i).id = i /\ Send(s, m, i).session = s
BY DEF CommandType, Send

LEMMA CreateShape ==
    ASSUME NEW c \in Create
    PROVE  /\ CreateCommand(c) \in CommandType /\ CreateCommand(c).type = "create"
           /\ CreateCommand(c).text = None /\ CreateCommand(c).id = c
BY DEF CommandType, CreateCommand

\* A first message given its session stays the message it was.
LEMMA Addressed ==
    ASSUME NEW c \in CommandType, c.type = "send", NEW s \in Session
    PROVE  /\ [c EXCEPT !.session = s] \in CommandType
           /\ [c EXCEPT !.session = s].type = "send"
           /\ [c EXCEPT !.session = s].text = c.text
           /\ [c EXCEPT !.session = s].session = s
           /\ [c EXCEPT !.session = s].id = c.id
<1>1. c = Send(c.session, c.text, c.id) /\ c.id \in Id /\ c.text \in Text
  BY CommandShape DEF CreateCommand, NoCommand
<1>2. [c EXCEPT !.session = s] = Send(s, c.text, c.id)
  BY <1>1 DEF Send
<1> QED BY <1>1, <1>2, SendShape

\* What local storage holds under an identifier is an entry's followup.
LEMMA FollowupFound ==
    ASSUME NEW box, OutboxOK(box), NEW id
    PROVE  /\ \/ pendingRemoteFollowup(box, id) = NoCommand
              \/ \E e \in box : pendingRemoteFollowup(box, id) = e.followup
           /\ pendingRemoteFollowup(box, id) \in Commands
           /\ pendingRemoteFollowup(box, id) # NoCommand
                 => pendingRemoteFollowup(box, id).type = "send"
BY DEF OutboxOK, Entry, Commands, pendingRemoteFollowup

\* What a pane finds is an entry's command.
LEMMA PendingFound ==
    ASSUME NEW box, OutboxOK(box), NEW s, NEW t
    PROVE  /\ \/ pendingRemoteCommand(box, s, t) = NoCommand
              \/ \E e \in box : pendingRemoteCommand(box, s, t) = e.command
           /\ pendingRemoteCommand(box, s, t) \in Commands
BY DEF OutboxOK, Entry, Commands, pendingRemoteCommand

LEMMA SavedEntries ==
    ASSUME NEW box, OutboxOK(box), NEW c \in CommandType, NEW t \in Tab,
           NEW f \in Commands, f # NoCommand => f.type = "send"
    PROVE  /\ OutboxOK(savePendingRemoteCommand(box, c, t, f))
           /\ \A e \in savePendingRemoteCommand(box, c, t, f) :
                 /\ e.command = c \/ \E o \in box : e.command = o.command
                 /\ \/ e.followup \in {f, NoCommand}
                    \/ \E o \in box : e.followup = o.followup
<1> DEFINE g == IF f # NoCommand THEN f ELSE pendingRemoteFollowup(box, c.id)
           new == [command |-> c, shell |-> t, followup |-> g]
<1>1. /\ g \in Commands /\ (g # NoCommand => g.type = "send")
      /\ g \in {f, NoCommand} \/ \E o \in box : g = o.followup
  BY FollowupFound
<1>2. new \in Entry /\ new.command = c /\ new.followup = g
  BY <1>1 DEF Entry
<1>3. savePendingRemoteCommand(box, c, t, f) = {e \in box : e.command.id # c.id} \cup {new}
  BY DEF savePendingRemoteCommand
<1> HIDE DEF new, g
<1> QED BY <1>1, <1>2, <1>3 DEF OutboxOK

LEMMA ClearedEntries ==
    ASSUME NEW box, OutboxOK(box), NEW id
    PROVE  /\ OutboxOK(clearPendingRemoteCommand(box, id))
           /\ clearPendingRemoteCommand(box, id) \subseteq box
BY DEF OutboxOK, clearPendingRemoteCommand

-----------------------------------------------------------------------------
(* The parts of a step *)

\* One pane's part of a function changes.
LEMMA Updated ==
    ASSUME NEW R, NEW f \in [Tab -> R], NEW t \in Tab, NEW v \in R
    PROVE  /\ [f EXCEPT ![t] = v] \in [Tab -> R]
           /\ [f EXCEPT ![t] = v][t] = v
           /\ \A u \in Tab : u # t => [f EXCEPT ![t] = v][u] = f[u]
OBVIOUS

LEMMA Nothing ==
    /\ NoCommand \in Commands /\ NotStarting \in Message /\ NotStarting \in TurnOfCall
    /\ NoCall \in Call /\ NoCall.command = NoCommand /\ NoCall.turn = NotStarting
    /\ NoCommand.text = None /\ NotStarting.text = None
BY DEF Commands, Message, TurnOfCall, Call, NoCall, NoCommand, NotStarting, None

LEMMA ShownMessage ==
    ASSUME NEW m \in Text, NEW i \in Id
    PROVE  /\ Shown(m, i) \in Message /\ Shown(m, i) \in TurnOfCall
           /\ Shown(m, i).text = m /\ Shown(m, i).id = i
BY DEF Shown, Message, TurnOfCall

\* A request is saved and sent.
LEMMA Dispatched ==
    ASSUME TypeInv, NEW t \in Tab, NEW c \in CommandType,
           NEW s \in Session \cup {None}, NEW turn \in TurnOfCall,
           NEW f \in Commands, f # NoCommand => f.type = "send",
           Dispatch(t, c, s, turn, f)
    PROVE  /\ OutboxOK(outbox') /\ pending' \in [Tab -> Commands] /\ call' \in [Tab -> Call]
           /\ \A e \in outbox' :
                 /\ e.command = c \/ \E o \in outbox : e.command = o.command
                 /\ \/ e.followup \in {f, NoCommand}
                    \/ \E o \in outbox : e.followup = o.followup
           /\ pending'[t] = c /\ call'[t].command = c /\ call'[t].turn = turn /\ call'[t].fresh
           /\ \A u \in Tab : u # t => pending'[u] = pending[u] /\ call'[u] = call[u]
<1> DEFINE new == [command |-> c, from |-> s, turn |-> turn, fresh |-> TRUE, stage |-> "sent"]
<1>1. new \in Call /\ new.command = c /\ new.turn = turn /\ new.fresh
  BY CommandShape DEF Call, Commands
<1>2. c \in Commands
  BY DEF Commands
<1> HIDE DEF new
<1>3. pending' = [pending EXCEPT ![t] = c] /\ call' = [call EXCEPT ![t] = new]
  BY DEF Dispatch, new
<1>4. /\ pending' \in [Tab -> Commands] /\ pending'[t] = c
      /\ \A u \in Tab : u # t => pending'[u] = pending[u]
  BY <1>2, <1>3, Updated DEF TypeInv
<1>5. /\ call' \in [Tab -> Call] /\ call'[t] = new
      /\ \A u \in Tab : u # t => call'[u] = call[u]
  BY <1>1, <1>3, Updated DEF TypeInv
<1>6. outbox' = savePendingRemoteCommand(outbox, c, t, f) /\ OutboxOK(outbox)
  BY DEF Dispatch, TypeInv
<1> QED BY <1>1, <1>4, <1>5, <1>6, SavedEntries

\* A request goes on to its next stage.
LEMMA Advanced ==
    ASSUME TypeInv, NEW t \in Tab, call[t].stage # "none",
           NEW st \in {"receipt", "rejected", "saved"},
           st = "saved" => call[t].command.type = "create",
           call' = [call EXCEPT ![t].stage = st]
    PROVE  /\ call' \in [Tab -> Call]
           /\ \A u \in Tab : /\ call'[u].command = call[u].command
                             /\ call'[u].turn = call[u].turn /\ call'[u].fresh = call[u].fresh
<1>1. call \in [Tab -> Call] /\ call[t] \in Call
  BY DEF TypeInv
<1>2. /\ [call[t] EXCEPT !.stage = st] \in Call
      /\ [call[t] EXCEPT !.stage = st].command = call[t].command
      /\ [call[t] EXCEPT !.stage = st].turn = call[t].turn
      /\ [call[t] EXCEPT !.stage = st].fresh = call[t].fresh
  BY <1>1 DEF Call
<1>3. call' = [call EXCEPT ![t] = [call[t] EXCEPT !.stage = st]]
  BY <1>1
<1> QED BY <1>1, <1>2, <1>3, Updated

\* A call without a request has nothing to send; one with a request has it.
LEMMA CallParts ==
    ASSUME TypeInv, NEW t \in Tab
    PROVE  /\ call[t].command \in Commands /\ call[t].turn \in TurnOfCall
           /\ call[t].from \in Session \cup {None} /\ call[t].fresh \in BOOLEAN
           /\ call[t].stage # "none" => call[t].command \in CommandType
           /\ call[t].stage = "saved" => call[t].command.type = "create"
BY DEF TypeInv, Call, Commands

\* The message of an operation the pane still shows.
OwnTurn(c) == IF c.fresh THEN c.turn ELSE NotStarting

\* A message shown as not sent is the message of the call.
LEMMA Failed ==
    ASSUME TypeInv, NEW t \in Tab, ShowFailed(t)
    PROVE  /\ starting' \in [Tab -> Message]
           /\ \A u \in Tab : u # t => starting'[u] = starting[u]
           /\ \/ starting'[t] = starting[t]
              \/ starting'[t].text = OwnTurn(call[t]).text /\ starting'[t].id = OwnTurn(call[t]).id
<1>1. CASE call[t].turn = NotStarting \/ ~call[t].fresh
  BY <1>1 DEF ShowFailed, TypeInv
<1>2. CASE call[t].turn # NotStarting /\ call[t].fresh
  <2> DEFINE new == [call[t].turn EXCEPT !.failed = TRUE]
  <2>1. call[t].turn \in [text : Text, id : Id, failed : {FALSE}]
    BY <1>2, CallParts DEF TurnOfCall
  <2>2. new \in Message /\ new.text = OwnTurn(call[t]).text /\ new.id = OwnTurn(call[t]).id
    BY <1>2, <2>1 DEF Message, OwnTurn
  <2>3. starting' = [starting EXCEPT ![t] = new]
    BY <1>2 DEF ShowFailed
  <2> HIDE DEF new
  <2> QED BY <2>2, <2>3, Updated DEF TypeInv
<1> QED BY <1>1, <1>2

\* A failed message is sent again: the pane shows it as before.
LEMMA ShownAgain ==
    ASSUME TypeInv, NEW t \in Tab, starting' = [starting EXCEPT ![t].failed = FALSE]
    PROVE  /\ starting' \in [Tab -> Message]
           /\ \A u \in Tab : /\ starting'[u].text = starting[u].text
                             /\ starting'[u].id = starting[u].id
<1>1. starting \in [Tab -> Message] /\ starting[t] \in Message
  BY DEF TypeInv
<1>2. /\ [starting[t] EXCEPT !.failed = FALSE] \in Message
      /\ [starting[t] EXCEPT !.failed = FALSE].text = starting[t].text
      /\ [starting[t] EXCEPT !.failed = FALSE].id = starting[t].id
  BY <1>1 DEF Message
<1>3. starting' = [starting EXCEPT ![t] = [starting[t] EXCEPT !.failed = FALSE]]
  BY <1>1
<1> QED BY <1>1, <1>2, <1>3, Updated

-----------------------------------------------------------------------------
(* One identifier for a message *)

\* Whatever names a message: what is stored, shown, called, travelling, accepted.
Stored(box) == UNION {{e.command, e.followup} : e \in box}
Panes(p, c, s) == UNION {{p[t], c[t].command, OwnTurn(c[t]), s[t]} : t \in Tab}
Naming(l, r, box, p, c, s) == l \cup r \cup Stored(box) \cup Panes(p, c, s)
Known == Naming(late, turns, outbox, pending, call, starting)

OneIdentifier(K) ==
    \A x, y \in K :
        x.text # None /\ y.text # None => (x.text = y.text <=> x.id = y.id)
\* x names no message, or one that K names under the same identifier.
Seen(x, K) == x.text = None \/ \E y \in K : x.text = y.text /\ x.id = y.id

Written == \A x \in Known : x.text # None => x.text \in Text /\ meant[x.text] # {}
OneTurn == \A p, q \in turns : p.id = q.id => p = q

\* A message just sent is shown by its pane, or by the host's copy.
ShownTurn ==
    \A t \in Tab : OwnTurn(call[t]) # NotStarting =>
        \/ starting[t].id = call[t].turn.id
        \/ \E p \in turns : p.id = call[t].turn.id

NamesInv == TypeInv /\ OneIdentifier(Known) /\ Written /\ OneTurn
OutboxInv == NamesInv /\ ShownTurn

LEMMA SeenIn == ASSUME NEW K, NEW x \in K PROVE Seen(x, K)
BY DEF Seen

LEMMA StoredIn ==
    ASSUME NEW e \in outbox PROVE e.command \in Known /\ e.followup \in Known
BY DEF Known, Naming, Stored

LEMMA PaneIn ==
    ASSUME NEW t \in Tab
    PROVE  /\ pending[t] \in Known /\ call[t].command \in Known
           /\ OwnTurn(call[t]) \in Known /\ starting[t] \in Known
BY DEF Known, Naming, Panes

LEMMA SentIn == late \subseteq Known /\ turns \subseteq Known
BY DEF Known, Naming

\* All that names a message is seen when each part of the state is.
LEMMA AllParts ==
    ASSUME NEW K, NEW l, NEW r, NEW box, NEW p, NEW c, NEW s,
           \A x \in l : Seen(x, K), \A x \in r : Seen(x, K),
           \A e \in box : Seen(e.command, K) /\ Seen(e.followup, K),
           \A t \in Tab : /\ Seen(p[t], K) /\ Seen(s[t], K)
                          /\ Seen(c[t].command, K) /\ Seen(OwnTurn(c[t]), K)
    PROVE  \A x \in Naming(l, r, box, p, c, s) : Seen(x, K)
BY DEF Naming, Stored, Panes

\* What only repeats messages keeps their identifiers.
LEMMA Repeated ==
    ASSUME NEW K, NEW L, OneIdentifier(K), \A x \in L : Seen(x, K)
    PROVE  OneIdentifier(L)
BY DEF OneIdentifier, Seen

\* So does a message with an identifier for the first time.
LEMMA NewMessage ==
    ASSUME NEW K, NEW L, OneIdentifier(K), NEW m, NEW i,
           \A x \in K : x.text # None => x.text # m /\ x.id # i,
           \A x \in L : Seen(x, K) \/ (x.text = m /\ x.id = i)
    PROVE  OneIdentifier(L)
BY DEF OneIdentifier, Seen

\* A step that only repeats messages.
LEMMA Quiet ==
    ASSUME OneIdentifier(Known), Written,
           \A x \in late' : Seen(x, Known), \A x \in turns' : Seen(x, Known),
           \A e \in outbox' : Seen(e.command, Known) /\ Seen(e.followup, Known),
           \A t \in Tab : /\ Seen(pending'[t], Known) /\ Seen(starting'[t], Known)
                          /\ Seen(call'[t].command, Known) /\ Seen(OwnTurn(call'[t]), Known),
           \A m \in Text : meant[m] # {} => meant'[m] # {}
    PROVE  OneIdentifier(Known)' /\ Written'
<1>1. \A x \in Known' : Seen(x, Known)
  BY AllParts DEF Known
<1>2. OneIdentifier(Known)'
  <2>1. OneIdentifier(Known')
    BY <1>1, Repeated
  <2> QED BY <2>1 DEF OneIdentifier
<1>3. Written'
  BY <1>1 DEF Written, Seen
<1> QED BY <1>2, <1>3

\* What is in place before a step is seen.
LEMMA Before ==
    /\ \A x \in late : Seen(x, Known)
    /\ \A x \in turns : Seen(x, Known)
    /\ \A e \in outbox : Seen(e.command, Known) /\ Seen(e.followup, Known)
    /\ \A t \in Tab : /\ Seen(pending[t], Known) /\ Seen(starting[t], Known)
                      /\ Seen(call[t].command, Known) /\ Seen(OwnTurn(call[t]), Known)
    /\ Seen(NoCommand, Known) /\ Seen(NotStarting, Known)
    /\ Seen(NoCall.command, Known) /\ Seen(OwnTurn(NoCall), Known)
BY SeenIn, SentIn, StoredIn, PaneIn, Nothing DEF Seen, OwnTurn

-----------------------------------------------------------------------------
(* The steps *)

LEMMA InitInv == ASSUME Init PROVE OutboxInv
<1>1. TypeInv
  BY Nothing, BoundAssumption DEF Init, TypeInv, OutboxOK
<1>2. \A x \in Known : x.text = None
  BY Nothing DEF Init, Known, Naming, Stored, Panes, OwnTurn
<1>3. ShownTurn
  BY Nothing DEF Init, ShownTurn, OwnTurn
<1> QED BY <1>1, <1>2, <1>3 DEF Init, OutboxInv, NamesInv, OneIdentifier, Written, OneTurn

\* The host handles a command: it is the only one to accept a message, and
\* not a second one under the same identifier.
LEMMA HandledStep ==
    ASSUME OutboxInv, NEW c \in CommandType, c \in Known, NEW result, Handled(c, result)
    PROVE  /\ sessions' \subseteq Session
           /\ turns' \subseteq {p \in CommandType : p.type = "send"}
           /\ \A p \in turns' : p.session \in sessions'
           /\ upsets' \in 0..MaxUpsets
           /\ \A x \in turns' : Seen(x, Known)
           /\ OneTurn'
<1> USE DEF OutboxInv, NamesInv, TypeInv, OneTurn
<1>1. CASE /\ c.type = "create" /\ sessions' = sessions \cup {c.id}
           /\ UNCHANGED <<turns, upsets>>
  BY <1>1, CommandShape, Before DEF Session
<1>2. CASE UNCHANGED host /\ (UNCHANGED upsets \/ Upset)
  <2>1. upsets' \in 0..MaxUpsets
    BY <1>2, BoundAssumption DEF Upset
  <2> QED BY <1>2, <2>1, Before DEF host
<1>3. CASE /\ c.type = "send" /\ {p \in turns : p.id = c.id} = {}
           /\ c.session \in sessions /\ turns' = turns \cup {c}
           /\ UNCHANGED <<sessions, upsets>>
  BY <1>3, Before, SeenIn
<1> QED BY <1>1, <1>2, <1>3 DEF Handled

LEMMA HandleStep == ASSUME OutboxInv, NEW t \in Tab, Handle(t) PROVE NamesInv'
<1>1. PICK result \in {"receipt", "rejected"} :
        Handled(call[t].command, result) /\ call' = [call EXCEPT ![t].stage = result]
  BY DEF Handle
<1>2. /\ call[t].stage = "sent" /\ UNCHANGED <<outbox, bound, pending, starting, late, rejected, meant>>
      /\ TypeInv
  BY DEF Handle, history, OutboxInv, NamesInv
<1>3. call[t].command \in CommandType /\ call[t].command \in Known
  BY <1>2, CallParts, PaneIn
<1>4. /\ call' \in [Tab -> Call]
      /\ \A u \in Tab : call'[u].command = call[u].command /\ OwnTurn(call'[u]) = OwnTurn(call[u])
  BY <1>1, <1>2, Advanced DEF OwnTurn
<1>5. /\ sessions' \subseteq Session
      /\ turns' \subseteq {p \in CommandType : p.type = "send"}
      /\ \A p \in turns' : p.session \in sessions'
      /\ upsets' \in 0..MaxUpsets
      /\ \A x \in turns' : Seen(x, Known)
      /\ OneTurn'
  BY <1>1, <1>3, HandledStep
<1>6. TypeInv'
  BY <1>2, <1>4, <1>5 DEF TypeInv, OutboxOK
<1>7. OneIdentifier(Known)' /\ Written'
  BY <1>2, <1>4, <1>5, Before, Quiet DEF OutboxInv, NamesInv
<1> QED BY <1>5, <1>6, <1>7 DEF OutboxInv, NamesInv

LEMMA HandleLateStep ==
    ASSUME OutboxInv, NEW c \in late, HandleLate(c) PROVE NamesInv'
<1>1. /\ late' \subseteq late /\ Handled(c, "receipt") /\ TypeInv
      /\ UNCHANGED <<outbox, bound, pending, starting, call, rejected, meant>>
  BY DEF HandleLate, desktop, history, OutboxInv, NamesInv
<1>2. c \in CommandType /\ c \in Known
  BY <1>1, SentIn DEF TypeInv
<1>3. /\ sessions' \subseteq Session
      /\ turns' \subseteq {p \in CommandType : p.type = "send"}
      /\ \A p \in turns' : p.session \in sessions'
      /\ upsets' \in 0..MaxUpsets
      /\ \A x \in turns' : Seen(x, Known)
      /\ OneTurn'
  BY <1>1, <1>2, HandledStep
<1>4. TypeInv'
  BY <1>1, <1>3 DEF TypeInv, OutboxOK
<1>5. OneIdentifier(Known)' /\ Written'
  BY <1>1, <1>3, Before, Quiet DEF OutboxInv, NamesInv
<1> QED BY <1>3, <1>4, <1>5 DEF OutboxInv, NamesInv

\* What a step that leaves the host alone must show.
LEMMA Desktop ==
    ASSUME OutboxInv, UNCHANGED host, late' \subseteq CommandType,
           OutboxOK(outbox'), bound' \in [Tab -> Session \cup {None}],
           pending' \in [Tab -> Commands], starting' \in [Tab -> Message],
           call' \in [Tab -> Call], rejected' \subseteq Text,
           meant' \in [Text -> SUBSET Session], upsets' \in 0..MaxUpsets
    PROVE  TypeInv' /\ OneTurn'
<1>1. TypeInv'
  BY DEF OutboxInv, NamesInv, TypeInv, host, OutboxOK
<1> QED BY <1>1 DEF OutboxInv, NamesInv, OneTurn, host

LEMMA UpsetBound == ASSUME TypeInv, Upset \/ UNCHANGED upsets PROVE upsets' \in 0..MaxUpsets
BY BoundAssumption DEF Upset, TypeInv

LEMMA TimesOutStep == ASSUME OutboxInv, NEW t \in Tab, TimesOut(t) PROVE NamesInv'
<1>1. /\ TypeInv /\ Upset /\ ShowFailed(t) /\ UNCHANGED host
      /\ UNCHANGED <<outbox, bound, pending, rejected, meant>>
      /\ call' = [call EXCEPT ![t] = NoCall] /\ call[t].stage # "none"
      /\ late' = late \/ late' = late \cup {call[t].command}
  BY DEF TimesOut, history, host, OutboxInv, NamesInv
<1>2. /\ call' \in [Tab -> Call] /\ call'[t] = NoCall
      /\ \A u \in Tab : u # t => call'[u] = call[u]
  BY <1>1, Nothing, Updated DEF TypeInv
<1>3. /\ starting' \in [Tab -> Message]
      /\ \A u \in Tab : u # t => starting'[u] = starting[u]
      /\ \/ starting'[t] = starting[t]
         \/ starting'[t].text = OwnTurn(call[t]).text /\ starting'[t].id = OwnTurn(call[t]).id
  BY <1>1, Failed
<1>4. late' \subseteq CommandType /\ \A x \in late' : Seen(x, Known)
  BY <1>1, CallParts, Before DEF TypeInv
<1>5. \A u \in Tab : Seen(starting'[u], Known)
  BY <1>3, Before, PaneIn DEF Seen
<1>6. TypeInv' /\ OneTurn'
  BY <1>1, <1>2, <1>3, <1>4, UpsetBound, Desktop DEF TypeInv
<1>7. OneIdentifier(Known)' /\ Written'
  BY <1>1, <1>2, <1>4, <1>5, Before, Quiet DEF OutboxInv, NamesInv, host
<1> QED BY <1>6, <1>7 DEF OutboxInv, NamesInv

\* What a pane finds in local storage is stored.
LEMMA FoundSeen ==
    ASSUME TypeInv, NEW box, OutboxOK(box), NEW K,
           \A e \in box : Seen(e.command, K), NEW s, NEW t
    PROVE  pendingRemoteCommand(box, s, t) \in Commands
           /\ Seen(pendingRemoteCommand(box, s, t), K)
BY PendingFound, Nothing DEF Seen

LEMMA RejectedStep == ASSUME OutboxInv, NEW t \in Tab, Rejected(t) PROVE NamesInv'
<1> DEFINE c == call[t]
           f == pendingRemoteFollowup(outbox, c.command.id)
<1>1. /\ TypeInv /\ ShowFailed(t) /\ UNCHANGED <<bound, late, host, meant, upsets>>
      /\ call' = [call EXCEPT ![t] = NoCall] /\ c.stage # "none"
  BY DEF Rejected, OutboxInv, NamesInv
<1>2. /\ call' \in [Tab -> Call] /\ call'[t] = NoCall
      /\ \A u \in Tab : u # t => call'[u] = call[u]
  BY <1>1, Nothing, Updated DEF TypeInv
<1>3. /\ starting' \in [Tab -> Message]
      /\ \A u \in Tab : u # t => starting'[u] = starting[u]
      /\ \/ starting'[t] = starting[t]
         \/ starting'[t].text = OwnTurn(call[t]).text /\ starting'[t].id = OwnTurn(call[t]).id
  BY <1>1, Failed
<1>4. \A u \in Tab : Seen(starting'[u], Known)
  BY <1>3, Before, PaneIn DEF Seen
<1>5. /\ OutboxOK(outbox') /\ outbox' \subseteq outbox
      /\ rejected' \subseteq Text
      /\ pending' \in [Tab -> Commands]
      /\ \A u \in Tab : Seen(pending'[u], Known)
  <2>1. CASE c.fresh
    <3>1. /\ outbox' = clearPendingRemoteCommand(outbox, c.command.id)
          /\ pending' = [pending EXCEPT ![t] = pendingRemoteCommand(outbox', c.from, t)]
          /\ rejected' = rejected \cup ({c.command.text, f.text} \ {None})
      BY <2>1 DEF Rejected
    <3>2. OutboxOK(outbox') /\ outbox' \subseteq outbox
      BY <1>1, <3>1, ClearedEntries DEF TypeInv
    <3>3. /\ pendingRemoteCommand(outbox', c.from, t) \in Commands
          /\ Seen(pendingRemoteCommand(outbox', c.from, t), Known)
      BY <1>1, <3>2, Before, FoundSeen
    <3>4. c.command \in CommandType /\ f \in Commands
      BY <1>1, CallParts, FollowupFound DEF TypeInv
    <3>5. c.command.text \in Text \cup {None} /\ f.text \in Text \cup {None}
      BY <3>4, CommandShape, Nothing DEF Commands
    <3>6. rejected' \subseteq Text
      BY <1>1, <3>1, <3>5 DEF TypeInv
    <3>7. /\ pending' \in [Tab -> Commands]
          /\ \A u \in Tab : Seen(pending'[u], Known)
      <4>1. pending \in [Tab -> Commands]
        BY <1>1 DEF TypeInv
      <4> QED BY <3>1, <3>3, <4>1, Before, Updated
    <3> QED BY <3>2, <3>6, <3>7
  <2>2. CASE ~c.fresh
    BY <1>1, <2>2, Before DEF Rejected, TypeInv
  <2> QED BY <2>1, <2>2
<1>6. TypeInv' /\ OneTurn'
  BY <1>1, <1>2, <1>3, <1>5, UpsetBound, Desktop DEF TypeInv
<1>7. OneIdentifier(Known)' /\ Written'
  BY <1>1, <1>2, <1>4, <1>5, Before, Quiet DEF OutboxInv, NamesInv, host
<1> QED BY <1>6, <1>7 DEF OutboxInv, NamesInv

LEMMA ConfirmedStep == ASSUME OutboxInv, NEW t \in Tab, Confirmed(t) PROVE NamesInv'
<1> DEFINE c == call[t]
<1>1. /\ TypeInv /\ UNCHANGED <<bound, starting, late, host, rejected, meant, upsets>>
      /\ call' = [call EXCEPT ![t] = NoCall]
      /\ outbox' = clearPendingRemoteCommand(outbox, c.command.id)
      /\ \/ pending' = [pending EXCEPT ![t] = pendingRemoteCommand(outbox', c.from, t)]
         \/ pending' = pending
  BY DEF Confirmed, OutboxInv, NamesInv, history
<1>2. /\ call' \in [Tab -> Call] /\ call'[t] = NoCall
      /\ \A u \in Tab : u # t => call'[u] = call[u]
  BY <1>1, Nothing, Updated DEF TypeInv
<1>3. OutboxOK(outbox') /\ outbox' \subseteq outbox
  BY <1>1, ClearedEntries DEF TypeInv
<1>4. /\ pendingRemoteCommand(outbox', c.from, t) \in Commands
      /\ Seen(pendingRemoteCommand(outbox', c.from, t), Known)
  BY <1>1, <1>3, Before, FoundSeen
<1>5. /\ pending' \in [Tab -> Commands]
      /\ \A u \in Tab : Seen(pending'[u], Known)
  <2>1. pending \in [Tab -> Commands]
    BY <1>1 DEF TypeInv
  <2> QED BY <1>1, <1>4, <2>1, Before, Updated
<1>6. TypeInv' /\ OneTurn'
  BY <1>1, <1>2, <1>3, <1>5, UpsetBound, Desktop DEF TypeInv
<1>7. OneIdentifier(Known)' /\ Written'
  BY <1>1, <1>2, <1>3, <1>5, Before, Quiet DEF OutboxInv, NamesInv, host
<1> QED BY <1>6, <1>7 DEF OutboxInv, NamesInv

\* What is saved is what was there, the command and its followup.
LEMMA SavedSeen ==
    ASSUME NEW box, OutboxOK(box), NEW c \in CommandType, NEW t \in Tab,
           NEW f \in Commands, f # NoCommand => f.type = "send",
           NEW K, Seen(c, K), Seen(f, K),
           \A e \in box : Seen(e.command, K) /\ Seen(e.followup, K)
    PROVE  /\ OutboxOK(savePendingRemoteCommand(box, c, t, f))
           /\ \A e \in savePendingRemoteCommand(box, c, t, f) :
                 Seen(e.command, K) /\ Seen(e.followup, K)
<1>1. Seen(NoCommand, K)
  BY Nothing DEF Seen
<1> QED BY <1>1, SavedEntries

LEMMA SaveFollowupStep == ASSUME OutboxInv, NEW t \in Tab, SaveFollowup(t) PROVE NamesInv'
<1> DEFINE next == pendingRemoteFollowup(outbox, call[t].command.id)
<1>1. /\ TypeInv /\ UNCHANGED <<bound, pending, starting, late, host, rejected, meant, upsets>>
      /\ call[t].stage # "none" /\ call[t].command.type = "create"
      /\ call' = [call EXCEPT ![t].stage = "saved"]
  BY DEF SaveFollowup, OutboxInv, NamesInv, history
<1>2. /\ call' \in [Tab -> Call]
      /\ \A u \in Tab : call'[u].command = call[u].command /\ OwnTurn(call'[u]) = OwnTurn(call[u])
  BY <1>1, Advanced DEF OwnTurn
<1>3. /\ OutboxOK(outbox')
      /\ \A e \in outbox' : Seen(e.command, Known) /\ Seen(e.followup, Known)
  <2>1. CASE next = NoCommand
    BY <1>1, <2>1, Before DEF SaveFollowup, TypeInv
  <2>2. CASE next # NoCommand
    <3>1. /\ next \in CommandType /\ next.type = "send"
          /\ \E e \in outbox : next = e.followup
      BY <1>1, <2>2, FollowupFound DEF TypeInv, Commands
    <3>2. call[t].command.id \in Session
      BY <1>1, CallParts, CommandShape DEF Session
    <3>3. /\ Followup(t, next) \in CommandType
          /\ Followup(t, next).text = next.text /\ Followup(t, next).id = next.id
      <4> HIDE DEF next
      <4> QED BY <3>1, <3>2, Addressed DEF Followup
    <3>4. Seen(Followup(t, next), Known)
      BY <3>1, <3>3, StoredIn DEF Seen
    <3>5. outbox' = savePendingRemoteCommand(outbox, Followup(t, next), t, NoCommand)
      BY <2>2 DEF SaveFollowup
    <3>6. OutboxOK(outbox) /\ NoCommand \in Commands /\ Seen(NoCommand, Known)
      BY <1>1, Before, Nothing DEF TypeInv
    <3> HIDE DEF next
    <3> QED BY <3>3, <3>4, <3>5, <3>6, SavedSeen, Before
  <2> QED BY <2>1, <2>2
<1>4. TypeInv' /\ OneTurn'
  BY <1>1, <1>2, <1>3, UpsetBound, Desktop DEF TypeInv
<1>5. OneIdentifier(Known)' /\ Written'
  BY <1>1, <1>2, <1>3, Before, Quiet DEF OutboxInv, NamesInv, host
<1> QED BY <1>4, <1>5 DEF OutboxInv, NamesInv

\* What is sent after a create command is the message the pane holds, or one
\* that is stored for the session.
LEMMA NextMessage ==
    ASSUME TypeInv, NEW t \in Tab, call[t].stage = "saved", call[t].fresh,
           NEW box, OutboxOK(box), box \subseteq outbox, NEW next \in ToSend(call[t], box)
    PROVE  /\ next \in Commands /\ Seen(next, Known)
           /\ next # NoCommand => next.type = "send" /\ next.session = call[t].command.id
<1>1. CASE call[t].turn # NotStarting
  <2>1. /\ call[t].turn.text \in Text /\ call[t].turn.id \in Id
        /\ call[t].command.id \in Session
    BY <1>1, CallParts, CommandShape DEF TurnOfCall, Session
  <2>2. call[t].command.id \in Session \cup {None}
    BY <2>1
  <2>3. next = Send(call[t].command.id, call[t].turn.text, call[t].turn.id)
    BY <1>1 DEF ToSend
  <2>4. /\ next \in CommandType /\ next.text = call[t].turn.text /\ next.id = call[t].turn.id
        /\ next.type = "send" /\ next.session = call[t].command.id
    BY <2>1, <2>2, <2>3, SendShape
  <2>5. call[t].turn \in Known
    BY PaneIn DEF OwnTurn
  <2> QED BY <2>4, <2>5 DEF Seen, Commands
<1>2. CASE call[t].turn = NotStarting
  <2>1. \/ next = NoCommand
        \/ \E e \in box : /\ next = e.command /\ e.command.type = "send"
                          /\ e.command.session = call[t].command.id
    BY <1>2 DEF ToSend
  <2> QED BY <2>1, Before, Nothing DEF OutboxOK, Entry, Commands
<1> QED BY <1>1, <1>2

LEMMA OpenedStep == ASSUME OutboxInv, NEW t \in Tab, Opened(t) PROVE NamesInv'
<1> DEFINE c == call[t]
           box == clearPendingRemoteCommand(outbox, c.command.id)
<1>1. /\ TypeInv /\ UNCHANGED <<starting, late, host, rejected, meant, upsets>>
      /\ c.stage = "saved"
  BY DEF Opened, OutboxInv, NamesInv, history
<1>2. OutboxOK(box) /\ box \subseteq outbox
  BY <1>1, ClearedEntries DEF TypeInv
<1>3. c.command.id \in Session
  BY <1>1, CallParts, CommandShape DEF Session
<1>5. call \in [Tab -> Call] /\ call[t] \in Call
  BY <1>1 DEF TypeInv
<1>6. CASE outbox' = box /\ call' = [call EXCEPT ![t] = NoCall] /\ UNCHANGED <<bound, pending>>
  <2>1. /\ call' \in [Tab -> Call] /\ call'[t] = NoCall
        /\ \A u \in Tab : u # t => call'[u] = call[u]
    BY <1>5, <1>6, Nothing, Updated
  <2>2. TypeInv' /\ OneTurn'
    BY <1>1, <1>2, <1>6, <2>1, UpsetBound, Desktop DEF TypeInv
  <2>3. OneIdentifier(Known)' /\ Written'
    BY <1>1, <1>2, <1>6, <2>1, Before, Quiet DEF OutboxInv, NamesInv, host
  <2> QED BY <2>2, <2>3 DEF OutboxInv, NamesInv
<1>7. ASSUME NEW next \in ToSend(c, box), c.fresh,
             bound' = [bound EXCEPT ![t] = c.command.id],
             IF next = NoCommand
             THEN outbox' = box /\ call' = [call EXCEPT ![t] = NoCall]
             ELSE /\ outbox' = savePendingRemoteCommand(box, next, t, NoCommand)
                  /\ call' = [call EXCEPT ![t] =
                        [@ EXCEPT !.command = next, !.stage = "sent"]],
             pending' = [u \in Tab |->
                 IF u = t THEN next ELSE pendingRemoteCommand(outbox', bound[u], u)]
      PROVE  NamesInv'
  <2> DEFINE new == [call[t] EXCEPT !.command = next, !.stage = "sent"]
  <2>0. next \in Commands /\ Seen(next, Known)
    BY <1>1, <1>2, <1>7, NextMessage
  <2>1. bound' \in [Tab -> Session \cup {None}]
    BY <1>1, <1>3, <1>7, Updated DEF TypeInv
  <2>2. /\ OutboxOK(outbox')
        /\ \A e \in outbox' : Seen(e.command, Known) /\ Seen(e.followup, Known)
        /\ call' \in [Tab -> Call]
        /\ \A u \in Tab : u # t => call'[u] = call[u]
        /\ Seen(call'[t].command, Known) /\ Seen(OwnTurn(call'[t]), Known)
    <3>1. CASE next = NoCommand
      <4>1. /\ call' \in [Tab -> Call] /\ call'[t] = NoCall
            /\ \A u \in Tab : u # t => call'[u] = call[u]
        BY <1>5, <1>7, <3>1, Nothing, Updated
      <4>2. outbox' = box
        BY <1>7, <3>1
      <4> HIDE DEF box
      <4> QED BY <1>2, <4>1, <4>2, Before
    <3>2. CASE next # NoCommand
      <4>1. next \in CommandType
        BY <2>0, <3>2 DEF Commands
      <4>2. /\ outbox' = savePendingRemoteCommand(box, next, t, NoCommand)
            /\ call' = [call EXCEPT ![t] = new]
        BY <1>7, <3>2
      <4>3. /\ new \in Call /\ new.command = next /\ new.turn = call[t].turn
            /\ new.fresh = call[t].fresh
        BY <2>0, <1>5, <3>2 DEF Call
      <4> HIDE DEF new, box
      <4>4. /\ call' \in [Tab -> Call] /\ call'[t] = new
            /\ \A u \in Tab : u # t => call'[u] = call[u]
        BY <1>5, <4>2, <4>3, Updated
      <4>5. /\ OutboxOK(outbox')
            /\ \A e \in outbox' : Seen(e.command, Known) /\ Seen(e.followup, Known)
        BY <1>2, <2>0, <4>1, <4>2, SavedSeen, Before, Nothing
      <4>6. OwnTurn(call'[t]) = OwnTurn(call[t])
        BY <4>3, <4>4 DEF OwnTurn
      <4> QED BY <2>0, <4>3, <4>4, <4>5, <4>6, Before
    <3> QED BY <3>1, <3>2
  <2>3. \A u \in Tab : /\ pending'[u] \in Commands /\ Seen(pending'[u], Known)
    BY <1>1, <1>7, <2>0, <2>2, FoundSeen
  <2>4. pending' \in [Tab -> Commands]
    BY <1>7, <2>3
  <2>5. TypeInv' /\ OneTurn'
    BY <1>1, <2>1, <2>2, <2>4, UpsetBound, Desktop DEF TypeInv
  <2>6. OneIdentifier(Known)' /\ Written'
    BY <1>1, <2>2, <2>3, Before, Quiet DEF OutboxInv, NamesInv, host
  <2> QED BY <2>5, <2>6 DEF OutboxInv, NamesInv
<1> QED BY <1>6, <1>7 DEF Opened

LEMMA RebindStep ==
    ASSUME OutboxInv, NEW t \in Tab, NEW s \in Session \cup {None}, Rebind(t, s)
    PROVE  NamesInv'
<1>1. /\ TypeInv /\ Upset /\ UNCHANGED <<outbox, late, host, rejected, meant>>
      /\ bound' = [bound EXCEPT ![t] = s]
      /\ pending' = [u \in Tab |-> pendingRemoteCommand(outbox, bound'[u], u)]
      /\ starting' = [starting EXCEPT ![t] = NotStarting]
      /\ call' = [call EXCEPT ![t].fresh = FALSE]
  BY DEF Rebind, OutboxInv, NamesInv, history
<1>2. bound' \in [Tab -> Session \cup {None}]
  BY <1>1, Updated DEF TypeInv
<1>3. \A u \in Tab : /\ pending'[u] \in Commands /\ Seen(pending'[u], Known)
  BY <1>1, Before, FoundSeen DEF TypeInv
<1>4. pending' \in [Tab -> Commands]
  BY <1>1, <1>3
<1>5. /\ starting' \in [Tab -> Message] /\ starting'[t] = NotStarting
      /\ \A u \in Tab : u # t => starting'[u] = starting[u]
  BY <1>1, Nothing, Updated DEF TypeInv
<1>6. /\ call' \in [Tab -> Call]
      /\ \A u \in Tab : call'[u].command = call[u].command
      /\ \A u \in Tab : OwnTurn(call'[u]) \in {OwnTurn(call[u]), NotStarting}
  <2>1. call \in [Tab -> Call] /\ call[t] \in Call
    BY <1>1 DEF TypeInv
  <2>2. /\ [call[t] EXCEPT !.fresh = FALSE] \in Call
        /\ [call[t] EXCEPT !.fresh = FALSE].command = call[t].command
        /\ OwnTurn([call[t] EXCEPT !.fresh = FALSE]) = NotStarting
    BY <2>1 DEF Call, OwnTurn
  <2>3. call' = [call EXCEPT ![t] = [call[t] EXCEPT !.fresh = FALSE]]
    BY <1>1, <2>1
  <2> QED BY <2>1, <2>2, <2>3, Updated
<1>7. TypeInv' /\ OneTurn'
  BY <1>1, <1>2, <1>4, <1>5, <1>6, UpsetBound, Desktop DEF TypeInv
<1>8. OneIdentifier(Known)' /\ Written'
  BY <1>1, <1>3, <1>5, <1>6, Before, Quiet DEF OutboxInv, NamesInv, host
<1> QED BY <1>7, <1>8 DEF OutboxInv, NamesInv

LEMMA PollStep == ASSUME OutboxInv, NEW t \in Tab, Poll(t) PROVE NamesInv'
<1>1. /\ TypeInv /\ UNCHANGED <<outbox, bound, pending, call, late, host, rejected, meant, upsets>>
      /\ starting' = [starting EXCEPT ![t] = NotStarting]
  BY DEF Poll, OutboxInv, NamesInv, history
<1>2. /\ starting' \in [Tab -> Message] /\ starting'[t] = NotStarting
      /\ \A u \in Tab : u # t => starting'[u] = starting[u]
  BY <1>1, Nothing, Updated DEF TypeInv
<1>3. TypeInv' /\ OneTurn'
  BY <1>1, <1>2, UpsetBound, Desktop DEF TypeInv
<1>4. OneIdentifier(Known)' /\ Written'
  BY <1>1, <1>2, Before, Quiet DEF OutboxInv, NamesInv, host
<1> QED BY <1>3, <1>4 DEF OutboxInv, NamesInv

LEMMA ReloadStep == ASSUME OutboxInv, Reload PROVE NamesInv'
<1>1. /\ TypeInv /\ Upset /\ UNCHANGED <<outbox, bound, host, rejected, meant>>
      /\ late' = late \cup {call[t].command : t \in {u \in Tab : call[u].stage = "sent"}}
      /\ call' = [t \in Tab |-> NoCall]
      /\ starting' = [t \in Tab |-> NotStarting]
      /\ pending' = [t \in Tab |-> pendingRemoteCommand(outbox, bound[t], t)]
  BY DEF Reload, OutboxInv, NamesInv, history
<1>2. late' \subseteq CommandType /\ \A x \in late' : Seen(x, Known)
  BY <1>1, CallParts, Before DEF TypeInv
<1>3. \A u \in Tab : /\ pending'[u] \in Commands /\ Seen(pending'[u], Known)
  BY <1>1, Before, FoundSeen DEF TypeInv
<1>4. /\ pending' \in [Tab -> Commands] /\ call' \in [Tab -> Call]
      /\ starting' \in [Tab -> Message]
  BY <1>1, <1>3, Nothing
<1>5. \A u \in Tab : call'[u] = NoCall /\ starting'[u] = NotStarting
  BY <1>1
<1>6. TypeInv' /\ OneTurn'
  BY <1>1, <1>2, <1>4, UpsetBound, Desktop DEF TypeInv
<1>7. OneIdentifier(Known)' /\ Written'
  BY <1>1, <1>2, <1>3, <1>5, Before, Quiet DEF OutboxInv, NamesInv, host
<1> QED BY <1>6, <1>7 DEF OutboxInv, NamesInv

\* A turn is dispatched as a create with its first message, or as a send.
LEMMA TurnParts ==
    ASSUME TypeInv, NEW t \in Tab, NEW m \in Text, NEW i \in Id, Turn(t, m, i)
    PROVE  /\ \E c \in CommandType, s \in Session \cup {None}, f \in Commands :
                 /\ Dispatch(t, c, s, Shown(m, i), f)
                 /\ f # NoCommand => f.type = "send"
                 /\ c.text = None \/ (c.text = m /\ c.id = i)
                 /\ f.text = None \/ (f.text = m /\ f.id = i)
           /\ meant' \in [Text -> SUBSET Session] /\ meant'[m] # {}
           /\ \A n \in Text : meant[n] # {} => meant'[n] # {}
<1>1. meant \in [Text -> SUBSET Session] /\ bound[t] \in Session \cup {None}
  BY DEF TypeInv
<1>2. ASSUME NEW s \in Session, meant' = [meant EXCEPT ![m] = @ \cup {s}]
      PROVE  /\ meant' \in [Text -> SUBSET Session] /\ meant'[m] # {}
             /\ \A n \in Text : meant[n] # {} => meant'[n] # {}
  BY <1>1, <1>2
<1>3. CASE bound[t] = None
  <2>1. PICK c \in Session :
          /\ Dispatch(t, CreateCommand(c), None, Shown(m, i), Send(None, m, i))
          /\ meant' = [meant EXCEPT ![m] = @ \cup {c}]
    BY <1>3 DEF Turn, startSession, FirstOf, UnusedCreates, Session
  <2>2. CreateCommand(c) \in CommandType /\ CreateCommand(c).text = None
    BY CreateShape DEF Session
  <2>3. /\ Send(None, m, i) \in Commands /\ Send(None, m, i).type = "send"
        /\ Send(None, m, i).text = m /\ Send(None, m, i).id = i
    <3>1. None \in Session \cup {None}
      OBVIOUS
    <3>2. Send(None, m, i) \in CommandType /\ Send(None, m, i).type = "send"
          /\ Send(None, m, i).text = m /\ Send(None, m, i).id = i
      BY <3>1, SendShape
    <3> QED BY <3>2 DEF Commands
  <2> QED BY <1>2, <2>1, <2>2, <2>3
<1>4. CASE bound[t] # None
  <2>1. /\ Dispatch(t, Send(bound[t], m, i), bound[t], Shown(m, i), NoCommand)
        /\ meant' = [meant EXCEPT ![m] = @ \cup {bound[t]}]
    BY <1>4 DEF Turn, dispatchTurn
  <2>2. /\ Send(bound[t], m, i) \in CommandType
        /\ Send(bound[t], m, i).text = m /\ Send(bound[t], m, i).id = i
    BY <1>1, SendShape
  <2> QED BY <1>1, <1>2, <1>4, <2>1, <2>2, Nothing
<1> QED BY <1>3, <1>4

\* A request that names no message but one already known.
LEMMA SentAgain ==
    ASSUME OutboxInv, NEW t \in Tab, NEW c \in CommandType,
           NEW s \in Session \cup {None}, NEW turn \in TurnOfCall,
           NEW f \in Commands, f # NoCommand => f.type = "send",
           Dispatch(t, c, s, turn, f),
           Seen(c, Known), Seen(turn, Known), Seen(f, Known),
           starting' = [starting EXCEPT ![t].failed = FALSE],
           UNCHANGED <<bound, late, host, rejected, upsets>>,
           meant' \in [Text -> SUBSET Session],
           \A n \in Text : meant[n] # {} => meant'[n] # {}
    PROVE  NamesInv'
<1>1. TypeInv
  BY DEF OutboxInv, NamesInv
<1>2. /\ OutboxOK(outbox') /\ pending' \in [Tab -> Commands] /\ call' \in [Tab -> Call]
      /\ \A e \in outbox' :
            /\ e.command = c \/ \E o \in outbox : e.command = o.command
            /\ \/ e.followup \in {f, NoCommand}
               \/ \E o \in outbox : e.followup = o.followup
      /\ pending'[t] = c /\ call'[t].command = c /\ call'[t].turn = turn /\ call'[t].fresh
      /\ \A u \in Tab : u # t => pending'[u] = pending[u] /\ call'[u] = call[u]
  BY <1>1, Dispatched
<1>3. /\ starting' \in [Tab -> Message]
      /\ \A u \in Tab : starting'[u].text = starting[u].text /\ starting'[u].id = starting[u].id
  BY <1>1, ShownAgain
<1>4. \A u \in Tab : Seen(starting'[u], Known)
  BY <1>3, PaneIn DEF Seen
<1>5. \A e \in outbox' : Seen(e.command, Known) /\ Seen(e.followup, Known)
  BY <1>2, Before
<1>6. \A u \in Tab : /\ Seen(pending'[u], Known)
                     /\ Seen(call'[u].command, Known) /\ Seen(OwnTurn(call'[u]), Known)
  <2>1. OwnTurn(call'[t]) = turn
    BY <1>2 DEF OwnTurn
  <2> QED BY <1>2, <2>1, Before
<1>7. TypeInv' /\ OneTurn'
  BY <1>1, <1>2, <1>3, UpsetBound, Desktop DEF TypeInv
<1>8. OneIdentifier(Known)' /\ Written'
  BY <1>4, <1>5, <1>6, Before, Quiet DEF OutboxInv, NamesInv, host
<1> QED BY <1>7, <1>8 DEF OutboxInv, NamesInv

LEMMA RetryPendingStep == ASSUME OutboxInv, NEW t \in Tab, retryPending(t) PROVE NamesInv'
<1>1. /\ TypeInv /\ pending[t] # NoCommand
      /\ Dispatch(t, pending[t], bound[t], NotStarting, NoCommand)
      /\ starting' = [starting EXCEPT ![t].failed = FALSE]
      /\ UNCHANGED <<bound, late, host, rejected, upsets>> /\ meant' = meant
  BY DEF retryPending, OutboxInv, NamesInv, history
<1>2. /\ pending[t] \in CommandType /\ bound[t] \in Session \cup {None}
      /\ meant' \in [Text -> SUBSET Session]
  BY <1>1 DEF TypeInv, Commands
<1>3. /\ Seen(pending[t], Known) /\ Seen(NotStarting, Known) /\ Seen(NoCommand, Known)
      /\ NotStarting \in TurnOfCall /\ NoCommand \in Commands
  BY Before, Nothing
<1> QED BY <1>1, <1>2, <1>3, SentAgain

LEMMA TryAgainStep == ASSUME OutboxInv, NEW t \in Tab, tryAgain(t) PROVE NamesInv'
<1> DEFINE m == starting[t].text
           i == starting[t].id
<1>1. /\ TypeInv /\ starting[t].failed /\ Turn(t, m, i)
      /\ starting' = [starting EXCEPT ![t].failed = FALSE]
      /\ UNCHANGED <<bound, late, host, rejected, upsets>>
  BY DEF tryAgain, OutboxInv, NamesInv
<1>2. m \in Text /\ i \in Id
  BY <1>1 DEF TypeInv, Message
<1>3. /\ Shown(m, i) \in TurnOfCall /\ Shown(m, i).text = m /\ Shown(m, i).id = i
  BY <1>2, ShownMessage
<1>4. \A x : x.text = None \/ (x.text = m /\ x.id = i) => Seen(x, Known)
  BY PaneIn DEF Seen
<1> HIDE DEF m, i
<1>5. /\ \E c \in CommandType, s \in Session \cup {None}, f \in Commands :
            /\ Dispatch(t, c, s, Shown(m, i), f)
            /\ f # NoCommand => f.type = "send"
            /\ c.text = None \/ (c.text = m /\ c.id = i)
            /\ f.text = None \/ (f.text = m /\ f.id = i)
      /\ meant' \in [Text -> SUBSET Session]
      /\ \A n \in Text : meant[n] # {} => meant'[n] # {}
  BY <1>1, <1>2, TurnParts
<1>6. PICK c \in CommandType, s \in Session \cup {None}, f \in Commands :
            /\ Dispatch(t, c, s, Shown(m, i), f)
            /\ f # NoCommand => f.type = "send"
            /\ c.text = None \/ (c.text = m /\ c.id = i)
            /\ f.text = None \/ (f.text = m /\ f.id = i)
  BY <1>5
<1>7. Seen(c, Known) /\ Seen(f, Known) /\ Seen(Shown(m, i), Known)
  BY <1>3, <1>4, <1>6
<1> QED BY <1>1, <1>3, <1>5, <1>6, <1>7, SentAgain

\* An unused identifier names no message.
LEMMA UnusedIsNew ==
    ASSUME ShownTurn, NEW i \in UnusedIds
    PROVE  \A x \in Known : x.text # None => x.id # i
<1>1. /\ \A x \in late \cup turns : x.id # i
      /\ \A t \in Tab : pending[t].id # i /\ call[t].command.id # i /\ starting[t].id # i
      /\ \A e \in outbox : e.command.id # i /\ e.followup.id # i
  BY DEF UnusedIds, Occurring
<1>2. \A t \in Tab : OwnTurn(call[t]).text # None => OwnTurn(call[t]).id # i
  <2> SUFFICES ASSUME NEW t \in Tab, OwnTurn(call[t]).text # None
               PROVE  OwnTurn(call[t]).id # i
    OBVIOUS
  <2>1. OwnTurn(call[t]) # NotStarting /\ OwnTurn(call[t]) = call[t].turn
    BY Nothing DEF OwnTurn
  <2> QED BY <1>1, <2>1 DEF ShownTurn
<1> QED BY <1>1, <1>2 DEF Known, Naming, Stored, Panes

\* A new message: nothing names it yet.
LEMMA SubmitStep ==
    ASSUME OutboxInv, NEW t \in Tab, NEW m \in Text, submit(t, m) PROVE NamesInv'
<1>1. PICK i \in UnusedIds : /\ Turn(t, m, i)
                             /\ starting' = [starting EXCEPT ![t] = Shown(m, i)]
  BY DEF submit, FirstOf
<1> i \in Id
  BY DEF UnusedIds
<1>2. /\ TypeInv /\ meant[m] = {} /\ UNCHANGED <<bound, late, host, rejected, upsets>>
  BY DEF submit, OutboxInv, NamesInv
<1>3. /\ \E c \in CommandType, s \in Session \cup {None}, f \in Commands :
            /\ Dispatch(t, c, s, Shown(m, i), f)
            /\ f # NoCommand => f.type = "send"
            /\ c.text = None \/ (c.text = m /\ c.id = i)
            /\ f.text = None \/ (f.text = m /\ f.id = i)
      /\ meant' \in [Text -> SUBSET Session] /\ meant'[m] # {}
      /\ \A n \in Text : meant[n] # {} => meant'[n] # {}
  BY <1>1, <1>2, TurnParts
<1>4. PICK c \in CommandType, s \in Session \cup {None}, f \in Commands :
            /\ Dispatch(t, c, s, Shown(m, i), f)
            /\ f # NoCommand => f.type = "send"
            /\ c.text = None \/ (c.text = m /\ c.id = i)
            /\ f.text = None \/ (f.text = m /\ f.id = i)
  BY <1>3
<1>5. /\ Shown(m, i) \in Message /\ Shown(m, i) \in TurnOfCall
      /\ Shown(m, i).text = m /\ Shown(m, i).id = i
  BY ShownMessage
<1>6. /\ OutboxOK(outbox') /\ pending' \in [Tab -> Commands] /\ call' \in [Tab -> Call]
      /\ \A e \in outbox' :
            /\ e.command = c \/ \E o \in outbox : e.command = o.command
            /\ \/ e.followup \in {f, NoCommand}
               \/ \E o \in outbox : e.followup = o.followup
      /\ pending'[t] = c /\ call'[t].command = c /\ call'[t].turn = Shown(m, i) /\ call'[t].fresh
      /\ \A u \in Tab : u # t => pending'[u] = pending[u] /\ call'[u] = call[u]
  BY <1>2, <1>4, <1>5, Dispatched
<1>7. /\ starting' \in [Tab -> Message] /\ starting'[t] = Shown(m, i)
      /\ \A u \in Tab : u # t => starting'[u] = starting[u]
  BY <1>1, <1>2, <1>5, Updated DEF TypeInv
<1>8. TypeInv' /\ OneTurn'
  BY <1>2, <1>3, <1>6, <1>7, UpsetBound, Desktop DEF TypeInv
\* All that is named afterwards was named before, or is the new message.
<1> DEFINE New == [text |-> m, id |-> i]
           Both == Known \cup {New}
<1>9. /\ \A x : Seen(x, Known) => Seen(x, Both)
      /\ \A x : x.text = None \/ (x.text = m /\ x.id = i) => Seen(x, Both)
  <2>1. New \in Both /\ New.text = m /\ New.id = i /\ Known \subseteq Both
    OBVIOUS
  <2> HIDE DEF New, Both
  <2> QED BY <2>1 DEF Seen
<1> HIDE DEF New, Both
<1>10. \A x \in Known' : Seen(x, Both)
  <2>1. \A x \in late' : Seen(x, Both)
    BY <1>2, <1>9, Before
  <2>2. \A x \in turns' : Seen(x, Both)
    BY <1>2, <1>9, Before DEF host
  <2>3. \A e \in outbox' : Seen(e.command, Both) /\ Seen(e.followup, Both)
    BY <1>4, <1>6, <1>9, Before
  <2>4. \A u \in Tab : /\ Seen(pending'[u], Both) /\ Seen(starting'[u], Both)
                       /\ Seen(call'[u].command, Both) /\ Seen(OwnTurn(call'[u]), Both)
    <3>1. OwnTurn(call'[t]) = Shown(m, i)
      BY <1>6 DEF OwnTurn
    <3> QED BY <1>4, <1>5, <1>6, <1>7, <1>9, <3>1, Before
  <2> QED BY <2>1, <2>2, <2>3, <2>4, AllParts DEF Known
<1>11. OneIdentifier(Known)'
  <2>1. \A x \in Known : x.text # None => x.text # m /\ x.id # i
    BY <1>1, <1>2, UnusedIsNew DEF OutboxInv, NamesInv, Written
  <2>2. \A x \in Known' : Seen(x, Known) \/ (x.text = m /\ x.id = i)
    BY <1>10 DEF Seen, Both, New
  <2>3. OneIdentifier(Known)
    BY DEF OutboxInv, NamesInv
  <2>4. OneIdentifier(Known')
    BY <2>1, <2>2, <2>3, NewMessage
  <2> QED BY <2>4 DEF OneIdentifier
<1>12. Written'
  BY <1>3, <1>10 DEF OutboxInv, NamesInv, Written, Seen, Both, New
<1> QED BY <1>8, <1>11, <1>12 DEF OutboxInv, NamesInv

-----------------------------------------------------------------------------
(* Theorems *)

LEMMA StutterStep == ASSUME OutboxInv, UNCHANGED vars PROVE NamesInv'
BY DEF OutboxInv, NamesInv, vars, desktop, host, history, TypeInv, OutboxOK, OneIdentifier, Written,
       OneTurn, Known, Naming, Stored, Panes, OwnTurn

\* A message just sent stays shown until its call ends, by its pane or by a
\* sync that has it.
LEMMA ShownStep == ASSUME OutboxInv, [Next]_vars PROVE ShownTurn'
<1>1. TypeInv /\ ShownTurn
  BY DEF OutboxInv, NamesInv
<1>2. ASSUME NEW t \in Tab, \A u \in Tab : u # t => call'[u] = call[u] /\ starting'[u] = starting[u],
             turns \subseteq turns',
             \/ OwnTurn(call'[t]) = NotStarting
             \/ starting'[t].id = call'[t].turn.id
             \/ \E p \in turns' : p.id = call'[t].turn.id
      PROVE  ShownTurn'
  BY <1>1, <1>2 DEF ShownTurn
<1>3. ASSUME turns \subseteq turns', starting' = starting,
             \A u \in Tab : call'[u].turn = call[u].turn /\ call'[u].fresh = call[u].fresh
      PROVE  ShownTurn'
  BY <1>1, <1>3 DEF ShownTurn, OwnTurn
<1>4. \A c, result : Handled(c, result) => turns \subseteq turns'
  BY DEF Handled, host
<1>5. ASSUME NEW t \in Tab, NEW m \in Text, NEW i \in Id, Turn(t, m, i), UNCHANGED turns,
             \A u \in Tab : u # t => starting'[u] = starting[u], starting'[t].id = i
      PROVE  ShownTurn'
  <2>1. PICK c \in CommandType, s \in Session \cup {None}, f \in Commands :
          Dispatch(t, c, s, Shown(m, i), f) /\ (f # NoCommand => f.type = "send")
    BY <1>1, <1>5, TurnParts
  <2>2. Shown(m, i) \in TurnOfCall /\ Shown(m, i).id = i
    BY ShownMessage
  <2>3. /\ \A u \in Tab : u # t => call'[u] = call[u]
        /\ call'[t].turn = Shown(m, i)
    BY <1>1, <2>1, <2>2, Dispatched
  <2> QED BY <1>2, <1>5, <2>2, <2>3
<1>6. ASSUME NEW t \in Tab, NEW m \in Text, submit(t, m) PROVE ShownTurn'
  <2>1. PICK i \in Id : Turn(t, m, i) /\ starting' = [starting EXCEPT ![t] = Shown(m, i)]
    BY <1>6 DEF submit, FirstOf, UnusedIds
  <2>2. starting'[t] = Shown(m, i) /\ \A u \in Tab : u # t => starting'[u] = starting[u]
    BY <1>1, <2>1, ShownMessage, Updated DEF TypeInv
  <2>3. starting'[t].id = i /\ UNCHANGED turns
    BY <1>6, <2>2, ShownMessage DEF submit, host
  <2> QED BY <1>5, <2>1, <2>2, <2>3
<1>7. ASSUME NEW t \in Tab, tryAgain(t) PROVE ShownTurn'
  <2>1. /\ Turn(t, starting[t].text, starting[t].id) /\ starting[t].failed
        /\ starting' = [starting EXCEPT ![t].failed = FALSE] /\ UNCHANGED turns
    BY <1>7 DEF tryAgain, host
  <2>2. starting[t].text \in Text /\ starting[t].id \in Id
    BY <1>1, <2>1 DEF TypeInv, Message
  <2>3. starting'[t].id = starting[t].id /\ \A u \in Tab : u # t => starting'[u] = starting[u]
    BY <1>1, <2>1 DEF TypeInv, Message
  <2> QED BY <1>5, <2>1, <2>2, <2>3
<1>8. ASSUME NEW t \in Tab, retryPending(t) PROVE ShownTurn'
  <2>1. /\ Dispatch(t, pending[t], bound[t], NotStarting, NoCommand) /\ UNCHANGED turns
        /\ pending[t] \in CommandType /\ bound[t] \in Session \cup {None}
        /\ starting' = [starting EXCEPT ![t].failed = FALSE]
    BY <1>1, <1>8 DEF retryPending, TypeInv, Commands, host
  <2>2. /\ \A u \in Tab : u # t => call'[u] = call[u]
        /\ call'[t].turn = NotStarting
    BY <1>1, <2>1, Nothing, Dispatched
  <2>3. \A u \in Tab : u # t => starting'[u] = starting[u]
    BY <1>1, <2>1 DEF TypeInv
  <2> QED BY <1>2, <2>1, <2>2, <2>3 DEF OwnTurn
<1>9. ASSUME NEW t \in Tab, Handle(t) PROVE ShownTurn'
  <2>1. PICK result \in {"receipt", "rejected"} :
          Handled(call[t].command, result) /\ call' = [call EXCEPT ![t].stage = result]
    BY <1>9 DEF Handle
  <2>2. \A u \in Tab : call'[u].turn = call[u].turn /\ call'[u].fresh = call[u].fresh
    BY <1>1, <1>9, <2>1, Advanced DEF Handle
  <2> QED BY <1>3, <1>4, <1>9, <2>1, <2>2 DEF Handle
<1>10. ASSUME NEW c \in late, HandleLate(c) PROVE ShownTurn'
  BY <1>3, <1>4, <1>10 DEF HandleLate, desktop
<1>11. ASSUME NEW t \in Tab, TimesOut(t) \/ Rejected(t) \/ Confirmed(t) PROVE ShownTurn'
  <2>1. call' = [call EXCEPT ![t] = NoCall] /\ UNCHANGED turns
    BY <1>11 DEF TimesOut, Rejected, Confirmed, host
  <2>2. call'[t] = NoCall /\ \A u \in Tab : u # t => call'[u] = call[u]
    BY <1>1, <2>1, Nothing, Updated DEF TypeInv
  <2>3. \A u \in Tab : u # t => starting'[u] = starting[u]
    BY <1>1, <1>11, Failed DEF TimesOut, Rejected, Confirmed
  <2> QED BY <1>2, <2>1, <2>2, <2>3, Nothing DEF OwnTurn
<1>12. ASSUME NEW t \in Tab, SaveFollowup(t) PROVE ShownTurn'
  <2>1. /\ call[t].stage # "none" /\ call[t].command.type = "create"
        /\ call' = [call EXCEPT ![t].stage = "saved"] /\ UNCHANGED <<starting, turns>>
    BY <1>12 DEF SaveFollowup, host
  <2>2. \A u \in Tab : call'[u].turn = call[u].turn /\ call'[u].fresh = call[u].fresh
    BY <1>1, <2>1, Advanced
  <2> QED BY <1>3, <2>1, <2>2
<1>13. ASSUME NEW t \in Tab, Opened(t) PROVE ShownTurn'
  <2>1. /\ UNCHANGED <<starting, turns>> /\ call \in [Tab -> Call] /\ call[t] \in Call
        /\ \/ call' = [call EXCEPT ![t] = NoCall]
           \/ \E next : call' = [call EXCEPT ![t] =
                           [call[t] EXCEPT !.command = next, !.stage = "sent"]]
    BY <1>1, <1>13 DEF Opened, host, TypeInv
  <2>2. CASE call' = [call EXCEPT ![t] = NoCall]
    <3>1. call'[t] = NoCall /\ \A u \in Tab : u # t => call'[u] = call[u]
      BY <2>1, <2>2, Nothing, Updated
    <3> QED BY <1>2, <2>1, <3>1, Nothing DEF OwnTurn
  <2>3. ASSUME NEW next, call' = [call EXCEPT ![t] =
                           [call[t] EXCEPT !.command = next, !.stage = "sent"]]
        PROVE ShownTurn'
    <3>1. \A u \in Tab : call'[u].turn = call[u].turn /\ call'[u].fresh = call[u].fresh
      BY <2>1, <2>3 DEF Call
    <3> QED BY <1>3, <2>1, <3>1
  <2> QED BY <2>1, <2>2, <2>3
<1>14. ASSUME NEW t \in Tab, NEW s \in Session \cup {None}, Rebind(t, s) PROVE ShownTurn'
  <2>1. /\ call' = [call EXCEPT ![t].fresh = FALSE] /\ UNCHANGED turns
        /\ starting' = [starting EXCEPT ![t] = NotStarting]
    BY <1>14 DEF Rebind, host
  <2>2. /\ OwnTurn(call'[t]) = NotStarting
        /\ \A u \in Tab : u # t => call'[u] = call[u]
    BY <1>1, <2>1 DEF TypeInv, Call, OwnTurn
  <2>3. \A u \in Tab : u # t => starting'[u] = starting[u]
    BY <1>1, <2>1, Nothing, Updated DEF TypeInv
  <2> QED BY <1>2, <2>1, <2>2, <2>3
<1>15. ASSUME NEW t \in Tab, Poll(t) PROVE ShownTurn'
  <2>1. /\ starting' = [starting EXCEPT ![t] = NotStarting] /\ UNCHANGED <<call, turns>>
        /\ \E p \in turns : p.id = starting[t].id
    BY <1>15 DEF Poll, host
  <2>2. \A u \in Tab : u # t => starting'[u] = starting[u]
    BY <1>1, <2>1, Nothing, Updated DEF TypeInv
  <2> QED BY <1>1, <1>2, <2>1, <2>2 DEF ShownTurn
<1>16. CASE Reload
  BY <1>16, Nothing DEF Reload, ShownTurn, OwnTurn
<1>17. CASE UNCHANGED vars
  BY <1>1, <1>17 DEF vars, desktop, host, ShownTurn
<1> QED BY <1>6, <1>7, <1>8, <1>9, <1>10, <1>11, <1>12, <1>13, <1>14, <1>15, <1>16, <1>17
        DEF Next

LEMMA NextStep == ASSUME OutboxInv, [Next]_vars PROVE OutboxInv'
<1>1. NamesInv'
  BY ReloadStep, OpenedStep, SubmitStep, TryAgainStep, RetryPendingStep, HandleStep,
   TimesOutStep, RejectedStep, ConfirmedStep, SaveFollowupStep, PollStep, RebindStep,
     HandleLateStep, StutterStep DEF Next
<1> QED BY <1>1, ShownStep DEF OutboxInv

\* Whatever the panes and the network do, each message has one identifier, and
\* the host has one turn for an identifier.
THEOREM OutboxCorrect == Spec => []OutboxInv
<1>1. Init => OutboxInv
  BY InitInv
<1>2. OutboxInv /\ [Next]_vars => OutboxInv'
  BY NextStep
<1> QED BY <1>1, <1>2, PTL DEF Spec

\* The state of the desktop, the network and the host is well formed, and
\* local storage has one entry for a command.
THEOREM OutboxTypeCorrect == Spec => []TypeOK
<1>1. TypeInv => TypeOK
  <2> SUFFICES ASSUME TypeInv PROVE TypeOK
    OBVIOUS
  <2>1. outbox \subseteq [command : CommandType, shell : Tab,
                          followup : CommandType \cup {NoCommand}]
    BY DEF TypeInv, OutboxOK, Entry, Commands
  <2>2. /\ pending \in [Tab -> CommandType \cup {NoCommand}]
        /\ starting \in [Tab -> [text : Text \cup {None}, id : Id \cup {None},
                                 failed : BOOLEAN]]
    BY DEF TypeInv, Commands, Message
  <2>3. call \in [Tab -> [command : CommandType \cup {NoCommand},
                          from : Session \cup {None}, fresh : BOOLEAN,
                          turn : [text : Text \cup {None}, id : Id \cup {None},
                                  failed : {FALSE}],
                          stage : {"none", "sent", "receipt", "rejected", "saved"}]]
    <3>1. TurnOfCall \subseteq [text : Text \cup {None}, id : Id \cup {None},
                                failed : {FALSE}]
      <4>1. NotStarting \in [text : Text \cup {None}, id : Id \cup {None}, failed : {FALSE}]
        BY DEF NotStarting
      <4>2. [text : Text, id : Id, failed : {FALSE}]
                \subseteq [text : Text \cup {None}, id : Id \cup {None}, failed : {FALSE}]
        OBVIOUS
      <4> QED BY <4>1, <4>2 DEF TurnOfCall
    <3>2. Call \subseteq [command : CommandType \cup {NoCommand},
                          from : Session \cup {None}, fresh : BOOLEAN,
                          turn : [text : Text \cup {None}, id : Id \cup {None},
                                  failed : {FALSE}],
                          stage : {"none", "sent", "receipt", "rejected", "saved"}]
      <4> HIDE DEF TurnOfCall
      <4> QED BY <3>1 DEF Call, Commands
    <3> QED BY <3>2 DEF TypeInv
  <2>4. \A t \in Tab : call[t].stage = "saved" => call[t].command.type = "create"
    BY CallParts
  <2> QED BY <2>1, <2>2, <2>3, <2>4 DEF TypeInv, TypeOK, OutboxOK
<1> QED BY <1>1, OutboxCorrect, PTL DEF OutboxInv, NamesInv

\* A message the user sent once starts at most one turn on the host, for any
\* number of panes, messages, losses, restarts and retries.
THEOREM PromptsRunOnce == Spec => []PromptRunsOnce
<1>1. OutboxInv => PromptRunsOnce
  <2> SUFFICES ASSUME OutboxInv, NEW p \in turns, NEW q \in turns, p.text = q.text
               PROVE  p = q
    BY DEF PromptRunsOnce
  <2>1. p \in CommandType /\ p.type = "send" /\ p \in Known /\ q \in Known
    BY SentIn DEF OutboxInv, NamesInv, TypeInv
  <2>2. p.text \in Text
    BY <2>1, CommandShape
  <2>3. p.id = q.id
    BY <2>1, <2>2, NamesAssumption DEF OutboxInv, NamesInv, OneIdentifier, None
  <2> QED BY <2>3 DEF OutboxInv, NamesInv, OneTurn
<1> QED BY <1>1, OutboxCorrect, PTL

-----------------------------------------------------------------------------
(* Where a message goes *)

\* A message travels to a session it was written for, a first message with the
\* create command of one.
Aimed(x, w) == x.type = "send" => x.text \in Text /\ x.session \in w[x.text]
AimedEntry(e, w) ==
    /\ Aimed(e.command, w)
    /\ e.followup # NoCommand => /\ e.command.type = "create"
                                 /\ e.followup.text \in Text
                                 /\ e.command.id \in w[e.followup.text]
\* A create command carries the message its operation is about.
AimedCall(c, w) ==
    /\ Aimed(c.command, w)
    /\ c.command.type = "create" /\ c.turn # NotStarting =>
          c.turn.text \in Text /\ c.command.id \in w[c.turn.text]
AllAimed ==
    /\ \A x \in late \cup turns : Aimed(x, meant)
    /\ \A t \in Tab : Aimed(pending[t], meant) /\ AimedCall(call[t], meant)
    /\ \A e \in outbox : AimedEntry(e, meant)
AimInv == OutboxInv /\ AllAimed

LEMMA NothingAimed == ASSUME NEW w PROVE Aimed(NoCommand, w) /\ AimedCall(NoCall, w)
BY DEF Aimed, AimedCall, NoCommand, NoCall

LEMMA FollowupOf ==
    ASSUME NEW box, NEW id, pendingRemoteFollowup(box, id) # NoCommand
    PROVE  \E e \in box : e.command.id = id /\ pendingRemoteFollowup(box, id) = e.followup
BY DEF pendingRemoteFollowup

LEMMA FoundAimed ==
    ASSUME NEW box, OutboxOK(box), NEW w, \A e \in box : AimedEntry(e, w), NEW s, NEW t
    PROVE  Aimed(pendingRemoteCommand(box, s, t), w)
BY PendingFound, NothingAimed DEF AimedEntry

\* A command saved again keeps the followup of its entry; a message's entry
\* has none, for no create has its identifier.
LEMMA SavedAimed ==
    ASSUME NEW box, OutboxOK(box), NEW w, \A e \in box : AimedEntry(e, w),
           NEW c \in CommandType, Aimed(c, w), NEW t, NEW f,
           f # NoCommand => c.type = "create" /\ f.text \in Text /\ c.id \in w[f.text]
    PROVE  \A e \in savePendingRemoteCommand(box, c, t, f) : AimedEntry(e, w)
<1> DEFINE g == IF f # NoCommand THEN f ELSE pendingRemoteFollowup(box, c.id)
           new == [command |-> c, shell |-> t, followup |-> g]
<1>1. g # NoCommand => c.type = "create" /\ g.text \in Text /\ c.id \in w[g.text]
  <2>1. CASE f # NoCommand
    BY <2>1
  <2>2. CASE f = NoCommand /\ g # NoCommand
    <3>1. PICK e \in box : e.command.id = c.id /\ g = e.followup
      BY <2>2, FollowupOf
    <3>2. /\ e.command.type = "create" /\ e.command \in CommandType
          /\ g.text \in Text /\ e.command.id \in w[g.text]
      BY <2>2, <3>1 DEF AimedEntry, OutboxOK, Entry
    <3>3. c.id \in Create
      BY <3>1, <3>2, CommandShape
    <3>4. c.type = "create"
      BY <3>3, CommandShape, NamesAssumption
    <3> QED BY <3>1, <3>2, <3>4
  <2> QED BY <2>1, <2>2
<1>2. savePendingRemoteCommand(box, c, t, f) = {e \in box : e.command.id # c.id} \cup {new}
  BY DEF savePendingRemoteCommand
<1>3. new.command = c /\ new.followup = g
  OBVIOUS
<1> HIDE DEF new, g
<1> QED BY <1>1, <1>2, <1>3 DEF AimedEntry

\* What a request that is dispatched must show.
LEMMA DispatchedAimed ==
    ASSUME TypeInv, NEW w, \A e \in outbox : AimedEntry(e, w),
           \A u \in Tab : Aimed(pending[u], w) /\ AimedCall(call[u], w),
           NEW t \in Tab, NEW c \in CommandType, Aimed(c, w),
           NEW s \in Session \cup {None}, NEW turn \in TurnOfCall,
           NEW f \in Commands, f # NoCommand => f.type = "send",
           f # NoCommand => c.type = "create" /\ f.text \in Text /\ c.id \in w[f.text],
           c.type = "create" /\ turn # NotStarting =>
               turn.text \in Text /\ c.id \in w[turn.text],
           Dispatch(t, c, s, turn, f)
    PROVE  /\ \A e \in outbox' : AimedEntry(e, w)
           /\ \A u \in Tab : Aimed(pending'[u], w) /\ AimedCall(call'[u], w)
<1>1. outbox' = savePendingRemoteCommand(outbox, c, t, f) /\ OutboxOK(outbox)
  BY DEF Dispatch, TypeInv
<1>2. \A e \in outbox' : AimedEntry(e, w)
  BY <1>1, SavedAimed
<1>3. /\ pending'[t] = c /\ call'[t].command = c /\ call'[t].turn = turn
      /\ \A u \in Tab : u # t => pending'[u] = pending[u] /\ call'[u] = call[u]
  BY Dispatched
<1> QED BY <1>2, <1>3 DEF AimedCall

\* A message written for one more session stays aimed.
LEMMA MoreMeant ==
    ASSUME AllAimed, NEW v, \A n \in Text : meant[n] \subseteq v[n]
    PROVE  /\ \A x \in late \cup turns : Aimed(x, v)
           /\ \A t \in Tab : Aimed(pending[t], v) /\ AimedCall(call[t], v)
           /\ \A e \in outbox : AimedEntry(e, v)
BY DEF AllAimed, Aimed, AimedEntry, AimedCall

\* A turn goes to the session of its pane, or of its create command.
LEMMA TurnAimed ==
    ASSUME AimInv, NEW t \in Tab, NEW m \in Text, NEW i \in Id, Turn(t, m, i),
           UNCHANGED <<late, turns>>
    PROVE  AllAimed'
<1>1. /\ TypeInv /\ meant \in [Text -> SUBSET Session] /\ bound[t] \in Session \cup {None}
      /\ Shown(m, i) \in TurnOfCall /\ Shown(m, i).text = m
  BY ShownMessage DEF AimInv, OutboxInv, NamesInv, TypeInv
<1>2. ASSUME NEW s \in Session, meant' = [meant EXCEPT ![m] = @ \cup {s}]
      PROVE  /\ s \in meant'[m]
             /\ \A x \in late' \cup turns' : Aimed(x, meant')
             /\ \A u \in Tab : Aimed(pending[u], meant') /\ AimedCall(call[u], meant')
             /\ \A e \in outbox : AimedEntry(e, meant')
  <2>1. s \in meant'[m] /\ \A n \in Text : meant[n] \subseteq meant'[n]
    BY <1>1, <1>2
  <2> QED BY <2>1, MoreMeant DEF AimInv
<1>3. CASE bound[t] = None
  <2>1. PICK c \in Session :
          /\ Dispatch(t, CreateCommand(c), None, Shown(m, i), Send(None, m, i))
          /\ meant' = [meant EXCEPT ![m] = @ \cup {c}]
    BY <1>3 DEF Turn, startSession, FirstOf, UnusedCreates, Session
  <2>2. /\ CreateCommand(c) \in CommandType /\ CreateCommand(c).type = "create"
        /\ CreateCommand(c).id = c
    BY CreateShape DEF Session
  <2>3. Aimed(CreateCommand(c), meant')
    BY <2>2 DEF Aimed
  <2>4. None \in Session \cup {None}
    OBVIOUS
  <2>5. /\ Send(None, m, i) \in Commands /\ Send(None, m, i).type = "send"
        /\ Send(None, m, i).text = m
    BY <2>4, SendShape DEF Commands
  <2>6. /\ c \in meant'[m]
        /\ \A x \in late' \cup turns' : Aimed(x, meant')
        /\ \A u \in Tab : Aimed(pending[u], meant') /\ AimedCall(call[u], meant')
        /\ \A e \in outbox : AimedEntry(e, meant')
    BY <1>2, <2>1
  <2>7. /\ \A e \in outbox' : AimedEntry(e, meant')
        /\ \A u \in Tab : Aimed(pending'[u], meant') /\ AimedCall(call'[u], meant')
    BY <1>1, <2>1, <2>2, <2>3, <2>4, <2>5, <2>6, DispatchedAimed
  <2> QED BY <2>6, <2>7 DEF AllAimed
<1>4. CASE bound[t] # None
  <2>1. /\ Dispatch(t, Send(bound[t], m, i), bound[t], Shown(m, i), NoCommand)
        /\ meant' = [meant EXCEPT ![m] = @ \cup {bound[t]}]
        /\ bound[t] \in Session
    BY <1>1, <1>4 DEF Turn, dispatchTurn
  <2>2. /\ Send(bound[t], m, i) \in CommandType /\ Send(bound[t], m, i).text = m
        /\ Send(bound[t], m, i).type = "send"
        /\ Send(bound[t], m, i).session = bound[t]
    <3>1. bound[t] \in Session \cup {None}
      BY <1>1
    <3> QED BY <3>1, SendShape
  <2>3. /\ bound[t] \in meant'[m]
        /\ \A x \in late' \cup turns' : Aimed(x, meant')
        /\ \A u \in Tab : Aimed(pending[u], meant') /\ AimedCall(call[u], meant')
        /\ \A e \in outbox : AimedEntry(e, meant')
    BY <1>2, <2>1
  <2>4. Aimed(Send(bound[t], m, i), meant')
    BY <2>2, <2>3 DEF Aimed
  <2>5. /\ \A e \in outbox' : AimedEntry(e, meant')
        /\ \A u \in Tab : Aimed(pending'[u], meant') /\ AimedCall(call'[u], meant')
    BY <1>1, <2>1, <2>2, <2>3, <2>4, Nothing, DispatchedAimed
  <2> QED BY <2>3, <2>5 DEF AllAimed
<1> QED BY <1>3, <1>4

LEMMA RetryAimed == ASSUME AimInv, NEW t \in Tab, retryPending(t) PROVE AllAimed'
<1>1. /\ TypeInv /\ AllAimed /\ pending[t] # NoCommand
      /\ Dispatch(t, pending[t], bound[t], NotStarting, NoCommand)
      /\ UNCHANGED <<late, turns, meant>>
  BY DEF retryPending, AimInv, OutboxInv, NamesInv, history, host
<1>2. pending[t] \in CommandType /\ bound[t] \in Session \cup {None}
  BY <1>1 DEF TypeInv, Commands
<1>3. /\ \A e \in outbox' : AimedEntry(e, meant)
      /\ \A u \in Tab : Aimed(pending'[u], meant) /\ AimedCall(call'[u], meant)
  BY <1>1, <1>2, Nothing, DispatchedAimed DEF AllAimed
<1> QED BY <1>1, <1>3 DEF AllAimed

LEMMA HandledAimed ==
    ASSUME AimInv, NEW c, Aimed(c, meant), NEW result, Handled(c, result)
    PROVE  \A x \in turns' : Aimed(x, meant)
BY DEF Handled, AimInv, AllAimed, host

LEMMA HandleAimed == ASSUME AimInv, NEW t \in Tab, Handle(t) PROVE AllAimed'
<1>1. PICK result \in {"receipt", "rejected"} :
        Handled(call[t].command, result) /\ call' = [call EXCEPT ![t].stage = result]
  BY DEF Handle
<1>2. /\ UNCHANGED <<outbox, pending, late, meant>> /\ call[t].stage # "none"
      /\ TypeInv /\ AllAimed
  BY DEF Handle, history, AimInv, OutboxInv, NamesInv
<1>3. \A u \in Tab : call'[u].command = call[u].command /\ call'[u].turn = call[u].turn
  BY <1>1, <1>2, Advanced
<1>4. \A x \in turns' : Aimed(x, meant)
  BY <1>1, <1>2, HandledAimed DEF AllAimed, AimedCall
<1> QED BY <1>2, <1>3, <1>4 DEF AllAimed, AimedCall

LEMMA HandleLateAimed == ASSUME AimInv, NEW c \in late, HandleLate(c) PROVE AllAimed'
<1>1. /\ late' \subseteq late /\ Handled(c, "receipt") /\ AllAimed
      /\ UNCHANGED <<outbox, pending, call, meant>>
  BY DEF HandleLate, desktop, history, AimInv
<1>2. \A x \in turns' : Aimed(x, meant)
  BY <1>1, HandledAimed DEF AllAimed
<1> QED BY <1>1, <1>2 DEF AllAimed

LEMMA ClosedAimed ==
    ASSUME AimInv, NEW t \in Tab, TimesOut(t) \/ Rejected(t) \/ Confirmed(t)
    PROVE  AllAimed'
<1> DEFINE c == call[t]
<1>1. /\ TypeInv /\ AllAimed /\ UNCHANGED <<turns, meant>>
      /\ call' = [call EXCEPT ![t] = NoCall]
      /\ late' \subseteq late \cup {c.command}
  BY DEF TimesOut, Rejected, Confirmed, AimInv, OutboxInv, NamesInv, host, history
<1>2. \A u \in Tab : AimedCall(call'[u], meant)
  BY <1>1, Nothing, NothingAimed, Updated DEF TypeInv, AllAimed
<1>3. \A x \in late' \cup turns' : Aimed(x, meant)
  BY <1>1 DEF AllAimed, AimedCall
<1>4. CASE UNCHANGED <<outbox, pending>>
  BY <1>1, <1>2, <1>3, <1>4 DEF AllAimed
<1>5. CASE /\ outbox' = clearPendingRemoteCommand(outbox, c.command.id)
           /\ \/ pending' = pending
              \/ pending' = [pending EXCEPT ![t] = pendingRemoteCommand(outbox', c.from, t)]
  <2>1. OutboxOK(outbox') /\ outbox' \subseteq outbox
    BY <1>1, <1>5, ClearedEntries DEF TypeInv
  <2>2. \A e \in outbox' : AimedEntry(e, meant)
    BY <1>1, <2>1 DEF AllAimed
  <2>3. Aimed(pendingRemoteCommand(outbox', c.from, t), meant)
    BY <2>1, <2>2, FoundAimed
  <2>4. \A u \in Tab : Aimed(pending'[u], meant)
    BY <1>1, <1>5, <2>3 DEF AllAimed, TypeInv
  <2> QED BY <1>1, <1>2, <1>3, <2>2, <2>4 DEF AllAimed
<1> QED BY <1>4, <1>5 DEF TimesOut, Rejected, Confirmed

LEMMA SaveFollowupAimed == ASSUME AimInv, NEW t \in Tab, SaveFollowup(t) PROVE AllAimed'
<1> DEFINE next == pendingRemoteFollowup(outbox, call[t].command.id)
<1>1. /\ TypeInv /\ AllAimed /\ UNCHANGED <<pending, late, turns, meant>>
      /\ call[t].stage # "none" /\ call[t].command.type = "create"
      /\ call' = [call EXCEPT ![t].stage = "saved"]
  BY DEF SaveFollowup, AimInv, OutboxInv, NamesInv, host, history
<1>2. \A u \in Tab : call'[u].command = call[u].command /\ call'[u].turn = call[u].turn
  BY <1>1, Advanced
<1>3. \A e \in outbox' : AimedEntry(e, meant)
  <2>1. CASE next = NoCommand
    BY <1>1, <2>1 DEF SaveFollowup, AllAimed
  <2>2. CASE next # NoCommand
    <3>1. PICK e \in outbox : e.command.id = call[t].command.id /\ next = e.followup
      BY <2>2, FollowupOf
    <3>2. next \in CommandType /\ next.type = "send"
      BY <1>1, <2>2, FollowupFound DEF TypeInv, Commands
    <3>3. next.text \in Text /\ call[t].command.id \in meant[next.text]
      BY <1>1, <2>2, <3>1 DEF AllAimed, AimedEntry
    <3>4. call[t].command.id \in Session
      BY <1>1, CallParts, CommandShape DEF Session
    <3>5. outbox' = savePendingRemoteCommand(outbox, Followup(t, next), t, NoCommand)
      BY <2>2 DEF SaveFollowup
    <3> HIDE DEF next
    <3>6. /\ Followup(t, next) \in CommandType /\ Followup(t, next).text = next.text
          /\ Followup(t, next).session = call[t].command.id
      BY <3>2, <3>4, Addressed DEF Followup
    <3>7. Aimed(Followup(t, next), meant)
      BY <3>3, <3>6 DEF Aimed
    <3>8. OutboxOK(outbox) /\ \A e2 \in outbox : AimedEntry(e2, meant)
      BY <1>1 DEF TypeInv, AllAimed
    <3> QED BY <3>5, <3>6, <3>7, <3>8, SavedAimed
  <2> QED BY <2>1, <2>2
<1> QED BY <1>1, <1>2, <1>3 DEF AllAimed, AimedCall

LEMMA OpenedAimed == ASSUME AimInv, NEW t \in Tab, Opened(t) PROVE AllAimed'
<1> DEFINE c == call[t]
           box == clearPendingRemoteCommand(outbox, c.command.id)
<1>1. /\ TypeInv /\ AllAimed /\ UNCHANGED <<late, turns, meant>>
      /\ call \in [Tab -> Call] /\ call[t] \in Call /\ c.stage = "saved"
  BY DEF Opened, AimInv, OutboxInv, NamesInv, TypeInv, host, history
<1>2. /\ OutboxOK(box) /\ box \subseteq outbox /\ \A e \in box : AimedEntry(e, meant)
  BY <1>1, ClearedEntries DEF TypeInv, AllAimed
<1>3. c.command.type = "create" /\ c.command.id \in Session
  BY <1>1, CallParts, CommandShape DEF Session
<1>4. CASE outbox' = box /\ call' = [call EXCEPT ![t] = NoCall] /\ UNCHANGED <<bound, pending>>
  <2>1. \A u \in Tab : AimedCall(call'[u], meant)
    BY <1>1, <1>4, Nothing, NothingAimed, Updated DEF AllAimed
  <2> QED BY <1>1, <1>2, <1>4, <2>1 DEF AllAimed
<1>5. ASSUME NEW next \in ToSend(c, box), c.fresh,
             IF next = NoCommand
             THEN outbox' = box /\ call' = [call EXCEPT ![t] = NoCall]
             ELSE /\ outbox' = savePendingRemoteCommand(box, next, t, NoCommand)
                  /\ call' = [call EXCEPT ![t] =
                        [@ EXCEPT !.command = next, !.stage = "sent"]],
             pending' = [u \in Tab |->
                 IF u = t THEN next ELSE pendingRemoteCommand(outbox', bound[u], u)]
      PROVE  AllAimed'
  <2> DEFINE new == [call[t] EXCEPT !.command = next, !.stage = "sent"]
  <2>1. /\ next \in Commands
        /\ next # NoCommand => next.type = "send" /\ next.session = c.command.id
    BY <1>1, <1>2, <1>5, NextMessage
  <2>2. Aimed(next, meant)
    <3>1. CASE c.turn # NotStarting
      <4>1. next = Send(c.command.id, c.turn.text, c.turn.id)
        BY <1>5, <3>1 DEF ToSend
      <4>2. next.text = c.turn.text /\ next.session = c.command.id
        BY <4>1 DEF Send
      <4>3. c.turn.text \in Text /\ c.command.id \in meant[c.turn.text]
        BY <1>1, <1>3, <3>1 DEF AllAimed, AimedCall
      <4> QED BY <4>2, <4>3 DEF Aimed
    <3>2. CASE c.turn = NotStarting
      <4>1. next = NoCommand \/ \E e \in box : next = e.command
        BY <1>5, <3>2 DEF ToSend
      <4> QED BY <1>2, <4>1, NothingAimed DEF AimedEntry
    <3> QED BY <3>1, <3>2
  <2>3. next # NoCommand => new.command = next
    BY <1>1 DEF Call
  <2>4. next # NoCommand => AimedCall(new, meant)
    BY <2>1, <2>2, <2>3 DEF AimedCall
  <2>5. \A u \in Tab : AimedCall(call'[u], meant)
    <3> HIDE DEF new
    <3>1. call' = [call EXCEPT ![t] = NoCall] \/ (next # NoCommand /\ call' = [call EXCEPT ![t] = new])
      BY <1>5 DEF new
    <3> QED BY <1>1, <2>4, <3>1, NothingAimed DEF AllAimed
  <2>6. \A e \in outbox' : AimedEntry(e, meant)
    <3>1. CASE next = NoCommand
      BY <1>2, <1>5, <3>1
    <3>2. CASE next # NoCommand
      <4>1. next \in CommandType
        BY <2>1, <3>2 DEF Commands
      <4>2. outbox' = savePendingRemoteCommand(box, next, t, NoCommand)
        BY <1>5, <3>2
      <4> HIDE DEF box
      <4> QED BY <1>2, <2>2, <4>1, <4>2, SavedAimed
    <3> QED BY <3>1, <3>2
  <2>7. OutboxOK(outbox')
    BY OpenedStep DEF AimInv, NamesInv, TypeInv
  <2>8. \A u \in Tab : Aimed(pending'[u], meant)
    BY <1>5, <2>2, <2>6, <2>7, FoundAimed
  <2> QED BY <1>1, <2>5, <2>6, <2>8 DEF AllAimed
<1> QED BY <1>4, <1>5 DEF Opened

LEMMA PanesAimed ==
    ASSUME AimInv,
           Reload \/ \E t \in Tab : Poll(t) \/ \E s \in Session \cup {None} : Rebind(t, s)
    PROVE  AllAimed'
<1>1. TypeInv /\ AllAimed /\ UNCHANGED <<outbox, turns, meant>>
  BY DEF Reload, Poll, Rebind, AimInv, OutboxInv, NamesInv, host, history
<1>2. \A b, u : Aimed(pendingRemoteCommand(outbox, b, u), meant)
  BY <1>1, FoundAimed DEF TypeInv, AllAimed
<1>3. CASE Reload
  BY <1>1, <1>2, <1>3, Nothing, NothingAimed DEF Reload, AllAimed, AimedCall
<1>4. ASSUME NEW t \in Tab, Poll(t) PROVE AllAimed'
  BY <1>1, <1>4 DEF Poll, AllAimed
<1>5. ASSUME NEW t \in Tab, NEW s \in Session \cup {None}, Rebind(t, s) PROVE AllAimed'
  <2>1. /\ pending' = [u \in Tab |-> pendingRemoteCommand(outbox, bound'[u], u)]
        /\ late' = late /\ call' = [call EXCEPT ![t].fresh = FALSE]
    BY <1>5 DEF Rebind
  <2>2. \A u \in Tab : call'[u].command = call[u].command /\ call'[u].turn = call[u].turn
    BY <1>1, <2>1 DEF TypeInv, Call
  <2> QED BY <1>1, <1>2, <2>1, <2>2 DEF AllAimed, AimedCall
<1> QED BY <1>3, <1>4, <1>5

LEMMA NextAimed == ASSUME AimInv, [Next]_vars PROVE AllAimed'
<1>1. ASSUME NEW t \in Tab, NEW m \in Text, submit(t, m) PROVE AllAimed'
  <2>1. PICK i \in Id : Turn(t, m, i)
    BY <1>1 DEF submit, FirstOf, UnusedIds
  <2>2. UNCHANGED <<late, turns>>
    BY <1>1 DEF submit, host
  <2> QED BY <2>1, <2>2, TurnAimed
<1>2. ASSUME NEW t \in Tab, tryAgain(t) PROVE AllAimed'
  <2>1. /\ Turn(t, starting[t].text, starting[t].id) /\ UNCHANGED <<late, turns>>
        /\ starting[t].failed
    BY <1>2 DEF tryAgain, host
  <2>2. starting[t].text \in Text /\ starting[t].id \in Id
    BY <2>1 DEF AimInv, OutboxInv, NamesInv, TypeInv, Message
  <2> QED BY <2>1, <2>2, TurnAimed
<1>3. CASE UNCHANGED vars
  BY <1>3 DEF vars, desktop, host, history, AimInv, AllAimed
<1> QED BY <1>1, <1>2, <1>3, RetryAimed, HandleAimed, HandleLateAimed, ClosedAimed,
           SaveFollowupAimed, OpenedAimed, PanesAimed DEF Next

LEMMA InitAimed == Init => AimInv
<1> SUFFICES ASSUME Init PROVE AllAimed
  BY InitInv DEF AimInv
<1> QED BY Nothing, NothingAimed DEF Init, AllAimed

\* A message runs only in a session it was written for: no create command that
\* is answered late, and no pane that shows another session by then, sends it
\* elsewhere.
THEOREM RunsWhereItWasMeant == Spec => []RunsWhereMeant
<1>1. Init => AimInv
  BY InitAimed
<1>2. AimInv /\ [Next]_vars => AimInv'
  BY NextStep, NextAimed DEF AimInv
<1>3. AimInv => RunsWhereMeant
  BY DEF AimInv, OutboxInv, NamesInv, TypeInv, AllAimed, Aimed, RunsWhereMeant
<1> QED BY <1>1, <1>2, <1>3, PTL DEF Spec

-----------------------------------------------------------------------------
(* What was sent is kept until its fate is known *)

\* A message is in local storage, alone or with its create command.
Holds(box, m) == \E e \in box : m \in {e.command.text, e.followup.text}

\* A call that has the receipt of a message: the host has the message.
ReceiptsKnown ==
    \A t \in Tab : call[t].stage = "receipt" /\ call[t].command.type = "send" =>
        call[t].command \in turns
\* The first message of a create that is about to be cleared has an entry of
\* its own.
OneSaved ==
    \A t, u \in Tab : call[t].stage = "saved" /\ call[u].stage = "saved" => t = u
SavedKept ==
    \A t \in Tab : \A e \in outbox :
        /\ call[t].stage = "saved" /\ e.command.id = call[t].command.id
        /\ e.followup # NoCommand
        => \E o \in outbox : o.command.text = e.followup.text

CallsInv == ReceiptsKnown /\ OneSaved /\ SavedKept
KeptInv == AimInv /\ CallsInv /\ KeptUntilKnown

LEMMA NoneIsNoText == None \notin Text
BY NamesAssumption DEF None

\* Two commands under one identifier are about the same message.
LEMMA SameId ==
    ASSUME OutboxInv, NEW c \in CommandType, Seen(c, Known),
           NEW d \in CommandType, d \in Known, c.id = d.id
    PROVE  c.text = d.text
<1>1. CASE c.type = "send" /\ d.type = "send"
  <2>1. c.text # None /\ d.text # None
    BY <1>1, CommandShape, NoneIsNoText
  <2>2. PICK y \in Known : c.text = y.text /\ c.id = y.id
    BY <2>1 DEF Seen
  <2>3. OneIdentifier(Known)
    BY DEF OutboxInv, NamesInv
  <2> QED BY <2>1, <2>2, <2>3 DEF OneIdentifier
<1>2. CASE c.type = "create" /\ d.type = "create"
  BY <1>2, CommandShape
<1>3. CASE c.type # d.type
  BY <1>3, CommandShape, NamesAssumption
<1> QED BY <1>1, <1>2, <1>3, CommandShape

LEMMA SameEntry ==
    ASSUME OutboxInv, NEW c \in CommandType, Seen(c, Known),
           NEW e \in outbox, e.command.id = c.id
    PROVE  e.command.text = c.text
<1>1. e.command \in CommandType /\ e.command \in Known
  BY StoredIn DEF OutboxInv, NamesInv, TypeInv, OutboxOK, Entry
<1> QED BY <1>1, SameId

LEMMA FollowupIs ==
    ASSUME NEW box, OutboxOK(box), NEW e \in box
    PROVE  pendingRemoteFollowup(box, e.command.id) = e.followup
BY DEF OutboxOK, pendingRemoteFollowup

\* A command saved under its identifier drops no message.
LEMMA SavedHolds ==
    ASSUME NEW box, OutboxOK(box), NEW c, NEW t, NEW f,
           \A e \in box : e.command.id = c.id => e.command.text = c.text,
           f = NoCommand \/ \A e \in box : e.command.id # c.id
    PROVE  /\ \A m : Holds(box, m) => Holds(savePendingRemoteCommand(box, c, t, f), m)
           /\ Holds(savePendingRemoteCommand(box, c, t, f), c.text)
           /\ f # NoCommand => Holds(savePendingRemoteCommand(box, c, t, f), f.text)
<1> DEFINE g == IF f # NoCommand THEN f ELSE pendingRemoteFollowup(box, c.id)
           new == [command |-> c, shell |-> t, followup |-> g]
<1>1. savePendingRemoteCommand(box, c, t, f) = {e \in box : e.command.id # c.id} \cup {new}
  BY DEF savePendingRemoteCommand
<1>2. new.command = c /\ new.followup = g
  OBVIOUS
<1>3. \A e \in box : e.command.id = c.id => g = e.followup
  BY FollowupIs
<1>4. f # NoCommand => g = f
  OBVIOUS
<1> HIDE DEF new, g
<1> QED BY <1>1, <1>2, <1>3, <1>4 DEF Holds

\* What a step must show: a message leaves local storage only for the host or
\* for the list of those turned down.
LEMMA StillKept ==
    ASSUME KeptUntilKnown, rejected \subseteq rejected', turns \subseteq turns',
           \A m \in Text : meant'[m] # {} => meant[m] # {} \/ Holds(outbox', m),
           \A m \in Text : Holds(outbox, m) =>
               m \in rejected' \/ (\E p \in turns' : p.text = m) \/ Holds(outbox', m)
    PROVE  KeptUntilKnown'
BY DEF KeptUntilKnown, Holds

LEMMA HostGrows == ASSUME NEW c, NEW result, Handled(c, result) PROVE turns \subseteq turns'
BY DEF Handled, host

\* A step after which no create is about to be cleared.
LEMMA CallsOf ==
    ASSUME CallsInv, turns \subseteq turns', \A u \in Tab : call'[u].stage # "saved",
           \A u \in Tab :
               \/ call'[u].stage # "receipt"
               \/ call'[u].stage = call[u].stage /\ call'[u].command = call[u].command
               \/ call'[u].command.type = "send" => call'[u].command \in turns'
    PROVE  CallsInv'
BY DEF CallsInv, ReceiptsKnown, OneSaved, SavedKept

\* A turn keeps every message, its own included.
LEMMA TurnKept ==
    ASSUME KeptInv, NEW t \in Tab, NEW m \in Text, NEW i \in Id, Turn(t, m, i),
           \A e \in outbox : e.command.id = i => e.command.text = m,
           UNCHANGED <<turns, rejected>>, \A u \in Tab : call[u].stage # "saved"
    PROVE  CallsInv' /\ KeptUntilKnown'
<1>1. /\ TypeInv /\ OutboxOK(outbox) /\ CallsInv /\ KeptUntilKnown
      /\ call \in [Tab -> Call] /\ meant \in [Text -> SUBSET Session]
      /\ bound[t] \in Session \cup {None}
  BY DEF KeptInv, AimInv, OutboxInv, NamesInv, TypeInv
<1>2. ASSUME NEW c, NEW s, NEW f, Dispatch(t, c, s, Shown(m, i), f),
             \A e \in outbox : e.command.id = c.id => e.command.text = c.text,
             f = NoCommand \/ \A e \in outbox : e.command.id # c.id,
             c.text = m \/ (f # NoCommand /\ f.text = m),
             \A n \in Text : n # m => meant'[n] = meant[n]
      PROVE  CallsInv' /\ KeptUntilKnown'
  <2>1. outbox' = savePendingRemoteCommand(outbox, c, t, f)
    BY <1>2 DEF Dispatch
  <2>2. Holds(outbox', m) /\ \A n : Holds(outbox, n) => Holds(outbox', n)
    BY <1>1, <1>2, <2>1, SavedHolds
  <2>3. KeptUntilKnown'
    BY <1>1, <1>2, <2>2, StillKept
  <2>4. call'[t].stage = "sent" /\ \A u \in Tab : u # t => call'[u] = call[u]
    BY <1>1, <1>2 DEF Dispatch
  <2>5. CallsInv'
    BY <1>1, <2>4, CallsOf
  <2> QED BY <2>3, <2>5
<1>3. CASE bound[t] = None
  <2>1. PICK c \in UnusedCreates :
          /\ Dispatch(t, CreateCommand(c), None, Shown(m, i), Send(None, m, i))
          /\ meant' = [meant EXCEPT ![m] = @ \cup {c}]
    BY <1>3 DEF Turn, startSession, FirstOf
  <2>2. CreateCommand(c).id = c /\ \A e \in outbox : e.command.id # c
    BY <2>1 DEF UnusedCreates, Occurring, CreateCommand
  <2>3. Send(None, m, i) # NoCommand /\ Send(None, m, i).text = m
    BY DEF Send, NoCommand
  <2>4. \A n \in Text : n # m => meant'[n] = meant[n]
    BY <1>1, <2>1
  <2> QED BY <1>2, <2>1, <2>2, <2>3, <2>4
<1>4. CASE bound[t] # None
  <2>1. /\ Dispatch(t, Send(bound[t], m, i), bound[t], Shown(m, i), NoCommand)
        /\ meant' = [meant EXCEPT ![m] = @ \cup {bound[t]}]
    BY <1>4 DEF Turn, dispatchTurn
  <2>2. Send(bound[t], m, i).text = m /\ Send(bound[t], m, i).id = i
    BY DEF Send
  <2>3. \A n \in Text : n # m => meant'[n] = meant[n]
    BY <1>1, <2>1
  <2> QED BY <1>2, <2>1, <2>2, <2>3
<1> QED BY <1>3, <1>4

LEMMA UsersKept ==
    ASSUME KeptInv, NEW t \in Tab, \A u \in Tab : call[u].stage # "saved",
           \/ \E m \in Text : submit(t, m)
           \/ tryAgain(t) \/ retryPending(t)
    PROVE  CallsInv' /\ KeptUntilKnown'
<1>1. /\ TypeInv /\ OutboxInv /\ OutboxOK(outbox) /\ CallsInv /\ KeptUntilKnown
      /\ call \in [Tab -> Call]
  BY DEF KeptInv, AimInv, OutboxInv, NamesInv, TypeInv
<1>2. ASSUME NEW m \in Text, submit(t, m) PROVE CallsInv' /\ KeptUntilKnown'
  <2>1. PICK i \in UnusedIds : Turn(t, m, i) /\ UNCHANGED <<turns, rejected>>
    BY <1>2 DEF submit, FirstOf, host
  <2>2. i \in Id /\ \A e \in outbox : e.command.id # i
    BY DEF UnusedIds, Occurring
  <2> QED BY <2>1, <2>2, TurnKept
<1>3. CASE tryAgain(t)
  <2>1. /\ Turn(t, starting[t].text, starting[t].id) /\ UNCHANGED <<turns, rejected>>
        /\ starting[t].text \in Text /\ starting[t].id \in Id
    BY <1>1, <1>3 DEF tryAgain, host, TypeInv, Message
  <2>2. ASSUME NEW e \in outbox, e.command.id = starting[t].id
        PROVE  e.command.text = starting[t].text
    <3>1. e.command \in CommandType /\ e.command \in Known /\ starting[t] \in Known
      BY <1>1, StoredIn, PaneIn DEF OutboxOK, Entry
    <3>2. e.command.text # None
      BY <2>1, <2>2, <3>1, CommandShape, NoneIsNoText, NamesAssumption
    <3> QED BY <1>1, <2>1, <2>2, <3>1, <3>2, NoneIsNoText
            DEF OutboxInv, NamesInv, OneIdentifier
  <2> QED BY <2>1, <2>2, TurnKept
<1>4. CASE retryPending(t)
  <2>1. /\ Dispatch(t, pending[t], bound[t], NotStarting, NoCommand)
        /\ UNCHANGED <<turns, rejected, meant>> /\ pending[t] \in CommandType
    BY <1>1, <1>4 DEF retryPending, host, history, TypeInv, Commands
  <2>2. \A e \in outbox : e.command.id = pending[t].id => e.command.text = pending[t].text
    BY <1>1, <2>1, Before, SameEntry
  <2>3. outbox' = savePendingRemoteCommand(outbox, pending[t], t, NoCommand)
    BY <2>1 DEF Dispatch
  <2>4. \A n : Holds(outbox, n) => Holds(outbox', n)
    BY <1>1, <2>2, <2>3, SavedHolds
  <2>5. call'[t].stage = "sent" /\ \A u \in Tab : u # t => call'[u] = call[u]
    BY <1>1, <2>1 DEF Dispatch
  <2>6. CallsInv'
    BY <1>1, <2>1, <2>5, CallsOf
  <2>7. KeptUntilKnown'
    BY <1>1, <2>1, <2>4, StillKept
  <2> QED BY <2>6, <2>7
<1> QED BY <1>2, <1>3, <1>4

LEMMA HostKept ==
    ASSUME KeptInv, \A u \in Tab : call[u].stage # "saved",
           (\E t \in Tab : Handle(t)) \/ (\E c \in late : HandleLate(c))
    PROVE  CallsInv' /\ KeptUntilKnown'
<1>1. TypeInv /\ CallsInv /\ KeptUntilKnown /\ call \in [Tab -> Call]
  BY DEF KeptInv, AimInv, OutboxInv, NamesInv, TypeInv
<1>2. UNCHANGED <<outbox, rejected, meant>>
  BY DEF Handle, HandleLate, desktop, history
<1>3. ASSUME NEW t \in Tab, Handle(t) PROVE CallsInv' /\ KeptUntilKnown'
  <2>1. PICK result \in {"receipt", "rejected"} :
          Handled(call[t].command, result) /\ call' = [call EXCEPT ![t].stage = result]
    BY <1>3 DEF Handle
  <2>2. /\ call'[t].stage = result /\ call'[t].command = call[t].command
        /\ \A u \in Tab : u # t => call'[u] = call[u]
    BY <1>1, <2>1 DEF Call
  <2>3. result = "receipt" /\ call[t].command.type = "send" => call[t].command \in turns'
    BY <2>1 DEF Handled, host
  <2>4. turns \subseteq turns'
    BY <2>1, HostGrows
  <2>5. CallsInv'
    BY <1>1, <2>1, <2>2, <2>3, <2>4, CallsOf
  <2> QED BY <1>1, <1>2, <2>4, <2>5, StillKept
<1>4. ASSUME NEW c \in late, HandleLate(c) PROVE CallsInv' /\ KeptUntilKnown'
  <2>1. turns \subseteq turns' /\ call' = call
    BY <1>4, HostGrows DEF HandleLate, desktop
  <2>2. CallsInv'
    BY <1>1, <2>1, CallsOf
  <2> QED BY <1>1, <1>2, <2>1, <2>2, StillKept
<1> QED BY <1>3, <1>4

\* An answer clears the entry of a message the host has, or has turned down.
LEMMA AnswerKept ==
    ASSUME KeptInv, NEW t \in Tab, \A u \in Tab : call[u].stage # "saved",
           TimesOut(t) \/ Rejected(t) \/ Confirmed(t)
    PROVE  CallsInv' /\ KeptUntilKnown'
<1> DEFINE c == call[t]
<1>1. /\ TypeInv /\ OutboxInv /\ OutboxOK(outbox) /\ CallsInv /\ KeptUntilKnown
      /\ call \in [Tab -> Call] /\ \A e \in outbox : AimedEntry(e, meant)
  BY DEF KeptInv, AimInv, AllAimed, OutboxInv, NamesInv, TypeInv
<1>2. /\ call' = [call EXCEPT ![t] = NoCall] /\ UNCHANGED <<turns, meant>>
      /\ c.stage # "none"
  BY DEF TimesOut, Rejected, Confirmed, host, history
<1>3. CallsInv'
  <2>1. call'[t].stage = "none" /\ \A u \in Tab : u # t => call'[u] = call[u]
    BY <1>1, <1>2 DEF NoCall
  <2> QED BY <1>1, <1>2, <2>1, CallsOf
<1>4. c.command \in CommandType /\ Seen(c.command, Known)
  BY <1>1, <1>2, CallParts, Before
<1>5. CASE UNCHANGED <<outbox, rejected>>
  BY <1>1, <1>2, <1>3, <1>5, StillKept
<1>6. CASE /\ outbox' = clearPendingRemoteCommand(outbox, c.command.id)
           /\ rejected' = rejected \cup
                 ({c.command.text, pendingRemoteFollowup(outbox, c.command.id).text} \ {None})
  <2>1. ASSUME NEW m \in Text, Holds(outbox, m) PROVE m \in rejected' \/ Holds(outbox', m)
    <3>1. PICK e \in outbox : m \in {e.command.text, e.followup.text}
      BY <2>1 DEF Holds
    <3>2. CASE e.command.id # c.command.id
      BY <1>6, <3>1, <3>2 DEF Holds, clearPendingRemoteCommand
    <3>3. CASE e.command.id = c.command.id
      BY <1>1, <1>4, <1>6, <3>1, <3>3, SameEntry, FollowupIs, NoneIsNoText
    <3> QED BY <3>2, <3>3
  <2> QED BY <1>1, <1>2, <1>3, <1>6, <2>1, StillKept
<1>7. CASE Confirmed(t)
  <2>1. /\ outbox' = clearPendingRemoteCommand(outbox, c.command.id) /\ rejected' = rejected
        /\ c.command.type = "send" /\ c.stage = "receipt"
    BY <1>7 DEF Confirmed, history
  <2>2. c.command \in turns'
    BY <1>1, <1>2, <2>1 DEF CallsInv, ReceiptsKnown
  <2>3. ASSUME NEW m \in Text, Holds(outbox, m)
        PROVE  (\E p \in turns' : p.text = m) \/ Holds(outbox', m)
    <3>1. PICK e \in outbox : m \in {e.command.text, e.followup.text}
      BY <2>3 DEF Holds
    <3>2. CASE e.command.id # c.command.id
      BY <2>1, <3>1, <3>2 DEF Holds, clearPendingRemoteCommand
    <3>3. CASE e.command.id = c.command.id
      <4>1. e.command.text = c.command.text /\ c.command.text \in Text
        BY <1>1, <1>4, <2>1, <3>3, SameEntry, CommandShape
      <4>2. e.command \in CommandType
        BY <1>1 DEF OutboxOK, Entry
      <4>3. e.command.type # "create"
        BY <4>1, <4>2, CommandShape, NoneIsNoText
      <4>4. e.followup = NoCommand
        BY <1>1, <4>3 DEF AimedEntry
      <4> QED BY <2>2, <3>1, <4>1, <4>4, Nothing, NoneIsNoText
    <3> QED BY <3>2, <3>3
  <2> QED BY <1>1, <1>2, <1>3, <2>1, <2>3, StillKept
<1> QED BY <1>5, <1>6, <1>7 DEF TimesOut, Rejected, history

\* The first message gets an entry of its own before its create's goes.
LEMMA SaveFollowupKept ==
    ASSUME KeptInv, NEW t \in Tab, \A u \in Tab : call[u].stage # "saved", SaveFollowup(t)
    PROVE  CallsInv' /\ KeptUntilKnown'
<1> DEFINE id == call[t].command.id
           next == pendingRemoteFollowup(outbox, id)
<1>1. /\ TypeInv /\ OutboxInv /\ OutboxOK(outbox) /\ CallsInv /\ KeptUntilKnown
      /\ call \in [Tab -> Call]
  BY DEF KeptInv, AimInv, OutboxInv, NamesInv, TypeInv
<1>2. /\ call' = [call EXCEPT ![t].stage = "saved"] /\ UNCHANGED <<turns, rejected, meant>>
      /\ call[t].stage # "none" /\ call[t].command.type = "create"
  BY DEF SaveFollowup, host, history
<1>3. /\ call'[t].stage = "saved" /\ call'[t].command = call[t].command
      /\ \A u \in Tab : u # t => call'[u] = call[u]
  BY <1>1, <1>2 DEF Call
<1>4. id \in Session
  BY <1>1, <1>2, CallParts, CommandShape DEF Session
<1>5. ReceiptsKnown' /\ OneSaved'
  BY <1>1, <1>2, <1>3 DEF CallsInv, ReceiptsKnown, OneSaved
<1>6. /\ \A n : Holds(outbox, n) => Holds(outbox', n)
      /\ \A e \in outbox' : e.command.id = id /\ e.followup # NoCommand =>
            \E o \in outbox' : o.command.text = e.followup.text
  <2>1. CASE next = NoCommand
    <3>1. outbox' = outbox
      BY <2>1 DEF SaveFollowup
    <3> QED BY <1>1, <2>1, <3>1, FollowupIs
  <2>2. CASE next # NoCommand
    <3>1. /\ next \in CommandType /\ next.type = "send"
          /\ \E e \in outbox : next = e.followup
      BY <1>1, <2>2, FollowupFound DEF Commands
    <3>2. outbox' = savePendingRemoteCommand(outbox, Followup(t, next), t, NoCommand)
      BY <2>2 DEF SaveFollowup
    <3>3. \A e \in outbox : e.command.id = id => e.followup = next
      BY <1>1, FollowupIs
    <3> HIDE DEF next
    <3>4. /\ Followup(t, next) \in CommandType /\ Followup(t, next).type = "send"
          /\ Followup(t, next).text = next.text /\ Followup(t, next).id = next.id
      BY <1>4, <3>1, Addressed DEF Followup
    <3>5. Seen(Followup(t, next), Known)
      BY <3>1, <3>4, StoredIn DEF Seen
    <3> DEFINE saved == Followup(t, next)
    <3>6. saved.id # id
      BY <1>4, <3>4, CommandShape, NamesAssumption DEF Session
    <3> HIDE DEF saved
    <3>7. \A e \in outbox : e.command.id = saved.id => e.command.text = saved.text
      BY <1>1, <3>4, <3>5, SameEntry DEF saved
    <3>8. \A n : Holds(outbox, n) => Holds(outbox', n)
      BY <1>1, <3>2, <3>7, SavedHolds DEF saved
    <3>9. /\ \E o \in outbox' : o.command = saved
          /\ \A e \in outbox' : e.command = saved \/ e \in outbox
      <4> DEFINE new == [command |-> saved, shell |-> t,
                         followup |-> pendingRemoteFollowup(outbox, saved.id)]
      <4>1. outbox' = {e \in outbox : e.command.id # saved.id} \cup {new}
        BY <3>2 DEF savePendingRemoteCommand, saved
      <4>2. new.command = saved
        OBVIOUS
      <4> HIDE DEF new
      <4> QED BY <4>1, <4>2
    <3>10. saved.text = next.text
      BY <3>4 DEF saved
    <3> QED BY <3>3, <3>6, <3>8, <3>9, <3>10
  <2> QED BY <2>1, <2>2
<1>7. SavedKept'
  BY <1>3, <1>6 DEF SavedKept
<1>8. KeptUntilKnown'
  BY <1>1, <1>2, <1>6, StillKept
<1> QED BY <1>5, <1>7, <1>8 DEF CallsInv

LEMMA OpenedKept ==
    ASSUME KeptInv, NEW t \in Tab, Opened(t) PROVE CallsInv' /\ KeptUntilKnown'
<1> DEFINE c == call[t]
           box == clearPendingRemoteCommand(outbox, c.command.id)
<1>1. /\ TypeInv /\ OutboxInv /\ OutboxOK(outbox) /\ CallsInv /\ KeptUntilKnown
      /\ call \in [Tab -> Call] /\ call[t] \in Call
  BY DEF KeptInv, AimInv, OutboxInv, NamesInv, TypeInv
<1>2. /\ c.stage = "saved" /\ UNCHANGED <<turns, rejected, meant>>
  BY DEF Opened, host, history
<1>3. OutboxOK(box) /\ box \subseteq outbox
  BY <1>1, ClearedEntries
<1>4. c.command \in CommandType /\ c.command.type = "create" /\ Seen(c.command, Known)
  BY <1>1, <1>2, CallParts, Before
<1>5. c.command.text = None
  BY <1>4, CommandShape
<1>6. ASSUME NEW m \in Text, Holds(outbox, m) PROVE Holds(box, m)
  <2>1. PICK e \in outbox : m \in {e.command.text, e.followup.text}
    BY <1>6 DEF Holds
  <2>2. CASE e.command.id # c.command.id
    BY <2>1, <2>2 DEF Holds, clearPendingRemoteCommand
  <2>3. CASE e.command.id = c.command.id
    <3>1. e.command.text = None
      BY <1>1, <1>4, <1>5, <2>3, SameEntry
    <3>2. e.followup.text = m /\ e.followup # NoCommand
      BY <2>1, <3>1, Nothing, NoneIsNoText
    <3>3. PICK o \in outbox : o.command.text = m
      BY <1>1, <1>2, <2>3, <3>2 DEF CallsInv, SavedKept
    <3>4. o.command.id # c.command.id
      BY <1>1, <1>4, <1>5, <3>3, SameEntry, NoneIsNoText
    <3> QED BY <3>3, <3>4 DEF Holds, clearPendingRemoteCommand
  <2> QED BY <2>2, <2>3
<1>7. (\A m \in Text : Holds(outbox, m) => Holds(outbox', m)) => KeptUntilKnown'
  BY <1>1, <1>2, StillKept
<1>8. (/\ call'[t].stage \in {"none", "sent"}
       /\ \A u \in Tab : u # t => call'[u] = call[u]) => CallsInv'
  <2>1. \A u \in Tab : u # t => call[u].stage # "saved"
    BY <1>1, <1>2 DEF CallsInv, OneSaved
  <2> QED BY <1>1, <1>2, <2>1, CallsOf
<1>9. CASE outbox' = box /\ call' = [call EXCEPT ![t] = NoCall]
  <2>1. call'[t].stage = "none" /\ \A u \in Tab : u # t => call'[u] = call[u]
    BY <1>1, <1>9 DEF NoCall
  <2> QED BY <1>6, <1>7, <1>8, <1>9, <2>1
<1>10. ASSUME NEW next \in ToSend(c, box), c.fresh, next # NoCommand,
              outbox' = savePendingRemoteCommand(box, next, t, NoCommand),
              call' = [call EXCEPT ![t] = [@ EXCEPT !.command = next, !.stage = "sent"]]
       PROVE  CallsInv' /\ KeptUntilKnown'
  <2>1. next \in CommandType /\ Seen(next, Known)
    BY <1>1, <1>2, <1>3, <1>10, NextMessage DEF Commands
  <2>2. \A e \in box : e.command.id = next.id => e.command.text = next.text
    BY <1>1, <1>3, <2>1, SameEntry
  <2> HIDE DEF box
  <2>3. \A m : Holds(box, m) => Holds(outbox', m)
    BY <1>3, <1>10, <2>2, SavedHolds
  <2>4. call'[t].stage = "sent" /\ \A u \in Tab : u # t => call'[u] = call[u]
    BY <1>1, <1>10 DEF Call
  <2> QED BY <1>6, <1>7, <1>8, <2>3, <2>4
<1> QED BY <1>9, <1>10 DEF Opened

LEMMA PanesKept ==
    ASSUME KeptInv,
           \/ Reload
           \/ /\ \A u \in Tab : call[u].stage # "saved"
              /\ \E t \in Tab : Poll(t) \/ \E s \in Session \cup {None} : Rebind(t, s)
    PROVE  CallsInv' /\ KeptUntilKnown'
<1>1. CallsInv /\ KeptUntilKnown /\ call \in [Tab -> Call]
  BY DEF KeptInv, AimInv, OutboxInv, NamesInv, TypeInv
<1>2. UNCHANGED <<outbox, turns, rejected, meant>>
  BY DEF Reload, Poll, Rebind, host, history
<1>3. KeptUntilKnown'
  BY <1>1, <1>2, StillKept
<1>4. CASE Reload
  <2>1. \A u \in Tab : call'[u].stage = "none"
    BY <1>4 DEF Reload, NoCall
  <2> QED BY <1>1, <1>2, <1>3, <2>1, CallsOf
<1>5. ASSUME \A u \in Tab : call[u].stage # "saved",
             \A u \in Tab : call'[u].stage = call[u].stage /\ call'[u].command = call[u].command
      PROVE  CallsInv' /\ KeptUntilKnown'
  BY <1>1, <1>2, <1>3, <1>5, CallsOf
<1>6. ASSUME NEW t \in Tab, Poll(t), \A u \in Tab : call[u].stage # "saved"
      PROVE  CallsInv' /\ KeptUntilKnown'
  BY <1>5, <1>6 DEF Poll
<1>7. ASSUME NEW t \in Tab, NEW s \in Session \cup {None}, Rebind(t, s),
             \A u \in Tab : call[u].stage # "saved"
      PROVE  CallsInv' /\ KeptUntilKnown'
  <2>1. call' = [call EXCEPT ![t].fresh = FALSE]
    BY <1>7 DEF Rebind
  <2>2. \A u \in Tab : call'[u].stage = call[u].stage /\ call'[u].command = call[u].command
    BY <1>1, <2>1 DEF Call
  <2> QED BY <1>5, <1>7, <2>2
<1> QED BY <1>4, <1>6, <1>7

LEMMA NextKept == ASSUME KeptInv, [Next]_vars PROVE KeptInv'
<1>1. AimInv'
  BY NextStep, NextAimed DEF KeptInv, AimInv
<1>2. CASE UNCHANGED vars
  <2>1. UNCHANGED <<outbox, call, turns, rejected, meant>>
    BY <1>2 DEF vars, desktop, host, history
  <2> QED BY <1>1, <2>1 DEF KeptInv, CallsInv, ReceiptsKnown, OneSaved, SavedKept, KeptUntilKnown
<1>3. CASE Next
  <2>1. CallsInv' /\ KeptUntilKnown'
    BY <1>3, UsersKept, HostKept, AnswerKept, SaveFollowupKept, OpenedKept, PanesKept DEF Next
  <2> QED BY <1>1, <2>1 DEF KeptInv
<1> QED BY <1>2, <1>3

\* A message that was sent is known to the host, was turned down, or is in
\* local storage: no crash, timeout, late answer or change of panes drops one
\* whose fate is unknown, and the first message of a conversation is not lost
\* with the command that creates it.
THEOREM SentIsKept == Spec => []KeptUntilKnown
<1>1. Init => KeptInv
  <2> SUFFICES ASSUME Init PROVE KeptInv
    OBVIOUS
  <2>1. AimInv
    BY InitAimed
  <2>2. CallsInv
    BY DEF Init, NoCall, CallsInv, ReceiptsKnown, OneSaved, SavedKept
  <2>3. KeptUntilKnown
    BY DEF Init, KeptUntilKnown
  <2> QED BY <2>1, <2>2, <2>3 DEF KeptInv
<1>2. KeptInv /\ [Next]_vars => KeptInv'
  BY NextKept
<1>3. KeptInv => KeptUntilKnown
  BY DEF KeptInv
<1> QED BY <1>1, <1>2, <1>3, PTL DEF Spec

-----------------------------------------------------------------------------
(* What is unconfirmed is offered for retry *)

IsCreate(c) == c.type = "create"
\* An entry hides behind a later message for its session.
Behind(e) == \E m \in Text : m > e.command.text /\ e.command.session \in meant[m]
\* No message was written for the session before this one.
FirstFor(x, s) == \A n \in Text : s \in meant[n] => x <= n
\* A pane has a create command in local storage, or offers to retry it.
Creating(t, c) ==
    \/ \E e \in outbox : IsCreate(e.command) /\ e.command.id = c /\ e.shell = t
    \/ IsCreate(pending[t]) /\ pending[t].id = c

\* OfferedForRetry, also while the pane waits for an answer.
AllOffered ==
    \A e \in outbox : bound[e.shell] = e.command.session =>
        pending[e.shell] # NoCommand \/ Behind(e)
\* A pane creates one session at a time, and does not show it yet.
OneCreate ==
    /\ \A e \in outbox : IsCreate(e.command) => bound[e.shell] # e.command.id
    /\ \A e, f \in outbox :
          IsCreate(e.command) /\ IsCreate(f.command) /\ e.shell = f.shell => e = f
    /\ \A t \in Tab : IsCreate(call[t].command) =>
          \E e \in outbox : e.command = call[t].command /\ e.shell = t
\* A pane offers what was sent to its session, or its own create.
OffersOwn ==
    /\ \A t \in Tab : IsCreate(pending[t]) =>
          /\ bound[t] = None
          /\ \A e \in outbox : IsCreate(e.command) =>
                (e.shell = t <=> e.command.id = pending[t].id)
          /\ \A u \in Tab : IsCreate(pending[u]) /\ pending[u].id = pending[t].id => u = t
    /\ \A t \in Tab : pending[t].type = "send" => pending[t].session = bound[t]
\* The operation of a pane that was not rebound is about the session it shows;
\* one that went on from a create left nothing else in front.
CallFollows(t) ==
    call[t].fresh =>
        /\ call[t].command # NoCommand
        /\ IsCreate(call[t].command) => call[t].from = None /\ bound[t] = None
        /\ call[t].command.type = "send" =>
              /\ bound[t] = call[t].command.session
              /\ \/ call[t].from = bound[t]
                 \/ /\ call[t].from = None
                    /\ \A e \in outbox : e.shell = t =>
                          /\ ~ IsCreate(e.command)
                          /\ e.command.session = bound[t] =>
                                e.command.id = call[t].command.id \/ Behind(e)
\* The first message of a session that is being created is the first.
InOrder ==
    /\ \A e \in outbox : IsCreate(e.command) /\ e.followup # NoCommand =>
          FirstFor(e.followup.text, e.command.id)
    /\ \A e \in outbox : e.command.type = "send" /\ Creating(e.shell, e.command.session) =>
          FirstFor(e.command.text, e.command.session)
    /\ \A m, n \in Text : meant[m] # {} /\ n < m => meant[n] # {}
\* The message a pane shows was written for its session, or for the one it is
\* creating.
ShownThere ==
    \A t \in Tab :
        /\ starting[t].text # None =>
              /\ bound[t] # None => bound[t] \in meant[starting[t].text]
              /\ \A c \in Create : bound[t] = None /\ Creating(t, c) =>
                    c \in meant[starting[t].text]
        /\ call[t].fresh /\ call[t].turn # NotStarting /\ bound[t] # None =>
              bound[t] \in meant[call[t].turn.text]

PanesInv == /\ AllOffered /\ OneCreate /\ OffersOwn /\ InOrder /\ ShownThere
            /\ \A t \in Tab : CallFollows(t)
RetryInv == AimInv /\ PanesInv

LEMMA NoneIsNoSession == None \notin Session /\ None \notin Create
BY NamesAssumption DEF None, Session

\* What is stored is typed, and a message is written for its session.
LEMMA EntryParts ==
    ASSUME AimInv, NEW e \in outbox
    PROVE  /\ e.command \in CommandType /\ e.shell \in Tab /\ e.followup \in Commands
           /\ IsCreate(e.command) => /\ e.command.id \in Create
                                     /\ e.command.session = None
           /\ ~ IsCreate(e.command) =>
                 /\ e.command.type = "send" /\ e.command.id \in Id
                 /\ e.command.text \in Text
                 /\ e.command.session \in Session
                 /\ e.command.session \in meant[e.command.text]
           /\ e.followup # NoCommand =>
                 /\ IsCreate(e.command) /\ e.followup.text \in Text
                 /\ e.command.id \in meant[e.followup.text]
<1>1. e \in Entry /\ AimedEntry(e, meant) /\ meant \in [Text -> SUBSET Session]
  BY DEF AimInv, AllAimed, OutboxInv, NamesInv, TypeInv, OutboxOK
<1>2. e.command \in CommandType /\ e.shell \in Tab /\ e.followup \in Commands
  BY <1>1 DEF Entry
<1> QED BY <1>1, <1>2, CommandShape DEF AimedEntry, Aimed, IsCreate

\* An identifier stands for one entry.
LEMMA OneEntry ==
    ASSUME AimInv, NEW e \in outbox, NEW f \in outbox, e.command.id = f.command.id
    PROVE  e = f
BY DEF AimInv, OutboxInv, NamesInv, TypeInv, OutboxOK

\* What a pane looks for.
Fits(e, s, t) ==
    IF s = None THEN IsCreate(e.command) /\ e.shell = t
    ELSE e.command.type = "send" /\ e.command.session = s
LEMMA LookedUp ==
    ASSUME NEW box, NEW s, NEW t
    PROVE  /\ \/ pendingRemoteCommand(box, s, t) = NoCommand
              \/ \E e \in box : Fits(e, s, t) /\ pendingRemoteCommand(box, s, t) = e.command
           /\ pendingRemoteCommand(box, s, t) = NoCommand =>
                 \A e \in box : ~ Fits(e, s, t)
<1> DEFINE found == {e \in box : Fits(e, s, t)}
<1>1. pendingRemoteCommand(box, s, t) =
        IF found = {} THEN NoCommand ELSE (CHOOSE e \in found : TRUE).command
  BY DEF pendingRemoteCommand, Fits, IsCreate
<1>2. CASE found = {}
  BY <1>1, <1>2
<1>3. CASE found # {}
  <2>1. PICK e \in found : pendingRemoteCommand(box, s, t) = e.command
    BY <1>1, <1>3
  <2>2. e.command # NoCommand
    BY <2>1 DEF Fits, IsCreate, NoCommand
  <2> QED BY <2>1, <2>2
<1> QED BY <1>2, <1>3

\* What a pane finds is its own, when a pane creates one session at a time.
LEMMA FoundIsOwn ==
    ASSUME NEW box, OutboxOK(box), NEW s, NEW t,
           \A e, f \in box :
              IsCreate(e.command) /\ IsCreate(f.command) /\ e.shell = f.shell => e = f
    PROVE  LET p == pendingRemoteCommand(box, s, t) IN
           /\ IsCreate(p) =>
                 /\ s = None
                 /\ \A e \in box : IsCreate(e.command) =>
                       (e.shell = t <=> e.command.id = p.id)
                 /\ \E e \in box : IsCreate(e.command) /\ e.shell = t /\ e.command.id = p.id
           /\ p.type = "send" => p.session = s
<1> DEFINE p == pendingRemoteCommand(box, s, t)
<1>1. CASE p = NoCommand
  BY <1>1 DEF IsCreate, NoCommand
<1>2. CASE p # NoCommand
  <2>1. PICK e \in box : Fits(e, s, t) /\ p = e.command
    BY <1>2, LookedUp
  <2> HIDE DEF p
  <2>2. p.type = "send" => p.session = s
    BY <2>1 DEF Fits, IsCreate
  <2>3. IsCreate(p) => s = None /\ e.shell = t /\ IsCreate(e.command) /\ e.command.id = p.id
    BY <2>1 DEF Fits, IsCreate
  <2>4. ASSUME IsCreate(p), NEW f \in box, IsCreate(f.command)
        PROVE  f.shell = t <=> f.command.id = p.id
    BY <2>1, <2>3, <2>4 DEF OutboxOK
  <2> QED BY <2>2, <2>3, <2>4 DEF p
<1> QED BY <1>1, <1>2

\* A pane whose operation is about a message, and that creates a session,
\* creates the session the message is for.
LEMMA CreatesForTurn ==
    ASSUME RetryInv, NEW t \in Tab, bound[t] = None, call[t].fresh,
           call[t].turn # NotStarting, NEW c, Creating(t, c)
    PROVE  c \in meant[call[t].turn.text]
<1> USE DEF RetryInv, PanesInv
<1>1. /\ AimedCall(call[t], meant) /\ call[t].command \in Commands
      /\ meant \in [Text -> SUBSET Session]
  BY CallParts DEF AimInv, AllAimed, OutboxInv, NamesInv, TypeInv
<1>2. IsCreate(call[t].command)
  <2>1. IsCreate(call[t].command) \/ call[t].command.type = "send"
    BY <1>1, CommandShape DEF Commands, IsCreate, CallFollows
  <2>2. ASSUME call[t].command.type = "send" PROVE FALSE
    <3>1. call[t].command.session \in Session
      BY <1>1, <2>2 DEF AimedCall, Aimed
    <3> QED BY <2>2, <3>1, NoneIsNoSession DEF CallFollows
  <2> QED BY <2>1, <2>2
<1>3. PICK e \in outbox : e.command = call[t].command /\ e.shell = t
  BY <1>2 DEF OneCreate
<1>4. c = call[t].command.id
  <2>1. CASE \E f \in outbox : IsCreate(f.command) /\ f.command.id = c /\ f.shell = t
    BY <1>2, <1>3, <2>1 DEF OneCreate
  <2>2. CASE IsCreate(pending[t]) /\ pending[t].id = c
    BY <1>2, <1>3, <2>2 DEF OffersOwn
  <2> QED BY <2>1, <2>2 DEF Creating
<1> QED BY <1>1, <1>2, <1>4 DEF AimedCall, IsCreate

\* A pane keeps what it offers, looks it up, or finds nothing but what hides.
Settled(u) ==
    \/ pending'[u] = pending[u] /\ bound'[u] = bound[u]
    \/ pending'[u] = pendingRemoteCommand(outbox', bound'[u], u)
    \/ /\ pending'[u] = NoCommand /\ bound'[u] = bound[u]
       /\ \A e \in outbox' : e.shell = u /\ e.command.session = bound[u] => Behind(e)

\* What a step must show that stores and sends nothing.
LEMMA Settling ==
    ASSUME RetryInv, AimInv', outbox' \subseteq outbox, meant' = meant,
           \A u \in Tab : Settled(u),
           \A u \in Tab :
              \/ call'[u] = NoCall
              \/ /\ call'[u].command = call[u].command /\ call'[u].from = call[u].from
                 /\ call'[u].turn = call[u].turn
                 /\ call'[u].fresh => call[u].fresh /\ bound'[u] = bound[u]
                 /\ \A e \in outbox : IsCreate(e.command) /\ e.command = call[u].command
                        => e \in outbox',
           \A u \in Tab :
              bound'[u] = bound[u]
              \/ \A e \in outbox : e.shell = u => e.command.id # bound'[u],
           \A u \in Tab :
              \/ starting'[u].text = None
              \/ /\ bound'[u] = bound[u]
                 /\ \/ starting'[u].text = starting[u].text
                    \/ /\ call[u].fresh /\ call[u].turn # NotStarting
                       /\ starting'[u].text = call[u].turn.text
    PROVE  PanesInv'
<1> USE DEF RetryInv, PanesInv
<1>1. /\ \A e \in outbox' : e \in outbox /\ (Behind(e) => Behind(e)')
      /\ \A u \in Tab : bound[u] \in Session \cup {None} /\ bound'[u] \in Session \cup {None}
      /\ None \notin Session /\ None \notin Create
  BY NoneIsNoSession DEF Behind, AimInv, OutboxInv, NamesInv, TypeInv
<1>2. \A e \in outbox : /\ e.shell \in Tab
                        /\ IsCreate(e.command) => /\ e.command.id \in Create
                                                  /\ e.command.session = None
                        /\ ~ IsCreate(e.command) => /\ e.command.type = "send"
                                                    /\ e.command.session \in Session
  BY EntryParts
<1>3. \A u \in Tab : \A c : Creating(u, c)' => Creating(u, c)
  <2> SUFFICES ASSUME NEW u \in Tab, NEW c, Creating(u, c)'
               PROVE  Creating(u, c)
    OBVIOUS
  <2>1. CASE \E e \in outbox' : IsCreate(e.command) /\ e.command.id = c /\ e.shell = u
    BY <1>1, <2>1 DEF Creating
  <2>2. CASE IsCreate(pending'[u]) /\ pending'[u].id = c
    <3>1. pending'[u] # NoCommand
      BY <2>2 DEF IsCreate, NoCommand
    <3>2. CASE pending'[u] = pending[u]
      BY <2>2, <3>2 DEF Creating
    <3>3. CASE pending'[u] = pendingRemoteCommand(outbox', bound'[u], u)
      <4>1. PICK e \in outbox' : Fits(e, bound'[u], u) /\ pending'[u] = e.command
        BY <3>1, <3>3, LookedUp
      <4> QED BY <1>1, <2>2, <4>1 DEF Fits, IsCreate, Creating
    <3> QED BY <3>1, <3>2, <3>3 DEF Settled
  <2> QED BY <2>1, <2>2 DEF Creating
<1>4. AllOffered'
  <2> SUFFICES ASSUME NEW e \in outbox', bound'[e.shell] = e.command.session
               PROVE  pending'[e.shell] # NoCommand \/ Behind(e)'
    BY DEF AllOffered
  <2>1. CASE pending'[e.shell] = pending[e.shell] /\ bound'[e.shell] = bound[e.shell]
    BY <1>1, <2>1 DEF AllOffered
  <2>2. CASE pending'[e.shell] = pendingRemoteCommand(outbox', bound'[e.shell], e.shell)
    <3>1. Fits(e, bound'[e.shell], e.shell)
      BY <1>1, <1>2 DEF Fits
    <3> QED BY <2>2, <3>1, LookedUp
  <2> QED BY <1>1, <1>2, <2>1, <2>2 DEF Settled
<1>5. OneCreate'
  <2>1. \A e \in outbox' : IsCreate(e.command) => bound'[e.shell] # e.command.id
    BY <1>1, <1>2 DEF OneCreate
  <2>2. \A t \in Tab : IsCreate(call'[t].command) =>
          \E e \in outbox' : e.command = call'[t].command /\ e.shell = t
    BY Nothing DEF OneCreate, IsCreate, NoCommand
  <2> QED BY <1>1, <2>1, <2>2 DEF OneCreate
<1>6. OffersOwn'
  <2>1. ASSUME NEW t \in Tab, pending'[t] = pendingRemoteCommand(outbox', bound'[t], t)
        PROVE  /\ IsCreate(pending'[t]) =>
                     /\ bound'[t] = None
                     /\ \A e \in outbox' : IsCreate(e.command) =>
                           (e.shell = t <=> e.command.id = pending'[t].id)
                     /\ \E e \in outbox' : /\ IsCreate(e.command) /\ e.shell = t
                                           /\ e.command.id = pending'[t].id
               /\ pending'[t].type = "send" => pending'[t].session = bound'[t]
    <3>1. OutboxOK(outbox')
      BY DEF AimInv, OutboxInv, NamesInv, TypeInv
    <3> QED BY <1>5, <2>1, <3>1, FoundIsOwn DEF OneCreate
  <2>2. ASSUME NEW t \in Tab
        PROVE  /\ IsCreate(pending'[t]) =>
                     /\ bound'[t] = None
                     /\ \A e \in outbox' : IsCreate(e.command) =>
                           (e.shell = t <=> e.command.id = pending'[t].id)
                     /\ \/ pending'[t] = pending[t]
                        \/ \E e \in outbox' : /\ IsCreate(e.command) /\ e.shell = t
                                              /\ e.command.id = pending'[t].id
               /\ pending'[t].type = "send" => pending'[t].session = bound'[t]
    <3>1. CASE pending'[t] = pending[t] /\ bound'[t] = bound[t]
      BY <1>1, <3>1 DEF OffersOwn
    <3>2. CASE pending'[t] = NoCommand
      BY <3>2 DEF IsCreate, NoCommand
    <3> QED BY <2>1, <3>1, <3>2 DEF Settled
  <2>3. ASSUME NEW t \in Tab, NEW u \in Tab, IsCreate(pending'[t]), IsCreate(pending'[u]),
               pending'[u].id = pending'[t].id
        PROVE  u = t
    <3>1. CASE pending'[t] = pending[t] /\ pending'[u] = pending[u]
      BY <2>3, <3>1 DEF OffersOwn
    <3>2. CASE pending'[t] # pending[t]
      BY <2>2, <2>3, <3>2
    <3>3. CASE pending'[u] # pending[u]
      BY <2>2, <2>3, <3>3
    <3> QED BY <3>1, <3>2, <3>3
  <2> QED BY <2>2, <2>3 DEF OffersOwn
<1>7. InOrder'
  <2>1. \A x, s : FirstFor(x, s)' <=> FirstFor(x, s)
    BY DEF FirstFor
  <2>2. \A e \in outbox' : Creating(e.shell, e.command.session)' =>
            Creating(e.shell, e.command.session)
    BY <1>1, <1>2, <1>3
  <2> QED BY <1>1, <2>1, <2>2 DEF InOrder
<1>8. ASSUME NEW t \in Tab PROVE CallFollows(t)'
  BY <1>1 DEF CallFollows, NoCall
<1>9. ShownThere'
  <2> SUFFICES ASSUME NEW t \in Tab
               PROVE  /\ starting'[t].text # None =>
                            /\ bound'[t] # None => bound'[t] \in meant[starting'[t].text]
                            /\ \A c \in Create : bound'[t] = None /\ Creating(t, c)' =>
                                  c \in meant[starting'[t].text]
                      /\ call'[t].fresh /\ call'[t].turn # NotStarting /\ bound'[t] # None =>
                            bound'[t] \in meant[call'[t].turn.text]
    BY DEF ShownThere
  <2>1. call'[t].fresh /\ call'[t].turn # NotStarting /\ bound'[t] # None =>
            bound'[t] \in meant[call'[t].turn.text]
    BY Nothing DEF ShownThere
  <2>2. CASE bound'[t] = bound[t] /\ starting'[t].text = starting[t].text
    BY <1>3, <2>1, <2>2 DEF ShownThere
  <2>3. CASE /\ bound'[t] = bound[t] /\ call[t].fresh /\ call[t].turn # NotStarting
             /\ starting'[t].text = call[t].turn.text
    BY <1>3, <2>1, <2>3, CreatesForTurn DEF ShownThere
  <2> QED BY <2>1, <2>2, <2>3
<1> QED BY <1>4, <1>5, <1>6, <1>7, <1>8, <1>9

\* The entry of a create that another pane waits for has an identifier of its own.
LEMMA OthersEntry ==
    ASSUME RetryInv, NEW t \in Tab, NEW u \in Tab, u # t,
           NEW e \in outbox, IsCreate(e.command), e.command = call[u].command
    PROVE  e.command.id # call[t].command.id
<1> USE DEF RetryInv, PanesInv
<1>1. e.command.id \in Create /\ call[t].command \in Commands
  BY EntryParts, CallParts DEF AimInv, OutboxInv, NamesInv
<1>2. CASE IsCreate(call[t].command)
  <2>1. PICK f \in outbox : f.command = call[t].command /\ f.shell = t
    BY <1>2 DEF OneCreate
  <2>2. PICK g \in outbox : g.command = call[u].command /\ g.shell = u
    BY DEF OneCreate
  <2> QED BY <2>1, <2>2, OneEntry
<1>3. CASE call[t].command = NoCommand
  BY <1>1, <1>3, NoneIsNoSession DEF NoCommand
<1>4. CASE call[t].command \in CommandType /\ ~ IsCreate(call[t].command)
  BY <1>1, <1>4, CommandShape, NamesAssumption DEF IsCreate
<1> QED BY <1>1, <1>2, <1>3, <1>4 DEF Commands

\* The answer to a call, or none: the call is over, and its entry may be gone.
LEMMA Answered ==
    ASSUME RetryInv, AimInv', NEW t \in Tab, meant' = meant, bound' = bound,
           outbox' = outbox \/ outbox' = clearPendingRemoteCommand(outbox, call[t].command.id),
           \A u \in Tab : u # t => pending'[u] = pending[u],
           \/ pending'[t] = pending[t]
           \/ /\ call[t].fresh
              /\ outbox' = clearPendingRemoteCommand(outbox, call[t].command.id)
              /\ pending'[t] = pendingRemoteCommand(outbox', call[t].from, t),
           call' = [call EXCEPT ![t] = NoCall], ShowFailed(t) \/ starting' = starting
    PROVE  PanesInv'
<1> USE DEF RetryInv, PanesInv
<1>1. TypeInv /\ call \in [Tab -> Call]
  BY DEF AimInv, OutboxInv, NamesInv, TypeInv
<1>2. outbox' \subseteq outbox
  BY DEF clearPendingRemoteCommand
<1>3. call'[t] = NoCall /\ \A u \in Tab : u # t => call'[u] = call[u]
  BY <1>1, Nothing, Updated
<1>4. ASSUME NEW u \in Tab, u # t, NEW e \in outbox, IsCreate(e.command),
             e.command = call[u].command
      PROVE  e \in outbox'
  BY <1>4, OthersEntry DEF clearPendingRemoteCommand
<1>5. \A u \in Tab :
         \/ starting'[u].text = starting[u].text
         \/ /\ call[u].fresh /\ call[u].turn # NotStarting
            /\ starting'[u].text = call[u].turn.text
  <2>1. CASE starting' = starting
    BY <2>1
  <2>2. CASE ShowFailed(t) /\ ~ (call[t].fresh /\ call[t].turn # NotStarting)
    BY <2>2 DEF ShowFailed
  <2>3. CASE ShowFailed(t) /\ call[t].fresh /\ call[t].turn # NotStarting
    <3>1. /\ \A u \in Tab : u # t => starting'[u] = starting[u]
          /\ \/ starting'[t] = starting[t]
             \/ starting'[t].text = OwnTurn(call[t]).text
      BY <1>1, <2>3, Failed
    <3> QED BY <2>3, <3>1 DEF OwnTurn
  <2> QED BY <2>1, <2>2, <2>3
<1>6. ASSUME NEW u \in Tab PROVE Settled(u)
  <2>1. CASE pending'[u] = pending[u]
    BY <2>1 DEF Settled
  <2>2. CASE /\ u = t /\ call[t].fresh
             /\ outbox' = clearPendingRemoteCommand(outbox, call[t].command.id)
             /\ pending'[t] = pendingRemoteCommand(outbox', call[t].from, t)
    <3>1. CASE call[t].from = bound[t]
      BY <2>2, <3>1 DEF Settled
    <3>2. CASE call[t].from # bound[t]
      <4>1. IsCreate(call[t].command) \/ call[t].command.type = "send"
        BY <1>1, <2>2, CallParts, CommandShape DEF CallFollows, Commands, IsCreate
      <4>2. /\ call[t].from = None
            /\ \A e \in outbox : e.shell = t =>
                  /\ ~ IsCreate(e.command)
                  /\ e.command.session = bound[t] =>
                        e.command.id = call[t].command.id \/ Behind(e)
        BY <2>2, <3>2, <4>1 DEF CallFollows
      <4>3. pending'[t] = NoCommand
        BY <1>2, <2>2, <4>2, LookedUp DEF Fits
      <4>4. \A e \in outbox' : e.command.id # call[t].command.id
        BY <2>2 DEF clearPendingRemoteCommand
      <4> QED BY <1>2, <2>2, <4>2, <4>3, <4>4 DEF Settled
    <3> QED BY <3>1, <3>2
  <2> QED BY <2>1, <2>2
<1> QED BY <1>2, <1>3, <1>4, <1>5, <1>6, Settling

\* No answer, an answer, or the host's part of one.
LEMMA AnswersSettle ==
    ASSUME RetryInv, AimInv', NEW t \in Tab,
           Handle(t) \/ TimesOut(t) \/ Rejected(t) \/ Confirmed(t)
    PROVE  PanesInv'
<1>1. /\ TypeInv /\ call \in [Tab -> Call] /\ pending \in [Tab -> Commands]
  BY DEF RetryInv, AimInv, OutboxInv, NamesInv, TypeInv
<1>2. CASE Handle(t)
  <2>1. /\ UNCHANGED <<outbox, bound, pending, starting, meant>>
        /\ \E r : call' = [call EXCEPT ![t].stage = r]
    BY <1>2 DEF Handle, history
  <2>2. \A u \in Tab : /\ call'[u].command = call[u].command /\ call'[u].from = call[u].from
                       /\ call'[u].turn = call[u].turn /\ call'[u].fresh = call[u].fresh
    BY <1>1, <2>1 DEF Call
  <2> QED BY <2>1, <2>2, Settling DEF Settled
<1>3. CASE TimesOut(t)
  BY <1>3, Answered DEF TimesOut, history
<1>4. CASE Rejected(t)
  BY <1>1, <1>4, Answered DEF Rejected
<1>5. CASE Confirmed(t)
  BY <1>1, <1>5, Answered DEF Confirmed, history
<1> QED BY <1>2, <1>3, <1>4, <1>5

\* The pane and the program.
LEMMA PanesSettle ==
    ASSUME RetryInv, AimInv',
           \/ Reload
           \/ \E c \in late : HandleLate(c)
           \/ \E t \in Tab : Poll(t) \/ \E s \in Session \cup {None} : Rebind(t, s)
    PROVE  PanesInv'
<1>1. /\ call \in [Tab -> Call] /\ starting \in [Tab -> Message]
      /\ bound \in [Tab -> Session \cup {None}]
  BY DEF RetryInv, AimInv, OutboxInv, NamesInv, TypeInv
<1>2. CASE Reload
  <2>1. /\ UNCHANGED <<outbox, bound, meant>>
        /\ \A u \in Tab : /\ call'[u] = NoCall /\ starting'[u].text = None
                          /\ pending'[u] = pendingRemoteCommand(outbox', bound'[u], u)
    BY <1>2, Nothing DEF Reload, history
  <2> QED BY <2>1, Settling DEF Settled
<1>3. ASSUME NEW c \in late, HandleLate(c) PROVE PanesInv'
  <2>1. UNCHANGED <<outbox, bound, pending, starting, call, meant>>
    BY <1>3 DEF HandleLate, desktop, history
  <2> QED BY <2>1, Settling DEF Settled
<1>4. ASSUME NEW t \in Tab, Poll(t) PROVE PanesInv'
  <2>1. /\ UNCHANGED <<outbox, bound, pending, call, meant>>
        /\ starting' = [starting EXCEPT ![t] = NotStarting]
    BY <1>4 DEF Poll, history
  <2>2. \A u \in Tab : starting'[u].text = None \/ starting'[u] = starting[u]
    BY <1>1, <2>1, Nothing
  <2> QED BY <2>1, <2>2, Settling DEF Settled
<1>5. ASSUME NEW t \in Tab, NEW s \in Session \cup {None}, Rebind(t, s) PROVE PanesInv'
  <2>1. /\ UNCHANGED <<outbox, meant>>
        /\ bound' = [bound EXCEPT ![t] = s]
        /\ pending' = [u \in Tab |-> pendingRemoteCommand(outbox, bound'[u], u)]
        /\ starting' = [starting EXCEPT ![t] = NotStarting]
        /\ call' = [call EXCEPT ![t].fresh = FALSE]
        /\ \A e \in outbox : e.shell = t => e.command.id # s
    BY <1>5 DEF Rebind, history
  <2>2. bound'[t] = s /\ \A u \in Tab : u # t => bound'[u] = bound[u]
    BY <1>1, <2>1
  <2>3. starting'[t] = NotStarting /\ \A u \in Tab : u # t => starting'[u] = starting[u]
    BY <1>1, <2>1
  <2>4. \A u \in Tab : /\ call'[u].command = call[u].command /\ call'[u].from = call[u].from
                       /\ call'[u].turn = call[u].turn
                       /\ call'[u].fresh => call[u].fresh /\ bound'[u] = bound[u]
    BY <1>1, <2>1, <2>2 DEF Call
  <2>5. \A u \in Tab : Settled(u)
    BY <2>1 DEF Settled
  <2>6. \A u \in Tab : \/ starting'[u].text = None
                       \/ bound'[u] = bound[u] /\ starting'[u].text = starting[u].text
    BY <2>2, <2>3, Nothing
  <2> QED BY <2>1, <2>2, <2>4, <2>5, <2>6, Settling
<1> QED BY <1>2, <1>3, <1>4, <1>5

\* The entry of a command that is saved.
IsSaved(n, c, t, f, box) ==
    /\ n.command = c /\ n.shell = t
    /\ \/ n.followup = f
       \/ f = NoCommand /\ \E e \in box : e.command.id = c.id /\ n.followup = e.followup
LEMMA SavedEntry ==
    ASSUME NEW box, NEW c, NEW t, NEW f
    PROVE  \E n : /\ IsSaved(n, c, t, f, box)
                  /\ savePendingRemoteCommand(box, c, t, f) =
                        {e \in box : e.command.id # c.id} \cup {n}
<1> DEFINE g == IF f # NoCommand THEN f ELSE pendingRemoteFollowup(box, c.id)
           n == [command |-> c, shell |-> t, followup |-> g]
<1>1. savePendingRemoteCommand(box, c, t, f) = {e \in box : e.command.id # c.id} \cup {n}
  BY DEF savePendingRemoteCommand
<1>2. g = f \/ (f = NoCommand /\ \E e \in box : e.command.id = c.id /\ g = e.followup)
  <2>1. CASE g # f
    <3>1. f = NoCommand /\ g = pendingRemoteFollowup(box, c.id) /\ g # NoCommand
      BY <2>1
    <3> HIDE DEF g
    <3> QED BY <3>1, FollowupOf
  <2> QED BY <2>1
<1>3. n.command = c /\ n.shell = t /\ n.followup = g
  OBVIOUS
<1>4. IsSaved(n, c, t, f, box)
  BY <1>2, <1>3 DEF IsSaved
<1> QED BY <1>1, <1>4

\* What a pane's new request leaves to the others.
Grows ==
    /\ meant' \in [Text -> SUBSET Session]
    /\ \A n \in Text : meant[n] \subseteq meant'[n]
    /\ \A x \in Text : \A s \in meant[x] : FirstFor(x, s) => FirstFor(x, s)'
    /\ \A m, n \in Text : meant'[m] # {} /\ n < m => meant'[n] # {}

\* A message is sent to the session its pane shows.
LEMMA SendDispatched ==
    ASSUME RetryInv, AimInv', NEW t \in Tab, NEW c \in CommandType, c.type = "send",
           c.session = bound[t], bound[t] \in Session, NEW turn \in TurnOfCall,
           Dispatch(t, c, bound[t], turn, NoCommand), bound' = bound, Grows,
           \A u \in Tab : u # t => starting'[u].text = starting[u].text,
           starting'[t].text # None => bound[t] \in meant'[starting'[t].text],
           turn # NotStarting => bound[t] \in meant'[turn.text],
           starting' \in [Tab -> Message]
    PROVE  PanesInv'
<1> USE DEF RetryInv, PanesInv
<1>1. PICK n : /\ IsSaved(n, c, t, NoCommand, outbox)
               /\ outbox' = {e \in outbox : e.command.id # c.id} \cup {n}
  BY SavedEntry DEF Dispatch
<1>2. /\ n.command = c /\ n.shell = t /\ ~ IsCreate(n.command) /\ c.id \in Id
      /\ \A e \in outbox' : e = n \/ (e \in outbox /\ e.command.id # c.id)
  BY <1>1, CommandShape DEF IsSaved, IsCreate
<1>3. /\ pending'[t] = c /\ call'[t].command = c /\ call'[t].turn = turn
      /\ call'[t].from = bound[t]
      /\ \A u \in Tab : u # t => pending'[u] = pending[u] /\ call'[u] = call[u]
      /\ c # NoCommand /\ ~ IsCreate(c)
  BY CommandShape DEF AimInv, OutboxInv, NamesInv, TypeInv, Dispatch, IsCreate, Call
<1>4. /\ \A e \in outbox : Behind(e) => Behind(e)'
      /\ \A u \in Tab : /\ starting[u].text \in Text \cup {None}
                        /\ call[u].turn # NotStarting => call[u].turn.text \in Text
      /\ None \notin Session /\ None \notin Create /\ Id \cap Create = {}
  <2>1. \A u \in Tab : starting[u] \in Message /\ call[u].turn \in TurnOfCall
    BY CallParts DEF AimInv, OutboxInv, NamesInv, TypeInv
  <2> QED BY <2>1, NoneIsNoSession, NamesAssumption
             DEF Behind, Grows, Message, TurnOfCall
<1>5. \A e \in outbox : /\ e.shell \in Tab
                        /\ IsCreate(e.command) => /\ e.command.id \in Create
                                                  /\ e.command.session = None
                                                  /\ e \in outbox'
                        /\ ~ IsCreate(e.command) => /\ e.command.type = "send"
                                                    /\ e.command.session \in Session
                                                    /\ e.command.text \in Text
                                                    /\ e.command.session \in meant[e.command.text]
                        /\ e.followup # NoCommand => /\ e.followup.text \in Text
                                                     /\ e.command.id \in meant[e.followup.text]
  BY <1>1, <1>2, <1>4, EntryParts
<1>6. /\ \A u \in Tab : \A d : Creating(u, d)' => Creating(u, d)
      /\ ~ Creating(t, bound[t])'
  <2>1. \A u \in Tab : \A d : Creating(u, d)' => Creating(u, d) /\ (u = t =>
            \E e \in outbox : IsCreate(e.command) /\ e.command.id = d /\ e.shell = u)
    BY <1>2, <1>3 DEF Creating
  <2> QED BY <2>1 DEF OneCreate
<1>7. AllOffered'
  BY <1>2, <1>3, <1>4, <1>5 DEF AllOffered, Behind
<1>8. OneCreate'
  BY <1>2, <1>3, <1>5 DEF OneCreate
<1>9. OffersOwn'
  BY <1>2, <1>3, <1>5 DEF OffersOwn
<1>10. InOrder'
  BY <1>2, <1>5, <1>6 DEF InOrder, Grows, Session, IsCreate
<1>11. ShownThere'
  BY <1>3, <1>4, <1>6 DEF ShownThere, Grows
<1>12. ASSUME NEW u \in Tab PROVE CallFollows(u)'
  BY <1>2, <1>3, <1>4, <1>5 DEF CallFollows
<1> QED BY <1>7, <1>8, <1>9, <1>10, <1>11, <1>12

\* A create command is sent, for the first time or again.
LEMMA CreateDispatched ==
    ASSUME RetryInv, AimInv', NEW t \in Tab, NEW c \in CommandType, IsCreate(c),
           bound[t] = None, NEW turn \in TurnOfCall, NEW f,
           Dispatch(t, c, None, turn, f), bound' = bound, Grows,
           \A e \in outbox : IsCreate(e.command) => (e.shell = t <=> e.command.id = c.id),
           \A u \in Tab : u # t /\ IsCreate(pending[u]) => pending[u].id # c.id,
           \A e \in outbox :
              e.command.type = "send" /\ e.shell = t /\ e.command.session = c.id =>
                 FirstFor(e.command.text, c.id)',
           \A n : IsSaved(n, c, t, f, outbox) /\ n.followup # NoCommand =>
                 FirstFor(n.followup.text, c.id)',
           \A u \in Tab : u # t => starting'[u].text = starting[u].text,
           starting'[t].text # None => c.id \in meant'[starting'[t].text]
    PROVE  PanesInv'
<1> USE DEF RetryInv, PanesInv
<1>1. PICK n : /\ IsSaved(n, c, t, f, outbox)
               /\ outbox' = {e \in outbox : e.command.id # c.id} \cup {n}
  BY SavedEntry DEF Dispatch
<1>2. /\ n.command = c /\ n.shell = t /\ c.id \in Create /\ c.session = None
      /\ c # NoCommand /\ c.type # "send"
      /\ \A e \in outbox' : e = n \/ (e \in outbox /\ e.command.id # c.id)
      /\ n \in outbox'
  BY <1>1, CommandShape DEF IsSaved, IsCreate
<1>3. /\ pending'[t] = c /\ call'[t].command = c /\ call'[t].turn = turn
      /\ call'[t].from = None
      /\ \A u \in Tab : u # t => pending'[u] = pending[u] /\ call'[u] = call[u]
  BY DEF AimInv, OutboxInv, NamesInv, TypeInv, Dispatch, Call
<1>4. /\ \A e \in outbox : Behind(e) => Behind(e)'
      /\ \A u \in Tab : /\ starting[u].text \in Text \cup {None}
                        /\ call[u].turn # NotStarting => call[u].turn.text \in Text
      /\ None \notin Session /\ None \notin Create /\ Id \cap Create = {}
  <2>1. \A u \in Tab : starting[u] \in Message /\ call[u].turn \in TurnOfCall
    BY CallParts DEF AimInv, OutboxInv, NamesInv, TypeInv
  <2> QED BY <2>1, NoneIsNoSession, NamesAssumption
             DEF Behind, Grows, Message, TurnOfCall
<1>5. \A e \in outbox : /\ e.shell \in Tab
                        /\ IsCreate(e.command) => /\ e.command.id \in Create
                                                  /\ e.command.session = None
                        /\ ~ IsCreate(e.command) => /\ e.command.type = "send"
                                                    /\ e.command.session \in Session
                                                    /\ e.command.text \in Text
                                                    /\ e.command.session \in meant[e.command.text]
                        /\ e.followup # NoCommand => /\ e.followup.text \in Text
                                                     /\ e.command.id \in meant[e.followup.text]
  BY EntryParts
<1>6. /\ \A u \in Tab : \A d : u # t /\ Creating(u, d)' => Creating(u, d)
      /\ \A d : Creating(t, d)' => d = c.id
  BY <1>2, <1>3 DEF Creating
<1>7. AllOffered'
  BY <1>2, <1>3, <1>4, <1>5 DEF AllOffered
<1>8. OneCreate'
  BY <1>2, <1>3, <1>4, <1>5, <1>1 DEF OneCreate
<1>9. OffersOwn'
  BY <1>2, <1>3, <1>5 DEF OffersOwn
<1>10. InOrder'
  BY <1>1, <1>2, <1>5, <1>6 DEF InOrder, Grows, Session, IsCreate
<1>11. ShownThere'
  BY <1>3, <1>4, <1>6 DEF ShownThere, Grows
<1>12. ASSUME NEW u \in Tab PROVE CallFollows(u)'
  BY <1>2, <1>3, <1>4, <1>5 DEF CallFollows
<1> QED BY <1>7, <1>8, <1>9, <1>10, <1>11, <1>12

\* A message written for one more session, after those written before.
LEMMA MeantGrows ==
    ASSUME RetryInv, NEW m \in Text, NEW s \in Session,
           meant' = [meant EXCEPT ![m] = @ \cup {s}],
           s \notin meant[m] => \A x \in Text : s \in meant[x] => x <= m,
           \A n \in Text : n < m => meant[n] # {}
    PROVE  Grows /\ s \in meant'[m]
<1>1. /\ meant \in [Text -> SUBSET Session] /\ Text \subseteq Nat
      /\ \A x, n \in Text : meant[x] # {} /\ n < x => meant[n] # {}
  BY NamesAssumption DEF RetryInv, PanesInv, InOrder, AimInv, OutboxInv, NamesInv, TypeInv
<1>2. /\ meant' \in [Text -> SUBSET Session] /\ meant'[m] = meant[m] \cup {s}
      /\ \A n \in Text : n # m => meant'[n] = meant[n]
  BY <1>1
<1>3. \A x \in Text : \A d \in meant[x] : FirstFor(x, d) => FirstFor(x, d)'
  BY <1>1, <1>2 DEF FirstFor
<1>4. \A x, n \in Text : meant'[x] # {} /\ n < x => meant'[n] # {}
  BY <1>1, <1>2
<1> QED BY <1>2, <1>3, <1>4 DEF Grows

\* A message is sent from a pane that has nothing unconfirmed.
LEMMA TurnOffers ==
    ASSUME RetryInv, AimInv', NEW t \in Tab, NEW m \in Text, NEW i \in Id, Turn(t, m, i),
           bound' = bound, pending[t] = NoCommand,
           \/ \A x \in Text : meant[x] # {} => x <= m
           \/ bound[t] # None => bound[t] \in meant[m],
           \A n \in Text : n < m => meant[n] # {},
           \A u \in Tab : u # t => starting'[u].text = starting[u].text,
           starting' \in [Tab -> Message], starting'[t].text = m
    PROVE  PanesInv'
<1>1. /\ bound[t] \in Session \cup {None} /\ meant \in [Text -> SUBSET Session]
      /\ Shown(m, i) \in TurnOfCall /\ Shown(m, i).text = m
  BY ShownMessage DEF RetryInv, AimInv, OutboxInv, NamesInv, TypeInv
<1>2. CASE bound[t] # None
  <2>1. /\ Dispatch(t, Send(bound[t], m, i), bound[t], Shown(m, i), NoCommand)
        /\ meant' = [meant EXCEPT ![m] = @ \cup {bound[t]}] /\ bound[t] \in Session
    BY <1>1, <1>2 DEF Turn, dispatchTurn
  <2>2. Grows /\ bound[t] \in meant'[m]
    BY <1>2, <2>1, MeantGrows
  <2>3. /\ Send(bound[t], m, i) \in CommandType /\ Send(bound[t], m, i).type = "send"
        /\ Send(bound[t], m, i).session = bound[t]
    <3>1. bound[t] \in Session \cup {None}
      BY <1>1
    <3> QED BY <3>1, SendShape
  <2> QED BY <1>1, <2>1, <2>2, <2>3, SendDispatched
<1>3. CASE bound[t] = None
  <2>1. PICK c \in UnusedCreates :
          /\ Dispatch(t, CreateCommand(c), None, Shown(m, i), Send(None, m, i))
          /\ meant' = [meant EXCEPT ![m] = @ \cup {c}]
    BY <1>3 DEF Turn, startSession, FirstOf
  <2>2. /\ c \in Create /\ c \in Session
        /\ \A n \in Text : c \notin meant[n]
        /\ \A u \in Tab : pending[u].id # c
        /\ \A e \in outbox : e.command.id # c
    BY <2>1 DEF UnusedCreates, Occurring, Session
  <2>3. /\ CreateCommand(c) \in CommandType /\ IsCreate(CreateCommand(c))
        /\ CreateCommand(c).id = c
    BY <2>2, CreateShape DEF IsCreate
  <2>4. Grows /\ c \in meant'[m] /\ \A n \in Text : n # m => c \notin meant'[n]
    BY <1>1, <2>1, <2>2, MeantGrows
  <2>5. \A e \in outbox : IsCreate(e.command) => e.shell # t
    <3> SUFFICES ASSUME NEW e \in outbox, IsCreate(e.command), e.shell = t PROVE FALSE
      OBVIOUS
    <3>1. e.command.session = None
      BY EntryParts DEF RetryInv
    <3>2. Behind(e)
      BY <1>3, <3>1 DEF RetryInv, PanesInv, AllOffered
    <3> QED BY <1>1, <3>1, <3>2, NoneIsNoSession DEF Behind
  <2>6. \A e \in outbox : e.command.type = "send" => e.command.session # c
    BY <2>2, EntryParts DEF RetryInv, IsCreate
  <2>7. FirstFor(m, c)'
    BY <2>4, NamesAssumption DEF FirstFor
  <2>8. \A n : IsSaved(n, CreateCommand(c), t, Send(None, m, i), outbox) =>
            n.followup.text = m
    BY DEF IsSaved, Send, NoCommand
  <2> QED BY <1>1, <1>3, <2>1, <2>2, <2>3, <2>4, <2>5, <2>6, <2>7, <2>8, CreateDispatched
<1> QED BY <1>2, <1>3

LEMMA SubmitOffers ==
    ASSUME RetryInv, AimInv', NEW t \in Tab, NEW m \in Text, submit(t, m)
    PROVE  PanesInv'
<1>1. PICK i \in Id : Turn(t, m, i) /\ starting' = [starting EXCEPT ![t] = Shown(m, i)]
  BY DEF submit, FirstOf, UnusedIds
<1>2. /\ starting \in [Tab -> Message] /\ Shown(m, i) \in Message /\ Shown(m, i).text = m
      /\ Text \subseteq Nat
      /\ \A x, n \in Text : meant[x] # {} /\ n < x => meant[n] # {}
  BY ShownMessage, NamesAssumption
  DEF RetryInv, PanesInv, InOrder, AimInv, OutboxInv, NamesInv, TypeInv
<1>3. /\ starting' \in [Tab -> Message] /\ starting'[t].text = m
      /\ \A u \in Tab : u # t => starting'[u] = starting[u]
  BY <1>1, <1>2, Updated
<1>4. /\ bound' = bound /\ pending[t] = NoCommand /\ meant[m] = {}
      /\ \A n \in Text : n < m => meant[n] # {}
  BY DEF submit
<1>5. \A x \in Text : meant[x] # {} => x <= m
  BY <1>2, <1>4
<1> QED BY <1>1, <1>3, <1>4, <1>5, TurnOffers

LEMMA TryAgainOffers ==
    ASSUME RetryInv, AimInv', NEW t \in Tab, tryAgain(t) PROVE PanesInv'
<1> DEFINE m == starting[t].text
<1>1. /\ TypeInv /\ pending[t] = NoCommand /\ bound' = bound
      /\ starting[t].failed /\ Turn(t, m, starting[t].id)
      /\ starting' = [starting EXCEPT ![t].failed = FALSE]
  BY DEF tryAgain, RetryInv, AimInv, OutboxInv, NamesInv
<1>2. m \in Text /\ starting[t].id \in Id /\ m # None
  BY <1>1, NoneIsNoText DEF TypeInv, Message
<1>3. /\ starting' \in [Tab -> Message]
      /\ \A u \in Tab : starting'[u].text = starting[u].text
  BY <1>1, ShownAgain
<1>4. bound[t] # None => bound[t] \in meant[m]
  BY <1>2 DEF RetryInv, PanesInv, ShownThere
<1>5. meant[m] # {} /\ \A x, n \in Text : meant[x] # {} /\ n < x => meant[n] # {}
  BY <1>2, PaneIn DEF RetryInv, PanesInv, InOrder, AimInv, OutboxInv, NamesInv, Written
<1> HIDE DEF m
<1>6. starting'[t].text = m
  BY <1>3 DEF m
<1> QED BY <1>1, <1>2, <1>3, <1>4, <1>5, <1>6, TurnOffers

LEMMA RetryOffers ==
    ASSUME RetryInv, AimInv', NEW t \in Tab, retryPending(t) PROVE PanesInv'
<1> USE DEF RetryInv, PanesInv
<1>0. PICK c \in CommandType : c = pending[t]
  BY DEF retryPending, AimInv, OutboxInv, NamesInv, TypeInv, Commands
<1>1. /\ TypeInv /\ bound' = bound /\ meant' = meant
      /\ Dispatch(t, c, bound[t], NotStarting, NoCommand)
      /\ starting' = [starting EXCEPT ![t].failed = FALSE]
  BY <1>0 DEF retryPending, AimInv, OutboxInv, NamesInv, history
<1>2. /\ Aimed(c, meant)
      /\ meant \in [Text -> SUBSET Session]
  BY <1>0, <1>1 DEF TypeInv, AimInv, AllAimed
<1>3. /\ starting' \in [Tab -> Message]
      /\ \A u \in Tab : starting'[u].text = starting[u].text
      /\ \A u \in Tab : starting[u].text \in Text \cup {None}
  BY <1>1, ShownAgain DEF TypeInv, Message
<1>4. Grows
  BY <1>1, <1>2 DEF Grows, FirstFor, InOrder
<1>5. CASE c.type = "send"
  <2>1. /\ c.session = bound[t] /\ bound[t] \in Session
    BY <1>0, <1>2, <1>5 DEF OffersOwn, Aimed
  <2>2. starting'[t].text # None => bound[t] \in meant'[starting'[t].text]
    BY <1>1, <1>3, <2>1, NoneIsNoSession DEF ShownThere
  <2> QED BY <1>1, <1>2, <1>3, <1>4, <1>5, <2>1, <2>2, Nothing, SendDispatched
<1>6. CASE IsCreate(c)
  <2>1. bound[t] = None /\ Creating(t, c.id) /\ c.id \in Create
    BY <1>0, <1>6, CommandShape DEF OffersOwn, Creating, IsCreate
  <2>2. /\ \A e \in outbox : IsCreate(e.command) => (e.shell = t <=> e.command.id = c.id)
        /\ \A u \in Tab : u # t /\ IsCreate(pending[u]) => pending[u].id # c.id
    BY <1>0, <1>6 DEF OffersOwn
  <2>3. \A e \in outbox :
           e.command.type = "send" /\ e.shell = t /\ e.command.session = c.id =>
              FirstFor(e.command.text, c.id)'
    BY <1>1, <2>1 DEF InOrder, FirstFor
  <2>4. \A n : IsSaved(n, c, t, NoCommand, outbox) /\ n.followup # NoCommand =>
              FirstFor(n.followup.text, c.id)'
    <3> SUFFICES ASSUME NEW n, IsSaved(n, c, t, NoCommand, outbox), n.followup # NoCommand
                 PROVE  FirstFor(n.followup.text, c.id)'
      OBVIOUS
    <3>1. PICK e \in outbox : e.command.id = c.id /\ n.followup = e.followup
      BY DEF IsSaved
    <3>2. IsCreate(e.command)
      BY <3>1, EntryParts
    <3> QED BY <1>1, <3>1, <3>2 DEF InOrder, FirstFor
  <2>5. starting'[t].text # None => c.id \in meant'[starting'[t].text]
    BY <1>1, <1>3, <2>1 DEF ShownThere
  <2> QED BY <1>1, <1>2, <1>3, <1>4, <1>6, <2>1, <2>2, <2>3, <2>4, <2>5,
             Nothing, CreateDispatched
<1> QED BY <1>5, <1>6, CommandShape DEF IsCreate

\* The first message of a session becomes an entry: the pane does not show the
\* session yet, and the message is the first for it.
LEMMA SaveFollowupOffers ==
    ASSUME RetryInv, AimInv', NEW t \in Tab, SaveFollowup(t) PROVE PanesInv'
<1> USE DEF RetryInv, PanesInv
<1> DEFINE d == call[t].command
           next == pendingRemoteFollowup(outbox, d.id)
<1>1. /\ TypeInv /\ UNCHANGED <<bound, pending, starting, meant>>
      /\ call[t].stage # "none" /\ IsCreate(d)
      /\ call' = [call EXCEPT ![t].stage = "saved"]
      /\ outbox' = IF next = NoCommand THEN outbox
                   ELSE savePendingRemoteCommand(outbox, Followup(t, next), t, NoCommand)
  BY DEF SaveFollowup, AimInv, OutboxInv, NamesInv, history, IsCreate
<1>2. \A u \in Tab : /\ call'[u].command = call[u].command /\ call'[u].from = call[u].from
                     /\ call'[u].turn = call[u].turn /\ call'[u].fresh = call[u].fresh
  BY <1>1 DEF TypeInv, Call
<1>3. CASE next = NoCommand
  BY <1>1, <1>2, <1>3, Settling DEF Settled
<1>4. CASE next # NoCommand
  <2>1. PICK o \in outbox : o.command = d /\ o.shell = t
    BY <1>1 DEF OneCreate
  <2>2. next = o.followup
    BY <1>1, <2>1, FollowupIs DEF TypeInv
  <2>3. /\ next \in Commands /\ next.type = "send" /\ next.text \in Text
        /\ d.id \in Create /\ d.id \in meant[next.text] /\ FirstFor(next.text, d.id)
        /\ bound[t] # d.id
    BY <1>1, <1>4, <2>1, <2>2, EntryParts, FollowupFound
    DEF OneCreate, InOrder, TypeInv
  <2> DEFINE f == Followup(t, next)
  <2>4. f \in CommandType /\ f.type = "send" /\ f.text = next.text /\ f.session = d.id
    <3> HIDE DEF next
    <3> QED BY <2>3, <1>4, Addressed DEF Followup, Commands, Session
  <2>5. PICK n : /\ IsSaved(n, f, t, NoCommand, outbox)
                 /\ outbox' = {e \in outbox : e.command.id # f.id} \cup {n}
    <3> HIDE DEF f, next
    <3>1. outbox' = savePendingRemoteCommand(outbox, f, t, NoCommand)
      BY <1>1, <1>4 DEF f
    <3> QED BY <3>1, SavedEntry
  <2>6. /\ n.command = f /\ n.shell = t /\ ~ IsCreate(f) /\ f.id \in Id
        /\ \A e \in outbox' : e = n \/ e \in outbox
    BY <2>4, <2>5, CommandShape DEF IsSaved, IsCreate
  <2> HIDE DEF f, next, d
  <2>7. /\ \A e \in outbox : Behind(e) => Behind(e)'
        /\ \A e \in outbox : IsCreate(e.command) => e \in outbox' /\ e.shell \in Tab
        /\ \A x, s : FirstFor(x, s) <=> FirstFor(x, s)'
    BY <1>1, <2>5, <2>6, EntryParts, NamesAssumption DEF Behind, FirstFor
  <2>8. \A u \in Tab : \A s : Creating(u, s)' => Creating(u, s)
    BY <1>1, <2>6 DEF Creating
  <2>9. AllOffered'
    BY <1>1, <2>3, <2>4, <2>6, <2>7 DEF AllOffered
  <2>10. OneCreate'
    BY <1>1, <1>2, <2>6, <2>7 DEF OneCreate
  <2>11. OffersOwn'
    BY <1>1, <2>6 DEF OffersOwn
  <2>12. InOrder'
    <3>1. \A e \in outbox : e.shell \in Tab
      BY EntryParts
    <3> QED BY <1>1, <2>3, <2>4, <2>6, <2>7, <2>8, <3>1 DEF InOrder
  <2>13. ShownThere'
    BY <1>1, <1>2, <2>8 DEF ShownThere
  <2>14. ASSUME NEW u \in Tab PROVE CallFollows(u)'
    BY <1>1, <1>2, <2>6, <2>7 DEF CallFollows, d, IsCreate
  <2> QED BY <2>9, <2>10, <2>11, <2>12, <2>13, <2>14
<1> QED BY <1>3, <1>4

\* A session that is opened is shown with the message that is sent to it; what
\* else the pane has for the session hides behind that one.
LEMMA OpenedFresh ==
    ASSUME RetryInv, AimInv', NEW t \in Tab, Opened(t), call[t].fresh PROVE PanesInv'
<1> USE DEF RetryInv, PanesInv
<1>1. /\ TypeInv /\ meant' = meant /\ starting' = starting
      /\ call \in [Tab -> Call] /\ call[t] \in Call /\ call[t].stage = "saved"
      /\ bound \in [Tab -> Session \cup {None}]
      /\ OutboxOK(outbox) /\ OutboxOK(outbox')
  BY DEF Opened, AimInv, OutboxInv, NamesInv, TypeInv, history
<1>2. PICK s \in Create : s = call[t].command.id
  BY <1>1, CallParts, CommandShape
<1> DEFINE box == clearPendingRemoteCommand(outbox, s)
<1>3. PICK next \in ToSend(call[t], box) :
        /\ bound' = [bound EXCEPT ![t] = s]
        /\ IF next = NoCommand
           THEN outbox' = box /\ call' = [call EXCEPT ![t] = NoCall]
           ELSE /\ outbox' = savePendingRemoteCommand(box, next, t, NoCommand)
                /\ call' = [call EXCEPT ![t] = [@ EXCEPT !.command = next, !.stage = "sent"]]
        /\ pending' = [u \in Tab |->
              IF u = t THEN next ELSE pendingRemoteCommand(outbox', bound[u], u)]
  BY <1>2 DEF Opened
<1>4. box = {e \in outbox : e.command.id # s} /\ OutboxOK(box)
  <2>1. box = {e \in outbox : e.command.id # s}
    BY DEF clearPendingRemoteCommand
  <2> QED BY <1>1, <2>1, ClearedEntries
<1>5. /\ next \in Commands /\ Seen(next, Known)
      /\ next # NoCommand => next.type = "send" /\ next.session = s
      /\ next = NoCommand => \A e \in box : ~ (e.command.type = "send" /\ e.command.session = s)
  <2>1. box \subseteq outbox
    BY <1>4
  <2>2. ASSUME next = NoCommand, NEW e \in box,
               e.command.type = "send" /\ e.command.session = s
        PROVE  FALSE
    <3> DEFINE found == {f.command : f \in {g \in box : g.command.type = "send"
                                                /\ g.command.session = call[t].command.id}}
    <3>1. e.command \in found /\ \A f \in found : f.type = "send"
      BY <1>2, <2>2
    <3>2. next \in IF call[t].turn # NotStarting
                   THEN {Send(call[t].command.id, call[t].turn.text, call[t].turn.id)}
                   ELSE IF found = {} THEN {NoCommand} ELSE found
      BY <1>3 DEF ToSend
    <3> QED BY <2>2, <3>1, <3>2 DEF NoCommand, Send
  <2> HIDE DEF box
  <2> QED BY <1>1, <1>2, <1>3, <1>4, <2>1, <2>2, NextMessage
<1>6. PICK o \in outbox : o.command = call[t].command /\ o.shell = t /\ IsCreate(o.command)
  BY <1>1, CallParts DEF OneCreate, IsCreate
<1>7. /\ bound[t] = None /\ call[t].from = None /\ IsCreate(call[t].command)
      /\ Creating(t, s) /\ o.command.id = s
  BY <1>2, <1>6 DEF CallFollows, Creating
<1>8. /\ bound'[t] = s /\ pending'[t] = next
      /\ \A u \in Tab : u # t =>
            bound'[u] = bound[u] /\ pending'[u] = pendingRemoteCommand(outbox', bound'[u], u)
  BY <1>1, <1>3
<1>9. /\ next = NoCommand => call'[t] = NoCall
      /\ next # NoCommand => /\ call'[t].command = next /\ call'[t].from = None
                             /\ call'[t].turn = call[t].turn
      /\ \A u \in Tab : u # t => call'[u] = call[u]
  <2>1. CASE next = NoCommand
    BY <1>1, <1>3, <2>1
  <2>2. CASE next # NoCommand
    <3> DEFINE new == [call[t] EXCEPT !.command = next, !.stage = "sent"]
    <3>1. new.command = next /\ new.from = None /\ new.turn = call[t].turn
      BY <1>1, <1>7 DEF Call
    <3>2. call' = [call EXCEPT ![t] = new]
      BY <1>3, <2>2
    <3> HIDE DEF new
    <3> QED BY <1>1, <2>2, <3>1, <3>2
  <2> QED BY <2>1, <2>2
<1>10. /\ \A e \in outbox' :
             \/ /\ e \in outbox /\ e.command.id # s
                /\ next # NoCommand => e.command.id # next.id
                /\ next = NoCommand => ~ (e.command.type = "send" /\ e.command.session = s)
             \/ next # NoCommand /\ e.command = next /\ e.shell = t
       /\ \A e \in outbox : IsCreate(e.command) /\ e.command.id # s => e \in outbox'
  <2>1. CASE next = NoCommand
    BY <1>3, <1>4, <1>5, <2>1
  <2>2. CASE next # NoCommand
    <3>1. outbox' = savePendingRemoteCommand(box, next, t, NoCommand)
      BY <1>3, <2>2
    <3> HIDE DEF box
    <3>2. PICK n : /\ IsSaved(n, next, t, NoCommand, box)
                   /\ outbox' = {e \in box : e.command.id # next.id} \cup {n}
      BY <3>1, SavedEntry
    <3>3. next.id \in Id
      BY <1>5, <2>2, CommandShape DEF Commands
    <3>4. \A e \in outbox : IsCreate(e.command) => e.command.id # next.id
      BY <3>3, EntryParts, NamesAssumption
    <3> QED BY <1>4, <2>2, <3>2, <3>4 DEF IsSaved
  <2> QED BY <2>1, <2>2
<1> HIDE DEF box
<1>11. /\ ~ IsCreate(next)
       /\ None \notin Session /\ None \notin Create /\ Session = Create
  BY <1>5, NoneIsNoSession DEF IsCreate, NoCommand, Session
<1>12. /\ \A e \in outbox : /\ e.shell \in Tab
                            /\ IsCreate(e.command) => e.command.session = None
                            /\ ~ IsCreate(e.command) => /\ e.command.type = "send"
                                                        /\ e.command.text \in Text
                                                        /\ e.command.session \in Session
       /\ \A e \in outbox' : IsCreate(e.command) =>
             e \in outbox /\ e.shell \in Tab /\ e.shell # t /\ e.command.id # s
  <2>1. \A e \in outbox : e.shell \in Tab
    BY EntryParts
  <2>2. \A e \in outbox' : IsCreate(e.command) => e \in outbox /\ e.command.id # s
    BY <1>10, <1>11
  <2> QED BY <1>6, <1>7, <2>1, <2>2, EntryParts DEF OneCreate
<1>13. /\ \A u \in Tab : \A d : Creating(u, d)' => Creating(u, d)
       /\ \A d : ~ Creating(t, d)'
  <2>1. \A d : ~ Creating(t, d)'
    BY <1>8, <1>11, <1>12 DEF Creating
  <2>2. ASSUME NEW u \in Tab, u # t, NEW d, Creating(u, d)' PROVE Creating(u, d)
    <3>1. \E e \in outbox' : IsCreate(e.command) /\ e.shell = u /\ e.command.id = d
      <4>1. CASE IsCreate(pending'[u]) /\ pending'[u].id = d
        <5>1. PICK e \in outbox' : Fits(e, bound'[u], u) /\ pending'[u] = e.command
          BY <1>8, <2>2, <4>1, LookedUp DEF IsCreate, NoCommand
        <5> QED BY <4>1, <5>1 DEF Fits, IsCreate
      <4> QED BY <2>2, <4>1 DEF Creating
    <3> QED BY <1>12, <3>1 DEF Creating
  <2> QED BY <2>1, <2>2
<1>14. AllOffered'
  <2> SUFFICES ASSUME NEW e \in outbox', bound'[e.shell] = e.command.session
               PROVE  pending'[e.shell] # NoCommand \/ Behind(e)'
    BY DEF AllOffered
  <2>1. CASE e.shell = t
    BY <1>8, <1>10, <1>11, <1>12, <2>1
  <2>2. CASE e.shell # t
    <3>1. e \in outbox /\ e.shell \in Tab
      BY <1>10, <1>12, <2>2
    <3>2. Fits(e, bound'[e.shell], e.shell)
      BY <1>11, <1>12, <3>1 DEF Fits
    <3> QED BY <1>8, <2>2, <3>1, <3>2, LookedUp
  <2> QED BY <2>1, <2>2
<1>15. OneCreate'
  <2>1. ASSUME NEW u \in Tab, IsCreate(call'[u].command)
        PROVE  \E e \in outbox' : e.command = call'[u].command /\ e.shell = u
    <3>1. u # t /\ call'[u] = call[u]
      BY <1>9, <1>11, <2>1, Nothing DEF IsCreate, NoCommand
    <3>2. PICK e \in outbox : e.command = call[u].command /\ e.shell = u
      BY <2>1, <3>1 DEF OneCreate
    <3>3. e.command.id # s
      BY <1>2, <2>1, <3>1, <3>2, OthersEntry
    <3> QED BY <1>10, <2>1, <3>1, <3>2, <3>3
  <2> QED BY <1>8, <1>12, <2>1 DEF OneCreate
<1>16. OffersOwn'
  <2>1. \A u \in Tab : u # t =>
          /\ IsCreate(pending'[u]) =>
                /\ bound'[u] = None
                /\ \A e \in outbox' : IsCreate(e.command) =>
                      (e.shell = u <=> e.command.id = pending'[u].id)
                /\ \E e \in outbox' : /\ IsCreate(e.command) /\ e.shell = u
                                      /\ e.command.id = pending'[u].id
          /\ pending'[u].type = "send" => pending'[u].session = bound'[u]
    BY <1>1, <1>8, <1>15, FoundIsOwn DEF OneCreate
  <2>2. pending'[t].type = "send" => pending'[t].session = bound'[t]
    BY <1>5, <1>8 DEF NoCommand
  <2>3. ~ IsCreate(pending'[t])
    BY <1>8, <1>11
  <2> QED BY <2>1, <2>2, <2>3 DEF OffersOwn
<1>17. InOrder'
  <2>1. \A x, d : FirstFor(x, d) => FirstFor(x, d)'
    BY <1>1 DEF FirstFor
  <2>2. \A e \in outbox' : e.shell # t => e \in outbox /\ e.shell \in Tab
    BY <1>10, <1>12
  <2> QED BY <1>1, <1>12, <1>13, <2>1, <2>2 DEF InOrder
<1>18. ShownThere'
  <2>1. bound'[t] = s /\ (starting[t].text # None => s \in meant[starting[t].text])
    BY <1>7, <1>8, <1>11 DEF ShownThere
  <2>2. AimedCall(call[t], meant)
    BY DEF AimInv, AllAimed
  <2>3. call'[t].turn # NotStarting => s \in meant[call'[t].turn.text]
    BY <1>2, <1>7, <1>9, <2>2, Nothing DEF AimedCall, IsCreate
  <2> QED BY <1>1, <1>8, <1>9, <1>11, <1>13, <2>1, <2>3 DEF ShownThere
<1>19. ASSUME NEW e \in outbox, e.shell = t, e.command.session = s, next # NoCommand,
              e.command.id # next.id
       PROVE  Behind(e)
  <2>1. /\ e.command.type = "send" /\ e.command.text \in Text
        /\ FirstFor(e.command.text, s)
    BY <1>7, <1>11, <1>12, <1>19 DEF InOrder
  <2>2. next.text \in Text /\ s \in meant[next.text]
    <3>1. Aimed(next, meant)
      BY <1>1, <1>8 DEF AimInv, AllAimed
    <3> QED BY <1>5, <1>19, <3>1 DEF Aimed
  <2>3. PICK y \in Known : y.text = next.text /\ y.id = next.id
    BY <1>5, <2>2, NoneIsNoText DEF Seen
  <2>4. e.command.text # next.text
    BY <1>19, <2>1, <2>2, <2>3, NoneIsNoText, StoredIn
    DEF AimInv, OutboxInv, NamesInv, OneIdentifier
  <2>5. e.command.text <= next.text /\ e.command.text \in Nat /\ next.text \in Nat
    BY <2>1, <2>2, NamesAssumption DEF FirstFor
  <2> QED BY <1>19, <2>2, <2>4, <2>5 DEF Behind
<1>20. ASSUME NEW u \in Tab PROVE CallFollows(u)'
  <2>1. \A e \in outbox : Behind(e) => Behind(e)'
    BY <1>1 DEF Behind
  <2>2. CASE u # t
    <3>1. \A e \in outbox' : e.shell = u => e \in outbox
      BY <1>10, <2>2
    <3> QED BY <1>8, <1>9, <2>1, <2>2, <3>1 DEF CallFollows
  <2>3. CASE u = t /\ next = NoCommand
    BY <1>9, <2>3 DEF CallFollows, NoCall
  <2>4. CASE u = t /\ next # NoCommand
    <3>1. \A e \in outbox' : e.shell = t =>
             ~ IsCreate(e.command) /\ (e.command.id = next.id \/ e \in outbox)
      BY <1>10, <1>12
    <3> QED BY <1>5, <1>8, <1>9, <1>11, <1>19, <2>1, <2>4, <3>1 DEF CallFollows
  <2> QED BY <2>2, <2>3, <2>4
<1> QED BY <1>14, <1>15, <1>16, <1>17, <1>18, <1>20

LEMMA OpenedOffers ==
    ASSUME RetryInv, AimInv', NEW t \in Tab, Opened(t) PROVE PanesInv'
<1>1. CASE call[t].fresh
  BY <1>1, OpenedFresh
<1>2. CASE ~ call[t].fresh
  <2>1. /\ outbox' = clearPendingRemoteCommand(outbox, call[t].command.id)
        /\ call' = [call EXCEPT ![t] = NoCall]
        /\ UNCHANGED <<bound, pending, starting, meant>>
    BY <1>2 DEF Opened, history
  <2> QED BY <2>1, Answered
<1> QED BY <1>1, <1>2

LEMMA InitOffers == ASSUME Init PROVE RetryInv
<1>1. AimInv
  BY InitAimed
<1> QED BY <1>1, Nothing DEF Init, RetryInv, PanesInv, AllOffered, OneCreate, OffersOwn,
           InOrder, ShownThere, CallFollows, Creating, IsCreate, NoCommand, NoCall

LEMMA NextOffers == ASSUME RetryInv, [Next]_vars PROVE RetryInv'
<1>1. AimInv'
  BY NextStep, NextAimed DEF RetryInv, AimInv
<1>2. CASE UNCHANGED vars
  <2>1. UNCHANGED <<outbox, bound, pending, starting, call, meant>>
    BY <1>2 DEF vars, desktop, history
  <2>2. PanesInv'
    BY <1>1, <2>1, Settling DEF Settled
  <2> QED BY <1>1, <2>2 DEF RetryInv
<1>3. CASE Next
  <2>1. PanesInv'
    BY <1>1, <1>3, OpenedOffers, SubmitOffers, TryAgainOffers, RetryOffers, AnswersSettle,
       SaveFollowupOffers, PanesSettle DEF Next
  <2> QED BY <1>1, <2>1 DEF RetryInv
<1> QED BY <1>2, <1>3

\* A pane that rests on a session offers to retry what it sent there and the
\* host has not confirmed, unless a later message for the session stands before
\* it: after every answer, timeout, restart, retry and change of panes.
THEOREM RetryOffered == Spec => []OfferedForRetry
<1>1. Init => RetryInv
  BY InitOffers
<1>2. RetryInv /\ [Next]_vars => RetryInv'
  BY NextOffers
<1>3. RetryInv => OfferedForRetry
  BY DEF RetryInv, PanesInv, AllOffered, OfferedForRetry, Behind
<1> QED BY <1>1, <1>2, <1>3, PTL DEF Spec

=============================================================================

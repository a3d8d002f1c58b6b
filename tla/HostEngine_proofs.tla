--------------------------- MODULE HostEngine_proofs ---------------------------
(***************************************************************************)
(* Type correctness of HostEngine: what the operators of HostSession       *)
(* return and preserve, one lemma per action, and the theorem TypeCorrect  *)
(* that every behaviour of Spec keeps TypeOK, for every value of the       *)
(* constants.                                                              *)
(***************************************************************************)
EXTENDS HostEngine, TLAPS

-----------------------------------------------------------------------------
(* The operators of HostSession. *)

LEMMA SaveType == ASSUME NEW v \in HostSession PROVE Save(v) \in HostSession
  BY DEF Save, HostSession

LEMMA NewSessionType ==
  ASSUME NEW p \in Projects PROVE NewSession(p) \in HostSession
  <1>1. AbsentSession \in HostSession
    BY DEF AbsentSession, HostSession, Status, PlanStatus, TitleKind
  <1> QED BY <1>1 DEF NewSession, HostSession, Status

LEMMA StopStreamingType ==
  ASSUME NEW v \in HostSession PROVE StopStreaming(v) \in HostSession
  BY DEF StopStreaming, HostSession, PlanStatus

LEMMA SettledType ==
  ASSUME NEW v \in HostSession, NEW status \in Status, NEW silent \in BOOLEAN
  PROVE  Settled(v, status, silent) \in HostSession
  BY StopStreamingType DEF Settled, HostSession, PlanStatus

LEMMA TurnStartedType ==
  ASSUME NEW c \in SendCommand \cup CompactCommand, NEW v \in HostSession
  PROVE  TurnStarted(c, v) \in HostSession
  <1>1. c.id \in CommandIds /\ c.plan \in CommandIds \cup {None}
    BY DEF SendCommand, CompactCommand
  <1>2. Append(v.turns, c.id) \in Seq(CommandIds)
    BY <1>1 DEF HostSession
  <1>3. (IF c.plan = None THEN v.plans ELSE [v.plans EXCEPT ![c.plan] = "building"])
           \in [CommandIds -> PlanStatus]
    BY <1>1 DEF HostSession, PlanStatus
  <1>4. (IF c.type = "send" /\ FirstTurn(v) /\ v.title = "placeholder"
           THEN "prompt" ELSE v.title) \in TitleKind
    BY DEF HostSession, TitleKind
  <1> QED BY <1>1, <1>2, <1>3, <1>4, ZenonT(60) DEF TurnStarted, HostSession, Status

LEMMA EventType ==
  ASSUME NEW v \in HostSession, NEW r \in CommandIds, NEW e \in EventsOf(r, v)
  PROVE  /\ e \in Event
         /\ e.kind \in {"ask", "askResolved", "question", "questionResolved"}
              => e.request \in Requests
         /\ e.kind \in {"planStreaming", "planReady"} => e.plan \in CommandIds
  BY SMTT(60) DEF EventsOf, Event, EventKind, TextEvent, ErrorEvent, AskEvent, PlanEvent

LEMMA OutputType ==
  ASSUME NEW v \in HostSession
  PROVE  [v EXCEPT !.output = @ + 1] \in HostSession
  BY DEF HostSession

LEMMA AbsorbType ==
  ASSUME NEW v \in HostSession, NEW r \in CommandIds, NEW e \in EventsOf(r, v)
  PROVE  Absorb(v, e) \in HostSession
  <1>1. /\ e \in Event
        /\ e.kind \in {"ask", "askResolved", "question", "questionResolved"}
             => e.request \in Requests
        /\ e.kind \in {"planStreaming", "planReady"} => e.plan \in CommandIds
    BY EventType
  <1>2. e.kind \in EventKind
    BY <1>1 DEF Event
  <1>3. CASE e.kind = "text"
    BY <1>3, OutputType DEF Absorb
  <1>4. CASE e.kind \in {"ask", "askResolved"}
    <2>1. \/ Absorb(v, e) = [v EXCEPT !.asks = @ \cup {e.request}]
          \/ Absorb(v, e) = [v EXCEPT !.asks = @ \ {e.request}]
      BY <1>4 DEF Absorb
    <2> QED BY <1>1, <1>4, <2>1 DEF HostSession
  <1>5. CASE e.kind \in {"question", "questionResolved"}
    <2>1. \E q \in Requests \cup {None} :
            Absorb(v, e) = [v EXCEPT !.question = q]
      BY <1>1, <1>5 DEF Absorb, HostSession
    <2> QED BY <2>1 DEF HostSession
  <1>6. CASE e.kind \in {"planStreaming", "planReady"}
    <2>1. \/ Absorb(v, e) = [v EXCEPT !.plans[e.plan] = "streaming"]
          \/ Absorb(v, e) = [v EXCEPT !.plans[e.plan] = "ready"]
      BY <1>6 DEF Absorb
    <2> QED BY <1>1, <1>6, <2>1 DEF HostSession, PlanStatus
  <1>7. CASE e.kind = "error"
    <2>1. Absorb(v, e) = [StopStreaming(v) EXCEPT !.output = @ + 1]
      BY <1>7 DEF Absorb
    <2> QED BY <2>1, StopStreamingType, OutputType
  <1> QED BY <1>2, <1>3, <1>4, <1>5, <1>6, <1>7 DEF EventKind

LEMMA AppliedType ==
  ASSUME NEW c \in SessionCommand, NEW v \in HostSession
  PROVE  Applied(c, v) \in HostSession
  <1>1. /\ c.id \in CommandIds
        /\ StartsTurn(c) => c \in SendCommand \cup CompactCommand
        /\ c.type = "removeDraft" => c.draft \in CommandIds
        /\ c.type \in {"approve", "answer"} => c.request \in Requests
    BY DEF SessionCommand, SendCommand, CompactCommand, EditCommand,
           RemoveCommand, CancelCommand, ReplyCommand, OfType, StartsTurn
  <1>2. CASE StartsTurn(c)
    <2>1. Applied(c, v) = TurnStarted(c, v)
      BY <1>2 DEF Applied, StartsTurn
    <2> QED BY <1>1, <1>2, <2>1, TurnStartedType
  <1>3. CASE ~StartsTurn(c)
    <2>1. Drafted(c, v) \in HostSession
      <3>1. (IF v.turns = <<>> /\ v.drafts = {} THEN "prompt" ELSE v.title)
               \in TitleKind
        BY DEF HostSession, TitleKind
      <3> QED BY <1>1, <3>1 DEF Drafted, HostSession
    <2>2. [v EXCEPT !.drafts = @ \ {c.draft}] \in HostSession
      BY DEF HostSession
    <2>3. [v EXCEPT !.asks = @ \ {c.request}] \in HostSession
      BY DEF HostSession
    <2>4. [v EXCEPT !.question = None] \in HostSession
      BY DEF HostSession
    <2> QED BY <1>3, <2>1, <2>2, <2>3, <2>4 DEF Applied
  <1> QED BY <1>2, <1>3

-----------------------------------------------------------------------------
(* What the operators preserve. *)

SameTurn(v, w) == v.status = w.status /\ v.run = w.run /\ v.project = w.project
SameUserPart(v, w) == v.title = w.title /\ v.turns = w.turns /\ v.drafts = w.drafts

(* A stored session and a copy of it that has absorbed events.               *)
Agrees(v, w) == SameTurn(v, w) /\ SameUserPart(v, w) /\ v.revision = w.revision

LEMMA SaveKeeps ==
  ASSUME NEW v \in HostSession
  PROVE  /\ SameTurn(Save(v), v) /\ SameUserPart(Save(v), v)
         /\ Save(v).revision = v.revision + 1
  BY DEF Save, HostSession, SameTurn, SameUserPart

LEMMA StopStreamingKeeps ==
  ASSUME NEW v \in HostSession
  PROVE  Agrees(StopStreaming(v), v)
  BY DEF StopStreaming, HostSession, Agrees, SameTurn, SameUserPart

LEMMA SettledKeeps ==
  ASSUME NEW v \in HostSession, NEW status \in Status, NEW silent \in BOOLEAN
  PROVE  /\ Settled(v, status, silent).status = status
         /\ Settled(v, status, silent).run = v.run
         /\ Settled(v, status, silent).project = v.project
         /\ Settled(v, status, silent).revision = v.revision
         /\ SameUserPart(Settled(v, status, silent), v)
  <1> DEFINE stopped == StopStreaming(v)
  <1>1. stopped \in HostSession /\ Agrees(stopped, v)
    BY StopStreamingType, StopStreamingKeeps
  <1>2. PICK plans : Settled(v, status, silent) =
                       [stopped EXCEPT !.status = status, !.plans = plans]
    BY DEF Settled
  <1> HIDE DEF stopped
  <1> QED BY <1>1, <1>2 DEF HostSession, Agrees, SameTurn, SameUserPart

LEMMA OutputKeeps ==
  ASSUME NEW v \in HostSession PROVE Agrees([v EXCEPT !.output = @ + 1], v)
  BY DEF HostSession, Agrees, SameTurn, SameUserPart

LEMMA AbsorbKeeps ==
  ASSUME NEW v \in HostSession, NEW e
  PROVE  Agrees(Absorb(v, e), v)
  <1>1. CASE e.kind = "text"
    BY <1>1, OutputKeeps DEF Absorb
  <1>2. CASE e.kind \in {"ask", "askResolved"}
    BY <1>2 DEF Absorb, HostSession, Agrees, SameTurn, SameUserPart
  <1>3. CASE e.kind \in {"question", "questionResolved"}
    BY <1>3 DEF Absorb, HostSession, Agrees, SameTurn, SameUserPart
  <1>4. CASE e.kind \in {"planStreaming", "planReady"}
    BY <1>4 DEF Absorb, HostSession, Agrees, SameTurn, SameUserPart
  <1>5. CASE e.kind \notin {"text", "ask", "askResolved", "question",
                            "questionResolved", "planStreaming", "planReady"}
    <2>1. Absorb(v, e) = [StopStreaming(v) EXCEPT !.output = @ + 1]
      BY <1>5 DEF Absorb
    <2>2. Agrees(Absorb(v, e), StopStreaming(v))
      BY <2>1, StopStreamingType, OutputKeeps
    <2> QED BY <2>2, StopStreamingKeeps DEF Agrees, SameTurn, SameUserPart
  <1> QED BY <1>1, <1>2, <1>3, <1>4, <1>5

LEMMA TurnStartedKeeps ==
  ASSUME NEW c \in SendCommand \cup CompactCommand, NEW v \in HostSession
  PROVE  /\ TurnStarted(c, v).status = "running"
         /\ TurnStarted(c, v).run = c.id
         /\ TurnStarted(c, v).project = v.project
         /\ TurnStarted(c, v).revision = v.revision
         /\ v.title = "renamed" => TurnStarted(c, v).title = "renamed"
  BY DEF TurnStarted, HostSession

(* A command that starts no turn leaves the running one alone, and a title   *)
(* the user gave changes only when the first block of a conversation is      *)
(* saved as a draft.                                                         *)
LEMMA AppliedKeeps ==
  ASSUME NEW c, NEW v \in HostSession, ~StartsTurn(c)
  PROVE  /\ SameTurn(Applied(c, v), v)
         /\ Applied(c, v).revision = v.revision
         /\ v.title = "renamed" =>
              \/ Applied(c, v).title = "renamed"
              \/ v.turns = <<>> /\ Applied(c, v).drafts # {}
  <1>1. CASE c.type = "draft"
    <2>1. Applied(c, v) = Drafted(c, v)
      BY <1>1 DEF Applied, StartsTurn
    <2>2. /\ SameTurn(Drafted(c, v), v)
          /\ Drafted(c, v).revision = v.revision
          /\ Drafted(c, v).drafts = v.drafts \cup {c.id}
          /\ Drafted(c, v).title =
               IF v.turns = <<>> /\ v.drafts = {} THEN "prompt" ELSE v.title
      BY DEF Drafted, HostSession, SameTurn
    <2> QED BY <2>1, <2>2
  <1>2. CASE c.type \in {"removeDraft", "approve", "answer"}
    BY <1>2 DEF Applied, StartsTurn, HostSession, SameTurn
  <1>3. CASE c.type \notin {"draft", "removeDraft", "approve", "answer"}
    BY <1>3 DEF Applied, SameTurn
  <1> QED BY <1>1, <1>2, <1>3

-----------------------------------------------------------------------------
(* Types. *)

LEMMA LiveEntryType == ASSUME NEW v \in HostSession PROVE LiveEntry(v) \in Live
  BY DEF LiveEntry, Live

LEMMA InitialTypes ==
  /\ AbsentSession \in HostSession
  /\ NoTask \in Task
  /\ NotLive \in Live
  <1>1. AbsentSession \in HostSession
    BY DEF AbsentSession, HostSession, Status, PlanStatus, TitleKind
  <1>2. NoTask \in Task
    BY DEF NoTask, Task, Phase
  <1>3. NotLive \in Live
    BY <1>1 DEF NotLive, Live
  <1> QED BY <1>1, <1>2, <1>3

LEMMA TaskType ==
  ASSUME NEW t \in Task, NEW phase \in Phase, NEW b \in BOOLEAN
  PROVE  /\ [t EXCEPT !.phase = phase] \in Task
         /\ [t EXCEPT !.phase = phase, !.error = b] \in Task
         /\ [t EXCEPT !.cancelled = b] \in Task
         /\ [t EXCEPT !.persistenceFailed = b] \in Task
  BY DEF Task

LEMMA CountType ==
  ASSUME NEW S, NEW f \in [S -> Nat], NEW q
  PROVE  [f EXCEPT ![q] = @ + 1] \in [S -> Nat]
  <1>1. CASE q \in S
    <2>1. f[q] + 1 \in Nat
      BY <1>1
    <2> QED BY <2>1
  <1>2. CASE q \notin S
    BY <1>2
  <1> QED BY <1>1, <1>2

LEMMA LatestType ==
  ASSUME TypeOK, NEW s \in SessionIds
  PROVE  Latest(s) \in HostSession /\ Flushed(s) \in Live
  <1>1. sessions[s] \in HostSession /\ live[s] \in Live
    BY DEF TypeOK
  <1>2. live[s].value \in HostSession
    BY <1>1 DEF Live
  <1>3. Save(live[s].value) \in HostSession
    BY <1>2, SaveType
  <1>4. LiveEntry(Save(live[s].value)) \in Live
    BY <1>3, LiveEntryType
  <1>5. [live[s] EXCEPT !.timer = FALSE] \in Live
    BY <1>1 DEF Live
  <1> QED BY <1>1, <1>3, <1>4, <1>5 DEF Latest, Flushed

LEMMA WritesType ==
  ASSUME TypeOK, NEW s \in SessionIds
  PROVE  /\ FlushOnly(s) => /\ sessions' \in [SessionIds -> HostSession]
                            /\ live' \in [SessionIds -> Live]
         /\ FlushFails(s) => /\ sessions' \in [SessionIds -> HostSession]
                             /\ live' \in [SessionIds -> Live]
         /\ \A v \in HostSession :
              FlushAndSave(s, v) => /\ sessions' \in [SessionIds -> HostSession]
                                    /\ live' \in [SessionIds -> Live]
  <1>1. FlushOnly(s) => /\ sessions' \in [SessionIds -> HostSession]
                        /\ live' \in [SessionIds -> Live]
    BY LatestType DEF FlushOnly, TypeOK
  <1>2. FlushFails(s) => /\ sessions' \in [SessionIds -> HostSession]
                         /\ live' \in [SessionIds -> Live]
    <2>1. live[s] \in Live
      BY DEF TypeOK
    <2>2. [live[s] EXCEPT !.timer = FALSE] \in Live
      BY <2>1 DEF Live
    <2> QED BY <2>2 DEF FlushFails, TypeOK
  <1>3. ASSUME NEW v \in HostSession, FlushAndSave(s, v)
        PROVE  /\ sessions' \in [SessionIds -> HostSession]
               /\ live' \in [SessionIds -> Live]
    <2>1. Save(v) \in HostSession /\ LiveEntry(Save(v)) \in Live
      BY SaveType, LiveEntryType
    <2> QED BY <1>3, <2>1 DEF FlushAndSave, TypeOK
  <1> QED BY <1>1, <1>2, <1>3

LEMMA SpentType ==
  ASSUME NEW v \in [events : Nat, updates : Nat, faults : Nat, crashes : Nat]
  PROVE  /\ [v EXCEPT !.events = @ + 1]
              \in [events : Nat, updates : Nat, faults : Nat, crashes : Nat]
         /\ [v EXCEPT !.events = @ + 1, !.faults = @ + 1]
              \in [events : Nat, updates : Nat, faults : Nat, crashes : Nat]
  <1>1. v.events + 1 \in Nat /\ v.faults + 1 \in Nat
    OBVIOUS
  <1> QED BY <1>1

LEMMA FaultType ==
  ASSUME TypeOK, Fault
  PROVE  spent' \in [events : Nat, updates : Nat, faults : Nat, crashes : Nat]
  BY DEF TypeOK, Fault

LEMMA ReceiptType ==
  ASSUME TypeOK, NEW c \in Command, NEW s \in SessionIds,
         sessions' \in [SessionIds -> HostSession], RecordReceipt(c, s)
  PROVE  receipts' \in [CommandIds -> Receipt \cup {None}]
  <1>1. sessions'[s].revision \in Nat
    BY DEF HostSession
  <1>2. [command |-> c, session |-> s, revision |-> sessions'[s].revision] \in Receipt
    BY <1>1 DEF Receipt
  <1> QED BY <1>2 DEF RecordReceipt, TypeOK

LEMMA TypeInit == Init => TypeOK
  <1> SUFFICES ASSUME Init PROVE TypeOK
    OBVIOUS
  <1>1. \A p \in Projects : Save(NewSession(p)) \in HostSession
    BY NewSessionType, SaveType
  <1>2. sessions \in [SessionIds -> HostSession]
    BY <1>1, InitialTypes DEF Init
  <1> QED BY <1>2, InitialTypes DEF Init, TypeOK

LEMMA TypeCreate ==
  ASSUME TypeOK, NEW c \in CreateCommand, Create(c) PROVE TypeOK'
  <1>1. c \in Command /\ c.project \in Projects
    BY DEF Command, CreateCommand
  <1>2. PICK s \in SessionIds :
          /\ sessions' = [sessions EXCEPT ![s] = Save(NewSession(c.project))]
          /\ RecordReceipt(c, s)
    BY DEF Create
  <1>3. sessions' \in [SessionIds -> HostSession]
    BY <1>1, <1>2, NewSessionType, SaveType DEF TypeOK
  <1>4. receipts' \in [CommandIds -> Receipt \cup {None}]
    BY <1>1, <1>2, <1>3, ReceiptType
  <1> QED BY <1>3, <1>4 DEF Create, TypeOK

LEMMA SessionCommandType ==
  ASSUME NEW c \in SessionCommand
  PROVE  c \in Command /\ c.id \in CommandIds /\ c.session \in SessionIds
  BY DEF Command, SessionCommand, SendCommand, CompactCommand, EditCommand,
         RemoveCommand, CancelCommand, ReplyCommand

LEMMA TypeStart ==
  ASSUME TypeOK, NEW c \in SendCommand \cup CompactCommand, Start(c)
  PROVE  TypeOK'
  <1> DEFINE s     == c.session
             saved == Save(Applied(c, Latest(s)))
  <1>1. c \in SessionCommand /\ c \in Command /\ c.id \in CommandIds /\ s \in SessionIds
    BY SessionCommandType DEF SessionCommand
  <1>2. saved \in HostSession
    BY <1>1, LatestType, AppliedType, SaveType
  <1>3. LiveEntry(saved) \in Live
    BY <1>2, LiveEntryType
  <1> HIDE DEF saved
  <1>4. /\ sessions' = [sessions EXCEPT ![s] = saved]
        /\ RecordReceipt(c, s)
        /\ live' = [live EXCEPT ![s] = LiveEntry(saved)]
        /\ running' = [running EXCEPT ![s] = [NoTask EXCEPT !.phase = "queued",
                                                            !.run = c.id]]
    BY DEF Start, saved
  <1>5. sessions' \in [SessionIds -> HostSession] /\ live' \in [SessionIds -> Live]
    BY <1>1, <1>2, <1>3, <1>4 DEF TypeOK
  <1>6. receipts' \in [CommandIds -> Receipt \cup {None}]
    BY <1>1, <1>4, <1>5, ReceiptType
  <1>7. [NoTask EXCEPT !.phase = "queued", !.run = c.id] \in Task
    BY <1>1 DEF NoTask, Task, Phase
  <1>8. naming' \in SUBSET SessionIds
    BY <1>1 DEF Start, TypeOK
  <1> QED BY <1>1, <1>4, <1>5, <1>6, <1>7, <1>8 DEF Start, TypeOK

(* The commands that leave the turn as it is. *)
LEMMA EditTypes ==
  ASSUME TypeOK, NEW c \in SessionCommand,
         FlushAndSave(c.session, Applied(c, Latest(c.session))),
         RecordReceipt(c, c.session)
  PROVE  /\ sessions' \in [SessionIds -> HostSession]
         /\ live' \in [SessionIds -> Live]
         /\ receipts' \in [CommandIds -> Receipt \cup {None}]
  <1>1. c \in Command /\ c.session \in SessionIds
    BY SessionCommandType
  <1>2. Applied(c, Latest(c.session)) \in HostSession
    BY <1>1, LatestType, AppliedType
  <1>3. /\ sessions' \in [SessionIds -> HostSession]
        /\ live' \in [SessionIds -> Live]
    BY <1>1, <1>2, WritesType
  <1> QED BY <1>1, <1>3, ReceiptType

LEMMA TypeEdit ==
  ASSUME TypeOK, NEW c \in EditCommand \cup RemoveCommand, Edit(c) PROVE TypeOK'
  <1>1. c \in SessionCommand
    BY DEF SessionCommand
  <1> QED BY <1>1, EditTypes DEF Edit, TypeOK

LEMMA TypeCancel ==
  ASSUME TypeOK, NEW c \in CancelCommand, Cancel(c) PROVE TypeOK'
  <1>1. c \in SessionCommand /\ c.session \in SessionIds
    BY SessionCommandType DEF SessionCommand
  <1>2. running' \in [SessionIds -> Task]
    <2>1. running[c.session] \in Task /\ InMap(c.session) \in BOOLEAN
      BY <1>1 DEF TypeOK, InMap
    <2>2. [running[c.session] EXCEPT !.cancelled = InMap(c.session)] \in Task
      BY <2>1, TaskType DEF Phase
    <2> QED BY <2>2 DEF Cancel, TypeOK
  <1> QED BY <1>1, <1>2, EditTypes DEF Cancel, TypeOK

LEMMA TypeReply ==
  ASSUME TypeOK, NEW c \in ReplyCommand, Reply(c) PROVE TypeOK'
  <1>1. c \in SessionCommand /\ c.session \in SessionIds
    BY SessionCommandType DEF SessionCommand
  <1>2. replies' \in [CommandIds -> [Requests -> Nat]]
    <2> DEFINE r == running[c.session].run
    <2>1. CASE InMap(c.session) /\ r \in CommandIds
      <3>1. replies[r] \in [Requests -> Nat]
        BY <2>1 DEF TypeOK
      <3>2. [replies[r] EXCEPT ![c.request] = @ + 1] \in [Requests -> Nat]
        BY <3>1, CountType
      <3>3. replies' = [replies EXCEPT ![r] =
                          [replies[r] EXCEPT ![c.request] = @ + 1]]
        BY <2>1 DEF Reply
      <3> QED BY <3>2, <3>3 DEF TypeOK
    <2>2. CASE InMap(c.session) /\ r \notin CommandIds
      <3>1. DOMAIN replies = CommandIds
        BY DEF TypeOK
      <3>2. replies' = replies
        BY <2>2, <3>1 DEF Reply, TypeOK
      <3> QED BY <3>2 DEF TypeOK
    <2>3. CASE ~InMap(c.session)
      BY <2>3 DEF Reply, TypeOK
    <2> QED BY <2>1, <2>2, <2>3
  <1> QED BY <1>1, <1>2, EditTypes DEF Reply, TypeOK

LEMMA TypeRefuse ==
  ASSUME TypeOK, NEW c \in SessionCommand, Refuse(c) PROVE TypeOK'
  <1>1. c.session \in SessionIds
    BY SessionCommandType
  <1>2. /\ sessions' \in [SessionIds -> HostSession]
        /\ live' \in [SessionIds -> Live]
    BY <1>1, WritesType DEF Refuse
  <1>3. spent' \in [events : Nat, updates : Nat, faults : Nat, crashes : Nat]
    BY FaultType DEF Refuse, FlushFails, TypeOK
  <1> QED BY <1>2, <1>3 DEF Refuse, TypeOK

LEMMA TypeTask ==
  ASSUME TypeOK, NEW s \in SessionIds,
         StartSend(s) \/ EndSend(s) \/ RetryTimer(s)
  PROVE  TypeOK'
  <1>1. running[s] \in Task
    BY DEF TypeOK
  <1>2. running' \in [SessionIds -> Task]
    <2>1. \E phase \in Phase, b \in BOOLEAN :
            \/ running' = [running EXCEPT ![s].phase = phase]
            \/ running' = [running EXCEPT ![s] = [@ EXCEPT !.phase = phase,
                                                          !.error = b]]
      BY DEF StartSend, EndSend, RetryTimer, Phase
    <2>2. PICK phase \in Phase, b \in BOOLEAN :
            \/ running' = [running EXCEPT ![s].phase = phase]
            \/ running' = [running EXCEPT ![s] = [@ EXCEPT !.phase = phase,
                                                          !.error = b]]
      BY <2>1
    <2>3. /\ [running[s] EXCEPT !.phase = phase] \in Task
          /\ [running[s] EXCEPT !.phase = phase, !.error = b] \in Task
      BY <1>1, <2>2, TaskType
    <2> QED BY <2>2, <2>3 DEF TypeOK
  <1>3. handed' \in [CommandIds -> Nat]
    <2>1. \/ handed' = [handed EXCEPT ![running[s].run] = @ + 1]
          \/ handed' = handed
      BY DEF StartSend, EndSend, RetryTimer
    <2>2. handed \in [CommandIds -> Nat]
      BY DEF TypeOK
    <2>3. [handed EXCEPT ![running[s].run] = @ + 1] \in [CommandIds -> Nat]
      BY <2>2, CountType
    <2> QED BY <2>1, <2>2, <2>3
  <1> QED BY <1>2, <1>3 DEF StartSend, EndSend, RetryTimer, TypeOK

LEMMA TypeFailures ==
  ASSUME TypeOK, NEW s \in SessionIds, SettleFails(s) \/ RetryFails(s)
  PROVE  /\ sessions' \in [SessionIds -> HostSession]
         /\ live' \in [SessionIds -> Live]
         /\ running' \in [SessionIds -> Task]
         /\ spent' \in [events : Nat, updates : Nat, faults : Nat, crashes : Nat]
  <1>1. running[s] \in Task /\ Parked \in Phase
    BY DEF TypeOK, Parked, Phase
  <1>2. running' = [running EXCEPT ![s] = [running[s] EXCEPT !.phase = Parked]]
    BY DEF SettleFails, RetryFails
  <1>3. running' \in [SessionIds -> Task]
    BY <1>1, <1>2, TaskType DEF TypeOK
  <1>4. live[s] \in Live
    BY DEF TypeOK
  <1>5. [live[s] EXCEPT !.timer = FALSE] \in Live
    BY <1>4 DEF Live
  <1>6. /\ sessions' \in [SessionIds -> HostSession]
        /\ live' \in [SessionIds -> Live]
    <2>1. CASE FlushOnly(s)
      BY <2>1, WritesType
    <2>2. CASE live' = [live EXCEPT ![s].timer = FALSE] /\ UNCHANGED sessions
      BY <1>5, <2>2 DEF TypeOK
    <2>3. CASE /\ sessions' = [sessions EXCEPT ![s] = Latest(s)]
               /\ live' = [live EXCEPT ![s] = NotLive]
      BY <2>3, LatestType, InitialTypes DEF TypeOK
    <2> QED BY <2>1, <2>2, <2>3 DEF SettleFails, RetryFails
  <1> QED BY <1>3, <1>6, FaultType DEF SettleFails, RetryFails

LEMMA TypeSettle ==
  ASSUME TypeOK, NEW s \in SessionIds, Settle(s) \/ RetrySettle(s)
  PROVE  TypeOK'
  <1>1. CASE SettleFails(s) \/ RetryFails(s)
    BY <1>1, TypeFailures DEF Settle, RetrySettle, TypeOK
  <1>2. CASE ~(SettleFails(s) \/ RetryFails(s))
    <2>1. \A status \in Status, silent \in BOOLEAN :
            Save(Settled(Latest(s), status, silent)) \in HostSession
      BY LatestType, SettledType, SaveType
    <2>2. \E v \in HostSession : sessions' = [sessions EXCEPT ![s] = v]
      <3>1. CASE Settle(s)
        <4> DEFINE broken == host = "closing" \/ running[s].persistenceFailed
                   silent == ~broken /\ ~running[s].cancelled /\ ~running[s].error
                   status == IF broken THEN "interrupted" ELSE "idle"
        <4>1. status \in Status /\ silent \in BOOLEAN
          BY DEF Status
        <4>2. \/ sessions' = [sessions EXCEPT ![s] =
                               Save(Settled(Latest(s), status, silent))]
              \/ sessions' = [sessions EXCEPT ![s] = Latest(s)]
          BY <1>2, <3>1 DEF Settle
        <4> HIDE DEF status, silent
        <4> QED BY <2>1, <4>1, <4>2, LatestType
      <3>2. CASE RetrySettle(s)
        <4>1. \/ sessions' = [sessions EXCEPT ![s] =
                               Save(Settled(Latest(s), "interrupted", FALSE))]
              \/ sessions' = [sessions EXCEPT ![s] = Latest(s)]
          BY <1>2, <3>2 DEF RetrySettle
        <4> QED BY <2>1, <4>1, LatestType DEF Status
      <3> QED BY <3>1, <3>2
    <2>3. /\ live' = [live EXCEPT ![s] = NotLive]
          /\ running' = [running EXCEPT ![s] = NoTask]
          /\ UNCHANGED spent
      BY <1>2 DEF Settle, RetrySettle
    <2> QED BY <2>2, <2>3, InitialTypes DEF Settle, RetrySettle, TypeOK
  <1> QED BY <1>1, <1>2

LEMMA TypeEvent ==
  ASSUME TypeOK, NEW s \in SessionIds, NEW r \in CommandIds,
         NEW e \in EventsOf(r, live[s].value), ProviderEvent(s, r, e)
  PROVE  TypeOK'
  <1> DEFINE value  == Absorb(live[s].value, e)
             events == Append(live[s].events, e)
  <1>1. live[s] \in Live /\ running[s] \in Task
    BY DEF TypeOK
  <1>2. live[s].value \in HostSession /\ live[s].events \in Seq(Event)
    BY <1>1 DEF Live
  <1>3. e \in Event
    BY <1>2, EventType
  <1>4. value \in HostSession
    BY <1>2, AbsorbType
  <1>5. events \in Seq(Event)
    BY <1>2, <1>3
  <1> HIDE DEF value, events
  <1>6. /\ Save(value) \in HostSession
        /\ LiveEntry(Save(value)) \in Live
    BY <1>4, SaveType, LiveEntryType
  <1>7. \A t \in BOOLEAN :
          [live[s] EXCEPT !.value = value, !.events = events, !.timer = t] \in Live
    BY <1>1, <1>4, <1>5 DEF Live
  <1>8. [running[s] EXCEPT !.persistenceFailed = InMap(s)] \in Task
    <2>1. InMap(s) \in BOOLEAN
      BY DEF InMap
    <2> QED BY <1>1, <2>1, TaskType DEF Phase
  <1>9. asked' \in [CommandIds -> SUBSET Requests]
    <2>1. e.kind \in {"ask", "question"} => e.request \in Requests
      BY <1>2, EventType
    <2> QED BY <2>1 DEF ProviderEvent, TypeOK
  <1>10. spent' \in [events : Nat, updates : Nat, faults : Nat, crashes : Nat]
    <2>1. \/ spent' = [spent EXCEPT !.events = @ + 1]
          \/ spent' = [spent EXCEPT !.events = @ + 1, !.faults = @ + 1]
      BY DEF ProviderEvent
    <2>2. spent \in [events : Nat, updates : Nat, faults : Nat, crashes : Nat]
      BY DEF TypeOK
    <2>3. /\ [spent EXCEPT !.events = @ + 1]
               \in [events : Nat, updates : Nat, faults : Nat, crashes : Nat]
          /\ [spent EXCEPT !.events = @ + 1, !.faults = @ + 1]
               \in [events : Nat, updates : Nat, faults : Nat, crashes : Nat]
      BY <2>2, SpentType
    <2> QED BY <2>1, <2>3
  <1>11. \/ /\ live' = [live EXCEPT ![s] = [@ EXCEPT !.value = value,
                                                     !.events = events,
                                                     !.timer = TRUE]]
            /\ UNCHANGED <<sessions, running>>
         \/ /\ sessions' = [sessions EXCEPT ![s] = Save(value)]
            /\ live' = [live EXCEPT ![s] = LiveEntry(Save(value))]
            /\ UNCHANGED running
         \/ /\ live' = [live EXCEPT ![s] = [@ EXCEPT !.value = value,
                                                     !.events = events,
                                                     !.timer = FALSE]]
            /\ running' = [running EXCEPT ![s].persistenceFailed = InMap(s)]
            /\ UNCHANGED sessions
    BY DEF ProviderEvent, value, events
  <1>12. /\ sessions' \in [SessionIds -> HostSession]
         /\ live' \in [SessionIds -> Live]
         /\ running' \in [SessionIds -> Task]
    BY <1>6, <1>7, <1>8, <1>11, ZenonT(60) DEF TypeOK
  <1> QED BY <1>9, <1>10, <1>12 DEF ProviderEvent, TypeOK

LEMMA TypeFlush ==
  ASSUME TypeOK, NEW s \in SessionIds, ScheduledFlush(s) PROVE TypeOK'
  <1>1. running[s] \in Task /\ InMap(s) \in BOOLEAN
    BY DEF TypeOK, InMap
  <1>2. [running[s] EXCEPT !.persistenceFailed = InMap(s)] \in Task
    BY <1>1, TaskType DEF Phase
  <1>3. running' \in [SessionIds -> Task]
    BY <1>2 DEF ScheduledFlush, TypeOK
  <1>4. spent' \in [events : Nat, updates : Nat, faults : Nat, crashes : Nat]
    BY FaultType DEF ScheduledFlush, FlushFails, TypeOK
  <1> QED BY <1>3, <1>4, WritesType DEF ScheduledFlush, TypeOK

LEMMA TitleType ==
  ASSUME NEW v \in HostSession, NEW title \in TitleKind
  PROVE  [v EXCEPT !.title = title] \in HostSession
  BY DEF HostSession

LEMMA TypeUpdate ==
  ASSUME TypeOK, NEW s \in SessionIds,
         NEW title \in {"renamed", sessions[s].title}, UpdateSession(s, title)
  PROVE  TypeOK'
  <1>1. sessions[s] \in HostSession
    BY DEF TypeOK
  <1>2. title \in TitleKind
    BY <1>1 DEF HostSession, TitleKind
  <1>3. [Latest(s) EXCEPT !.title = title] \in HostSession
    BY <1>2, LatestType, TitleType
  <1>4. /\ sessions' \in [SessionIds -> HostSession]
        /\ live' \in [SessionIds -> Live]
    <2>1. CASE FlushAndSave(s, [Latest(s) EXCEPT !.title = title])
      BY <1>3, <2>1, WritesType
    <2>2. CASE FlushOnly(s) \/ FlushFails(s)
      BY <2>2, WritesType
    <2> QED BY <2>1, <2>2 DEF UpdateSession
  <1>5. spent' \in [events : Nat, updates : Nat, faults : Nat, crashes : Nat]
    BY FaultType DEF UpdateSession, FlushFails, TypeOK
  <1> QED BY <1>4, <1>5 DEF UpdateSession, TypeOK

LEMMA TypeTitle ==
  ASSUME TypeOK, NEW s \in SessionIds, TitleArrives(s) PROVE TypeOK'
  <1>1. [Latest(s) EXCEPT !.title = "generated"] \in HostSession
    BY LatestType, TitleType DEF TitleKind
  <1>2. /\ sessions' \in [SessionIds -> HostSession]
        /\ live' \in [SessionIds -> Live]
    <2>1. CASE UNCHANGED <<sessions, live>>
      BY <2>1 DEF TypeOK
    <2>2. CASE FlushAndSave(s, [Latest(s) EXCEPT !.title = "generated"])
      BY <1>1, <2>2, WritesType
    <2>3. CASE FlushOnly(s) \/ FlushFails(s)
      BY <2>3, WritesType
    <2> QED BY <2>1, <2>2, <2>3 DEF TitleArrives
  <1>3. spent' \in [events : Nat, updates : Nat, faults : Nat, crashes : Nat]
    BY FaultType DEF TitleArrives, FlushFails, TypeOK
  <1> QED BY <1>2, <1>3 DEF TitleArrives, TypeOK

LEMMA TypeDelete ==
  ASSUME TypeOK, NEW s \in SessionIds, DeleteSession(s) PROVE TypeOK'
  <1>1. sessions[s] \in HostSession
    BY DEF TypeOK
  <1>2. [sessions[s] EXCEPT !.status = "deleted"] \in HostSession
    BY <1>1 DEF HostSession, Status
  <1> QED BY <1>2 DEF DeleteSession, TypeOK

LEMMA TypeRecover ==
  ASSUME TypeOK, NEW s \in SessionIds, Recover(s) PROVE TypeOK'
  <1>1. sessions[s] \in HostSession
    BY DEF TypeOK
  <1>2. Save(Settled(sessions[s], "interrupted", FALSE)) \in HostSession
    BY <1>1, SettledType, SaveType DEF Status
  <1>3. sessions' \in [SessionIds -> HostSession]
    BY <1>2 DEF Recover, TypeOK
  <1>4. spent' \in [events : Nat, updates : Nat, faults : Nat, crashes : Nat]
    BY FaultType DEF Recover, TypeOK
  <1>5. host' \in {"down", "starting", "up", "closing"}
    BY DEF Recover, TypeOK
  <1> QED BY <1>3, <1>4, <1>5 DEF Recover, TypeOK

LEMMA TypeProcess ==
  ASSUME TypeOK, Crash \/ Boot \/ Listen \/ Close \/ Exit PROVE TypeOK'
  <1>1. CASE Crash
    BY <1>1, InitialTypes DEF Crash, LoseMemory, TypeOK
  <1>2. CASE Boot \/ Listen
    BY <1>2 DEF Boot, Listen, TypeOK
  <1>3. CASE Close
    <2>1. \A s \in SessionIds :
            [running[s] EXCEPT !.phase = "abandoned"] \in Task
      BY TaskType DEF TypeOK, Phase
    <2> QED BY <1>3, <2>1 DEF Close, TypeOK
  <1>4. CASE Exit
    BY <1>4, InitialTypes DEF Exit, LoseMemory, TypeOK
  <1> QED BY <1>1, <1>2, <1>3, <1>4

LEMMA TypeNext == TypeOK /\ [Next]_vars => TypeOK'
  <1> SUFFICES ASSUME TypeOK, [Next]_vars PROVE TypeOK'
    OBVIOUS
  <1>1. CASE UNCHANGED vars
    BY <1>1 DEF vars, TypeOK
  <1>2. ASSUME NEW p \in Projects, BeginSwitch(p) \/ EndSwitch(p) PROVE TypeOK'
    BY <1>2 DEF BeginSwitch, EndSwitch, TypeOK
  <1> QED
    BY <1>1, <1>2, TypeCreate, TypeStart, TypeEdit, TypeCancel, TypeReply,
       TypeRefuse, TypeTask, TypeSettle, TypeEvent, TypeFlush, TypeUpdate,
       TypeTitle, TypeDelete, TypeRecover, TypeProcess
    DEF Next

(* Every value of the host's state keeps the shape the code gives it.        *)
THEOREM TypeCorrect == Spec => []TypeOK
  <1>1. Init => TypeOK
    BY TypeInit
  <1>2. TypeOK /\ [Next]_vars => TypeOK'
    BY TypeNext
  <1> QED BY <1>1, <1>2, PTL DEF Spec
==============================================================================

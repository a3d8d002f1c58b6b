------------------------------ MODULE HostSession ------------------------------
(***************************************************************************)
(* The value a MonoCode host stores for one session, and the pure          *)
(* transitions of that value: what a client command asks for               *)
(* (host/engine.ts, command), what a provider event adds to the transcript *)
(* (integrations/harness/core/apply.ts) and how a turn is closed (settled, *)
(* stopStreaming).                                                         *)
(*                                                                         *)
(* A transcript is kept to what decisions are made on: the prompts it      *)
(* holds, its drafts, the approvals and the question still open, the state *)
(* of the plan each turn produced, the kind of title, and how many pieces  *)
(* of output it has absorbed.  The randomUUID of a run stands for the id   *)
(* of the command that started it.                                         *)
(***************************************************************************)
EXTENDS Integers, Sequences, FiniteSets

CONSTANTS
    CommandIds,  \* ids clients choose for their commands
    SessionIds,  \* ids the host can still draw for new sessions
    Projects,    \* registered project directories
    CommandTypes, \* the kinds of command clients send, a bound
    Requests,    \* numbers a provider gives approvals and questions of a turn
    None         \* "no such value"

ASSUME NoneIsNotAnId == None \notin CommandIds /\ None \notin Requests

-----------------------------------------------------------------------------
(* Values. *)

Status == {"absent", "idle", "running", "interrupted", "deleted"}
PlanStatus == {"none", "streaming", "ready", "building", "built"}
TitleKind == {"placeholder", "prompt", "generated", "renamed"}

HostSession ==
    [status   : Status,
     project  : Projects \cup {None},
     run      : CommandIds \cup {None},         \* runId
     revision : Nat,
     turns    : Seq(CommandIds),                \* user blocks, in order
     drafts   : SUBSET CommandIds,              \* user blocks with draft: true
     asks     : SUBSET Requests,                \* approvals not yet decided
     question : Requests \cup {None},           \* pendingQuestion
     plans    : [CommandIds -> PlanStatus],     \* the plan block of each turn
     title    : TitleKind,
     output   : Nat]                            \* streamed pieces absorbed

AbsentSession ==
    [status |-> "absent", project |-> None, run |-> None, revision |-> 0,
     turns |-> <<>>, drafts |-> {}, asks |-> {}, question |-> None,
     plans |-> [c \in CommandIds |-> "none"], title |-> "placeholder",
     output |-> 0]

Exists(v) == v.status \notin {"absent", "deleted"}

(* Every write of a session takes the next revision. *)
Save(v) == [v EXCEPT !.revision = @ + 1]

-----------------------------------------------------------------------------
(* Commands, as parseCommand returns them. *)

OfType(types) == types \cap CommandTypes

CreateCommand  == [type : OfType({"create"}), id : CommandIds, project : Projects]
SendCommand    == [type : OfType({"send"}), id : CommandIds, session : SessionIds,
                   draft : CommandIds \cup {None}, plan : CommandIds \cup {None}]
CompactCommand == [type : OfType({"compact"}), id : CommandIds,
                   session : SessionIds, draft : {None}, plan : {None}]
EditCommand    == [type : OfType({"draft", "configure"}), id : CommandIds,
                   session : SessionIds]
RemoveCommand  == [type : OfType({"removeDraft"}), id : CommandIds,
                   session : SessionIds, draft : CommandIds]
CancelCommand  == [type : OfType({"cancel"}), id : CommandIds,
                   session : SessionIds, run : CommandIds]
ReplyCommand   == [type : OfType({"approve", "answer"}), id : CommandIds,
                   session : SessionIds, run : CommandIds, request : Requests]

SessionCommand == SendCommand \cup CompactCommand \cup EditCommand
                    \cup RemoveCommand \cup CancelCommand \cup ReplyCommand
Command == CreateCommand \cup SessionCommand

StartsTurn(c) == c.type \in {"send", "compact"}

(* The checks command makes on the latest value v of an existing session.   *)
(* The branch switch is the engine's: see HostEngine.                       *)
Allowed(c, v) ==
    \/ /\ StartsTurn(c)
       /\ v.status # "running"
       /\ c.draft # None => c.draft \in v.drafts
       /\ c.plan # None => v.plans[c.plan] = "ready"
    \/ c.type = "configure" /\ v.status # "running"
    \/ c.type = "draft" /\ v.status # "running" /\ v.drafts = {}
    \/ c.type = "removeDraft" /\ c.draft \in v.drafts
    \/ c.type = "cancel" /\ v.run = c.run /\ v.status = "running"
    \/ /\ c.type = "approve"
       /\ v.run = c.run /\ v.status = "running"
       /\ c.request \in v.asks
    \/ /\ c.type = "answer"
       /\ v.run = c.run /\ v.status = "running"
       /\ v.question = c.request

(* A conversation without a block that is not a draft has had no turn. *)
FirstTurn(v) == v.turns = <<>>

NewSession(p) == [AbsentSession EXCEPT !.status = "idle", !.project = p]

TurnStarted(c, v) ==
    [v EXCEPT !.status   = "running",
              !.run      = c.id,
              !.question = None,
              !.drafts   = {},
              !.turns    = Append(@, c.id),
              !.plans    = IF c.plan = None THEN @
                           ELSE [@ EXCEPT ![c.plan] = "building"],
              !.title    = IF /\ c.type = "send" /\ FirstTurn(v)
                              /\ @ = "placeholder"
                           THEN "prompt" ELSE @]

Drafted(c, v) ==
    [v EXCEPT !.drafts = @ \cup {c.id},
              !.title  = IF v.turns = <<>> /\ v.drafts = {} THEN "prompt" ELSE @]

(* Defect: an approval stays open until the provider reports its decision.  *)
AppliedOnReport(c, v) ==
    CASE StartsTurn(c)          -> TurnStarted(c, v)
      [] c.type = "draft"       -> Drafted(c, v)
      [] c.type = "removeDraft" -> [v EXCEPT !.drafts = @ \ {c.draft}]
      [] OTHER                  -> v

(* The value an allowed command makes of the session.  Settings are not     *)
(* modelled, so configure and cancel only take a revision.                  *)
Applied(c, v) ==
    CASE StartsTurn(c)          -> TurnStarted(c, v)
      [] c.type = "draft"       -> Drafted(c, v)
      [] c.type = "removeDraft" -> [v EXCEPT !.drafts = @ \ {c.draft}]
      [] c.type = "approve"     -> [v EXCEPT !.asks = @ \ {c.request}]
      [] c.type = "answer"      -> [v EXCEPT !.question = None]
      [] OTHER                  -> v

-----------------------------------------------------------------------------
(* The end of a turn. *)

(* Defect: only the blocks are settled, the session's question is not. *)
StopBlocks(v) ==
    [v EXCEPT !.asks  = {},
              !.plans = [c \in CommandIds |->
                           IF v.plans[c] = "streaming" THEN "ready" ELSE v.plans[c]]]

(* stopStreaming: nothing of a stopped turn waits for the user. *)
StopStreaming(v) ==
    [v EXCEPT !.asks     = {},
              !.question = None,
              !.plans    = [c \in CommandIds |->
                              IF v.plans[c] = "streaming" THEN "ready" ELSE v.plans[c]]]

(* settled: silent is the absence of a closing message ("Stopped by you.",  *)
(* an error...); only a turn that ends idle and silent built its plan.      *)
Settled(v, status, silent) ==
    LET stopped == StopStreaming(v)
        outcome == IF status = "idle" /\ silent THEN "built" ELSE "ready"
    IN [stopped EXCEPT !.status = status,
                       !.plans  = [c \in CommandIds |->
                                     IF stopped.plans[c] = "building" THEN outcome
                                     ELSE stopped.plans[c]]]

-----------------------------------------------------------------------------
(* Provider events. *)

EventKind == {"text", "ask", "askResolved", "question", "questionResolved",
              "planStreaming", "planReady", "error"}
Event == [kind : EventKind, request : Requests \cup {None},
          plan : CommandIds \cup {None}]

TextEvent       == [kind |-> "text", request |-> None, plan |-> None]
ErrorEvent      == [kind |-> "error", request |-> None, plan |-> None]
AskEvent(k, q)  == [kind |-> k, request |-> q, plan |-> None]
PlanEvent(k, p) == [kind |-> k, request |-> None, plan |-> p]

(* What the provider of turn r may emit.  A plan event updates the plan of   *)
(* the turn, or an earlier one it names by key (upsertPlan).                *)
EventsOf(r, v) ==
    {TextEvent, ErrorEvent}
      \cup {AskEvent(k, q) : k \in {"ask", "askResolved", "question",
                                    "questionResolved"}, q \in Requests}
      \cup {PlanEvent(k, p) : k \in {"planStreaming", "planReady"},
                              p \in {p \in CommandIds :
                                       p = r \/ v.plans[p] # "none"}}

(* An event that leaves the session object as it is, is not recorded. *)
Changes(v, e) == e.kind = "questionResolved" => v.question = e.request

(* Streamed output is written in batches; the rest is written at once. *)
Batched(e) == e.kind = "text"

(* applyHarnessEvent. *)
Absorb(v, e) ==
    CASE e.kind = "text"        -> [v EXCEPT !.output = @ + 1]
      [] e.kind = "ask"         -> [v EXCEPT !.asks = @ \cup {e.request}]
      [] e.kind = "askResolved" -> [v EXCEPT !.asks = @ \ {e.request}]
      [] e.kind = "question"    -> [v EXCEPT !.question = e.request]
      [] e.kind = "questionResolved" ->
           [v EXCEPT !.question = IF @ = e.request THEN None ELSE @]
      [] e.kind = "planStreaming" -> [v EXCEPT !.plans[e.plan] = "streaming"]
      [] e.kind = "planReady"     -> [v EXCEPT !.plans[e.plan] = "ready"]
      [] OTHER                    -> [StopStreaming(v) EXCEPT !.output = @ + 1]
=============================================================================

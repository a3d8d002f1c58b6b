------------------------ MODULE HostTranscript_proofs ------------------------
(***************************************************************************)
(* What the transcript of a session keeps: its prompts are recorded once,  *)
(* its open items belong to the running turn, a request of the provider is *)
(* answered at most once, and output a client may have seen stays.         *)
(*                                                                         *)
(* A command and a settlement act on the stored value or on the one in     *)
(* memory, so everything is stated of both: ItemsInv says what each holds, *)
(* and that a request number is still open in at most one way.             *)
(***************************************************************************)
EXTENDS HostTurns_proofs, FiniteSetTheorems, WellFoundedInduction

-----------------------------------------------------------------------------
(* What the values of a session hold.  The host has the stored value and,    *)
(* while a turn runs, the one in live; a command may act on either, so what  *)
(* OpenItemsBelongToTurn and RequestsAnsweredOnce say must hold of both.     *)

HeldBy(s) == {sessions[s]} \cup {v \in {live[s].value} : live[s].open}

(* A live entry without waiting events is the stored value.                  *)
LiveIsWritten ==
    \A s \in SessionIds :
        live[s].open /\ live[s].events = <<>> => live[s].value = sessions[s]

(* The open items of v, given the receipts R.                                *)
Settles(v) ==
    /\ v.asks = {} /\ v.question = None
    /\ \A p \in CommandIds : v.plans[p] \notin {"streaming", "building"}
Runs(v, R) ==
    /\ v.drafts = {}
    /\ \A p \in CommandIds : v.plans[p] = "building" => R[v.run].command.plan = p
Items(v, R) ==
    /\ v.status # "running" => Settles(v)
    /\ v.status = "running" => Runs(v, R)
    /\ v.drafts = {} \/ \E d \in CommandIds : v.drafts = {d}

(* A request still open in v was asked by its turn, under a number of its    *)
(* own, and is not answered yet (A is asked, P is replies).                  *)
Pending(v) == v.asks \cup ({v.question} \ {None})
Unanswered(v, A, P) ==
    v.status = "running" =>
      /\ v.question \notin v.asks
      /\ \A q \in Pending(v) : q \in A[v.run] /\ P[v.run][q] = 0

ValuesInv ==
    \A s \in SessionIds : \A v \in HeldBy(s) :
        Items(v, receipts) /\ Unanswered(v, asked, replies)

(* Numbers are used and answers are sent only for turns that were accepted.  *)
UsedByTurns ==
    \A c \in CommandIds :
        receipts[c] = None => asked[c] = {} /\ \A q \in Requests : replies[c][q] = 0

ItemsInv == LiveIsWritten /\ ValuesInv /\ UsedByTurns /\ RequestsAnsweredOnce

-----------------------------------------------------------------------------
(* The operators of HostSession keep what the values hold.                   *)

(* v holds what w holds, whatever its title, revision and output.            *)
SameItems(v, w) ==
    /\ v.status = w.status /\ v.run = w.run /\ v.drafts = w.drafts
    /\ v.asks = w.asks /\ v.question = w.question /\ v.plans = w.plans

LEMMA SameItemsHold ==
  ASSUME NEW v, NEW w, NEW R, NEW A, NEW P, SameItems(v, w),
         Items(w, R), Unanswered(w, A, P)
  PROVE  Items(v, R) /\ Unanswered(v, A, P)
  BY DEF SameItems, Items, Unanswered, Pending, Settles, Runs

LEMMA SaveItems ==
  ASSUME NEW v \in HostSession
  PROVE  /\ SameItems(Save(v), v) /\ Save(v).output = v.output
         /\ Save(v).turns = v.turns
  BY DEF Save, SameItems, HostSession

LEMMA TitleItems ==
  ASSUME NEW v \in HostSession, NEW title
  PROVE  /\ SameItems([v EXCEPT !.title = title], v)
         /\ [v EXCEPT !.title = title].output = v.output
         /\ [v EXCEPT !.title = title].turns = v.turns
  BY DEF SameItems, HostSession

LEMMA StopStreamingItems ==
  ASSUME NEW v \in HostSession
  PROVE  LET w == StopStreaming(v) IN
         /\ w.status = v.status /\ w.run = v.run /\ w.drafts = v.drafts
         /\ w.turns = v.turns /\ w.output = v.output
         /\ w.asks = {} /\ w.question = None
         /\ \A p \in CommandIds :
              w.plans[p] = IF v.plans[p] = "streaming" THEN "ready" ELSE v.plans[p]
  BY DEF StopStreaming, HostSession

LEMMA SettledItems ==
  ASSUME NEW v \in HostSession, NEW status \in Status, NEW silent \in BOOLEAN
  PROVE  LET w == Settled(v, status, silent) IN
         /\ w.status = status /\ w.drafts = v.drafts
         /\ w.turns = v.turns /\ w.output = v.output
         /\ Settles(w)
  <1> DEFINE stopped == StopStreaming(v)
             outcome == IF status = "idle" /\ silent THEN "built" ELSE "ready"
             plans   == [c \in CommandIds |->
                           IF stopped.plans[c] = "building" THEN outcome
                           ELSE stopped.plans[c]]
  <1>1. /\ stopped \in HostSession /\ stopped.asks = {} /\ stopped.question = None
        /\ stopped.drafts = v.drafts /\ stopped.turns = v.turns
        /\ stopped.output = v.output
        /\ \A p \in CommandIds : stopped.plans[p] # "streaming"
    BY StopStreamingType, StopStreamingItems
  <1>2. \A p \in CommandIds : plans[p] \notin {"streaming", "building"}
    BY <1>1
  <1>3. Settled(v, status, silent) =
          [stopped EXCEPT !.status = status, !.plans = plans]
    BY DEF Settled
  <1> HIDE DEF stopped, plans
  <1> QED BY <1>1, <1>2, <1>3 DEF HostSession, Settles

LEMMA StartedItems ==
  ASSUME NEW c \in SendCommand \cup CompactCommand, NEW v \in HostSession,
         NEW R, NEW A, NEW P, Items(v, R), v.status # "running"
  PROVE  LET w == TurnStarted(c, v) IN
         /\ w.status = "running" /\ w.run = c.id /\ w.drafts = {}
         /\ w.asks = {} /\ w.question = None /\ w.output = v.output
         /\ w.turns = Append(v.turns, c.id)
         /\ \A p \in CommandIds : w.plans[p] = "building" => p = c.plan
  <1>1. /\ v.asks = {} /\ v.plans \in [CommandIds -> PlanStatus]
        /\ \A p \in CommandIds : v.plans[p] # "building"
    BY DEF Items, Settles, HostSession
  <1> DEFINE plans == IF c.plan = None THEN v.plans
                      ELSE [v.plans EXCEPT ![c.plan] = "building"]
  <1>2. \A p \in CommandIds : plans[p] = "building" => p = c.plan
    BY <1>1
  <1>3. /\ TurnStarted(c, v).plans = plans
        /\ TurnStarted(c, v).asks = v.asks
        /\ TurnStarted(c, v).status = "running" /\ TurnStarted(c, v).run = c.id
        /\ TurnStarted(c, v).drafts = {} /\ TurnStarted(c, v).question = None
        /\ TurnStarted(c, v).output = v.output
        /\ TurnStarted(c, v).turns = Append(v.turns, c.id)
    BY DEF TurnStarted, HostSession
  <1> HIDE DEF plans
  <1> QED BY <1>1, <1>2, <1>3

(* What an allowed command that starts no turn leaves.                       *)
LEMMA AppliedItems ==
  ASSUME NEW c \in SessionCommand, NEW v \in HostSession, ~StartsTurn(c),
         NEW R, NEW A, NEW P, Items(v, R), Unanswered(v, A, P), Allowed(c, v)
  PROVE  LET w == Applied(c, v) IN
         /\ Items(w, R) /\ Unanswered(w, A, P)
         /\ w.output = v.output /\ w.turns = v.turns
         /\ c \in ReplyCommand =>
              /\ v.status = "running" /\ v.run = c.run
              /\ c.request \in Pending(v) /\ c.request \notin Pending(w)
  <1>1. CASE c.type = "draft"
    <2>1. Applied(c, v) = Drafted(c, v)
      BY <1>1 DEF Applied, StartsTurn
    <2>2. LET w == Drafted(c, v) IN
          /\ w.status = v.status /\ w.run = v.run
          /\ w.drafts = v.drafts \cup {c.id} /\ w.asks = v.asks
          /\ w.question = v.question /\ w.plans = v.plans
          /\ w.output = v.output /\ w.turns = v.turns
      BY DEF Drafted, HostSession
    <2>3. v.status # "running" /\ v.drafts = {}
      BY <1>1 DEF Allowed, StartsTurn
    <2>4. c.id \in CommandIds /\ c \notin ReplyCommand
      BY <1>1, SessionCommandType DEF ReplyCommand, OfType
    <2>5. v.drafts \cup {c.id} = {c.id}
      BY <2>3
    <2> QED BY <2>1, <2>2, <2>3, <2>4, <2>5 DEF Items, Unanswered, Settles
  <1>2. CASE c.type = "removeDraft"
    <2>1. LET w == Applied(c, v) IN
          /\ w.status = v.status /\ w.run = v.run
          /\ w.drafts = v.drafts \ {c.draft} /\ w.asks = v.asks
          /\ w.question = v.question /\ w.plans = v.plans
          /\ w.output = v.output /\ w.turns = v.turns
      BY <1>2 DEF Applied, StartsTurn, HostSession
    <2>2. c \notin ReplyCommand
      BY <1>2 DEF ReplyCommand, OfType
    <2>3. \/ v.drafts \ {c.draft} = {}
          \/ \E d \in CommandIds : v.drafts \ {c.draft} = {d}
      BY DEF Items
    <2>4. v.drafts = {} => v.drafts \ {c.draft} = {}
      OBVIOUS
    <2> QED BY <2>1, <2>2, <2>3, <2>4
            DEF Items, Unanswered, Pending, Settles, Runs
  <1>3. CASE c.type \in {"approve", "answer"}
    <2>1. LET w == Applied(c, v) IN
          /\ w.status = v.status /\ w.run = v.run /\ w.drafts = v.drafts
          /\ w.plans = v.plans /\ w.output = v.output /\ w.turns = v.turns
          /\ c.type = "approve" => /\ w.asks = v.asks \ {c.request}
                                   /\ w.question = v.question
          /\ c.type = "answer" => w.asks = v.asks /\ w.question = None
      BY <1>3 DEF Applied, StartsTurn, HostSession
    <2>2. /\ v.status = "running" /\ v.run = c.run
          /\ c.type = "approve" => c.request \in v.asks
          /\ c.type = "answer" => v.question = c.request
      BY <1>3 DEF Allowed, StartsTurn
    <2>3. c.request \in Requests /\ c.request # None
      <3>1. c \in ReplyCommand
        BY <1>3 DEF SessionCommand, SendCommand, CompactCommand, EditCommand,
                    RemoveCommand, CancelCommand, OfType
      <3> QED BY <3>1, NoneIsNotAnId DEF ReplyCommand
    <2>4. v.asks \subseteq Requests
      BY DEF HostSession
    <2>5. None \notin v.asks
      BY <2>4, NoneIsNotAnId
    <2> QED BY <1>3, <2>1, <2>2, <2>3, <2>5
            DEF Items, Unanswered, Pending, Settles, Runs
  <1>4. CASE c.type \notin {"draft", "removeDraft", "approve", "answer"}
    <2>1. Applied(c, v) = v /\ c \notin ReplyCommand
      BY <1>4 DEF Applied, StartsTurn, ReplyCommand, OfType
    <2> QED BY <2>1
  <1> QED BY <1>1, <1>2, <1>3, <1>4

LEMMA EventItems ==
  ASSUME NEW v \in HostSession, NEW r \in CommandIds, NEW e \in EventsOf(r, v),
         NEW R, NEW A, NEW B, NEW P, Items(v, R), Unanswered(v, A, P),
         v.status = "running", v.run = r, A[r] \subseteq B[r],
         e.kind \in {"ask", "question"} =>
            e.request \notin A[r] /\ e.request \in B[r],
         \A q \in Requests : q \notin A[r] => P[r][q] = 0
  PROVE  LET w == Absorb(v, e) IN
         /\ Items(w, R) /\ Unanswered(w, B, P)
         /\ w.turns = v.turns /\ w.output \in Nat /\ w.output >= v.output
  <1>1. /\ v.output \in Nat /\ v.asks \subseteq Requests
        /\ v.plans \in [CommandIds -> PlanStatus]
        /\ None \notin Requests
    BY NoneIsNotAnId DEF HostSession
  <1>2. CASE e.kind = "text"
    <2>1. Absorb(v, e) = [v EXCEPT !.output = @ + 1]
      BY <1>2 DEF Absorb
    <2>2. LET w == Absorb(v, e) IN
          /\ SameItems(w, v) /\ w.turns = v.turns /\ w.output = v.output + 1
      BY <2>1 DEF HostSession, SameItems
    <2>3. Unanswered(v, B, P)
      BY DEF Unanswered
    <2> QED BY <1>1, <2>2, <2>3, SameItemsHold
  <1>3. CASE e.kind \in {"ask", "askResolved"}
    <2>1. LET w == Absorb(v, e) IN
          /\ w.status = v.status /\ w.run = v.run /\ w.drafts = v.drafts
          /\ w.question = v.question /\ w.plans = v.plans
          /\ w.turns = v.turns /\ w.output = v.output
          /\ e.kind = "ask" => w.asks = v.asks \cup {e.request}
          /\ e.kind = "askResolved" => w.asks = v.asks \ {e.request}
      BY <1>3 DEF Absorb, HostSession
    <2>2. e.request \in Requests
      BY <1>3, EventType
    <2>3. e.kind = "ask" => e.request # v.question
      BY <1>1, <2>2 DEF Unanswered, Pending
    <2>4. e.kind = "ask" => P[r][e.request] = 0
      BY <2>2
    <2>5. Items(Absorb(v, e), R)
      BY <2>1 DEF Items, Runs
    <2>6. CASE e.kind = "ask"
      BY <1>1, <2>1, <2>3, <2>4, <2>5, <2>6 DEF Unanswered, Pending
    <2>7. CASE e.kind = "askResolved"
      BY <1>1, <2>1, <2>5, <2>7 DEF Unanswered, Pending
    <2> QED BY <1>3, <2>6, <2>7
  <1>4. CASE e.kind \in {"question", "questionResolved"}
    <2>1. LET w == Absorb(v, e) IN
          /\ w.status = v.status /\ w.run = v.run /\ w.drafts = v.drafts
          /\ w.asks = v.asks /\ w.plans = v.plans
          /\ w.turns = v.turns /\ w.output = v.output
          /\ e.kind = "question" => w.question = e.request
          /\ e.kind = "questionResolved" => w.question \in {None, v.question}
      BY <1>4 DEF Absorb, HostSession
    <2>2. e.request \in Requests
      BY <1>4, EventType
    <2>3. e.kind = "question" => e.request \notin v.asks /\ P[r][e.request] = 0
      BY <2>2 DEF Unanswered, Pending
    <2>4. Items(Absorb(v, e), R)
      BY <2>1 DEF Items, Runs
    <2>5. None \notin v.asks
      BY <1>1
    <2>6. CASE e.kind = "question"
      BY <1>1, <2>1, <2>3, <2>4, <2>6 DEF Unanswered, Pending
    <2>7. CASE e.kind = "questionResolved"
      BY <1>1, <2>1, <2>4, <2>5, <2>7 DEF Unanswered, Pending
    <2> QED BY <1>4, <2>6, <2>7
  <1>5. CASE e.kind \in {"planStreaming", "planReady"}
    <2>1. LET w == Absorb(v, e) IN
          /\ w.status = v.status /\ w.run = v.run /\ w.drafts = v.drafts
          /\ w.asks = v.asks /\ w.question = v.question
          /\ w.turns = v.turns /\ w.output = v.output
          /\ \A p \in CommandIds : w.plans[p] = "building" => v.plans[p] = "building"
      <3>1. CASE e.kind = "planStreaming"
        BY <1>1, <3>1 DEF Absorb, HostSession
      <3>2. CASE e.kind = "planReady"
        BY <1>1, <3>2 DEF Absorb, HostSession
      <3> QED BY <1>5, <3>1, <3>2
    <2> QED BY <1>1, <2>1 DEF Items, Runs, Unanswered, Pending
  <1>6. CASE e.kind \notin {"text", "ask", "askResolved", "question",
                            "questionResolved", "planStreaming", "planReady"}
    <2> DEFINE stopped == StopStreaming(v)
    <2>1. Absorb(v, e) = [stopped EXCEPT !.output = @ + 1]
      BY <1>6 DEF Absorb
    <2>2. /\ stopped \in HostSession
          /\ stopped.status = v.status /\ stopped.run = v.run
          /\ stopped.drafts = v.drafts /\ stopped.turns = v.turns
          /\ stopped.output = v.output
          /\ stopped.asks = {} /\ stopped.question = None
          /\ \A p \in CommandIds :
               stopped.plans[p] = "building" => v.plans[p] = "building"
      BY StopStreamingType, StopStreamingItems
    <2> HIDE DEF stopped
    <2>3. LET w == Absorb(v, e) IN
          /\ SameItems(w, stopped) /\ w.turns = v.turns /\ w.output = v.output + 1
      BY <2>1, <2>2 DEF HostSession, SameItems
    <2>4. Items(stopped, R)
      BY <2>2 DEF Items, Runs
    <2>5. Unanswered(stopped, B, P)
      BY <2>2 DEF Unanswered, Pending
    <2> QED BY <1>1, <2>3, <2>4, <2>5, SameItemsHold
  <1> QED BY <1>2, <1>3, <1>4, <1>5, <1>6

-----------------------------------------------------------------------------
(* Steps.  A step leaves the values alone, or leaves one value x of session  *)
(* s wherever the host holds that session, or lets an event wait in live.    *)

NoValue ==
    /\ UNCHANGED sessions
    /\ \A t \in SessionIds : live'[t].open =>
         /\ live[t].open
         /\ live'[t].value = live[t].value /\ live'[t].events = live[t].events

OneValue(s, x) ==
    /\ sessions'[s] = x
    /\ live'[s].open => live[s].open \/ x.status = "running"
    /\ live'[s].open => live'[s].value = x
    /\ \A t \in SessionIds \ {s} : sessions'[t] = sessions[t] /\ live'[t] = live[t]

(* What is asked and answered in a step belongs to the turn of s.            *)
OthersKeep(s) ==
    \A t \in SessionIds \ {s} : sessions[t].status = "running" =>
        /\ asked'[sessions[t].run] = asked[sessions[t].run]
        /\ replies'[sessions[t].run] = replies[sessions[t].run]

LEMMA HeldTurn ==
  ASSUME TurnInv, NEW s \in SessionIds, NEW v \in HeldBy(s)
  PROVE  v.status = sessions[s].status /\ v.run = sessions[s].run
  BY DEF HeldBy, TurnInv, LiveAgrees, Agrees, SameTurn

LEMMA HeldType ==
  ASSUME TypeOK, NEW s \in SessionIds
  PROVE  HeldBy(s) \subseteq HostSession
  BY DEF HeldBy, TypeOK, Live

(* The latest value holds what one of the held values holds, and all of the  *)
(* output that is to be seen.                                                *)
LEMMA LatestItems ==
  ASSUME TypeOK, ItemsInv, NEW s \in SessionIds
  PROVE  /\ Items(Latest(s), receipts) /\ Unanswered(Latest(s), asked, replies)
         /\ Latest(s).output = Absorbed(s)
  <1>1. /\ sessions[s] \in HeldBy(s)
        /\ live[s].open => live[s].value \in HeldBy(s)
        /\ HeldBy(s) \subseteq HostSession
    BY HeldType DEF HeldBy
  <1>2. \A v \in HeldBy(s) : Items(v, receipts) /\ Unanswered(v, asked, replies)
    BY DEF ItemsInv, ValuesInv
  <1>3. CASE Unwritten(s)
    <2>1. live[s].open /\ Latest(s) = Save(live[s].value)
      BY <1>3 DEF Latest, Unwritten
    <2>2. /\ SameItems(Latest(s), live[s].value)
          /\ Latest(s).output = live[s].value.output
      BY <1>1, <2>1, SaveItems
    <2> QED BY <1>1, <1>2, <2>1, <2>2, SameItemsHold DEF Absorbed
  <1>4. CASE ~Unwritten(s)
    <2>1. Latest(s) = sessions[s]
      BY <1>4 DEF Latest
    <2>2. Latest(s).output = Absorbed(s)
      BY <1>4, <2>1 DEF Absorbed, ItemsInv, LiveIsWritten, Unwritten
    <2> QED BY <1>1, <1>2, <2>1, <2>2
  <1> QED BY <1>3, <1>4

LEMMA KeptValue ==
  ASSUME TurnInv, NEW s \in SessionIds, NEW v \in HeldBy(s), KeptReceipts,
         Items(v, receipts)
  PROVE  Items(v, receipts')
  <1>1. CASE v.status = "running"
    <2>1. v.run \in CommandIds /\ receipts[v.run] # None
      BY <1>1, HeldTurn DEF TurnInv, TurnsAccepted, TurnAccepted
    <2>2. receipts'[v.run] = receipts[v.run]
      BY <2>1 DEF KeptReceipts
    <2> QED BY <1>1, <2>2 DEF Items, Runs
  <1>2. CASE v.status # "running"
    BY <1>2 DEF Items
  <1> QED BY <1>1, <1>2

LEMMA NoValueStep ==
  ASSUME TypeOK, TurnInv, ItemsInv, NoValue, KeptReceipts, UNCHANGED <<asked, replies>>
  PROVE  ItemsInv'
  <1>1. LiveIsWritten'
    BY DEF NoValue, ItemsInv, LiveIsWritten
  <1>2. ValuesInv'
    <2>1. \A s \in SessionIds : (HeldBy(s))' \subseteq HeldBy(s)
      BY DEF NoValue, HeldBy
    <2>2. \A s \in SessionIds : \A v \in (HeldBy(s))' :
            Items(v, receipts') /\ Unanswered(v, asked', replies')
      BY <2>1, KeptValue DEF ItemsInv, ValuesInv
    <2> QED BY <2>2 DEF ValuesInv
  <1>3. UsedByTurns'
    BY DEF ItemsInv, UsedByTurns, KeptReceipts
  <1>4. RequestsAnsweredOnce'
    BY DEF ItemsInv, RequestsAnsweredOnce
  <1> QED BY <1>1, <1>2, <1>3, <1>4 DEF ItemsInv

LEMMA OneValueStep ==
  ASSUME TypeOK, TurnInv, ItemsInv, NEW s \in SessionIds, NEW x, OneValue(s, x),
         KeptReceipts, OthersKeep(s),
         Items(x, receipts'), Unanswered(x, asked', replies')
  PROVE  LiveIsWritten' /\ ValuesInv'
  <1>1. LiveIsWritten'
    BY DEF OneValue, ItemsInv, LiveIsWritten
  <1>2. (HeldBy(s))' \subseteq {x}
    BY DEF OneValue, HeldBy
  <1>3. ASSUME NEW t \in SessionIds \ {s}, NEW v \in (HeldBy(t))'
        PROVE  Items(v, receipts') /\ Unanswered(v, asked', replies')
    <2>1. v \in HeldBy(t)
      BY <1>3 DEF OneValue, HeldBy
    <2>2. Items(v, receipts) /\ Unanswered(v, asked, replies)
      BY <2>1 DEF ItemsInv, ValuesInv
    <2>3. Unanswered(v, asked', replies')
      BY <2>1, <2>2, HeldTurn DEF Unanswered, OthersKeep
    <2> QED BY <2>1, <2>2, <2>3, KeptValue
  <1>4. \A t \in SessionIds : \A v \in (HeldBy(t))' :
          Items(v, receipts') /\ Unanswered(v, asked', replies')
    BY <1>2, <1>3
  <1> QED BY <1>1, <1>4 DEF ValuesInv

TurnsKept == \A t \in SessionIds : sessions'[t].turns = sessions[t].turns
OutputGrows == \A t \in SessionIds : Absorbed(t)' >= Absorbed(t)

LEMMA AbsorbedType ==
  ASSUME TypeOK, NEW s \in SessionIds
  PROVE  Absorbed(s) \in Nat
  BY DEF Absorbed, TypeOK, Live, HostSession

LEMMA LatestKept ==
  ASSUME TypeOK, TurnInv, ItemsInv, NEW s \in SessionIds, KeptReceipts
  PROVE  Items(Latest(s), receipts')
  <1>1. Items(Latest(s), receipts)
    BY LatestItems
  <1>2. CASE Latest(s).status = "running"
    <2>1. /\ sessions[s].status = "running"
          /\ Latest(s).run = sessions[s].run
      BY <1>2, LatestKeeps DEF SameTurn
    <2>2. Latest(s).run \in CommandIds /\ receipts[Latest(s).run] # None
      BY <2>1 DEF TurnInv, TurnsAccepted, TurnAccepted
    <2>3. receipts'[Latest(s).run] = receipts[Latest(s).run]
      BY <2>2 DEF KeptReceipts
    <2> QED BY <1>1, <1>2, <2>3 DEF Items, Runs
  <1>3. CASE Latest(s).status # "running"
    BY <1>1, <1>3 DEF Items
  <1> QED BY <1>2, <1>3

LEMMA NoValueKeeps ==
  ASSUME TypeOK, TurnInv, ItemsInv, NoValue, KeptReceipts,
         UNCHANGED <<asked, replies>>,
         host' # "down" => \A t \in SessionIds : live[t].open => live'[t].open
  PROVE  ItemsInv' /\ TurnsKept /\ (host' # "down" => OutputGrows)
  <1>1. ItemsInv'
    BY NoValueStep
  <1>2. TurnsKept
    BY DEF NoValue, TurnsKept
  <1>3. ASSUME host' # "down", NEW t \in SessionIds
        PROVE  Absorbed(t)' >= Absorbed(t)
    <2>1. Absorbed(t)' = Absorbed(t)
      BY <1>3 DEF NoValue, Absorbed
    <2> QED BY <2>1, AbsorbedType
  <1> QED BY <1>1, <1>2, <1>3 DEF OutputGrows

LEMMA OneValueOutput ==
  ASSUME TypeOK, ItemsInv, NEW s \in SessionIds, NEW x, OneValue(s, x),
         x.output \in Nat, x.output >= Latest(s).output
  PROVE  OutputGrows
  <1>1. Absorbed(s)' = x.output
    BY DEF OneValue, Absorbed
  <1>2. \A t \in SessionIds \ {s} : Absorbed(t)' = Absorbed(t)
    BY DEF OneValue, Absorbed
  <1> QED BY <1>1, <1>2, LatestItems, AbsorbedType DEF OutputGrows

LEMMA ValueStep ==
  ASSUME TypeOK, TurnInv, ItemsInv, NEW s \in SessionIds, NEW x, OneValue(s, x),
         KeptReceipts, UNCHANGED <<asked, replies>>,
         Items(x, receipts'), Unanswered(x, asked, replies),
         x.turns = sessions[s].turns, x.output = Latest(s).output
  PROVE  ItemsInv' /\ TurnsKept /\ OutputGrows
  <1>1. LiveIsWritten' /\ ValuesInv'
    <2>1. OthersKeep(s)
      BY DEF OthersKeep
    <2> QED BY <2>1, OneValueStep
  <1>2. UsedByTurns'
    BY DEF ItemsInv, UsedByTurns, KeptReceipts
  <1>3. RequestsAnsweredOnce'
    BY DEF ItemsInv, RequestsAnsweredOnce
  <1>4. TurnsKept
    BY DEF TurnsKept, OneValue
  <1>5. OutputGrows
    <2>1. x.output \in Nat /\ x.output >= Latest(s).output
      BY LatestItems, AbsorbedType
    <2> QED BY <2>1, OneValueOutput
  <1> QED BY <1>1, <1>2, <1>3, <1>4, <1>5 DEF ItemsInv

LEMMA SameValueStep ==
  ASSUME TypeOK, TurnInv, ItemsInv, NEW s \in SessionIds, NEW x, OneValue(s, x),
         KeptReceipts, UNCHANGED <<asked, replies>>, SameItems(x, Latest(s)),
         x.turns = Latest(s).turns, x.output = Latest(s).output
  PROVE  ItemsInv' /\ TurnsKept /\ OutputGrows
  <1>1. Items(x, receipts') /\ Unanswered(x, asked, replies)
    BY LatestKept, LatestItems, SameItemsHold
  <1>2. x.turns = sessions[s].turns
    BY LatestKeeps DEF SameUserPart
  <1> QED BY <1>1, <1>2, ValueStep

LEMMA FlushOnlyValue ==
  ASSUME TypeOK, TurnInv, ItemsInv, NEW s \in SessionIds, FlushOnly(s)
  PROVE  OneValue(s, Latest(s))
  <1>1. /\ sessions' = [sessions EXCEPT ![s] = Latest(s)]
        /\ live' = [live EXCEPT ![s] = Flushed(s)]
        /\ DOMAIN sessions = SessionIds /\ DOMAIN live = SessionIds
        /\ live[s] \in Live
    BY DEF FlushOnly, TypeOK
  <1>2. Flushed(s).open => live[s].open /\ Flushed(s).value = Latest(s)
    <2>1. CASE Unwritten(s)
      BY <2>1 DEF Flushed, Latest, Unwritten, LiveEntry
    <2>2. CASE ~Unwritten(s)
      <3>1. Flushed(s).open = live[s].open /\ Flushed(s).value = live[s].value
        BY <1>1, <2>2 DEF Flushed, Live
      <3>2. live[s].open => live[s].value = sessions[s]
        BY <2>2 DEF Unwritten, ItemsInv, LiveIsWritten
      <3> QED BY <2>2, <3>1, <3>2 DEF Latest
    <2> QED BY <2>1, <2>2
  <1> QED BY <1>1, <1>2 DEF OneValue

LEMMA FlushAndSaveValue ==
  ASSUME TypeOK, NEW s \in SessionIds, NEW v, FlushAndSave(s, v)
  PROVE  OneValue(s, Save(v))
  <1>1. /\ sessions' = [sessions EXCEPT ![s] = Save(v)]
        /\ live' = [live EXCEPT ![s] = IF @.open THEN LiveEntry(Save(v)) ELSE @]
        /\ DOMAIN sessions = SessionIds /\ DOMAIN live = SessionIds
    BY DEF FlushAndSave, TypeOK
  <1>2. LiveEntry(Save(v)).value = Save(v)
    BY DEF LiveEntry
  <1> QED BY <1>1, <1>2 DEF OneValue

LEMMA TimerNoValue ==
  ASSUME TypeOK, NEW s \in SessionIds,
         live' = [live EXCEPT ![s].timer = FALSE], UNCHANGED sessions
  PROVE  NoValue /\ \A t \in SessionIds : live[t].open => live'[t].open
  <1>1. \A t \in SessionIds : /\ live[t] \in Live
                              /\ live'[t].open = live[t].open
                              /\ live'[t].value = live[t].value
                              /\ live'[t].events = live[t].events
    BY DEF TypeOK, Live
  <1> QED BY <1>1 DEF NoValue

(* The steps that only write what was waiting, or fail to.                   *)
LEMMA FlushKeeps ==
  ASSUME TypeOK, TurnInv, ItemsInv, NEW s \in SessionIds,
         KeptReceipts, UNCHANGED <<asked, replies>>,
         \/ FlushOnly(s)
         \/ FlushFails(s)
         \/ live' = [live EXCEPT ![s].timer = FALSE] /\ UNCHANGED sessions
         \/ UNCHANGED <<sessions, live>>
  PROVE  ItemsInv' /\ TurnsKept /\ (host' # "down" => OutputGrows)
  <1>1. CASE FlushOnly(s)
    BY <1>1, FlushOnlyValue, SameValueStep DEF SameItems
  <1>2. CASE \/ FlushFails(s)
             \/ live' = [live EXCEPT ![s].timer = FALSE] /\ UNCHANGED sessions
    BY <1>2, TimerNoValue, NoValueKeeps DEF FlushFails
  <1>3. CASE UNCHANGED <<sessions, live>>
    <2>1. NoValue
      BY <1>3 DEF NoValue
    <2> QED BY <1>3, <2>1, NoValueKeeps
  <1> QED BY <1>1, <1>2, <1>3

-----------------------------------------------------------------------------
(* The actions. *)

LEMMA ItemsCreate ==
  ASSUME TypeOK, TurnInv, ItemsInv, NEW c \in CreateCommand, Create(c)
  PROVE  ItemsInv' /\ TurnsKept /\ OutputGrows
  <1> PICK s \in SessionIds :
          /\ sessions[s].status = "absent"
          /\ sessions' = [sessions EXCEPT ![s] = Save(NewSession(c.project))]
          /\ RecordReceipt(c, s)
    BY DEF Create
  <1> DEFINE x == Save(NewSession(c.project))
  <1>1. c \in Command /\ ~Known(c) /\ UNCHANGED <<live, asked, replies>>
    BY DEF Command, Create
  <1>2. /\ x.status = "idle" /\ x.drafts = {} /\ x.asks = {} /\ x.question = None
        /\ x.plans = [p \in CommandIds |-> "none"]
        /\ x.turns = <<>> /\ x.output = 0
    BY DEF Save, NewSession, AbsentSession
  <1>3. Items(x, receipts') /\ Unanswered(x, asked, replies)
    BY <1>2 DEF Items, Settles, Unanswered
  <1>4. /\ sessions' = [sessions EXCEPT ![s] = x]
        /\ sessions[s] = AbsentSession
    BY DEF TurnInv, AbsentIsBlank
  <1> HIDE DEF x
  <1>5. ~live[s].open
    BY OpenIsRunning
  <1>6. KeptReceipts
    <2>1. sessions' \in [SessionIds -> HostSession]
      BY TypeCreate DEF TypeOK
    <2> QED BY <1>1, <2>1, ReceiptKept
  <1>7. OneValue(s, x)
    BY <1>1, <1>4, <1>5 DEF OneValue, TypeOK
  <1>8. x.turns = sessions[s].turns /\ x.output = Latest(s).output
    BY <1>2, <1>4, <1>5 DEF AbsentSession, Latest, Unwritten
  <1> QED BY <1>1, <1>3, <1>6, <1>7, <1>8, ValueStep

LEMMA ItemsStart ==
  ASSUME TypeOK, TurnInv, ItemsInv, NEW c \in SendCommand \cup CompactCommand,
         Start(c)
  PROVE  /\ ItemsInv' /\ OutputGrows
         /\ sessions'[c.session].turns = Append(sessions[c.session].turns, c.id)
         /\ \A t \in SessionIds \ {c.session} : sessions'[t] = sessions[t]
  <1> DEFINE s == c.session
             w == TurnStarted(c, Latest(s))
             x == Save(w)
  <1>1. /\ s \in SessionIds /\ c.id \in CommandIds /\ StartsTurn(c)
        /\ c \in Command /\ ~Known(c) /\ RecordReceipt(c, s)
        /\ UNCHANGED <<asked, replies>>
    BY StartedSession DEF Start, Command, SessionCommand
  <1>2. /\ KeptReceipts /\ receipts'[c.id].command = c
    <2>1. sessions' \in [SessionIds -> HostSession]
      BY TypeStart DEF TypeOK
    <2> QED BY <1>1, <2>1, ReceiptKept
  <1>3. sessions'[s] = x
    <2>1. Applied(c, Latest(s)) = w
      BY <1>1 DEF Applied, StartsTurn
    <2> QED BY <1>1, <2>1 DEF Start, TypeOK
  <1>4. Latest(s).status # "running" /\ Latest(s) \in HostSession
    BY <1>1, StartedSession, LatestKeeps, LatestType DEF SameTurn
  <1>5. /\ w \in HostSession /\ w.status = "running" /\ w.run = c.id
        /\ w.drafts = {} /\ w.asks = {} /\ w.question = None
        /\ w.output = Latest(s).output /\ w.turns = Append(Latest(s).turns, c.id)
        /\ \A p \in CommandIds : w.plans[p] = "building" => p = c.plan
    BY <1>1, <1>4, LatestItems, StartedItems, TurnStartedType
  <1> HIDE DEF w
  <1>6. /\ SameItems(x, w) /\ x.output = w.output /\ x.turns = w.turns
    BY <1>5, SaveItems
  <1>7. Items(w, receipts') /\ Unanswered(w, asked', replies')
    BY <1>2, <1>5 DEF Items, Runs, Unanswered, Pending
  <1> HIDE DEF x
  <1>8. OneValue(s, x)
    BY <1>1, <1>3, <1>5, <1>6, StartedSession DEF OneValue, SameItems
  <1>9. OthersKeep(s)
    BY <1>1 DEF OthersKeep
  <1>10. LiveIsWritten' /\ ValuesInv'
    BY <1>1, <1>2, <1>6, <1>7, <1>8, <1>9, SameItemsHold, OneValueStep
  <1>11. UsedByTurns' /\ RequestsAnsweredOnce'
    BY <1>1, <1>2 DEF ItemsInv, UsedByTurns, RequestsAnsweredOnce, KeptReceipts
  <1>12. OutputGrows
    <2>1. x.output \in Nat /\ x.output >= Latest(s).output
      BY <1>1, <1>5, <1>6, LatestItems, AbsorbedType
    <2> QED BY <1>1, <1>8, <2>1, OneValueOutput
  <1>13. sessions'[s].turns = Append(sessions[s].turns, c.id)
    BY <1>1, <1>3, <1>5, <1>6, LatestKeeps DEF SameUserPart
  <1> QED BY <1>8, <1>10, <1>11, <1>12, <1>13 DEF ItemsInv, OneValue

(* Edit, Cancel and Reply up to the answer they may send.                    *)
LEMMA EditValue ==
  ASSUME TypeOK, TurnInv, ItemsInv, NEW c \in SessionCommand, ~StartsTurn(c),
         ~Known(c), Accepts(c), RecordReceipt(c, c.session),
         FlushAndSave(c.session, Applied(c, Latest(c.session)))
  PROVE  LET s == c.session
             x == Save(Applied(c, Latest(s)))
         IN /\ s \in SessionIds /\ KeptReceipts /\ OneValue(s, x)
            /\ Items(x, receipts') /\ Unanswered(x, asked, replies)
            /\ x.turns = sessions[s].turns /\ x.output = Latest(s).output
            /\ c \in ReplyCommand =>
                 /\ sessions[s].status = "running" /\ sessions[s].run = c.run
                 /\ c.request \in Pending(Latest(s)) /\ c.request \notin Pending(x)
  <1> DEFINE s == c.session
             w == Applied(c, Latest(s))
             x == Save(w)
  <1>1. s \in SessionIds /\ KeptReceipts
    BY EditQuiet, SessionCommandType
  <1>2. Latest(s) \in HostSession /\ w \in HostSession
    BY <1>1, LatestType, AppliedType
  <1>3. Items(Latest(s), receipts') /\ Unanswered(Latest(s), asked, replies)
    BY <1>1, LatestKept, LatestItems
  <1>4. /\ Items(w, receipts') /\ Unanswered(w, asked, replies)
        /\ w.output = Latest(s).output /\ w.turns = Latest(s).turns
        /\ c \in ReplyCommand =>
             /\ Latest(s).status = "running" /\ Latest(s).run = c.run
             /\ c.request \in Pending(Latest(s)) /\ c.request \notin Pending(w)
    BY <1>2, <1>3, AppliedItems DEF Accepts
  <1>5. FlushAndSave(s, w)
    OBVIOUS
  <1> HIDE DEF w
  <1>6. SameItems(x, w) /\ x.output = w.output /\ x.turns = w.turns
    BY <1>2, SaveItems
  <1>7. OneValue(s, x)
    BY <1>1, <1>5, FlushAndSaveValue
  <1>8. Items(x, receipts') /\ Unanswered(x, asked, replies)
    BY <1>4, <1>6, SameItemsHold
  <1>9. x.turns = sessions[s].turns /\ x.output = Latest(s).output
    BY <1>1, <1>4, <1>6, LatestKeeps DEF SameUserPart
  <1>10. Pending(x) = Pending(w)
    BY <1>6 DEF SameItems, Pending
  <1>11. Latest(s).status = sessions[s].status /\ Latest(s).run = sessions[s].run
    BY <1>1, LatestKeeps DEF SameTurn
  <1> QED BY <1>1, <1>4, <1>7, <1>8, <1>9, <1>10, <1>11 DEF w

LEMMA ItemsEdit ==
  ASSUME TypeOK, TurnInv, ItemsInv, NEW c \in SessionCommand,
         \/ c \in EditCommand \cup RemoveCommand /\ Edit(c)
         \/ c \in CancelCommand /\ Cancel(c)
  PROVE  ItemsInv' /\ TurnsKept /\ OutputGrows
  <1>1. ~StartsTurn(c)
    BY DEF StartsTurn, EditCommand, RemoveCommand, CancelCommand, OfType
  <1>2. /\ ~Known(c) /\ Accepts(c) /\ RecordReceipt(c, c.session)
        /\ FlushAndSave(c.session, Applied(c, Latest(c.session)))
        /\ UNCHANGED <<asked, replies>>
    BY DEF Edit, Cancel
  <1> QED BY <1>1, <1>2, EditValue, ValueStep

LEMMA ItemsReply ==
  ASSUME TypeOK, TurnInv, ItemsInv, NEW c \in ReplyCommand, Reply(c)
  PROVE  ItemsInv' /\ TurnsKept /\ OutputGrows
  <1> DEFINE s == c.session
             r == c.run
             q == c.request
             x == Save(Applied(c, Latest(s)))
  <1>1. /\ c \in SessionCommand /\ ~StartsTurn(c) /\ q \in Requests
    BY DEF StartsTurn, ReplyCommand, OfType, SessionCommand
  <1>2. /\ s \in SessionIds /\ KeptReceipts /\ OneValue(s, x)
        /\ Items(x, receipts') /\ Unanswered(x, asked, replies)
        /\ x.turns = sessions[s].turns /\ x.output = Latest(s).output
        /\ sessions[s].status = "running" /\ sessions[s].run = r
        /\ q \in Pending(Latest(s)) /\ q \notin Pending(x)
    BY <1>1, EditValue DEF Reply
  <1> HIDE DEF x
  <1>3. /\ r \in CommandIds /\ receipts[r] # None /\ receipts[r].session = s
    BY <1>2 DEF TurnInv, TurnsAccepted, TurnAccepted
  <1>4. q \in asked[r] /\ replies[r][q] = 0
    <2>1. Latest(s).status = "running" /\ Latest(s).run = r
      BY <1>2, LatestKeeps DEF SameTurn
    <2> QED BY <1>2, <2>1, LatestItems DEF Unanswered
  <1>5. /\ UNCHANGED asked
        /\ \A d \in CommandIds, p \in Requests :
             replies'[d][p] = IF d = r /\ p = q THEN 1 ELSE replies[d][p]
        /\ \A d \in CommandIds \ {r} : replies'[d] = replies[d]
    <2>1. InMap(s) /\ running[s].run = r
      BY <1>2 DEF Reply, TurnInv, TaskPerRunningTurn, Serving
    <2>2. replies' = [replies EXCEPT ![running[s].run][q] = @ + 1] /\ UNCHANGED asked
      BY <2>1 DEF Reply
    <2>3. replies' = [replies EXCEPT ![r][q] = @ + 1]
      BY <2>1, <2>2
    <2>4. replies[r][q] + 1 = 1
      BY <1>4
    <2> QED BY <1>1, <1>3, <2>2, <2>3, <2>4 DEF TypeOK
  <1>6. OthersKeep(s)
    BY <1>3, <1>5 DEF OthersKeep, TurnInv, TurnsAccepted, TurnAccepted
  <1>7. Unanswered(x, asked', replies')
    <2> SUFFICES ASSUME x.status = "running", NEW p \in Pending(x)
                 PROVE  p \in asked[x.run] /\ replies'[x.run][p] = 0
      BY <1>2, <1>5 DEF Unanswered
    <2>1. p \in asked[x.run] /\ replies[x.run][p] = 0 /\ p # q
      BY <1>2 DEF Unanswered
    <2>2. x.run = r
      <3>1. QuietWrite
        BY <1>1, EditQuiet DEF Reply
      <3>2. SameTurn(sessions'[s], sessions[s])
        BY <1>2, <3>1 DEF QuietWrite
      <3> QED BY <1>2, <3>2 DEF SameTurn, OneValue
    <2>3. p \in Requests
      BY <1>3, <2>1, <2>2 DEF TypeOK
    <2> QED BY <1>3, <1>5, <2>1, <2>2, <2>3
  <1>8. LiveIsWritten' /\ ValuesInv'
    BY <1>2, <1>6, <1>7, OneValueStep
  <1>9. UsedByTurns'
    BY <1>2, <1>3, <1>5 DEF ItemsInv, UsedByTurns, KeptReceipts
  <1>10. RequestsAnsweredOnce'
    BY <1>4, <1>5 DEF ItemsInv, RequestsAnsweredOnce
  <1>11. TurnsKept
    BY <1>2 DEF TurnsKept, OneValue
  <1>12. OutputGrows
    <2>1. x.output \in Nat /\ x.output >= Latest(s).output
      BY <1>2, LatestItems, AbsorbedType
    <2> QED BY <1>2, <2>1, OneValueOutput
  <1> QED BY <1>8, <1>9, <1>10, <1>11, <1>12 DEF ItemsInv

LEMMA ItemsRefuse ==
  ASSUME TypeOK, TurnInv, ItemsInv, NEW c \in SessionCommand, Refuse(c)
  PROVE  ItemsInv' /\ TurnsKept /\ (host' # "down" => OutputGrows)
  <1>1. c.session \in SessionIds
    BY SessionCommandType
  <1>2. /\ KeptReceipts /\ UNCHANGED <<asked, replies>>
        /\ FlushOnly(c.session) \/ FlushFails(c.session)
    BY DEF Refuse, KeptReceipts
  <1> QED BY <1>1, <1>2, FlushKeeps

LEMMA ItemsFailures ==
  ASSUME TypeOK, TurnInv, ItemsInv, NEW s \in SessionIds,
         SettleFails(s) \/ RetryFails(s),
         KeptReceipts, UNCHANGED <<asked, replies>>
  PROVE  ItemsInv' /\ TurnsKept /\ (host' # "down" => OutputGrows)
  <1>1. CASE /\ sessions' = [sessions EXCEPT ![s] = Latest(s)]
             /\ live' = [live EXCEPT ![s] = NotLive]
    <2>1. OneValue(s, Latest(s))
      BY <1>1 DEF OneValue, NotLive, TypeOK
    <2> QED BY <2>1, SameValueStep DEF SameItems
  <1>2. CASE \/ live' = [live EXCEPT ![s].timer = FALSE] /\ UNCHANGED sessions
             \/ FlushOnly(s)
    BY <1>2, FlushKeeps
  <1> QED BY <1>1, <1>2 DEF SettleFails, RetryFails

LEMMA ItemsSettle ==
  ASSUME TypeOK, TurnInv, ItemsInv, NEW s \in SessionIds,
         Settle(s) \/ RetrySettle(s)
  PROVE  ItemsInv' /\ TurnsKept /\ (host' # "down" => OutputGrows)
  <1>1. KeptReceipts /\ UNCHANGED <<asked, replies>>
    BY DEF Settle, RetrySettle, KeptReceipts
  <1>2. CASE SettleFails(s) \/ RetryFails(s)
    BY <1>1, <1>2, ItemsFailures
  <1>3. CASE ~(SettleFails(s) \/ RetryFails(s))
    <2>1. PICK status \in {"idle", "interrupted"}, silent \in BOOLEAN :
            \/ sessions' = [sessions EXCEPT ![s] =
                              Save(Settled(Latest(s), status, silent))]
            \/ sessions' = [sessions EXCEPT ![s] = Latest(s)]
      <3>1. CASE Settle(s)
        <4> DEFINE broken == host = "closing" \/ running[s].persistenceFailed
                   hush   == ~broken /\ ~running[s].cancelled /\ ~running[s].error
                   ended  == IF broken THEN "interrupted" ELSE "idle"
        <4>1. ended \in {"idle", "interrupted"} /\ hush \in BOOLEAN
          OBVIOUS
        <4>2. \/ sessions' = [sessions EXCEPT ![s] =
                               Save(Settled(Latest(s), ended, hush))]
              \/ sessions' = [sessions EXCEPT ![s] = Latest(s)]
          BY <1>3, <3>1 DEF Settle
        <4> HIDE DEF ended, hush
        <4> QED BY <4>1, <4>2
      <3>2. CASE RetrySettle(s)
        <4>1. \/ sessions' = [sessions EXCEPT ![s] =
                               Save(Settled(Latest(s), "interrupted", FALSE))]
              \/ sessions' = [sessions EXCEPT ![s] = Latest(s)]
          BY <1>3, <3>2 DEF RetrySettle
        <4> QED BY <4>1
      <3> QED BY <3>1, <3>2
    <2>2. live' = [live EXCEPT ![s] = NotLive]
      BY <1>3 DEF Settle, RetrySettle
    <2>3. \A x : sessions' = [sessions EXCEPT ![s] = x] => OneValue(s, x)
      BY <2>2 DEF OneValue, NotLive, TypeOK
    <2>4. CASE sessions' = [sessions EXCEPT ![s] = Latest(s)]
      BY <1>1, <2>3, <2>4, SameValueStep DEF SameItems
    <2>5. CASE sessions' = [sessions EXCEPT ![s] =
                              Save(Settled(Latest(s), status, silent))]
      <3> DEFINE w == Settled(Latest(s), status, silent)
                 x == Save(w)
      <3>1. Latest(s) \in HostSession /\ status \in Status
        BY <2>1, LatestType DEF Status
      <3>2. /\ w \in HostSession /\ w.status = status
            /\ w.drafts = Latest(s).drafts /\ w.turns = Latest(s).turns
            /\ w.output = Latest(s).output /\ Settles(w)
        BY <3>1, SettledType, SettledItems
      <3>3. OneValue(s, x)
        BY <2>3, <2>5
      <3> HIDE DEF w
      <3>4. SameItems(x, w) /\ x.output = w.output /\ x.turns = w.turns
        BY <3>2, SaveItems
      <3>5. Items(w, receipts') /\ Unanswered(w, asked, replies)
        BY <2>1, <3>2, LatestItems DEF Items, Unanswered
      <3>6. Items(x, receipts') /\ Unanswered(x, asked, replies)
        BY <3>4, <3>5, SameItemsHold
      <3>7. x.turns = sessions[s].turns /\ x.output = Latest(s).output
        BY <3>2, <3>4, LatestKeeps DEF SameUserPart
      <3> QED BY <1>1, <3>3, <3>6, <3>7, ValueStep
    <2> QED BY <2>1, <2>4, <2>5
  <1> QED BY <1>2, <1>3

LEMMA ItemsEvent ==
  ASSUME TypeOK, TurnInv, ItemsInv, NEW s \in SessionIds, NEW r \in CommandIds,
         NEW e \in EventsOf(r, live[s].value), ProviderEvent(s, r, e)
  PROVE  ItemsInv' /\ TurnsKept /\ OutputGrows
  <1> DEFINE v == live[s].value
             w == Absorb(v, e)
  <1>1. /\ live[s] \in Live /\ live[s].open /\ v \in HostSession
        /\ v.status = "running" /\ v.run = r /\ v \in HeldBy(s)
        /\ handed[r] > 0 /\ Numbered(r, e)
        /\ UNCHANGED <<receipts, replies>>
    BY DEF ProviderEvent, Delivers, TypeOK, Live, HeldBy
  <1>2. /\ Items(v, receipts) /\ Unanswered(v, asked, replies)
        /\ sessions[s].status = "running" /\ sessions[s].run = r
    BY <1>1, HeldTurn DEF ItemsInv, ValuesInv
  <1>3. receipts[r] # None /\ receipts[r].session = s
    BY <1>2 DEF TurnInv, TurnsAccepted, TurnAccepted
  <1>4. /\ \A d \in CommandIds : asked[d] \subseteq asked'[d]
        /\ \A d \in CommandIds \ {r} : asked'[d] = asked[d]
        /\ e.kind \in {"ask", "question"} =>
             e.request \notin asked[r] /\ e.request \in asked'[r]
    BY <1>1 DEF ProviderEvent, Numbered, TypeOK
  <1>5. \A q \in Requests : q \notin asked[r] => replies[r][q] = 0
    <2>1. \A q \in Requests : /\ replies[r][q] \in Nat /\ replies[r][q] <= 1
                              /\ replies[r][q] = 1 => q \in asked[r]
      BY DEF ItemsInv, RequestsAnsweredOnce, TypeOK
    <2> QED BY <2>1
  <1>6. /\ Items(w, receipts) /\ Unanswered(w, asked', replies)
        /\ w.turns = v.turns /\ w.output \in Nat /\ w.output >= v.output
    <2>1. asked[r] \subseteq asked'[r] /\ e \in EventsOf(r, v)
      BY <1>4
    <2>2. /\ v \in HostSession /\ v.status = "running" /\ v.run = r
          /\ Items(v, receipts) /\ Unanswered(v, asked, replies)
          /\ e.kind \in {"ask", "question"} =>
               e.request \notin asked[r] /\ e.request \in asked'[r]
      BY <1>1, <1>2, <1>4
    <2> HIDE DEF v
    <2> QED BY <1>5, <2>1, <2>2, EventItems
  <1>7. w \in HostSession /\ Agrees(w, v)
    BY <1>1, AbsorbType, AbsorbKeeps
  <1> DEFINE events == Append(live[s].events, e)
  <1>8. events # <<>>
    <2>1. live[s].events \in Seq(Event)
      BY <1>1 DEF Live
    <2> QED BY <2>1
  <1>9. \/ /\ \E t \in BOOLEAN :
                live' = [live EXCEPT ![s] = [@ EXCEPT !.value = w,
                                                      !.events = events,
                                                      !.timer = t]]
           /\ UNCHANGED sessions
        \/ /\ sessions' = [sessions EXCEPT ![s] = Save(w)]
           /\ live' = [live EXCEPT ![s] = LiveEntry(Save(w))]
    BY DEF ProviderEvent
  <1> HIDE DEF w, events
  <1>10. /\ SameItems(Save(w), w) /\ Save(w).turns = w.turns
         /\ Save(w).output = w.output
    BY <1>7, SaveItems
  <1>11. OthersKeep(s)
    BY <1>3, <1>4, <1>1 DEF OthersKeep, TurnInv, TurnsAccepted, TurnAccepted
  <1>12. KeptReceipts
    BY <1>1 DEF KeptReceipts
  <1>13. UsedByTurns' /\ RequestsAnsweredOnce'
    <2>1. UsedByTurns'
      BY <1>1, <1>3, <1>4 DEF ItemsInv, UsedByTurns
    <2>2. RequestsAnsweredOnce'
      BY <1>1, <1>4 DEF ItemsInv, RequestsAnsweredOnce
    <2> QED BY <2>1, <2>2
  <1>14. v.turns = sessions[s].turns
    BY <1>1 DEF TurnInv, LiveAgrees, Agrees, SameUserPart
  <1>15. CASE /\ sessions' = [sessions EXCEPT ![s] = Save(w)]
              /\ live' = [live EXCEPT ![s] = LiveEntry(Save(w))]
    <2> DEFINE x == Save(w)
    <2>1. /\ LiveEntry(x).value = x
          /\ sessions' = [sessions EXCEPT ![s] = x]
          /\ live' = [live EXCEPT ![s] = LiveEntry(x)]
      BY <1>15 DEF LiveEntry
    <2>2. Items(x, receipts') /\ Unanswered(x, asked', replies')
      BY <1>1, <1>6, <1>10, SameItemsHold
    <2>3. x.output \in Nat /\ x.output >= Latest(s).output
      <3>1. Latest(s).output = v.output
        BY <1>1, LatestItems DEF Absorbed
      <3> QED BY <1>6, <1>10, <3>1
    <2>4. x.turns = sessions[s].turns
      BY <1>6, <1>10, <1>14
    <2> HIDE DEF x
    <2>5. OneValue(s, x)
      BY <1>1, <2>1 DEF OneValue, TypeOK
    <2>6. LiveIsWritten' /\ ValuesInv'
      BY <1>11, <1>12, <2>2, <2>5, OneValueStep
    <2>7. TurnsKept
      BY <2>4, <2>5 DEF TurnsKept, OneValue
    <2> QED BY <1>13, <2>3, <2>5, <2>6, <2>7, OneValueOutput DEF ItemsInv
  <1>16. ASSUME NEW t \in BOOLEAN, UNCHANGED sessions,
                live' = [live EXCEPT ![s] = [@ EXCEPT !.value = w,
                                                      !.events = events,
                                                      !.timer = t]]
         PROVE  ItemsInv' /\ TurnsKept /\ OutputGrows
    <2>1. /\ live'[s].open /\ live'[s].value = w /\ live'[s].events = events
          /\ \A u \in SessionIds \ {s} : live'[u] = live[u]
      BY <1>1, <1>16 DEF TypeOK, Live
    <2>2. LiveIsWritten'
      BY <1>8, <1>16, <2>1 DEF ItemsInv, LiveIsWritten
    <2>3. ASSUME NEW u \in SessionIds, NEW y \in (HeldBy(u))'
          PROVE  Items(y, receipts') /\ Unanswered(y, asked', replies')
      <3>1. CASE u = s /\ y = w
        BY <1>1, <1>6, <3>1
      <3>2. CASE u # s \/ y # w
        <4>1. y \in HeldBy(u)
          BY <1>16, <2>1, <2>3, <3>2 DEF HeldBy
        <4>2. Items(y, receipts) /\ Unanswered(y, asked, replies)
          BY <4>1 DEF ItemsInv, ValuesInv
        <4>3. y.status = "running" => y.run \in CommandIds
          BY <4>1, HeldTurn DEF TurnInv, TurnsAccepted, TurnAccepted
        <4> QED BY <1>1, <1>4, <4>2, <4>3 DEF Unanswered
      <3> QED BY <3>1, <3>2
    <2>4. ValuesInv'
      BY <2>3 DEF ValuesInv
    <2>5. TurnsKept
      BY <1>16 DEF TurnsKept
    <2>6. OutputGrows
      <3>1. Absorbed(s)' >= Absorbed(s)
        BY <1>1, <1>6, <2>1 DEF Absorbed
      <3>2. \A u \in SessionIds \ {s} : Absorbed(u)' = Absorbed(u)
        BY <1>16, <2>1 DEF Absorbed
      <3> QED BY <3>1, <3>2, AbsorbedType DEF OutputGrows
    <2> QED BY <1>13, <2>2, <2>4, <2>5, <2>6 DEF ItemsInv
  <1> QED BY <1>9, <1>15, <1>16

LEMMA ItemsRecover ==
  ASSUME TypeOK, TurnInv, ItemsInv, NEW s \in SessionIds, Recover(s)
  PROVE  ItemsInv' /\ TurnsKept /\ (host' # "down" => OutputGrows)
  <1>1. /\ KeptReceipts /\ UNCHANGED <<live, asked, replies>> /\ ~live[s].open
    BY DEF Recover, KeptReceipts, TurnInv, LiveAgrees, MemoryOfProcess, Serving
  <1>2. CASE UNCHANGED sessions
    BY <1>1, <1>2, FlushKeeps
  <1>3. CASE sessions' = [sessions EXCEPT ![s] =
                            Save(Settled(@, "interrupted", FALSE))]
    <2> DEFINE w == Settled(sessions[s], "interrupted", FALSE)
               x == Save(w)
    <2>1. Latest(s) = sessions[s] /\ sessions[s] \in HostSession
      BY <1>1 DEF Latest, Unwritten, TypeOK
    <2>2. /\ w \in HostSession /\ w.status = "interrupted"
          /\ w.drafts = sessions[s].drafts /\ w.turns = sessions[s].turns
          /\ w.output = sessions[s].output /\ Settles(w)
      BY <2>1, SettledType, SettledItems DEF Status
    <2>3. sessions' = [sessions EXCEPT ![s] = x]
      BY <1>3
    <2> HIDE DEF w
    <2>4. SameItems(x, w) /\ x.output = w.output /\ x.turns = w.turns
      BY <2>2, SaveItems
    <2>5. Items(w, receipts') /\ Unanswered(w, asked, replies)
      BY <2>1, <2>2, LatestItems DEF Items, Unanswered
    <2>6. Items(x, receipts') /\ Unanswered(x, asked, replies)
      BY <2>4, <2>5, SameItemsHold
    <2> HIDE DEF x
    <2>7. OneValue(s, x)
      BY <1>1, <2>3 DEF OneValue, TypeOK
    <2> QED BY <1>1, <2>1, <2>2, <2>4, <2>6, <2>7, ValueStep
  <1> QED BY <1>2, <1>3 DEF Recover

LEMMA ItemsRetitled ==
  ASSUME TypeOK, TurnInv, ItemsInv, NEW s \in SessionIds, NEW title,
         KeptReceipts, UNCHANGED <<asked, replies>>,
         FlushAndSave(s, [Latest(s) EXCEPT !.title = title]), title \in TitleKind
  PROVE  ItemsInv' /\ TurnsKept /\ OutputGrows
  <1> DEFINE w == [Latest(s) EXCEPT !.title = title]
             x == Save(w)
  <1>1. /\ w \in HostSession /\ SameItems(w, Latest(s))
        /\ w.output = Latest(s).output /\ w.turns = Latest(s).turns
    BY LatestType, TitleType, TitleItems
  <1>2. FlushAndSave(s, w)
    OBVIOUS
  <1> HIDE DEF w
  <1>3. SameItems(x, w) /\ x.output = w.output /\ x.turns = w.turns
    BY <1>1, SaveItems
  <1>4. SameItems(x, Latest(s))
    BY <1>1, <1>3 DEF SameItems
  <1>5. OneValue(s, x)
    BY <1>2, FlushAndSaveValue
  <1> HIDE DEF x
  <1> QED BY <1>1, <1>3, <1>4, <1>5, SameValueStep

LEMMA ItemsOther ==
  ASSUME TypeOK, TurnInv, ItemsInv, NEW s \in SessionIds,
         \/ StartSend(s) \/ EndSend(s) \/ RetryTimer(s)
         \/ ScheduledFlush(s)
         \/ TitleArrives(s)
         \/ \E title \in {"renamed", sessions[s].title} : UpdateSession(s, title)
  PROVE  ItemsInv' /\ TurnsKept /\ (host' # "down" => OutputGrows)
  <1>1. KeptReceipts /\ UNCHANGED <<asked, replies>>
    BY DEF StartSend, EndSend, RetryTimer, ScheduledFlush, TitleArrives,
           UpdateSession, KeptReceipts
  <1>2. sessions[s].title \in TitleKind
    BY DEF TypeOK, HostSession
  <1>3. \/ FlushOnly(s)
        \/ FlushFails(s)
        \/ UNCHANGED <<sessions, live>>
        \/ \E title \in TitleKind :
             FlushAndSave(s, [Latest(s) EXCEPT !.title = title])
    <2>1. CASE StartSend(s) \/ EndSend(s) \/ RetryTimer(s)
      BY <2>1 DEF StartSend, EndSend, RetryTimer
    <2>2. CASE ScheduledFlush(s)
      BY <2>2 DEF ScheduledFlush
    <2>3. CASE TitleArrives(s)
      BY <2>3 DEF TitleArrives, TitleKind
    <2>4. CASE \E title \in {"renamed", sessions[s].title} : UpdateSession(s, title)
      BY <1>2, <2>4 DEF UpdateSession, TitleKind
    <2> QED BY <2>1, <2>2, <2>3, <2>4
  <1> QED BY <1>1, <1>3, FlushKeeps, ItemsRetitled

LEMMA ItemsDelete ==
  ASSUME TypeOK, TurnInv, ItemsInv, NEW s \in SessionIds, DeleteSession(s)
  PROVE  ItemsInv' /\ TurnsKept /\ OutputGrows
  <1> DEFINE x == [sessions[s] EXCEPT !.status = "deleted"]
  <1>1. /\ KeptReceipts /\ UNCHANGED <<live, asked, replies>>
        /\ sessions[s].status # "running"
    BY DEF DeleteSession, KeptReceipts
  <1>2. ~live[s].open /\ Latest(s) = sessions[s] /\ sessions[s] \in HostSession
    BY <1>1, OpenIsRunning DEF Latest, Unwritten, TypeOK
  <1>3. /\ x.status = "deleted" /\ x.drafts = sessions[s].drafts
        /\ x.asks = sessions[s].asks /\ x.question = sessions[s].question
        /\ x.plans = sessions[s].plans /\ x.turns = sessions[s].turns
        /\ x.output = sessions[s].output
    BY <1>2 DEF HostSession
  <1>4. OneValue(s, x)
    BY <1>1, <1>2 DEF OneValue, DeleteSession, TypeOK
  <1> HIDE DEF x
  <1>5. Items(sessions[s], receipts)
    BY <1>2, LatestItems
  <1>6. Items(x, receipts') /\ Unanswered(x, asked, replies)
    BY <1>1, <1>3, <1>5 DEF Items, Settles, Unanswered
  <1> QED BY <1>1, <1>2, <1>3, <1>4, <1>6, ValueStep

LEMMA ItemsProcess ==
  ASSUME TypeOK, TurnInv, ItemsInv,
         \/ \E p \in Projects : BeginSwitch(p) \/ EndSwitch(p)
         \/ Crash \/ Boot \/ Listen \/ Close \/ Exit
  PROVE  ItemsInv' /\ TurnsKept /\ (host' # "down" => OutputGrows)
  <1>1. KeptReceipts /\ UNCHANGED <<sessions, asked, replies>>
    BY DEF BeginSwitch, EndSwitch, Crash, Boot, Listen, Close, Exit, KeptReceipts
  <1>2. \/ UNCHANGED live
        \/ host' = "down" /\ \A t \in SessionIds : ~live'[t].open
    BY DEF BeginSwitch, EndSwitch, Crash, Boot, Listen, Close, Exit, LoseMemory,
           NotLive
  <1>3. NoValue
    BY <1>1, <1>2 DEF NoValue
  <1> QED BY <1>1, <1>2, <1>3, NoValueKeeps

LEMMA ItemsInit == Init => ItemsInv
  <1> SUFFICES ASSUME Init PROVE ItemsInv
    OBVIOUS
  <1>1. \A s \in SessionIds :
          /\ ~live[s].open
          /\ sessions[s] = AbsentSession
             \/ \E p \in Projects : sessions[s] = Save(NewSession(p))
    BY DEF Init, NotLive
  <1>2. /\ Items(AbsentSession, receipts)
        /\ Unanswered(AbsentSession, asked, replies)
    BY DEF AbsentSession, Items, Settles, Unanswered
  <1>3. \A p \in Projects :
          /\ Items(Save(NewSession(p)), receipts)
          /\ Unanswered(Save(NewSession(p)), asked, replies)
    BY DEF Save, NewSession, AbsentSession, Items, Settles, Unanswered
  <1>4. LiveIsWritten /\ ValuesInv
    BY <1>1, <1>2, <1>3 DEF LiveIsWritten, ValuesInv, HeldBy
  <1>5. UsedByTurns /\ RequestsAnsweredOnce
    BY DEF Init, UsedByTurns, RequestsAnsweredOnce
  <1> QED BY <1>4, <1>5 DEF ItemsInv

(* One step: what it keeps, and the prompts it adds.                         *)
PromptAdded(c) ==
    /\ Start(c)
    /\ sessions'[c.session].turns = Append(sessions[c.session].turns, c.id)
    /\ \A t \in SessionIds \ {c.session} : sessions'[t] = sessions[t]

LEMMA ItemsStep ==
  ASSUME TypeOK, TurnInv, ItemsInv, [Next]_vars
  PROVE  /\ ItemsInv'
         /\ host' # "down" => OutputGrows
         /\ TurnsKept \/ \E c \in SendCommand \cup CompactCommand : PromptAdded(c)
  <1>1. CASE UNCHANGED vars
    <2>1. KeptReceipts /\ UNCHANGED <<sessions, live, asked, replies>>
      BY <1>1 DEF vars, KeptReceipts
    <2>2. NoValue
      BY <2>1 DEF NoValue
    <2> QED BY <2>1, <2>2, NoValueKeeps
  <1>2. CASE \E c \in CreateCommand : Create(c)
    BY <1>2, ItemsCreate
  <1>3. CASE \E c \in SendCommand \cup CompactCommand : Start(c)
    BY <1>3, ItemsStart DEF PromptAdded
  <1>4. CASE \/ \E c \in EditCommand \cup RemoveCommand : Edit(c)
             \/ \E c \in CancelCommand : Cancel(c)
    BY <1>4, ItemsEdit DEF SessionCommand
  <1>5. CASE \/ \E c \in ReplyCommand : Reply(c)
             \/ \E c \in SessionCommand : Refuse(c)
    BY <1>5, ItemsReply, ItemsRefuse
  <1>6. CASE \E s \in SessionIds :
               \/ StartSend(s) \/ EndSend(s) \/ Settle(s)
               \/ RetryTimer(s) \/ RetrySettle(s) \/ ScheduledFlush(s)
               \/ DeleteSession(s) \/ TitleArrives(s) \/ Recover(s)
    BY <1>6, ItemsOther, ItemsSettle, ItemsDelete, ItemsRecover
  <1>7. CASE \E s \in SessionIds, r \in CommandIds :
               \E e \in EventsOf(r, live[s].value) : ProviderEvent(s, r, e)
    BY <1>7, ItemsEvent
  <1>8. CASE \E s \in SessionIds : \E title \in {"renamed", sessions[s].title} :
               UpdateSession(s, title)
    BY <1>8, ItemsOther
  <1>9. CASE \/ \E p \in Projects : BeginSwitch(p) \/ EndSwitch(p)
             \/ Crash \/ Boot \/ Listen \/ Close \/ Exit
    BY <1>9, ItemsProcess
  <1> QED BY <1>1, <1>2, <1>3, <1>4, <1>5, <1>6, <1>7, <1>8, <1>9 DEF Next

-----------------------------------------------------------------------------
(* Prompts and receipts. *)

Occurrences(t, c) == {i \in DOMAIN t : t[i] = c}

LEMMA AppendOccurrences ==
  ASSUME NEW t \in Seq(CommandIds), NEW x \in CommandIds,
         Cardinality(Occurrences(t, x)) = 0
  PROVE  /\ Cardinality(Occurrences(Append(t, x), x)) = 1
         /\ \A c \in CommandIds \ {x} : Occurrences(Append(t, x), c) = Occurrences(t, c)
  <1>1. /\ DOMAIN t = 1 .. Len(t) /\ Len(t) \in Nat
        /\ DOMAIN Append(t, x) = 1 .. Len(t) + 1
        /\ \A i \in 1 .. Len(t) : Append(t, x)[i] = t[i]
        /\ Append(t, x)[Len(t) + 1] = x
    OBVIOUS
  <1>2. Occurrences(t, x) = {}
    <2>1. IsFiniteSet(1 .. Len(t))
      BY <1>1, FS_Interval
    <2>2. IsFiniteSet(Occurrences(t, x))
      BY <1>1, <2>1, FS_Subset DEF Occurrences
    <2> QED BY <2>2, FS_EmptySet
  <1>3. Occurrences(Append(t, x), x) = {Len(t) + 1}
    BY <1>1, <1>2 DEF Occurrences
  <1>4. Cardinality({Len(t) + 1}) = 1
    BY FS_Singleton
  <1>5. \A c \in CommandIds \ {x} : Occurrences(Append(t, x), c) = Occurrences(t, c)
    BY <1>1 DEF Occurrences
  <1> QED BY <1>3, <1>4, <1>5

LEMMA StepReceipts ==
  ASSUME TypeOK, [Next]_vars
  PROVE  NothingAccepted \/ \E c \in SendCommand \cup CompactCommand : Start(c)
  <1>1. CASE \E c \in CreateCommand : Create(c)
    <2>1. PICK c \in CreateCommand : Create(c)
      BY <1>1
    <2>2. c \in Command /\ ~StartsTurn(c) /\ ~Known(c)
      BY <2>1 DEF Command, CreateCommand, OfType, StartsTurn, Create
    <2> QED BY <2>1, <2>2, PlainReceipt DEF Create
  <1>2. CASE \/ \E c \in EditCommand \cup RemoveCommand : Edit(c)
             \/ \E c \in CancelCommand : Cancel(c)
             \/ \E c \in ReplyCommand : Reply(c)
    <2>1. PICK c \in EditCommand \cup RemoveCommand \cup CancelCommand
                       \cup ReplyCommand :
            ~Known(c) /\ RecordReceipt(c, c.session)
      BY <1>2 DEF Edit, Cancel, Reply
    <2>2. c \in Command /\ ~StartsTurn(c)
      BY <2>1 DEF Command, SessionCommand, StartsTurn, EditCommand,
                  RemoveCommand, CancelCommand, ReplyCommand, OfType
    <2> QED BY <2>1, <2>2, PlainReceipt
  <1>3. CASE UNCHANGED receipts
    BY <1>3 DEF NothingAccepted
  <1>4. \/ \E c \in CreateCommand : Create(c)
        \/ \E c \in SendCommand \cup CompactCommand : Start(c)
        \/ \E c \in EditCommand \cup RemoveCommand : Edit(c)
        \/ \E c \in CancelCommand : Cancel(c)
        \/ \E c \in ReplyCommand : Reply(c)
        \/ UNCHANGED receipts
    BY ZenonT(60) DEF Next, vars, Refuse, StartSend, EndSend, Settle, RetryTimer,
           RetrySettle, ScheduledFlush, DeleteSession, TitleArrives, Recover,
           ProviderEvent, UpdateSession, BeginSwitch, EndSwitch, Crash, Boot,
           Listen, Close, Exit
  <1> QED BY <1>1, <1>2, <1>3, <1>4

(* The receipt of c says that it is a prompt of session s.                   *)
IsPromptOf(c, s, R) ==
    R[c] # None /\ StartsTurn(R[c].command) /\ R[c].session = s

RecordedOnce(s, R) ==
    \A c \in CommandIds :
        Cardinality(Occurrences(sessions[s].turns, c)) =
          IF IsPromptOf(c, s, R) THEN 1 ELSE 0

LEMMA RecordedStep ==
  ASSUME TypeOK, TurnInv, ItemsInv, PromptsRecordedOnce, [Next]_vars
  PROVE  PromptsRecordedOnce'
  <1>1. ASSUME NEW s \in SessionIds, NEW c \in CommandIds
        PROVE  Cardinality(Occurrences(sessions[s].turns, c)) =
                 IF IsPromptOf(c, s, receipts) THEN 1 ELSE 0
    BY DEF PromptsRecordedOnce, Occurrences, IsPromptOf
  <1>2. SUFFICES ASSUME NEW s \in SessionIds, NEW c \in CommandIds
                 PROVE  Cardinality(Occurrences(sessions'[s].turns, c)) =
                          IF IsPromptOf(c, s, receipts') THEN 1 ELSE 0
    BY DEF PromptsRecordedOnce, Occurrences, IsPromptOf
  <1>3. CASE NothingAccepted /\ TurnsKept
    <2>1. sessions'[s].turns = sessions[s].turns
      BY <1>3 DEF TurnsKept
    <2>2. IsPromptOf(c, s, receipts') <=> IsPromptOf(c, s, receipts)
      BY <1>3 DEF NothingAccepted, IsPromptOf
    <2> QED BY <1>1, <2>1, <2>2
  <1>4. ASSUME NEW d \in SendCommand \cup CompactCommand, Start(d)
        PROVE  Cardinality(Occurrences(sessions'[s].turns, c)) =
                 IF IsPromptOf(c, s, receipts') THEN 1 ELSE 0
    <2> DEFINE t == d.session
    <2>1. /\ sessions'[t].turns = Append(sessions[t].turns, d.id)
          /\ \A u \in SessionIds \ {t} : sessions'[u] = sessions[u]
      BY <1>4, ItemsStart
    <2>2. t \in SessionIds /\ d.id \in CommandIds /\ StartsTurn(d)
      BY <1>4, StartedSession
    <2>3. /\ \A e \in CommandIds : e # d.id => receipts'[e] = receipts[e]
          /\ receipts[d.id] = None /\ IsPromptOf(d.id, t, receipts')
          /\ receipts'[d.id].session = t
      <3>1. d \in Command /\ ~Known(d) /\ RecordReceipt(d, t)
        BY <1>4 DEF Start, Command, SessionCommand
      <3>2. sessions' \in [SessionIds -> HostSession]
        BY <1>4, TypeStart DEF TypeOK
      <3> QED BY <2>2, <3>1, <3>2, ReceiptKept DEF Known, IsPromptOf
    <2>4. Cardinality(Occurrences(sessions[t].turns, d.id)) = 0
      BY <1>1, <2>2, <2>3 DEF IsPromptOf
    <2>5. sessions[t].turns \in Seq(CommandIds)
      BY <2>2 DEF TypeOK, HostSession
    <2> DEFINE old == sessions[t].turns
               new == Append(old, d.id)
    <2>6. /\ Cardinality(Occurrences(new, d.id)) = 1
          /\ \A e \in CommandIds \ {d.id} : Occurrences(new, e) = Occurrences(old, e)
      <3>1. old \in Seq(CommandIds) /\ Cardinality(Occurrences(old, d.id)) = 0
        BY <2>4, <2>5
      <3> HIDE DEF old
      <3> QED BY <2>2, <3>1, AppendOccurrences
    <2>7. sessions'[t].turns = new
      BY <2>1
    <2> HIDE DEF new
    <2>8. CASE c # d.id
      <3>1. IsPromptOf(c, s, receipts') <=> IsPromptOf(c, s, receipts)
        BY <2>3, <2>8 DEF IsPromptOf
      <3>2. Occurrences(sessions'[s].turns, c) = Occurrences(sessions[s].turns, c)
        <4>1. CASE s = t
          BY <2>8, <2>6, <2>7, <4>1
        <4>2. CASE s # t
          BY <2>1, <4>2
        <4> QED BY <4>1, <4>2
      <3> QED BY <1>1, <3>1, <3>2
    <2>9. CASE c = d.id /\ s = t
      BY <2>3, <2>9, <2>6, <2>7
    <2>10. CASE c = d.id /\ s # t
      <3>1. ~IsPromptOf(c, s, receipts') /\ ~IsPromptOf(c, s, receipts)
        BY <2>3, <2>10 DEF IsPromptOf
      <3> QED BY <1>1, <2>1, <2>10, <3>1
    <2> QED BY <2>8, <2>9, <2>10
  <1>5. TurnsKept \/ \E d \in SendCommand \cup CompactCommand : Start(d)
    BY ItemsStep DEF PromptAdded
  <1> QED BY <1>3, <1>4, <1>5, StepReceipts

LEMMA RecordedInit == Init => PromptsRecordedOnce
  <1> SUFFICES ASSUME Init, NEW s \in SessionIds, NEW c \in CommandIds
               PROVE  Cardinality({i \in DOMAIN sessions[s].turns :
                                     sessions[s].turns[i] = c}) = 0
    BY DEF Init, PromptsRecordedOnce
  <1>1. sessions[s].turns = <<>>
    <2>1. \/ sessions[s] = AbsentSession
          \/ \E p \in Projects : sessions[s] = Save(NewSession(p))
      BY DEF Init
    <2>2. /\ AbsentSession.turns = <<>>
          /\ \A p \in Projects : Save(NewSession(p)).turns = <<>>
      BY DEF AbsentSession, Save, NewSession
    <2> QED BY <2>1, <2>2
  <1>2. {i \in DOMAIN sessions[s].turns : sessions[s].turns[i] = c} = {}
    BY <1>1
  <1> QED BY <1>2, FS_EmptySet

-----------------------------------------------------------------------------
(* The events that wait in live.  A step that leaves some waiting has left   *)
(* the stored value alone, and has added at most one.                        *)

(* The function that Replayed is defined by, up to n.                        *)
Replaying(f, v, events, n) ==
    f = [i \in 0..n |-> IF i = 0 THEN v ELSE Absorb(f[i - 1], events[i])]

(* Induction up to n, stated of a set of numbers.                            *)
LEMMA Reaches ==
  ASSUME NEW n \in Nat, NEW S \in SUBSET Nat, 0 \in S,
         \A k \in S : k < n => k + 1 \in S
  PROVE  n \in S
  <1> DEFINE Missed == {k \in Nat : k <= n /\ k \notin S}
             Less == {p \in Nat \X Nat : p[1] < p[2]}
  <1> SUFFICES ASSUME Missed # {} PROVE FALSE
    OBVIOUS
  <1>1. PICK m \in Missed : \A k \in Missed : <<k, m>> \notin Less
    <2>1. IsWellFoundedOn(Less, Nat) /\ Missed \in SUBSET Nat
      BY NatLessThanWellFounded DEF OpToRel
    <2>2. PICK k \in Missed : TRUE
      OBVIOUS
    <2> HIDE DEF Less, Missed
    <2> QED BY <2>1, <2>2, WFMin
  <1>2. m - 1 \in Nat /\ m - 1 < m /\ m - 1 < n /\ (m - 1) + 1 = m /\ m \notin S
    BY <1>1
  <1>3. m - 1 \notin Missed
    <2>1. <<m - 1, m>> \in Nat \X Nat /\ <<m - 1, m>>[1] = m - 1 /\ <<m - 1, m>>[2] = m
      BY <1>1, <1>2
    <2>2. <<m - 1, m>> \in Less
      BY <1>2, <2>1
    <2> QED BY <1>1, <2>2
  <1> QED BY <1>2, <1>3

LEMMA ReplayingExists ==
  ASSUME NEW v, NEW events, NEW n \in Nat
  PROVE  \E f : Replaying(f, v, events, n)
  <1> DEFINE S == {k \in Nat : \E f : Replaying(f, v, events, k)}
  <1>1. 0 \in S
    <2>1. Replaying([i \in 0..0 |-> v], v, events, 0)
      BY DEF Replaying
    <2> QED BY <2>1
  <1>2. ASSUME NEW k \in S PROVE k + 1 \in S
    <2>1. PICK f : Replaying(f, v, events, k)
      OBVIOUS
    <2> DEFINE g == [i \in 0..k + 1 |-> IF i <= k THEN f[i] ELSE Absorb(f[i - 1], events[i])]
    <2>2. /\ \A i \in 0..k : g[i] = f[i]
          /\ g[k + 1] = Absorb(f[k], events[k + 1])
      OBVIOUS
    <2>3. \A i \in 0..k : f[i] = IF i = 0 THEN v ELSE Absorb(f[i - 1], events[i])
      BY <2>1 DEF Replaying
    <2>4. ASSUME NEW i \in 0..k + 1
          PROVE  g[i] = IF i = 0 THEN v ELSE Absorb(g[i - 1], events[i])
      <3>1. CASE i = 0
        BY <2>2, <2>3, <3>1
      <3>2. CASE i # 0
        <4>1. i - 1 \in 0..k /\ g[i - 1] = f[i - 1]
          BY <2>2, <3>2
        <4> QED BY <2>2, <2>3, <3>2, <4>1
      <3> QED BY <3>1, <3>2
    <2>5. Replaying(g, v, events, k + 1)
      BY <2>4 DEF Replaying
    <2> HIDE DEF g
    <2> QED BY <2>5
  <1> HIDE DEF S
  <1>3. S \in SUBSET Nat
    BY DEF S
  <1>4. n \in S
    BY <1>1, <1>2, <1>3, Reaches
  <1> QED BY <1>4 DEF S

LEMMA ReplayedNone == ASSUME NEW v PROVE Replayed(v, <<>>) = v
  <1> DEFINE f == CHOOSE g : Replaying(g, v, <<>>, 0)
  <1>1. Replaying(f, v, <<>>, 0)
    BY ReplayingExists
  <1>2. Replayed(v, <<>>) = f[0]
    BY DEF Replayed, Replaying
  <1> HIDE DEF f
  <1> QED BY <1>1, <1>2 DEF Replaying

LEMMA ReplayedAppend ==
  ASSUME NEW v, NEW events \in Seq(Event), NEW e \in Event
  PROVE  Replayed(v, Append(events, e)) = Absorb(Replayed(v, events), e)
  <1> DEFINE n == Len(events)
             more == Append(events, e)
             f == CHOOSE g : Replaying(g, v, events, n)
             h == CHOOSE g : Replaying(g, v, more, n + 1)
             S == {k \in Nat : k <= n => h[k] = f[k]}
  <1>1. /\ n \in Nat /\ Len(more) = n + 1 /\ more[n + 1] = e
        /\ \A i \in 1..n : more[i] = events[i]
    OBVIOUS
  <1>2. Replaying(f, v, events, n) /\ Replaying(h, v, more, n + 1)
    <2>1. n \in Nat /\ n + 1 \in Nat
      BY <1>1
    <2> HIDE DEF n, more
    <2>2. \E g : Replaying(g, v, events, n)
      BY <2>1, ReplayingExists
    <2>3. \E g : Replaying(g, v, more, n + 1)
      BY <2>1, ReplayingExists
    <2> QED BY <2>2, <2>3
  <1>3. Replayed(v, events) = f[n] /\ Replayed(v, more) = h[n + 1]
    <2>1. Replayed(v, events) = f[n]
      BY DEF Replayed, Replaying
    <2>2. Replayed(v, more) = (CHOOSE g : Replaying(g, v, more, Len(more)))[Len(more)]
      BY DEF Replayed, Replaying
    <2> QED BY <1>1, <2>1, <2>2
  <1> HIDE DEF n, more, f, h
  <1>4. /\ \A i \in 0..n : f[i] = IF i = 0 THEN v ELSE Absorb(f[i - 1], events[i])
        /\ \A i \in 0..n + 1 : h[i] = IF i = 0 THEN v ELSE Absorb(h[i - 1], more[i])
    BY <1>2 DEF Replaying
  <1>5. 0 \in S
    BY <1>1, <1>4
  <1>6. ASSUME NEW k \in S, k < n PROVE k + 1 \in S
    <2>1. k \in Nat /\ k + 1 \in 1..n /\ k + 1 \in 0..n /\ k + 1 \in 0..n + 1
          /\ k + 1 # 0 /\ (k + 1) - 1 = k /\ h[k] = f[k]
      BY <1>1, <1>6
    <2>2. more[k + 1] = events[k + 1]
      BY <1>1, <2>1
    <2>3. h[k + 1] = f[k + 1]
      BY <1>4, <2>1, <2>2
    <2> QED BY <2>1, <2>3
  <1>7. S \in SUBSET Nat
    OBVIOUS
  <1>8. n \in S
    <2> HIDE DEF S
    <2> QED BY <1>1, <1>5, <1>6, <1>7, Reaches
  <1>9. h[n + 1] = Absorb(h[n], e)
    <2>1. n + 1 \in 0..n + 1 /\ n + 1 # 0 /\ (n + 1) - 1 = n
      BY <1>1
    <2> QED BY <1>1, <1>4, <2>1
  <1>10. h[n] = f[n]
    BY <1>1, <1>8
  <1> QED BY <1>3, <1>9, <1>10 DEF more

EntryKept(t) ==
    /\ live[t].open /\ sessions'[t] = sessions[t]
    /\ live'[t].value = live[t].value /\ live'[t].events = live[t].events
EventAdded(t) ==
    /\ live[t].open /\ sessions'[t] = sessions[t]
    /\ \E e \in Event : /\ live'[t].value = Absorb(live[t].value, e)
                        /\ live'[t].events = Append(live[t].events, e)

(* The ways a step writes a session: none lets events wait that did not.     *)
LEMMA WritesKeepEntry ==
  ASSUME TypeOK, NEW s \in SessionIds, NEW x, NEW y,
         \/ FlushOnly(s) \/ FlushFails(s) \/ FlushAndSave(s, x)
         \/ live' = [live EXCEPT ![s].timer = FALSE] /\ UNCHANGED sessions
         \/ UNCHANGED <<sessions, live>>
         \/ /\ sessions' = [sessions EXCEPT ![s] = x]
            /\ live' \in {[live EXCEPT ![s] = NotLive], [live EXCEPT ![s] = LiveEntry(y)]}
         \/ sessions' = [sessions EXCEPT ![s] = x] /\ UNCHANGED live /\ ~live[s].open,
         NEW t \in SessionIds, live'[t].open, live'[t].events # <<>>
  PROVE  EntryKept(t)
  <1>1. DOMAIN sessions = SessionIds /\ DOMAIN live = SessionIds /\ live[s] \in Live
    BY DEF TypeOK
  <1>2. CASE t # s
    BY <1>1, <1>2 DEF EntryKept, FlushOnly, FlushFails, FlushAndSave
  <1>3. CASE t = s
    <2>1. CASE FlushOnly(s)
      <3>1. sessions'[s] = Latest(s) /\ live'[s] = Flushed(s)
        BY <1>1, <2>1 DEF FlushOnly
      <3>2. ~Unwritten(s)
        BY <1>3, <3>1 DEF Flushed, LiveEntry
      <3>3. sessions'[s] = sessions[s] /\ live'[s] = [live[s] EXCEPT !.timer = FALSE]
        BY <3>1, <3>2 DEF Flushed, Latest
      <3> QED BY <1>1, <1>3, <3>3 DEF EntryKept, Live
    <2>2. CASE \/ FlushFails(s)
               \/ live' = [live EXCEPT ![s].timer = FALSE] /\ UNCHANGED sessions
      BY <1>1, <1>3, <2>2 DEF EntryKept, FlushFails, Live
    <2>3. CASE FlushAndSave(s, x)
      BY <1>1, <1>3, <2>3 DEF FlushAndSave, LiveEntry
    <2>4. CASE UNCHANGED <<sessions, live>>
      BY <2>4 DEF EntryKept
    <2>5. CASE live' \in {[live EXCEPT ![s] = NotLive], [live EXCEPT ![s] = LiveEntry(y)]}
      BY <1>1, <1>3, <2>5 DEF NotLive, LiveEntry
    <2> QED BY <1>3, <2>1, <2>2, <2>3, <2>4, <2>5
  <1> QED BY <1>2, <1>3

LEMMA EventEntry ==
  ASSUME TypeOK, NEW s \in SessionIds, NEW r \in CommandIds,
         NEW e \in EventsOf(r, live[s].value), ProviderEvent(s, r, e),
         NEW t \in SessionIds, live'[t].open, live'[t].events # <<>>
  PROVE  EntryKept(t) \/ EventAdded(t)
  <1> DEFINE value == Absorb(live[s].value, e)
             events == Append(live[s].events, e)
  <1>1. DOMAIN live = SessionIds /\ live[s] \in Live /\ e \in Event /\ live[s].open
    <2>1. live[s].value \in HostSession
      BY DEF TypeOK, Live
    <2> QED BY <2>1, EventType DEF TypeOK, ProviderEvent, Delivers
  <1> HIDE DEF value, events
  <1>2. \/ /\ \E b \in BOOLEAN :
                 live' = [live EXCEPT ![s] = [@ EXCEPT !.value = value, !.events = events,
                                                       !.timer = b]]
           /\ UNCHANGED sessions
        \/ /\ sessions' = [sessions EXCEPT ![s] = Save(value)]
           /\ live' = [live EXCEPT ![s] = LiveEntry(Save(value))]
    BY DEF ProviderEvent, value, events
  <1>3. CASE /\ \E b \in BOOLEAN :
                   live' = [live EXCEPT ![s] = [@ EXCEPT !.value = value, !.events = events,
                                                         !.timer = b]]
             /\ UNCHANGED sessions
    <2>1. CASE t = s
      <3>1. live'[t].value = value /\ live'[t].events = events
        BY <1>1, <1>3, <2>1 DEF Live
      <3> QED BY <1>1, <1>3, <2>1, <3>1 DEF EventAdded, value, events
    <2>2. CASE t # s
      BY <1>1, <1>3, <2>2 DEF EntryKept
    <2> QED BY <2>1, <2>2
  <1>4. CASE /\ sessions' = [sessions EXCEPT ![s] = Save(value)]
             /\ live' = [live EXCEPT ![s] = LiveEntry(Save(value))]
    BY <1>4, WritesKeepEntry
  <1> QED BY <1>2, <1>3, <1>4

LEMMA WaitingStep ==
  ASSUME TypeOK, TurnInv, [Next]_vars,
         NEW t \in SessionIds, live'[t].open, live'[t].events # <<>>
  PROVE  EntryKept(t) \/ EventAdded(t)
  <1>1. CASE UNCHANGED <<sessions, live>>
    BY <1>1, WritesKeepEntry
  <1>2. CASE \E c \in CreateCommand : Create(c)
    <2>1. PICK c \in CreateCommand, s \in SessionIds :
            /\ sessions[s].status = "absent" /\ UNCHANGED live
            /\ sessions' = [sessions EXCEPT ![s] = Save(NewSession(c.project))]
      BY <1>2 DEF Create
    <2>2. ~live[s].open
      BY <2>1, OpenIsRunning
    <2> QED BY <2>1, <2>2, WritesKeepEntry
  <1>3. CASE \E c \in SendCommand \cup CompactCommand : Start(c)
    <2>1. PICK c \in SendCommand \cup CompactCommand : Start(c)
      BY <1>3
    <2>2. c.session \in SessionIds
      BY <2>1, StartedSession
    <2> QED BY <2>1, <2>2, WritesKeepEntry DEF Start
  <1>4. CASE \/ \E c \in EditCommand \cup RemoveCommand : Edit(c)
             \/ \E c \in CancelCommand : Cancel(c)
             \/ \E c \in ReplyCommand : Reply(c)
             \/ \E c \in SessionCommand : Refuse(c)
    <2>1. PICK c \in SessionCommand :
            \/ FlushAndSave(c.session, Applied(c, Latest(c.session)))
            \/ FlushOnly(c.session) \/ FlushFails(c.session)
      BY <1>4 DEF Edit, Cancel, Reply, Refuse, SessionCommand
    <2>2. c.session \in SessionIds
      BY SessionCommandType
    <2> QED BY <2>1, <2>2, WritesKeepEntry
  <1>5. ASSUME NEW s \in SessionIds,
               \/ Settle(s) \/ RetrySettle(s) \/ ScheduledFlush(s) \/ TitleArrives(s)
               \/ \E title \in {"renamed", sessions[s].title} : UpdateSession(s, title)
        PROVE  EntryKept(t)
    <2>1. \/ FlushOnly(s) \/ FlushFails(s) \/ \E x : FlushAndSave(s, x)
          \/ live' = [live EXCEPT ![s].timer = FALSE] /\ UNCHANGED sessions
          \/ UNCHANGED <<sessions, live>>
          \/ \E x : /\ sessions' = [sessions EXCEPT ![s] = x]
                    /\ live' = [live EXCEPT ![s] = NotLive]
      BY <1>5 DEF Settle, SettleFails, RetrySettle, RetryFails, ScheduledFlush,
                  TitleArrives, UpdateSession
    <2> QED BY <2>1, WritesKeepEntry
  <1>6. ASSUME NEW s \in SessionIds, DeleteSession(s) \/ Recover(s) PROVE EntryKept(t)
    <2>1. ~live[s].open
      BY <1>6, OpenIsRunning DEF DeleteSession, Recover, TurnInv, LiveAgrees,
                                 MemoryOfProcess, Serving
    <2>2. UNCHANGED live /\ (UNCHANGED sessions \/ \E x : sessions' = [sessions EXCEPT ![s] = x])
      <3>1. CASE DeleteSession(s)
        <4>1. sessions' = [sessions EXCEPT ![s] = [sessions[s] EXCEPT !.status = "deleted"]]
              /\ UNCHANGED live
          BY <3>1 DEF DeleteSession
        <4> QED BY <4>1
      <3>2. CASE Recover(s)
        BY <3>2 DEF Recover
      <3> QED BY <1>6, <3>1, <3>2
    <2> QED BY <2>1, <2>2, WritesKeepEntry
  <1>7. CASE \E s \in SessionIds, r \in CommandIds :
               \E e \in EventsOf(r, live[s].value) : ProviderEvent(s, r, e)
    BY <1>7, EventEntry
  <1>8. CASE Crash \/ Exit
    BY <1>8 DEF Crash, Exit, LoseMemory, NotLive
  <1>9. CASE \/ \E s \in SessionIds : StartSend(s) \/ EndSend(s) \/ RetryTimer(s)
             \/ \E p \in Projects : BeginSwitch(p) \/ EndSwitch(p)
             \/ Boot \/ Listen \/ Close \/ UNCHANGED vars
    <2>1. UNCHANGED <<sessions, live>>
      BY <1>9 DEF StartSend, EndSend, RetryTimer, BeginSwitch, EndSwitch, Boot, Listen,
                  Close, vars
    <2> QED BY <1>1, <2>1
  <1> QED BY <1>2, <1>3, <1>4, <1>5, <1>6, <1>7, <1>8, <1>9 DEF Next

LEMMA MirrorsStep ==
  ASSUME TypeOK, TurnInv, ItemsInv, LiveMirrorsStore, [Next]_vars
  PROVE  LiveMirrorsStore'
  <1> SUFFICES ASSUME NEW t \in SessionIds, live'[t].open
               PROVE  live'[t].value = Replayed(sessions'[t], live'[t].events)
    BY DEF LiveMirrorsStore
  <1>1. CASE live'[t].events = <<>>
    <2>1. LiveIsWritten'
      BY ItemsStep DEF ItemsInv
    <2>2. live'[t].value = sessions'[t]
      BY <1>1, <2>1 DEF LiveIsWritten
    <2> QED BY <1>1, <2>2, ReplayedNone
  <1>2. CASE live'[t].events # <<>>
    <2>1. EntryKept(t) \/ EventAdded(t)
      BY <1>2, WaitingStep
    <2>2. live[t].open => live[t].value = Replayed(sessions[t], live[t].events)
      BY DEF LiveMirrorsStore
    <2>3. live[t].events \in Seq(Event)
      BY DEF TypeOK, Live
    <2>4. CASE EntryKept(t)
      BY <2>2, <2>4 DEF EntryKept
    <2>5. CASE EventAdded(t)
      <3>1. PICK e \in Event : /\ live'[t].value = Absorb(live[t].value, e)
                               /\ live'[t].events = Append(live[t].events, e)
        BY <2>5 DEF EventAdded
      <3>2. sessions'[t] = sessions[t] /\ live[t].value = Replayed(sessions[t], live[t].events)
        BY <2>2, <2>5 DEF EventAdded
      <3> QED BY <2>3, <3>1, <3>2, ReplayedAppend
    <2> QED BY <2>1, <2>4, <2>5
  <1> QED BY <1>1, <1>2

-----------------------------------------------------------------------------

(* Every reachable state satisfies the inductive invariant of the values.    *)
THEOREM ItemsInvariant == Spec => [](TypeOK /\ TurnInv /\ ItemsInv)
  <1>1. Init => ItemsInv
    BY ItemsInit
  <1>2. TypeOK /\ TurnInv /\ ItemsInv /\ [Next]_vars => ItemsInv'
    BY ItemsStep
  <1> QED BY <1>1, <1>2, TurnInvariant, PTL DEF Spec

(* Whatever clients, crashes and failed writes do, an approval or a question *)
(* is answered towards the provider at most once, by the turn that asked it. *)
THEOREM AnsweredOnce == Spec => []RequestsAnsweredOnce
  <1>1. TypeOK /\ TurnInv /\ ItemsInv => RequestsAnsweredOnce
    BY DEF ItemsInv
  <1> QED BY <1>1, ItemsInvariant, PTL

(* Nothing waits for the user, streams or is being built outside a running   *)
(* turn, and drafts exist only between turns, one at a time.                 *)
THEOREM ItemsOfTheTurn == Spec => []OpenItemsBelongToTurn
  <1>1. ASSUME TypeOK, TurnInv, ItemsInv PROVE OpenItemsBelongToTurn
    <2>1. ASSUME NEW s \in SessionIds PROVE Items(sessions[s], receipts)
      BY <1>1 DEF ItemsInv, ValuesInv, HeldBy
    <2>2. ASSUME NEW s \in SessionIds PROVE Cardinality(sessions[s].drafts) <= 1
      <3>1. CASE sessions[s].drafts = {}
        BY <3>1, FS_EmptySet
      <3>2. CASE \E d \in CommandIds : sessions[s].drafts = {d}
        <4>1. PICK d \in CommandIds : sessions[s].drafts = {d}
          BY <3>2
        <4>2. Cardinality({d}) = 1
          BY FS_Singleton
        <4> QED BY <4>1, <4>2
      <3> QED BY <2>1, <3>1, <3>2 DEF Items
    <2> QED BY <2>1, <2>2 DEF OpenItemsBelongToTurn, Items, Settles, Runs
  <1> QED BY <1>1, ItemsInvariant, PTL

(* Every accepted prompt is in the transcript of its session exactly once,   *)
(* and no other prompt is: duplicates, rolled back writes and restarts       *)
(* neither repeat one nor lose one.                                          *)
THEOREM PromptsInTranscript == Spec => []PromptsRecordedOnce
  <1>1. Init => PromptsRecordedOnce
    BY RecordedInit
  <1>2. TypeOK /\ TurnInv /\ ItemsInv /\ PromptsRecordedOnce /\ [Next]_vars
          => PromptsRecordedOnce'
    BY RecordedStep
  <1> QED BY <1>1, <1>2, ItemsInvariant, PTL DEF Spec

(* While the process lives, no step takes back output clients have seen or   *)
(* would see: not a failed write, a settlement or a change of metadata.      *)
THEOREM OutputStays == Spec => OutputIsKept
  <1>1. TypeOK /\ TurnInv /\ ItemsInv /\ [Next]_vars =>
          [host' # "down" => \A s \in SessionIds : Absorbed(s)' >= Absorbed(s)]_vars
    BY ItemsStep DEF OutputGrows
  <1> QED BY <1>1, ItemsInvariant, PTL DEF Spec, OutputIsKept

(* What is in memory of a turn is the stored session with the events that    *)
(* wait applied to it, through commands, renames, generated titles, failed   *)
(* writes and settlements: the next flush loses nothing and repeats nothing. *)
THEOREM LiveFollowsStore == Spec => []LiveMirrorsStore
  <1>1. Init => LiveMirrorsStore
    BY DEF Init, NotLive, LiveMirrorsStore
  <1>2. TypeOK /\ TurnInv /\ ItemsInv /\ LiveMirrorsStore /\ [Next]_vars => LiveMirrorsStore'
    BY MirrorsStep
  <1> QED BY <1>1, <1>2, ItemsInvariant, PTL DEF Spec
=============================================================================

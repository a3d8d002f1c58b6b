---------------------------- MODULE HostTurns_proofs ----------------------------
(***************************************************************************)
(* The turns of HostEngine: one task per running session, no turn during a *)
(* branch switch, and a prompt handed to a provider at most once.          *)
(*                                                                         *)
(* What its steps may do: a session never changes under a revision that a  *)
(* client already holds, a title the user gave is not taken away, and      *)
(* every step accepts a prompt, hands it over, ends its turn, or leaves    *)
(* the ledger alone (the engine implements TurnLedger).                    *)
(*                                                                         *)
(* Most actions are quiet: they may write sessions and move tasks along,   *)
(* but no turn begins or ends.  QuietStep treats them together.            *)
(***************************************************************************)
EXTENDS HostEngine_proofs

-----------------------------------------------------------------------------
(* The inductive invariant. *)

LiveAgrees ==
    \A s \in SessionIds :
        live[s].open => InMap(s) /\ Agrees(live[s].value, sessions[s])

MemoryOfProcess ==
    ~Serving => (\A s \in SessionIds : ~InMap(s)) /\ switching = {}

TurnAccepted(s) ==
    LET r == sessions[s].run IN
    /\ r \in CommandIds /\ receipts[r] # None
    /\ StartsTurn(receipts[r].command) /\ receipts[r].session = s

TurnsAccepted ==
    \A s \in SessionIds : sessions[s].status = "running" => TurnAccepted(s)

HandedAccepted == \A c \in CommandIds : handed[c] > 0 => receipts[c] # None

QueuedNotHanded ==
    \A s \in SessionIds :
        running[s].phase = "queued" => handed[running[s].run] = 0

AbsentIsBlank ==
    \A s \in SessionIds :
        sessions[s].status = "absent" => sessions[s] = AbsentSession

TurnInv ==
    /\ TaskPerRunningTurn /\ SwitchExcludesTurns /\ HandedAtMostOnce
    /\ LiveAgrees /\ MemoryOfProcess /\ TurnsAccepted /\ HandedAccepted
    /\ QueuedNotHanded /\ AbsentIsBlank

-----------------------------------------------------------------------------
(* Quiet steps. *)

QuietWrite ==
    \A s \in SessionIds :
        /\ SameTurn(sessions'[s], sessions[s])
        /\ sessions[s].status = "absent" => sessions'[s] = sessions[s]
        /\ live'[s].open => live[s].open /\ Agrees(live'[s].value, sessions'[s])

QuietTasks ==
    \A s \in SessionIds :
        /\ running'[s].run = running[s].run
        /\ running'[s].phase = "none" <=> running[s].phase = "none"
        /\ running'[s].phase = "queued" => running[s].phase = "queued"

KeptReceipts ==
    \A c \in CommandIds : receipts[c] # None => receipts'[c] = receipts[c]

LEMMA QuietStep ==
  ASSUME TurnInv, QuietWrite, QuietTasks, KeptReceipts,
         Serving' <=> Serving, UNCHANGED <<switching, handed>>
  PROVE  TurnInv'
  <1>1. TaskPerRunningTurn'
    BY DEF TurnInv, TaskPerRunningTurn, InMap, QuietWrite, QuietTasks, SameTurn
  <1>2. SwitchExcludesTurns'
    BY DEF TurnInv, SwitchExcludesTurns, QuietWrite, SameTurn
  <1>3. HandedAtMostOnce' /\ HandedAccepted'
    BY DEF TurnInv, HandedAtMostOnce, HandedAccepted, KeptReceipts
  <1>4. LiveAgrees' /\ MemoryOfProcess'
    BY DEF TurnInv, LiveAgrees, MemoryOfProcess, InMap, QuietWrite, QuietTasks
  <1>5. TurnsAccepted'
    BY DEF TurnInv, TurnsAccepted, TurnAccepted, QuietWrite, SameTurn, KeptReceipts
  <1>6. QueuedNotHanded'
    BY DEF TurnInv, QueuedNotHanded, QuietTasks
  <1>7. AbsentIsBlank'
    BY DEF TurnInv, AbsentIsBlank, QuietWrite, SameTurn
  <1> QED BY <1>1, <1>2, <1>3, <1>4, <1>5, <1>6, <1>7 DEF TurnInv

LEMMA QuietMemory ==
  ASSUME TurnInv, UNCHANGED <<sessions, live>>
  PROVE  QuietWrite
  BY DEF TurnInv, LiveAgrees, QuietWrite, SameTurn

LEMMA OpenIsRunning ==
  ASSUME TurnInv, NEW s \in SessionIds, live[s].open
  PROVE  sessions[s].status = "running"
  BY DEF TurnInv, LiveAgrees, MemoryOfProcess, TaskPerRunningTurn

LEMMA LatestKeeps ==
  ASSUME TypeOK, TurnInv, NEW s \in SessionIds
  PROVE  /\ SameTurn(Latest(s), sessions[s]) /\ SameUserPart(Latest(s), sessions[s])
         /\ \/ Latest(s) = sessions[s]
            \/ Latest(s).revision = sessions[s].revision + 1
         /\ Latest(s).revision \in Nat /\ Latest(s).revision >= sessions[s].revision
  <1>1. /\ sessions[s] \in HostSession /\ live[s] \in Live
        /\ sessions[s].revision \in Nat
    BY DEF TypeOK, HostSession
  <1>2. CASE Unwritten(s)
    <2>1. /\ live[s].value \in HostSession
          /\ Agrees(live[s].value, sessions[s])
      BY <1>1, <1>2 DEF Live, Unwritten, TurnInv, LiveAgrees
    <2>2. Latest(s) = Save(live[s].value)
      BY <1>2 DEF Latest
    <2> QED BY <1>1, <2>1, <2>2, SaveKeeps DEF Agrees, SameTurn, SameUserPart
  <1>3. CASE ~Unwritten(s)
    BY <1>1, <1>3 DEF Latest, SameTurn, SameUserPart
  <1> QED BY <1>2, <1>3

LEMMA FlushOnlyQuiet ==
  ASSUME TypeOK, TurnInv, NEW s \in SessionIds, FlushOnly(s)
  PROVE  QuietWrite
  <1> SUFFICES ASSUME NEW t \in SessionIds
               PROVE  /\ SameTurn(sessions'[t], sessions[t])
                      /\ sessions[t].status = "absent" => sessions'[t] = sessions[t]
                      /\ live'[t].open =>
                           live[t].open /\ Agrees(live'[t].value, sessions'[t])
    BY DEF QuietWrite
  <1>1. /\ sessions' = [sessions EXCEPT ![s] = Latest(s)]
        /\ live' = [live EXCEPT ![s] = Flushed(s)]
        /\ DOMAIN sessions = SessionIds /\ DOMAIN live = SessionIds
        /\ live[s] \in Live
    BY DEF FlushOnly, TypeOK
  <1>2. CASE t # s
    BY <1>1, <1>2 DEF TurnInv, LiveAgrees, SameTurn
  <1>3. CASE t = s
    <2>1. sessions'[s] = Latest(s) /\ live'[s] = Flushed(s)
      BY <1>1
    <2>2. SameTurn(sessions'[s], sessions[s])
      BY <2>1, LatestKeeps
    <2>3. sessions[s].status = "absent" => sessions'[s] = sessions[s]
      BY <2>1, OpenIsRunning DEF Latest, Unwritten
    <2>4. CASE Unwritten(s)
      <3>1. Flushed(s) = LiveEntry(Latest(s)) /\ live[s].open
        BY <2>4 DEF Flushed, Latest, Unwritten
      <3> QED BY <1>3, <2>1, <2>2, <2>3, <3>1
              DEF LiveEntry, Agrees, SameTurn, SameUserPart
    <2>5. CASE ~Unwritten(s)
      <3>1. Flushed(s) = [live[s] EXCEPT !.timer = FALSE] /\ Latest(s) = sessions[s]
        BY <2>5 DEF Flushed, Latest
      <3>2. Flushed(s).open = live[s].open /\ Flushed(s).value = live[s].value
        BY <1>1, <3>1 DEF Live
      <3> QED BY <1>3, <2>1, <2>2, <2>3, <3>1, <3>2 DEF TurnInv, LiveAgrees
    <2> QED BY <2>4, <2>5
  <1> QED BY <1>2, <1>3

LEMMA TimerQuiet ==
  ASSUME TypeOK, TurnInv, NEW s \in SessionIds,
         live' = [live EXCEPT ![s].timer = FALSE], UNCHANGED sessions
  PROVE  QuietWrite
  <1>1. \A t \in SessionIds : /\ live[t] \in Live
                              /\ live'[t].open = live[t].open
                              /\ live'[t].value = live[t].value
    BY DEF TypeOK, Live
  <1> QED BY <1>1 DEF TurnInv, LiveAgrees, QuietWrite, SameTurn

LEMMA FlushAndSaveQuiet ==
  ASSUME TypeOK, TurnInv, NEW s \in SessionIds, NEW v \in HostSession,
         SameTurn(v, sessions[s]), sessions[s].status # "absent",
         FlushAndSave(s, v)
  PROVE  QuietWrite
  <1>1. /\ sessions' = [sessions EXCEPT ![s] = Save(v)]
        /\ live' = [live EXCEPT ![s] = IF @.open THEN LiveEntry(Save(v)) ELSE @]
        /\ DOMAIN sessions = SessionIds /\ DOMAIN live = SessionIds
    BY DEF FlushAndSave, TypeOK
  <1>2. SameTurn(Save(v), sessions[s])
    BY SaveKeeps DEF SameTurn
  <1>3. live'[s].open => live[s].open /\ Agrees(live'[s].value, sessions'[s])
    BY <1>1 DEF LiveEntry, Agrees, SameTurn, SameUserPart
  <1> QED BY <1>1, <1>2, <1>3 DEF TurnInv, LiveAgrees, QuietWrite, SameTurn

-----------------------------------------------------------------------------
(* Commands. *)

LEMMA ReceiptKept ==
  ASSUME TypeOK, NEW c \in Command, ~Known(c), NEW s \in SessionIds,
         sessions' \in [SessionIds -> HostSession], RecordReceipt(c, s)
  PROVE  /\ KeptReceipts
         /\ \A d \in CommandIds : d # c.id => receipts'[d] = receipts[d]
         /\ c.id \in CommandIds =>
              /\ receipts'[c.id].command = c /\ receipts'[c.id].session = s
              /\ receipts'[c.id] # None
  <1> DEFINE new == [command |-> c, session |-> s,
                     revision |-> sessions'[s].revision]
  <1>1. new.command = c /\ new.session = s /\ new \in Receipt
    BY DEF Receipt, HostSession
  <1>2. new # None
    BY <1>1, NoneIsNotAReceipt
  <1> HIDE DEF new
  <1>3. /\ receipts' = [receipts EXCEPT ![c.id] = new]
        /\ DOMAIN receipts = CommandIds
    BY DEF RecordReceipt, new, TypeOK
  <1>4. \A d \in CommandIds : d # c.id => receipts'[d] = receipts[d]
    BY <1>3
  <1>5. c.id \in CommandIds => receipts'[c.id] = new
    BY <1>3
  <1>6. KeptReceipts
    BY <1>4 DEF KeptReceipts, Known
  <1> QED BY <1>1, <1>2, <1>4, <1>5, <1>6

LEMMA TurnCreate ==
  ASSUME TypeOK, TurnInv, NEW c \in CreateCommand, Create(c) PROVE TurnInv'
  <1> PICK s \in SessionIds :
          /\ sessions[s].status = "absent"
          /\ sessions' = [sessions EXCEPT ![s] = Save(NewSession(c.project))]
          /\ RecordReceipt(c, s)
    BY DEF Create
  <1>1. c \in Command /\ c.id \in CommandIds /\ ~Known(c)
    BY DEF Command, CreateCommand, Create
  <1>2. KeptReceipts
    <2>1. sessions' \in [SessionIds -> HostSession]
      BY TypeCreate DEF TypeOK
    <2> QED BY <1>1, <2>1, ReceiptKept
  <1>3. /\ sessions'[s].status = "idle"
        /\ \A t \in SessionIds \ {s} : sessions'[t] = sessions[t]
    BY DEF NewSession, AbsentSession, Save, TypeOK
  <1>4. /\ host = "up" /\ host' = "up"
        /\ UNCHANGED <<running, live, switching, handed>>
    BY DEF Create
  <1>5. ~live[s].open /\ ~InMap(s)
    BY <1>4, OpenIsRunning DEF TurnInv, TaskPerRunningTurn, Serving
  <1>6. TaskPerRunningTurn'
    BY <1>3, <1>4, <1>5 DEF TurnInv, TaskPerRunningTurn, Serving, InMap
  <1>7. SwitchExcludesTurns'
    BY <1>3, <1>4 DEF TurnInv, SwitchExcludesTurns
  <1>8. HandedAtMostOnce' /\ HandedAccepted' /\ QueuedNotHanded'
    BY <1>2, <1>4 DEF TurnInv, HandedAtMostOnce, HandedAccepted,
                      QueuedNotHanded, KeptReceipts
  <1>9. LiveAgrees' /\ MemoryOfProcess'
    BY <1>3, <1>4, <1>5 DEF TurnInv, LiveAgrees, MemoryOfProcess, InMap, Serving
  <1>10. TurnsAccepted'
    BY <1>2, <1>3 DEF TurnInv, TurnsAccepted, TurnAccepted, KeptReceipts
  <1>11. AbsentIsBlank'
    BY <1>3 DEF TurnInv, AbsentIsBlank
  <1> QED BY <1>6, <1>7, <1>8, <1>9, <1>10, <1>11 DEF TurnInv

(* What an accepted send or compact makes of its session. *)
LEMMA StartedSession ==
  ASSUME TypeOK, TurnInv, NEW c \in SendCommand \cup CompactCommand, Start(c)
  PROVE  LET s == c.session IN
         /\ s \in SessionIds /\ c.id \in CommandIds /\ StartsTurn(c)
         /\ sessions[s].status \notin {"running", "absent", "deleted"}
         /\ sessions[s].project \notin switching
         /\ sessions'[s].status = "running" /\ sessions'[s].run = c.id
         /\ sessions'[s].project = sessions[s].project
         /\ sessions'[s].revision > sessions[s].revision
         /\ sessions[s].title = "renamed" => sessions'[s].title = "renamed"
         /\ live'[s].open /\ live'[s].value = sessions'[s]
         /\ running'[s].phase = "queued" /\ running'[s].run = c.id
         /\ \A t \in SessionIds \ {s} : /\ sessions'[t] = sessions[t]
                                        /\ live'[t] = live[t]
                                        /\ running'[t] = running[t]
  <1> DEFINE s     == c.session
             saved == Save(Applied(c, Latest(s)))
  <1>1. /\ c \in SessionCommand /\ c.id \in CommandIds /\ s \in SessionIds
        /\ StartsTurn(c)
    BY SessionCommandType
    DEF SessionCommand, SendCommand, CompactCommand, OfType, StartsTurn
  <1>2. /\ sessions[s].status \notin {"running", "absent", "deleted"}
        /\ sessions[s].project \notin switching
    BY <1>1, LatestKeeps DEF Start, Accepts, Exists, Allowed, StartsTurn, SameTurn
  <1>3. Applied(c, Latest(s)) = TurnStarted(c, Latest(s))
    BY <1>1 DEF Applied, StartsTurn
  <1>4. Latest(s) \in HostSession /\ TurnStarted(c, Latest(s)) \in HostSession
    BY <1>1, LatestType, TurnStartedType
  <1>5. /\ saved.status = "running" /\ saved.run = c.id
        /\ saved.project = sessions[s].project
        /\ saved.revision > sessions[s].revision
        /\ sessions[s].title = "renamed" => saved.title = "renamed"
    <2>1. /\ saved.status = "running" /\ saved.run = c.id
          /\ saved.project = Latest(s).project
          /\ saved.revision = Latest(s).revision + 1
          /\ Latest(s).title = "renamed" => saved.title = "renamed"
      BY <1>3, <1>4, SaveKeeps, TurnStartedKeeps DEF SameTurn, SameUserPart
    <2>2. sessions[s].revision \in Nat
      BY <1>1 DEF TypeOK, HostSession
    <2> HIDE DEF saved
    <2> QED BY <1>1, <2>1, <2>2, LatestKeeps DEF SameTurn, SameUserPart
  <1> HIDE DEF saved
  <1>6. /\ sessions' = [sessions EXCEPT ![s] = saved]
        /\ live' = [live EXCEPT ![s] = LiveEntry(saved)]
        /\ running' = [running EXCEPT ![s] = [NoTask EXCEPT !.phase = "queued",
                                                            !.run = c.id]]
    BY DEF Start, saved
  <1>7. /\ [NoTask EXCEPT !.phase = "queued", !.run = c.id].phase = "queued"
        /\ [NoTask EXCEPT !.phase = "queued", !.run = c.id].run = c.id
        /\ LiveEntry(saved).open /\ LiveEntry(saved).value = saved
    BY DEF NoTask, LiveEntry
  <1> QED BY <1>1, <1>2, <1>5, <1>6, <1>7 DEF TypeOK

LEMMA TurnStart ==
  ASSUME TypeOK, TurnInv, NEW c \in SendCommand \cup CompactCommand, Start(c)
  PROVE  TurnInv'
  <1> DEFINE s == c.session
  <1>1. /\ c \in Command /\ c.id \in CommandIds /\ s \in SessionIds
        /\ ~Known(c) /\ RecordReceipt(c, s)
        /\ host = "up" /\ host' = "up" /\ UNCHANGED <<switching, handed>>
    BY DEF Start, Command, SessionCommand, SendCommand, CompactCommand
  <1>2. /\ KeptReceipts /\ receipts[c.id] = None
        /\ receipts'[c.id].command = c /\ receipts'[c.id].session = s
        /\ receipts'[c.id] # None
    <2>1. sessions' \in [SessionIds -> HostSession]
      BY TypeStart DEF TypeOK
    <2> QED BY <1>1, <2>1, ReceiptKept DEF Known
  <1>3. TaskPerRunningTurn'
    BY <1>1, StartedSession DEF TurnInv, TaskPerRunningTurn, Serving, InMap
  <1>4. SwitchExcludesTurns'
    BY <1>1, StartedSession DEF TurnInv, SwitchExcludesTurns
  <1>5. HandedAtMostOnce' /\ HandedAccepted'
    BY <1>1, <1>2 DEF TurnInv, HandedAtMostOnce, HandedAccepted, KeptReceipts
  <1>6. QueuedNotHanded'
    <2>1. handed[c.id] = 0
      BY <1>1, <1>2 DEF TurnInv, HandedAccepted, TypeOK
    <2> QED BY <1>1, <2>1, StartedSession DEF TurnInv, QueuedNotHanded
  <1>7. LiveAgrees'
    BY StartedSession DEF TurnInv, LiveAgrees, InMap, Agrees, SameTurn, SameUserPart
  <1>8. MemoryOfProcess'
    BY <1>1 DEF MemoryOfProcess, Serving
  <1>9. TurnsAccepted'
    BY <1>2, StartedSession DEF TurnInv, TurnsAccepted, TurnAccepted, KeptReceipts
  <1>10. AbsentIsBlank'
    BY StartedSession DEF TurnInv, AbsentIsBlank
  <1> QED BY <1>3, <1>4, <1>5, <1>6, <1>7, <1>8, <1>9, <1>10 DEF TurnInv

(* Edit, Cancel and Reply. *)
LEMMA EditQuiet ==
  ASSUME TypeOK, TurnInv, NEW c \in SessionCommand, ~StartsTurn(c),
         ~Known(c), Accepts(c), RecordReceipt(c, c.session),
         FlushAndSave(c.session, Applied(c, Latest(c.session)))
  PROVE  QuietWrite /\ KeptReceipts
  <1> DEFINE s == c.session
  <1>1. s \in SessionIds /\ c \in Command
    BY SessionCommandType
  <1>2. Latest(s) \in HostSession /\ Applied(c, Latest(s)) \in HostSession
    BY <1>1, LatestType, AppliedType
  <1>3. SameTurn(Applied(c, Latest(s)), sessions[s]) /\ sessions[s].status # "absent"
    BY <1>1, <1>2, LatestKeeps, AppliedKeeps DEF Accepts, Exists, SameTurn
  <1>4. sessions' \in [SessionIds -> HostSession]
    BY <1>1, <1>2, WritesType
  <1> QED BY <1>1, <1>2, <1>3, <1>4, FlushAndSaveQuiet, ReceiptKept

LEMMA TurnEdit ==
  ASSUME TypeOK, TurnInv, NEW c \in SessionCommand,
         \/ c \in EditCommand \cup RemoveCommand /\ Edit(c)
         \/ c \in CancelCommand /\ Cancel(c)
         \/ c \in ReplyCommand /\ Reply(c)
  PROVE  TurnInv'
  <1>1. ~StartsTurn(c)
    BY DEF StartsTurn, EditCommand, RemoveCommand, CancelCommand, ReplyCommand, OfType
  <1>2. QuietWrite /\ KeptReceipts
    BY <1>1, EditQuiet DEF Edit, Cancel, Reply
  <1>3. QuietTasks
    <2>1. \/ running' = running
          \/ running' = [running EXCEPT ![c.session].cancelled = InMap(c.session)]
      BY DEF Edit, Cancel, Reply
    <2> QED BY <2>1 DEF QuietTasks, TypeOK, Task
  <1>4. (Serving' <=> Serving) /\ UNCHANGED <<switching, handed>>
    BY DEF Edit, Cancel, Reply, Serving
  <1> QED BY <1>2, <1>3, <1>4, QuietStep

LEMMA RefuseQuiet ==
  ASSUME TypeOK, TurnInv, NEW c \in SessionCommand, Refuse(c) PROVE QuietWrite
  <1>1. c.session \in SessionIds
    BY SessionCommandType
  <1> QED BY <1>1, FlushOnlyQuiet, TimerQuiet DEF Refuse, FlushFails

LEMMA TurnRefuse ==
  ASSUME TypeOK, TurnInv, NEW c \in SessionCommand, Refuse(c) PROVE TurnInv'
  <1>2. QuietWrite
    BY RefuseQuiet
  <1>3. /\ QuietTasks /\ KeptReceipts /\ (Serving' <=> Serving)
        /\ UNCHANGED <<switching, handed>>
    BY DEF Refuse, QuietTasks, KeptReceipts, Serving
  <1> QED BY <1>2, <1>3, QuietStep

-----------------------------------------------------------------------------
(* The task of a turn. *)

LEMMA TurnStartSend ==
  ASSUME TypeOK, TurnInv, NEW s \in SessionIds, StartSend(s) PROVE TurnInv'
  <1> DEFINE r == running[s].run
  <1>1. /\ Serving /\ running[s].phase = "queued"
        /\ UNCHANGED <<host, sessions, receipts, live, switching>>
    BY DEF StartSend
  <1>2. /\ r \in CommandIds /\ receipts[r] # None /\ receipts[r].session = s
        /\ handed[r] = 0
    BY <1>1 DEF TurnInv, TaskPerRunningTurn, InMap, TurnsAccepted, TurnAccepted,
               QueuedNotHanded
  <1>3. /\ running'[s].phase \in {"sending", "stopping"}
        /\ running'[s].run = r
        /\ \A t \in SessionIds \ {s} : running'[t] = running[t]
    <2>1. running[s] \in Task /\ DOMAIN running = SessionIds
      BY DEF TypeOK
    <2> QED BY <2>1 DEF StartSend, Task
  <1>4. \/ handed' = [handed EXCEPT ![r] = 1]
        \/ handed' = handed
    BY <1>2 DEF StartSend
  <1>5. \A c \in CommandIds : c # r => handed'[c] = handed[c]
    BY <1>4 DEF TypeOK
  <1>6. TaskPerRunningTurn'
    BY <1>1, <1>3 DEF TurnInv, TaskPerRunningTurn, InMap, Serving
  <1>7. HandedAtMostOnce' /\ HandedAccepted'
    <2>1. handed'[r] <= 1
      BY <1>2, <1>4 DEF TypeOK
    <2> QED BY <1>1, <1>2, <1>5, <2>1 DEF TurnInv, HandedAtMostOnce, HandedAccepted
  <1>8. QueuedNotHanded'
    <2> SUFFICES ASSUME NEW t \in SessionIds, running'[t].phase = "queued"
                 PROVE  handed'[running'[t].run] = 0
      BY DEF QueuedNotHanded
    <2>1. t # s /\ running'[t] = running[t] /\ handed[running[t].run] = 0
      BY <1>3 DEF TurnInv, QueuedNotHanded
    <2>2. /\ running[t].run \in CommandIds
          /\ receipts[running[t].run].session = t
      BY <1>1, <2>1 DEF TurnInv, TaskPerRunningTurn, InMap, TurnsAccepted,
                        TurnAccepted
    <2> QED BY <1>2, <1>5, <2>1, <2>2
  <1>9. SwitchExcludesTurns' /\ MemoryOfProcess' /\ TurnsAccepted' /\ AbsentIsBlank'
    BY <1>1 DEF TurnInv, SwitchExcludesTurns, MemoryOfProcess, TurnsAccepted,
               TurnAccepted, AbsentIsBlank, Serving
  <1>10. LiveAgrees'
    BY <1>1, <1>3 DEF TurnInv, LiveAgrees, InMap
  <1> QED BY <1>6, <1>7, <1>8, <1>9, <1>10 DEF TurnInv

LEMMA TurnPhase ==
  ASSUME TypeOK, TurnInv, NEW s \in SessionIds, EndSend(s) \/ RetryTimer(s)
  PROVE  TurnInv'
  <1>1. QuietTasks
    <2>1. running[s] \in Task /\ DOMAIN running = SessionIds
      BY DEF TypeOK
    <2>2. /\ running[s].phase \in {"sending", "timer"}
          /\ \/ running' = [running EXCEPT ![s].phase = "retrying"]
             \/ \E failed \in BOOLEAN :
                  running' = [running EXCEPT ![s] = [@ EXCEPT !.phase = "stopping",
                                                             !.error = failed]]
      BY DEF EndSend, RetryTimer
    <2>3. /\ running'[s].phase \in {"stopping", "retrying"}
          /\ running'[s].run = running[s].run
          /\ \A t \in SessionIds \ {s} : running'[t] = running[t]
      BY <2>1, <2>2 DEF Task
    <2> QED BY <2>2, <2>3 DEF QuietTasks
  <1>2. /\ KeptReceipts /\ (Serving' <=> Serving)
        /\ UNCHANGED <<sessions, live, switching, handed>>
    BY DEF EndSend, RetryTimer, KeptReceipts, Serving
  <1> QED BY <1>1, <1>2, QuietMemory, QuietStep

LEMMA TurnFailures ==
  ASSUME TypeOK, TurnInv, NEW s \in SessionIds, SettleFails(s) \/ RetryFails(s),
         running[s].phase \in {"stopping", "retrying"}
  PROVE  QuietWrite /\ QuietTasks
  <1>1. QuietTasks
    <2>1. running[s] \in Task /\ DOMAIN running = SessionIds
      BY DEF TypeOK
    <2>2. Parked \in {"timer", "abandoned"}
      BY DEF Parked
    <2>3. running' = [running EXCEPT ![s].phase = Parked]
      BY DEF SettleFails, RetryFails
    <2> QED BY <2>1, <2>2, <2>3 DEF QuietTasks, Task
  <1>2. CASE live' = [live EXCEPT ![s].timer = FALSE] /\ UNCHANGED sessions
    BY <1>1, <1>2, TimerQuiet
  <1>3. CASE FlushOnly(s)
    BY <1>1, <1>3, FlushOnlyQuiet
  <1>4. CASE /\ sessions' = [sessions EXCEPT ![s] = Latest(s)]
             /\ live' = [live EXCEPT ![s] = NotLive]
    <2>1. SameTurn(Latest(s), sessions[s])
      BY LatestKeeps
    <2>2. sessions[s].status = "absent" => Latest(s) = sessions[s]
      BY OpenIsRunning DEF Latest, Unwritten
    <2>3. ~NotLive.open
      BY DEF NotLive
    <2>4. QuietWrite
      BY <1>4, <2>1, <2>2, <2>3 DEF TurnInv, LiveAgrees, QuietWrite, SameTurn, TypeOK
    <2> QED BY <1>1, <2>4
  <1> QED BY <1>2, <1>3, <1>4 DEF SettleFails, RetryFails

(* A settlement that is written ends the turn, whichever of run and its      *)
(* retries writes it.                                                        *)
LEMMA SettledSession ==
  ASSUME TypeOK, TurnInv, NEW s \in SessionIds, Settle(s) \/ RetrySettle(s),
         ~(SettleFails(s) \/ RetryFails(s))
  PROVE  /\ sessions[s].status = "running"
         /\ sessions'[s].status \in {"idle", "interrupted"}
         /\ sessions'[s].project = sessions[s].project
         /\ sessions'[s].revision > sessions[s].revision
         /\ SameUserPart(sessions'[s], sessions[s])
         /\ running'[s] = NoTask /\ live'[s] = NotLive
         /\ \A t \in SessionIds \ {s} : /\ sessions'[t] = sessions[t]
                                        /\ live'[t] = live[t]
                                        /\ running'[t] = running[t]
  <1>1. /\ Latest(s) \in HostSession
        /\ SameTurn(Latest(s), sessions[s]) /\ SameUserPart(Latest(s), sessions[s])
        /\ Latest(s).revision \in Nat /\ Latest(s).revision >= sessions[s].revision
        /\ sessions[s].revision \in Nat
    BY LatestType, LatestKeeps DEF TypeOK, HostSession
  <1>2. sessions[s].status = "running" /\ Latest(s).run = running[s].run
    BY <1>1 DEF Settle, RetrySettle, TurnInv, TaskPerRunningTurn, InMap, SameTurn
  <1>3. PICK status \in {"idle", "interrupted"}, silent \in BOOLEAN :
          sessions' = [sessions EXCEPT ![s] =
                         Save(Settled(Latest(s), status, silent))]
    <2>1. CASE Settle(s)
      <3> DEFINE broken == host = "closing" \/ running[s].persistenceFailed
                 silent == ~broken /\ ~running[s].cancelled /\ ~running[s].error
                 status == IF broken THEN "interrupted" ELSE "idle"
      <3>1. status \in {"idle", "interrupted"} /\ silent \in BOOLEAN
        OBVIOUS
      <3>2. sessions' = [sessions EXCEPT ![s] =
                           Save(Settled(Latest(s), status, silent))]
        BY <1>2, <2>1 DEF Settle
      <3> HIDE DEF status, silent
      <3> QED BY <3>1, <3>2
    <2>2. CASE RetrySettle(s)
      <3>1. sessions' = [sessions EXCEPT ![s] =
                           Save(Settled(Latest(s), "interrupted", FALSE))]
        BY <1>1, <1>2, <2>2 DEF RetrySettle, SameTurn
      <3> QED BY <3>1
    <2> QED BY <2>1, <2>2
  <1> DEFINE new == Save(Settled(Latest(s), status, silent))
  <1>4. /\ new.status = status
        /\ new.project = sessions[s].project
        /\ new.revision > sessions[s].revision
        /\ SameUserPart(new, sessions[s])
    <2> DEFINE old == Settled(Latest(s), status, silent)
    <2>1. /\ old \in HostSession /\ old.status = status
          /\ old.project = Latest(s).project /\ old.revision = Latest(s).revision
          /\ SameUserPart(old, Latest(s))
      <3>1. status \in Status /\ silent \in BOOLEAN
        BY <1>3 DEF Status
      <3> QED BY <1>1, <3>1, SettledType, SettledKeeps
    <2> HIDE DEF old
    <2>2. /\ SameTurn(Save(old), old) /\ SameUserPart(Save(old), old)
          /\ Save(old).revision = old.revision + 1
      BY <2>1, SaveKeeps
    <2> QED BY <1>1, <2>1, <2>2 DEF old, SameTurn, SameUserPart
  <1>5. /\ sessions' = [sessions EXCEPT ![s] = new]
        /\ live' = [live EXCEPT ![s] = NotLive]
        /\ running' = [running EXCEPT ![s] = NoTask]
    BY <1>3 DEF Settle, RetrySettle
  <1> HIDE DEF new
  <1> QED BY <1>2, <1>3, <1>4, <1>5 DEF TypeOK

LEMMA TurnSettle ==
  ASSUME TypeOK, TurnInv, NEW s \in SessionIds, Settle(s) \/ RetrySettle(s)
  PROVE  TurnInv'
  <1>1. /\ KeptReceipts /\ (Serving' <=> Serving) /\ Serving
        /\ UNCHANGED <<receipts, switching, handed>>
        /\ running[s].phase \in {"stopping", "retrying"}
    BY DEF Settle, RetrySettle, KeptReceipts, Serving
  <1>2. CASE SettleFails(s) \/ RetryFails(s)
    BY <1>1, <1>2, TurnFailures, QuietStep
  <1>3. CASE ~(SettleFails(s) \/ RetryFails(s))
    <2>1. NoTask.phase = "none" /\ ~NotLive.open
      BY DEF NoTask, NotLive
    <2>2. TaskPerRunningTurn'
      BY <1>1, <1>3, <2>1, SettledSession DEF TurnInv, TaskPerRunningTurn, InMap
    <2>3. SwitchExcludesTurns' /\ TurnsAccepted' /\ AbsentIsBlank'
      BY <1>1, <1>3, SettledSession DEF TurnInv, SwitchExcludesTurns,
         TurnsAccepted, TurnAccepted, AbsentIsBlank
    <2>4. HandedAtMostOnce' /\ HandedAccepted'
      BY <1>1 DEF TurnInv, HandedAtMostOnce, HandedAccepted
    <2>5. QueuedNotHanded'
      BY <1>1, <1>3, <2>1, SettledSession DEF TurnInv, QueuedNotHanded
    <2>6. LiveAgrees' /\ MemoryOfProcess'
      BY <1>1, <1>3, <2>1, SettledSession
      DEF TurnInv, LiveAgrees, MemoryOfProcess, InMap
    <2> QED BY <2>2, <2>3, <2>4, <2>5, <2>6 DEF TurnInv
  <1> QED BY <1>2, <1>3

-----------------------------------------------------------------------------
(* Provider events and the other entry points. *)

LEMMA FailedMark ==
  ASSUME TypeOK, NEW s \in SessionIds,
         \/ running' = running
         \/ running' = [running EXCEPT ![s].persistenceFailed = InMap(s)]
  PROVE  QuietTasks
  BY DEF QuietTasks, TypeOK, Task

LEMMA EventQuiet ==
  ASSUME TypeOK, TurnInv, NEW s \in SessionIds, NEW r \in CommandIds,
         NEW e \in EventsOf(r, live[s].value), ProviderEvent(s, r, e)
  PROVE  QuietWrite
  <1> DEFINE value  == Absorb(live[s].value, e)
             events == Append(live[s].events, e)
  <1>1. live[s].open /\ live[s] \in Live /\ live[s].value \in HostSession
    BY DEF ProviderEvent, Delivers, TypeOK, Live
  <1>2. value \in HostSession /\ Agrees(value, sessions[s])
    <2>1. Agrees(live[s].value, sessions[s])
      BY <1>1 DEF TurnInv, LiveAgrees
    <2>2. Agrees(value, live[s].value) /\ value \in HostSession
      BY <1>1, AbsorbKeeps, AbsorbType
    <2> QED BY <2>1, <2>2 DEF Agrees, SameTurn, SameUserPart
  <1> HIDE DEF value, events
  <1>3. /\ SameTurn(Save(value), sessions[s])
        /\ LiveEntry(Save(value)).open /\ LiveEntry(Save(value)).value = Save(value)
    BY <1>2, SaveKeeps DEF LiveEntry, Agrees, SameTurn
  <1>4. sessions[s].status = "running"
    BY <1>1, OpenIsRunning
  <1>5. \/ /\ \E t \in BOOLEAN :
                live' = [live EXCEPT ![s] = [@ EXCEPT !.value = value,
                                                      !.events = events,
                                                      !.timer = t]]
            /\ UNCHANGED sessions
         \/ /\ sessions' = [sessions EXCEPT ![s] = Save(value)]
            /\ live' = [live EXCEPT ![s] = LiveEntry(Save(value))]
    BY DEF ProviderEvent, value, events
  <1>6. CASE /\ sessions' = [sessions EXCEPT ![s] = Save(value)]
             /\ live' = [live EXCEPT ![s] = LiveEntry(Save(value))]
    BY <1>1, <1>3, <1>4, <1>6
    DEF TurnInv, LiveAgrees, QuietWrite, Agrees, SameTurn, SameUserPart, TypeOK
  <1>7. ASSUME NEW t \in BOOLEAN, UNCHANGED sessions,
               live' = [live EXCEPT ![s] = [@ EXCEPT !.value = value,
                                                     !.events = events,
                                                     !.timer = t]]
        PROVE  QuietWrite
    <2>1. live'[s].open /\ live'[s].value = value
      BY <1>1, <1>7 DEF TypeOK, Live
    <2>2. \A u \in SessionIds \ {s} : live'[u] = live[u]
      BY <1>7 DEF TypeOK
    <2> QED BY <1>1, <1>2, <1>7, <2>1, <2>2
            DEF TurnInv, LiveAgrees, QuietWrite, SameTurn
  <1> QED BY <1>5, <1>6, <1>7

LEMMA TurnEvent ==
  ASSUME TypeOK, TurnInv, NEW s \in SessionIds, NEW r \in CommandIds,
         NEW e \in EventsOf(r, live[s].value), ProviderEvent(s, r, e)
  PROVE  TurnInv'
  <1>1. QuietTasks
    BY FailedMark DEF ProviderEvent
  <1>2. /\ KeptReceipts /\ (Serving' <=> Serving)
        /\ UNCHANGED <<switching, handed>>
    BY DEF ProviderEvent, KeptReceipts, Serving
  <1> QED BY <1>1, <1>2, EventQuiet, QuietStep

LEMMA RetitledKeeps ==
  ASSUME NEW v \in HostSession, NEW title
  PROVE  /\ SameTurn([v EXCEPT !.title = title], v)
         /\ [v EXCEPT !.title = title].revision = v.revision
         /\ [v EXCEPT !.title = title].title = title
  BY DEF HostSession, SameTurn

LEMMA OtherQuiet ==
  ASSUME TypeOK, TurnInv, NEW s \in SessionIds,
         \/ ScheduledFlush(s)
         \/ TitleArrives(s)
         \/ \E title \in {"renamed", sessions[s].title} : UpdateSession(s, title)
  PROVE  QuietWrite
  <1>1. ASSUME NEW title \in TitleKind, Exists(sessions[s]),
               FlushAndSave(s, [Latest(s) EXCEPT !.title = title])
        PROVE  QuietWrite
    <2>1. [Latest(s) EXCEPT !.title = title] \in HostSession
      BY LatestType, TitleType
    <2>2. SameTurn([Latest(s) EXCEPT !.title = title], sessions[s])
      BY LatestType, LatestKeeps, RetitledKeeps DEF SameTurn
    <2> QED BY <1>1, <2>1, <2>2, FlushAndSaveQuiet DEF Exists
  <1>2. CASE ScheduledFlush(s)
    BY <1>2, FlushOnlyQuiet, TimerQuiet DEF ScheduledFlush, FlushFails
  <1>3. CASE TitleArrives(s)
    BY <1>1, <1>3, FlushOnlyQuiet, TimerQuiet, QuietMemory
    DEF TitleArrives, FlushFails, TitleKind
  <1>4. CASE \E title \in {"renamed", sessions[s].title} : UpdateSession(s, title)
    <2>1. sessions[s].title \in TitleKind
      BY DEF TypeOK, HostSession
    <2> QED BY <1>1, <1>4, <2>1, FlushOnlyQuiet, TimerQuiet
            DEF UpdateSession, FlushFails, TitleKind
  <1> QED BY <1>2, <1>3, <1>4

LEMMA TurnOther ==
  ASSUME TypeOK, TurnInv, NEW s \in SessionIds,
         \/ ScheduledFlush(s)
         \/ TitleArrives(s)
         \/ \E title \in {"renamed", sessions[s].title} : UpdateSession(s, title)
  PROVE  TurnInv'
  <1>1. QuietTasks
    BY FailedMark DEF ScheduledFlush, TitleArrives, UpdateSession
  <1>2. /\ KeptReceipts /\ (Serving' <=> Serving)
        /\ UNCHANGED <<switching, handed>>
    BY DEF ScheduledFlush, TitleArrives, UpdateSession, KeptReceipts, Serving
  <1> QED BY <1>1, <1>2, OtherQuiet, QuietStep

LEMMA TurnDelete ==
  ASSUME TypeOK, TurnInv, NEW s \in SessionIds, DeleteSession(s) PROVE TurnInv'
  <1>1. /\ sessions[s].status # "running" /\ Serving
        /\ UNCHANGED <<host, receipts, running, live, switching, handed>>
    BY DEF DeleteSession
  <1>2. ~live[s].open
    BY <1>1, OpenIsRunning
  <1>3. /\ sessions'[s].status = "deleted"
        /\ \A t \in SessionIds \ {s} : sessions'[t] = sessions[t]
    <2>1. sessions[s] \in HostSession
      BY DEF TypeOK
    <2> QED BY <2>1 DEF DeleteSession, TypeOK, HostSession
  <1>4. TaskPerRunningTurn' /\ SwitchExcludesTurns'
    BY <1>1, <1>3 DEF TurnInv, TaskPerRunningTurn, SwitchExcludesTurns, InMap, Serving
  <1>5. HandedAtMostOnce' /\ HandedAccepted' /\ QueuedNotHanded'
    BY <1>1 DEF TurnInv, HandedAtMostOnce, HandedAccepted, QueuedNotHanded
  <1>6. LiveAgrees' /\ MemoryOfProcess'
    BY <1>1, <1>2, <1>3 DEF TurnInv, LiveAgrees, MemoryOfProcess, InMap, Serving
  <1>7. TurnsAccepted' /\ AbsentIsBlank'
    BY <1>1, <1>3 DEF TurnInv, TurnsAccepted, TurnAccepted, AbsentIsBlank
  <1> QED BY <1>4, <1>5, <1>6, <1>7 DEF TurnInv

LEMMA TurnSwitch ==
  ASSUME TypeOK, TurnInv, NEW p \in Projects, BeginSwitch(p) \/ EndSwitch(p)
  PROVE  TurnInv'
  <1>1. /\ Serving
        /\ UNCHANGED <<host, sessions, receipts, running, live, handed>>
    BY DEF BeginSwitch, EndSwitch, Serving
  <1>2. SwitchExcludesTurns'
    BY DEF TurnInv, SwitchExcludesTurns, BeginSwitch, EndSwitch
  <1> QED BY <1>1, <1>2 DEF TurnInv, TaskPerRunningTurn, HandedAtMostOnce,
          LiveAgrees, MemoryOfProcess, TurnsAccepted, TurnAccepted,
          HandedAccepted, QueuedNotHanded, AbsentIsBlank, InMap, Serving

-----------------------------------------------------------------------------
(* The process. *)

(* Crash and Exit: what was in memory is gone. *)
LEMMA TurnDown ==
  ASSUME TypeOK, TurnInv, Crash \/ Exit PROVE TurnInv'
  <1>1. /\ host' = "down" /\ switching' = {}
        /\ \A s \in SessionIds : running'[s] = NoTask /\ live'[s] = NotLive
        /\ UNCHANGED <<sessions, receipts, handed>>
    BY DEF Crash, Exit, LoseMemory
  <1>2. NoTask.phase = "none" /\ ~NotLive.open
    BY DEF NoTask, NotLive
  <1>3. TaskPerRunningTurn' /\ SwitchExcludesTurns'
    BY <1>1 DEF TaskPerRunningTurn, SwitchExcludesTurns, Serving
  <1>4. LiveAgrees' /\ MemoryOfProcess' /\ QueuedNotHanded'
    BY <1>1, <1>2 DEF LiveAgrees, MemoryOfProcess, QueuedNotHanded, InMap
  <1>5. HandedAtMostOnce' /\ HandedAccepted' /\ TurnsAccepted' /\ AbsentIsBlank'
    BY <1>1 DEF TurnInv, HandedAtMostOnce, HandedAccepted, TurnsAccepted,
               TurnAccepted, AbsentIsBlank
  <1> QED BY <1>3, <1>4, <1>5 DEF TurnInv

LEMMA TurnBoot ==
  ASSUME TypeOK, TurnInv, Boot \/ Listen PROVE TurnInv'
  <1>1. /\ ~Serving
        /\ UNCHANGED <<sessions, receipts, running, live, switching, handed>>
    BY DEF Boot, Listen, Serving
  <1>2. /\ \A s \in SessionIds : ~InMap(s)
        /\ switching = {}
    BY <1>1 DEF TurnInv, MemoryOfProcess
  <1>3. TaskPerRunningTurn'
    BY <1>1, <1>2 DEF Boot, Listen, TaskPerRunningTurn, Serving, InMap
  <1>4. MemoryOfProcess'
    BY <1>1, <1>2 DEF MemoryOfProcess, InMap
  <1> QED BY <1>1, <1>3, <1>4 DEF TurnInv, SwitchExcludesTurns, HandedAtMostOnce,
          LiveAgrees, TurnsAccepted, TurnAccepted, HandedAccepted,
          QueuedNotHanded, AbsentIsBlank, InMap

LEMMA TurnClose ==
  ASSUME TypeOK, TurnInv, Close PROVE TurnInv'
  <1>1. QuietTasks
    <2>1. \A s \in SessionIds :
            /\ running[s] \in Task
            /\ \/ running'[s] = running[s]
               \/ /\ running[s].phase = "timer"
                  /\ running'[s] = [running[s] EXCEPT !.phase = "abandoned"]
      BY DEF Close, TypeOK
    <2> QED BY <2>1 DEF QuietTasks, Task
  <1>2. /\ KeptReceipts /\ (Serving' <=> Serving)
        /\ UNCHANGED <<sessions, live, switching, handed>>
    BY DEF Close, KeptReceipts, Serving
  <1> QED BY <1>1, <1>2, QuietMemory, QuietStep

LEMMA TurnRecover ==
  ASSUME TypeOK, TurnInv, NEW s \in SessionIds, Recover(s) PROVE TurnInv'
  <1>1. /\ ~Serving /\ ~Serving'
        /\ UNCHANGED <<receipts, running, live, switching, handed>>
    BY DEF Recover, Serving
  <1>2. ~live[s].open
    BY <1>1 DEF TurnInv, LiveAgrees, MemoryOfProcess
  <1>3. /\ sessions'[s].status \in {"running", "interrupted"}
        /\ sessions'[s].status = "running" => sessions'[s] = sessions[s]
        /\ \A t \in SessionIds \ {s} : sessions'[t] = sessions[t]
        /\ sessions'[s].project = sessions[s].project
    <2>1. sessions[s] \in HostSession /\ DOMAIN sessions = SessionIds
      BY DEF TypeOK
    <2> DEFINE old == Settled(sessions[s], "interrupted", FALSE)
    <2>2. /\ old \in HostSession /\ old.status = "interrupted"
          /\ old.project = sessions[s].project
      BY <2>1, SettledType, SettledKeeps DEF Status
    <2> HIDE DEF old
    <2>3. /\ Save(old).status = "interrupted"
          /\ Save(old).project = sessions[s].project
      BY <2>2, SaveKeeps DEF SameTurn
    <2>4. /\ sessions[s].status = "running"
          /\ sessions' = sessions \/ sessions' = [sessions EXCEPT ![s] = Save(old)]
      BY DEF Recover, old
    <2> QED BY <2>1, <2>3, <2>4
  <1>4. TaskPerRunningTurn' /\ SwitchExcludesTurns'
    BY <1>1, <1>3 DEF TurnInv, TaskPerRunningTurn, SwitchExcludesTurns
  <1>5. LiveAgrees' /\ MemoryOfProcess'
    BY <1>1, <1>2, <1>3 DEF TurnInv, LiveAgrees, MemoryOfProcess, InMap
  <1>6. TurnsAccepted' /\ AbsentIsBlank'
    BY <1>1, <1>3 DEF TurnInv, TurnsAccepted, TurnAccepted, AbsentIsBlank
  <1>7. HandedAtMostOnce' /\ HandedAccepted' /\ QueuedNotHanded'
    BY <1>1 DEF TurnInv, HandedAtMostOnce, HandedAccepted, QueuedNotHanded
  <1> QED BY <1>4, <1>5, <1>6, <1>7 DEF TurnInv

-----------------------------------------------------------------------------
(* The invariant and what follows from it. *)

LEMMA TurnInit == Init => TurnInv
  <1> SUFFICES ASSUME Init PROVE TurnInv
    OBVIOUS
  <1>1. \A s \in SessionIds :
          sessions[s] = AbsentSession \/ sessions[s].status = "idle"
    <2>1. \A p \in Projects : Save(NewSession(p)).status = "idle"
      BY NewSessionType, SaveKeeps DEF NewSession, AbsentSession, SameTurn
    <2> QED BY <2>1 DEF Init
  <1>2. /\ AbsentSession.status = "absent"
        /\ NoTask.phase = "none" /\ ~NotLive.open
    BY DEF AbsentSession, NoTask, NotLive
  <1> QED BY <1>1, <1>2 DEF Init, TurnInv, TaskPerRunningTurn, SwitchExcludesTurns,
          HandedAtMostOnce, LiveAgrees, MemoryOfProcess, TurnsAccepted,
          HandedAccepted, QueuedNotHanded, AbsentIsBlank, InMap, Serving

LEMMA TurnNext == TypeOK /\ TurnInv /\ [Next]_vars => TurnInv'
  <1> SUFFICES ASSUME TypeOK, TurnInv, [Next]_vars PROVE TurnInv'
    OBVIOUS
  <1>1. CASE UNCHANGED vars
    BY <1>1 DEF vars, TurnInv, TaskPerRunningTurn, SwitchExcludesTurns,
       HandedAtMostOnce, LiveAgrees, MemoryOfProcess, TurnsAccepted, TurnAccepted,
       HandedAccepted, QueuedNotHanded, AbsentIsBlank, InMap, Serving
  <1>2. CASE \E c \in CreateCommand : Create(c)
    BY <1>2, TurnCreate
  <1>3. CASE \E c \in SendCommand \cup CompactCommand : Start(c)
    BY <1>3, TurnStart
  <1>4. CASE \/ \E c \in EditCommand \cup RemoveCommand : Edit(c)
             \/ \E c \in CancelCommand : Cancel(c)
             \/ \E c \in ReplyCommand : Reply(c)
    BY <1>4, TurnEdit DEF SessionCommand
  <1>5. CASE \E c \in SessionCommand : Refuse(c)
    BY <1>5, TurnRefuse
  <1>6. CASE \E s \in SessionIds :
               \/ StartSend(s) \/ EndSend(s) \/ Settle(s)
               \/ RetryTimer(s) \/ RetrySettle(s) \/ ScheduledFlush(s)
               \/ DeleteSession(s) \/ TitleArrives(s) \/ Recover(s)
    BY <1>6, TurnStartSend, TurnPhase, TurnSettle, TurnOther, TurnDelete, TurnRecover
  <1>7. CASE \E s \in SessionIds, r \in CommandIds :
               \E e \in EventsOf(r, live[s].value) : ProviderEvent(s, r, e)
    BY <1>7, TurnEvent
  <1>8. CASE \E s \in SessionIds : \E title \in {"renamed", sessions[s].title} :
               UpdateSession(s, title)
    BY <1>8, TurnOther
  <1>9. CASE \E p \in Projects : BeginSwitch(p) \/ EndSwitch(p)
    BY <1>9, TurnSwitch
  <1>10. CASE Crash \/ Boot \/ Listen \/ Close \/ Exit
    BY <1>10, TurnDown, TurnBoot, TurnClose
  <1> QED BY <1>1, <1>2, <1>3, <1>4, <1>5, <1>6, <1>7, <1>8, <1>9, <1>10 DEF Next

(* Every reachable state satisfies the inductive invariant of the turns.       *)
THEOREM TurnInvariant == Spec => [](TypeOK /\ TurnInv)
  <1>1. Init => TypeOK /\ TurnInv
    BY TypeInit, TurnInit
  <1>2. TypeOK /\ TurnInv /\ [Next]_vars => (TypeOK /\ TurnInv)'
    BY TypeNext, TurnNext
  <1> QED BY <1>1, <1>2, PTL DEF Spec

(* While the host serves, the sessions that are running in the database are  *)
(* those whose turn has a task in memory, whatever failed and restarted.     *)
THEOREM TasksMatchSessions == Spec => []TaskPerRunningTurn
  <1>1. TypeOK /\ TurnInv => TaskPerRunningTurn
    BY DEF TurnInv
  <1> QED BY <1>1, TurnInvariant, PTL

(* A branch is never switched under a running turn.                          *)
THEOREM SwitchesExcludeTurns == Spec => []SwitchExcludesTurns
  <1>1. TypeOK /\ TurnInv => SwitchExcludesTurns
    BY DEF TurnInv
  <1> QED BY <1>1, TurnInvariant, PTL

(* No command's prompt goes to a provider twice: not after a duplicate of    *)
(* the command, a failed write, a crash or a restart.                        *)
THEOREM PromptsHandedOnce == Spec => []HandedAtMostOnce
  <1>1. TypeOK /\ TurnInv => HandedAtMostOnce
    BY DEF TurnInv
  <1> QED BY <1>1, TurnInvariant, PTL

-----------------------------------------------------------------------------
(* Writes of a session. *)

LaterRevision(v, w) == w = v \/ w.revision > v.revision \/ w.status = "deleted"
TitleStays(v, w) ==
    v.title = "renamed" => \/ w.title = "renamed"
                           \/ v.turns = <<>> /\ w.drafts # {}

GoodWrite ==
    \A s \in SessionIds : /\ LaterRevision(sessions[s], sessions'[s])
                          /\ TitleStays(sessions[s], sessions'[s])

LEMMA OneWrite ==
  ASSUME TypeOK, NEW s \in SessionIds, NEW w,
         sessions' = [sessions EXCEPT ![s] = w],
         LaterRevision(sessions[s], w), TitleStays(sessions[s], w)
  PROVE  GoodWrite
  BY DEF GoodWrite, LaterRevision, TitleStays, TypeOK

LEMMA NoWrite == ASSUME UNCHANGED sessions PROVE GoodWrite
  BY DEF GoodWrite, LaterRevision, TitleStays

LEMMA GoodLatest ==
  ASSUME TypeOK, TurnInv, NEW s \in SessionIds,
         sessions' = [sessions EXCEPT ![s] = Latest(s)]
  PROVE  GoodWrite
  <1>1. sessions[s].revision \in Nat
    BY DEF TypeOK, HostSession
  <1>2. /\ LaterRevision(sessions[s], Latest(s))
        /\ TitleStays(sessions[s], Latest(s))
    BY <1>1, LatestKeeps DEF LaterRevision, TitleStays, SameUserPart
  <1> QED BY <1>2, OneWrite

LEMMA GoodSave ==
  ASSUME TypeOK, NEW s \in SessionIds, NEW v \in HostSession,
         v.revision >= sessions[s].revision, TitleStays(sessions[s], v),
         sessions' = [sessions EXCEPT ![s] = Save(v)]
  PROVE  GoodWrite
  <1>1. sessions[s].revision \in Nat /\ v.revision \in Nat
    BY DEF TypeOK, HostSession
  <1>2. /\ LaterRevision(sessions[s], Save(v))
        /\ TitleStays(sessions[s], Save(v))
    BY <1>1, SaveKeeps DEF LaterRevision, TitleStays, SameUserPart
  <1> QED BY <1>2, OneWrite

LEMMA GoodCreate ==
  ASSUME TypeOK, TurnInv, NEW c \in CreateCommand, Create(c) PROVE GoodWrite
  <1> PICK s \in SessionIds :
          /\ sessions[s].status = "absent"
          /\ sessions' = [sessions EXCEPT ![s] = Save(NewSession(c.project))]
    BY DEF Create
  <1>1. sessions[s] = AbsentSession
    BY DEF TurnInv, AbsentIsBlank
  <1>2. /\ NewSession(c.project) \in HostSession
        /\ NewSession(c.project).revision = 0
    BY NewSessionType DEF CreateCommand, NewSession, AbsentSession
  <1>3. sessions[s].revision = 0 /\ sessions[s].title = "placeholder"
    BY <1>1 DEF AbsentSession
  <1> DEFINE new == NewSession(c.project)
  <1>4. new.revision >= sessions[s].revision /\ TitleStays(sessions[s], new)
    BY <1>2, <1>3 DEF TitleStays
  <1>5. new \in HostSession /\ sessions' = [sessions EXCEPT ![s] = Save(new)]
    BY <1>2
  <1> HIDE DEF new
  <1> QED BY <1>4, <1>5, GoodSave

LEMMA GoodStart ==
  ASSUME TypeOK, TurnInv, NEW c \in SendCommand \cup CompactCommand, Start(c)
  PROVE  GoodWrite
  BY StartedSession DEF GoodWrite, LaterRevision, TitleStays

LEMMA GoodEdit ==
  ASSUME TypeOK, TurnInv, NEW c \in SessionCommand, ~StartsTurn(c),
         FlushAndSave(c.session, Applied(c, Latest(c.session)))
  PROVE  GoodWrite
  <1> DEFINE s == c.session
  <1>1. s \in SessionIds
    BY SessionCommandType
  <1>2. Latest(s) \in HostSession /\ Applied(c, Latest(s)) \in HostSession
    BY <1>1, LatestType, AppliedType
  <1>3. /\ Applied(c, Latest(s)).revision >= sessions[s].revision
        /\ TitleStays(sessions[s], Applied(c, Latest(s)))
    BY <1>1, <1>2, LatestKeeps, AppliedKeeps DEF TitleStays, SameUserPart
  <1> QED BY <1>1, <1>2, <1>3, GoodSave DEF FlushAndSave

LEMMA GoodRetitled ==
  ASSUME TypeOK, TurnInv, NEW s \in SessionIds, NEW title \in TitleKind,
         FlushAndSave(s, [Latest(s) EXCEPT !.title = title]),
         sessions[s].title = "renamed" => title = "renamed"
  PROVE  GoodWrite
  <1>1. /\ [Latest(s) EXCEPT !.title = title] \in HostSession
        /\ [Latest(s) EXCEPT !.title = title].revision >= sessions[s].revision
        /\ [Latest(s) EXCEPT !.title = title].title = title
    BY LatestType, LatestKeeps, TitleType, RetitledKeeps
  <1> QED BY <1>1, GoodSave DEF FlushAndSave, TitleStays

LEMMA GoodEvent ==
  ASSUME TypeOK, TurnInv, NEW s \in SessionIds, NEW r \in CommandIds,
         NEW e \in EventsOf(r, live[s].value), ProviderEvent(s, r, e)
  PROVE  GoodWrite
  <1>1. live[s].value \in HostSession /\ Agrees(live[s].value, sessions[s])
    BY DEF ProviderEvent, Delivers, TurnInv, LiveAgrees, TypeOK, Live
  <1> DEFINE value == Absorb(live[s].value, e)
  <1>2. value \in HostSession /\ Agrees(value, live[s].value)
    BY <1>1, AbsorbType, AbsorbKeeps
  <1>3. \/ UNCHANGED sessions
        \/ sessions' = [sessions EXCEPT ![s] = Save(value)]
    BY DEF ProviderEvent
  <1> HIDE DEF value
  <1>4. value.revision >= sessions[s].revision /\ TitleStays(sessions[s], value)
    BY <1>1, <1>2 DEF Agrees, SameUserPart, TitleStays, HostSession
  <1> QED BY <1>2, <1>3, <1>4, NoWrite, GoodSave

LEMMA GoodRecover ==
  ASSUME TypeOK, NEW s \in SessionIds, Recover(s) PROVE GoodWrite
  <1> DEFINE old == Settled(sessions[s], "interrupted", FALSE)
  <1>1. sessions[s] \in HostSession /\ sessions[s].revision \in Nat
    BY DEF TypeOK, HostSession
  <1>2. /\ old \in HostSession /\ old.revision = sessions[s].revision
        /\ SameUserPart(old, sessions[s])
    BY <1>1, SettledType, SettledKeeps DEF Status
  <1>3. UNCHANGED sessions \/ sessions' = [sessions EXCEPT ![s] = Save(old)]
    BY DEF Recover
  <1> HIDE DEF old
  <1>4. old.revision >= sessions[s].revision /\ TitleStays(sessions[s], old)
    BY <1>1, <1>2 DEF SameUserPart, TitleStays
  <1> QED BY <1>2, <1>3, <1>4, NoWrite, GoodSave

LEMMA GoodDelete ==
  ASSUME TypeOK, NEW s \in SessionIds, DeleteSession(s) PROVE GoodWrite
  <1>1. sessions[s] \in HostSession
    BY DEF TypeOK
  <1> DEFINE w == [sessions[s] EXCEPT !.status = "deleted"]
  <1>2. /\ w.status = "deleted" /\ w.title = sessions[s].title
    BY <1>1 DEF HostSession
  <1>3. sessions' = [sessions EXCEPT ![s] = w]
    BY DEF DeleteSession
  <1> HIDE DEF w
  <1> QED BY <1>2, <1>3, OneWrite DEF LaterRevision, TitleStays

LEMMA GoodSettle ==
  ASSUME TypeOK, TurnInv, NEW s \in SessionIds, Settle(s) \/ RetrySettle(s)
  PROVE  GoodWrite
  <1>1. CASE SettleFails(s) \/ RetryFails(s)
    <2>1. UNCHANGED sessions \/ sessions' = [sessions EXCEPT ![s] = Latest(s)]
      BY <1>1 DEF SettleFails, RetryFails, FlushOnly
    <2> QED BY <2>1, NoWrite, GoodLatest
  <1>2. CASE ~(SettleFails(s) \/ RetryFails(s))
    BY <1>2, SettledSession DEF GoodWrite, LaterRevision, TitleStays, SameUserPart
  <1> QED BY <1>1, <1>2

LEMMA GoodNext == TypeOK /\ TurnInv /\ [Next]_vars => GoodWrite
  <1> SUFFICES ASSUME TypeOK, TurnInv, [Next]_vars PROVE GoodWrite
    OBVIOUS
  <1>1. CASE UNCHANGED vars
    BY <1>1, NoWrite DEF vars
  <1>2. CASE \/ \E c \in CreateCommand : Create(c)
             \/ \E c \in SendCommand \cup CompactCommand : Start(c)
    BY <1>2, GoodCreate, GoodStart
  <1>3. CASE \/ \E c \in EditCommand \cup RemoveCommand : Edit(c)
             \/ \E c \in CancelCommand : Cancel(c)
             \/ \E c \in ReplyCommand : Reply(c)
    <2>1. PICK c \in SessionCommand :
            /\ c \in EditCommand \cup RemoveCommand \cup CancelCommand \cup ReplyCommand
            /\ FlushAndSave(c.session, Applied(c, Latest(c.session)))
      BY <1>3 DEF Edit, Cancel, Reply, SessionCommand
    <2>2. ~StartsTurn(c)
      BY <2>1 DEF StartsTurn, EditCommand, RemoveCommand, CancelCommand,
                  ReplyCommand, OfType
    <2> QED BY <2>1, <2>2, GoodEdit
  <1>4. CASE \E c \in SessionCommand : Refuse(c)
    <2>1. PICK c \in SessionCommand : Refuse(c)
      BY <1>4
    <2>2. c.session \in SessionIds
      BY SessionCommandType
    <2> QED BY <2>1, <2>2, NoWrite, GoodLatest DEF Refuse, FlushOnly, FlushFails
  <1>5. ASSUME NEW s \in SessionIds,
               \/ StartSend(s) \/ EndSend(s) \/ Settle(s)
               \/ RetryTimer(s) \/ RetrySettle(s) \/ ScheduledFlush(s)
               \/ DeleteSession(s) \/ TitleArrives(s) \/ Recover(s)
        PROVE  GoodWrite
    <2>1. CASE StartSend(s) \/ EndSend(s) \/ RetryTimer(s)
      BY <2>1, NoWrite DEF StartSend, EndSend, RetryTimer
    <2>2. CASE ScheduledFlush(s)
      BY <2>2, NoWrite, GoodLatest DEF ScheduledFlush, FlushOnly, FlushFails
    <2>3. CASE TitleArrives(s)
      <3>1. CASE UNCHANGED sessions \/ FlushOnly(s)
        BY <3>1, NoWrite, GoodLatest DEF FlushOnly
      <3>2. CASE /\ Latest(s).title = "prompt"
                 /\ FlushAndSave(s, [Latest(s) EXCEPT !.title = "generated"])
        <4>1. sessions[s].title = "prompt"
          BY <3>2, LatestKeeps DEF SameUserPart
        <4> QED BY <3>2, <4>1, GoodRetitled DEF TitleKind
      <3> QED BY <2>3, <3>1, <3>2 DEF TitleArrives, FlushFails
    <2> QED BY <1>5, <2>1, <2>2, <2>3, GoodSettle, GoodDelete, GoodRecover
  <1>6. CASE \E s \in SessionIds, r \in CommandIds :
               \E e \in EventsOf(r, live[s].value) : ProviderEvent(s, r, e)
    BY <1>6, GoodEvent
  <1>7. CASE \E s \in SessionIds : \E title \in {"renamed", sessions[s].title} :
               UpdateSession(s, title)
    <2>1. PICK s \in SessionIds :
            \E title \in {"renamed", sessions[s].title} : UpdateSession(s, title)
      BY <1>7
    <2>2. PICK title \in {"renamed", sessions[s].title} : UpdateSession(s, title)
      BY <2>1
    <2>3. sessions[s].title \in TitleKind
      BY DEF TypeOK, HostSession
    <2>4. CASE FlushAndSave(s, [Latest(s) EXCEPT !.title = title])
      BY <2>2, <2>3, <2>4, GoodRetitled DEF TitleKind
    <2>5. CASE FlushOnly(s) \/ FlushFails(s)
      BY <2>5, NoWrite, GoodLatest DEF FlushOnly, FlushFails
    <2> QED BY <2>2, <2>4, <2>5 DEF UpdateSession
  <1>8. CASE \/ \E p \in Projects : BeginSwitch(p) \/ EndSwitch(p)
             \/ Crash \/ Boot \/ Listen \/ Close \/ Exit
    BY <1>8, NoWrite DEF BeginSwitch, EndSwitch, Crash, Boot, Listen, Close, Exit
  <1> QED BY <1>1, <1>2, <1>3, <1>4, <1>5, <1>6, <1>7, <1>8 DEF Next

(* A stored session never changes under the revision a client may hold.      *)
THEOREM RevisionsTellChanges == Spec => ChangesTakeRevisions
  <1>1. TypeOK /\ TurnInv /\ [Next]_vars =>
          [\A s \in SessionIds :
             \/ sessions'[s] = sessions[s]
             \/ sessions'[s].revision > sessions[s].revision
             \/ sessions'[s].status = "deleted"]_vars
    BY GoodNext DEF GoodWrite, LaterRevision
  <1> QED BY <1>1, TurnInvariant, PTL DEF Spec, ChangesTakeRevisions

(* No generated title, flush or settlement replaces a title of the user's.   *)
THEOREM UserTitlesStay == Spec => UserTitleIsKept
  <1>1. TypeOK /\ TurnInv /\ [Next]_vars =>
          [\A s \in SessionIds :
             sessions[s].title = "renamed" =>
               \/ sessions'[s].title = "renamed"
               \/ sessions[s].turns = <<>> /\ sessions'[s].drafts # {}]_vars
    BY GoodNext DEF GoodWrite, TitleStays
  <1> QED BY <1>1, TurnInvariant, PTL DEF Spec, UserTitleIsKept
-----------------------------------------------------------------------------
(* The ledger of turns. *)

LedgerUnchanged == UNCHANGED <<LedgerOpen, LedgerAccepted, LedgerHanded>>

(* New receipts of a step belong to commands that start no turn.             *)
NothingAccepted ==
    \A c \in CommandIds :
        \/ receipts'[c] = receipts[c]
        \/ receipts[c] = None /\ ~StartsTurn(receipts'[c].command)

LEMMA LedgerQuiet ==
  ASSUME QuietWrite, NothingAccepted, UNCHANGED handed
  PROVE  LedgerUnchanged
  <1>1. UNCHANGED LedgerOpen
    BY DEF QuietWrite, SameTurn, LedgerOpen
  <1>2. UNCHANGED LedgerAccepted
    BY DEF NothingAccepted, LedgerAccepted
  <1>3. UNCHANGED LedgerHanded
    BY DEF LedgerHanded
  <1> QED BY <1>1, <1>2, <1>3 DEF LedgerUnchanged

LEMMA PlainReceipt ==
  ASSUME TypeOK, NEW c \in Command, ~StartsTurn(c), ~Known(c), NEW s,
         RecordReceipt(c, s)
  PROVE  NothingAccepted
  <1> DEFINE new == [command |-> c, session |-> s,
                     revision |-> sessions'[s].revision]
  <1>1. new.command = c
    OBVIOUS
  <1> HIDE DEF new
  <1>2. receipts' = [receipts EXCEPT ![c.id] = new] /\ DOMAIN receipts = CommandIds
    BY DEF RecordReceipt, new, TypeOK
  <1> QED BY <1>1, <1>2 DEF NothingAccepted, Known

LEMMA LedgerCreate ==
  ASSUME TypeOK, TurnInv, NEW c \in CreateCommand, Create(c) PROVE LedgerUnchanged
  <1> PICK s \in SessionIds :
          /\ sessions[s].status = "absent"
          /\ sessions' = [sessions EXCEPT ![s] = Save(NewSession(c.project))]
          /\ RecordReceipt(c, s)
    BY DEF Create
  <1>1. c \in Command /\ ~StartsTurn(c) /\ ~Known(c)
    BY DEF Command, CreateCommand, OfType, StartsTurn, Create
  <1>2. NothingAccepted
    BY <1>1, PlainReceipt
  <1>3. /\ sessions'[s].status = "idle"
        /\ \A t \in SessionIds \ {s} : sessions'[t] = sessions[t]
    BY DEF NewSession, AbsentSession, Save, TypeOK
  <1>4. UNCHANGED LedgerOpen
    BY <1>3 DEF LedgerOpen
  <1>5. UNCHANGED LedgerAccepted
    BY <1>2 DEF NothingAccepted, LedgerAccepted
  <1>6. UNCHANGED LedgerHanded
    BY DEF LedgerHanded, Create
  <1> QED BY <1>4, <1>5, <1>6 DEF LedgerUnchanged

LEMMA LedgerStart ==
  ASSUME TypeOK, TurnInv, NEW c \in SendCommand \cup CompactCommand, Start(c)
  PROVE  Ledger!Accept(c.session, c.id)
  <1> DEFINE s == c.session
  <1>1. /\ s \in SessionIds /\ c.id \in CommandIds /\ StartsTurn(c)
        /\ sessions[s].status # "running"
        /\ sessions'[s].status = "running" /\ sessions'[s].run = c.id
        /\ \A t \in SessionIds \ {s} : sessions'[t] = sessions[t]
    BY StartedSession
  <1>2. c \in Command /\ ~Known(c) /\ RecordReceipt(c, s) /\ UNCHANGED handed
    BY DEF Start, Command, SessionCommand
  <1>3. sessions' \in [SessionIds -> HostSession]
    BY TypeStart DEF TypeOK
  <1>4. /\ receipts[c.id] = None
        /\ receipts'[c.id] # None /\ receipts'[c.id].command = c
        /\ \A d \in CommandIds : d # c.id => receipts'[d] = receipts[d]
    BY <1>1, <1>2, <1>3, ReceiptKept DEF Known
  <1>5. LedgerOpen[s] = None
    BY <1>1 DEF LedgerOpen
  <1>6. LedgerOpen' = [LedgerOpen EXCEPT ![s] = c.id]
    BY <1>1 DEF LedgerOpen
  <1>7. c.id \notin LedgerAccepted /\ LedgerAccepted' = LedgerAccepted \cup {c.id}
    BY <1>1, <1>4 DEF LedgerAccepted
  <1>8. UNCHANGED LedgerHanded
    BY <1>2 DEF LedgerHanded
  <1> QED BY <1>5, <1>6, <1>7, <1>8 DEF Ledger!Accept

LEMMA LedgerStartSend ==
  ASSUME TypeOK, TurnInv, NEW s \in SessionIds, StartSend(s)
  PROVE  LedgerUnchanged \/ Ledger!Hand(s)
  <1> DEFINE r == running[s].run
  <1>1. /\ Serving /\ running[s].phase = "queued"
        /\ UNCHANGED <<sessions, receipts>>
    BY DEF StartSend
  <1>2. /\ sessions[s].status = "running" /\ sessions[s].run = r
        /\ r \in CommandIds /\ handed[r] = 0
    BY <1>1 DEF TurnInv, TaskPerRunningTurn, InMap, TurnsAccepted, TurnAccepted,
               QueuedNotHanded
  <1>3. UNCHANGED <<LedgerOpen, LedgerAccepted>>
    BY <1>1 DEF LedgerOpen, LedgerAccepted
  <1>4. CASE handed' = handed
    BY <1>3, <1>4 DEF LedgerUnchanged, LedgerHanded
  <1>5. CASE handed' = [handed EXCEPT ![r] = @ + 1]
    <2>1. handed'[r] = 1 /\ \A c \in CommandIds \ {r} : handed'[c] = handed[c]
      BY <1>2, <1>5 DEF TypeOK
    <2>2. r \notin LedgerHanded /\ LedgerHanded' = LedgerHanded \cup {r}
      BY <1>2, <2>1 DEF LedgerHanded
    <2>3. LedgerOpen[s] = r /\ r # None
      BY <1>2, NoneIsNotAnId DEF LedgerOpen
    <2> QED BY <1>3, <2>2, <2>3 DEF Ledger!Hand
  <1> QED BY <1>4, <1>5 DEF StartSend

(* What ends a turn in the database ends it in the ledger. *)
LEMMA LedgerEnd ==
  ASSUME TurnInv, NEW s \in SessionIds,
         sessions[s].status = "running", sessions'[s].status # "running",
         \A t \in SessionIds \ {s} : sessions'[t] = sessions[t],
         UNCHANGED <<receipts, handed>>
  PROVE  Ledger!End(s)
  <1>1. sessions[s].run \in CommandIds
    BY DEF TurnInv, TurnsAccepted, TurnAccepted
  <1>2. LedgerOpen[s] # None
    BY <1>1, NoneIsNotAnId DEF LedgerOpen
  <1>3. LedgerOpen' = [LedgerOpen EXCEPT ![s] = None]
    BY DEF LedgerOpen
  <1>4. UNCHANGED <<LedgerAccepted, LedgerHanded>>
    BY DEF LedgerAccepted, LedgerHanded
  <1> QED BY <1>2, <1>3, <1>4 DEF Ledger!End

LEMMA LedgerSettle ==
  ASSUME TypeOK, TurnInv, NEW s \in SessionIds, Settle(s) \/ RetrySettle(s)
  PROVE  LedgerUnchanged \/ Ledger!End(s)
  <1>1. /\ UNCHANGED <<receipts, handed>>
        /\ running[s].phase \in {"stopping", "retrying"}
    BY DEF Settle, RetrySettle
  <1>2. CASE SettleFails(s) \/ RetryFails(s)
    BY <1>1, <1>2, TurnFailures, LedgerQuiet DEF NothingAccepted
  <1>3. CASE ~(SettleFails(s) \/ RetryFails(s))
    <2>1. /\ sessions[s].status = "running" /\ sessions'[s].status # "running"
          /\ \A t \in SessionIds \ {s} : sessions'[t] = sessions[t]
      BY <1>3, SettledSession
    <2> QED BY <1>1, <2>1, LedgerEnd
  <1> QED BY <1>2, <1>3

LEMMA LedgerRecover ==
  ASSUME TypeOK, TurnInv, NEW s \in SessionIds, Recover(s)
  PROVE  LedgerUnchanged \/ Ledger!End(s)
  <1>1. sessions[s].status = "running" /\ UNCHANGED <<receipts, handed>>
    BY DEF Recover
  <1>2. CASE sessions' = sessions
    BY <1>1, <1>2 DEF LedgerUnchanged, LedgerOpen, LedgerAccepted, LedgerHanded
  <1>3. CASE sessions' # sessions
    <2>1. sessions[s] \in HostSession /\ DOMAIN sessions = SessionIds
      BY DEF TypeOK
    <2> DEFINE old == Settled(sessions[s], "interrupted", FALSE)
    <2>2. old \in HostSession /\ old.status = "interrupted"
      BY <2>1, SettledType, SettledKeeps DEF Status
    <2>3. Save(old).status = "interrupted"
      BY <2>2, SaveKeeps DEF SameTurn
    <2>4. sessions' = [sessions EXCEPT ![s] = Save(old)]
      BY <1>3 DEF Recover
    <2> HIDE DEF old
    <2>5. /\ sessions'[s].status # "running"
          /\ \A t \in SessionIds \ {s} : sessions'[t] = sessions[t]
      BY <2>1, <2>3, <2>4
    <2> QED BY <1>1, <2>5, LedgerEnd
  <1> QED BY <1>2, <1>3

LEMMA LedgerDelete ==
  ASSUME TypeOK, NEW s \in SessionIds, DeleteSession(s) PROVE LedgerUnchanged
  <1>1. /\ sessions[s].status # "running" /\ sessions'[s].status = "deleted"
        /\ \A t \in SessionIds \ {s} : sessions'[t] = sessions[t]
        /\ UNCHANGED <<receipts, handed>>
    <2>1. sessions[s] \in HostSession /\ DOMAIN sessions = SessionIds
      BY DEF TypeOK
    <2> QED BY <2>1 DEF DeleteSession, HostSession
  <1>2. UNCHANGED LedgerOpen
    BY <1>1 DEF LedgerOpen
  <1> QED BY <1>1, <1>2 DEF LedgerUnchanged, LedgerAccepted, LedgerHanded

(* The commands that start no turn. *)
LEMMA LedgerEdit ==
  ASSUME TypeOK, TurnInv, NEW c \in SessionCommand,
         \/ c \in EditCommand \cup RemoveCommand /\ Edit(c)
         \/ c \in CancelCommand /\ Cancel(c)
         \/ c \in ReplyCommand /\ Reply(c)
  PROVE  LedgerUnchanged
  <1>1. ~StartsTurn(c) /\ c \in Command
    BY SessionCommandType DEF StartsTurn, EditCommand, RemoveCommand,
       CancelCommand, ReplyCommand, OfType
  <1>2. QuietWrite
    BY <1>1, EditQuiet DEF Edit, Cancel, Reply
  <1>3. NothingAccepted
    BY <1>1, PlainReceipt DEF Edit, Cancel, Reply
  <1> QED BY <1>2, <1>3, LedgerQuiet DEF Edit, Cancel, Reply

LEMMA LedgerStep ==
  ASSUME TypeOK, TurnInv, Next
  PROVE  LedgerUnchanged \/ Ledger!Next
  <1>1. CASE \E c \in CreateCommand : Create(c)
    BY <1>1, LedgerCreate
  <1>2. CASE \E c \in SendCommand \cup CompactCommand : Start(c)
    <2> PICK c \in SendCommand \cup CompactCommand : Start(c)
      BY <1>2
    <2>1. c.session \in SessionIds /\ c.id \in CommandIds
      BY DEF SendCommand, CompactCommand
    <2> QED BY <2>1, LedgerStart DEF Ledger!Next
  <1>3. CASE \/ \E c \in EditCommand \cup RemoveCommand : Edit(c)
             \/ \E c \in CancelCommand : Cancel(c)
             \/ \E c \in ReplyCommand : Reply(c)
    BY <1>3, LedgerEdit DEF SessionCommand
  <1>4. CASE \E c \in SessionCommand : Refuse(c)
    <2>1. QuietWrite
      BY <1>4, RefuseQuiet
    <2>2. NothingAccepted /\ UNCHANGED handed
      BY <1>4 DEF Refuse, NothingAccepted
    <2> QED BY <2>1, <2>2, LedgerQuiet
  <1>5. ASSUME NEW s \in SessionIds,
               \/ StartSend(s) \/ EndSend(s) \/ Settle(s)
               \/ RetryTimer(s) \/ RetrySettle(s) \/ ScheduledFlush(s)
               \/ DeleteSession(s) \/ TitleArrives(s) \/ Recover(s)
        PROVE  LedgerUnchanged \/ Ledger!Next
    <2>1. CASE StartSend(s)
      BY <2>1, LedgerStartSend DEF Ledger!Next
    <2>2. CASE Settle(s) \/ RetrySettle(s)
      BY <2>2, LedgerSettle DEF Ledger!Next
    <2>3. CASE EndSend(s) \/ RetryTimer(s)
      <3>1. UNCHANGED <<sessions, live, handed>> /\ NothingAccepted
        BY <2>3 DEF EndSend, RetryTimer, NothingAccepted
      <3> QED BY <3>1, QuietMemory, LedgerQuiet
    <2>4. CASE ScheduledFlush(s) \/ TitleArrives(s)
      <3>1. QuietWrite
        BY <2>4, OtherQuiet
      <3>2. NothingAccepted /\ UNCHANGED handed
        BY <2>4 DEF ScheduledFlush, TitleArrives, NothingAccepted
      <3> QED BY <3>1, <3>2, LedgerQuiet
    <2>5. CASE DeleteSession(s)
      BY <2>5, LedgerDelete
    <2>6. CASE Recover(s)
      BY <2>6, LedgerRecover DEF Ledger!Next
    <2> QED BY <1>5, <2>1, <2>2, <2>3, <2>4, <2>5, <2>6
  <1>6. CASE \E s \in SessionIds, r \in CommandIds :
               \E e \in EventsOf(r, live[s].value) : ProviderEvent(s, r, e)
    <2>1. QuietWrite
      BY <1>6, EventQuiet
    <2>2. NothingAccepted /\ UNCHANGED handed
      BY <1>6 DEF ProviderEvent, NothingAccepted
    <2> QED BY <2>1, <2>2, LedgerQuiet
  <1>7. CASE \E s \in SessionIds : \E title \in {"renamed", sessions[s].title} :
               UpdateSession(s, title)
    <2>1. QuietWrite
      BY <1>7, OtherQuiet
    <2>2. NothingAccepted /\ UNCHANGED handed
      BY <1>7 DEF UpdateSession, NothingAccepted
    <2> QED BY <2>1, <2>2, LedgerQuiet
  <1>8. CASE \/ \E p \in Projects : BeginSwitch(p) \/ EndSwitch(p)
             \/ Crash \/ Boot \/ Listen \/ Close \/ Exit
    <2>1. UNCHANGED <<sessions, receipts, handed>>
      BY <1>8 DEF BeginSwitch, EndSwitch, Crash, Boot, Listen, Close, Exit
    <2> QED BY <2>1 DEF LedgerUnchanged, LedgerOpen, LedgerAccepted, LedgerHanded
  <1> QED BY <1>1, <1>2, <1>3, <1>4, <1>5, <1>6, <1>7, <1>8 DEF Next

(* HostEngine implements TurnLedger, for every number of commands, sessions, *)
(* failures and crashes.                                                     *)
THEOREM EngineImplementsLedger == Spec => LedgerSpec
  <1>1. Init => Ledger!Init
    <2> SUFFICES ASSUME Init PROVE Ledger!Init
      OBVIOUS
    <2>1. \A s \in SessionIds : sessions[s].status # "running"
      <3>1. \A p \in Projects : Save(NewSession(p)).status = "idle"
        BY NewSessionType, SaveKeeps DEF NewSession, AbsentSession, SameTurn
      <3> QED BY <3>1 DEF Init, AbsentSession
    <2>2. LedgerOpen = [s \in SessionIds |-> None]
      BY <2>1 DEF LedgerOpen
    <2>3. LedgerAccepted = {} /\ LedgerHanded = {}
      BY DEF Init, LedgerAccepted, LedgerHanded
    <2> QED BY <2>2, <2>3 DEF Ledger!Init
  <1>2. TypeOK /\ TurnInv /\ [Next]_vars => [Ledger!Next]_(Ledger!vars)
    <2> SUFFICES ASSUME TypeOK, TurnInv, [Next]_vars
                 PROVE  Ledger!Next \/ UNCHANGED Ledger!vars
      OBVIOUS
    <2>1. CASE UNCHANGED vars
      BY <2>1 DEF vars, Ledger!vars, LedgerOpen, LedgerAccepted, LedgerHanded
    <2>2. CASE Next
      BY <2>2, LedgerStep DEF LedgerUnchanged, Ledger!vars
    <2> QED BY <2>1, <2>2
  <1> QED BY <1>1, <1>2, TurnInvariant, PTL DEF Spec, LedgerSpec, Ledger!Spec
==============================================================================

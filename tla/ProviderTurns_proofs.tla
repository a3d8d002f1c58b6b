-------------------------- MODULE ProviderTurns_proofs --------------------------
(***************************************************************************)
(* Theorems about ProviderTurns: type correctness, and that a session has  *)
(* one provider process at a time unless a write failed.                   *)
(***************************************************************************)
EXTENDS ProviderTurns, FiniteSetTheorems, TLAPS

-----------------------------------------------------------------------------
(* The invariants *)

\* The task of a turn exists as long as the session is running it.
TurnHasTask == turn = None <=> step = "none"

\* The entry in liveByThread is the running turn's, and goes before its cleanup.
LiveIsOfTurn == live # None => live = turn /\ step \in {"initializing", "working"}

TypeInv == TypeOK /\ TurnHasTask /\ LiveIsOfTurn

\* Where the processes of a session are at each stage, as long as the host is
\* up and no write has failed: only a turn that is past its launch has one in
\* children, and only the turn's own stop leaves one that is dying.
Stages ==
    /\ step \in {"launched", "initializing", "working"} => child = turn /\ dying = {}
    /\ step \in {"none", "queued", "resolving", "spawning"} => child = None /\ dying = {}
    /\ step = "stopping" => child = None /\ dying \subseteq {killing} \ {None}
StagesInv == host = "up" /\ faults = 0 => Stages

-----------------------------------------------------------------------------
(* Type correctness *)

LEMMA InitType == Init => TypeInv
<1> SUFFICES ASSUME Init PROVE TypeInv
  OBVIOUS
<1>1. TurnHasTask
  BY DEF Init, TurnHasTask
<1>2. 0 \in 0..MaxFaults
  BY MaxFaultsIsNat
<1>3. TypeOK
  BY <1>2 DEF Init, TypeOK, Step
<1>4. LiveIsOfTurn
  BY DEF Init, LiveIsOfTurn
<1> QED BY <1>1, <1>3, <1>4 DEF TypeInv

LEMMA NextType == ASSUME TypeInv, [Next]_vars PROVE TypeInv'
<1> USE DEF TypeInv, TypeOK, TurnHasTask, LiveIsOfTurn, Step, adapter, processes
<1>1. ASSUME NEW t \in Turns, Send(t) PROVE TypeInv'
  BY <1>1, NoneIsNotATurn DEF Send
<1>2. ASSUME NEW t \in Turns, Die(t) PROVE TypeInv'
  BY <1>2 DEF Die
<1>3. CASE Begin
  BY <1>3 DEF Begin, StopAwaited, DropLive, Kill
<1>4. CASE Resolve
  BY <1>4 DEF Resolve
<1>5. CASE Launch
  BY <1>5 DEF Launch
<1>6. CASE StartFails
  BY <1>6 DEF StartFails, StopAwaited, DropLive, Kill
<1>7. CASE Initialize
  BY <1>7 DEF Initialize
<1>8. CASE Prompt
  BY <1>8 DEF Prompt, StopAwaited, DropLive, Kill
<1>9. CASE Work
  BY <1>9 DEF Work, StopAwaited, DropLive, Kill
<1>10. CASE Settle
  BY <1>10 DEF Settle
<1>11. CASE Cancel
  BY <1>11 DEF Cancel, CancelTurn, StopAwaited, DropLive, Kill
<1>12. CASE FlushFails
  <2>1. faults' \in 0..MaxFaults
    <3>1. faults \in 0..MaxFaults /\ faults < MaxFaults /\ faults' = faults + 1
      BY <1>12 DEF FlushFails
    <3> QED BY <3>1, MaxFaultsIsNat
  <2>2. turn \in Turns
    BY <1>12 DEF FlushFails
  <2> QED BY <1>12, <2>1, <2>2, NoneIsNotATurn DEF FlushFails, StopFromOutside, DropLive, Kill
<1>13. CASE Close
  BY <1>13 DEF Close, StopFromOutside, DropLive, Kill
<1>14. CASE Exit
  BY <1>14 DEF Exit, Kill
<1>15. CASE UNCHANGED vars
  BY <1>15 DEF vars
<1> QED BY <1>1, <1>2, <1>3, <1>4, <1>5, <1>6, <1>7, <1>8, <1>9, <1>10, <1>11, <1>12,
           <1>13, <1>14, <1>15 DEF Next

LEMMA TypeInvariant == Spec => []TypeInv
BY InitType, NextType, PTL DEF Spec

\* Every reachable state of a turn, its adapter and its processes has the shape
\* the code gives it, for any set of turns and any number of failed writes.
THEOREM TurnsTypeCorrect == Spec => []TypeOK
BY TypeInvariant, PTL DEF TypeInv

-----------------------------------------------------------------------------
(* One process *)

LEMMA InitStages == Init => StagesInv
BY DEF Init, StagesInv, Stages

LEMMA NextStages == ASSUME TypeInv, StagesInv, [Next]_vars PROVE StagesInv'
<1> SUFFICES ASSUME host' = "up", faults' = 0 PROVE Stages'
  BY DEF StagesInv
<1> USE DEF StagesInv, Stages, TypeInv, TypeOK, TurnHasTask, LiveIsOfTurn, adapter, processes
<1>1. ASSUME NEW t \in Turns, Send(t) PROVE Stages'
  BY <1>1 DEF Send
<1>2. ASSUME NEW t \in Turns, Die(t) PROVE Stages'
  BY <1>2 DEF Die
<1>3. CASE Begin
  BY <1>3 DEF Begin, StopAwaited, DropLive, Kill
<1>4. CASE Resolve
  BY <1>4 DEF Resolve
<1>5. CASE Launch
  BY <1>5 DEF Launch
<1>6. CASE StartFails
  BY <1>6, NoneIsNotATurn DEF StartFails, StopAwaited, DropLive, Kill
<1>7. CASE Initialize
  BY <1>7 DEF Initialize
<1>8. CASE Prompt
  BY <1>8, NoneIsNotATurn DEF Prompt, StopAwaited, DropLive, Kill
<1>9. CASE Work
  BY <1>9, NoneIsNotATurn DEF Work, StopAwaited, DropLive, Kill
<1>10. CASE Settle
  BY <1>10 DEF Settle
<1>11. CASE Cancel
  BY <1>11, NoneIsNotATurn DEF Cancel, CancelTurn, StopAwaited, DropLive, Kill
<1>12. CASE FlushFails
  BY <1>12, MaxFaultsIsNat DEF FlushFails
<1>13. CASE Close
  BY <1>13 DEF Close
<1>14. CASE Exit
  BY <1>14 DEF Exit
<1>15. CASE UNCHANGED vars
  BY <1>15 DEF vars
<1> QED BY <1>1, <1>2, <1>3, <1>4, <1>5, <1>6, <1>7, <1>8, <1>9, <1>10, <1>11, <1>12,
           <1>13, <1>14, <1>15 DEF Next

LEMMA StagesHold == Spec => []StagesInv
BY InitStages, NextStages, TypeInvariant, PTL DEF Spec

\* A set with at most one element has no more than one.
LEMMA AtMostOne ==
    ASSUME NEW S, NEW x, S \subseteq {x} PROVE Cardinality(S) \in {0, 1}
<1>1. CASE S = {}
  BY <1>1, FS_EmptySet
<1>2. CASE S = {x}
  <2>1. Cardinality({x}) = 1
    BY FS_Singleton
  <2> QED BY <1>2, <2>1
<1> QED BY <1>1, <1>2

\* While the host accepts turns and every write has succeeded, the processes of
\* two turns of a session never live at the same time: each turn's cleanup
\* waits for its own process before the next turn may start.
THEOREM ProcessesOneByOne == Spec => []OneProcessPerSession
<1>1. TypeInv /\ StagesInv => OneProcessPerSession
  <2> DEFINE alive == dying \cup ({child} \ {None})
  <2> SUFFICES ASSUME TypeInv, StagesInv, host = "up", faults = 0
               PROVE  ~(Cardinality(alive) > 1)
    <3>1. TypeInv => faults \in Nat
      BY MaxFaultsIsNat DEF TypeInv, TypeOK
    <3>2. faults \in Nat => (faults = 0 \/ faults > 0)
      OBVIOUS
    <3> QED BY <3>1, <3>2 DEF OneProcessPerSession
  <2>1. Stages
    BY DEF StagesInv
  <2>2. alive \subseteq {child} \/ alive \subseteq {killing}
    BY <2>1 DEF Stages, TypeInv, TypeOK, Step
  <2> HIDE DEF alive
  <2>3. Cardinality(alive) \in {0, 1}
    BY <2>2, AtMostOne
  <2> QED BY <2>3
<1> QED BY <1>1, StagesHold, TypeInvariant, PTL

\* "Keep the session running until the old process has stopped" (engine.ts)
\* holds as long as every streamed event is written.  The run cleanup_race shows
\* why the hypothesis is needed.
THEOREM CleanupAwaited == Spec => [](faults = 0 => CleanupBeforeSettling)
<1>1. TypeInv /\ StagesInv => (faults = 0 => CleanupBeforeSettling)
  BY DEF TypeInv, TurnHasTask, StagesInv, Stages, CleanupBeforeSettling
<1> QED BY <1>1, StagesHold, TypeInvariant, PTL

=============================================================================

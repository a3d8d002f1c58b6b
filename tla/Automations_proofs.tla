--------------------------- MODULE Automations_proofs ---------------------------
(***************************************************************************)
(* Theorems about Automations: occurrences and events become runs once and *)
(* none is lost, and a run is launched, sent and settled once.             *)
(***************************************************************************)
EXTENDS Automations, FiniteSetTheorems, WellFoundedInduction, TLAPS

-----------------------------------------------------------------------------
(* The invariant.  First what the variables hold.                            *)

Made == [kind : {"scheduled", "event", "manual"}, key : Nat \cup Event]
Run == [id : Ids, status : Status, at : 1..MaxTime, session : Nat]
LaunchType == [run : Ids, session : Nat \ {0}, stage : {"reserved", "marked", "turn", "ended"}]
PassType == [now : 0..MaxTime, at : {None} \cup Occurrence, claimed : Seq(Claim)]
BatchType == [now : 0..MaxTime, left : SUBSET Event, seen : SUBSET Event,
              failed : SUBSET Event, claimed : Seq(Claim)]
AutomationType == [exists : BOOLEAN, enabled : BOOLEAN, next : Occurrence,
                   lastAt : 0..MaxTime, last : Nat]

\* The runs of the database, M of which have been made.
RunsOK(R, M) ==
    /\ R \subseteq Run /\ IsFiniteSet(R)
    /\ \A r, q \in R : r.id = q.id => r = q
    /\ \A r \in R : r.id <= Len(M)
Trimmed(R) == Cardinality({r \in R : r.status \in Settled}) <= MaxHistory

StoreOK ==
    /\ made \in Seq(Made) /\ Len(made) <= MaxRuns
    /\ automation \in AutomationType
    /\ RunsOK(runs, made) /\ Trimmed(runs)
    /\ claims \subseteq Event

LaunchesOK(L, n) == n \in Nat /\ L \subseteq LaunchType /\ \A l \in L : l.session <= n

WindowOK ==
    /\ clock \in 1..MaxTime /\ cutoff \in 0..clock
    /\ recovery \in {"none", "launching", "done"}
    /\ recovering \in [left : Seq(Claim), awaits : Ids \cup {None}]
    /\ pass \in [Pass -> PassType] /\ batch \in BatchType
    /\ LaunchesOK(launches, sessions)
    /\ saving \in [next : {None} \cup Occurrence, enabled : BOOLEAN]
    /\ retry \subseteq Event /\ heard \subseteq Event
    /\ submitted \in [Ids -> Nat] /\ since \in Occurrence /\ upsets \in 0..MaxUpsets

\* Nothing is dated later than the clock.
InTime ==
    /\ automation.next <= clock + 1 /\ saving.next <= clock + 1
    /\ batch.now <= clock /\ (batch.left # {} => batch.now # None)
    /\ \A p \in Pass : pass[p].now <= clock

TypeInv == StoreOK /\ WindowOK /\ InTime

\* What the schedule and the claims say of the runs made.
Scheduled(M, a) ==
    \A i \in DOMAIN M : a.exists /\ M[i].kind = "scheduled" => M[i].key < a.next
Claimed(M, a, C) ==
    \A i \in DOMAIN M : a.exists /\ M[i].kind = "event" => M[i].key \in C
KeysInv == \A i \in DOMAIN made : made[i].kind = "scheduled" => made[i].key \in Nat
ScheduleInv ==
    /\ since <= automation.next /\ KeysInv
    /\ Scheduled(made, automation) /\ Claimed(made, automation, claims)
    /\ ClaimedOnce /\ NoOccurrenceLost

\* An event that was tried and did not fail is claimed.
EventInv ==
    /\ EventKept
    /\ batch.seen \cap heard \subseteq batch.left \cup batch.failed \cup claims

\* The runs that something in the window is going to launch, and from where.
Waiting(claimed) == {claimed[i].run : i \in DOMAIN claimed}
InHand ==
    [h \in {"first", "torn", "events", "recovered"} |->
        CASE h = "first" -> pass[1].claimed
          [] h = "torn" -> pass[2].claimed
          [] h = "events" -> batch.claimed
          [] h = "recovered" -> recovering.left]
Launched(L) == {l.run : l \in L}

Distinct(L) ==
    /\ \A l, k \in L : l.run = k.run => l = k
    /\ \A l, k \in L : l.session = k.session => l = k
OnceOnly(H, L) ==
    /\ \A h \in DOMAIN H : \A i, j \in DOMAIN H[h] : H[h][i].run = H[h][j].run => i = j
    /\ \A h, k \in DOMAIN H : h # k => Waiting(H[h]) \cap Waiting(H[k]) = {}
    /\ \A h \in DOMAIN H : Waiting(H[h]) \cap Launched(L) = {}

\* A run that waits to be marked is pending, if it still exists, and was never
\* sent; one that is marked is running.
Unsent(i, R, S) == S[i] = 0 /\ \A r \in R : r.id = i => r.status = "pending"
OnItsWay(l, R, S) ==
    /\ l.stage = "reserved" => Unsent(l.run, R, S)
    /\ l.stage = "marked" => S[l.run] = 0
    /\ l.stage # "reserved" => \A r \in R : r.id = l.run => r.status = "running"
AllWaiting(H) == UNION {Waiting(H[h]) : h \in DOMAIN H}

\* What waits (W) and what is launched (L) fit the runs (R), of which n were
\* made, and what was sent (S).
Fits(W, L, n, R, S) ==
    /\ \A i \in W : i <= n /\ Unsent(i, R, S)
    /\ \A l \in L : l.run <= n /\ OnItsWay(l, R, S)
    /\ \A r \in R : r.status = "pending" => S[r.id] = 0
    /\ \A i \in Ids : S[i] <= 1 /\ (i > n => S[i] = 0)
LaunchInv ==
    /\ OnceOnly(InHand, launches) /\ Distinct(launches)
    /\ Fits(AllWaiting(InHand), launches, Len(made), runs, submitted)
\* Before its recovery a window has launched only runs of its own.
FreshInv ==
    /\ recovery = "none" => /\ \A p \in Pass : pass[p] = NoPass
                            /\ batch = NoBatch /\ recovering.left = <<>>
                            /\ \A l \in launches : \A r \in runs : r.id = l.run => r.at > cutoff
    /\ cutoff = None => recovery = "none" /\ launches = {}
Inv == TypeInv /\ ScheduleInv /\ EventInv /\ LaunchInv /\ FreshInv

-----------------------------------------------------------------------------
(* The oldest and the newest of some runs *)

LEMMA Constants ==
  /\ MaxTime \in Nat /\ MaxTime > 0 /\ MaxRuns \in Nat /\ MaxHistory \in Nat /\ MaxUpsets \in Nat
  /\ Grace \in Nat /\ IsFiniteSet(Event) /\ Event \cap Nat = {}
  BY BoundsAssumption, EventAssumption

LEMMA Least ==
  ASSUME NEW S \in SUBSET Nat, S # {}
  PROVE  \E m \in S : \A y \in S : m <= y
  <1>1. PICK x \in S : TRUE
    OBVIOUS
  <1> DEFINE Less == {ss \in Nat \X Nat : ss[1] < ss[2]}
  <1>2. IsWellFoundedOn(Less, Nat)
    BY NatLessThanWellFounded DEF OpToRel
  <1>3. PICK m \in S : \A y \in S : <<y, m>> \notin Less
    <2> HIDE DEF Less
    <2> QED BY <1>1, <1>2, WFMin
  <1>4. ASSUME NEW y \in S PROVE m <= y
    <2>1. y \in Nat /\ m \in Nat
      OBVIOUS
    <2>2. SUFFICES ASSUME y < m PROVE FALSE
      BY <2>1
    <2>3. <<y, m>> \in Nat \X Nat /\ <<y, m>>[1] = y /\ <<y, m>>[2] = m
      BY <2>1
    <2>4. <<y, m>> \in Less
      BY <2>2, <2>3
    <2> QED BY <1>3, <2>4
  <1> QED BY <1>3, <1>4

LEMMA Greatest ==
  ASSUME NEW S \in SUBSET Nat, NEW n \in Nat, S # {}, \A x \in S : x <= n
  PROVE  \E m \in S : \A y \in S : y <= m
  <1> DEFINE D == {n - x : x \in S}
  <1>1. D \subseteq Nat /\ D # {}
    <2>1. ASSUME NEW x \in S PROVE n - x \in Nat
      <3>1. x \in Nat /\ x <= n
        OBVIOUS
      <3> QED BY <3>1
    <2> QED BY <2>1
  <1>2. PICK d \in D : \A y \in D : d <= y
    <2> HIDE DEF D
    <2> QED BY <1>1, Least
  <1>3. PICK m \in S : d = n - m
    BY <1>2
  <1>4. ASSUME NEW y \in S PROVE y <= m
    <2>1. n - y \in D
      OBVIOUS
    <2>2. n - m <= n - y
      BY <1>2, <1>3, <2>1
    <2>3. y \in Nat /\ m \in Nat
      OBVIOUS
    <2> QED BY <2>2, <2>3
  <1> QED BY <1>4

\* Runs that differ in their identifiers are ordered by age.
Unique(R) == \A r, q \in R : r.id = q.id => r = q

LEMMA RunFields ==
  ASSUME NEW r \in Run
  PROVE  r.id \in Ids /\ r.status \in Status /\ r.at \in 1..MaxTime /\ r.session \in Nat
         /\ r.id \in Nat /\ r.at \in Nat /\ r.at <= MaxTime /\ r.id <= MaxRuns
         /\ 1 <= r.id /\ 1 <= r.at
  BY Constants DEF Run, Ids

LEMMA Oldest ==
  ASSUME NEW R \in SUBSET Run, Unique(R), R # {}
  PROVE  \E r \in R : \A q \in R \ {r} : Newer(q, r)
  <1>1. \A r \in R : r.id \in Nat /\ r.at \in Nat
    BY RunFields
  <1> DEFINE At == {r.at : r \in R}
  <1>2. At \in SUBSET Nat /\ At # {}
    BY <1>1
  <1>3. PICK a \in At : \A y \in At : a <= y
    <2> HIDE DEF At
    <2> QED BY <1>2, Least
  <1> DEFINE Id == {r.id : r \in {q \in R : q.at = a}}
  <1>4. Id \in SUBSET Nat /\ Id # {}
    BY <1>1, <1>3
  <1>5. PICK i \in Id : \A y \in Id : i <= y
    <2> HIDE DEF Id
    <2> QED BY <1>4, Least
  <1>6. PICK r \in R : r.at = a /\ r.id = i
    BY <1>5
  <1>7. ASSUME NEW q \in R \ {r} PROVE Newer(q, r)
    <2>1. q.id # r.id /\ q.id \in Nat /\ r.id \in Nat /\ q.at \in Nat /\ r.at \in Nat
      BY <1>1 DEF Unique
    <2>2. q.at \in At /\ r.at <= q.at
      BY <1>3, <1>6
    <2>3. CASE q.at = a
      <3>1. q.id \in Id
        BY <2>3
      <3>2. r.id <= q.id
        BY <1>5, <1>6, <3>1
      <3> QED BY <3>2, <2>1, <2>3, <1>6 DEF Newer
    <2>4. CASE q.at # a
      BY <2>1, <2>2, <2>4, <1>6 DEF Newer
    <2> QED BY <2>3, <2>4
  <1> QED BY <1>7

LEMMA Newest ==
  ASSUME NEW R \in SUBSET Run, Unique(R), R # {}
  PROVE  \E r \in R : \A q \in R \ {r} : Newer(r, q)
  <1>1. \A r \in R : r.id \in Nat /\ r.at \in Nat /\ r.at <= MaxTime /\ r.id <= MaxRuns
    BY RunFields
  <1> DEFINE At == {r.at : r \in R}
  <1>2. At \in SUBSET Nat /\ At # {} /\ \A x \in At : x <= MaxTime
    BY <1>1
  <1>3. PICK a \in At : \A y \in At : y <= a
    <2> HIDE DEF At
    <2> QED BY <1>2, Greatest, Constants
  <1> DEFINE Id == {r.id : r \in {q \in R : q.at = a}}
  <1>4. Id \in SUBSET Nat /\ Id # {} /\ \A x \in Id : x <= MaxRuns
    BY <1>1, <1>3
  <1>5. PICK i \in Id : \A y \in Id : y <= i
    <2> HIDE DEF Id
    <2> QED BY <1>4, Greatest, Constants
  <1>6. PICK r \in R : r.at = a /\ r.id = i
    BY <1>5
  <1>7. ASSUME NEW q \in R \ {r} PROVE Newer(r, q)
    <2>1. q.id # r.id /\ q.id \in Nat /\ r.id \in Nat /\ q.at \in Nat /\ r.at \in Nat
      BY <1>1 DEF Unique
    <2>2. q.at \in At /\ q.at <= r.at
      BY <1>3, <1>6
    <2>3. CASE q.at = a
      <3>1. q.id \in Id
        BY <2>3
      <3>2. q.id <= r.id
        BY <1>5, <1>6, <3>1
      <3> QED BY <3>2, <2>1, <2>3, <1>6 DEF Newer
    <2>4. CASE q.at # a
      BY <2>1, <2>2, <2>4, <1>6 DEF Newer
    <2> QED BY <2>3, <2>4
  <1> QED BY <1>7

-----------------------------------------------------------------------------
(* The operations of the database *)

\* What is kept is some of the runs, all unsettled ones, and of the settled
\* ones no more than the history.
LEMMA TrimKeeps ==
  ASSUME NEW R
  PROVE  /\ trim_history(R) \subseteq R
         /\ \A r \in R : r.status \notin Settled => r \in trim_history(R)
  BY DEF trim_history

LEMMA TrimBounds ==
  ASSUME NEW R \in SUBSET Run, IsFiniteSet(R), Unique(R)
  PROVE  Trimmed(trim_history(R))
  <1> DEFINE S == {r \in trim_history(R) : r.status \in Settled}
  <1>1. S \subseteq R /\ IsFiniteSet(S)
    BY FS_Subset, TrimKeeps
  <1>2. CASE S = {}
    <2>1. Cardinality(S) = 0
      <3> HIDE DEF S
      <3> QED BY <1>2, FS_EmptySet
    <2> QED BY <2>1, Constants DEF Trimmed
  <1>3. CASE S # {}
    <2>1. PICK r \in S : \A q \in S \ {r} : Newer(q, r)
      <3>1. S \in SUBSET Run /\ Unique(S)
        BY <1>1 DEF Unique
      <3> HIDE DEF S
      <3> QED BY <3>1, <1>3, Oldest
    <2>2. Cardinality({q \in R : Newer(q, r)}) < MaxHistory
      BY <2>1 DEF trim_history
    <2>3. IsFiniteSet({q \in R : Newer(q, r)})
      BY FS_Subset
    <2>4. S \ {r} \subseteq {q \in R : Newer(q, r)}
      BY <1>1, <2>1
    <2>5. Cardinality(S \ {r}) <= Cardinality({q \in R : Newer(q, r)})
      BY <2>3, <2>4, FS_Subset
    <2>6. Cardinality(S \ {r}) = Cardinality(S) - 1
      BY <1>1, <2>1, FS_RemoveElement
    <2>7. Cardinality(S) \in Nat /\ Cardinality({q \in R : Newer(q, r)}) \in Nat
      BY <1>1, <2>3, FS_CardinalityType
    <2> QED BY <2>2, <2>5, <2>6, <2>7, Constants DEF Trimmed
  <1> QED BY <1>2, <1>3

LEMMA TrimOK ==
  ASSUME NEW R, NEW M, RunsOK(R, M)
  PROVE  RunsOK(trim_history(R), M) /\ Trimmed(trim_history(R))
  <1>1. RunsOK(trim_history(R), M)
    BY TrimKeeps, FS_Subset DEF RunsOK
  <1> QED BY <1>1, TrimBounds DEF RunsOK, Unique

SameSchedule(a, b) == a.next = b.next /\ a.exists = b.exists /\ a.enabled = b.enabled

LEMMA SummaryType ==
  ASSUME NEW a \in AutomationType, NEW r \in Run
  PROVE  apply_run_summary(a, r) \in AutomationType /\ SameSchedule(apply_run_summary(a, r), a)
  <1>1. r.at \in 0..MaxTime /\ r.session \in Nat
    BY RunFields, Constants
  <1>2. /\ a.last \in Nat /\ (IF r.session # None THEN r.session ELSE a.last) \in Nat
    BY <1>1 DEF AutomationType
  <1>3. apply_run_summary(a, r) \in
          {a, [a EXCEPT !.lastAt = r.at, !.last = IF r.session # None THEN r.session ELSE a.last]}
    BY DEF apply_run_summary, AutomationType
  <1> QED BY <1>1, <1>2, <1>3 DEF AutomationType, SameSchedule

LEMMA ReportedType ==
  ASSUME NEW R \in SUBSET Run, Unique(R), automation \in AutomationType
  PROVE  Reported(R) \in AutomationType /\ SameSchedule(Reported(R), automation)
  <1>1. CASE R = {}
    BY <1>1 DEF Reported, SameSchedule
  <1>2. CASE R # {}
    <2> DEFINE r == CHOOSE r \in R : \A q \in R \ {r} : Newer(r, q)
    <2>1. r \in R
      BY <1>2, Newest
    <2>2. Reported(R) = apply_run_summary(automation, r)
      BY <1>2 DEF Reported
    <2> HIDE DEF r
    <2> QED BY <2>1, <2>2, SummaryType
  <1> QED BY <1>1, <1>2

\* Make adds one run, made last of all.
LEMMA MakeStep ==
  ASSUME StoreOK, NEW kind \in {"scheduled", "event", "manual"}, NEW key \in Nat \cup Event,
         NEW status \in Status, NEW next \in Occurrence, NEW now \in 1..MaxTime,
         Make(kind, key, status, next, now)
  PROVE  /\ made' \in Seq(Made) /\ Len(made') = Len(made) + 1 /\ Len(made') <= MaxRuns
         /\ made' = Append(made, [kind |-> kind, key |-> key])
         /\ NewRun \in Ids /\ RunsOK(runs', made') /\ Trimmed(runs')
         /\ automation' \in AutomationType /\ automation'.next = next
         /\ automation'.exists = automation.exists
         /\ \A r \in runs' : r \in runs \/ (r.id = NewRun /\ r.status = status /\ r.at = now)
  <1> DEFINE new == [id |-> NewRun, status |-> status, at |-> now, session |-> None]
             all == runs \cup {new}
  <1>1. Len(made) \in Nat /\ Len(made) < MaxRuns /\ MaxRuns \in Nat
    BY Constants DEF Make, StoreOK
  <1>2. NewRun \in Ids /\ NewRun = Len(made) + 1
    BY <1>1 DEF NewRun, Ids
  <1>3. [kind |-> kind, key |-> key] \in Made
    BY DEF Made
  <1>4. /\ made' \in Seq(Made) /\ Len(made') = Len(made) + 1 /\ Len(made') <= MaxRuns
        /\ made' = Append(made, [kind |-> kind, key |-> key])
    BY <1>1, <1>3 DEF Make, StoreOK
  <1>5. new \in Run /\ new.id = NewRun /\ new.status = status /\ new.at = now
    BY <1>2 DEF Run, None
  <1>6. runs \subseteq Run /\ IsFiniteSet(runs) /\ Unique(runs) /\ \A r \in runs : r.id <= Len(made)
    BY DEF StoreOK, RunsOK, Unique
  <1>7. \A r \in runs : r.id # NewRun
    <2>1. ASSUME NEW r \in runs PROVE r.id # NewRun
      <3>1. r.id \in Nat /\ r.id <= Len(made)
        BY <1>6, RunFields
      <3> QED BY <3>1, <1>1, <1>2
    <2> QED BY <2>1
  <1>8. RunsOK(all, made')
    <2>1. all \subseteq Run /\ IsFiniteSet(all)
      BY <1>5, <1>6, FS_AddElement
    <2>2. \A r, q \in all : r.id = q.id => r = q
      BY <1>5, <1>6, <1>7 DEF Unique
    <2>3. \A r \in runs : r.id <= Len(made')
      <3>1. ASSUME NEW r \in runs PROVE r.id <= Len(made')
        <4>1. r.id \in Nat /\ r.id <= Len(made)
          BY <1>6, RunFields
        <4> QED BY <4>1, <1>1, <1>4
      <3> QED BY <3>1
    <2>4. new.id <= Len(made')
      BY <1>1, <1>2, <1>4, <1>5
    <2> QED BY <2>1, <2>2, <2>3, <2>4 DEF RunsOK
  <1>9. runs' = trim_history(all)
    BY DEF Make
  <1>10. RunsOK(runs', made') /\ Trimmed(runs')
    <2> HIDE DEF all
    <2> QED BY <1>8, <1>9, TrimOK
  <1>11. \A r \in runs' : r \in runs \/ (r.id = NewRun /\ r.status = status /\ r.at = now)
    BY <1>5, <1>9, TrimKeeps
  <1>12. /\ automation' \in AutomationType /\ automation'.next = next
         /\ automation'.exists = automation.exists
    <2>1. now \in 0..MaxTime
      BY Constants
    <2> QED BY <2>1 DEF Make, StoreOK, AutomationType
  <1> QED BY <1>2, <1>4, <1>10, <1>11, <1>12

\* run_update writes one run, of the identifier it is given.
LEMMA UpdateStep ==
  ASSUME StoreOK, NEW id \in Ids, NEW status \in Status, NEW session \in Nat,
         run_update(id, status, session)
  PROVE  /\ RunsOK(runs', made) /\ Trimmed(runs')
         /\ automation' \in AutomationType /\ SameSchedule(automation', automation)
         /\ \A q \in runs' : \/ q \in runs /\ q.id # id
                             \/ /\ q.id = id /\ q.status = status
                                /\ \E r \in runs : r.id = id /\ r.at = q.at
         /\ \E r \in runs : r.id = id
  <1> DEFINE r == CHOOSE r \in RunIs(id) : TRUE
             next == [r EXCEPT !.status = status, !.session = IF session # None THEN session ELSE @]
             all == (runs \ {r}) \cup {next}
  <1>1. r \in runs /\ r.id = id
    BY DEF run_update, RunIs
  <1>2. runs \subseteq Run /\ IsFiniteSet(runs) /\ Unique(runs) /\ \A q \in runs : q.id <= Len(made)
    BY DEF StoreOK, RunsOK, Unique
  <1>3. r \in Run
    BY <1>1, <1>2
  <1> HIDE DEF r
  <1>4. next \in Run /\ next.id = id /\ next.status = status /\ next.at = r.at
    BY <1>1, <1>3 DEF Run
  <1>5. \A q \in runs \ {r} : q.id # id
    BY <1>1, <1>2 DEF Unique
  <1>6. RunsOK(all, made)
    <2> HIDE DEF next
    <2>1. all \subseteq Run /\ IsFiniteSet(all)
      <3>1. IsFiniteSet(runs \ {r})
        BY <1>2, FS_RemoveElement
      <3>2. IsFiniteSet(all)
        BY <3>1, FS_AddElement
      <3> QED BY <3>2, <1>2, <1>4
    <2>2. \A p, q \in all : p.id = q.id => p = q
      BY <1>2, <1>4, <1>5 DEF Unique
    <2>3. \A q \in all : q.id <= Len(made)
      BY <1>1, <1>2, <1>4
    <2> QED BY <2>1, <2>2, <2>3 DEF RunsOK
  <1>7. runs' = trim_history(all) /\ automation' = apply_run_summary(automation, next)
    BY DEF run_update, r
  <1>8. RunsOK(runs', made) /\ Trimmed(runs')
    <2> HIDE DEF all
    <2> QED BY <1>6, <1>7, TrimOK
  <1>9. automation' \in AutomationType /\ SameSchedule(automation', automation)
    <2> HIDE DEF next
    <2> QED BY <1>4, <1>7, SummaryType DEF StoreOK
  <1>10. \A q \in runs' : q \in runs \ {r} \/ q = next
    BY <1>7, TrimKeeps
  <1> HIDE DEF next
  <1> QED BY <1>1, <1>4, <1>5, <1>8, <1>9, <1>10

\* Each claim gets a launch of its own, in a session nothing else is using.
OwnRuns(claimed) == \A i, j \in DOMAIN claimed : claimed[i].run = claimed[j].run => i = j

LEMMA LaunchAllType ==
  ASSUME LaunchesOK(launches, sessions), NEW claimed \in Seq(Claim), LaunchAll(claimed)
  PROVE  /\ LaunchesOK(launches', sessions')
         /\ Launched(launches') = Launched(launches) \cup Waiting(claimed)
         /\ \A l \in launches' : l \in launches \/ (l.run \in Waiting(claimed) /\ l.stage = "reserved")
         /\ \A l \in launches' \ launches : \E i \in DOMAIN claimed :
                l = [run |-> claimed[i].run, session |-> SessionFor(claimed, i), stage |-> "reserved"]
  <1> DEFINE new(i) == [run |-> claimed[i].run, session |-> SessionFor(claimed, i),
                        stage |-> "reserved"]
             News == {new(i) : i \in DOMAIN claimed}
  <1>1. /\ launches' = launches \cup News
        /\ sessions' = sessions + Len(claimed)
    BY DEF LaunchAll
  <1>2. sessions \in Nat /\ Len(claimed) \in Nat /\ DOMAIN claimed = 1..Len(claimed)
    BY DEF LaunchesOK
  <1>3. ASSUME NEW i \in DOMAIN claimed
        PROVE  new(i) \in LaunchType /\ new(i).session <= sessions' /\ new(i).run = claimed[i].run
               /\ new(i).stage = "reserved"
    <2>1. claimed[i].run \in Ids /\ claimed[i].last \in Nat /\ i \in Nat /\ 1 <= i /\ i <= Len(claimed)
      <3>1. claimed[i] \in Claim
        OBVIOUS
      <3> QED BY <3>1, <1>2 DEF Claim
    <2>2. SessionFor(claimed, i) \in Nat \ {0} /\ SessionFor(claimed, i) <= sessions'
      BY <1>1, <1>2, <2>1 DEF SessionFor, Reusable
    <2> QED BY <2>1, <2>2 DEF LaunchType
  <1>4. \A l \in launches : l.session <= sessions'
    <2>1. ASSUME NEW l \in launches PROVE l.session <= sessions'
      <3>1. l.session \in Nat /\ l.session <= sessions
        BY DEF LaunchesOK, LaunchType
      <3> QED BY <3>1, <1>1, <1>2
    <2> QED BY <2>1
  <1>5. LaunchesOK(launches', sessions')
    <2> HIDE DEF new
    <2>1. sessions' \in Nat
      BY <1>1, <1>2
    <2>2. launches' \subseteq LaunchType
      BY <1>1, <1>3 DEF LaunchesOK
    <2>3. \A l \in launches' : l.session <= sessions'
      BY <1>1, <1>3, <1>4
    <2> QED BY <2>1, <2>2, <2>3 DEF LaunchesOK
  <1>6. Launched(News) = Waiting(claimed)
    <2>1. Launched(News) = {new(i).run : i \in DOMAIN claimed}
      BY DEF Launched
    <2> QED BY <2>1 DEF Waiting
  <1>7. Launched(launches') = Launched(launches) \cup Launched(News)
    <2> HIDE DEF News
    <2> QED BY <1>1 DEF Launched
  <1>8. \A l \in launches' : l \in launches \/ (l.run \in Waiting(claimed) /\ l.stage = "reserved")
    BY <1>1 DEF Waiting
  <1> QED BY <1>1, <1>5, <1>6, <1>7, <1>8

LEMMA LaunchAllDistinct ==
  ASSUME LaunchesOK(launches, sessions), NEW claimed \in Seq(Claim), LaunchAll(claimed),
         Distinct(launches), OwnRuns(claimed), Waiting(claimed) \cap Launched(launches) = {}
  PROVE  Distinct(launches')
  <1> DEFINE new(i) == [run |-> claimed[i].run, session |-> SessionFor(claimed, i),
                        stage |-> "reserved"]
             News == {new(i) : i \in DOMAIN claimed}
  <1>1. launches' = launches \cup News
    BY DEF LaunchAll
  <1>2. sessions \in Nat /\ Len(claimed) \in Nat /\ DOMAIN claimed = 1..Len(claimed)
    BY DEF LaunchesOK
  <1>3. \A i \in DOMAIN claimed : /\ i \in Nat /\ 1 <= i /\ i <= Len(claimed)
                                  /\ claimed[i].run \in Ids /\ claimed[i].last \in Nat
    <2>1. \A i \in DOMAIN claimed : claimed[i] \in Claim
      OBVIOUS
    <2> QED BY <2>1, <1>2 DEF Claim
  <1>4. ASSUME NEW i \in DOMAIN claimed, NEW j \in DOMAIN claimed, i < j
        PROVE  SessionFor(claimed, i) # SessionFor(claimed, j)
    <2>1. i \in 1..j - 1 /\ i \in Nat /\ j \in Nat /\ 1 <= i
      BY <1>3, <1>4
    <2>2. CASE SessionFor(claimed, j) = sessions + j
      <3>1. SessionFor(claimed, i) <= sessions + i
        BY <1>2, <1>3, <2>1 DEF SessionFor, Reusable
      <3>2. SessionFor(claimed, i) = sessions + i \/ SessionFor(claimed, i) = claimed[i].last
        BY DEF SessionFor
      <3> QED BY <3>1, <3>2, <2>1, <2>2, <1>2, <1>3, <1>4
    <2>3. CASE SessionFor(claimed, j) # sessions + j
      <3>1. /\ SessionFor(claimed, j) = claimed[j].last
            /\ claimed[j].last \in 1..sessions /\ claimed[i].last # claimed[j].last
        BY <2>1, <2>3 DEF SessionFor, Reusable
      <3>2. SessionFor(claimed, i) = sessions + i \/ SessionFor(claimed, i) = claimed[i].last
        BY DEF SessionFor
      <3> QED BY <3>1, <3>2, <2>1, <1>2, <1>3
    <2> QED BY <2>2, <2>3
  <1>5. ASSUME NEW l \in launches, NEW i \in DOMAIN claimed
        PROVE  l.run # claimed[i].run /\ l.session # SessionFor(claimed, i)
    <2>1. l.run # claimed[i].run
      BY DEF Launched, Waiting
    <2>2. l.session \in Nat /\ l.session <= sessions
      BY DEF LaunchesOK, LaunchType
    <2>3. l.session # SessionFor(claimed, i)
      <3>1. CASE SessionFor(claimed, i) = sessions + i
        BY <1>2, <1>3, <2>2, <3>1
      <3>2. CASE SessionFor(claimed, i) # sessions + i
        BY <3>2 DEF SessionFor, Reusable, Reserved
      <3> QED BY <3>1, <3>2
    <2> QED BY <2>1, <2>3
  <1>6. ASSUME NEW i \in DOMAIN claimed, NEW j \in DOMAIN claimed,
               SessionFor(claimed, i) = SessionFor(claimed, j)
        PROVE  i = j
    <2>1. i < j \/ j < i \/ i = j
      BY <1>3
    <2> QED BY <2>1, <1>4, <1>6
  <1>7. ASSUME NEW i \in DOMAIN claimed
        PROVE  new(i).run = claimed[i].run /\ new(i).session = SessionFor(claimed, i)
    OBVIOUS
  <1>8. ASSUME NEW l \in launches', NEW k \in launches',
               l.run = k.run \/ l.session = k.session
        PROVE  l = k
    <2> HIDE DEF new
    <2>1. CASE l \in launches /\ k \in launches
      BY <2>1, <1>8 DEF Distinct
    <2>2. CASE l \in launches /\ k \in News
      BY <2>2, <1>8, <1>5, <1>7
    <2>3. CASE l \in News /\ k \in launches
      BY <2>3, <1>8, <1>5, <1>7
    <2>4. CASE l \in News /\ k \in News
      BY <2>4, <1>8, <1>6, <1>7 DEF OwnRuns
    <2> QED BY <1>1, <2>1, <2>2, <2>3, <2>4
  <1> QED BY <1>8 DEF Distinct

-----------------------------------------------------------------------------
(* Type correctness *)

LEMMA NothingType ==
  /\ NoPass \in PassType /\ NoBatch \in BatchType /\ <<>> \in Seq(Claim)
  /\ NoBatch.left = {} /\ NoBatch.now = None /\ NoPass.now = None
  /\ NotSaving \in [next : {None} \cup Occurrence, enabled : BOOLEAN] /\ NotSaving.next = None
  /\ Gone \in AutomationType /\ Gone.next = 1 /\ ~Gone.exists
  BY Constants DEF NoPass, NoBatch, NotSaving, Gone, PassType, BatchType, AutomationType,
                   Occurrence, None

LEMMA OccurrenceIs ==
  /\ Occurrence = 1..MaxTime + 1 /\ None = 0 /\ 1 \in Occurrence
  /\ \A n \in 1..MaxTime : n + 1 \in Occurrence /\ n \in Occurrence
  BY Constants DEF Occurrence, None

LEMMA TypeInit == Init => TypeInv
  <1> SUFFICES ASSUME Init PROVE TypeInv
    OBVIOUS
  <1>0. MaxTime \in Nat /\ 1 \in Occurrence
    BY Constants, OccurrenceIs
  <1>1. StoreOK
    <2>1. made \in Seq(Made) /\ Len(made) = 0 /\ Len(made) <= MaxRuns
      BY Constants DEF Init
    <2>2. automation \in AutomationType
      BY OccurrenceIs, Constants DEF Init, AutomationType
    <2>3. RunsOK(runs, made)
      BY FS_EmptySet DEF Init, RunsOK
    <2>4. Trimmed(runs)
      <3>1. {r \in runs : r.status \in Settled} = {}
        BY DEF Init
      <3> QED BY <3>1, FS_EmptySet, Constants DEF Trimmed
    <2> QED BY <2>1, <2>2, <2>3, <2>4 DEF StoreOK, Init
  <1>2. WindowOK
    <2>1. clock \in 1..MaxTime /\ cutoff \in 0..clock
      BY Constants DEF Init, None
    <2>2. /\ recovery \in {"none", "launching", "done"}
          /\ recovering \in [left : Seq(Claim), awaits : Ids \cup {None}]
      BY NothingType DEF Init
    <2>3. pass \in [Pass -> PassType] /\ batch \in BatchType
      BY NothingType DEF Init
    <2>4. LaunchesOK(launches, sessions)
      BY DEF Init, LaunchesOK
    <2>5. /\ saving \in [next : {None} \cup Occurrence, enabled : BOOLEAN]
          /\ retry \subseteq Event /\ heard \subseteq Event
      BY NothingType DEF Init
    <2>6. submitted \in [Ids -> Nat] /\ since \in Occurrence /\ upsets \in 0..MaxUpsets
      BY OccurrenceIs, Constants DEF Init
    <2> QED BY <2>1, <2>2, <2>3, <2>4, <2>5, <2>6 DEF WindowOK
  <1>3. InTime
    BY NothingType, OccurrenceIs DEF Init, InTime, Pass
  <1> QED BY <1>1, <1>2, <1>3 DEF TypeInv

LEMMA SameStore == ASSUME StoreOK, UNCHANGED store PROVE StoreOK'
  BY DEF StoreOK, store, Trimmed, RunsOK

\* What a step of the window needs to know.
LEMMA WindowFacts ==
  ASSUME TypeInv
  PROVE  /\ MaxTime \in Nat /\ clock \in Nat /\ 1 <= clock /\ clock <= MaxTime
         /\ cutoff \in Nat /\ cutoff <= clock /\ sessions \in Nat
         /\ automation \in AutomationType /\ automation.next \in Occurrence
         /\ automation.last \in Nat /\ automation.exists \in BOOLEAN
         /\ \A p \in Pass : /\ pass[p] \in PassType /\ pass[p].claimed \in Seq(Claim)
                            /\ pass[p].now \in 0..MaxTime /\ pass[p].now <= clock
                            /\ pass[p].at \in {None} \cup Occurrence
         /\ batch.claimed \in Seq(Claim) /\ batch.now \in 0..MaxTime
         /\ batch.left \subseteq Event /\ batch.seen \subseteq Event /\ batch.failed \subseteq Event
         /\ recovering.left \in Seq(Claim) /\ recovering.awaits \in Ids \cup {None}
         /\ saving.next \in {None} \cup Occurrence /\ saving.enabled \in BOOLEAN
         /\ upsets \in Nat /\ Pass = {1, 2}
  <1>1. MaxTime \in Nat /\ clock \in Nat /\ 1 <= clock /\ clock <= MaxTime
    BY Constants DEF TypeInv, WindowOK
  <1>2. cutoff \in Nat /\ cutoff <= clock /\ sessions \in Nat /\ upsets \in Nat
    BY <1>1, Constants DEF TypeInv, WindowOK, LaunchesOK
  <1>3. /\ automation \in AutomationType /\ automation.next \in Occurrence
        /\ automation.last \in Nat /\ automation.exists \in BOOLEAN
    BY DEF TypeInv, StoreOK, AutomationType
  <1>4. \A p \in Pass : /\ pass[p] \in PassType /\ pass[p].claimed \in Seq(Claim)
                        /\ pass[p].now \in 0..MaxTime /\ pass[p].now <= clock
                        /\ pass[p].at \in {None} \cup Occurrence
    BY DEF TypeInv, WindowOK, InTime, PassType
  <1>5. /\ batch.claimed \in Seq(Claim) /\ batch.now \in 0..MaxTime
        /\ batch.left \subseteq Event /\ batch.seen \subseteq Event /\ batch.failed \subseteq Event
        /\ recovering.left \in Seq(Claim) /\ recovering.awaits \in Ids \cup {None}
        /\ saving.next \in {None} \cup Occurrence /\ saving.enabled \in BOOLEAN
    BY DEF TypeInv, WindowOK, BatchType
  <1> QED BY <1>1, <1>2, <1>3, <1>4, <1>5 DEF Pass

LEMMA TypeTick == ASSUME TypeInv, Tick PROVE TypeInv'
  <1>1. StoreOK'
    BY SameStore DEF TypeInv, Tick
  <1>2. clock' \in 1..MaxTime /\ cutoff' \in 0..clock'
    BY WindowFacts DEF Tick, window
  <1>3. WindowOK'
    BY <1>2 DEF TypeInv, WindowOK, Tick, window, history
  <1>4. InTime'
    <2>1. automation.next \in Nat /\ saving.next \in Nat /\ batch.now \in Nat
          /\ \A p \in Pass : pass[p].now \in Nat
      <3>1. automation.next \in Occurrence /\ saving.next \in {None} \cup Occurrence
        BY WindowFacts
      <3>2. batch.now \in 0..MaxTime /\ \A p \in Pass : pass[p].now \in 0..MaxTime
        BY WindowFacts
      <3>3. automation.next \in Nat /\ saving.next \in Nat
        BY <3>1, OccurrenceIs
      <3> QED BY <3>2, <3>3
    <2>2. clock \in Nat /\ clock' = clock + 1
      BY WindowFacts DEF Tick
    <2>3. UNCHANGED <<automation, saving, batch, pass>>
      BY DEF Tick, window, store
    <2>4. automation.next <= clock' + 1 /\ saving.next <= clock' + 1 /\ batch.now <= clock'
      BY <2>1, <2>2 DEF TypeInv, InTime
    <2>5. \A p \in Pass : pass[p].now <= clock'
      BY <2>1, <2>2 DEF TypeInv, InTime
    <2> QED BY <2>3, <2>4, <2>5 DEF TypeInv, InTime
  <1> QED BY <1>1, <1>3, <1>4 DEF TypeInv

LEMMA TypeOpenWindow == ASSUME TypeInv, OpenWindow PROVE TypeInv'
  <1>1. StoreOK'
    BY SameStore DEF TypeInv, OpenWindow
  <1>2. cutoff' \in 0..clock'
    BY WindowFacts DEF OpenWindow
  <1>3. WindowOK' /\ InTime'
    BY <1>2 DEF TypeInv, WindowOK, InTime, OpenWindow, history, store
  <1> QED BY <1>1, <1>3 DEF TypeInv

LEMMA Upsets == ASSUME TypeInv, Upset PROVE upsets' \in 0..MaxUpsets
  BY Constants DEF TypeInv, WindowOK, Upset

LEMMA TypeStop == ASSUME TypeInv, Stop PROVE TypeInv'
  <1>1. StoreOK'
    BY SameStore DEF TypeInv, Stop
  <1>2. upsets' \in 0..MaxUpsets
    BY Upsets DEF Stop
  <1>3. cutoff' \in 0..clock' /\ clock' \in 1..MaxTime
    BY WindowFacts DEF Stop, None
  <1>4. /\ recovery' \in {"none", "launching", "done"}
        /\ recovering' \in [left : Seq(Claim), awaits : Ids \cup {None}]
        /\ pass' \in [Pass -> PassType] /\ batch' \in BatchType
        /\ saving' \in [next : {None} \cup Occurrence, enabled : BOOLEAN]
    BY NothingType DEF Stop
  <1>5. LaunchesOK(launches', sessions')
    BY WindowFacts DEF Stop, LaunchesOK
  <1>6. WindowOK'
    BY <1>2, <1>3, <1>4, <1>5 DEF TypeInv, WindowOK, Stop, history
  <1>7. InTime'
    BY WindowFacts, NothingType, OccurrenceIs DEF TypeInv, InTime, Stop, store
  <1> QED BY <1>1, <1>6, <1>7 DEF TypeInv

LEMMA TypeRecoverNext == ASSUME TypeInv, RecoverNext PROVE TypeInv'
  <1>1. StoreOK'
    BY SameStore DEF TypeInv, RecoverNext
  <1>2. /\ recovery' \in {"none", "launching", "done"}
        /\ recovering' \in [left : Seq(Claim), awaits : Ids \cup {None}]
        /\ LaunchesOK(launches', sessions')
    <2>1. CASE recovering.left = <<>>
      BY <2>1 DEF TypeInv, WindowOK, RecoverNext
    <2>2. CASE recovering.left # <<>>
      <3> DEFINE head == Head(recovering.left)
      <3>1. head \in Claim /\ Tail(recovering.left) \in Seq(Claim) /\ <<head>> \in Seq(Claim)
        BY <2>2, WindowFacts
      <3>2. head.run \in Ids
        BY <3>1 DEF Claim
      <3>3. /\ LaunchAll(<<head>>) /\ recovery' = recovery
            /\ recovering' = [left |-> Tail(recovering.left), awaits |-> head.run]
        BY <2>2 DEF RecoverNext
      <3>4. LaunchesOK(launches', sessions')
        <4> HIDE DEF head
        <4> QED BY <3>1, <3>3, LaunchAllType DEF TypeInv, WindowOK
      <3> QED BY <3>1, <3>2, <3>3, <3>4 DEF TypeInv, WindowOK
    <2> QED BY <2>1, <2>2
  <1>3. WindowOK'
    BY <1>2 DEF TypeInv, WindowOK, RecoverNext, history
  <1>4. InTime'
    BY DEF TypeInv, InTime, RecoverNext, store
  <1> QED BY <1>1, <1>3, <1>4 DEF TypeInv

\* A step that changes only the passes.
LEMMA TypePasses ==
  ASSUME TypeInv, pass' \in [Pass -> PassType], \A p \in Pass : pass'[p].now <= clock,
         upsets' \in 0..MaxUpsets,
         UNCHANGED <<clock, store, cutoff, recovery, recovering, batch, launches, saving, retry,
                     sessions, history>>
  PROVE  TypeInv'
  <1>1. StoreOK'
    BY SameStore DEF TypeInv
  <1>2. WindowOK'
    BY DEF TypeInv, WindowOK, history
  <1>3. InTime'
    BY DEF TypeInv, InTime, store
  <1> QED BY <1>1, <1>2, <1>3 DEF TypeInv

LEMMA TypeEvaluate == ASSUME TypeInv, Evaluate PROVE TypeInv'
  <1>1. [pass[1] EXCEPT !.now = clock, !.at = automation.next] \in PassType
    <2>1. clock \in 0..MaxTime /\ automation.next \in Occurrence /\ pass[1] \in PassType
      BY WindowFacts
    <2> QED BY <2>1 DEF PassType
  <1>2. pass' = [pass EXCEPT ![1] = [pass[1] EXCEPT !.now = clock, !.at = automation.next]]
    BY WindowFacts DEF Evaluate, TypeInv, WindowOK
  <1>3. pass' \in [Pass -> PassType] /\ \A p \in Pass : pass'[p].now <= clock
    <2>1. pass \in [Pass -> PassType] /\ 1 \in Pass /\ clock \in Nat
          /\ \A p \in Pass : pass[p].now <= clock
      BY WindowFacts DEF TypeInv, WindowOK
    <2>2. [pass[1] EXCEPT !.now = clock, !.at = automation.next].now = clock
      BY <2>1 DEF PassType
    <2> QED BY <1>1, <1>2, <2>1, <2>2
  <1>4. upsets' \in 0..MaxUpsets
    BY DEF Evaluate, TypeInv, WindowOK
  <1> QED BY <1>3, <1>4, TypePasses DEF Evaluate

LEMMA TypeDispose == ASSUME TypeInv, Dispose PROVE TypeInv'
  <1>1. pass' \in [Pass -> PassType] /\ \A p \in Pass : pass'[p].now <= clock
    BY WindowFacts, NothingType, OccurrenceIs DEF Dispose, TypeInv, WindowOK
  <1>2. upsets' \in 0..MaxUpsets
    BY Upsets DEF Dispose
  <1> QED BY <1>1, <1>2, TypePasses DEF Dispose

\* What a claim of an occurrence knows.
LEMMA DueFacts ==
  ASSUME TypeInv, NEW p \in Pass, ClaimDue(p)
  PROVE  /\ pass[p].at \in 1..MaxTime /\ pass[p].now \in 1..MaxTime /\ pass[p].now \in Nat
         /\ pass[p].at = automation.next /\ automation.exists
         /\ Following(p) = pass[p].at + 1 /\ Following(p) \in Occurrence
         /\ Following(p) <= clock + 1
  <1>1. /\ pass[p].at = automation.next /\ automation.exists /\ pass[p].at <= pass[p].now
        /\ Following(p) = pass[p].at + 1
    BY DEF ClaimDue, StillDue, Following
  <1>2. automation.next \in 1..MaxTime + 1 /\ pass[p].now \in 0..MaxTime /\ pass[p].now <= clock
    BY WindowFacts, OccurrenceIs
  <1>3. MaxTime \in Nat /\ clock \in Nat
    BY WindowFacts
  <1>4. pass[p].at \in 1..MaxTime /\ pass[p].now \in 1..MaxTime /\ pass[p].now \in Nat
    BY <1>1, <1>2, <1>3
  <1>5. Following(p) <= clock + 1
    BY <1>1, <1>2, <1>3, <1>4
  <1> QED BY <1>1, <1>4, <1>5, OccurrenceIs

\* What Make does to the store, and what is claimed.
DueStatus(p) == IF pass[p].now - pass[p].at <= Grace THEN "pending" ELSE "skipped"
NewClaim == [run |-> NewRun, last |-> automation.last]

Advanced(r, a, c) == [r EXCEPT !.at = a, !.claimed = c]

LEMMA PassRecord ==
  ASSUME NEW r \in PassType, NEW a, NEW c
  PROVE  /\ Advanced(r, a, c).now = r.now /\ Advanced(r, a, c).at = a
         /\ Advanced(r, a, c).claimed = c
         /\ (a \in {None} \cup Occurrence /\ c \in Seq(Claim) => Advanced(r, a, c) \in PassType)
  BY DEF PassType, Advanced

LEMMA DueMake ==
  ASSUME TypeInv, NEW p \in Pass, ClaimDue(p)
  PROVE  /\ Make("scheduled", pass[p].at, DueStatus(p), Following(p), pass[p].now)
         /\ DueStatus(p) \in {"pending", "skipped"} /\ DueStatus(p) \in Status
         /\ pass'[p].now = pass[p].now /\ pass'[p].at = Following(p)
         /\ pass'[p].claimed = ToLaunch(pass[p].claimed, NewClaim, DueStatus(p))
         /\ \A q \in Pass \ {p} : pass'[q] = pass[q]
         /\ Following(p) \in Occurrence /\ pass'[p].claimed \in Seq(Claim)
                => pass' \in [Pass -> PassType]
  <1>1. DueStatus(p) \in {"pending", "skipped"} /\ DueStatus(p) \in Status
    BY DEF DueStatus, Status, Settled
  <1>2. Make("scheduled", pass[p].at, DueStatus(p), Following(p), pass[p].now)
    BY DEF ClaimDue, DueStatus
  <1>3. pass \in [Pass -> PassType] /\ pass[p] \in PassType
    BY DEF TypeInv, WindowOK
  <1>4. pass' = [pass EXCEPT ![p] = [pass[p] EXCEPT !.at = Following(p),
                    !.claimed = ToLaunch(pass[p].claimed, NewClaim, DueStatus(p))]]
    BY <1>3 DEF ClaimDue, DueStatus, NewClaim
  <1> DEFINE x == Advanced(pass[p], Following(p),
                           ToLaunch(pass[p].claimed, NewClaim, DueStatus(p)))
  <1>5. /\ x.now = pass[p].now /\ x.at = Following(p)
        /\ x.claimed = ToLaunch(pass[p].claimed, NewClaim, DueStatus(p))
        /\ (Following(p) \in Occurrence /\ x.claimed \in Seq(Claim) => x \in PassType)
    BY <1>3, PassRecord
  <1>6. pass'[p] = x /\ \A q \in Pass \ {p} : pass'[q] = pass[q]
    BY <1>3, <1>4 DEF Advanced
  <1>7. x \in PassType => pass' \in [Pass -> PassType]
    <2> HIDE DEF x
    <2>1. pass' = [pass EXCEPT ![p] = x]
      BY <1>4 DEF x, Advanced
    <2> QED BY <2>1, <1>3
  <1> HIDE DEF x
  <1> QED BY <1>1, <1>2, <1>5, <1>6, <1>7

LEMMA TypeMake ==
  ASSUME TypeInv, NEW kind \in {"scheduled", "event", "manual"}, NEW key \in Nat \cup Event,
         NEW status \in Status, NEW next \in Occurrence, NEW now \in 1..MaxTime,
         Make(kind, key, status, next, now), claims' \subseteq Event
  PROVE  /\ StoreOK' /\ NewClaim \in Claim
         /\ automation'.next = next /\ automation'.exists = automation.exists
  <1>1. StoreOK
    BY DEF TypeInv
  <1>2. /\ StoreOK'
        /\ automation'.next = next /\ automation'.exists = automation.exists
    <2>1. made' \in Seq(Made) /\ Len(made') <= MaxRuns
      BY <1>1, MakeStep
    <2>2. RunsOK(runs', made')
      BY <1>1, MakeStep
    <2>3. Trimmed(runs')
      BY <1>1, MakeStep
    <2>4. automation' \in AutomationType
      BY <1>1, MakeStep
    <2>5. automation'.next = next /\ automation'.exists = automation.exists
      BY <1>1 DEF Make, StoreOK, AutomationType
    <2> QED BY <2>1, <2>2, <2>3, <2>4, <2>5 DEF StoreOK
  <1>3. NewClaim \in Claim
    BY <1>1, MakeStep, WindowFacts DEF NewClaim, Claim
  <1> QED BY <1>2, <1>3

LEMMA TypeClaimDue == ASSUME TypeInv, NEW p \in Pass, ClaimDue(p) PROVE TypeInv'
  <1>1. /\ pass[p].at \in Nat \cup Event /\ pass[p].now \in 1..MaxTime
        /\ Following(p) \in Occurrence /\ Following(p) <= clock + 1
    BY DueFacts
  <1>2. UNCHANGED <<clock, claims, cutoff, recovery, recovering, batch, launches, saving,
                    retry, sessions, history, upsets>>
    BY DEF ClaimDue
  <1>3. StoreOK' /\ NewClaim \in Claim /\ automation'.next = Following(p)
    <2>1. StoreOK /\ claims' \subseteq Event
      BY <1>2 DEF TypeInv, StoreOK
    <2>2. /\ Make("scheduled", pass[p].at, DueStatus(p), Following(p), pass[p].now)
          /\ DueStatus(p) \in Status
      BY DueMake
    <2> QED BY <1>1, <2>1, <2>2, TypeMake
  <1>4. ToLaunch(pass[p].claimed, NewClaim, DueStatus(p)) \in Seq(Claim)
    BY <1>3, WindowFacts DEF ToLaunch
  <1>5. /\ pass' \in [Pass -> PassType]
        /\ \A q \in Pass : pass'[q].now = pass[q].now
    BY <1>1, <1>4, DueMake
  <1>6. WindowOK'
    BY <1>2, <1>5 DEF TypeInv, WindowOK, history
  <1>7. InTime'
    BY <1>1, <1>2, <1>3, <1>5 DEF TypeInv, InTime
  <1> QED BY <1>3, <1>6, <1>7 DEF TypeInv

LEMMA TypeEvaluateEnds == ASSUME TypeInv, NEW p \in Pass, EvaluateEnds(p) PROVE TypeInv'
  <1>1. StoreOK'
    BY SameStore DEF TypeInv, EvaluateEnds
  <1>2. upsets' \in 0..MaxUpsets
    BY Upsets DEF EvaluateEnds, TypeInv, WindowOK
  <1>3. LaunchesOK(launches', sessions')
    <2>1. CASE p = 2
      BY <2>1 DEF EvaluateEnds, TypeInv, WindowOK
    <2>2. CASE p # 2
      BY <2>2, WindowFacts, LaunchAllType DEF EvaluateEnds, TypeInv, WindowOK
    <2> QED BY <2>1, <2>2
  <1>4. pass' \in [Pass -> PassType] /\ \A q \in Pass : pass'[q].now <= clock
    <2>1. pass \in [Pass -> PassType] /\ clock \in Nat /\ \A q \in Pass : pass[q].now <= clock
      BY WindowFacts DEF TypeInv, WindowOK
    <2>2. NoPass \in PassType /\ NoPass.now <= clock
      BY <2>1, NothingType, WindowFacts, OccurrenceIs
    <2>3. pass' = [pass EXCEPT ![p] = NoPass]
      BY DEF EvaluateEnds
    <2> QED BY <2>1, <2>2, <2>3
  <1>5. WindowOK'
    BY <1>2, <1>3, <1>4 DEF TypeInv, WindowOK, EvaluateEnds, history
  <1>6. InTime'
    BY <1>4 DEF TypeInv, InTime, EvaluateEnds, store
  <1> QED BY <1>1, <1>5, <1>6 DEF TypeInv

LEMMA TypeInboxAppeared ==
  ASSUME TypeInv, NEW E \in SUBSET Event, InboxAppeared(E) PROVE TypeInv'
  <1>1. StoreOK'
    BY SameStore DEF TypeInv, InboxAppeared
  <1>2. retry' \subseteq Event /\ heard' \subseteq Event
    BY DEF TypeInv, WindowOK, InboxAppeared
  <1>3. batch' \in BatchType /\ batch'.now = clock
    <2>1. clock \in 0..MaxTime
      BY WindowFacts
    <2> QED BY <1>2, <2>1, NothingType DEF InboxAppeared, BatchType
  <1>4. WindowOK'
    BY <1>2, <1>3 DEF TypeInv, WindowOK, InboxAppeared
  <1>5. InTime'
    BY <1>3, WindowFacts, OccurrenceIs DEF TypeInv, InTime, InboxAppeared, store
  <1> QED BY <1>1, <1>4, <1>5 DEF TypeInv

\* The three ways in which an event's claim ends.
EventClaimed(e) ==
    /\ automation.exists /\ automation.enabled /\ e \notin claims
    /\ Make("event", e, "pending", automation.next, batch.now)
    /\ claims' = claims \cup {e}
    /\ batch' = [batch EXCEPT !.left = @ \ {e}, !.claimed = Append(@, NewClaim)]
    /\ UNCHANGED <<heard, upsets>>
EventRefused(e) ==
    /\ ~ (automation.exists /\ automation.enabled) \/ e \in claims
    /\ batch' = [batch EXCEPT !.left = @ \ {e}]
    /\ heard' = IF e \in claims THEN heard ELSE heard \ {e}
    /\ UNCHANGED <<store, upsets>>
EventFailed(e) ==
    /\ Upset
    /\ batch' = [batch EXCEPT !.left = @ \ {e}, !.failed = @ \cup {e}]
    /\ UNCHANGED <<store, heard>>

LEMMA ClaimEventCases ==
  ASSUME NEW e, ClaimEvent(e)
  PROVE  /\ e \in batch.left
         /\ EventClaimed(e) \/ EventRefused(e) \/ EventFailed(e)
         /\ UNCHANGED <<clock, cutoff, recovery, recovering, pass, launches, saving, retry,
                        sessions, submitted, since>>
  BY DEF ClaimEvent, EventClaimed, EventRefused, EventFailed, NewClaim

LEMMA TypeClaimEvent == ASSUME TypeInv, NEW e \in Event, ClaimEvent(e) PROVE TypeInv'
  <1>1. e \in batch.left /\ batch \in BatchType /\ batch.now \in 1..MaxTime
    <2>1. batch.now # None /\ batch.now \in 0..MaxTime
      BY ClaimEventCases, WindowFacts DEF TypeInv, InTime
    <2> QED BY <2>1, ClaimEventCases, WindowFacts, OccurrenceIs DEF TypeInv, WindowOK
  <1>2. /\ StoreOK' /\ batch' \in BatchType /\ upsets' \in 0..MaxUpsets /\ heard' \subseteq Event
        /\ automation'.next = automation.next
        /\ batch'.now = batch.now /\ batch'.left \subseteq batch.left
    <2>1. CASE EventClaimed(e)
      <3>1. claims' \subseteq Event
        BY <2>1 DEF EventClaimed, TypeInv, StoreOK
      <3>2. "pending" \in Status
        BY DEF Status
      <3>3. StoreOK' /\ NewClaim \in Claim
        BY <2>1, <1>1, <3>1, <3>2, WindowFacts, TypeMake DEF EventClaimed
      <3>4. automation'.next = automation.next
        BY <2>1 DEF EventClaimed, Make, TypeInv, StoreOK, AutomationType
      <3>5. batch' \in BatchType /\ batch'.now = batch.now /\ batch'.left \subseteq batch.left
        <4>1. Append(batch.claimed, NewClaim) \in Seq(Claim) /\ batch.left \ {e} \subseteq Event
          BY <3>3, WindowFacts
        <4>2. ASSUME NEW L \in SUBSET Event, NEW C \in Seq(Claim)
              PROVE  LET b == [batch EXCEPT !.left = L, !.claimed = C]
                     IN  b \in BatchType /\ b.now = batch.now /\ b.left = L
          BY <1>1 DEF BatchType
        <4>3. batch' = [batch EXCEPT !.left = batch.left \ {e},
                                    !.claimed = Append(batch.claimed, NewClaim)]
          BY <2>1 DEF EventClaimed
        <4>4. batch' \in BatchType /\ batch'.now = batch.now /\ batch'.left = batch.left \ {e}
          BY <4>1, <4>2, <4>3, Zenon
        <4> QED BY <4>4
      <3> QED BY <2>1, <3>3, <3>4, <3>5 DEF EventClaimed, TypeInv, WindowOK
    <2>2. CASE EventRefused(e)
      BY <2>2, <1>1, SameStore DEF EventRefused, BatchType, TypeInv, WindowOK, store
    <2>3. CASE EventFailed(e)
      BY <2>3, <1>1, SameStore, Upsets DEF EventFailed, BatchType, TypeInv, WindowOK, store
    <2> QED BY <2>1, <2>2, <2>3, ClaimEventCases
  <1>3. WindowOK'
    BY <1>2, ClaimEventCases DEF TypeInv, WindowOK
  <1>4. InTime'
    BY <1>2, ClaimEventCases DEF TypeInv, InTime
  <1> QED BY <1>2, <1>3, <1>4 DEF TypeInv

LEMMA TypeInboxDone == ASSUME TypeInv, InboxDone PROVE TypeInv'
  <1>1. StoreOK'
    BY SameStore DEF TypeInv, InboxDone
  <1>2. LaunchesOK(launches', sessions')
    BY WindowFacts, LaunchAllType DEF InboxDone, TypeInv, WindowOK
  <1>3. WindowOK'
    BY <1>2, NothingType DEF TypeInv, WindowOK, InboxDone, history
  <1>4. InTime'
    BY NothingType, WindowFacts, OccurrenceIs DEF TypeInv, InTime, InboxDone, store
  <1> QED BY <1>1, <1>3, <1>4 DEF TypeInv

LEMMA TypeRunNow == ASSUME TypeInv, RunNow PROVE TypeInv'
  <1>1. "pending" \in Status /\ None \in Nat \cup Event
    BY DEF Status, None
  <1>2. /\ Make("manual", None, "pending", automation.next, clock)
        /\ claims' \subseteq Event /\ upsets' \in 0..MaxUpsets
    BY Upsets DEF RunNow, TypeInv, StoreOK
  <1>3. automation.next \in Occurrence /\ clock \in 1..MaxTime
    BY WindowFacts DEF TypeInv, WindowOK
  <1>4. StoreOK' /\ NewClaim \in Claim /\ automation'.next = automation.next
    BY <1>1, <1>2, <1>3, TypeMake
  <1>5. LaunchesOK(launches', sessions')
    <2>1. <<NewClaim>> \in Seq(Claim) /\ LaunchAll(<<NewClaim>>)
      BY <1>4 DEF RunNow, NewClaim
    <2> QED BY <2>1, LaunchAllType DEF TypeInv, WindowOK
  <1>6. WindowOK'
    BY <1>2, <1>5 DEF TypeInv, WindowOK, RunNow, history
  <1>7. InTime'
    BY <1>4 DEF TypeInv, InTime, RunNow
  <1> QED BY <1>4, <1>6, <1>7 DEF TypeInv

\* What a step of a launch does: it writes its run or no run, and it moves on
\* or ends.
LEMMA LaunchFacts ==
  ASSUME TypeInv, NEW l \in launches
  PROVE  l \in LaunchType /\ l.run \in Ids /\ l.session \in Nat /\ l.session # None
         /\ l.session <= sessions /\ None \in Nat
         /\ {"running", "failed", "succeeded"} \subseteq Status
         /\ \A stage \in {"marked", "turn", "ended"} :
              /\ [l EXCEPT !.stage = stage] \in LaunchType
              /\ [l EXCEPT !.stage = stage].run = l.run
              /\ [l EXCEPT !.stage = stage].session = l.session
              /\ [l EXCEPT !.stage = stage].stage = stage
  <1>1. l \in LaunchType /\ l.session <= sessions
    BY DEF TypeInv, WindowOK, LaunchesOK
  <1> QED BY <1>1 DEF LaunchType, Status, Settled, None

LEMMA LaunchingRuns ==
  ASSUME TypeInv, NEW l \in launches, Launching(l)
  PROVE  \/ UNCHANGED <<automation, runs>>
         \/ \E status \in Status, session \in Nat : run_update(l.run, status, session)
  BY LaunchFacts DEF Launching, MarkRunning, MarkFails, Submit, TurnEnds, Settle

LEMMA LaunchingLaunches ==
  ASSUME TypeInv, NEW l \in launches, Launching(l)
  PROVE  \/ launches' = launches \ {l}
         \/ \E stage \in {"marked", "turn", "ended"} :
               launches' = (launches \ {l}) \cup {[l EXCEPT !.stage = stage]}
  BY DEF Launching, MarkRunning, MarkFails, Submit, TurnEnds, Settle, Moved

LEMMA TypeLaunching == ASSUME TypeInv, NEW l \in launches, Launching(l) PROVE TypeInv'
  <1>1. UNCHANGED <<clock, claims, made, cutoff, recovery, recovering, pass, batch, saving,
                   retry, sessions, since, heard>>
    BY DEF Launching
  <1>2. StoreOK' /\ automation'.next = automation.next
    <2>1. CASE UNCHANGED <<automation, runs>>
      BY <1>1, <2>1 DEF TypeInv, StoreOK, RunsOK, Trimmed
    <2>2. ASSUME NEW status \in Status, NEW session \in Nat, run_update(l.run, status, session)
          PROVE  StoreOK' /\ automation'.next = automation.next
      <3>1. StoreOK /\ l.run \in Ids
        BY LaunchFacts DEF TypeInv
      <3>2. RunsOK(runs', made) /\ Trimmed(runs')
        BY <2>2, <3>1, UpdateStep
      <3>3. automation' \in AutomationType /\ SameSchedule(automation', automation)
        BY <2>2, <3>1, UpdateStep
      <3> QED BY <1>1, <3>1, <3>2, <3>3 DEF StoreOK, SameSchedule
    <2> QED BY <2>1, <2>2, LaunchingRuns
  <1>3. LaunchesOK(launches', sessions')
    <2>1. l \in LaunchType /\ l.session <= sessions
      BY LaunchFacts
    <2>2. ASSUME NEW stage \in {"marked", "turn", "ended"}
          PROVE  LET k == [l EXCEPT !.stage = stage]
                 IN  k \in LaunchType /\ k.session <= sessions
      BY <2>1, LaunchFacts
    <2>3. sessions' = sessions /\ LaunchesOK(launches, sessions)
      BY <1>1 DEF TypeInv, WindowOK
    <2>4. ASSUME NEW k \in launches' PROVE k \in LaunchType /\ k.session <= sessions
      <3>1. k \in launches \/ \E stage \in {"marked", "turn", "ended"} : k = [l EXCEPT !.stage = stage]
        BY LaunchingLaunches
      <3> QED BY <2>2, <2>3, <3>1 DEF LaunchesOK
    <2> QED BY <2>3, <2>4 DEF LaunchesOK
  <1>4. submitted' \in [Ids -> Nat]
    <2>1. submitted \in [Ids -> Nat] /\ l.run \in Ids
      BY LaunchFacts DEF TypeInv, WindowOK
    <2> QED BY <2>1 DEF Launching, MarkRunning, MarkFails, Submit, TurnEnds, Settle
  <1>5. upsets' \in 0..MaxUpsets
    <2>1. upsets \in 0..MaxUpsets
      BY DEF TypeInv, WindowOK
    <2> QED BY <2>1, Upsets DEF Launching, MarkRunning, MarkFails, Submit, TurnEnds, Settle
  <1>6. WindowOK'
    BY <1>1, <1>3, <1>4, <1>5 DEF TypeInv, WindowOK
  <1>7. InTime'
    BY <1>1, <1>2 DEF TypeInv, InTime
  <1> QED BY <1>2, <1>6, <1>7 DEF TypeInv

LEMMA TypeSave == ASSUME TypeInv, NEW enabled \in BOOLEAN, Save(enabled) PROVE TypeInv'
  <1>1. StoreOK'
    BY SameStore DEF TypeInv, Save
  <1>2. saving' \in [next : {None} \cup Occurrence, enabled : BOOLEAN] /\ saving'.next = clock + 1
    <2>1. clock \in 1..MaxTime
      BY DEF TypeInv, WindowOK
    <2> QED BY <2>1, OccurrenceIs DEF Save
  <1>3. upsets' \in 0..MaxUpsets
    BY Upsets DEF Save
  <1>4. WindowOK'
    BY <1>2, <1>3 DEF TypeInv, WindowOK, Save, history
  <1>5. InTime'
    BY <1>2, WindowFacts DEF TypeInv, InTime, Save, store
  <1> QED BY <1>1, <1>4, <1>5 DEF TypeInv

\* A save that is written is of the next moment.
LEMMA UpsertFacts ==
  ASSUME TypeInv, Upsert, Valid
  PROVE  /\ saving.next \in Occurrence /\ saving.next = clock + 1 /\ automation.next <= saving.next
         /\ automation'.next = saving.next /\ since' = saving.next
         /\ automation'.exists = automation.exists /\ automation' \in AutomationType
  <1>1. saving.next \in Nat /\ saving.next > clock /\ saving.next <= clock + 1 /\ clock \in Nat
    BY WindowFacts, OccurrenceIs DEF TypeInv, InTime, Valid
  <1>2. saving.next \in Occurrence /\ saving.next = clock + 1
    BY <1>1, WindowFacts, OccurrenceIs
  <1>3. automation.next <= saving.next
    BY <1>2 DEF TypeInv, InTime
  <1>4. automation' = [automation EXCEPT !.next = saving.next, !.enabled = saving.enabled]
        /\ since' = saving.next
    BY DEF Upsert
  <1>5. automation'.next = saving.next /\ automation'.exists = automation.exists
        /\ automation' \in AutomationType
    BY <1>2, <1>4, WindowFacts DEF AutomationType
  <1> QED BY <1>2, <1>3, <1>4, <1>5

LEMMA TypeUpsert == ASSUME TypeInv, Upsert PROVE TypeInv'
  <1>1. UNCHANGED <<clock, runs, claims, made, cutoff, recovery, recovering, pass, batch,
                   launches, retry, sessions, submitted, heard, upsets>> /\ saving' = NotSaving
    BY DEF Upsert
  <1>2. /\ automation' \in AutomationType /\ since' \in Occurrence
        /\ automation'.next <= clock + 1
    <2>1. CASE Valid
      BY <2>1, UpsertFacts, WindowFacts
    <2>2. CASE ~Valid
      BY <2>2 DEF Upsert, TypeInv, StoreOK, WindowOK, InTime
    <2> QED BY <2>1, <2>2
  <1>3. StoreOK'
    BY <1>1, <1>2 DEF TypeInv, StoreOK, RunsOK, Trimmed
  <1>4. WindowOK'
    BY <1>1, <1>2, NothingType DEF TypeInv, WindowOK
  <1>5. InTime'
    BY <1>1, <1>2, NothingType, WindowFacts, OccurrenceIs DEF TypeInv, InTime
  <1> QED BY <1>3, <1>4, <1>5 DEF TypeInv

LEMMA TypeDelete == ASSUME TypeInv, Delete PROVE TypeInv'
  <1>1. UNCHANGED <<clock, made, window, retry, sessions, submitted>>
        /\ automation' = Gone /\ runs' = {} /\ claims' = {} /\ heard' = {} /\ since' = 1
        /\ upsets' \in 0..MaxUpsets
    BY Upsets DEF Delete
  <1>2. StoreOK'
    <2>1. RunsOK(runs', made')
      BY <1>1, FS_EmptySet DEF RunsOK
    <2>2. Trimmed(runs')
      <3>1. {r \in runs' : r.status \in Settled} = {}
        BY <1>1
      <3> QED BY <3>1, FS_EmptySet, Constants DEF Trimmed
    <2> QED BY <1>1, <2>1, <2>2, NothingType DEF TypeInv, StoreOK
  <1>3. WindowOK'
    BY <1>1, OccurrenceIs DEF TypeInv, WindowOK, window
  <1>4. InTime'
    BY <1>1, NothingType, WindowFacts DEF TypeInv, InTime, window
  <1> QED BY <1>2, <1>3, <1>4 DEF TypeInv

\* The runs that recovery cancels and the ones it launches.
Pending == Resumable(LeftBehind)
Cancelled == {[r EXCEPT !.status = "cancelled"] : r \in LeftBehind \ Pending}
Recovered(order) ==
    [i \in DOMAIN order |->
        [run |-> order[i].id, last |-> Reported({q \in Cancelled : Newer(order[i], q)}).last]]

LEMMA CancelledRuns ==
  ASSUME TypeInv
  PROVE  /\ Pending = {r \in LeftBehind : r.status = "pending"}
         /\ Pending \subseteq runs /\ LeftBehind \subseteq runs
         /\ Cancelled \subseteq Run /\ Unique(Cancelled)
         /\ \A q \in Cancelled : /\ q.status = "cancelled"
                                 /\ \E r \in LeftBehind \ Pending : q.id = r.id
         /\ RunsOK((runs \ LeftBehind) \cup Pending \cup Cancelled, made)
  <1>1. Pending = {r \in LeftBehind : r.status = "pending"}
        /\ Pending \subseteq runs /\ LeftBehind \subseteq runs
    BY DEF Pending, Resumable, LeftBehind
  <1>2. runs \subseteq Run /\ IsFiniteSet(runs) /\ Unique(runs) /\ \A q \in runs : q.id <= Len(made)
    BY DEF TypeInv, StoreOK, RunsOK, Unique
  <1> DEFINE c(r) == [r EXCEPT !.status = "cancelled"]
  <1>3. \A r \in runs : c(r) \in Run /\ c(r).id = r.id /\ c(r).status = "cancelled"
    BY <1>2 DEF Run, Status, Settled
  <1>4. Cancelled = {c(r) : r \in LeftBehind \ Pending}
    BY DEF Cancelled
  <1> HIDE DEF c
  <1>5. /\ Cancelled \subseteq Run /\ Unique(Cancelled)
        /\ \A q \in Cancelled : /\ q.status = "cancelled"
                                /\ \E r \in LeftBehind \ Pending : q.id = r.id
    BY <1>1, <1>2, <1>3, <1>4 DEF Unique
  <1> DEFINE all == (runs \ LeftBehind) \cup Pending \cup Cancelled
  <1>6. IsFiniteSet(all)
    <2>1. IsFiniteSet(LeftBehind \ Pending)
      BY <1>1, <1>2, FS_Subset
    <2>2. IsFiniteSet(Cancelled)
      <3> DEFINE f == [r \in LeftBehind \ Pending |-> c(r)]
      <3>1. f \in Surjection(LeftBehind \ Pending, Cancelled)
        BY <1>4 DEF Surjection
      <3> HIDE DEF f
      <3> QED BY <2>1, <3>1, FS_Surjection
    <2>3. IsFiniteSet((runs \ LeftBehind) \cup Pending)
      BY <1>1, <1>2, FS_Subset
    <2> QED BY <2>2, <2>3, FS_Union
  <1>7. ASSUME NEW p \in all, NEW q \in all, p.id = q.id PROVE p = q
    <2>1. p \in (runs \ LeftBehind) \cup Pending \/ \E r \in LeftBehind \ Pending : p = c(r)
      BY <1>4
    <2>2. q \in (runs \ LeftBehind) \cup Pending \/ \E r \in LeftBehind \ Pending : q = c(r)
      BY <1>4
    <2> HIDE DEF all
    <2> QED BY <2>1, <2>2, <1>1, <1>2, <1>3, <1>7 DEF Unique
  <1>8. \A q \in all : q.id <= Len(made)
    BY <1>1, <1>2, <1>5
  <1>9. RunsOK(all, made)
    BY <1>1, <1>2, <1>5, <1>6, <1>7, <1>8 DEF RunsOK
  <1> QED BY <1>1, <1>5, <1>9

LEMMA RecoverFacts ==
  ASSUME TypeInv, Recover
  PROVE  /\ recovery = "none" /\ recovery' = "launching"
         /\ automation' = Reported(Cancelled)
         /\ runs' = trim_history((runs \ LeftBehind) \cup Pending \cup Cancelled)
         /\ \E order \in [1..Cardinality(Pending) -> Pending] :
               /\ \A i, j \in DOMAIN order : i < j => Newer(order[j], order[i])
               /\ recovering' = [left |-> Recovered(order), awaits |-> None]
         /\ UNCHANGED <<clock, claims, made, cutoff, pass, batch, launches, saving, retry,
                        sessions, history, upsets>>
  BY Zenon DEF Recover, Pending, Cancelled, Recovered

LEMMA TypeRecover == ASSUME TypeInv, Recover PROVE TypeInv'
  <1>1. StoreOK'
    <2>1. RunsOK(runs', made) /\ Trimmed(runs')
      BY CancelledRuns, RecoverFacts, TrimOK
    <2>2. automation' \in AutomationType
      BY CancelledRuns, RecoverFacts, ReportedType, WindowFacts
    <2> QED BY <2>1, <2>2, RecoverFacts DEF TypeInv, StoreOK
  <1>2. automation'.next = automation.next
    BY CancelledRuns, RecoverFacts, ReportedType, WindowFacts DEF SameSchedule
  <1>3. PICK order \in [1..Cardinality(Pending) -> Pending] :
            recovering' = [left |-> Recovered(order), awaits |-> None]
    BY RecoverFacts
  <1>4. Recovered(order) \in Seq(Claim)
    <2>1. Cardinality(Pending) \in Nat
      <3>1. IsFiniteSet(Pending)
        BY CancelledRuns, FS_Subset DEF TypeInv, StoreOK, RunsOK
      <3> QED BY <3>1, FS_CardinalityType
    <2>2. ASSUME NEW i \in DOMAIN order PROVE Recovered(order)[i] \in Claim
      <3>1. order[i] \in Run
        BY CancelledRuns DEF TypeInv, StoreOK, RunsOK
      <3> DEFINE R == {q \in Cancelled : Newer(order[i], q)}
      <3>2. Reported(R) \in AutomationType
        <4>1. R \in SUBSET Run /\ Unique(R)
          BY CancelledRuns DEF Unique
        <4> HIDE DEF R
        <4> QED BY <4>1, ReportedType, WindowFacts
      <3>3. Reported(R).last \in Nat /\ order[i].id \in Ids
        BY <3>1, <3>2, RunFields DEF AutomationType
      <3>4. Recovered(order)[i] = [run |-> order[i].id, last |-> Reported(R).last]
        BY DEF Recovered
      <3> HIDE DEF R
      <3> QED BY <3>3, <3>4 DEF Claim
    <2>3. DOMAIN Recovered(order) = 1..Cardinality(Pending) /\ DOMAIN order = 1..Cardinality(Pending)
      BY DEF Recovered
    <2>4. Recovered(order) = [i \in 1..Cardinality(Pending) |-> Recovered(order)[i]]
      BY DEF Recovered
    <2> QED BY <2>1, <2>2, <2>3, <2>4
  <1>5. WindowOK'
    BY <1>3, <1>4, RecoverFacts DEF TypeInv, WindowOK, history
  <1>6. InTime'
    BY <1>2, RecoverFacts DEF TypeInv, InTime
  <1> QED BY <1>1, <1>5, <1>6 DEF TypeInv

LEMMA TypeStep == TypeInv /\ [Next]_vars => TypeInv'
  <1> SUFFICES ASSUME TypeInv, [Next]_vars PROVE TypeInv'
    OBVIOUS
  <1>1. CASE UNCHANGED vars
    <2>1. UNCHANGED store /\ UNCHANGED window /\ UNCHANGED history
          /\ UNCHANGED <<clock, retry, sessions, upsets>>
      BY <1>1 DEF vars
    <2>2. StoreOK'
      BY <2>1, SameStore DEF TypeInv
    <2>3. WindowOK' /\ InTime'
      BY <2>1 DEF TypeInv, WindowOK, InTime, store, window, history
    <2> QED BY <2>2, <2>3 DEF TypeInv
  <1>2. CASE Tick \/ OpenWindow \/ Stop \/ Recover \/ RecoverNext \/ Evaluate \/ Dispose
    BY <1>2, TypeTick, TypeOpenWindow, TypeStop, TypeRecover, TypeRecoverNext, TypeEvaluate,
       TypeDispose
  <1>3. CASE \E p \in Pass : ClaimDue(p) \/ EvaluateEnds(p)
    BY <1>3, TypeClaimDue, TypeEvaluateEnds
  <1>4. CASE \E E \in {{}} \cup {{e} : e \in Event} : InboxAppeared(E)
    <2>1. PICK E \in {{}} \cup {{e} : e \in Event} : InboxAppeared(E)
      BY <1>4
    <2>2. E \in SUBSET Event
      OBVIOUS
    <2> QED BY <2>1, <2>2, TypeInboxAppeared
  <1>5. CASE \E e \in Event : ClaimEvent(e)
    BY <1>5, TypeClaimEvent
  <1>6. CASE InboxDone \/ RunNow \/ \E l \in launches : Launching(l)
    BY <1>6, TypeInboxDone, TypeRunNow, TypeLaunching
  <1>7. CASE (\E enabled \in BOOLEAN : Save(enabled)) \/ Upsert \/ Delete
    BY <1>7, TypeSave, TypeUpsert, TypeDelete
  <1> QED BY <1>1, <1>2, <1>3, <1>4, <1>5, <1>6, <1>7 DEF Next

-----------------------------------------------------------------------------
(* The schedule and the events *)

LEMMA ScheduleSame ==
  ASSUME ScheduleInv, UNCHANGED <<made, since, claims>>, SameSchedule(automation', automation)
  PROVE  ScheduleInv'
  BY DEF ScheduleInv, KeysInv, Scheduled, Claimed, ClaimedOnce, NoOccurrenceLost, SameSchedule

\* What Make appends.
LEMMA MadeIs ==
  ASSUME TypeInv, NEW kind, NEW key, NEW status, NEW next, NEW now,
         Make(kind, key, status, next, now)
  PROVE  /\ made' = Append(made, [kind |-> kind, key |-> key])
         /\ Len(made) \in Nat /\ DOMAIN made = 1..Len(made)
         /\ DOMAIN made' = 1..Len(made) + 1
         /\ \A i \in DOMAIN made : i \in DOMAIN made' /\ made'[i] = made[i] /\ i <= Len(made)
         /\ made'[Len(made) + 1] = [kind |-> kind, key |-> key]
         /\ \A i \in DOMAIN made' : i \in DOMAIN made \/ i = Len(made) + 1
         /\ automation'.next = next /\ automation'.exists = automation.exists
  <1>1. made \in Seq(Made) /\ automation \in AutomationType
    BY DEF TypeInv, StoreOK
  <1>2. made' = Append(made, [kind |-> kind, key |-> key])
        /\ automation' = [automation EXCEPT !.next = next, !.lastAt = now]
    BY DEF Make
  <1>3. automation'.next = next /\ automation'.exists = automation.exists
    BY <1>1, <1>2 DEF AutomationType
  <1> QED BY <1>1, <1>2, <1>3

LEMMA ScheduleClaimDue ==
  ASSUME TypeInv, ScheduleInv, NEW p \in Pass, ClaimDue(p) PROVE ScheduleInv'
  <1> DEFINE at == automation.next
             new == [kind |-> "scheduled", key |-> at]
  <1>1. /\ Make("scheduled", at, DueStatus(p), Following(p), pass[p].now) /\ Following(p) = at + 1
        /\ automation.exists /\ at \in Nat
        /\ UNCHANGED <<since, claims>>
    <2>1. /\ pass[p].at = automation.next /\ automation.exists /\ pass[p].at \in 1..MaxTime
          /\ Following(p) = pass[p].at + 1
      BY DueFacts
    <2>2. Make("scheduled", pass[p].at, DueStatus(p), Following(p), pass[p].now)
      BY DueMake
    <2>3. UNCHANGED <<since, claims>>
      BY DEF ClaimDue, history
    <2> QED BY <2>1, <2>2, <2>3
  <1>2. /\ Len(made) \in Nat
        /\ \A i \in DOMAIN made : i \in DOMAIN made' /\ made'[i] = made[i]
        /\ made'[Len(made) + 1] = new /\ Len(made) + 1 \in DOMAIN made'
        /\ \A i \in DOMAIN made' : i \in DOMAIN made \/ i = Len(made) + 1
        /\ automation'.next = at + 1 /\ automation'.exists = automation.exists
    <2> HIDE DEF at
    <2>1. /\ made' = Append(made, new) /\ Len(made) \in Nat /\ DOMAIN made' = 1..Len(made) + 1
          /\ \A i \in DOMAIN made : i \in DOMAIN made' /\ made'[i] = made[i]
          /\ made'[Len(made) + 1] = new
      BY <1>1, MadeIs
    <2>2. \A i \in DOMAIN made' : i \in DOMAIN made \/ i = Len(made) + 1
      BY <1>1, MadeIs
    <2>3. automation'.next = Following(p) /\ automation'.exists = automation.exists
      BY <1>1 DEF Make, TypeInv, StoreOK, AutomationType
    <2> QED BY <1>1, <2>1, <2>2, <2>3
  <1>3. since \in Nat /\ since <= at
    BY OccurrenceIs DEF TypeInv, WindowOK, ScheduleInv
  <1>4. \A i \in DOMAIN made : made[i].kind = "scheduled" => made[i].key \in Nat /\ made[i].key < at
    <2>1. ASSUME NEW i \in DOMAIN made, made[i].kind = "scheduled" PROVE made[i].key < at
      BY <1>1, <2>1 DEF ScheduleInv, Scheduled
    <2>2. ASSUME NEW i \in DOMAIN made, made[i].kind = "scheduled" PROVE made[i].key \in Nat
      BY <2>2 DEF KeysInv, ScheduleInv
    <2> QED BY <2>1, <2>2
  <1> HIDE DEF at
  <1>5. Scheduled(made', automation')
    <2>1. ASSUME NEW i \in DOMAIN made', made'[i].kind = "scheduled"
          PROVE  made'[i].key < at + 1
      <3>1. CASE i \in DOMAIN made
        BY <3>1, <2>1, <1>1, <1>2, <1>4
      <3>2. CASE i = Len(made) + 1
        BY <3>2, <1>1, <1>2
      <3> QED BY <3>1, <3>2, <1>2
    <2> QED BY <2>1, <1>2 DEF Scheduled
  <1>6. Claimed(made', automation', claims')
    BY <1>1, <1>2 DEF Claimed, ScheduleInv
  <1>7. ClaimedOnce'
    <2>1. ASSUME NEW i \in DOMAIN made PROVE made[i] # new
      <3>1. SUFFICES ASSUME made[i] = new PROVE FALSE
        OBVIOUS
      <3>2. made[i].kind = "scheduled" /\ made[i].key = at
        BY <3>1
      <3> QED BY <3>2, <1>1, <1>4
    <2> HIDE DEF new
    <2> QED BY <2>1, <1>2 DEF ClaimedOnce, ScheduleInv
  <1>8. NoOccurrenceLost'
    <2>1. ASSUME NEW o \in since..automation'.next - 1
          PROVE  \E i \in DOMAIN made' : made'[i] = [kind |-> "scheduled", key |-> o]
      <3>1. CASE o = at
        BY <3>1, <1>2
      <3>2. CASE o # at
        <4>1. o \in since..at - 1
          BY <3>2, <1>1, <1>2, <1>3
        <4>2. \E i \in DOMAIN made : made[i] = [kind |-> "scheduled", key |-> o]
          BY <4>1, <1>1 DEF NoOccurrenceLost, ScheduleInv, at
        <4> QED BY <4>2, <1>2
      <3> QED BY <3>1, <3>2
    <2> QED BY <2>1, <1>1 DEF NoOccurrenceLost
  <1>9. since' <= automation'.next
    BY <1>1, <1>2, <1>3
  <1>10. KeysInv'
    BY <1>1, <1>2 DEF KeysInv, ScheduleInv
  <1> QED BY <1>5, <1>6, <1>7, <1>8, <1>9, <1>10 DEF ScheduleInv

\* A run of another kind leaves the schedule alone.
LEMMA ScheduleOther ==
  ASSUME TypeInv, ScheduleInv, NEW kind \in {"event", "manual"}, NEW key \in Nat \cup Event,
         NEW now, Make(kind, key, "pending", automation.next, now),
         since' = since, claims \subseteq claims',
         kind = "event" => key \in Event /\ key \notin claims /\ key \in claims' /\ automation.exists
  PROVE  ScheduleInv'
  <1> DEFINE new == [kind |-> kind, key |-> key]
  <1>1. /\ Len(made) \in Nat
        /\ \A i \in DOMAIN made : i \in DOMAIN made' /\ made'[i] = made[i]
        /\ made'[Len(made) + 1] = new /\ Len(made) + 1 \in DOMAIN made'
        /\ \A i \in DOMAIN made' : i \in DOMAIN made \/ i = Len(made) + 1
        /\ automation'.next = automation.next /\ automation'.exists = automation.exists
    BY MadeIs
  <1>2. new.kind = kind /\ new.key = key /\ kind # "scheduled"
    OBVIOUS
  <1> HIDE DEF new
  <1>3. Scheduled(made', automation') /\ KeysInv'
    BY <1>1, <1>2 DEF Scheduled, ScheduleInv, KeysInv
  <1>4. Claimed(made', automation', claims')
    BY <1>1, <1>2 DEF Claimed, ScheduleInv
  <1>5. ClaimedOnce'
    <2>1. ASSUME NEW i \in DOMAIN made, kind = "event" PROVE made[i] # new
      BY <2>1, <1>2 DEF Claimed, ScheduleInv
    <2> QED BY <2>1, <1>1, <1>2 DEF ClaimedOnce, ScheduleInv
  <1>6. NoOccurrenceLost'
    BY <1>1 DEF NoOccurrenceLost, ScheduleInv
  <1> QED BY <1>1, <1>3, <1>4, <1>5, <1>6 DEF ScheduleInv

LEMMA ScheduleUpsert == ASSUME TypeInv, ScheduleInv, Upsert PROVE ScheduleInv'
  <1>1. CASE ~Valid
    BY <1>1, ScheduleSame DEF Upsert, SameSchedule
  <1>2. CASE Valid
    <2>1. /\ automation'.next = since' /\ automation.next <= since' /\ since' \in Nat
          /\ automation'.exists = automation.exists /\ automation.next \in Nat
          /\ UNCHANGED <<made, claims>>
      BY <1>2, UpsertFacts, OccurrenceIs, WindowFacts DEF Upsert
    <2>2. Scheduled(made', automation') /\ KeysInv'
      <3>1. ASSUME NEW i \in DOMAIN made, automation.exists, made[i].kind = "scheduled"
            PROVE  made[i].key < since'
        <4>1. made[i].key \in Nat /\ made[i].key < automation.next
          BY <3>1 DEF ScheduleInv, Scheduled, KeysInv
        <4> QED BY <4>1, <2>1
      <3> QED BY <3>1, <2>1 DEF Scheduled, KeysInv, ScheduleInv
    <2>3. NoOccurrenceLost'
      <3>1. since'..automation'.next - 1 = {}
        BY <2>1
      <3> QED BY <3>1 DEF NoOccurrenceLost
    <2>4. Claimed(made', automation', claims') /\ ClaimedOnce'
      BY <2>1 DEF Claimed, ClaimedOnce, ScheduleInv
    <2> QED BY <2>1, <2>2, <2>3, <2>4 DEF ScheduleInv
  <1> QED BY <1>1, <1>2

LEMMA ScheduleDelete == ASSUME TypeInv, ScheduleInv, Delete PROVE ScheduleInv'
  <1>1. automation' = Gone /\ since' = 1 /\ made' = made
    BY DEF Delete
  <1> QED BY <1>1, NothingType DEF ScheduleInv, Scheduled, Claimed, ClaimedOnce,
             NoOccurrenceLost, KeysInv

LEMMA EventsSame ==
  ASSUME EventInv, UNCHANGED <<claims, retry, batch>>, heard' \subseteq heard PROVE EventInv'
  BY DEF EventInv, EventKept

LEMMA EventsNoBatch ==
  ASSUME EventInv, UNCHANGED <<heard, claims, retry>>, batch' = NoBatch PROVE EventInv'
  BY DEF EventInv, EventKept, NoBatch

LEMMA EventsInboxAppeared ==
  ASSUME EventInv, NEW E \in SUBSET Event, InboxAppeared(E) PROVE EventInv'
  <1>1. batch'.seen = retry' /\ batch'.left = retry'
    BY DEF InboxAppeared, NoBatch
  <1> QED BY <1>1 DEF EventInv, EventKept, InboxAppeared, store

LEMMA EventsClaimEvent ==
  ASSUME TypeInv, EventInv, NEW e \in Event, ClaimEvent(e) PROVE EventInv'
  <1>1. batch \in BatchType /\ retry' = retry /\ e \in batch.left
    BY ClaimEventCases DEF TypeInv, WindowOK
  <1>2. CASE EventClaimed(e)
    <2>1. /\ batch'.seen = batch.seen /\ batch'.left = batch.left \ {e}
          /\ batch'.failed = batch.failed
      BY <1>1, <1>2 DEF EventClaimed, BatchType
    <2> QED BY <1>1, <1>2, <2>1 DEF EventInv, EventKept, EventClaimed
  <1>3. CASE EventRefused(e)
    <2>1. /\ batch'.seen = batch.seen /\ batch'.left = batch.left \ {e}
          /\ batch'.failed = batch.failed
      BY <1>1, <1>3 DEF EventRefused, BatchType
    <2> QED BY <1>1, <1>3, <2>1 DEF EventInv, EventKept, EventRefused, store
  <1>4. CASE EventFailed(e)
    <2>1. /\ batch'.seen = batch.seen /\ batch'.left = batch.left \ {e}
          /\ batch'.failed = batch.failed \cup {e}
      BY <1>1, <1>4 DEF EventFailed, BatchType
    <2> QED BY <1>1, <1>4, <2>1 DEF EventInv, EventKept, EventFailed, store
  <1> QED BY <1>2, <1>3, <1>4, ClaimEventCases

LEMMA EventsInboxDone == ASSUME EventInv, InboxDone PROVE EventInv'
  <1>1. /\ batch'.seen = {} /\ batch.left = {} /\ retry' = retry \ (batch.seen \ batch.failed)
        /\ UNCHANGED <<heard, claims>>
    BY DEF InboxDone, NoBatch, DoneEvents, store, history
  <1> QED BY <1>1 DEF EventInv, EventKept

LEMMA EventsDelete == ASSUME Delete PROVE EventInv'
  <1>1. heard' = {}
    BY DEF Delete
  <1> QED BY <1>1 DEF EventInv, EventKept

LEMMA FirstStep ==
  ASSUME TypeInv, ScheduleInv, EventInv, [Next]_vars PROVE ScheduleInv' /\ EventInv'
  <1>1. CASE Tick \/ OpenWindow \/ RecoverNext \/ Evaluate \/ Dispose \/ UNCHANGED vars
             \/ (\E p \in Pass : EvaluateEnds(p)) \/ (\E enabled \in BOOLEAN : Save(enabled))
    <2>1. UNCHANGED <<automation, made, since, claims, retry, batch, heard>>
      BY <1>1 DEF Tick, OpenWindow, RecoverNext, Evaluate, Dispose, EvaluateEnds, Save,
                  vars, store, window, history
    <2> QED BY <2>1, ScheduleSame, EventsSame DEF SameSchedule
  <1>2. CASE Stop
    <2>1. UNCHANGED <<automation, made, since, claims, retry, heard>> /\ batch' = NoBatch
      BY <1>2 DEF Stop, store, history
    <2> QED BY <2>1, ScheduleSame, EventsNoBatch DEF SameSchedule
  <1>3. CASE Recover
    <2>1. UNCHANGED <<made, since, claims, retry, batch, heard>>
      BY <1>3, RecoverFacts DEF history
    <2>2. SameSchedule(automation', automation)
      BY <1>3, CancelledRuns, RecoverFacts, ReportedType, WindowFacts
    <2> QED BY <2>1, <2>2, ScheduleSame, EventsSame
  <1>4. ASSUME NEW p \in Pass, ClaimDue(p) PROVE ScheduleInv' /\ EventInv'
    <2>1. UNCHANGED <<claims, retry, batch, heard>>
      BY <1>4 DEF ClaimDue, history
    <2> QED BY <1>4, <2>1, ScheduleClaimDue, EventsSame
  <1>5. ASSUME NEW E \in SUBSET Event, InboxAppeared(E) PROVE ScheduleInv' /\ EventInv'
    <2>1. UNCHANGED <<automation, made, since, claims>>
      BY <1>5 DEF InboxAppeared, store
    <2> QED BY <1>5, <2>1, ScheduleSame, EventsInboxAppeared DEF SameSchedule
  <1>6. ASSUME NEW e \in Event, ClaimEvent(e) PROVE ScheduleInv' /\ EventInv'
    <2>1. since' = since
      BY <1>6, ClaimEventCases
    <2>2. CASE EventClaimed(e)
      <3>1. /\ Make("event", e, "pending", automation.next, batch.now)
            /\ claims' = claims \cup {e} /\ e \notin claims /\ automation.exists
        BY <2>2 DEF EventClaimed
      <3>2. ScheduleInv'
        BY <2>1, <3>1, ScheduleOther
      <3> QED BY <1>6, <3>2, EventsClaimEvent
    <2>3. CASE EventRefused(e) \/ EventFailed(e)
      <3>1. UNCHANGED <<automation, made, claims>>
        BY <2>3 DEF EventRefused, EventFailed, store
      <3> QED BY <1>6, <2>1, <3>1, ScheduleSame, EventsClaimEvent DEF SameSchedule
    <2> QED BY <1>6, <2>2, <2>3, ClaimEventCases
  <1>7. CASE InboxDone
    <2>1. UNCHANGED <<automation, made, since, claims>>
      BY <1>7 DEF InboxDone, store, history
    <2> QED BY <1>7, <2>1, ScheduleSame, EventsInboxDone DEF SameSchedule
  <1>8. CASE RunNow
    <2>1. /\ Make("manual", None, "pending", automation.next, clock) /\ None \in Nat \cup Event
          /\ UNCHANGED <<since, claims, retry, batch, heard>>
      BY <1>8 DEF RunNow, None, history
    <2>2. ScheduleInv'
      BY <2>1, ScheduleOther
    <2> QED BY <2>1, <2>2, EventsSame
  <1>9. ASSUME NEW l \in launches, Launching(l) PROVE ScheduleInv' /\ EventInv'
    <2>1. UNCHANGED <<made, since, claims, retry, batch, heard>>
      BY <1>9 DEF Launching
    <2>2. SameSchedule(automation', automation)
      <3>1. CASE UNCHANGED <<automation, runs>>
        BY <3>1 DEF SameSchedule
      <3>2. ASSUME NEW status \in Status, NEW session \in Nat, run_update(l.run, status, session)
            PROVE  SameSchedule(automation', automation)
        <4>1. StoreOK /\ l.run \in Ids
          BY LaunchFacts DEF TypeInv
        <4> QED BY <3>2, <4>1, UpdateStep
      <3> QED BY <1>9, <3>1, <3>2, LaunchingRuns
    <2> QED BY <2>1, <2>2, ScheduleSame, EventsSame
  <1>10. CASE Upsert
    <2>1. UNCHANGED <<claims, retry, batch, heard>>
      BY <1>10 DEF Upsert
    <2> QED BY <1>10, <2>1, ScheduleUpsert, EventsSame
  <1>11. CASE Delete
    BY <1>11, ScheduleDelete, EventsDelete
  <1>12. ASSUME NEW E \in {{}} \cup {{e} : e \in Event} PROVE E \in SUBSET Event
    OBVIOUS
  <1> QED BY <1>1, <1>2, <1>3, <1>4, <1>5, <1>6, <1>7, <1>8, <1>9, <1>10, <1>11, <1>12 DEF Next

-----------------------------------------------------------------------------
(* What waits, what is launched, and their runs: the steps that do not       *)
(* launch                                                                    *)

LEMMA InHandIs ==
  /\ DOMAIN InHand = {"first", "torn", "events", "recovered"}
  /\ InHand["first"] = pass[1].claimed /\ InHand["torn"] = pass[2].claimed
  /\ InHand["events"] = batch.claimed /\ InHand["recovered"] = recovering.left
  BY DEF InHand

LEMMA InHandNext ==
  /\ DOMAIN InHand' = {"first", "torn", "events", "recovered"}
  /\ InHand'["first"] = pass'[1].claimed /\ InHand'["torn"] = pass'[2].claimed
  /\ InHand'["events"] = batch'.claimed /\ InHand'["recovered"] = recovering'.left
  BY DEF InHand

LEMMA InHandType ==
  ASSUME TypeInv
  PROVE  \A h \in DOMAIN InHand : InHand[h] \in Seq(Claim)
  <1>1. 1 \in Pass /\ 2 \in Pass
    BY DEF Pass
  <1>2. /\ pass[1].claimed \in Seq(Claim) /\ pass[2].claimed \in Seq(Claim)
        /\ batch.claimed \in Seq(Claim) /\ recovering.left \in Seq(Claim)
    BY <1>1, WindowFacts
  <1> QED BY <1>2, InHandIs

\* What is waiting may be launched or dropped, and what is launched may end.
LEMMA FitsLaunch ==
  ASSUME NEW W, NEW X, NEW L, NEW K, NEW n, NEW R, NEW Q, NEW S,
         Fits(W, L, n, R, S), X \subseteq W, Q \subseteq R,
         \A l \in K : l \in L \/ (l.stage = "reserved" /\ l.run \in W)
  PROVE  Fits(X, K, n, Q, S)
  <1>1. \A i \in X : i <= n /\ Unsent(i, Q, S)
    BY DEF Fits, Unsent
  <1>2. \A l \in K : l.run <= n /\ OnItsWay(l, Q, S)
    BY DEF Fits, OnItsWay, Unsent
  <1> QED BY <1>1, <1>2 DEF Fits

\* A run that is made is nobody's, and it may wait when it is pending.
LEMMA FitsMake ==
  ASSUME TypeInv, NEW W, NEW L, Fits(W, L, Len(made), runs, submitted),
         W \subseteq Ids, L \subseteq LaunchType,
         NEW status \in Status, NewRun \in Ids, Len(made') = Len(made) + 1,
         \A r \in runs' : r \in runs \/ (r.id = NewRun /\ r.status = status)
  PROVE  /\ NewRun \notin W /\ NewRun \notin Launched(L)
         /\ Fits(W, L, Len(made'), runs', submitted)
         /\ status = "pending" => Fits(W \cup {NewRun}, L, Len(made'), runs', submitted)
  <1>1. Len(made) \in Nat /\ NewRun = Len(made) + 1 /\ submitted[NewRun] = 0
    <2>1. Len(made) \in Nat
      BY DEF TypeInv, StoreOK
    <2> QED BY <2>1 DEF NewRun, Fits
  <1>2. \A r \in runs : r.id <= Len(made) /\ r.id \in Nat /\ r.id # NewRun
    <2>1. \A r \in runs : r.id <= Len(made) /\ r \in Run
      BY DEF TypeInv, StoreOK, RunsOK
    <2> QED BY <2>1, <1>1, RunFields
  <1>3. \A i \in W : i <= Len(made) /\ i \in Nat /\ i # NewRun /\ i <= Len(made')
    <2>1. \A i \in W : i <= Len(made) /\ i \in Nat
      BY DEF Fits, Ids
    <2> QED BY <2>1, <1>1
  <1>4. \A l \in L : l.run <= Len(made) /\ l.run \in Nat /\ l.run # NewRun /\ l.run <= Len(made')
    <2>1. \A l \in L : l.run <= Len(made) /\ l.run \in Nat
      BY DEF Fits, Ids, LaunchType
    <2> QED BY <2>1, <1>1
  <1>5. NewRun \notin W /\ NewRun \notin Launched(L)
    BY <1>3, <1>4 DEF Launched
  <1>6. \A i \in W : i <= Len(made') /\ Unsent(i, runs', submitted)
    BY <1>3 DEF Fits, Unsent
  <1>7. \A l \in L : l.run <= Len(made') /\ OnItsWay(l, runs', submitted)
    BY <1>4 DEF Fits, OnItsWay, Unsent
  <1>8. \A r \in runs' : r.status = "pending" => submitted[r.id] = 0
    BY <1>1 DEF Fits
  <1>9. \A i \in Ids : submitted[i] <= 1 /\ (i > Len(made') => submitted[i] = 0)
    BY <1>1 DEF Fits, Ids
  <1>10. status = "pending" => Unsent(NewRun, runs', submitted) /\ NewRun <= Len(made')
    BY <1>1, <1>2 DEF Unsent
  <1> QED BY <1>5, <1>6, <1>7, <1>8, <1>9, <1>10 DEF Fits

-----------------------------------------------------------------------------
(* In one place only *)

Holds(H) == \A h \in DOMAIN H : H[h] \in Seq(Claim)

\* Some hands are emptied, and nothing is launched but what they held.
LEMMA OnceDrop ==
  ASSUME NEW H, NEW G, NEW L, NEW K, OnceOnly(H, L), DOMAIN G = DOMAIN H,
         \A h \in DOMAIN H : G[h] = H[h] \/ G[h] = <<>>,
         \A i \in Launched(K) : \/ i \in Launched(L)
                                \/ \E h \in DOMAIN H : G[h] = <<>> /\ i \in Waiting(H[h])
  PROVE  OnceOnly(G, K) /\ AllWaiting(G) \subseteq AllWaiting(H)
  <1>1. Waiting(<<>>) = {} /\ DOMAIN <<>> = {}
    BY DEF Waiting
  <1>2. \A h \in DOMAIN G : Waiting(G[h]) \subseteq Waiting(H[h])
    BY <1>1
  <1>3. \A h \in DOMAIN G : \A i, j \in DOMAIN G[h] : G[h][i].run = G[h][j].run => i = j
    BY <1>1 DEF OnceOnly
  <1>4. \A h, k \in DOMAIN G : h # k => Waiting(G[h]) \cap Waiting(G[k]) = {}
    BY <1>2 DEF OnceOnly
  <1>5. ASSUME NEW h \in DOMAIN G, NEW i \in Waiting(G[h]), i \in Launched(K) PROVE FALSE
    <2>1. i \in Waiting(H[h]) /\ G[h] # <<>>
      BY <1>1, <1>2, <1>5
    <2>2. CASE i \in Launched(L)
      BY <2>1, <2>2 DEF OnceOnly
    <2>3. CASE \E k \in DOMAIN H : G[k] = <<>> /\ i \in Waiting(H[k])
      <3>1. PICK k \in DOMAIN H : G[k] = <<>> /\ i \in Waiting(H[k])
        BY <2>3
      <3>2. k # h
        BY <2>1, <3>1
      <3> QED BY <2>1, <3>1, <3>2 DEF OnceOnly
    <2> QED BY <1>5, <2>2, <2>3
  <1>6. AllWaiting(G) \subseteq AllWaiting(H)
    BY <1>2 DEF AllWaiting
  <1>7. \A h \in DOMAIN G : Waiting(G[h]) \cap Launched(K) = {}
    BY <1>5
  <1> QED BY <1>3, <1>4, <1>6, <1>7 DEF OnceOnly

LEMMA WaitingAppend ==
  ASSUME NEW s \in Seq(Claim), NEW c \in Claim
  PROVE  /\ Waiting(Append(s, c)) = Waiting(s) \cup {c.run}
         /\ OwnRuns(s) /\ c.run \notin Waiting(s) => OwnRuns(Append(s, c))
  <1>1. /\ Len(s) \in Nat /\ DOMAIN s = 1..Len(s) /\ DOMAIN Append(s, c) = 1..Len(s) + 1
        /\ Append(s, c)[Len(s) + 1] = c
        /\ \A i \in DOMAIN s : i \in DOMAIN Append(s, c) /\ Append(s, c)[i] = s[i]
    OBVIOUS
  <1>2. \A i \in DOMAIN Append(s, c) : i \in DOMAIN s \/ i = Len(s) + 1
    BY <1>1
  <1>3. Len(s) + 1 \in DOMAIN Append(s, c)
    BY <1>1
  <1> DEFINE t == Append(s, c)
  <1> HIDE DEF t
  <1>4. Waiting(t) = Waiting(s) \cup {c.run}
    BY <1>1, <1>2, <1>3 DEF Waiting, t
  <1>5. ASSUME OwnRuns(s), c.run \notin Waiting(s) PROVE OwnRuns(t)
    BY <1>1, <1>2, <1>5 DEF Waiting, OwnRuns, t
  <1> QED BY <1>4, <1>5 DEF t

\* A new claim joins one hand.
LEMMA OnceAppend ==
  ASSUME NEW H, NEW G, NEW L, OnceOnly(H, L), DOMAIN G = DOMAIN H, Holds(H),
         NEW h \in DOMAIN H, NEW c \in Claim, G[h] = Append(H[h], c),
         \A k \in DOMAIN H \ {h} : G[k] = H[k],
         c.run \notin AllWaiting(H), c.run \notin Launched(L)
  PROVE  OnceOnly(G, L)
  <1>1. /\ Waiting(G[h]) = Waiting(H[h]) \cup {c.run}
        /\ OwnRuns(H[h]) /\ c.run \notin Waiting(H[h]) => OwnRuns(G[h])
    BY WaitingAppend DEF Holds
  <1>2. \A k \in DOMAIN H : c.run \notin Waiting(H[k])
    BY DEF AllWaiting
  <1>3. OwnRuns(G[h])
    BY <1>1, <1>2 DEF OnceOnly, OwnRuns
  <1>4. \A k \in DOMAIN G : \A i, j \in DOMAIN G[k] : G[k][i].run = G[k][j].run => i = j
    BY <1>3 DEF OnceOnly, OwnRuns
  <1>5. \A k \in DOMAIN G \ {h} : Waiting(G[k]) = Waiting(H[k])
    OBVIOUS
  <1>6. ASSUME NEW k \in DOMAIN G, NEW m \in DOMAIN G, k # m
        PROVE  Waiting(G[k]) \cap Waiting(G[m]) = {}
    <2>1. Waiting(H[k]) \cap Waiting(H[m]) = {} /\ c.run \notin Waiting(H[k]) /\ c.run \notin Waiting(H[m])
      BY <1>2, <1>6 DEF OnceOnly
    <2>2. /\ Waiting(G[k]) = Waiting(H[k]) \/ (k = h /\ Waiting(G[k]) = Waiting(H[k]) \cup {c.run})
          /\ Waiting(G[m]) = Waiting(H[m]) \/ (m = h /\ Waiting(G[m]) = Waiting(H[m]) \cup {c.run})
      BY <1>1, <1>5
    <2> QED BY <2>1, <2>2, <1>6
  <1>7. ASSUME NEW k \in DOMAIN G PROVE Waiting(G[k]) \cap Launched(L) = {}
    <2>1. Waiting(H[k]) \cap Launched(L) = {}
      BY DEF OnceOnly
    <2>2. Waiting(G[k]) = Waiting(H[k]) \/ Waiting(G[k]) = Waiting(H[k]) \cup {c.run}
      BY <1>1, <1>5
    <2> QED BY <2>1, <2>2
  <1> QED BY <1>4, <1>6, <1>7 DEF OnceOnly

LEMMA WaitingGrows ==
  ASSUME NEW H, NEW G, DOMAIN G = DOMAIN H, Holds(H),
         NEW h \in DOMAIN H, NEW c \in Claim, G[h] = Append(H[h], c),
         \A k \in DOMAIN H \ {h} : G[k] = H[k]
  PROVE  AllWaiting(G) = AllWaiting(H) \cup {c.run}
  <1>1. Waiting(G[h]) = Waiting(H[h]) \cup {c.run}
    BY WaitingAppend DEF Holds
  <1>2. \A k \in DOMAIN G \ {h} : Waiting(G[k]) = Waiting(H[k])
    OBVIOUS
  <1> QED BY <1>1, <1>2 DEF AllWaiting

\* The first claim of a hand is launched.
LEMMA OnceTail ==
  ASSUME NEW H, NEW G, NEW L, NEW K, OnceOnly(H, L), DOMAIN G = DOMAIN H, Holds(H),
         NEW h \in DOMAIN H, H[h] # <<>>, G[h] = Tail(H[h]),
         \A k \in DOMAIN H \ {h} : G[k] = H[k],
         Launched(K) = Launched(L) \cup {Head(H[h]).run}
  PROVE  OnceOnly(G, K) /\ AllWaiting(G) \subseteq AllWaiting(H)
  <1> DEFINE s == H[h]
  <1>1. s \in Seq(Claim) /\ s # <<>>
    BY DEF Holds
  <1>2. /\ Len(s) \in Nat /\ Len(s) > 0 /\ DOMAIN s = 1..Len(s) /\ Head(s) = s[1]
        /\ DOMAIN Tail(s) = 1..Len(s) - 1
        /\ \A i \in DOMAIN Tail(s) : i \in Nat /\ i + 1 \in DOMAIN s /\ Tail(s)[i] = s[i + 1]
    <2> HIDE DEF s
    <2> QED BY <1>1
  <1>3. \A i, j \in DOMAIN s : s[i].run = s[j].run => i = j
    BY DEF OnceOnly
  <1>4. Waiting(G[h]) \subseteq Waiting(H[h]) /\ Head(s).run \notin Waiting(G[h])
    <2>1. Waiting(G[h]) \subseteq Waiting(s)
      BY <1>2 DEF Waiting
    <2>2. ASSUME NEW i \in DOMAIN Tail(s) PROVE Tail(s)[i].run # Head(s).run
      <3>1. i \in Nat /\ i >= 1 /\ i + 1 \in DOMAIN s /\ i + 1 # 1 /\ 1 \in DOMAIN s
        BY <1>2
      <3> QED BY <3>1, <1>2, <1>3
    <2> QED BY <2>1, <2>2 DEF Waiting
  <1>5. Head(s).run \in Waiting(s)
    <2>1. 1 \in DOMAIN s
      BY <1>2
    <2> QED BY <2>1, <1>2 DEF Waiting
  <1>6. ASSUME NEW i \in DOMAIN G[h], NEW j \in DOMAIN G[h], G[h][i].run = G[h][j].run
        PROVE  i = j
    <2>1. i \in Nat /\ j \in Nat /\ i + 1 \in DOMAIN s /\ j + 1 \in DOMAIN s
          /\ s[i + 1].run = s[j + 1].run
      BY <1>2, <1>6
    <2>2. i + 1 = j + 1
      BY <2>1, <1>3
    <2> QED BY <2>1, <2>2
  <1>7. \A k \in DOMAIN G \ {h} : G[k] = H[k] /\ Head(s).run \notin Waiting(G[k])
    BY <1>5 DEF OnceOnly
  <1> HIDE DEF s
  <1>8. \A k \in DOMAIN G : \A i, j \in DOMAIN G[k] : G[k][i].run = G[k][j].run => i = j
    BY <1>6, <1>7 DEF OnceOnly
  <1>9. \A k \in DOMAIN G : Waiting(G[k]) \subseteq Waiting(H[k])
    BY <1>4, <1>7
  <1>10. \A k, m \in DOMAIN G : k # m => Waiting(G[k]) \cap Waiting(G[m]) = {}
    BY <1>9 DEF OnceOnly
  <1>11. ASSUME NEW k \in DOMAIN G PROVE Waiting(G[k]) \cap Launched(K) = {}
    <2>1. Waiting(H[k]) \cap Launched(L) = {}
      BY DEF OnceOnly
    <2>2. Head(s).run \notin Waiting(G[k])
      BY <1>4, <1>7
    <2>3. Launched(K) = Launched(L) \cup {Head(s).run}
      BY DEF s
    <2> QED BY <2>1, <2>2, <2>3, <1>9
  <1>12. AllWaiting(G) \subseteq AllWaiting(H)
    BY <1>9 DEF AllWaiting
  <1> QED BY <1>8, <1>10, <1>11, <1>12 DEF OnceOnly

-----------------------------------------------------------------------------
(* The steps of the launches *)

LEMMA Waits ==
  ASSUME TypeInv
  PROVE  Holds(InHand) /\ AllWaiting(InHand) \subseteq Ids /\ launches \subseteq LaunchType
  <1>1. Holds(InHand)
    BY InHandType DEF Holds
  <1>2. ASSUME NEW s \in Seq(Claim) PROVE Waiting(s) \subseteq Ids
    <2>1. \A i \in DOMAIN s : s[i] \in Claim
      OBVIOUS
    <2> QED BY <2>1 DEF Waiting, Claim
  <1>3. AllWaiting(InHand) \subseteq Ids
    BY <1>1, <1>2 DEF AllWaiting, Holds
  <1> QED BY <1>1, <1>3 DEF TypeInv, WindowOK, LaunchesOK

\* Nothing is launched, and runs, claims in hand and launches may go.
LEMMA LaunchFewer ==
  ASSUME TypeInv, LaunchInv, Len(made') = Len(made), submitted' = submitted, runs' \subseteq runs,
         launches' \subseteq launches, \A h \in DOMAIN InHand : InHand'[h] = InHand[h] \/ InHand'[h] = <<>>
  PROVE  LaunchInv'
  <1>1. DOMAIN InHand' = DOMAIN InHand
    BY InHandIs, InHandNext
  <1>2. \A i \in Launched(launches') : i \in Launched(launches)
    BY DEF Launched
  <1>3. OnceOnly(InHand', launches') /\ AllWaiting(InHand') \subseteq AllWaiting(InHand)
    <2>1. OnceOnly(InHand, launches)
      BY DEF LaunchInv
    <2> QED BY <1>1, <1>2, <2>1, OnceDrop
  <1>4. Distinct(launches')
    BY DEF LaunchInv, Distinct
  <1>5. Fits(AllWaiting(InHand'), launches', Len(made'), runs', submitted')
    <2>1. Fits(AllWaiting(InHand), launches, Len(made), runs, submitted)
      BY DEF LaunchInv
    <2> QED BY <2>1, <1>3, FitsLaunch
  <1> QED BY <1>3, <1>4, <1>5 DEF LaunchInv

\* What one hand holds is launched.
LEMMA LaunchHand ==
  ASSUME TypeInv, LaunchInv, UNCHANGED <<made, submitted, runs>>, NEW h \in DOMAIN InHand,
         LaunchAll(InHand[h]), InHand'[h] = <<>>, \A k \in DOMAIN InHand \ {h} : InHand'[k] = InHand[k]
  PROVE  LaunchInv'
  <1>0. /\ LaunchesOK(launches, sessions) /\ InHand[h] \in Seq(Claim)
        /\ OnceOnly(InHand, launches) /\ Distinct(launches)
        /\ Fits(AllWaiting(InHand), launches, Len(made), runs, submitted)
    BY InHandType DEF TypeInv, WindowOK, LaunchInv
  <1>1. DOMAIN InHand' = DOMAIN InHand
    BY InHandIs, InHandNext
  <1>2. /\ Launched(launches') = Launched(launches) \cup Waiting(InHand[h])
        /\ \A l \in launches' : l \in launches \/ (l.run \in Waiting(InHand[h]) /\ l.stage = "reserved")
    BY <1>0, LaunchAllType
  <1>3. OnceOnly(InHand', launches') /\ AllWaiting(InHand') \subseteq AllWaiting(InHand)
    <2>1. \A i \in Launched(launches') : \/ i \in Launched(launches)
              \/ \E k \in DOMAIN InHand : InHand'[k] = <<>> /\ i \in Waiting(InHand[k])
      BY <1>2
    <2> QED BY <1>0, <1>1, <2>1, OnceDrop
  <1>4. Distinct(launches')
    <2>1. OwnRuns(InHand[h]) /\ Waiting(InHand[h]) \cap Launched(launches) = {}
      BY <1>0 DEF OnceOnly, OwnRuns
    <2> QED BY <1>0, <2>1, LaunchAllDistinct
  <1>5. Fits(AllWaiting(InHand'), launches', Len(made'), runs', submitted')
    <2>1. \A l \in launches' : l \in launches \/ (l.stage = "reserved" /\ l.run \in AllWaiting(InHand))
      BY <1>2 DEF AllWaiting
    <2> QED BY <1>0, <1>3, <2>1, FitsLaunch
  <1> QED BY <1>3, <1>4, <1>5 DEF LaunchInv

LEMMA LaunchQuiet ==
  ASSUME TypeInv, LaunchInv,
         UNCHANGED <<made, runs, submitted, recovering, pass, batch, launches>>
  PROVE  LaunchInv'
  <1>1. \A h \in DOMAIN InHand : InHand'[h] = InHand[h]
    BY InHandIs, InHandNext
  <1> QED BY <1>1, LaunchFewer

LEMMA LaunchStop == ASSUME TypeInv, LaunchInv, Stop PROVE LaunchInv'
  <1>1. /\ pass'[1] = NoPass /\ pass'[2] = NoPass /\ batch' = NoBatch /\ recovering'.left = <<>>
        /\ UNCHANGED <<made, runs, submitted>> /\ launches' = {}
    BY DEF Stop, Pass, store, history
  <1>2. \A h \in DOMAIN InHand : InHand'[h] = <<>>
    BY <1>1, InHandIs, InHandNext DEF NoPass, NoBatch
  <1> QED BY <1>1, <1>2, LaunchFewer

LEMMA LaunchDelete == ASSUME TypeInv, LaunchInv, Delete PROVE LaunchInv'
  <1>1. UNCHANGED <<made, submitted, recovering, pass, batch, launches>> /\ runs' = {}
    BY DEF Delete, window
  <1>2. \A h \in DOMAIN InHand : InHand'[h] = InHand[h]
    BY <1>1, InHandIs, InHandNext
  <1> QED BY <1>1, <1>2, LaunchFewer

\* A pass begins with nothing in hand.
LEMMA LaunchEvaluate == ASSUME TypeInv, LaunchInv, Evaluate PROVE LaunchInv'
  <1>1. pass \in [Pass -> PassType] /\ 1 \in Pass /\ 2 \in Pass
    BY DEF TypeInv, WindowOK, Pass
  <1>2. pass' = [pass EXCEPT ![1] = [pass[1] EXCEPT !.now = clock, !.at = automation.next]]
        /\ UNCHANGED <<made, runs, submitted, recovering, batch, launches>>
    BY <1>1 DEF Evaluate, store, history
  <1>3. pass'[2] = pass[2] /\ pass'[1].claimed = pass[1].claimed
    BY <1>1, <1>2 DEF PassType
  <1>4. \A h \in DOMAIN InHand : InHand'[h] = InHand[h]
    BY <1>2, <1>3, InHandIs, InHandNext
  <1> QED BY <1>2, <1>4, LaunchFewer

LEMMA LaunchEvaluateEnds ==
  ASSUME TypeInv, LaunchInv, NEW p \in Pass, EvaluateEnds(p) PROVE LaunchInv'
  <1>1. pass \in [Pass -> PassType] /\ p \in {1, 2} /\ 1 \in Pass /\ 2 \in Pass
    BY DEF TypeInv, WindowOK, Pass
  <1>2. pass' = [pass EXCEPT ![p] = NoPass]
        /\ UNCHANGED <<made, runs, submitted, recovering, batch>>
    BY DEF EvaluateEnds, store, history
  <1>3. pass'[p].claimed = <<>> /\ \A q \in Pass \ {p} : pass'[q] = pass[q]
    BY <1>1, <1>2 DEF NoPass
  <1>4. CASE p = 2
    <2>1. launches' = launches
      BY <1>4 DEF EvaluateEnds
    <2>2. \A h \in DOMAIN InHand : InHand'[h] = InHand[h] \/ InHand'[h] = <<>>
      BY <1>1, <1>2, <1>3, <1>4, InHandIs, InHandNext
    <2> QED BY <1>2, <2>1, <2>2, LaunchFewer
  <1>5. CASE p = 1
    <2>1. LaunchAll(InHand["first"])
      BY <1>5, InHandIs DEF EvaluateEnds
    <2>2. /\ "first" \in DOMAIN InHand /\ InHand'["first"] = <<>>
          /\ \A k \in DOMAIN InHand \ {"first"} : InHand'[k] = InHand[k]
      BY <1>1, <1>2, <1>3, <1>5, InHandIs, InHandNext
    <2> QED BY <1>2, <2>1, <2>2, LaunchHand
  <1> QED BY <1>1, <1>4, <1>5

\* The claims of a pass that is torn down stay with it.
LEMMA LaunchDispose == ASSUME TypeInv, LaunchInv, Dispose PROVE LaunchInv'
  <1>1. pass \in [Pass -> PassType] /\ 1 \in Pass /\ 2 \in Pass
    BY DEF TypeInv, WindowOK, Pass
  <1>2. pass' = [pass EXCEPT ![1] = NoPass, ![2] = pass[1]] /\ pass[2] = NoPass
        /\ UNCHANGED <<made, runs, submitted, recovering, batch, launches>>
    BY DEF Dispose, store, history
  <1>3. pass'[1].claimed = <<>> /\ pass'[2] = pass[1] /\ pass[2].claimed = <<>>
    BY <1>1, <1>2 DEF NoPass
  <1> DEFINE H == InHand
             G == InHand'
  <1>4. /\ DOMAIN H = {"first", "torn", "events", "recovered"} /\ DOMAIN G = DOMAIN H
        /\ G["first"] = <<>> /\ G["torn"] = H["first"] /\ H["torn"] = <<>>
        /\ G["events"] = H["events"] /\ G["recovered"] = H["recovered"]
    BY <1>2, <1>3, InHandIs, InHandNext
  <1>5. OnceOnly(H, launches) /\ Distinct(launches)
        /\ Fits(AllWaiting(H), launches, Len(made), runs, submitted)
    BY DEF LaunchInv
  <1> HIDE DEF H, G
  <1> DEFINE from(h) == IF h = "torn" THEN "first" ELSE h
  <1>6. \A h \in DOMAIN G : /\ from(h) \in DOMAIN H
                            /\ G[h] = H[from(h)] \/ G[h] = <<>>
    BY <1>4
  <1>7. Waiting(<<>>) = {} /\ DOMAIN <<>> = {}
    BY DEF Waiting
  <1>8. \A h, k \in DOMAIN G : h # k => from(h) # from(k) \/ G[h] = <<>> \/ G[k] = <<>>
    BY <1>4
  <1> HIDE DEF from
  <1>9. \A h \in DOMAIN G : \A i, j \in DOMAIN G[h] : G[h][i].run = G[h][j].run => i = j
    BY <1>5, <1>6, <1>7 DEF OnceOnly
  <1>10. ASSUME NEW h \in DOMAIN G, NEW k \in DOMAIN G, h # k
         PROVE  Waiting(G[h]) \cap Waiting(G[k]) = {}
    <2>1. CASE G[h] = <<>> \/ G[k] = <<>>
      BY <1>7, <2>1
    <2>2. CASE G[h] # <<>> /\ G[k] # <<>>
      <3>1. G[h] = H[from(h)] /\ G[k] = H[from(k)] /\ from(h) # from(k)
            /\ from(h) \in DOMAIN H /\ from(k) \in DOMAIN H
        BY <1>6, <1>8, <1>10, <2>2
      <3> QED BY <1>5, <3>1 DEF OnceOnly
    <2> QED BY <2>1, <2>2
  <1>11. ASSUME NEW h \in DOMAIN G
         PROVE  Waiting(G[h]) \cap Launched(launches) = {} /\ Waiting(G[h]) \subseteq AllWaiting(H)
    BY <1>5, <1>6, <1>7 DEF OnceOnly, AllWaiting
  <1>12. OnceOnly(G, launches) /\ AllWaiting(G) \subseteq AllWaiting(H)
    BY <1>9, <1>10, <1>11 DEF OnceOnly, AllWaiting
  <1>13. Fits(AllWaiting(G), launches, Len(made), runs, submitted)
    BY <1>5, <1>12, FitsLaunch
  <1> QED BY <1>2, <1>5, <1>12, <1>13 DEF LaunchInv, G

LEMMA LaunchInboxDone == ASSUME TypeInv, LaunchInv, InboxDone PROVE LaunchInv'
  <1>1. /\ LaunchAll(batch.claimed) /\ batch'.claimed = <<>>
        /\ UNCHANGED <<made, runs, submitted, recovering, pass>>
    BY DEF InboxDone, NoBatch, store, history
  <1>2. LaunchAll(InHand["events"])
    BY <1>1, InHandIs
  <1>3. /\ "events" \in DOMAIN InHand /\ InHand'["events"] = <<>>
        /\ \A k \in DOMAIN InHand \ {"events"} : InHand'[k] = InHand[k]
    BY <1>1, InHandIs, InHandNext
  <1> QED BY <1>1, <1>2, <1>3, LaunchHand

LEMMA LaunchInboxAppeared ==
  ASSUME TypeInv, LaunchInv, NEW E \in SUBSET Event, InboxAppeared(E) PROVE LaunchInv'
  <1>1. /\ batch'.claimed = <<>>
        /\ UNCHANGED <<made, runs, submitted, recovering, pass, launches>>
    BY DEF InboxAppeared, NoBatch, store
  <1>2. \A h \in DOMAIN InHand : InHand'[h] = InHand[h] \/ InHand'[h] = <<>>
    BY <1>1, InHandIs, InHandNext
  <1> QED BY <1>1, <1>2, LaunchFewer

LEMMA MakeRuns ==
  ASSUME NEW kind, NEW key, NEW status, NEW next, NEW now, Make(kind, key, status, next, now)
  PROVE  \A r \in runs' : r \in runs \/ (r.id = NewRun /\ r.status = status /\ r.at = now)
  <1> DEFINE new == [id |-> NewRun, status |-> status, at |-> now, session |-> None]
             all == runs \cup {new}
  <1>1. runs' = trim_history(all)
    BY DEF Make
  <1>2. new.id = NewRun /\ new.status = status /\ new.at = now
    OBVIOUS
  <1>3. runs' \subseteq all
    <2> HIDE DEF all
    <2> QED BY <1>1, TrimKeeps
  <1> QED BY <1>2, <1>3

\* A run is made and joins a hand, or none.
LEMMA LaunchMake ==
  ASSUME TypeInv, LaunchInv, NEW kind \in {"scheduled", "event", "manual"},
         NEW key \in Nat \cup Event, NEW status \in Status, NEW next \in Occurrence,
         NEW now \in 1..MaxTime, Make(kind, key, status, next, now)
  PROVE  /\ NewClaim \in Claim /\ NewClaim.run = NewRun
         /\ Len(made') = Len(made) + 1
         /\ NewRun \notin AllWaiting(InHand) /\ NewRun \notin Launched(launches)
         /\ Fits(AllWaiting(InHand), launches, Len(made'), runs', submitted)
         /\ status = "pending" =>
              Fits(AllWaiting(InHand) \cup {NewRun}, launches, Len(made'), runs', submitted)
  <1>1. StoreOK
    BY DEF TypeInv
  <1>2. NewRun \in Ids
    BY <1>1, MakeStep
  <1>3. Len(made') = Len(made) + 1
    BY <1>1, MakeStep
  <1>4. \A r \in runs' : r \in runs \/ (r.id = NewRun /\ r.status = status /\ r.at = now)
    BY MakeRuns
  <1>5. NewClaim \in Claim /\ NewClaim.run = NewRun
    BY <1>2, WindowFacts DEF NewClaim, Claim
  <1>6. Fits(AllWaiting(InHand), launches, Len(made), runs, submitted)
        /\ AllWaiting(InHand) \subseteq Ids /\ launches \subseteq LaunchType
    BY Waits DEF LaunchInv
  <1> DEFINE W == AllWaiting(InHand)
  <1> HIDE DEF W
  <1>7. /\ NewRun \notin W /\ NewRun \notin Launched(launches)
        /\ Fits(W, launches, Len(made'), runs', submitted)
        /\ status = "pending" => Fits(W \cup {NewRun}, launches, Len(made'), runs', submitted)
    <2>1. \A r \in runs' : r \in runs \/ (r.id = NewRun /\ r.status = status)
      BY <1>4
    <2>2. Fits(W, launches, Len(made), runs, submitted) /\ W \subseteq Ids
      BY <1>6 DEF W
    <2> QED BY <1>2, <1>3, <1>6, <2>1, <2>2, FitsMake
  <1> QED BY <1>3, <1>5, <1>7 DEF W

\* The new run is claimed into one hand.
LEMMA LaunchClaim ==
  ASSUME TypeInv, LaunchInv, NEW kind \in {"scheduled", "event", "manual"},
         NEW key \in Nat \cup Event, NEW next \in Occurrence,
         NEW now \in 1..MaxTime, Make(kind, key, "pending", next, now),
         NEW h \in DOMAIN InHand, InHand'[h] = Append(InHand[h], NewClaim),
         \A k \in DOMAIN InHand \ {h} : InHand'[k] = InHand[k], UNCHANGED <<launches, submitted>>
  PROVE  LaunchInv'
  <1>0. "pending" \in Status
    BY DEF Status
  <1>1. NewClaim \in Claim /\ NewClaim.run = NewRun
    BY <1>0, LaunchMake
  <1>2. NewRun \notin AllWaiting(InHand) /\ NewRun \notin Launched(launches)
    BY <1>0, LaunchMake
  <1>3. Fits(AllWaiting(InHand) \cup {NewRun}, launches, Len(made'), runs', submitted)
    BY <1>0, LaunchMake
  <1>4. DOMAIN InHand' = DOMAIN InHand /\ Holds(InHand)
    BY InHandIs, InHandNext, Waits
  <1>5. OnceOnly(InHand', launches) /\ AllWaiting(InHand') = AllWaiting(InHand) \cup {NewRun}
    <2> DEFINE H == InHand
               G == InHand'
               c == NewClaim
    <2>1. OnceOnly(H, launches) /\ DOMAIN G = DOMAIN H /\ Holds(H) /\ h \in DOMAIN H
      BY <1>4 DEF LaunchInv
    <2>2. c \in Claim /\ c.run = NewRun /\ G[h] = Append(H[h], c)
          /\ c.run \notin AllWaiting(H) /\ c.run \notin Launched(launches)
      BY <1>1, <1>2
    <2>3. \A k \in DOMAIN H \ {h} : G[k] = H[k]
      OBVIOUS
    <2> HIDE DEF c, G, H
    <2>4. OnceOnly(G, launches)
      BY <2>1, <2>2, <2>3, OnceAppend
    <2>5. AllWaiting(G) = AllWaiting(H) \cup {c.run}
      BY <2>1, <2>2, <2>3, WaitingGrows
    <2> QED BY <2>2, <2>4, <2>5 DEF G, H
  <1> QED BY <1>3, <1>5 DEF LaunchInv

LEMMA LaunchClaimDue ==
  ASSUME TypeInv, LaunchInv, NEW p \in Pass, ClaimDue(p) PROVE LaunchInv'
  <1>1. /\ pass[p].at \in Nat \cup Event /\ pass[p].now \in 1..MaxTime /\ Following(p) \in Occurrence
    BY DueFacts
  <1>2. /\ Make("scheduled", pass[p].at, DueStatus(p), Following(p), pass[p].now)
        /\ DueStatus(p) \in {"pending", "skipped"} /\ DueStatus(p) \in Status
    BY DueMake
  <1>3. /\ pass'[p].claimed = ToLaunch(pass[p].claimed, NewClaim, DueStatus(p))
        /\ \A q \in Pass \ {p} : pass'[q] = pass[q]
    BY DueMake
  <1>4. UNCHANGED <<recovering, batch, launches, submitted>>
    BY DEF ClaimDue, history
  <1> DEFINE h == IF p = 1 THEN "first" ELSE "torn"
  <1>5. /\ p \in {1, 2} /\ Pass = {1, 2} /\ h \in DOMAIN InHand
        /\ InHand[h] = pass[p].claimed /\ InHand'[h] = pass'[p].claimed
    BY InHandIs, InHandNext DEF Pass
  <1>6. \A k \in DOMAIN InHand \ {h} : InHand'[k] = InHand[k]
    BY <1>3, <1>4, <1>5, InHandIs, InHandNext
  <1> HIDE DEF h
  <1>7. CASE DueStatus(p) = "pending"
    <2>1. InHand'[h] = Append(InHand[h], NewClaim)
      BY <1>3, <1>5, <1>7 DEF ToLaunch
    <2>2. Make("scheduled", pass[p].at, "pending", Following(p), pass[p].now)
      BY <1>2, <1>7
    <2> QED BY <1>1, <1>4, <1>5, <1>6, <2>1, <2>2, LaunchClaim
  <1>8. CASE DueStatus(p) # "pending"
    <2>1. \A k \in DOMAIN InHand : InHand'[k] = InHand[k]
      BY <1>3, <1>5, <1>6, <1>8 DEF ToLaunch
    <2>2. Fits(AllWaiting(InHand), launches, Len(made'), runs', submitted)
      BY <1>1, <1>2, LaunchMake
    <2>3. DOMAIN InHand' = DOMAIN InHand
      BY InHandIs, InHandNext
    <2>4. OnceOnly(InHand', launches) /\ AllWaiting(InHand') = AllWaiting(InHand)
      BY <2>1, <2>3 DEF LaunchInv, OnceOnly, AllWaiting
    <2> QED BY <1>4, <2>2, <2>4 DEF LaunchInv
  <1> QED BY <1>7, <1>8

LEMMA LaunchClaimEvent ==
  ASSUME TypeInv, LaunchInv, NEW e \in Event, ClaimEvent(e) PROVE LaunchInv'
  <1>1. /\ e \in batch.left /\ batch \in BatchType /\ batch.now \in 1..MaxTime
        /\ UNCHANGED <<recovering, pass, launches, submitted>>
    <2>1. batch.now # None /\ batch.now \in 0..MaxTime
      BY ClaimEventCases, WindowFacts DEF TypeInv, InTime
    <2> QED BY <2>1, ClaimEventCases, OccurrenceIs DEF TypeInv, WindowOK
  <1>2. CASE EventClaimed(e)
    <2>1. batch'.claimed = Append(batch.claimed, NewClaim)
      BY <1>1, <1>2 DEF EventClaimed, BatchType
    <2>2. Make("event", e, "pending", automation.next, batch.now) /\ automation.next \in Occurrence
      BY <1>2, WindowFacts DEF EventClaimed
    <2>3. /\ "events" \in DOMAIN InHand /\ InHand'["events"] = Append(InHand["events"], NewClaim)
          /\ \A k \in DOMAIN InHand \ {"events"} : InHand'[k] = InHand[k]
      BY <1>1, <2>1, InHandIs, InHandNext
    <2> QED BY <1>1, <2>2, <2>3, LaunchClaim
  <1>3. CASE EventRefused(e) \/ EventFailed(e)
    <2>1. batch'.claimed = batch.claimed /\ UNCHANGED <<made, runs>>
      BY <1>1, <1>3 DEF EventRefused, EventFailed, BatchType, store
    <2>2. \A h \in DOMAIN InHand : InHand'[h] = InHand[h]
      BY <1>1, <2>1, InHandIs, InHandNext
    <2> QED BY <1>1, <2>1, <2>2, LaunchFewer
  <1> QED BY <1>2, <1>3, ClaimEventCases

LEMMA Single ==
  ASSUME NEW c \in Claim
  PROVE  <<c>> \in Seq(Claim) /\ Waiting(<<c>>) = {c.run} /\ OwnRuns(<<c>>)
  <1>1. DOMAIN <<c>> = {1} /\ <<c>>[1] = c
    OBVIOUS
  <1> QED BY <1>1 DEF Waiting, OwnRuns

\* A run on request is launched as soon as it is made.
LEMMA LaunchRunNow == ASSUME TypeInv, LaunchInv, RunNow PROVE LaunchInv'
  <1>1. /\ Make("manual", None, "pending", automation.next, clock) /\ LaunchAll(<<NewClaim>>)
        /\ UNCHANGED <<recovering, pass, batch, submitted>>
    BY DEF RunNow, NewClaim, history
  <1>2. /\ None \in Nat \cup Event /\ "pending" \in Status /\ automation.next \in Occurrence
        /\ clock \in 1..MaxTime
    BY WindowFacts DEF None, Status, TypeInv, WindowOK
  <1>3. NewClaim \in Claim /\ NewClaim.run = NewRun
    BY <1>1, <1>2, LaunchMake
  <1>4. NewRun \notin AllWaiting(InHand) /\ NewRun \notin Launched(launches)
    BY <1>1, <1>2, LaunchMake
  <1>5. Fits(AllWaiting(InHand) \cup {NewRun}, launches, Len(made'), runs', submitted)
    BY <1>1, <1>2, LaunchMake
  <1> DEFINE s == <<NewClaim>>
  <1>6. s \in Seq(Claim) /\ Waiting(s) = {NewRun} /\ OwnRuns(s) /\ LaunchAll(s)
    BY <1>1, <1>3, Single
  <1> HIDE DEF s
  <1>7. LaunchesOK(launches, sessions) /\ OnceOnly(InHand, launches) /\ Distinct(launches)
    BY DEF TypeInv, WindowOK, LaunchInv
  <1>8. Launched(launches') = Launched(launches) \cup {NewRun}
    BY <1>6, <1>7, LaunchAllType
  <1>9. \A l \in launches' : l \in launches \/ (l.stage = "reserved" /\ l.run = NewRun)
    BY <1>6, <1>7, LaunchAllType
  <1>10. Distinct(launches')
    BY <1>4, <1>6, <1>7, LaunchAllDistinct
  <1>11. InHand' = InHand
    BY <1>1 DEF InHand
  <1>12. OnceOnly(InHand, launches')
    <2>1. \A h \in DOMAIN InHand : NewRun \notin Waiting(InHand[h])
      BY <1>4 DEF AllWaiting
    <2> QED BY <1>7, <1>8, <2>1 DEF OnceOnly
  <1>13. Fits(AllWaiting(InHand), launches', Len(made'), runs', submitted)
    <2> DEFINE W == AllWaiting(InHand)
    <2>1. W \subseteq W \cup {NewRun}
      OBVIOUS
    <2>2. \A l \in launches' : l \in launches \/ (l.stage = "reserved" /\ l.run \in W \cup {NewRun})
      BY <1>9
    <2>3. Fits(W \cup {NewRun}, launches, Len(made'), runs', submitted)
      BY <1>5
    <2> HIDE DEF W
    <2>4. Fits(W, launches', Len(made'), runs', submitted)
      BY <2>1, <2>2, <2>3, FitsLaunch
    <2> QED BY <2>4 DEF W
  <1> QED BY <1>1, <1>10, <1>11, <1>12, <1>13 DEF LaunchInv

\* Recovery launches the run that is next.
LEMMA LaunchRecoverNext == ASSUME TypeInv, LaunchInv, RecoverNext PROVE LaunchInv'
  <1>1. UNCHANGED <<made, runs, submitted, pass, batch>>
    BY DEF RecoverNext, store, history
  <1>2. CASE recovering.left = <<>>
    BY <1>1, <1>2, LaunchQuiet DEF RecoverNext
  <1>3. CASE recovering.left # <<>>
    <2> DEFINE c == Head(recovering.left)
               s == <<c>>
               H == InHand
               G == InHand'
    <2>1. c \in Claim /\ recovering'.left = Tail(recovering.left) /\ LaunchAll(s)
      BY <1>3, WindowFacts DEF RecoverNext
    <2>2. /\ DOMAIN G = DOMAIN H /\ "recovered" \in DOMAIN H /\ H["recovered"] # <<>>
          /\ G["recovered"] = Tail(H["recovered"]) /\ c = Head(H["recovered"])
          /\ \A k \in DOMAIN H \ {"recovered"} : G[k] = H[k]
      BY <1>1, <1>3, <2>1, InHandIs, InHandNext
    <2>3. /\ LaunchesOK(launches, sessions) /\ OnceOnly(H, launches) /\ Distinct(launches)
          /\ Holds(H) /\ Fits(AllWaiting(H), launches, Len(made), runs, submitted)
      BY Waits DEF TypeInv, WindowOK, LaunchInv
    <2> HIDE DEF c, G, H
    <2>4. s \in Seq(Claim) /\ Waiting(s) = {c.run} /\ OwnRuns(s)
      BY <2>1, Single
    <2> HIDE DEF s
    <2>5. c.run \in Waiting(H["recovered"])
      <3> DEFINE t == H["recovered"]
      <3>1. t \in Seq(Claim) /\ t # <<>> /\ c = Head(t)
        BY <2>2, <2>3 DEF Holds
      <3> HIDE DEF t
      <3>2. 1 \in DOMAIN t /\ c = t[1]
        BY <3>1
      <3>3. c.run \in Waiting(t)
        BY <3>2 DEF Waiting
      <3> QED BY <3>3 DEF t
    <2>6. Launched(launches') = Launched(launches) \cup {c.run}
      BY <2>1, <2>3, <2>4, LaunchAllType
    <2>7. \A l \in launches' : l \in launches \/ (l.run \in Waiting(s) /\ l.stage = "reserved")
      BY <2>1, <2>3, <2>4, LaunchAllType
    <2>8. Distinct(launches')
      <3>1. Waiting(s) \cap Launched(launches) = {}
        BY <2>2, <2>3, <2>4, <2>5 DEF OnceOnly
      <3> QED BY <2>1, <2>3, <2>4, <3>1, LaunchAllDistinct
    <2>9. OnceOnly(G, launches')
      BY <2>2, <2>3, <2>6, OnceTail
    <2>10. AllWaiting(G) \subseteq AllWaiting(H)
      BY <2>2, <2>3, <2>6, OnceTail
    <2>11. Fits(AllWaiting(G), launches', Len(made), runs, submitted)
      <3>1. c.run \in AllWaiting(H)
        BY <2>2, <2>5 DEF AllWaiting
      <3>2. \A l \in launches' : l \in launches \/ (l.stage = "reserved" /\ l.run \in AllWaiting(H))
        BY <2>4, <2>7, <3>1
      <3> QED BY <2>3, <2>10, <3>2, FitsLaunch
    <2> QED BY <1>1, <2>8, <2>9, <2>11 DEF LaunchInv, G
  <1> QED BY <1>2, <1>3

\* A run that is on its way is not settled, and no other launch has it.
LEMMA OnlyLaunch ==
  ASSUME TypeInv, LaunchInv, NEW l \in launches
  PROVE  /\ l.run \notin AllWaiting(InHand) /\ l.run \in Ids /\ l.run <= Len(made)
         /\ \A k \in launches \ {l} : k.run # l.run /\ k.session # l.session
         /\ \A r \in runs : r.id = l.run => r.status = IF l.stage = "reserved" THEN "pending" ELSE "running"
         /\ OnItsWay(l, runs, submitted)
  <1>1. OnceOnly(InHand, launches) /\ Distinct(launches)
        /\ Fits(AllWaiting(InHand), launches, Len(made), runs, submitted)
    BY DEF LaunchInv
  <1>2. l.run \notin AllWaiting(InHand)
    BY <1>1 DEF OnceOnly, AllWaiting, Launched
  <1>3. OnItsWay(l, runs, submitted) /\ l.run <= Len(made)
    BY <1>1 DEF Fits
  <1>4. \A k \in launches \ {l} : k.run # l.run /\ k.session # l.session
    BY <1>1 DEF Distinct
  <1> QED BY <1>2, <1>3, <1>4, LaunchFacts DEF OnItsWay, Unsent

\* One launch goes, or another stage of it takes its place.
LEMMA OneMoves ==
  ASSUME TypeInv, LaunchInv, NEW l \in launches,
         UNCHANGED <<made, recovering, pass, batch>>,
         Fits(AllWaiting(InHand), launches \ {l}, Len(made), runs', submitted'),
         \/ launches' = launches \ {l}
         \/ \E stage \in {"marked", "turn", "ended"} :
               /\ launches' = (launches \ {l}) \cup {[l EXCEPT !.stage = stage]}
               /\ OnItsWay([l EXCEPT !.stage = stage], runs', submitted')
  PROVE  LaunchInv'
  <1>1. OnceOnly(InHand, launches) /\ Distinct(launches) /\ InHand' = InHand
    BY DEF LaunchInv, InHand
  <1>2. CASE launches' = launches \ {l}
    <2>1. Distinct(launches')
      BY <1>1, <1>2 DEF Distinct
    <2>2. OnceOnly(InHand, launches')
      BY <1>1, <1>2 DEF OnceOnly, Launched
    <2> QED BY <1>1, <1>2, <2>1, <2>2 DEF LaunchInv
  <1>3. ASSUME NEW stage \in {"marked", "turn", "ended"},
               launches' = (launches \ {l}) \cup {[l EXCEPT !.stage = stage]},
               OnItsWay([l EXCEPT !.stage = stage], runs', submitted')
        PROVE  LaunchInv'
    <2> DEFINE k == [l EXCEPT !.stage = stage]
    <2>1. k.run = l.run /\ k.session = l.session
      BY LaunchFacts
    <2>2. launches' = (launches \ {l}) \cup {k} /\ OnItsWay(k, runs', submitted')
      BY <1>3
    <2> HIDE DEF k
    <2>3. Distinct(launches')
      BY <2>1, <2>2, OnlyLaunch DEF Distinct, LaunchInv
    <2>4. OnceOnly(InHand, launches')
      <3>1. Launched(launches') = Launched(launches)
        BY <2>1, <2>2 DEF Launched
      <3> QED BY <1>1, <3>1 DEF OnceOnly
    <2>5. k.run <= Len(made)
      BY <2>1, OnlyLaunch
    <2>6. Fits(AllWaiting(InHand), launches', Len(made), runs', submitted')
      BY <2>2, <2>5 DEF Fits
    <2> QED BY <1>1, <2>3, <2>4, <2>6 DEF LaunchInv
  <1> QED BY <1>2, <1>3

\* The run of a launch is written; what waits and the other launches have
\* other runs.
LEMMA FitsUpdate ==
  ASSUME TypeInv, LaunchInv, NEW l \in launches, NEW status \in Status, status # "pending",
         NEW session \in Nat, run_update(l.run, status, session)
  PROVE  /\ Fits(AllWaiting(InHand), launches \ {l}, Len(made), runs', submitted)
         /\ \A q \in runs' : q.id = l.run => q.status = status
  <1>1. StoreOK /\ l.run \in Ids
    BY LaunchFacts DEF TypeInv
  <1>2. \A q \in runs' : \/ q \in runs /\ q.id # l.run
                         \/ q.id = l.run /\ q.status = status
    BY <1>1, UpdateStep
  <1>3. Fits(AllWaiting(InHand), launches, Len(made), runs, submitted)
    BY DEF LaunchInv
  <1>4. \A i \in AllWaiting(InHand) : i <= Len(made) /\ Unsent(i, runs', submitted)
    BY <1>2, <1>3, OnlyLaunch DEF Fits, Unsent
  <1>5. \A k \in launches \ {l} : k.run <= Len(made) /\ OnItsWay(k, runs', submitted)
    BY <1>2, <1>3, OnlyLaunch DEF Fits, Unsent, OnItsWay
  <1>6. \A r \in runs' : r.status = "pending" => submitted[r.id] = 0
    BY <1>2, <1>3 DEF Fits
  <1> QED BY <1>2, <1>3, <1>4, <1>5, <1>6 DEF Fits

LEMMA FitsWithout ==
  ASSUME TypeInv, LaunchInv, NEW l \in launches
  PROVE  Fits(AllWaiting(InHand), launches \ {l}, Len(made), runs, submitted)
  BY DEF LaunchInv, Fits

\* The prompt of a run that was never sent is sent.
LEMMA FitsSent ==
  ASSUME TypeInv, LaunchInv, NEW l \in launches, l.stage = "marked",
         submitted' = [submitted EXCEPT ![l.run] = @ + 1]
  PROVE  Fits(AllWaiting(InHand), launches \ {l}, Len(made), runs, submitted')
  <1>1. /\ submitted \in [Ids -> Nat] /\ l.run \in Ids /\ submitted[l.run] = 0
        /\ l.run <= Len(made) /\ Len(made) \in Nat
    BY OnlyLaunch DEF OnItsWay, TypeInv, WindowOK, StoreOK
  <1>2. submitted'[l.run] = 1 /\ \A i \in Ids : i # l.run => submitted'[i] = submitted[i]
    BY <1>1
  <1>3. Fits(AllWaiting(InHand), launches, Len(made), runs, submitted)
    BY DEF LaunchInv
  <1>4. \A i \in AllWaiting(InHand) : i \in Ids /\ i <= Len(made) /\ Unsent(i, runs, submitted')
    BY <1>2, <1>3, OnlyLaunch, Waits DEF Fits, Unsent
  <1>5. ASSUME NEW k \in launches \ {l} PROVE k.run <= Len(made) /\ OnItsWay(k, runs, submitted')
    <2>1. k.run \in Ids /\ k.run # l.run /\ k.run <= Len(made) /\ OnItsWay(k, runs, submitted)
      BY OnlyLaunch
    <2>2. submitted'[k.run] = submitted[k.run]
      BY <1>2, <2>1
    <2> QED BY <2>1, <2>2 DEF OnItsWay, Unsent
  <1>6. ASSUME NEW r \in runs, r.status = "pending" PROVE submitted'[r.id] = 0
    <2>1. r.id # l.run
      BY <1>6, OnlyLaunch
    <2>2. r.id \in Ids /\ submitted[r.id] = 0
      BY <1>3, <1>6 DEF Fits, TypeInv, StoreOK, RunsOK, Run
    <2> QED BY <1>2, <2>1, <2>2
  <1>7. ASSUME NEW i \in Ids PROVE submitted'[i] <= 1 /\ (i > Len(made) => submitted'[i] = 0)
    <2>1. CASE i = l.run
      <3>1. l.run \in Nat /\ ~ (i > Len(made))
        BY <1>1, <2>1 DEF Ids
      <3> QED BY <1>2, <2>1, <3>1
    <2>2. CASE i # l.run
      BY <1>2, <1>3, <2>2 DEF Fits
    <2> QED BY <2>1, <2>2
  <1> QED BY <1>4, <1>5, <1>6, <1>7 DEF Fits

LEMMA LaunchLaunching == ASSUME TypeInv, LaunchInv, NEW l \in launches, Launching(l) PROVE LaunchInv'
  <1>1. UNCHANGED <<made, recovering, pass, batch>>
    BY DEF Launching
  <1>2. l.session \in Nat /\ None \in Nat /\ {"running", "failed", "succeeded"} \subseteq Status
    BY LaunchFacts
  <1>3. OnItsWay(l, runs, submitted)
        /\ \A r \in runs : r.id = l.run => r.status = IF l.stage = "reserved" THEN "pending" ELSE "running"
    BY OnlyLaunch
  <1>4. CASE MarkRunning(l)
    <2> DEFINE k == [l EXCEPT !.stage = "marked"]
    <2>1. /\ l.stage = "reserved" /\ run_update(l.run, "running", l.session)
          /\ launches' = (launches \ {l}) \cup {k} /\ submitted' = submitted
      BY <1>4 DEF MarkRunning, Moved
    <2>2. Fits(AllWaiting(InHand), launches \ {l}, Len(made), runs', submitted')
      BY <1>2, <2>1, FitsUpdate
    <2>3. \A q \in runs' : q.id = l.run => q.status = "running"
      BY <1>2, <2>1, FitsUpdate
    <2>4. k.run = l.run /\ k.stage = "marked"
      BY LaunchFacts
    <2>5. OnItsWay(k, runs', submitted')
      BY <1>3, <2>1, <2>3, <2>4 DEF OnItsWay, Unsent
    <2> QED BY <1>1, <2>1, <2>2, <2>5, OneMoves
  <1>5. CASE submitted' = submitted /\ launches' = launches \ {l}
             /\ \/ runs' = runs
                \/ \E status \in {"failed", "succeeded"}, session \in {l.session, None} :
                      run_update(l.run, status, session)
    <2>1. Fits(AllWaiting(InHand), launches \ {l}, Len(made), runs', submitted')
      BY <1>2, <1>5, FitsUpdate, FitsWithout
    <2> QED BY <1>1, <1>5, <2>1, OneMoves
  <1>6. ASSUME l.stage = "marked", submitted' = [submitted EXCEPT ![l.run] = @ + 1],
               Moved(l, "turn"), runs' = runs
        PROVE  LaunchInv'
    <2> DEFINE k == [l EXCEPT !.stage = "turn"]
    <2>1. Fits(AllWaiting(InHand), launches \ {l}, Len(made), runs', submitted')
      BY <1>6, FitsSent
    <2>2. OnItsWay(k, runs', submitted') /\ launches' = (launches \ {l}) \cup {k}
      BY <1>3, <1>6, LaunchFacts DEF OnItsWay, Moved
    <2> QED BY <1>1, <2>1, <2>2, OneMoves
  <1>7. CASE TurnEnds(l)
    <2> DEFINE k == [l EXCEPT !.stage = "ended"]
    <2>1. l.stage = "turn" /\ launches' = (launches \ {l}) \cup {k} /\ UNCHANGED <<runs, submitted>>
      BY <1>7 DEF TurnEnds, Moved
    <2>2. Fits(AllWaiting(InHand), launches \ {l}, Len(made), runs', submitted')
      BY <2>1, FitsWithout
    <2>3. OnItsWay(k, runs', submitted')
      BY <1>3, <2>1, LaunchFacts DEF OnItsWay
    <2> QED BY <1>1, <2>1, <2>2, <2>3, OneMoves
  <1>8. CASE MarkFails(l)
    BY <1>5, <1>8 DEF MarkFails
  <1>9. CASE Settle(l)
    BY <1>5, <1>9 DEF Settle
  <1>10. CASE Submit(l)
    BY <1>5, <1>6, <1>10 DEF Submit
  <1> QED BY <1>4, <1>7, <1>8, <1>9, <1>10 DEF Launching

\* Recovery takes runs in hand that no launch of this window has, each once.
LEMMA LaunchRecover == ASSUME TypeInv, LaunchInv, FreshInv, Recover PROVE LaunchInv'
  <1>1. PICK order \in [1..Cardinality(Pending) -> Pending] :
            /\ \A i, j \in DOMAIN order : i < j => Newer(order[j], order[i])
            /\ recovering' = [left |-> Recovered(order), awaits |-> None]
    BY RecoverFacts
  <1>2. /\ runs' = trim_history((runs \ LeftBehind) \cup Pending \cup Cancelled)
        /\ UNCHANGED <<made, submitted, pass, batch, launches, cutoff>> /\ recovery = "none"
    BY RecoverFacts DEF history
  <1>3. /\ pass[1].claimed = <<>> /\ pass[2].claimed = <<>> /\ batch.claimed = <<>>
        /\ \A l \in launches : \A r \in runs : r.id = l.run => r.at > cutoff
    BY <1>2 DEF FreshInv, Pass, NoPass, NoBatch
  <1>4. runs \subseteq Run /\ Unique(runs) /\ \A r \in runs : r.id <= Len(made) /\ r.at \in Nat /\ r.id \in Nat
    <2>1. runs \subseteq Run /\ Unique(runs) /\ \A r \in runs : r.id <= Len(made)
      BY DEF TypeInv, StoreOK, RunsOK, Unique
    <2> QED BY <2>1, RunFields
  <1>5. \A r \in LeftBehind : r \in runs /\ ~ (r.at > cutoff)
    BY <1>4, WindowFacts DEF LeftBehind
  <1>6. Fits(AllWaiting(InHand), launches, Len(made), runs, submitted) /\ Distinct(launches)
    BY DEF LaunchInv
  <1>7. \A l \in launches : \A r \in LeftBehind : r.id # l.run
    BY <1>3, <1>5
  \* What is left of the runs.
  <1>8. \A r \in runs' : r \in runs \ LeftBehind \/ r \in Pending \/ r \in Cancelled
    BY <1>2, TrimKeeps
  <1>9. \A r \in Cancelled : r.status = "cancelled" /\ \E q \in LeftBehind \ Pending : r.id = q.id
    BY CancelledRuns
  <1>10. Pending \subseteq LeftBehind /\ \A r \in Pending : r.status = "pending" /\ r \in runs
    BY <1>5, CancelledRuns
  \* What is in hand.
  <1> DEFINE s == Recovered(order)
  <1>11. DOMAIN order = DOMAIN s /\ \A i \in DOMAIN s : i \in Nat /\ order[i] \in Pending /\ s[i].run = order[i].id
    BY DEF Recovered
  <1>12. \A i, j \in DOMAIN s : i < j => Newer(order[j], order[i])
    BY <1>1, <1>11
  <1>13. recovering'.left = s
    BY <1>1
  <1> HIDE DEF s
  <1>14. ASSUME NEW i \in DOMAIN s, NEW j \in DOMAIN s, s[i].run = s[j].run PROVE i = j
    <2>1. order[i] = order[j]
      BY <1>4, <1>10, <1>11, <1>14 DEF Unique
    <2>2. ~Newer(order[i], order[j]) /\ ~Newer(order[j], order[i])
      <3>1. order[i].id \in Nat /\ order[i].at \in Nat
        BY <1>4, <1>10, <1>11
      <3> QED BY <2>1, <3>1 DEF Newer
    <2>3. ~(i < j) /\ ~(j < i) /\ i \in Nat /\ j \in Nat
      BY <1>11, <1>12, <2>2
    <2> QED BY <2>3
  <1>15. ASSUME NEW i \in Waiting(s)
         PROVE  \E r \in Pending : r.id = i
    BY <1>11 DEF Waiting
  <1> DEFINE G == InHand'
  <1>16. /\ DOMAIN G = {"first", "torn", "events", "recovered"} /\ G["recovered"] = s
         /\ G["first"] = <<>> /\ G["torn"] = <<>> /\ G["events"] = <<>>
    BY <1>2, <1>3, <1>13, InHandNext
  <1> HIDE DEF G
  <1>17. Waiting(<<>>) = {} /\ DOMAIN <<>> = {}
    BY DEF Waiting
  <1>18. \A h \in DOMAIN G : (h = "recovered" /\ G[h] = s) \/ (h # "recovered" /\ G[h] = <<>>)
    BY <1>16
  <1>19. OnceOnly(G, launches)
    <2>1. \A h \in DOMAIN G : \A i, j \in DOMAIN G[h] : G[h][i].run = G[h][j].run => i = j
      BY <1>14, <1>17, <1>18
    <2>2. \A h, k \in DOMAIN G : h # k => Waiting(G[h]) \cap Waiting(G[k]) = {}
      BY <1>17, <1>18
    <2>3. Waiting(s) \cap Launched(launches) = {}
      BY <1>7, <1>10, <1>15 DEF Launched
    <2>4. \A h \in DOMAIN G : Waiting(G[h]) \cap Launched(launches) = {}
      BY <1>17, <1>18, <2>3
    <2> QED BY <2>1, <2>2, <2>4 DEF OnceOnly
  <1>20. ASSUME NEW i \in AllWaiting(G) PROVE i <= Len(made) /\ Unsent(i, runs', submitted)
    <2>1. i \in Waiting(s)
      BY <1>17, <1>18 DEF AllWaiting
    <2>2. PICK r \in Pending : r.id = i
      BY <1>15, <2>1
    <2>3. i <= Len(made) /\ submitted[i] = 0 /\ r \in runs /\ r \in LeftBehind
      BY <1>4, <1>6, <1>10, <2>2 DEF Fits
    <2>4. ASSUME NEW q \in runs', q.id = i PROVE q.status = "pending"
      <3>1. CASE q \in runs \ LeftBehind \/ q \in Pending
        <4>1. q = r
          BY <1>4, <1>10, <2>2, <2>3, <2>4, <3>1 DEF Unique
        <4> QED BY <1>10, <4>1
      <3>2. CASE q \in Cancelled
        <4>1. PICK p \in LeftBehind \ Pending : q.id = p.id
          BY <1>9, <3>2
        <4>2. p = r
          BY <1>4, <1>5, <2>2, <2>3, <2>4, <4>1 DEF Unique
        <4> QED BY <4>1, <4>2
      <3> QED BY <1>8, <3>1, <3>2
    <2> QED BY <2>3, <2>4 DEF Unsent
  <1>21. ASSUME NEW l \in launches PROVE l.run <= Len(made) /\ OnItsWay(l, runs', submitted)
    <2>1. l.run <= Len(made) /\ OnItsWay(l, runs, submitted)
      BY <1>6 DEF Fits
    <2>2. \A r \in runs' : r.id = l.run => r \in runs
      BY <1>7, <1>8, <1>9, <1>10
    <2> QED BY <2>1, <2>2 DEF OnItsWay, Unsent
  <1>22. \A r \in runs' : r.status = "pending" => submitted[r.id] = 0
    BY <1>6, <1>8, <1>9, <1>10 DEF Fits
  <1>23. Fits(AllWaiting(G), launches, Len(made), runs', submitted)
    BY <1>6, <1>20, <1>21, <1>22 DEF Fits
  <1> QED BY <1>2, <1>6, <1>19, <1>23 DEF LaunchInv, G

-----------------------------------------------------------------------------
(* Before the recovery *)

LEMMA FreshBusy ==
  ASSUME FreshInv, recovery # "none", recovery' # "none", cutoff' = cutoff PROVE FreshInv'
  BY DEF FreshInv

LEMMA FreshSame ==
  ASSUME FreshInv, UNCHANGED <<recovery, recovering, cutoff, pass, batch>>,
         \A l \in launches' : \A r \in runs' : l.run = r.id /\ recovery = "none" => r.at > cutoff,
         cutoff = None => launches' = {}
  PROVE  FreshInv'
  BY DEF FreshInv

LEMMA FreshQuiet ==
  ASSUME FreshInv, UNCHANGED <<recovery, recovering, cutoff, pass, batch, launches>>, runs' \subseteq runs
  PROVE  FreshInv'
  BY FreshSame DEF FreshInv

LEMMA FreshLaunching ==
  ASSUME TypeInv, LaunchInv, FreshInv, NEW l \in launches, Launching(l) PROVE FreshInv'
  <1>1. UNCHANGED <<cutoff, recovery, recovering, pass, batch>>
    BY DEF Launching
  <1>2. cutoff # None
    BY DEF FreshInv
  <1>3. ASSUME NEW k \in launches' PROVE \E j \in launches : j.run = k.run
    <2>1. k \in launches \/ \E stage \in {"marked", "turn", "ended"} : k = [l EXCEPT !.stage = stage]
      BY LaunchingLaunches
    <2>2. \A stage \in {"marked", "turn", "ended"} : [l EXCEPT !.stage = stage].run = l.run
      BY LaunchFacts
    <2> QED BY <2>1, <2>2
  <1>4. \A q \in runs' : \E r \in runs : r.id = q.id /\ r.at = q.at
    <2>1. CASE UNCHANGED <<automation, runs>>
      BY <2>1
    <2>2. ASSUME NEW status \in Status, NEW session \in Nat, run_update(l.run, status, session)
          PROVE  \A q \in runs' : \E r \in runs : r.id = q.id /\ r.at = q.at
      <3>1. StoreOK /\ l.run \in Ids
        BY LaunchFacts DEF TypeInv
      <3>2. \A q \in runs' : \/ q \in runs /\ q.id # l.run
                             \/ /\ q.id = l.run /\ q.status = status
                                /\ \E r \in runs : r.id = l.run /\ r.at = q.at
        BY <2>2, <3>1, UpdateStep
      <3> QED BY <3>2
    <2> QED BY <2>1, <2>2, LaunchingRuns
  <1>5. ASSUME NEW k \in launches', NEW q \in runs', k.run = q.id, recovery = "none"
        PROVE  q.at > cutoff
    <2>1. PICK j \in launches : j.run = k.run
      BY <1>3
    <2>2. PICK r \in runs : r.id = q.id /\ r.at = q.at
      BY <1>4
    <2> QED BY <1>5, <2>1, <2>2 DEF FreshInv
  <1> QED BY <1>1, <1>2, <1>5, FreshSame

LEMMA FreshRunNow == ASSUME TypeInv, LaunchInv, FreshInv, RunNow PROVE FreshInv'
  <1>1. /\ UNCHANGED <<cutoff, recovery, recovering, pass, batch>> /\ clock > cutoff /\ cutoff # None
        /\ Make("manual", None, "pending", automation.next, clock) /\ LaunchAll(<<NewClaim>>)
    BY DEF RunNow, NewClaim, Open
  <1>2. /\ None \in Nat \cup Event /\ "pending" \in Status /\ automation.next \in Occurrence
        /\ clock \in 1..MaxTime
    BY WindowFacts DEF None, Status, TypeInv, WindowOK
  <1>3. NewClaim \in Claim /\ NewClaim.run = NewRun
    BY <1>1, <1>2, LaunchMake
  <1>4. NewRun \notin Launched(launches)
    BY <1>1, <1>2, LaunchMake
  <1> DEFINE s == <<NewClaim>>
  <1>5. s \in Seq(Claim) /\ Waiting(s) = {NewRun} /\ LaunchAll(s) /\ LaunchesOK(launches, sessions)
    BY <1>1, <1>3, Single DEF TypeInv, WindowOK
  <1> HIDE DEF s
  <1>6. \A l \in launches' : l \in launches \/ l.run = NewRun
    BY <1>5, LaunchAllType
  <1>7. \A r \in runs' : r \in runs \/ (r.id = NewRun /\ r.at = clock)
    BY <1>1, MakeRuns
  <1>8. \A r \in runs : r.id # NewRun
    <2>1. \A r \in runs : r.id <= Len(made) /\ r.id \in Nat
      BY RunFields DEF TypeInv, StoreOK, RunsOK
    <2>2. Len(made) \in Nat /\ NewRun = Len(made) + 1
      BY DEF TypeInv, StoreOK, NewRun
    <2> QED BY <2>1, <2>2
  <1>9. ASSUME NEW l \in launches', NEW r \in runs', l.run = r.id, recovery = "none"
        PROVE  r.at > cutoff
    <2>1. CASE r \in runs
      BY <1>6, <1>8, <1>9, <2>1 DEF FreshInv
    <2>2. CASE r.id = NewRun /\ r.at = clock
      BY <1>1, <2>2
    <2> QED BY <1>7, <2>1, <2>2
  <1> QED BY <1>1, <1>9, FreshSame

-----------------------------------------------------------------------------
(* The inductive invariant *)

LEMMA SecondStep ==
  ASSUME TypeInv, LaunchInv, FreshInv, [Next]_vars PROVE LaunchInv' /\ FreshInv'
  <1>1. CASE Tick \/ UNCHANGED vars \/ Upsert \/ \E enabled \in BOOLEAN : Save(enabled)
    <2>1. UNCHANGED <<made, runs, submitted, recovery, recovering, cutoff, pass, batch, launches>>
      BY <1>1 DEF Tick, Upsert, Save, vars, store, window, history
    <2> QED BY <2>1, LaunchQuiet, FreshQuiet
  <1>2. CASE OpenWindow
    <2>1. UNCHANGED <<made, runs, submitted, recovery, recovering, pass, batch, launches>>
          /\ cutoff = None /\ cutoff' = clock
      BY <1>2 DEF OpenWindow, Open, store, history
    <2>2. FreshInv'
      <3>1. clock # None
        BY WindowFacts DEF None
      <3> QED BY <2>1, <3>1 DEF FreshInv
    <2> QED BY <2>1, <2>2, LaunchQuiet
  <1>3. CASE Stop
    <2>1. FreshInv'
      BY <1>3 DEF Stop, FreshInv
    <2> QED BY <1>3, <2>1, LaunchStop
  <1>4. CASE Recover
    <2>1. FreshInv'
      <3>1. recovery' = "launching" /\ cutoff' = cutoff /\ cutoff # None
        BY <1>4 DEF Recover, Open
      <3> QED BY <3>1 DEF FreshInv
    <2> QED BY <1>4, <2>1, LaunchRecover
  <1>5. CASE RecoverNext
    <2>1. FreshInv'
      <3>1. recovery # "none" /\ recovery' # "none" /\ cutoff' = cutoff
        BY <1>5 DEF RecoverNext
      <3> QED BY <3>1, FreshBusy
    <2> QED BY <1>5, <2>1, LaunchRecoverNext
  <1>6. CASE Evaluate
    <2>1. FreshInv'
      BY <1>6, FreshBusy DEF Evaluate
    <2> QED BY <1>6, <2>1, LaunchEvaluate
  <1>7. CASE Dispose
    <2>1. FreshInv'
      <3>1. recovery # "none" /\ UNCHANGED <<recovery, cutoff>>
        BY <1>7 DEF Dispose, FreshInv, Pass
      <3> QED BY <3>1, FreshBusy
    <2> QED BY <1>7, <2>1, LaunchDispose
  <1>8. ASSUME NEW p \in Pass, ClaimDue(p) \/ EvaluateEnds(p) PROVE LaunchInv' /\ FreshInv'
    <2>1. FreshInv'
      <3>1. recovery # "none" /\ UNCHANGED <<recovery, cutoff>>
        BY <1>8 DEF ClaimDue, EvaluateEnds, FreshInv
      <3> QED BY <3>1, FreshBusy
    <2> QED BY <1>8, <2>1, LaunchClaimDue, LaunchEvaluateEnds
  <1>9. ASSUME NEW E \in SUBSET Event, InboxAppeared(E) PROVE LaunchInv' /\ FreshInv'
    <2>1. FreshInv'
      BY <1>9, FreshBusy DEF InboxAppeared
    <2> QED BY <1>9, <2>1, LaunchInboxAppeared
  <1>10. ASSUME NEW e \in Event, ClaimEvent(e) PROVE LaunchInv' /\ FreshInv'
    <2>1. FreshInv'
      <3>1. batch # NoBatch /\ UNCHANGED <<recovery, cutoff>>
        BY <1>10, ClaimEventCases DEF NoBatch
      <3> QED BY <3>1, FreshBusy DEF FreshInv
    <2> QED BY <1>10, <2>1, LaunchClaimEvent
  <1>11. CASE InboxDone
    <2>1. FreshInv'
      <3>1. recovery # "none" /\ UNCHANGED <<recovery, cutoff>>
        BY <1>11 DEF InboxDone, FreshInv
      <3> QED BY <3>1, FreshBusy
    <2> QED BY <1>11, <2>1, LaunchInboxDone
  <1>12. CASE RunNow
    BY <1>12, LaunchRunNow, FreshRunNow
  <1>13. ASSUME NEW l \in launches, Launching(l) PROVE LaunchInv' /\ FreshInv'
    BY <1>13, LaunchLaunching, FreshLaunching
  <1>14. CASE Delete
    <2>1. UNCHANGED <<recovery, recovering, cutoff, pass, batch, launches>> /\ runs' = {}
      BY <1>14 DEF Delete, window
    <2> QED BY <1>14, <2>1, LaunchDelete, FreshQuiet
  <1>15. ASSUME NEW E \in {{}} \cup {{e} : e \in Event} PROVE E \in SUBSET Event
    OBVIOUS
  <1> QED BY <1>1, <1>2, <1>3, <1>4, <1>5, <1>6, <1>7, <1>8, <1>9, <1>10, <1>11, <1>12, <1>13,
             <1>14, <1>15 DEF Next

LEMMA InvInit == Init => Inv
  <1> SUFFICES ASSUME Init PROVE Inv
    OBVIOUS
  <1>1. TypeInv
    BY TypeInit
  <1>2. ScheduleInv
    BY DEF Init, ScheduleInv, KeysInv, Scheduled, Claimed, ClaimedOnce, NoOccurrenceLost
  <1>3. EventInv
    BY DEF Init, EventInv, EventKept, NoBatch
  <1>4. LaunchInv
    <2>1. /\ pass[1] = NoPass /\ pass[2] = NoPass /\ batch = NoBatch /\ recovering.left = <<>>
          /\ launches = {} /\ runs = {} /\ made = <<>> /\ submitted = [i \in Ids |-> 0]
      BY DEF Init, Pass
    <2>2. \A h \in DOMAIN InHand : InHand[h] = <<>>
      BY <2>1, InHandIs DEF NoPass, NoBatch
    <2>3. \A h \in DOMAIN InHand : Waiting(InHand[h]) = {} /\ DOMAIN InHand[h] = {}
      BY <2>2 DEF Waiting
    <2>4. OnceOnly(InHand, launches)
      BY <2>3 DEF OnceOnly
    <2>5. AllWaiting(InHand) = {}
      BY <2>3 DEF AllWaiting
    <2>6. Fits(AllWaiting(InHand), launches, Len(made), runs, submitted)
      BY <2>1, <2>5 DEF Fits
    <2> QED BY <2>1, <2>4, <2>6 DEF LaunchInv, Distinct
  <1>5. FreshInv
    BY DEF Init, FreshInv
  <1> QED BY <1>1, <1>2, <1>3, <1>4, <1>5 DEF Inv

LEMMA InvStep == Inv /\ [Next]_vars => Inv'
  <1> SUFFICES ASSUME Inv, [Next]_vars PROVE Inv'
    OBVIOUS
  <1>1. TypeInv /\ ScheduleInv /\ EventInv /\ LaunchInv /\ FreshInv
    BY DEF Inv
  <1>2. TypeInv'
    BY <1>1, TypeStep
  <1>3. ScheduleInv' /\ EventInv'
    BY <1>1, FirstStep
  <1>4. LaunchInv' /\ FreshInv'
    BY <1>1, SecondStep
  <1> QED BY <1>2, <1>3, <1>4 DEF Inv

LEMMA InvImplies ==
  Inv => TypeOK /\ ClaimedOnce /\ NoOccurrenceLost /\ SubmittedOnce /\ RunsApart /\ EventKept
  <1> SUFFICES ASSUME Inv
               PROVE  TypeOK /\ ClaimedOnce /\ NoOccurrenceLost /\ SubmittedOnce /\ RunsApart /\ EventKept
    OBVIOUS
  <1>1. TypeInv /\ ScheduleInv /\ EventInv /\ LaunchInv
    BY DEF Inv
  <1>2. SubmittedOnce
    BY <1>1 DEF LaunchInv, Fits, SubmittedOnce
  <1>3. RunsApart
    BY <1>1 DEF LaunchInv, Distinct, RunsApart
  <1>4. TypeOK
    <2>1. clock \in 1..MaxTime /\ cutoff \in 0..MaxTime
      BY <1>1, WindowFacts DEF TypeInv, WindowOK
    <2>2. automation \in [exists : BOOLEAN, enabled : BOOLEAN, next : Occurrence,
                          lastAt : 0..MaxTime, last : Nat]
      BY <1>1 DEF TypeInv, StoreOK, AutomationType
    <2>3. /\ runs \subseteq [id : Ids, status : Status, at : 1..MaxTime, session : Nat]
          /\ \A r, q \in runs : r.id = q.id => r = q
          /\ Cardinality({r \in runs : r.status \in Settled}) <= MaxHistory
      BY <1>1 DEF TypeInv, StoreOK, RunsOK, Trimmed, Run
    <2>4. launches \subseteq [run : Ids, session : 1..sessions,
                              stage : {"reserved", "marked", "turn", "ended"}]
      <3>1. ASSUME NEW l \in launches
            PROVE  l \in [run : Ids, session : 1..sessions,
                          stage : {"reserved", "marked", "turn", "ended"}]
        <4>1. l \in LaunchType /\ l.session <= sessions /\ sessions \in Nat
          BY <1>1 DEF TypeInv, WindowOK, LaunchesOK
        <4>2. l.session \in 1..sessions
          BY <4>1 DEF LaunchType
        <4> QED BY <4>1, <4>2 DEF LaunchType
      <3> QED BY <3>1
    <2>5. \A l, k \in launches : l.run = k.run => l = k
      BY <1>1 DEF LaunchInv, Distinct
    <2>6. /\ pass \in [Pass -> [now : 0..MaxTime, at : {None} \cup Occurrence, claimed : Seq(Claim)]]
          /\ batch \in [now : 0..MaxTime, left : SUBSET Event, seen : SUBSET Event,
                        failed : SUBSET Event, claimed : Seq(Claim)]
      BY <1>1 DEF TypeInv, WindowOK, PassType, BatchType
    <2>7. /\ claims \subseteq Event /\ retry \subseteq Event /\ heard \subseteq Event
          /\ recovery \in {"none", "launching", "done"}
          /\ recovering \in [left : Seq(Claim), awaits : Ids \cup {None}]
          /\ saving \in [next : {None} \cup Occurrence, enabled : BOOLEAN]
          /\ sessions \in Nat /\ Len(made) <= MaxRuns /\ submitted \in [Ids -> Nat]
          /\ since \in Occurrence /\ upsets \in 0..MaxUpsets
      BY <1>1 DEF TypeInv, StoreOK, WindowOK, LaunchesOK
    <2> QED BY <2>1, <2>2, <2>3, <2>4, <2>5, <2>6, <2>7 DEF TypeOK
  <1> QED BY <1>1, <1>2, <1>3, <1>4 DEF ScheduleInv, EventInv

-----------------------------------------------------------------------------
(* What is settled *)

\* Each run that the database has after a step is one it had, or is new, or is
\* one that was not settled.
Changeable(id) == \A r \in runs : r.id = id => r.status \notin Settled

LEMMA RunsStep ==
  ASSUME TypeInv, LaunchInv, [Next]_vars
  PROVE  \A q \in runs' : q \in runs \/ Changeable(q.id)
  <1>0. runs \subseteq Run /\ Unique(runs) /\ \A r \in runs : r.id <= Len(made) /\ r.id \in Nat
    <2>1. runs \subseteq Run /\ Unique(runs) /\ \A r \in runs : r.id <= Len(made)
      BY DEF TypeInv, StoreOK, RunsOK, Unique
    <2> QED BY <2>1, RunFields
  <1>1. ASSUME NEW kind, NEW key, NEW status, NEW next, NEW now, Make(kind, key, status, next, now)
        PROVE  \A q \in runs' : q \in runs \/ Changeable(q.id)
    <2>1. Len(made) \in Nat /\ NewRun = Len(made) + 1
      BY DEF TypeInv, StoreOK, NewRun
    <2>2. \A r \in runs : r.id # NewRun
      BY <1>0, <2>1
    <2> QED BY <1>1, <2>2, MakeRuns DEF Changeable
  <1>2. CASE Recover
    <2>1. \A q \in runs' : q \in runs \ LeftBehind \/ q \in Pending \/ q \in Cancelled
      BY <1>2, RecoverFacts, TrimKeeps
    <2>2. Pending \subseteq runs /\ \A q \in Cancelled : \E r \in LeftBehind : q.id = r.id
      BY CancelledRuns
    <2>3. \A r \in LeftBehind : r \in runs /\ r.status \notin Settled
      BY DEF LeftBehind, Settled
    <2>4. ASSUME NEW q \in Cancelled PROVE Changeable(q.id)
      <3>1. PICK p \in LeftBehind : q.id = p.id
        BY <2>2
      <3> QED BY <1>0, <2>3, <3>1 DEF Changeable, Unique
    <2> QED BY <2>1, <2>2, <2>4
  <1>3. ASSUME NEW l \in launches, Launching(l)
        PROVE  \A q \in runs' : q \in runs \/ Changeable(q.id)
    <2>1. Changeable(l.run)
      BY OnlyLaunch DEF Changeable, Settled
    <2>2. CASE UNCHANGED <<automation, runs>>
      BY <2>2
    <2>3. ASSUME NEW status \in Status, NEW session \in Nat, run_update(l.run, status, session)
          PROVE  \A q \in runs' : q \in runs \/ q.id = l.run
      <3>1. StoreOK /\ l.run \in Ids
        BY LaunchFacts DEF TypeInv
      <3>2. \A q \in runs' : \/ q \in runs /\ q.id # l.run
                             \/ /\ q.id = l.run /\ q.status = status
                                /\ \E r \in runs : r.id = l.run /\ r.at = q.at
        BY <2>3, <3>1, UpdateStep
      <3> QED BY <3>2
    <2>4. CASE \E status \in Status, session \in Nat : run_update(l.run, status, session)
      <3>1. \A q \in runs' : q \in runs \/ q.id = l.run
        BY <2>3, <2>4
      <3> QED BY <2>1, <3>1
    <2> QED BY <1>3, <2>2, <2>4, LaunchingRuns
  <1>4. CASE Delete
    BY <1>4 DEF Delete
  <1>5. CASE \/ Tick \/ OpenWindow \/ Stop \/ RecoverNext \/ Evaluate \/ Dispose \/ InboxDone \/ Upsert
             \/ UNCHANGED vars
             \/ \E p \in Pass : EvaluateEnds(p)
             \/ \E E \in {{}} \cup {{e} : e \in Event} : InboxAppeared(E)
             \/ \E enabled \in BOOLEAN : Save(enabled)
    <2>1. runs' = runs
      BY <1>5 DEF Tick, OpenWindow, Stop, RecoverNext, Evaluate, Dispose, InboxDone, Upsert, vars,
                  EvaluateEnds, InboxAppeared, Save, store
    <2> QED BY <2>1
  <1>6. ASSUME NEW p \in Pass, ClaimDue(p) PROVE \A q \in runs' : q \in runs \/ Changeable(q.id)
    BY <1>1, <1>6, DueMake
  <1>7. ASSUME NEW e \in Event, ClaimEvent(e) PROVE \A q \in runs' : q \in runs \/ Changeable(q.id)
    <2>1. (\E key, next, now : Make("event", key, "pending", next, now)) \/ runs' = runs
      BY <1>7, ClaimEventCases DEF EventClaimed, EventRefused, EventFailed, store
    <2> QED BY <1>1, <2>1
  <1>8. CASE RunNow
    BY <1>1, <1>8 DEF RunNow
  <1> QED BY <1>2, <1>3, <1>4, <1>5, <1>6, <1>7, <1>8 DEF Next

-----------------------------------------------------------------------------
(* The theorems *)

\* The inductive invariant holds of every run of the automation's database,
\* the window that works on it (evaluate, onInboxAppeared, launchAutomation and
\* the recovery in App.tsx), and what the user does.
THEOREM AutomationsInvariant == Spec => []Inv
  <1>1. Init => Inv
    BY InvInit
  <1>2. Inv /\ [Next]_vars => Inv'
    BY InvStep
  <1> QED BY <1>1, <1>2, PTL DEF Spec

\* The state has its type; trim_history keeps the settled runs within
\* MAX_RUNS_PER_AUTOMATION, and a run has one record and one launch.
THEOREM AutomationsTypeOK == Spec => []TypeOK
  <1>1. Inv => TypeOK
    BY InvImplies
  <1> QED BY <1>1, AutomationsInvariant, PTL

\* automations_claim_due and automations_claim_event make an occurrence or an
\* event into a run once, also with overlapping passes, repeated polls, edits
\* of the schedule, and windows that follow one another.
THEOREM OneRunEach == Spec => []ClaimedOnce
  <1>1. Inv => ClaimedOnce
    BY InvImplies
  <1> QED BY <1>1, AutomationsInvariant, PTL

\* automations_claim_due leaves no occurrence behind that the schedule has
\* passed since it was last saved.
THEOREM NoneLeftBehind == Spec => []NoOccurrenceLost
  <1>1. Inv => NoOccurrenceLost
    BY InvImplies
  <1> QED BY <1>1, AutomationsInvariant, PTL

\* launchAutomation sends the prompt of a run once, over crashes of the window
\* and the recovery of what it left behind.
THEOREM OnePromptEach == Spec => []SubmittedOnce
  <1>1. Inv => SubmittedOnce
    BY InvImplies
  <1> QED BY <1>1, AutomationsInvariant, PTL

\* automationSessionReservations keeps runs in progress in sessions of their
\* own, until the outcome of the first is recorded.
THEOREM SessionsApart == Spec => []RunsApart
  <1>1. Inv => RunsApart
    BY InvImplies
  <1> QED BY <1>1, AutomationsInvariant, PTL

\* onInboxAppeared forgets no event that it has taken in: it is claimed,
\* refused, or among retryItems.
THEOREM EventsKept == Spec => []EventKept
  <1>1. Inv => EventKept
    BY InvImplies
  <1> QED BY <1>1, AutomationsInvariant, PTL

\* A settled run stays as it settled: automation_run_update overwrites any
\* status, but only the one launch of a run calls it, and it ends with the
\* outcome; automation_runs_recover takes what is not settled.
THEOREM SettledForGood == Spec => SettledStays
  <1>1. ASSUME Inv, [Next]_vars, NEW r \in runs, r.status \in Settled,
               NEW q \in runs', q.id = r.id
        PROVE  q.status = r.status
    <2>1. TypeInv /\ LaunchInv /\ Unique(runs)
      BY <1>1 DEF Inv, TypeInv, StoreOK, RunsOK, Unique
    <2>2. q \in runs \/ Changeable(q.id)
      BY <1>1, <2>1, RunsStep
    <2>3. q \in runs
      BY <1>1, <2>2 DEF Changeable
    <2> QED BY <1>1, <2>1, <2>3 DEF Unique
  <1>2. Inv /\ [Next]_vars =>
          [\A r \in runs : r.status \in Settled =>
              \A q \in runs' : q.id = r.id => q.status = r.status]_vars
    BY <1>1
  <1> QED BY <1>2, AutomationsInvariant, PTL DEF Spec, SettledStays
=============================================================================

------------------------------ MODULE Automations ------------------------------
(***************************************************************************)
(* The runs of an automation (src-tauri/src/automations.rs,                *)
(* features/automations/model/automations.ts and automationEvents.ts, and  *)
(* launchAutomation, ensureAutomationRecovery, evaluate and                *)
(* onInboxAppeared in app/App.tsx).                                        *)
(*                                                                         *)
(* An automation runs a prompt at its scheduled times, when an item        *)
(* appears in the Inbox, and when the user asks.  The database claims an   *)
(* occurrence or an event for one run; the window launches the run in a    *)
(* session that it reserves, and records what becomes of it.  A window     *)
(* that opens first recovers the runs the last one left behind.            *)
(*                                                                         *)
(* One automation with both kinds of trigger; windows come one after       *)
(* another.  An occurrence is due at every tick of the clock.              *)
(***************************************************************************)
EXTENDS Naturals, FiniteSets, Sequences

CONSTANTS
    Event,          \* Inbox items that match the automation's trigger
    Grace,          \* missedRunGraceMinutes, in ticks
    MaxHistory,     \* MAX_RUNS_PER_AUTOMATION
    MaxTime,        \* the clock (bound)
    MaxRuns,        \* runs made (bound)
    MaxUpsets       \* crashes, failed calls, effects set up anew, edits of the
                    \* automation and runs on request, together (bound)

ASSUME BoundsAssumption ==
    {Grace, MaxHistory, MaxTime, MaxRuns, MaxUpsets} \subseteq Nat /\ MaxTime > 0
ASSUME EventAssumption == IsFiniteSet(Event) /\ Event \cap Nat = {}

None == 0
Occurrence == 1..MaxTime + 1
Pass == {1, 2}      \* evaluations of the schedule; 2 is one whose effect was torn down
Settled == {"succeeded", "failed", "skipped", "cancelled"}

VARIABLES
    clock,
    \* The database.
    automation,     \* enabled, nextRunAt, lastRunAt and lastSessionId, or gone
    runs,           \* automation_runs
    claims,         \* automation_event_claims
    \* The window.
    cutoff,         \* automationRecoveryCutoffRef, None when no window is open
    recovery,       \* automationRecoveryRef: "none", "launching" or "done"
    recovering,     \* what recovery has still to launch, and what it awaits
    pass,           \* claimDueAutomations in progress, by Pass
    batch,          \* claimInboxAutomationRuns in progress
    launches,       \* launchAutomation in progress, up to its settlement
    saving,         \* a save the user has made and the database not yet
    retry,          \* retryItems (kept in local storage)
    sessions,       \* how many names sessions have been given
    \* History and bounds.
    made,           \* what each run was made for
    submitted,      \* how often its prompt was sent to a session
    since,          \* nextRunAt as last saved
    heard,          \* events the window has taken in
    upsets

store == <<automation, runs, claims, made>>
window == <<cutoff, recovery, recovering, pass, batch, launches, saving>>
history == <<submitted, since, heard>>
vars == <<clock, store, window, retry, sessions, history, upsets>>

Status == {"pending", "running"} \cup Settled
Ids == 1..MaxRuns
Claim == [run : Ids, last : Nat]        \* a run and lastSessionId as it was claimed
NoPass == [now |-> None, at |-> None, claimed |-> <<>>]
NoBatch == [now |-> None, left |-> {}, seen |-> {}, failed |-> {}, claimed |-> <<>>]
Gone == [exists |-> FALSE, enabled |-> FALSE, next |-> 1, lastAt |-> None, last |-> None]
NotSaving == [next |-> None, enabled |-> FALSE]

TypeOK ==
    /\ clock \in 1..MaxTime
    /\ automation \in [exists : BOOLEAN, enabled : BOOLEAN, next : Occurrence,
                       lastAt : 0..MaxTime, last : Nat]
    /\ runs \subseteq [id : Ids, status : Status, at : 1..MaxTime, session : Nat]
    /\ \A r, q \in runs : r.id = q.id => r = q
    /\ Cardinality({r \in runs : r.status \in Settled}) <= MaxHistory
    /\ claims \subseteq Event /\ retry \subseteq Event /\ heard \subseteq Event
    /\ cutoff \in 0..MaxTime
    /\ recovery \in {"none", "launching", "done"}
    /\ recovering \in [left : Seq(Claim), awaits : Ids \cup {None}]
    /\ pass \in [Pass -> [now : 0..MaxTime, at : {None} \cup Occurrence,
                          claimed : Seq(Claim)]]
    /\ batch \in [now : 0..MaxTime, left : SUBSET Event, seen : SUBSET Event, failed : SUBSET Event,
                  claimed : Seq(Claim)]
    /\ launches \subseteq [run : Ids, session : 1..sessions,
                           stage : {"reserved", "marked", "turn", "ended"}]
    /\ \A l, k \in launches : l.run = k.run => l = k
    /\ saving \in [next : {None} \cup Occurrence, enabled : BOOLEAN]
    /\ sessions \in Nat
    /\ Len(made) <= MaxRuns /\ submitted \in [Ids -> Nat]
    /\ since \in Occurrence /\ upsets \in 0..MaxUpsets

Init ==
    /\ clock = 1
    /\ automation = [exists |-> TRUE, enabled |-> TRUE, next |-> 1,
                     lastAt |-> None, last |-> None]
    /\ runs = {} /\ claims = {}
    /\ cutoff = None /\ recovery = "none"
    /\ recovering = [left |-> <<>>, awaits |-> None]
    /\ pass = [p \in Pass |-> NoPass] /\ batch = NoBatch
    /\ launches = {} /\ saving = NotSaving /\ retry = {} /\ sessions = 0
    /\ made = <<>> /\ submitted = [i \in Ids |-> 0]
    /\ since = 1 /\ heard = {} /\ upsets = 0

Open == cutoff # None
Upset == upsets < MaxUpsets /\ upsets' = upsets + 1

Tick ==
    /\ clock < MaxTime /\ clock' = clock + 1
    /\ UNCHANGED <<store, window, retry, sessions, history, upsets>>

-----------------------------------------------------------------------------
(* The database: each operation is one transaction *)

\* Mutant: the history is never cut.
trim_nothing(R) == R
\* ORDER BY created_at, id.  (The identifiers have no order of their own.)
Newer(q, r) == q.at > r.at \/ (q.at = r.at /\ q.id > r.id)
\* trim_history: of the runs past the newest ones, the settled go.
trim_history(R) ==
    {r \in R : r.status \notin Settled \/ Cardinality({q \in R : Newer(q, r)}) < MaxHistory}

\* The last run is the newest one that reported.
apply_run_summary(a, r) ==
    IF r.at >= a.lastAt
    THEN [a EXCEPT !.lastAt = r.at, !.last = IF r.session # None THEN r.session ELSE @]
    ELSE a

NewRun == Len(made) + 1
\* A run is made as of a time, with the automation's pointer moved to next.
Make(kind, key, status, next, now) ==
    /\ Len(made) < MaxRuns
    /\ made' = Append(made, [kind |-> kind, key |-> key])
    /\ runs' = trim_history(runs \cup
          {[id |-> NewRun, status |-> status, at |-> now, session |-> None]})
    /\ automation' = [automation EXCEPT !.next = next, !.lastAt = now]

RunIs(id) == {r \in runs : r.id = id}

\* automation_run_update: the status is overwritten, whatever it was.
run_update(id, status, session) ==
    LET r == CHOOSE r \in RunIs(id) : TRUE
        next == [r EXCEPT !.status = status,
                          !.session = IF session # None THEN session ELSE @]
    IN  /\ RunIs(id) # {} /\ automation.exists
        /\ runs' = trim_history((runs \ {r}) \cup {next})
        /\ automation' = apply_run_summary(automation, next)

-----------------------------------------------------------------------------
(* Launching *)

\* Mutant: a session is free as soon as its turn has ended.
ReservedForTurn(L) == {l.session : l \in {k \in L : k.stage # "ended"}}
\* automationSessionReservations.
Reserved(L) == {l.session : l \in L}

\* The start of launchAutomation: the session of the last run, which the claim
\* names, is used again unless it is busy or reserved.  Of several claims made
\* in one pass, the first reserves it; the i-th gets a new session otherwise.
Reusable(last) ==
    /\ last \in 1..sessions /\ last \notin Reserved(launches)
    /\ \A l \in launches : l.stage = "turn" => l.session # last
SessionFor(claimed, i) ==
    IF Reusable(claimed[i].last) /\ \A j \in 1..i - 1 : claimed[j].last # claimed[i].last
    THEN claimed[i].last ELSE sessions + i

LaunchAll(claimed) ==
    /\ launches' = launches \cup
          {[run |-> claimed[i].run, session |-> SessionFor(claimed, i), stage |-> "reserved"]
           : i \in DOMAIN claimed}
    /\ sessions' = sessions + Len(claimed)

Moved(l, stage) == launches' = (launches \ {l}) \cup {[l EXCEPT !.stage = stage]}

\* The run is marked running before its prompt is sent ...
MarkRunning(l) ==
    /\ l.stage = "reserved"
    /\ run_update(l.run, "running", l.session)
    /\ Moved(l, "marked")
    /\ UNCHANGED <<submitted, upsets>>

\* ... and when it cannot be, the run fails if that can be written.
MarkFails(l) ==
    /\ l.stage = "reserved"
    /\ IF RunIs(l.run) = {} THEN UNCHANGED <<automation, runs, upsets>>
       ELSE /\ Upset
            /\ \/ run_update(l.run, "failed", None)
               \/ UNCHANGED <<automation, runs>>
    /\ launches' = launches \ {l}
    /\ UNCHANGED submitted

\* submitSession: the session takes the prompt, or turns it down and the run
\* fails.
Submit(l) ==
    /\ l.stage = "marked"
    /\ \/ /\ submitted' = [submitted EXCEPT ![l.run] = @ + 1]
          /\ Moved(l, "turn")
          /\ UNCHANGED <<automation, runs>>
       \/ /\ run_update(l.run, "failed", l.session)
          /\ launches' = launches \ {l}
          /\ UNCHANGED submitted
    /\ UNCHANGED upsets

TurnEnds(l) ==
    /\ l.stage = "turn" /\ Moved(l, "ended")
    /\ UNCHANGED <<automation, runs, submitted, upsets>>

\* onSettled: the outcome is recorded, then the session released.  (A turn
\* that fails or is cancelled is recorded the same way.)
Settle(l) ==
    /\ l.stage = "ended"
    /\ \/ run_update(l.run, "succeeded", l.session) /\ UNCHANGED upsets
       \/ RunIs(l.run) = {} /\ UNCHANGED <<automation, runs, upsets>>
       \/ Upset /\ UNCHANGED <<automation, runs>>
    /\ launches' = launches \ {l}
    /\ UNCHANGED submitted

Launching(l) ==
    /\ MarkRunning(l) \/ MarkFails(l) \/ Submit(l) \/ TurnEnds(l) \/ Settle(l)
    /\ UNCHANGED <<clock, claims, made, cutoff, recovery, recovering, pass, batch, saving,
                   retry, sessions, since, heard>>

-----------------------------------------------------------------------------
(* Recovery *)

\* The runs made before the window opened that are not settled.
LeftBehind == {r \in runs : r.status \in {"pending", "running"} /\ r.at <= cutoff}

\* Mutant: a run that was running starts again.
ResumableAny(R) == R
Resumable(R) == {r \in R : r.status = "pending"}

\* The runs of R report in order, so the newest has the last word: each was
\* running, and names its session.
Reported(R) ==
    IF R = {} THEN automation
    ELSE apply_run_summary(automation, CHOOSE r \in R : \A q \in R \ {r} : Newer(r, q))

\* automation_runs_recover: from the oldest on, what was running is cancelled
\* and what was pending is returned, with the automation as it is by then.  It
\* is asked for again when it fails.
Recover ==
    LET pending == Resumable(LeftBehind)
        cancelled == {[r EXCEPT !.status = "cancelled"] : r \in LeftBehind \ pending}
        claim(r) == [run |-> r.id, last |-> Reported({q \in cancelled : Newer(r, q)}).last]
    IN  /\ Open /\ recovery = "none" /\ recovery' = "launching"
        /\ automation' = Reported(cancelled)
        /\ runs' = trim_history((runs \ LeftBehind) \cup pending \cup cancelled)
        /\ \E order \in [1..Cardinality(pending) -> pending] :
              /\ \A i, j \in DOMAIN order : i < j => Newer(order[j], order[i])
              /\ recovering' = [left |-> [i \in DOMAIN order |-> claim(order[i])],
                                awaits |-> None]
        /\ UNCHANGED <<clock, claims, made, cutoff, pass, batch, launches, saving, retry,
                       sessions, history, upsets>>

\* One by one: each launch is awaited until its session has the prompt.
RecoverNext ==
    /\ recovery = "launching"
    /\ \A l \in launches : l.run = recovering.awaits => l.stage \notin {"reserved", "marked"}
    /\ IF recovering.left = <<>>
       THEN recovery' = "done" /\ UNCHANGED <<recovering, launches, sessions>>
       ELSE /\ LaunchAll(<<Head(recovering.left)>>)
            /\ recovering' = [left |-> Tail(recovering.left),
                              awaits |-> Head(recovering.left).run]
            /\ UNCHANGED recovery
    /\ UNCHANGED <<clock, store, cutoff, pass, batch, saving, retry, history, upsets>>

-----------------------------------------------------------------------------
(* The schedule *)

\* evaluate, every 30 seconds and when the window is shown: an occurrence
\* that is due is read, then claimed with those after it.
Evaluate ==
    /\ recovery = "done" /\ pass[1] = NoPass
    /\ automation.exists /\ automation.enabled /\ automation.next <= clock
    /\ pass' = [pass EXCEPT ![1].now = clock, ![1].at = automation.next]
    /\ UNCHANGED <<clock, store, cutoff, recovery, recovering, batch, launches, saving, retry,
                   sessions, history, upsets>>

\* Mutant: the occurrence is claimed although the schedule has moved.
StillDueAnyway(p) == automation.exists /\ automation.enabled
\* The guard of the UPDATE in automations_claim_due.
StillDue(p) ==
    /\ automation.exists /\ automation.enabled
    /\ automation.next = pass[p].at /\ automation.next <= pass[p].now

\* Mutant: the schedule goes on after the present.
FollowingAfterNow(p) == pass[p].now + 1
\* The occurrence after the one claimed, due already or not.
Following(p) == pass[p].at + 1

\* Mutant: a skipped run is launched with the others.
ToLaunchAny(claimed, claim, status) == Append(claimed, claim)
ToLaunch(claimed, claim, status) ==
    IF status = "pending" THEN Append(claimed, claim) ELSE claimed

ClaimDue(p) ==
    LET status == IF pass[p].now - pass[p].at <= Grace THEN "pending" ELSE "skipped"
        claim == [run |-> NewRun, last |-> automation.last]
    IN  /\ pass[p] # NoPass /\ pass[p].at <= pass[p].now
        /\ StillDue(p)
        /\ Make("scheduled", pass[p].at, status, Following(p), pass[p].now)
        /\ pass' = [pass EXCEPT ![p].at = Following(p),
                                ![p].claimed = ToLaunch(@, claim, status)]
        /\ UNCHANGED <<clock, claims, cutoff, recovery, recovering, batch, launches, saving,
                       retry, sessions, history, upsets>>

\* The pass ends when nothing is due, or when a claim is refused or fails.
\* What it has claimed is launched, unless the effect has been set up anew.
EvaluateEnds(p) ==
    /\ pass[p] # NoPass
    /\ \/ ~ (StillDue(p) /\ pass[p].at <= pass[p].now) /\ UNCHANGED upsets
       \/ Upset
    /\ IF p = 2 THEN UNCHANGED <<launches, sessions>>
       ELSE LaunchAll(pass[p].claimed)
    /\ pass' = [pass EXCEPT ![p] = NoPass]
    /\ UNCHANGED <<clock, store, cutoff, recovery, recovering, batch, saving, retry, history>>

\* The effect is torn down and set up again while it evaluates.
Dispose ==
    /\ pass[1] # NoPass /\ pass[2] = NoPass /\ Upset
    /\ pass' = [pass EXCEPT ![1] = NoPass, ![2] = pass[1]]
    /\ UNCHANGED <<clock, store, cutoff, recovery, recovering, batch, launches, saving, retry,
                   sessions, history>>

-----------------------------------------------------------------------------
(* Events and runs on request *)

\* An Inbox poll, with an item that was not there before or with none: it
\* joins the ones kept for another attempt, and all of them are tried.
InboxAppeared(E) ==
    /\ recovery = "done" /\ batch = NoBatch /\ E \cap heard = {}
    /\ retry' = retry \cup E /\ heard' = heard \cup E
    /\ retry' # {}
    /\ batch' = [NoBatch EXCEPT !.now = clock, !.left = retry', !.seen = retry']
    /\ UNCHANGED <<clock, store, cutoff, recovery, recovering, pass, launches, saving,
                   sessions, submitted, since, upsets>>

\* automations_claim_event.
ClaimEvent(e) ==
    LET claim == [run |-> NewRun, last |-> automation.last]
    IN  /\ e \in batch.left
        /\ \/ /\ automation.exists /\ automation.enabled /\ e \notin claims
              /\ Make("event", e, "pending", automation.next, batch.now)
              /\ claims' = claims \cup {e}
              /\ batch' = [batch EXCEPT !.left = @ \ {e}, !.claimed = Append(@, claim)]
              /\ UNCHANGED <<heard, upsets>>
           \/ /\ ~ (automation.exists /\ automation.enabled) \/ e \in claims
              /\ batch' = [batch EXCEPT !.left = @ \ {e}]
              /\ heard' = IF e \in claims THEN heard ELSE heard \ {e}
              /\ UNCHANGED <<store, upsets>>
           \/ /\ Upset
              /\ batch' = [batch EXCEPT !.left = @ \ {e}, !.failed = @ \cup {e}]
              /\ UNCHANGED <<store, heard>>
        /\ UNCHANGED <<clock, cutoff, recovery, recovering, pass, launches, saving, retry,
                       sessions, submitted, since>>

\* Mutant: what was tried is done.
TriedEvents == batch.seen
DoneEvents == batch.seen \ batch.failed

InboxDone ==
    /\ batch # NoBatch /\ batch.left = {}
    /\ retry' = retry \ DoneEvents
    /\ LaunchAll(batch.claimed)
    /\ batch' = NoBatch
    /\ UNCHANGED <<clock, store, cutoff, recovery, recovering, pass, saving, history, upsets>>

\* automation_run_now, then the launch.  The user needs longer than the
\* instant in which the window opened.
RunNow ==
    /\ Open /\ clock > cutoff /\ automation.exists
    /\ Upset
    /\ Make("manual", None, "pending", automation.next, clock)
    /\ LaunchAll(<<[run |-> NewRun, last |-> automation.last]>>)
    /\ UNCHANGED <<clock, claims, cutoff, recovery, recovering, pass, batch, saving, retry,
                   history>>

-----------------------------------------------------------------------------
(* The user's changes *)

\* saveAutomation computes the next run ...
Save(enabled) ==
    /\ Open /\ automation.exists /\ saving = NotSaving /\ Upset
    /\ saving' = [next |-> clock + 1, enabled |-> enabled]
    /\ UNCHANGED <<clock, store, cutoff, recovery, recovering, pass, batch, launches, retry,
                   sessions, history>>

\* "The next automation run must be in the future."
Valid == saving.next > clock

\* ... and automations_upsert writes it, or refuses one that has passed.
Upsert ==
    /\ saving # NotSaving /\ saving' = NotSaving
    /\ IF Valid
       THEN /\ automation' = [automation EXCEPT !.next = saving.next, !.enabled = saving.enabled]
            /\ since' = saving.next
       ELSE UNCHANGED <<automation, since>>
    /\ UNCHANGED <<clock, runs, claims, made, cutoff, recovery, recovering, pass, batch,
                   launches, retry, sessions, submitted, heard, upsets>>

\* Its runs and claims go with the automation.
Delete ==
    /\ Open /\ automation.exists /\ Upset /\ saving = NotSaving
    /\ automation' = Gone
    /\ runs' = {} /\ claims' = {} /\ heard' = {} /\ since' = 1
    /\ UNCHANGED <<clock, made, window, retry, sessions, submitted>>

\* A window opens; one closes, or the program ends.  The sessions stay.
OpenWindow ==
    /\ ~Open /\ cutoff' = clock
    /\ UNCHANGED <<clock, store, recovery, recovering, pass, batch, launches, saving, retry,
                   sessions, history, upsets>>
Stop ==
    /\ Open /\ Upset
    /\ cutoff' = None /\ recovery' = "none"
    /\ recovering' = [left |-> <<>>, awaits |-> None]
    /\ pass' = [p \in Pass |-> NoPass] /\ batch' = NoBatch
    /\ launches' = {} /\ saving' = NotSaving
    /\ UNCHANGED <<clock, store, retry, sessions, history>>

Next ==
    \/ Tick \/ OpenWindow \/ Stop
    \/ Recover \/ RecoverNext
    \/ Evaluate \/ Dispose
    \/ \E p \in Pass : ClaimDue(p) \/ EvaluateEnds(p)
    \/ \E E \in {{}} \cup {{e} : e \in Event} : InboxAppeared(E)
    \/ \E e \in Event : ClaimEvent(e)
    \/ InboxDone
    \/ RunNow
    \/ \E l \in launches : Launching(l)
    \/ \E enabled \in BOOLEAN : Save(enabled)
    \/ Upsert \/ Delete
Spec == Init /\ [][Next]_vars

-----------------------------------------------------------------------------
(* Properties *)

\* An occurrence or an event is made into a run once: passes overlap when the
\* effect is set up anew, polls repeat, the user saves the schedule while it
\* is being worked through, and windows follow one another.
ClaimedOnce ==
    \A i, j \in DOMAIN made : made[i] = made[j] /\ made[i].kind # "manual" => i = j

\* The schedule leaves no occurrence behind: each one it has passed since it
\* was last saved has a run, be it a skipped one ("Any remaining overdue
\* occurrences stay due for the next pass").
NoOccurrenceLost ==
    automation.exists =>
    \A o \in since..automation.next - 1 :
        \E i \in DOMAIN made : made[i] = [kind |-> "scheduled", key |-> o]

\* The prompt of a run is sent once: a crash between the mark and the
\* outcome cancels the run, one before the mark starts it again.
SubmittedOnce == \A i \in Ids : submitted[i] <= 1

\* Two runs in progress never share a session, also while the outcome of the
\* first is being recorded.
RunsApart == \A l, k \in launches : l.session = k.session => l = k

\* A settled run is not started or settled again.
SettledStays ==
    [][\A r \in runs : r.status \in Settled =>
          \A q \in runs' : q.id = r.id => q.status = r.status]_vars

\* An event the window took in is claimed, refused, or kept for another
\* attempt, also over a failed claim and a restart.
EventKept == heard \subseteq claims \cup retry
=============================================================================

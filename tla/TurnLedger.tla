------------------------------ MODULE TurnLedger ------------------------------
(***************************************************************************)
(* What a host promises about turns, whatever crashes, storage failures,   *)
(* duplicated requests or competing clients do to it: a prompt is accepted *)
(* at most once, a session has at most one turn open, and a prompt reaches *)
(* a provider at most once, while its turn is open.  The promise is made   *)
(* in docs/remote-access.md (a retry does not "submit the prompt again",   *)
(* "No uncertain provider operation is automatically replayed after a host *)
(* crash") and in the constructor of host/engine.ts.                       *)
(***************************************************************************)
CONSTANTS CommandIds, SessionIds, None

VARIABLES
    open,      \* the prompt whose turn is open in a session, or None
    accepted,  \* prompts accepted so far
    handed     \* prompts that reached a provider

vars == <<open, accepted, handed>>

Init ==
    /\ open = [s \in SessionIds |-> None]
    /\ accepted = {}
    /\ handed = {}

Accept(s, c) ==
    /\ open[s] = None
    /\ c \notin accepted
    /\ open' = [open EXCEPT ![s] = c]
    /\ accepted' = accepted \cup {c}
    /\ UNCHANGED handed

Hand(s) ==
    /\ open[s] # None
    /\ open[s] \notin handed
    /\ handed' = handed \cup {open[s]}
    /\ UNCHANGED <<open, accepted>>

End(s) ==
    /\ open[s] # None
    /\ open' = [open EXCEPT ![s] = None]
    /\ UNCHANGED <<accepted, handed>>

Next == \E s \in SessionIds :
            \/ \E c \in CommandIds : Accept(s, c)
            \/ Hand(s)
            \/ End(s)

Spec == Init /\ [][Next]_vars
=============================================================================

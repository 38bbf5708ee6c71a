-------------------------- MODULE OperationOutcome --------------------------
(***************************************************************************)
(* What the operation monitor promises its observers about an operation    *)
(* (SPEC R23.3, AGENTS R15): it gets one outcome, which never changes, and *)
(* one terminal event, which comes after it.  OperationMonitor implements  *)
(* it.                                                                     *)
(***************************************************************************)
EXTENDS Naturals

CONSTANTS Operations, Outcomes, Undecided

VARIABLES
    outcome,   \* [Operations -> Outcomes \cup {Undecided}]
    announced  \* [Operations -> Nat]: terminal events on the stream

OutcomeInit ==
    /\ outcome = [o \in Operations |-> Undecided]
    /\ announced = [o \in Operations |-> 0]

\* The first terminal writer wins.
Decide(o) ==
    /\ outcome[o] = Undecided
    /\ \E s \in Outcomes : outcome' = [outcome EXCEPT ![o] = s]
    /\ UNCHANGED announced

Announce(o) ==
    /\ outcome[o] # Undecided /\ announced[o] = 0
    /\ announced' = [announced EXCEPT ![o] = 1]
    /\ UNCHANGED outcome

OutcomeNext == \E o \in Operations : Decide(o) \/ Announce(o)

OutcomeSpec == OutcomeInit /\ [][OutcomeNext]_<<outcome, announced>>
=============================================================================

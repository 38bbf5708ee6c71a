--------------------------- MODULE WorkspaceLease ---------------------------
(***************************************************************************)
(* What the write queue promises of one workspace (SPEC R2.7.1, R2.7.7),   *)
(* whatever locks, notifications and files provide it: a place in line is  *)
(* taken on arrival, the lease goes to the head of a process's line, and   *)
(* two leases are held at once only where the promise excepts them.        *)
(***************************************************************************)
EXTENDS SequencesExt

CONSTANTS
    Op,      \* operations
    Proc,    \* ahma processes
    Home,    \* [Op -> Proc]
    Overlap  \* pairs of operations the promise does not keep apart: one of
             \* them runs under an ancestor's lease, or without the lock file

VARIABLES
    line,    \* [Proc -> Seq(Op)]: places taken and not given up
    holders  \* operations that hold the lease

leaseVars == <<line, holders>>

LeaseTypeOK ==
    /\ line \in [Proc -> Seq(Op)]
    /\ holders \subseteq Op

LeaseInit ==
    /\ line = [p \in Proc |-> <<>>]
    /\ holders = {}

InSomeLine(o) == \E i \in DOMAIN line[Home[o]] : line[Home[o]][i] = o

Arrive(o) ==
    /\ ~InSomeLine(o)
    /\ line' = [line EXCEPT ![Home[o]] = Append(@, o)]
    /\ UNCHANGED holders

\* The head of a line takes the lease, if it may run beside every holder.
Take(o) ==
    /\ line[Home[o]] # <<>> /\ Head(line[Home[o]]) = o
    /\ o \notin holders
    /\ \A h \in holders : <<o, h>> \in Overlap
    /\ holders' = holders \cup {o}
    /\ UNCHANGED line

\* A holder is done, or one that waits gives up: the others keep their order.
Leave(o) ==
    /\ \E i \in DOMAIN line[Home[o]] :
        /\ line[Home[o]][i] = o
        /\ line' = [line EXCEPT ![Home[o]] = RemoveAt(@, i)]
    /\ holders' = holders \ {o}

\* Processes end: nothing they held or waited for outlives them.
Vanish(P) ==
    /\ line' = [p \in Proc |-> IF p \in P THEN <<>> ELSE line[p]]
    /\ holders' = {o \in holders : Home[o] \notin P}

LeaseNext ==
    \/ \E o \in Op : Arrive(o) \/ Take(o) \/ Leave(o)
    \/ \E P \in SUBSET Proc : Vanish(P)

LeaseSpec == LeaseInit /\ [][LeaseNext]_leaseVars
=============================================================================

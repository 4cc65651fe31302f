------------------------------ MODULE MCVisits ------------------------------
(* Small instances of Visits for TLC.                                      *)
EXTENDS Visits, TLC

\* Instant and reviewed bookings, with and without a lead time.
MCRules ==
    {[approval_mode |-> "instant", lead |-> 0, advance |-> 2, shortest |-> 1, longest |-> 2],
     [approval_mode |-> "approve", lead |-> 1, advance |-> 3, shortest |-> 1, longest |-> 3]}

\* Persons, bookings and jobs are interchangeable, and so are machines.
Symmetry == UNION {Permutations(S) : S \in {Persons, Rows, Orders, Machines}}
=============================================================================

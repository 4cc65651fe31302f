---------------------------- MODULE MCStockroom ----------------------------
(***************************************************************************)
(* Small instances of Lending and Stocktake that one run explores side by  *)
(* side.  They share the variables and differ in their constants; a        *)
(* behaviour belongs to the instance it starts in (part) for ever.         *)
(*                                                                         *)
(*   serialized  two borrowings over three units, which are generated,      *)
(*               shelved, repaired, triaged and transferred in between     *)
(*   conversion  two products, one of them turned into units and back      *)
(*   rebound     units of two makerspaces' products, moved with their labels *)
(*   counted     a stocktake of a counted product that is lent meanwhile   *)
(*   units       a stocktake of units that are lent meanwhile              *)
(*   scope       a stocktake of a container stock is moved out of          *)
(***************************************************************************)
EXTENDS TLC, Integers

CONSTANTS None, p1, d1, a1, a2, a3, b1, r1, r2, i1, i2, e1, e2, s1, m1, m2

VARIABLES
    part,
    mode, product, asset, place, consumable,
    status, item, link, assigned_box, issue_evidence, anon_key, return_event,
    loan_status, loan_source, loan_container, loan_qrs, loan_evidence, report,
    session, scope, completed_by, lines, ledger

\* Values of the constants where an instance says nothing else.
Products == {p1}
Assets == {}
Individual == {}
Consumables == {}
Boxes == {}
MaxStock == 1
MaxDelta == 1
Requests == {r1}
IssuePhotos == {i1}
ReturnPhotos == {e1}
Keys == {}
OutstandingLimit == 2
Public == {}
MaxQty == 1
MaxScans == 0
Sessions == {}
Staff == {m1, m2}
Managers == Staff
Superadmins == {}
MaxCount == 2
MaxLines == 2
ProductOf == [a \in Assets |-> p1]
Subtree == [b \in Boxes |-> {b}]

Serialized == INSTANCE Stocktake WITH
    Individual <- {p1}, Assets <- {a1, a2, a3}, ProductOf <- [a \in {a1, a2, a3} |-> p1],
    MaxStock <- 0, Requests <- {r1, r2}, IssuePhotos <- {i1, i2}, ReturnPhotos <- {e1, e2},
    OutstandingLimit <- 1, Public <- {p1, a1, a2}, MaxQty <- 2, MaxScans <- 2
Conversion == INSTANCE Stocktake WITH
    Products <- {p1, d1}, Consumables <- {d1}, Assets <- {a1, a2},
    ProductOf <- [a \in {a1, a2} |-> p1], Public <- {p1, d1, a1, a2}, MaxScans <- 1
Rebound == INSTANCE Stocktake WITH
    Products <- {p1, d1}, Individual <- {p1, d1}, Assets <- {a1, a2, a3},
    ProductOf <- [a \in {a1, a2, a3} |-> IF a = a3 THEN d1 ELSE p1],
    MaxStock <- 0, Public <- {p1, a1, a2}, MaxScans <- 1
Counted == INSTANCE Stocktake WITH Sessions <- {s1}
Units == INSTANCE Stocktake WITH
    Sessions <- {s1}, Individual <- {p1}, Assets <- {a1, a2}, ProductOf <- [a \in {a1, a2} |-> p1],
    MaxStock <- 0, MaxCount <- 1
Scope == INSTANCE Stocktake WITH
    Sessions <- {s1}, Requests <- {}, Boxes <- {b1}, Subtree <- [b \in {b1} |-> {b}],
    MaxCount <- 1

Init ==
    \/ part = "serialized" /\ Serialized!StocktakeInit
    \/ part = "conversion" /\ Conversion!StocktakeInit
    \/ part = "rebound" /\ Rebound!StocktakeInit
    \/ part = "counted" /\ Counted!StocktakeInit
    \/ part = "units" /\ Units!StocktakeInit
    \/ part = "scope" /\ Scope!StocktakeInit

Next ==
    \/ part = "serialized" /\ Serialized!StocktakeNext /\ UNCHANGED part
    \/ part = "conversion" /\ Conversion!StocktakeNext /\ UNCHANGED part
    \/ part = "rebound" /\ Rebound!StocktakeNext /\ UNCHANGED part
    \/ part = "counted" /\ Counted!StocktakeNext /\ UNCHANGED part
    \/ part = "units" /\ Units!StocktakeNext /\ UNCHANGED part
    \/ part = "scope" /\ Scope!StocktakeNext /\ UNCHANGED part

vars == <<part, Serialized!allVars>>

Spec == Init /\ [][Next]_vars

\* What an instance does not use it does not permute either: a state and its
\* image under one of these belong to the same instance.
Symmetry ==
    UNION {Permutations(S) : S \in {{m1, m2}, {a1, a2}, {r1, r2}, {i1, i2}, {e1, e2}}}

-----------------------------------------------------------------------------
(* The properties, stated of the instances that can break them.            *)

\* See Lending.  Through repairs, transfers, changes of the tracking mode, moves to
\* another makerspace and stocktakes the buckets agree with the unit rows and with
\* the total, a unit is ISSUED while it is with one borrower, and nothing gets
\* stuck: what staff, triage or a stocktake does to a bucket or a unit meanwhile
\* leaves an accepted request cancellable and an issued one returnable.
StockroomSound ==
    /\ part = "serialized" =>
          Serialized!BooksAgree /\ Serialized!UnitCustody /\ Serialized!NothingStuck
    /\ part = "conversion" => Conversion!BooksAgree
    /\ part = "rebound" =>
          /\ Rebound!BooksAgree /\ Rebound!NothingStuck
          /\ \A p \in {p1, d1} : product[p]["available"] >= 0
    /\ part = "counted" => Counted!BooksAgree /\ Counted!NothingStuck
    /\ part = "units" => Units!BooksAgree /\ Units!NothingStuck
    /\ part = "scope" => Scope!BooksAgree

\* See Stocktake.  An application leaves in a counted bucket a number somebody
\* counted, and a unit where its line found it.
AppliedAsCounted ==
    [][/\ part = "counted" => Counted!CountsApplied
       /\ part = "units" => Units!CountsApplied
       /\ part = "scope" => Scope!CountsApplied]_vars
=============================================================================

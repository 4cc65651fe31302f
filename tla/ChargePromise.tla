---------------------------- MODULE ChargePromise ----------------------------
(***************************************************************************)
(* What a charge promises its member and its makerspace, with no session,  *)
(* rail, webhook or credential in sight: staff settle it at most once, the *)
(* provider takes the member's money at most once, and the ledger learns   *)
(* of that money exactly once, correcting a waiver and asking for a refund *)
(* when cash had already been taken.  Payments implements it.              *)
(***************************************************************************)
EXTENDS Naturals

CONSTANT Instruments   \* the provider-side objects that can take money

VARIABLES
    status,    \* the ledger's word on the charge
    captured,  \* the instruments through which the member was charged
    known,     \* the ledger has recorded the captured money
    refunds    \* refund-required conditions raised

promiseVars == <<status, captured, known, refunds>>

Statuses == {"absent", "pending", "paid_online", "paid_offline", "waived",
             "canceled"}

Init == status = "absent" /\ captured = {} /\ known = FALSE /\ refunds = 0

(* A charge is raised once for its subject. *)
Raise ==
    /\ status = "absent"
    /\ status' = "pending"
    /\ UNCHANGED <<captured, known, refunds>>

(* Staff settle, forgive or withdraw a charge that is still due. *)
Decide ==
    /\ status = "pending"
    /\ status' \in {"paid_offline", "waived", "canceled"}
    /\ UNCHANGED <<captured, known, refunds>>

(* The provider takes the money: once, whatever happened to the charge. *)
Capture ==
    /\ status # "absent"
    /\ captured = {}
    /\ \E i \in Instruments : captured' = {i}
    /\ UNCHANGED <<status, known, refunds>>

(* The ledger learns of it: once, and never forgets a second payment. *)
Learn ==
    /\ captured # {}
    /\ ~known
    /\ known' = TRUE
    /\ status' = IF status \in {"pending", "waived"} THEN "paid_online"
                                                     ELSE status
    /\ refunds' = IF status = "paid_offline" THEN refunds + 1 ELSE refunds
    /\ UNCHANGED captured

Next == Raise \/ Decide \/ Capture \/ Learn

Spec == Init /\ [][Next]_promiseVars

=============================================================================

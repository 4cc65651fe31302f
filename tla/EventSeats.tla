----------------------------- MODULE EventSeats -----------------------------
(***************************************************************************)
(* Seats of one event: registration, approval, the waiting list, changes   *)
(* of capacity and schedule, attendance, and the charge a seat raises.     *)
(* Every service locks the event row first, so each is one step; what      *)
(* matters is the order in which members, staff and the clock act.         *)
(***************************************************************************)
EXTENDS FiniteSets, Integers

CONSTANTS
    Persons,       \* identities: a member, or an e-mail without an account
    MaxCapacity    \* bound on the seats staff configure (0 is unlimited)

VARIABLES
    event,     \* the Event row; ended and closed are its clock
    reg,       \* status of each person's EventRegistration row
    earlier,   \* earlier[p]: whose rows have an earlier created_at than p's
    charge     \* status of the row's Payment

vars == <<event, reg, earlier, charge>>

EventStatus == {"draft", "published", "cancelled", "completed"}
Registration == {"none", "pending_approval", "registered", "waitlisted",
                 "cancelled", "rejected", "attended"}

TypeOK ==
    /\ event \in [status : EventStatus, capacity : 0..MaxCapacity,
                  approval : BOOLEAN, ended : BOOLEAN, closed : BOOLEAN]
    /\ reg \in [Persons -> Registration]
    /\ earlier \in [Persons -> SUBSET {p \in Persons : reg[p] # "none"}]
    /\ \A p, q \in Persons : p \in earlier[q] =>
          reg[q] # "none" /\ q \notin earlier[p] /\ earlier[p] \subseteq earlier[q]
    /\ \A p, q \in Persons : reg[p] # "none" /\ reg[q] # "none" =>
          p = q \/ p \in earlier[q] \/ q \in earlier[p]
    /\ charge \in [Persons -> {"none", "pending", "settled", "canceled"}]

Init ==
    /\ event \in [status : {"draft"}, capacity : 0..MaxCapacity,
                  approval : BOOLEAN, ended : {FALSE}, closed : {FALSE}]
    /\ reg = [p \in Persons |-> "none"]
    /\ earlier = [p \in Persons |-> {}]
    /\ charge = [p \in Persons |-> "none"]

------------------------------------------------------------------------------
(* Capacity. *)

CONFIRMED_STATUSES == {"registered", "attended"}

confirmed_occupancy == Cardinality({p \in Persons : reg[p] \in CONFIRMED_STATUSES})

Unlimited == event.capacity = 0
spots_left == event.capacity > confirmed_occupancy

registration_is_open == event.status = "published" /\ ~event.ended /\ ~event.closed

fresh_registration_status ==
    IF event.approval THEN "pending_approval"
    ELSE IF Unlimited \/ spots_left THEN "registered" ELSE "waitlisted"

_decision_is_open == event.status = "published" /\ ~event.ended
_may_promote == _decision_is_open

Waiters == {p \in Persons : reg[p] = "waitlisted"}
Ahead(p) == earlier[p] \cap Waiters

\* waiters[:count]
FirstWaiters(count) == {p \in Waiters : Cardinality(Ahead(p)) < count}

------------------------------------------------------------------------------
(* Taking a seat raises its charge: none where payments fail or do not     *)
(* apply, and never a second one for a row that already has one.           *)
create_for_registered_registration(seated) ==
    \E raised \in SUBSET {p \in seated : charge[p] = "none"} :
        charge' = [p \in Persons |-> IF p \in raised THEN "pending" ELSE charge[p]]

cancel_for_registration(p) ==
    IF charge[p] = "pending" THEN [charge EXCEPT ![p] = "canceled"] ELSE charge

(* The charge is settled by whatever means Payments describes. *)
SettleCharge(p) ==
    /\ charge[p] = "pending"
    /\ charge' = [charge EXCEPT ![p] = "settled"]
    /\ UNCHANGED <<event, reg, earlier>>

seat(who) == reg' = [p \in Persons |-> IF p \in who THEN "registered" ELSE reg[p]]

------------------------------------------------------------------------------
(* Registration. *)

(* A cancelled row is taken up again, at the back of the queue. *)
register(p) ==
    /\ registration_is_open
    /\ reg[p] \in {"none", "cancelled"}
    /\ reg' = [reg EXCEPT ![p] = fresh_registration_status]
    /\ earlier' = [q \in Persons |->
                     IF q = p THEN {o \in Persons \ {p} : reg[o] # "none"}
                     ELSE earlier[q] \ {p}]
    /\ IF fresh_registration_status = "registered"
       THEN create_for_registered_registration({p})
       ELSE UNCHANGED charge
    /\ UNCHANGED event

approve_registration(p) ==
    /\ event.approval
    /\ reg[p] = "pending_approval"
    /\ _decision_is_open
    /\ IF Unlimited \/ spots_left
       THEN seat({p}) /\ create_for_registered_registration({p})
       ELSE reg' = [reg EXCEPT ![p] = "waitlisted"] /\ UNCHANGED charge
    /\ UNCHANGED <<event, earlier>>

reject_registration(p) ==
    /\ reg[p] \in {"pending_approval", "waitlisted"}
    /\ reg' = [reg EXCEPT ![p] = "rejected"]
    /\ UNCHANGED <<event, earlier, charge>>

promote_registration(p) ==
    /\ event.approval
    /\ reg[p] = "waitlisted"
    /\ _decision_is_open
    /\ Unlimited \/ spots_left
    /\ seat({p})
    /\ create_for_registered_registration({p})
    /\ UNCHANGED <<event, earlier>>

\* Mutant: the charge of a seat given up stays due.
cancel_registration_keeps_charge(p) ==
    /\ reg[p] = "registered"
    /\ reg' = [reg EXCEPT ![p] = "cancelled"]
    /\ UNCHANGED <<event, earlier, charge>>

(* Giving a seat back hands it to the first person waiting. *)
cancel_registration(p) ==
    LET next == IF /\ reg[p] = "registered" /\ ~event.approval
                   /\ event.capacity > 0 /\ _may_promote
                THEN FirstWaiters(1) ELSE {}
    IN  /\ reg[p] \in {"pending_approval", "registered", "waitlisted"}
        /\ reg' = [q \in Persons |-> IF q = p THEN "cancelled"
                                     ELSE IF q \in next THEN "registered"
                                     ELSE reg[q]]
        /\ \E raised \in SUBSET {q \in next : charge[q] = "none"} :
             charge' = [q \in Persons |-> IF q \in raised THEN "pending"
                                          ELSE cancel_for_registration(p)[q]]
        /\ UNCHANGED <<event, earlier>>

mark_attended(p) ==
    /\ reg[p] = "registered"
    /\ event.status \in {"published", "completed"}
    /\ reg' = [reg EXCEPT ![p] = "attended"]
    /\ UNCHANGED <<event, earlier, charge>>

correct_attendance(p) ==
    /\ reg[p] = "attended"
    /\ reg' = [reg EXCEPT ![p] = "registered"]
    /\ UNCHANGED <<event, earlier, charge>>

------------------------------------------------------------------------------
(* The event. *)

publish ==
    /\ event.status = "draft" /\ ~event.ended
    /\ event' = [event EXCEPT !.status = "published"]
    /\ UNCHANGED <<reg, earlier, charge>>

\* Mutant: the latest waiter is lifted first.
Freed_latest(e) ==
    IF e.status = "published" /\ ~e.ended /\ ~e.approval
    THEN {p \in Waiters : \/ e.capacity = 0
                          \/ Cardinality({q \in Waiters : p \in earlier[q]})
                               < e.capacity - confirmed_occupancy}
    ELSE {}

(* The seats an update makes free go to those who wait, first come first. *)
Freed(e) ==
    IF e.status = "published" /\ ~e.ended /\ ~e.approval
    THEN IF e.capacity = 0 THEN Waiters
         ELSE FirstWaiters(e.capacity - confirmed_occupancy)
    ELSE {}

\* Mutant: only an edit of the capacity looks at the waiting list.
_update_event_only_capacity(e) ==
    /\ event.status \in {"draft", "published"}
    /\ e.capacity > 0 => confirmed_occupancy <= e.capacity
    /\ LET promoted == IF e.capacity # event.capacity THEN Freed(e) ELSE {}
       IN  seat(promoted) /\ create_for_registered_registration(promoted)
    /\ event' = e
    /\ UNCHANGED earlier

(* New capacity, end and cut-off; a past end may be moved into the future. *)
_update_event(e) ==
    /\ event.status \in {"draft", "published"}
    /\ e.capacity > 0 => confirmed_occupancy <= e.capacity
    /\ seat(Freed(e))
    /\ create_for_registered_registration(Freed(e))
    /\ event' = e
    /\ UNCHANGED earlier

cancel ==
    /\ event.status = "published"
    /\ event' = [event EXCEPT !.status = "cancelled"]
    /\ UNCHANGED <<reg, earlier, charge>>

complete ==
    /\ event.status = "published"
    /\ event' = [event EXCEPT !.status = "completed"]
    /\ UNCHANGED <<reg, earlier, charge>>

(* The cut-off passes, or the event ends. *)
Clock ==
    /\ \/ ~event.closed /\ event' = [event EXCEPT !.closed = TRUE]
       \/ ~event.ended /\ event' = [event EXCEPT !.ended = TRUE]
    /\ UNCHANGED <<reg, earlier, charge>>

Updates == [status : {event.status}, capacity : 0..MaxCapacity,
            approval : {event.approval}, ended : BOOLEAN, closed : BOOLEAN]

Next ==
    \/ publish \/ cancel \/ complete \/ Clock
    \/ \E e \in Updates : _update_event(e)
    \/ \E p \in Persons :
         \/ register(p) \/ approve_registration(p) \/ reject_registration(p)
         \/ promote_registration(p) \/ cancel_registration(p)
         \/ mark_attended(p) \/ correct_attendance(p) \/ SettleCharge(p)

Spec == Init /\ [][Next]_vars

------------------------------------------------------------------------------
(* Properties. *)

(* However registrations, approvals, promotions, cancellations, attendance *)
(* corrections and capacity changes interleave, a limited event never      *)
(* confirms more people than it has seats (capacity.spots_left,            *)
(* services._update_event).                                                *)
NeverOverbooked == event.capacity > 0 => confirmed_occupancy <= event.capacity

(* While an event without approval runs, no seat is left idle in front of  *)
(* someone who waits: a seat given back after the end is handed out when   *)
(* the end is moved (services._may_promote, promote_automatically).        *)
NoIdleSeat ==
    _may_promote /\ ~event.approval /\ (Unlimited \/ spots_left)
        => Waiters = {}

(* Seats are handed out to the last one, and no further.                   *)
SeatsGranted == NeverOverbooked /\ NoIdleSeat

(* A charge is due only for someone who holds a seat (service_payments:    *)
(* raised when the seat is, cancelled when it is given back).              *)
ChargesFollow ==
    \A p \in Persons : charge[p] = "pending" => reg[p] \in CONFIRMED_STATUSES

(* Nobody is lifted from the waiting list past someone who has waited      *)
(* longer, a person who cancelled and came back included                   *)
(* (_lock_waiters orders by created_at).                                   *)
LiftsFirst ==
    ~event.approval =>
        \A p, q \in Persons :
            /\ reg[p] = "waitlisted" /\ reg'[p] = "registered"
            /\ reg[q] = "waitlisted" /\ reg'[q] = "waitlisted"
            => p \in earlier[q]

FirstComeFirst == [][LiftsFirst]_vars

=============================================================================

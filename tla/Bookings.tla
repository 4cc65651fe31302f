------------------------------ MODULE Bookings ------------------------------
(***************************************************************************)
(* One bookable space: its rules, the bookings asked of it, and the charge *)
(* of each.  Every operation locks the space first, so each is one step.   *)
(***************************************************************************)
EXTENDS Integers

CONSTANTS
    Bookings,  \* Booking rows
    Horizon,   \* bound on time
    Rules      \* booking rules staff may set on the space

Rule == [approval_mode : {"instant", "approve"}, lead : Nat, advance : Nat,
         shortest : Nat, longest : Nat]

VARIABLES
    now,      \* the clock
    space,    \* the BookableSpace: active or not, priced or not
    rule,     \* its rules
    booking,  \* the rows: status, account behind it, first and last instant
    charge    \* the Payment of each

vars == <<now, space, rule, booking, charge>>

None == [status |-> "none", member |-> FALSE, from |-> 0, to |-> 1]
Slot == {s \in [from : 0..Horizon, to : 0..Horizon] : s.from < s.to}

Booking == [status : {"none", "pending", "confirmed", "rejected", "cancelled",
                      "completed", "no_show"},
            member : BOOLEAN, from : Int, to : Int]

(* The status of a booking and of its charge are values of the code's      *)
(* enumerations, and every booking ends after it starts (full_clean and    *)
(* the booking_end_after_start constraint).                                *)
TypeOK ==
    /\ now \in Nat
    /\ space \in [active : BOOLEAN, priced : BOOLEAN]
    /\ rule \in Rules
    /\ booking \in [Bookings -> Booking]
    /\ charge \in [Bookings -> {"none", "pending", "paid", "canceled"}]
    /\ \A b \in Bookings : booking[b].from < booking[b].to

Init ==
    /\ now = 0
    /\ space \in [active : {TRUE}, priced : BOOLEAN]
    /\ rule \in Rules
    /\ booking = [b \in Bookings |-> None]
    /\ charge = [b \in Bookings |-> "none"]

Overlaps(s, t) == s.from < t.to /\ t.from < s.to

_confirmed_overlap(slot, exclude) ==
    \E b \in Bookings \ exclude :
        booking[b].status = "confirmed" /\ Overlaps(booking[b], slot)

enforce_booking_rules(slot) ==
    /\ slot.to - slot.from \in rule.shortest..rule.longest
    /\ slot.from \in (now + rule.lead)..(now + rule.advance)

(* A charge exists only for an account, on a priced space, when online     *)
(* payments are on; raising it may fail and never undoes the confirmation. *)
create_for_confirmed_booking(b, member, raised) ==
    charge' = IF member /\ space.priced /\ raised /\ charge[b] = "none"
              THEN [charge EXCEPT ![b] = "pending"] ELSE charge

create_booking(b, slot, member, raised) ==
    LET instant == rule.approval_mode = "instant"
        status == IF instant THEN "confirmed" ELSE "pending"
    IN  /\ booking[b].status = "none"
        /\ space.active
        /\ enforce_booking_rules(slot)
        /\ slot.to > now
        /\ instant => ~_confirmed_overlap(slot, {})
        /\ booking' = [booking EXCEPT ![b] = [status |-> status, member |-> member,
                                              from |-> slot.from, to |-> slot.to]]
        /\ IF instant THEN create_for_confirmed_booking(b, member, raised)
                      ELSE UNCHANGED charge
        /\ UNCHANGED <<now, space, rule>>

To(b, status) == booking' = [booking EXCEPT ![b].status = status]

approve_booking(b, raised) ==
    /\ booking[b].status = "pending"
    /\ space.active
    /\ booking[b].to > now
    /\ ~_confirmed_overlap(booking[b], {b})
    /\ To(b, "confirmed")
    /\ create_for_confirmed_booking(b, booking[b].member, raised)
    /\ UNCHANGED <<now, space, rule>>

reject_booking(b) ==
    /\ booking[b].status = "pending"
    /\ To(b, "rejected")
    /\ UNCHANGED <<now, space, rule, charge>>

cancel_booking(b) ==
    /\ booking[b].status = "confirmed"
    /\ To(b, "cancelled")
    /\ charge' = IF charge[b] = "pending" THEN [charge EXCEPT ![b] = "canceled"]
                                          ELSE charge
    /\ UNCHANGED <<now, space, rule>>

\* Mutant: a booking may be completed before it starts.
close_booking_early(b, outcome) ==
    /\ booking[b].status = "confirmed"
    /\ To(b, outcome)
    /\ UNCHANGED <<now, space, rule, charge>>

(* complete_booking and mark_no_show *)
close_booking(b, outcome) ==
    /\ booking[b].status = "confirmed"
    /\ booking[b].to <= now
    /\ To(b, outcome)
    /\ UNCHANGED <<now, space, rule, charge>>

update_booking_rules(r) ==
    /\ space.active
    /\ r # rule
    /\ rule' = r
    /\ UNCHANGED <<now, space, booking, charge>>

(* update_space: the price is the one field this module tells apart *)
update_space ==
    /\ space.active
    /\ space' = [space EXCEPT !.priced = ~@]
    /\ UNCHANGED <<now, rule, booking, charge>>

deactivate_space ==
    /\ space.active
    /\ space' = [space EXCEPT !.active = FALSE]
    /\ UNCHANGED <<now, rule, booking, charge>>

(* The payments module settles a pending charge, or staff waive it. *)
SettleCharge(b, to) ==
    /\ charge[b] = "pending"
    /\ charge' = [charge EXCEPT ![b] = to]
    /\ UNCHANGED <<now, space, rule, booking>>

Tick ==
    /\ now < Horizon
    /\ now' = now + 1
    /\ UNCHANGED <<space, rule, booking, charge>>

Next ==
    \/ \E b \in Bookings :
         \/ \E slot \in Slot, member, raised \in BOOLEAN :
                create_booking(b, slot, member, raised)
         \/ \E raised \in BOOLEAN : approve_booking(b, raised)
         \/ reject_booking(b)
         \/ cancel_booking(b)
         \/ \E outcome \in {"completed", "no_show"} : close_booking(b, outcome)
         \/ \E to \in {"paid", "canceled"} : SettleCharge(b, to)
    \/ \E r \in Rules : update_booking_rules(r)
    \/ update_space
    \/ deactivate_space
    \/ Tick

Spec == Init /\ [][Next]_vars

(***************************************************************************)
(* Safety                                                                  *)
(***************************************************************************)

(* Two confirmed bookings of the space never share an instant, whatever    *)
(* the approval mode was when each was asked for, and in whatever order    *)
(* instant bookings and late approvals came (create_booking,               *)
(* approve_booking).                                                       *)
NoDoubleBooking ==
    \A b, c \in Bookings :
        /\ b # c
        /\ booking[b].status = "confirmed"
        /\ booking[c].status = "confirmed"
        => ~Overlaps(booking[b], booking[c])

(* Money is asked only for a booking that staff or the space granted and   *)
(* nobody cancelled: a pending charge never outlives the cancellation of   *)
(* its booking and never precedes the confirmation                         *)
(* (create_for_confirmed_booking, cancel_for_booking).                     *)
ChargesFollow ==
    \A b \in Bookings :
        /\ charge[b] = "pending" =>
             booking[b].member /\ booking[b].status \in {"confirmed", "completed", "no_show"}
        /\ charge[b] # "none" =>
             booking[b].status \notin {"none", "pending", "rejected"}

(* No instant still to come is promised twice, not even to a booking       *)
(* approved after another one was closed: completing or missing a booking  *)
(* never frees time that is not over yet (_transition with require_ended,  *)
(* whose result _confirmed_overlap no longer sees).                        *)
FutureHeldByOne ==
    \A b, c \in Bookings :
        /\ b # c
        /\ booking[b].status \in {"confirmed", "completed", "no_show"}
        /\ booking[c].status \in {"confirmed", "completed", "no_show"}
        /\ booking[b].to > now
        /\ booking[c].to > now
        => ~Overlaps(booking[b], booking[c])

(* Nobody holds an hour somebody else holds, whether the booking that      *)
(* holds it is confirmed or was closed (_confirmed_overlap, close_booking).*)
HeldByOne == NoDoubleBooking /\ FutureHeldByOne

=============================================================================

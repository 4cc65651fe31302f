------------------------------- MODULE Visits -------------------------------
(***************************************************************************)
(* What members sign up for: the seats of an event, the hours of a space   *)
(* and jobs at the machine desk.  The three share nothing, so they are      *)
(* explored side by side: a behaviour belongs to the component it starts    *)
(* in (part) and the variables of the others stay Unused.                   *)
(***************************************************************************)
EXTENDS Integers, FiniteSets

CONSTANTS
    Persons, MaxCapacity,                   \* see EventSeats
    Rows, Horizon, Rules,                   \* see Bookings
    Orders, Machines, Initial, Capacity, Printer, NoJob, NoMachine,   \* see MachineService
    Unused

ASSUME SeatsAssumption == IsFiniteSet(Persons)

ASSUME DeskAssumption ==
    IsFiniteSet(Orders) /\ Initial \in Nat /\ NoJob \notin Orders /\ NoMachine \notin Machines

VARIABLES
    part,
    event, reg, earlier, charge,
    now, space, rule, booking, due,
    machine, request, pool, consumable, other, overridden

Seats == INSTANCE EventSeats
Space == INSTANCE Bookings WITH Bookings <- Rows, charge <- due
Desk == INSTANCE MachineService WITH Requests <- Orders, NoRequest <- NoJob

seatVars == <<event, reg, earlier, charge>>
spaceVars == <<now, space, rule, booking, due>>
deskVars == <<machine, request, pool, consumable, other, overridden>>
vars == <<part, seatVars, spaceVars, deskVars>>

NoSeats == event = Unused /\ reg = Unused /\ earlier = Unused /\ charge = Unused
NoSpace ==
    now = Unused /\ space = Unused /\ rule = Unused /\ booking = Unused /\ due = Unused
NoDesk ==
    /\ machine = Unused /\ request = Unused /\ pool = Unused
    /\ consumable = Unused /\ other = Unused /\ overridden = Unused

Init ==
    \/ part = "seats" /\ Seats!Init /\ NoSpace /\ NoDesk
    \/ part = "space" /\ Space!Init /\ NoSeats /\ NoDesk
    \/ part = "desk" /\ Desk!Init /\ NoSeats /\ NoSpace

Next ==
    \/ part = "seats" /\ Seats!Next /\ UNCHANGED <<part, spaceVars, deskVars>>
    \/ part = "space" /\ Space!Next /\ UNCHANGED <<part, seatVars, deskVars>>
    \/ part = "desk" /\ Desk!Next /\ UNCHANGED <<part, seatVars, spaceVars>>

Spec == Init /\ [][Next]_vars

-----------------------------------------------------------------------------
(* The properties of each component, stated of its part.                   *)

\* See EventSeats.  Nobody is confirmed beyond the capacity, and no seat stays
\* free while somebody who may have it waits (services_registration_state.py).
SeatsGranted == part = "seats" => Seats!SeatsGranted

\* See EventSeats.  Seats go to those who have waited longest.
FirstComeFirst == [][part = "seats" => Seats!LiftsFirst]_vars

\* See EventSeats and Bookings.  A charge is due only for a seat or an hour that
\* was granted and is still held.
ChargesFollow ==
    /\ part = "seats" => Seats!ChargesFollow
    /\ part = "space" => Space!ChargesFollow

\* See Bookings.  Nobody holds an hour somebody else holds
\* (_confirmed_overlap under the space lock), completed bookings, which no
\* overlap check looks at, included as long as they lie in the future.
HeldByOne == part = "space" => Space!HeldByOne

\* See MachineService.  No gram is lost or counted twice, and two jobs never
\* run on one machine unless staff said so.
JobsAccounted == part = "desk" => Desk!JobsAccounted
=============================================================================

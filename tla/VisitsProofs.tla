---------------------------- MODULE VisitsProofs ----------------------------
(***************************************************************************)
(* What members sign up for, for any number of people, bookings, rules,    *)
(* machines and jobs: hours of a space, seats of an event, machines at the *)
(* desk.                                                                   *)
(***************************************************************************)
EXTENDS Visits, Sums

(* A step belongs to the component its behaviour started in. *)
LEMMA PartStep ==
    ASSUME [Next]_vars
    PROVE  /\ part' = part
           /\ part = "seats" => [Seats!Next]_Seats!vars
           /\ part = "space" => [Space!Next]_Space!vars
           /\ part = "desk" => [Desk!Next]_Desk!vars
  BY DEF Next, vars, seatVars, spaceVars, deskVars, Seats!vars, Space!vars, Desk!vars

-----------------------------------------------------------------------------
(* The hours of a space.                                                   *)

\* A booking is closed only after it ended, so closing frees no hour to come.
ClosedIsOver ==
    \A b \in Rows : booking[b].status \in {"completed", "no_show"} => booking[b].to <= now

SpaceInv == Space!TypeOK /\ Space!NoDoubleBooking /\ Space!ChargesFollow /\ ClosedIsOver

(* A space starts empty. *)
LEMMA SpaceInit == Space!Init => SpaceInv
<1> SUFFICES ASSUME Space!Init PROVE SpaceInv
  OBVIOUS
<1> USE DEF Space!Init, Space!None
<1>1. \A b \in Rows : booking[b] = Space!None /\ due[b] = "none"
  OBVIOUS
<1>2. booking \in [Rows -> Space!Booking]
  BY DEF Space!Booking
<1>3. space \in [active : BOOLEAN, priced : BOOLEAN]
  OBVIOUS
<1>4. Space!TypeOK
  BY <1>1, <1>2, <1>3 DEF Space!TypeOK
<1> QED
  BY <1>1, <1>4 DEF SpaceInv, Space!NoDoubleBooking, Space!ChargesFollow, ClosedIsOver

(* A new booking overlaps no confirmed one when it is confirmed at once. *)
LEMMA CreateKeeps ==
    ASSUME SpaceInv, NEW b \in Rows, NEW slot \in Space!Slot, NEW member \in BOOLEAN,
           NEW raised \in BOOLEAN, Space!create_booking(b, slot, member, raised)
    PROVE  SpaceInv'
  BY DEF Space!create_booking, Space!_confirmed_overlap, Space!create_for_confirmed_booking,
         SpaceInv, Space!TypeOK, Space!Booking, Space!Slot, Space!Overlaps,
         Space!NoDoubleBooking, Space!ChargesFollow, ClosedIsOver

(* Nor does one that is approved. *)
LEMMA ApproveKeeps ==
    ASSUME SpaceInv, NEW b \in Rows, NEW raised \in BOOLEAN, Space!approve_booking(b, raised)
    PROVE  SpaceInv'
  BY ZenonT(60) DEF Space!approve_booking, Space!To, Space!_confirmed_overlap,
         Space!create_for_confirmed_booking,
         SpaceInv, Space!TypeOK, Space!Booking, Space!Overlaps,
         Space!NoDoubleBooking, Space!ChargesFollow, ClosedIsOver

(* The other steps confirm nothing; only the end of a booking closes it. *)
LEMMA SpaceNext == SpaceInv /\ [Space!Next]_Space!vars => SpaceInv'
<1> SUFFICES ASSUME SpaceInv, [Space!Next]_Space!vars PROVE SpaceInv'
  OBVIOUS
<1> USE DEF SpaceInv, Space!TypeOK, Space!Booking, Space!Overlaps,
            Space!NoDoubleBooking, Space!ChargesFollow, ClosedIsOver, Space!To
<1>1. ASSUME NEW b \in Rows, Space!reject_booking(b) PROVE SpaceInv'
  BY <1>1 DEF Space!reject_booking
<1>2. ASSUME NEW b \in Rows, Space!cancel_booking(b) PROVE SpaceInv'
  BY <1>2 DEF Space!cancel_booking
<1>3. ASSUME NEW b \in Rows, NEW outcome \in {"completed", "no_show"},
             Space!close_booking(b, outcome)
      PROVE  SpaceInv'
  BY <1>3 DEF Space!close_booking
<1>4. ASSUME NEW b \in Rows, NEW to \in {"paid", "canceled"}, Space!SettleCharge(b, to)
      PROVE  SpaceInv'
  BY <1>4 DEF Space!SettleCharge
<1>5. ASSUME NEW r \in Rules, Space!update_booking_rules(r) PROVE SpaceInv'
  BY <1>5 DEF Space!update_booking_rules
<1>6. CASE Space!update_space
  BY <1>6 DEF Space!update_space
<1>7. CASE Space!deactivate_space
  BY <1>7 DEF Space!deactivate_space
<1>8. CASE Space!Tick
  BY <1>8 DEF Space!Tick
<1>9. CASE UNCHANGED Space!vars
  BY <1>9 DEF Space!vars
<1> QED
  BY CreateKeeps, ApproveKeeps, <1>1, <1>2, <1>3, <1>4, <1>5, <1>6, <1>7, <1>8, <1>9
  DEF Space!Next

(* Bookings and charges keep their invariant in every reachable state.     *)
THEOREM SpaceCorrect == Spec => [](part = "space" => SpaceInv)
<1>1. Init => (part = "space" => SpaceInv)
  BY SpaceInit DEF Init
<1>2. (part = "space" => SpaceInv) /\ [Next]_vars => (part = "space" => SpaceInv)'
  BY SpaceNext, PartStep
<1> QED
  BY <1>1, <1>2, PTL DEF Spec

(* No hour to come is held by two bookings, however instant bookings, late *)
(* approvals and closings follow each other, for any number of bookings    *)
(* and any rules (_confirmed_overlap, close_booking).                      *)
THEOREM HoursHeldByOne == Spec => []HeldByOne
<1>1. (part = "space" => SpaceInv) => HeldByOne
  BY DEF HeldByOne, SpaceInv, Space!TypeOK, Space!Booking, ClosedIsOver, Space!HeldByOne,
         Space!NoDoubleBooking, Space!FutureHeldByOne
<1> QED
  BY <1>1, SpaceCorrect, PTL

-----------------------------------------------------------------------------
(* The seats of an event.                                                  *)

\* The instance counts as the lemmas about finite sets do.
LEMMA SameCardinality == \A S : Seats!Cardinality(S) = Cardinality(S)
  BY DEF Seats!Cardinality, Cardinality

Confirmed == {p \in Persons : reg[p] \in Seats!CONFIRMED_STATUSES}

\* Nobody registers for a draft.
DraftsEmpty == event.status = "draft" => \A p \in Persons : reg[p] = "none"

SeatsInv ==
    /\ Seats!TypeOK
    /\ Seats!SeatsGranted
    /\ Seats!ChargesFollow
    /\ DraftsEmpty

(* Of people with rows, one came first and one came last.                  *)
LEMMA FirstOf ==
    ASSUME Seats!TypeOK, IsFiniteSet(Persons), NEW F \in SUBSET Persons, F # {},
           \A p \in F : reg[p] # "none"
    PROVE  \E p \in F : \A q \in F : q = p \/ p \in earlier[q]
<1> DEFINE T == {earlier[p] : p \in F}
<1>1. T # {} /\ T \subseteq FiniteSubsetsOf(Persons)
  BY FS_Subset DEF Seats!TypeOK, FiniteSubsetsOf
<1>2. PICK U \in T : \A V \in T : <<V, U>> \notin StrictSubsetOrdering(Persons)
  <2> HIDE DEF T
  <2> QED
    BY <1>1, FS_StrictSubsetOrderingWellFounded, WFMin
<1>3. PICK p \in F : U = earlier[p]
  OBVIOUS
<1>4. ASSUME NEW q \in F, q \in earlier[p] PROVE FALSE
  <2>1. earlier[q] \subseteq earlier[p] /\ q \notin earlier[q]
    BY <1>4 DEF Seats!TypeOK
  <2>2. earlier[q] # earlier[p]
    BY <2>1, <1>4
  <2>3. earlier[q] \in SUBSET Persons /\ earlier[p] \in SUBSET Persons
    BY DEF Seats!TypeOK
  <2>4. <<earlier[q], earlier[p]>> \in StrictSubsetOrdering(Persons)
    BY <2>1, <2>2, <2>3 DEF StrictSubsetOrdering
  <2> QED
    BY <1>2, <1>3, <2>4
<1> QED
  BY <1>4 DEF Seats!TypeOK

LEMMA LastOf ==
    ASSUME Seats!TypeOK, IsFiniteSet(Persons), NEW F \in SUBSET Persons, F # {},
           \A p \in F : reg[p] # "none"
    PROVE  \E p \in F : \A q \in F : q = p \/ q \in earlier[p]
<1> DEFINE T == {Persons \ earlier[p] : p \in F}
<1>1. T # {} /\ T \subseteq FiniteSubsetsOf(Persons)
  <2>1. \A p \in F : IsFiniteSet(Persons \ earlier[p])
    BY FS_Difference
  <2> QED
    BY <2>1 DEF FiniteSubsetsOf
<1>2. PICK U \in T : \A V \in T : <<V, U>> \notin StrictSubsetOrdering(Persons)
  <2> HIDE DEF T
  <2> QED
    BY <1>1, FS_StrictSubsetOrderingWellFounded, WFMin
<1>3. PICK p \in F : U = Persons \ earlier[p]
  OBVIOUS
<1>4. ASSUME NEW q \in F, p \in earlier[q] PROVE FALSE
  <2> DEFINE Vq == Persons \ earlier[q]
             Vp == Persons \ earlier[p]
  <2>1. earlier[p] \subseteq earlier[q] /\ p \notin earlier[p]
    BY <1>4 DEF Seats!TypeOK
  <2>2. Vq \subseteq Vp /\ Vq # Vp
    BY <2>1, <1>4
  <2>3. <<Vq, Vp>> \in StrictSubsetOrdering(Persons)
    BY <2>2 DEF StrictSubsetOrdering
  <2> QED
    BY <1>2, <1>3, <2>3
<1> QED
  BY <1>4 DEF Seats!TypeOK

(* waiters[:count] has at most count members, and exactly that many unless *)
(* it is everybody who waits.                                              *)
LEMMA FirstWaitersCount ==
    ASSUME Seats!TypeOK, IsFiniteSet(Persons), NEW count \in Nat
    PROVE  /\ IsFiniteSet(Seats!FirstWaiters(count))
           /\ Cardinality(Seats!FirstWaiters(count)) \in Nat
           /\ Cardinality(Seats!FirstWaiters(count)) <= count
           /\ \/ Seats!FirstWaiters(count) = Seats!Waiters
              \/ Cardinality(Seats!FirstWaiters(count)) = count
<1> DEFINE F == Seats!FirstWaiters(count)
           W == Seats!Waiters
<1>1. W \in SUBSET Persons /\ F \in SUBSET W /\ (\A p \in W : reg[p] # "none")
  BY DEF Seats!FirstWaiters, Seats!Waiters
<1>2. IsFiniteSet(F) /\ Cardinality(F) \in Nat
  BY <1>1, FS_Subset, FS_CardinalityType
<1>3. \A p \in W : IsFiniteSet(Seats!Ahead(p)) /\ Cardinality(Seats!Ahead(p)) \in Nat
  BY <1>1, FS_Subset, FS_CardinalityType DEF Seats!Ahead
<1>4. Cardinality(F) <= count
  <2>1. CASE F = {}
    BY <2>1, FS_EmptySet
  <2>2. CASE F # {}
    <3>1. PICK p \in F : \A q \in F : q = p \/ q \in earlier[p]
      BY <1>1, <2>2, LastOf
    <3>2. F \subseteq Seats!Ahead(p) \cup {p}
      BY <1>1, <3>1 DEF Seats!Ahead
    <3>3. Cardinality(Seats!Ahead(p)) < count
      BY <3>1, SameCardinality DEF Seats!FirstWaiters
    <3>4. /\ IsFiniteSet(Seats!Ahead(p) \cup {p})
          /\ Cardinality(Seats!Ahead(p) \cup {p}) <= Cardinality(Seats!Ahead(p)) + 1
          /\ Cardinality(Seats!Ahead(p) \cup {p}) \in Nat
      <4>1. IsFiniteSet(Seats!Ahead(p)) /\ Cardinality(Seats!Ahead(p)) \in Nat
        BY <1>1, <1>3
      <4>2. /\ IsFiniteSet(Seats!Ahead(p) \cup {p})
            /\ Cardinality(Seats!Ahead(p) \cup {p}) =
                 IF p \in Seats!Ahead(p) THEN Cardinality(Seats!Ahead(p)) ELSE Cardinality(Seats!Ahead(p)) + 1
        BY <4>1, FS_AddElement
      <4> QED
        BY <4>1, <4>2
    <3>5. Cardinality(F) <= Cardinality(Seats!Ahead(p) \cup {p})
      BY <3>2, <3>4, FS_Subset
    <3> HIDE DEF F
    <3> QED
      BY <1>1, <1>2, <1>3, <3>3, <3>4, <3>5
  <2> QED
    BY <2>1, <2>2
<1>5. ASSUME F # W PROVE Cardinality(F) >= count
  <2>1. PICK p \in W \ F : \A q \in W \ F : q = p \/ p \in earlier[q]
    BY <1>1, <1>5, FirstOf
  <2>2. Cardinality(Seats!Ahead(p)) >= count
    BY <2>1, <1>3, SameCardinality DEF Seats!FirstWaiters
  <2>3. Seats!Ahead(p) \subseteq F
    BY <2>1, <1>1 DEF Seats!Ahead, Seats!TypeOK
  <2>4. Cardinality(Seats!Ahead(p)) <= Cardinality(F)
    BY <1>2, <2>3, FS_Subset
  <2> HIDE DEF F
  <2> QED
    BY <1>2, <1>3, <2>1, <2>2, <2>4
<1> QED
  BY <1>2, <1>4, <1>5

(* The confirmed are finitely many.                                        *)
LEMMA Occupancy ==
    ASSUME IsFiniteSet(Persons)
    PROVE  /\ Seats!confirmed_occupancy = Cardinality(Confirmed)
           /\ Seats!confirmed_occupancy \in Nat
           /\ IsFiniteSet(Confirmed)
  BY FS_Subset, FS_CardinalityType, SameCardinality DEF Seats!confirmed_occupancy, Confirmed

(* Whoever is seated without a seat so far takes one more.                 *)
LEMMA Seated ==
    ASSUME IsFiniteSet(Persons), NEW W \in SUBSET Persons,
           \A p \in W : reg[p] \notin Seats!CONFIRMED_STATUSES,
           Seats!seat(W)
    PROVE  Seats!confirmed_occupancy' = Seats!confirmed_occupancy + Cardinality(W)
<1>1. Confirmed' = Confirmed \cup W
  BY DEF Confirmed, Seats!seat, Seats!CONFIRMED_STATUSES
<1>2. Confirmed \cap W = {}
  BY DEF Confirmed
<1>3. IsFiniteSet(W)
  BY FS_Subset
<1>4. Cardinality(Confirmed \cup W) = Cardinality(Confirmed) + Cardinality(W) - 0
  BY <1>2, <1>3, Occupancy, FS_Union, FS_EmptySet
<1>5. Seats!confirmed_occupancy' = Cardinality(Confirmed')
  BY SameCardinality DEF Seats!confirmed_occupancy, Confirmed
<1>6. Cardinality(Confirmed) \in Nat /\ Cardinality(W) \in Nat
  BY <1>3, Occupancy, FS_CardinalityType
<1> QED
  BY <1>1, <1>4, <1>5, <1>6, Occupancy

(* An operation on rows that exist adds none and keeps their order.        *)
LEMMA RowsKept ==
    ASSUME SeatsInv, UNCHANGED <<event, earlier>>,
           reg' \in [Persons -> Seats!Registration],
           \A p \in Persons : reg'[p] = "none" <=> reg[p] = "none",
           charge' \in [Persons -> {"none", "pending", "settled", "canceled"}]
    PROVE  Seats!TypeOK' /\ DraftsEmpty'
  BY DEF SeatsInv, Seats!TypeOK, DraftsEmpty

(* Neither free seats nor waiting people appear where the confirmed and    *)
(* the waiting stay the same.                                              *)
LEMMA GrantedKept ==
    ASSUME SeatsInv, Confirmed' = Confirmed, Seats!Waiters' \subseteq Seats!Waiters,
      UNCHANGED event
    PROVE  Seats!SeatsGranted'
<1>1. Seats!confirmed_occupancy' = Seats!confirmed_occupancy
  BY DEF Seats!confirmed_occupancy, Confirmed
<1> QED
  BY <1>1 DEF SeatsInv, Seats!SeatsGranted, Seats!NeverOverbooked, Seats!NoIdleSeat,
    Seats!_may_promote,
              Seats!_decision_is_open, Seats!Unlimited, Seats!spots_left

(* The first registration of a person, or another one after a              *)
(* cancellation: at the back of the line, with a seat only if one is left. *)
LEMMA RegisterKeeps ==
    ASSUME SeatsInv, IsFiniteSet(Persons), NEW p \in Persons, Seats!register(p)
    PROVE  SeatsInv'
<1> DEFINE fresh == Seats!fresh_registration_status
<1>1. /\ reg[p] \in {"none", "cancelled"}
      /\ fresh \in {"pending_approval", "registered", "waitlisted"}
      /\ reg' = [reg EXCEPT ![p] = fresh]
      /\ event' = event /\ event.status = "published" /\ ~event.ended
  BY DEF Seats!register, Seats!fresh_registration_status, Seats!registration_is_open
<1>2. Seats!TypeOK'
  <2>1. reg' \in [Persons -> Seats!Registration] /\ \A q \in Persons :
          reg'[q] = IF q = p THEN fresh ELSE reg[q]
    BY <1>1 DEF SeatsInv, Seats!TypeOK, Seats!Registration
  <2>2. earlier' \in [Persons -> SUBSET {q \in Persons : reg'[q] # "none"}]
    BY <1>1, <2>1 DEF Seats!register, SeatsInv, Seats!TypeOK
  <2>3. /\ \A q, o \in Persons : q \in earlier'[o] =>
             reg'[o] # "none" /\ o \notin earlier'[q] /\ earlier'[q] \subseteq earlier'[o]
        /\ \A q, o \in Persons : reg'[q] # "none" /\ reg'[o] # "none" =>
             q = o \/ q \in earlier'[o] \/ o \in earlier'[q]
    <3> HIDE DEF fresh
    <3> QED
      BY <1>1, <2>1 DEF Seats!register, SeatsInv, Seats!TypeOK
  <2>4. charge' \in [Persons -> {"none", "pending", "settled", "canceled"}]
    BY DEF Seats!register, Seats!create_for_registered_registration, SeatsInv, Seats!TypeOK
  <2> QED
    BY <1>1, <2>1, <2>2, <2>3, <2>4 DEF SeatsInv, Seats!TypeOK
<1>3. CASE fresh = "registered"
  <2>1. Seats!seat({p})
    BY <1>1, <1>3 DEF SeatsInv, Seats!TypeOK, Seats!seat
  <2>2. Seats!confirmed_occupancy' = Seats!confirmed_occupancy + 1
    BY <1>1, <2>1, Seated, FS_Singleton, ZenonT(60) DEF Seats!CONFIRMED_STATUSES
  <2>3. Seats!Waiters' = Seats!Waiters
    BY <1>1, <1>3 DEF Seats!Waiters, SeatsInv, Seats!TypeOK
  <2>4. Seats!Unlimited \/ event.capacity > Seats!confirmed_occupancy
    BY <1>1, <1>3 DEF Seats!fresh_registration_status, Seats!spots_left
  <2>5. event.capacity \in Int /\ (event.capacity > 0 \/ Seats!Unlimited \/ event.capacity < 0)
    BY DEF SeatsInv, Seats!TypeOK, Seats!Unlimited
  <2>6. Seats!SeatsGranted'
    BY <1>1, <2>2, <2>3, <2>4, <2>5, Occupancy
    DEF SeatsInv, Seats!SeatsGranted, Seats!NeverOverbooked, Seats!NoIdleSeat,
      Seats!_may_promote,
        Seats!_decision_is_open, Seats!Unlimited, Seats!spots_left
  <2>7. Seats!ChargesFollow'
    BY <1>1, <1>3, <2>1 DEF Seats!register, Seats!create_for_registered_registration,
      SeatsInv, Seats!TypeOK,
                            Seats!ChargesFollow, Seats!CONFIRMED_STATUSES
  <2> QED
    BY <1>1, <1>2, <2>6, <2>7 DEF SeatsInv, DraftsEmpty
<1>4. CASE fresh # "registered"
  <2>1. Confirmed' = Confirmed
    BY <1>1, <1>4 DEF Confirmed, Seats!CONFIRMED_STATUSES, SeatsInv, Seats!TypeOK
  <2>2. Seats!confirmed_occupancy' = Seats!confirmed_occupancy
    BY <2>1 DEF Seats!confirmed_occupancy, Confirmed
  <2>3. CASE fresh = "pending_approval"
    <3>1. Seats!Waiters' = Seats!Waiters
      BY <1>1, <2>3 DEF Seats!Waiters, SeatsInv, Seats!TypeOK
    <3> QED
      BY <1>1, <1>2, <1>4, <2>1, <3>1, GrantedKept
      DEF Seats!register, SeatsInv, Seats!TypeOK, DraftsEmpty, Seats!ChargesFollow,
        Seats!CONFIRMED_STATUSES
  <2>4. CASE fresh = "waitlisted"
    <3>1. ~event.approval /\ ~Seats!Unlimited /\ ~Seats!spots_left
      BY <2>4 DEF Seats!fresh_registration_status
    <3>2. Seats!SeatsGranted'
      BY <1>1, <2>2, <3>1 DEF SeatsInv, Seats!SeatsGranted, Seats!NeverOverbooked,
        Seats!NoIdleSeat,
        Seats!_may_promote, Seats!_decision_is_open, Seats!Unlimited, Seats!spots_left
    <3> QED
      BY <1>1, <1>2, <1>4, <2>1, <3>2
      DEF Seats!register, SeatsInv, Seats!TypeOK, DraftsEmpty, Seats!ChargesFollow,
        Seats!CONFIRMED_STATUSES
  <2> QED
    BY <1>1, <1>4, <2>3, <2>4
<1> QED
  BY <1>3, <1>4

(* Seating one person where there is room, by a decision of staff.         *)
LEMMA SeatOneKeeps ==
    ASSUME SeatsInv, IsFiniteSet(Persons), NEW p \in Persons, event.approval,
           reg[p] \in {"pending_approval", "waitlisted"}, Seats!Unlimited \/ Seats!spots_left,
           Seats!seat({p}), Seats!create_for_registered_registration({p}),
           UNCHANGED <<event, earlier>>
    PROVE  SeatsInv'
<1>1. Seats!TypeOK' /\ DraftsEmpty'
  BY RowsKept DEF Seats!seat, Seats!create_for_registered_registration, SeatsInv,
    Seats!TypeOK, Seats!Registration
<1>2. Seats!confirmed_occupancy' = Seats!confirmed_occupancy + 1
  BY Seated, FS_Singleton DEF Seats!CONFIRMED_STATUSES
<1>3. event.capacity \in Int
  BY DEF SeatsInv, Seats!TypeOK
<1>4. Seats!SeatsGranted'
  BY <1>2, <1>3, Occupancy
  DEF SeatsInv, Seats!SeatsGranted, Seats!NeverOverbooked, Seats!NoIdleSeat, Seats!Unlimited,
    Seats!spots_left
<1>5. Seats!ChargesFollow'
  BY DEF Seats!seat, Seats!create_for_registered_registration, SeatsInv, Seats!TypeOK,
    Seats!ChargesFollow,
         Seats!CONFIRMED_STATUSES
<1> QED
  BY <1>1, <1>4, <1>5 DEF SeatsInv

LEMMA ApproveSeatKeeps ==
    ASSUME SeatsInv, IsFiniteSet(Persons), NEW p \in Persons, Seats!approve_registration(p)
    PROVE  SeatsInv'
<1>1. CASE Seats!Unlimited \/ Seats!spots_left
  BY <1>1, SeatOneKeeps DEF Seats!approve_registration
<1>2. CASE ~(Seats!Unlimited \/ Seats!spots_left)
  <2>1. reg' = [reg EXCEPT ![p] = "waitlisted"] /\ UNCHANGED <<event, earlier, charge>>
    BY <1>2 DEF Seats!approve_registration
  <2>2. Seats!TypeOK' /\ DraftsEmpty'
    BY <2>1, RowsKept DEF Seats!approve_registration, SeatsInv, Seats!TypeOK, Seats!Registration
  <2>3. Confirmed' = Confirmed
    BY <2>1 DEF Seats!approve_registration, Confirmed, Seats!CONFIRMED_STATUSES, SeatsInv,
      Seats!TypeOK
  <2>4. Seats!confirmed_occupancy' = Seats!confirmed_occupancy
    BY <2>3, SameCardinality DEF Seats!confirmed_occupancy, Confirmed
  <2>5. Seats!SeatsGranted'
    BY <2>1, <2>4 DEF Seats!approve_registration, SeatsInv, Seats!SeatsGranted,
      Seats!NeverOverbooked, Seats!NoIdleSeat
  <2>6. Seats!ChargesFollow'
    BY <2>1 DEF Seats!approve_registration, SeatsInv, Seats!TypeOK, Seats!ChargesFollow,
      Seats!CONFIRMED_STATUSES
  <2> QED
    BY <2>2, <2>5, <2>6 DEF SeatsInv
<1> QED
  BY <1>1, <1>2

(* Decisions that give nobody a seat and take none away.                   *)
LEMMA DecisionKeeps ==
    ASSUME SeatsInv, NEW p \in Persons,
           Seats!reject_registration(p) \/ Seats!mark_attended(p) \/ Seats!correct_attendance(p) \/ Seats!SettleCharge(p)
    PROVE  SeatsInv'
<1> USE DEF Seats!reject_registration, Seats!mark_attended, Seats!correct_attendance,
Seats!SettleCharge
<1>1. Seats!TypeOK' /\ DraftsEmpty'
  BY RowsKept DEF SeatsInv, Seats!TypeOK, Seats!Registration
<1>2. Confirmed' = Confirmed
  BY DEF Confirmed, Seats!CONFIRMED_STATUSES, SeatsInv, Seats!TypeOK
<1>3. Seats!Waiters' \subseteq Seats!Waiters
  BY DEF Seats!Waiters, SeatsInv, Seats!TypeOK
<1>4. Seats!SeatsGranted'
  BY <1>2, <1>3, GrantedKept
<1>5. Seats!ChargesFollow'
  BY DEF SeatsInv, Seats!TypeOK, Seats!ChargesFollow, Seats!CONFIRMED_STATUSES
<1> QED
  BY <1>1, <1>4, <1>5 DEF SeatsInv

(* A seat given back goes to the first who waits; a place in the line does *)
(* not.                                                                    *)
LEMMA CancelSeatKeeps ==
    ASSUME SeatsInv, IsFiniteSet(Persons), NEW p \in Persons, Seats!cancel_registration(p)
    PROVE  SeatsInv'
<1> DEFINE handed == /\ reg[p] = "registered" /\ ~event.approval
                     /\ event.capacity > 0 /\ Seats!_may_promote
           next == IF handed THEN Seats!FirstWaiters(1) ELSE {}
<1>1. /\ reg[p] \in {"pending_approval", "registered", "waitlisted"}
      /\ reg' = [q \in Persons |-> IF q = p THEN "cancelled"
                                   ELSE IF q \in next THEN "registered" ELSE reg[q]]
      /\ event' = event /\ earlier' = earlier
  BY DEF Seats!cancel_registration
<1>2. next \subseteq Seats!Waiters /\ Seats!Waiters \subseteq Persons /\ p \notin next
  BY DEF Seats!FirstWaiters, Seats!Waiters
<1>3. PICK raised \in SUBSET {q \in next : charge[q] = "none"} :
        charge' = [q \in Persons |-> IF q \in raised THEN "pending"
                                     ELSE Seats!cancel_for_registration(p)[q]]
  BY DEF Seats!cancel_registration
<1>4. \A q \in Persons : reg'[q] = IF q = p THEN "cancelled"
                                   ELSE IF q \in next THEN "registered" ELSE reg[q]
  BY <1>1
<1>5. Seats!TypeOK' /\ DraftsEmpty'
  <2> HIDE DEF next
  <2>1. charge' \in [Persons -> {"none", "pending", "settled", "canceled"}]
    BY <1>3 DEF Seats!cancel_for_registration, SeatsInv, Seats!TypeOK
  <2>2. reg' \in [Persons -> Seats!Registration]
    BY <1>1 DEF SeatsInv, Seats!TypeOK, Seats!Registration
  <2>3. \A q \in Persons : reg'[q] = "none" <=> reg[q] = "none"
    BY <1>1, <1>2, <1>4 DEF Seats!Waiters
  <2> QED
    BY <1>1, <2>1, <2>2, <2>3, RowsKept
<1>6. Seats!ChargesFollow'
  <2> HIDE DEF next
  <2>1. ASSUME NEW q \in Persons,
  charge'[q] = "pending" PROVE reg'[q] \in Seats!CONFIRMED_STATUSES
    <3>1. CASE q \in raised
      BY <1>2, <1>4, <3>1 DEF Seats!CONFIRMED_STATUSES
    <3>2. CASE q \notin raised
      BY <1>2, <1>3, <1>4, <2>1, <3>2
      DEF Seats!cancel_for_registration, SeatsInv, Seats!TypeOK, Seats!ChargesFollow,
        Seats!CONFIRMED_STATUSES, Seats!Waiters
    <3> QED
      BY <3>1, <3>2
  <2> QED
    BY <2>1 DEF Seats!ChargesFollow
<1>7. Seats!Waiters' \subseteq Seats!Waiters
  BY <1>1, <1>4 DEF Seats!Waiters
<1>8. CASE reg[p] # "registered"
  <2>1. Confirmed' = Confirmed
    BY <1>1, <1>4, <1>8 DEF Confirmed, Seats!CONFIRMED_STATUSES
  <2> QED
    BY <1>1, <1>5, <1>6, <1>7, <2>1, GrantedKept DEF SeatsInv
<1>9. CASE reg[p] = "registered"
  <2> HIDE DEF next
  <2>1. /\ Confirmed' = (Confirmed \ {p}) \cup next
        /\ p \in Confirmed
        /\ (Confirmed \ {p}) \cap next = {}
    BY <1>2, <1>4, <1>9 DEF Confirmed, Seats!CONFIRMED_STATUSES, Seats!Waiters
  <2>2. /\ IsFiniteSet(next) /\ Cardinality(next) \in Nat
        /\ IsFiniteSet(Confirmed \ {p})
        /\ Cardinality(Confirmed \ {p}) = Seats!confirmed_occupancy - 1
    BY <1>2, <2>1, Occupancy, FS_Subset, FS_CardinalityType, FS_RemoveElement
  <2>3. Cardinality(Confirmed') = Seats!confirmed_occupancy - 1 + Cardinality(next)
    <3>1. Cardinality((Confirmed \ {p}) \cup next) =
            Cardinality(Confirmed \ {p}) + Cardinality(next) - Cardinality({})
      BY <2>1, <2>2, FS_Union
    <3> QED
      BY <2>1, <2>2, <3>1, FS_EmptySet, Occupancy
  <2>4. Seats!confirmed_occupancy' = Seats!confirmed_occupancy - 1 + Cardinality(next)
    BY <2>3, SameCardinality DEF Seats!confirmed_occupancy, Confirmed
  <2>5. event.capacity \in Int /\ Seats!confirmed_occupancy \in Nat
    BY Occupancy DEF SeatsInv, Seats!TypeOK
  <2>6. CASE handed
    <3>1. next = Seats!FirstWaiters(1)
      BY <2>6 DEF next
    <3>2. Cardinality(next) <= 1 /\ (next = Seats!Waiters \/ Cardinality(next) = 1)
      BY <3>1, FirstWaitersCount DEF SeatsInv
    <3>3. next = Seats!Waiters => Seats!Waiters' = {}
      BY <1>4 DEF Seats!Waiters
    <3>4. Seats!SeatsGranted'
      BY <1>1, <1>7, <2>2, <2>4, <2>5, <2>6, <3>2, <3>3
      DEF SeatsInv, Seats!SeatsGranted, Seats!NeverOverbooked, Seats!NoIdleSeat,
        Seats!_may_promote,
          Seats!_decision_is_open, Seats!Unlimited, Seats!spots_left
    <3> QED
      BY <1>5, <1>6, <3>4 DEF SeatsInv
  <2>7. CASE ~handed
    <3>1. Cardinality(next) = 0
      BY <2>7, FS_EmptySet DEF next
    <3>2. Seats!confirmed_occupancy' = Seats!confirmed_occupancy - 1
      BY <2>4, <2>5, <3>1
    <3>3. Seats!SeatsGranted'
      BY <1>1, <1>7, <1>9, <2>5, <2>7, <3>2
      DEF SeatsInv, Seats!SeatsGranted, Seats!NeverOverbooked, Seats!NoIdleSeat,
        Seats!_may_promote,
          Seats!_decision_is_open, Seats!Unlimited, Seats!spots_left
    <3> QED
      BY <1>5, <1>6, <3>3 DEF SeatsInv
  <2> QED
    BY <2>6, <2>7
<1> QED
  BY <1>8, <1>9

(* New seats go to the first who wait, until none is left or nobody waits. *)
LEMMA UpdateKeeps ==
    ASSUME SeatsInv, IsFiniteSet(Persons), NEW e \in Seats!Updates, Seats!_update_event(e)
    PROVE  SeatsInv'
<1> DEFINE W == Seats!Freed(e)
           open == e.status = "published" /\ ~e.ended /\ ~e.approval
<1>1. /\ e \in [status : Seats!EventStatus, capacity : 0..MaxCapacity,
                approval : BOOLEAN, ended : BOOLEAN, closed : BOOLEAN]
      /\ e.status = event.status /\ e.approval = event.approval
      /\ e.capacity \in Int /\ e.capacity >= 0
  BY DEF Seats!Updates, SeatsInv, Seats!TypeOK
<1>2. /\ event' = e /\ earlier' = earlier
      /\ Seats!seat(W) /\ Seats!create_for_registered_registration(W)
      /\ e.capacity > 0 => Seats!confirmed_occupancy <= e.capacity
  BY DEF Seats!_update_event
<1>3. W \subseteq Seats!Waiters /\ Seats!Waiters \in SUBSET Persons /\ W \in SUBSET Persons
  BY DEF Seats!Freed, Seats!FirstWaiters, Seats!Waiters
<1>4. \A p \in W : reg[p] \notin Seats!CONFIRMED_STATUSES /\ reg[p] # "none"
  BY <1>3 DEF Seats!Waiters, Seats!CONFIRMED_STATUSES
<1>5. Seats!confirmed_occupancy' = Seats!confirmed_occupancy + Cardinality(W)
  <2> HIDE DEF W
  <2> QED
    BY <1>2, <1>3, <1>4, Seated
<1>6. IsFiniteSet(W) /\ Cardinality(W) \in Nat /\ Seats!confirmed_occupancy \in Nat
  BY <1>3, FS_Subset, FS_CardinalityType, Occupancy
<1>7. W = Seats!Waiters => Seats!Waiters' = {}
  BY <1>2 DEF Seats!seat, Seats!Waiters
<1>8. Seats!Waiters' \subseteq Seats!Waiters
  BY <1>2 DEF Seats!seat, Seats!Waiters
<1>9. Seats!TypeOK' /\ DraftsEmpty'
  <2> HIDE DEF W
  <2>1. reg' \in [Persons -> Seats!Registration] /\
        \A p \in Persons : reg'[p] = "none" <=> reg[p] = "none"
    BY <1>2, <1>3, <1>4 DEF Seats!seat, SeatsInv, Seats!TypeOK, Seats!Registration
  <2>2. charge' \in [Persons -> {"none", "pending", "settled", "canceled"}]
    BY <1>2 DEF Seats!create_for_registered_registration, SeatsInv, Seats!TypeOK
  <2>3. event.status = "draft" => event'.status = "draft"
    BY <1>1, <1>2
  <2>4. DraftsEmpty'
    BY <1>1, <1>2, <2>1 DEF SeatsInv, DraftsEmpty
  <2> QED
    BY <1>1, <1>2, <2>1, <2>2, <2>4 DEF SeatsInv, Seats!TypeOK
<1>10. Seats!ChargesFollow'
  <2> HIDE DEF W
  <2> QED
    BY <1>2, <1>3 DEF Seats!create_for_registered_registration, Seats!seat, SeatsInv,
      Seats!TypeOK,
                      Seats!ChargesFollow, Seats!CONFIRMED_STATUSES
<1>11. Seats!SeatsGranted'
  <2>1. CASE open /\ e.capacity = 0
    <3>1. W = Seats!Waiters
      BY <2>1 DEF Seats!Freed
    <3> HIDE DEF W
    <3> QED
      BY <1>1, <1>2, <1>7, <2>1, <3>1 DEF Seats!SeatsGranted, Seats!NeverOverbooked,
        Seats!NoIdleSeat
  <2>2. CASE open /\ e.capacity # 0
    <3>1. e.capacity - Seats!confirmed_occupancy \in Nat
      BY <1>1, <1>2, <1>6, <2>2
    <3>2. W = Seats!FirstWaiters(e.capacity - Seats!confirmed_occupancy)
      BY <2>2 DEF Seats!Freed
    <3>3. /\ Cardinality(W) <= e.capacity - Seats!confirmed_occupancy
          /\ W = Seats!Waiters \/ Cardinality(W) = e.capacity - Seats!confirmed_occupancy
      BY <3>1, <3>2, FirstWaitersCount DEF SeatsInv
    <3> HIDE DEF W
    <3> QED
      BY <1>1, <1>2, <1>5, <1>6, <1>7, <2>2, <3>3
      DEF Seats!SeatsGranted, Seats!NeverOverbooked, Seats!NoIdleSeat, Seats!Unlimited,
        Seats!spots_left
  <2>3. CASE ~open
    <3>1. W = {}
      BY <2>3 DEF Seats!Freed
    <3>2. Seats!confirmed_occupancy' = Seats!confirmed_occupancy
      BY <1>5, <1>6, <3>1, FS_EmptySet
    <3> HIDE DEF W
    <3> QED
      BY <1>1, <1>2, <2>3, <3>2
      DEF Seats!SeatsGranted, Seats!NeverOverbooked, Seats!NoIdleSeat, Seats!_may_promote,
        Seats!_decision_is_open
  <2> QED
    BY <2>1, <2>2, <2>3
<1> QED
  BY <1>9, <1>10, <1>11 DEF SeatsInv

(* Publishing opens an empty event; closing one promotes nobody any more.  *)
LEMMA LifecycleKeeps ==
    ASSUME SeatsInv, Seats!publish \/ Seats!cancel \/ Seats!complete \/ Seats!Clock
    PROVE  SeatsInv'
<1> USE DEF Seats!publish, Seats!cancel, Seats!complete, Seats!Clock
<1>1. UNCHANGED <<reg, earlier, charge>> /\ event'.capacity = event.capacity
  BY DEF SeatsInv, Seats!TypeOK
<1>2. Seats!confirmed_occupancy' = Seats!confirmed_occupancy /\ Seats!Waiters' = Seats!Waiters
  BY <1>1 DEF Seats!confirmed_occupancy, Seats!Waiters
<1>3. Seats!TypeOK' /\ DraftsEmpty'
  BY <1>1, ZenonT(60) DEF SeatsInv, Seats!TypeOK, Seats!EventStatus, DraftsEmpty
<1>4. Seats!SeatsGranted'
  <2>1. CASE Seats!publish
    BY <1>1, <1>2, <2>1 DEF SeatsInv, DraftsEmpty, Seats!Waiters, Seats!SeatsGranted,
      Seats!NeverOverbooked,
                            Seats!NoIdleSeat
  <2>2. CASE Seats!cancel \/ Seats!complete \/ Seats!Clock
    BY <1>1, <1>2, <2>2
    DEF SeatsInv, Seats!TypeOK, Seats!SeatsGranted, Seats!NeverOverbooked, Seats!NoIdleSeat,
      Seats!_may_promote,
        Seats!_decision_is_open, Seats!Unlimited, Seats!spots_left
  <2> QED
    BY <2>1, <2>2
<1> QED
  BY <1>1, <1>3, <1>4 DEF SeatsInv, Seats!ChargesFollow

LEMMA SeatsInit == IsFiniteSet(Persons) /\ Seats!Init => SeatsInv
<1> SUFFICES ASSUME IsFiniteSet(Persons), Seats!Init PROVE SeatsInv
  OBVIOUS
<1>1. Seats!TypeOK /\ DraftsEmpty /\ Seats!ChargesFollow /\ Seats!NoIdleSeat
  BY DEF Seats!Init, Seats!TypeOK, DraftsEmpty, Seats!ChargesFollow, Seats!NoIdleSeat,
    Seats!Waiters, Seats!EventStatus, Seats!Registration
<1>2. Confirmed = {}
  BY DEF Seats!Init, Confirmed, Seats!CONFIRMED_STATUSES
<1>3. Seats!confirmed_occupancy = 0
  BY <1>2, FS_EmptySet, Occupancy
<1>4. Seats!NeverOverbooked
  BY <1>1, <1>3 DEF Seats!NeverOverbooked, Seats!TypeOK
<1> QED
  BY <1>1, <1>4 DEF SeatsInv, Seats!SeatsGranted

LEMMA SeatsNext == IsFiniteSet(Persons) /\ SeatsInv /\ [Seats!Next]_Seats!vars => SeatsInv'
<1> SUFFICES ASSUME IsFiniteSet(Persons), SeatsInv, [Seats!Next]_Seats!vars PROVE SeatsInv'
  OBVIOUS
<1>1. ASSUME NEW p \in Persons, Seats!promote_registration(p) PROVE SeatsInv'
  BY <1>1, SeatOneKeeps DEF Seats!promote_registration
<1>2. CASE UNCHANGED Seats!vars
  BY <1>2 DEF Seats!vars, SeatsInv, Seats!TypeOK, Seats!SeatsGranted, Seats!NeverOverbooked,
    Seats!NoIdleSeat, Seats!_may_promote,
    Seats!_decision_is_open, Seats!Unlimited, Seats!spots_left, Seats!Waiters,
    Seats!confirmed_occupancy, Seats!ChargesFollow,
    DraftsEmpty
<1> QED
  BY <1>1, <1>2, RegisterKeeps, ApproveSeatKeeps, DecisionKeeps, CancelSeatKeeps, UpdateKeeps,
     LifecycleKeeps
  DEF Seats!Next

(* Rows, seats and charges keep their invariant, for any finite number of  *)
(* people and any capacity.                                                *)
THEOREM SeatsCorrect == Spec => [](part = "seats" => SeatsInv)
<1>1. Init => (part = "seats" => SeatsInv)
  BY SeatsInit, SeatsAssumption DEF Init
<1>2. (part = "seats" => SeatsInv) /\ [Next]_vars => (part = "seats" => SeatsInv)'
  BY SeatsNext, PartStep, SeatsAssumption
<1> QED
  BY <1>1, <1>2, PTL DEF Spec

(* A limited event never confirms more people than it has seats, and never *)
(* leaves one idle in front of somebody who waits (capacity.spots_left,    *)
(* services._update_event, cancel_registration).                           *)
THEOREM SeatsAlwaysGranted == Spec => []SeatsGranted
<1>1. (part = "seats" => SeatsInv) => SeatsGranted
  BY DEF SeatsInv, SeatsGranted
<1> QED
  BY <1>1, SeatsCorrect, PTL

(* Money is due only for a seat that is held, or for hours that were       *)
(* granted and not cancelled (service_payments.py,                         *)
(* create_for_confirmed_booking, cancel_for_booking).                      *)
THEOREM ChargesAlwaysFollow == Spec => []ChargesFollow
<1>1. (part = "seats" => SeatsInv) /\ (part = "space" => SpaceInv) => ChargesFollow
  BY DEF SeatsInv, SpaceInv, ChargesFollow
<1> QED
  BY <1>1, SeatsCorrect, SpaceCorrect, PTL

\* Someone among the first comes before everyone who is not.
LEMMA LineRespected ==
    ASSUME Seats!TypeOK, IsFiniteSet(Persons), NEW count \in Int,
           NEW p \in Seats!FirstWaiters(count),
           NEW q \in Seats!Waiters \ Seats!FirstWaiters(count)
    PROVE  p \in earlier[q]
<1>1. Seats!Ahead(p) \in SUBSET Persons /\ Seats!Ahead(q) \in SUBSET Persons
  BY DEF Seats!Ahead, Seats!Waiters
<1>2. /\ IsFiniteSet(Seats!Ahead(p))
      /\ Cardinality(Seats!Ahead(p)) \in Nat /\ Cardinality(Seats!Ahead(q)) \in Nat
  BY <1>1, FS_Subset, FS_CardinalityType
<1>3. Cardinality(Seats!Ahead(p)) < count /\ ~(Cardinality(Seats!Ahead(q)) < count)
  BY SameCardinality DEF Seats!FirstWaiters
<1>4. ASSUME q \in earlier[p] PROVE FALSE
  <2>1. Seats!Ahead(q) \subseteq Seats!Ahead(p)
    BY <1>4 DEF Seats!TypeOK, Seats!Ahead, Seats!Waiters, Seats!FirstWaiters
  <2>2. Cardinality(Seats!Ahead(q)) <= Cardinality(Seats!Ahead(p))
    BY <1>2, <2>1, FS_Subset
  <2> QED
    BY <1>2, <1>3, <2>2
<1> QED
  BY <1>3, <1>4 DEF Seats!TypeOK, Seats!FirstWaiters, Seats!Waiters

LEMMA StepLiftsFirst ==
    ASSUME IsFiniteSet(Persons), SeatsInv, [Seats!Next]_Seats!vars
    PROVE  [Seats!LiftsFirst]_Seats!vars
<1> SUFFICES ASSUME Seats!Next, ~event.approval, NEW p \in Persons, NEW q \in Persons,
                    reg[p] = "waitlisted", reg'[p] = "registered",
                    reg[q] = "waitlisted", reg'[q] = "waitlisted"
             PROVE  p \in earlier[q]
  BY DEF Seats!LiftsFirst
<1> USE DEF SeatsInv
<1>1. p \in Seats!Waiters /\ q \in Seats!Waiters
  BY DEF Seats!Waiters
<1>2. ASSUME NEW e \in Seats!Updates, Seats!_update_event(e) PROVE p \in earlier[q]
  <2>1. p \in Seats!Freed(e) /\ q \notin Seats!Freed(e)
    BY <1>2 DEF Seats!_update_event, Seats!seat
  <2>2. e.capacity - Seats!confirmed_occupancy \in Int
    BY Occupancy DEF Seats!Updates, Seats!TypeOK
  <2>3. /\ p \in Seats!FirstWaiters(e.capacity - Seats!confirmed_occupancy)
        /\ q \notin Seats!FirstWaiters(e.capacity - Seats!confirmed_occupancy)
    BY <1>1, <2>1 DEF Seats!Freed
  <2> QED
    BY <1>1, <2>2, <2>3, LineRespected
<1>3. ASSUME NEW o \in Persons, Seats!cancel_registration(o) PROVE p \in earlier[q]
  <2>1. p \in Seats!FirstWaiters(1) /\ q \notin Seats!FirstWaiters(1)
    BY <1>3 DEF Seats!cancel_registration
  <2> QED
    BY <1>1, <2>1, LineRespected
<1>4. ASSUME NEW o \in Persons, Seats!register(o) PROVE FALSE
  BY <1>4 DEF Seats!register, Seats!TypeOK
<1>5. ASSUME NEW o \in Persons,
Seats!approve_registration(o) \/ Seats!promote_registration(o) PROVE FALSE
  BY <1>5 DEF Seats!approve_registration, Seats!promote_registration
<1>6. ASSUME NEW o \in Persons,
             Seats!reject_registration(o) \/ Seats!mark_attended(o) \/ Seats!correct_attendance(o) \/ Seats!SettleCharge(o)
      PROVE  FALSE
  BY <1>6 DEF Seats!reject_registration, Seats!mark_attended, Seats!correct_attendance,
    Seats!SettleCharge, Seats!TypeOK
<1>7. CASE Seats!publish \/ Seats!cancel \/ Seats!complete \/ Seats!Clock
  BY <1>7 DEF Seats!publish, Seats!cancel, Seats!complete, Seats!Clock
<1> QED
  BY <1>2, <1>3, <1>4, <1>5, <1>6, <1>7 DEF Seats!Next

(* Nobody is lifted past someone who has waited longer                     *)
(* (_lock_waiters, promote_automatically).                                 *)
THEOREM LiftedInOrder == Spec => FirstComeFirst
<1>1. (part = "seats" => SeatsInv) /\ [Next]_vars => [part = "seats" => Seats!LiftsFirst]_vars
  <2>1. UNCHANGED Seats!vars => Seats!LiftsFirst
    BY DEF Seats!vars, Seats!LiftsFirst
  <2> QED
    BY <2>1, StepLiftsFirst, PartStep, SeatsAssumption
<1> QED
  BY <1>1, SeatsCorrect, PTL DEF Spec, FirstComeFirst

-----------------------------------------------------------------------------
(* The machine desk.                                                       *)

Ended == {"failed", "completed", "collected"}

\* Only a job that ended is printed again.
ReprintsEnded ==
    \A r \in Orders : request[r].reprint_of # NoJob =>
        request[request[r].reprint_of].status \in Ended

DeskInv == Desk!TypeOK /\ Desk!OneJobPerMachine /\ ReprintsEnded

DeskConstants == Initial \in Nat /\ NoJob \notin Orders /\ NoMachine \notin Machines

LEMMA DeskInit == DeskConstants /\ Desk!Init => DeskInv
<1> SUFFICES ASSUME DeskConstants, Desk!Init PROVE DeskInv
  OBVIOUS
<1> USE DEF Desk!Init, Desk!Blank, DeskConstants
<1>1. /\ machine \in [Machines -> [status : Desk!MachineStatus, active : BOOLEAN]]
      /\ request \in [Orders ->
           [status : Desk!Status, bucket : BOOLEAN, on : Machines \cup {NoMachine},
            estimated_minutes : {0, 1}, run_estimated_minutes : {0, 1},
            pooled : BOOLEAN, reserved : Desk!Grams, actual : Nat, used : Desk!Grams,
            reprint_of : Orders \cup {NoJob}]]
      /\ pool \in [remaining : Desk!Grams, active : BOOLEAN]
  BY DEF Desk!Grams, Desk!MachineStatus, Desk!Status
<1>2. \A r \in Orders : /\ request[r].status = "none" /\ request[r].reserved = 0
                      /\ request[r].reprint_of = NoJob
  OBVIOUS
<1> QED
  BY <1>1, <1>2 DEF DeskInv, Desk!TypeOK, Desk!OneJobPerMachine, Desk!Jobs, ReprintsEnded,
                    Desk!Grams

\* The columns of a request.
DeskRow == [status : Desk!Status, bucket : BOOLEAN, on : Machines \cup {NoMachine},
            estimated_minutes : {0, 1}, run_estimated_minutes : {0, 1},
            pooled : BOOLEAN, reserved : Desk!Grams, actual : Nat, used : Desk!Grams,
            reprint_of : Orders \cup {NoJob}]

\* What TypeOK says of the requests.
DeskRows ==
    /\ request \in [Orders -> DeskRow]
    /\ \A q \in Orders :
         /\ request[q].reserved > 0 => request[q].status = "in_progress" /\ request[q].pooled
         /\ request[q].status = "in_progress" => request[q].on # NoMachine
         /\ request[q].reprint_of # NoJob => request[request[q].reprint_of].reprint_of = NoJob

(* Saving one row. *)
LEMMA RowSaved ==
    ASSUME DeskInv, NEW r \in Orders, NEW row \in DeskRow, request' = [request EXCEPT ![r] = row],
           row.reserved > 0 => row.status = "in_progress" /\ row.pooled,
           row.status = "in_progress" => row.on # NoMachine,
           row.status \in Ended \/ request[r].status \notin Ended,
           \/ row.reprint_of = request[r].reprint_of
           \/ request[r].status = "none" /\ row.reprint_of = NoJob
           \/ /\ request[r].status = "none" /\ row.reprint_of \in Orders \ {r}
              /\ request[row.reprint_of].status \in Ended
              /\ request[row.reprint_of].reprint_of = NoJob
    PROVE  /\ request'[r] = row /\ \A q \in Orders \ {r} : request'[q] = request[q]
           /\ DeskRows' /\ ReprintsEnded'
<1>1. request \in [Orders -> DeskRow]
  BY DEF DeskInv, Desk!TypeOK, DeskRow
<1>2. request' \in [Orders -> DeskRow]
  BY <1>1
<1>3. request'[r] = row /\ \A q \in Orders \ {r} : request'[q] = request[q]
  BY <1>1
<1>4. \A q \in Orders : request[q].reprint_of \in Orders \cup {NoJob}
  BY <1>1 DEF DeskRow
<1> QED
  BY <1>2, <1>3, <1>4 DEF DeskInv, Desk!TypeOK, DeskRows, ReprintsEnded, Ended

\* The row of a job that starts.
StartRow(old, m, e, held, grams) ==
    [old EXCEPT !.status = "in_progress", !.on = m, !.estimated_minutes = e,
                !.run_estimated_minutes = e, !.pooled = held, !.reserved = grams]

LEMMA StartedRow ==
    ASSUME NEW old \in DeskRow, NEW m \in Machines, NEW e \in {0, 1}, NEW held \in BOOLEAN,
           NEW grams \in Desk!Grams
    PROVE  /\ StartRow(old, m, e, held, grams) \in DeskRow
           /\ StartRow(old, m, e, held, grams).status = "in_progress"
           /\ StartRow(old, m, e, held, grams).on = m
           /\ StartRow(old, m, e, held, grams).pooled = held
           /\ StartRow(old, m, e, held, grams).reserved = grams
           /\ StartRow(old, m, e, held, grams).reprint_of = old.reprint_of
<1> DEFINE row == StartRow(old, m, e, held, grams)
<1> USE DEF StartRow
<1>1. "in_progress" \in Desk!Status
  BY DEF Desk!Status
<1>2. row \in DeskRow
  BY <1>1 DEF DeskRow
<1>3. row.status = "in_progress" /\ row.on = m
  BY DEF DeskRow
<1>4. row.pooled = held
  BY DEF DeskRow
<1>5. row.reserved = grams /\ row.reprint_of = old.reprint_of
  BY DEF DeskRow
<1> HIDE DEF StartRow
<1> QED
  BY <1>2, <1>3, <1>4, <1>5

LEMMA StartKeeps ==
    ASSUME DeskConstants, DeskInv, NEW r \in Orders, NEW m \in Machines,
           NEW minutes \in {request[r].estimated_minutes, 1}, NEW planned \in Desk!Grams,
           Desk!start(r, m, minutes, planned)
    PROVE  DeskInv'
<1> DEFINE estimate == Desk!SnapshotEstimate(r, minutes, planned)
           held == planned > 0
           row == StartRow(request[r], m, estimate, held, planned)
<1>1. /\ machine[m].active /\ machine[m].status = "idle"
      /\ request[r].status = "accepted"
      /\ machine' = [machine EXCEPT ![m].status = "running"]
      /\ pool' = [pool EXCEPT !.remaining = @ - planned]
      /\ planned > 0 => pool.remaining >= planned
      /\ UNCHANGED <<consumable, other, overridden>>
  BY DEF Desk!start, Desk!start_on_running, Desk!_require_available
<1>2. estimate \in {0, 1} /\ held \in BOOLEAN /\ request[r] \in DeskRow /\ planned \in Nat
  BY DEF Desk!SnapshotEstimate, DeskInv, Desk!TypeOK, DeskRow, DeskConstants, Desk!Grams
<1>3. request' = [request EXCEPT ![r] = row]
  BY DEF Desk!start, Desk!start_on_running, StartRow
<1>4. /\ row \in DeskRow
      /\ row.status = "in_progress" /\ row.on = m /\ row.pooled = held
      /\ row.reserved = planned /\ row.reprint_of = request[r].reprint_of
  <2> HIDE DEF estimate, held
  <2> QED
    BY <1>2, StartedRow
<1> HIDE DEF row
<1>5. row.reserved > 0 => row.pooled
  BY <1>4
<1>6. /\ request'[r] = row /\ \A q \in Orders \ {r} : request'[q] = request[q]
      /\ DeskRows' /\ ReprintsEnded'
  <2> HIDE DEF held
  <2> QED
    BY <1>1, <1>3, <1>4, <1>5, RowSaved DEF DeskConstants, Ended
<1>7. Desk!TypeOK'
  <2>1. machine' \in [Machines -> [status : Desk!MachineStatus, active : BOOLEAN]]
    BY <1>1 DEF DeskInv, Desk!TypeOK, Desk!MachineStatus
  <2>2. pool' \in [remaining : Desk!Grams, active : BOOLEAN]
    BY <1>1, <1>2 DEF DeskInv, Desk!TypeOK, Desk!Grams, DeskConstants
  <2> QED
    BY <1>1, <1>6, <2>1, <2>2 DEF DeskInv, Desk!TypeOK, DeskRows, DeskRow
<1>8. Desk!OneJobPerMachine'
  <2>1. m \notin overridden => Desk!Jobs(m) = {}
    BY <1>1 DEF DeskInv, Desk!OneJobPerMachine
  <2>2. \A k \in Machines : Desk!Jobs(k)' \subseteq Desk!Jobs(k) \cup (IF k = m THEN {r} ELSE {})
    BY <1>4, <1>6 DEF Desk!Jobs
  <2>3. /\ machine'[m].status = "running" /\ machine'[m].active
        /\ \A k \in Machines \ {m} : machine'[k] = machine[k]
    BY <1>1 DEF DeskInv, Desk!TypeOK
  <2> QED
    BY <1>1, <2>1, <2>2, <2>3 DEF DeskInv, Desk!OneJobPerMachine
<1> QED
  BY <1>6, <1>7, <1>8 DEF DeskInv

(* Operations on one row that no machine notices.                          *)
LEMMA DeskRowKeeps ==
    ASSUME DeskConstants, DeskInv, NEW r \in Orders,
           \/ \E m \in Machines \cup {NoMachine} : Desk!submit(r, m)
           \/ \E minutes \in {0, 1} : Desk!accept(r, minutes)
           \/ Desk!reject(r) \/ Desk!collect(r)
    PROVE  DeskInv'
<1> DEFINE Saved == \E row \in DeskRow :
              /\ request' = [request EXCEPT ![r] = row]
              /\ row.status # "in_progress" /\ request[r].status # "in_progress"
              /\ row.reserved = 0
              /\ row.status \in Ended \/ request[r].status \notin Ended
              /\ \/ row.reprint_of = request[r].reprint_of
                 \/ request[r].status = "none" /\ row.reprint_of = NoJob
<1>1. Saved
  <2>1. request[r] \in DeskRow /\ (request[r].status # "in_progress" => request[r].reserved = 0)
    BY DEF DeskInv, Desk!TypeOK, DeskRow, Desk!Grams, DeskConstants
  <2>2. ASSUME NEW m \in Machines \cup {NoMachine}, Desk!submit(r, m) PROVE Saved
    <3> DEFINE filed == m # NoMachine
               row == [Desk!Blank EXCEPT !.status = "pending", !.bucket = filed, !.on = m]
    <3>1. request' = [request EXCEPT ![r] = row] /\ request[r].status = "none"
      BY <2>2 DEF Desk!submit
    <3>2. filed \in BOOLEAN
      OBVIOUS
    <3> HIDE DEF filed
    <3>3. /\ Desk!Blank \in DeskRow
          /\ Desk!Blank.reserved = 0 /\ Desk!Blank.reprint_of = NoJob
      BY DEF Desk!Blank, DeskRow, Desk!Status, Desk!Grams, DeskConstants
    <3> HIDE DEF Desk!Blank
    <3>4. row \in DeskRow
      BY <3>2, <3>3 DEF DeskRow, Desk!Status
    <3>5. row.status = "pending" /\ row.reserved = 0 /\ row.reprint_of = NoJob
      BY <3>3 DEF DeskRow
    <3> HIDE DEF row
    <3> QED
      BY <3>1, <3>4, <3>5 DEF Ended
  <2>3. CASE \E m \in Machines \cup {NoMachine} : Desk!submit(r, m)
    BY <2>2, <2>3
  <2>4. ASSUME NEW minutes \in {0, 1}, Desk!accept(r, minutes) PROVE Saved
    <3> DEFINE row == [request[r] EXCEPT !.status = "accepted", !.estimated_minutes = minutes]
    <3>1. request' = [request EXCEPT ![r] = row] /\ request[r].status = "pending"
      BY <2>1, <2>4 DEF Desk!accept
    <3>2. row \in DeskRow
      BY <2>1 DEF DeskRow, Desk!Status
    <3>3. /\ row.status = "accepted" /\ row.reserved = request[r].reserved
          /\ row.reprint_of = request[r].reprint_of
      BY <2>1 DEF DeskRow
    <3> HIDE DEF row
    <3> QED
      BY <2>1, <3>1, <3>2, <3>3 DEF Ended
  <2>5. ASSUME NEW to \in {"rejected", "collected"},
               request' = [request EXCEPT ![r].status = to],
               request[r].status \in {"pending", "completed"},
               to = "rejected" => request[r].status = "pending"
        PROVE  Saved
    <3> DEFINE row == [request[r] EXCEPT !.status = to]
    <3>1. request' = [request EXCEPT ![r] = row]
      BY <2>1, <2>5
    <3>2. row \in DeskRow
      BY <2>1 DEF DeskRow, Desk!Status
    <3>3. /\ row.status = to /\ row.reserved = request[r].reserved
          /\ row.reprint_of = request[r].reprint_of
      BY <2>1 DEF DeskRow
    <3> HIDE DEF row
    <3> QED
      BY <2>1, <2>5, <3>1, <3>2, <3>3 DEF Ended
  <2>6. CASE Desk!reject(r) \/ Desk!collect(r)
    BY <2>5, <2>6 DEF Desk!reject, Desk!collect
  <2> QED
    BY <2>3, <2>4, <2>6
<1>2. UNCHANGED <<machine, pool, consumable, other, overridden>>
  BY DEF Desk!submit, Desk!accept, Desk!reject, Desk!collect
<1>3. PICK row \in DeskRow :
        /\ request' = [request EXCEPT ![r] = row]
        /\ row.status # "in_progress" /\ request[r].status # "in_progress"
        /\ row.reserved = 0
        /\ row.status \in Ended \/ request[r].status \notin Ended
        /\ \/ row.reprint_of = request[r].reprint_of
           \/ request[r].status = "none" /\ row.reprint_of = NoJob
  BY <1>1
<1> HIDE DEF Saved
<1>4. /\ request'[r] = row /\ \A q \in Orders \ {r} : request'[q] = request[q]
      /\ Desk!TypeOK' /\ ReprintsEnded'
  <2>1. /\ row.reserved > 0 => row.status = "in_progress" /\ row.pooled
        /\ row.status = "in_progress" => row.on # NoMachine
    BY <1>3
  <2>2. /\ request'[r] = row /\ \A q \in Orders \ {r} : request'[q] = request[q]
        /\ DeskRows' /\ ReprintsEnded'
    BY <1>3, <2>1, RowSaved
  <2> QED
    BY <1>2, <2>2 DEF DeskInv, Desk!TypeOK, DeskRows, DeskRow
<1>5. \A m : Desk!Jobs(m)' \subseteq Desk!Jobs(m)
  BY <1>3, <1>4 DEF Desk!Jobs
<1>6. Desk!OneJobPerMachine'
  BY <1>2, <1>5 DEF DeskInv, Desk!OneJobPerMachine
<1> QED
  BY <1>4, <1>6 DEF DeskInv

(* A job that ends settles its reservation and frees its machine.          *)
LEMMA FinishKeeps ==
    ASSUME DeskConstants, DeskInv, NEW r \in Orders, NEW to \in {"completed", "failed"},
           NEW actual \in Desk!Grams, NEW used \in Desk!Grams,
           Desk!finish(r, to, actual, used)
    PROVE  DeskInv'
<1>m. PICK m \in Machines : m = request[r].on
  BY DEF Desk!finish, DeskInv, Desk!TypeOK
<1> DEFINE row == [request[r] EXCEPT !.status = to, !.reserved = 0, !.actual = actual,
                                     !.used = used]
<1>1. request[r] \in DeskRow /\ request[r].status = "in_progress"
      /\ 0 \in Desk!Grams /\ actual \in Nat
  BY DEF Desk!finish, DeskInv, Desk!TypeOK, DeskRow, DeskConstants, Desk!Grams
<1>2. request' = [request EXCEPT ![r] = row]
  BY DEF Desk!finish
<1>3. row \in DeskRow
  BY <1>1 DEF DeskRow, Desk!Status
<1>4. /\ row.status = to /\ row.reserved = 0 /\ row.reprint_of = request[r].reprint_of
      /\ row.on = m
  BY <1>1, <1>m DEF DeskRow
<1> HIDE DEF row
<1>5. /\ request'[r] = row /\ \A q \in Orders \ {r} : request'[q] = request[q]
      /\ DeskRows' /\ ReprintsEnded'
  <2>1. row.status \in Ended /\ row.status # "in_progress" /\ ~(row.reserved > 0)
    BY <1>4 DEF Ended
  <2> QED
    BY <1>1, <1>2, <1>3, <1>4, <2>1, RowSaved
<1>6. machine' \in [Machines -> [status : Desk!MachineStatus, active : BOOLEAN]]
      /\ \A k \in Machines \ {m} : machine'[k] = machine[k]
  BY <1>1, <1>m DEF Desk!finish, Desk!_release_queue_machine, DeskInv, Desk!TypeOK,
              Desk!MachineStatus
<1>7. /\ pool' \in [remaining : Desk!Grams, active : BOOLEAN]
      /\ consumable' \in Desk!Grams /\ other' = other
  BY <1>1 DEF Desk!finish, Desk!debit_consumptions, Desk!reconcile_request, DeskInv,
              Desk!TypeOK, Desk!Grams, DeskConstants, DeskRow
<1>8. overridden' = IF Desk!Jobs(m) = {r} THEN overridden \ {m} ELSE overridden
  BY <1>m DEF Desk!finish
<1>9. Desk!TypeOK'
  BY <1>5, <1>6, <1>7, <1>8 DEF DeskInv, Desk!TypeOK, DeskRows, DeskRow
<1>10. \A k : Desk!Jobs(k)' = Desk!Jobs(k) \ {r}
  BY <1>4, <1>5 DEF Desk!Jobs
<1>11. r \in Desk!Jobs(m) /\ \A k \in Machines \ {m} : r \notin Desk!Jobs(k)
  BY <1>1, <1>m DEF Desk!Jobs
<1>12. m \notin overridden' => Desk!Jobs(m)' = {}
  BY <1>1, <1>8, <1>10, <1>11 DEF DeskInv, Desk!OneJobPerMachine
<1>13. Desk!OneJobPerMachine'
  <2>1. ASSUME NEW k \in Machines \ overridden', k # m
        PROVE  /\ \A p, q \in Desk!Jobs(k)' : p = q
               /\ Desk!Jobs(k)' # {} => machine'[k].active /\ machine'[k].status = "running"
    <3>1. k \in Machines \ overridden /\ machine'[k] = machine[k]
      BY <1>6, <1>8, <2>1
    <3>2. Desk!Jobs(k)' \subseteq Desk!Jobs(k)
      BY <1>10
    <3> QED
      BY <3>1, <3>2 DEF DeskInv, Desk!OneJobPerMachine
  <2> QED
    BY <1>12, <2>1 DEF Desk!OneJobPerMachine
<1> QED
  BY <1>5, <1>9, <1>13 DEF DeskInv

(* A reprint is accepted in its own row and points at the original.        *)
LEMMA ReprintKeeps ==
    ASSUME DeskConstants, DeskInv, NEW r \in Orders, NEW child \in Orders,
           Desk!create_reprint(r, child)
    PROVE  DeskInv'
<1> DEFINE root == IF request[r].reprint_of = NoJob THEN r ELSE request[r].reprint_of
           row == Desk!Reprint(r, root)
<1>1. /\ request[r] \in DeskRow /\ request[r].status \in Ended
      /\ request[child].status = "none" /\ request' = [request EXCEPT ![child] = row]
      /\ UNCHANGED <<machine, pool, consumable, other, overridden>>
  BY DEF Desk!create_reprint, DeskInv, Desk!TypeOK, DeskRow, Ended
<1>2. /\ root \in Orders \ {child} /\ request[root].status \in Ended
      /\ request[root].reprint_of = NoJob
  BY <1>1 DEF DeskInv, Desk!TypeOK, ReprintsEnded, DeskConstants, Ended
<1>3. /\ Desk!Blank \in DeskRow /\ Desk!Blank.reserved = 0
  BY DEF Desk!Blank, DeskRow, Desk!Status, Desk!Grams, DeskConstants
<1>4. /\ row \in DeskRow /\ row.status = "accepted" /\ row.reserved = 0
      /\ row.reprint_of = root
  <2>1. (IF request[r].bucket THEN request[r].on ELSE NoMachine) \in Machines \cup {NoMachine}
    BY <1>1 DEF DeskRow
  <2> HIDE DEF root, Desk!Blank
  <2>2. row \in DeskRow
    BY <1>1, <1>2, <1>3, <2>1, ZenonT(60) DEF Desk!Reprint, DeskRow, Desk!Status
  <2>3. row.status = "accepted" /\ row.reserved = 0 /\ row.reprint_of = root
    BY <1>3 DEF Desk!Reprint, DeskRow
  <2> QED
    BY <2>2, <2>3
<1> HIDE DEF row, root
<1>5. /\ request'[child] = row /\ \A q \in Orders \ {child} : request'[q] = request[q]
      /\ DeskRows' /\ ReprintsEnded'
  <2>1. ~(row.reserved > 0) /\ row.status # "in_progress" /\ request[child].status \notin Ended
    BY <1>1, <1>4 DEF Ended
  <2> QED
    BY <1>1, <1>2, <1>4, <2>1, RowSaved
<1>6. Desk!TypeOK'
  BY <1>1, <1>5 DEF DeskInv, Desk!TypeOK, DeskRows, DeskRow
<1>7. \A m : Desk!Jobs(m)' \subseteq Desk!Jobs(m)
  BY <1>4, <1>5 DEF Desk!Jobs
<1>8. Desk!OneJobPerMachine'
  BY <1>1, <1>7 DEF DeskInv, Desk!OneJobPerMachine
<1> QED
  BY <1>5, <1>6, <1>8 DEF DeskInv

(* Staff set a machine or the pool by hand.                                *)
LEMMA ByHandKeeps ==
    ASSUME DeskConstants, DeskInv,
           \/ \E m \in Machines : \/ \E to \in Desk!MachineStatus : Desk!set_status(m, to)
                                  \/ Desk!retire_machine(m)
                                  \/ Desk!unretire_machine(m)
           \/ \E grams \in Desk!Grams \ {0} : \/ Desk!correct_pool(grams)
                                              \/ Desk!correct_pool(-grams)
                                              \/ Desk!log_typed_manual_usage(grams)
           \/ Desk!retire_pool("reason")
    PROVE  DeskInv'
<1>1. request' = request /\ consumable' = consumable
  BY DEF Desk!set_status, Desk!retire_machine, Desk!SetByHand, Desk!unretire_machine,
         Desk!correct_pool, Desk!log_typed_manual_usage, Desk!retire_pool, Desk!Adjust
<1> DEFINE Pool == /\ pool' \in [remaining : Desk!Grams, active : BOOLEAN]
                   /\ other' \in Int
           Unit == /\ machine' \in [Machines -> [status : Desk!MachineStatus, active : BOOLEAN]]
                   /\ overridden' \subseteq Machines /\ overridden \subseteq overridden'
                   /\ \A m \in Machines \ overridden' : Desk!Jobs(m) # {} =>
                         \/ machine'[m] = machine[m]
                         \/ machine'[m] = [machine[m] EXCEPT !.active = TRUE]
<1>2. ASSUME \E grams \in Desk!Grams \ {0} : \/ Desk!correct_pool(grams)
                                             \/ Desk!correct_pool(-grams)
                                             \/ Desk!log_typed_manual_usage(grams)
      PROVE  Pool /\ UNCHANGED <<machine, overridden>>
  <2>1. PICK delta \in Int : /\ pool.remaining + delta \in Desk!Grams
                             /\ pool' = [pool EXCEPT !.remaining = pool.remaining + delta]
                             /\ other' = other + delta
                             /\ UNCHANGED <<machine, overridden>>
    <3>1. ASSUME NEW delta \in Int, Desk!correct_pool(delta)
          PROVE  /\ pool.remaining + delta \in Desk!Grams
                 /\ pool' = [pool EXCEPT !.remaining = pool.remaining + delta]
                 /\ other' = other + delta
                 /\ UNCHANGED <<machine, overridden>>
      BY <3>1 DEF Desk!correct_pool, Desk!Adjust
    <3>2. ASSUME NEW grams \in Desk!Grams, Desk!log_typed_manual_usage(grams)
          PROVE  /\ pool.remaining + (-grams) \in Desk!Grams
                 /\ pool' = [pool EXCEPT !.remaining = pool.remaining + (-grams)]
                 /\ other' = other + (-grams)
                 /\ UNCHANGED <<machine, overridden>>
      BY <3>2 DEF Desk!log_typed_manual_usage, Desk!Adjust, Desk!Grams, DeskConstants,
                  DeskInv, Desk!TypeOK
    <3>3. \A grams \in Desk!Grams : grams \in Int /\ -grams \in Int
      BY DEF Desk!Grams
    <3> QED
      BY <1>2, <3>1, <3>2, <3>3
  <2> QED
    BY <2>1 DEF DeskInv, Desk!TypeOK
<1>3. ASSUME Desk!retire_pool("reason") PROVE Pool /\ UNCHANGED <<machine, overridden>>
  BY <1>3 DEF Desk!retire_pool, Desk!Adjust, DeskInv, Desk!TypeOK, Desk!Grams, DeskConstants
<1>4. ASSUME NEW m \in Machines, \/ \E to \in Desk!MachineStatus : Desk!set_status(m, to)
                                 \/ Desk!retire_machine(m)
      PROVE  Unit /\ UNCHANGED <<pool, other>>
  <2>1. PICK row \in [status : Desk!MachineStatus, active : BOOLEAN] : Desk!SetByHand(m, row)
    <3>1. machine[m] \in [status : Desk!MachineStatus, active : BOOLEAN]
      BY DEF DeskInv, Desk!TypeOK
    <3>2. [status |-> "held", active |-> FALSE] \in [status : Desk!MachineStatus,
    active : BOOLEAN]
      BY DEF Desk!MachineStatus
    <3> QED
      BY <1>4, <3>1, <3>2 DEF Desk!set_status, Desk!retire_machine
  <2>2. /\ machine' = [machine EXCEPT ![m] = row]
        /\ overridden' = IF Desk!Jobs(m) = {} THEN overridden ELSE overridden \cup {m}
        /\ UNCHANGED <<pool, other>>
    BY <2>1 DEF Desk!SetByHand
  <2>3. machine \in [Machines -> [status : Desk!MachineStatus, active : BOOLEAN]]
        /\ overridden \subseteq Machines
    BY DEF DeskInv, Desk!TypeOK
  <2>4. machine' \in [Machines -> [status : Desk!MachineStatus, active : BOOLEAN]]
    BY <2>1, <2>2, <2>3
  <2>5. overridden' \subseteq Machines /\ overridden \subseteq overridden'
    BY <2>2, <2>3
  <2>6. \A n \in Machines \ overridden' : Desk!Jobs(n) # {} => machine'[n] = machine[n]
    BY <2>2, <2>3
  <2> QED
    BY <2>2, <2>4, <2>5, <2>6
<1>5. ASSUME NEW m \in Machines, Desk!unretire_machine(m)
      PROVE  Unit /\ UNCHANGED <<pool, other>>
  BY <1>5, ZenonT(60) DEF Desk!unretire_machine, DeskInv, Desk!TypeOK
<1>6. Pool /\ Unit
  BY <1>2, <1>3, <1>4, <1>5 DEF DeskInv, Desk!TypeOK
<1>7. \A m : Desk!Jobs(m)' = Desk!Jobs(m)
  BY <1>1 DEF Desk!Jobs
<1>8. Desk!TypeOK' /\ ReprintsEnded'
  BY <1>1, <1>6 DEF DeskInv, Desk!TypeOK, ReprintsEnded
<1>9. Desk!OneJobPerMachine'
  BY <1>6, <1>7 DEF DeskInv, Desk!TypeOK, Desk!OneJobPerMachine
<1> QED
  BY <1>8, <1>9 DEF DeskInv

LEMMA DeskNext == DeskConstants /\ DeskInv /\ [Desk!Next]_Desk!vars => DeskInv'
<1> SUFFICES ASSUME DeskConstants, DeskInv, [Desk!Next]_Desk!vars PROVE DeskInv'
  OBVIOUS
<1>1. CASE UNCHANGED Desk!vars
  BY <1>1 DEF Desk!vars, DeskInv, Desk!TypeOK, Desk!OneJobPerMachine, Desk!Jobs, ReprintsEnded
<1>2. CASE Desk!Next
  BY <1>2, DeskRowKeeps, StartKeeps, FinishKeeps, ReprintKeeps, ByHandKeeps DEF Desk!Next
<1> QED
  BY <1>1, <1>2

(* The rows of the desk keep their types, reservations belong to running   *)
(* jobs and reprints to jobs that ended, for any number of machines, jobs  *)
(* and grams.                                                              *)
THEOREM DeskCorrect == Spec => [](part = "desk" => DeskInv)
<1>1. DeskConstants
  BY DeskAssumption DEF DeskConstants
<1>2. Init => (part = "desk" => DeskInv)
  BY <1>1, DeskInit DEF Init
<1>3. (part = "desk" => DeskInv) /\ [Next]_vars => (part = "desk" => DeskInv)'
  BY <1>1, DeskNext, PartStep
<1> QED
  BY <1>2, <1>3, PTL DEF Spec

-----------------------------------------------------------------------------
(* The grams of the desk.                                                  *)

\* The instance's sum is the sum the lemmas of Sums are about.
LEMMA SameSum ==
    ASSUME NEW f
    PROVE  Desk!SumFunction(f) = SumFunction(f)
<1>1. Desk!SumFunctionOnSet(f, DOMAIN f) = Fold(f, DOMAIN f)[DOMAIN f]
  BY DEF Desk!SumFunctionOnSet, Desk!FoldFunctionOnSet, Desk!MapThenFoldSet, Fold, Folds, Chosen
<1> QED
  BY <1>1, SumIsFold DEF Desk!SumFunction, SumFunction

\* The columns of a request that are grams.
GramColumns == {"reserved", "actual", "used"}

\* One changed row changes a column's total by its share.
LEMMA TotalStep ==
    ASSUME IsFiniteSet(Orders), DeskInv, DeskInv', NEW c \in GramColumns, NEW r \in Orders,
           \A q \in Orders \ {r} : request'[q] = request[q]
    PROVE  /\ Desk!Total(c) \in Int
           /\ Desk!Total(c)' = Desk!Total(c) - request[r][c] + request'[r][c]
<1> DEFINE f == [q \in Orders |-> request[q][c]]
           g == [q \in Orders |-> request'[q][c]]
<1>1. \A q \in Orders : request[q][c] \in Int /\ request'[q][c] \in Int
  <2>1. request \in [Orders -> DeskRow] /\ request' \in [Orders -> DeskRow]
    BY DEF DeskInv, Desk!TypeOK, DeskRow, Desk!Grams, Desk!Status
  <2> QED
    BY <2>1 DEF DeskRow, GramColumns, Desk!Grams
<1>2. Summable(f) /\ Summable(g) /\ AgreeOff(f, g, r)
  BY <1>1 DEF Summable, AgreeOff
<1>3. At(f, r) = request[r][c] /\ At(g, r) = request'[r][c]
  BY DEF At
<1>4. Desk!Total(c) = SumFunction(f) /\ Desk!Total(c)' = SumFunction(g)
  BY SameSum DEF Desk!Total
<1> HIDE DEF f, g
<1>5. SumFunction(g) = SumFunction(f) - At(f, r) + At(g, r)
  BY <1>2, SumStep
<1>6. SumFunction(f) \in Int
  <2>1. /\ SumFunction(f) = At(f, r) + SumFunctionOnSet(f, DOMAIN f \ {r})
        /\ At(f, r) \in Int /\ SumFunctionOnSet(f, DOMAIN f \ {r}) \in Int
    BY <1>2, SumAt
  <2> QED
    BY <2>1
<1> QED
  BY <1>3, <1>4, <1>5, <1>6

\* A job that has not ended has used nothing.
Unspent == \A r \in Orders : request[r].status \notin Ended => request[r].actual = 0 /\ request[r].used = 0

\* What a step takes from the pool and the consumable it writes into the row of r.
Settles(r) ==
    /\ \A q \in Orders \ {r} : request'[q] = request[q]
    /\ pool'.remaining + request'[r].reserved + request'[r].actual - other' =
          pool.remaining + request[r].reserved + request[r].actual - other
    /\ consumable' + request'[r].used = consumable + request[r].used
    /\ request'[r].status \notin Ended => request'[r].actual = 0 /\ request'[r].used = 0

\* The numbers of the desk are integers.
LEMMA DeskNumbers ==
    ASSUME DeskConstants, DeskInv
    PROVE  /\ pool.remaining \in Int /\ consumable \in Int /\ other \in Int /\ Initial \in Int
           /\ \A q \in Orders : /\ request[q].reserved \in Int /\ request[q].actual \in Int
                              /\ request[q].used \in Int
  BY DEF DeskConstants, DeskInv, Desk!TypeOK, Desk!Grams

\* Such a step keeps the balance.
LEMMA SettledBalance ==
    ASSUME DeskConstants, IsFiniteSet(Orders), DeskInv, DeskInv', Desk!MaterialBalance, Unspent,
           NEW r \in Orders, Settles(r)
    PROVE  Desk!MaterialBalance' /\ Unspent'
<1> DEFINE R == Desk!Total("reserved")
           A == Desk!Total("actual")
           U == Desk!Total("used")
           old == request[r]
           new == request'[r]
<1>1. /\ R \in Int /\ R' = R - old.reserved + new.reserved
      /\ A \in Int /\ A' = A - old.actual + new.actual
      /\ U \in Int /\ U' = U - old.used + new.used
  <2>1. \A c \in GramColumns : /\ Desk!Total(c) \in Int
                               /\ Desk!Total(c)' = Desk!Total(c) - request[r][c] + request'[r][c]
    BY TotalStep DEF Settles
  <2> HIDE DEF R, A, U
  <2> QED
    BY <2>1 DEF GramColumns, R, A, U
<1>2. /\ pool.remaining \in Int /\ consumable \in Int /\ other \in Int /\ Initial \in Int
      /\ old.reserved \in Int /\ old.actual \in Int /\ old.used \in Int
  BY DeskNumbers
<1>3. /\ pool'.remaining \in Int /\ consumable' \in Int /\ other' \in Int
      /\ new.reserved \in Int /\ new.actual \in Int /\ new.used \in Int
  BY DEF DeskConstants, DeskInv, Desk!TypeOK, Desk!Grams
<1>4. /\ pool'.remaining + new.reserved + new.actual - other' =
            pool.remaining + old.reserved + old.actual - other
      /\ consumable' + new.used = consumable + old.used
  BY DEF Settles
<1>5. pool.remaining + R + A = Initial + other /\ consumable + U = Initial
  BY DEF Desk!MaterialBalance
<1>6. Unspent'
  BY DEF Unspent, Settles
<1>7. Desk!MaterialBalance' <=> /\ pool'.remaining + R' + A' = Initial + other'
                                /\ consumable' + U' = Initial
  BY DEF Desk!MaterialBalance
<1> HIDE DEF R, A, U, old, new
<1>8. pool'.remaining + R' + A' = Initial + other' /\ consumable' + U' = Initial
  BY <1>1, <1>2, <1>3, <1>4, <1>5
<1> QED
  BY <1>6, <1>7, <1>8

\* Saving a row with the same grams, or taking up an unused row with none, when
\* neither the pool nor the consumable moves.
LEMMA SameGrams ==
    ASSUME DeskConstants, DeskInv, NEW r \in Orders, NEW row \in DeskRow,
           request' = [request EXCEPT ![r] = row], UNCHANGED <<pool, consumable, other>>,
           row.reserved = request[r].reserved /\ row.actual = request[r].actual,
           row.used = request[r].used,
           row.status \notin Ended => row.actual = 0 /\ row.used = 0
    PROVE  Settles(r)
<1>1. request'[r] = row /\ \A q \in Orders \ {r} : request'[q] = request[q]
  BY DEF DeskInv, Desk!TypeOK
<1> QED
  BY <1>1 DEF Settles

\* A row nobody filed holds no grams.
LEMMA NoGrams ==
    ASSUME DeskConstants, DeskInv, Unspent, NEW r \in Orders
    PROVE  /\ request[r] \in DeskRow
           /\ request[r].status # "in_progress" => request[r].reserved = 0
           /\ request[r].status \notin Ended => request[r].actual = 0 /\ request[r].used = 0
<1>1. request[r] \in DeskRow
  BY DEF DeskInv, Desk!TypeOK, DeskRow, Desk!Grams, Desk!Status
<1>2. request[r].reserved > 0 => request[r].status = "in_progress"
  BY DEF DeskInv, Desk!TypeOK
<1>3. request[r].reserved \in Nat
  BY <1>1 DEF DeskRow, Desk!Grams, DeskConstants
<1> QED
  BY <1>1, <1>2, <1>3 DEF Unspent

(* Filing, reviewing and collecting a job and printing it again move no    *)
(* grams.                                                                  *)
LEMMA RowSettles ==
    ASSUME DeskConstants, DeskInv, Unspent, NEW r \in Orders,
           \/ \E m \in Machines \cup {NoMachine} : Desk!submit(r, m)
           \/ \E minutes \in {0, 1} : Desk!accept(r, minutes)
           \/ Desk!reject(r) \/ Desk!collect(r)
    PROVE  Settles(r)
<1>1. UNCHANGED <<pool, consumable, other>>
  BY DEF Desk!submit, Desk!accept, Desk!reject, Desk!collect
<1>2. /\ request[r] \in DeskRow
      /\ request[r].status # "in_progress" => request[r].reserved = 0
      /\ request[r].status \notin Ended => request[r].actual = 0 /\ request[r].used = 0
  BY NoGrams
<1>3. ASSUME NEW m \in Machines \cup {NoMachine}, Desk!submit(r, m) PROVE Settles(r)
  <2> DEFINE filed == m # NoMachine
             row == [Desk!Blank EXCEPT !.status = "pending", !.bucket = filed, !.on = m]
  <2>1. request' = [request EXCEPT ![r] = row] /\ request[r].status = "none"
    BY <1>3 DEF Desk!submit
  <2>2. filed \in BOOLEAN
    OBVIOUS
  <2> HIDE DEF filed
  <2>3. /\ Desk!Blank \in DeskRow /\ Desk!Blank.reserved = 0 /\ Desk!Blank.actual = 0
        /\ Desk!Blank.used = 0
    BY DEF Desk!Blank, DeskRow, Desk!Status, Desk!Grams, DeskConstants
  <2> HIDE DEF Desk!Blank
  <2>4. row \in DeskRow
    BY <2>2, <2>3 DEF DeskRow, Desk!Status
  <2>5. row.status = "pending" /\ row.reserved = 0 /\ row.actual = 0 /\ row.used = 0
    BY <2>3 DEF DeskRow
  <2> HIDE DEF row
  <2> QED
    BY <1>1, <1>2, <2>1, <2>4, <2>5, SameGrams DEF Ended
<1>4. ASSUME NEW minutes \in {0, 1}, Desk!accept(r, minutes) PROVE Settles(r)
  <2> DEFINE row == [request[r] EXCEPT !.status = "accepted", !.estimated_minutes = minutes]
  <2>1. request' = [request EXCEPT ![r] = row] /\ request[r].status = "pending"
    BY <1>2, <1>4 DEF Desk!accept
  <2>2. row \in DeskRow
    BY <1>2 DEF DeskRow, Desk!Status
  <2>3. /\ row.status = "accepted" /\ row.reserved = request[r].reserved
        /\ row.actual = request[r].actual /\ row.used = request[r].used
    BY <1>2 DEF DeskRow
  <2> HIDE DEF row
  <2> QED
    BY <1>1, <1>2, <2>1, <2>2, <2>3, SameGrams DEF Ended
<1>5. ASSUME NEW to \in {"rejected", "collected"}, request' = [request EXCEPT ![r].status = to],
             to = "rejected" => request[r].status = "pending"
      PROVE  Settles(r)
  <2> DEFINE row == [request[r] EXCEPT !.status = to]
  <2>1. request' = [request EXCEPT ![r] = row]
    BY <1>2, <1>5
  <2>2. row \in DeskRow
    BY <1>2 DEF DeskRow, Desk!Status
  <2>3. /\ row.status = to /\ row.reserved = request[r].reserved
        /\ row.actual = request[r].actual /\ row.used = request[r].used
    BY <1>2 DEF DeskRow
  <2> HIDE DEF row
  <2> QED
    BY <1>1, <1>2, <1>5, <2>1, <2>2, <2>3, SameGrams DEF Ended
<1>6. ASSUME Desk!reject(r) \/ Desk!collect(r) PROVE Settles(r)
  BY <1>5, <1>6 DEF Desk!reject, Desk!collect
<1> QED
  BY <1>3, <1>4, <1>6

(* A start takes from the pool what the row then holds.                    *)
LEMMA StartSettles ==
    ASSUME DeskConstants, DeskInv, Unspent, NEW r \in Orders, NEW m \in Machines,
           NEW minutes \in {request[r].estimated_minutes, 1}, NEW planned \in Desk!Grams,
           Desk!start(r, m, minutes, planned)
    PROVE  Settles(r)
<1> DEFINE estimate == Desk!SnapshotEstimate(r, minutes, planned)
           held == planned > 0
           row == StartRow(request[r], m, estimate, held, planned)
<1>1. /\ request[r].status = "accepted" /\ request' = [request EXCEPT ![r] = row]
      /\ pool' = [pool EXCEPT !.remaining = @ - planned]
      /\ UNCHANGED <<consumable, other>>
  BY DEF Desk!start, Desk!start_on_running, StartRow
<1>2. /\ request[r] \in DeskRow /\ request[r].reserved = 0
      /\ request[r].actual = 0 /\ request[r].used = 0
  BY <1>1, NoGrams DEF Ended
<1>3. row.reserved = planned /\ row.actual = 0 /\ row.used = 0
  <2> HIDE DEF estimate, held
  <2> QED
    BY <1>2 DEF StartRow, DeskRow
<1> HIDE DEF row
<1>4. /\ request'[r] = row /\ \A q \in Orders \ {r} : request'[q] = request[q]
      /\ pool'.remaining = pool.remaining - planned
  BY <1>1 DEF DeskInv, Desk!TypeOK
<1>5. pool.remaining \in Int /\ other \in Int /\ planned \in Int
  BY DeskNumbers DEF Desk!Grams
<1> QED
  BY <1>1, <1>2, <1>3, <1>4, <1>5 DEF Settles

(* A finish gives back what the job held less what it used.                *)
LEMMA FinishSettles ==
    ASSUME DeskConstants, DeskInv, Unspent, NEW r \in Orders, NEW to \in {"completed", "failed"},
           NEW actual \in Desk!Grams, NEW used \in Desk!Grams,
           Desk!finish(r, to, actual, used)
    PROVE  Settles(r)
<1> DEFINE row == [request[r] EXCEPT !.status = to, !.reserved = 0, !.actual = actual,
                                     !.used = used]
<1>1. /\ request[r].status = "in_progress" /\ request' = [request EXCEPT ![r] = row]
      /\ consumable' = consumable - used /\ other' = other
      /\ IF request[r].pooled
         THEN pool' = [pool EXCEPT !.remaining = @ + request[r].reserved - actual]
         ELSE actual = 0 /\ pool' = pool
  BY DEF Desk!finish, Desk!debit_consumptions, Desk!reconcile_request
<1>2. /\ request[r] \in DeskRow /\ request[r].actual = 0 /\ request[r].used = 0
  BY <1>1, NoGrams DEF Ended
<1>3. request[r].reserved > 0 => request[r].pooled
  BY DEF DeskInv, Desk!TypeOK
<1>4. /\ row.status = to /\ row.reserved = 0 /\ row.actual = actual /\ row.used = used
  BY <1>2 DEF DeskRow
<1> HIDE DEF row
<1>5. /\ request'[r] = row /\ \A q \in Orders \ {r} : request'[q] = request[q]
  BY <1>1 DEF DeskInv, Desk!TypeOK
<1>6. /\ pool.remaining \in Int /\ other \in Int /\ consumable \in Int
      /\ actual \in Int /\ used \in Int /\ request[r].reserved \in Nat
  BY <1>2, DeskNumbers DEF Desk!Grams, DeskRow
<1>7. pool'.remaining = pool.remaining + request[r].reserved - actual
  <2>1. CASE request[r].pooled
    BY <1>1, <2>1 DEF DeskInv, Desk!TypeOK
  <2>2. CASE ~ request[r].pooled
    BY <1>1, <1>3, <1>6, <2>2
  <2> QED
    BY <2>1, <2>2
<1> QED
  BY <1>1, <1>2, <1>4, <1>5, <1>6, <1>7 DEF Settles, Ended

(* A reprint is a new row without grams.                                   *)
LEMMA ReprintSettles ==
    ASSUME DeskConstants, DeskInv, Unspent, NEW r \in Orders, NEW child \in Orders,
           Desk!create_reprint(r, child)
    PROVE  Settles(child)
<1> DEFINE root == IF request[r].reprint_of = NoJob THEN r ELSE request[r].reprint_of
           row == Desk!Reprint(r, root)
<1>1. /\ request[child].status = "none" /\ request' = [request EXCEPT ![child] = row]
      /\ UNCHANGED <<pool, consumable, other>>
  BY DEF Desk!create_reprint
<1>2. /\ request[child].reserved = 0 /\ request[child].actual = 0 /\ request[child].used = 0
  BY <1>1, NoGrams DEF Ended
<1>3. row.reserved = 0 /\ row.actual = 0 /\ row.used = 0
  <2> HIDE DEF root
  <2> QED
    BY DEF Desk!Reprint, Desk!Blank
<1> HIDE DEF row
<1>4. request'[child] = row /\ \A q \in Orders \ {child} : request'[q] = request[q]
  BY <1>1 DEF DeskInv, Desk!TypeOK
<1> QED
  BY <1>1, <1>2, <1>3, <1>4 DEF Settles


\* A column's total is an integer.
LEMMA TotalInt ==
    ASSUME IsFiniteSet(Orders), DeskInv, NEW c \in GramColumns
    PROVE  Desk!Total(c) \in Int
<1> DEFINE f == [q \in Orders |-> request[q][c]]
<1>1. \A q \in Orders : request[q][c] \in Int
  <2>1. request \in [Orders -> DeskRow]
    BY DEF DeskInv, Desk!TypeOK, DeskRow, Desk!Grams, Desk!Status
  <2> QED
    BY <2>1 DEF DeskRow, GramColumns, Desk!Grams
<1>2. f \in [Orders -> Int] /\ Desk!Total(c) = SumFunction(f)
  BY <1>1, SameSum DEF Desk!Total
<1> HIDE DEF f
<1> QED
  BY <1>2, SumFunctionType

(* What staff correct or retire is booked outside the requests.            *)
LEMMA StaffBalance ==
    ASSUME DeskConstants, IsFiniteSet(Orders), DeskInv, Desk!MaterialBalance, Unspent,
           \/ \E m \in Machines : \/ \E to \in Desk!MachineStatus : Desk!set_status(m, to)
                                  \/ Desk!retire_machine(m)
                                  \/ Desk!unretire_machine(m)
           \/ \E grams \in Desk!Grams \ {0} : \/ Desk!correct_pool(grams)
                                              \/ Desk!correct_pool(-grams)
                                              \/ Desk!log_typed_manual_usage(grams)
           \/ Desk!retire_pool("reason")
    PROVE  Desk!MaterialBalance' /\ Unspent'
<1>1. request' = request /\ consumable' = consumable
  BY DEF Desk!set_status, Desk!retire_machine, Desk!SetByHand, Desk!unretire_machine,
         Desk!correct_pool, Desk!log_typed_manual_usage, Desk!retire_pool, Desk!Adjust
<1>2. \A c : Desk!Total(c)' = Desk!Total(c)
  BY <1>1 DEF Desk!Total
<1>3. pool.remaining \in Int /\ other \in Int /\ \A grams \in Desk!Grams : grams \in Int
  BY DeskNumbers DEF Desk!Grams
<1>4. \E d \in Int : pool'.remaining = pool.remaining + d /\ other' = other + d
  <2>1. ASSUME NEW m \in Machines, \/ \E to \in Desk!MachineStatus : Desk!set_status(m, to)
                                   \/ Desk!retire_machine(m) \/ Desk!unretire_machine(m)
        PROVE  pool'.remaining = pool.remaining + 0 /\ other' = other + 0
    BY <1>3, <2>1 DEF Desk!set_status, Desk!retire_machine, Desk!SetByHand,
                      Desk!unretire_machine
  <2>2. ASSUME NEW d \in Int, Desk!correct_pool(d)
        PROVE  pool'.remaining = pool.remaining + d /\ other' = other + d
    BY <1>3, <2>2 DEF Desk!correct_pool, Desk!Adjust, DeskInv, Desk!TypeOK
  <2>3. ASSUME NEW g \in Int, Desk!log_typed_manual_usage(g)
        PROVE  pool'.remaining = pool.remaining + (-g) /\ other' = other + (-g)
    BY <1>3, <2>3 DEF Desk!log_typed_manual_usage, Desk!Adjust, DeskInv, Desk!TypeOK
  <2>4. ASSUME Desk!retire_pool("reason")
        PROVE  /\ pool'.remaining = pool.remaining + (-pool.remaining)
               /\ other' = other + (-pool.remaining)
    BY <1>3, <2>4 DEF Desk!retire_pool, Desk!Adjust
  <2>5. \A g \in Int : -g \in Int
    OBVIOUS
  <2> QED
    BY <1>3, <2>1, <2>2, <2>3, <2>4, <2>5
<1>5. PICK d \in Int : pool'.remaining = pool.remaining + d /\ other' = other + d
  BY <1>4
<1> DEFINE R == Desk!Total("reserved")
           A == Desk!Total("actual")
           U == Desk!Total("used")
<1>6. R \in Int /\ A \in Int /\ Initial \in Int
  BY TotalInt, DeskNumbers DEF GramColumns
<1>7. R' = R /\ A' = A /\ U' = U
  BY <1>2
<1>8. pool.remaining + R + A = Initial + other /\ consumable + U = Initial
  BY DEF Desk!MaterialBalance
<1>9. Desk!MaterialBalance' <=> /\ pool'.remaining + R' + A' = Initial + other'
                                /\ consumable' + U' = Initial
  BY DEF Desk!MaterialBalance
<1>10. Unspent'
  BY <1>1 DEF Unspent
<1> HIDE DEF R, A, U
<1>11. pool'.remaining + R + A = Initial + other'
  BY <1>3, <1>5, <1>6, <1>8
<1> QED
  BY <1>1, <1>7, <1>8, <1>9, <1>10, <1>11

LEMMA BalanceInit == ASSUME DeskConstants, IsFiniteSet(Orders)
                     PROVE  Desk!Init => Desk!MaterialBalance /\ Unspent
<1> SUFFICES ASSUME Desk!Init PROVE Desk!MaterialBalance /\ Unspent
  OBVIOUS
<1>1. \A r \in Orders : request[r].reserved = 0 /\ request[r].actual = 0 /\ request[r].used = 0
  BY DEF Desk!Init, Desk!Blank
<1>2. \A c \in GramColumns : Desk!Total(c) = 0
  <2> SUFFICES ASSUME NEW c \in GramColumns PROVE Desk!Total(c) = 0
    OBVIOUS
  <2> DEFINE f == [r \in Orders |-> request[r][c]]
  <2>1. \A r \in Orders : f[r] = 0
    BY <1>1 DEF GramColumns
  <2>2. DOMAIN f = Orders
    OBVIOUS
  <2>3. Desk!Total(c) = SumFunction(f)
    BY SameSum DEF Desk!Total
  <2> HIDE DEF f
  <2> QED
    BY <2>1, <2>2, <2>3, SumZero
<1>3. pool.remaining = Initial /\ consumable = Initial /\ other = 0 /\ Initial \in Int
  BY DEF Desk!Init, DeskConstants
<1>4. Desk!Total("reserved") = 0 /\ Desk!Total("actual") = 0 /\ Desk!Total("used") = 0
  BY <1>2 DEF GramColumns
<1> QED
  BY <1>1, <1>3, <1>4 DEF Desk!MaterialBalance, Unspent

LEMMA BalanceNext ==
    DeskConstants /\ IsFiniteSet(Orders) /\ DeskInv /\ DeskInv' /\ Desk!MaterialBalance /\ Unspent
    /\ [Desk!Next]_Desk!vars => Desk!MaterialBalance' /\ Unspent'
<1> SUFFICES ASSUME DeskConstants, IsFiniteSet(Orders), DeskInv, DeskInv', Desk!MaterialBalance,
                    Unspent, [Desk!Next]_Desk!vars
             PROVE  Desk!MaterialBalance' /\ Unspent'
  OBVIOUS
<1>1. CASE UNCHANGED Desk!vars
  BY <1>1 DEF Desk!vars, Desk!MaterialBalance, Desk!Total, Unspent
<1>2. ASSUME NEW r \in Orders, Settles(r) PROVE Desk!MaterialBalance' /\ Unspent'
  BY <1>2, SettledBalance
<1>3. ASSUME NEW r \in Orders,
             \/ \E m \in Machines \cup {NoMachine} : Desk!submit(r, m)
             \/ \E minutes \in {0, 1} : Desk!accept(r, minutes)
             \/ Desk!reject(r) \/ Desk!collect(r)
      PROVE  Desk!MaterialBalance' /\ Unspent'
  BY <1>2, <1>3, RowSettles
<1>4. ASSUME NEW r \in Orders, NEW m \in Machines,
             NEW minutes \in {request[r].estimated_minutes, 1}, NEW planned \in Desk!Grams,
             Desk!start(r, m, minutes, planned)
      PROVE  Desk!MaterialBalance' /\ Unspent'
  BY <1>2, <1>4, StartSettles
<1>5. ASSUME NEW r \in Orders, NEW to \in {"completed", "failed"}, NEW actual \in Desk!Grams,
             NEW used \in Desk!Grams, Desk!finish(r, to, actual, used)
      PROVE  Desk!MaterialBalance' /\ Unspent'
  BY <1>2, <1>5, FinishSettles
<1>6. ASSUME NEW r \in Orders, NEW child \in Orders, Desk!create_reprint(r, child)
      PROVE  Desk!MaterialBalance' /\ Unspent'
  BY <1>2, <1>6, ReprintSettles
<1>7. CASE Desk!Next
  BY <1>3, <1>4, <1>5, <1>6, <1>7, StaffBalance DEF Desk!Next
<1> QED
  BY <1>1, <1>7

(* The desk's material is accounted for to the gram and its machines take  *)
(* one job each: what remains in the pool, what running jobs hold and what *)
(* ended jobs used are the initial grams and the staff's corrections,      *)
(* however often a job overran, was printed again, or lost its pool        *)
(* (start, reconcile_request, debit_consumptions, retire_pool).            *)
THEOREM JobsAlwaysAccounted == Spec => []JobsAccounted
<1> DEFINE Balanced == part = "desk" => Desk!MaterialBalance /\ Unspent
<1>1. DeskConstants /\ IsFiniteSet(Orders)
  BY DeskAssumption DEF DeskConstants
<1>2. Init => Balanced
  BY <1>1, BalanceInit DEF Init
<1>3. (part = "desk" => DeskInv) /\ (part = "desk" => DeskInv)' /\ Balanced /\ [Next]_vars
         => Balanced'
  BY <1>1, BalanceNext, PartStep
<1>4. (part = "desk" => DeskInv) /\ Balanced => JobsAccounted
  BY DEF DeskInv, JobsAccounted, Desk!JobsAccounted
<1> HIDE DEF Balanced
<1> QED
  BY <1>2, <1>3, <1>4, DeskCorrect, PTL DEF Spec
=============================================================================

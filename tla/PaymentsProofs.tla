--------------------------- MODULE PaymentsProofs ---------------------------
(***************************************************************************)
(* The ledger of one charge keeps ChargePromise for every number of pages  *)
(* raised and of credential changes, and for either vendor.                *)
(***************************************************************************)
EXTENDS Payments, TLAPS

(* A live or paid instrument is the one the row's rail names. *)
OneInstrument ==
    \A i \in Instruments : provider[i] \in {"open", "paid"} =>
        \/ i = Native /\ row.rail = "native"
        \/ i = row.order /\ row.rail = "checkout"

(* What the row says of its rails. *)
RailsExclusive ==
    /\ row.rail # "checkout" => row.order = Nothing
    /\ row.rail = "native" => row.intent = Native
    /\ row.rail = "unclaimed" => row.intent = Nothing
    /\ row.rail # "native" => provider[Native] = "none"
    /\ row.rail = "checkout" =>
          row.intent = Nothing \/ (row.intent # Native /\ row.status = "paid_online")
    /\ row.status = "absent" => \A i \in Instruments : provider[i] = "none"

(* Events tell the truth, now and later: closed and paid are final. *)
EventsTrue ==
    \A e \in events :
        /\ e.kind = "expired" => provider[e.of] = "closed" /\ e.of # Native
        /\ e.kind # "expired" => provider[e.of] = "paid"
        /\ e.kind = "order_paid" => e.of # Native

(* What has been recorded, and from which event. *)
RecordTrue ==
    /\ row.status = "paid_online" => Captured # {}
    /\ \A e \in late : e \in processed /\ e.kind # "expired"
    /\ row.status \notin {"paid_online", "paid_offline", "canceled"} => late = {}
    /\ row.status # "paid_online" =>
         \A e \in late :
            IF row.rail = "native" THEN e = [kind |-> "intent_paid", of |-> Native]
                                   ELSE e.kind = "order_paid"

IndInv == TypeOK /\ OneInstrument /\ RailsExclusive /\ EventsTrue /\ RecordTrue

USE DEF Native, Nothing, Orders, Instruments

(* The initial states satisfy the inductive invariant. *)
LEMMA InitInv == Init => IndInv
  BY BoundsAssumption, VendorsAssumption
  DEF Init, IndInv, TypeOK, Payment, Status, OnlineRail, Event, OneInstrument,
      RailsExclusive, EventsTrue, RecordTrue, Captured

(* Paying, or running out, is the provider's step. *)
LEMMA PayInv ==
    ASSUME IndInv, NEW i \in Instruments, Pay(i)
    PROVE  IndInv'
<1> USE BoundsAssumption DEF IndInv, Pay, emit
<1>1. TypeOK'
  BY DEF TypeOK, Payment, Event
<1>2. OneInstrument' /\ RailsExclusive'
  BY DEF TypeOK, Payment, OneInstrument, RailsExclusive
<1>3. EventsTrue'
  BY <1>1 DEF TypeOK, Event, EventsTrue, OneInstrument
<1>4. RecordTrue'
  BY DEF TypeOK, RecordTrue, Captured
<1>5. QED
  BY <1>1, <1>2, <1>3, <1>4

LEMMA LapseInv ==
    ASSUME IndInv, NEW i \in Instruments, Lapse(i)
    PROVE  IndInv'
<1> USE BoundsAssumption DEF IndInv, Lapse, emit
<1>1. TypeOK'
  BY DEF TypeOK, Payment, Event
<1>2. OneInstrument' /\ RailsExclusive'
  BY DEF TypeOK, Payment, OneInstrument, RailsExclusive
<1>3. EventsTrue'
  BY <1>1 DEF TypeOK, Event, EventsTrue, OneInstrument
<1>4. RecordTrue'
  BY DEF TypeOK, RecordTrue, Captured
<1>5. QED
  BY <1>1, <1>2, <1>3, <1>4

(* Raising the charge and taking it online. *)
LEMMA CreateInv ==
    ASSUME IndInv, create_payment
    PROVE  IndInv'
  BY BoundsAssumption
  DEF IndInv, create_payment, TypeOK, Payment, Status, OneInstrument,
      RailsExclusive, EventsTrue, RecordTrue, Captured

LEMMA CheckoutInv ==
    ASSUME IndInv, NEW i \in Orders, create_checkout_url(i)
    PROVE  IndInv'
<1> USE BoundsAssumption DEF IndInv, create_checkout_url, Raised
<1>1. TypeOK'
  BY DEF TypeOK, Payment, OnlineRail
<1>2. OneInstrument' /\ RailsExclusive'
  BY DEF TypeOK, Payment, OnlineRail, OneInstrument, RailsExclusive
<1>3. EventsTrue'
  BY DEF TypeOK, Event, EventsTrue
<1>4. RecordTrue'
  BY DEF TypeOK, Payment, RecordTrue, Captured
<1>5. QED
  BY <1>1, <1>2, <1>3, <1>4

LEMMA MobileInv ==
    ASSUME IndInv, create_mobile_intent
    PROVE  IndInv'
<1> USE BoundsAssumption DEF IndInv, create_mobile_intent
<1>0. provider[Native] = "none" /\ Native \in Instruments
  BY DEF TypeOK, Payment, OnlineRail, RailsExclusive
<1>1. TypeOK'
  BY <1>0 DEF TypeOK, Payment, OnlineRail
<1>2. OneInstrument' /\ RailsExclusive'
  BY DEF TypeOK, Payment, OnlineRail, OneInstrument, RailsExclusive
<1>3. EventsTrue'
  BY <1>0 DEF TypeOK, Event, EventsTrue
<1>4. RecordTrue'
  BY DEF TypeOK, Payment, RecordTrue, Captured
<1>5. QED
  BY <1>1, <1>2, <1>3, <1>4

(* A settlement by staff, with whatever came of the vendor call. *)
LEMMA SettleInv ==
    ASSUME IndInv, row.status = "pending",
           NEW target \in {"paid_offline", "waived", "canceled"},
           NEW reached \in BOOLEAN,
           _expire_checkout_best_effort(target, reached),
           UNCHANGED <<signer, key, processed, late, refunds>>
    PROVE  IndInv' /\ Captured' = Captured
<1> USE BoundsAssumption DEF IndInv
<1> DEFINE i == LiveInstrument
           asked == i # Nothing /\ reached /\ signer[i] = key
           closes == asked /\ provider[i] = "open"
<1>1. i \in Instruments \cup {Nothing}
  BY DEF LiveInstrument, TypeOK, Payment
<1>2. /\ provider' = IF closes THEN [provider EXCEPT ![i] = "closed"] ELSE provider
      /\ \/ events' = events /\ unacked' = unacked
         \/ /\ closes /\ i # Native
            /\ events' = events \cup [kind : {"expired"}, of : {i}]
            /\ unacked' = unacked \cup [kind : {"expired"}, of : {i}]
      /\ \E b \in BOOLEAN : row' = [row EXCEPT !.status = target, !.expired = b]
  <2>1. ASSUME NEW b PROVE (row.expired \/ b) \in BOOLEAN
    OBVIOUS
  <2>2. QED
    BY <2>1 DEF _expire_checkout_best_effort, emit
<1> HIDE DEF i
<1>3. PICK b \in BOOLEAN : row' = [row EXCEPT !.status = target, !.expired = b]
  BY <1>2
<1>4. TypeOK'
  BY <1>1, <1>2, <1>3 DEF TypeOK, Payment, Status, Event
<1>5. OneInstrument' /\ RailsExclusive'
  BY <1>1, <1>2, <1>3 DEF TypeOK, Payment, OneInstrument, RailsExclusive
<1>6. EventsTrue'
  BY <1>1, <1>2, <1>4 DEF TypeOK, Event, EventsTrue
<1>7. Captured' = Captured
  BY <1>1, <1>2 DEF TypeOK, Captured
<1>8. RecordTrue'
  BY <1>3, <1>7 DEF TypeOK, Payment, RecordTrue
<1>9. QED
  BY <1>4, <1>5, <1>6, <1>7, <1>8

(* Forgetting a closed page leaves a well-formed row. *)
LEMMA ClosedRow == row \in Payment => CloseCheckout \in Payment
  BY BoundsAssumption DEF Payment, CloseCheckout

(* Replacing credentials clears a page only when the vendor has closed it. *)
LEMMA SettingsInv ==
    ASSUME IndInv, update_payment_settings
    PROVE  IndInv' /\ Captured' = Captured
<1> USE BoundsAssumption
    DEF IndInv, update_payment_settings, _potentially_live_sessions_exist,
        CloseCheckout
<1>1. TypeOK'
  <2>1. row' \in Payment
    BY ClosedRow DEF TypeOK
  <2>2. key' \in Nat
    BY DEF TypeOK
  <2>3. QED
    BY <2>1, <2>2 DEF TypeOK
<1>2. OneInstrument' /\ RailsExclusive'
  BY DEF TypeOK, Payment, OneInstrument, RailsExclusive
<1>3. EventsTrue' /\ RecordTrue' /\ Captured' = Captured
  BY DEF TypeOK, Payment, EventsTrue, RecordTrue, Captured
<1>4. QED
  BY <1>1, <1>2, <1>3

(* A webhook that finds its row, has not been seen, and tells of money. *)
Settling(e) ==
    /\ Matches(e) /\ e \notin processed /\ e.kind # "expired"

(* The instrument behind an event is the one the row is about. *)
LEMMA PaidEventInstrument ==
    ASSUME IndInv, NEW e \in events, Settling(e)
    PROVE  /\ e.of \in Captured
           /\ \/ row.rail = "native" /\ e = [kind |-> "intent_paid", of |-> Native]
              \/ row.rail = "checkout" /\ e.of = row.order /\ e.of # Native
<1> USE BoundsAssumption DEF IndInv, Settling
<1>1. e \in Event /\ e.kind \in {"order_paid", "intent_paid"}
  BY DEF TypeOK, Event
<1>2. provider[e.of] = "paid" /\ e.of \in Instruments
  BY <1>1 DEF EventsTrue, Event
<1>3. \/ e.of = Native /\ row.rail = "native"
      \/ e.of = row.order /\ row.rail = "checkout"
  BY <1>2 DEF OneInstrument
<1>4. e.of = Native => e.kind = "intent_paid"
  BY <1>1 DEF EventsTrue
<1>5. ASSUME e.of = Native PROVE e = [kind |-> "intent_paid", of |-> Native]
  BY <1>1, <1>4, <1>5 DEF Event
<1>6. row.order # Native
  BY DEF TypeOK, Payment
<1>7. QED
  BY <1>2, <1>3, <1>5, <1>6 DEF Captured

(* In a row that is not yet paid online, nothing has been recorded before: *)
(* the one event that can still match is the one that was recorded.        *)
LEMMA FirstRecord ==
    ASSUME IndInv, NEW e \in events, Settling(e), row.status # "paid_online"
    PROVE  late = {}
<1> USE DEF IndInv
<1>1. SUFFICES ASSUME NEW f \in late PROVE FALSE
  OBVIOUS
<1>2. CASE row.rail = "native"
  BY <1>1, <1>2, PaidEventInstrument DEF RecordTrue, Settling
<1>3. CASE row.rail # "native"
  <2>1. row.rail = "checkout" /\ e.of = row.order /\ e.of # Native
    BY <1>3, PaidEventInstrument
  <2>2. row.intent = Nothing
    BY <2>1 DEF RailsExclusive
  <2>3. e.kind = "order_paid"
    BY <2>1, <2>2, BoundsAssumption DEF Settling, Matches, TypeOK, Event, EventsTrue
  <2>4. f.kind = "order_paid" /\ f \in processed /\ f \in events
    BY <1>1, <1>3 DEF RecordTrue, TypeOK
  <2>5. provider[f.of] = "paid" /\ f.of \in Instruments /\ f.of # Native
    BY <2>4 DEF EventsTrue, TypeOK, Event
  <2>6. f.of = row.order
    BY <2>1, <2>5 DEF OneInstrument
  <2>7. f = e
    BY <2>1, <2>3, <2>4, <2>6 DEF TypeOK, Event
  <2>8. QED
    BY <2>4, <2>7 DEF Settling
<1>4. QED
  BY <1>2, <1>3

(* A webhook, whatever it tells, whenever it arrives. *)
LEMMA WebhookInv ==
    ASSUME IndInv, NEW e \in events, WebhookView(e)
    PROVE  IndInv'
<1> USE BoundsAssumption DEF IndInv
<1>0. /\ UNCHANGED <<provider, signer, key, events>> /\ unacked' = unacked \ {e}
      /\ apply_webhook_event(e)
  BY DEF WebhookView
<1>1. Captured' = Captured
  BY <1>0 DEF Captured
<1>2. CASE ~Matches(e) \/ e \in processed
  <2>1. UNCHANGED <<row, processed, late, refunds>>
    BY <1>0, <1>2 DEF apply_webhook_event
  <2>2. QED
    BY <1>0, <1>1, <2>1 DEF TypeOK, OneInstrument, RailsExclusive, EventsTrue,
                            RecordTrue
<1>3. CASE Matches(e) /\ e \notin processed /\ e.kind = "expired"
  <2>1. /\ row' = CloseCheckout /\ UNCHANGED <<late, refunds>>
        /\ processed' = processed \cup {e}
    BY <1>0, <1>3 DEF apply_webhook_event
  <2>2. row.order = e.of /\ provider[e.of] = "closed" /\ e.of # Native
    BY <1>3 DEF Matches, EventsTrue
  <2>3. TypeOK'
    BY <1>0, <2>1, ClosedRow DEF TypeOK
  <2>4. OneInstrument' /\ RailsExclusive' /\ RecordTrue'
    BY <1>0, <1>1, <2>1, <2>2
    DEF TypeOK, Payment, CloseCheckout, OneInstrument, RailsExclusive, RecordTrue
  <2>5. QED
    BY <1>0, <2>3, <2>4 DEF EventsTrue
<1>4. CASE Settling(e)
  <2>1. /\ processed' = processed \cup {e}
        /\ IF row.status = "pending"
           THEN row' = Paid(e, row) /\ UNCHANGED <<late, refunds>>
           ELSE handle_paid_after_terminal(e)
    BY <1>0, <1>4 DEF apply_webhook_event, Settling
  <2>a. /\ row.status \notin {"pending", "waived"} => row' = row
        /\ row.status \in {"pending", "waived"} =>
              row' \in {Paid(e, row), [row EXCEPT !.status = "paid_online"]}
        /\ row.status = "pending" => row' = Paid(e, row) /\ late' = late
        /\ row.status # "pending" => late' = late \cup {e}
        /\ refunds' \in {refunds, refunds + 1}
    <3>1. CASE row.status = "pending"
      BY <2>1, <3>1
    <3>2. CASE row.status # "pending"
      <4>1. /\ row' = IF row.status # "waived" THEN row
                      ELSE IF row.vendor = "stripe" THEN Paid(e, row)
                      ELSE [row EXCEPT !.status = "paid_online"]
            /\ late' = late \cup {e}
            /\ refunds' = IF row.status = "paid_offline" THEN refunds + 1 ELSE refunds
        BY <2>1, <3>2 DEF handle_paid_after_terminal
      <4>2. row.status # "waived" => row' = row
        BY <4>1
      <4>3. row.status = "waived" =>
              row' \in {Paid(e, row), [row EXCEPT !.status = "paid_online"]}
        BY <4>1
      <4>4. QED
        BY <3>2, <4>1, <4>2, <4>3
    <3>3. QED
      BY <3>1, <3>2
  <2>2. e.of \in Instruments /\ e \in Event
    BY DEF TypeOK, Event
  <2>3. TypeOK'
    <3>1. row' \in Payment
      BY <2>a, <2>2, ZenonT(60) DEF TypeOK, Payment, Paid, Status
    <3>2. refunds' \in Nat
      BY <2>a DEF TypeOK
    <3>3. QED
      BY <1>0, <2>1, <2>a, <3>1, <3>2 DEF TypeOK
  <2>4. OneInstrument' /\ RailsExclusive'
    <3>1. row.rail = "native" => e.of = Native
      BY <1>4, PaidEventInstrument
    <3>2. row.rail # "native" => e.of # Native /\ row.rail = "checkout"
      BY <1>4, PaidEventInstrument
    <3>3. CASE row' = row
      BY <1>0, <3>3 DEF OneInstrument, RailsExclusive
    <3>4. CASE row' \in {Paid(e, row), [row EXCEPT !.status = "paid_online"]}
      <4>1. /\ row'.rail = row.rail /\ row'.order = row.order
            /\ row'.status = "paid_online" /\ row'.intent \in {row.intent, e.of}
        BY <3>4 DEF TypeOK, Payment, Paid
      <4>2. OneInstrument'
        BY <1>0, <4>1 DEF OneInstrument
      <4>3. RailsExclusive'
        BY <1>0, <3>1, <3>2, <4>1 DEF RailsExclusive
      <4>4. QED
        BY <4>2, <4>3
    <3>5. QED
      BY <2>a, <3>3, <3>4
  <2>5. RecordTrue'
    <3>1. (row.status # "paid_online" => late = {}) /\ Captured # {}
      BY <1>4, FirstRecord, PaidEventInstrument
    <3>2. row.status \notin {"paid_online", "waived", "pending"} =>
            /\ row' = row
            /\ row.rail # "native" => row.intent = Nothing
      BY <2>a, <1>4, PaidEventInstrument DEF RailsExclusive
    <3>3. (row.intent = Nothing /\ row.rail # "native") => e.kind = "order_paid"
      BY <1>4, <2>2 DEF Settling, Matches, Event
    <3>4. row.status \in {"pending", "waived", "paid_online"} =>
            row'.status = "paid_online"
      BY <2>a DEF TypeOK, Payment, Paid
    <3>5. row.status # "absent"
      BY <3>1 DEF RailsExclusive, Captured
    <3>6. CASE row.status \in {"pending", "waived", "paid_online"}
      BY <1>1, <1>4, <2>1, <2>a, <3>1, <3>4, <3>6 DEF RecordTrue, Settling
    <3>7. CASE row.status \in {"paid_offline", "canceled"}
      BY <1>1, <1>4, <2>1, <2>a, <3>1, <3>2, <3>3, <3>7, PaidEventInstrument
      DEF RecordTrue, Settling
    <3>8. QED
      BY <3>5, <3>6, <3>7 DEF TypeOK, Payment, Status
  <2>6. QED
    BY <1>0, <2>3, <2>4, <2>5 DEF EventsTrue
<1>5. QED
  BY <1>2, <1>3, <1>4 DEF Settling

(* Every step keeps the inductive invariant. *)
LEMMA NextInv == IndInv /\ [Next]_vars => IndInv'
<1> SUFFICES ASSUME IndInv, [Next]_vars PROVE IndInv'
  OBVIOUS
<1>1. CASE UNCHANGED vars
  BY <1>1 DEF vars, IndInv, TypeOK, OneInstrument, RailsExclusive, EventsTrue,
              RecordTrue, Captured
<1>2. CASE Next
  <2>1. CASE create_payment \/ create_mobile_intent \/ update_payment_settings
    BY <2>1, CreateInv, MobileInv, SettingsInv
  <2>2. CASE \E i \in Instruments : Pay(i) \/ Lapse(i)
    BY <2>2, PayInv, LapseInv
  <2>3. CASE \E i \in Orders : create_checkout_url(i)
    BY <2>3, CheckoutInv
  <2>4. ASSUME NEW reached \in BOOLEAN, cancel_pending(reached) PROVE IndInv'
    BY <2>4, SettleInv DEF cancel_pending
  <2>5. ASSUME NEW reached \in BOOLEAN, NEW target \in {"paid_offline", "waived"},
               reconcile_payments(target, reached)
        PROVE  IndInv'
    BY <2>5, SettleInv DEF reconcile_payments
  <2>6. CASE \E e \in events : WebhookView(e)
    BY <2>6, WebhookInv
  <2>7. QED
    BY <1>2, <2>1, <2>2, <2>3, <2>4, <2>5, <2>6 DEF Next
<1>3. QED
  BY <1>1, <1>2

THEOREM AlwaysInv == Spec => []IndInv
  BY InitInv, NextInv, PTL DEF Spec

(* The webhook of every live or paid instrument will find its row, however *)
(* many pages were raised and credentials replaced (apply_webhook_event).  *)
THEOREM SpecTraceable == Spec => []Traceable
<1>1. IndInv => Traceable
  BY DEF IndInv, OneInstrument, RailsExclusive, Traceable
<1>2. QED
  BY AlwaysInv, <1>1, PTL

(* Captured money and recorded money, before any payment. *)
LEMMA InitPromise == Init => Promise!Init
  BY DEF Init, Promise!Init, Captured, Recorded

(* A step that leaves row status, money and record alone is invisible. *)
LEMMA Invisible ==
    ASSUME row'.status = row.status, Captured' = Captured,
           late' = late, refunds' = refunds
    PROVE  UNCHANGED Promise!promiseVars
  BY DEF Promise!promiseVars, Recorded

(* Paying is the capture of a charge that had captured nothing. *)
LEMMA PayPromise ==
    ASSUME IndInv, NEW i \in Instruments, Pay(i)
    PROVE  Promise!Capture
<1> USE BoundsAssumption DEF IndInv, Pay
<1>1. Captured = {}
  BY DEF TypeOK, Payment, OneInstrument, RailsExclusive, Captured
<1>2. Captured' = {i}
  BY <1>1 DEF TypeOK, Captured
<1>3. row.status # "absent"
  BY DEF RailsExclusive
<1>4. QED
  BY <1>1, <1>2, <1>3 DEF Promise!Capture, Recorded

(* The first webhook that settles is the ledger's learning of the money. *)
LEMMA WebhookPromise ==
    ASSUME IndInv, NEW e \in events, WebhookView(e)
    PROVE  Promise!Learn \/ UNCHANGED Promise!promiseVars
<1> USE DEF IndInv
<1>0. Captured' = Captured /\ apply_webhook_event(e)
  BY DEF WebhookView, Captured
<1>1. CASE ~Settling(e)
  <2>1. /\ row' = row \/ row' = CloseCheckout
        /\ late' = late /\ refunds' = refunds
    BY <1>0, <1>1 DEF Settling, apply_webhook_event
  <2>2. row'.status = row.status
    BY <2>1 DEF TypeOK, Payment, CloseCheckout
  <2>3. QED
    BY <1>0, <2>1, <2>2, Invisible
<1>2. CASE Settling(e) /\ row.status = "pending"
  <2>1. row' = Paid(e, row) /\ late' = late /\ refunds' = refunds
    BY <1>0, <1>2 DEF Settling, apply_webhook_event
  <2>2. row'.status = "paid_online"
    BY <2>1 DEF TypeOK, Payment, Paid
  <2>3. late = {} /\ Captured # {}
    BY <1>2, FirstRecord, PaidEventInstrument
  <2>4. QED
    BY <1>0, <1>2, <2>1, <2>2, <2>3 DEF Promise!Learn, Recorded
<1>3. CASE Settling(e) /\ row.status # "pending"
  <2>1. handle_paid_after_terminal(e)
    BY <1>0, <1>3 DEF Settling, apply_webhook_event
  <2>2. late' = late \cup {e} /\ late' # {}
    BY <2>1 DEF handle_paid_after_terminal
  <2>3. CASE row.status = "paid_online"
    BY <1>0, <2>1, <2>2, <2>3
    DEF handle_paid_after_terminal, Promise!promiseVars, Recorded
  <2>4. CASE row.status # "paid_online"
    <3>1. late = {} /\ Captured # {}
      BY <1>3, <2>4, FirstRecord, PaidEventInstrument
    <3>2. row'.status = IF row.status = "waived" THEN "paid_online" ELSE row.status
      BY <2>1 DEF handle_paid_after_terminal, TypeOK, Payment, Paid
    <3>3. refunds' = IF row.status = "paid_offline" THEN refunds + 1 ELSE refunds
      BY <2>1 DEF handle_paid_after_terminal
    <3>4. QED
      BY <1>0, <1>3, <2>2, <2>4, <3>1, <3>2, <3>3 DEF Promise!Learn, Recorded
  <2>5. QED
    BY <2>3, <2>4
<1>4. QED
  BY <1>1, <1>2, <1>3

(* A settlement by staff is the promise's decision. *)
LEMMA SettlePromise ==
    ASSUME IndInv, row.status = "pending",
           NEW target \in {"paid_offline", "waived", "canceled"},
           NEW reached \in BOOLEAN,
           _expire_checkout_best_effort(target, reached),
           UNCHANGED <<signer, key, processed, late, refunds>>
    PROVE  Promise!Decide
<1>1. Captured' = Captured
  BY SettleInv
<1>2. row'.status = target
  BY DEF _expire_checkout_best_effort, IndInv, TypeOK, Payment
<1>3. QED
  BY <1>1, <1>2 DEF Promise!Decide, Recorded

LEMMA StepPromise ==
    IndInv /\ [Next]_vars => [Promise!Next]_(Promise!promiseVars)
<1> SUFFICES ASSUME IndInv, [Next]_vars
             PROVE  Promise!Next \/ UNCHANGED Promise!promiseVars
  OBVIOUS
<1> USE BoundsAssumption
<1>1. CASE UNCHANGED vars
  BY <1>1, Invisible DEF vars, Captured
<1>2. CASE Next
  <2>1. CASE create_payment
    BY <2>1 DEF create_payment, Promise!Next, Promise!Raise, Captured, Recorded,
                IndInv, TypeOK, Payment
  <2>2. CASE create_mobile_intent
    <3>1. row'.status = row.status /\ late' = late /\ refunds' = refunds
      BY <2>2 DEF create_mobile_intent, IndInv, TypeOK, Payment
    <3>2. provider[Native] = "none"
      BY <2>2 DEF create_mobile_intent, IndInv, TypeOK, Payment, OnlineRail,
                  RailsExclusive
    <3>3. Captured' = Captured
      BY <2>2, <3>2 DEF create_mobile_intent, IndInv, TypeOK, Captured
    <3>4. QED
      BY <3>1, <3>3, Invisible
  <2>3. CASE update_payment_settings
    <3>1. row'.status = row.status /\ late' = late /\ refunds' = refunds
      BY <2>3 DEF update_payment_settings, CloseCheckout, IndInv, TypeOK, Payment
    <3>2. QED
      BY <2>3, <3>1, SettingsInv, Invisible
  <2>4. ASSUME NEW i \in Instruments, Pay(i) PROVE Promise!Next
    BY <2>4, PayPromise DEF Promise!Next
  <2>5. ASSUME NEW i \in Instruments, Lapse(i)
        PROVE  UNCHANGED Promise!promiseVars
    <3>1. Captured' = Captured
      BY <2>5 DEF Lapse, IndInv, TypeOK, Captured
    <3>2. QED
      BY <2>5, <3>1, Invisible DEF Lapse
  <2>6. ASSUME NEW i \in Orders, create_checkout_url(i)
        PROVE  UNCHANGED Promise!promiseVars
    <3>1. row'.status = row.status /\ late' = late /\ refunds' = refunds
      BY <2>6 DEF create_checkout_url, IndInv, TypeOK, Payment
    <3>2. Captured' = Captured
      BY <2>6 DEF create_checkout_url, Raised, IndInv, TypeOK, Captured
    <3>3. QED
      BY <3>1, <3>2, Invisible
  <2>7. ASSUME NEW reached \in BOOLEAN, cancel_pending(reached) PROVE Promise!Next
    BY <2>7, SettlePromise DEF cancel_pending, Promise!Next
  <2>8. ASSUME NEW reached \in BOOLEAN, NEW target \in {"paid_offline", "waived"},
               reconcile_payments(target, reached)
        PROVE  Promise!Next
    BY <2>8, SettlePromise DEF reconcile_payments, Promise!Next
  <2>9. CASE \E e \in events : WebhookView(e)
    BY <2>9, WebhookPromise DEF Promise!Next
  <2>10. QED
    BY <1>2, <2>1, <2>2, <2>3, <2>4, <2>5, <2>6, <2>7, <2>8, <2>9 DEF Next
<1>3. QED
  BY <1>1, <1>2

(* Every behaviour of the payment code is one the promise allows: charged  *)
(* at most once, recorded once, refunds asked for once                     *)
(* (services_webhooks.py, terminal_settlement.py, reconciliation.py).      *)
THEOREM Refinement == Spec => ImplementsPromise
<1>1. Init => Promise!Init
  BY InitPromise
<1>2. QED
  BY <1>1, AlwaysInv, StepPromise, PTL DEF Spec, ImplementsPromise, Promise!Spec
=============================================================================

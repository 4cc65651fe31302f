------------------------------ MODULE Payments ------------------------------
(***************************************************************************)
(* One Payment row of a makerspace, the provider that takes the money, and *)
(* the webhooks that tell the ledger about it.  The provider delivers each *)
(* event at least once and in any order; a delivery that is not answered   *)
(* with 200 is retried, and one that was may be repeated.  Staff settle,   *)
(* waive or cancel the row while the payer has a page open; the vendor     *)
(* call that should close that page may fail.  The makerspace's            *)
(* credentials may be replaced by those of another account.                *)
(*                                                                         *)
(* Instrument 0 is the native PaymentIntent, 1..MaxOrders are the hosted   *)
(* pages (Stripe Checkout Sessions, Razorpay Payment Links) raised for the *)
(* row one after another.  Row locks make every handler atomic, the vendor *)
(* call inside it included: its transaction commits only after the call.   *)
(***************************************************************************)
EXTENDS Integers

CONSTANTS
    Vendors,     \* vendors a makerspace may have selected
    MaxOrders,   \* bound: hosted pages raised for the row
    MaxKeys      \* bound: replacements of the provider credentials

ASSUME VendorsAssumption == Vendors \subseteq {"stripe", "razorpay"}
ASSUME BoundsAssumption == MaxOrders \in Nat /\ MaxKeys \in Nat

VARIABLES
    row,        \* the Payment row
    provider,   \* provider[i]: the provider's state of instrument i
    signer,     \* signer[i]: credentials whose account owns instrument i
    key,        \* the makerspace's current credentials
    events,     \* webhook events the provider has emitted
    unacked,    \* those it has not had a 200 for
    processed,  \* ProcessedStripeEvent rows
    late,       \* events audited as payment.paid_after_terminal
    refunds     \* payment.double_paid_refund_required audits

vars == <<row, provider, signer, key, events, unacked, processed, late, refunds>>

Native == 0
Nothing == -1
Orders == 1..MaxOrders
Instruments == 0..MaxOrders

Status == {"absent", "pending", "paid_online", "paid_offline", "waived",
           "canceled"}
OnlineRail == {"unclaimed", "checkout", "native"}

Event == [kind : {"order_paid", "intent_paid", "expired"}, of : Instruments]

Payment == [vendor  : Vendors,                     \* stamped for good
            status  : Status,
            rail    : OnlineRail,
            order   : Orders \cup {Nothing},       \* session id and its URL
            intent  : Instruments \cup {Nothing},  \* the payment's own id
            expired : BOOLEAN]                     \* checkout_session_expired_at

TypeOK ==
    /\ row \in Payment
    /\ provider \in [Instruments -> {"none", "open", "paid", "closed"}]
    /\ signer \in [Instruments -> Nat]
    /\ key \in Nat
    /\ events \subseteq Event
    /\ unacked \subseteq events
    /\ processed \subseteq events
    /\ late \subseteq events
    /\ refunds \in Nat

Init ==
    /\ \E v \in Vendors :
         row = [vendor |-> v, status |-> "absent", rail |-> "unclaimed",
                order |-> Nothing, intent |-> Nothing, expired |-> FALSE]
    /\ provider = [i \in Instruments |-> "none"]
    /\ signer = [i \in Instruments |-> 0]
    /\ key = 0
    /\ events = {} /\ unacked = {} /\ processed = {} /\ late = {}
    /\ refunds = 0

------------------------------------------------------------------------------
(* The provider. *)

emit(kinds, i) ==
    LET new == [kind : kinds, of : {i}]
    IN  events' = events \cup new /\ unacked' = unacked \cup new

(* The member pays the page or the intent they hold.  A hosted page emits  *)
(* an event for the page and one for the payment behind it.                *)
Pay(i) ==
    /\ provider[i] = "open"
    /\ provider' = [provider EXCEPT ![i] = "paid"]
    /\ emit(IF i = Native THEN {"intent_paid"} ELSE {"order_paid", "intent_paid"}, i)
    /\ UNCHANGED <<row, signer, key, processed, late, refunds>>

(* A Checkout Session runs out; a Payment Link has no expiry. *)
Lapse(i) ==
    /\ row.vendor = "stripe" /\ i # Native
    /\ provider[i] = "open"
    /\ provider' = [provider EXCEPT ![i] = "closed"]
    /\ emit({"expired"}, i)
    /\ UNCHANGED <<row, signer, key, processed, late, refunds>>

------------------------------------------------------------------------------
(* Raising a charge and taking it online. *)

create_payment ==
    /\ row.status = "absent"
    /\ row' = [row EXCEPT !.status = "pending"]
    /\ UNCHANGED <<provider, signer, key, events, unacked, processed, late, refunds>>

Raised(i) == provider[i] # "none"

\* Mutant: opens a page beside the one that is live.
create_checkout_url_fresh(i) ==
    /\ row.status = "pending" /\ row.rail # "native"
    /\ ~Raised(i) /\ \A j \in 1..(i - 1) : Raised(j)
    /\ provider' = [provider EXCEPT ![i] = "open"]
    /\ signer' = [signer EXCEPT ![i] = key]
    /\ row' = [row EXCEPT !.rail = "checkout", !.order = i, !.expired = FALSE]
    /\ UNCHANGED <<key, events, unacked, processed, late, refunds>>

(* A pending row without a page gets one; a row that has one keeps it.     *)
create_checkout_url(i) ==
    /\ row.status = "pending"
    /\ row.rail # "native"
    /\ row.order = Nothing
    /\ ~Raised(i) /\ \A j \in 1..(i - 1) : Raised(j)
    /\ provider' = [provider EXCEPT ![i] = "open"]
    /\ signer' = [signer EXCEPT ![i] = key]
    /\ row' = [row EXCEPT !.rail = "checkout", !.order = i, !.expired = FALSE]
    /\ UNCHANGED <<key, events, unacked, processed, late, refunds>>

(* Retrieving the intent of an earlier call changes nothing. *)
create_mobile_intent ==
    /\ row.vendor = "stripe"
    /\ row.status = "pending"
    /\ row.rail # "checkout"
    /\ row.intent = Nothing
    /\ provider' = [provider EXCEPT ![Native] = "open"]
    /\ signer' = [signer EXCEPT ![Native] = key]
    /\ row' = [row EXCEPT !.rail = "native", !.intent = Native]
    /\ UNCHANGED <<key, events, unacked, processed, late, refunds>>

------------------------------------------------------------------------------
(* Staff settle the row another way. *)

(* The instrument a settlement tries to close, if any. *)
LiveInstrument ==
    IF row.rail = "native" /\ row.intent # Nothing THEN row.intent
    ELSE IF row.order # Nothing /\ ~row.expired THEN row.order
    ELSE Nothing

(* The vendor call: refused for foreign credentials, free to fail.  A page *)
(* counts as expired when the vendor says so; a Payment Link always does.  *)
_expire_checkout_best_effort(target, reached) ==
    LET i      == LiveInstrument
        asked  == i # Nothing /\ reached /\ signer[i] = key
        closes == asked /\ provider[i] = "open"
        gone   == asked /\ provider[i] \in {"open", "closed"}
    IN  /\ provider' = IF closes THEN [provider EXCEPT ![i] = "closed"] ELSE provider
        /\ IF closes /\ i # Native /\ row.vendor = "stripe"
           THEN emit({"expired"}, i)
           ELSE UNCHANGED <<events, unacked>>
        /\ row' = [row EXCEPT
                     !.status = target,
                     !.expired = \/ @
                                 \/ /\ i \in Orders
                                    /\ gone \/ row.vendor = "razorpay"]

reconcile_payments(target, reached) ==
    /\ row.status = "pending"
    /\ target \in {"paid_offline", "waived"}
    /\ _expire_checkout_best_effort(target, reached)
    /\ UNCHANGED <<signer, key, processed, late, refunds>>

cancel_pending(reached) ==
    /\ row.status = "pending"
    /\ _expire_checkout_best_effort("canceled", reached)
    /\ UNCHANGED <<signer, key, processed, late, refunds>>

------------------------------------------------------------------------------
(* Webhooks. *)

Matches(e) ==
    \/ e.kind \in {"order_paid", "expired"} /\ row.order = e.of
    \/ e.kind \in {"order_paid", "intent_paid"} /\ row.intent = e.of

(* The page is gone: the row may be given another. *)
CloseCheckout == [row EXCEPT !.order = Nothing, !.expired = TRUE]

(* The id of the payment is learnt with the money, where the code keeps it *)
Paid(e, r) == [r EXCEPT !.status = "paid_online", !.intent = e.of]

handle_paid_after_terminal(e) ==
    /\ row' = IF row.status # "waived" THEN row
              ELSE IF row.vendor = "stripe" THEN Paid(e, row)
              ELSE [row EXCEPT !.status = "paid_online"]
    /\ late' = late \cup {e}
    /\ refunds' = IF row.status = "paid_offline" THEN refunds + 1 ELSE refunds

\* Mutant: a payment of a settled row is ignored.
apply_webhook_event_drops_late(e) ==
    IF ~Matches(e) \/ e \in processed \/ row.status # "pending"
    THEN UNCHANGED <<row, processed, late, refunds>>
    ELSE /\ processed' = processed \cup {e}
         /\ row' = IF e.kind = "expired" THEN CloseCheckout ELSE Paid(e, row)
         /\ UNCHANGED <<late, refunds>>

apply_webhook_event(e) ==
    IF ~Matches(e) \/ e \in processed
    THEN UNCHANGED <<row, processed, late, refunds>>
    ELSE /\ processed' = processed \cup {e}
         /\ IF e.kind = "expired"
            THEN row' = CloseCheckout /\ UNCHANGED <<late, refunds>>
            ELSE IF row.status # "pending"
            THEN handle_paid_after_terminal(e)
            ELSE row' = Paid(e, row) /\ UNCHANGED <<late, refunds>>

(* A delivery signed by another account's secret is answered with 400 and  *)
(* changes nothing; the provider will try again.                           *)
WebhookView(e) ==
    /\ e \in events
    /\ signer[e.of] = key
    /\ apply_webhook_event(e)
    /\ unacked' = unacked \ {e}
    /\ UNCHANGED <<provider, signer, key, events>>

------------------------------------------------------------------------------
(* Replacing the Stripe credentials. *)

\* Mutant: takes a completed page for a dead one.
_potentially_live_sessions_exist_complete ==
    /\ row.order # Nothing /\ ~row.expired /\ row.status # "paid_online"
    /\ ~(signer[row.order] = key /\ provider[row.order] \in {"closed", "paid"})

(* A page that may still be paid, or that Stripe does not confirm expired. *)
_potentially_live_sessions_exist ==
    /\ row.order # Nothing /\ ~row.expired /\ row.status # "paid_online"
    /\ ~(signer[row.order] = key /\ provider[row.order] = "closed")

update_payment_settings ==
    /\ row.vendor = "stripe"
    /\ key < MaxKeys
    /\ ~_potentially_live_sessions_exist
    /\ key' = key + 1
    /\ row' = IF row.order # Nothing /\ ~row.expired /\ row.status # "paid_online"
              THEN CloseCheckout ELSE row
    /\ UNCHANGED <<provider, signer, events, unacked, processed, late, refunds>>

------------------------------------------------------------------------------
Next ==
    \/ create_payment
    \/ create_mobile_intent
    \/ update_payment_settings
    \/ \E i \in Instruments : Pay(i) \/ Lapse(i)
    \/ \E i \in Orders : create_checkout_url(i)
    \/ \E reached \in BOOLEAN :
         \/ cancel_pending(reached)
         \/ \E target \in {"paid_offline", "waived"} :
              reconcile_payments(target, reached)
    \/ \E e \in events : WebhookView(e)

Spec == Init /\ [][Next]_vars

(* The provider retries an event until it gets its 200. *)
FairSpec ==
    Spec /\ \A e \in Event : WF_vars(e \in unacked /\ WebhookView(e))

------------------------------------------------------------------------------
(* What is promised. *)

Captured == {i \in Instruments : provider[i] = "paid"}

(* The ledger has the money on record: the row is paid online, or the      *)
(* late payment of a row settled otherwise was audited.                    *)
Recorded == row.status = "paid_online" \/ late # {}

Promise == INSTANCE ChargePromise WITH
    status <- row.status, captured <- Captured, known <- Recorded,
    refunds <- refunds, Instruments <- Instruments

(* Whatever pages, rails, failed vendor calls, reordered or repeated       *)
(* webhooks and credential changes are involved, the charge behaves as     *)
(* promised: the member is charged at most once, terminal rows change only *)
(* from waived to paid online, captured money is recorded once, and money  *)
(* taken twice raises exactly one refund-required condition                *)
(* (services.py, services_mobile.py, services_webhooks.py,                 *)
(* terminal_settlement.py, reconciliation.py).                             *)
ImplementsPromise == Promise!Spec

(* Every live or paid instrument is the one the row points at, so its      *)
(* webhook will find the row (apply_webhook_event's lookup by id).         *)
Traceable ==
    \A i \in Instruments :
        provider[i] \in {"open", "paid"} => i \in {row.order, row.intent}

(* INVARIANTS.md: a real charge is never stranded - money the provider has *)
(* taken is recorded in the end (apply_webhook_event and its retries).     *)
NeverStranded == Captured # {} ~> Recorded

(* What does hold of it: money taken through a hosted page is recorded in  *)
(* the end, whatever credentials staff try to replace; money taken through *)
(* the native intent is, unless the credentials were replaced under it     *)
(* (validate_raw_credential_changes, apply_webhook_event and its retries).  *)
CapturedRecorded ==
    \A i \in Instruments :
        provider[i] = "paid" ~> (Recorded \/ (i = Native /\ signer[i] # key))

=============================================================================

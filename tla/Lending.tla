------------------------------- MODULE Lending -------------------------------
(***************************************************************************)
(* apps.hardware_requests: reviewed requests (submit, accept or reject,    *)
(* assign a container, issue, return, cancel), staff direct loans, public  *)
(* self-checkout and the triage of problem reports, over the inventory of  *)
(* module Inventory.                                                       *)
(*                                                                         *)
(* A request row carries one item per product (the submit serializer       *)
(* refuses duplicates, the loan workflows aggregate), so items are indexed *)
(* by product.  A direct loan and a self-checkout own a request row too,   *)
(* joined one to one with a PublicToolLoan.                                *)
(***************************************************************************)
EXTENDS Inventory, Functions

CONSTANTS
    Requests,           \* ids of HardwareRequest rows
    Subtree,            \* container_subtree_ids: a box and all boxes nested in it
    IssuePhotos,        \* finalized EvidencePhoto rows of type ISSUE
    ReturnPhotos,       \* finalized EvidencePhoto rows of type RETURN
    Keys,               \* idempotency keys of account-less submissions
    OutstandingLimit,   \* ANONYMOUS_REQUEST_OUTSTANDING_LIMIT
    Public,             \* products and assets enabled for public self-checkout
    MaxQty,             \* bound: largest quantity of one request item
    MaxScans            \* bound: QR codes scanned in one handout

ASSUME LendingAssumption ==
    /\ None \notin Boxes \cup IssuePhotos \cup ReturnPhotos \cup Keys
    /\ Subtree \in [Boxes -> SUBSET Boxes]
    /\ OutstandingLimit \in Nat
    /\ IsFiniteSet(Requests)
    /\ MaxQty \in Nat

VARIABLES
    status,             \* HardwareRequest.status, "none" while there is no row
    item,               \* HardwareRequestItem counters by request and product
    link,               \* assets whose HardwareRequestItemAsset is still ISSUED
    assigned_box,       \* HardwareRequest.assigned_box
    issue_evidence,     \* HardwareRequest.issue_evidence
    anon_key,           \* anonymous_idempotency_key_fingerprint
    return_event,       \* ReturnEvent rows: request and evidence
    loan_status,        \* PublicToolLoan.status, "none" while there is no row
    loan_source,        \* PublicToolLoan.source
    loan_container,     \* PublicToolLoan.container
    loan_qrs,           \* PublicToolLoan.qr_ids, by the target of each QR code
    loan_evidence,      \* PublicToolLoan.return_evidence
    report              \* PublicProblemReport of a request's loan

requestVars == <<status, item, link, assigned_box, issue_evidence, anon_key, return_event>>
loanVars == <<loan_status, loan_source, loan_container, loan_qrs, loan_evidence, report>>
vars == <<inventoryVars, requestVars, loanVars>>

Status == {"pending_approval", "rejected", "accepted", "cancelled", "issued",
           "partially_returned", "returned", "closed_with_issue"}

OpenStatus == {"issued", "partially_returned"}

Counters == {"requested", "accepted", "issued", "returned", "damaged", "missing", "needs_fix"}

Outcomes == {"returned", "damaged", "missing"}

OUTCOME_MAP == [o \in Outcomes |->
    IF o = "returned" THEN "available" ELSE IF o = "missing" THEN "lost" ELSE "damaged"]

Quantities == [Products -> 0 .. MaxQty]

Targets == Products \cup Assets \cup Boxes

-----------------------------------------------------------------------------
(* Derived state.                                                          *)

Column(r, c) == [p \in Products |-> item[r][p][c]]

NoItems == [p \in Products |-> [c \in Counters |-> 0]]

\* Products a request has an item row for.
Lines(r) == {p \in Products : item[r][p]["requested"] > 0}

remaining_quantity(it) == it["issued"] - (it["returned"] + it["damaged"] + it["missing"])

\* Accepted quantity of all accepted requests, as cancellation sums it.
Demand == [p \in Products |->
    SumFunction([r \in {s \in Requests : status[s] = "accepted"} |-> item[r][p]["accepted"]])]

OpenProducts == {p \in Products :
    \E r \in Requests : status[r] \in OpenStatus \cup {"accepted"} /\ p \in Lines(r)}

\* PublicToolLoan.asset_ids: the assets scanned by their own QR codes.
LoanAssets(r) == loan_qrs[r] \cap Assets

OnLoan == {a \in Assets : \E r \in Requests :
              \/ loan_status[r] = "checked_out" /\ a \in LoanAssets(r)
              \/ status[r] \in OpenStatus /\ a \in link[r]}

\* Mutant: only what visitors took counts.
_active_public_container_loan_exists_public(b) ==
    \E r \in Requests : /\ loan_status[r] = "checked_out" /\ loan_container[r] = b
                        /\ loan_source[r] = "public_self_checkout"

_active_public_container_loan_exists(b) ==
    \E r \in Requests : loan_status[r] = "checked_out" /\ loan_container[r] = b

_reviewed_request_holds_box(b) ==
    \E r \in Requests : assigned_box[r] = b /\ status[r] \in OpenStatus

\* Mutant: only public loans count as holding a code.
qr_has_active_public_loan(x) ==
    \E r \in Requests : /\ loan_status[r] = "checked_out"
                        /\ loan_source[r] = "public_self_checkout"
                        /\ x \in loan_qrs[r]

qr_has_active_loan(x) == \E r \in Requests : loan_status[r] = "checked_out" /\ x \in loan_qrs[r]

IssueEvidenceUnused(e) == \A r \in Requests : issue_evidence[r] # e

\* Mutant: looks for the photo among return events only.
ReturnEvidenceUnused_events_only(e) == \A r \in Requests : <<r, e>> \notin return_event

ReturnEvidenceUnused(e) ==
    \A r \in Requests : loan_evidence[r] # e /\ <<r, e>> \notin return_event

-----------------------------------------------------------------------------
(* request_workflow and cancellation_workflow.                             *)

AnonymousPending ==
    {r \in Requests : status[r] = "pending_approval" /\ anon_key[r] # None}

\* Mutant: one request too many.
_enforce_anonymous_outstanding_limit_off_by_one(key) ==
    key # None => Cardinality(AnonymousPending) <= OutstandingLimit

_enforce_anonymous_outstanding_limit(key) ==
    key # None => Cardinality(AnonymousPending) < OutstandingLimit

\* A replayed key returns the request it created, a reused one is refused:
\* neither changes anything.
submit_request(r, q, key) ==
    /\ status[r] = "none"
    /\ \E p \in Products : q[p] > 0
    /\ key # None => \A s \in Requests : anon_key[s] # key
    /\ _enforce_anonymous_outstanding_limit(key)
    /\ status' = [status EXCEPT ![r] = "pending_approval"]
    /\ item' = [item EXCEPT ![r] = [p \in Products |-> [NoItems[p] EXCEPT !["requested"] = q[p]]]]
    /\ anon_key' = [anon_key EXCEPT ![r] = key]
    /\ UNCHANGED <<inventoryVars, loanVars, link, assigned_box, issue_evidence, return_event>>

accept_request(r, q) ==
    /\ status[r] = "pending_approval"
    /\ \A p \in Products : q[p] <= item[r][p]["requested"]
    /\ \E p \in Products : q[p] > 0
    /\ reserve_for_request(q)
    /\ status' = [status EXCEPT ![r] = "accepted"]
    /\ item' = [item EXCEPT ![r] = [p \in Products |-> [item[r][p] EXCEPT !["accepted"] = q[p]]]]
    /\ UNCHANGED <<mode, asset, place, consumable, loanVars, link, assigned_box,
                   issue_evidence, anon_key, return_event>>

\* Mutant: rejects a request in any status.
reject_request_any_status(r) ==
    /\ status[r] # "none"
    /\ status' = [status EXCEPT ![r] = "rejected"]
    /\ UNCHANGED <<inventoryVars, loanVars, item, link, assigned_box, issue_evidence,
                   anon_key, return_event>>

reject_request(r) ==
    /\ status[r] = "pending_approval"
    /\ status' = [status EXCEPT ![r] = "rejected"]
    /\ UNCHANGED <<inventoryVars, loanVars, item, link, assigned_box, issue_evidence,
                   anon_key, return_event>>

_assert_wholly_unissued(r) ==
    /\ issue_evidence[r] = None
    /\ \A p \in Products, c \in Counters \ {"requested", "accepted"} : item[r][p][c] = 0
    /\ \A e \in ReturnPhotos : <<r, e>> \notin return_event
    /\ link[r] = {}
    /\ loan_status[r] = "none"

cancel_request(r) ==
    /\ status[r] = "accepted"
    /\ _assert_wholly_unissued(r)
    /\ release_request_reservation(Lines(r), Column(r, "accepted"), Demand)
    /\ assigned_box' = [assigned_box EXCEPT ![r] = None]
    /\ status' = [status EXCEPT ![r] = "cancelled"]
    /\ UNCHANGED <<mode, asset, place, consumable, loanVars, item, link, issue_evidence,
                   anon_key, return_event>>

-----------------------------------------------------------------------------
(* handover_workflow.                                                      *)

\* The box scan that issue_request later asks for is recorded here.
assign_box(r, b) ==
    /\ status[r] = "accepted"
    /\ \A s \in Requests \ {r} : assigned_box[s] = b => status[s] \notin OpenStatus
    /\ ~ _active_public_container_loan_exists(b)
    /\ assigned_box' = [assigned_box EXCEPT ![r] = b]
    /\ UNCHANGED <<inventoryVars, loanVars, status, item, link, issue_evidence, anon_key,
                   return_event>>

\* The constraint uniq_active_loan_per_box, at the moment r becomes issued.
uniq_active_loan_per_box(r) ==
    \A s \in Requests \ {r} :
        assigned_box[s] = assigned_box[r] /\ assigned_box[r] # None => status[s] \notin OpenStatus

\* A line is rejected to the needs-fix shelf or scrapped, never both.
validate_broken_rejects(q, fix, scrap) ==
    /\ \A p \in Products :
          /\ fix[p] = 0 \/ scrap[p] = 0
          /\ fix[p] + scrap[p] <= q[p]
          /\ fix[p] + scrap[p] > 0 => mode[p] = "quantity"
    /\ \E p \in Products : q[p] > fix[p] + scrap[p]

\* Mutant: hands out a scanned unit whatever its status.
issue_individual_assets_any(q, scanned) ==
    /\ \A p \in Products : Cardinality(scanned \cap AssetsOf(p)) =
                              (IF mode[p] = "individual" THEN q[p] ELSE 0)
    /\ asset' = [a \in Assets |-> IF a \in scanned THEN "issued" ELSE asset[a]]

\* Exactly the accepted number of AVAILABLE units of each individual product.
issue_individual_assets(q, scanned) ==
    /\ \A a \in scanned : asset[a] = "available"
    /\ \A p \in Products : Cardinality(scanned \cap AssetsOf(p)) =
                              (IF mode[p] = "individual" THEN q[p] ELSE 0)
    /\ asset' = [a \in Assets |-> IF a \in scanned THEN "issued" ELSE asset[a]]

issue_request(r, e, scanned, fix, scrap) ==
    LET q == Column(r, "accepted")
    IN  /\ status[r] = "accepted"
        /\ IssueEvidenceUnused(e)
        /\ ~ _active_public_container_loan_exists(assigned_box[r]) \/ assigned_box[r] = None
        /\ uniq_active_loan_per_box(r)
        /\ validate_broken_rejects(q, fix, scrap)
        /\ issue_individual_assets(q, scanned)
        /\ issue_items(q, fix, scrap)
        /\ item' = [item EXCEPT ![r] = [p \in Products |->
               [item[r][p] EXCEPT !["issued"] = q[p] - fix[p] - scrap[p], !["needs_fix"] = fix[p]]]]
        /\ link' = [link EXCEPT ![r] = scanned]
        /\ issue_evidence' = [issue_evidence EXCEPT ![r] = e]
        /\ status' = [status EXCEPT ![r] = "issued"]
        /\ UNCHANGED <<mode, place, consumable, loanVars, assigned_box, anon_key, return_event>>

-----------------------------------------------------------------------------
(* return_workflow.  given are the quantities stated for quantity          *)
(* products; out the outcome of each individual unit, "issued" for a unit  *)
(* the return does not name.                                               *)

_individual_counts(p, out) == [o \in Outcomes |-> Cardinality({a \in AssetsOf(p) : out[a] = o})]

build_resolutions(given, out) == [p \in Products |->
    IF mode[p] = "individual" THEN _individual_counts(p, out) ELSE given[p]]

Brought(out) == {a \in Assets : out[a] # "issued"}

\* Every unit named belongs to a product resolved unit by unit.
flip_asset_returns(held, out) ==
    /\ \A a \in Brought(out) : a \in held /\ mode[ProductOf[a]] = "individual"
    /\ asset' = [a \in Assets |-> IF a \in Brought(out) THEN OUTCOME_MAP[out[a]] ELSE asset[a]]

\* Mutant: a damaged unit also counts as returned.
ResolveItems_damaged_twice(r, res) == [p \in Products |->
    [item[r][p] EXCEPT !["returned"] = @ + res[p]["returned"] + res[p]["damaged"],
                       !["damaged"]  = @ + res[p]["damaged"],
                       !["missing"]  = @ + res[p]["missing"]]]

ResolveItems(r, res) == [p \in Products |->
    [item[r][p] EXCEPT !["returned"] = @ + res[p]["returned"],
                       !["damaged"]  = @ + res[p]["damaged"],
                       !["missing"]  = @ + res[p]["missing"]]]

finalize_return_status(items) ==
    IF \E p \in Products : remaining_quantity(items[p]) # 0 THEN "partially_returned"
    ELSE IF \E p \in Products : items[p]["damaged"] > 0 \/ items[p]["missing"] > 0
         THEN "closed_with_issue" ELSE "returned"

\* The workflow's own return_items.
return_request(r, e, given, out) ==
    LET res == build_resolutions(given, out)
    IN  /\ loan_status[r] = "none"
        /\ status[r] \in OpenStatus
        /\ ReturnEvidenceUnused(e)
        /\ \A p \in Products : Resolved(res, p) <= remaining_quantity(item[r][p])
        /\ \E p \in Products : Resolved(res, p) > 0
        /\ return_items(res)
        /\ flip_asset_returns(link[r], out)
        /\ item' = [item EXCEPT ![r] = ResolveItems(r, res)]
        /\ link' = [link EXCEPT ![r] = @ \ Brought(out)]
        /\ return_event' = return_event \cup {<<r, e>>}
        /\ status' = [status EXCEPT ![r] = finalize_return_status(ResolveItems(r, res))]
        /\ UNCHANGED <<mode, place, consumable, loanVars, assigned_box, issue_evidence, anon_key>>

-----------------------------------------------------------------------------
(* self_checkout_helpers: what a set qrs of scanned codes hands out.       *)
(* before are the codes read ahead of a scanned box.                       *)

Scanned(p, qrs) == (IF p \in qrs THEN 1 ELSE 0) + Cardinality(qrs \cap AssetsOf(p))

Left(p, before) == product[p]["available"] - Scanned(p, before)

BoxFree(b) == ~ _active_public_container_loan_exists(b) /\ ~ _reviewed_request_holds_box(b)

box_requires_separate_contents(b, before) ==
    \/ \E a \in Assets \ before : asset[a] = "available" /\ place[a] \in Subtree[b]
    \/ \E p \in Products : place[p] \in Subtree[b] \ {b} /\ Left(p, before) > 0

\* One unit of every product offered in the box.
BoxContents(b, before, offered) ==
    {p \in Products \cap offered : place[p] = b /\ Left(p, before) >= 1}

_checkout_box(b, before, offered) ==
    /\ BoxFree(b)
    /\ ~ box_requires_separate_contents(b, before)
    /\ BoxContents(b, before, offered) # {}
    /\ \A p \in BoxContents(b, before, offered) : mode[p] = "quantity"

_checkout_targets(qrs, before, offered) ==
    /\ before \subseteq qrs \ Boxes
    /\ \A x \in qrs : ~ qr_has_active_loan(x)
    /\ \A p \in qrs \cap Products : p \in offered /\ mode[p] = "quantity"
    /\ \A a \in qrs \cap Assets :
          /\ asset[a] = "available"
          /\ {a, ProductOf[a]} \subseteq offered
          /\ place[a] \notin qrs
    /\ \A b, c \in qrs \cap Boxes : b = c /\ _checkout_box(b, before, offered)

HandedOut(qrs, before, offered) == [p \in Products |->
    Scanned(p, qrs) + (IF \E b \in qrs \cap Boxes : p \in BoxContents(b, before, offered)
                       THEN 1 ELSE 0)]

\* _create_issued_request and the loan row joined to it.
_create_issued_request(r, e, q, container, qrs, source) ==
    /\ status[r] = "none"
    /\ IssueEvidenceUnused(e)
    /\ issue_available(q)
    /\ asset' = [a \in Assets |-> IF a \in qrs THEN "issued" ELSE asset[a]]
    /\ status' = [status EXCEPT ![r] = "issued"]
    /\ item' = [item EXCEPT ![r] = [p \in Products |-> [c \in Counters |->
                   IF c \in {"requested", "accepted", "issued"} THEN q[p] ELSE 0]]]
    /\ issue_evidence' = [issue_evidence EXCEPT ![r] = e]
    /\ loan_status' = [loan_status EXCEPT ![r] = "checked_out"]
    /\ loan_source' = [loan_source EXCEPT ![r] = source]
    /\ loan_container' = [loan_container EXCEPT ![r] = container]
    /\ loan_qrs' = [loan_qrs EXCEPT ![r] = qrs]
    /\ UNCHANGED <<mode, place, consumable, link, assigned_box, anon_key, return_event,
                   loan_evidence, report>>

-----------------------------------------------------------------------------
(* direct_loan_workflow, direct_loan_returns, self_checkout_workflow.      *)

\* Mutant: nested containers are not looked into.
ContainerEmpty_top_level(b) ==
    /\ \A p \in Products : place[p] = b => product[p]["available"] = 0
    /\ \A a \in Assets : place[a] = b => asset[a] # "available"

ContainerEmpty(b) ==
    /\ \A p \in Products : place[p] \in Subtree[b] => product[p]["available"] = 0
    /\ \A a \in Assets : place[a] \in Subtree[b] => asset[a] # "available"

\* Staff hand out scanned codes, manual quantities and a container.
issue_direct_loan(r, e, container, qrs, before, manual) ==
    LET everything == Products \cup Assets
        contents   == HandedOut(qrs, before, everything)
        scannedBox == qrs \cap Boxes
        named      == qrs # {} \/ \E p \in Products : manual[p] > 0
    IN  /\ named \/ container # None
        /\ container # None =>
              /\ BoxFree(container)
              /\ named \/ ContainerEmpty(container)
              /\ scannedBox \subseteq {container}
        /\ _checkout_targets(qrs, before, everything)
        /\ \A p \in Products : manual[p] > 0 => mode[p] = "quantity"
        /\ \E box \in Places :
              /\ IF container = None /\ scannedBox # {} THEN box \in scannedBox ELSE box = container
              /\ _create_issued_request(r, e, [p \in Products |-> contents[p] + manual[p]],
                                        box, qrs, "admin_direct")

\* A visitor checks out public tools.
checkout_tool(r, e, qrs, before) ==
    /\ qrs # {}
    /\ _checkout_targets(qrs, before, Public)
    /\ \E box \in Places :
          /\ IF qrs \cap Boxes # {} THEN box \in qrs ELSE box = None
          /\ _create_issued_request(r, e, HandedOut(qrs, before, Public), box, qrs,
                                    "public_self_checkout")

\* Closes the loan row with its evidence.
CloseLoan(r, e) ==
    /\ loan_status' = [loan_status EXCEPT ![r] = "returned"]
    /\ loan_evidence' = [loan_evidence EXCEPT ![r] = e]
    /\ UNCHANGED <<mode, place, consumable, link, assigned_box, issue_evidence, anon_key,
                   loan_source, loan_container, loan_qrs>>

\* Every outstanding unit is resolved at once; nothing may be outstanding.
return_direct_loan(r, e, given, out) ==
    LET res == build_resolutions(given, out)
    IN  /\ loan_status[r] = "checked_out"
        /\ loan_source[r] = "admin_direct"
        /\ ReturnEvidenceUnused(e)
        /\ \A p \in Products : Resolved(res, p) = remaining_quantity(item[r][p])
        /\ return_items(res)
        /\ flip_asset_returns({a \in LoanAssets(r) : asset[a] = "issued"}, out)
        /\ item' = [item EXCEPT ![r] = ResolveItems(r, res)]
        /\ return_event' = return_event \cup {<<r, e>>}
        /\ status' = [status EXCEPT ![r] = finalize_return_status(ResolveItems(r, res))]
        /\ CloseLoan(r, e)
        /\ UNCHANGED report

require_public_return_ledger(r) ==
    /\ status[r] = "issued"
    /\ Lines(r) # {}
    /\ \A p \in Lines(r) :
          /\ item[r][p]["issued"] > 0
          /\ item[r][p]["requested"] = item[r][p]["issued"]
          /\ item[r][p]["accepted"] = item[r][p]["issued"]
          /\ \A c \in Outcomes \cup {"needs_fix"} : item[r][p][c] = 0

lock_loan_assets_for_return(r) == \A a \in LoanAssets(r) : asset[a] = "issued"

\* The visitor brings everything back in one step, and may report a problem.
return_tool(r, e, report_problem) ==
    LET q == Column(r, "issued")
    IN  /\ loan_status[r] = "checked_out"
        /\ loan_source[r] = "public_self_checkout"
        /\ ReturnEvidenceUnused(e)
        /\ require_public_return_ledger(r)
        /\ lock_loan_assets_for_return(r)
        /\ return_to_available(q)
        /\ item' = [item EXCEPT ![r] = [p \in Products |->
                       [item[r][p] EXCEPT !["returned"] = @ + q[p]]]]
        /\ asset' = [a \in Assets |-> IF a \in LoanAssets(r) THEN "available" ELSE asset[a]]
        /\ status' = [status EXCEPT ![r] = "returned"]
        /\ CloseLoan(r, e)
        /\ report' = [report EXCEPT ![r] = IF report_problem THEN "open" ELSE @]
        /\ UNCHANGED return_event

-----------------------------------------------------------------------------
(* problem_report_workflow.                                                *)

TriageOutcomes == {"damaged", "missing", "needs_fix"}

ASSET_STATUS_OUTCOMES == [o \in TriageOutcomes |->
    IF o = "needs_fix" THEN "maintenance" ELSE IF o = "missing" THEN "lost" ELSE "damaged"]

\* q units of each line leave available; moved are the units among them.
_move_stock(r, outcome, q, moved) ==
    LET target == ASSET_STATUS_OUTCOMES[outcome]
        row(p) == reconcile_individual_product_from_assets(p, asset)
        triaged(p) == Shift(row(p), "available", ASSET_QUANTITY_BUCKETS[target], q[p])
    IN  /\ moved \subseteq {a \in LoanAssets(r) : asset[a] = "available"}
        /\ \A p \in Products :
              /\ q[p] <= item[r][p]["issued"]
              /\ Cardinality(moved \cap AssetsOf(p)) = (IF mode[p] = "individual" THEN q[p] ELSE 0)
              /\ q[p] > 0 => Reconcilable(p, asset) /\ row(p)["available"] >= q[p]
        /\ \E p \in Products : q[p] > 0
        /\ product' = [p \in Products |-> IF q[p] = 0 THEN product[p] ELSE Recount(triaged(p))]
        /\ asset' = [a \in Assets |-> IF a \in moved THEN target ELSE asset[a]]

triage_problem_report(r, outcome, q, moved) ==
    /\ report[r] = "open"
    /\ IF outcome = "no_issue" THEN UNCHANGED <<product, asset>> ELSE _move_stock(r, outcome, q, moved)
    /\ report' = [report EXCEPT ![r] = "triaged"]
    /\ UNCHANGED <<mode, place, consumable, requestVars, loan_status, loan_source, loan_container,
                   loan_qrs, loan_evidence>>

-----------------------------------------------------------------------------
(* The specification.                                                      *)

Init ==
    /\ InventoryInit
    /\ status = [r \in Requests |-> "none"]
    /\ item = [r \in Requests |-> NoItems]
    /\ link = [r \in Requests |-> {}]
    /\ assigned_box = [r \in Requests |-> None]
    /\ issue_evidence = [r \in Requests |-> None]
    /\ anon_key = [r \in Requests |-> None]
    /\ return_event = {}
    /\ loan_status = [r \in Requests |-> "none"]
    /\ loan_source = [r \in Requests |-> None]
    /\ loan_container = [r \in Requests |-> None]
    /\ loan_qrs = [r \in Requests |-> {}]
    /\ loan_evidence = [r \in Requests |-> None]
    /\ report = [r \in Requests |-> "none"]

ReviewNext(r) ==
    \/ \E q \in Quantities, key \in Keys \cup {None} : submit_request(r, q, key)
    \/ \E q \in Quantities : accept_request(r, q)
    \/ reject_request(r)
    \/ cancel_request(r)
    \/ \E b \in Boxes : assign_box(r, b)
    \/ \E e \in IssuePhotos, scanned \in SUBSET Assets, fix, scrap \in Quantities :
          issue_request(r, e, scanned, fix, scrap)

HandoutNext(r) ==
    /\ status[r] = "none"
    /\ \E e \in IssuePhotos, qrs \in {x \in SUBSET Targets : Cardinality(x) <= MaxScans} :
          \E before \in SUBSET qrs :
             \/ checkout_tool(r, e, qrs, before)
             \/ \E container \in Places, manual \in Quantities :
                   issue_direct_loan(r, e, container, qrs, before, manual)

ReturnNext(r) ==
    \/ /\ status[r] \in OpenStatus \/ loan_status[r] = "checked_out"
       /\ \E e \in ReturnPhotos, out \in [Assets -> Outcomes \cup {"issued"}],
             given \in [{p \in Products : mode[p] = "quantity"} -> [Outcomes -> 0 .. MaxQty]] :
             return_request(r, e, given, out) \/ return_direct_loan(r, e, given, out)
    \/ \E e \in ReturnPhotos, report_problem \in BOOLEAN : return_tool(r, e, report_problem)
    \/ \E outcome \in TriageOutcomes \cup {"no_issue"}, q \in Quantities, moved \in SUBSET Assets :
          triage_problem_report(r, outcome, q, moved)

StaffNext == InventoryNext(OpenProducts, OnLoan) /\ UNCHANGED <<requestVars, loanVars>>

Next == StaffNext \/ \E r \in Requests : ReviewNext(r) \/ HandoutNext(r) \/ ReturnNext(r)

Spec == Init /\ [][Next]_vars

-----------------------------------------------------------------------------
(* Properties.                                                             *)

\* Every column holds a value of its type; in particular no bucket and no
\* item counter is ever negative, so no non-negative check constraint of the
\* two tables is ever what stops a workflow.
TypeOK ==
    /\ mode \in [Products -> {"quantity", "individual"}]
    /\ product \in [Products -> [QuantityFields -> Nat]]
    /\ asset \in [Assets -> AssetStatus \cup {"absent"}]
    /\ place \in [Products \cup Assets -> Places]
    /\ consumable \subseteq Products
    /\ status \in [Requests -> Status \cup {"none"}]
    /\ item \in [Requests -> [Products -> [Counters -> Nat]]]
    /\ link \in [Requests -> SUBSET Assets]
    /\ assigned_box \in [Requests -> Places]
    /\ issue_evidence \in [Requests -> IssuePhotos \cup {None}]
    /\ anon_key \in [Requests -> Keys \cup {None}]
    /\ return_event \subseteq Requests \X ReturnPhotos
    /\ loan_status \in [Requests -> {"none", "checked_out", "returned"}]
    /\ loan_source \in [Requests -> {"public_self_checkout", "admin_direct", None}]
    /\ loan_container \in [Requests -> Places]
    /\ loan_qrs \in [Requests -> SUBSET Targets]
    /\ loan_evidence \in [Requests -> ReturnPhotos \cup {None}]
    /\ report \in [Requests -> {"none", "open", "triaged"}]

\* The buckets of a product never add up to more than its total, whatever
\* mix of requests, loans, triage and staff corrections runs: the check
\* constraint qty_sum_within_total never turns a legal operation into a
\* database error.
StockConserved == \A p \in Products : Held(product[p]) <= product[p]["total"]

\* The reserved bucket is exactly what accepted, unissued requests are owed
\* (plus units marked RESERVED), the equation release_request_reservation
\* demands before it gives a cancelled reservation back.
ReservationLedger ==
    \A p \in Products : product[p]["reserved"] = Demand[p] + Units(asset, p, "reserved")

\* The issued bucket is exactly what open requests and loans still have out,
\* so return_items and return_to_available always find the stock to return.
IssuedLedger ==
    \A p \in Products : product[p]["issued"] =
        SumFunction([r \in {s \in Requests : status[s] \in OpenStatus} |->
                        remaining_quantity(item[r][p])])

\* What the buckets say is promised or out is what the requests say.
Ledgers == ReservationLedger /\ IssuedLedger

\* "individual buckets are derived from asset rows"
\* (availability_tracking.py): the buckets of an individual product are the
\* counts of its asset rows, reservations being carved out of AVAILABLE.
IndividualStock ==
    \A p \in Products : mode[p] = "individual" =>
        /\ product[p]["available"] + product[p]["reserved"] =
              Units(asset, p, "available") + Units(asset, p, "reserved")
        /\ \A s \in {"issued", "damaged", "lost", "maintenance"} :
              product[p][ASSET_QUANTITY_BUCKETS[s]] = Units(asset, p, s)
        /\ product[p]["total"] = Held(product[p])

\* The buckets agree with the unit rows, and with the total.
BooksAgree == IndividualStock /\ StockConserved

\* Units a request or its loan answers for.
Custody(r) ==
    (IF status[r] \in OpenStatus THEN link[r] ELSE {})
        \cup (IF loan_status[r] = "checked_out" THEN LoanAssets(r) ELSE {})

\* A unit is ISSUED exactly while one borrower answers for it, and then only
\* one: _set_link_outcome and the loan returns write asset.status without
\* looking at it, which is sound only because of this.
UnitCustody ==
    \A a \in Assets :
        Cardinality({r \in Requests : a \in Custody(r)}) = (IF asset[a] = "issued" THEN 1 ELSE 0)

\* Containers a request or its loan has taken out of the building.
HoldsBox(r, b) ==
    \/ assigned_box[r] = b /\ status[r] \in OpenStatus
    \/ loan_container[r] = b /\ loan_status[r] = "checked_out"

\* A container is out with one borrower at a time, although reviewed requests
\* and handouts keep it in two tables and two requests may be assigned the
\* same container before either is issued.
ContainerCustody ==
    \A r, s \in Requests, b \in Boxes : HoldsBox(r, b) /\ HoldsBox(s, b) => r = s

\* "an ISSUED request with no unit outstanding, which no return can ever
\* close" (handover_issue_helpers.py) does not exist.
OutstandingUnit ==
    \A r \in Requests : status[r] \in OpenStatus /\ loan_status[r] = "none" =>
        \E p \in Products : remaining_quantity(item[r][p]) > 0

\* An accepted request can always be cancelled: no mix of other requests,
\* stock corrections and unit repairs makes its reservation unattributable.
CancellationNeverRefused ==
    \A r \in Requests : status[r] = "accepted" =>
        _assert_wholly_unissued(r) /\ ReservationAttributable(Lines(r), Column(r, "accepted"), Demand)

\* One photograph backs one handover: no issue photo is on two requests, and
\* no return photo closes two borrowings across the ReturnEvent and
\* PublicToolLoan tables, which no database constraint spans.
EvidenceSingleUse ==
    \A r, s \in Requests :
        /\ issue_evidence[r] # None /\ issue_evidence[r] = issue_evidence[s] => r = s
        /\ \A e \in ReturnPhotos :
              /\ loan_evidence[r] = e \/ <<r, e>> \in return_event
              /\ loan_evidence[s] = e \/ <<s, e>> \in return_event
              => r = s

\* "a secondary QR in a multi-QR direct handout can't be re-issued"
\* (self_checkout_models.py): no code is on two open loans.
QrExclusive ==
    \A r, s \in Requests :
        /\ loan_status[r] = "checked_out" /\ loan_status[s] = "checked_out"
        /\ loan_qrs[r] \cap loan_qrs[s] # {}
        => r = s

\* A handout can always be returned: a public loan passes every admission
\* check of return_tool, and on either kind of loan each individual product
\* has exactly as many units still ISSUED as it has outstanding.
LoanReturnable ==
    \A r \in Requests : loan_status[r] = "checked_out" =>
        /\ status[r] = "issued"
        /\ loan_source[r] = "public_self_checkout" =>
              require_public_return_ledger(r) /\ lock_loan_assets_for_return(r)
        /\ \A p \in Products :
              /\ product[p]["issued"] >= remaining_quantity(item[r][p])
              /\ mode[p] = "individual" => remaining_quantity(item[r][p]) =
                    Cardinality({a \in LoanAssets(r) \cap AssetsOf(p) : asset[a] = "issued"})

\* Nothing gets stuck: an accepted request can be cancelled, an issued one has
\* something left to return, and a handout can be returned.
NothingStuck == CancellationNeverRefused /\ OutstandingUnit /\ LoanReturnable

\* What an item hands out and takes back stays within what was accepted, and
\* that within what was asked for.
ItemLedger ==
    \A r \in Requests, p \in Products :
        /\ remaining_quantity(item[r][p]) >= 0
        /\ item[r][p]["issued"] + item[r][p]["needs_fix"] <= item[r][p]["accepted"]
        /\ item[r][p]["accepted"] <= item[r][p]["requested"]

\* Account-less requests awaiting review never exceed the outstanding limit,
\* and no two requests were created under one idempotency key.
AnonymousBacklog ==
    /\ Cardinality(AnonymousPending) <= OutstandingLimit
    /\ \A r, s \in Requests : anon_key[r] # None /\ anon_key[r] = anon_key[s] => r = s

\* Lending moves stock between buckets and loses none: a step of a request
\* or a loan takes away only what an issue scraps, namely the accepted units
\* neither handed out nor put on the needs-fix shelf.
Scrapped(r, p) ==
    IF status[r] = "accepted" /\ status'[r] = "issued"
    THEN item'[r][p]["accepted"] - item'[r][p]["issued"] - item'[r][p]["needs_fix"] ELSE 0

LendingConserves ==
    [][\/ UNCHANGED <<requestVars, loanVars>>
       \/ \E r \in Requests : \A p \in Products :
             Held(product'[p]) = Held(product[p]) - Scrapped(r, p)]_vars

\* A request that was rejected, cancelled or settled keeps its status and its
\* counters for good, whatever is triaged or corrected later.
SettledFrozen ==
    [][\A r \in Requests :
          status[r] \in {"rejected", "cancelled", "returned", "closed_with_issue"} =>
             /\ status'[r] = status[r] /\ item'[r] = item[r]
             /\ loan_status'[r] = loan_status[r]]_vars

\* A handout that scans a container, or hands out the container alone, leaves
\* no AVAILABLE unit inside it or inside the containers nested in it: "a
\* container-only loan would walk them out the door while leaving them
\* logically AVAILABLE" (direct_loan_workflow.py).
UnitsStay ==
    \A r \in Requests, b \in Boxes, a \in Assets :
          /\ loan_status[r] = "none" /\ loan_status'[r] = "checked_out" /\ loan_container'[r] = b
          /\ b \in loan_qrs'[r] \/ item'[r] = NoItems
          /\ place[a] \in Subtree[b]
          => asset'[a] # "available"

NoUnitWalksOut == [][UnitsStay]_vars
=============================================================================

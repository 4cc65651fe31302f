------------------------------ MODULE Stocktake ------------------------------
(***************************************************************************)
(* apps.operations stocktake: a session of count lines is counted,         *)
(* completed, approved by somebody else and applied to the inventory,      *)
(* while lending and staff corrections go on (module Lending).  Each       *)
(* workflow call is one transaction under the makerspace and session row   *)
(* locks; applying locks every row it changes before it looks at it.       *)
(***************************************************************************)
EXTENDS Lending, SequencesExt

CONSTANTS
    Sessions,       \* ids of StocktakeSession rows
    Staff,          \* people with edit_inventory
    Managers,       \* those of them with manage_makerspace
    Superadmins,    \* those of them exempt from the four-eyes rule
    MaxCount,       \* bound: largest counted_quantity
    MaxLines        \* bound: count lines of one session

VARIABLES
    session,        \* StocktakeSession.status, "none" while there is no row
    scope,          \* StocktakeSession.container
    completed_by,   \* StocktakeSession.completed_by
    lines,          \* StocktakeLine rows of each session
    ledger          \* StocktakeLedgerEntry rows of each session

stocktakeVars == <<session, scope, completed_by, lines, ledger>>
allVars == <<vars, stocktakeVars>>

Condition == {"available", "damaged", "lost", "unknown"}

StocktakeBuckets == {"available", "damaged", "lost"}

-----------------------------------------------------------------------------
(* services_stocktake_helpers.                                             *)

_product_expected(row, condition) == IF condition = "unknown" THEN 0 ELSE row[condition]

\* "none" stands for a status the stocktake buckets do not cover.
_asset_bucket(s) == IF s \in StocktakeBuckets THEN s ELSE "none"

_asset_new_status(line) ==
    IF line.counted = 0 \/ line.condition = "lost" THEN "lost"
    ELSE IF line.condition = "damaged" THEN "damaged" ELSE "available"

ProductOfTarget(t) == IF t \in Assets THEN ProductOf[t] ELSE t

\* What the books say of a line's target now; rows and status are the
\* product and asset tables as the transaction sees them.
BookCount(rows, status_, t, condition) ==
    IF t \in Assets THEN (IF _asset_bucket(status_[t]) = condition THEN 1 ELSE 0)
    ELSE _product_expected(rows[t], condition)

\* _validate_asset_count and _validate_product_count.
Countable(t, counted) ==
    IF t \in Assets THEN counted \in {0, 1} /\ _asset_bucket(asset[t]) # "none"
    ELSE mode[t] # "individual"

\* _validate_line_container and _validate_item_container.
InScope(s, t, container) ==
    LET within == IF scope[s] # None THEN scope[s] ELSE container
    IN  /\ scope[s] # None => container = scope[s]
        /\ within # None => place[t] = within

_reject_duplicate_line(s, t, condition, container) ==
    \A line \in lines[s] : line.target = t =>
        t \in Products /\ <<line.condition, line.container>> # <<condition, container>>

\* Mutant: only the row has to exist still.
_validate_line_fresh_any(rows, status_, line) == line.target \in Products \cup Assets

_validate_line_fresh(rows, status_, line) ==
    line.condition # "unknown" =>
        /\ line.target \in Assets => _asset_bucket(status_[line.target]) # "none"
        /\ BookCount(rows, status_, line.target, line.condition) = line.expected

\* The signed corrections a line asks for: none, one bucket, or for a unit
\* one bucket down and one up.
_ledger_entries_for_line(status_, line) ==
    LET old == _asset_bucket(status_[line.target])
        new == _asset_new_status(line)
        variance == line.counted - line.expected
    IN  IF line.target \in Assets
        THEN IF old = new THEN {} ELSE {<<old, -1>>, <<new, 1>>}
        ELSE IF variance = 0 THEN {} ELSE {<<line.condition, variance>>}

apply_stocktake_delta(row, entries) ==
    Recount([b \in QuantityFields |-> row[b] +
        (IF \E e \in entries : e[1] = b THEN (CHOOSE e \in entries : e[1] = b)[2] ELSE 0)])

\* One line of apply_stocktake_adjustments in the transaction state st.  The
\* entries of one line go to different buckets, and the one that takes away
\* comes first, so checking the buckets once is checking them in order.
ApplyLine(st, line) ==
    LET t == line.target
        p == ProductOfTarget(t)
        entries == _ledger_entries_for_line(st.asset, line)
        row == apply_stocktake_delta(st.product[p], entries)
    IN  [ok      |-> /\ st.ok
                     /\ Countable(t, line.counted)
                     /\ _validate_line_fresh(st.product, st.asset, line)
                     /\ line.condition # "unknown"
                     /\ \A b \in StocktakeBuckets : row[b] >= 0,
         product |-> [st.product EXCEPT ![p] = row],
         asset   |-> IF t \in Assets THEN [st.asset EXCEPT ![t] = _asset_new_status(line)]
                     ELSE st.asset,
         ledger  |-> st.ledger \cup {[line |-> line, bucket |-> e[1], delta |-> e[2]] : e \in entries}]

-----------------------------------------------------------------------------
(* services_stocktake_workflow.                                            *)

create_stocktake(s, container) ==
    /\ session[s] = "none"
    /\ session' = [session EXCEPT ![s] = "counting"]
    /\ scope' = [scope EXCEPT ![s] = container]
    /\ UNCHANGED <<vars, completed_by, lines, ledger>>

add_stocktake_line(s, t, condition, container, counted) ==
    /\ session[s] = "counting"
    /\ t \in Assets => asset[t] # "absent"
    /\ InScope(s, t, container)
    /\ Countable(t, counted)
    /\ _reject_duplicate_line(s, t, condition, container)
    /\ Cardinality(lines[s]) < MaxLines
    /\ lines' = [lines EXCEPT ![s] = @ \cup
          {[target |-> t, condition |-> condition, container |-> container, counted |-> counted,
            expected |-> BookCount(product, asset, t, condition)]}]
    /\ UNCHANGED <<vars, session, scope, completed_by, ledger>>

complete_stocktake(s, actor) ==
    /\ session[s] = "counting"
    /\ session' = [session EXCEPT ![s] = "completed"]
    /\ completed_by' = [completed_by EXCEPT ![s] = actor]
    /\ UNCHANGED <<vars, scope, lines, ledger>>

\* stocktake_authority.
can_review_stocktake(s, actor) ==
    \/ actor \in Superadmins
    \/ actor \in Managers /\ completed_by[s] \notin {None, actor}

approve_stocktake(s, actor) ==
    /\ can_review_stocktake(s, actor)
    /\ session[s] = "completed"
    /\ session' = [session EXCEPT ![s] = "approved"]
    /\ UNCHANGED <<vars, scope, completed_by, lines, ledger>>

\* All lines or none; the query gives them in no particular order.
apply_stocktake_adjustments(s, actor) ==
    /\ can_review_stocktake(s, actor)
    /\ session[s] = "approved"
    /\ \A line \in lines[s] : InScope(s, line.target, line.container)
    /\ \E order \in SetToSeqs(lines[s]) :
          LET done == FoldLeft(ApplyLine,
                         [ok |-> TRUE, product |-> product, asset |-> asset, ledger |-> {}], order)
          IN  /\ done.ok
              /\ product' = done.product
              /\ asset' = done.asset
              /\ ledger' = [ledger EXCEPT ![s] = done.ledger]
    /\ session' = [session EXCEPT ![s] = "applied"]
    /\ UNCHANGED <<mode, place, consumable, requestVars, loanVars, scope, completed_by, lines>>

StocktakeInit ==
    /\ Init
    /\ session = [s \in Sessions |-> "none"]
    /\ scope = [s \in Sessions |-> None]
    /\ completed_by = [s \in Sessions |-> None]
    /\ lines = [s \in Sessions |-> {}]
    /\ ledger = [s \in Sessions |-> {}]

StocktakeNext ==
    \/ Next /\ UNCHANGED stocktakeVars
    \/ \E s \in Sessions :
          \/ \E container \in Places : create_stocktake(s, container)
          \/ \E t \in Products \cup Assets, condition \in Condition, container \in Places,
                counted \in 0 .. MaxCount : add_stocktake_line(s, t, condition, container, counted)
          \/ \E actor \in Staff :
                \/ complete_stocktake(s, actor)
                \/ approve_stocktake(s, actor)
                \/ apply_stocktake_adjustments(s, actor)

-----------------------------------------------------------------------------
(* Properties, besides those of Lending.                                   *)

\* The session applied in this step, if any.
Applying(s) == session[s] = "approved" /\ session'[s] = "applied"

\* A session corrects a bucket once: however its lines overlap (a product
\* may be counted with and without its container), what an application
\* leaves in a counted bucket is a number somebody counted, and a unit is
\* left in the state its line found it in.
CountsApplied ==
    \A s \in Sessions : Applying(s) =>
       /\ \A line \in lines[s] : line.target \in Products =>
             \E other \in lines[s] :
                /\ other.target = line.target /\ other.condition = line.condition
                /\ product'[line.target][line.condition] = other.counted
       /\ \A line \in lines[s] : line.target \in Assets =>
             (asset'[line.target] = "lost" <=> (line.counted = 0 \/ line.condition = "lost"))

AppliedAsCounted == [][CountsApplied]_allVars
=============================================================================

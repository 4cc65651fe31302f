--------------------------- MODULE CustodyProofs ---------------------------
(***************************************************************************)
(* Theorems about Lending, for every number of products, units, requests,  *)
(* containers and photographs, in three parts.                             *)
(*                                                                         *)
(* "Types, stock and items" proves the types, the row constraints of the   *)
(* products and the counters of the request lines.  "Custody" is about who *)
(* has which container, code and photograph, facts that span the stock,    *)
(* the reviewed requests and the loans, which the code keeps in tables     *)
(* with no constraint over them.  "Counting units" follows the units and   *)
(* the quantities: which paper holds a unit (UnitCustody), the two lines   *)
(* of stock per product (Ledgers), the stock of individually tracked       *)
(* products against their units (BooksAgree), what can always go on        *)
(* (NothingStuck) and what no operation may create or lose                 *)
(* (LendingConserves).                                                     *)
(***************************************************************************)
EXTENDS Lending, Sums, FiniteSetTheorems, TLAPS

-----------------------------------------------------------------------------
(* Types, stock and items.                                                 *)

USE InventoryAssumption, LendingAssumption

Rows == [QuantityFields -> Nat]

\* Rows that satisfy the constraint qty_sum_within_total.
SoundRows == {row \in Rows : Held(row) <= row["total"]}

\* The inductive invariant's view of the product table.
Ledger == product \in [Products -> SoundRows]

Counts == [Products -> Nat]

\* The inventory's share of the invariant, and that of the two workflow tables.
Stock ==
    /\ Ledger
    /\ mode \in [Products -> {"quantity", "individual"}]
    /\ asset \in [Assets -> AssetStatus \cup {"absent"}]
    /\ place \in [Products \cup Assets -> Places]
    /\ consumable \subseteq Products

RequestRows ==
    /\ status \in [Requests -> Status \cup {"none"}]
    /\ item \in [Requests -> [Products -> [Counters -> Nat]]]
    /\ link \in [Requests -> SUBSET Assets]
    /\ assigned_box \in [Requests -> Places]
    /\ issue_evidence \in [Requests -> IssuePhotos \cup {None}]
    /\ anon_key \in [Requests -> Keys \cup {None}]
    /\ return_event \subseteq Requests \X ReturnPhotos

LoanRows ==
    /\ loan_status \in [Requests -> {"none", "checked_out", "returned"}]
    /\ loan_source \in [Requests -> {"public_self_checkout", "admin_direct", None}]
    /\ loan_container \in [Requests -> Places]
    /\ loan_qrs \in [Requests -> SUBSET Targets]
    /\ loan_evidence \in [Requests -> ReturnPhotos \cup {None}]
    /\ report \in [Requests -> {"none", "open", "triaged"}]

\* What is only decided at the counter is still zero before the counter.
Untouched ==
    \A r \in Requests : status[r] \in {"pending_approval", "accepted"} =>
        \A p \in Products, c \in Counters \ {"requested", "accepted"} : item[r][p][c] = 0

\* The inductive invariant.  ItemLedger is needed by cancellation (a request is
\* accepted for products it asks for only, so the lines checked by
\* release_request_reservation are all that it gives back), and Untouched by
\* ItemLedger.
Inv == Stock /\ RequestRows /\ LoanRows /\ ItemLedger /\ Untouched

\* One item of ItemLedger, and the items of one request.
SoundItem(it) ==
    /\ remaining_quantity(it) >= 0
    /\ it["issued"] + it["needs_fix"] <= it["accepted"]
    /\ it["accepted"] <= it["requested"]

ItemRows == [Products -> [Counters -> Nat]]

-----------------------------------------------------------------------------
(* Rows.                                                                   *)

\* The sum of the buckets of a row is a natural number.
LEMMA HeldNat ==
    ASSUME NEW row \in Rows
    PROVE  Held(row) \in Nat
  BY DEF Rows, Buckets, QuantityFields, Held

\* Moving units from a bucket that has them to another one keeps every
\* quantity natural and the sum of the buckets what it was.
LEMMA ShiftRow ==
    ASSUME NEW row \in Rows, NEW from \in Buckets, NEW to \in Buckets, from # to,
           NEW q \in Nat, row[from] >= q
    PROVE  /\ Shift(row, from, to, q) \in Rows
           /\ Held(Shift(row, from, to, q)) = Held(row)
           /\ Shift(row, from, to, q)["total"] = row["total"]
  BY DEF Rows, Buckets, QuantityFields, Shift, Held

\* Hence it keeps the row sound.
LEMMA ShiftSound ==
    ASSUME NEW row \in SoundRows, NEW from \in Buckets, NEW to \in Buckets, from # to,
           NEW q \in Nat, row[from] >= q
    PROVE  Shift(row, from, to, q) \in SoundRows
  BY ShiftRow DEF SoundRows

\* The total becomes the sum of the buckets, which is a natural number.
LEMMA RecountRow ==
    ASSUME NEW row \in Rows
    PROVE  Recount(row) \in SoundRows
  BY DEF SoundRows, Rows, Buckets, QuantityFields, Recount, Held

\* A row is sound when its seven columns, taken one by one, are.
LEMMA FieldwiseSound ==
    ASSUME NEW row, row = [b \in QuantityFields |-> row[b]],
           row["available"] \in Nat, row["reserved"] \in Nat, row["issued"] \in Nat,
           row["damaged"] \in Nat, row["lost"] \in Nat, row["needs_fix"] \in Nat,
           row["total"] \in Nat, Held(row) <= row["total"]
    PROVE  row \in SoundRows
  <1>1. \A b \in QuantityFields : row[b] \in Nat
    BY DEF QuantityFields, Buckets
  <1>2. row \in Rows
    BY <1>1 DEF Rows
  <1> QED
    BY <1>2 DEF SoundRows

\* The number of a product's units in one status is a natural number.
LEMMA UnitsNat ==
    ASSUME NEW st, NEW p, NEW s
    PROVE  Units(st, p, s) \in Nat
  <1>1. IsFiniteSet({a \in AssetsOf(p) : st[a] = s})
    BY FS_Subset DEF AssetsOf
  <1> QED
    BY <1>1, FS_CardinalityType DEF Units

\* What reconcile_individual_product_from_assets saves is a row of naturals,
\* provided the unmarked reservations fit into the AVAILABLE units.
LEMMA ReconcileRow ==
    ASSUME NEW p \in Products, NEW st, Ledger, Reconcilable(p, st)
    PROVE  reconcile_individual_product_from_assets(p, st) \in SoundRows
  <1> DEFINE counts == [b \in QuantityFields |->
                           Units(st, p, IF b = "needs_fix" THEN "maintenance" ELSE b)]
             unmarked == UnmarkedReserved(p, st)
  <1>1. CASE mode[p] # "individual"
    BY <1>1 DEF Ledger, reconcile_individual_product_from_assets
  <1>2. CASE mode[p] = "individual"
    <2>1. \A s : Units(st, p, s) \in Nat
      BY UnitsNat
    <2>2. unmarked \in Nat
      BY <2>1 DEF Ledger, SoundRows, UnmarkedReserved, Rows, QuantityFields, Buckets
    <2>3. counts \in Rows
      BY <2>1 DEF Rows
    <2>4. counts["available"] >= unmarked
      BY <1>2, <2>1, <2>2 DEF Reconcilable, QuantityFields, Buckets
    <2> HIDE DEF counts, unmarked
    <2>5. Shift(counts, "available", "reserved", unmarked) \in Rows
      BY <2>2, <2>3, <2>4, ShiftRow DEF Buckets
    <2>6. Recount(Shift(counts, "available", "reserved", unmarked)) \in SoundRows
      BY <2>5, RecountRow
    <2> QED
      BY <1>2, <2>6 DEF reconcile_individual_product_from_assets, counts, unmarked
  <1> QED
    BY <1>1, <1>2

-----------------------------------------------------------------------------
(* The availability service keeps the product table sound.                 *)

\* reserve_for_request.
LEMMA ReserveLedger ==
    ASSUME Ledger, NEW q \in Counts, reserve_for_request(q)
    PROVE  Ledger'
  <1>1. ASSUME NEW p \in Products
        PROVE  Shift(product[p], "available", "reserved", q[p]) \in SoundRows
    <2>1. product[p] \in SoundRows /\ product[p] \in Rows /\ product[p]["available"] \in Nat
      BY DEF Ledger, SoundRows, Rows, QuantityFields, Buckets
    <2>2. product[p]["available"] >= q[p]
      BY <2>1 DEF reserve_for_request, Counts
    <2> QED
      BY <2>1, <2>2, ShiftSound DEF Counts, Buckets
  <1> QED
    BY <1>1 DEF reserve_for_request, Ledger

\* issue_items, with units rejected to the needs-fix shelf and scrapped.
LEMMA IssueLedger ==
    ASSUME Ledger, NEW q \in Counts, NEW fix \in Counts, NEW scrap \in Counts,
           issue_items(q, fix, scrap)
    PROVE  Ledger'
  <1>1. ASSUME NEW p \in Products
        PROVE  [product[p] EXCEPT !["reserved"]  = @ - q[p],
                                  !["issued"]    = @ + (q[p] - fix[p] - scrap[p]),
                                  !["needs_fix"] = @ + fix[p],
                                  !["total"]     = @ - scrap[p]] \in SoundRows
    <2> DEFINE row == product[p]
               new == [row EXCEPT !["reserved"]  = @ - q[p],
                                  !["issued"]    = @ + (q[p] - fix[p] - scrap[p]),
                                  !["needs_fix"] = @ + fix[p],
                                  !["total"]     = @ - scrap[p]]
    <2>1. row \in Rows /\ Held(row) <= row["total"]
      BY DEF Ledger, SoundRows
    <2>2. /\ q[p] \in Nat /\ fix[p] \in Nat /\ scrap[p] \in Nat
          /\ fix[p] + scrap[p] <= q[p] /\ row["reserved"] >= q[p]
      BY DEF issue_items, Counts
    <2>3. /\ new["reserved"] = row["reserved"] - q[p]
          /\ new["issued"] = row["issued"] + (q[p] - fix[p] - scrap[p])
          /\ new["needs_fix"] = row["needs_fix"] + fix[p]
          /\ new["total"] = row["total"] - scrap[p]
          /\ new["available"] = row["available"]
          /\ new["damaged"] = row["damaged"] /\ new["lost"] = row["lost"]
          /\ new = [b \in QuantityFields |-> new[b]]
      BY <2>1 DEF Rows, QuantityFields, Buckets
    <2> HIDE DEF new, row
    <2>4. new \in SoundRows
      BY <2>1, <2>2, <2>3, FieldwiseSound DEF Rows, QuantityFields, Buckets, Held
    <2> QED
      BY <2>4 DEF new, row
  <1> QED
    BY <1>1 DEF issue_items, Ledger

\* return_items.
LEMMA ReturnLedger ==
    ASSUME Ledger, NEW res \in [Products -> [Outcomes -> Nat]], return_items(res)
    PROVE  Ledger'
  <1>1. ASSUME NEW p \in Products
        PROVE  [product[p] EXCEPT !["issued"]    = @ - Resolved(res, p),
                                  !["available"] = @ + res[p]["returned"],
                                  !["damaged"]   = @ + res[p]["damaged"],
                                  !["lost"]      = @ + res[p]["missing"]] \in SoundRows
    <2>1. res[p]["returned"] \in Nat /\ res[p]["damaged"] \in Nat /\ res[p]["missing"] \in Nat
      BY DEF Outcomes
    <2>2. product[p]["issued"] >= res[p]["returned"] + res[p]["damaged"] + res[p]["missing"]
      BY DEF return_items, Resolved
    <2> DEFINE row == product[p]
               new == [row EXCEPT !["issued"]    = @ - Resolved(res, p),
                                  !["available"] = @ + res[p]["returned"],
                                  !["damaged"]   = @ + res[p]["damaged"],
                                  !["lost"]      = @ + res[p]["missing"]]
    <2>3. row \in Rows /\ Held(row) <= row["total"]
      BY DEF Ledger, SoundRows
    <2>4. /\ new["issued"] = row["issued"] - (res[p]["returned"] + res[p]["damaged"] + res[p]["missing"])
          /\ new["available"] = row["available"] + res[p]["returned"]
          /\ new["damaged"] = row["damaged"] + res[p]["damaged"]
          /\ new["lost"] = row["lost"] + res[p]["missing"]
          /\ new["total"] = row["total"] /\ new["reserved"] = row["reserved"]
          /\ new["needs_fix"] = row["needs_fix"]
          /\ new = [b \in QuantityFields |-> new[b]]
      BY <2>3 DEF Rows, QuantityFields, Buckets, Resolved
    <2> HIDE DEF new
    <2>5. new \in SoundRows
      BY <2>1, <2>2, <2>3, <2>4, FieldwiseSound DEF Rows, QuantityFields, Buckets, Held
    <2> QED
      BY <2>5 DEF new
  <1> QED
    BY <1>1 DEF return_items, Ledger

\* issue_available.
LEMMA IssueAvailableLedger ==
    ASSUME Ledger, NEW q \in Counts, issue_available(q)
    PROVE  Ledger'
  <1>1. ASSUME NEW p \in Products
        PROVE  Shift(product[p], "available", "issued", q[p]) \in SoundRows
    BY ShiftSound DEF issue_available, Ledger, Counts, Buckets
  <1> QED
    BY <1>1 DEF issue_available, Ledger

\* return_to_available.
LEMMA ReturnAvailableLedger ==
    ASSUME Ledger, NEW q \in Counts, return_to_available(q)
    PROVE  Ledger'
  <1>1. ASSUME NEW p \in Products
        PROVE  Shift(product[p], "issued", "available", q[p]) \in SoundRows
    BY ShiftSound DEF return_to_available, Ledger, Counts, Buckets
  <1> QED
    BY <1>1 DEF return_to_available, Ledger

\* release_request_reservation: the reserved bucket holds the whole demand,
\* hence the released quantity; lines without an item release nothing.
LEMMA ReleaseLedger ==
    ASSUME Ledger, NEW q \in Counts, NEW lines, NEW demand,
           \A p \in Products \ lines : q[p] = 0,
           lines \subseteq Products,
           release_request_reservation(lines, q, demand)
    PROVE  Ledger'
  <1>1. ASSUME NEW p \in Products
        PROVE  Shift(product[p], "reserved", "available", q[p]) \in SoundRows
    <2>1. product[p] \in SoundRows /\ product[p]["reserved"] \in Nat /\ q[p] \in Nat
      BY DEF Ledger, SoundRows, Rows, QuantityFields, Buckets, Counts
    <2>2. product[p]["reserved"] >= q[p]
      <3>1. CASE p \in lines
        <4>1. demand[p] \in q[p] .. product[p]["reserved"]
          BY <3>1 DEF release_request_reservation, ReservationAttributable
        <4> QED
          BY <2>1, <4>1
      <3>2. CASE p \notin lines
        BY <2>1, <3>2
      <3> QED
        BY <3>1, <3>2
    <2> QED
      BY <2>1, <2>2, ShiftSound DEF Buckets
  <1> QED
    BY <1>1 DEF release_request_reservation, Ledger

\* adjust_quantities recounts the total.
LEMMA AdjustLedger ==
    ASSUME Ledger, NEW p \in Products, NEW da \in Int, NEW dd \in Int, NEW dl \in Int,
           adjust_quantities(p, da, dd, dl)
    PROVE  Ledger'
  <1> DEFINE row == product[p]
             new == [row EXCEPT !["available"] = @ + da, !["damaged"] = @ + dd, !["lost"] = @ + dl]
  <1>1. row \in Rows
    BY DEF Ledger, SoundRows
  <1>2. new \in Rows
    BY <1>1 DEF adjust_quantities, Rows, QuantityFields, Buckets
  <1>3. Recount(new) \in SoundRows
    BY <1>2, RecountRow
  <1>4. product' = [product EXCEPT ![p] = Recount(new)]
    BY DEF adjust_quantities
  <1> HIDE DEF row, new
  <1> QED
    BY <1>3, <1>4 DEF Ledger

\* move_asset_status reconciles the product and moves one unit.
LEMMA MoveLedger ==
    ASSUME Ledger, NEW a \in Assets, NEW s, move_asset_status(a, s)
    PROVE  Ledger'
  <1> DEFINE p   == ProductOf[a]
             old == ASSET_QUANTITY_BUCKETS[asset[a]]
             new == ASSET_QUANTITY_BUCKETS[s]
             row == reconcile_individual_product_from_assets(p, asset)
  <1>1. p \in Products
    OBVIOUS
  <1>2. /\ asset[a] \in AssetStatus \ {"retired"} /\ s \in AssetStatus \ {"retired"}
        /\ asset[a] # s
    BY DEF move_asset_status, ASSET_QUANTITY_BUCKETS
  <1>3. old \in Buckets /\ new \in Buckets /\ old # new
    <2>1. \A x \in AssetStatus \ {"retired"} :
             ASSET_QUANTITY_BUCKETS[x] = IF x = "maintenance" THEN "needs_fix" ELSE x
      BY DEF ASSET_QUANTITY_BUCKETS
    <2> QED
      BY <1>2, <2>1 DEF AssetStatus, Buckets
  <1>4. row \in SoundRows
    BY <1>1, ReconcileRow DEF move_asset_status
  <1>5. row[old] >= 1 /\ product' = [product EXCEPT ![p] = Shift(row, old, new, 1)]
    BY DEF move_asset_status
  <1> HIDE DEF p, old, new, row
  <1>6. Shift(row, old, new, 1) \in SoundRows
    BY <1>3, <1>4, <1>5, ShiftSound
  <1> QED
    BY <1>5, <1>6 DEF Ledger

\* The stock side of triage_problem_report.
LEMMA TriageLedger ==
    ASSUME Ledger, NEW r, NEW outcome \in TriageOutcomes, NEW q \in Counts, NEW moved,
           _move_stock(r, outcome, q, moved)
    PROVE  Ledger'
  <1> DEFINE bucket == ASSET_QUANTITY_BUCKETS[ASSET_STATUS_OUTCOMES[outcome]]
             row(p) == reconcile_individual_product_from_assets(p, asset)
  <1>1. bucket \in Buckets /\ bucket # "available"
    BY DEF TriageOutcomes, ASSET_STATUS_OUTCOMES, ASSET_QUANTITY_BUCKETS, AssetStatus, Buckets
  <1>2. ASSUME NEW p \in Products, q[p] # 0
        PROVE  Recount(Shift(row(p), "available", bucket, q[p])) \in SoundRows
    <2>1. q[p] \in Nat /\ q[p] > 0
      BY <1>2 DEF Counts
    <2>2. Reconcilable(p, asset) /\ row(p)["available"] >= q[p]
      BY <2>1 DEF _move_stock
    <2>3. row(p) \in SoundRows
      BY <2>2, ReconcileRow
    <2>4. row(p) \in Rows
      BY <2>3 DEF SoundRows
    <2> HIDE DEF bucket, row
    <2>5. Shift(row(p), "available", bucket, q[p]) \in Rows
      BY <1>1, <2>1, <2>2, <2>4, ShiftRow DEF Buckets
    <2> QED
      BY <2>5, RecountRow
  <1>3. product' = [p \in Products |-> IF q[p] = 0 THEN product[p]
                                      ELSE Recount(Shift(row(p), "available", bucket, q[p]))]
    BY DEF _move_stock
  <1> HIDE DEF bucket, row
  <1> QED
    BY <1>2, <1>3 DEF Ledger

-----------------------------------------------------------------------------
(* The staff operations keep the inventory well-formed.                    *)

\* Units that enter or leave through a bucket change the total alike.
LEMMA ResizeSound ==
    ASSUME NEW row \in SoundRows, NEW b \in {"available", "needs_fix"}, NEW q \in Int, row[b] + q >= 0
    PROVE  Resize(row, b, q) \in SoundRows
  <1> DEFINE new == Resize(row, b, q)
  <1>1. row \in Rows /\ Held(row) <= row["total"]
    BY DEF SoundRows
  <1>2. /\ new["total"] = row["total"] + q
        /\ new[b] = row[b] + q
        /\ \A c \in Buckets \ {b} : new[c] = row[c]
        /\ new = [c \in QuantityFields |-> new[c]]
    BY <1>1 DEF Resize, Rows, QuantityFields, Buckets
  <1>3. \A c \in Buckets : row[c] \in Nat
    BY <1>1 DEF Rows, QuantityFields
  <1> HIDE DEF new
  <1>4. Held(new) = Held(row) + q /\ \A c \in Buckets : new[c] \in Nat
    <2>1. CASE b = "available"
      BY <1>2, <1>3, <2>1 DEF Held, Buckets
    <2>2. CASE b = "needs_fix"
      BY <1>2, <1>3, <2>2 DEF Held, Buckets
    <2> QED
      BY <2>1, <2>2
  <1>5. Held(new) \in Nat /\ Held(row) \in Nat /\ row["total"] \in Nat
    <2>1. row["total"] \in Nat
      BY <1>1 DEF Rows, QuantityFields
    <2> QED
      BY <1>1, <1>4, <2>1, HeldNat DEF Held, Buckets
  <1> QED
    BY <1>1, <1>2, <1>4, <1>5, FieldwiseSound DEF Buckets, new

\* A row the create serializer or a first generation of units admits.
LEMMA CreatedSound ==
    ASSUME NEW total \in Nat, NEW available \in Nat, available <= total
    PROVE  CreatedRow(total, available) \in SoundRows
  <1> DEFINE row == CreatedRow(total, available)
  <1>1. /\ row["available"] = available /\ row["total"] = total
        /\ row["reserved"] = 0 /\ row["issued"] = 0 /\ row["damaged"] = 0
        /\ row["lost"] = 0 /\ row["needs_fix"] = 0
        /\ row = [b \in QuantityFields |-> row[b]]
    BY DEF CreatedRow, QuantityFields, Buckets
  <1> HIDE DEF row
  <1>2. Held(row) = available
    BY <1>1 DEF Held
  <1>3. row \in SoundRows
    BY <1>1, <1>2, FieldwiseSound
  <1> QED
    BY <1>3 DEF row

\* One row of the product table is replaced by a sound one.
LEMMA ReplaceRow ==
    ASSUME Ledger, NEW p \in Products, NEW row \in SoundRows,
           product' = [product EXCEPT ![p] = row]
    PROVE  Ledger'
  BY DEF Ledger

\* Quantity corrections, repairs, scrapping, transfers and consumption.
LEMMA QuantityStep ==
    ASSUME Stock, NEW p \in Products,
           \/ \E da, dd, dl \in -MaxDelta .. MaxDelta : adjust_manual_quantities(p, da, dd, dl)
           \/ \E q \in 1 .. MaxDelta :
                 \/ repair_from_needs_fix(p, q)
                 \/ move_available_to_needs_fix(p, q)
                 \/ scrap_from_needs_fix(p, q)
                 \/ log_consumption(p, q)
                 \/ \E d \in Products : transfer_available_quantity(p, d, q)
    PROVE  Stock'
  <1>0. Ledger /\ product[p] \in SoundRows /\ \A b \in QuantityFields : product[p][b] \in Nat
    BY DEF Stock, Ledger, SoundRows, Rows
  <1>1. CASE \E da, dd, dl \in -MaxDelta .. MaxDelta : adjust_manual_quantities(p, da, dd, dl)
    <2>1. PICK da, dd, dl \in -MaxDelta .. MaxDelta : adjust_manual_quantities(p, da, dd, dl)
      BY <1>1
    <2>2. Ledger'
      BY <1>0, <2>1, AdjustLedger DEF adjust_manual_quantities
    <2> QED
      BY <2>1, <2>2 DEF adjust_manual_quantities, Stock
  <1>2. ASSUME NEW q \in 1 .. MaxDelta, repair_from_needs_fix(p, q)
        PROVE  Stock'
    <2>1. Shift(product[p], "needs_fix", "available", q) \in SoundRows
      BY <1>0, <1>2, ShiftSound DEF repair_from_needs_fix, Buckets
    <2>2. Ledger'
      BY <1>0, <1>2, <2>1, ReplaceRow DEF repair_from_needs_fix
    <2> QED
      BY <1>2, <2>2 DEF repair_from_needs_fix, Stock
  <1>3. ASSUME NEW q \in 1 .. MaxDelta, move_available_to_needs_fix(p, q)
        PROVE  Stock'
    <2>1. Shift(product[p], "available", "needs_fix", q) \in SoundRows
      BY <1>0, <1>3, ShiftSound DEF move_available_to_needs_fix, Buckets
    <2>2. Ledger'
      BY <1>0, <1>3, <2>1, ReplaceRow DEF move_available_to_needs_fix
    <2> QED
      BY <1>3, <2>2 DEF move_available_to_needs_fix, Stock
  <1>4. ASSUME NEW q \in 1 .. MaxDelta, scrap_from_needs_fix(p, q)
        PROVE  Stock'
    <2>1. -q \in Int /\ product[p]["needs_fix"] + (-q) >= 0
      BY <1>0, <1>4 DEF scrap_from_needs_fix, QuantityFields, Buckets
    <2>2. Resize(product[p], "needs_fix", -q) \in SoundRows
      BY <1>0, <2>1, ResizeSound
    <2>3. Ledger'
      BY <1>0, <1>4, <2>2, ReplaceRow DEF scrap_from_needs_fix
    <2> QED
      BY <1>4, <2>3 DEF scrap_from_needs_fix, Stock
  <1>5. ASSUME NEW q \in 1 .. MaxDelta, log_consumption(p, q)
        PROVE  Stock'
    <2>1. -q \in Int
      OBVIOUS
    <2>2. Ledger'
      BY <1>0, <1>5, <2>1, AdjustLedger DEF log_consumption
    <2> QED
      BY <1>5, <2>2 DEF log_consumption, Stock
  <1>6. ASSUME NEW q \in 1 .. MaxDelta, NEW d \in Products, transfer_available_quantity(p, d, q)
        PROVE  Stock'
    <2>1. /\ q \in Nat /\ -q \in Int /\ p # d
          /\ product[p]["available"] + (-q) >= 0
          /\ product[d]["available"] + q >= 0
      BY <1>0, <1>6 DEF transfer_available_quantity, Stock, Ledger, SoundRows, Rows,
                        QuantityFields, Buckets
    <2>2. Resize(product[p], "available", -q) \in SoundRows
      BY <1>0, <2>1, ResizeSound
    <2>3. Resize(product[d], "available", q) \in SoundRows
      BY <2>1, ResizeSound DEF Stock, Ledger
    <2>4. product' = [product EXCEPT ![p] = Resize(product[p], "available", -q),
                                     ![d] = Resize(product[d], "available", q)]
      BY <1>6, <2>1 DEF transfer_available_quantity, Stock, Ledger
    <2>5. Ledger'
      BY <1>0, <2>2, <2>3, <2>4 DEF Ledger
    <2> QED
      BY <1>6, <2>5 DEF transfer_available_quantity, Stock
  <1> QED
    BY <1>1, <1>2, <1>3, <1>4, <1>5, <1>6

\* move_asset_status keeps the asset column well-typed too.
LEMMA MoveStock ==
    ASSUME Stock, NEW a \in Assets, NEW s \in AssetStatus, move_asset_status(a, s)
    PROVE  Ledger' /\ asset' \in [Assets -> AssetStatus \cup {"absent"}]
  BY MoveLedger DEF Stock, move_asset_status

\* One unit leaves or enters the available bucket, and the total is counted anew.
LEMMA MovedRow ==
    ASSUME NEW row \in SoundRows, NEW q \in {-1, 1}, row["available"] + q >= 0
    PROVE  Moved(row, q) \in SoundRows
  <1> DEFINE new == [row EXCEPT !["available"] = @ + q]
  <1>1. new \in Rows
    BY DEF SoundRows, Rows, QuantityFields, Buckets
  <1>2. Recount(new) \in SoundRows
    BY <1>1, RecountRow
  <1> QED
    BY <1>2 DEF Moved

\* A unit that goes to another makerspace changes two rows.
LEMMA RebindStock ==
    ASSUME Stock, NEW a \in Assets, NEW b \in Assets, NEW onLoan,
           move_asset_across_makerspaces(a, b, onLoan)
    PROVE  Stock'
  <1> DEFINE p == ProductOf[a]
             d == ProductOf[b]
  <1>1. p \in Products /\ d \in Products /\ p # d
    BY InventoryAssumption DEF move_asset_across_makerspaces
  <1>2. product[p] \in SoundRows /\ product[d] \in SoundRows
    BY <1>1 DEF Stock, Ledger
  <1>3. product[p]["available"] \in Nat /\ product[d]["available"] \in Nat
    BY <1>2 DEF SoundRows, Rows, QuantityFields, Buckets
  <1>4. Moved(product[p], -1) \in SoundRows /\ Moved(product[d], 1) \in SoundRows
    BY <1>2, <1>3, MovedRow DEF move_asset_across_makerspaces
  <1>5. product' = [product EXCEPT ![p] = Moved(product[p], -1), ![d] = Moved(product[d], 1)]
    BY <1>1 DEF move_asset_across_makerspaces, Stock, Ledger
  <1> HIDE DEF p, d
  <1>6. Ledger'
    BY <1>1, <1>4, <1>5 DEF Stock, Ledger
  <1> QED
    BY <1>6 DEF move_asset_across_makerspaces, Stock, Places, AssetStatus

\* Unit repairs, shelving and transfers.
LEMMA UnitStep ==
    ASSUME Stock, NEW a \in Assets, NEW onLoan,
           \/ ShelveAsset(a)
           \/ RepairAsset(a)
           \/ \E s \in AssetStatus, b \in Places : TransferAsset(a, s, b, onLoan)
           \/ \E b \in Assets : move_asset_across_makerspaces(a, b, onLoan)
    PROVE  Stock'
  <1>1. CASE ShelveAsset(a)
    <2>1. Ledger' /\ asset' \in [Assets -> AssetStatus \cup {"absent"}]
      BY <1>1, MoveStock DEF ShelveAsset, AssetStatus
    <2> QED
      BY <1>1, <2>1 DEF ShelveAsset, Stock
  <1>2. CASE RepairAsset(a)
    <2>1. Ledger' /\ asset' \in [Assets -> AssetStatus \cup {"absent"}]
      BY <1>2, MoveStock DEF RepairAsset, AssetStatus
    <2> QED
      BY <1>2, <2>1 DEF RepairAsset, Stock
  <1>3. ASSUME NEW s \in AssetStatus, NEW b \in Places, TransferAsset(a, s, b, onLoan)
        PROVE  Stock'
    <2>1. Ledger' /\ asset' \in [Assets -> AssetStatus \cup {"absent"}]
      <3>1. CASE s = asset[a]
        BY <1>3, <3>1 DEF TransferAsset, Stock, Ledger
      <3>2. CASE s # asset[a]
        BY <1>3, <3>2, MoveStock DEF TransferAsset
      <3> QED
        BY <3>1, <3>2
    <2> QED
      BY <1>3, <2>1 DEF TransferAsset, Stock
  <1> QED
    BY <1>1, <1>2, <1>3, RebindStock

\* Moves of a product row, tracking modes, generated units and consumables.
LEMMA CatalogueStep ==
    ASSUME Stock, NEW p \in Products, NEW open,
           \/ \E b \in Places : MoveProductRow(p, b)
           \/ change_tracking_mode(p, open)
           \/ \E new \in SUBSET AssetsOf(p) : generate_assets_with_qr(p, new, open)
           \/ link_consumable(p)
           \/ unlink_consumable(p)
    PROVE  Stock'
  <1>1. CASE \E b \in Places : MoveProductRow(p, b)
    BY <1>1 DEF MoveProductRow, Stock, Ledger
  <1>2. CASE change_tracking_mode(p, open)
    BY <1>2 DEF change_tracking_mode, Stock, Ledger
  <1>3. ASSUME NEW new \in SUBSET AssetsOf(p), generate_assets_with_qr(p, new, open)
        PROVE  Stock'
    <2> DEFINE st == [a \in Assets |-> IF a \in new THEN "available" ELSE asset[a]]
    <2>1. Ledger'
      <3>1. CASE mode[p] = "individual"
        <4>1. Reconcilable(p, st) /\ product' = [product EXCEPT ![p] =
                                        reconcile_individual_product_from_assets(p, st)]
          BY <1>3, <3>1 DEF generate_assets_with_qr
        <4> HIDE DEF st
        <4>2. reconcile_individual_product_from_assets(p, st) \in SoundRows
          BY <4>1, ReconcileRow DEF Stock
        <4> QED
          BY <4>1, <4>2, ReplaceRow DEF Stock
      <3>2. CASE mode[p] # "individual"
        <4>1. product' = [product EXCEPT ![p] = CreatedRow(Cardinality(new), Cardinality(new))]
          BY <1>3, <3>2 DEF generate_assets_with_qr
        <4>2. Cardinality(new) \in Nat
          BY FS_Subset, FS_CardinalityType DEF AssetsOf
        <4>3. CreatedRow(Cardinality(new), Cardinality(new)) \in SoundRows
          BY <4>2, CreatedSound
        <4> QED
          BY <4>1, <4>3, ReplaceRow DEF Stock
      <3> QED
        BY <3>1, <3>2
    <2>2. asset' \in [Assets -> AssetStatus \cup {"absent"}]
      BY <1>3 DEF generate_assets_with_qr, Stock, AssetStatus
    <2>3. place' \in [Products \cup Assets -> Places]
      BY <1>3 DEF generate_assets_with_qr, Stock
    <2> QED
      BY <1>3, <2>1, <2>2, <2>3 DEF generate_assets_with_qr, Stock
  <1>4. CASE link_consumable(p)
    BY <1>4 DEF link_consumable, Stock, Ledger
  <1>5. CASE unlink_consumable(p)
    BY <1>5 DEF unlink_consumable, Stock, Ledger
  <1> QED
    BY <1>1, <1>2, <1>3, <1>4, <1>5

\* Every staff operation.
LEMMA StaffStock ==
    ASSUME Stock, StaffNext
    PROVE  Stock'
  BY QuantityStep, UnitStep, CatalogueStep DEF StaffNext, InventoryNext

-----------------------------------------------------------------------------
(* The workflows keep the invariant, one lemma per action.                 *)

\* The quantities of one counter column.
LEMMA ColumnCounts ==
    ASSUME RequestRows, NEW r \in Requests, NEW c \in Counters
    PROVE  Column(r, c) \in Counts
  BY DEF RequestRows, Column, Counts

\* The quantities of an input.
LEMMA QuantitiesCounts == Quantities \subseteq Counts
  BY DEF Quantities, Counts

\* A step that replaces the items and the status of one request.
LEMMA ItemsStep ==
    ASSUME Inv, NEW r \in Requests, NEW rows \in ItemRows, NEW s \in Status,
           item' = [item EXCEPT ![r] = rows], status' = [status EXCEPT ![r] = s],
           \A p \in Products : SoundItem(rows[p]),
           s \in {"pending_approval", "accepted"} =>
              \A p \in Products, c \in Counters \ {"requested", "accepted"} : rows[p][c] = 0
    PROVE  /\ item' \in [Requests -> ItemRows]
           /\ status' \in [Requests -> Status \cup {"none"}]
           /\ ItemLedger' /\ Untouched'
  <1>1. item \in [Requests -> ItemRows] /\ status \in [Requests -> Status \cup {"none"}]
    BY DEF Inv, RequestRows, ItemRows
  <1>2. \A x \in Requests :
           /\ item'[x] = IF x = r THEN rows ELSE item[x]
           /\ status'[x] = IF x = r THEN s ELSE status[x]
    BY <1>1
  <1>3. \A x \in Requests, p \in Products : SoundItem(item[x][p])
    BY DEF Inv, ItemLedger, SoundItem
  <1>4. \A x \in Requests, p \in Products : SoundItem(item'[x][p])
    BY <1>2, <1>3
  <1>5. ItemLedger'
    BY <1>4 DEF ItemLedger, SoundItem, remaining_quantity
  <1>6. Untouched'
    BY <1>2 DEF Inv, Untouched
  <1> QED
    BY <1>1, <1>5, <1>6

\* A step that leaves the items and every status alone, or moves a request
\* away from review without touching its items.
LEMMA ItemsKept ==
    ASSUME Inv, item' = item,
           \A r \in Requests : status'[r] \in {"pending_approval", "accepted"} =>
                                 status'[r] = status[r]
    PROVE  ItemLedger' /\ Untouched'
  BY DEF Inv, ItemLedger, Untouched, remaining_quantity

\* submit_request.
LEMMA SubmitInv ==
    ASSUME Inv, NEW r \in Requests, NEW q \in Quantities, NEW key \in Keys \cup {None},
           submit_request(r, q, key)
    PROVE  Inv'
  <1> DEFINE rows == [p \in Products |-> [NoItems[p] EXCEPT !["requested"] = q[p]]]
  <1>1. Stock' /\ LoanRows'
    BY DEF submit_request, Inv, Stock, Ledger, LoanRows, inventoryVars, loanVars
  <1>2. /\ rows \in ItemRows
        /\ \A p \in Products : \A c \in Counters \ {"requested"} : rows[p][c] = 0
    BY QuantitiesCounts DEF NoItems, Counts, Counters, ItemRows
  <1>3. item' = [item EXCEPT ![r] = rows] /\ status' = [status EXCEPT ![r] = "pending_approval"]
    BY DEF submit_request
  <1>4. \A p \in Products : SoundItem(rows[p])
    BY <1>2 DEF ItemRows, SoundItem, remaining_quantity, Counters
  <1> HIDE DEF rows
  <1>5. /\ item' \in [Requests -> ItemRows] /\ status' \in [Requests -> Status \cup {"none"}]
        /\ ItemLedger' /\ Untouched'
    BY <1>2, <1>3, <1>4, ItemsStep DEF Status
  <1>6. RequestRows'
    BY <1>5 DEF submit_request, Inv, RequestRows, ItemRows
  <1> QED
    BY <1>1, <1>5, <1>6 DEF Inv

\* accept_request.
LEMMA AcceptInv ==
    ASSUME Inv, NEW r \in Requests, NEW q \in Quantities, accept_request(r, q)
    PROVE  Inv'
  <1> DEFINE rows == [p \in Products |-> [item[r][p] EXCEPT !["accepted"] = q[p]]]
  <1>1. Ledger'
    BY ReserveLedger, QuantitiesCounts DEF accept_request, Inv, Stock
  <1>2. Stock' /\ LoanRows'
    BY <1>1 DEF accept_request, Inv, Stock, LoanRows, loanVars
  <1>3. rows \in ItemRows
    BY QuantitiesCounts DEF Counts, Counters, Inv, RequestRows, ItemRows
  <1>4. \A p \in Products :
           /\ \A c \in Counters \ {"requested", "accepted"} : rows[p][c] = 0
           /\ rows[p]["accepted"] = q[p] /\ rows[p]["requested"] = item[r][p]["requested"]
           /\ q[p] <= item[r][p]["requested"]
    BY DEF accept_request, Inv, RequestRows, Untouched, Counters
  <1>5. item' = [item EXCEPT ![r] = rows] /\ status' = [status EXCEPT ![r] = "accepted"]
    BY DEF accept_request
  <1> HIDE DEF rows
  <1>6. \A p \in Products : SoundItem(rows[p])
    BY <1>3, <1>4 DEF ItemRows, SoundItem, remaining_quantity, Counters
  <1>7. /\ item' \in [Requests -> ItemRows] /\ status' \in [Requests -> Status \cup {"none"}]
        /\ ItemLedger' /\ Untouched'
    BY <1>3, <1>4, <1>5, <1>6, ItemsStep DEF Status
  <1>8. RequestRows'
    BY <1>7 DEF accept_request, Inv, RequestRows, ItemRows
  <1> QED
    BY <1>2, <1>7, <1>8 DEF Inv

\* reject_request.
LEMMA RejectInv ==
    ASSUME Inv, NEW r \in Requests, reject_request(r)
    PROVE  Inv'
  <1>1. Stock' /\ LoanRows'
    BY DEF reject_request, Inv, Stock, Ledger, LoanRows, inventoryVars, loanVars
  <1>2. RequestRows'
    BY DEF reject_request, Inv, RequestRows, Status
  <1>3. ItemLedger' /\ Untouched'
    BY ItemsKept DEF reject_request, Inv, RequestRows
  <1> QED
    BY <1>1, <1>2, <1>3 DEF Inv

\* assign_box.
LEMMA AssignInv ==
    ASSUME Inv, NEW r \in Requests, NEW b \in Boxes, assign_box(r, b)
    PROVE  Inv'
  <1>1. Stock' /\ LoanRows'
    BY DEF assign_box, Inv, Stock, Ledger, LoanRows, inventoryVars, loanVars
  <1>2. RequestRows'
    BY DEF assign_box, Inv, RequestRows, Places
  <1>3. ItemLedger' /\ Untouched'
    BY ItemsKept DEF assign_box
  <1> QED
    BY <1>1, <1>2, <1>3 DEF Inv

\* cancel_request.
LEMMA CancelInv ==
    ASSUME Inv, NEW r \in Requests, cancel_request(r)
    PROVE  Inv'
  <1>1. \A p \in Products \ Lines(r) : Column(r, "accepted")[p] = 0
    BY DEF Inv, RequestRows, Lines, Column, Counters, ItemLedger
  <1>2. Ledger'
    <2>1. Column(r, "accepted") \in Counts /\ Lines(r) \subseteq Products
      BY ColumnCounts DEF Inv, Lines, Counters
    <2> QED
      BY <1>1, <2>1, ReleaseLedger DEF cancel_request, Inv, Stock
  <1>3. Stock' /\ LoanRows'
    BY <1>2 DEF cancel_request, Inv, Stock, LoanRows, loanVars
  <1>4. RequestRows'
    BY DEF cancel_request, Inv, RequestRows, Status, Places
  <1>5. ItemLedger' /\ Untouched'
    BY ItemsKept DEF cancel_request, Inv, RequestRows
  <1> QED
    BY <1>3, <1>4, <1>5 DEF Inv

\* issue_request.
LEMMA IssueInv ==
    ASSUME Inv, NEW r \in Requests, NEW e \in IssuePhotos, NEW scanned \in SUBSET Assets,
           NEW fix \in Quantities, NEW scrap \in Quantities,
           issue_request(r, e, scanned, fix, scrap)
    PROVE  Inv'
  <1> DEFINE q == Column(r, "accepted")
             rows == [p \in Products |->
                [item[r][p] EXCEPT !["issued"] = q[p] - fix[p] - scrap[p], !["needs_fix"] = fix[p]]]
  <1>1. q \in Counts /\ fix \in Counts /\ scrap \in Counts
    BY ColumnCounts, QuantitiesCounts DEF Inv, Counters
  <1>2. /\ status[r] = "accepted"
        /\ issue_items(q, fix, scrap)
        /\ \A p \in Products : fix[p] + scrap[p] <= q[p]
        /\ item' = [item EXCEPT ![r] = rows] /\ status' = [status EXCEPT ![r] = "issued"]
        /\ asset' = [a \in Assets |-> IF a \in scanned THEN "issued" ELSE asset[a]]
    BY DEF issue_request, issue_individual_assets, validate_broken_rejects
  <1>3. Ledger'
    <2> HIDE DEF q
    <2> QED
      BY <1>1, <1>2, IssueLedger DEF Inv, Stock
  <1>4. Stock' /\ LoanRows'
    BY <1>2, <1>3 DEF issue_request, Inv, Stock, LoanRows, loanVars, AssetStatus
  <1>5. \A p \in Products :
           /\ q[p] = item[r][p]["accepted"]
           /\ q[p] \in Nat /\ fix[p] \in Nat /\ scrap[p] \in Nat
           /\ q[p] - fix[p] - scrap[p] \in Nat
    BY <1>1, <1>2 DEF Counts, Column
  <1>6. \A p \in Products :
           /\ item[r][p] \in [Counters -> Nat]
           /\ item[r][p]["returned"] = 0 /\ item[r][p]["damaged"] = 0 /\ item[r][p]["missing"] = 0
           /\ item[r][p]["accepted"] <= item[r][p]["requested"]
    BY <1>2 DEF Inv, RequestRows, Untouched, ItemLedger, Counters
  <1> HIDE DEF q
  <1>7. rows \in ItemRows
    BY <1>5, <1>6 DEF ItemRows, Counters
  <1>8. \A p \in Products : SoundItem(rows[p])
    <2> SUFFICES ASSUME NEW p \in Products
                 PROVE  SoundItem(rows[p])
      OBVIOUS
    <2>1. /\ rows[p]["issued"] = q[p] - fix[p] - scrap[p] /\ rows[p]["needs_fix"] = fix[p]
          /\ rows[p]["accepted"] = q[p] /\ rows[p]["requested"] = item[r][p]["requested"]
          /\ rows[p]["returned"] = 0 /\ rows[p]["damaged"] = 0 /\ rows[p]["missing"] = 0
      BY <1>5, <1>6 DEF Counters
    <2>2. item[r][p]["requested"] \in Nat /\ q[p] <= item[r][p]["requested"]
      BY <1>5, <1>6 DEF Counters
    <2> HIDE DEF rows
    <2> QED
      BY <1>5, <2>1, <2>2 DEF SoundItem, remaining_quantity
  <1> HIDE DEF rows
  <1>9. /\ item' \in [Requests -> ItemRows] /\ status' \in [Requests -> Status \cup {"none"}]
        /\ ItemLedger' /\ Untouched'
    BY <1>2, <1>7, <1>8, ItemsStep DEF Status
  <1>10. RequestRows'
    BY <1>9 DEF issue_request, Inv, RequestRows, ItemRows
  <1> QED
    BY <1>4, <1>9, <1>10 DEF Inv

\* The resolutions of a return are naturals: stated ones for quantity
\* products, counted ones for individual products.
LEMMA Resolutions ==
    ASSUME Inv, NEW out,
           NEW given \in [{p \in Products : mode[p] = "quantity"} -> [Outcomes -> 0 .. MaxQty]]
    PROVE  build_resolutions(given, out) \in [Products -> [Outcomes -> Nat]]
  <1>1. ASSUME NEW p \in Products, mode[p] = "individual"
        PROVE  _individual_counts(p, out) \in [Outcomes -> Nat]
    <2>1. \A o : IsFiniteSet({a \in AssetsOf(p) : out[a] = o})
      BY FS_Subset DEF AssetsOf
    <2>2. \A o : Cardinality({a \in AssetsOf(p) : out[a] = o}) \in Nat
      BY <2>1, FS_CardinalityType
    <2> QED
      BY <2>2 DEF _individual_counts
  <1>2. ASSUME NEW p \in Products, mode[p] # "individual"
        PROVE  given[p] \in [Outcomes -> Nat]
    <2>1. mode[p] = "quantity"
      BY <1>2 DEF Inv, Stock
    <2> QED
      BY <2>1
  <1> QED
    BY <1>1, <1>2 DEF build_resolutions

\* A resolution that fits into what remains leaves sound items.
LEMMA ResolveSound ==
    ASSUME Inv, NEW r \in Requests, NEW res \in [Products -> [Outcomes -> Nat]],
           \A p \in Products : Resolved(res, p) <= remaining_quantity(item[r][p])
    PROVE  /\ ResolveItems(r, res) \in ItemRows
           /\ \A p \in Products : SoundItem(ResolveItems(r, res)[p])
  <1>1. \A p \in Products :
           /\ item[r][p] \in [Counters -> Nat]
           /\ res[p]["returned"] \in Nat /\ res[p]["damaged"] \in Nat /\ res[p]["missing"] \in Nat
    BY DEF Inv, RequestRows, Outcomes
  <1>2. ResolveItems(r, res) \in ItemRows
    <2>1. ASSUME NEW p \in Products
          PROVE  [item[r][p] EXCEPT !["returned"] = @ + res[p]["returned"],
                                    !["damaged"]  = @ + res[p]["damaged"],
                                    !["missing"]  = @ + res[p]["missing"]] \in [Counters -> Nat]
      <3> DEFINE old == item[r][p]
                 new == [old EXCEPT !["returned"] = @ + res[p]["returned"],
                                    !["damaged"]  = @ + res[p]["damaged"],
                                    !["missing"]  = @ + res[p]["missing"]]
      <3>1. /\ new["returned"] = old["returned"] + res[p]["returned"]
            /\ new["damaged"] = old["damaged"] + res[p]["damaged"]
            /\ new["missing"] = old["missing"] + res[p]["missing"]
            /\ \A c \in Counters \ Outcomes : new[c] = old[c]
            /\ new = [c \in Counters |-> new[c]]
        BY <1>1 DEF Counters, Outcomes
      <3>2. \A c \in Counters : old[c] \in Nat
        BY <1>1
      <3> HIDE DEF new, old
      <3>3. \A c \in Counters : new[c] \in Nat
        <4>1. new["returned"] \in Nat /\ new["damaged"] \in Nat /\ new["missing"] \in Nat
          BY <1>1, <3>1, <3>2 DEF Counters
        <4>2. \A c \in Counters \ Outcomes : new[c] \in Nat
          BY <3>1, <3>2
        <4> QED
          BY <4>1, <4>2 DEF Outcomes
      <3>4. new \in [Counters -> Nat]
        BY <3>1, <3>3
      <3> QED
        BY <3>4 DEF new, old
    <2> QED
      BY <2>1 DEF ResolveItems, ItemRows
  <1>3. ASSUME NEW p \in Products
        PROVE  SoundItem(ResolveItems(r, res)[p])
    <2> DEFINE new == ResolveItems(r, res)[p]
               old == item[r][p]
    <2>1. /\ new["returned"] = old["returned"] + res[p]["returned"]
          /\ new["damaged"] = old["damaged"] + res[p]["damaged"]
          /\ new["missing"] = old["missing"] + res[p]["missing"]
          /\ \A c \in Counters \ Outcomes : new[c] = old[c]
      BY <1>1 DEF ResolveItems, Counters, Outcomes
    <2>2. \A c \in Counters : old[c] \in Nat
      BY <1>1
    <2>3. SoundItem(old) /\ Resolved(res, p) <= remaining_quantity(old)
      BY DEF Inv, ItemLedger, SoundItem
    <2> HIDE DEF new, old
    <2>4. SoundItem(new)
      BY <1>1, <2>1, <2>2, <2>3 DEF SoundItem, remaining_quantity, Resolved, Counters, Outcomes
    <2> QED
      BY <2>4 DEF new
  <1> QED
    BY <1>2, <1>3

\* A return leaves a request partially returned, closed or returned.
LEMMA FinalStatus ==
    ASSUME NEW items
    PROVE  finalize_return_status(items) \in Status \ {"pending_approval", "accepted"}
  BY DEF finalize_return_status, Status

\* Units brought back take a status of OUTCOME_MAP.
LEMMA FlipTyped ==
    ASSUME Inv, NEW held, NEW out \in [Assets -> Outcomes \cup {"issued"}],
           flip_asset_returns(held, out)
    PROVE  asset' \in [Assets -> AssetStatus \cup {"absent"}]
  <1>1. \A a \in Brought(out) : OUTCOME_MAP[out[a]] \in AssetStatus
    BY DEF Brought, OUTCOME_MAP, Outcomes, AssetStatus
  <1> QED
    BY <1>1 DEF flip_asset_returns, Inv, Stock

\* return_request, the workflow's return_items.
LEMMA ReturnInv ==
    ASSUME Inv, NEW r \in Requests, NEW e \in ReturnPhotos,
           NEW out \in [Assets -> Outcomes \cup {"issued"}],
           NEW given \in [{p \in Products : mode[p] = "quantity"} -> [Outcomes -> 0 .. MaxQty]],
           return_request(r, e, given, out)
    PROVE  Inv'
  <1> DEFINE res == build_resolutions(given, out)
             rows == ResolveItems(r, res)
             s == finalize_return_status(rows)
  <1>1. res \in [Products -> [Outcomes -> Nat]]
    BY Resolutions
  <1>2. /\ \A p \in Products : Resolved(res, p) <= remaining_quantity(item[r][p])
        /\ return_items(res) /\ flip_asset_returns(link[r], out)
        /\ item' = [item EXCEPT ![r] = rows] /\ status' = [status EXCEPT ![r] = s]
    BY DEF return_request
  <1>3. s \in Status \ {"pending_approval", "accepted"}
    BY FinalStatus
  <1> HIDE DEF res
  <1>4. rows \in ItemRows /\ \A p \in Products : SoundItem(rows[p])
    BY <1>1, <1>2, ResolveSound
  <1> HIDE DEF rows, s
  <1>5. /\ item' \in [Requests -> ItemRows] /\ status' \in [Requests -> Status \cup {"none"}]
        /\ ItemLedger' /\ Untouched'
    BY <1>2, <1>3, <1>4, ItemsStep
  <1>6. Ledger' /\ asset' \in [Assets -> AssetStatus \cup {"absent"}]
    BY <1>1, <1>2, ReturnLedger, FlipTyped DEF Inv, Stock
  <1>7. Stock' /\ LoanRows'
    BY <1>6 DEF return_request, Inv, Stock, LoanRows, loanVars
  <1>8. RequestRows'
    BY <1>5 DEF return_request, Inv, RequestRows, ItemRows
  <1> QED
    BY <1>5, <1>7, <1>8 DEF Inv

\* return_direct_loan.
LEMMA ReturnDirectInv ==
    ASSUME Inv, NEW r \in Requests, NEW e \in ReturnPhotos,
           NEW out \in [Assets -> Outcomes \cup {"issued"}],
           NEW given \in [{p \in Products : mode[p] = "quantity"} -> [Outcomes -> 0 .. MaxQty]],
           return_direct_loan(r, e, given, out)
    PROVE  Inv'
  <1> DEFINE res == build_resolutions(given, out)
             rows == ResolveItems(r, res)
             s == finalize_return_status(rows)
             held == {a \in LoanAssets(r) : asset[a] = "issued"}
  <1>1. res \in [Products -> [Outcomes -> Nat]]
    BY Resolutions
  <1>2. /\ \A p \in Products : Resolved(res, p) = remaining_quantity(item[r][p])
        /\ return_items(res) /\ flip_asset_returns(held, out)
        /\ item' = [item EXCEPT ![r] = rows] /\ status' = [status EXCEPT ![r] = s]
    BY DEF return_direct_loan
  <1>3. s \in Status \ {"pending_approval", "accepted"}
    BY FinalStatus
  <1>4. \A p \in Products : Resolved(res, p) <= remaining_quantity(item[r][p])
    <2>1. \A p \in Products : remaining_quantity(item[r][p]) \in Int
      BY DEF Inv, RequestRows, remaining_quantity, Counters
    <2> QED
      BY <1>2, <2>1
  <1> HIDE DEF res, held
  <1>5. rows \in ItemRows /\ \A p \in Products : SoundItem(rows[p])
    BY <1>1, <1>4, ResolveSound
  <1> HIDE DEF rows, s
  <1>6. /\ item' \in [Requests -> ItemRows] /\ status' \in [Requests -> Status \cup {"none"}]
        /\ ItemLedger' /\ Untouched'
    BY <1>2, <1>3, <1>5, ItemsStep
  <1>7. Ledger' /\ asset' \in [Assets -> AssetStatus \cup {"absent"}]
    BY <1>1, <1>2, ReturnLedger, FlipTyped DEF Inv, Stock
  <1>8. Stock' /\ LoanRows'
    BY <1>7 DEF return_direct_loan, CloseLoan, Inv, Stock, LoanRows
  <1>9. RequestRows'
    BY <1>6 DEF return_direct_loan, CloseLoan, Inv, RequestRows, ItemRows
  <1> QED
    BY <1>6, <1>8, <1>9 DEF Inv

\* return_tool.
LEMMA ReturnToolInv ==
    ASSUME Inv, NEW r \in Requests, NEW e \in ReturnPhotos, NEW report_problem \in BOOLEAN,
           return_tool(r, e, report_problem)
    PROVE  Inv'
  <1> DEFINE q == Column(r, "issued")
             rows == [p \in Products |-> [item[r][p] EXCEPT !["returned"] = @ + q[p]]]
  <1>1. q \in Counts
    BY ColumnCounts DEF Inv, Counters
  <1>2. /\ return_to_available(q) /\ require_public_return_ledger(r)
        /\ item' = [item EXCEPT ![r] = rows] /\ status' = [status EXCEPT ![r] = "returned"]
        /\ asset' = [a \in Assets |-> IF a \in LoanAssets(r) THEN "available" ELSE asset[a]]
    BY DEF return_tool
  <1>3. \A p \in Products :
           /\ item[r][p] \in [Counters -> Nat] /\ q[p] = item[r][p]["issued"]
           /\ SoundItem(item[r][p])
    BY DEF Inv, RequestRows, ItemLedger, SoundItem, Column
  <1>4. \A p \in Products : \/ q[p] = 0
                             \/ /\ item[r][p]["returned"] = 0 /\ item[r][p]["damaged"] = 0
                                /\ item[r][p]["missing"] = 0
    <2>1. ASSUME NEW p \in Products, p \notin Lines(r)
          PROVE  q[p] = 0
      <3>1. \A c \in Counters : item[r][p][c] \in Nat
        BY <1>3
      <3>2. ~ item[r][p]["requested"] > 0
        BY <2>1 DEF Lines
      <3>3. /\ item[r][p]["issued"] + item[r][p]["needs_fix"] <= item[r][p]["accepted"]
            /\ item[r][p]["accepted"] <= item[r][p]["requested"]
            /\ q[p] = item[r][p]["issued"]
        BY <1>3 DEF SoundItem
      <3> HIDE DEF q
      <3> QED
        BY <3>1, <3>2, <3>3 DEF Counters
    <2>2. ASSUME NEW p \in Lines(r)
          PROVE  \A c \in Outcomes : item[r][p][c] = 0
      BY <1>2 DEF require_public_return_ledger
    <2> QED
      BY <2>1, <2>2 DEF Outcomes
  <1>5. Ledger'
    <2> HIDE DEF q
    <2> QED
      BY <1>1, <1>2, ReturnAvailableLedger DEF Inv, Stock
  <1>6. Stock' /\ LoanRows'
    BY <1>2, <1>5 DEF return_tool, CloseLoan, Inv, Stock, LoanRows, AssetStatus
  <1> HIDE DEF q
  <1>7. rows \in ItemRows
    BY <1>3 DEF ItemRows, Counters
  <1>8. \A p \in Products : SoundItem(rows[p])
    <2> SUFFICES ASSUME NEW p \in Products
                 PROVE  SoundItem(rows[p])
      OBVIOUS
    <2> DEFINE new == rows[p]
               old == item[r][p]
    <2>1. /\ new["returned"] = old["returned"] + q[p]
          /\ \A c \in Counters \ {"returned"} : new[c] = old[c]
      BY <1>3 DEF Counters
    <2>2. \A c \in Counters : old[c] \in Nat
      BY <1>3
    <2>3. /\ SoundItem(old) /\ q[p] = old["issued"]
          /\ \/ q[p] = 0
             \/ old["returned"] = 0 /\ old["damaged"] = 0 /\ old["missing"] = 0
      BY <1>3, <1>4
    <2> HIDE DEF new, old
    <2>4. SoundItem(new)
      BY <2>1, <2>2, <2>3 DEF SoundItem, remaining_quantity, Counters
    <2> QED
      BY <2>4 DEF new
  <1> HIDE DEF rows
  <1>9. /\ item' \in [Requests -> ItemRows] /\ status' \in [Requests -> Status \cup {"none"}]
        /\ ItemLedger' /\ Untouched'
    BY <1>2, <1>7, <1>8, ItemsStep DEF Status
  <1>10. RequestRows'
    BY <1>9 DEF return_tool, CloseLoan, Inv, RequestRows, ItemRows
  <1> QED
    BY <1>6, <1>9, <1>10 DEF Inv

\* triage_problem_report.
LEMMA TriageInv ==
    ASSUME Inv, NEW r \in Requests, NEW outcome \in TriageOutcomes \cup {"no_issue"},
           NEW q \in Quantities, NEW moved \in SUBSET Assets,
           triage_problem_report(r, outcome, q, moved)
    PROVE  Inv'
  <1>1. Ledger' /\ asset' \in [Assets -> AssetStatus \cup {"absent"}]
    <2>1. CASE outcome = "no_issue"
      BY <2>1 DEF triage_problem_report, Inv, Stock, Ledger
    <2>2. CASE outcome # "no_issue"
      <3>1. outcome \in TriageOutcomes /\ _move_stock(r, outcome, q, moved)
        BY <2>2 DEF triage_problem_report
      <3>2. q \in Counts /\ Ledger
        BY QuantitiesCounts DEF Inv, Stock
      <3>3. Ledger'
        BY <3>1, <3>2, TriageLedger
      <3>4. ASSET_STATUS_OUTCOMES[outcome] \in AssetStatus
        BY <3>1 DEF ASSET_STATUS_OUTCOMES, TriageOutcomes, AssetStatus
      <3>5. asset' = [a \in Assets |-> IF a \in moved THEN ASSET_STATUS_OUTCOMES[outcome]
                                       ELSE asset[a]]
        BY <3>1 DEF _move_stock
      <3> QED
        BY <3>3, <3>4, <3>5 DEF Inv, Stock
    <2> QED
      BY <2>1, <2>2
  <1>2. Stock' /\ LoanRows'
    BY <1>1 DEF triage_problem_report, Inv, Stock, LoanRows
  <1>3. RequestRows' /\ ItemLedger' /\ Untouched'
    <2>1. item' = item /\ status' = status
      BY DEF triage_problem_report, requestVars
    <2> QED
      BY <2>1, ItemsKept DEF triage_problem_report, requestVars, Inv, RequestRows
  <1> QED
    BY <1>2, <1>3 DEF Inv

\* What scanned codes hand out is a natural quantity of each product.
LEMMA HandedOutCounts ==
    ASSUME NEW qrs, NEW before, NEW offered
    PROVE  HandedOut(qrs, before, offered) \in Counts
  <1>1. ASSUME NEW p \in Products
        PROVE  Scanned(p, qrs) \in Nat
    <2>1. IsFiniteSet(qrs \cap AssetsOf(p))
      BY FS_Subset DEF AssetsOf
    <2>2. Cardinality(qrs \cap AssetsOf(p)) \in Nat
      BY <2>1, FS_CardinalityType
    <2> QED
      BY <2>2 DEF Scanned
  <1>2. ASSUME NEW p \in Products
        PROVE  HandedOut(qrs, before, offered)[p] \in Nat
    BY <1>1 DEF HandedOut
  <1> QED
    BY <1>2 DEF HandedOut, Counts

\* _create_issued_request, shared by both kinds of handout.
LEMMA CreateInv ==
    ASSUME Inv, NEW r \in Requests, NEW e \in IssuePhotos, NEW q \in Counts,
           NEW box \in Places, NEW qrs \in SUBSET Targets,
           NEW source \in {"public_self_checkout", "admin_direct"},
           _create_issued_request(r, e, q, box, qrs, source)
    PROVE  Inv'
  <1> DEFINE rows == [p \in Products |-> [c \in Counters |->
                        IF c \in {"requested", "accepted", "issued"} THEN q[p] ELSE 0]]
  <1>1. Ledger'
    BY IssueAvailableLedger DEF _create_issued_request, Inv, Stock
  <1>2. Stock'
    BY <1>1 DEF _create_issued_request, Inv, Stock, AssetStatus
  <1>3. LoanRows'
    BY DEF _create_issued_request, Inv, LoanRows
  <1>4. item' = [item EXCEPT ![r] = rows] /\ status' = [status EXCEPT ![r] = "issued"]
    BY DEF _create_issued_request
  <1>5. rows \in ItemRows
    BY DEF ItemRows, Counts
  <1>6. \A p \in Products : SoundItem(rows[p])
    BY DEF SoundItem, remaining_quantity, Counters, Counts
  <1> HIDE DEF rows
  <1>7. /\ item' \in [Requests -> ItemRows] /\ status' \in [Requests -> Status \cup {"none"}]
        /\ ItemLedger' /\ Untouched'
    BY <1>4, <1>5, <1>6, ItemsStep DEF Status
  <1>8. RequestRows'
    BY <1>7 DEF _create_issued_request, Inv, RequestRows, ItemRows
  <1> QED
    BY <1>2, <1>3, <1>7, <1>8 DEF Inv

\* checkout_tool and issue_direct_loan.
LEMMA HandoutInv ==
    ASSUME Inv, NEW r \in Requests, HandoutNext(r)
    PROVE  Inv'
  <1>1. PICK e \in IssuePhotos, qrs \in SUBSET Targets : \E before \in SUBSET qrs :
           \/ checkout_tool(r, e, qrs, before)
           \/ \E container \in Places, manual \in Quantities :
                 issue_direct_loan(r, e, container, qrs, before, manual)
    BY DEF HandoutNext
  <1>2. ASSUME NEW before \in SUBSET qrs, checkout_tool(r, e, qrs, before)
        PROVE  Inv'
    <2>1. PICK box \in Places :
             _create_issued_request(r, e, HandedOut(qrs, before, Public), box, qrs,
                                    "public_self_checkout")
      BY <1>2 DEF checkout_tool
    <2> QED
      BY <2>1, HandedOutCounts, CreateInv
  <1>3. ASSUME NEW before \in SUBSET qrs, NEW container \in Places, NEW manual \in Quantities,
               issue_direct_loan(r, e, container, qrs, before, manual)
        PROVE  Inv'
    <2> DEFINE contents == HandedOut(qrs, before, Products \cup Assets)
               q == [p \in Products |-> contents[p] + manual[p]]
    <2>1. PICK box \in Places : _create_issued_request(r, e, q, box, qrs, "admin_direct")
      BY <1>3 DEF issue_direct_loan
    <2>2. contents \in Counts /\ manual \in Counts
      BY HandedOutCounts, QuantitiesCounts
    <2> HIDE DEF contents
    <2>3. q \in Counts
      BY <2>2 DEF Counts
    <2> HIDE DEF q
    <2> QED
      BY <2>1, <2>3, CreateInv
  <1> QED
    BY <1>1, <1>2, <1>3

-----------------------------------------------------------------------------
(* The theorems.                                                           *)

\* The first state satisfies the invariant: products come as the create
\* serializer admits them and nothing has been asked for.
LEMMA InitInv == Init => Inv
  <1> SUFFICES ASSUME Init
               PROVE  Inv
    OBVIOUS
  <1>1. PICK total, available \in [Products -> 0 .. MaxStock] :
           /\ \A p \in Products : available[p] <= total[p]
           /\ \A p \in Individual : total[p] = 0
           /\ product = [p \in Products |-> CreatedRow(total[p], available[p])]
    BY Zenon DEF Init, InventoryInit
  <1>2. \A p \in Products : CreatedRow(total[p], available[p]) \in SoundRows
    BY <1>1, CreatedSound
  <1>3. Ledger
    BY <1>1, <1>2 DEF Ledger
  <1>4. place \in [Products \cup Assets -> Places]
    BY DEF Init, InventoryInit, Places
  <1>5. Stock
    BY <1>3, <1>4 DEF Init, InventoryInit, Stock
  <1>6. RequestRows
    BY DEF Init, RequestRows, NoItems, Places
  <1>7. LoanRows
    BY DEF Init, LoanRows, Places
  <1>8. ItemLedger /\ Untouched
    BY DEF Init, ItemLedger, Untouched, NoItems, remaining_quantity, Counters
  <1> QED
    BY <1>5, <1>6, <1>7, <1>8 DEF Inv

\* Every step keeps it.
LEMMA NextInv == Inv /\ [Next]_vars => Inv'
  <1> SUFFICES ASSUME Inv, [Next]_vars
               PROVE  Inv'
    OBVIOUS
  <1>1. CASE StaffNext
    <2>1. Stock'
      BY <1>1, StaffStock DEF Inv
    <2>2. item' = item /\ status' = status /\ RequestRows' /\ LoanRows'
      BY <1>1 DEF StaffNext, requestVars, loanVars, Inv, RequestRows, LoanRows
    <2> QED
      BY <2>1, <2>2, ItemsKept DEF Inv
  <1>2. ASSUME NEW r \in Requests, ReviewNext(r)
        PROVE  Inv'
    BY <1>2, SubmitInv, AcceptInv, RejectInv, CancelInv, AssignInv, IssueInv DEF ReviewNext
  <1>3. ASSUME NEW r \in Requests, HandoutNext(r)
        PROVE  Inv'
    BY <1>3, HandoutInv
  <1>4. ASSUME NEW r \in Requests, ReturnNext(r)
        PROVE  Inv'
    <2>1. CASE \E e \in ReturnPhotos, out \in [Assets -> Outcomes \cup {"issued"}],
                given \in [{p \in Products : mode[p] = "quantity"} -> [Outcomes -> 0 .. MaxQty]] :
                return_request(r, e, given, out) \/ return_direct_loan(r, e, given, out)
      BY <2>1, ReturnInv, ReturnDirectInv
    <2>2. CASE \E e \in ReturnPhotos, report_problem \in BOOLEAN : return_tool(r, e, report_problem)
      BY <2>2, ReturnToolInv
    <2>3. CASE \E outcome \in TriageOutcomes \cup {"no_issue"}, q \in Quantities,
                  moved \in SUBSET Assets : triage_problem_report(r, outcome, q, moved)
      BY <2>3, TriageInv
    <2> QED
      BY <1>4, <2>1, <2>2, <2>3 DEF ReturnNext
  <1>5. CASE UNCHANGED vars
    <2>1. item' = item /\ status' = status
      BY <1>5 DEF vars, requestVars
    <2>2. Stock' /\ RequestRows' /\ LoanRows'
      BY <1>5 DEF vars, inventoryVars, requestVars, loanVars, Inv, Stock, Ledger, RequestRows,
                  LoanRows
    <2> QED
      BY <2>1, <2>2, ItemsKept DEF Inv
  <1> QED
    BY <1>1, <1>2, <1>3, <1>4, <1>5 DEF Next

\* So it holds in every reachable state.
LEMMA InvAlways == Spec => []Inv
  BY InitInv, NextInv, PTL DEF Spec

\* Every column keeps its type whatever requests, loans, triage and staff
\* corrections interleave, for any number of products, units and requests:
\* no bucket of a product and no counter of an item is ever negative.
THEOREM TypeCorrect == Spec => []TypeOK
  <1>1. Inv => TypeOK
    <2>1. Ledger => product \in [Products -> [QuantityFields -> Nat]]
      BY DEF Ledger, SoundRows, Rows
    <2> QED
      BY <2>1 DEF Inv, Stock, RequestRows, LoanRows, TypeOK
  <1> QED
    BY <1>1, InvAlways, PTL

\* The check constraint qty_sum_within_total never fires: no operation of
\* the availability service, in any order, leaves a product whose buckets add
\* up to more than its total.
THEOREM StockAlwaysConserved == Spec => []StockConserved
  <1>1. Inv => StockConserved
    BY DEF Inv, Stock, Ledger, SoundRows, StockConserved
  <1> QED
    BY <1>1, InvAlways, PTL

\* An item never has more out than was accepted, nor more back than is out,
\* although the issue, the partial returns and the loan workflows each write
\* its counters.
THEOREM ItemsAlwaysBalanced == Spec => []ItemLedger
  <1>1. Inv => ItemLedger
    BY DEF Inv
  <1> QED
    BY <1>1, InvAlways, PTL

-----------------------------------------------------------------------------
(* Custody.                                                                *)

\* A row that does not exist yet has no container and no loan, and an open
\* loan belongs to an issued request.
RowsJoined ==
    \A r \in Requests :
        /\ status[r] = "none" => assigned_box[r] = None /\ loan_status[r] = "none"
        /\ loan_status[r] = "checked_out" => status[r] = "issued"

\* The inductive invariant.
Custodian == RowsJoined /\ ContainerCustody /\ QrExclusive /\ EvidenceSingleUse

\* The columns it is about.
custodyVars == <<status, assigned_box, issue_evidence, return_event, loan_status,
                 loan_container, loan_qrs, loan_evidence>>

-----------------------------------------------------------------------------
(* Steps, grouped by what they do to those columns.                        *)

\* Staff operations and triage leave them alone.
LEMMA Elsewhere ==
    ASSUME Custodian, UNCHANGED custodyVars
    PROVE  Custodian'
  <1>1. /\ status' = status /\ assigned_box' = assigned_box /\ issue_evidence' = issue_evidence
        /\ return_event' = return_event /\ loan_status' = loan_status
        /\ loan_container' = loan_container /\ loan_qrs' = loan_qrs
        /\ loan_evidence' = loan_evidence
    BY DEF custodyVars
  <1> QED
    BY <1>1 DEF Custodian, RowsJoined, ContainerCustody, HoldsBox, QrExclusive, EvidenceSingleUse

\* A request moves along the review, and its container may change, but it
\* does not become open.
LEMMA Reviewed ==
    ASSUME Inv, Custodian, NEW r \in Requests, NEW s \in Status \ OpenStatus, NEW b,
           loan_status[r] # "checked_out",
           status' = [status EXCEPT ![r] = s],
           assigned_box' = [assigned_box EXCEPT ![r] = b],
           UNCHANGED <<issue_evidence, return_event, loan_status, loan_container, loan_qrs,
                       loan_evidence>>
    PROVE  Custodian'
  <1>1. /\ status \in [Requests -> Status \cup {"none"}]
        /\ assigned_box \in [Requests -> Places]
    BY DEF Inv, RequestRows
  <1>2. RowsJoined'
    BY <1>1 DEF Custodian, RowsJoined, Status
  <1>3. ContainerCustody'
    <2>1. \A x \in Requests, c \in Boxes : HoldsBox(x, c)' => HoldsBox(x, c)
      BY <1>1 DEF HoldsBox
    <2> QED
      BY <2>1 DEF Custodian, ContainerCustody
  <1>4. QrExclusive' /\ EvidenceSingleUse'
    BY DEF Custodian, QrExclusive, EvidenceSingleUse
  <1> QED
    BY <1>2, <1>3, <1>4 DEF Custodian

\* issue_request: nobody else has the container or the photograph.
LEMMA Issued ==
    ASSUME Inv, Custodian, NEW r \in Requests, NEW e \in IssuePhotos, NEW scanned, NEW fix,
           NEW scrap, issue_request(r, e, scanned, fix, scrap)
    PROVE  Custodian'
  <1>1. /\ status \in [Requests -> Status \cup {"none"}]
        /\ issue_evidence \in [Requests -> IssuePhotos \cup {None}]
    BY DEF Inv, RequestRows
  <1>2. /\ status[r] = "accepted" /\ loan_status[r] # "checked_out"
        /\ status' = [status EXCEPT ![r] = "issued"]
        /\ issue_evidence' = [issue_evidence EXCEPT ![r] = e]
        /\ UNCHANGED <<assigned_box, return_event, loan_status, loan_container, loan_qrs,
                       loan_evidence>>
    BY DEF issue_request, loanVars, Custodian, RowsJoined
  <1>3. RowsJoined'
    BY <1>1, <1>2 DEF Custodian, RowsJoined
  <1>4. ContainerCustody'
    <2>1. \A x \in Requests \ {r}, c \in Boxes : HoldsBox(x, c)' => HoldsBox(x, c)
      BY <1>1, <1>2 DEF HoldsBox
    <2>2. ASSUME NEW c \in Boxes, HoldsBox(r, c)'
          PROVE  assigned_box[r] = c /\ c # None
      BY <1>1, <1>2, <2>2, LendingAssumption DEF HoldsBox
    <2>3. ASSUME NEW x \in Requests \ {r}, assigned_box[r] # None
          PROVE  ~ HoldsBox(x, assigned_box[r])
      BY <2>3 DEF HoldsBox, issue_request, uniq_active_loan_per_box,
                  _active_public_container_loan_exists
    <2> QED
      BY <2>1, <2>2, <2>3 DEF Custodian, ContainerCustody
  <1>5. QrExclusive'
    BY <1>2 DEF Custodian, QrExclusive
  <1>6. EvidenceSingleUse'
    <2>1. \A x \in Requests : issue_evidence[x] # e
      BY DEF issue_request, IssueEvidenceUnused
    <2> QED
      BY <1>1, <1>2, <2>1 DEF Custodian, EvidenceSingleUse
  <1> QED
    BY <1>3, <1>4, <1>5, <1>6 DEF Custodian

\* A reviewed return: the request stays open with its container, or closes.
LEMMA Returned ==
    ASSUME Inv, Custodian, NEW r \in Requests, NEW e \in ReturnPhotos, NEW given, NEW out,
           return_request(r, e, given, out)
    PROVE  Custodian'
  <1> DEFINE s == finalize_return_status(ResolveItems(r, build_resolutions(given, out)))
  <1>1. status \in [Requests -> Status \cup {"none"}]
    BY DEF Inv, RequestRows
  <1>2. /\ status[r] \in OpenStatus /\ loan_status[r] = "none"
        /\ status' = [status EXCEPT ![r] = s]
        /\ return_event' = return_event \cup {<<r, e>>}
        /\ UNCHANGED <<assigned_box, issue_evidence, loan_status, loan_container, loan_qrs,
                       loan_evidence>>
    BY DEF return_request, loanVars
  <1>3. s # "none"
    BY FinalStatus DEF Status
  <1> HIDE DEF s
  <1>4. RowsJoined'
    BY <1>1, <1>2, <1>3 DEF Custodian, RowsJoined
  <1>5. ContainerCustody'
    <2>1. \A x \in Requests, c \in Boxes : HoldsBox(x, c)' => HoldsBox(x, c)
      BY <1>1, <1>2 DEF HoldsBox
    <2> QED
      BY <2>1 DEF Custodian, ContainerCustody
  <1>6. QrExclusive'
    BY <1>2 DEF Custodian, QrExclusive
  <1>7. EvidenceSingleUse'
    <2>1. \A x \in Requests : loan_evidence[x] # e /\ <<x, e>> \notin return_event
      BY DEF return_request, ReturnEvidenceUnused
    <2> QED
      BY <1>2, <2>1 DEF Custodian, EvidenceSingleUse
  <1> QED
    BY <1>4, <1>5, <1>6, <1>7 DEF Custodian

\* _create_issued_request: the container and the scanned codes were free.
LEMMA HandedOver ==
    ASSUME Inv, Custodian, NEW r \in Requests, NEW e \in IssuePhotos, NEW q,
           NEW box \in Places, NEW qrs, NEW source,
           _create_issued_request(r, e, q, box, qrs, source),
           box # None => BoxFree(box),
           \A x \in qrs : ~ qr_has_active_loan(x)
    PROVE  Custodian'
  <1>1. /\ status \in [Requests -> Status \cup {"none"}]
        /\ issue_evidence \in [Requests -> IssuePhotos \cup {None}]
        /\ loan_status \in [Requests -> {"none", "checked_out", "returned"}]
        /\ loan_container \in [Requests -> Places]
        /\ loan_qrs \in [Requests -> SUBSET Targets]
    BY DEF Inv, RequestRows, LoanRows
  <1>2. /\ status[r] = "none" /\ assigned_box[r] = None
        /\ status' = [status EXCEPT ![r] = "issued"]
        /\ issue_evidence' = [issue_evidence EXCEPT ![r] = e]
        /\ loan_status' = [loan_status EXCEPT ![r] = "checked_out"]
        /\ loan_container' = [loan_container EXCEPT ![r] = box]
        /\ loan_qrs' = [loan_qrs EXCEPT ![r] = qrs]
        /\ UNCHANGED <<assigned_box, return_event, loan_evidence>>
    BY DEF _create_issued_request, Custodian, RowsJoined
  <1>3. RowsJoined'
    BY <1>1, <1>2 DEF Custodian, RowsJoined
  <1>4. ContainerCustody'
    <2>1. \A x \in Requests \ {r}, c \in Boxes : HoldsBox(x, c)' => HoldsBox(x, c)
      BY <1>1, <1>2 DEF HoldsBox
    <2>2. ASSUME NEW c \in Boxes, HoldsBox(r, c)'
          PROVE  box = c /\ c # None
      BY <1>1, <1>2, <2>2, LendingAssumption DEF HoldsBox
    <2>3. ASSUME NEW x \in Requests, box # None
          PROVE  ~ HoldsBox(x, box)
      BY <2>3 DEF HoldsBox, BoxFree, _active_public_container_loan_exists,
                  _reviewed_request_holds_box
    <2> QED
      BY <2>1, <2>2, <2>3 DEF Custodian, ContainerCustody
  <1>5. QrExclusive'
    <2>1. \A x \in Requests : loan_status[x] = "checked_out" => loan_qrs[x] \cap qrs = {}
      BY DEF qr_has_active_loan
    <2> QED
      BY <1>1, <1>2, <2>1 DEF Custodian, QrExclusive
  <1>6. EvidenceSingleUse'
    <2>1. \A x \in Requests : issue_evidence[x] # e
      BY DEF _create_issued_request, IssueEvidenceUnused
    <2> QED
      BY <1>1, <1>2, <2>1 DEF Custodian, EvidenceSingleUse
  <1> QED
    BY <1>3, <1>4, <1>5, <1>6 DEF Custodian

\* A loan is closed with a photograph used nowhere else.
LEMMA Closed ==
    ASSUME Inv, Custodian, NEW r \in Requests, NEW e \in ReturnPhotos, NEW s \in Status,
           loan_status[r] = "checked_out",
           CloseLoan(r, e), ReturnEvidenceUnused(e),
           status' = [status EXCEPT ![r] = s],
           return_event' \in {return_event, return_event \cup {<<r, e>>}}
    PROVE  Custodian'
  <1>1. /\ status \in [Requests -> Status \cup {"none"}]
        /\ loan_status \in [Requests -> {"none", "checked_out", "returned"}]
        /\ loan_evidence \in [Requests -> ReturnPhotos \cup {None}]
    BY DEF Inv, RequestRows, LoanRows
  <1>2. /\ status[r] = "issued"
        /\ loan_status' = [loan_status EXCEPT ![r] = "returned"]
        /\ loan_evidence' = [loan_evidence EXCEPT ![r] = e]
        /\ UNCHANGED <<assigned_box, issue_evidence, loan_container, loan_qrs>>
    BY DEF CloseLoan, Custodian, RowsJoined
  <1>3. RowsJoined'
    BY <1>1, <1>2 DEF Custodian, RowsJoined, Status
  <1>4. ContainerCustody'
    <2>1. \A x \in Requests, c \in Boxes : HoldsBox(x, c)' => HoldsBox(x, c)
      BY <1>1, <1>2 DEF HoldsBox, OpenStatus
    <2> QED
      BY <2>1 DEF Custodian, ContainerCustody
  <1>5. QrExclusive'
    BY <1>1, <1>2 DEF Custodian, QrExclusive
  <1>6. EvidenceSingleUse'
    <2>1. \A x \in Requests : loan_evidence[x] # e /\ <<x, e>> \notin return_event
      BY DEF ReturnEvidenceUnused
    <2>2. \A x \in Requests, f \in ReturnPhotos :
             (loan_evidence'[x] = f \/ <<x, f>> \in return_event') =>
                \/ x = r /\ f = e
                \/ f # e /\ (loan_evidence[x] = f \/ <<x, f>> \in return_event)
      BY <1>1, <1>2, <2>1
    <2> QED
      BY <1>2, <2>2 DEF Custodian, EvidenceSingleUse
  <1> QED
    BY <1>3, <1>4, <1>5, <1>6 DEF Custodian

\* checkout_tool and issue_direct_loan check the container they take, whether
\* it was named or scanned.
LEMMA HandoutCustody ==
    ASSUME Inv, Custodian, NEW r \in Requests, HandoutNext(r)
    PROVE  Custodian'
  <1>1. PICK e \in IssuePhotos, qrs \in SUBSET Targets : \E before \in SUBSET qrs :
           \/ checkout_tool(r, e, qrs, before)
           \/ \E container \in Places, manual \in Quantities :
                 issue_direct_loan(r, e, container, qrs, before, manual)
    BY DEF HandoutNext
  <1>2. ASSUME NEW before, NEW offered, _checkout_targets(qrs, before, offered)
        PROVE  /\ \A x \in qrs : ~ qr_has_active_loan(x)
               /\ \A b \in qrs \cap Boxes : BoxFree(b)
    BY <1>2 DEF _checkout_targets, _checkout_box
  <1>3. ASSUME NEW before \in SUBSET qrs, checkout_tool(r, e, qrs, before)
        PROVE  Custodian'
    <2>1. PICK box \in Places :
             /\ IF qrs \cap Boxes # {} THEN box \in qrs ELSE box = None
             /\ _create_issued_request(r, e, HandedOut(qrs, before, Public), box, qrs,
                                       "public_self_checkout")
      BY <1>3 DEF checkout_tool
    <2>2. _checkout_targets(qrs, before, Public)
      BY <1>3 DEF checkout_tool
    <2>3. box # None => BoxFree(box)
      BY <1>2, <2>1, <2>2 DEF Places
    <2> QED
      BY <1>2, <2>1, <2>2, <2>3, HandedOver
  <1>4. ASSUME NEW before \in SUBSET qrs, NEW container \in Places, NEW manual \in Quantities,
               issue_direct_loan(r, e, container, qrs, before, manual)
        PROVE  Custodian'
    <2> DEFINE everything == Products \cup Assets
               q == [p \in Products |-> HandedOut(qrs, before, everything)[p] + manual[p]]
    <2>1. PICK box \in Places :
             /\ IF container = None /\ qrs \cap Boxes # {} THEN box \in qrs \cap Boxes
                ELSE box = container
             /\ _create_issued_request(r, e, q, box, qrs, "admin_direct")
      BY <1>4 DEF issue_direct_loan
    <2>2. /\ _checkout_targets(qrs, before, everything)
          /\ container # None => BoxFree(container)
      BY <1>4 DEF issue_direct_loan
    <2> HIDE DEF q, everything
    <2>3. box # None => BoxFree(box)
      BY <1>2, <2>1, <2>2
    <2> QED
      BY <1>2, <2>1, <2>2, <2>3, HandedOver
  <1> QED
    BY <1>1, <1>3, <1>4

-----------------------------------------------------------------------------
(* The theorems.                                                           *)

\* Nothing is held in the first state.
LEMMA InitCustody == Init => Custodian
  <1> SUFFICES ASSUME Init
               PROVE  Custodian
    OBVIOUS
  <1>1. RowsJoined /\ QrExclusive
    BY DEF Init, RowsJoined, QrExclusive
  <1>2. ContainerCustody
    BY DEF Init, ContainerCustody, HoldsBox, OpenStatus
  <1>3. EvidenceSingleUse
    BY LendingAssumption DEF Init, EvidenceSingleUse
  <1> QED
    BY <1>1, <1>2, <1>3 DEF Custodian

\* Every step keeps custody sound.
LEMMA NextCustody == Inv /\ Custodian /\ [Next]_vars => Custodian'
  <1> SUFFICES ASSUME Inv, Custodian, [Next]_vars
               PROVE  Custodian'
    OBVIOUS
  <1>0. /\ assigned_box \in [Requests -> Places]
        /\ \A r \in Requests : status[r] \in {"none", "pending_approval", "accepted"} =>
                                  loan_status[r] # "checked_out"
    BY DEF Inv, RequestRows, Custodian, RowsJoined
  <1>1. CASE StaffNext
    BY <1>1, Elsewhere DEF StaffNext, requestVars, loanVars, custodyVars
  <1>2. ASSUME NEW r \in Requests, ReviewNext(r)
        PROVE  Custodian'
    <2>1. ASSUME NEW q, NEW key, submit_request(r, q, key)
          PROVE  Custodian'
      <3>1. assigned_box' = [assigned_box EXCEPT ![r] = assigned_box[r]]
        BY <1>0, <2>1 DEF submit_request
      <3> QED
        BY <1>0, <2>1, <3>1, Reviewed DEF submit_request, loanVars, Status, OpenStatus
    <2>2. ASSUME NEW q, accept_request(r, q)
          PROVE  Custodian'
      <3>1. assigned_box' = [assigned_box EXCEPT ![r] = assigned_box[r]]
        BY <1>0, <2>2 DEF accept_request
      <3> QED
        BY <1>0, <2>2, <3>1, Reviewed DEF accept_request, loanVars, Status, OpenStatus
    <2>3. CASE reject_request(r)
      <3>1. assigned_box' = [assigned_box EXCEPT ![r] = assigned_box[r]]
        BY <1>0, <2>3 DEF reject_request
      <3> QED
        BY <1>0, <2>3, <3>1, Reviewed DEF reject_request, loanVars, Status, OpenStatus
    <2>4. CASE cancel_request(r)
      BY <1>0, <2>4, Reviewed DEF cancel_request, loanVars, Status, OpenStatus
    <2>5. ASSUME NEW b \in Boxes, assign_box(r, b)
          PROVE  Custodian'
      <3>1. status' = [status EXCEPT ![r] = "accepted"]
        BY <2>5 DEF assign_box, Inv, RequestRows
      <3> QED
        BY <1>0, <2>5, <3>1, Reviewed DEF assign_box, loanVars, Status, OpenStatus
    <2> QED
      BY <1>2, <2>1, <2>2, <2>3, <2>4, <2>5, Issued DEF ReviewNext
  <1>3. ASSUME NEW r \in Requests, HandoutNext(r)
        PROVE  Custodian'
    BY <1>3, HandoutCustody
  <1>4. ASSUME NEW r \in Requests, ReturnNext(r)
        PROVE  Custodian'
    <2>1. ASSUME NEW e \in ReturnPhotos, NEW out, NEW given, return_direct_loan(r, e, given, out)
          PROVE  Custodian'
      <3>1. finalize_return_status(ResolveItems(r, build_resolutions(given, out))) \in Status
        BY FinalStatus
      <3> QED
        BY <2>1, <3>1, Closed DEF return_direct_loan
    <2>2. ASSUME NEW e \in ReturnPhotos, NEW report_problem, return_tool(r, e, report_problem)
          PROVE  Custodian'
      BY <2>2, Closed DEF return_tool, Status
    <2>3. ASSUME NEW outcome, NEW q, NEW moved, triage_problem_report(r, outcome, q, moved)
          PROVE  Custodian'
      BY <2>3, Elsewhere DEF triage_problem_report, requestVars, custodyVars
    <2>4. CASE \E e \in ReturnPhotos, out \in [Assets -> Outcomes \cup {"issued"}],
                given \in [{p \in Products : mode[p] = "quantity"} -> [Outcomes -> 0 .. MaxQty]] :
                return_request(r, e, given, out) \/ return_direct_loan(r, e, given, out)
      BY <2>1, <2>4, Returned
    <2> QED
      BY <1>4, <2>2, <2>3, <2>4 DEF ReturnNext
  <1>5. CASE UNCHANGED vars
    BY <1>5, Elsewhere DEF vars, requestVars, loanVars, custodyVars
  <1> QED
    BY <1>1, <1>2, <1>3, <1>4, <1>5 DEF Next

\* So custody is sound in every reachable state.
LEMMA CustodyAlways == Spec => []Custodian
  BY InitInv, NextInv, InitCustody, NextCustody, PTL DEF Spec

\* A container is out with one borrower at a time, however reviewed requests,
\* staff handouts and self-checkouts compete for any number of containers.
THEOREM ContainersExclusive == Spec => []ContainerCustody
  <1>1. Custodian => ContainerCustody
    BY DEF Custodian
  <1> QED
    BY <1>1, CustodyAlways, PTL

\* No QR code is on two open loans.
THEOREM CodesExclusive == Spec => []QrExclusive
  <1>1. Custodian => QrExclusive
    BY DEF Custodian
  <1> QED
    BY <1>1, CustodyAlways, PTL

\* One photograph backs one handover and one return, across the request,
\* ReturnEvent and PublicToolLoan tables.
THEOREM PhotographsSingleUse == Spec => []EvidenceSingleUse
  <1>1. Custodian => EvidenceSingleUse
    BY DEF Custodian
  <1> QED
    BY <1>1, CustodyAlways, PTL

-----------------------------------------------------------------------------
(* Settled requests.                                                       *)

Settled == {"rejected", "cancelled", "returned", "closed_with_issue"}

\* Request r keeps its status, counters and loan.
Frozen(r) == status'[r] = status[r] /\ item'[r] = item[r] /\ loan_status'[r] = loan_status[r]

\* A step that concerns request r touches no other one.
LEMMA OthersFrozen ==
    ASSUME Inv, NEW r \in Requests, NEW x \in Requests \ {r}, NEW s, NEW rows, NEW l,
           status' = [status EXCEPT ![r] = s],
           item' \in {item, [item EXCEPT ![r] = rows]},
           loan_status' \in {loan_status, [loan_status EXCEPT ![r] = l]}
    PROVE  Frozen(x)
  BY DEF Inv, RequestRows, LoanRows, Frozen

\* Every action of the review asks for a request that is not settled.
LEMMA ReviewFreezes ==
    ASSUME Inv, NEW r \in Requests, ReviewNext(r), NEW x \in Requests, status[x] \in Settled
    PROVE  Frozen(x)
  <1>1. status[r] \notin Settled
    BY DEF ReviewNext, submit_request, accept_request, reject_request, cancel_request,
           assign_box, issue_request, Settled
  <1>2. x # r
    BY <1>1
  <1>3. CASE \E b \in Boxes : assign_box(r, b)
    BY <1>3 DEF assign_box, loanVars, Frozen
  <1>4. CASE \E q \in Quantities, key \in Keys \cup {None} : submit_request(r, q, key)
    BY <1>2, <1>4, OthersFrozen DEF submit_request, loanVars
  <1>5. CASE \E q \in Quantities : accept_request(r, q)
    BY <1>2, <1>5, OthersFrozen DEF accept_request, loanVars
  <1>6. CASE reject_request(r)
    BY <1>2, <1>6, OthersFrozen DEF reject_request, loanVars
  <1>7. CASE cancel_request(r)
    BY <1>2, <1>7, OthersFrozen DEF cancel_request, loanVars
  <1>8. ASSUME NEW e, NEW scanned, NEW fix, NEW scrap, issue_request(r, e, scanned, fix, scrap)
        PROVE  Frozen(x)
    BY <1>2, <1>8, OthersFrozen DEF issue_request, loanVars
  <1> QED
    BY <1>3, <1>4, <1>5, <1>6, <1>7, <1>8 DEF ReviewNext

\* So do the handouts.
LEMMA HandoutFreezes ==
    ASSUME Inv, NEW r \in Requests, HandoutNext(r), NEW x \in Requests, status[x] \in Settled
    PROVE  Frozen(x)
  <1>1. ASSUME NEW e, NEW q, NEW box, NEW qrs, NEW source,
               _create_issued_request(r, e, q, box, qrs, source)
        PROVE  Frozen(x)
    <2>1. x # r
      BY <1>1 DEF _create_issued_request, Settled
    <2> QED
      BY <1>1, <2>1, OthersFrozen DEF _create_issued_request
  <1>2. ASSUME NEW e, NEW qrs, NEW before, checkout_tool(r, e, qrs, before)
        PROVE  Frozen(x)
    BY <1>1, <1>2 DEF checkout_tool
  <1>3. ASSUME NEW e, NEW container, NEW qrs, NEW before, NEW manual,
               issue_direct_loan(r, e, container, qrs, before, manual)
        PROVE  Frozen(x)
    BY <1>1, <1>3 DEF issue_direct_loan
  <1> QED
    BY <1>2, <1>3 DEF HandoutNext

\* A return needs an open request or an open loan, whose request is issued.
LEMMA ReturnFreezes ==
    ASSUME Inv, Custodian, NEW r \in Requests, ReturnNext(r),
           NEW x \in Requests, status[x] \in Settled
    PROVE  Frozen(x)
  <1>1. status[r] \in OpenStatus \/ loan_status[r] = "checked_out" => x # r
    BY DEF Custodian, RowsJoined, Settled, OpenStatus
  <1>2. ASSUME NEW e, NEW given, NEW out, return_request(r, e, given, out)
        PROVE  Frozen(x)
    BY <1>1, <1>2, OthersFrozen DEF return_request, loanVars
  <1>3. ASSUME NEW e, NEW given, NEW out, return_direct_loan(r, e, given, out)
        PROVE  Frozen(x)
    BY <1>1, <1>3, OthersFrozen DEF return_direct_loan, CloseLoan
  <1>4. ASSUME NEW e, NEW report_problem, return_tool(r, e, report_problem)
        PROVE  Frozen(x)
    BY <1>1, <1>4, OthersFrozen DEF return_tool, CloseLoan
  <1>5. ASSUME NEW outcome, NEW q, NEW moved, triage_problem_report(r, outcome, q, moved)
        PROVE  Frozen(x)
    BY <1>5 DEF triage_problem_report, requestVars, Frozen
  <1> QED
    BY <1>2, <1>3, <1>4, <1>5 DEF ReturnNext

\* A rejected, cancelled or settled request is never touched again, in any
\* behaviour: late triage, stock corrections and other borrowers' steps
\* included.
THEOREM SettledStaysFrozen == Spec => SettledFrozen
  <1>1. ASSUME Inv, Custodian, [Next]_vars
        PROVE  [\A r \in Requests :
                   status[r] \in {"rejected", "cancelled", "returned", "closed_with_issue"} =>
                      /\ status'[r] = status[r] /\ item'[r] = item[r]
                      /\ loan_status'[r] = loan_status[r]]_vars
    <2> SUFFICES ASSUME NEW x \in Requests, status[x] \in Settled, Next
                 PROVE  Frozen(x)
      BY <1>1 DEF Settled, Frozen
    <2>1. CASE StaffNext
      BY <2>1 DEF StaffNext, requestVars, loanVars, Frozen
    <2> QED
      BY <1>1, <2>1, ReviewFreezes, HandoutFreezes, ReturnFreezes DEF Next
  <1> QED
    BY <1>1, InvAlways, CustodyAlways, PTL DEF Spec, SettledFrozen

USE InventoryAssumption, LendingAssumption

-----------------------------------------------------------------------------
(* Counting units and adding up requests.                                  *)

\* Units of a product in a status are finitely many.
LEMMA FewUnits ==
    ASSUME NEW p, NEW M
    PROVE  IsFiniteSet(M \cap AssetsOf(p)) /\ Cardinality(M \cap AssetsOf(p)) \in Nat
  BY FS_Subset, FS_CardinalityType DEF AssetsOf

\* A count of units changes by those that enter the status and those that
\* leave it.
LEMMA UnitsFlow ==
    ASSUME NEW p, NEW st, NEW new, NEW s
    PROVE  Units(new, p, s) =
              Units(st, p, s) - Cardinality({a \in AssetsOf(p) : st[a] = s /\ new[a] # s})
                              + Cardinality({a \in AssetsOf(p) : st[a] # s /\ new[a] = s})
  <1> DEFINE A == {a \in AssetsOf(p) : st[a] = s}
             B == {a \in AssetsOf(p) : new[a] = s}
  <1>1. IsFiniteSet(A) /\ IsFiniteSet(B)
    BY FS_Subset DEF AssetsOf
  <1>2. /\ Cardinality(A \ B) = Cardinality(A) - Cardinality(A \cap B)
        /\ Cardinality(B \ A) = Cardinality(B) - Cardinality(B \cap A)
    BY <1>1, FS_Difference
  <1>3. /\ A \ B = {a \in AssetsOf(p) : st[a] = s /\ new[a] # s}
        /\ B \ A = {a \in AssetsOf(p) : st[a] # s /\ new[a] = s}
        /\ A \cap B = B \cap A
    OBVIOUS
  <1>4. /\ Cardinality(A) \in Nat /\ Cardinality(B) \in Nat
        /\ Cardinality(A \cap B) \in Nat
    BY <1>1, FS_Subset, FS_CardinalityType
  <1> HIDE DEF A, B
  <1>5. Cardinality(B \ A) = Cardinality(B) - Cardinality(A \cap B)
    BY <1>2, <1>3
  <1>6. Cardinality(B) = Cardinality(A) - Cardinality(A \ B) + Cardinality(B \ A)
    BY <1>2, <1>4, <1>5
  <1> QED
    BY <1>3, <1>6 DEF Units, A, B

\* The units of a set move from one status to another one.
Moving(p, st, new, M, s, t) ==
    /\ s # t
    /\ \A a \in M \cap AssetsOf(p) : st[a] = s
    /\ \A a \in AssetsOf(p) : new[a] = IF a \in M THEN t ELSE st[a]

\* k units fewer are counted in the one and k more in the other.
Recounted(p, st, new, s, t, k) ==
    /\ k \in Nat
    /\ Units(new, p, s) = Units(st, p, s) - k
    /\ Units(new, p, t) = Units(st, p, t) + k
    /\ \A u : u \notin {s, t} => Units(new, p, u) = Units(st, p, u)

\* The counts follow the units.
LEMMA UnitsMoved ==
    ASSUME NEW p, NEW st, NEW new, NEW M, NEW s, NEW t, Moving(p, st, new, M, s, t)
    PROVE  Recounted(p, st, new, s, t, Cardinality(M \cap AssetsOf(p)))
  <1> DEFINE left(u) == {a \in AssetsOf(p) : st[a] = u /\ new[a] # u}
             came(u) == {a \in AssetsOf(p) : st[a] # u /\ new[a] = u}
  <1>1. /\ left(s) = M \cap AssetsOf(p) /\ came(s) = {}
        /\ left(t) = {} /\ came(t) = M \cap AssetsOf(p)
    BY DEF Moving
  <1>2. \A u : u \notin {s, t} => Units(new, p, u) = Units(st, p, u)
    <2>1. \A u : u \notin {s, t} =>
             {a \in AssetsOf(p) : new[a] = u} = {a \in AssetsOf(p) : st[a] = u}
      BY DEF Moving
    <2> QED
      BY <2>1 DEF Units
  <1>3. \A u : Units(new, p, u) = Units(st, p, u) - Cardinality(left(u)) + Cardinality(came(u))
    BY UnitsFlow
  <1>4. Cardinality({}) = 0
    BY FS_EmptySet
  <1> HIDE DEF left, came
  <1>5. /\ Units(st, p, s) \in Nat /\ Units(st, p, t) \in Nat
        /\ Cardinality(M \cap AssetsOf(p)) \in Nat
    BY FewUnits, UnitsNat
  <1>6. /\ Units(new, p, s) = Units(st, p, s) - Cardinality(M \cap AssetsOf(p)) + 0
        /\ Units(new, p, t) = Units(st, p, t) - 0 + Cardinality(M \cap AssetsOf(p))
    BY <1>1, <1>3, <1>4
  <1> QED
    BY <1>2, <1>5, <1>6 DEF Recounted

\* Nothing happens to the units of a product.
LEMMA UnitsKept ==
    ASSUME NEW p, NEW st, NEW new, \A a \in AssetsOf(p) : new[a] = st[a]
    PROVE  \A s : Units(new, p, s) = Units(st, p, s)
  <1>1. \A s : {a \in AssetsOf(p) : new[a] = s} = {a \in AssetsOf(p) : st[a] = s}
    OBVIOUS
  <1> QED
    BY <1>1 DEF Units

\* What request r still owes of product p.
Outstanding(r, p) == IF status[r] \in OpenStatus THEN remaining_quantity(item[r][p]) ELSE 0

\* What a reservation of request r still holds of product p.
Promised(r, p) == IF status[r] = "accepted" THEN item[r][p]["accepted"] ELSE 0

\* The right-hand side of IssuedLedger.
Owed(p) == SumFunction([r \in {s \in Requests : status[s] \in OpenStatus} |->
                           remaining_quantity(item[r][p])])

\* A step of one request changes the demand by that request's share.
LEMMA DemandStep ==
    ASSUME Inv, Inv', NEW r \in Requests, NEW p \in Products,
           \A x \in Requests \ {r} : status'[x] = status[x] /\ item'[x] = item[x]
    PROVE  /\ Demand[p] \in Nat
           /\ Demand'[p] = Demand[p] - Promised(r, p) + Promised(r, p)'
  <1> DEFINE D == {s \in Requests : status[s] = "accepted"}
             E == {s \in Requests : status'[s] = "accepted"}
             f == [x \in D |-> item[x][p]["accepted"]]
             g == [x \in E |-> item'[x][p]["accepted"]]
  <1>1. IsFiniteSet(D)
    BY FS_Subset
  <1>2. \A x \in Requests : item[x][p]["accepted"] \in Nat /\ item'[x][p]["accepted"] \in Nat
    BY DEF Inv, RequestRows, Counters
  <1>3. IsFiniteSet(E) /\ f \in [D -> Nat] /\ g \in [E -> Nat]
    BY <1>2, FS_Subset
  <1>4. Summable(f) /\ Summable(g) /\ AgreeOff(f, g, r)
    BY <1>1, <1>2, <1>3 DEF Summable, AgreeOff
  <1>5. At(f, r) = Promised(r, p) /\ At(g, r) = Promised(r, p)'
    BY DEF At, Promised
  <1>6. Demand[p] = SumFunction(f) /\ Demand'[p] = SumFunction(g)
    BY DEF Demand
  <1> HIDE DEF D, E, f, g
  <1>7. SumFunction(g) = SumFunction(f) - At(f, r) + At(g, r)
    BY <1>4, SumStep
  <1>8. SumFunction(f) \in Nat
    BY <1>1, <1>3, SumFunctionType
  <1> QED
    BY <1>5, <1>6, <1>7, <1>8

\* And what is owed by that request's share of it.
LEMMA OwedStep ==
    ASSUME Inv, Inv', NEW r \in Requests, NEW p \in Products,
           \A x \in Requests \ {r} : status'[x] = status[x] /\ item'[x] = item[x]
    PROVE  /\ Owed(p) \in Nat
           /\ Owed(p)' = Owed(p) - Outstanding(r, p) + Outstanding(r, p)'
  <1> DEFINE D == {s \in Requests : status[s] \in OpenStatus}
             E == {s \in Requests : status'[s] \in OpenStatus}
             f == [x \in D |-> remaining_quantity(item[x][p])]
             g == [x \in E |-> remaining_quantity(item'[x][p])]
  <1>1. IsFiniteSet(D)
    BY FS_Subset
  <1>2. \A x \in Requests : /\ remaining_quantity(item[x][p]) \in Nat
                            /\ remaining_quantity(item'[x][p]) \in Nat
    BY DEF Inv, RequestRows, Counters, ItemLedger, remaining_quantity
  <1>3. IsFiniteSet(E) /\ f \in [D -> Nat] /\ g \in [E -> Nat]
    BY <1>2, FS_Subset
  <1>4. Summable(f) /\ Summable(g) /\ AgreeOff(f, g, r)
    BY <1>1, <1>2, <1>3 DEF Summable, AgreeOff
  <1>5. At(f, r) = Outstanding(r, p) /\ At(g, r) = Outstanding(r, p)'
    BY DEF At, Outstanding, remaining_quantity
  <1>6. Owed(p) = SumFunction(f) /\ Owed(p)' = SumFunction(g)
    BY DEF Owed, remaining_quantity
  <1> HIDE DEF D, E, f, g
  <1>7. SumFunction(g) = SumFunction(f) - At(f, r) + At(g, r)
    BY <1>4, SumStep
  <1>8. SumFunction(f) \in Nat
    BY <1>1, <1>3, SumFunctionType
  <1> QED
    BY <1>5, <1>6, <1>7, <1>8

-----------------------------------------------------------------------------
(* A step concerns one request.                                            *)

\* The step leaves what the two workflow tables say of request x alone.
Spared(x) ==
    /\ status'[x] = status[x] /\ item'[x] = item[x] /\ link'[x] = link[x]
    /\ issue_evidence'[x] = issue_evidence[x]
    /\ loan_status'[x] = loan_status[x] /\ loan_source'[x] = loan_source[x]
    /\ loan_qrs'[x] = loan_qrs[x]
    /\ \A e : <<x, e>> \in return_event' <=> <<x, e>> \in return_event

\* The columns Spared is about.
rowVars == <<status, item, link, issue_evidence, return_event, loan_status, loan_source, loan_qrs>>

\* Every step of a request spares the other ones.
LEMMA OthersSpared ==
    ASSUME Inv, NEW r \in Requests, ReviewNext(r) \/ HandoutNext(r) \/ ReturnNext(r),
           NEW x \in Requests \ {r}
    PROVE  Spared(x)
  <1> USE DEF Spared, Inv, RequestRows, LoanRows
  <1>1. CASE ReviewNext(r)
    <2>1. ASSUME NEW q, NEW key, submit_request(r, q, key)
          PROVE  Spared(x)
      BY <2>1 DEF submit_request, loanVars
    <2>2. ASSUME NEW q, accept_request(r, q)
          PROVE  Spared(x)
      BY <2>2 DEF accept_request, loanVars
    <2>3. CASE reject_request(r)
      BY <2>3 DEF reject_request, loanVars
    <2>4. CASE cancel_request(r)
      BY <2>4 DEF cancel_request, loanVars
    <2>5. ASSUME NEW b, assign_box(r, b)
          PROVE  Spared(x)
      BY <2>5 DEF assign_box, loanVars
    <2>6. ASSUME NEW e, NEW scanned, NEW fix, NEW scrap, issue_request(r, e, scanned, fix, scrap)
          PROVE  Spared(x)
      BY <2>6 DEF issue_request, loanVars
    <2> QED
      BY <1>1, <2>1, <2>2, <2>3, <2>4, <2>5, <2>6 DEF ReviewNext
  <1>2. CASE HandoutNext(r)
    <2>1. ASSUME NEW e, NEW q, NEW box, NEW qrs, NEW source,
                 _create_issued_request(r, e, q, box, qrs, source)
          PROVE  Spared(x)
      BY <2>1 DEF _create_issued_request
    <2>2. ASSUME NEW e, NEW qrs, NEW before, checkout_tool(r, e, qrs, before)
          PROVE  Spared(x)
      BY <2>1, <2>2 DEF checkout_tool
    <2>3. ASSUME NEW e, NEW container, NEW qrs, NEW before, NEW manual,
                 issue_direct_loan(r, e, container, qrs, before, manual)
          PROVE  Spared(x)
      BY <2>1, <2>3 DEF issue_direct_loan
    <2> QED
      BY <1>2, <2>2, <2>3 DEF HandoutNext
  <1>3. CASE ReturnNext(r)
    <2>1. ASSUME NEW e, NEW given, NEW out, return_request(r, e, given, out)
          PROVE  Spared(x)
      BY <2>1 DEF return_request, loanVars
    <2>2. ASSUME NEW e, NEW given, NEW out, return_direct_loan(r, e, given, out)
          PROVE  Spared(x)
      BY <2>2 DEF return_direct_loan, CloseLoan
    <2>3. ASSUME NEW e, NEW report_problem, return_tool(r, e, report_problem)
          PROVE  Spared(x)
      BY <2>3 DEF return_tool, CloseLoan
    <2>4. ASSUME NEW outcome, NEW q, NEW moved, triage_problem_report(r, outcome, q, moved)
          PROVE  Spared(x)
      BY <2>4 DEF triage_problem_report, requestVars
    <2> QED
      BY <1>3, <2>1, <2>2, <2>3, <2>4 DEF ReturnNext
  <1> QED
    BY <1>1, <1>2, <1>3

-----------------------------------------------------------------------------
(* What the rows of one request and its loan say of each other.            *)

\* Statuses of a request that has not been to the counter.
Uncollected == {"none", "pending_approval", "accepted"}

\* What only the counter records is not there before, a loan has no reviewed
\* unit links, somebody is owed something as long as a request waits for
\* them, and a public loan is as its return expects it.
Paper(r) ==
    /\ status[r] \in Uncollected =>
          /\ link[r] = {} /\ issue_evidence[r] = None /\ loan_status[r] = "none"
          /\ \A e \in ReturnPhotos : <<r, e>> \notin return_event
    /\ loan_status[r] # "none" => link[r] = {}
    /\ status[r] = "accepted" => \E p \in Products : item[r][p]["accepted"] > 0
    /\ status[r] \in OpenStatus /\ loan_status[r] = "none" =>
          \E p \in Products : remaining_quantity(item[r][p]) > 0
    /\ loan_status[r] = "checked_out" /\ loan_source[r] = "public_self_checkout" =>
          require_public_return_ledger(r)

Papers == \A r \in Requests : Paper(r)

\* A spared request keeps its papers.
LEMMA PaperKept ==
    ASSUME NEW x \in Requests, Paper(x), Spared(x)
    PROVE  Paper(x)'
  BY DEF Paper, Spared, require_public_return_ledger, Lines, remaining_quantity

\* So does everybody in a step that changes none of them.
LEMMA PapersKept ==
    ASSUME Papers, UNCHANGED rowVars
    PROVE  Papers'
  BY PaperKept DEF Papers, rowVars, Spared

\* The steps of the review.
LEMMA ReviewPapers ==
    ASSUME Inv, Papers, NEW r \in Requests, ReviewNext(r)
    PROVE  Papers'
  <1> SUFFICES Paper(r)'
    BY OthersSpared, PaperKept DEF Papers
  <1> USE DEF Inv, RequestRows, LoanRows
  <1>1. ASSUME NEW q \in Quantities, NEW key, submit_request(r, q, key)
        PROVE  Paper(r)'
    BY <1>1 DEF Papers, Paper, submit_request, loanVars, Uncollected, OpenStatus
  <1>2. ASSUME NEW q \in Quantities, accept_request(r, q)
        PROVE  Paper(r)'
    <2>1. PICK p \in Products : q[p] > 0
      BY <1>2 DEF accept_request
    <2>2. item'[r][p]["accepted"] = q[p]
      BY <1>2 DEF accept_request, Counters
    <2> QED
      BY <1>2, <2>1, <2>2 DEF Papers, Paper, accept_request, loanVars, Uncollected, OpenStatus
  <1>3. CASE reject_request(r)
    BY <1>3 DEF Papers, Paper, reject_request, loanVars, Uncollected, OpenStatus
  <1>4. CASE cancel_request(r)
    BY <1>4 DEF Papers, Paper, cancel_request, loanVars, Uncollected, OpenStatus
  <1>5. ASSUME NEW b, assign_box(r, b)
        PROVE  Paper(r)'
    BY <1>5, PapersKept DEF Papers, assign_box, loanVars, rowVars
  <1>6. ASSUME NEW e, NEW scanned, NEW fix \in Quantities, NEW scrap \in Quantities,
               issue_request(r, e, scanned, fix, scrap)
        PROVE  Paper(r)'
    <2>1. PICK p \in Products : item[r][p]["accepted"] > fix[p] + scrap[p]
      BY <1>6 DEF issue_request, validate_broken_rejects, Column
    <2>2. /\ item[r][p] \in [Counters -> Nat] /\ fix[p] \in Nat /\ scrap[p] \in Nat
          /\ item[r][p]["returned"] = 0 /\ item[r][p]["damaged"] = 0 /\ item[r][p]["missing"] = 0
      BY <1>6, QuantitiesCounts DEF issue_request, Untouched, Counters, Counts
    <2>3. /\ item'[r][p]["issued"] = item[r][p]["accepted"] - fix[p] - scrap[p]
          /\ item'[r][p]["returned"] = 0 /\ item'[r][p]["damaged"] = 0
          /\ item'[r][p]["missing"] = 0
      BY <1>6, <2>2 DEF issue_request, Column, Counters
    <2>4. remaining_quantity(item'[r][p]) > 0
      BY <2>1, <2>2, <2>3 DEF remaining_quantity, Counters
    <2> QED
      BY <1>6, <2>4 DEF Papers, Paper, issue_request, loanVars, Uncollected, OpenStatus,
                        remaining_quantity
  <1> QED
    BY <1>1, <1>2, <1>3, <1>4, <1>5, <1>6 DEF ReviewNext

\* Scanned codes hand out something: a box without public contents is refused.
LEMMA HandedOutSome ==
    ASSUME NEW qrs \in SUBSET Targets, qrs # {}, NEW before, NEW offered,
           _checkout_targets(qrs, before, offered)
    PROVE  \E p \in Products : HandedOut(qrs, before, offered)[p] > 0
  <1>0. \A p \in Products : Cardinality(qrs \cap AssetsOf(p)) \in Nat
    BY FewUnits
  <1>1. ASSUME NEW p \in qrs \cap Products
        PROVE  HandedOut(qrs, before, offered)[p] > 0
    BY <1>0 DEF HandedOut, Scanned
  <1>2. ASSUME NEW a \in qrs \cap Assets
        PROVE  HandedOut(qrs, before, offered)[ProductOf[a]] > 0
    <2>1. qrs \cap AssetsOf(ProductOf[a]) # {}
      BY DEF AssetsOf
    <2>2. Cardinality(qrs \cap AssetsOf(ProductOf[a])) # 0
      BY <2>1, FewUnits, FS_EmptySet
    <2>3. ProductOf[a] \in Products
      OBVIOUS
    <2> QED
      BY <1>0, <2>2, <2>3 DEF HandedOut, Scanned
  <1>3. ASSUME NEW b \in qrs \cap Boxes
        PROVE  \E p \in Products : HandedOut(qrs, before, offered)[p] > 0
    <2>1. PICK p \in Products : p \in BoxContents(b, before, offered)
      BY DEF _checkout_targets, _checkout_box, BoxContents
    <2> QED
      BY <1>0, <2>1 DEF HandedOut, Scanned
  <1> QED
    BY <1>1, <1>2, <1>3 DEF Targets

\* The rows _create_issued_request writes.
LEMMA CreatePapers ==
    ASSUME Inv, Papers, NEW r \in Requests, NEW e \in IssuePhotos, NEW q \in Counts,
           NEW box, NEW qrs, NEW source, \E p \in Products : q[p] > 0,
           _create_issued_request(r, e, q, box, qrs, source)
    PROVE  Paper(r)'
  <1> USE DEF Inv, RequestRows, LoanRows
  <1>1. /\ status[r] = "none" /\ status'[r] = "issued" /\ loan_status'[r] = "checked_out"
        /\ link'[r] = link[r]
        /\ \A p \in Products, c \in Counters :
              item'[r][p][c] = IF c \in {"requested", "accepted", "issued"} THEN q[p] ELSE 0
    BY DEF _create_issued_request
  <1>2. link[r] = {}
    BY <1>1 DEF Papers, Paper, Uncollected
  <1>3. require_public_return_ledger(r)'
    <2>1. Lines(r)' = {p \in Products : q[p] > 0}
      BY <1>1 DEF Lines, Counters
    <2>2. Lines(r)' # {}
      BY <2>1
    <2> QED
      BY <1>1, <2>1, <2>2 DEF require_public_return_ledger, Counters, Outcomes
  <1> QED
    BY <1>1, <1>2, <1>3 DEF Paper, Uncollected

\* Something is handed out or, by staff, a container alone.
LEMMA CreatePapersAlone ==
    ASSUME Inv, Papers, NEW r \in Requests, NEW e \in IssuePhotos, NEW q,
           NEW box, NEW qrs,
           _create_issued_request(r, e, q, box, qrs, "admin_direct")
    PROVE  Paper(r)'
  <1> USE DEF Inv, RequestRows, LoanRows
  <1>1. /\ status[r] = "none" /\ status'[r] = "issued" /\ loan_status'[r] = "checked_out"
        /\ link'[r] = link[r] /\ loan_source'[r] = "admin_direct"
    BY DEF _create_issued_request
  <1>2. link[r] = {}
    BY <1>1 DEF Papers, Paper, Uncollected
  <1> QED
    BY <1>1, <1>2 DEF Paper, Uncollected

\* The two handouts.
LEMMA HandoutPapers ==
    ASSUME Inv, Papers, NEW r \in Requests, HandoutNext(r)
    PROVE  Papers'
  <1> SUFFICES Paper(r)'
    BY OthersSpared, PaperKept DEF Papers
  <1>1. PICK e \in IssuePhotos, qrs \in SUBSET Targets : \E before \in SUBSET qrs :
           \/ checkout_tool(r, e, qrs, before)
           \/ \E container \in Places, manual \in Quantities :
                 issue_direct_loan(r, e, container, qrs, before, manual)
    BY DEF HandoutNext
  <1>2. ASSUME NEW before, checkout_tool(r, e, qrs, before)
        PROVE  Paper(r)'
    <2>1. \E p \in Products : HandedOut(qrs, before, Public)[p] > 0
      BY <1>2, HandedOutSome DEF checkout_tool
    <2> QED
      BY <1>2, <2>1, HandedOutCounts, CreatePapers DEF checkout_tool
  <1>3. ASSUME NEW before, NEW container, NEW manual,
               issue_direct_loan(r, e, container, qrs, before, manual)
        PROVE  Paper(r)'
    BY <1>3, CreatePapersAlone DEF issue_direct_loan
  <1> QED
    BY <1>1, <1>2, <1>3

\* The returns.  Nothing is outstanding of what is closed, so a request that
\* stays open has something outstanding.
LEMMA ReturnPapers ==
    ASSUME Inv, Inv', Papers, NEW r \in Requests, ReturnNext(r)
    PROVE  Papers'
  <1> USE DEF Inv, RequestRows, LoanRows
  <1>1. ASSUME NEW e, NEW given, NEW out, return_request(r, e, given, out)
        PROVE  Papers'
    <2> SUFFICES Paper(r)'
      BY <1>1, OthersSpared, PaperKept, ZenonT(60) DEF Papers, ReturnNext
    <2> DEFINE rows == ResolveItems(r, build_resolutions(given, out))
    <2>1. /\ loan_status[r] = "none" /\ loan_status'[r] = "none"
          /\ status'[r] = finalize_return_status(rows) /\ item'[r] = rows
      BY <1>1 DEF return_request, loanVars
    <2>2. \A p \in Products : remaining_quantity(item'[r][p]) >= 0
      BY DEF ItemLedger, remaining_quantity
    <2>3. \A p \in Products : remaining_quantity(item'[r][p]) \in Int
      BY DEF remaining_quantity, Counters
    <2> HIDE DEF rows
    <2>4. status'[r] \in OpenStatus => \E p \in Products : remaining_quantity(item'[r][p]) > 0
      BY <2>1, <2>2, <2>3 DEF finalize_return_status, OpenStatus
    <2>5. status'[r] \notin Uncollected
      BY <2>1 DEF finalize_return_status, Uncollected
    <2> HIDE DEF Inv, RequestRows, LoanRows
    <2> QED
      BY <2>1, <2>4, <2>5 DEF Paper, Uncollected, remaining_quantity
  <1>2. ASSUME NEW e, NEW s, CloseLoan(r, e), loan_status[r] = "checked_out",
               status'[r] = s, s \notin Uncollected, ReturnNext(r)
        PROVE  Papers'
    <2> SUFFICES Paper(r)'
      BY OthersSpared, PaperKept DEF Papers
    <2>1. loan_status'[r] = "returned"
      BY <1>2 DEF CloseLoan
    <2>2. link[r] = {}
      BY <1>2 DEF Papers, Paper
    <2>3. link'[r] = {}
      BY <1>2, <2>2 DEF CloseLoan
    <2> HIDE DEF Inv, RequestRows, LoanRows
    <2> QED
      BY <1>2, <2>1, <2>3 DEF Paper, Uncollected
  <1>3. ASSUME NEW e, NEW given, NEW out, return_direct_loan(r, e, given, out)
        PROVE  Papers'
    <2>1. finalize_return_status(ResolveItems(r, build_resolutions(given, out))) \notin Uncollected
      BY DEF finalize_return_status, Uncollected
    <2> QED
      BY <1>2, <1>3, <2>1 DEF return_direct_loan
  <1>4. ASSUME NEW e, NEW report_problem, return_tool(r, e, report_problem)
        PROVE  Papers'
    <2>1. status'[r] = "returned" /\ loan_status[r] = "checked_out" /\ CloseLoan(r, e)
      BY <1>4 DEF return_tool
    <2>2. ReturnNext(r)
      BY <1>4 DEF ReturnNext
    <2>3. status'[r] \notin Uncollected
      BY <2>1 DEF Uncollected
    <2> QED
      BY <1>2, <2>1, <2>2, <2>3
  <1>5. ASSUME NEW outcome, NEW q, NEW moved, triage_problem_report(r, outcome, q, moved)
        PROVE  Papers'
    BY <1>5, PapersKept DEF triage_problem_report, requestVars, rowVars
  <1> QED
    BY <1>1, <1>3, <1>4, <1>5 DEF ReturnNext

\* So every step keeps the papers in order.
LEMMA NextPapers == Inv /\ Inv' /\ Papers /\ [Next]_vars => Papers'
  <1> SUFFICES ASSUME Inv, Inv', Papers, [Next]_vars
               PROVE  Papers'
    OBVIOUS
  <1>1. CASE StaffNext
    BY <1>1, PapersKept DEF StaffNext, requestVars, loanVars, rowVars
  <1>2. CASE UNCHANGED vars
    BY <1>2, PapersKept DEF vars, requestVars, loanVars, rowVars
  <1> QED
    BY <1>1, <1>2, ReviewPapers, HandoutPapers, ReturnPapers DEF Next

\* Nothing has been written in the first state.
LEMMA InitPapers == Init => Papers
  BY DEF Init, Papers, Paper, Uncollected, OpenStatus

-----------------------------------------------------------------------------
(* Who answers for a unit.                                                 *)

\* Only products tracked unit by unit have units.
UnitsTracked == \A a \in Assets : asset[a] # "absent" => mode[ProductOf[a]] = "individual"

\* No operation marks a unit RESERVED or retires it.
Unmarked == \A a \in Assets : asset[a] \notin {"reserved", "retired"}

OneBorrower ==
    \A r, s \in Requests, a \in Assets : a \in Custody(r) /\ a \in Custody(s) => r = s

IssuedUnits == \A a \in Assets : asset[a] = "issued" <=> \E r \in Requests : a \in Custody(r)

\* A borrower answers for as many units as are outstanding.
CustodyCounted ==
    \A r \in Requests, p \in Products : mode[p] = "individual" =>
        Cardinality(Custody(r) \cap AssetsOf(p)) = Outstanding(r, p)

Keeping == UnitsTracked /\ Unmarked /\ OneBorrower /\ IssuedUnits /\ CustodyCounted

\* Nobody answers for anything before the counter or after settling.
LEMMA NoCustody ==
    ASSUME NEW r \in Requests, status[r] \notin OpenStatus, loan_status[r] # "checked_out"
    PROVE  Custody(r) = {} /\ \A p : Outstanding(r, p) = 0
  BY DEF Custody, Outstanding

\* Units somebody answers for are assets.
LEMMA CustodyAssets ==
    ASSUME Inv, NEW r \in Requests
    PROVE  Custody(r) \subseteq Assets
  BY DEF Inv, RequestRows, Custody, LoanAssets

\* A spared request answers for what it did.
LEMMA CustodySpared ==
    ASSUME NEW x \in Requests, Spared(x)
    PROVE  Custody(x)' = Custody(x) /\ \A p : Outstanding(x, p)' = Outstanding(x, p)
  BY DEF Spared, Custody, LoanAssets, Outstanding, remaining_quantity

\* One request hands units in or takes units that were not out.
LEMMA CustodyStep ==
    ASSUME Inv, Inv', Keeping, NEW r \in Requests,
           \A x \in Requests \ {r} : Spared(x),
           \A a \in Assets : asset'[a] = "issued" <=>
               a \in Custody(r)' \/ (asset[a] = "issued" /\ a \notin Custody(r)),
           \A a \in Custody(r)' : a \in Custody(r) \/ asset[a] # "issued"
    PROVE  OneBorrower' /\ IssuedUnits'
  <1>1. \A x \in Requests \ {r} : Custody(x)' = Custody(x)
    BY CustodySpared
  <1>2. \A x \in Requests, a \in Assets : a \in Custody(x) => asset[a] = "issued"
    BY DEF Keeping, IssuedUnits
  <1>3. OneBorrower'
    <2> SUFFICES ASSUME NEW x \in Requests, NEW y \in Requests, NEW a \in Assets,
                        a \in Custody(x)', a \in Custody(y)', x # y
                 PROVE  FALSE
      BY DEF OneBorrower
    <2>1. CASE x # r /\ y # r
      BY <1>1, <2>1 DEF Keeping, OneBorrower
    <2>2. CASE x = r \/ y = r
      <3>1. PICK z \in Requests \ {r} : a \in Custody(z) /\ a \in Custody(r)'
        BY <1>1, <2>2
      <3> QED
        BY <1>2, <3>1 DEF Keeping, OneBorrower
    <2> QED
      BY <2>1, <2>2
  <1>4. IssuedUnits'
    <2> SUFFICES ASSUME NEW a \in Assets
                 PROVE  asset'[a] = "issued" <=> \E x \in Requests : a \in Custody(x)'
      BY DEF IssuedUnits
    <2>1. ASSUME asset[a] = "issued", a \notin Custody(r)
          PROVE  \E x \in Requests : a \in Custody(x)'
      BY <1>1, <2>1 DEF Keeping, IssuedUnits
    <2>2. ASSUME NEW x \in Requests \ {r}, a \in Custody(x)'
          PROVE  asset'[a] = "issued"
      BY <1>1, <1>2, <2>2 DEF Keeping, OneBorrower
    <2> QED
      BY <2>1, <2>2
  <1> QED
    BY <1>3, <1>4

\* The counts of the other borrowers do not change with it.
LEMMA CountedStep ==
    ASSUME Keeping, NEW r \in Requests, \A x \in Requests \ {r} : Spared(x), mode' = mode,
           \A p \in Products : mode[p] = "individual" =>
               Cardinality(Custody(r)' \cap AssetsOf(p)) = Outstanding(r, p)'
    PROVE  CustodyCounted'
  <1>1. ASSUME NEW x \in Requests \ {r}, NEW p \in Products, mode[p] = "individual"
        PROVE  Cardinality(Custody(x)' \cap AssetsOf(p)) = Outstanding(x, p)'
    BY <1>1, CustodySpared DEF Keeping, CustodyCounted
  <1> QED
    BY <1>1 DEF CustodyCounted

\* A row that asks for nothing has nothing out.
LEMMA NothingAsked ==
    ASSUME NEW it, \A c \in Counters : it[c] \in Nat, ~ it["requested"] > 0,
           it["issued"] + it["needs_fix"] <= it["accepted"], it["accepted"] <= it["requested"],
           remaining_quantity(it) >= 0
    PROVE  remaining_quantity(it) = 0
  <1>1. /\ it["accepted"] \in Nat /\ it["issued"] \in Nat /\ it["returned"] \in Nat
        /\ it["damaged"] \in Nat /\ it["missing"] \in Nat /\ it["needs_fix"] \in Nat
        /\ it["requested"] \in Nat
    BY DEF Counters
  <1>2. it["issued"] = 0
    BY <1>1
  <1> QED
    BY <1>1, <1>2 DEF remaining_quantity

\* A step that changes no borrower's rows and moves no unit out or in.
LEMMA KeepingKept ==
    ASSUME Inv, Keeping, UNCHANGED rowVars,
           \A a \in Assets : /\ asset'[a] = "issued" <=> asset[a] = "issued"
                             /\ asset'[a] \notin {"reserved", "retired"}
                             /\ asset'[a] # "absent" => mode'[ProductOf[a]] = "individual",
           \A p \in Products : mode'[p] = "individual" /\ mode[p] # "individual" =>
               /\ p \notin OpenProducts
               /\ \A a \in AssetsOf(p) : asset[a] = "absent"
    PROVE  Keeping'
  <1>1. \A x \in Requests : Custody(x)' = Custody(x) /\ \A p : Outstanding(x, p)' = Outstanding(x, p)
    BY CustodySpared DEF rowVars, Spared
  <1>2. OneBorrower' /\ IssuedUnits'
    BY <1>1 DEF Keeping, OneBorrower, IssuedUnits
  <1>3. UnitsTracked' /\ Unmarked'
    BY DEF UnitsTracked, Unmarked
  <1>4. CustodyCounted'
    <2> SUFFICES ASSUME NEW x \in Requests, NEW p \in Products, mode'[p] = "individual"
                 PROVE  Cardinality(Custody(x) \cap AssetsOf(p)) = Outstanding(x, p)
      BY <1>1 DEF CustodyCounted
    <2>1. CASE mode[p] = "individual"
      BY <2>1 DEF Keeping, CustodyCounted
    <2>2. CASE mode[p] # "individual"
      <3>1. /\ p \notin OpenProducts
            /\ \A a \in AssetsOf(p) : asset[a] = "absent"
        BY <2>2
      <3>2. Custody(x) \cap AssetsOf(p) = {}
        BY <3>1 DEF Keeping, IssuedUnits, AssetsOf
      <3>3. Outstanding(x, p) = 0
        <4>1. CASE status[x] \notin OpenStatus
          BY <4>1 DEF Outstanding
        <4>2. CASE status[x] \in OpenStatus
          <5>1. \A c \in Counters : item[x][p][c] \in Nat
            BY DEF Inv, RequestRows, Lines
          <5>2. ~ item[x][p]["requested"] > 0
            BY <3>1, <4>2 DEF OpenProducts, Lines
          <5>3. /\ item[x][p]["issued"] + item[x][p]["needs_fix"] <= item[x][p]["accepted"]
                /\ item[x][p]["accepted"] <= item[x][p]["requested"]
                /\ remaining_quantity(item[x][p]) >= 0
            BY DEF Inv, ItemLedger
          <5>4. remaining_quantity(item[x][p]) = 0
            BY <5>1, <5>2, <5>3, NothingAsked, SMT
          <5> QED
            BY <4>2, <5>4 DEF Outstanding
        <4> QED
          BY <4>1, <4>2
      <3> QED
        BY <3>2, <3>3, FS_EmptySet
    <2> QED
      BY <2>1, <2>2
  <1> QED
    BY <1>2, <1>3, <1>4 DEF Keeping

\* Staff moves units that are neither out nor promised, and a product changes
\* its tracking mode without units or open requests.
LEMMA StaffKeeping ==
    ASSUME Inv, Keeping, StaffNext
    PROVE  Keeping'
  <1> DEFINE Moves ==
        /\ \A a \in Assets : /\ asset'[a] = "issued" <=> asset[a] = "issued"
                             /\ asset'[a] \notin {"reserved", "retired"}
                             /\ asset'[a] # "absent" => mode'[ProductOf[a]] = "individual"
        /\ \A p \in Products : mode'[p] = "individual" /\ mode[p] # "individual" =>
               /\ p \notin OpenProducts
               /\ \A a \in AssetsOf(p) : asset[a] = "absent"
  <1>1. UNCHANGED rowVars /\ InventoryNext(OpenProducts, OnLoan)
    BY DEF StaffNext, requestVars, loanVars, rowVars
  <1>2. /\ mode \in [Products -> {"quantity", "individual"}]
        /\ asset \in [Assets -> AssetStatus \cup {"absent"}]
        /\ UnitsTracked /\ Unmarked
    BY DEF Inv, Stock, Keeping
  <1>3. CASE UNCHANGED <<mode, asset>>
    BY <1>2, <1>3, <1>1, KeepingKept DEF UnitsTracked, Unmarked
  <1>4. ASSUME NEW p \in Products, change_tracking_mode(p, OpenProducts)
        PROVE  Moves
    BY <1>2, <1>4 DEF change_tracking_mode, TrackingModeChangeable, UnitsTracked, Unmarked, AssetsOf
  <1>5. ASSUME NEW p \in Products, NEW new \in SUBSET AssetsOf(p),
               generate_assets_with_qr(p, new, OpenProducts)
        PROVE  Moves
    BY <1>2, <1>5 DEF generate_assets_with_qr, TrackingModeChangeable, UnitsTracked, Unmarked,
                      AssetsOf
  <1>6. ASSUME NEW a \in Assets, NEW s, move_asset_status(a, s), mode' = mode,
               asset[a] \notin {"absent", "issued"}, s \notin {"absent", "issued", "reserved", "retired"}
        PROVE  Moves
    BY <1>2, <1>6 DEF move_asset_status, UnitsTracked, Unmarked
  <1>7. ASSUME NEW a \in Assets, ShelveAsset(a)
        PROVE  Moves
    BY <1>6, <1>7 DEF ShelveAsset
  <1>8. ASSUME NEW a \in Assets, RepairAsset(a)
        PROVE  Moves
    BY <1>6, <1>8 DEF RepairAsset
  <1>9. ASSUME NEW a \in Assets, NEW s, NEW b, TransferAsset(a, s, b, OnLoan), s # asset[a]
        PROVE  Moves
    BY <1>6, <1>9 DEF TransferAsset
  <1>10. ASSUME NEW a \in Assets, NEW b \in Assets, move_asset_across_makerspaces(a, b, OnLoan)
         PROVE  Moves
    BY <1>2, <1>10 DEF move_asset_across_makerspaces, UnitsTracked, Unmarked
  <1>11. CASE Moves
    BY <1>1, <1>11, KeepingKept
  <1> HIDE DEF Moves
  <1>12. ASSUME NEW p \in Products,
                \/ \E da, dd, dl \in -MaxDelta .. MaxDelta : adjust_manual_quantities(p, da, dd, dl)
                \/ \E q \in 1 .. MaxDelta :
                      \/ repair_from_needs_fix(p, q)
                      \/ move_available_to_needs_fix(p, q)
                      \/ scrap_from_needs_fix(p, q)
                      \/ log_consumption(p, q)
                      \/ \E d \in Products : transfer_available_quantity(p, d, q)
                \/ \E b \in Places : MoveProductRow(p, b)
                \/ link_consumable(p)
                \/ unlink_consumable(p)
         PROVE  UNCHANGED <<mode, asset>>
    BY <1>12 DEF adjust_manual_quantities, repair_from_needs_fix, move_available_to_needs_fix,
                 scrap_from_needs_fix, log_consumption, transfer_available_quantity,
                 MoveProductRow, link_consumable, unlink_consumable
  <1>13. ASSUME NEW a \in Assets, NEW s, NEW b, TransferAsset(a, s, b, OnLoan)
         PROVE  Moves \/ UNCHANGED <<mode, asset>>
    BY <1>9, <1>13 DEF TransferAsset
  <1>14. Moves \/ UNCHANGED <<mode, asset>>
    BY <1>1, <1>4, <1>5, <1>7, <1>8, <1>10, <1>12, <1>13 DEF InventoryNext
  <1> QED
    BY <1>3, <1>11, <1>14

\* The review hands out nothing before the counter.
LEMMA ReviewKeeping ==
    ASSUME Inv, Inv', Papers, Keeping, NEW r \in Requests, ReviewNext(r)
    PROVE  Keeping'
  <1>1. \A x \in Requests \ {r} : Spared(x)
    BY OthersSpared
  <1>2. ASSUME status[r] \in Uncollected
        PROVE  Custody(r) = {} /\ \A p : Outstanding(r, p) = 0
    BY <1>2, NoCustody DEF Papers, Paper, Uncollected, OpenStatus
  <1>3. ASSUME status[r] \in Uncollected, status'[r] \notin OpenStatus,
               loan_status' = loan_status, asset' = asset, mode' = mode
        PROVE  Keeping'
    <2>1. Custody(r)' = {} /\ \A p : Outstanding(r, p)' = 0
      BY <1>3 DEF Papers, Paper, Custody, Outstanding
    <2>2. UnitsTracked' /\ Unmarked'
      BY <1>3 DEF Keeping, UnitsTracked, Unmarked
    <2>3. OneBorrower' /\ IssuedUnits'
      BY <1>1, <1>2, <1>3, <2>1, CustodyStep
    <2>4. CustodyCounted'
      BY <1>1, <1>3, <2>1, CountedStep, FS_EmptySet
    <2> QED
      BY <2>2, <2>3, <2>4 DEF Keeping
  <1>4. ASSUME NEW e, NEW scanned \in SUBSET Assets, NEW fix \in Quantities, NEW scrap \in Quantities,
               issue_request(r, e, scanned, fix, scrap)
        PROVE  Keeping'
    <2>1. /\ status[r] \in Uncollected /\ loan_status[r] = "none"
          /\ mode' = mode /\ loan_status' = loan_status
          /\ status'[r] = "issued" /\ link'[r] = scanned
          /\ \A a \in scanned : asset[a] = "available"
          /\ asset' = [a \in Assets |-> IF a \in scanned THEN "issued" ELSE asset[a]]
      BY <1>4 DEF issue_request, issue_individual_assets, Inv, RequestRows, Uncollected, loanVars,
                  Papers, Paper
    <2>2. Custody(r)' = scanned
      BY <2>1 DEF Custody, OpenStatus
    <2>3. UnitsTracked' /\ Unmarked'
      BY <2>1 DEF Keeping, UnitsTracked, Unmarked
    <2>4. OneBorrower' /\ IssuedUnits'
      BY <1>1, <1>2, <2>1, <2>2, CustodyStep
    <2>5. ASSUME NEW p \in Products, mode[p] = "individual"
          PROVE  Cardinality(scanned \cap AssetsOf(p)) = Outstanding(r, p)'
      <3>1. fix[p] \in Nat /\ scrap[p] \in Nat /\ ~ fix[p] + scrap[p] > 0
        BY <1>4, <2>5, QuantitiesCounts DEF issue_request, validate_broken_rejects, Counts
      <3>2. fix[p] = 0 /\ scrap[p] = 0
        BY <3>1
      <3>3. Cardinality(scanned \cap AssetsOf(p)) = item[r][p]["accepted"]
        BY <1>4, <2>5 DEF issue_request, issue_individual_assets, Column
      <3>4. /\ item[r][p] \in [Counters -> Nat] /\ item[r][p]["returned"] = 0
            /\ item[r][p]["damaged"] = 0 /\ item[r][p]["missing"] = 0
        BY <1>4 DEF issue_request, Inv, RequestRows, Untouched, Counters
      <3>5. /\ item'[r][p]["issued"] = item[r][p]["accepted"] - fix[p] - scrap[p]
            /\ item'[r][p]["returned"] = 0 /\ item'[r][p]["damaged"] = 0
            /\ item'[r][p]["missing"] = 0
        BY <1>4, <3>4 DEF issue_request, Column, Counters, Inv, RequestRows
      <3>6. remaining_quantity(item'[r][p]) = item[r][p]["accepted"]
        BY <3>2, <3>4, <3>5 DEF remaining_quantity, Counters
      <3> QED
        BY <2>1, <3>3, <3>6 DEF Outstanding, OpenStatus, remaining_quantity
    <2>6. CustodyCounted'
      BY <1>1, <2>1, <2>2, <2>5, CountedStep
    <2> QED
      BY <2>3, <2>4, <2>6 DEF Keeping
  <1>5. ASSUME NEW q, NEW key, submit_request(r, q, key)
        PROVE  Keeping'
    BY <1>3, <1>5 DEF submit_request, inventoryVars, loanVars, Inv, RequestRows, Uncollected, OpenStatus
  <1>6. ASSUME NEW q, accept_request(r, q)
        PROVE  Keeping'
    BY <1>3, <1>6 DEF accept_request, loanVars, Inv, RequestRows, Uncollected, OpenStatus
  <1>7. CASE reject_request(r)
    BY <1>3, <1>7 DEF reject_request, inventoryVars, loanVars, Inv, RequestRows, Uncollected, OpenStatus
  <1>8. CASE cancel_request(r)
    BY <1>3, <1>8 DEF cancel_request, loanVars, Inv, RequestRows, Uncollected, OpenStatus
  <1>9. ASSUME NEW b, assign_box(r, b)
        PROVE  Keeping'
    BY <1>3, <1>9 DEF assign_box, inventoryVars, loanVars, Inv, RequestRows, Uncollected, OpenStatus
  <1> QED
    BY <1>4, <1>5, <1>6, <1>7, <1>8, <1>9 DEF ReviewNext

\* Scanned codes hand out exactly the units of an individual product among them.
LEMMA HandedOutUnits ==
    ASSUME NEW qrs, NEW before, NEW offered, _checkout_targets(qrs, before, offered),
           NEW p \in Products, mode[p] = "individual"
    PROVE  HandedOut(qrs, before, offered)[p] = Cardinality(qrs \cap AssetsOf(p))
  <1>1. p \notin qrs
    BY DEF _checkout_targets
  <1>2. ~ \E b \in qrs \cap Boxes : p \in BoxContents(b, before, offered)
    BY DEF _checkout_targets, _checkout_box
  <1>3. Cardinality(qrs \cap AssetsOf(p)) \in Nat
    BY FewUnits
  <1> QED
    BY <1>1, <1>2, <1>3 DEF HandedOut, Scanned

\* _create_issued_request: the loan answers for the scanned units.
LEMMA CreateKeeping ==
    ASSUME Inv, Inv', Papers, Keeping, NEW r \in Requests, NEW e, NEW q \in Counts, NEW box,
           NEW qrs \in SUBSET Targets, NEW source,
           _create_issued_request(r, e, q, box, qrs, source),
           \A x \in Requests \ {r} : Spared(x),
           \A a \in qrs \cap Assets : asset[a] = "available",
           \A p \in Products : mode[p] = "individual" => q[p] = Cardinality(qrs \cap AssetsOf(p))
    PROVE  Keeping'
  <1>1. /\ status[r] = "none" /\ mode' = mode
        /\ status'[r] = "issued" /\ link'[r] = link[r] /\ loan_status'[r] = "checked_out"
        /\ loan_qrs'[r] = qrs
        /\ asset' = [a \in Assets |-> IF a \in qrs THEN "issued" ELSE asset[a]]
    BY DEF _create_issued_request, Inv, RequestRows, LoanRows
  <1>2. link[r] = {} /\ loan_status[r] = "none"
    BY <1>1 DEF Papers, Paper, Uncollected
  <1>3. Custody(r) = {}
    BY <1>1, <1>2, NoCustody DEF OpenStatus
  <1>4. Custody(r)' = qrs \cap Assets
    BY <1>1, <1>2 DEF Custody, LoanAssets, OpenStatus
  <1>5. UnitsTracked' /\ Unmarked'
    BY <1>1 DEF Keeping, UnitsTracked, Unmarked
  <1>6. OneBorrower' /\ IssuedUnits'
    BY <1>1, <1>3, <1>4, CustodyStep
  <1>7. ASSUME NEW p \in Products, mode[p] = "individual"
        PROVE  Cardinality((qrs \cap Assets) \cap AssetsOf(p)) = Outstanding(r, p)'
    <2>1. (qrs \cap Assets) \cap AssetsOf(p) = qrs \cap AssetsOf(p)
      BY DEF AssetsOf
    <2>2. /\ item'[r][p]["issued"] = q[p] /\ item'[r][p]["returned"] = 0
          /\ item'[r][p]["damaged"] = 0 /\ item'[r][p]["missing"] = 0
      BY DEF _create_issued_request, Inv, RequestRows, Counters
    <2>3. q[p] \in Nat /\ q[p] = Cardinality(qrs \cap AssetsOf(p))
      BY <1>7 DEF Counts
    <2>4. remaining_quantity(item'[r][p]) = q[p]
      BY <2>2, <2>3 DEF remaining_quantity
    <2> QED
      BY <1>1, <2>1, <2>3, <2>4 DEF Outstanding, OpenStatus, remaining_quantity
  <1>8. CustodyCounted'
    BY <1>1, <1>4, <1>7, CountedStep
  <1> QED
    BY <1>5, <1>6, <1>8 DEF Keeping

\* The quantities a handout books, as HandoutNext instantiates the two.
LEMMA HandoutCreates ==
    ASSUME Inv, NEW r \in Requests, HandoutNext(r)
    PROVE  \E e \in IssuePhotos, qrs \in SUBSET Targets, q \in Counts, box \in Places,
              source \in {"public_self_checkout", "admin_direct"} :
              /\ _create_issued_request(r, e, q, box, qrs, source)
              /\ \A a \in qrs \cap Assets : asset[a] = "available"
              /\ \A p \in Products : mode[p] = "individual" => q[p] = Cardinality(qrs \cap AssetsOf(p))
  <1>1. PICK e \in IssuePhotos, qrs \in SUBSET Targets : \E before \in SUBSET qrs :
           \/ checkout_tool(r, e, qrs, before)
           \/ \E container \in Places, manual \in Quantities :
                 issue_direct_loan(r, e, container, qrs, before, manual)
    BY DEF HandoutNext
  <1>2. ASSUME NEW before \in SUBSET qrs, checkout_tool(r, e, qrs, before)
        PROVE  \E q \in Counts, box \in Places :
                  /\ _create_issued_request(r, e, q, box, qrs, "public_self_checkout")
                  /\ \A a \in qrs \cap Assets : asset[a] = "available"
                  /\ \A p \in Products :
                        mode[p] = "individual" => q[p] = Cardinality(qrs \cap AssetsOf(p))
    <2> DEFINE q == HandedOut(qrs, before, Public)
    <2>1. _checkout_targets(qrs, before, Public)
      BY <1>2 DEF checkout_tool
    <2>2. \A a \in qrs \cap Assets : asset[a] = "available"
      BY <2>1 DEF _checkout_targets
    <2>3. \A p \in Products : mode[p] = "individual" => q[p] = Cardinality(qrs \cap AssetsOf(p))
      BY <2>1, HandedOutUnits
    <2>4. q \in Counts
      BY HandedOutCounts
    <2>5. \E box \in Places : _create_issued_request(r, e, q, box, qrs, "public_self_checkout")
      BY <1>2 DEF checkout_tool
    <2> HIDE DEF q
    <2> QED
      BY <2>2, <2>3, <2>4, <2>5
  <1>3. ASSUME NEW before \in SUBSET qrs, NEW container \in Places, NEW manual \in Quantities,
               issue_direct_loan(r, e, container, qrs, before, manual)
        PROVE  \E q \in Counts, box \in Places :
                  /\ _create_issued_request(r, e, q, box, qrs, "admin_direct")
                  /\ \A a \in qrs \cap Assets : asset[a] = "available"
                  /\ \A p \in Products :
                        mode[p] = "individual" => q[p] = Cardinality(qrs \cap AssetsOf(p))
    <2> DEFINE contents == HandedOut(qrs, before, Products \cup Assets)
               q == [p \in Products |-> contents[p] + manual[p]]
    <2>1. _checkout_targets(qrs, before, Products \cup Assets)
      BY <1>3 DEF issue_direct_loan
    <2>2. \A a \in qrs \cap Assets : asset[a] = "available"
      BY <2>1 DEF _checkout_targets
    <2>3. contents \in Counts /\ manual \in Counts
      BY HandedOutCounts, QuantitiesCounts
    <2>4. \A p \in Products : mode[p] = "individual" =>
             contents[p] = Cardinality(qrs \cap AssetsOf(p))
      BY <2>1, HandedOutUnits
    <2>5. \A p \in Products : mode[p] = "individual" => ~ manual[p] > 0
      BY <1>3 DEF issue_direct_loan
    <2>6. \E box \in Places : _create_issued_request(r, e, q, box, qrs, "admin_direct")
      BY <1>3 DEF issue_direct_loan
    <2> HIDE DEF contents
    <2>7. q \in Counts
      BY <2>3 DEF Counts
    <2>8. \A p \in Products : mode[p] = "individual" => q[p] = Cardinality(qrs \cap AssetsOf(p))
      <3>1. \A p \in Products : mode[p] = "individual" => q[p] = contents[p]
        BY <2>3, <2>5 DEF Counts
      <3> QED
        BY <2>4, <3>1
    <2> HIDE DEF q
    <2> QED
      BY <2>2, <2>6, <2>7, <2>8
  <1>4. PICK before \in SUBSET qrs :
           \/ checkout_tool(r, e, qrs, before)
           \/ \E container \in Places, manual \in Quantities :
                 issue_direct_loan(r, e, container, qrs, before, manual)
    BY <1>1
  <1>5. PICK source \in {"public_self_checkout", "admin_direct"} :
           \E q \in Counts, box \in Places :
              /\ _create_issued_request(r, e, q, box, qrs, source)
              /\ \A a \in qrs \cap Assets : asset[a] = "available"
              /\ \A p \in Products :
                    mode[p] = "individual" => q[p] = Cardinality(qrs \cap AssetsOf(p))
    BY <1>2, <1>3, <1>4
  <1>6. PICK q \in Counts, box \in Places :
              /\ _create_issued_request(r, e, q, box, qrs, source)
              /\ \A a \in qrs \cap Assets : asset[a] = "available"
              /\ \A p \in Products :
                    mode[p] = "individual" => q[p] = Cardinality(qrs \cap AssetsOf(p))
    BY <1>5
  <1> DEFINE Made(ee, qs, qq, bb, src) ==
              /\ _create_issued_request(r, ee, qq, bb, qs, src)
              /\ \A a \in qs \cap Assets : asset[a] = "available"
              /\ \A p \in Products :
                    mode[p] = "individual" => qq[p] = Cardinality(qs \cap AssetsOf(p))
  <1>7. Made(e, qrs, q, box, source)
    BY <1>6
  <1> HIDE DEF Made
  <1>8. \E ee \in IssuePhotos, qs \in SUBSET Targets, qq \in Counts, bb \in Places,
           src \in {"public_self_checkout", "admin_direct"} : Made(ee, qs, qq, bb, src)
    BY <1>7
  <1> QED
    BY <1>8, ZenonT(60) DEF Made

\* So every handout keeps custody.
LEMMA HandoutKeeping ==
    ASSUME Inv, Inv', Papers, Keeping, NEW r \in Requests, HandoutNext(r)
    PROVE  Keeping'
  BY HandoutCreates, CreateKeeping, OthersSpared

\* A return resolves an individual product unit by unit.
LEMMA BroughtCounted ==
    ASSUME NEW out \in [Assets -> Outcomes \cup {"issued"}], NEW given,
           NEW p \in Products, mode[p] = "individual"
    PROVE  LET res == build_resolutions(given, out)
           IN  /\ \A o \in Outcomes : /\ res[p][o] = Cardinality({a \in AssetsOf(p) : out[a] = o})
                                      /\ res[p][o] \in Nat
               /\ Cardinality(Brought(out) \cap AssetsOf(p)) = Resolved(res, p)
  <1> DEFINE res == build_resolutions(given, out)
             B(o) == {a \in AssetsOf(p) : out[a] = o}
  <1>1. \A o : IsFiniteSet(B(o)) /\ Cardinality(B(o)) \in Nat
    BY FS_Subset, FS_CardinalityType DEF AssetsOf
  <1>2. \A o \in Outcomes : res[p][o] = Cardinality(B(o))
    BY DEF build_resolutions, _individual_counts
  <1>3. /\ Brought(out) \cap AssetsOf(p) = (B("returned") \cup B("damaged")) \cup B("missing")
        /\ B("returned") \cap B("damaged") = {}
        /\ (B("returned") \cup B("damaged")) \cap B("missing") = {}
    BY DEF Brought, Outcomes, AssetsOf
  <1> HIDE DEF B, res
  <1>4. /\ IsFiniteSet(B("returned") \cup B("damaged"))
        /\ Cardinality(B("returned") \cup B("damaged")) =
              Cardinality(B("returned")) + Cardinality(B("damaged"))
    <2>1. /\ IsFiniteSet(B("returned") \cup B("damaged"))
          /\ Cardinality(B("returned") \cup B("damaged")) =
               Cardinality(B("returned")) + Cardinality(B("damaged")) - Cardinality({})
      BY <1>1, <1>3, FS_Union
    <2>2. Cardinality({}) = 0
      BY FS_EmptySet
    <2> QED
      BY <1>1, <2>1, <2>2
  <1>5. Cardinality((B("returned") \cup B("damaged")) \cup B("missing")) =
           Cardinality(B("returned")) + Cardinality(B("damaged")) + Cardinality(B("missing"))
    <2>1. Cardinality((B("returned") \cup B("damaged")) \cup B("missing")) =
             Cardinality(B("returned") \cup B("damaged")) + Cardinality(B("missing")) - Cardinality({})
      BY <1>1, <1>3, <1>4, FS_Union
    <2> QED
      BY <1>1, <1>4, <2>1, FS_EmptySet
  <1>6. /\ res[p]["returned"] = Cardinality(B("returned"))
        /\ res[p]["damaged"] = Cardinality(B("damaged"))
        /\ res[p]["missing"] = Cardinality(B("missing"))
    BY <1>2 DEF Outcomes
  <1>7. Cardinality(Brought(out) \cap AssetsOf(p)) = Resolved(res, p)
    BY <1>3, <1>5, <1>6 DEF Resolved
  <1>8. \A o \in Outcomes : res[p][o] = Cardinality(B(o)) /\ res[p][o] \in Nat
    BY <1>1, <1>2
  <1> QED
    BY <1>7, <1>8 DEF res, B

\* Each outcome's units are counted where the outcome says.
UnitsReturned(res, p, st, new) ==
    /\ Units(new, p, "issued") = Units(st, p, "issued") - Resolved(res, p)
    /\ Units(new, p, "available") = Units(st, p, "available") + res[p]["returned"]
    /\ Units(new, p, "damaged") = Units(st, p, "damaged") + res[p]["damaged"]
    /\ Units(new, p, "lost") = Units(st, p, "lost") + res[p]["missing"]
    /\ Units(new, p, "maintenance") = Units(st, p, "maintenance")

\* And flip_asset_returns puts them there.
LEMMA BroughtMoved ==
    ASSUME Inv, NEW out \in [Assets -> Outcomes \cup {"issued"}], NEW given, NEW held,
           flip_asset_returns(held, out), \A a \in Brought(out) : asset[a] = "issued",
           NEW p \in Products, mode[p] = "individual"
    PROVE  UnitsReturned(build_resolutions(given, out), p, asset, asset')
  <1> DEFINE res == build_resolutions(given, out)
             left(s) == {a \in AssetsOf(p) : asset[a] = s /\ asset'[a] # s}
             came(s) == {a \in AssetsOf(p) : asset[a] # s /\ asset'[a] = s}
             B(o) == {a \in AssetsOf(p) : out[a] = o}
  <1>1. /\ \A o \in Outcomes : res[p][o] = Cardinality(B(o)) /\ res[p][o] \in Nat
        /\ Cardinality(Brought(out) \cap AssetsOf(p)) = Resolved(res, p)
    BY BroughtCounted, ZenonT(60)
  <1>2. \A a \in AssetsOf(p) :
           /\ out[a] = "issued" => asset'[a] = asset[a]
           /\ out[a] = "returned" => asset[a] = "issued" /\ asset'[a] = "available"
           /\ out[a] = "damaged" => asset[a] = "issued" /\ asset'[a] = "damaged"
           /\ out[a] = "missing" => asset[a] = "issued" /\ asset'[a] = "lost"
           /\ out[a] \in {"issued", "returned", "damaged", "missing"}
    BY DEF flip_asset_returns, Brought, OUTCOME_MAP, Outcomes, AssetsOf
  <1>3. /\ left("issued") = Brought(out) \cap AssetsOf(p) /\ came("issued") = {}
        /\ left("available") = {} /\ came("available") = B("returned")
        /\ left("damaged") = {} /\ came("damaged") = B("damaged")
        /\ left("lost") = {} /\ came("lost") = B("missing")
        /\ left("maintenance") = {} /\ came("maintenance") = {}
    <2>1. Brought(out) \cap AssetsOf(p) = {a \in AssetsOf(p) : out[a] # "issued"}
      BY DEF Brought, AssetsOf
    <2> QED
      BY <1>2, <2>1
  <1>4. \A s : /\ Units(asset', p, s) = Units(asset, p, s) - Cardinality(left(s)) + Cardinality(came(s))
               /\ Units(asset, p, s) \in Nat
    BY UnitsFlow, UnitsNat
  <1>5. Cardinality({}) = 0
    BY FS_EmptySet
  <1>6. /\ res[p]["returned"] = Cardinality(B("returned")) /\ res[p]["returned"] \in Nat
        /\ res[p]["damaged"] = Cardinality(B("damaged")) /\ res[p]["damaged"] \in Nat
        /\ res[p]["missing"] = Cardinality(B("missing")) /\ res[p]["missing"] \in Nat
        /\ Resolved(res, p) \in Nat
    BY <1>1 DEF Outcomes, Resolved
  <1> HIDE DEF left, came, B, res
  <1>7. /\ Units(asset', p, "issued") = Units(asset, p, "issued") - Resolved(res, p) + 0
        /\ Units(asset', p, "available") = Units(asset, p, "available") - 0 + res[p]["returned"]
        /\ Units(asset', p, "damaged") = Units(asset, p, "damaged") - 0 + res[p]["damaged"]
        /\ Units(asset', p, "lost") = Units(asset, p, "lost") - 0 + res[p]["missing"]
        /\ Units(asset', p, "maintenance") = Units(asset, p, "maintenance") - 0 + 0
    <2>1. Units(asset', p, "issued") = Units(asset, p, "issued") - Resolved(res, p) + 0
      BY <1>1, <1>3, <1>4, <1>5
    <2>2. Units(asset', p, "available") = Units(asset, p, "available") - 0 + res[p]["returned"]
      BY <1>3, <1>4, <1>5, <1>6
    <2>3. Units(asset', p, "damaged") = Units(asset, p, "damaged") - 0 + res[p]["damaged"]
      BY <1>3, <1>4, <1>5, <1>6
    <2>4. Units(asset', p, "lost") = Units(asset, p, "lost") - 0 + res[p]["missing"]
      BY <1>3, <1>4, <1>5, <1>6
    <2>5. Units(asset', p, "maintenance") = Units(asset, p, "maintenance") - 0 + 0
      BY <1>3, <1>4, <1>5
    <2> QED
      BY <2>1, <2>2, <2>3, <2>4, <2>5
  <1>8. /\ Units(asset, p, "issued") \in Nat /\ Units(asset, p, "available") \in Nat
        /\ Units(asset, p, "damaged") \in Nat /\ Units(asset, p, "lost") \in Nat
        /\ Units(asset, p, "maintenance") \in Nat
    BY <1>4
  <1>9. /\ Units(asset', p, "issued") = Units(asset, p, "issued") - Resolved(res, p)
        /\ Units(asset', p, "available") = Units(asset, p, "available") + res[p]["returned"]
        /\ Units(asset', p, "damaged") = Units(asset, p, "damaged") + res[p]["damaged"]
        /\ Units(asset', p, "lost") = Units(asset, p, "lost") + res[p]["missing"]
        /\ Units(asset', p, "maintenance") = Units(asset, p, "maintenance")
    BY <1>6, <1>7, <1>8
  <1> QED
    BY <1>9 DEF UnitsReturned, res

\* What a return resolves is no longer outstanding.
LEMMA ResolvedRemain ==
    ASSUME Inv, NEW r \in Requests, NEW res \in [Products -> [Outcomes -> Nat]], NEW p \in Products
    PROVE  /\ remaining_quantity(ResolveItems(r, res)[p]) =
                 remaining_quantity(item[r][p]) - Resolved(res, p)
           /\ remaining_quantity(item[r][p]) \in Nat /\ Resolved(res, p) \in Nat
  <1> DEFINE new == ResolveItems(r, res)[p]
             old == item[r][p]
  <1>1. /\ old \in [Counters -> Nat] /\ remaining_quantity(old) >= 0
        /\ res[p]["returned"] \in Nat /\ res[p]["damaged"] \in Nat /\ res[p]["missing"] \in Nat
    BY DEF Inv, RequestRows, ItemLedger, Outcomes
  <1>2. /\ new["returned"] = old["returned"] + res[p]["returned"]
        /\ new["damaged"] = old["damaged"] + res[p]["damaged"]
        /\ new["missing"] = old["missing"] + res[p]["missing"]
        /\ new["issued"] = old["issued"]
    BY <1>1 DEF ResolveItems, Counters, Outcomes
  <1>3. /\ old["issued"] \in Nat /\ old["returned"] \in Nat /\ old["damaged"] \in Nat
        /\ old["missing"] \in Nat
    BY <1>1 DEF Counters
  <1> HIDE DEF new, old
  <1>4. /\ remaining_quantity(new) = remaining_quantity(old) - Resolved(res, p)
        /\ remaining_quantity(old) \in Nat /\ Resolved(res, p) \in Nat
    <2>1. Resolved(res, p) \in Nat
      BY <1>1 DEF Resolved
    <2>2. remaining_quantity(old) \in Nat
      BY <1>1, <1>3 DEF remaining_quantity
    <2>3. remaining_quantity(new) = remaining_quantity(old) - Resolved(res, p)
      <3> DEFINE a == res[p]["returned"]
                 b == res[p]["damaged"]
                 c == res[p]["missing"]
      <3>1. a \in Nat /\ b \in Nat /\ c \in Nat
        BY <1>1
      <3>2. /\ remaining_quantity(new) =
                  old["issued"] - ((old["returned"] + a) + (old["damaged"] + b) + (old["missing"] + c))
            /\ Resolved(res, p) = a + b + c
        BY <1>2 DEF remaining_quantity, Resolved
      <3>3. remaining_quantity(old) =
               old["issued"] - (old["returned"] + old["damaged"] + old["missing"])
        BY DEF remaining_quantity
      <3> HIDE DEF a, b, c
      <3> QED
        BY <1>3, <3>1, <3>2, <3>3
    <2> QED
      BY <2>1, <2>2, <2>3
  <1> QED
    BY <1>4 DEF new, old

\* Of a set of ISSUED units no member is left when each product has none left.
LEMMA NoneLeft ==
    ASSUME Keeping, NEW M \in SUBSET Assets, \A a \in M : asset[a] = "issued",
           \A p \in Products : mode[p] = "individual" => Cardinality(M \cap AssetsOf(p)) = 0
    PROVE  M = {}
  <1> SUFFICES ASSUME NEW a \in M
               PROVE  FALSE
    OBVIOUS
  <1>1. mode[ProductOf[a]] = "individual" /\ ProductOf[a] \in Products
    BY DEF Keeping, UnitsTracked
  <1>2. a \in M \cap AssetsOf(ProductOf[a])
    BY DEF AssetsOf
  <1>3. Cardinality(M \cap AssetsOf(ProductOf[a])) = 0
    BY <1>1
  <1>4. M \cap AssetsOf(ProductOf[a]) = {}
    BY <1>3, FewUnits, FS_EmptySet
  <1> QED
    BY <1>2, <1>4

\* A reviewed return.
LEMMA ReturnRequestKeeping ==
    ASSUME Inv, Inv', Keeping, NEW r \in Requests, NEW e \in ReturnPhotos,
           NEW out \in [Assets -> Outcomes \cup {"issued"}],
           NEW given \in [{p \in Products : mode[p] = "quantity"} -> [Outcomes -> 0 .. MaxQty]],
           return_request(r, e, given, out), \A x \in Requests \ {r} : Spared(x)
    PROVE  Keeping'
  <1> DEFINE res == build_resolutions(given, out)
             rows == ResolveItems(r, res)
             kept == link[r] \ Brought(out)
  <1>1. /\ loan_status[r] = "none" /\ loan_status'[r] = "none" /\ status[r] \in OpenStatus
        /\ mode' = mode /\ item'[r] = rows /\ link'[r] = kept
        /\ status'[r] = finalize_return_status(rows)
        /\ flip_asset_returns(link[r], out)
    BY DEF return_request, loanVars, Inv, RequestRows
  <1>2. res \in [Products -> [Outcomes -> Nat]]
    BY Resolutions
  <1>3. Custody(r) = link[r]
    BY <1>1 DEF Custody
  <1>4. /\ link[r] \subseteq Assets /\ \A a \in link[r] : asset[a] = "issued"
        /\ Brought(out) \subseteq link[r]
    BY <1>1, <1>3 DEF Inv, RequestRows, Keeping, IssuedUnits, flip_asset_returns
  <1>5. \A a \in Assets :
           asset'[a] = IF a \in Brought(out) THEN OUTCOME_MAP[out[a]] ELSE asset[a]
    BY <1>1 DEF flip_asset_returns
  <1>6. \A a \in Brought(out) : OUTCOME_MAP[out[a]] \in {"available", "damaged", "lost"}
    BY DEF Brought, OUTCOME_MAP, Outcomes
  <1>7. UnitsTracked' /\ Unmarked'
    BY <1>1, <1>4, <1>5, <1>6 DEF Keeping, UnitsTracked, Unmarked
  <1>8. ASSUME NEW p \in Products
        PROVE  /\ remaining_quantity(rows[p]) = remaining_quantity(item[r][p]) - Resolved(res, p)
               /\ remaining_quantity(item[r][p]) \in Nat /\ Resolved(res, p) \in Nat
    BY <1>2, ResolvedRemain
  <1>9. ASSUME NEW p \in Products, mode[p] = "individual"
        PROVE  Cardinality(kept \cap AssetsOf(p)) = remaining_quantity(rows[p])
    <2>1. Cardinality(link[r] \cap AssetsOf(p)) = remaining_quantity(item[r][p])
      BY <1>1, <1>3, <1>9 DEF Keeping, CustodyCounted, Outstanding
    <2>2. Cardinality(Brought(out) \cap AssetsOf(p)) = Resolved(res, p)
      BY <1>9, BroughtCounted
    <2>3. /\ kept \cap AssetsOf(p) = (link[r] \cap AssetsOf(p)) \ (Brought(out) \cap AssetsOf(p))
          /\ (link[r] \cap AssetsOf(p)) \cap (Brought(out) \cap AssetsOf(p)) =
                Brought(out) \cap AssetsOf(p)
      BY <1>4
    <2>4. Cardinality((link[r] \cap AssetsOf(p)) \ (Brought(out) \cap AssetsOf(p))) =
             Cardinality(link[r] \cap AssetsOf(p))
                - Cardinality((link[r] \cap AssetsOf(p)) \cap (Brought(out) \cap AssetsOf(p)))
      BY FewUnits, FS_Difference
    <2> HIDE DEF res, rows, kept
    <2> QED
      BY <1>8, <2>1, <2>2, <2>3, <2>4
  <1> HIDE DEF res, rows
  <1>10. status'[r] \notin OpenStatus => kept = {}
    <2> SUFFICES ASSUME status'[r] \notin OpenStatus
                 PROVE  kept = {}
      OBVIOUS
    <2>1. \A p \in Products : remaining_quantity(rows[p]) = 0
      BY <1>1 DEF finalize_return_status, OpenStatus
    <2>2. \A p \in Products : mode[p] = "individual" => Cardinality(kept \cap AssetsOf(p)) = 0
      BY <1>9, <2>1
    <2>3. kept \in SUBSET Assets /\ \A a \in kept : asset[a] = "issued"
      BY <1>4
    <2> HIDE DEF kept
    <2> QED
      BY <2>2, <2>3, NoneLeft
  <1>11. Custody(r)' = kept
    BY <1>1, <1>10 DEF Custody
  <1>12. OneBorrower' /\ IssuedUnits'
    <2>1. \A a \in Assets : asset'[a] = "issued" <=>
               a \in Custody(r)' \/ (asset[a] = "issued" /\ a \notin Custody(r))
      BY <1>3, <1>4, <1>5, <1>6, <1>11
    <2>2. \A a \in Custody(r)' : a \in Custody(r) \/ asset[a] # "issued"
      BY <1>3, <1>11
    <2> QED
      BY <2>1, <2>2, CustodyStep
  <1>13. ASSUME NEW p \in Products, mode[p] = "individual"
         PROVE  Cardinality(Custody(r)' \cap AssetsOf(p)) = Outstanding(r, p)'
    <2>1. Outstanding(r, p)' = IF status'[r] \in OpenStatus THEN remaining_quantity(rows[p]) ELSE 0
      BY <1>1 DEF Outstanding, remaining_quantity
    <2>2. status'[r] \notin OpenStatus => Cardinality(kept \cap AssetsOf(p)) = 0
      BY <1>10, FS_EmptySet
    <2> QED
      BY <1>9, <1>11, <1>13, <2>1, <2>2
  <1>14. CustodyCounted'
    BY <1>1, <1>13, CountedStep
  <1> QED
    BY <1>7, <1>12, <1>14 DEF Keeping

\* The borrower of a loan brings everything back: nobody answers for its units.
LEMMA LoanReturned ==
    ASSUME Inv, Inv', Papers, Keeping, NEW r \in Requests, \A x \in Requests \ {r} : Spared(x),
           status'[r] \notin OpenStatus, loan_status'[r] = "returned", mode' = mode,
           \A a \in Assets : IF a \in Custody(r) THEN asset'[a] \in {"available", "damaged", "lost"}
                             ELSE asset'[a] = asset[a]
    PROVE  Keeping'
  <1>1. Custody(r)' = {} /\ \A p : Outstanding(r, p)' = 0
    BY DEF Custody, Outstanding
  <1>2. \A a \in Custody(r) : asset[a] = "issued"
    BY CustodyAssets DEF Keeping, IssuedUnits
  <1>3. UnitsTracked' /\ Unmarked'
    <2>1. \A a \in Assets : asset'[a] # "absent" => asset[a] # "absent"
      BY <1>2
    <2>2. \A a \in Assets : asset'[a] \notin {"reserved", "retired"}
      BY DEF Keeping, Unmarked
    <2> QED
      BY <2>1, <2>2 DEF Keeping, UnitsTracked, Unmarked
  <1>4. OneBorrower' /\ IssuedUnits'
    <2>1. \A a \in Assets : asset'[a] = "issued" <=>
               a \in Custody(r)' \/ (asset[a] = "issued" /\ a \notin Custody(r))
      BY <1>1
    <2> QED
      BY <1>1, <2>1, CustodyStep
  <1>5. CustodyCounted'
    BY <1>1, CountedStep, FS_EmptySet, ZenonT(60)
  <1> QED
    BY <1>3, <1>4, <1>5 DEF Keeping

\* A loan answers for the units it scanned, all of them ISSUED.
LEMMA LoanCustody ==
    ASSUME Inv, Custodian, Papers, Keeping, NEW r \in Requests, loan_status[r] = "checked_out"
    PROVE  /\ status[r] = "issued" /\ Custody(r) = LoanAssets(r)
           /\ \A a \in LoanAssets(r) : asset[a] = "issued"
  <1>1. status[r] = "issued" /\ link[r] = {}
    BY DEF Custodian, RowsJoined, Papers, Paper
  <1>2. Custody(r) = LoanAssets(r)
    BY <1>1 DEF Custody
  <1> QED
    BY <1>1, <1>2 DEF Keeping, IssuedUnits, LoanAssets

\* A staff loan: each unit has its outcome, since as many as are outstanding do.
LEMMA ReturnDirectKeeping ==
    ASSUME Inv, Inv', Custodian, Papers, Keeping, NEW r \in Requests, NEW e \in ReturnPhotos,
           NEW out \in [Assets -> Outcomes \cup {"issued"}],
           NEW given \in [{p \in Products : mode[p] = "quantity"} -> [Outcomes -> 0 .. MaxQty]],
           return_direct_loan(r, e, given, out), \A x \in Requests \ {r} : Spared(x)
    PROVE  Keeping'
  <1> DEFINE res == build_resolutions(given, out)
             rows == ResolveItems(r, res)
             L == LoanAssets(r)
             kept == L \ Brought(out)
  <1>1. /\ loan_status[r] = "checked_out" /\ loan_status'[r] = "returned" /\ mode' = mode
        /\ status'[r] = finalize_return_status(rows)
        /\ \A p \in Products : Resolved(res, p) = remaining_quantity(item[r][p])
        /\ flip_asset_returns({a \in L : asset[a] = "issued"}, out)
    BY DEF return_direct_loan, CloseLoan, Inv, RequestRows, LoanRows
  <1>2. res \in [Products -> [Outcomes -> Nat]]
    BY Resolutions
  <1>3. /\ status[r] = "issued" /\ Custody(r) = L
        /\ \A a \in L : asset[a] = "issued"
    BY <1>1, LoanCustody
  <1>4. L \subseteq Assets /\ Brought(out) \subseteq L
    BY <1>1 DEF LoanAssets, flip_asset_returns
  <1>5. \A p \in Products : remaining_quantity(rows[p]) = 0
    <2> SUFFICES ASSUME NEW p \in Products
                 PROVE  remaining_quantity(rows[p]) = 0
      OBVIOUS
    <2>1. /\ remaining_quantity(rows[p]) = remaining_quantity(item[r][p]) - Resolved(res, p)
          /\ remaining_quantity(item[r][p]) \in Nat
      BY <1>2, ResolvedRemain
    <2>2. Resolved(res, p) = remaining_quantity(item[r][p])
      BY <1>1
    <2> HIDE DEF rows, res
    <2> QED
      BY <2>1, <2>2
  <1>6. ASSUME NEW p \in Products, mode[p] = "individual"
        PROVE  Cardinality(kept \cap AssetsOf(p)) = 0
    <2>1. Cardinality(L \cap AssetsOf(p)) = remaining_quantity(item[r][p])
      BY <1>3, <1>6 DEF Keeping, CustodyCounted, Outstanding, OpenStatus
    <2>2. Cardinality(Brought(out) \cap AssetsOf(p)) = Resolved(res, p)
      BY <1>6, BroughtCounted
    <2> HIDE DEF res
    <2>6. Cardinality(Brought(out) \cap AssetsOf(p)) = Cardinality(L \cap AssetsOf(p))
      BY <1>1, <2>1, <2>2
    <2>3. /\ kept \cap AssetsOf(p) = (L \cap AssetsOf(p)) \ (Brought(out) \cap AssetsOf(p))
          /\ (L \cap AssetsOf(p)) \cap (Brought(out) \cap AssetsOf(p)) = Brought(out) \cap AssetsOf(p)
      BY <1>4
    <2>4. Cardinality((L \cap AssetsOf(p)) \ (Brought(out) \cap AssetsOf(p))) =
             Cardinality(L \cap AssetsOf(p))
                - Cardinality((L \cap AssetsOf(p)) \cap (Brought(out) \cap AssetsOf(p)))
      BY FewUnits, FS_Difference
    <2>5. Cardinality(L \cap AssetsOf(p)) \in Nat
      BY FewUnits
    <2>7. Cardinality(kept \cap AssetsOf(p)) =
             Cardinality(L \cap AssetsOf(p)) - Cardinality(Brought(out) \cap AssetsOf(p))
      BY <2>3, <2>4
    <2> HIDE DEF kept, L
    <2> QED
      BY <2>5, <2>6, <2>7
  <1>7. kept = {}
    <2>1. kept \in SUBSET Assets /\ \A a \in kept : asset[a] = "issued"
      BY <1>3, <1>4
    <2> HIDE DEF kept
    <2> QED
      BY <1>6, <2>1, NoneLeft
  <1>8. Brought(out) = L
    BY <1>4, <1>7
  <1> HIDE DEF rows, res, L, kept
  <1>9. status'[r] \notin OpenStatus
    BY <1>1, <1>5 DEF finalize_return_status, OpenStatus
  <1>10. \A a \in Assets :
            IF a \in Custody(r) THEN asset'[a] \in {"available", "damaged", "lost"}
            ELSE asset'[a] = asset[a]
    <2>1. \A a \in Brought(out) : OUTCOME_MAP[out[a]] \in {"available", "damaged", "lost"}
      BY DEF Brought, OUTCOME_MAP, Outcomes
    <2> QED
      BY <1>1, <1>3, <1>8, <2>1 DEF flip_asset_returns
  <1> QED
    BY <1>1, <1>9, <1>10, LoanReturned

\* Every return keeps custody, and so does triage, which moves AVAILABLE units.
LEMMA ReturnKeeping ==
    ASSUME Inv, Inv', Custodian, Papers, Keeping, NEW r \in Requests, ReturnNext(r)
    PROVE  Keeping'
  <1>1. \A x \in Requests \ {r} : Spared(x)
    BY OthersSpared
  <1>2. ASSUME NEW e, NEW report_problem, return_tool(r, e, report_problem)
        PROVE  Keeping'
    <2>1. /\ loan_status[r] = "checked_out" /\ loan_status'[r] = "returned" /\ mode' = mode
          /\ status'[r] = "returned"
          /\ asset' = [a \in Assets |-> IF a \in LoanAssets(r) THEN "available" ELSE asset[a]]
      BY <1>2 DEF return_tool, CloseLoan, Inv, RequestRows, LoanRows
    <2>2. Custody(r) = LoanAssets(r)
      BY <2>1, LoanCustody
    <2>3. status'[r] \notin OpenStatus
      BY <2>1 DEF OpenStatus
    <2>4. \A a \in Assets :
             IF a \in Custody(r) THEN asset'[a] \in {"available", "damaged", "lost"}
             ELSE asset'[a] = asset[a]
      BY <2>1, <2>2
    <2> QED
      BY <1>1, <2>1, <2>3, <2>4, LoanReturned
  <1>3. ASSUME NEW outcome \in TriageOutcomes \cup {"no_issue"}, NEW q, NEW moved,
               triage_problem_report(r, outcome, q, moved)
        PROVE  Keeping'
    <2>1. UNCHANGED rowVars /\ mode' = mode
      BY <1>3 DEF triage_problem_report, requestVars, rowVars
    <2>2. CASE outcome = "no_issue"
      <3>1. asset' = asset
        BY <1>3, <2>2 DEF triage_problem_report
      <3> QED
        BY <2>1, <3>1, KeepingKept DEF Keeping, UnitsTracked, Unmarked
    <2>3. CASE outcome \in TriageOutcomes
      <3>1. /\ \A a \in moved : asset[a] = "available"
            /\ asset' = [a \in Assets |-> IF a \in moved THEN ASSET_STATUS_OUTCOMES[outcome]
                                          ELSE asset[a]]
        BY <1>3, <2>3 DEF triage_problem_report, _move_stock, TriageOutcomes
      <3>2. ASSET_STATUS_OUTCOMES[outcome] \in {"maintenance", "lost", "damaged"}
        BY <2>3 DEF ASSET_STATUS_OUTCOMES
      <3>3. \A a \in Assets : /\ asset'[a] = "issued" <=> asset[a] = "issued"
                              /\ asset'[a] \notin {"reserved", "retired"}
                              /\ asset'[a] # "absent" => mode'[ProductOf[a]] = "individual"
        BY <2>1, <3>1, <3>2 DEF Keeping, UnitsTracked, Unmarked
      <3> QED
        BY <2>1, <3>3, KeepingKept
    <2> QED
      BY <2>2, <2>3
  <1>4. CASE \E e \in ReturnPhotos, out \in [Assets -> Outcomes \cup {"issued"}],
                given \in [{p \in Products : mode[p] = "quantity"} -> [Outcomes -> 0 .. MaxQty]] :
                return_request(r, e, given, out) \/ return_direct_loan(r, e, given, out)
    BY <1>1, <1>4, ReturnRequestKeeping, ReturnDirectKeeping
  <1> QED
    BY <1>2, <1>3, <1>4 DEF ReturnNext

\* So every step keeps it.
LEMMA NextKeeping ==
    Inv /\ Inv' /\ Custodian /\ Papers /\ Keeping /\ [Next]_vars => Keeping'
  <1> SUFFICES ASSUME Inv, Inv', Custodian, Papers, Keeping, [Next]_vars
               PROVE  Keeping'
    OBVIOUS
  <1>1. CASE UNCHANGED vars
    <2>1. UNCHANGED <<mode, asset>> /\ UNCHANGED rowVars
      BY <1>1 DEF vars, inventoryVars, requestVars, loanVars, rowVars
    <2> QED
      BY <2>1, KeepingKept DEF Keeping, UnitsTracked, Unmarked
  <1> QED
    BY <1>1, StaffKeeping, ReviewKeeping, HandoutKeeping, ReturnKeeping DEF Next

\* There are no units in the first state.
LEMMA InitKeeping == Init => Keeping
  <1> SUFFICES ASSUME Init
               PROVE  Keeping
    OBVIOUS
  <1>1. \A r \in Requests : Custody(r) = {} /\ \A p : Outstanding(r, p) = 0
    BY DEF Init, Custody, Outstanding, OpenStatus
  <1>2. \A a \in Assets : asset[a] = "absent"
    BY DEF Init, InventoryInit
  <1>3. UnitsTracked /\ Unmarked /\ OneBorrower /\ IssuedUnits
    BY <1>1, <1>2 DEF UnitsTracked, Unmarked, OneBorrower, IssuedUnits
  <1>4. CustodyCounted
    BY <1>1, FS_EmptySet DEF CustodyCounted
  <1> QED
    BY <1>3, <1>4 DEF Keeping

\* The invariant so far, in every reachable state.
LEMMA KeepingAlways == Spec => [](Inv /\ Custodian /\ Papers /\ Keeping)
  BY InitInv, NextInv, InitCustody, NextCustody, InitPapers, NextPapers, InitKeeping, NextKeeping,
     PTL DEF Spec

\* A unit is ISSUED exactly while one borrower answers for it, and then only
\* one, whatever reviewed requests, both kinds of loan, partial returns, triage
\* and staff moves do to it, for any number of units and borrowers.
THEOREM UnitsInCustody == Spec => []UnitCustody
  <1>1. Keeping => UnitCustody
    <2> SUFFICES ASSUME Keeping, NEW a \in Assets
                 PROVE  Cardinality({r \in Requests : a \in Custody(r)}) =
                           (IF asset[a] = "issued" THEN 1 ELSE 0)
      BY DEF UnitCustody
    <2>1. CASE asset[a] = "issued"
      <3>1. PICK r \in Requests : a \in Custody(r)
        BY <2>1 DEF Keeping, IssuedUnits
      <3>2. {x \in Requests : a \in Custody(x)} = {r}
        BY <3>1 DEF Keeping, OneBorrower
      <3> QED
        BY <2>1, <3>2, FS_Singleton
    <2>2. CASE asset[a] # "issued"
      <3>1. {x \in Requests : a \in Custody(x)} = {}
        BY <2>2 DEF Keeping, IssuedUnits
      <3> QED
        BY <2>2, <3>1, FS_EmptySet
    <2> QED
      BY <2>1, <2>2
  <1> QED
    BY <1>1, KeepingAlways, PTL

-----------------------------------------------------------------------------
(* The books: what the buckets say is what requests and units say.         *)

\* Products whose available bucket nothing but units moves: log_consumption
\* takes from the bucket of a linked product whatever its tracking mode is.
ShelfSafe(p) == p \notin Consumables \/ AssetsOf(p) = {}

\* The row of an individual product against its units.
UnitBook(row, st, p) ==
    /\ row["issued"] = Units(st, p, "issued")
    /\ row["damaged"] = Units(st, p, "damaged")
    /\ row["lost"] = Units(st, p, "lost")
    /\ row["needs_fix"] = Units(st, p, "maintenance")
    /\ row["total"] = Held(row)
    /\ ShelfSafe(p) => row["available"] + row["reserved"] = Units(st, p, "available")

Book(p) ==
    /\ product[p]["reserved"] = Demand[p]
    /\ product[p]["issued"] = Owed(p)
    /\ mode[p] = "individual" => UnitBook(product[p], asset, p)

Books == consumable \subseteq Consumables /\ \A p \in Products : Book(p)

\* The columns of a product are natural numbers.
LEMMA RowNat ==
    ASSUME Inv, NEW p \in Products
    PROVE  /\ product[p] \in Rows
           /\ product[p]["available"] \in Nat /\ product[p]["reserved"] \in Nat
           /\ product[p]["issued"] \in Nat /\ product[p]["damaged"] \in Nat
           /\ product[p]["lost"] \in Nat /\ product[p]["needs_fix"] \in Nat
           /\ product[p]["total"] \in Nat
  BY DEF Inv, Stock, Ledger, SoundRows, Rows, QuantityFields, Buckets

\* No unit is marked RESERVED, so none is counted.
LEMMA NoneReserved ==
    ASSUME NEW p, NEW st, \A a \in AssetsOf(p) : st[a] # "reserved"
    PROVE  Units(st, p, "reserved") = 0
  <1>1. {a \in AssetsOf(p) : st[a] = "reserved"} = {}
    OBVIOUS
  <1> QED
    BY <1>1, FS_EmptySet DEF Units

\* A shift changes two columns.
LEMMA ShiftFields ==
    ASSUME NEW row \in Rows, NEW from \in Buckets, NEW to \in Buckets, from # to, NEW q
    PROVE  /\ Shift(row, from, to, q)[from] = row[from] - q
           /\ Shift(row, from, to, q)[to] = row[to] + q
           /\ \A b \in QuantityFields \ {from, to} : Shift(row, from, to, q)[b] = row[b]
  BY DEF Shift, Rows, QuantityFields

\* The buckets units of a moved status are counted in.
UnitStatus == {"available", "issued", "damaged", "lost", "maintenance"}

LEMMA BucketOf ==
    /\ ASSET_QUANTITY_BUCKETS["available"] = "available"
    /\ ASSET_QUANTITY_BUCKETS["issued"] = "issued"
    /\ ASSET_QUANTITY_BUCKETS["damaged"] = "damaged"
    /\ ASSET_QUANTITY_BUCKETS["lost"] = "lost"
    /\ ASSET_QUANTITY_BUCKETS["maintenance"] = "needs_fix"
    /\ \A u, v \in UnitStatus : u # v => ASSET_QUANTITY_BUCKETS[u] # ASSET_QUANTITY_BUCKETS[v]
    /\ \A u \in UnitStatus : ASSET_QUANTITY_BUCKETS[u] \in Buckets \ {"reserved"}
  BY DEF ASSET_QUANTITY_BUCKETS, AssetStatus, UnitStatus, Buckets

\* Units and their quantity move together.
LEMMA MovedBook ==
    ASSUME NEW p, NEW row \in Rows, NEW st, NEW new, UnitBook(row, st, p), NEW M,
           NEW u \in UnitStatus, NEW v \in UnitStatus, Moving(p, st, new, M, u, v),
           row[ASSET_QUANTITY_BUCKETS[u]] >= Cardinality(M \cap AssetsOf(p))
    PROVE  LET k     == Cardinality(M \cap AssetsOf(p))
               moved == Shift(row, ASSET_QUANTITY_BUCKETS[u], ASSET_QUANTITY_BUCKETS[v], k)
           IN  UnitBook(moved, new, p)
  <1> DEFINE k     == Cardinality(M \cap AssetsOf(p))
             from  == ASSET_QUANTITY_BUCKETS[u]
             to    == ASSET_QUANTITY_BUCKETS[v]
             moved == Shift(row, from, to, k)
  <1>1. /\ k \in Nat
        /\ Units(new, p, u) = Units(st, p, u) - k
        /\ Units(new, p, v) = Units(st, p, v) + k
        /\ \A w : w \notin {u, v} => Units(new, p, w) = Units(st, p, w)
    <2>1. Recounted(p, st, new, u, v, k)
      BY UnitsMoved
    <2> QED
      BY <2>1 DEF Recounted
  <1>2. from \in Buckets /\ to \in Buckets /\ from # to
    BY BucketOf DEF Moving
  <1>3. /\ moved[from] = row[from] - k /\ moved[to] = row[to] + k
        /\ \A b \in QuantityFields \ {from, to} : moved[b] = row[b]
    BY <1>2, ShiftFields
  <1>4. Held(moved) = Held(row) /\ moved["total"] = row["total"]
    BY <1>1, <1>2, ShiftRow
  <1>5. /\ row["available"] \in Nat /\ row["reserved"] \in Nat
        /\ \A w : Units(st, p, w) \in Nat
    BY UnitsNat DEF Rows, QuantityFields, Buckets
  <1>6. \A w \in UnitStatus :
           moved[ASSET_QUANTITY_BUCKETS[w]] = IF w = u THEN row[from] - k
                                              ELSE IF w = v THEN row[to] + k
                                              ELSE row[ASSET_QUANTITY_BUCKETS[w]]
    BY <1>3, BucketOf DEF QuantityFields
  <1>7. moved["reserved"] = row["reserved"]
    BY <1>3, BucketOf DEF QuantityFields, Buckets
  <1> HIDE DEF k, from, to, moved
  <1>8. \A w \in {"issued", "damaged", "lost", "maintenance"} :
           moved[ASSET_QUANTITY_BUCKETS[w]] = Units(new, p, w)
    <2>1. \A w \in {"issued", "damaged", "lost", "maintenance"} :
             w \in UnitStatus /\ row[ASSET_QUANTITY_BUCKETS[w]] = Units(st, p, w)
      BY BucketOf DEF UnitBook, UnitStatus
    <2> QED
      BY <1>1, <1>6, <2>1 DEF from, to
  <1>9. ShelfSafe(p) => moved["available"] + moved["reserved"] = Units(new, p, "available")
    <2> SUFFICES ASSUME ShelfSafe(p)
                 PROVE  moved["available"] + moved["reserved"] = Units(new, p, "available")
      OBVIOUS
    <2>1. row["available"] + row["reserved"] = Units(st, p, "available")
      BY DEF UnitBook
    <2>2. moved["available"] = IF "available" = u THEN row["available"] - k
                               ELSE IF "available" = v THEN row["available"] + k
                               ELSE row["available"]
      BY <1>6, BucketOf DEF UnitStatus, from, to
    <2> QED
      BY <1>1, <1>5, <1>7, <2>1, <2>2
  <1>10. UnitBook(moved, new, p)
    BY <1>4, <1>8, <1>9, BucketOf DEF UnitBook
  <1> QED
    BY <1>10 DEF moved, from, to, k

\* What reconcile_individual_product_from_assets saves: the reservations are
\* kept and carved out of the AVAILABLE units.
LEMMA ReconciledRow ==
    ASSUME Inv, NEW p \in Products, NEW st, mode[p] = "individual", Reconcilable(p, st),
           Units(st, p, "reserved") = 0
    PROVE  LET row == reconcile_individual_product_from_assets(p, st)
           IN  row \in Rows /\ UnitBook(row, st, p) /\ row["reserved"] = product[p]["reserved"]
  <1> DEFINE counts == [b \in QuantityFields |->
                           Units(st, p, IF b = "needs_fix" THEN "maintenance" ELSE b)]
             unmarked == UnmarkedReserved(p, st)
             shifted == Shift(counts, "available", "reserved", unmarked)
             row == reconcile_individual_product_from_assets(p, st)
  <1>1. row \in SoundRows /\ row \in Rows
    BY ReconcileRow DEF Inv, Stock, SoundRows
  <1>2. row = Recount(shifted)
    BY DEF reconcile_individual_product_from_assets
  <1>3. \A s : Units(st, p, s) \in Nat
    BY UnitsNat
  <1>4. unmarked = product[p]["reserved"] /\ unmarked \in Nat
    BY RowNat DEF UnmarkedReserved
  <1>5. counts \in Rows
    BY <1>3 DEF Rows
  <1>6. /\ counts["available"] = Units(st, p, "available") /\ counts["reserved"] = 0
        /\ counts["issued"] = Units(st, p, "issued") /\ counts["damaged"] = Units(st, p, "damaged")
        /\ counts["lost"] = Units(st, p, "lost") /\ counts["needs_fix"] = Units(st, p, "maintenance")
    BY DEF QuantityFields, Buckets
  <1> HIDE DEF counts, unmarked, row
  <1>7. /\ shifted["available"] = Units(st, p, "available") - unmarked
        /\ shifted["reserved"] = 0 + unmarked
        /\ shifted["issued"] = Units(st, p, "issued") /\ shifted["damaged"] = Units(st, p, "damaged")
        /\ shifted["lost"] = Units(st, p, "lost")
        /\ shifted["needs_fix"] = Units(st, p, "maintenance")
    BY <1>5, <1>6, ShiftFields DEF Buckets, QuantityFields
  <1>8. shifted = [b \in QuantityFields |-> shifted[b]]
    BY <1>5 DEF Shift, Rows
  <1> HIDE DEF shifted
  <1>9. /\ \A b \in Buckets : row[b] = shifted[b]
        /\ row["total"] = Held(shifted)
    BY <1>2, <1>8 DEF Recount, QuantityFields, Buckets
  <1>10. Held(row) = Held(shifted)
    BY <1>9 DEF Held, Buckets
  <1>11. row["available"] + row["reserved"] = Units(st, p, "available")
    BY <1>3, <1>4, <1>7, <1>9 DEF Buckets
  <1>12. UnitBook(row, st, p) /\ row["reserved"] = product[p]["reserved"]
    BY <1>4, <1>7, <1>9, <1>10, <1>11 DEF UnitBook, Buckets
  <1> QED
    BY <1>1, <1>12 DEF row

\* A step of one request changes the books by its shares.
LEMMA BookStep ==
    ASSUME Inv, Inv', Books, NEW r \in Requests, \A x \in Requests \ {r} : Spared(x),
           UNCHANGED <<mode, consumable>>,
           \A p \in Products :
              /\ product'[p]["reserved"] = product[p]["reserved"] - Promised(r, p) + Promised(r, p)'
              /\ product'[p]["issued"] = product[p]["issued"] - Outstanding(r, p) + Outstanding(r, p)'
              /\ mode[p] = "individual" => UnitBook(product'[p], asset', p)
    PROVE  Books'
  <1> SUFFICES ASSUME NEW p \in Products
               PROVE  Book(p)'
    BY DEF Books
  <1>1. \A x \in Requests \ {r} : status'[x] = status[x] /\ item'[x] = item[x]
    BY DEF Spared
  <1>2. Demand'[p] = Demand[p] - Promised(r, p) + Promised(r, p)'
    BY <1>1, DemandStep
  <1>3. Owed(p)' = Owed(p) - Outstanding(r, p) + Outstanding(r, p)'
    BY <1>1, OwedStep
  <1>4. product[p]["reserved"] = Demand[p] /\ product[p]["issued"] = Owed(p)
    BY DEF Books, Book
  <1>5. product'[p]["reserved"] = Demand'[p]
    BY <1>2, <1>4
  <1>6. product'[p]["issued"] = Owed(p)'
    BY <1>3, <1>4
  <1>7. mode'[p] = "individual" => UnitBook(product'[p], asset', p)
    OBVIOUS
  <1>8. UnitBook(product[p], asset, p)' <=> UnitBook(product'[p], asset', p)
    BY DEF UnitBook, Units, Held, ShelfSafe, AssetsOf
  <1> QED
    BY <1>5, <1>6, <1>7, <1>8 DEF Book

\* A step that leaves the requests alone.
LEMMA BookKept ==
    ASSUME Inv, Books, UNCHANGED <<status, item>>, consumable' \subseteq Consumables,
           \A p \in Products :
              /\ product'[p]["reserved"] = product[p]["reserved"]
              /\ product'[p]["issued"] = product[p]["issued"]
              /\ mode'[p] = "individual" => UnitBook(product'[p], asset', p)
    PROVE  Books'
  <1> SUFFICES ASSUME NEW p \in Products
               PROVE  Book(p)'
    BY DEF Books
  <1>1. Demand'[p] = Demand[p] /\ Owed(p)' = Owed(p)
    BY DEF Demand, Owed, remaining_quantity
  <1>2. UnitBook(product[p], asset, p)' <=> UnitBook(product'[p], asset', p)
    BY DEF UnitBook, Units, Held, ShelfSafe, AssetsOf
  <1> QED
    BY <1>1, <1>2 DEF Books, Book
\* A recount changes the total alone.
LEMMA RecountFields ==
    ASSUME NEW row \in Rows
    PROVE  /\ \A b \in Buckets : Recount(row)[b] = row[b]
           /\ Recount(row)["total"] = Held(Recount(row))
           /\ Held(Recount(row)) = Held(row)
  <1>1. /\ \A b \in Buckets : Recount(row)[b] = row[b]
        /\ Recount(row)["total"] = Held(row)
    BY DEF Recount, Rows, QuantityFields, Buckets
  <1>2. Held(Recount(row)) = Held(row)
    BY <1>1 DEF Held, Buckets
  <1> QED
    BY <1>1, <1>2

\* The quantity of one bucket of a resized row.
LEMMA ResizeFields ==
    ASSUME NEW row \in Rows, NEW b \in Buckets, NEW q
    PROVE  \A c \in Buckets \ {b} : Resize(row, b, q)[c] = row[c]
  BY DEF Resize, Rows, QuantityFields, Buckets

\* Staff corrects quantities of products without units, away from the two
\* buckets requests write.
LEMMA QuantityBooks ==
    ASSUME Inv, Books, UNCHANGED <<status, item, mode, asset>>, consumable' \subseteq Consumables,
           NEW changed, \A p \in changed : mode[p] = "quantity",
           \A p \in Products :
              /\ p \notin changed => product'[p] = product[p]
              /\ product'[p]["reserved"] = product[p]["reserved"]
              /\ product'[p]["issued"] = product[p]["issued"]
    PROVE  Books'
  <1>1. \A p \in Products : mode'[p] = "individual" =>
           /\ product'[p] = product[p] /\ asset' = asset
           /\ UnitBook(product[p], asset, p)
    BY DEF Books, Book
  <1> QED
    BY <1>1, BookKept

\* The staff operations on quantities.
LEMMA CorrectionBooks ==
    ASSUME Inv, Books, UNCHANGED <<status, item>>, NEW p \in Products,
           \/ \E da, dd, dl \in -MaxDelta .. MaxDelta : adjust_manual_quantities(p, da, dd, dl)
           \/ \E q \in 1 .. MaxDelta :
                 \/ repair_from_needs_fix(p, q)
                 \/ move_available_to_needs_fix(p, q)
                 \/ scrap_from_needs_fix(p, q)
                 \/ \E d \in Products : transfer_available_quantity(p, d, q)
    PROVE  Books'
  <1>0. product \in [Products -> SoundRows] /\ \A x \in Products : product[x] \in Rows
    BY RowNat DEF Inv, Stock, Ledger
  <1>1. ASSUME NEW row, product' = [product EXCEPT ![p] = row], mode[p] = "quantity",
               row["reserved"] = product[p]["reserved"], row["issued"] = product[p]["issued"],
               UNCHANGED <<mode, asset, consumable>>
        PROVE  Books'
    <2>1. \A x \in {p} : mode[x] = "quantity"
      BY <1>1
    <2>2. \A x \in Products :
              /\ x \notin {p} => product'[x] = product[x]
              /\ product'[x]["reserved"] = product[x]["reserved"]
              /\ product'[x]["issued"] = product[x]["issued"]
      BY <1>0, <1>1
    <2>3. consumable' \subseteq Consumables
      BY <1>1 DEF Books
    <2> QED
      BY <1>1, <2>1, <2>2, <2>3, QuantityBooks
  <1>2. ASSUME NEW da \in Int, NEW dd \in Int, NEW dl \in Int, adjust_manual_quantities(p, da, dd, dl)
        PROVE  Books'
    <2> DEFINE row == [product[p] EXCEPT !["available"] = @ + da, !["damaged"] = @ + dd,
                                         !["lost"] = @ + dl]
    <2>0. product[p] \in Rows /\ adjust_quantities(p, da, dd, dl)
      BY <1>0, <1>2 DEF adjust_manual_quantities
    <2>1. row \in Rows
      BY <2>0 DEF adjust_quantities, Rows, QuantityFields, Buckets
    <2>2. row["reserved"] = product[p]["reserved"] /\ row["issued"] = product[p]["issued"]
      BY <1>0 DEF Rows, QuantityFields, Buckets
    <2>3. /\ product' = [product EXCEPT ![p] = Recount(row)] /\ mode[p] = "quantity"
          /\ UNCHANGED <<mode, asset, consumable>>
      BY <1>2 DEF adjust_manual_quantities, adjust_quantities
    <2> HIDE DEF row
    <2>4. /\ Recount(row)["reserved"] = row["reserved"] /\ Recount(row)["issued"] = row["issued"]
      BY <2>1, RecountFields DEF Buckets
    <2> QED
      BY <1>1, <2>2, <2>3, <2>4
  <1>3. ASSUME NEW q, repair_from_needs_fix(p, q)
        PROVE  Books'
    <2>1. /\ Shift(product[p], "needs_fix", "available", q)["reserved"] = product[p]["reserved"]
          /\ Shift(product[p], "needs_fix", "available", q)["issued"] = product[p]["issued"]
      BY <1>0, ShiftFields DEF Buckets, QuantityFields
    <2>2. product' = [product EXCEPT ![p] = Shift(product[p], "needs_fix", "available", q)]
      BY <1>3 DEF repair_from_needs_fix
    <2> QED
      BY <1>1, <1>3, <2>1, <2>2 DEF repair_from_needs_fix
  <1>4. ASSUME NEW q, move_available_to_needs_fix(p, q)
        PROVE  Books'
    <2>1. /\ Shift(product[p], "available", "needs_fix", q)["reserved"] = product[p]["reserved"]
          /\ Shift(product[p], "available", "needs_fix", q)["issued"] = product[p]["issued"]
      BY <1>0, ShiftFields DEF Buckets, QuantityFields
    <2>2. product' = [product EXCEPT ![p] = Shift(product[p], "available", "needs_fix", q)]
      BY <1>4 DEF move_available_to_needs_fix
    <2> QED
      BY <1>1, <1>4, <2>1, <2>2 DEF move_available_to_needs_fix
  <1>5. ASSUME NEW q, scrap_from_needs_fix(p, q)
        PROVE  Books'
    <2>1. /\ Resize(product[p], "needs_fix", -q)["reserved"] = product[p]["reserved"]
          /\ Resize(product[p], "needs_fix", -q)["issued"] = product[p]["issued"]
      BY <1>0, ResizeFields DEF Buckets
    <2>2. product' = [product EXCEPT ![p] = Resize(product[p], "needs_fix", -q)]
      BY <1>5 DEF scrap_from_needs_fix
    <2> QED
      BY <1>1, <1>5, <2>1, <2>2 DEF scrap_from_needs_fix
  <1>6. ASSUME NEW q, NEW d \in Products, transfer_available_quantity(p, d, q)
        PROVE  Books'
    <2> DEFINE less == Resize(product[p], "available", -q)
               more == Resize(product[d], "available", q)
    <2>1. /\ less["reserved"] = product[p]["reserved"] /\ less["issued"] = product[p]["issued"]
          /\ more["reserved"] = product[d]["reserved"] /\ more["issued"] = product[d]["issued"]
      BY <1>0, ResizeFields DEF Buckets
    <2>2. /\ p # d /\ product' = [product EXCEPT ![p] = less, ![d] = more]
          /\ UNCHANGED <<mode, asset, consumable>>
          /\ \A x \in {p, d} : mode[x] = "quantity"
      BY <1>6, <1>0 DEF transfer_available_quantity
    <2> HIDE DEF less, more
    <2>3. \A x \in Products :
              /\ x \notin {p, d} => product'[x] = product[x]
              /\ product'[x]["reserved"] = product[x]["reserved"]
              /\ product'[x]["issued"] = product[x]["issued"]
      BY <1>0, <2>1, <2>2
    <2>4. consumable' \subseteq Consumables
      BY <2>2 DEF Books
    <2> QED
      BY <2>2, <2>3, <2>4, QuantityBooks
  <1> QED
    BY <1>2, <1>3, <1>4, <1>5, <1>6

\* Consumption takes from the available bucket of a linked product; one with
\* units may lose the equation of that bucket with them, and no other.
LEMMA ConsumptionBooks ==
    ASSUME Inv, Books, UNCHANGED <<status, item>>, NEW p \in Products, NEW q \in 1 .. MaxDelta,
           log_consumption(p, q)
    PROVE  Books'
  <1> DEFINE row == [product[p] EXCEPT !["available"] = @ + (-q), !["damaged"] = @ + 0,
                                       !["lost"] = @ + 0]
  <1>1. /\ product[p] \in Rows /\ product[p]["available"] \in Nat /\ product[p]["damaged"] \in Nat
        /\ product[p]["lost"] \in Nat /\ product[p]["reserved"] \in Nat
    BY RowNat
  <1>2. /\ p \in Consumables /\ row["available"] >= 0
        /\ product' = [product EXCEPT ![p] = Recount(row)]
        /\ UNCHANGED <<mode, asset, consumable>> /\ consumable' \subseteq Consumables
    BY DEF log_consumption, adjust_quantities, Books
  <1>3. /\ row["available"] = product[p]["available"] - q
        /\ row["reserved"] = product[p]["reserved"] /\ row["issued"] = product[p]["issued"]
        /\ row["damaged"] = product[p]["damaged"] /\ row["lost"] = product[p]["lost"]
        /\ row["needs_fix"] = product[p]["needs_fix"]
    BY <1>1 DEF Rows, QuantityFields, Buckets
  <1>4. row \in Rows
    BY <1>1, <1>2 DEF Rows, QuantityFields, Buckets
  <1> HIDE DEF row
  <1>5. /\ \A b \in Buckets : Recount(row)[b] = row[b]
        /\ Recount(row)["total"] = Held(Recount(row))
    BY <1>4, RecountFields
  <1>6. ASSUME mode[p] = "individual"
        PROVE  UnitBook(Recount(row), asset, p)
    <2>1. UnitBook(product[p], asset, p)
      BY <1>6 DEF Books, Book
    <2>2. ~ ShelfSafe(p)
      <3> SUFFICES ASSUME AssetsOf(p) = {}
                   PROVE  FALSE
        BY <1>2 DEF ShelfSafe
      <3>1. {a \in AssetsOf(p) : asset[a] = "available"} = {}
        OBVIOUS
      <3>2. Units(asset, p, "available") = 0
        BY <3>1, FS_EmptySet DEF Units
      <3>3. product[p]["available"] = 0
        BY <1>1, <2>1, <3>2 DEF UnitBook, ShelfSafe
      <3> QED
        BY <1>2, <1>3, <3>3
    <2> QED
      BY <1>3, <1>5, <2>1, <2>2 DEF UnitBook, Buckets
  <1>7. \A x \in Products :
              /\ product'[x]["reserved"] = product[x]["reserved"]
              /\ product'[x]["issued"] = product[x]["issued"]
              /\ mode'[x] = "individual" => UnitBook(product'[x], asset', x)
    <2> SUFFICES ASSUME NEW x \in Products
                 PROVE  /\ product'[x]["reserved"] = product[x]["reserved"]
                        /\ product'[x]["issued"] = product[x]["issued"]
                        /\ mode'[x] = "individual" => UnitBook(product'[x], asset', x)
      OBVIOUS
    <2>1. product'[x] = IF x = p THEN Recount(row) ELSE product[x]
      BY <1>2 DEF Inv, Stock, Ledger
    <2>2. CASE x = p
      BY <1>2, <1>3, <1>5, <1>6, <2>1, <2>2 DEF Buckets
    <2>3. CASE x # p
      BY <1>2, <2>1, <2>3 DEF Books, Book
    <2> QED
      BY <2>2, <2>3
  <1> QED
    BY <1>2, <1>7, BookKept
\* A product changes its tracking mode while its row is empty.
LEMMA ModeBooks ==
    ASSUME Inv, Books, UNCHANGED <<status, item>>, NEW p \in Products,
           change_tracking_mode(p, OpenProducts)
    PROVE  Books'
  <1>1. /\ mode \in [Products -> {"quantity", "individual"}]
        /\ UNCHANGED <<product, asset, consumable>> /\ consumable' \subseteq Consumables
        /\ \A x \in Products \ {p} : mode'[x] = mode[x]
        /\ \A a \in AssetsOf(p) : asset[a] = "absent"
    BY DEF change_tracking_mode, TrackingModeChangeable, Inv, Stock, Books
  <1>2. /\ product[p]["available"] = 0 /\ product[p]["reserved"] = 0 /\ product[p]["issued"] = 0
        /\ product[p]["damaged"] = 0 /\ product[p]["lost"] = 0 /\ product[p]["needs_fix"] = 0
        /\ product[p]["total"] = 0
    BY DEF change_tracking_mode, TrackingModeChangeable, QuantityFields, Buckets
  <1>3. \A s \in UnitStatus : Units(asset, p, s) = 0
    <2> SUFFICES ASSUME NEW s \in UnitStatus
                 PROVE  Units(asset, p, s) = 0
      OBVIOUS
    <2>1. {a \in AssetsOf(p) : asset[a] = s} = {}
      BY <1>1 DEF UnitStatus
    <2> QED
      BY <2>1, FS_EmptySet DEF Units
  <1>4. UnitBook(product[p], asset, p)
    BY <1>2, <1>3 DEF UnitBook, UnitStatus, Held
  <1>5. \A x \in Products \ {p} : mode'[x] = "individual" => UnitBook(product[x], asset, x)
    BY <1>1 DEF Books, Book
  <1> QED
    BY <1>1, <1>4, <1>5, BookKept

\* The units of another product are counted as they were.
LEMMA BookElsewhere ==
    ASSUME NEW p, NEW row, NEW st, NEW new, UnitBook(row, st, p),
           \A a \in AssetsOf(p) : new[a] = st[a]
    PROVE  UnitBook(row, new, p)
  <1>1. \A s : Units(new, p, s) = Units(st, p, s)
    BY UnitsKept
  <1> QED
    BY <1>1 DEF UnitBook

\* New units enter an individual product through reconciliation, and an empty
\* quantity product through its first row of units.
LEMMA GenerateBooks ==
    ASSUME Inv, Keeping, Books, UNCHANGED <<status, item>>, NEW p \in Products,
           NEW new \in SUBSET AssetsOf(p), generate_assets_with_qr(p, new, OpenProducts)
    PROVE  Books'
  <1> DEFINE st == [a \in Assets |-> IF a \in new THEN "available" ELSE asset[a]]
  <1>1. /\ asset' = st /\ mode' = [mode EXCEPT ![p] = "individual"] /\ consumable' = consumable
        /\ new \subseteq {a \in AssetsOf(p) : asset[a] = "absent"}
        /\ mode[p] = "quantity" => TrackingModeChangeable(p, OpenProducts)
    BY DEF generate_assets_with_qr
  <1>2. mode \in [Products -> {"quantity", "individual"}] /\ product \in [Products -> SoundRows]
    BY DEF Inv, Stock, Ledger
  <1>3. \A a \in Assets : st[a] # "reserved"
    BY DEF Keeping, Unmarked
  <1>4. \E row : /\ product' = [product EXCEPT ![p] = row] /\ UnitBook(row, st, p)
                 /\ row["reserved"] = product[p]["reserved"] /\ row["issued"] = product[p]["issued"]
    <2>1. CASE mode[p] = "individual"
      <3> DEFINE row == reconcile_individual_product_from_assets(p, st)
      <3>1. Reconcilable(p, st) /\ product' = [product EXCEPT ![p] = row]
        BY <2>1 DEF generate_assets_with_qr
      <3>2. \A a \in AssetsOf(p) : st[a] # "reserved"
        BY <1>3 DEF AssetsOf
      <3> HIDE DEF st
      <3>3. Units(st, p, "reserved") = 0
        BY <3>2, NoneReserved
      <3>4. UnitBook(row, st, p) /\ row["reserved"] = product[p]["reserved"]
        BY <2>1, <3>1, <3>3, ReconciledRow
      <3>5. row["issued"] = product[p]["issued"]
        <4>1. row["issued"] = Units(st, p, "issued")
          BY <3>4 DEF UnitBook
        <4>2. {a \in AssetsOf(p) : st[a] = "issued"} = {a \in AssetsOf(p) : asset[a] = "issued"}
          BY <1>1 DEF st, AssetsOf
        <4>3. product[p]["issued"] = Units(asset, p, "issued")
          BY <2>1 DEF Books, Book, UnitBook
        <4> QED
          BY <4>1, <4>2, <4>3 DEF Units
      <3> QED
        BY <3>1, <3>4, <3>5
    <2>2. CASE mode[p] # "individual"
      <3> DEFINE n == Cardinality(new)
                 row == CreatedRow(n, n)
      <3>1. product' = [product EXCEPT ![p] = row] /\ TrackingModeChangeable(p, OpenProducts)
        BY <1>1, <1>2, <2>2 DEF generate_assets_with_qr
      <3>2. /\ product[p]["reserved"] = 0 /\ product[p]["issued"] = 0
            /\ \A a \in AssetsOf(p) : asset[a] = "absent"
        BY <3>1 DEF TrackingModeChangeable, QuantityFields, Buckets
      <3>3. n \in Nat
        BY FS_Subset, FS_CardinalityType DEF AssetsOf
      <3> HIDE DEF n
      <3>4. /\ row["available"] = n /\ row["reserved"] = 0 /\ row["issued"] = 0
            /\ row["damaged"] = 0 /\ row["lost"] = 0 /\ row["needs_fix"] = 0 /\ row["total"] = n
        BY DEF CreatedRow, QuantityFields, Buckets
      <3>5. Held(row) = n
        BY <3>3, <3>4 DEF Held
      <3>6. \A s \in {"issued", "damaged", "lost", "maintenance"} : Units(st, p, s) = 0
        <4> SUFFICES ASSUME NEW s \in {"issued", "damaged", "lost", "maintenance"}
                     PROVE  Units(st, p, s) = 0
          OBVIOUS
        <4>1. {a \in AssetsOf(p) : st[a] = s} = {}
          BY <3>2 DEF AssetsOf
        <4> QED
          BY <4>1, FS_EmptySet DEF Units
      <3>7. Units(st, p, "available") = n
        <4>1. {a \in AssetsOf(p) : st[a] = "available"} = new
          BY <1>1, <3>2 DEF AssetsOf
        <4> QED
          BY <4>1 DEF Units, n
      <3> HIDE DEF st, row
      <3>8. UnitBook(row, st, p)
        BY <3>3, <3>4, <3>5, <3>6, <3>7 DEF UnitBook
      <3> QED
        BY <3>1, <3>2, <3>4, <3>8
    <2> QED
      BY <2>1, <2>2
  <1>5. PICK row : /\ product' = [product EXCEPT ![p] = row] /\ UnitBook(row, st, p)
                   /\ row["reserved"] = product[p]["reserved"]
                   /\ row["issued"] = product[p]["issued"]
    BY <1>4
  <1>6. ASSUME NEW x \in Products \ {p}, mode'[x] = "individual"
        PROVE  UnitBook(product[x], st, x)
    <2>1. UnitBook(product[x], asset, x)
      BY <1>1, <1>2, <1>6 DEF Books, Book
    <2>2. \A a \in AssetsOf(x) : st[a] = asset[a]
      BY DEF AssetsOf
    <2> HIDE DEF st
    <2> QED
      BY <2>1, <2>2, BookElsewhere
  <1> HIDE DEF st
  <1>7. \A x \in Products :
              /\ product'[x]["reserved"] = product[x]["reserved"]
              /\ product'[x]["issued"] = product[x]["issued"]
              /\ mode'[x] = "individual" => UnitBook(product'[x], asset', x)
    BY <1>1, <1>2, <1>5, <1>6
  <1>8. consumable' \subseteq Consumables
    BY <1>1 DEF Books
  <1> QED
    BY <1>7, <1>8, BookKept

\* A staff move of one unit, which first reconciles its product.
LEMMA MoveBooks ==
    ASSUME Inv, Keeping, Books, UNCHANGED <<status, item, mode, consumable>>,
           NEW a \in Assets, NEW s, move_asset_status(a, s),
           asset[a] \in UnitStatus \ {"issued"}, s \in UnitStatus \ {"issued"}
    PROVE  Books'
  <1> DEFINE p   == ProductOf[a]
             old == ASSET_QUANTITY_BUCKETS[asset[a]]
             new == ASSET_QUANTITY_BUCKETS[s]
             row == reconcile_individual_product_from_assets(p, asset)
  <1>1. /\ p \in Products /\ mode[p] = "individual" /\ a \in AssetsOf(p)
        /\ product \in [Products -> SoundRows]
    BY DEF Keeping, UnitsTracked, AssetsOf, UnitStatus, Inv, Stock, Ledger
  <1>2. /\ asset[a] # s /\ Reconcilable(p, asset) /\ row[old] >= 1
        /\ product' = [product EXCEPT ![p] = Shift(row, old, new, 1)]
        /\ asset' = [asset EXCEPT ![a] = s]
    BY DEF move_asset_status
  <1>3. asset \in [Assets -> AssetStatus \cup {"absent"}]
    BY DEF Inv, Stock
  <1>4. Units(asset, p, "reserved") = 0
    BY NoneReserved DEF AssetsOf, Keeping, Unmarked
  <1> HIDE DEF p, row
  <1>5. row \in Rows /\ UnitBook(row, asset, p) /\ row["reserved"] = product[p]["reserved"]
    BY <1>1, <1>2, <1>4, ReconciledRow DEF row
  <1>6. Moving(p, asset, asset', {a}, asset[a], s)
    BY <1>2, <1>3 DEF Moving, AssetsOf
  <1>7. {a} \cap AssetsOf(p) = {a} /\ Cardinality({a}) = 1
    <2>1. {a} \cap AssetsOf(p) = {a}
      BY <1>1
    <2>2. Cardinality({a}) = 1
      BY FS_Singleton
    <2> QED
      BY <2>1, <2>2
  <1>8. UnitBook(Shift(row, old, new, 1), asset', p)
    <2>1. Cardinality({a} \cap AssetsOf(p)) = 1
      BY <1>7
    <2>2. asset[a] \in UnitStatus /\ s \in UnitStatus
      OBVIOUS
    <2> QED
      BY <1>2, <1>5, <1>6, <2>1, <2>2, MovedBook
  <1>9. /\ Shift(row, old, new, 1)["reserved"] = product[p]["reserved"]
        /\ Shift(row, old, new, 1)["issued"] = product[p]["issued"]
    <2>1. old \in Buckets \ {"reserved", "issued"} /\ new \in Buckets \ {"reserved", "issued"}
      BY BucketOf DEF UnitStatus
    <2>2. old # new
      BY <1>2, BucketOf
    <2> HIDE DEF old, new
    <2>3. /\ Shift(row, old, new, 1)["reserved"] = row["reserved"]
          /\ Shift(row, old, new, 1)["issued"] = row["issued"]
      BY <1>5, <2>1, <2>2, ShiftFields DEF QuantityFields, Buckets
    <2>4. row["issued"] = product[p]["issued"]
      BY <1>1, <1>5 DEF UnitBook, Books, Book
    <2> QED
      BY <1>5, <2>3, <2>4
  <1>10. ASSUME NEW x \in Products \ {p}, mode[x] = "individual"
         PROVE  UnitBook(product[x], asset', x)
    <2>1. \A b \in AssetsOf(x) : asset'[b] = asset[b]
      BY <1>2, <1>3 DEF AssetsOf, p
    <2> QED
      BY <1>10, <2>1, BookElsewhere DEF Books, Book
  <1> DEFINE moved == Shift(row, old, new, 1)
  <1>11. \A x \in Products :
              /\ product'[x]["reserved"] = product[x]["reserved"]
              /\ product'[x]["issued"] = product[x]["issued"]
              /\ mode'[x] = "individual" => UnitBook(product'[x], asset', x)
    <2> HIDE DEF moved
    <2>1. product' = [product EXCEPT ![p] = moved]
      BY <1>2 DEF moved
    <2> QED
      BY <1>1, <1>8, <1>9, <1>10, <2>1 DEF moved
  <1> QED
    BY <1>11, BookKept DEF Books
\* A unit rebound to another makerspace leaves one available bucket and
\* enters another one.
LEMMA RebindBooks ==
    ASSUME Inv, Keeping, Books, UNCHANGED <<status, item>>, NEW a \in Assets, NEW b \in Assets,
           move_asset_across_makerspaces(a, b, OnLoan)
    PROVE  Books'
  <1> DEFINE p == ProductOf[a]
             d == ProductOf[b]
  <1>1. /\ p \in Products /\ d \in Products /\ p # d /\ a # b
        /\ asset[a] = "available" /\ asset[b] = "absent"
        /\ UNCHANGED <<mode, consumable>>
        /\ asset' = [asset EXCEPT ![a] = "absent", ![b] = "available"]
        /\ product[p]["available"] >= 1
        /\ product' = [product EXCEPT ![p] = Moved(@, -1), ![d] = Moved(@, 1)]
        /\ mode[d] = "individual"
    BY DEF move_asset_across_makerspaces
  <1>2. mode[p] = "individual"
    BY <1>1 DEF Keeping, UnitsTracked
  <1>3. /\ product \in [Products -> SoundRows]
        /\ asset \in [Assets -> AssetStatus \cup {"absent"}]
    BY DEF Inv, Stock, Ledger
  <1>4. /\ \A x \in AssetsOf(p) : asset'[x] = IF x = a THEN "absent" ELSE asset[x]
        /\ \A x \in AssetsOf(d) : asset'[x] = IF x = b THEN "available" ELSE asset[x]
        /\ \A y \in Products \ {p, d} : \A x \in AssetsOf(y) : asset'[x] = asset[x]
        /\ a \in AssetsOf(p) /\ b \in AssetsOf(d)
    BY <1>1, <1>3 DEF AssetsOf
  <1>5. product' = [product EXCEPT ![p] = Moved(product[p], -1), ![d] = Moved(product[d], 1)]
    BY <1>1, <1>3
  <1> HIDE DEF p, d
  <1>6. ASSUME NEW y \in Products, NEW x \in AssetsOf(y), NEW u, NEW v, u # v,
               asset[x] = u, \A z \in AssetsOf(y) : asset'[z] = IF z = x THEN v ELSE asset[z]
        PROVE  Recounted(y, asset, asset', u, v, 1)
    <2>1. Moving(y, asset, asset', {x}, u, v)
      BY <1>6 DEF Moving
    <2>2. {x} \cap AssetsOf(y) = {x}
      OBVIOUS
    <2>3. Cardinality({x}) = 1
      BY FS_Singleton
    <2> QED
      BY <2>1, <2>2, <2>3, UnitsMoved
  <1>7. ASSUME NEW y \in Products, NEW n \in {-1, 1}, product[y]["available"] + n >= 0
        PROVE  /\ \A c \in Buckets \ {"available"} : Moved(product[y], n)[c] = product[y][c]
               /\ Moved(product[y], n)["available"] = product[y]["available"] + n
               /\ Moved(product[y], n)["total"] = Held(Moved(product[y], n))
    <2> DEFINE row == [product[y] EXCEPT !["available"] = @ + n]
    <2>1. product[y] \in Rows /\ product[y]["available"] \in Nat
      BY RowNat
    <2>2. row \in Rows
      BY <1>7, <2>1 DEF Rows, QuantityFields, Buckets
    <2>3. /\ row["available"] = product[y]["available"] + n
          /\ \A c \in Buckets \ {"available"} : row[c] = product[y][c]
      BY <2>1 DEF Rows, QuantityFields, Buckets
    <2>4. Moved(product[y], n) = Recount(row)
      BY DEF Moved
    <2> HIDE DEF row
    <2> QED
      BY <2>2, <2>3, <2>4, RecountFields DEF Buckets
  <1>8. UnitBook(product[p], asset, p) /\ UnitBook(product[d], asset, d)
    BY <1>1, <1>2 DEF Books, Book
  <1>9. /\ product[p]["available"] \in Nat /\ product[d]["available"] \in Nat
        /\ product[p]["reserved"] \in Nat /\ product[d]["reserved"] \in Nat
        /\ \A y, s : Units(asset, y, s) \in Nat
    BY <1>1, RowNat, UnitsNat
  <1>10. UnitBook(Moved(product[p], -1), asset', p)
    <2>1. Recounted(p, asset, asset', "available", "absent", 1)
      BY <1>1, <1>4, <1>6
    <2>2. /\ \A c \in Buckets \ {"available"} : Moved(product[p], -1)[c] = product[p][c]
          /\ Moved(product[p], -1)["available"] = product[p]["available"] + (-1)
          /\ Moved(product[p], -1)["total"] = Held(Moved(product[p], -1))
      BY <1>1, <1>7, <1>9
    <2> QED
      BY <1>8, <1>9, <2>1, <2>2 DEF UnitBook, Recounted, Buckets
  <1>11. UnitBook(Moved(product[d], 1), asset', d)
    <2>1. Recounted(d, asset, asset', "absent", "available", 1)
      BY <1>1, <1>4, <1>6
    <2>2. /\ \A c \in Buckets \ {"available"} : Moved(product[d], 1)[c] = product[d][c]
          /\ Moved(product[d], 1)["available"] = product[d]["available"] + 1
          /\ Moved(product[d], 1)["total"] = Held(Moved(product[d], 1))
      BY <1>1, <1>7, <1>9
    <2> QED
      BY <1>8, <1>9, <2>1, <2>2 DEF UnitBook, Recounted, Buckets
  <1>12. ASSUME NEW y \in Products \ {p, d}, mode[y] = "individual"
         PROVE  UnitBook(product[y], asset', y)
    <2>1. \A x \in AssetsOf(y) : asset'[x] = asset[x]
      BY <1>4
    <2>2. UnitBook(product[y], asset, y)
      BY <1>12 DEF Books, Book
    <2> QED
      BY <2>1, <2>2, BookElsewhere
  <1>13. ASSUME NEW y \in Products
         PROVE  /\ product'[y]["reserved"] = product[y]["reserved"]
                /\ product'[y]["issued"] = product[y]["issued"]
                /\ mode'[y] = "individual" => UnitBook(product'[y], asset', y)
    <2>1. product'[y] = IF y = d THEN Moved(product[d], 1)
                        ELSE IF y = p THEN Moved(product[p], -1) ELSE product[y]
      BY <1>1, <1>3, <1>5
    <2>2. /\ \A c \in Buckets \ {"available"} : Moved(product[p], -1)[c] = product[p][c]
          /\ \A c \in Buckets \ {"available"} : Moved(product[d], 1)[c] = product[d][c]
      BY <1>1, <1>7, <1>9
    <2> QED
      BY <1>1, <1>10, <1>11, <1>12, <2>1, <2>2, ZenonT(60) DEF Buckets
  <1> QED
    BY <1>1, <1>13, BookKept DEF Books

\* Every staff operation keeps the books.
LEMMA StaffBooks ==
    ASSUME Inv, Keeping, Books, StaffNext
    PROVE  Books'
  <1>1. UNCHANGED <<status, item>> /\ InventoryNext(OpenProducts, OnLoan)
    BY DEF StaffNext, requestVars
  <1>2. CASE UNCHANGED <<mode, product, asset>> /\ consumable' \subseteq Consumables
    <2>1. \A p \in Products : mode'[p] = "individual" => UnitBook(product'[p], asset', p)
      BY <1>2 DEF Books, Book
    <2> QED
      BY <1>1, <1>2, <2>1, BookKept
  <1>3. ASSUME NEW p \in Products,
               (\E b \in Places : MoveProductRow(p, b)) \/ link_consumable(p) \/ unlink_consumable(p)
        PROVE  Books'
    BY <1>2, <1>3 DEF MoveProductRow, link_consumable, unlink_consumable, Books
  <1>4. \A a \in Assets : asset[a] \in AssetStatus \cup {"absent"}
    BY DEF Inv, Stock
  <1>5. ASSUME NEW a \in Assets, ShelveAsset(a)
        PROVE  Books'
    BY <1>1, <1>5, MoveBooks DEF ShelveAsset, UnitStatus
  <1>6. ASSUME NEW a \in Assets, RepairAsset(a)
        PROVE  Books'
    BY <1>1, <1>6, MoveBooks DEF RepairAsset, UnitStatus
  <1>7. ASSUME NEW a \in Assets, NEW s, NEW b, TransferAsset(a, s, b, OnLoan)
        PROVE  Books'
    <2>1. CASE s = asset[a]
      BY <1>2, <1>7, <2>1 DEF TransferAsset, Books
    <2>2. CASE s # asset[a]
      <3>1. asset[a] \in UnitStatus \ {"issued"} /\ s \in UnitStatus \ {"issued"}
        BY <1>4, <1>7, <2>2 DEF TransferAsset, AssetStatus, UnitStatus, Keeping, Unmarked
      <3> QED
        BY <1>1, <1>7, <2>2, <3>1, MoveBooks DEF TransferAsset
    <2> QED
      BY <2>1, <2>2
  <1>8. ASSUME NEW p \in Products,
               \/ \E da, dd, dl \in -MaxDelta .. MaxDelta : adjust_manual_quantities(p, da, dd, dl)
               \/ \E q \in 1 .. MaxDelta :
                     \/ repair_from_needs_fix(p, q)
                     \/ move_available_to_needs_fix(p, q)
                     \/ scrap_from_needs_fix(p, q)
                     \/ \E d \in Products : transfer_available_quantity(p, d, q)
        PROVE  Books'
    BY <1>1, <1>8, CorrectionBooks
  <1> QED
    BY <1>1, <1>3, <1>5, <1>6, <1>7, <1>8, ConsumptionBooks, ModeBooks, GenerateBooks, RebindBooks
       DEF InventoryNext
\* A reservation is carved out of the units in stock, or given back to them.
LEMMA ReservedBook ==
    ASSUME NEW p, NEW row \in Rows, NEW st, UnitBook(row, st, p), NEW q \in Nat,
           NEW from, NEW to, {from, to} = {"available", "reserved"}, from # to, row[from] >= q
    PROVE  UnitBook(Shift(row, from, to, q), st, p)
  <1> DEFINE new == Shift(row, from, to, q)
  <1>1. from \in Buckets /\ to \in Buckets
    BY DEF Buckets
  <1>2. /\ new[from] = row[from] - q /\ new[to] = row[to] + q
        /\ \A b \in QuantityFields \ {from, to} : new[b] = row[b]
    BY <1>1, ShiftFields
  <1>3. Held(new) = Held(row) /\ new["total"] = row["total"]
    BY <1>1, ShiftRow
  <1>4. row["available"] \in Nat /\ row["reserved"] \in Nat
    BY DEF Rows, QuantityFields, Buckets
  <1> HIDE DEF new
  <1>5. new["available"] + new["reserved"] = row["available"] + row["reserved"]
    <2>1. CASE from = "available" /\ to = "reserved"
      BY <1>2, <1>4, <2>1
    <2>2. CASE from = "reserved" /\ to = "available"
      BY <1>2, <1>4, <2>2
    <2> QED
      BY <2>1, <2>2
  <1>6. /\ new["issued"] = row["issued"] /\ new["damaged"] = row["damaged"]
        /\ new["lost"] = row["lost"] /\ new["needs_fix"] = row["needs_fix"]
    BY <1>2 DEF QuantityFields, Buckets
  <1>7. UnitBook(new, st, p)
    BY <1>3, <1>5, <1>6 DEF UnitBook
  <1> QED
    BY <1>7 DEF new

\* Accepting reserves what is accepted.
LEMMA AcceptBooks ==
    ASSUME Inv, Inv', Books, NEW r \in Requests, NEW q \in Quantities, accept_request(r, q),
           \A x \in Requests \ {r} : Spared(x)
    PROVE  Books'
  <1>1. /\ status[r] = "pending_approval" /\ status'[r] = "accepted"
        /\ UNCHANGED <<mode, asset, consumable>>
        /\ \A p \in Products : item'[r][p]["accepted"] = q[p]
        /\ product' = [p \in Products |-> Shift(product[p], "available", "reserved", q[p])]
    BY DEF accept_request, reserve_for_request, Inv, RequestRows, Counters
  <1>2. ASSUME NEW p \in Products
        PROVE  /\ product'[p]["reserved"] =
                     product[p]["reserved"] - Promised(r, p) + Promised(r, p)'
               /\ product'[p]["issued"] =
                     product[p]["issued"] - Outstanding(r, p) + Outstanding(r, p)'
               /\ mode[p] = "individual" => UnitBook(product'[p], asset', p)
    <2>1. /\ Promised(r, p) = 0 /\ Promised(r, p)' = q[p]
          /\ Outstanding(r, p) = 0 /\ Outstanding(r, p)' = 0
      BY <1>1 DEF Promised, Outstanding, OpenStatus
    <2>2. /\ product[p] \in Rows /\ product[p]["reserved"] \in Nat /\ product[p]["issued"] \in Nat
          /\ product[p]["available"] \in Nat /\ q[p] \in Nat
      BY RowNat, QuantitiesCounts DEF Counts
    <2>3. product[p]["available"] >= q[p]
      BY <2>2 DEF accept_request, reserve_for_request
    <2>4. /\ product'[p]["reserved"] = product[p]["reserved"] + q[p]
          /\ product'[p]["issued"] = product[p]["issued"]
      BY <1>1, <2>2, ShiftFields DEF Buckets, QuantityFields
    <2>5. mode[p] = "individual" => UnitBook(product'[p], asset', p)
      <3>1. mode[p] = "individual" => UnitBook(product[p], asset, p)
        BY DEF Books, Book
      <3>2. {"available", "reserved"} = {"available", "reserved"} /\ "available" # "reserved"
        OBVIOUS
      <3>3. mode[p] = "individual" =>
               UnitBook(Shift(product[p], "available", "reserved", q[p]), asset, p)
        BY <2>2, <2>3, <3>1, <3>2, ReservedBook
      <3> QED
        BY <1>1, <3>3
    <2> QED
      BY <2>1, <2>2, <2>4, <2>5
  <1> QED
    BY <1>1, <1>2, BookStep

\* Cancelling gives it back.
LEMMA CancelBooks ==
    ASSUME Inv, Inv', Books, NEW r \in Requests, cancel_request(r),
           \A x \in Requests \ {r} : Spared(x)
    PROVE  Books'
  <1> DEFINE q == Column(r, "accepted")
  <1>1. /\ status[r] = "accepted" /\ status'[r] = "cancelled"
        /\ UNCHANGED <<mode, asset, consumable, item>>
        /\ product' = [p \in Products |-> Shift(product[p], "reserved", "available", q[p])]
        /\ ReservationAttributable(Lines(r), q, Demand)
    BY DEF cancel_request, release_request_reservation, Inv, RequestRows
  <1>2. ASSUME NEW p \in Products
        PROVE  q[p] = item[r][p]["accepted"] /\ q[p] \in Nat /\ product[p]["reserved"] >= q[p]
    <2>1. /\ q[p] = item[r][p]["accepted"] /\ q[p] \in Nat /\ item[r][p]["requested"] \in Nat
          /\ q[p] <= item[r][p]["requested"] /\ product[p]["reserved"] \in Nat
      BY RowNat DEF Column, Inv, RequestRows, ItemLedger, Counters
    <2>2. CASE p \in Lines(r)
      <3>1. Demand[p] \in q[p] .. product[p]["reserved"]
        BY <1>1, <2>2 DEF ReservationAttributable
      <3> QED
        BY <2>1, <3>1
    <2>3. CASE p \notin Lines(r)
      BY <2>1, <2>3 DEF Lines
    <2> QED
      BY <2>1, <2>2, <2>3
  <1> HIDE DEF q
  <1>3. ASSUME NEW p \in Products
        PROVE  /\ product'[p]["reserved"] =
                     product[p]["reserved"] - Promised(r, p) + Promised(r, p)'
               /\ product'[p]["issued"] =
                     product[p]["issued"] - Outstanding(r, p) + Outstanding(r, p)'
               /\ mode[p] = "individual" => UnitBook(product'[p], asset', p)
    <2>1. /\ Promised(r, p) = q[p] /\ Promised(r, p)' = 0
          /\ Outstanding(r, p) = 0 /\ Outstanding(r, p)' = 0
      BY <1>1, <1>2 DEF Promised, Outstanding, OpenStatus
    <2>2. /\ product[p] \in Rows /\ product[p]["reserved"] \in Nat /\ product[p]["issued"] \in Nat
      BY RowNat
    <2>3. q[p] \in Nat /\ product[p]["reserved"] >= q[p]
      BY <1>2
    <2>4. /\ product'[p]["reserved"] = product[p]["reserved"] - q[p]
          /\ product'[p]["issued"] = product[p]["issued"]
      BY <1>1, <2>2, ShiftFields DEF Buckets, QuantityFields
    <2>5. mode[p] = "individual" => UnitBook(product'[p], asset', p)
      <3>1. mode[p] = "individual" => UnitBook(product[p], asset, p)
        BY DEF Books, Book
      <3>2. {"reserved", "available"} = {"available", "reserved"} /\ "available" # "reserved"
        OBVIOUS
      <3>3. mode[p] = "individual" =>
               UnitBook(Shift(product[p], "reserved", "available", q[p]), asset, p)
        BY <2>2, <2>3, <3>1, <3>2, ReservedBook
      <3> QED
        BY <1>1, <3>3
    <2> QED
      BY <2>1, <2>2, <2>3, <2>4, <2>5
  <1> QED
    BY <1>1, <1>3, BookStep

\* Issuing turns a reservation into what is out; the scanned units of an
\* individual product are as many as were reserved of it.
LEMMA IssueBooks ==
    ASSUME Inv, Inv', Books, NEW r \in Requests, NEW e, NEW scanned \in SUBSET Assets,
           NEW fix \in Quantities, NEW scrap \in Quantities,
           issue_request(r, e, scanned, fix, scrap), \A x \in Requests \ {r} : Spared(x)
    PROVE  Books'
  <1> DEFINE q == Column(r, "accepted")
             new(p) == [product[p] EXCEPT !["reserved"]  = @ - q[p],
                                          !["issued"]    = @ + (q[p] - fix[p] - scrap[p]),
                                          !["needs_fix"] = @ + fix[p],
                                          !["total"]     = @ - scrap[p]]
  <1>1. /\ status[r] = "accepted" /\ status'[r] = "issued"
        /\ UNCHANGED <<mode, consumable>>
        /\ validate_broken_rejects(q, fix, scrap)
        /\ issue_individual_assets(q, scanned)
        /\ \A p \in Products : fix[p] + scrap[p] <= q[p] /\ product[p]["reserved"] >= q[p]
        /\ product' = [p \in Products |-> new(p)]
    BY DEF issue_request, issue_items, Inv, RequestRows
  <1>2. ASSUME NEW p \in Products
        PROVE  /\ item'[r][p]["issued"] = q[p] - fix[p] - scrap[p]
               /\ item'[r][p]["returned"] = 0 /\ item'[r][p]["damaged"] = 0
               /\ item'[r][p]["missing"] = 0
               /\ q[p] = item[r][p]["accepted"]
               /\ q[p] \in Nat /\ fix[p] \in Nat /\ scrap[p] \in Nat
    <2>1. /\ item[r][p] \in [Counters -> Nat] /\ item[r][p]["returned"] = 0
          /\ item[r][p]["damaged"] = 0 /\ item[r][p]["missing"] = 0
      BY <1>1 DEF Inv, RequestRows, Untouched, Counters
    <2>2. q[p] = item[r][p]["accepted"] /\ q[p] \in Nat /\ fix[p] \in Nat /\ scrap[p] \in Nat
      BY <2>1, QuantitiesCounts DEF Column, Counts, Counters
    <2>3. /\ item'[r][p]["issued"] = q[p] - fix[p] - scrap[p]
          /\ item'[r][p]["returned"] = 0 /\ item'[r][p]["damaged"] = 0
          /\ item'[r][p]["missing"] = 0
      BY <2>1 DEF issue_request, Counters, Inv, RequestRows
    <2> QED
      BY <2>2, <2>3
  <1> HIDE DEF q
  <1>3. ASSUME NEW p \in Products
        PROVE  /\ product'[p]["reserved"] =
                     product[p]["reserved"] - Promised(r, p) + Promised(r, p)'
               /\ product'[p]["issued"] =
                     product[p]["issued"] - Outstanding(r, p) + Outstanding(r, p)'
               /\ mode[p] = "individual" => UnitBook(product'[p], asset', p)
    <2> DEFINE row == product[p]
               k == Cardinality(scanned \cap AssetsOf(p))
    <2>1. /\ item'[r][p]["issued"] = q[p] - fix[p] - scrap[p]
          /\ item'[r][p]["returned"] = 0 /\ item'[r][p]["damaged"] = 0
          /\ item'[r][p]["missing"] = 0
          /\ q[p] = item[r][p]["accepted"]
          /\ q[p] \in Nat /\ fix[p] \in Nat /\ scrap[p] \in Nat
          /\ fix[p] + scrap[p] <= q[p] /\ row["reserved"] >= q[p]
      BY <1>1, <1>2
    <2>2. remaining_quantity(item'[r][p]) = q[p] - fix[p] - scrap[p]
      BY <2>1 DEF remaining_quantity
    <2>3. /\ Promised(r, p) = q[p] /\ Promised(r, p)' = 0
          /\ Outstanding(r, p) = 0 /\ Outstanding(r, p)' = q[p] - fix[p] - scrap[p]
      BY <1>1, <2>1, <2>2 DEF Promised, Outstanding, OpenStatus, remaining_quantity
    <2>4. /\ row \in Rows /\ row["available"] \in Nat /\ row["reserved"] \in Nat
          /\ row["issued"] \in Nat /\ row["damaged"] \in Nat /\ row["lost"] \in Nat
          /\ row["needs_fix"] \in Nat /\ row["total"] \in Nat
      BY RowNat
    <2>5. /\ product'[p]["reserved"] = row["reserved"] - q[p]
          /\ product'[p]["issued"] = row["issued"] + (q[p] - fix[p] - scrap[p])
          /\ product'[p]["needs_fix"] = row["needs_fix"] + fix[p]
          /\ product'[p]["total"] = row["total"] - scrap[p]
          /\ product'[p]["available"] = row["available"]
          /\ product'[p]["damaged"] = row["damaged"] /\ product'[p]["lost"] = row["lost"]
      BY <1>1, <2>4 DEF Rows, QuantityFields, Buckets
    <2>6. mode[p] = "individual" => UnitBook(product'[p], asset', p)
      <3> SUFFICES ASSUME mode[p] = "individual"
                   PROVE  UnitBook(product'[p], asset', p)
        OBVIOUS
      <3>1. ~ fix[p] + scrap[p] > 0 /\ k = q[p]
        BY <1>1 DEF validate_broken_rejects, issue_individual_assets
      <3>2. fix[p] = 0 /\ scrap[p] = 0
        BY <2>1, <3>1
      <3>3. Moving(p, asset, asset', scanned, "available", "issued")
        BY <1>1 DEF Moving, issue_individual_assets, AssetsOf
      <3>4. Recounted(p, asset, asset', "available", "issued", k)
        BY <3>3, UnitsMoved
      <3>5. UnitBook(row, asset, p)
        BY DEF Books, Book
      <3> HIDE DEF row, k
      <3>6. Held(product'[p]) = Held(row)
        BY <2>1, <2>4, <2>5, <3>2 DEF Held
      <3>7. Units(asset, p, "available") \in Nat /\ Units(asset, p, "issued") \in Nat
        BY UnitsNat
      <3>8. /\ Units(asset', p, "available") = Units(asset, p, "available") - q[p]
            /\ Units(asset', p, "issued") = Units(asset, p, "issued") + q[p]
            /\ Units(asset', p, "damaged") = Units(asset, p, "damaged")
            /\ Units(asset', p, "lost") = Units(asset, p, "lost")
            /\ Units(asset', p, "maintenance") = Units(asset, p, "maintenance")
        BY <3>1, <3>4 DEF Recounted
      <3>9. ShelfSafe(p) =>
               product'[p]["available"] + product'[p]["reserved"] = Units(asset', p, "available")
        BY <2>1, <2>4, <2>5, <3>5, <3>7, <3>8 DEF UnitBook
      <3>10. /\ product'[p]["issued"] = Units(asset', p, "issued")
             /\ product'[p]["needs_fix"] = Units(asset', p, "maintenance")
             /\ product'[p]["total"] = Held(product'[p])
        BY <2>1, <2>4, <2>5, <3>2, <3>5, <3>6, <3>7, <3>8 DEF UnitBook
      <3> QED
        BY <2>5, <3>5, <3>8, <3>9, <3>10 DEF UnitBook
    <2> QED
      BY <2>1, <2>3, <2>4, <2>5, <2>6
  <1> QED
    BY <1>1, <1>3, BookStep

\* A step of a request that changes no quantity.
LEMMA ShareKept ==
    ASSUME Inv, Inv', Books, NEW r \in Requests, \A x \in Requests \ {r} : Spared(x),
           UNCHANGED <<mode, product, asset, consumable>>,
           \A p \in Products : /\ Promised(r, p)' = Promised(r, p)
                               /\ Outstanding(r, p)' = Outstanding(r, p)
    PROVE  Books'
  <1>1. ASSUME NEW p \in Products
        PROVE  /\ product'[p]["reserved"] =
                     product[p]["reserved"] - Promised(r, p) + Promised(r, p)'
               /\ product'[p]["issued"] =
                     product[p]["issued"] - Outstanding(r, p) + Outstanding(r, p)'
               /\ mode[p] = "individual" => UnitBook(product'[p], asset', p)
    <2>1. /\ product[p]["reserved"] \in Nat /\ product[p]["issued"] \in Nat
          /\ item[r][p] \in [Counters -> Nat]
      BY RowNat DEF Inv, RequestRows
    <2>2. Promised(r, p) \in Int /\ Outstanding(r, p) \in Int
      BY <2>1 DEF Promised, Outstanding, remaining_quantity, Counters
    <2> QED
      BY <2>1, <2>2 DEF Books, Book
  <1> QED
    BY <1>1, BookStep

\* So every step of the review keeps the books.
LEMMA ReviewBooks ==
    ASSUME Inv, Inv', Books, NEW r \in Requests, ReviewNext(r)
    PROVE  Books'
  <1>1. \A x \in Requests \ {r} : Spared(x)
    BY OthersSpared
  <1>2. ASSUME NEW q, NEW key, submit_request(r, q, key)
        PROVE  Books'
    BY <1>1, <1>2, ShareKept DEF submit_request, inventoryVars, Inv, RequestRows, Promised,
                                 Outstanding, OpenStatus
  <1>3. CASE reject_request(r)
    BY <1>1, <1>3, ShareKept DEF reject_request, inventoryVars, Inv, RequestRows, Promised,
                                 Outstanding, OpenStatus
  <1>4. ASSUME NEW b, assign_box(r, b)
        PROVE  Books'
    <2>1. \A p : Promised(r, p)' = Promised(r, p) /\ Outstanding(r, p)' = Outstanding(r, p)
      BY <1>4 DEF assign_box, Promised, Outstanding, remaining_quantity
    <2> QED
      BY <1>1, <1>4, <2>1, ShareKept DEF assign_box, inventoryVars
  <1> QED
    BY <1>1, <1>2, <1>3, <1>4, AcceptBooks, CancelBooks, IssueBooks DEF ReviewNext
\* _create_issued_request takes what it hands out from the available bucket,
\* and the scanned units with it.
LEMMA CreateBooks ==
    ASSUME Inv, Inv', Books, NEW r \in Requests, NEW e, NEW q \in Counts, NEW box,
           NEW qrs \in SUBSET Targets, NEW source,
           _create_issued_request(r, e, q, box, qrs, source),
           \A x \in Requests \ {r} : Spared(x),
           \A a \in qrs \cap Assets : asset[a] = "available",
           \A p \in Products : mode[p] = "individual" => q[p] = Cardinality(qrs \cap AssetsOf(p))
    PROVE  Books'
  <1>1. /\ status[r] = "none" /\ status'[r] = "issued" /\ UNCHANGED <<mode, consumable>>
        /\ asset' = [a \in Assets |-> IF a \in qrs THEN "issued" ELSE asset[a]]
        /\ \A p \in Products : product[p]["available"] >= q[p]
        /\ product' = [p \in Products |-> Shift(product[p], "available", "issued", q[p])]
    BY DEF _create_issued_request, issue_available, Inv, RequestRows
  <1>2. ASSUME NEW p \in Products
        PROVE  /\ product'[p]["reserved"] =
                     product[p]["reserved"] - Promised(r, p) + Promised(r, p)'
               /\ product'[p]["issued"] =
                     product[p]["issued"] - Outstanding(r, p) + Outstanding(r, p)'
               /\ mode[p] = "individual" => UnitBook(product'[p], asset', p)
    <2>1. /\ item'[r][p]["issued"] = q[p] /\ item'[r][p]["returned"] = 0
          /\ item'[r][p]["damaged"] = 0 /\ item'[r][p]["missing"] = 0 /\ q[p] \in Nat
      BY DEF _create_issued_request, Inv, RequestRows, Counters, Counts
    <2>2. remaining_quantity(item'[r][p]) = q[p]
      BY <2>1 DEF remaining_quantity
    <2>3. /\ Promised(r, p) = 0 /\ Promised(r, p)' = 0
          /\ Outstanding(r, p) = 0 /\ Outstanding(r, p)' = q[p]
      BY <1>1, <2>2 DEF Promised, Outstanding, OpenStatus, remaining_quantity
    <2>4. product[p] \in Rows /\ product[p]["reserved"] \in Nat /\ product[p]["issued"] \in Nat
      BY RowNat
    <2>5. /\ product'[p]["reserved"] = product[p]["reserved"]
          /\ product'[p]["issued"] = product[p]["issued"] + q[p]
      BY <1>1, <2>4, ShiftFields DEF Buckets, QuantityFields
    <2>6. mode[p] = "individual" => UnitBook(product'[p], asset', p)
      <3> SUFFICES ASSUME mode[p] = "individual"
                   PROVE  UnitBook(product'[p], asset', p)
        OBVIOUS
      <3>1. Moving(p, asset, asset', qrs, "available", "issued")
        BY <1>1 DEF Moving, AssetsOf
      <3>2. UnitBook(product[p], asset, p)
        BY DEF Books, Book
      <3>3. /\ "available" \in UnitStatus /\ "issued" \in UnitStatus
            /\ ASSET_QUANTITY_BUCKETS["available"] = "available"
            /\ ASSET_QUANTITY_BUCKETS["issued"] = "issued"
        BY BucketOf DEF UnitStatus
      <3>4. product[p]["available"] >= Cardinality(qrs \cap AssetsOf(p))
        BY <1>1
      <3> DEFINE k == Cardinality(qrs \cap AssetsOf(p))
                 from == ASSET_QUANTITY_BUCKETS["available"]
                 to == ASSET_QUANTITY_BUCKETS["issued"]
      <3>5. product[p][from] >= k
        BY <3>3, <3>4
      <3>6. UnitBook(Shift(product[p], from, to, k), asset', p)
        BY <2>4, <3>1, <3>2, <3>3, <3>5, MovedBook
      <3>7. from = "available" /\ to = "issued" /\ k = q[p]
        BY <3>3
      <3> HIDE DEF from, to, k
      <3> QED
        BY <1>1, <3>6, <3>7
    <2> QED
      BY <2>3, <2>4, <2>5, <2>6
  <1> QED
    BY <1>1, <1>2, BookStep

\* So every handout keeps the books.
LEMMA HandoutBooks ==
    ASSUME Inv, Inv', Books, NEW r \in Requests, HandoutNext(r)
    PROVE  Books'
  BY HandoutCreates, CreateBooks, OthersSpared

\* return_items books each resolved unit where flip_asset_returns puts it.
LEMMA ReturnedBook ==
    ASSUME Inv, Keeping, Books, NEW out \in [Assets -> Outcomes \cup {"issued"}], NEW given,
           NEW held, flip_asset_returns(held, out), \A a \in Brought(out) : asset[a] = "issued",
           NEW res, res = build_resolutions(given, out), res \in [Products -> [Outcomes -> Nat]],
           return_items(res), NEW p \in Products
    PROVE  /\ product'[p]["reserved"] = product[p]["reserved"]
           /\ product'[p]["issued"] = product[p]["issued"] - Resolved(res, p)
           /\ mode[p] = "individual" => UnitBook(product'[p], asset', p)
  <1> DEFINE row == product[p]
  <1>1. /\ row \in Rows /\ row["available"] \in Nat /\ row["reserved"] \in Nat
        /\ row["issued"] \in Nat /\ row["damaged"] \in Nat /\ row["lost"] \in Nat
        /\ row["needs_fix"] \in Nat /\ row["total"] \in Nat
    BY RowNat
  <1>2. /\ res[p]["returned"] \in Nat /\ res[p]["damaged"] \in Nat /\ res[p]["missing"] \in Nat
    BY DEF Outcomes
  <1>3. product' = [x \in Products |->
          [product[x] EXCEPT !["issued"]    = @ - Resolved(res, x),
                             !["available"] = @ + res[x]["returned"],
                             !["damaged"]   = @ + res[x]["damaged"],
                             !["lost"]      = @ + res[x]["missing"]]]
    BY DEF return_items
  <1>4. /\ product'[p]["issued"] = row["issued"] - Resolved(res, p)
        /\ product'[p]["available"] = row["available"] + res[p]["returned"]
        /\ product'[p]["damaged"] = row["damaged"] + res[p]["damaged"]
        /\ product'[p]["lost"] = row["lost"] + res[p]["missing"]
        /\ product'[p]["reserved"] = row["reserved"]
        /\ product'[p]["needs_fix"] = row["needs_fix"]
        /\ product'[p]["total"] = row["total"]
    BY <1>1, <1>3 DEF Rows, QuantityFields, Buckets
  <1>5. ASSUME mode[p] = "individual"
        PROVE  UnitBook(product'[p], asset', p)
    <2>1. UnitBook(row, asset, p)
      BY <1>5 DEF Books, Book
    <2>2. /\ Units(asset', p, "issued") = Units(asset, p, "issued") - Resolved(res, p)
          /\ Units(asset', p, "available") = Units(asset, p, "available") + res[p]["returned"]
          /\ Units(asset', p, "damaged") = Units(asset, p, "damaged") + res[p]["damaged"]
          /\ Units(asset', p, "lost") = Units(asset, p, "lost") + res[p]["missing"]
          /\ Units(asset', p, "maintenance") = Units(asset, p, "maintenance")
      <3>1. UnitsReturned(build_resolutions(given, out), p, asset, asset')
        BY <1>5, BroughtMoved
      <3> QED
        BY <3>1 DEF UnitsReturned
    <2>3. Held(product'[p]) = Held(row)
      <3> HIDE DEF row
      <3>1. Resolved(res, p) = res[p]["returned"] + res[p]["damaged"] + res[p]["missing"]
        BY DEF Resolved
      <3> QED
        BY <1>1, <1>2, <1>4, <3>1 DEF Held
    <2>4. ShelfSafe(p) =>
             product'[p]["available"] + product'[p]["reserved"] = Units(asset', p, "available")
      <3> HIDE DEF row
      <3> QED
        BY <1>1, <1>2, <1>4, <2>1, <2>2 DEF UnitBook
    <2> HIDE DEF row
    <2> QED
      BY <1>4, <2>1, <2>2, <2>3, <2>4 DEF UnitBook
  <1> QED
    BY <1>4, <1>5

\* A reviewed return: what it resolves is what is outstanding no longer.
LEMMA ReturnRequestBooks ==
    ASSUME Inv, Inv', Keeping, Books, NEW r \in Requests, NEW e \in ReturnPhotos,
           NEW out \in [Assets -> Outcomes \cup {"issued"}],
           NEW given \in [{p \in Products : mode[p] = "quantity"} -> [Outcomes -> 0 .. MaxQty]],
           return_request(r, e, given, out), \A x \in Requests \ {r} : Spared(x)
    PROVE  Books'
  <1> DEFINE res == build_resolutions(given, out)
             rows == ResolveItems(r, res)
  <1>1. /\ loan_status[r] = "none" /\ status[r] \in OpenStatus
        /\ UNCHANGED <<mode, consumable>> /\ item'[r] = rows
        /\ status'[r] = finalize_return_status(rows)
        /\ flip_asset_returns(link[r], out) /\ return_items(res)
    BY DEF return_request, Inv, RequestRows
  <1>2. res \in [Products -> [Outcomes -> Nat]]
    BY Resolutions
  <1>3. \A a \in Brought(out) : asset[a] = "issued"
    <2>1. Custody(r) = link[r]
      BY <1>1 DEF Custody
    <2>2. Brought(out) \subseteq link[r] \cap Assets
      BY <1>1 DEF flip_asset_returns, Brought
    <2> QED
      BY <2>1, <2>2 DEF Keeping, IssuedUnits
  <1>4. ASSUME NEW p \in Products
        PROVE  /\ remaining_quantity(rows[p]) = remaining_quantity(item[r][p]) - Resolved(res, p)
               /\ remaining_quantity(item[r][p]) \in Nat /\ Resolved(res, p) \in Nat
    BY <1>2, ResolvedRemain
  <1>5. ASSUME NEW p \in Products
        PROVE  /\ product'[p]["reserved"] = product[p]["reserved"]
               /\ product'[p]["issued"] = product[p]["issued"] - Resolved(res, p)
               /\ mode[p] = "individual" => UnitBook(product'[p], asset', p)
    BY <1>1, <1>2, <1>3, ReturnedBook
  <1> HIDE DEF res, rows
  <1>6. ASSUME NEW p \in Products
        PROVE  /\ Promised(r, p) = 0 /\ Promised(r, p)' = 0
               /\ Outstanding(r, p) = remaining_quantity(item[r][p])
               /\ Outstanding(r, p)' = remaining_quantity(rows[p])
    <2>1. status'[r] \in OpenStatus \/ remaining_quantity(rows[p]) = 0
      BY <1>1 DEF finalize_return_status, OpenStatus
    <2>2. status'[r] # "accepted"
      BY <1>1 DEF finalize_return_status
    <2>3. remaining_quantity(item[r][p])' = remaining_quantity(rows[p])
      BY <1>1 DEF remaining_quantity
    <2> QED
      BY <1>1, <2>1, <2>2, <2>3 DEF Promised, Outstanding, OpenStatus
  <1>7. ASSUME NEW p \in Products
        PROVE  /\ product'[p]["reserved"] =
                     product[p]["reserved"] - Promised(r, p) + Promised(r, p)'
               /\ product'[p]["issued"] =
                     product[p]["issued"] - Outstanding(r, p) + Outstanding(r, p)'
               /\ mode[p] = "individual" => UnitBook(product'[p], asset', p)
    <2>1. product[p]["reserved"] \in Nat /\ product[p]["issued"] \in Nat
      BY RowNat
    <2> QED
      BY <1>4, <1>5, <1>6, <2>1
  <1> QED
    BY <1>1, <1>7, BookStep

\* A staff loan comes back whole.
LEMMA ReturnDirectBooks ==
    ASSUME Inv, Inv', Custodian, Papers, Keeping, Books, NEW r \in Requests, NEW e \in ReturnPhotos,
           NEW out \in [Assets -> Outcomes \cup {"issued"}],
           NEW given \in [{p \in Products : mode[p] = "quantity"} -> [Outcomes -> 0 .. MaxQty]],
           return_direct_loan(r, e, given, out), \A x \in Requests \ {r} : Spared(x)
    PROVE  Books'
  <1> DEFINE res == build_resolutions(given, out)
             rows == ResolveItems(r, res)
             held == {a \in LoanAssets(r) : asset[a] = "issued"}
  <1>1. /\ loan_status[r] = "checked_out" /\ UNCHANGED <<mode, consumable>>
        /\ status'[r] = finalize_return_status(rows)
        /\ \A p \in Products : Resolved(res, p) = remaining_quantity(item[r][p])
        /\ flip_asset_returns(held, out) /\ return_items(res)
    BY DEF return_direct_loan, CloseLoan, Inv, RequestRows
  <1>2. res \in [Products -> [Outcomes -> Nat]]
    BY Resolutions
  <1>3. \A a \in Brought(out) : asset[a] = "issued"
    BY <1>1 DEF flip_asset_returns
  <1>4. status[r] = "issued"
    BY <1>1, LoanCustody
  <1>5. ASSUME NEW p \in Products
        PROVE  /\ product'[p]["reserved"] = product[p]["reserved"]
               /\ product'[p]["issued"] = product[p]["issued"] - Resolved(res, p)
               /\ mode[p] = "individual" => UnitBook(product'[p], asset', p)
    BY <1>1, <1>2, <1>3, ReturnedBook
  <1>6. ASSUME NEW p \in Products
        PROVE  /\ remaining_quantity(rows[p]) = remaining_quantity(item[r][p]) - Resolved(res, p)
               /\ remaining_quantity(item[r][p]) \in Nat /\ Resolved(res, p) \in Nat
    BY <1>2, ResolvedRemain
  <1> HIDE DEF res, rows
  <1>7. status'[r] \notin OpenStatus /\ status'[r] # "accepted"
    <2>1. \A p \in Products : remaining_quantity(rows[p]) = 0
      BY <1>1, <1>6
    <2> QED
      BY <1>1, <2>1 DEF finalize_return_status, OpenStatus
  <1>8. ASSUME NEW p \in Products
        PROVE  /\ product'[p]["reserved"] =
                     product[p]["reserved"] - Promised(r, p) + Promised(r, p)'
               /\ product'[p]["issued"] =
                     product[p]["issued"] - Outstanding(r, p) + Outstanding(r, p)'
               /\ mode[p] = "individual" => UnitBook(product'[p], asset', p)
    <2>1. /\ Promised(r, p) = 0 /\ Promised(r, p)' = 0
          /\ Outstanding(r, p) = Resolved(res, p) /\ Outstanding(r, p)' = 0
      BY <1>1, <1>4, <1>7 DEF Promised, Outstanding, OpenStatus
    <2>2. /\ product[p]["reserved"] \in Nat /\ product[p]["issued"] \in Nat
          /\ Resolved(res, p) \in Nat
      BY <1>6, RowNat
    <2> QED
      BY <1>5, <2>1, <2>2
  <1> QED
    BY <1>1, <1>8, BookStep

\* And so does a public one, with every unit it scanned.
LEMMA ReturnToolBooks ==
    ASSUME Inv, Inv', Custodian, Papers, Keeping, Books, NEW r \in Requests, NEW e,
           NEW report_problem, return_tool(r, e, report_problem), \A x \in Requests \ {r} : Spared(x)
    PROVE  Books'
  <1> DEFINE q == Column(r, "issued")
             L == LoanAssets(r)
  <1>1. /\ loan_status[r] = "checked_out" /\ UNCHANGED <<mode, consumable>>
        /\ status'[r] = "returned"
        /\ require_public_return_ledger(r)
        /\ \A p \in Products : product[p]["issued"] >= q[p]
        /\ product' = [p \in Products |-> Shift(product[p], "issued", "available", q[p])]
        /\ asset' = [a \in Assets |-> IF a \in L THEN "available" ELSE asset[a]]
    BY DEF return_tool, return_to_available, CloseLoan, Inv, RequestRows
  <1>2. /\ status[r] = "issued" /\ Custody(r) = L
        /\ \A a \in L : asset[a] = "issued"
    BY <1>1, LoanCustody
  <1>3. ASSUME NEW p \in Products
        PROVE  q[p] \in Nat /\ Outstanding(r, p) = q[p]
    <2>1. /\ item[r][p] \in [Counters -> Nat] /\ q[p] = item[r][p]["issued"]
          /\ remaining_quantity(item[r][p]) >= 0
          /\ item[r][p]["issued"] + item[r][p]["needs_fix"] <= item[r][p]["accepted"]
          /\ item[r][p]["accepted"] <= item[r][p]["requested"]
      BY DEF Inv, RequestRows, ItemLedger, Column
    <2>2. /\ item[r][p]["returned"] = 0 /\ item[r][p]["damaged"] = 0 /\ item[r][p]["missing"] = 0
      <3>1. CASE p \in Lines(r)
        BY <1>1, <3>1 DEF require_public_return_ledger, Outcomes
      <3>2. CASE p \notin Lines(r)
        <4>1. \A c \in Counters : item[r][p][c] \in Nat
          BY <2>1
        <4>2. item[r][p]["requested"] = 0 /\ item[r][p]["issued"] = 0
          BY <2>1, <3>2, <4>1 DEF Lines, Counters
        <4> DEFINE a == item[r][p]["returned"]
                   b == item[r][p]["damaged"]
                   c == item[r][p]["missing"]
        <4>3. a \in Nat /\ b \in Nat /\ c \in Nat
          BY <4>1 DEF Counters
        <4>4. 0 - (a + b + c) >= 0
          BY <2>1, <4>2 DEF remaining_quantity
        <4> HIDE DEF a, b, c
        <4>5. a = 0 /\ b = 0 /\ c = 0
          BY <4>3, <4>4
        <4> QED
          BY <4>5 DEF a, b, c
      <3> QED
        BY <3>1, <3>2
    <2>3. item[r][p]["issued"] \in Nat
      BY <2>1 DEF Counters
    <2>4. remaining_quantity(item[r][p]) = q[p]
      BY <2>1, <2>2, <2>3 DEF remaining_quantity
    <2> QED
      BY <1>2, <2>1, <2>3, <2>4 DEF Outstanding, OpenStatus
  <1> HIDE DEF q
  <1>4. ASSUME NEW p \in Products
        PROVE  /\ product'[p]["reserved"] =
                     product[p]["reserved"] - Promised(r, p) + Promised(r, p)'
               /\ product'[p]["issued"] =
                     product[p]["issued"] - Outstanding(r, p) + Outstanding(r, p)'
               /\ mode[p] = "individual" => UnitBook(product'[p], asset', p)
    <2>1. /\ Promised(r, p) = 0 /\ Promised(r, p)' = 0 /\ Outstanding(r, p)' = 0
      BY <1>1, <1>2 DEF Promised, Outstanding, OpenStatus
    <2>2. /\ product[p] \in Rows /\ product[p]["reserved"] \in Nat /\ product[p]["issued"] \in Nat
          /\ q[p] \in Nat /\ Outstanding(r, p) = q[p]
      BY <1>3, RowNat
    <2>3. /\ product'[p]["reserved"] = product[p]["reserved"]
          /\ product'[p]["issued"] = product[p]["issued"] - q[p]
      BY <1>1, <2>2, ShiftFields DEF Buckets, QuantityFields
    <2>4. mode[p] = "individual" => UnitBook(product'[p], asset', p)
      <3> SUFFICES ASSUME mode[p] = "individual"
                   PROVE  UnitBook(product'[p], asset', p)
        OBVIOUS
      <3>1. Moving(p, asset, asset', L, "issued", "available")
        BY <1>1, <1>2 DEF Moving, AssetsOf
      <3>2. UnitBook(product[p], asset, p)
        BY DEF Books, Book
      <3>3. Cardinality(L \cap AssetsOf(p)) = q[p]
        BY <1>2, <2>2 DEF Keeping, CustodyCounted
      <3>4. /\ "available" \in UnitStatus /\ "issued" \in UnitStatus
            /\ ASSET_QUANTITY_BUCKETS["available"] = "available"
            /\ ASSET_QUANTITY_BUCKETS["issued"] = "issued"
        BY BucketOf DEF UnitStatus
      <3>5. product[p]["issued"] >= Cardinality(L \cap AssetsOf(p))
        BY <1>1, <3>3
      <3> HIDE DEF L
      <3>6. UnitBook(Shift(product[p], "issued", "available", Cardinality(L \cap AssetsOf(p))),
                     asset', p)
        BY <2>2, <3>1, <3>2, <3>4, <3>5, MovedBook
      <3> QED
        BY <1>1, <3>3, <3>6
    <2> QED
      BY <2>1, <2>2, <2>3, <2>4
  <1> QED
    BY <1>1, <1>4, BookStep
\* Triage moves q units of each product out of the available bucket, counted
\* anew from the units of an individual one.
LEMMA TriageBooks ==
    ASSUME Inv, Keeping, Books, NEW r \in Requests, NEW outcome \in TriageOutcomes,
           NEW q \in Counts, NEW moved, _move_stock(r, outcome, q, moved),
           UNCHANGED <<status, item, mode, consumable>>
    PROVE  Books'
  <1> DEFINE target == ASSET_STATUS_OUTCOMES[outcome]
             bucket == ASSET_QUANTITY_BUCKETS[target]
             row(p) == reconcile_individual_product_from_assets(p, asset)
             moves(p) == Shift(row(p), "available", bucket, q[p])
  <1>1. target \in UnitStatus \ {"available", "issued"}
    BY DEF TriageOutcomes, ASSET_STATUS_OUTCOMES, UnitStatus
  <1>2. bucket \in Buckets \ {"available", "reserved", "issued"}
    BY <1>1, BucketOf DEF UnitStatus
  <1>3. /\ moved \subseteq {a \in LoanAssets(r) : asset[a] = "available"}
        /\ asset' = [a \in Assets |-> IF a \in moved THEN target ELSE asset[a]]
        /\ product' = [p \in Products |-> IF q[p] = 0 THEN product[p] ELSE Recount(moves(p))]
        /\ \A p \in Products :
              /\ Cardinality(moved \cap AssetsOf(p)) = (IF mode[p] = "individual" THEN q[p] ELSE 0)
              /\ q[p] > 0 => Reconcilable(p, asset) /\ row(p)["available"] >= q[p]
    BY DEF _move_stock
  <1> HIDE DEF target, bucket, row
  <1>4. ASSUME NEW p \in Products, q[p] # 0
        PROVE  /\ row(p) \in Rows
               /\ row(p)["reserved"] = product[p]["reserved"]
               /\ row(p)["issued"] = product[p]["issued"]
               /\ mode[p] = "individual" => UnitBook(row(p), asset, p)
               /\ row(p)["available"] >= q[p] /\ q[p] \in Nat
    <2>1. q[p] \in Nat /\ q[p] > 0
      BY <1>4 DEF Counts
    <2>2. Reconcilable(p, asset) /\ row(p)["available"] >= q[p]
      BY <1>3, <2>1
    <2>3. CASE mode[p] # "individual"
      <3>1. row(p) = product[p]
        BY <2>3 DEF row, reconcile_individual_product_from_assets
      <3> QED
        BY <2>1, <2>2, <2>3, <3>1, RowNat
    <2>4. CASE mode[p] = "individual"
      <3>1. Units(asset, p, "reserved") = 0
        BY NoneReserved DEF AssetsOf, Keeping, Unmarked
      <3>2. row(p) \in Rows /\ UnitBook(row(p), asset, p)
            /\ row(p)["reserved"] = product[p]["reserved"]
        BY <2>2, <2>4, <3>1, ReconciledRow DEF row
      <3>3. row(p)["issued"] = product[p]["issued"]
        BY <2>4, <3>2 DEF Books, Book, UnitBook
      <3> QED
        BY <2>1, <2>2, <3>2, <3>3
    <2> QED
      BY <2>3, <2>4
  <1>5. ASSUME NEW p \in Products, q[p] # 0
        PROVE  /\ moves(p) \in Rows
               /\ moves(p)["reserved"] = product[p]["reserved"]
               /\ moves(p)["issued"] = product[p]["issued"]
               /\ mode[p] = "individual" => UnitBook(moves(p), asset', p)
    <2>1. /\ row(p) \in Rows
          /\ row(p)["reserved"] = product[p]["reserved"]
          /\ row(p)["issued"] = product[p]["issued"]
          /\ row(p)["available"] >= q[p] /\ q[p] \in Nat
          /\ mode[p] = "individual" => UnitBook(row(p), asset, p)
      BY <1>4, <1>5
    <2>2. "available" \in Buckets /\ bucket \in Buckets /\ "available" # bucket
      BY <1>2 DEF Buckets
    <2>3. moves(p) \in Rows
      BY <2>1, <2>2, ShiftRow
    <2>4. moves(p)["reserved"] = row(p)["reserved"] /\ moves(p)["issued"] = row(p)["issued"]
      BY <1>2, <2>1, <2>2, ShiftFields DEF QuantityFields, Buckets
    <2>5. ASSUME mode[p] = "individual"
          PROVE  UnitBook(moves(p), asset', p)
      <3> DEFINE k == Cardinality(moved \cap AssetsOf(p))
                 from == ASSET_QUANTITY_BUCKETS["available"]
                 to == ASSET_QUANTITY_BUCKETS[target]
      <3>1. Moving(p, asset, asset', moved, "available", target)
        BY <1>1, <1>3 DEF Moving, AssetsOf
      <3>2. k = q[p]
        BY <1>3, <2>5
      <3>3. "available" \in UnitStatus /\ target \in UnitStatus /\ from = "available"
        BY <1>1, BucketOf DEF UnitStatus
      <3>4. row(p)[from] >= k
        BY <2>1, <3>2, <3>3
      <3>5. UnitBook(row(p), asset, p)
        BY <2>1, <2>5
      <3>6. UnitBook(Shift(row(p), from, to, k), asset', p)
        BY <2>1, <3>1, <3>3, <3>4, <3>5, MovedBook
      <3>7. to = bucket
        BY DEF bucket
      <3> HIDE DEF from, to, k
      <3> QED
        BY <3>2, <3>3, <3>6, <3>7
    <2> QED
      BY <2>1, <2>3, <2>4, <2>5
  <1> HIDE DEF moves
  <1>6. ASSUME NEW p \in Products
        PROVE  /\ product'[p]["reserved"] = product[p]["reserved"]
               /\ product'[p]["issued"] = product[p]["issued"]
               /\ mode'[p] = "individual" => UnitBook(product'[p], asset', p)
    <2>1. CASE q[p] = 0
      <3>1. product'[p] = product[p]
        BY <1>3, <2>1
      <3>2. ASSUME mode[p] = "individual"
            PROVE  UnitBook(product[p], asset', p)
        <4>1. Cardinality(moved \cap AssetsOf(p)) = 0
          BY <1>3, <2>1, <3>2
        <4>2. moved \cap AssetsOf(p) = {}
          BY <4>1, FewUnits, FS_EmptySet
        <4>3. \A a \in AssetsOf(p) : asset'[a] = asset[a]
          BY <1>3, <4>2 DEF AssetsOf
        <4>4. UnitBook(product[p], asset, p)
          BY <3>2 DEF Books, Book
        <4> QED
          BY <4>3, <4>4, BookElsewhere
      <3> QED
        BY <3>1, <3>2
    <2>2. CASE q[p] # 0
      <3>1. product'[p] = Recount(moves(p))
        BY <1>3, <2>2
      <3>2. /\ moves(p) \in Rows
            /\ moves(p)["reserved"] = product[p]["reserved"]
            /\ moves(p)["issued"] = product[p]["issued"]
            /\ mode[p] = "individual" => UnitBook(moves(p), asset', p)
        BY <1>5, <2>2
      <3>3. /\ \A b \in Buckets : Recount(moves(p))[b] = moves(p)[b]
            /\ Recount(moves(p))["total"] = Held(Recount(moves(p)))
        BY <3>2, RecountFields
      <3> QED
        BY <3>1, <3>2, <3>3 DEF UnitBook, Buckets
    <2> QED
      BY <2>1, <2>2
  <1> QED
    BY <1>6, BookKept DEF Books

\* So every return and triage keeps the books.
LEMMA ReturnBooks ==
    ASSUME Inv, Inv', Custodian, Papers, Keeping, Books, NEW r \in Requests, ReturnNext(r)
    PROVE  Books'
  <1>1. \A x \in Requests \ {r} : Spared(x)
    BY OthersSpared
  <1>2. ASSUME NEW outcome \in TriageOutcomes \cup {"no_issue"}, NEW q \in Quantities, NEW moved,
               triage_problem_report(r, outcome, q, moved)
        PROVE  Books'
    <2>1. UNCHANGED <<status, item, mode, consumable>>
      BY <1>2 DEF triage_problem_report, requestVars
    <2>2. CASE outcome = "no_issue"
      <3>1. UNCHANGED <<product, asset>>
        BY <1>2, <2>2 DEF triage_problem_report
      <3> QED
        BY <2>1, <3>1, BookKept DEF Books, Book
    <2>3. CASE outcome \in TriageOutcomes
      <3>1. _move_stock(r, outcome, q, moved)
        BY <1>2, <2>3 DEF triage_problem_report, TriageOutcomes
      <3> QED
        BY <2>1, <2>3, <3>1, QuantitiesCounts, TriageBooks
    <2> QED
      BY <2>2, <2>3
  <1>3. CASE \E e \in ReturnPhotos, out \in [Assets -> Outcomes \cup {"issued"}],
                given \in [{p \in Products : mode[p] = "quantity"} -> [Outcomes -> 0 .. MaxQty]] :
                return_request(r, e, given, out) \/ return_direct_loan(r, e, given, out)
    BY <1>1, <1>3, ReturnRequestBooks, ReturnDirectBooks
  <1>4. ASSUME NEW e, NEW report_problem, return_tool(r, e, report_problem)
        PROVE  Books'
    BY <1>1, <1>4, ReturnToolBooks
  <1> QED
    BY <1>2, <1>3, <1>4 DEF ReturnNext

\* And every step at all.
LEMMA NextBooks ==
    Inv /\ Inv' /\ Custodian /\ Papers /\ Keeping /\ Books /\ [Next]_vars => Books'
  <1> SUFFICES ASSUME Inv, Inv', Custodian, Papers, Keeping, Books, [Next]_vars
               PROVE  Books'
    OBVIOUS
  <1>1. CASE UNCHANGED vars
    <2>1. UNCHANGED <<status, item, mode, product, asset, consumable>>
      BY <1>1 DEF vars, inventoryVars, requestVars
    <2> QED
      BY <2>1, BookKept DEF Books, Book
  <1> QED
    BY <1>1, StaffBooks, ReviewBooks, HandoutBooks, ReturnBooks DEF Next

\* The empty sum is zero, and a created row reserves and issues nothing.
LEMMA InitBooks == Init => Books
  <1> SUFFICES ASSUME Init, NEW p \in Products
               PROVE  Book(p)
    BY DEF Books, Init, InventoryInit
  <1>1. PICK total, available \in [Products -> 0 .. MaxStock] :
           /\ \A x \in Products : available[x] <= total[x]
           /\ \A x \in Individual : total[x] = 0
           /\ product = [x \in Products |-> CreatedRow(total[x], available[x])]
    BY Zenon DEF Init, InventoryInit
  <1>2. /\ product[p]["available"] = available[p] /\ product[p]["total"] = total[p]
        /\ product[p]["reserved"] = 0 /\ product[p]["issued"] = 0 /\ product[p]["damaged"] = 0
        /\ product[p]["lost"] = 0 /\ product[p]["needs_fix"] = 0
    BY <1>1 DEF CreatedRow, QuantityFields, Buckets
  <1>3. Demand[p] = 0 /\ Owed(p) = 0
    <2>1. /\ {s \in Requests : status[s] = "accepted"} = {}
          /\ {s \in Requests : status[s] \in OpenStatus} = {}
      BY DEF Init, OpenStatus
    <2>2. \A f : DOMAIN f = {} => SumFunction(f) = 0
      BY SumZero, FS_EmptySet
    <2> QED
      BY <2>1, <2>2 DEF Demand, Owed
  <1>4. ASSUME mode[p] = "individual"
        PROVE  UnitBook(product[p], asset, p)
    <2>1. p \in Individual
      BY <1>4 DEF Init, InventoryInit
    <2>2. total[p] = 0 /\ available[p] = 0
      BY <1>1, <2>1
    <2>3. \A s \in UnitStatus : Units(asset, p, s) = 0
      <3> SUFFICES ASSUME NEW s \in UnitStatus
                   PROVE  Units(asset, p, s) = 0
        OBVIOUS
      <3>1. {a \in AssetsOf(p) : asset[a] = s} = {}
        BY DEF Init, InventoryInit, AssetsOf, UnitStatus
      <3> QED
        BY <3>1, FS_EmptySet DEF Units
    <2> QED
      BY <1>2, <2>2, <2>3 DEF UnitBook, UnitStatus, Held
  <1> QED
    BY <1>2, <1>3, <1>4 DEF Book

\* The inductive invariant of the lending ledger, in every reachable state.
Bookkeeping == Inv /\ Custodian /\ Papers /\ Keeping /\ Books

LEMMA BookkeepingAlways == Spec => []Bookkeeping
  BY InitInv, NextInv, InitCustody, NextCustody, InitPapers, NextPapers, InitKeeping, NextKeeping,
     InitBooks, NextBooks, PTL DEF Spec, Bookkeeping

\* What the reserved and issued buckets of a product say is exactly what the
\* accepted requests are promised and the open ones still have out, whatever
\* reviews, handouts, partial returns, triage, staff corrections and unit
\* reconciliations interleave, for any number of requests, units and products.
THEOREM LedgersAlwaysAgree == Spec => []Ledgers
  <1>1. Bookkeeping => Ledgers
    <2> SUFFICES ASSUME Bookkeeping, NEW p \in Products
                 PROVE  /\ product[p]["reserved"] = Demand[p] + Units(asset, p, "reserved")
                        /\ product[p]["issued"] = Owed(p)
      BY DEF Ledgers, ReservationLedger, IssuedLedger, Owed
    <2>1. Units(asset, p, "reserved") = 0
      BY NoneReserved DEF Bookkeeping, Keeping, Unmarked, AssetsOf
    <2>2. product[p]["reserved"] = Demand[p] /\ product[p]["issued"] = Owed(p)
      BY DEF Bookkeeping, Books, Book
    <2>3. product[p]["reserved"] \in Nat
      BY RowNat DEF Bookkeeping
    <2> QED
      BY <2>1, <2>2, <2>3
  <1> QED
    BY <1>1, BookkeepingAlways, PTL

-----------------------------------------------------------------------------
(* What the books are good for.  Products that have units are not linked   *)
(* to a machine here: log_consumption takes from a linked product's bucket *)
(* without touching its units, which is what run Consumption shows.        *)

UnitsNotConsumed == \A a \in Assets : ProductOf[a] \notin Consumables

\* What the books say of a product then.
LEMMA BookRead ==
    ASSUME UnitsNotConsumed, Bookkeeping, NEW p \in Products
    PROVE  /\ Units(asset, p, "reserved") = 0
           /\ product[p]["reserved"] = Demand[p] /\ product[p]["issued"] = Owed(p)
           /\ mode[p] = "individual" =>
                 /\ UnitBook(product[p], asset, p)
                 /\ product[p]["available"] + product[p]["reserved"] = Units(asset, p, "available")
  <1>1. Units(asset, p, "reserved") = 0
    BY NoneReserved DEF Bookkeeping, Keeping, Unmarked, AssetsOf
  <1>2. ShelfSafe(p)
    BY DEF UnitsNotConsumed, ShelfSafe, AssetsOf
  <1> QED
    BY <1>1, <1>2 DEF Bookkeeping, Books, Book, UnitBook

\* The buckets of a product tracked unit by unit are the counts of its units,
\* reservations carved out of the AVAILABLE ones, and no product's buckets
\* exceed its total, for any mix of requests, loans, triage, unit repairs,
\* conversions, rebinding and staff corrections.
THEOREM BooksAlwaysAgree ==
    ASSUME UnitsNotConsumed
    PROVE  Spec => []BooksAgree
  <1>1. Bookkeeping => BooksAgree
    <2> SUFFICES ASSUME Bookkeeping
                 PROVE  IndividualStock /\ StockConserved
      BY DEF BooksAgree
    <2>1. StockConserved
      BY DEF Bookkeeping, Inv, Stock, Ledger, SoundRows, StockConserved
    <2>2. ASSUME NEW p \in Products, mode[p] = "individual"
          PROVE  /\ product[p]["available"] + product[p]["reserved"] =
                       Units(asset, p, "available") + Units(asset, p, "reserved")
                 /\ \A s \in {"issued", "damaged", "lost", "maintenance"} :
                       product[p][ASSET_QUANTITY_BUCKETS[s]] = Units(asset, p, s)
                 /\ product[p]["total"] = Held(product[p])
      <3>1. /\ Units(asset, p, "reserved") = 0 /\ UnitBook(product[p], asset, p)
            /\ product[p]["available"] + product[p]["reserved"] = Units(asset, p, "available")
        BY <2>2, BookRead
      <3>2. Units(asset, p, "available") \in Nat
        BY UnitsNat
      <3>3. product[p]["available"] + product[p]["reserved"] =
               Units(asset, p, "available") + Units(asset, p, "reserved")
        BY <3>1, <3>2
      <3>4. \A s \in {"issued", "damaged", "lost", "maintenance"} :
               product[p][ASSET_QUANTITY_BUCKETS[s]] = Units(asset, p, s)
        BY <3>1, BucketOf DEF UnitBook
      <3> QED
        BY <3>1, <3>3, <3>4 DEF UnitBook
    <2> QED
      BY <2>1, <2>2 DEF IndividualStock
  <1> QED
    BY <1>1, BookkeepingAlways, PTL

\* One request's share is part of the demand, and of what is owed.
LEMMA ShareWithin ==
    ASSUME Inv, NEW r \in Requests, NEW p \in Products
    PROVE  /\ status[r] = "accepted" => item[r][p]["accepted"] <= Demand[p]
           /\ status[r] \in OpenStatus => remaining_quantity(item[r][p]) <= Owed(p)
  <1> DEFINE D == {s \in Requests : status[s] = "accepted"}
             E == {s \in Requests : status[s] \in OpenStatus}
             f == [x \in D |-> item[x][p]["accepted"]]
             g == [x \in E |-> remaining_quantity(item[x][p])]
  <1>1. IsFiniteSet(D) /\ IsFiniteSet(E)
    BY FS_Subset
  <1>2. \A x \in Requests : /\ item[x][p]["accepted"] \in Nat
                            /\ remaining_quantity(item[x][p]) \in Nat
    BY DEF Inv, RequestRows, Counters, ItemLedger, remaining_quantity
  <1>3. f \in [D -> Nat] /\ g \in [E -> Nat]
    BY <1>2
  <1>4. Demand[p] = SumFunction(f) /\ Owed(p) = SumFunction(g)
    BY DEF Demand, Owed
  <1>5. /\ r \in D => f[r] = item[r][p]["accepted"]
        /\ r \in E => g[r] = remaining_quantity(item[r][p])
    OBVIOUS
  <1>6. (status[r] = "accepted" => r \in D) /\ (status[r] \in OpenStatus => r \in E)
    OBVIOUS
  <1> HIDE DEF D, E, f, g
  <1> QED
    BY <1>1, <1>3, <1>4, <1>5, <1>6, SumBounds

\* An accepted request passes every check of its cancellation.
LEMMA Cancellable ==
    ASSUME UnitsNotConsumed, Bookkeeping, NEW r \in Requests, status[r] = "accepted"
    PROVE  /\ _assert_wholly_unissued(r)
           /\ ReservationAttributable(Lines(r), Column(r, "accepted"), Demand)
  <1> DEFINE q == Column(r, "accepted")
  <1>1. _assert_wholly_unissued(r)
    BY DEF Bookkeeping, Papers, Paper, Uncollected, Inv, Untouched, _assert_wholly_unissued
  <1>2. \E p \in Lines(r) : q[p] > 0
    <2>1. PICK p \in Products : item[r][p]["accepted"] > 0
      BY DEF Bookkeeping, Papers, Paper
    <2>2. /\ item[r][p]["accepted"] <= item[r][p]["requested"]
          /\ item[r][p]["accepted"] \in Nat /\ item[r][p]["requested"] \in Nat
      BY DEF Bookkeeping, Inv, RequestRows, ItemLedger, Counters
    <2>3. p \in Lines(r) /\ q[p] > 0
      BY <2>1, <2>2 DEF Lines, Column
    <2> HIDE DEF q
    <2> QED
      BY <2>3
  <1>3. ASSUME NEW p \in Lines(r)
        PROVE  /\ mode[p] = "quantity" => \A a \in AssetsOf(p) : asset[a] = "absent"
               /\ mode[p] = "individual" =>
                     product[p]["available"] = Units(asset, p, "available") - Demand[p]
               /\ product[p]["reserved"] = Demand[p] + Units(asset, p, "reserved")
               /\ Demand[p] \in q[p] .. product[p]["reserved"]
    <2>1. p \in Products
      BY DEF Lines
    <2>2. mode[p] = "quantity" => \A a \in AssetsOf(p) : asset[a] = "absent"
      BY DEF Bookkeeping, Keeping, UnitsTracked, AssetsOf
    <2>3. /\ Units(asset, p, "reserved") = 0 /\ product[p]["reserved"] = Demand[p]
          /\ mode[p] = "individual" =>
                product[p]["available"] + product[p]["reserved"] = Units(asset, p, "available")
      BY <2>1, BookRead
    <2>4. product[p]["available"] \in Nat /\ product[p]["reserved"] \in Nat
      BY <2>1, RowNat DEF Bookkeeping
    <2>5. q[p] = item[r][p]["accepted"] /\ q[p] \in Nat
      BY <2>1 DEF Column, Bookkeeping, Inv, RequestRows, Counters
    <2>6. q[p] <= Demand[p]
      BY <2>1, <2>5, ShareWithin DEF Bookkeeping
    <2>7. Units(asset, p, "available") \in Nat
      BY UnitsNat
    <2> HIDE DEF q
    <2>8. mode[p] = "individual" =>
             product[p]["available"] = Units(asset, p, "available") - Demand[p]
      BY <2>3, <2>4, <2>7
    <2>9. /\ product[p]["reserved"] = Demand[p] + Units(asset, p, "reserved")
          /\ Demand[p] \in q[p] .. product[p]["reserved"]
      BY <2>3, <2>4, <2>5, <2>6
    <2> QED
      BY <2>2, <2>8, <2>9
  <1> QED
    BY <1>1, <1>2, <1>3 DEF ReservationAttributable

\* An open loan passes every check of its return.
LEMMA Returnable ==
    ASSUME Bookkeeping, NEW r \in Requests, loan_status[r] = "checked_out"
    PROVE  /\ status[r] = "issued"
           /\ loan_source[r] = "public_self_checkout" =>
                 require_public_return_ledger(r) /\ lock_loan_assets_for_return(r)
           /\ \A p \in Products :
                 /\ product[p]["issued"] >= remaining_quantity(item[r][p])
                 /\ mode[p] = "individual" => remaining_quantity(item[r][p]) =
                       Cardinality({a \in LoanAssets(r) \cap AssetsOf(p) : asset[a] = "issued"})
  <1>1. /\ status[r] = "issued" /\ Custody(r) = LoanAssets(r)
        /\ \A a \in LoanAssets(r) : asset[a] = "issued"
    BY LoanCustody DEF Bookkeeping
  <1>2. loan_source[r] = "public_self_checkout" =>
           require_public_return_ledger(r) /\ lock_loan_assets_for_return(r)
    BY <1>1 DEF Bookkeeping, Papers, Paper, lock_loan_assets_for_return
  <1>3. ASSUME NEW p \in Products
        PROVE  /\ product[p]["issued"] >= remaining_quantity(item[r][p])
               /\ mode[p] = "individual" => remaining_quantity(item[r][p]) =
                     Cardinality({a \in LoanAssets(r) \cap AssetsOf(p) : asset[a] = "issued"})
    <2>1. remaining_quantity(item[r][p]) <= Owed(p)
      BY <1>1, ShareWithin DEF Bookkeeping, OpenStatus
    <2>2. product[p]["issued"] = Owed(p) /\ product[p]["issued"] \in Nat
      BY RowNat DEF Bookkeeping, Books, Book
    <2>3. remaining_quantity(item[r][p]) \in Nat
      BY DEF Bookkeeping, Inv, RequestRows, Counters, ItemLedger, remaining_quantity
    <2>4. product[p]["issued"] >= remaining_quantity(item[r][p])
      BY <2>1, <2>2, <2>3
    <2>5. {a \in LoanAssets(r) \cap AssetsOf(p) : asset[a] = "issued"} = Custody(r) \cap AssetsOf(p)
      BY <1>1
    <2>6. mode[p] = "individual" =>
             Cardinality(Custody(r) \cap AssetsOf(p)) = remaining_quantity(item[r][p])
      BY <1>1 DEF Bookkeeping, Keeping, CustodyCounted, Outstanding, OpenStatus
    <2> QED
      BY <2>4, <2>5, <2>6
  <1> QED
    BY <1>1, <1>2, <1>3

\* Nothing gets stuck, whatever borrowers, triage and staff do in between: an
\* accepted request passes every check of release_request_reservation, an
\* issued one has a unit left to return, and a loan passes every check of its
\* return.
THEOREM NothingEverStuck ==
    ASSUME UnitsNotConsumed
    PROVE  Spec => []NothingStuck
  <1>1. Bookkeeping => NothingStuck
    <2> SUFFICES ASSUME Bookkeeping
                 PROVE  CancellationNeverRefused /\ OutstandingUnit /\ LoanReturnable
      BY DEF NothingStuck
    <2>1. CancellationNeverRefused
      BY Cancellable DEF CancellationNeverRefused
    <2>2. OutstandingUnit
      BY DEF Bookkeeping, Papers, Paper, OutstandingUnit
    <2>3. LoanReturnable
      BY Returnable DEF LoanReturnable
    <2> QED
      BY <2>1, <2>2, <2>3
  <1> QED
    BY <1>1, BookkeepingAlways, PTL

-----------------------------------------------------------------------------
(* Lending loses no stock.                                                 *)

\* The step takes what request r scraps and nothing else.
Conserved(r) == \A p \in Products : Held(product'[p]) = Held(product[p]) - Scrapped(r, p)

\* Nothing is scrapped but at the counter.
LEMMA ConservedKept ==
    ASSUME Inv, NEW r \in Requests, status[r] # "accepted" \/ status'[r] # "issued",
           \A p \in Products : Held(product'[p]) = Held(product[p])
    PROVE  Conserved(r)
  <1> SUFFICES ASSUME NEW p \in Products
               PROVE  Held(product'[p]) = Held(product[p]) - Scrapped(r, p)
    BY DEF Conserved
  <1>1. Scrapped(r, p) = 0
    BY DEF Scrapped
  <1>2. Held(product[p]) \in Nat
    BY RowNat, HeldNat
  <1> QED
    BY <1>1, <1>2

\* A shift of what a bucket has conserves.
LEMMA ShiftConserves ==
    ASSUME Inv, NEW q \in Counts, NEW from \in Buckets, NEW to \in Buckets, from # to,
           \A p \in Products : q[p] = 0 \/ product[p][from] >= q[p],
           product' = [p \in Products |-> Shift(product[p], from, to, q[p])]
    PROVE  \A p \in Products : Held(product'[p]) = Held(product[p])
  <1> SUFFICES ASSUME NEW p \in Products
               PROVE  Held(product'[p]) = Held(product[p])
    OBVIOUS
  <1>1. product[p] \in Rows /\ product[p][from] \in Nat /\ q[p] \in Nat
    BY RowNat, ZenonT(60) DEF Counts, Rows, QuantityFields
  <1>2. product[p][from] >= q[p]
    BY <1>1
  <1> QED
    BY <1>1, <1>2, ShiftRow

\* Issuing takes what is scrapped.
LEMMA IssueConserves ==
    ASSUME Inv, NEW r \in Requests, NEW e, NEW scanned, NEW fix \in Counts, NEW scrap \in Counts,
           issue_request(r, e, scanned, fix, scrap)
    PROVE  Conserved(r)
  <1> SUFFICES ASSUME NEW p \in Products
               PROVE  Held(product'[p]) = Held(product[p]) - Scrapped(r, p)
    BY DEF Conserved
  <1> DEFINE row == product[p]
             q == item[r][p]["accepted"]
             f == fix[p]
             s == scrap[p]
  <1>1. /\ row["available"] \in Nat /\ row["reserved"] \in Nat /\ row["issued"] \in Nat
        /\ row["damaged"] \in Nat /\ row["lost"] \in Nat /\ row["needs_fix"] \in Nat
        /\ q \in Nat /\ f \in Nat /\ s \in Nat
    BY RowNat DEF Counts, Inv, RequestRows, Counters
  <1>2. /\ product'[p]["reserved"] = row["reserved"] - q
        /\ product'[p]["issued"] = row["issued"] + (q - f - s)
        /\ product'[p]["needs_fix"] = row["needs_fix"] + f
        /\ product'[p]["available"] = row["available"]
        /\ product'[p]["damaged"] = row["damaged"] /\ product'[p]["lost"] = row["lost"]
    <2>1. product[p] \in Rows
      BY RowNat
    <2>2. product' = [x \in Products |->
             [product[x] EXCEPT !["reserved"]  = @ - Column(r, "accepted")[x],
                                !["issued"]    = @ + (Column(r, "accepted")[x] - fix[x] - scrap[x]),
                                !["needs_fix"] = @ + fix[x],
                                !["total"]     = @ - scrap[x]]]
      BY DEF issue_request, issue_items
    <2>3. Column(r, "accepted")[p] = q
      BY DEF Column
    <2> QED
      BY <2>1, <2>2, <2>3 DEF Rows, QuantityFields, Buckets
  <1>3. Scrapped(r, p) = q - (q - f - s) - f
    <2>1. /\ status[r] = "accepted" /\ status'[r] = "issued"
          /\ item'[r][p]["accepted"] = q /\ item'[r][p]["issued"] = q - f - s
          /\ item'[r][p]["needs_fix"] = f
      BY DEF issue_request, Inv, RequestRows, Counters, Column
    <2> QED
      BY <2>1 DEF Scrapped
  <1> HIDE DEF row, q, f, s
  <1>4. Held(product'[p]) = Held(row) - s
    BY <1>1, <1>2 DEF Held
  <1>5. Held(row) \in Nat
    BY <1>1 DEF Held
  <1> QED
    BY <1>1, <1>3, <1>4, <1>5 DEF row

\* A return puts each unit into one bucket.
LEMMA ReturnConserves ==
    ASSUME Inv, NEW res \in [Products -> [Outcomes -> Nat]], return_items(res)
    PROVE  \A p \in Products : Held(product'[p]) = Held(product[p])
  <1> SUFFICES ASSUME NEW p \in Products
               PROVE  Held(product'[p]) = Held(product[p])
    OBVIOUS
  <1> DEFINE row == product[p]
  <1>1. /\ row \in Rows /\ row["available"] \in Nat /\ row["reserved"] \in Nat
        /\ row["issued"] \in Nat /\ row["damaged"] \in Nat /\ row["lost"] \in Nat
        /\ row["needs_fix"] \in Nat
    BY RowNat
  <1>2. /\ res[p]["returned"] \in Nat /\ res[p]["damaged"] \in Nat /\ res[p]["missing"] \in Nat
    BY DEF Outcomes
  <1>3. product' = [x \in Products |->
          [product[x] EXCEPT !["issued"]    = @ - Resolved(res, x),
                             !["available"] = @ + res[x]["returned"],
                             !["damaged"]   = @ + res[x]["damaged"],
                             !["lost"]      = @ + res[x]["missing"]]]
    BY DEF return_items
  <1>4. /\ product'[p]["issued"] = row["issued"] - Resolved(res, p)
        /\ product'[p]["available"] = row["available"] + res[p]["returned"]
        /\ product'[p]["damaged"] = row["damaged"] + res[p]["damaged"]
        /\ product'[p]["lost"] = row["lost"] + res[p]["missing"]
        /\ product'[p]["reserved"] = row["reserved"]
        /\ product'[p]["needs_fix"] = row["needs_fix"]
    BY <1>1, <1>3 DEF Rows, QuantityFields, Buckets
  <1>5. Resolved(res, p) = res[p]["returned"] + res[p]["damaged"] + res[p]["missing"]
    BY DEF Resolved
  <1> HIDE DEF row
  <1>6. Held(product'[p]) = Held(row)
    BY <1>1, <1>2, <1>4, <1>5 DEF Held
  <1> QED
    BY <1>6 DEF row

\* Reconciling a product with its units saves the stock its row has already.
LEMMA ReconciledHeld ==
    ASSUME UnitsNotConsumed, Bookkeeping, NEW p \in Products, Reconcilable(p, asset)
    PROVE  LET row == reconcile_individual_product_from_assets(p, asset)
           IN  row \in Rows /\ Held(row) = Held(product[p])
  <1> DEFINE row == reconcile_individual_product_from_assets(p, asset)
  <1>1. CASE mode[p] # "individual"
    <2>1. row = product[p]
      BY <1>1 DEF reconcile_individual_product_from_assets
    <2> QED
      BY <2>1, RowNat DEF Bookkeeping
  <1>2. CASE mode[p] = "individual"
    <2>1. /\ Units(asset, p, "reserved") = 0 /\ UnitBook(product[p], asset, p)
          /\ product[p]["available"] + product[p]["reserved"] = Units(asset, p, "available")
      BY <1>2, BookRead
    <2>2. /\ row \in Rows /\ UnitBook(row, asset, p)
          /\ row["reserved"] = product[p]["reserved"]
      BY <1>2, <2>1, ReconciledRow DEF Bookkeeping
    <2>3. row["available"] + row["reserved"] = Units(asset, p, "available")
      BY <2>2 DEF UnitBook, UnitsNotConsumed, ShelfSafe, AssetsOf
    <2> HIDE DEF row
    <2>4. /\ row["issued"] = product[p]["issued"] /\ row["damaged"] = product[p]["damaged"]
          /\ row["lost"] = product[p]["lost"] /\ row["needs_fix"] = product[p]["needs_fix"]
      BY <2>1, <2>2 DEF UnitBook
    <2>5. /\ product[p]["available"] \in Nat /\ product[p]["reserved"] \in Nat
          /\ row["available"] \in Nat
      BY <2>2, RowNat DEF Bookkeeping, Rows, QuantityFields, Buckets
    <2>6. row["available"] = product[p]["available"]
      BY <2>1, <2>2, <2>3, <2>5
    <2>7. Held(row) = Held(product[p])
      BY <2>2, <2>4, <2>6 DEF Held
    <2> QED
      BY <2>2, <2>7 DEF row
  <1> QED
    BY <1>1, <1>2

\* Triage moves stock from one bucket to another one.
LEMMA TriageConserves ==
    ASSUME UnitsNotConsumed, Bookkeeping, NEW r \in Requests, NEW outcome \in TriageOutcomes,
           NEW q \in Counts, NEW moved, _move_stock(r, outcome, q, moved)
    PROVE  \A p \in Products : Held(product'[p]) = Held(product[p])
  <1> SUFFICES ASSUME NEW p \in Products
               PROVE  Held(product'[p]) = Held(product[p])
    OBVIOUS
  <1> DEFINE bucket == ASSET_QUANTITY_BUCKETS[ASSET_STATUS_OUTCOMES[outcome]]
             row == reconcile_individual_product_from_assets(p, asset)
             moves == Shift(row, "available", bucket, q[p])
  <1>1. bucket \in Buckets \ {"available"}
    BY BucketOf DEF TriageOutcomes, ASSET_STATUS_OUTCOMES, Buckets
  <1>2. /\ product'[p] = IF q[p] = 0 THEN product[p] ELSE Recount(moves)
        /\ q[p] > 0 => Reconcilable(p, asset) /\ row["available"] >= q[p]
    BY DEF _move_stock
  <1> HIDE DEF bucket
  <1>3. CASE q[p] # 0
    <2>1. q[p] \in Nat /\ q[p] > 0
      BY <1>3 DEF Counts
    <2>2. row["available"] >= q[p] /\ row \in Rows /\ Held(row) = Held(product[p])
      BY <1>2, <2>1, ReconciledHeld
    <2>3. "available" \in Buckets
      BY DEF Buckets
    <2> HIDE DEF row
    <2>4. moves \in Rows /\ Held(moves) = Held(row)
      BY <1>1, <2>1, <2>2, <2>3, ShiftRow
    <2> HIDE DEF moves
    <2>5. Held(Recount(moves)) = Held(moves)
      BY <2>4, RecountFields
    <2> QED
      BY <1>2, <1>3, <2>2, <2>4, <2>5
  <1> QED
    BY <1>2, <1>3

\* The steps of the review.
LEMMA ReviewConserves ==
    ASSUME Bookkeeping, NEW r \in Requests, ReviewNext(r)
    PROVE  Conserved(r)
  <1>0. Inv
    BY DEF Bookkeeping
  <1>1. ASSUME UNCHANGED product, status[r] # "accepted" \/ status'[r] # "issued"
        PROVE  Conserved(r)
    BY <1>0, <1>1, ConservedKept
  <1>2. ASSUME NEW q, NEW key, submit_request(r, q, key)
        PROVE  Conserved(r)
    BY <1>1, <1>2 DEF submit_request, inventoryVars
  <1>3. ASSUME NEW q \in Quantities, accept_request(r, q)
        PROVE  Conserved(r)
    <2>1. /\ status[r] = "pending_approval"
          /\ product' = [p \in Products |-> Shift(product[p], "available", "reserved", q[p])]
          /\ \A p \in Products : q[p] > 0 => product[p]["available"] >= q[p]
      BY <1>3 DEF accept_request, reserve_for_request
    <2>2. q \in Counts /\ \A p \in Products : q[p] = 0 \/ product[p]["available"] >= q[p]
      BY <2>1, QuantitiesCounts DEF Counts
    <2>3. "available" \in Buckets /\ "reserved" \in Buckets /\ "available" # "reserved"
      BY DEF Buckets
    <2>4. \A p \in Products : Held(product'[p]) = Held(product[p])
      BY <1>0, <2>1, <2>2, <2>3, ShiftConserves
    <2> QED
      BY <1>0, <2>1, <2>4, ConservedKept
  <1>4. CASE reject_request(r)
    BY <1>1, <1>4 DEF reject_request, inventoryVars
  <1>5. CASE cancel_request(r)
    <2>1. /\ status'[r] = "cancelled"
          /\ product' = [p \in Products |->
                            Shift(product[p], "reserved", "available", Column(r, "accepted")[p])]
      BY <1>0, <1>5 DEF cancel_request, release_request_reservation, Inv, RequestRows
    <2>2. Column(r, "accepted") \in Counts
      <3>1. "accepted" \in Counters
        BY DEF Counters
      <3> QED
        BY <1>0, <3>1, ColumnCounts DEF Inv, RequestRows
    <2>3. ASSUME NEW p \in Products
          PROVE  product[p]["reserved"] >= Column(r, "accepted")[p]
      <3>1. status[r] = "accepted" /\ Column(r, "accepted")[p] = item[r][p]["accepted"]
        BY <1>5 DEF cancel_request, Column
      <3>2. item[r][p]["accepted"] <= Demand[p] /\ product[p]["reserved"] = Demand[p]
        BY <1>0, <3>1, ShareWithin DEF Bookkeeping, Books, Book
      <3>3. product[p]["reserved"] \in Nat /\ item[r][p]["accepted"] \in Nat
        BY <1>0, RowNat DEF Inv, RequestRows, Counters
      <3> QED
        BY <3>1, <3>2, <3>3
    <2>4. "available" \in Buckets /\ "reserved" \in Buckets /\ "reserved" # "available"
      BY DEF Buckets
    <2>5. \A p \in Products : Held(product'[p]) = Held(product[p])
      BY <1>0, <2>1, <2>2, <2>3, <2>4, ShiftConserves
    <2> QED
      BY <1>0, <2>1, <2>5, ConservedKept
  <1>6. ASSUME NEW b, assign_box(r, b)
        PROVE  Conserved(r)
    BY <1>1, <1>6 DEF assign_box, inventoryVars
  <1>7. ASSUME NEW e, NEW scanned, NEW fix \in Quantities, NEW scrap \in Quantities,
               issue_request(r, e, scanned, fix, scrap)
        PROVE  Conserved(r)
    BY <1>0, <1>7, IssueConserves, QuantitiesCounts
  <1> QED
    BY <1>2, <1>3, <1>4, <1>5, <1>6, <1>7 DEF ReviewNext

\* A handout moves stock to the issued bucket.
LEMMA HandoutConserves ==
    ASSUME Inv, NEW r \in Requests, HandoutNext(r)
    PROVE  Conserved(r)
  <1>1. PICK e \in IssuePhotos, qrs \in SUBSET Targets, q \in Counts, box \in Places,
             source \in {"public_self_checkout", "admin_direct"} :
           _create_issued_request(r, e, q, box, qrs, source)
    BY HandoutCreates
  <1>2. /\ status[r] = "none" /\ \A p \in Products : product[p]["available"] >= q[p]
        /\ product' = [p \in Products |-> Shift(product[p], "available", "issued", q[p])]
    BY <1>1 DEF _create_issued_request, issue_available
  <1>3. "available" \in Buckets /\ "issued" \in Buckets /\ "available" # "issued"
    BY DEF Buckets
  <1>4. \A p \in Products : Held(product'[p]) = Held(product[p])
    BY <1>2, <1>3, ShiftConserves
  <1> QED
    BY <1>2, <1>4, ConservedKept

\* Returns and triage.
LEMMA ReturnsConserve ==
    ASSUME UnitsNotConsumed, Bookkeeping, NEW r \in Requests, ReturnNext(r)
    PROVE  Conserved(r)
  <1>0. Inv
    BY DEF Bookkeeping
  <1>1. ASSUME NEW e, NEW out, NEW given,
               given \in [{p \in Products : mode[p] = "quantity"} -> [Outcomes -> 0 .. MaxQty]],
               return_request(r, e, given, out) \/ return_direct_loan(r, e, given, out)
        PROVE  Conserved(r)
    <2>1. return_items(build_resolutions(given, out))
      BY <1>1 DEF return_request, return_direct_loan
    <2>2. build_resolutions(given, out) \in [Products -> [Outcomes -> Nat]]
      BY <1>0, <1>1, Resolutions
    <2>3. \A p \in Products : Held(product'[p]) = Held(product[p])
      BY <1>0, <2>1, <2>2, ReturnConserves
    <2>4. status[r] # "accepted"
      BY <1>1 DEF return_request, return_direct_loan, OpenStatus, Bookkeeping, Custodian, RowsJoined
    <2> QED
      BY <1>0, <2>3, <2>4, ConservedKept
  <1>2. ASSUME NEW e, NEW report_problem, return_tool(r, e, report_problem)
        PROVE  Conserved(r)
    <2>1. /\ status[r] # "accepted"
          /\ \A p \in Products : product[p]["issued"] >= Column(r, "issued")[p]
          /\ product' = [p \in Products |->
                            Shift(product[p], "issued", "available", Column(r, "issued")[p])]
      BY <1>2 DEF return_tool, require_public_return_ledger, return_to_available
    <2>2. Column(r, "issued") \in Counts
      <3>1. "issued" \in Counters
        BY DEF Counters
      <3> QED
        BY <1>0, <3>1, ColumnCounts DEF Inv, RequestRows
    <2>3. "available" \in Buckets /\ "issued" \in Buckets /\ "issued" # "available"
      BY DEF Buckets
    <2>4. \A p \in Products : Held(product'[p]) = Held(product[p])
      BY <1>0, <2>1, <2>2, <2>3, ShiftConserves
    <2> QED
      BY <1>0, <2>1, <2>4, ConservedKept
  <1>3. ASSUME NEW outcome \in TriageOutcomes \cup {"no_issue"}, NEW q \in Quantities, NEW moved,
               triage_problem_report(r, outcome, q, moved)
        PROVE  Conserved(r)
    <2>1. status[r] # "accepted" \/ status'[r] # "issued"
      BY <1>3 DEF triage_problem_report, requestVars
    <2>2. \A p \in Products : Held(product'[p]) = Held(product[p])
      <3>1. CASE outcome = "no_issue"
        BY <1>3, <3>1 DEF triage_problem_report
      <3>2. CASE outcome # "no_issue"
        <4>1. outcome \in TriageOutcomes /\ q \in Counts /\ _move_stock(r, outcome, q, moved)
          BY <1>3, <3>2, QuantitiesCounts DEF triage_problem_report
        <4> QED
          BY <4>1, TriageConserves
      <3> QED
        BY <3>1, <3>2
    <2> QED
      BY <1>0, <2>1, <2>2, ConservedKept
  <1> QED
    BY <1>1, <1>2, <1>3 DEF ReturnNext

\* A step of a request or a loan moves stock between the buckets of a product
\* and takes none away but what an issue scraps; the unit counts a triage
\* starts from are those its row had.
THEOREM LendingAlwaysConserves ==
    ASSUME UnitsNotConsumed
    PROVE  Spec => LendingConserves
  <1>1. ASSUME Bookkeeping, [Next]_vars
        PROVE  [\/ UNCHANGED <<requestVars, loanVars>>
                \/ \E r \in Requests : \A p \in Products :
                      Held(product'[p]) = Held(product[p]) - Scrapped(r, p)]_vars
    <2>1. ASSUME NEW r \in Requests, ReviewNext(r) \/ HandoutNext(r) \/ ReturnNext(r)
          PROVE  Conserved(r)
      BY <1>1, <2>1, ReviewConserves, HandoutConserves, ReturnsConserve DEF Bookkeeping
    <2>2. CASE StaffNext
      BY <2>2 DEF StaffNext
    <2> QED
      BY <1>1, <2>1, <2>2 DEF Next, Conserved
  <1> QED
    BY <1>1, BookkeepingAlways, PTL DEF Spec, LendingConserves

-----------------------------------------------------------------------------
(* Submissions without an account.                                         *)

\* Nobody else comes to wait for review anonymously.
LEMMA BacklogShrinks ==
    ASSUME AnonymousBacklog, anon_key' = anon_key,
           \A r \in Requests : status'[r] = "pending_approval" => status[r] = "pending_approval"
    PROVE  AnonymousBacklog'
  <1>1. AnonymousPending' \subseteq AnonymousPending
    BY DEF AnonymousPending
  <1>2. IsFiniteSet(AnonymousPending)
    BY FS_Subset DEF AnonymousPending
  <1>3. /\ Cardinality(AnonymousPending') <= Cardinality(AnonymousPending)
        /\ IsFiniteSet(AnonymousPending')
    BY <1>1, <1>2, FS_Subset
  <1>4. Cardinality(AnonymousPending) \in Nat /\ Cardinality(AnonymousPending') \in Nat
    BY <1>2, <1>3, FS_CardinalityType
  <1>5. Cardinality(AnonymousPending') <= OutstandingLimit
    BY <1>3, <1>4 DEF AnonymousBacklog
  <1> QED
    BY <1>5 DEF AnonymousBacklog

\* A submission with a key finds room for itself, and the key unused.
LEMMA SubmitBacklog ==
    ASSUME Inv, AnonymousBacklog, NEW r \in Requests, NEW q, NEW key,
           submit_request(r, q, key)
    PROVE  AnonymousBacklog'
  <1>1. /\ status[r] = "none" /\ status' = [status EXCEPT ![r] = "pending_approval"]
        /\ anon_key' = [anon_key EXCEPT ![r] = key]
        /\ key # None => \A s \in Requests : anon_key[s] # key
        /\ key # None => Cardinality(AnonymousPending) < OutstandingLimit
        /\ status \in [Requests -> Status \cup {"none"}] /\ anon_key \in [Requests -> Keys \cup {None}]
    BY DEF submit_request, _enforce_anonymous_outstanding_limit, Inv, RequestRows
  <1>2. \A s, t \in Requests : anon_key'[s] # None /\ anon_key'[s] = anon_key'[t] => s = t
    BY <1>1 DEF AnonymousBacklog
  <1>3. AnonymousPending' = AnonymousPending \cup (IF key = None THEN {} ELSE {r})
    BY <1>1 DEF AnonymousPending
  <1>4. IsFiniteSet(AnonymousPending) /\ r \notin AnonymousPending
    BY <1>1, FS_Subset DEF AnonymousPending
  <1>5. Cardinality(AnonymousPending) \in Nat
    BY <1>4, FS_CardinalityType
  <1>6. Cardinality(AnonymousPending') <= OutstandingLimit
    <2>1. CASE key = None
      BY <1>3, <2>1 DEF AnonymousBacklog
    <2>2. CASE key # None
      <3>1. Cardinality(AnonymousPending \cup {r}) = Cardinality(AnonymousPending) + 1
        BY <1>4, FS_AddElement
      <3>2. AnonymousPending' = AnonymousPending \cup {r}
        BY <1>3, <2>2
      <3> QED
        BY <1>1, <1>5, <2>2, <3>1, <3>2
    <2> QED
      BY <2>1, <2>2
  <1> QED
    BY <1>2, <1>6 DEF AnonymousBacklog

\* Other steps submit nothing and keep the keys.
LEMMA NextBacklog == Inv /\ AnonymousBacklog /\ [Next]_vars => AnonymousBacklog'
  <1> SUFFICES ASSUME Inv, AnonymousBacklog, [Next]_vars
               PROVE  AnonymousBacklog'
    OBVIOUS
  <1> DEFINE Same == /\ anon_key' = anon_key
                     /\ \A x \in Requests : status'[x] = "pending_approval" =>
                                               status[x] = "pending_approval"
  <1>0. /\ status \in [Requests -> Status \cup {"none"}]
        /\ Same => AnonymousBacklog'
    BY BacklogShrinks DEF Inv, RequestRows
  <1>1. CASE UNCHANGED <<requestVars>>
    <2>1. Same
      BY <1>1 DEF requestVars
    <2> QED
      BY <1>0, <2>1
  <1>2. ASSUME NEW r \in Requests, ReviewNext(r)
        PROVE  AnonymousBacklog'
    <2>1. ASSUME NEW q, accept_request(r, q)
          PROVE  Same
      BY <1>0, <2>1 DEF accept_request
    <2>2. CASE reject_request(r)
      BY <1>0, <2>2 DEF reject_request
    <2>3. CASE cancel_request(r)
      BY <1>0, <2>3 DEF cancel_request
    <2>4. ASSUME NEW b, assign_box(r, b)
          PROVE  Same
      BY <1>0, <2>4 DEF assign_box
    <2>5. ASSUME NEW e, NEW scanned, NEW fix, NEW scrap, issue_request(r, e, scanned, fix, scrap)
          PROVE  Same
      BY <1>0, <2>5 DEF issue_request
    <2> HIDE DEF Same
    <2> QED
      BY <1>0, <1>2, <2>1, <2>2, <2>3, <2>4, <2>5, SubmitBacklog DEF ReviewNext
  <1>3. ASSUME NEW r \in Requests, HandoutNext(r)
        PROVE  AnonymousBacklog'
    <2>1. ASSUME NEW e, NEW q, NEW box, NEW qrs, NEW source,
                 _create_issued_request(r, e, q, box, qrs, source)
          PROVE  Same
      BY <1>0, <2>1 DEF _create_issued_request
    <2> HIDE DEF Same
    <2> QED
      BY <1>0, <1>3, <2>1, HandoutCreates
  <1>4. ASSUME NEW r \in Requests, ReturnNext(r)
        PROVE  AnonymousBacklog'
    <2>0. \A items : finalize_return_status(items) # "pending_approval"
      BY DEF finalize_return_status
    <2>1. ASSUME NEW e, NEW given, NEW out, return_request(r, e, given, out)
          PROVE  Same
      BY <1>0, <2>0, <2>1 DEF return_request
    <2>2. ASSUME NEW e, NEW given, NEW out, return_direct_loan(r, e, given, out)
          PROVE  Same
      BY <1>0, <2>0, <2>2 DEF return_direct_loan, CloseLoan
    <2>3. ASSUME NEW e, NEW report_problem, return_tool(r, e, report_problem)
          PROVE  Same
      BY <1>0, <2>3 DEF return_tool, CloseLoan
    <2>4. ASSUME NEW outcome, NEW q, NEW moved, triage_problem_report(r, outcome, q, moved)
          PROVE  Same
      BY <2>4 DEF triage_problem_report, requestVars
    <2> HIDE DEF Same
    <2> QED
      BY <1>0, <1>4, <2>1, <2>2, <2>3, <2>4 DEF ReturnNext
  <1>5. CASE StaffNext
    BY <1>1, <1>5 DEF StaffNext
  <1>6. CASE UNCHANGED vars
    BY <1>1, <1>6 DEF vars
  <1> HIDE DEF Same
  <1> QED
    BY <1>2, <1>3, <1>4, <1>5, <1>6 DEF Next

\* Account-less requests awaiting review never exceed the outstanding limit,
\* and no idempotency key creates two requests, for any limit and any number
\* of submissions, reviews and handouts.
THEOREM BacklogStaysBounded == Spec => []AnonymousBacklog
  <1>1. Init => AnonymousBacklog
    <2> SUFFICES ASSUME Init
                 PROVE  AnonymousBacklog
      OBVIOUS
    <2>1. AnonymousPending = {} /\ \A r \in Requests : anon_key[r] = None
      BY DEF Init, AnonymousPending
    <2>2. Cardinality({}) = 0
      BY FS_EmptySet
    <2> QED
      BY <2>1, <2>2 DEF AnonymousBacklog
  <1> QED
    BY <1>1, NextBacklog, InvAlways, PTL DEF Spec

-----------------------------------------------------------------------------
(* Containers handed out whole.                                            *)
\* A scanned container leaves the AVAILABLE units inside it nowhere but among
\* the scanned codes.
LEMMA ScannedBox ==
    ASSUME NEW qrs \in SUBSET Targets, NEW before, NEW offered, NEW b \in Boxes, b \in qrs,
           _checkout_targets(qrs, before, offered), NEW a \in Assets, place[a] \in Subtree[b],
           asset[a] = "available"
    PROVE  a \in qrs
  <1>1. before \subseteq qrs /\ _checkout_box(b, before, offered)
    BY DEF _checkout_targets
  <1> QED
    BY <1>1 DEF _checkout_box, box_requires_separate_contents

\* The row a handout creates, and its units.
LEMMA CreatedLoan ==
    ASSUME Inv, NEW r \in Requests, NEW e, NEW q, NEW box, NEW qrs, NEW source,
           _create_issued_request(r, e, q, box, qrs, source)
    PROVE  /\ loan_container'[r] = box /\ loan_qrs'[r] = qrs
           /\ \A p \in Products : item'[r][p]["issued"] = q[p]
           /\ \A a \in Assets : asset'[a] = "available" => asset[a] = "available" /\ a \notin qrs
  BY DEF _create_issued_request, Inv, RequestRows, LoanRows, Counters

\* A handout takes no AVAILABLE unit out in its container.
LEMMA HandoutStays ==
    ASSUME Inv, NEW r \in Requests, HandoutNext(r), NEW b \in Boxes, NEW a \in Assets,
           loan_container'[r] = b, b \in loan_qrs'[r] \/ item'[r] = NoItems,
           place[a] \in Subtree[b]
    PROVE  asset'[a] # "available"
  <1>1. PICK e \in IssuePhotos, qrs \in SUBSET Targets : \E before \in SUBSET qrs :
           \/ checkout_tool(r, e, qrs, before)
           \/ \E container \in Places, manual \in Quantities :
                 issue_direct_loan(r, e, container, qrs, before, manual)
    BY DEF HandoutNext
  <1>2. \A p \in Products : NoItems[p]["issued"] = 0
    BY DEF NoItems, Counters
  <1>3. ASSUME NEW before \in SUBSET qrs, checkout_tool(r, e, qrs, before)
        PROVE  asset'[a] # "available"
    <2>1. /\ qrs # {} /\ _checkout_targets(qrs, before, Public)
          /\ \E box \in Places : _create_issued_request(r, e, HandedOut(qrs, before, Public), box,
                                                        qrs, "public_self_checkout")
      BY <1>3 DEF checkout_tool
    <2>2. PICK box : _create_issued_request(r, e, HandedOut(qrs, before, Public), box,
                                            qrs, "public_self_checkout")
      BY <2>1
    <2>3. /\ loan_qrs'[r] = qrs
          /\ \A p \in Products : item'[r][p]["issued"] = HandedOut(qrs, before, Public)[p]
          /\ asset'[a] = "available" => asset[a] = "available" /\ a \notin qrs
      BY <2>2, CreatedLoan
    <2>4. PICK p \in Products : HandedOut(qrs, before, Public)[p] > 0
      BY <2>1, HandedOutSome
    <2>5. b \in qrs
      BY <1>2, <2>3, <2>4
    <2> QED
      BY <2>1, <2>3, <2>5, ScannedBox
  <1>4. ASSUME NEW before \in SUBSET qrs, NEW container \in Places, NEW manual \in Quantities,
               issue_direct_loan(r, e, container, qrs, before, manual)
        PROVE  asset'[a] # "available"
    <2> DEFINE everything == Products \cup Assets
               contents == HandedOut(qrs, before, everything)
               q == [p \in Products |-> contents[p] + manual[p]]
    <2>1. /\ _checkout_targets(qrs, before, everything)
          /\ qrs # {} \/ (\E p \in Products : manual[p] > 0) \/ container # None
          /\ \/ qrs # {} \/ \E p \in Products : manual[p] > 0
             \/ ContainerEmpty(container) /\ container # None
      BY <1>4 DEF issue_direct_loan
    <2>2. PICK box : /\ container # None => box = container
                     /\ _create_issued_request(r, e, q, box, qrs, "admin_direct")
      BY <1>4 DEF issue_direct_loan
    <2>3. contents \in Counts /\ manual \in Counts
      BY HandedOutCounts, QuantitiesCounts
    <2> HIDE DEF contents, everything
    <2>4. /\ loan_container'[r] = box /\ loan_qrs'[r] = qrs
          /\ \A p \in Products : item'[r][p]["issued"] = q[p]
          /\ asset'[a] = "available" => asset[a] = "available" /\ a \notin qrs
      BY <2>2, CreatedLoan
    <2>5. CASE b \in qrs
      BY <2>1, <2>4, <2>5, ScannedBox
    <2>6. CASE b \notin qrs
      <3>1. \A p \in Products : contents[p] + manual[p] = 0
        BY <1>2, <2>4, <2>6
      <3>2. \A p \in Products : contents[p] = 0 /\ manual[p] = 0
        BY <2>3, <3>1 DEF Counts
      <3>3. qrs = {}
        BY <2>1, <3>2, HandedOutSome DEF contents
      <3>4. ContainerEmpty(b)
        BY <2>1, <2>2, <2>4, <3>2, <3>3
      <3> QED
        BY <2>4, <3>4 DEF ContainerEmpty
    <2> QED
      BY <2>5, <2>6
  <1> QED
    BY <1>1, <1>3, <1>4

\* A container handed out, scanned or alone, leaves no AVAILABLE unit inside
\* it or inside the containers nested in it, to any depth of nesting.
THEOREM NoUnitEverWalksOut == Spec => NoUnitWalksOut
  <1>1. ASSUME Inv, Custodian, [Next]_vars
        PROVE  [UnitsStay]_vars
    <2> SUFFICES ASSUME NEW r \in Requests, NEW b \in Boxes, NEW a \in Assets, Next,
                        loan_status[r] = "none", loan_status'[r] = "checked_out",
                        loan_container'[r] = b, b \in loan_qrs'[r] \/ item'[r] = NoItems,
                        place[a] \in Subtree[b]
                 PROVE  asset'[a] # "available"
      BY <1>1 DEF UnitsStay
    <2>1. ~ StaffNext
      BY DEF StaffNext, loanVars
    <2>2. PICK x \in Requests : ReviewNext(x) \/ HandoutNext(x) \/ ReturnNext(x)
      BY <2>1 DEF Next
    <2>3. x = r
      BY <1>1, <2>2, OthersSpared DEF Spared
    <2>4. ~ ReviewNext(r)
      BY DEF ReviewNext, submit_request, accept_request, reject_request, cancel_request,
             assign_box, issue_request, loanVars
    <2>5. ~ ReturnNext(r)
      BY ZenonT(60)
        DEF ReturnNext, return_request, return_direct_loan, return_tool, triage_problem_report,
             loanVars
    <2>6. HandoutNext(r)
      BY <2>2, <2>3, <2>4, <2>5
    <2> QED
      BY <1>1, <2>6, HandoutStays
  <1> QED
    BY <1>1, InvAlways, CustodyAlways, PTL DEF Spec, NoUnitWalksOut
=============================================================================

------------------------------ MODULE Inventory ------------------------------
(***************************************************************************)
(* apps.inventory: the availability service.  A product row keeps a total  *)
(* and six buckets; a product tracked "individual" also has one asset row  *)
(* per unit.  Every operation runs in one database transaction under the   *)
(* row locks of the products it changes, so one step here is one           *)
(* transaction there; a refusal (InsufficientStock and its kin) rolls the  *)
(* transaction back and is a step that is not enabled.                     *)
(*                                                                         *)
(* The service operators (reserve_for_request, issue_items, ...) are used  *)
(* by the workflows of Lending; the staff operations at the end change     *)
(* inventory only.                                                         *)
(***************************************************************************)
EXTENDS Integers, FiniteSets

CONSTANTS
    Products,       \* ids of InventoryProduct rows
    Assets,         \* ids of InventoryAsset rows that may be generated
    ProductOf,      \* the product an asset row belongs to
    Individual,     \* products created with tracking_mode = individual
    Consumables,    \* products staff may link to a machine as a consumable
    Boxes,          \* ids of containers
    None,           \* SQL NULL
    MaxStock,       \* bound: no operation that adds stock exceeds it
    MaxDelta        \* bound: largest quantity of one staff operation

ASSUME InventoryAssumption ==
    /\ IsFiniteSet(Assets)
    /\ ProductOf \in [Assets -> Products]
    /\ Individual \subseteq Products
    /\ Consumables \subseteq Products
    /\ MaxStock \in Nat
    /\ MaxDelta \in Nat

VARIABLES
    mode,           \* InventoryProduct.tracking_mode
    product,        \* the quantity columns of each product
    asset,          \* InventoryAsset.status, "absent" while there is no row
    place,          \* box_id of products and assets
    consumable      \* products with a count-mode MachineConsumable row

inventoryVars == <<mode, product, asset, place, consumable>>

Buckets == {"available", "reserved", "issued", "damaged", "lost", "needs_fix"}

QuantityFields == Buckets \cup {"total"}

AssetStatus == {"available", "reserved", "issued", "damaged", "lost", "maintenance", "retired"}

Places == Boxes \cup {None}

ASSET_QUANTITY_BUCKETS ==
    [s \in AssetStatus \ {"retired"} |-> IF s = "maintenance" THEN "needs_fix" ELSE s]

-----------------------------------------------------------------------------
(* Rows and their arithmetic.                                              *)

\* The sum of the buckets, which qty_sum_within_total bounds by the total.
Held(row) == row["available"] + row["reserved"] + row["issued"]
                 + row["damaged"] + row["lost"] + row["needs_fix"]

Shift(row, from, to, q) == [row EXCEPT ![from] = @ - q, ![to] = @ + q]

\* q units enter (or, negative, leave) the inventory through bucket b.
Resize(row, b, q) == [row EXCEPT ![b] = @ + q, !["total"] = @ + q]

Recount(row) == [row EXCEPT !["total"] = Held(row)]

\* A product as the create serializer admits it: only total and available.
CreatedRow(total, available) ==
    [b \in QuantityFields |-> IF b = "total" THEN total
                              ELSE IF b = "available" THEN available ELSE 0]

AssetsOf(p) == {a \in Assets : ProductOf[a] = p}

Units(status, p, s) == Cardinality({a \in AssetsOf(p) : status[a] = s})

-----------------------------------------------------------------------------
(* availability_requests, availability_quantities: q, fix, scrap and the   *)
(* resolutions are functions on Products, zero where a product is not      *)
(* named by the request.                                                   *)

assert_individual_assets_available(p, q) ==
    mode[p] = "individual" => Units(asset, p, "available") >= q + product[p]["reserved"]

\* Mutant: reserves without looking at the available bucket.
reserve_for_request_unchecked(q) ==
    product' = [p \in Products |-> Shift(product[p], "available", "reserved", q[p])]

reserve_for_request(q) ==
    /\ \A p \in Products : q[p] > 0 =>
          /\ assert_individual_assets_available(p, q[p])
          /\ product[p]["available"] >= q[p]
    /\ product' = [p \in Products |-> Shift(product[p], "available", "reserved", q[p])]

\* Mutant: units rejected at the counter stay reserved.
issue_items_rejects_reserved(q, fix, scrap) ==
    /\ \A p \in Products : fix[p] + scrap[p] <= q[p] /\ product[p]["reserved"] >= q[p]
    /\ product' = [p \in Products |->
          Shift(product[p], "reserved", "issued", q[p] - fix[p] - scrap[p])]

\* fix[p] units go to the needs-fix shelf and scrap[p] leave the inventory.
issue_items(q, fix, scrap) ==
    /\ \A p \in Products : fix[p] + scrap[p] <= q[p] /\ product[p]["reserved"] >= q[p]
    /\ product' = [p \in Products |->
          [product[p] EXCEPT !["reserved"]  = @ - q[p],
                             !["issued"]    = @ + (q[p] - fix[p] - scrap[p]),
                             !["needs_fix"] = @ + fix[p],
                             !["total"]     = @ - scrap[p]]]

Resolved(res, p) == res[p]["returned"] + res[p]["damaged"] + res[p]["missing"]

\* Mutant: a missing unit leaves the issued bucket for nowhere.
return_items_missing_dropped(res) ==
    /\ \A p \in Products : product[p]["issued"] >= Resolved(res, p)
    /\ product' = [p \in Products |->
          [product[p] EXCEPT !["issued"]    = @ - Resolved(res, p),
                             !["available"] = @ + res[p]["returned"],
                             !["damaged"]   = @ + res[p]["damaged"]]]

return_items(res) ==
    /\ \A p \in Products : product[p]["issued"] >= Resolved(res, p)
    /\ product' = [p \in Products |->
          [product[p] EXCEPT !["issued"]    = @ - Resolved(res, p),
                             !["available"] = @ + res[p]["returned"],
                             !["damaged"]   = @ + res[p]["damaged"],
                             !["lost"]      = @ + res[p]["missing"]]]

issue_available(q) ==
    /\ \A p \in Products : product[p]["available"] >= q[p]
    /\ product' = [p \in Products |-> Shift(product[p], "available", "issued", q[p])]

return_to_available(q) ==
    /\ \A p \in Products : product[p]["issued"] >= q[p]
    /\ product' = [p \in Products |-> Shift(product[p], "issued", "available", q[p])]

\* The checks of release_request_reservation before its first write: lines
\* are the products of the request's items, q its accepted quantities, and
\* demand the accepted quantities of all accepted requests.  (The code asks
\* for demand[p] >= q[p]; the upper bound is part of the equation before it.)
ReservationAttributable(lines, q, demand) ==
    /\ \E p \in lines : q[p] > 0
    /\ \A p \in lines :
          /\ mode[p] = "quantity" => \A a \in AssetsOf(p) : asset[a] = "absent"
          /\ mode[p] = "individual" =>
                product[p]["available"] = Units(asset, p, "available") - demand[p]
          /\ product[p]["reserved"] = demand[p] + Units(asset, p, "reserved")
          /\ demand[p] \in q[p] .. product[p]["reserved"]

release_request_reservation(lines, q, demand) ==
    /\ ReservationAttributable(lines, q, demand)
    /\ product' = [p \in Products |-> Shift(product[p], "reserved", "available", q[p])]

adjust_quantities(p, da, dd, dl) ==
    LET row == product[p]
        new == [row EXCEPT !["available"] = @ + da, !["damaged"] = @ + dd, !["lost"] = @ + dl]
    IN  /\ new["available"] >= 0 /\ new["damaged"] >= 0 /\ new["lost"] >= 0
        /\ product' = [product EXCEPT ![p] = Recount(new)]

-----------------------------------------------------------------------------
(* availability_assets.                                                    *)

\* Reservations no asset row carries: they are kept and carved out of the
\* AVAILABLE rows.
UnmarkedReserved(p, status) ==
    IF product[p]["reserved"] > Units(status, p, "reserved")
    THEN product[p]["reserved"] - Units(status, p, "reserved") ELSE 0

Reconcilable(p, status) ==
    mode[p] = "individual" => UnmarkedReserved(p, status) <= Units(status, p, "available")

reconcile_individual_product_from_assets(p, status) ==
    LET counts == [b \in QuantityFields |->
                      Units(status, p, IF b = "needs_fix" THEN "maintenance" ELSE b)]
    IN  IF mode[p] # "individual" THEN product[p]
        ELSE Recount(Shift(counts, "available", "reserved", UnmarkedReserved(p, status)))

move_asset_status(a, s) ==
    LET p   == ProductOf[a]
        old == ASSET_QUANTITY_BUCKETS[asset[a]]
        new == ASSET_QUANTITY_BUCKETS[s]
        row == reconcile_individual_product_from_assets(p, asset)
    IN  /\ asset[a] # s
        /\ {asset[a], s} \subseteq DOMAIN ASSET_QUANTITY_BUCKETS
        /\ Reconcilable(p, asset)
        /\ row[old] >= 1
        /\ product' = [product EXCEPT ![p] = Shift(row, old, new, 1)]
        /\ asset' = [asset EXCEPT ![a] = s]

-----------------------------------------------------------------------------
(* Staff operations.  openProducts are the products on an accepted,        *)
(* issued or partially returned request; onLoan the assets of open loans.  *)

adjust_manual_quantities(p, da, dd, dl) ==
    /\ mode[p] = "quantity"
    /\ {da, dd, dl} # {0}
    /\ adjust_quantities(p, da, dd, dl)
    /\ product'[p]["total"] <= MaxStock
    /\ UNCHANGED <<mode, asset, place, consumable>>

repair_from_needs_fix(p, q) ==
    /\ mode[p] = "quantity"
    /\ product[p]["needs_fix"] >= q
    /\ product' = [product EXCEPT ![p] = Shift(@, "needs_fix", "available", q)]
    /\ UNCHANGED <<mode, asset, place, consumable>>

move_available_to_needs_fix(p, q) ==
    /\ mode[p] = "quantity"
    /\ product[p]["available"] >= q
    /\ product' = [product EXCEPT ![p] = Shift(@, "available", "needs_fix", q)]
    /\ UNCHANGED <<mode, asset, place, consumable>>

scrap_from_needs_fix(p, q) ==
    /\ mode[p] = "quantity"
    /\ product[p]["needs_fix"] >= q
    /\ product' = [product EXCEPT ![p] = Resize(@, "needs_fix", -q)]
    /\ UNCHANGED <<mode, asset, place, consumable>>

\* A quantity transfer between two product rows, p and d, in one makerspace
\* or two; which row d is (a name and category match, or a new empty row in
\* the destination container) is left open.
transfer_available_quantity(p, d, q) ==
    /\ p # d
    /\ mode[p] = "quantity" /\ mode[d] = "quantity"
    /\ product[p]["available"] >= q /\ product[p]["total"] >= q
    /\ product[d]["total"] + q <= MaxStock
    /\ product' = [product EXCEPT ![p] = Resize(@, "available", -q),
                                  ![d] = Resize(@, "available", q)]
    /\ UNCHANGED <<mode, asset, place, consumable>>

\* A transfer of everything a product has moves its row instead.
MoveProductRow(p, b) ==
    /\ mode[p] = "quantity"
    /\ product[p] = CreatedRow(product[p]["available"], product[p]["available"])
    /\ product[p]["available"] > 0
    /\ place' = [place EXCEPT ![p] = b]
    /\ UNCHANGED <<mode, product, asset, consumable>>

\* The asset line of a stock transfer; s is the asset's own status when the
\* line names no to_status.
TransferAsset(a, s, b, onLoan) ==
    /\ asset[a] \notin {"absent", "issued", "reserved"}
    /\ s \in {"available", "maintenance", "damaged", asset[a]}
    /\ a \notin onLoan
    /\ IF s = asset[a] THEN UNCHANGED <<product, asset>> ELSE move_asset_status(a, s)
    /\ place' = [place EXCEPT ![a] = b]
    /\ UNCHANGED <<mode, consumable>>

\* Mutant: shelves a unit in any status, one on loan too.
ShelveAsset_any_status(a) ==
    /\ mode[ProductOf[a]] = "individual"
    /\ asset[a] # "absent"
    /\ move_asset_status(a, "maintenance")
    /\ UNCHANGED <<mode, place, consumable>>

ShelveAsset(a) ==
    /\ mode[ProductOf[a]] = "individual"
    /\ asset[a] \in {"available", "damaged"}
    /\ move_asset_status(a, "maintenance")
    /\ UNCHANGED <<mode, place, consumable>>

RepairAsset(a) ==
    /\ mode[ProductOf[a]] = "individual"
    /\ asset[a] = "maintenance"
    /\ move_asset_status(a, "available")
    /\ UNCHANGED <<mode, place, consumable>>

\* adjust_quantities of the available bucket alone.
Moved(row, q) == Recount([row EXCEPT !["available"] = @ + q])

\* A unit goes with its label to another makerspace, where an individual product
\* of its name (found or made by _resolve_destination_product) takes it in. The
\* row keeps its id there; here a unit of another product stands for it.
move_asset_across_makerspaces(a, b, onLoan) ==
    LET p == ProductOf[a]
        d == ProductOf[b]
    IN  /\ p # d /\ mode[d] = "individual"
        /\ asset[a] = "available" /\ asset[b] = "absent"
        /\ a \notin onLoan
        /\ product[p]["available"] >= 1
        /\ product' = [product EXCEPT ![p] = Moved(@, -1), ![d] = Moved(@, 1)]
        /\ asset' = [asset EXCEPT ![a] = "absent", ![b] = "available"]
        /\ place' = [place EXCEPT ![b] = None]
        /\ UNCHANGED <<mode, consumable>>

\* Mutant: only open requests and unit rows block a change of tracking mode.
TrackingModeChangeable_stocked(p, openProducts) ==
    /\ \A a \in AssetsOf(p) : asset[a] = "absent"
    /\ p \notin openProducts

\* change_tracking_mode's _change_blocker.
TrackingModeChangeable(p, openProducts) ==
    /\ \A b \in QuantityFields : product[p][b] = 0
    /\ \A a \in AssetsOf(p) : asset[a] = "absent"
    /\ p \notin openProducts

change_tracking_mode(p, openProducts) ==
    /\ TrackingModeChangeable(p, openProducts)
    /\ mode' = [mode EXCEPT ![p] = IF @ = "quantity" THEN "individual" ELSE "quantity"]
    /\ UNCHANGED <<product, asset, place, consumable>>

\* New units for product p, converting an empty quantity product first; the
\* call may also only print labels for existing units, and still reconciles.
generate_assets_with_qr(p, new, openProducts) ==
    LET status == [a \in Assets |-> IF a \in new THEN "available" ELSE asset[a]]
    IN  /\ new # {} \/ \E a \in AssetsOf(p) : asset[a] # "absent"
        /\ new \subseteq {a \in AssetsOf(p) : asset[a] = "absent"}
        /\ mode[p] = "quantity" => TrackingModeChangeable(p, openProducts)
        /\ mode' = [mode EXCEPT ![p] = "individual"]
        /\ asset' = status
        /\ place' = [x \in DOMAIN place |-> IF x \in new THEN place[p] ELSE place[x]]
        /\ IF mode[p] = "individual"
           THEN /\ Reconcilable(p, status)
                /\ product' = [product EXCEPT ![p] =
                                  reconcile_individual_product_from_assets(p, status)]
           ELSE product' = [product EXCEPT ![p] = CreatedRow(Cardinality(new), Cardinality(new))]
        /\ UNCHANGED consumable

link_consumable(p) ==
    /\ p \in Consumables \ consumable
    /\ mode[p] = "quantity"
    /\ consumable' = consumable \cup {p}
    /\ UNCHANGED <<mode, product, asset, place>>

unlink_consumable(p) ==
    /\ p \in consumable
    /\ consumable' = consumable \ {p}
    /\ UNCHANGED <<mode, product, asset, place>>

log_consumption(p, q) ==
    /\ p \in consumable
    /\ adjust_quantities(p, -q, 0, 0)
    /\ UNCHANGED <<mode, asset, place, consumable>>

InventoryNext(openProducts, onLoan) ==
    \/ \E p \in Products :
          \/ \E da, dd, dl \in -MaxDelta .. MaxDelta : adjust_manual_quantities(p, da, dd, dl)
          \/ \E q \in 1 .. MaxDelta :
                \/ repair_from_needs_fix(p, q)
                \/ move_available_to_needs_fix(p, q)
                \/ scrap_from_needs_fix(p, q)
                \/ log_consumption(p, q)
                \/ \E d \in Products : transfer_available_quantity(p, d, q)
          \/ \E b \in Places : MoveProductRow(p, b)
          \/ change_tracking_mode(p, openProducts)
          \/ \E new \in SUBSET AssetsOf(p) : generate_assets_with_qr(p, new, openProducts)
          \/ link_consumable(p)
          \/ unlink_consumable(p)
    \/ \E a \in Assets :
          \/ ShelveAsset(a)
          \/ RepairAsset(a)
          \/ \E s \in AssetStatus, b \in Places : TransferAsset(a, s, b, onLoan)
          \/ \E b \in Assets : move_asset_across_makerspaces(a, b, onLoan)

InventoryInit ==
    /\ mode = [p \in Products |-> IF p \in Individual THEN "individual" ELSE "quantity"]
    /\ \E total, available \in [Products -> 0 .. MaxStock] :
          /\ \A p \in Products : available[p] <= total[p]
          /\ \A p \in Individual : total[p] = 0
          /\ product = [p \in Products |-> CreatedRow(total[p], available[p])]
    /\ asset = [a \in Assets |-> "absent"]
    /\ \E box \in [Products -> Places] :
          place = [x \in Products \cup Assets |-> IF x \in Products THEN box[x] ELSE None]
    /\ consumable = {}
=============================================================================

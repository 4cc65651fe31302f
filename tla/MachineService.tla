--------------------------- MODULE MachineService ---------------------------
(***************************************************************************)
(* The machine service desk: requests for work on machines of one type,    *)
(* the machines they occupy, the pool of material their runs reserve and   *)
(* settle, and a consumable of the machines debited by the gram.  Every    *)
(* operation locks the rows it reads, so each is one step.                 *)
(***************************************************************************)
EXTENDS Integers, FiniteSets, Functions

CONSTANTS
    Requests,  \* MachineServiceRequest rows
    Machines,  \* machines of the queue's type
    Initial,   \* initial_grams of the pool, and of the consumable
    Capacity,  \* capacity of the queue; 0 when it has none
    Printer,   \* whether the type is a printer type
    NoRequest, NoMachine

VARIABLES
    machine,    \* status and is_active of each
    request,    \* the rows
    pool,       \* remaining grams, is_active
    consumable, \* remaining grams of the MachineConsumable
    other,      \* grams the pool gained or lost outside the requests
    overridden  \* machines whose status staff set while a job was on them

vars == <<machine, request, pool, consumable, other, overridden>>

Grams == 0..Initial
Status == {"none", "pending", "accepted", "in_progress", "completed",
           "collected", "rejected", "failed"}

(* "held" stands for reserved, maintenance and offline. *)
MachineStatus == {"idle", "running", "held"}

Blank == [status |-> "none", bucket |-> FALSE, on |-> NoMachine,
          estimated_minutes |-> 0, run_estimated_minutes |-> 0,
          pooled |-> FALSE, reserved |-> 0, actual |-> 0, used |-> 0,
          reprint_of |-> NoRequest]

Jobs(m) == {r \in Requests : request[r].status = "in_progress" /\ request[r].on = m}

(* The rows hold values of the code's types; grams are reserved only while *)
(* a pooled job is running; a reprint points at the original request, not  *)
(* at another reprint (create_reprint keeps the attachment root).          *)
TypeOK ==
    /\ machine \in [Machines -> [status : MachineStatus, active : BOOLEAN]]
    /\ request \in [Requests ->
         [status : Status, bucket : BOOLEAN, on : Machines \cup {NoMachine},
          estimated_minutes : {0, 1}, run_estimated_minutes : {0, 1},
          pooled : BOOLEAN, reserved : Grams, actual : Nat, used : Grams,
          reprint_of : Requests \cup {NoRequest}]]
    /\ pool \in [remaining : Grams, active : BOOLEAN]
    /\ consumable \in Grams
    /\ other \in Int
    /\ overridden \subseteq Machines
    /\ \A r \in Requests :
         /\ request[r].reserved > 0 => request[r].status = "in_progress" /\ request[r].pooled
         /\ request[r].status = "in_progress" => request[r].on # NoMachine
         /\ request[r].reprint_of # NoRequest =>
              request[request[r].reprint_of].reprint_of = NoRequest

Init ==
    /\ machine = [m \in Machines |-> [status |-> "idle", active |-> TRUE]]
    /\ request = [r \in Requests |-> Blank]
    /\ pool = [remaining |-> Initial, active |-> TRUE]
    /\ consumable = Initial
    /\ other = 0
    /\ overridden = {}

_require_available(m) == machine[m].active /\ machine[m].status = "idle"

(***************************************************************************)
(* Requests                                                                *)
(***************************************************************************)

(* A request is filed with the queue, or with one machine's bucket. *)
submit(r, m) ==
    /\ request[r].status = "none"
    /\ m # NoMachine => _require_available(m)
    /\ request' = [request EXCEPT ![r] = [Blank EXCEPT !.status = "pending",
                                           !.bucket = m # NoMachine, !.on = m]]
    /\ UNCHANGED <<machine, pool, consumable, other, overridden>>

accept(r, minutes) ==
    /\ request[r].status = "pending"
    /\ request' = [request EXCEPT ![r].status = "accepted",
                                  ![r].estimated_minutes = minutes]
    /\ UNCHANGED <<machine, pool, consumable, other, overridden>>

reject(r) ==
    /\ request[r].status = "pending"
    /\ request' = [request EXCEPT ![r].status = "rejected"]
    /\ UNCHANGED <<machine, pool, consumable, other, overridden>>

HasCapacity(r) ==
    request[r].bucket \/ Capacity = 0 \/
    Cardinality({q \in Requests : ~request[q].bucket /\
                                  request[q].status = "in_progress"}) < Capacity

(* planned = 0 means no pool was named.  The estimate given with the start *)
(* is checked in memory; reserving makes start() reload the row, so what   *)
(* it snapshots is then the estimate the row had before.                   *)
SnapshotEstimate(r, minutes, planned) ==
    IF planned > 0 THEN request[r].estimated_minutes ELSE minutes

\* start without its look at the machine, which is a mutant of it.
start_on_running(r, m, minutes, planned) ==
    /\ request[r].status = "accepted"
    /\ machine[m].active
    /\ HasCapacity(r)
    /\ Printer => minutes > 0 /\ planned > 0
    /\ planned > 0 => pool.active /\ pool.remaining >= planned
    /\ LET estimate == SnapshotEstimate(r, minutes, planned) IN
       request' = [request EXCEPT ![r] =
           [@ EXCEPT !.status = "in_progress", !.on = m,
                     !.estimated_minutes = estimate, !.run_estimated_minutes = estimate,
                     !.pooled = planned > 0, !.reserved = planned]]
    /\ pool' = [pool EXCEPT !.remaining = @ - planned]
    /\ machine' = [machine EXCEPT ![m].status = "running"]
    /\ UNCHANGED <<consumable, other, overridden>>

start(r, m, minutes, planned) ==
    /\ _require_available(m)
    /\ start_on_running(r, m, minutes, planned)

(* reconcile_request settles the reservation against what was used: the    *)
(* leftover returns to the pool, an excess is taken from it, and neither   *)
(* may carry the pool below zero or above its initial grams.               *)
reconcile_request(r, actual) ==
    /\ pool.remaining + request[r].reserved - actual \in Grams
    /\ pool' = [pool EXCEPT !.remaining = @ + request[r].reserved - actual]

_release_queue_machine(m) ==
    machine' = IF machine[m].status = "running"
               THEN [machine EXCEPT ![m].status = "idle"] ELSE machine

debit_consumptions(grams) ==
    /\ consumable >= grams
    /\ consumable' = consumable - grams

(* complete and fail: `used` grams of the consumable, `actual` of the pool *)
finish(r, to, actual, used) ==
    /\ request[r].status = "in_progress"
    /\ debit_consumptions(used)
    /\ IF request[r].pooled THEN reconcile_request(r, actual)
       ELSE actual = 0 /\ UNCHANGED pool
    /\ _release_queue_machine(request[r].on)
    /\ request' = [request EXCEPT ![r] = [@ EXCEPT !.status = to, !.reserved = 0,
                                          !.actual = actual, !.used = used]]
    /\ overridden' = IF Jobs(request[r].on) = {r} THEN overridden \ {request[r].on}
                     ELSE overridden
    /\ UNCHANGED other

collect(r) ==
    /\ request[r].status = "completed"
    /\ request' = [request EXCEPT ![r].status = "collected"]
    /\ UNCHANGED <<machine, pool, consumable, other, overridden>>

Reprint(r, root) ==
    [Blank EXCEPT !.status = "accepted", !.bucket = request[r].bucket,
                  !.on = IF request[r].bucket THEN request[r].on ELSE NoMachine,
                  !.estimated_minutes = request[r].estimated_minutes,
                  !.reprint_of = root]

create_reprint(r, child) ==
    /\ request[r].status \in {"failed", "completed", "collected"}
    /\ request[child].status = "none"
    /\ LET root == request[r].reprint_of
       IN  request' = [request EXCEPT ![child] =
                         Reprint(r, IF root = NoRequest THEN r ELSE root)]
    /\ UNCHANGED <<machine, pool, consumable, other, overridden>>

(***************************************************************************)
(* Machines and the pool                                                   *)
(***************************************************************************)

SetByHand(m, row) ==
    /\ machine' = [machine EXCEPT ![m] = row]
    /\ overridden' = IF Jobs(m) = {} THEN overridden ELSE overridden \cup {m}
    /\ UNCHANGED <<request, pool, consumable, other>>

set_status(m, to) ==
    /\ machine[m].active
    /\ SetByHand(m, [machine[m] EXCEPT !.status = to])

retire_machine(m) == SetByHand(m, [status |-> "held", active |-> FALSE])

unretire_machine(m) ==
    /\ machine' = [machine EXCEPT ![m].active = TRUE]
    /\ UNCHANGED <<request, pool, consumable, other, overridden>>

Adjust(delta) ==
    /\ pool.remaining + delta \in Grams
    /\ other' = other + delta
    /\ UNCHANGED <<machine, request, consumable, overridden>>

correct_pool(delta) ==
    /\ Adjust(delta)
    /\ pool' = [pool EXCEPT !.remaining = @ + delta]

(* log_typed_manual_usage: like correct_pool, it takes from a retired pool too *)
log_typed_manual_usage(grams) ==
    /\ Adjust(-grams)
    /\ pool' = [pool EXCEPT !.remaining = @ - grams]

retire_pool(reason) ==
    /\ pool.active
    /\ Adjust(-pool.remaining)
    /\ pool' = [remaining |-> 0, active |-> FALSE]

Next ==
    \/ \E r \in Requests :
         \/ \E m \in Machines \cup {NoMachine} : submit(r, m)
         \/ \E minutes \in {0, 1} : accept(r, minutes)
         \/ reject(r)
         \/ \E m \in Machines, minutes \in {request[r].estimated_minutes, 1}, planned \in Grams :
                start(r, m, minutes, planned)
         \/ \E to \in {"completed", "failed"}, actual, used \in Grams :
                finish(r, to, actual, used)
         \/ collect(r)
         \/ \E child \in Requests : create_reprint(r, child)
    \/ \E m \in Machines :
         \/ \E to \in MachineStatus : set_status(m, to)
         \/ retire_machine(m)
         \/ unretire_machine(m)
    \/ \E grams \in Grams \ {0} :
         \/ correct_pool(grams)
         \/ correct_pool(-grams)
         \/ log_typed_manual_usage(grams)
    \/ retire_pool("reason")

Spec == Init /\ [][Next]_vars

(***************************************************************************)
(* Properties                                                              *)
(***************************************************************************)

(* Grams of one column over all requests.                                   *)
Total(c) == SumFunction([r \in Requests |-> request[r][c]])

(* No gram is lost or counted twice between the pool and the jobs: what    *)
(* remains, what running jobs hold and what finished jobs used add up to   *)
(* the initial grams and the corrections, across overruns, leftovers and a *)
(* pool corrected or retired under a running job; the consumable likewise. *)
MaterialBalance ==
    /\ pool.remaining + Total("reserved") + Total("actual") = Initial + other
    /\ consumable + Total("used") = Initial

(* Unless staff set its status by hand in between, a machine runs at most  *)
(* one job and shows as running while it does, so no second request is     *)
(* ever started on it (start, _require_available, _release_queue_machine). *)
OneJobPerMachine ==
    \A m \in Machines \ overridden :
        /\ \A q, r \in Jobs(m) : q = r
        /\ Jobs(m) # {} => machine[m].active /\ machine[m].status = "running"

(* Both together: the desk's material and its machines are accounted for.  *)
JobsAccounted == MaterialBalance /\ OneJobPerMachine
=============================================================================

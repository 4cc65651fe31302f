--------------------------- MODULE CompoundRestore ---------------------------
(***************************************************************************)
(* Restoring a deployment from a compound archive: one coordinator, under  *)
(* the host's operation lock, restores the archive into a sibling of the   *)
(* live database and then moves the pointer that says which database the   *)
(* deployment uses.  Every phase is an effect between a "begun" and a      *)
(* "done" line of an fsynced ledger, so that a run which dies is run again *)
(* and goes on; a finished cutover can be rolled back.                     *)
(*                                                                         *)
(* Databases are their OIDs, Old the live one.  The sibling is created by  *)
(* the run under one planned name.  The pointer is the host's file.  What  *)
(* the host adapters do (writers, bucket, acknowledgement) is external.    *)
(***************************************************************************)
EXTENDS Integers, Sequences

CONSTANTS
    Objects,          \* objects of the archive's readable main part
    MaxInterruptions  \* bound on deaths, expiries and probes that answer no

VARIABLES
    ledger,         \* the run's ledger and the details it keeps
    coordinator,    \* what the process that holds the lock does, or "down"
    sibling,        \* the database of the planned name, and what it records
    host_marker,    \* the host's marker file
    journal,        \* the newest launch capability
    pointer,        \* the database the deployment uses, and its generation
    bucket,         \* objects in the bucket
    before,         \* objects it held at first (history)
    writers,        \* databases that ordinary processes write to
    candidate,      \* the database a candidate backend was let onto
    rollback,       \* the phase "rollback" of the ledger
    refused,        \* why no further start of this run can go on, or "no"
    interruptions

vars == <<ledger, coordinator, sibling, host_marker, journal, pointer, bucket, before,
          writers, candidate, rollback, refused, interruptions>>
host == <<host_marker, journal, pointer, writers, candidate>>
data == <<sibling, bucket>>
bound == <<before, refused, interruptions>>

Old == 0
None == -1
Starting == -2

PHASES == <<"static-preflight", "persist-offline", "exclude-writers",
            "sibling-allocation", "database-restore", "roles-and-grants",
            "rehydrate", "install-fences", "verify-catalog",
            "restore-main-objects", "prepare-quarantine-readiness",
            "candidate-health-marker", "arm-candidate-capability",
            "start-candidate-backend", "verify-quarantine", "cutover",
            "quarantine-marker-and-grants", "recovery-acknowledgement",
            "normal-marker", "start-normal-writers", "finalize">>

Stages == <<"absent", "empty", "partial", "restored", "rehydrated", "fenced",
            "catalogued", "ready">>

LedgerRow == [done : 0..Len(PHASES), begun : BOOLEAN, generation : Nat, allocated : Int,
              created : SUBSET Objects, old_generation : Nat, target : Int]
SiblingRow == [oid : Nat, stage : 1..Len(Stages), owned : BOOLEAN, normal : BOOLEAN]
MarkerRow == [state : {"normal", "candidate-preparation", "candidate-health",
                       "quarantined-after-cutover"}, oid : Nat \cup {None}]

TypeOK ==
    /\ ledger \in LedgerRow
    /\ coordinator \in {"down", "ready", "begun", "resumed", "intended", "created", "allocated",
                        "bound", "restoring", "armed", "launching", "acted", "rolling", "reversed"}
    /\ sibling \in SiblingRow
    /\ host_marker \in MarkerRow
    /\ journal \in {"empty", "armed", "consumed", "invalidated"}
    /\ pointer \in [to : Nat, generation : Nat]
    /\ bucket \cup before \subseteq Objects
    /\ writers \subseteq Nat /\ candidate \in Nat \cup {None, Starting}
    /\ rollback \in {"none", "begun", "done"}
    /\ refused \in {"no", "owner", "identity", "unverified", "unacknowledged"}
    /\ interruptions \in 0..MaxInterruptions

Init ==
    /\ ledger = [done |-> 0, begun |-> FALSE, generation |-> 0, allocated |-> None,
                 created |-> {}, old_generation |-> 0, target |-> None]
    /\ coordinator = "down"
    /\ sibling = [oid |-> Old, stage |-> 1, owned |-> FALSE, normal |-> FALSE]
    /\ host_marker = [state |-> "normal", oid |-> Old]
    /\ journal = "empty"
    /\ pointer = [to |-> Old, generation |-> 1]
    /\ bucket \in SUBSET Objects /\ before = bucket
    /\ writers = {Old} /\ candidate = None
    /\ rollback = "none" /\ refused = "no" /\ interruptions = 0

-----------------------------------------------------------------------------
(* The ledger.                                                             *)

Index(p) == CHOOSE i \in 1..Len(PHASES) : PHASES[i] = p
Rank(s) == CHOOSE i \in 1..Len(Stages) : Stages[i] = s

done_detail(p) == ledger.done >= Index(p)
At(p) == ledger.done + 1 = Index(p)

Acts(p) == At(p) /\ coordinator \in {"begun", "resumed"}
acted == coordinator' = "acted"
untouched == UNCHANGED <<ledger, rollback, bound>>

\* Mutant: a line that says "begun" is taken for the effect.
begin_trusts_begun ==
    /\ coordinator = "ready" /\ ledger.done < Len(PHASES) /\ ~At("database-restore")
    /\ coordinator' = IF ledger.begun THEN "acted" ELSE "begun"
    /\ ledger' = IF At("cutover") /\ ~ledger.begun
                 THEN [ledger EXCEPT !.begun = TRUE, !.target = sibling.oid,
                                     !.old_generation = pointer.generation]
                 ELSE [ledger EXCEPT !.begun = TRUE]
    /\ UNCHANGED <<data, host, rollback, bound>>

\* Mutant: the objects to restore are planned again when the run goes on.
begin_plans_again ==
    /\ coordinator = "ready" /\ ledger.done < Len(PHASES) /\ ~At("database-restore")
    /\ coordinator' = IF ledger.begun THEN "resumed" ELSE "begun"
    /\ ledger' = IF At("restore-main-objects")
                 THEN [ledger EXCEPT !.begun = TRUE, !.created = Objects \ bucket]
                 ELSE IF At("cutover")
                 THEN [ledger EXCEPT !.begun = TRUE, !.target = sibling.oid,
                                     !.old_generation = pointer.generation]
                 ELSE [ledger EXCEPT !.begun = TRUE]
    /\ UNCHANGED <<data, host, rollback, bound>>

\* A begun line that was never finished is found again, with its detail; what
\* the detail holds was planned before the effect.
begin ==
    /\ coordinator = "ready" /\ ledger.done < Len(PHASES) /\ ~At("database-restore")
    /\ coordinator' = IF ledger.begun THEN "resumed" ELSE "begun"
    /\ ledger' = IF ledger.begun THEN ledger
                 ELSE IF At("restore-main-objects")
                 THEN [ledger EXCEPT !.begun = TRUE, !.created = Objects \ bucket]
                 ELSE IF At("cutover")
                 THEN [ledger EXCEPT !.begun = TRUE, !.target = sibling.oid,
                                     !.old_generation = pointer.generation]
                 ELSE [ledger EXCEPT !.begun = TRUE]
    /\ UNCHANGED <<data, host, rollback, bound>>

finish ==
    /\ coordinator = "acted"
    /\ coordinator' = IF At("finalize") THEN "down" ELSE "ready"
    /\ ledger' = [ledger EXCEPT !.done = @ + 1, !.begun = FALSE,
                                !.allocated = IF At("sibling-allocation") THEN sibling.oid ELSE @]
    /\ UNCHANGED <<data, host, rollback, bound>>

\* Phases whose effect changes nothing that is modelled.
Plain ==
    /\ Acts("persist-offline") \/ Acts("roles-and-grants") \/ Acts("prepare-quarantine-readiness")
    /\ acted /\ untouched /\ UNCHANGED <<data, host>>

static_preflight ==
    /\ Acts("static-preflight") /\ acted
    /\ ledger' = [ledger EXCEPT !.generation = pointer.generation]
    /\ UNCHANGED <<data, host, rollback, bound>>

exclude ==
    /\ Acts("exclude-writers") /\ acted /\ untouched
    /\ writers' = {}
    /\ UNCHANGED <<data, host_marker, journal, pointer, candidate>>

-----------------------------------------------------------------------------
(* The host's marker.  Authority to launch is taken back before the marker *)
(* or the pointer changes, so that a crash between can only narrow it.     *)

Invalidates ==
    /\ \/ /\ coordinator \in {"begun", "resumed"}
          /\ \E p \in {"sibling-allocation", "candidate-health-marker", "cutover",
                       "quarantine-marker-and-grants", "normal-marker", "finalize"} : At(p)
       \/ coordinator = "resumed" /\ (\/ At("database-restore") \/ At("arm-candidate-capability")
                                      \/ At("start-candidate-backend"))
       \/ coordinator \in {"allocated", "rolling"}
    /\ journal = "armed" /\ journal' = "invalidated"
    /\ untouched
    /\ UNCHANGED <<coordinator, data, host_marker, pointer, writers, candidate>>

_replace(state, oid) ==
    /\ journal # "armed"
    /\ host_marker' = [state |-> state, oid |-> oid]

\* Mutant: a marker that is there already is not taken for the effect.
transition_once(state, from) ==
    /\ host_marker = [state |-> from, oid |-> sibling.oid]
    /\ _replace(state, sibling.oid)

transition_bound(state, from) ==
    /\ host_marker.oid = sibling.oid
    /\ \/ host_marker.state = state /\ UNCHANGED host_marker
       \/ host_marker.state = from /\ _replace(state, sibling.oid)

-----------------------------------------------------------------------------
(* The sibling database.                                                   *)

write_intent ==
    /\ \/ Acts("sibling-allocation")
       \/ At("database-restore") /\ coordinator = "resumed"
    /\ _replace("candidate-preparation", None)
    /\ coordinator' = "intended"
    /\ untouched /\ UNCHANGED <<data, journal, pointer, writers, candidate>>

\* A sibling that an interrupted attempt left behind is dropped and created
\* anew; one that does not say whose it is, is not touched.
allocate ==
    /\ coordinator = "intended"
    /\ IF sibling.oid = Old \/ sibling.owned
       THEN /\ sibling' = [oid |-> sibling.oid + 1, stage |-> Rank("empty"),
                           owned |-> FALSE, normal |-> FALSE]
            /\ coordinator' = "created" /\ UNCHANGED refused
       ELSE /\ refused' = "owner" /\ coordinator' = "down" /\ UNCHANGED sibling
    /\ UNCHANGED <<ledger, bucket, host, rollback, before, interruptions>>

\* COMMENT ON DATABASE is a statement of its own.
owner_marker ==
    /\ coordinator = "created" /\ coordinator' = "allocated"
    /\ sibling' = [sibling EXCEPT !.owned = TRUE]
    /\ untouched /\ UNCHANGED <<bucket, host>>

bind_database ==
    /\ coordinator = "allocated" /\ host_marker.oid = None
    /\ _replace("candidate-preparation", sibling.oid)
    /\ coordinator' = IF At("sibling-allocation") THEN "acted" ELSE "bound"
    /\ untouched /\ UNCHANGED <<data, journal, pointer, writers, candidate>>

interrupted ==
    /\ At("database-restore") /\ coordinator = "ready" /\ ledger.begun
    /\ coordinator' = "resumed"
    /\ untouched /\ UNCHANGED <<data, host>>

begin_restore ==
    /\ At("database-restore")
    /\ coordinator = "bound" \/ (coordinator = "ready" /\ ~ledger.begun)
    /\ coordinator' = "begun"
    /\ ledger' = [ledger EXCEPT !.begun = TRUE]
    /\ UNCHANGED <<data, host, rollback, bound>>

\* pg_restore fills an empty database table by table.
restore ==
    /\ At("database-restore")
    /\ \/ /\ coordinator = "begun" /\ sibling.stage = Rank("empty")
          /\ coordinator' = "restoring" /\ sibling' = [sibling EXCEPT !.stage = Rank("partial")]
       \/ /\ coordinator = "restoring"
          /\ acted /\ sibling' = [sibling EXCEPT !.stage = Rank("restored")]
    /\ untouched /\ UNCHANGED <<bucket, host>>

\* _advance moves the stage the sibling itself records, never back.
_advance(from, to) ==
    /\ sibling.stage >= Rank(from)
    /\ sibling' = IF sibling.stage < Rank(to) THEN [sibling EXCEPT !.stage = Rank(to)]
                                              ELSE sibling
    /\ acted /\ untouched /\ UNCHANGED <<bucket, host>>

rehydrate_pre_cutover_state == Acts("rehydrate") /\ _advance("restored", "rehydrated")
install_manifest_enforcement == Acts("install-fences") /\ _advance("rehydrated", "fenced")
verify_pre_cutover_state == Acts("verify-catalog") /\ _advance("fenced", "catalogued")

restore_main ==
    /\ Acts("restore-main-objects")
    /\ \/ Objects \subseteq bucket /\ acted /\ UNCHANGED bucket
       \/ \E o \in Objects \ bucket : bucket' = bucket \cup {o} /\ UNCHANGED coordinator
    /\ untouched /\ UNCHANGED <<sibling, host>>

-----------------------------------------------------------------------------
(* The candidate backend, let onto the sibling by one capability.          *)

candidate_health_marker ==
    /\ Acts("candidate-health-marker") /\ acted /\ untouched
    /\ transition_bound("candidate-health", "candidate-preparation")
    /\ UNCHANGED <<data, journal, pointer, writers, candidate>>

\* A launch that was interrupted is armed again, in place of a spent one.
arm_candidate_capability ==
    /\ \/ Acts("arm-candidate-capability") /\ acted
       \/ /\ At("start-candidate-backend") /\ coordinator = "resumed" /\ journal # "empty"
          /\ coordinator' = "armed"
    /\ host_marker = [state |-> "candidate-health", oid |-> sibling.oid]
    /\ journal # "armed" /\ journal' = "armed"
    /\ untouched /\ UNCHANGED <<data, host_marker, pointer, writers, candidate>>

\* Starting a candidate that runs already does nothing.
start_candidate_backend ==
    /\ At("start-candidate-backend") /\ coordinator \in {"begun", "armed"}
    /\ IF candidate = sibling.oid THEN acted /\ UNCHANGED candidate
                                  ELSE coordinator' = "launching" /\ candidate' = Starting
    /\ untouched /\ UNCHANGED <<data, host_marker, journal, pointer, writers>>

\* The candidate asks the host's socket; what it asks outlives the coordinator.
handle_connection ==
    /\ candidate = Starting
    /\ IF /\ journal = "armed" /\ host_marker.state = "candidate-health"
          /\ pointer.generation = ledger.generation
       THEN journal' = "consumed" /\ candidate' = host_marker.oid
       ELSE candidate' = None
            /\ journal' = IF journal = "armed" THEN "invalidated" ELSE journal
    /\ untouched /\ UNCHANGED <<coordinator, data, host_marker, pointer, writers>>

Launched ==
    /\ coordinator = "launching" /\ candidate # Starting
    /\ coordinator' = IF candidate = sibling.oid THEN "acted" ELSE "down"
    /\ untouched /\ UNCHANGED <<data, host>>

\* invalidate_expired, at the next poll of the socket.
invalidate_expired ==
    /\ journal = "armed" /\ interruptions < MaxInterruptions
    /\ journal' = "invalidated" /\ interruptions' = interruptions + 1
    /\ UNCHANGED <<ledger, coordinator, data, host_marker, pointer, writers, candidate,
                   rollback, before, refused>>

\* The answer of a probe is written to the ledger before it is looked at, so
\* that a "no" is final.
Answered(p, why, yes) ==
    /\ Acts(p)
    /\ \/ yes /\ acted /\ UNCHANGED <<ledger, refused, interruptions>>
       \/ /\ interruptions < MaxInterruptions /\ interruptions' = interruptions + 1
          /\ refused' = why /\ coordinator' = "down"
          /\ ledger' = [ledger EXCEPT !.done = @ + 1, !.begun = FALSE]
          /\ UNCHANGED sibling
    /\ UNCHANGED <<bucket, host, rollback, before>>

verify_quarantine ==
    Answered("verify-quarantine", "unverified",
             /\ candidate = sibling.oid /\ sibling.stage >= Rank("catalogued")
             /\ sibling' = [sibling EXCEPT !.stage = Rank("ready")])

-----------------------------------------------------------------------------
(* Cutover, and the way back to normal.                                    *)

\* Mutant: the pointer moves while a capability is out.
swap_only(detail_from, detail_to) ==
    /\ pointer.generation = detail_from
    /\ pointer' = [to |-> detail_to, generation |-> detail_from + 1]

write_pointer_atomic(detail_from, detail_to) ==
    /\ pointer.generation = detail_from /\ journal # "armed"
    /\ pointer' = [to |-> detail_to, generation |-> detail_from + 1]

journalled_cutover ==
    /\ Acts("cutover") /\ acted
    /\ IF coordinator = "resumed"
          /\ pointer = [to |-> ledger.target, generation |-> ledger.old_generation + 1]
       THEN UNCHANGED pointer
       ELSE write_pointer_atomic(ledger.old_generation, ledger.target)
    /\ untouched /\ UNCHANGED <<data, host_marker, journal, writers, candidate>>

quarantine_after_cutover ==
    /\ Acts("quarantine-marker-and-grants") /\ acted /\ untouched
    /\ transition_bound("quarantined-after-cutover", "candidate-health")
    /\ UNCHANGED <<data, journal, pointer, writers, candidate>>

acknowledge_recovery ==
    Answered("recovery-acknowledgement", "unacknowledged",
             sibling' = [sibling EXCEPT !.normal = TRUE])

normal_marker ==
    /\ Acts("normal-marker") /\ acted /\ untouched
    /\ transition_bound("normal", "quarantined-after-cutover")
    /\ UNCHANGED <<data, journal, pointer, writers, candidate>>

\* Ordinary processes open the database the pointer names.
start_normal ==
    /\ Acts("start-normal-writers") /\ acted /\ untouched
    /\ writers' = {pointer.to}
    /\ UNCHANGED <<data, host_marker, journal, pointer, candidate>>

finalize ==
    /\ Acts("finalize") /\ journal # "armed" /\ acted
    /\ untouched /\ UNCHANGED <<data, host>>

-----------------------------------------------------------------------------
(* Starts, deaths and the way back.                                        *)

\* A start finds its sibling by the line its allocation left.
run_compound_restore ==
    /\ coordinator = "down" /\ rollback = "none" /\ refused = "no"
    /\ ledger.done < Len(PHASES)
    /\ done_detail("exclude-writers") => writers = {}
    /\ IF done_detail("sibling-allocation") /\ sibling.oid # ledger.allocated
       THEN refused' = "identity" /\ UNCHANGED coordinator
       ELSE coordinator' = "ready" /\ UNCHANGED refused
    /\ UNCHANGED <<ledger, data, host, rollback, before, interruptions>>

OperatorStops ==
    /\ coordinator = "down" /\ rollback = "none" /\ ledger.done < Len(PHASES)
    /\ done_detail("exclude-writers") /\ writers # {} /\ writers' = {}
    /\ untouched
    /\ UNCHANGED <<coordinator, data, host_marker, journal, pointer, candidate>>

Crash ==
    /\ coordinator # "down" /\ coordinator' = "down"
    /\ interruptions < MaxInterruptions /\ interruptions' = interruptions + 1
    /\ UNCHANGED <<ledger, data, host, rollback, before, refused>>

rollback_compound_restore ==
    /\ coordinator = "down" /\ done_detail("cutover") /\ rollback # "done"
    /\ coordinator' = "rolling" /\ rollback' = "begun"
    /\ UNCHANGED <<ledger, data, host, bound>>

rollback_cutover ==
    /\ coordinator = "rolling" /\ coordinator' = "reversed"
    /\ IF pointer.to = Old /\ pointer.generation > ledger.old_generation + 1
       THEN UNCHANGED pointer
       ELSE /\ pointer = [to |-> ledger.target, generation |-> ledger.old_generation + 1]
            /\ write_pointer_atomic(pointer.generation, Old)
    /\ untouched /\ UNCHANGED <<data, host_marker, journal, writers, candidate>>

reverse_effects ==
    /\ coordinator = "reversed"
    /\ \/ \E o \in ledger.created \cap bucket :
             bucket' = bucket \ {o} /\ UNCHANGED <<coordinator, rollback>>
       \/ /\ ledger.created \cap bucket = {} /\ UNCHANGED bucket
          /\ rollback' = "done" /\ coordinator' = "down"
    /\ UNCHANGED <<ledger, sibling, host, bound>>

-----------------------------------------------------------------------------
CoordinatorStep ==
    \/ begin \/ finish \/ Plain \/ static_preflight \/ exclude \/ Invalidates
    \/ write_intent \/ allocate \/ owner_marker \/ bind_database \/ interrupted
    \/ begin_restore \/ restore \/ rehydrate_pre_cutover_state
    \/ install_manifest_enforcement \/ verify_pre_cutover_state \/ restore_main
    \/ candidate_health_marker \/ arm_candidate_capability \/ start_candidate_backend
    \/ Launched \/ verify_quarantine \/ journalled_cutover \/ quarantine_after_cutover
    \/ acknowledge_recovery \/ normal_marker \/ start_normal \/ finalize
    \/ rollback_cutover \/ reverse_effects

Next ==
    \/ CoordinatorStep \/ handle_connection \/ invalidate_expired
    \/ run_compound_restore \/ OperatorStops \/ Crash \/ rollback_compound_restore

\* What goes on by itself: the coordinator, the candidate's request, and an
\* operator who starts a run again until it ended.
GoesOn ==
    \/ CoordinatorStep \/ handle_connection \/ run_compound_restore \/ OperatorStops
    \/ rollback = "begun" /\ rollback_compound_restore

Spec == Init /\ [][Next]_vars

-----------------------------------------------------------------------------
\* compound_restore_coordinator.py, compound_restore_state.py: the deployment
\* is moved only to the run's own sibling, with the archive's data and objects
\* and its fences proved, however often the run died; and ordinary processes
\* write only to the database the pointer names, once a recovery onto it was
\* acknowledged.
CutoverProven ==
    /\ pointer.to # Old =>
          /\ pointer.to = sibling.oid /\ sibling.owned /\ sibling.stage = Rank("ready")
          /\ rollback = "none" => Objects \subseteq bucket
    /\ rollback = "none" /\ writers # {} =>
          /\ writers = {pointer.to}
          /\ pointer.to # Old =>
                host_marker = [state |-> "normal", oid |-> pointer.to] /\ sibling.normal

\* host_supervisor.py, host_capability_journal.py: while a launch capability is
\* out, the marker names the sibling as a candidate and the pointer has not
\* moved, so that no candidate is ever let onto another database.
CapabilityFenced ==
    /\ journal = "armed" =>
          /\ host_marker = [state |-> "candidate-health", oid |-> sibling.oid]
          /\ pointer = [to |-> Old, generation |-> ledger.generation]
    /\ candidate \notin {None, Starting} =>
          candidate = sibling.oid /\ sibling.stage >= Rank("catalogued")

\* compound_restore_cutover.py: a finished rollback leaves the pointer at the
\* database it was at, under a generation nobody used, and the bucket exactly
\* as it was before the run.
RollbackExact ==
    rollback = "done" =>
        /\ pointer.to = Old /\ pointer.generation > ledger.old_generation + 1
        /\ bucket = before

\* However often a run dies, the deployment is cut over as proved or left as it was.
CutoverFenced == CutoverProven /\ CapabilityFenced /\ RollbackExact

\* compound_restore_coordinator.py:53: a run that ended early is run again and
\* goes on.
Resumable == refused = "no"

Ended ==
    \/ rollback = "done"
    \/ rollback = "none" /\ (ledger.done = Len(PHASES) \/ refused # "no")
=============================================================================

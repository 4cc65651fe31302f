--------------------------- MODULE BackupArchives ---------------------------
(***************************************************************************)
(* Online archives of a deployment: built on demand or by the nightly run, *)
(* uploaded to a staging key, published under an immutable key, promoted   *)
(* by one transaction, reconciled after a crash, and purged.               *)
(*                                                                         *)
(* Builder, nightly run and reconciler take operation.lock of the host     *)
(* without waiting, so at most one of them is at work (holder); the kernel *)
(* gives the lock back when it dies.  The purger, the access switch and    *)
(* requests take no lock.  One step is one transaction or one call to the  *)
(* object store.                                                           *)
(*                                                                         *)
(* There is one makerspace; its access flag and its activation row change  *)
(* together, so the state of the row stands for both.  Its recipients stay *)
(* as they are, objects are written whole, and what an archive holds is    *)
(* left out, except whether the makerspace's rows are readable in it: they *)
(* are unless it was captured with the access switched off.                *)
(***************************************************************************)
EXTENDS Integers, FiniteSets

CONSTANTS
    Archives,      \* rows that may be created
    Established,   \* at most one of them: a deployment archive made before
    Scopes,        \* scopes asked for
    None,          \* no archive, no run
    MaxRuns,       \* nightly runs that open
    MaxSwitches,   \* changes of the access switch
    MaxExpiries,   \* archives whose retention ends
    MaxMishaps     \* deaths and calls that fail

ArchiveConstants ==
    IsFiniteSet(Archives) /\ Established \subseteq Archives /\ None \notin Archives

VARIABLES
    backup,        \* BackupArchive: status, scope, its run and that run's flag
    artifact,      \* BackupArtifactLedger: state, cleanup_pending and frozen facts
    staged,        \* archives with an object under the staging key
    published,     \* archives with an object under the final key
    activation,    \* B1ActivationState: state and effective artifact
    last_success,  \* PlatformBackupSettings.last_success_at: who set it
    backup_run,    \* the latest BackupRun and its coverage row
    holder,        \* the process that holds operation.lock
    leased,        \* BackupLease: the kind of process that took it, or "no"
    purger,        \* archive whose object the purger has deleted
    overdue,       \* archives whose expires_at has passed
    switches,
    mishaps

vars == <<backup, artifact, staged, published, activation, last_success,
               backup_run, holder, leased, purger, overdue, switches, mishaps>>

Open == {"pending", "staging_verified", "final_verified"}
Promoted == {"available", "superseded", "bytes_deleted"}
Protected == Promoted \cup {"final_verified"}

Promoting == {a \in Archives : backup[a].status = "promoting"}
Missing == {a \in Archives : backup[a].status = "absent"}
Deployment(a) == backup[a].scope = "deployment"

\* The main component is readable by the platform unless the switch was off.
Full(state) == state = "on"

NoFacts == [activation |-> "on", success |-> None, predecessor |-> None]
Idle == [task |-> "none", step |-> "none", archive |-> None, todo |-> {},
         doomed |-> None, facts |-> NoFacts]

Mishap == mishaps < MaxMishaps /\ mishaps' = mishaps + 1

\* The holder is at this step, and has no objects of a failed archive to delete.
At(step) == holder.step = step /\ holder.doomed = None
Goes(step) == holder' = [holder EXCEPT !.step = step]
Ends ==
    /\ holder' = Idle
    /\ leased' = IF holder.task = leased THEN "no" ELSE leased

Init ==
    /\ backup = [a \in Archives |->
                    [status |-> IF a \in Established THEN "available" ELSE "absent",
                     scope |-> "deployment", run |-> None, flag |-> TRUE]]
    /\ artifact = [a \in Archives |->
                      [state |-> IF a \in Established THEN "available" ELSE "absent",
                       promoted |-> IF a \in Established THEN 1 ELSE 0,
                       cleanup |-> FALSE, facts |-> NoFacts]]
    /\ staged = {} /\ published = Established
    /\ activation = [state |-> "on", effective |-> None]
    /\ last_success \in (IF Established = {} THEN {None} ELSE Established)
    /\ backup_run = [id |-> 0, status |-> "complete", flag |-> TRUE,
                     archive |-> None, covered |-> FALSE]
    /\ holder = Idle /\ leased = "no"
    /\ purger = None /\ overdue = {}
    /\ switches = 0 /\ mishaps = 0

-----------------------------------------------------------------------------
(* Requests and the access switch.                                         *)

rows == <<backup, artifact, backup_run, last_success>>
objects == <<staged, published>>
others == <<purger, overdue>>

\* Rows that the run at work has yet to create (a bound: it finds them).
Reserved ==
    IF holder.task # "schedule" \/ holder.step \in {"sweep", "open", "window", "finalize"}
    THEN 0
    ELSE IF holder.archive = None THEN IF backup_run.flag THEN 1 ELSE 2
    ELSE IF ~backup_run.flag /\ Deployment(holder.archive) THEN 1 ELSE 0

create_archive(a, scope) ==
    /\ a \in Missing /\ Cardinality(Missing) > Reserved
    /\ backup' = [backup EXCEPT ![a] = [@ EXCEPT !.status = "pending", !.scope = scope]]
    /\ UNCHANGED <<artifact, objects, activation, last_success, backup_run, holder, leased,
                   others, switches, mishaps>>

\* The broker refuses the task: nobody has claimed the row.
fail_archive_dispatch(a) ==
    /\ backup[a].status = "pending" /\ backup[a].run = None
    /\ backup' = [backup EXCEPT ![a].status = "failed"]
    /\ Mishap
    /\ UNCHANGED <<artifact, objects, activation, last_success, backup_run, holder, leased,
                   others, switches>>

set_superadmin_access ==
    /\ switches < MaxSwitches
    /\ switches' = switches + 1
    /\ activation' = [state |-> IF activation.state = "on" THEN "off_pending" ELSE "on",
                      effective |-> None]
    /\ UNCHANGED <<rows, objects, holder, leased, others, mishaps>>

-----------------------------------------------------------------------------
(* Failing an archive: the rows by one transaction, its objects afterwards. *)

\* What _commit_archive_failed does to the rows of a, and which archive is left
\* with objects to delete.
Failed(a) ==
    /\ backup' = [backup EXCEPT ![a].status = "failed"]
    /\ artifact' = IF artifact[a].state \in Open
                   THEN [artifact EXCEPT ![a].state = "failed", ![a].cleanup = TRUE]
                   ELSE artifact

_fail_archive(a, step) ==
    IF backup[a].status \in {"running", "promoting"} /\ artifact[a].state \notin Protected
    THEN /\ Failed(a)
         /\ holder' = [holder EXCEPT !.step = step, !.doomed = a]
    ELSE /\ Goes(step)
         /\ UNCHANGED <<backup, artifact>>

\* The objects of the failed archive are deleted; a refused deletion is not
\* looked at.
DeleteFailed ==
    /\ holder.doomed # None
    /\ \/ /\ staged' = staged \ {holder.doomed}
          /\ published' = published \ {holder.doomed}
          /\ UNCHANGED mishaps
       \/ /\ staged' = staged \ {holder.doomed}
          /\ Mishap /\ UNCHANGED published
       \/ /\ published' = published \ {holder.doomed}
          /\ Mishap /\ UNCHANGED staged
    /\ holder' = [holder EXCEPT !.doomed = None]
    /\ UNCHANGED <<rows, activation, leased, others, switches>>

-----------------------------------------------------------------------------
(* Taking the lock; what the last owner left PROMOTING is failed first.    *)

Acquires(task, a, step, todo) ==
    /\ holder.task = "none"
    /\ holder' = [Idle EXCEPT !.task = task, !.archive = a, !.step = step, !.todo = todo]
    /\ UNCHANGED <<rows, objects, activation, leased, others, switches, mishaps>>

\* The task of a request, delivered once or again.
run_archive(a) ==
    /\ backup[a].run = None /\ backup[a].status # "absent"
    /\ Acquires("demand", a, "sweep", Promoting)

schedule_deployment_backup == Acquires("schedule", None, "sweep", Promoting)

reconcile_artifact_uploads ==
    Acquires("reconcile", None, "inspect", {a \in Archives : artifact[a].state \in Open})

sweep_stale_promotions ==
    /\ At("sweep")
    /\ \/ \E a \in holder.todo :
             IF artifact[a].state \in Protected
             THEN /\ holder' = [holder EXCEPT !.todo = @ \ {a}]
                  /\ UNCHANGED <<backup, artifact>>
             ELSE /\ Failed(a)
                  /\ holder' = [holder EXCEPT !.todo = @ \ {a}, !.doomed = a]
       \/ /\ holder.todo = {}
          /\ Goes(IF holder.task = "demand" THEN "claim" ELSE "open")
          /\ UNCHANGED <<backup, artifact>>
    /\ UNCHANGED <<objects, activation, last_success, backup_run, leased, others, switches,
                   mishaps>>

-----------------------------------------------------------------------------
(* The nightly run.                                                        *)

_fail_stale_runs ==
    /\ At("open")
    /\ backup_run' = IF backup_run.status = "running"
                     THEN [backup_run EXCEPT !.status = "failed"] ELSE backup_run
    /\ leased' = IF backup_run.status = "running" /\ leased = "schedule"
                 THEN "no" ELSE leased
    /\ Goes("window")
    /\ UNCHANGED <<backup, artifact, last_success, objects, activation, others, switches,
                   mishaps>>

\* Not due, or switched off.
NotDue ==
    /\ At("window")
    /\ holder' = Idle
    /\ UNCHANGED <<rows, objects, activation, leased, others, switches, mishaps>>

\* The bound asks for the rows that the run will need.
open_run ==
    /\ At("window")
    /\ backup_run.id < MaxRuns
    /\ Cardinality(Missing) >= IF Full(activation.state) THEN 1 ELSE 2
    /\ backup_run' = [id |-> backup_run.id + 1, flag |-> Full(activation.state),
                      status |-> IF leased = "no" THEN "running" ELSE "failed",
                      archive |-> None, covered |-> FALSE]
    /\ leased' = IF leased = "no" THEN "schedule" ELSE leased
    /\ holder' = IF leased = "no" THEN [holder EXCEPT !.step = "create"] ELSE Idle
    /\ UNCHANGED <<backup, artifact, last_success, objects, activation, others, switches,
                   mishaps>>

\* First the archive of the deployment, then one of the makerspace if the
\* platform had no access when the run was opened.
_build_run_archives(a) ==
    /\ At("create") /\ a \in Missing
    /\ LET first == holder.archive = None IN
       /\ backup' = [backup EXCEPT ![a] =
                        [status |-> "pending",
                         scope |-> IF first THEN "deployment" ELSE "makerspace",
                         run |-> backup_run.id, flag |-> backup_run.flag]]
       /\ backup_run' = IF backup_run.flag = first
                        THEN [backup_run EXCEPT !.archive = a] ELSE backup_run
    /\ holder' = [holder EXCEPT !.archive = a, !.step = "claim"]
    /\ UNCHANGED <<artifact, last_success, objects, activation, leased, others, switches,
                   mishaps>>

\* After an archive, whatever became of it.
_mark_coverage_covered ==
    /\ At("built") /\ holder.task = "schedule"
    /\ backup_run' =
          IF backup_run.archive = holder.archive
             /\ backup[holder.archive].status = "available"
          THEN [backup_run EXCEPT !.covered = TRUE] ELSE backup_run
    /\ Goes(IF ~backup_run.flag /\ Deployment(holder.archive) THEN "create" ELSE "finalize")
    /\ UNCHANGED <<backup, artifact, last_success, objects, activation, leased, others,
                   switches, mishaps>>

finalize_run ==
    /\ At("finalize")
    /\ LET a == backup_run.archive
           complete == /\ backup_run.covered /\ a \notin overdue
                       /\ backup[a].status = "available"
       IN /\ backup_run' = [backup_run EXCEPT
                               !.status = IF complete THEN "complete" ELSE "failed"]
          /\ last_success' = IF complete THEN backup_run.id ELSE last_success
    /\ Ends
    /\ UNCHANGED <<backup, artifact, objects, activation, others, switches, mishaps>>

_fail_run ==
    /\ holder.task = "schedule" /\ holder.doomed = None
    /\ holder.step \in {"create", "built", "finalize"}
    /\ backup_run' = [backup_run EXCEPT !.status = "failed"]
    /\ Mishap /\ Ends
    /\ UNCHANGED <<backup, artifact, last_success, objects, activation, others, switches>>

-----------------------------------------------------------------------------
(* Building one archive.                                                   *)

\* A builder on demand takes the lease first, and leaves the row PENDING when
\* the lease of a dead process has not lapsed.
_claim_archive ==
    /\ At("claim")
    /\ LET a == holder.archive
           free == holder.task = "schedule" \/ leased = "no"
           claims == free /\ backup[a].status = "pending"
       IN /\ backup' = IF claims THEN [backup EXCEPT ![a].status = "running"] ELSE backup
          /\ leased' = IF claims THEN holder.task ELSE leased
          /\ holder' = IF claims THEN [holder EXCEPT !.step = "capture"] ELSE Idle
    /\ UNCHANGED <<artifact, last_success, backup_run, objects, activation, others, switches,
                   mishaps>>

\* An archive of a run holds a readable makerspace only for a run that is open
\* and saw it readable.
RunHolds(a, state) ==
    backup[a].run # None =>
        /\ backup[a].flag = Full(state)
        /\ Full(state) => backup_run.id = backup[a].run /\ backup_run.status = "running"

\* The predecessor is the artifact promoted last among those still current.
predecessor_snapshot ==
    LET current == {a \in Archives : artifact[a].state = "available"} IN
    IF current = {} THEN None
    ELSE CHOOSE a \in current :
            \A b \in current : artifact[b].promoted <= artifact[a].promoted

build_archive ==
    /\ At("capture")
    /\ LET a == holder.archive IN
       IF Deployment(a) /\ Full(activation.state) /\ ~RunHolds(a, activation.state)
       THEN _fail_archive(a, "built")
       ELSE /\ holder' = [holder EXCEPT
                  !.step = IF Deployment(a) THEN "claim_promotion" ELSE "upload",
                  !.facts = [activation |-> activation.state, success |-> last_success,
                             predecessor |-> predecessor_snapshot]]
            /\ UNCHANGED <<backup, artifact>>
    /\ UNCHANGED <<last_success, backup_run, objects, activation, leased, others, switches,
                   mishaps>>

_claim_promotion ==
    /\ At("claim_promotion")
    /\ backup' = [backup EXCEPT ![holder.archive].status = "promoting"]
    /\ Goes(IF Deployment(holder.archive) THEN "persist" ELSE "publish")
    /\ UNCHANGED <<artifact, last_success, backup_run, objects, activation, leased, others,
                   switches, mishaps>>

persist_pending ==
    /\ At("persist")
    /\ artifact' = [artifact EXCEPT ![holder.archive] =
                        [@ EXCEPT !.state = "pending", !.facts = holder.facts]]
    /\ Goes("upload")
    /\ UNCHANGED <<backup, last_success, backup_run, objects, activation, leased, others,
                   switches, mishaps>>

upload_staging ==
    /\ At("upload")
    /\ staged' = staged \cup {holder.archive}
    /\ Goes(IF Deployment(holder.archive) THEN "stage" ELSE "claim_promotion")
    /\ UNCHANGED <<rows, published, activation, leased, others, switches, mishaps>>

\* No other state is met here: bytes that were verified as final are found first.
mark_staging_verified ==
    /\ At("stage") /\ holder.archive \in staged
    /\ artifact[holder.archive].state \in {"pending", "staging_verified"}
    /\ artifact' = [artifact EXCEPT ![holder.archive].state = "staging_verified"]
    /\ Goes("publish")
    /\ UNCHANGED <<backup, last_success, backup_run, objects, activation, leased, others,
                   switches, mishaps>>

\* The final key is written only while it does not exist.
create_final_from_staging ==
    /\ At("publish") /\ holder.archive \in staged \ published
    /\ published' = published \cup {holder.archive}
    /\ Goes(IF Deployment(holder.archive) THEN "finish" ELSE "complete")
    /\ UNCHANGED <<rows, staged, activation, leased, others, switches, mishaps>>

mark_final_verified ==
    /\ At("finish") /\ holder.archive \in published
    /\ artifact' = [artifact EXCEPT ![holder.archive].state = "final_verified"]
    /\ Goes("promote")
    /\ UNCHANGED <<backup, last_success, backup_run, objects, activation, leased, others,
                   switches, mishaps>>

\* A variant that does not look at the switch again.
validate_frozen_state_any_access(a) ==
    LET facts == artifact[a].facts IN
    /\ last_success = facts.success
    /\ facts.predecessor # None => artifact[facts.predecessor].state = "available"
    /\ RunHolds(a, facts.activation)

\* Nothing that the capture froze has changed.
validate_frozen_state(a) ==
    LET facts == artifact[a].facts IN
    /\ activation.state = facts.activation
    /\ last_success = facts.success
    /\ facts.predecessor # None => artifact[facts.predecessor].state = "available"
    /\ RunHolds(a, facts.activation)

\* What promotion makes of the ledger: the artifact is current, and the one it
\* was captured after no longer is.
PromotedLedger(a) ==
    [b \in Archives |->
        CASE b = a -> [artifact[a] EXCEPT !.state = "available", !.cleanup = TRUE,
                          !.promoted = 1 + Cardinality({c \in Archives :
                                                artifact[c].promoted > 0})]
          [] b = artifact[a].facts.predecessor -> [artifact[b] EXCEPT !.state = "superseded"]
          [] OTHER -> artifact[b]]

promote_verified_artifact ==
    /\ At("promote")
    /\ LET a == holder.archive IN
       IF backup[a].status \in {"running", "promoting"} /\ validate_frozen_state(a)
       THEN /\ artifact' = PromotedLedger(a)
            /\ activation' = IF activation.state = "off_pending"
                             THEN [state |-> "off_effective", effective |-> a]
                             ELSE activation
            /\ backup' = [backup EXCEPT ![a].status = "available"]
            /\ last_success' = IF backup[a].run = None THEN a ELSE last_success
            /\ Goes("unstage")
       ELSE /\ Goes("tombstone")
            /\ UNCHANGED <<artifact, activation, backup, last_success>>
    /\ UNCHANGED <<backup_run, objects, leased, others, switches, mishaps>>

\* An archive of the makerspace has no ledger row.
_commit_archive_available ==
    /\ At("complete")
    /\ backup' = [backup EXCEPT ![holder.archive].status = "available"]
    /\ last_success' = IF backup[holder.archive].run = None
                       THEN holder.archive ELSE last_success
    /\ Goes("unstage")
    /\ UNCHANGED <<artifact, backup_run, objects, activation, leased, others, switches,
                   mishaps>>

DeleteStaging ==
    /\ At("unstage")
    /\ \/ /\ staged' = staged \ {holder.archive}
          /\ Goes(IF Deployment(holder.archive) THEN "clean" ELSE "built")
          /\ UNCHANGED mishaps
       \/ Mishap /\ Goes("built") /\ UNCHANGED staged
    /\ UNCHANGED <<rows, published, activation, leased, others, switches>>

mark_cleanup_complete ==
    /\ At("clean")
    /\ artifact' = [artifact EXCEPT ![holder.archive].cleanup = FALSE]
    /\ Goes("built")
    /\ UNCHANGED <<backup, last_success, backup_run, objects, activation, leased, others,
                   switches, mishaps>>

\* A builder on demand is done.
Built ==
    /\ At("built") /\ holder.task = "demand"
    /\ Ends
    /\ UNCHANGED <<rows, objects, activation, others, switches, mishaps>>

\* A call raises, before or after the object was written.
Raises ==
    /\ holder.doomed = None
    /\ holder.step \in {"capture", "claim_promotion", "persist", "upload", "stage",
                        "publish", "finish", "promote", "complete", "clean"}
    /\ Mishap
    /\ \/ UNCHANGED objects
       \/ /\ holder.step = "upload"
          /\ staged' = staged \cup {holder.archive} /\ UNCHANGED published
       \/ /\ holder.step = "publish"
          /\ published' = published \cup {holder.archive} /\ UNCHANGED staged
    /\ IF holder.task = "reconcile"
       THEN Goes("built") /\ UNCHANGED <<backup, artifact>>
       ELSE _fail_archive(holder.archive, "built")
    /\ UNCHANGED <<last_success, backup_run, activation, leased, others, switches>>

\* A builder fails the archive unless its final object is verified, which it
\* leaves to the reconciler.
BuilderConflict ==
    /\ At("tombstone") /\ holder.task # "reconcile"
    /\ _fail_archive(holder.archive, "built")
    /\ UNCHANGED <<last_success, backup_run, objects, activation, leased, others, switches,
                   mishaps>>

-----------------------------------------------------------------------------
(* The reconciler.                                                         *)

_reconcile_pending(a) ==
    /\ At("inspect") /\ a \in holder.todo
    /\ holder' = [holder EXCEPT !.todo = @ \ {a}, !.archive = a,
                     !.step = IF a \in published THEN "finish"
                              ELSE IF a \in staged THEN "stage" ELSE "tombstone"]
    /\ UNCHANGED <<rows, objects, activation, leased, others, switches, mishaps>>

\* mark_failed, a transaction of its own.
_tombstone ==
    /\ At("tombstone") /\ holder.task = "reconcile"
    /\ artifact' = [artifact EXCEPT ![holder.archive].state = "failed",
                                    ![holder.archive].cleanup = TRUE]
    /\ Goes("bury")
    /\ UNCHANGED <<backup, last_success, backup_run, objects, activation, leased, others,
                   switches, mishaps>>

\* Its archive is PROMOTING, so the other branch of the code is not reached.
Bury ==
    /\ At("bury")
    /\ _fail_archive(holder.archive, "built")
    /\ UNCHANGED <<last_success, backup_run, objects, activation, leased, others, switches,
                   mishaps>>

NextArtifact ==
    /\ At("built") /\ holder.task = "reconcile"
    /\ holder' = [holder EXCEPT !.step = "inspect", !.archive = None]
    /\ UNCHANGED <<rows, objects, activation, leased, others, switches, mishaps>>

\* A variant that forgets the archives that failed.
Retained_promoted == {a \in Archives :
                         artifact[a].cleanup /\ artifact[a].state \in {"available", "superseded"}}

\* Then the rows with something left to delete.
Retained == {a \in Archives :
                artifact[a].cleanup /\ artifact[a].state \in {"available", "superseded", "failed"}}

StartCleanup ==
    /\ At("inspect") /\ holder.todo = {}
    /\ holder' = [holder EXCEPT !.step = "tidy", !.todo = Retained]
    /\ UNCHANGED <<rows, objects, activation, leased, others, switches, mishaps>>

\* A variant that deletes what was published, whatever became of the archive.
RetryCleanup_everything(a) ==
    /\ At("tidy") /\ a \in holder.todo
    /\ staged' = staged \ {a} /\ published' = published \ {a}
    /\ holder' = [holder EXCEPT !.todo = @ \ {a}, !.archive = a, !.step = "tidied"]
    /\ UNCHANGED <<rows, activation, leased, others, switches, mishaps>>

\* What was published goes only if the archive failed.
Kept(a) == IF artifact[a].state = "failed" THEN published \ {a} ELSE published

RetryCleanup(a) ==
    /\ At("tidy") /\ a \in holder.todo
    /\ \/ /\ staged' = staged \ {a} /\ published' = Kept(a)
          /\ holder' = [holder EXCEPT !.todo = @ \ {a}, !.archive = a, !.step = "tidied"]
          /\ UNCHANGED mishaps
       \/ /\ Mishap
          /\ holder' = [holder EXCEPT !.todo = @ \ {a}]
          /\ \/ staged' \in {staged, staged \ {a}} /\ UNCHANGED published
             \/ published' = Kept(a) /\ UNCHANGED staged
    /\ UNCHANGED <<rows, activation, leased, others, switches>>

CleanupRetried ==
    /\ At("tidied")
    /\ artifact' = [artifact EXCEPT ![holder.archive].cleanup = FALSE]
    /\ Goes("tidy")
    /\ UNCHANGED <<backup, last_success, backup_run, objects, activation, leased, others,
                   switches, mishaps>>

Reconciled ==
    /\ At("tidy") /\ holder.todo = {}
    /\ holder' = Idle
    /\ UNCHANGED <<rows, objects, activation, leased, others, switches, mishaps>>

-----------------------------------------------------------------------------
(* Expiry, the purger and faults.                                          *)

Expires(a) ==
    /\ backup[a].status = "available" /\ a \notin overdue
    /\ Cardinality(overdue) < MaxExpiries
    /\ overdue' = overdue \cup {a}
    /\ UNCHANGED <<rows, objects, activation, holder, leased, purger, switches, mishaps>>

\* The object goes first; a refused deletion leaves the row for the next night.
purge_expired_archives(a) ==
    /\ purger = None /\ a \in overdue /\ backup[a].status = "available"
    /\ purger' = a
    /\ published' = published \ {a}
    /\ UNCHANGED <<rows, staged, activation, holder, leased, overdue, switches, mishaps>>

mark_managed_bytes_deleted ==
    /\ purger # None /\ artifact[purger].state \in {"available", "superseded"}
    /\ artifact' = [artifact EXCEPT ![purger].state = "bytes_deleted",
                                    ![purger].cleanup = FALSE]
    /\ UNCHANGED <<backup, last_success, backup_run, objects, activation, holder, leased,
                   others, switches, mishaps>>

\* The row is deleted, or kept as EXPIRED for the restores that name it.
PurgeRow ==
    /\ purger # None /\ artifact[purger].state \notin {"available", "superseded"}
    /\ backup' = [backup EXCEPT ![purger].status = "expired"]
    /\ purger' = None
    /\ UNCHANGED <<artifact, last_success, backup_run, objects, activation, holder, leased,
                   overdue, switches, mishaps>>

Dies ==
    /\ Mishap
    /\ \/ holder.task # "none" /\ holder' = Idle /\ UNCHANGED purger
       \/ purger # None /\ purger' = None /\ UNCHANGED holder
    /\ UNCHANGED <<rows, objects, activation, leased, overdue, switches>>

\* Only the lease of a dead process can lapse: the lock keeps the others out.
LeaseLapses ==
    /\ leased # "no" /\ holder.task = "none"
    /\ leased' = "no"
    /\ UNCHANGED <<rows, objects, activation, holder, others, switches, mishaps>>

-----------------------------------------------------------------------------
\* What the process with the lock does next.
Works ==
    \/ DeleteFailed \/ sweep_stale_promotions
    \/ _fail_stale_runs \/ NotDue \/ open_run \/ _mark_coverage_covered \/ finalize_run
    \/ \E a \in Archives : _build_run_archives(a)
    \/ _claim_archive \/ build_archive \/ _claim_promotion \/ persist_pending
    \/ upload_staging \/ mark_staging_verified \/ create_final_from_staging
    \/ mark_final_verified \/ promote_verified_artifact \/ _commit_archive_available
    \/ DeleteStaging \/ mark_cleanup_complete \/ Built \/ BuilderConflict
    \/ \E a \in Archives : _reconcile_pending(a) \/ RetryCleanup(a)
    \/ _tombstone \/ Bury \/ NextArtifact \/ StartCleanup \/ CleanupRetried \/ Reconciled

Asked ==
    \/ \E a \in Archives, scope \in Scopes : create_archive(a, scope)
    \/ \E a \in Archives : fail_archive_dispatch(a) \/ run_archive(a)
    \/ set_superadmin_access

Purges ==
    \/ \E a \in Archives : Expires(a) \/ purge_expired_archives(a)
    \/ mark_managed_bytes_deleted \/ PurgeRow

Next ==
    \/ Asked \/ Works \/ Purges
    \/ schedule_deployment_backup \/ reconcile_artifact_uploads
    \/ Raises \/ _fail_run \/ Dies \/ LeaseLapses

Spec == Init /\ [][Next]_vars

(***************************************************************************)
(* Celery beat starts the nightly run and the reconciler again and again,  *)
(* and what holds the lock goes on or dies; a start that finds the lock    *)
(* taken changes nothing, hence strong fairness.                           *)
(***************************************************************************)
FairSpec ==
    /\ Spec
    /\ WF_vars(Works)
    /\ SF_vars(schedule_deployment_backup)
    /\ SF_vars(reconcile_artifact_uploads)

-----------------------------------------------------------------------------
\* Type correctness.
Statuses == {"absent", "pending", "running", "promoting", "available", "failed", "expired"}
Switch == {"on", "off_pending", "off_effective"}
Facts == [activation : Switch, success : Archives \cup Nat \cup {None},
          predecessor : Archives \cup {None}]
BackupRows == [status : Statuses, scope : Scopes \cup {"deployment", "makerspace"},
               run : Nat \cup {None}, flag : BOOLEAN]
LedgerRows == [state : Open \cup Promoted \cup {"absent", "failed"}, promoted : Nat,
               cleanup : BOOLEAN, facts : Facts]
Steps == {"none", "sweep", "open", "window", "create", "finalize", "claim", "capture",
          "claim_promotion", "persist", "upload", "stage", "publish", "finish", "promote",
          "complete", "unstage", "clean", "built", "tombstone", "inspect", "bury", "tidy",
          "tidied"}
Holders == [task : {"none", "demand", "schedule", "reconcile"}, step : Steps,
            archive : Archives \cup {None}, todo : SUBSET Archives,
            doomed : Archives \cup {None}, facts : Facts]
TypeOK ==
    /\ backup \in [Archives -> BackupRows] /\ artifact \in [Archives -> LedgerRows]
    /\ staged \subseteq Archives /\ published \subseteq Archives
    /\ activation \in [state : Switch, effective : Archives \cup {None}]
    /\ last_success \in Archives \cup Nat \cup {None}
    /\ backup_run \in [id : Nat, status : {"running", "complete", "failed"}, flag : BOOLEAN,
                       archive : Archives \cup {None}, covered : BOOLEAN]
    /\ holder \in Holders /\ leased \in {"no", "demand", "schedule"}
    /\ purger \in Archives \cup {None} /\ overdue \subseteq Archives
    /\ switches \in Nat /\ mishaps \in Nat

\* An archive that can be downloaded has its object; the rows agree; and a
\* ledger row with nothing left to clean up left no object behind
\* (services_archives.py, reconciliation.py, services_access.py).
ArchivesBacked ==
    \A a \in Archives :
        /\ backup[a].status = "available" /\ a \notin overdue => a \in published
        /\ artifact[a].state \in {"available", "superseded"} =>
              backup[a].status = "available"
        /\ ~artifact[a].cleanup =>
              /\ artifact[a].state = "failed" => a \notin staged \cup published
              /\ artifact[a].state \in {"available", "superseded"} => a \notin staged

\* Promotion never forks the history: no artifact has two successors, and one
\* that has a successor is no longer current (promotion.py,
\* promotion_validation.py).
OneLineage ==
    \A a \in Archives :
        LET p == artifact[a].facts.predecessor IN
        artifact[a].state \in Promoted /\ p # None =>
            /\ artifact[p].state \in Promoted \ {"available"}
            /\ artifact[p].promoted < artifact[a].promoted
            /\ \A b \in Archives \ {a} :
                  artifact[b].state \in Promoted => artifact[b].facts.predecessor # p

\* An exclusion in effect rests on an artifact that was promoted and does not
\* show the makerspace, and nothing that was promoted after it does.
ExclusionEarned ==
    activation.state = "off_effective" =>
        /\ artifact[activation.effective].state \in Promoted
        /\ artifact[activation.effective].facts.activation = "off_pending"
        /\ \A a \in Archives :
              artifact[a].promoted >= artifact[activation.effective].promoted
                  => ~Full(artifact[a].facts.activation)

\* Whatever was being promoted or deleted is finished in the end.
Unsettled(a) ==
    \/ backup[a].status = "promoting"
    \/ artifact[a].state \in Open
    \/ artifact[a].cleanup
ArchivesSettle == \A a \in Archives : Unsettled(a) ~> ~Unsettled(a)
=============================================================================

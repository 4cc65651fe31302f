----------------------------- MODULE DataExport -----------------------------
(***************************************************************************)
(* Exports of a makerspace's data.  A request creates a job and publishes  *)
(* a message; a process of the Celery workers claims the job, builds the   *)
(* archive, uploads it and finalizes the job; a periodic sweep retires     *)
(* what never finished and purges what expired.  Row locks last one        *)
(* transaction; an advisory lock on the object key spans the calls to the  *)
(* object store.  Messages are acknowledged late: the message of a process *)
(* that dies is delivered again.                                           *)
(*                                                                         *)
(* All archives have size one.                                             *)
(***************************************************************************)
EXTENDS Integers, FiniteSets

CONSTANTS
    Exports,     \* ids of jobs
    Processes,   \* processes of the Celery workers: they run and they sweep
    Quota,       \* a finite storage limit
    MaxFaults,   \* bound on deaths and on deletions the store refuses
    MaxLimits,   \* bound on changes of the storage limit
    NoExport

VARIABLES
    jobs,        \* the DataExportJob rows
    dispatch,    \* where the request that created each job is
    messages,    \* jobs whose message is in the broker
    procs,       \* what each process does, for which job
    objects,     \* jobs whose archive is in the bucket
    stored,      \* the makerspace's storage_bytes_used
    debited,     \* jobs add_storage really debited (history)
    limited,     \* is the storage limit finite?
    limitings,   \* changes of it so far
    refusals     \* deaths and refused deletions so far

vars == <<jobs, dispatch, messages, procs, objects, stored, debited, limited,
          limitings, refusals>>
quota == <<stored, debited, limited, limitings>>

Live == {"pending", "running", "available", "failed"}
Idle == [task |-> "none", pc |-> "idle", job |-> NoExport]
LockHeld == {"uploading", "cleaning", "recovering", "freeing"}

TypeOK ==
    /\ jobs \in [Exports -> [status : Live \cup {"absent", "purged"}, late : BOOLEAN,
                             expired : BOOLEAN, accounted : 0..1,
                             link : {"none", "issued", "used"}]]
    /\ dispatch \in [Exports -> {"none", "publishing", "unsure", "done"}]
    /\ messages \subseteq Exports /\ objects \subseteq Exports
    /\ procs \in [Processes -> [task : {"none", "run", "sweep"}, pc : {"idle", "building", "uploaded", "failing",
                                      "expiring", "purging"} \cup LockHeld,
                                job : Exports \cup {NoExport}]]
    /\ stored \in 0..Quota /\ debited \subseteq Exports
    /\ limited \in BOOLEAN /\ limitings \in 0..MaxLimits /\ refusals \in 0..MaxFaults

Init ==
    /\ jobs = [j \in Exports |-> [status |-> "absent", late |-> FALSE, expired |-> FALSE,
                                  accounted |-> 0, link |-> "none"]]
    /\ dispatch = [j \in Exports |-> "none"]
    /\ messages = {} /\ objects = {}
    /\ procs = [p \in Processes |-> Idle]
    /\ stored = 0 /\ debited = {} /\ limited = TRUE
    /\ limitings = 0 /\ refusals = 0

-----------------------------------------------------------------------------
goes(p, pc) == procs' = [procs EXCEPT ![p].pc = pc]
starts(p, task, pc, j) ==
    /\ procs[p].pc = "idle"
    /\ procs' = [procs EXCEPT ![p] = [task |-> task, pc |-> pc, job |-> j]]

export_object_lock(j) ==
    \A p \in Processes : procs[p].job = j => procs[p].pc \notin LockHeld

\* The task returns; only now is the message of a run acknowledged.
returns(p) ==
    /\ procs' = [procs EXCEPT ![p] = Idle]
    /\ messages' = IF procs[p].task = "run" THEN messages \ {procs[p].job} ELSE messages

_mark_failed_locked(j) ==
    jobs' = [jobs EXCEPT ![j].status = "failed", ![j].link = "none"]

require_running(j) == jobs[j].status = "running" /\ ~jobs[j].late

\* The bucket deletes the object (a missing one too), or refuses.
delete_object(j, ok) ==
    /\ objects' = IF ok THEN objects \ {j} ELSE objects
    /\ ~ok => refusals < MaxFaults
    /\ refusals' = IF ok THEN refusals ELSE refusals + 1

-----------------------------------------------------------------------------
(* The request.                                                            *)

create_export_job(j) ==
    /\ jobs[j].status = "absent"
    /\ jobs' = [jobs EXCEPT ![j].status = "pending"]
    /\ dispatch' = [dispatch EXCEPT ![j] = "publishing"]
    /\ UNCHANGED <<messages, procs, objects, quota, refusals>>

\* run_data_export_task.delay: accepted, refused, accepted without a reply; or
\* the request dies first.
delay(j) ==
    /\ dispatch[j] = "publishing"
    /\ \E accepted \in BOOLEAN, reply \in {"done", "unsure"} :
          /\ messages' = IF accepted THEN messages \cup {j} ELSE messages
          /\ dispatch' = [dispatch EXCEPT ![j] = reply]
    /\ UNCHANGED <<jobs, procs, objects, quota, refusals>>

\* An ambiguous publish error retires only a job nobody has claimed.
fail_dispatch(j) ==
    /\ dispatch[j] = "unsure"
    /\ dispatch' = [dispatch EXCEPT ![j] = "done"]
    /\ IF jobs[j].status = "pending" THEN _mark_failed_locked(j) ELSE UNCHANGED jobs
    /\ UNCHANGED <<messages, procs, objects, quota, refusals>>

-----------------------------------------------------------------------------
(* The producer.                                                           *)

Overdue(j) == jobs[j].status = "running" /\ jobs[j].late

\* run_export_job up to the claim: a redelivered message retires an abandoned
\* claim and never starts a second producer.
_claim_job(p, j) ==
    /\ j \in messages
    /\ \/ /\ Overdue(j)
          /\ starts(p, "run", "expiring", j)
          /\ _mark_failed_locked(j) /\ UNCHANGED messages
       \/ /\ jobs[j].status = "pending" /\ ~jobs[j].expired
          /\ starts(p, "run", "building", j)
          /\ jobs' = [jobs EXCEPT ![j].status = "running"] /\ UNCHANGED messages
       \/ /\ procs[p].pc = "idle" /\ UNCHANGED procs
          /\ messages' = messages \ {j}
          /\ \/ /\ jobs[j].status = "pending" /\ jobs[j].expired
                /\ _mark_failed_locked(j)
             \/ jobs[j].status # "pending" /\ ~Overdue(j) /\ UNCHANGED jobs
    /\ UNCHANGED <<dispatch, objects, quota, refusals>>

build_archive(p) ==
    /\ procs[p].pc = "building"
    /\ \/ goes(p, "failing")
       \/ /\ export_object_lock(procs[p].job)
          /\ goes(p, IF require_running(procs[p].job) THEN "uploading" ELSE "failing")
    /\ UNCHANGED <<jobs, dispatch, messages, objects, quota, refusals>>

\* With the object lock, which is let go when the upload has ended.
_upload_archive_bytes(p) ==
    /\ procs[p].pc = "uploading"
    /\ \/ objects' = objects \cup {procs[p].job} /\ goes(p, "uploaded")
       \/ UNCHANGED objects /\ goes(p, "failing")
    /\ UNCHANGED <<jobs, dispatch, messages, quota, refusals>>

\* add_storage debits under a finite limit, refuses beyond it, and does nothing
\* under none; the job says it was charged all the same.
finalize_when(p, fenced) ==
    LET j == procs[p].job IN
    /\ procs[p].pc = "uploaded"
    /\ IF fenced /\ (limited => stored < Quota)
       THEN /\ jobs' = [jobs EXCEPT ![j].status = "available", ![j].accounted = 1]
            /\ stored' = IF limited THEN stored + 1 ELSE stored
            /\ debited' = IF limited THEN debited \cup {j} ELSE debited
            /\ returns(p)
       ELSE goes(p, "failing") /\ UNCHANGED <<jobs, stored, debited, messages>>
    /\ UNCHANGED <<dispatch, objects, limited, limitings, refusals>>

\* Mutant: whoever uploaded finalizes, whatever became of the job meanwhile.
finalize_unfenced(p) == finalize_when(p, TRUE)
_finalize_job(p) == finalize_when(p, require_running(procs[p].job))

\* A late failure touches no archive that became available.
_fail_job(p) ==
    LET j == procs[p].job IN
    /\ procs[p].pc = "failing" /\ export_object_lock(j)
    /\ IF jobs[j].status \in {"running", "failed"}
       THEN /\ goes(p, "cleaning") /\ UNCHANGED messages
            /\ IF jobs[j].status = "running" THEN _mark_failed_locked(j) ELSE UNCHANGED jobs
       ELSE returns(p) /\ UNCHANGED jobs
    /\ UNCHANGED <<dispatch, objects, quota, refusals>>

FailureCleanup(p) ==
    /\ procs[p].pc = "cleaning"
    /\ \E ok \in BOOLEAN : delete_object(procs[p].job, ok)
    /\ returns(p)
    /\ UNCHANGED <<jobs, dispatch, quota>>

-----------------------------------------------------------------------------
(* The sweep: recover_expired_job, then purge_expired_job, for each job it *)
(* lists.                                                                  *)

Listed(j) == jobs[j].status \in Live /\ (jobs[j].expired \/ Overdue(j))

recover_when(p, j, abandoned) ==
    /\ Listed(j)
    /\ IF abandoned
       THEN starts(p, "sweep", "expiring", j) /\ _mark_failed_locked(j)
       ELSE starts(p, "sweep", "purging", j) /\ UNCHANGED jobs
    /\ UNCHANGED <<dispatch, messages, objects, quota, refusals>>

\* Mutant: the sweep leaves running jobs to their workers.
recover_nothing(p, j) == recover_when(p, j, FALSE)
recover_expired_job(p, j) == recover_when(p, j, Overdue(j))

Recovered(p) == IF procs[p].task = "sweep" THEN goes(p, "purging") /\ UNCHANGED messages
                                           ELSE returns(p)

\* Recovery does not wait for an upload that is still in flight.
RecoveryLock(p) ==
    /\ procs[p].pc = "expiring"
    /\ IF export_object_lock(procs[p].job)
       THEN goes(p, "recovering") /\ UNCHANGED messages
       ELSE Recovered(p)
    /\ UNCHANGED <<jobs, dispatch, objects, quota, refusals>>

RecoveryCleanup(p) ==
    /\ procs[p].pc = "recovering"
    /\ \E ok \in BOOLEAN : delete_object(procs[p].job, ok)
    /\ Recovered(p)
    /\ UNCHANGED <<jobs, dispatch, quota>>

\* Nothing that runs is purged; a pending job is failed first.  The row stays,
\* with what it was charged, until the bucket let the archive go.
purge_expired_job(p) ==
    LET j == procs[p].job IN
    /\ procs[p].pc = "purging"
    /\ IF /\ export_object_lock(j) /\ jobs[j].expired
          /\ jobs[j].status \in Live \ {"running"}
       THEN /\ IF jobs[j].status = "pending" THEN _mark_failed_locked(j) ELSE UNCHANGED jobs
            /\ \E ok \in BOOLEAN :
                  /\ delete_object(j, ok)
                  /\ IF ok THEN goes(p, "freeing") /\ UNCHANGED messages ELSE returns(p)
       ELSE returns(p) /\ UNCHANGED <<jobs, objects, refusals>>
    /\ UNCHANGED <<dispatch, quota>>

\* free_storage never goes below zero.
PurgeRow(p) ==
    LET j == procs[p].job IN
    /\ procs[p].pc = "freeing"
    /\ stored' = IF stored < jobs[j].accounted THEN 0 ELSE stored - jobs[j].accounted
    /\ jobs' = [jobs EXCEPT ![j].status = "purged", ![j].link = "none"]
    /\ returns(p)
    /\ UNCHANGED <<dispatch, objects, debited, limited, limitings, refusals>>

-----------------------------------------------------------------------------
(* Downloads, the clock, the operator, and deaths.                         *)

issue_download_token(j) ==
    /\ jobs[j].status = "available" /\ ~jobs[j].expired
    /\ jobs' = [jobs EXCEPT ![j].link = "issued"]
    /\ UNCHANGED <<dispatch, messages, procs, objects, quota, refusals>>

consume_download_token(j) ==
    /\ jobs[j].status = "available" /\ ~jobs[j].expired /\ jobs[j].link = "issued"
    /\ jobs' = [jobs EXCEPT ![j].link = "used"]
    /\ UNCHANGED <<dispatch, messages, procs, objects, quota, refusals>>

DeadlinePasses(j) ==
    /\ jobs[j].status = "running" /\ ~jobs[j].late
    /\ jobs' = [jobs EXCEPT ![j].late = TRUE]
    /\ UNCHANGED <<dispatch, messages, procs, objects, quota, refusals>>

Expires(j) ==
    /\ jobs[j].status \in Live /\ ~jobs[j].expired
    /\ jobs' = [jobs EXCEPT ![j].expired = TRUE]
    /\ UNCHANGED <<dispatch, messages, procs, objects, quota, refusals>>

\* A superadmin sets the storage limit, or lifts it.
ChangeLimit ==
    /\ limitings < MaxLimits
    /\ limitings' = limitings + 1 /\ limited' = ~limited
    /\ UNCHANGED <<jobs, dispatch, messages, procs, objects, stored, debited, refusals>>

\* The connection that holds the object lock dies with the process.
Dies(p) ==
    /\ procs[p].pc # "idle" /\ refusals < MaxFaults
    /\ refusals' = refusals + 1
    /\ procs' = [procs EXCEPT ![p] = Idle]
    /\ UNCHANGED <<jobs, dispatch, messages, objects, quota>>

RequestDies(j) ==
    /\ dispatch[j] \in {"publishing", "unsure"}
    /\ dispatch' = [dispatch EXCEPT ![j] = "done"]
    /\ UNCHANGED <<jobs, messages, procs, objects, quota, refusals>>

Works(p) ==
    \/ build_archive(p) \/ _upload_archive_bytes(p) \/ _finalize_job(p)
    \/ _fail_job(p) \/ FailureCleanup(p) \/ RecoveryLock(p) \/ RecoveryCleanup(p)
    \/ purge_expired_job(p) \/ PurgeRow(p)

Asked(j) == create_export_job(j) \/ delay(j) \/ fail_dispatch(j) \/ RequestDies(j)

Next ==
    \/ \E j \in Exports :
          \/ Asked(j) \/ DeadlinePasses(j) \/ Expires(j)
          \/ issue_download_token(j) \/ consume_download_token(j)
          \/ \E p \in Processes : _claim_job(p, j) \/ recover_expired_job(p, j)
    \/ \E p \in Processes : Works(p) \/ Dies(p)
    \/ ChangeLimit

\* Time passes; the beat sweeps daily and visits every job it lists; what a
\* process began it goes on with.  Nothing obliges the broker to deliver.
Fairness ==
    /\ \A j \in Exports :
          /\ WF_vars(DeadlinePasses(j)) /\ WF_vars(Expires(j))
          /\ SF_vars(\E p \in Processes : recover_expired_job(p, j))
    /\ \A p \in Processes : WF_vars(Works(p))

Spec == Init /\ [][Next]_vars /\ Fairness

-----------------------------------------------------------------------------
\* An export that can be downloaded has its archive, whichever of its worker,
\* a redelivery and a sweep came first, and a purged row leaves no archive
\* behind (upload_archive, _finalize_job, purge_expired_job).
ExportsHeld ==
    \A j \in Exports :
        /\ jobs[j].status = "available" /\ ~jobs[j].expired => j \in objects
        /\ jobs[j].status = "purged" => j \notin objects

\* storage_bytes_used is what was debited for the exports that still exist: "True
\* for an actual finite managed debit" (limits_usage.py, lifecycle.py).
ExportsCharged ==
    stored = Cardinality({j \in debited : jobs[j].status # "purged"})

\* A job somebody waits for ends, and its row and archive go in the end
\* (recover_expired_job, purge_expired_exports_task).
ExportsSettle ==
    \A j \in Exports :
        jobs[j].status = "pending" ~> jobs[j].status = "purged" /\ j \notin objects
=============================================================================

------------------------------ MODULE Evidence ------------------------------
(***************************************************************************)
(* apps.evidence: the life of one photograph.  The client writes a staging *)
(* object with a presigned URL; a lending workflow promotes it to the      *)
(* final object (finalization.finalize_upload), then attaches it and       *)
(* charges storage in its own transaction; the retention sweep             *)
(* (services_retention) deletes the bytes once the policy allows.  Rows    *)
(* are changed under row locks, but no lock is held across a call to the   *)
(* object store, so every store call is a step of its own and may fail.    *)
(*                                                                         *)
(* Times are kept as ages: a tick makes every age grow, up to a cap past   *)
(* which no comparison in the code tells ages apart.                       *)
(***************************************************************************)
EXTENDS Naturals, FiniteSets

CONSTANTS
    Callers,        \* workflow requests that promote and attach the photograph
    Sweepers,       \* overlapping runs of sweep_evidence_retention
    Sizes,          \* sizes a valid upload may have
    Absent,         \* no object under the key
    Retentions,     \* values the retention policy may take
    StorageLimit,   \* the makerspace's storage quota
    UrlTTL,         \* EVIDENCE_URL_TTL_SECONDS
    StaleAfter,     \* max(EVIDENCE_URL_TTL_SECONDS, 60)
    RequestTimeout, \* the web server kills a request before its claim is stale
    MaxSweep,       \* bound: duration of one sweep
    MaxFailures,    \* bound: failing calls of the object store
    MaxCrashes,     \* bound: processes killed
    MaxPolicies     \* bound: changes of the retention policy

VARIABLES
    \* EvidenceUploadFinalization
    upload,         \* status, "none" while there is no row
    promoter,       \* claim_token, by the caller it was given to
    size,           \* size_bytes
    charged,        \* quota_charged
    version,        \* updated_at, as the number of saves
    uploadAge,      \* time since updated_at
    \* EvidenceObjectRetentionState
    retention,      \* status, "none" while there is no row
    sweeper,        \* claim_token, by the sweep it was given to
    claimAge,       \* time since claimed_at
    \* the rest of the database
    photoAge,       \* time since EvidencePhoto.created_at
    days,           \* effective_retention_days
    marker,         \* journal_version of the evidence.storage_charged audit row
    used,           \* Makerspace.storage_bytes_used
    attached,       \* callers that committed with this photograph
    \* the object store: sizes of the objects, 0 an invalid image
    staging, final,
    \* the processes
    pc, result,     \* a caller's position and the validation result it holds
    at, sweepAge,   \* a sweep's position and the time since its `now`
    failures, crashes, policies

uploadVars == <<upload, promoter, size, charged, version, uploadAge>>
retentionVars == <<retention, sweeper, claimAge>>
otherVars == <<photoAge, days, marker, used, attached>>
callerVars == <<pc, result>>
sweepVars == <<at, sweepAge>>
faults == <<failures, crashes, policies>>
vars == <<uploadVars, retentionVars, otherVars, staging, final, callerVars, sweepVars, faults>>

\* The URL works for EVIDENCE_URL_TTL_SECONDS, a claim is stale after no less,
\* and the longest retention (days) outlives the URL (minutes).
EvidenceConstants ==
    /\ Sizes \subseteq Nat \ {0} /\ Absent \notin Nat
    /\ {UrlTTL, StaleAfter, MaxSweep} \subseteq Nat /\ UrlTTL <= StaleAfter
    /\ Retentions \subseteq Nat
    /\ \E d \in Retentions : UrlTTL <= d /\ \A e \in Retentions : e <= d

Nobody == "nobody"

\* The caps of the ages: sweeps compare ages as they were when they started.
AgeCap == StaleAfter + MaxSweep
PhotoCap == (CHOOSE d \in Retentions : \A e \in Retentions : e <= d) + MaxSweep

Older(age, cap) == IF age < cap THEN age + 1 ELSE cap

Init ==
    /\ upload = "none" /\ promoter = Nobody /\ size = 0 /\ charged = FALSE
    /\ version = 0 /\ uploadAge = 0
    /\ retention = "none" /\ sweeper = Nobody /\ claimAge = 0
    /\ photoAge = 0 /\ days \in Retentions /\ marker = 0 /\ used = 0 /\ attached = {}
    /\ staging = Absent /\ final = Absent
    /\ pc = [c \in Callers |-> "start"] /\ result = [c \in Callers |-> 0]
    /\ at = [w \in Sweepers |-> "idle"] /\ sweepAge = [w \in Sweepers |-> 0]
    /\ failures = 0 /\ crashes = 0 /\ policies = 0

-----------------------------------------------------------------------------
(* The clock, the client and the policy.                                   *)

Promoting == {"claimed", "unstaged", "copying", "copied", "validated", "completing", "failing"}

Tick ==
    /\ \A w \in Sweepers : at[w] # "idle" => sweepAge[w] < MaxSweep
    /\ RequestTimeout => \A c \in Callers :
          pc[c] \in Promoting /\ promoter = c => uploadAge + 1 < StaleAfter
    /\ uploadAge' = Older(uploadAge, AgeCap)
    /\ claimAge' = Older(claimAge, AgeCap)
    /\ photoAge' = Older(photoAge, PhotoCap)
    /\ sweepAge' = [w \in Sweepers |-> IF at[w] = "idle" THEN 0 ELSE sweepAge[w] + 1]
    /\ UNCHANGED <<upload, promoter, size, charged, version, retention, sweeper, days, marker,
                   used, attached, staging, final, callerVars, at, faults>>

\* presigned_upload: the URL writes the staging key until it expires.
Put(content) ==
    /\ photoAge < UrlTTL
    /\ staging' = content
    /\ UNCHANGED <<uploadVars, retentionVars, otherVars, final, callerVars, sweepVars, faults>>

update_policy(d) ==
    /\ policies < MaxPolicies /\ d # days
    /\ policies' = policies + 1
    /\ days' = d
    /\ UNCHANGED <<uploadVars, retentionVars, photoAge, marker, used, attached, staging, final,
                   callerVars, sweepVars, failures, crashes>>

-----------------------------------------------------------------------------
(* finalization.finalize_upload.                                           *)

Goto(c, label) == pc' = [pc EXCEPT ![c] = label] /\ UNCHANGED result

Hold(c, label, r) == pc' = [pc EXCEPT ![c] = label] /\ result' = [result EXCEPT ![c] = r]

\* Every save of the finalization row stamps updated_at.
Stamp == version' = version + 1 /\ uploadAge' = 0

\* Mutant: a claim can be taken over while the upload URL still works.
PromotionStale_at_once == TRUE

PromotionStale == uploadAge >= StaleAfter

\* _claim; get_or_create saves a new row once before the claim is saved.
ClaimPromotion(c) ==
    /\ pc[c] = "start"
    /\ \/ retention # "none" /\ Goto(c, "ended") /\ UNCHANGED uploadVars
       \/ /\ retention = "none" /\ upload = "finalized"
          /\ Hold(c, "cleanup", size) /\ UNCHANGED uploadVars
       \/ /\ retention = "none" /\ upload = "promoting" /\ ~PromotionStale
          /\ Goto(c, "waiting") /\ UNCHANGED uploadVars
       \/ /\ retention = "none"
          /\ upload # "finalized" /\ (upload = "promoting" => PromotionStale)
          /\ upload' = "promoting" /\ promoter' = c
          /\ Stamp
          /\ Goto(c, "claimed")
          /\ UNCHANGED <<size, charged>>
    /\ UNCHANGED <<retentionVars, otherVars, staging, final, sweepVars, faults>>

\* The promotion's calls of the object store, in order.
CheckFinal(c) ==
    /\ pc[c] = "claimed"
    /\ \/ final \in Sizes /\ Hold(c, "validated", final)
       \/ final = 0 /\ Goto(c, "failing")
       \/ final = Absent /\ Goto(c, "unstaged")
    /\ UNCHANGED <<uploadVars, retentionVars, otherVars, staging, final, sweepVars, faults>>

CheckStaging(c) ==
    /\ pc[c] = "unstaged"
    /\ Goto(c, IF staging \in Sizes THEN "copying" ELSE "failing")
    /\ UNCHANGED <<uploadVars, retentionVars, otherVars, staging, final, sweepVars, faults>>

copy_object(c) ==
    /\ pc[c] = "copying"
    /\ IF staging = Absent THEN Goto(c, "failing") /\ UNCHANGED final
       ELSE Goto(c, "copied") /\ final' = staging
    /\ UNCHANGED <<uploadVars, retentionVars, otherVars, staging, sweepVars, faults>>

\* The staging object may have been overwritten since it was validated; an
\* invalid final object is deleted again, if the store lets it.
ValidateFinal(c) ==
    /\ pc[c] = "copied"
    /\ \/ final \in Sizes /\ Hold(c, "validated", final) /\ UNCHANGED final
       \/ final = Absent /\ Goto(c, "failing") /\ UNCHANGED final
       \/ final = 0 /\ Goto(c, "failing") /\ final' \in {Absent, final}
    /\ UNCHANGED <<uploadVars, retentionVars, otherVars, staging, sweepVars, faults>>

\* delete_object swallows the store's errors.
DeleteStaging(c) ==
    /\ \/ pc[c] = "validated" /\ Goto(c, "completing")
       \/ pc[c] = "cleanup" /\ Goto(c, "finalized")
    /\ staging' \in {Absent, staging}
    /\ UNCHANGED <<uploadVars, retentionVars, otherVars, final, sweepVars, faults>>

\* _complete: the first result stays.
CompletePromotion(c) ==
    /\ pc[c] \in {"completing", "recovered"}
    /\ IF upload = "finalized" THEN UNCHANGED uploadVars
       ELSE /\ upload' = "finalized" /\ promoter' = Nobody /\ size' = result[c]
            /\ Stamp
            /\ UNCHANGED charged
    /\ Hold(c, IF pc[c] = "completing" THEN "finalized" ELSE "cleanup", size')
    /\ UNCHANGED <<retentionVars, otherVars, staging, final, sweepVars, faults>>

_release_claim(c) ==
    /\ pc[c] = "failing"
    /\ IF upload = "promoting" /\ promoter = c
       THEN upload' = "pending" /\ promoter' = Nobody /\ Stamp /\ UNCHANGED <<size, charged>>
       ELSE UNCHANGED uploadVars
    /\ Goto(c, "ended")
    /\ UNCHANGED <<retentionVars, otherVars, staging, final, sweepVars, faults>>

\* _recover_or_wait: the row and the final object are read one after the
\* other, so the row may have changed when the object is looked at.
RecoverOrWait(c) ==
    /\ pc[c] = "waiting"
    /\ \/ upload = "finalized" /\ Hold(c, "cleanup", size)
       \/ final \in Sizes /\ Hold(c, "recovered", final)
       \/ Goto(c, "ended")
    /\ UNCHANGED <<uploadVars, retentionVars, otherVars, staging, final, sweepVars, faults>>

StoreFails(c) ==
    /\ pc[c] \in {"claimed", "unstaged", "copying", "copied"}
    /\ failures < MaxFailures
    /\ failures' = failures + 1
    /\ Goto(c, "failing")
    /\ UNCHANGED <<uploadVars, retentionVars, otherVars, staging, final, sweepVars,
                   crashes, policies>>

\* Mutant: attaches on the strength of the finalization alone.
lock_evidence_for_attachment_unchecked == upload = "finalized"

lock_evidence_for_attachment == retention = "none"

charge_storage_once(c) ==
    /\ upload = "finalized" /\ result[c] = size
    /\ IF charged THEN UNCHANGED <<used, charged, version, uploadAge, marker>>
       ELSE /\ used + size <= StorageLimit
            /\ used' = used + size
            /\ charged' = TRUE /\ Stamp /\ marker' = version'

\* The workflow's own transaction (an issue, a return, a handout).
Attach(c) ==
    /\ pc[c] = "finalized"
    /\ \/ /\ lock_evidence_for_attachment
          /\ charge_storage_once(c)
          /\ attached' = attached \cup {c}
       \/ UNCHANGED <<attached, used, charged, version, uploadAge, marker>>
    /\ Goto(c, "ended")
    /\ UNCHANGED <<upload, promoter, size, retentionVars, photoAge, days, staging, final,
                   sweepVars, faults>>

CallerStep(c) ==
    \/ ClaimPromotion(c) \/ CheckFinal(c) \/ CheckStaging(c) \/ copy_object(c)
    \/ ValidateFinal(c) \/ DeleteStaging(c) \/ CompletePromotion(c) \/ _release_claim(c)
    \/ RecoverOrWait(c) \/ Attach(c)

-----------------------------------------------------------------------------
(* services_retention.sweep_evidence_retention.                            *)

Move(w, label) == at' = [at EXCEPT ![w] = label] /\ UNCHANGED sweepAge

\* `now` is taken here; object_candidates is read without a lock.
StartSweep(w) ==
    /\ at[w] = "idle"
    /\ photoAge >= days /\ retention # "expired"
    /\ at' = [at EXCEPT ![w] = "listed"]
    /\ sweepAge' = [sweepAge EXCEPT ![w] = 0]
    /\ UNCHANGED <<uploadVars, retentionVars, otherVars, staging, final, callerVars, faults>>

\* Mutant: the claim of a sweep that died is never taken over.
Claimable_unowned(w) ==
    /\ retention # "expired"
    /\ sweeper = Nobody
    /\ upload = "promoting" => uploadAge >= StaleAfter + sweepAge[w]
    /\ photoAge >= days + sweepAge[w]

\* The checks of _claim, made with the time at which the sweep started.
Claimable(w) ==
    /\ retention # "expired"
    /\ sweeper # Nobody => claimAge >= StaleAfter + sweepAge[w]
    /\ upload = "promoting" => uploadAge >= StaleAfter + sweepAge[w]
    /\ photoAge >= days + sweepAge[w]

ClaimExpiry(w) ==
    /\ at[w] = "listed"
    /\ IF Claimable(w)
       THEN /\ retention' = "expiring" /\ sweeper' = w /\ claimAge' = sweepAge[w]
            /\ Move(w, "claimed")
       ELSE UNCHANGED retentionVars /\ Move(w, "idle")
    /\ UNCHANGED <<uploadVars, otherVars, staging, final, callerVars, faults>>

DeleteFinalStrict(w) ==
    /\ at[w] = "claimed"
    /\ final' = Absent
    /\ Move(w, "final_gone")
    /\ UNCHANGED <<uploadVars, retentionVars, otherVars, staging, callerVars, faults>>

DeleteStagingStrict(w) ==
    /\ at[w] = "final_gone"
    /\ staging' = Absent
    /\ Move(w, "both_gone")
    /\ UNCHANGED <<uploadVars, retentionVars, otherVars, final, callerVars, faults>>

proven_charge_bytes == IF upload = "finalized" /\ charged /\ marker = version THEN size ELSE 0

\* Mutant: a sweep whose claim was taken over completes all the same.
CompleteExpiry_any_token(w) ==
    /\ at[w] = "both_gone"
    /\ retention' = "expired" /\ sweeper' = Nobody
    /\ used' = used - proven_charge_bytes
    /\ Move(w, "idle")
    /\ UNCHANGED <<claimAge, uploadVars, photoAge, days, marker, attached, staging, final,
                   callerVars, faults>>

\* _complete; free_storage stops at zero.
CompleteExpiry(w) ==
    /\ at[w] = "both_gone"
    /\ IF retention # "expired" /\ sweeper = w
       THEN /\ retention' = "expired" /\ sweeper' = Nobody
            /\ used' = IF used > proven_charge_bytes THEN used - proven_charge_bytes ELSE 0
       ELSE UNCHANGED <<retention, sweeper, used>>
    /\ Move(w, "idle")
    /\ UNCHANGED <<claimAge, uploadVars, photoAge, days, marker, attached, staging, final,
                   callerVars, faults>>

\* A store call fails, perhaps after it deleted the object, and _release
\* gives the claim up; the EXPIRING row stays.
SweepFails(w) ==
    /\ at[w] \in {"claimed", "final_gone"}
    /\ failures < MaxFailures
    /\ failures' = failures + 1
    /\ final' \in (IF at[w] = "claimed" THEN {final, Absent} ELSE {final})
    /\ staging' \in (IF at[w] = "final_gone" THEN {staging, Absent} ELSE {staging})
    /\ sweeper' = IF sweeper = w /\ retention = "expiring" THEN Nobody ELSE sweeper
    /\ Move(w, "idle")
    /\ UNCHANGED <<retention, claimAge, uploadVars, otherVars, callerVars, crashes, policies>>

SweepStep(w) ==
    \/ StartSweep(w) \/ ClaimExpiry(w) \/ DeleteFinalStrict(w) \/ DeleteStagingStrict(w)
    \/ CompleteExpiry(w)

\* A web or Celery process dies where it stands; its rows stay as they are.
Crash ==
    /\ crashes < MaxCrashes
    /\ crashes' = crashes + 1
    /\ \/ \E c \in Callers : pc[c] \notin {"start", "ended"} /\ Goto(c, "ended") /\ UNCHANGED sweepVars
       \/ \E w \in Sweepers : at[w] # "idle" /\ Move(w, "idle") /\ UNCHANGED callerVars
    /\ UNCHANGED <<uploadVars, retentionVars, otherVars, staging, final, failures, policies>>

Next ==
    \/ Tick \/ Crash
    \/ \E content \in Sizes \cup {0} : Put(content)
    \/ \E d \in Retentions : update_policy(d)
    \/ \E c \in Callers : CallerStep(c) \/ StoreFails(c)
    \/ \E w \in Sweepers : SweepStep(w) \/ SweepFails(w)

Spec == Init /\ [][Next]_vars

\* Time passes; a request or a sweep that was started goes on or is killed;
\* celery beat starts sweeps again and again.
Fairness ==
    /\ WF_vars(Tick)
    /\ \A c \in Callers : WF_vars(pc[c] # "start" /\ CallerStep(c))
    /\ \A w \in Sweepers : WF_vars(SweepStep(w))

FairSpec == Spec /\ Fairness

-----------------------------------------------------------------------------
(* Properties.                                                             *)

Placed == {"start", "waiting", "recovered", "cleanup", "finalized", "ended"} \cup Promoting

TypeOK ==
    /\ upload \in {"none", "pending", "promoting", "finalized"}
    /\ promoter \in Callers \cup {Nobody} /\ sweeper \in Sweepers \cup {Nobody}
    /\ retention \in {"none", "expiring", "expired"}
    /\ size \in Nat /\ version \in Nat /\ used \in Nat /\ charged \in BOOLEAN
    /\ uploadAge \in 0..AgeCap /\ photoAge \in 0..PhotoCap
    /\ {staging, final} \subseteq Sizes \cup {0, Absent}
    /\ attached \subseteq Callers
    /\ pc \in [Callers -> Placed] /\ result \in [Callers -> Nat]
    /\ at \in [Sweepers -> {"idle", "listed", "claimed", "final_gone", "both_gone"}]

\* "Exactly-once promotion of client-writable evidence staging objects"
\* (finalization.py): from the moment the row says FINALIZED until a sweep
\* claims the photograph, the final object is there, is a valid image and
\* has the recorded size, although the client may overwrite the staging
\* object, claims are taken over and calls of the store fail.
FinalizedBacked == upload = "finalized" /\ retention = "none" => final \in Sizes /\ final = size

\* A workflow commits with a photograph only while its bytes exist, although
\* it validated them before it took its locks.
AttachesBytes == attached' # attached => final \in Sizes

AttachmentBacked == [][AttachesBytes]_vars

\* The quota counter is the size of the charged and not yet expired
\* photograph: charged once, and given back once and in full.
QuotaExact == used = IF charged /\ retention # "expired" THEN size ELSE 0

\* Both, of any number of requests and sweeps.
PhotographsExact == FinalizedBacked /\ QuotaExact

\* An EXPIRED photograph leaves no object behind ("expiry of evidence
\* bytes", services_retention.py); nothing would look for one afterwards.
\* Of two requests that are killed in time: of three on a photograph past its
\* retention, one may die with the final object written, one finalize from that
\* object while the third has claimed but not looked, and the third, finding the
\* final object swept, copies the staging object behind the sweep.
ExpiredObjectsGone == retention = "expired" => staging = Absent /\ final = Absent

\* Whatever dies or fails on the way, a photograph past its retention is
\* expired in the end.
EventuallyExpired == <>(retention = "expired")
=============================================================================

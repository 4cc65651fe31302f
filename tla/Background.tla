----------------------------- MODULE Background -----------------------------
(***************************************************************************)
(* The components whose work leaves a transaction: photographs,            *)
(* certificates, password recovery, the mail outbox, return reminders,     *)
(* exports, the handover of a makerspace, the restore of a deployment, its *)
(* online archives and its attested audit log.  They share nothing, so a   *)
(* run explores them side by side: a behaviour belongs to one of them       *)
(* (part) and the variables of the others stay Unused.                     *)
(*                                                                         *)
(* MCBackground gives the constants values for safety, MCSettles for what  *)
(* is reached in the end.                                                  *)
(***************************************************************************)
EXTENDS Naturals

CONSTANTS
    Unused,
    Parts,                                      \* the parts a run explores
    Callers, Sweepers, Sizes, Retentions,       \* see Evidence
    StorageLimit, PhotoTTL, StaleAfter, RequestTimeout,
    MaxSweep, MaxFailures, MaxCrashes, MaxPolicies,
    Writers, Owners, Purposes, UploadTTL,       \* see SourceGate
    Lease, MaxWrites, MaxToken,
    Objects, MaxInterruptions,                  \* see CompoundRestore
    Borrowings, Reachable, Runs, Limit,         \* see ReturnReminders
    MaxTime, MaxDueChanges, MaxUnsent, MaxDeaths,
    Senders, MaxRetries, MaxFaults,             \* see EmailOutbox
    Callbacks, PublishFails,
    Drains, MaxRequests, MaxStalls,             \* see PasswordReset
    MaxDrainDeaths, MaxAttempts, MaxVersion,
    ExportJobs, Exporters, ExportQuota,         \* see DataExport
    MaxRefusals, MaxLimits,
    Attendees, Scans, Renderers, MaxRevisions,  \* see Certificates
    MaxPins, Rescans, MaxRotations,
    Archives, Established, Scopes, MaxRuns,     \* see BackupArchives
    MaxSwitches, MaxExpiries, MaxMishaps,
    AuditRows, MaxUnkeyed, MaxKeys,             \* see AuditChain
    AuditMishaps, MaxRestores

VARIABLES
    part,
    upload, promoter, size, charged, version, uploadAge, retention, sweeper,
    claimAge, photoAge, days, marker, used, attached, staging, final, pc,
    result, at, sweepAge, crashes, policies,
    event, responded, certificate, checkins, station, store, usage, cleanups, faulty,
    envelope, account, emailing, inbox, mailed, stalls, minted,
    log, blocked, queue, outbox, mails, doubts, faults,
    now, due, stamped, batch, claimed, delivered, changes, orphaned,
    jobs, dispatch, messages, procs, objects, stored, debited, limited,
    limitings, refusals,
    gate, inside, urls, run, archive, rows, files, target, handoff,
    ledger, coordinator, sibling, host_marker, journal, pointer, bucket, before,
    writers, candidate, rollback, refused, interruptions,
    backup, artifact, staged, published, activation, last_success, backup_run, holder,
    leased, purger, overdue, switches, mishaps,
    db, sink, step, saved, epoch, losses,
    status, requests, worker, failures, deaths    \* names that several components use

photoVars == <<upload, promoter, size, charged, version, uploadAge, retention,
              sweeper, claimAge, photoAge, days, marker, used, attached,
              staging, final, pc, result, at, sweepAge, crashes, policies>>
deskVars == <<event, responded, certificate, checkins, station, store, usage,
              cleanups, faulty>>
resetVars == <<envelope, account, emailing, inbox, mailed, stalls, minted>>
mailVars == <<log, blocked, queue, outbox, mails, doubts, faults>>
dueVars == <<now, due, stamped, batch, claimed, delivered, changes, orphaned>>

exportVars == <<jobs, dispatch, messages, procs, objects, stored, debited,
               limited, limitings, refusals>>
gateVars == <<gate, inside, urls, run, archive, rows, files, target, handoff>>
restoreVars == <<ledger, coordinator, sibling, host_marker, journal, pointer, bucket,
                before, writers, candidate, rollback, refused, interruptions>>
backupVars == <<backup, artifact, staged, published, activation, last_success, backup_run,
               holder, leased, purger, overdue, switches, mishaps>>
auditVars == <<db, sink, step, saved, epoch, losses>>
newerVars == <<exportVars, gateVars, restoreVars, backupVars, auditVars>>
sharedVars == <<status, requests, worker, failures, deaths>>

photoRest == <<deskVars, resetVars, mailVars, dueVars, newerVars, status, requests,
              worker, deaths>>
deskRest == <<photoVars, resetVars, mailVars, dueVars, newerVars, failures, deaths>>
resetRest == <<photoVars, deskVars, mailVars, dueVars, newerVars, status, failures>>
mailRest == <<photoVars, deskVars, resetVars, dueVars, newerVars, status, requests,
             failures, deaths>>
dueRest == <<photoVars, deskVars, resetVars, mailVars, newerVars, requests, worker>>
exportRest == <<photoVars, deskVars, resetVars, mailVars, dueVars, gateVars, restoreVars,
               backupVars, auditVars, sharedVars>>
gateRest == <<photoVars, deskVars, resetVars, mailVars, dueVars, exportVars, restoreVars,
             backupVars, auditVars, sharedVars>>
restoreRest == <<photoVars, deskVars, resetVars, mailVars, dueVars, exportVars, gateVars,
                backupVars, auditVars, sharedVars>>
backupRest == <<photoVars, deskVars, resetVars, mailVars, dueVars, exportVars, gateVars,
               restoreVars, auditVars, sharedVars>>
auditRest == <<photoVars, deskVars, resetVars, mailVars, dueVars, exportVars, gateVars,
              restoreVars, backupVars, sharedVars>>

vars == <<part, photoVars, photoRest, failures>>

NoPhoto ==
    /\ upload = Unused /\ promoter = Unused /\ size = Unused
    /\ charged = Unused /\ version = Unused /\ uploadAge = Unused
    /\ retention = Unused /\ sweeper = Unused /\ claimAge = Unused
    /\ photoAge = Unused /\ days = Unused /\ marker = Unused /\ used = Unused
    /\ attached = Unused /\ staging = Unused /\ final = Unused /\ pc = Unused
    /\ result = Unused /\ at = Unused /\ sweepAge = Unused
    /\ crashes = Unused /\ policies = Unused
NoDesk ==
    /\ event = Unused /\ responded = Unused /\ certificate = Unused
    /\ checkins = Unused /\ station = Unused /\ store = Unused
    /\ usage = Unused /\ cleanups = Unused /\ faulty = Unused
NoReset ==
    /\ envelope = Unused /\ account = Unused /\ emailing = Unused
    /\ inbox = Unused /\ mailed = Unused /\ stalls = Unused
    /\ minted = Unused
NoMail ==
    /\ log = Unused /\ blocked = Unused /\ queue = Unused /\ outbox = Unused
    /\ mails = Unused /\ doubts = Unused /\ faults = Unused
NoDue ==
    /\ now = Unused /\ due = Unused /\ stamped = Unused /\ batch = Unused
    /\ claimed = Unused /\ delivered = Unused /\ changes = Unused
    /\ orphaned = Unused
NoExports ==
    /\ jobs = Unused /\ dispatch = Unused /\ messages = Unused
    /\ procs = Unused /\ objects = Unused /\ stored = Unused
    /\ debited = Unused /\ limited = Unused /\ limitings = Unused
    /\ refusals = Unused
NoGate ==
    /\ gate = Unused /\ inside = Unused /\ urls = Unused /\ run = Unused
    /\ archive = Unused /\ rows = Unused /\ files = Unused
    /\ target = Unused /\ handoff = Unused
NoRestore ==
    /\ ledger = Unused /\ coordinator = Unused /\ sibling = Unused
    /\ host_marker = Unused /\ journal = Unused /\ pointer = Unused
    /\ bucket = Unused /\ before = Unused /\ writers = Unused
    /\ candidate = Unused /\ rollback = Unused /\ refused = Unused
    /\ interruptions = Unused
NoBackups ==
    /\ backup = Unused /\ artifact = Unused /\ staged = Unused
    /\ published = Unused /\ activation = Unused /\ last_success = Unused
    /\ backup_run = Unused /\ holder = Unused /\ leased = Unused
    /\ purger = Unused /\ overdue = Unused /\ switches = Unused
    /\ mishaps = Unused
NoAudit ==
    /\ db = Unused /\ sink = Unused /\ step = Unused /\ saved = Unused
    /\ epoch = Unused /\ losses = Unused
NoNewer == NoExports /\ NoGate /\ NoRestore /\ NoBackups /\ NoAudit
NoShared ==
    /\ status = Unused /\ requests = Unused /\ worker = Unused
    /\ failures = Unused /\ deaths = Unused

-----------------------------------------------------------------------------
(* The parts.                                                              *)

Photo == INSTANCE Evidence WITH UrlTTL <- PhotoTTL, Absent <- Unused
Gate == INSTANCE SourceGate WITH UrlTTL <- UploadTTL, None <- Unused
Restoring == INSTANCE CompoundRestore
Due == INSTANCE ReturnReminders WITH
    Requests <- Borrowings, Workers <- Runs, MaxFailures <- MaxUnsent
Mail == INSTANCE EmailOutbox WITH Workers <- Senders
Reset == INSTANCE PasswordReset WITH Workers <- Drains, MaxDeaths <- MaxDrainDeaths
Exports == INSTANCE DataExport WITH
    Exports <- ExportJobs, Processes <- Exporters, Quota <- ExportQuota,
    MaxFaults <- MaxRefusals, NoExport <- Unused
Render == INSTANCE Certificates WITH
    Registrations <- Attendees, Operations <- Scans, Workers <- Renderers, MaxVersion <- MaxPins
\* Scans alone, with more of them: certificates are asked for and not rendered.
Checkin == INSTANCE Certificates WITH
    Registrations <- Attendees, Operations <- Rescans, Workers <- {}, MaxRevisions <- 1,
    MaxVersion <- MaxRotations

Backups == INSTANCE BackupArchives WITH None <- Unused
Audit == INSTANCE AuditChain WITH MaxRows <- AuditRows, MaxMishaps <- AuditMishaps

ASSUME PhotoAssumption == Photo!EvidenceConstants
ASSUME GateAssumption == Gate!GateConstants
ASSUME RestoreAssumption == MaxInterruptions \in Nat
ASSUME MailAssumption == MaxRetries \in Nat /\ MaxFaults \in Nat
ASSUME ResetAssumption == {MaxRequests, MaxStalls, MaxDrainDeaths, MaxAttempts, MaxVersion} \subseteq Nat
ASSUME RenderAssumption == MaxRevisions \in Nat
ASSUME BackupsAssumption == Backups!ArchiveConstants

Init ==
    /\ part \in Parts
    /\ \/ /\ part = "photo" /\ Photo!Init
          /\ NoDesk /\ NoReset /\ NoMail /\ NoDue /\ NoNewer
          /\ status = Unused /\ requests = Unused /\ worker = Unused /\ deaths = Unused
       \/ /\ part = "gate" /\ Gate!Init
          /\ NoPhoto /\ NoDesk /\ NoReset /\ NoMail /\ NoDue /\ NoExports /\ NoRestore
          /\ NoBackups /\ NoAudit /\ NoShared
       \/ /\ part = "restoring" /\ Restoring!Init
          /\ NoPhoto /\ NoDesk /\ NoReset /\ NoMail /\ NoDue /\ NoExports /\ NoGate
          /\ NoBackups /\ NoAudit /\ NoShared
       \/ /\ part = "due" /\ Due!Init
          /\ NoPhoto /\ NoDesk /\ NoReset /\ NoMail /\ NoNewer
          /\ requests = Unused /\ worker = Unused
       \/ /\ part = "mail" /\ Mail!Init
          /\ NoPhoto /\ NoDesk /\ NoReset /\ NoDue /\ NoNewer
          /\ status = Unused /\ requests = Unused /\ failures = Unused /\ deaths = Unused
       \/ /\ part = "reset" /\ Reset!Init
          /\ NoPhoto /\ NoDesk /\ NoMail /\ NoDue /\ NoNewer
          /\ status = Unused /\ failures = Unused
       \/ /\ part = "exports" /\ Exports!Init
          /\ NoPhoto /\ NoDesk /\ NoReset /\ NoMail /\ NoDue /\ NoGate /\ NoRestore
          /\ NoBackups /\ NoAudit /\ NoShared
       \/ /\ part = "render" /\ Render!Init
          /\ NoPhoto /\ NoReset /\ NoMail /\ NoDue /\ NoNewer
          /\ failures = Unused /\ deaths = Unused
       \/ /\ part = "checkin" /\ Checkin!Init
          /\ NoPhoto /\ NoReset /\ NoMail /\ NoDue /\ NoNewer
          /\ failures = Unused /\ deaths = Unused
       \/ /\ part = "archiving" /\ Backups!Init
          /\ NoPhoto /\ NoDesk /\ NoReset /\ NoMail /\ NoDue /\ NoExports /\ NoGate
          /\ NoRestore /\ NoAudit /\ NoShared
       \/ /\ part = "auditing" /\ Audit!Init
          /\ NoPhoto /\ NoDesk /\ NoReset /\ NoMail /\ NoDue /\ NoExports /\ NoGate
          /\ NoRestore /\ NoBackups /\ NoShared

Next ==
    \/ part = "photo" /\ Photo!Next /\ UNCHANGED <<part, photoRest>>
    \/ part = "gate" /\ Gate!Next /\ UNCHANGED <<part, gateRest>>
    \/ part = "restoring" /\ Restoring!Next /\ UNCHANGED <<part, restoreRest>>
    \/ part = "due" /\ Due!Next /\ UNCHANGED <<part, dueRest>>
    \/ part = "mail" /\ Mail!Next /\ UNCHANGED <<part, mailRest>>
    \/ part = "reset" /\ Reset!Next /\ UNCHANGED <<part, resetRest>>
    \/ part = "exports" /\ Exports!Next /\ UNCHANGED <<part, exportRest>>
    \/ part = "render" /\ Render!Next /\ UNCHANGED <<part, deskRest>>
    \/ part = "checkin" /\ Checkin!Next /\ UNCHANGED <<part, deskRest>>
    \/ part = "archiving" /\ Backups!Next /\ UNCHANGED <<part, backupRest>>
    \/ part = "auditing" /\ Audit!Next /\ UNCHANGED <<part, auditRest>>

Spec == Init /\ [][Next]_vars

-----------------------------------------------------------------------------
(* The properties of each component, stated of its part.                   *)

\* See Evidence (finalization.py, services_retention.py).  A photograph that
\* says FINALIZED has its bytes, and the quota is charged once and given back
\* once.
PhotographsExact == part = "photo" => Photo!PhotographsExact

\* See Evidence.  A workflow commits only with a photograph that exists.
AttachmentBacked == [][part = "photo" => Photo!AttachesBytes]_vars

\* See SourceGate.  The archive of a gate's owner holds all the source has, and
\* source and target never both take writes.
HandoverSafe == part = "gate" => Gate!HandoverSafe

\* See CompoundRestore.  The pointer moves only to a proven sibling, nothing is
\* launched or written beside it, and a finished rollback undoes the pointer and
\* the bucket.
CutoverFenced == part = "restoring" => Restoring!CutoverFenced

\* See ReturnReminders.  A borrower is reminded once for one due time,
\* although runs overlap and workers die.
RemindedOnce == part = "due" => Due!RemindedOnce

\* See PasswordReset, EmailOutbox.  A request for a password leads to at most
\* one mail and a code that counts was mailed; two processes never send one mail
\* of the outbox at the same time, and it arrives twice only after an unknown
\* outcome.
MailedByOne ==
    /\ part = "reset" => Reset!MailedAtMostOnce /\ Reset!IssuedWasMailed
    /\ part = "mail" => Mail!OneSenderAtATime /\ Mail!DuplicatesAccounted

\* See PasswordReset.  A password is set only with the newest code, for the
\* credential it was minted for.
ResetOnNewestCode == [][part = "reset" => Reset!ConsumesNewestCode]_vars

\* See DataExport.  An export that can be downloaded has its archive, a purged
\* one left none, and what was debited for it is given back once.
ExportsAccounted == part = "exports" => Exports!ExportsHeld /\ Exports!ExportsCharged

\* See Certificates.  A certificate stands only for attendance that stands; an
\* issued PDF is retained and charged exactly once; and a certificate revoked
\* before it was issued leaves no object behind once nobody works on it, where
\* nothing died.
CertificatesSound ==
    part = "render" =>
        Render!ActiveIsEarned /\ Render!IssuedRetained /\ Render!AbandonedCollected

\* See Certificates.  A repeated scan never undoes a correction, and a rotated
\* PIN ends the sessions it let in.
CheckInsCount ==
    [][/\ part = "render" => Render!ReplayIgnored /\ Render!CheckedInByStation
       /\ part = "checkin" => Checkin!ReplayIgnored /\ Checkin!CheckedInByStation]_vars

\* See BackupArchives.  An available archive has its object and nothing that
\* failed or was superseded leaves one behind unrecorded; promotion never forks
\* the history; and an exclusion in effect rests on an archive that does not show
\* the makerspace, nor does any promoted later.
ArchivesSound ==
    part = "archiving" =>
        Backups!ArchivesBacked /\ Backups!OneLineage /\ Backups!ExclusionEarned

\* See AuditChain.  A row is sealed once, by the key entitled to, and the anchors
\* are one chain, through crashes, rotations and a restore of the database.
AuditChained == part = "auditing" => Audit!AuditChained

\* See AuditChain.  A log that misses anything anchored never verifies; one that
\* lost nothing does when nothing is under way.
VerdictHonest == part = "auditing" => Audit!VerdictHonest
=============================================================================

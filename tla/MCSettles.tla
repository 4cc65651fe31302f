------------------------------ MODULE MCSettles ------------------------------
(***************************************************************************)
(* What the background work reaches in the end, on small instances side by *)
(* side.                                                                   *)
(*                                                                         *)
(*   photo       a photograph past its retention, a sweep and its successor*)
(*   reset       one request for a new password, a drain and its successor *)
(*   mail        one e-mail, retried by Celery, staff and the cron         *)
(*   due         two reminder runs over two borrowers                      *)
(*   reschedule  one run, a borrower out of reach and a changed due time   *)
(*   exports     one export, its worker and a sweep                        *)
(*   restoring   one restore, started again when it died, or rolled back   *)
(*   archiving   an archive of a deployment, its builder dies or fails     *)
(*   auditing    the audit log while cycles die and its key is rotated     *)
(***************************************************************************)
EXTENDS Background, Integers

CONSTANTS c1, w1, w2

Reschedule == INSTANCE ReturnReminders WITH
    Requests <- {1, 2}, Reachable <- {2}, Workers <- {w1}, Limit <- 2,
    MaxTime <- 1, MaxDueChanges <- 1, MaxFailures <- 1, MaxDeaths <- 0

MCInit ==
    \/ Init
    \/ /\ part = "reschedule" /\ Reschedule!Init
       /\ NoPhoto /\ NoDesk /\ NoReset /\ NoMail /\ NoNewer
       /\ requests = Unused /\ worker = Unused

MCNext ==
    \/ Next
    \/ part = "reschedule" /\ Reschedule!Next /\ UNCHANGED <<part, dueRest>>

Expires(A) == part = "photo" /\ A /\ UNCHANGED <<part, photoRest>>
Resets(A) == part = "reset" /\ A /\ UNCHANGED <<part, resetRest>>
Mails(A) == part = "mail" /\ A /\ UNCHANGED <<part, mailRest>>
Overlaps(A) == part = "due" /\ A /\ UNCHANGED <<part, dueRest>>
Reschedules(A) == part = "reschedule" /\ A /\ UNCHANGED <<part, dueRest>>
Exported(A) == part = "exports" /\ A /\ UNCHANGED <<part, exportRest>>
Restores(A) == part = "restoring" /\ A /\ UNCHANGED <<part, restoreRest>>
Backs(A) == part = "archiving" /\ A /\ UNCHANGED <<part, backupRest>>
Attests(A) == part = "auditing" /\ A /\ UNCHANGED <<part, auditRest>>

(***************************************************************************)
(* The fairness of each component, as its module states it.  A conjunct    *)
(* names one action of every part: a behaviour belongs to one part, so it  *)
(* is fair to the disjunction if and only if it is fair to that action.    *)
(***************************************************************************)
Fairness ==
    /\ WF_vars(\/ Expires(Photo!Tick)
               \/ Resets(Reset!Drain(w1))
               \/ Mails(Mail!Deliver(w1))
               \/ Overlaps(Due!Select(w1))
               \/ Reschedules(Reschedule!Select(w1))
               \/ Exported(Exports!DeadlinePasses(c1))
               \/ Restores(Restoring!GoesOn)
               \/ Backs(Backups!Works)
               \/ Attests(Audit!Cycle))
    /\ WF_vars(\/ Expires(pc[c1] # "start" /\ Photo!CallerStep(c1))
               \/ Resets(Reset!LeaseLapses)
               \/ Mails(Mail!Deliver(w2))
               \/ Overlaps(Due!Select(w2))
               \/ Reschedules(Reschedule!RunStep(w1))
               \/ Exported(Exports!Expires(c1))
               \/ Attests(Audit!RecordPublished))
    /\ WF_vars(\/ Expires(Photo!SweepStep(w1))
               \/ Mails(\E o \in {"published", "raised"} : Mail!_enqueue(o))
               \/ Overlaps(Due!RunStep(w1))
               \/ Exported(Exports!Works(w1)))
    /\ WF_vars(\/ Mails(Mail!GoesStale)
               \/ Overlaps(Due!RunStep(w2))
               \/ Exported(Exports!Works(w2)))
    /\ WF_vars(Mails(Mail!retry_email_log))
    /\ SF_vars(\/ Exported(\E w \in {w1, w2} : Exports!recover_expired_job(w, c1))
               \/ Backs(Backups!schedule_deployment_backup)
               \/ Attests(Audit!publish_rotation /\ Audit!Unrecorded))
    /\ SF_vars(\/ Backs(Backups!reconcile_artifact_uploads)
               \/ Attests(Audit!finalize_rotation))

MCSpec == MCInit /\ [][MCNext]_vars /\ Fairness

-----------------------------------------------------------------------------
(* The properties of each component, stated of its part.                   *)

\* See Evidence, DataExport.  A photograph past its retention is expired in the
\* end, and with it go its objects; a requested export ends, and its row and
\* archive go.
StorageReclaimed ==
    \/ part = "photo"
    \/ part = "exports" /\ jobs[c1].status = "pending"
    ~> \/ part = "photo" /\ retention = "expired" /\ staging = Unused /\ final = Unused
       \/ part = "exports" /\ jobs[c1].status = "purged" /\ c1 \notin objects

\* See PasswordReset, EmailOutbox, ReturnReminders.  A queued request is mailed or
\* ends; a failed or stalled mail is settled; an overdue borrower who can be
\* reached is reminded.
NoticesSettle ==
    \A r \in {1, 2} :
        \/ part = "reset" /\ envelope.status \in Reset!Blocked
        \/ part = "mail" /\ Mail!Stalled
        \/ part = "due" /\ Due!Overdue(r) /\ delivered[r] = 0
        \/ part = "reschedule" /\ r = 2 /\ Reschedule!Overdue(r) /\ delivered[r] = 0
        ~> \/ part = "reset" /\ envelope.status \notin Reset!Blocked
           \/ part = "mail" /\ log.status \in Mail!Settled
           \/ part = "due" /\ Due!Answered(r)
           \/ part = "reschedule" /\ Reschedule!Answered(r)

\* See CompoundRestore, BackupArchives.  A restore that is started again after
\* each death ends or is refused, and a rollback once begun is finished; an
\* archive under promotion is promoted or failed, and its leftovers go.
BackupsSettle ==
    \/ part = "restoring"
    \/ part = "archiving" /\ Backups!Unsettled(c1)
    ~> \/ part = "restoring" /\ Restoring!Ended
       \/ part = "archiving" /\ ~Backups!Unsettled(c1)

\* See AuditChain.  Whatever dies on the way, all that was logged is anchored
\* again and again, and no rotation stays pending.
AuditSettles ==
    []<>(part = "auditing" => Audit!Attested /\ ~Audit!Pending(db))
=============================================================================

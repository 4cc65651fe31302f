--------------------------- MODULE ReturnReminders ---------------------------
(***************************************************************************)
(* services_return_reminders.run_return_reminders: an overdue borrowing    *)
(* gets one reminder.  A worker (the Celery beat task, the cron endpoint   *)
(* or the management command; they may overlap) selects a batch, then for  *)
(* each row claims it by stamping return_reminder_sent_at in a transaction *)
(* of its own, sends outside any transaction, and takes the stamp back     *)
(* when nothing was delivered.  Returns and set_return_due run in between. *)
(***************************************************************************)
EXTENDS Naturals, SequencesExt

CONSTANTS
    Requests,       \* ids of issued requests, numbers because the batch is ordered by id
    Reachable,      \* those whose borrower some channel can reach
    Workers,        \* overlapping runs of run_return_reminders
    Limit,          \* its limit argument
    MaxTime,        \* bound: the clock stops here
    MaxDueChanges,  \* bound: calls of set_return_due per request
    MaxFailures,    \* bound: sends to a borrower within reach that failed
    MaxDeaths       \* bound: workers killed

VARIABLES
    now,            \* the clock
    status,         \* HardwareRequest.status
    due,            \* HardwareRequest.return_due_at; Never is NULL
    stamped,        \* return_reminder_sent_at is not NULL
    batch,          \* rows a worker has still to go through
    claimed,        \* 0, or Round of the row the worker claimed and is sending for
    delivered,      \* reminders claimed and delivered since the due time was last set
    changes,        \* calls of set_return_due so far
    orphaned,       \* rows whose claim died with its worker (history)
    failures, deaths   \* what went wrong so far

vars == <<now, status, due, stamped, batch, claimed, delivered, changes, orphaned, failures, deaths>>

OpenStatus == {"issued", "partially_returned"}

Never == MaxTime + 1

\* Numbers the due times a request has had.
Round(r) == changes[r] + 1

Overdue(r) == status[r] \in OpenStatus /\ due[r] <= now

Init ==
    /\ now = 0
    /\ status = [r \in Requests |-> "issued"]
    /\ due \in [Requests -> 0 .. Never]
    /\ stamped = [r \in Requests |-> FALSE]
    /\ batch = [w \in Workers |-> <<>>]
    /\ claimed = [w \in Workers |-> 0]
    /\ delivered = [r \in Requests |-> 0]
    /\ changes = [r \in Requests |-> 0]
    /\ orphaned = {} /\ failures = 0 /\ deaths = 0

Tick ==
    /\ now < MaxTime
    /\ now' = now + 1
    /\ UNCHANGED <<status, due, stamped, batch, claimed, delivered, changes, orphaned, failures, deaths>>

-----------------------------------------------------------------------------
(* The workflows that race with a run.                                     *)

\* A return, of part or of everything that is out.
Return(r) ==
    /\ status[r] \in OpenStatus
    /\ \E s \in {"partially_returned", "returned"} : status' = [status EXCEPT ![r] = s]
    /\ UNCHANGED <<now, due, stamped, batch, claimed, delivered, changes, orphaned, failures, deaths>>

set_return_due(r, d) ==
    /\ status[r] \in OpenStatus
    /\ changes[r] < MaxDueChanges
    /\ due' = [due EXCEPT ![r] = d]
    /\ stamped' = [stamped EXCEPT ![r] = FALSE]
    /\ delivered' = [delivered EXCEPT ![r] = 0]
    /\ changes' = [changes EXCEPT ![r] = @ + 1]
    /\ orphaned' = orphaned \ {r}
    /\ UNCHANGED <<now, status, batch, claimed, failures, deaths>>

-----------------------------------------------------------------------------
(* run_return_reminders.                                                   *)

Earlier(r, s) == due[r] < due[s] \/ (due[r] = due[s] /\ r <= s)

\* The rows the query selects, ordered by return_due_at and id.
DueRows == SetToSortSeq({r \in Requests : Overdue(r) /\ ~ stamped[r]}, Earlier)

Select(w) ==
    /\ batch[w] = <<>>
    /\ DueRows # <<>>
    /\ batch' = [batch EXCEPT ![w] = SubSeq(DueRows, 1, IF Len(DueRows) < Limit THEN Len(DueRows)
                                                        ELSE Limit)]
    /\ UNCHANGED <<now, status, due, stamped, claimed, delivered, changes, orphaned, failures, deaths>>

\* Mutant: claims a row another worker has stamped.
Claim_always(w) ==
    /\ batch[w] # <<>> /\ claimed[w] = 0
    /\ stamped' = [stamped EXCEPT ![Head(batch[w])] = TRUE]
    /\ claimed' = [claimed EXCEPT ![w] = Round(Head(batch[w]))]
    /\ UNCHANGED <<now, status, due, batch, delivered, changes, orphaned, failures, deaths>>

\* UPDATE ... WHERE return_reminder_sent_at IS NULL; neither the status nor
\* the due time is looked at again.
Claim(w) ==
    LET r == Head(batch[w])
    IN  /\ batch[w] # <<>> /\ claimed[w] = 0
        /\ IF stamped[r]
           THEN /\ batch' = [batch EXCEPT ![w] = Tail(@)]
                /\ UNCHANGED <<stamped, claimed>>
           ELSE /\ stamped' = [stamped EXCEPT ![r] = TRUE]
                /\ claimed' = [claimed EXCEPT ![w] = Round(r)]
                /\ UNCHANGED batch
        /\ UNCHANGED <<now, status, due, delivered, changes, orphaned, failures, deaths>>

\* notify_return_due delivered on some channel.
Sent(w, r) ==
    /\ claimed[w] > 0 /\ r = Head(batch[w]) /\ r \in Reachable
    /\ delivered' = [delivered EXCEPT ![r] = IF claimed[w] = Round(r) THEN @ + 1 ELSE @]
    /\ claimed' = [claimed EXCEPT ![w] = 0]
    /\ batch' = [batch EXCEPT ![w] = Tail(@)]
    /\ UNCHANGED <<now, status, due, stamped, changes, orphaned, failures, deaths>>

\* No channel takes the message.  A borrower without any address or channel
\* is no exception: notify_return_due returns False.
Fails(r, raised) ==
    \/ r \notin Reachable /\ ~ raised /\ UNCHANGED failures
    \/ r \in Reachable /\ failures < MaxFailures /\ failures' = failures + 1

\* Mutant: the stamp of an undelivered reminder is kept.
Unsent_keeps_stamp(w, raised) ==
    /\ claimed[w] > 0
    /\ Fails(Head(batch[w]), raised)
    /\ claimed' = [claimed EXCEPT ![w] = 0]
    /\ batch' = [batch EXCEPT ![w] = IF raised THEN <<>> ELSE Tail(@)]
    /\ UNCHANGED <<now, status, due, stamped, delivered, changes, orphaned, deaths>>

\* Nothing was delivered: the stamp is taken back, whoever set it last, and
\* an exception also ends the run.
Unsent(w, raised) ==
    /\ claimed[w] > 0
    /\ Fails(Head(batch[w]), raised)
    /\ stamped' = [stamped EXCEPT ![Head(batch[w])] = FALSE]
    /\ claimed' = [claimed EXCEPT ![w] = 0]
    /\ batch' = [batch EXCEPT ![w] = IF raised THEN <<>> ELSE Tail(@)]
    /\ UNCHANGED <<now, status, due, delivered, changes, orphaned, deaths>>

\* The process running w is killed; whatever it had claimed stays stamped.
Die(w) ==
    /\ deaths < MaxDeaths
    /\ batch[w] # <<>>
    /\ deaths' = deaths + 1
    /\ orphaned' = IF claimed[w] > 0 THEN orphaned \cup {Head(batch[w])} ELSE orphaned
    /\ batch' = [batch EXCEPT ![w] = <<>>]
    /\ claimed' = [claimed EXCEPT ![w] = 0]
    /\ UNCHANGED <<now, status, due, stamped, delivered, changes, failures>>

Next ==
    \/ Tick
    \/ \E r \in Requests :
          \/ Return(r)
          \/ \E d \in 0 .. Never : set_return_due(r, d)
    \/ \E w \in Workers :
          \/ Select(w)
          \/ Claim(w)
          \/ \E r \in Requests : Sent(w, r)
          \/ \E raised \in BOOLEAN : Unsent(w, raised)
          \/ Die(w)

\* A run that was started goes on to its end, or dies.
RunStep(w) ==
    \/ Claim(w)
    \/ \E raised \in BOOLEAN : Unsent(w, raised)
    \/ \E r \in Requests : Sent(w, r)

\* The scheduler starts runs for ever, and a run that was started goes on to
\* its end, or dies.
Fairness == \A w \in Workers : WF_vars(Select(w)) /\ WF_vars(RunStep(w))

Spec == Init /\ [][Next]_vars /\ Fairness

-----------------------------------------------------------------------------
(* Properties.                                                             *)

\* A borrower is reminded at most once for one due time, although runs
\* overlap and undelivered reminders are tried again: "whose reminder has not
\* already been sent" (docs/self-hosting.md).
RemindedOnce == \A r \in Requests : delivered[r] <= 1

\* The borrower was reminded, is not overdue any more, or was let down by a
\* worker that died.
Answered(r) == delivered[r] > 0 \/ ~ Overdue(r) \/ r \in orphaned

\* An overdue borrower who can be reached is reminded unless the borrowing is
\* returned or put off first: no claim that delivered nothing is left behind by
\* a failed or aborted run, borrowers who cannot be reached do not hold up the
\* others while they are fewer than a batch, a due time set anew is reminded of
\* anew, and a killed worker loses no more than the reminder it was sending.
EventuallyReminded ==
    \A r \in Reachable : (Overdue(r) /\ delivered[r] = 0) ~> Answered(r)
=============================================================================

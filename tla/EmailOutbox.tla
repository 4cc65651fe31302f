----------------------------- MODULE EmailOutbox -----------------------------
(***************************************************************************)
(* One outgoing e-mail: its EmailLog row, the Celery messages that ask for *)
(* its delivery, the workers that claim and send it, and the retries by    *)
(* Celery, by staff and by the flush_email_outbox cron.                    *)
(***************************************************************************)
EXTENDS Integers, FiniteSetsExt

CONSTANTS
    Workers,     \* processes delivering mail: Celery workers and requests
    MaxRetries,  \* max_retries of deliver_email_task
    MaxFaults,   \* bound on SMTP failures and deaths
    Callbacks,   \* whether a process may die before its on_commit callback
    PublishFails \* whether delay() may raise, before or after the broker took it

VARIABLES
    log,      \* the EmailLog row
    blocked,  \* the email module is off for the makerspace
    queue,    \* messages in the broker, by how often each was retried
    outbox,   \* on_commit callbacks that will enqueue the row
    worker,   \* where each process is, and the retries of its message
    mails,    \* mails that arrived
    doubts,   \* sends whose acceptance the row did not record
    faults

vars == <<log, blocked, queue, outbox, worker, mails, doubts, faults>>

(* A direct delivery (sync=True) has no message and no Celery retry. *)
Direct == MaxRetries + 1
Idle == [pc |-> "idle", retries |-> 0]
Sending == {w \in Workers : worker[w].pc \in {"claimed", "accepted", "refused"}}
Settled == {"sent", "skipped"}

(* The row and the processes are in states of the code; a row being sent   *)
(* under a live claim is sending (or pending, when delivered directly).    *)
TypeOK ==
    /\ log \in [status : {"none", "pending", "sending", "failed"} \cup Settled,
                stored : BOOLEAN, stale : BOOLEAN]
    /\ blocked \in BOOLEAN
    /\ queue \in [0..MaxRetries -> Nat]
    /\ outbox \in Nat
    /\ worker \in [Workers ->
         [pc : {"idle", "claimed", "accepted", "refused", "saved"}, retries : 0..Direct]]
    /\ faults \in 0..MaxFaults
    /\ log.stale => log.status = "sending"
    /\ ~PublishFails /\ Sending # {} =>
         log.status = IF \E w \in Sending : worker[w].retries = Direct
                      THEN "pending" ELSE "sending"

Init ==
    /\ log = [status |-> "none", stored |-> TRUE, stale |-> FALSE]
    /\ blocked \in BOOLEAN
    /\ queue = [n \in 0..MaxRetries |-> 0]
    /\ outbox = 0
    /\ worker = [w \in Workers |-> Idle]
    /\ mails = 0
    /\ doubts = 0
    /\ faults = 0

Set(status) == log' = [log EXCEPT !.status = status, !.stale = FALSE]
Publish(n) == queue' = [queue EXCEPT ![n] = @ + 1]
Fault == faults < MaxFaults /\ faults' = faults + 1

(***************************************************************************)
(* Dispatch and enqueueing                                                 *)
(***************************************************************************)

(* refused: the daily limit is reached or the module is off. *)
dispatch_email(refused) ==
    /\ log.status = "none"
    /\ blocked => refused
    /\ Set(IF refused THEN "skipped" ELSE "pending")
    /\ outbox' = IF refused THEN outbox ELSE outbox + 1
    /\ UNCHANGED <<blocked, queue, worker, mails, doubts, faults>>

(* sync=True: the request sends the mail itself; the body may be kept out  *)
(* of the row, which then cannot be retried.                               *)
dispatch_direct(w, stored) ==
    /\ log.status = "none"
    /\ ~blocked
    /\ worker[w].pc = "idle"
    /\ log' = [log EXCEPT !.status = "pending", !.stored = stored]
    /\ worker' = [worker EXCEPT ![w] = [pc |-> "claimed", retries |-> Direct]]
    /\ UNCHANGED <<blocked, queue, outbox, mails, doubts, faults>>

(* The callback publishes the message; if delay() raises it marks the row  *)
(* failed, whatever the row has become meanwhile.                          *)
_enqueue(outcome) ==
    /\ outbox > 0
    /\ outbox' = outbox - 1
    /\ \/ outcome = "published" /\ Publish(0) /\ UNCHANGED <<log, faults>>
       \/ outcome = "raised" /\ PublishFails /\ Fault /\ Set("failed") /\ UNCHANGED queue
       \/ outcome = "unanswered" /\ PublishFails /\ Fault /\ Publish(0) /\ Set("failed")
       \/ outcome = "died" /\ Callbacks /\ Fault /\ UNCHANGED <<log, queue>>
    /\ UNCHANGED <<blocked, worker, mails, doubts>>

\* Mutant: stalled rows are not retried.
retry_failed_only ==
    /\ log.status = "failed"
    /\ log.stored
    /\ Set("pending")
    /\ outbox' = outbox + 1
    /\ UNCHANGED <<blocked, queue, worker, mails, doubts, faults>>

(* Staff, or flush_email_outbox for every failed or stalled row. *)
retry_email_log ==
    /\ log.status \in {"failed", "sending"}
    /\ log.status = "sending" => log.stale
    /\ log.stored
    /\ Set("pending")
    /\ outbox' = outbox + 1
    /\ UNCHANGED <<blocked, queue, worker, mails, doubts, faults>>

(***************************************************************************)
(* deliver_email_task                                                      *)
(***************************************************************************)

MayClaim == log.status \notin Settled /\ (log.status = "sending" => log.stale)

_claim_log(w, n) ==
    /\ worker[w].pc = "idle"
    /\ queue[n] > 0
    /\ queue' = [queue EXCEPT ![n] = @ - 1]
    /\ IF MayClaim
       THEN /\ Set("sending")
            /\ worker' = [worker EXCEPT ![w] = [pc |-> "claimed", retries |-> n]]
       ELSE UNCHANGED <<log, worker>>
    /\ UNCHANGED <<blocked, outbox, mails, doubts, faults>>

(* The module gate is read again when the mail is about to go out. *)
_deliver_blocked(w) ==
    /\ worker[w].pc = "claimed"
    /\ blocked
    /\ Set("skipped")
    /\ worker' = [worker EXCEPT ![w] = Idle]
    /\ UNCHANGED <<blocked, queue, outbox, mails, doubts, faults>>

(* msg.send(): an exception (a provider error, the soft time limit) may    *)
(* come after the provider took the mail.                                  *)
_deliver(w, accepted, arrives) ==
    /\ worker[w].pc = "claimed"
    /\ ~blocked
    /\ worker' = [worker EXCEPT ![w].pc = IF accepted THEN "accepted" ELSE "refused"]
    /\ mails' = IF arrives THEN mails + 1 ELSE mails
    /\ IF accepted THEN UNCHANGED <<doubts, faults>>
       ELSE Fault /\ doubts' = IF arrives THEN doubts + 1 ELSE doubts
    /\ UNCHANGED <<log, blocked, queue, outbox>>

(* The row is saved from the copy in memory. *)
_deliver_save(w) ==
    /\ worker[w].pc \in {"accepted", "refused"}
    /\ Set(IF worker[w].pc = "accepted" THEN "sent" ELSE "failed")
    /\ worker' = [worker EXCEPT ![w].pc = "saved"]
    /\ UNCHANGED <<blocked, queue, outbox, mails, doubts, faults>>

retry_or_finish(w) ==
    /\ worker[w].pc = "saved"
    /\ IF log.status = "failed" /\ worker[w].retries < MaxRetries
       THEN Publish(worker[w].retries + 1) ELSE UNCHANGED queue
    /\ worker' = [worker EXCEPT ![w] = Idle]
    /\ UNCHANGED <<log, blocked, outbox, mails, doubts, faults>>

Deliver(w) ==
    \/ \E n \in 0..MaxRetries : _claim_log(w, n)
    \/ _deliver_blocked(w)
    \/ \E accepted, arrives \in BOOLEAN : _deliver(w, accepted, arrives)
    \/ _deliver_save(w)
    \/ retry_or_finish(w)

(* The process is killed: at the hard time limit Celery drops its message, *)
(* with the whole worker the broker delivers the message again.            *)
Dies(w, redelivered) ==
    /\ worker[w].pc # "idle"
    /\ Fault
    /\ redelivered => worker[w].retries # Direct
    /\ IF redelivered THEN Publish(worker[w].retries) ELSE UNCHANGED queue
    /\ worker' = [worker EXCEPT ![w] = Idle]
    /\ doubts' = IF worker[w].pc = "accepted" THEN doubts + 1 ELSE doubts
    /\ UNCHANGED <<log, blocked, outbox, mails>>

\* Mutant: a claim may be taken over while its sender lives.
GoesStale_at_once ==
    /\ log.status = "sending" /\ ~log.stale
    /\ log' = [log EXCEPT !.stale = TRUE]
    /\ UNCHANGED <<blocked, queue, outbox, worker, mails, doubts, faults>>

(* A claim is stale only after the hard time limit and a margin, when the  *)
(* process that held it has been killed.                                   *)
GoesStale ==
    /\ log.status = "sending" /\ ~log.stale
    /\ Sending = {}
    /\ log' = [log EXCEPT !.stale = TRUE]
    /\ UNCHANGED <<blocked, queue, outbox, worker, mails, doubts, faults>>

Toggle ==
    /\ blocked' = ~blocked
    /\ UNCHANGED <<log, queue, outbox, worker, mails, doubts, faults>>

Next ==
    \/ \E refused \in BOOLEAN : dispatch_email(refused)
    \/ \E w \in Workers, stored \in BOOLEAN : dispatch_direct(w, stored)
    \/ \E outcome \in {"published", "raised", "unanswered", "died"} : _enqueue(outcome)
    \/ retry_email_log
    \/ \E w \in Workers : Deliver(w) \/ \E redelivered \in BOOLEAN : Dies(w, redelivered)
    \/ GoesStale
    \/ Toggle

Spec == Init /\ [][Next]_vars

(* Processes run, callbacks are called, a claim ages by the clock, and the *)
(* cron retries what failed or stalled.                                    *)
FairSpec ==
    /\ Spec
    /\ \A w \in Workers : WF_vars(Deliver(w))
    /\ WF_vars(\E outcome \in {"published", "raised"} : _enqueue(outcome))
    /\ WF_vars(GoesStale)
    /\ WF_vars(retry_email_log)

(***************************************************************************)
(* Properties                                                              *)
(***************************************************************************)

(* "A SENDING row is an in-flight claim (must NOT be retried -- that would *)
(* double-deliver)": two processes never send the row at the same time,    *)
(* through redelivery, Celery's retries, staff and the cron.               *)
OneSenderAtATime == Cardinality(Sending) <= 1

(* A recipient gets the mail twice only when the outcome of an earlier     *)
(* send is unknown: the provider took it and the process died or saw an    *)
(* error (_retry_countdown: "at-least-once").                              *)
DuplicatesAccounted == mails <= 1 + doubts

(* Sent is final, and so is the refusal the email module or the daily      *)
(* limit recorded: no retry, redelivery or late save reopens the row       *)
(* (EmailLog.Status.SKIPPED, "this logical send must never be retried").   *)
StaysSettled == log.status \in Settled => log'.status = log.status

SettledIsFinal == [][StaysSettled]_vars

(* A row whose worker died or whose sends failed is settled in the end, as *)
(* long as its content is stored and faults stop (sending_claim_is_stale,  *)
(* flush_email_outbox).                                                    *)
Stalled == log.stored /\ log.status \in {"sending", "failed"}

StalledSettles == Stalled ~> log.status \in Settled

=============================================================================

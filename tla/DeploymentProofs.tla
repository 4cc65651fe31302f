-------------------------- MODULE DeploymentProofs --------------------------
(***************************************************************************)
(* What a deployment does beside its requests.  Nobody hears twice, for    *)
(* any number of borrowers, runs, mails, codes and processes: return       *)
(* reminders, the mail outbox, password recovery.                          *)
(*                                                                         *)
(* A makerspace moves without losing a row and without living twice, for   *)
(* any number of writers, owners, archives and fencing tokens; and a       *)
(* deployment is moved only to the database its restore has proved, a      *)
(* rollback leaving it as it was, for any number of objects and any number *)
(* of deaths, expiries and refusals.  Its audit log keeps one history, as  *)
(* AuditProofs shows of AuditChain.                                        *)
(***************************************************************************)
EXTENDS Background, Integers, Sequences, FiniteSetTheorems, TLAPS

(* A step belongs to the component its behaviour started in. *)
LEMMA PartStep ==
    ASSUME [Next]_vars
    PROVE  /\ part' = part
           /\ part = "due" => [Due!Next]_Due!vars
           /\ part = "mail" => [Mail!Next]_Mail!vars
           /\ part = "reset" => [Reset!Next]_Reset!vars
           /\ part = "gate" => [Gate!Next]_Gate!vars
           /\ part = "restoring" => [Restoring!Next]_Restoring!vars
           /\ part = "auditing" => [Audit!Next]_Audit!vars
<1>1. /\ part' = part
      /\ part = "due" => [Due!Next]_Due!vars
      /\ part = "mail" => [Mail!Next]_Mail!vars
      /\ part = "reset" => [Reset!Next]_Reset!vars
  BY DEF Next, vars, photoRest, resetVars, mailVars, dueVars, Due!vars, Mail!vars, Reset!vars,
     Reset!world
<1>2. /\ part = "gate" => [Gate!Next]_Gate!vars
      /\ part = "restoring" => [Restoring!Next]_Restoring!vars
      /\ part = "auditing" => [Audit!Next]_Audit!vars
  BY DEF Next, vars, photoRest, newerVars, gateVars, restoreVars, auditVars, Gate!vars,
     Restoring!vars, Audit!vars
<1> QED
  BY <1>1, <1>2

-----------------------------------------------------------------------------
(* Return reminders.                                                       *)

\* The run is sending for the borrowing it claimed.
SendingFor(w, r) == claimed[w] # 0 /\ Head(batch[w]) = r

\* Whoever sends for a borrowing has stamped it, alone and before it was
\* reminded; a reminded borrowing stays stamped.
StampHeld ==
    \A r \in Borrowings :
        /\ delivered[r] \in {0, 1}
        /\ delivered[r] = 1 => stamped[r]
        /\ \A w \in Runs : SendingFor(w, r) =>
              /\ stamped[r] /\ delivered[r] = 0
              /\ \A v \in Runs : SendingFor(v, r) => v = w

DueInv ==
    /\ stamped = [r \in Borrowings |-> stamped[r]]
    /\ delivered = [r \in Borrowings |-> delivered[r]]
    /\ claimed = [w \in Runs |-> claimed[w]] /\ batch = [w \in Runs |-> batch[w]]
    /\ \A w \in Runs : claimed[w] # 0 => batch[w] # <<>>
    /\ StampHeld

LEMMA DueInit == Due!Init => DueInv
  BY DEF Due!Init, DueInv, StampHeld, SendingFor

\* The workflows that race with the runs leave stamps and claims alone, as long as
\* no due time is changed.
LEMMA RacesKeep ==
    ASSUME MaxDueChanges = 0, DueInv, changes = [r \in Borrowings |-> 0],
           \/ Due!Tick
           \/ \E r \in Borrowings : Due!Return(r) \/ \E d \in 0..Due!Never : Due!set_return_due(r, d)
    PROVE  DueInv' /\ changes' = changes
  BY DEF Due!Tick, Due!Return, Due!set_return_due, DueInv, StampHeld, SendingFor

LEMMA RunKeeps ==
    ASSUME DueInv, NEW w \in Runs,
           \/ Due!Select(w) \/ Due!Claim(w) \/ Due!Die(w)
           \/ \E r \in Borrowings : Due!Sent(w, r)
           \/ \E raised \in BOOLEAN : Due!Unsent(w, raised)
    PROVE  DueInv' /\ changes' = changes
<1> USE DEF DueInv
<1>1. CASE Due!Select(w)
  <2>1. /\ claimed[w] = 0 /\ UNCHANGED <<claimed, stamped, delivered, changes>>
        /\ \E b : batch' = [batch EXCEPT ![w] = b]
    BY <1>1 DEF Due!Select
  <2>2. \A v \in Runs, r \in Borrowings : SendingFor(v, r)' => SendingFor(v, r)
    BY <2>1 DEF SendingFor
  <2>3. StampHeld'
    BY <2>1, <2>2 DEF StampHeld
  <2> QED
    BY <2>1, <2>3
<1>2. CASE Due!Claim(w)
  BY <1>2 DEF Due!Claim, StampHeld, SendingFor
<1>3. CASE Due!Die(w)
  BY <1>3, ZenonT(60) DEF Due!Die, StampHeld, SendingFor
<1>4. ASSUME NEW r \in Borrowings, Due!Sent(w, r) PROVE DueInv' /\ changes' = changes
  <2>1. SendingFor(w, r)
    BY <1>4 DEF Due!Sent, SendingFor
  <2>2. stamped[r] /\ delivered[r] = 0 /\ \A v \in Runs : SendingFor(v, r) => v = w
    BY <2>1 DEF StampHeld
  <2>3. /\ delivered' = [delivered EXCEPT ![r] = IF claimed[w] = Due!Round(r) THEN @ + 1 ELSE @]
        /\ claimed' = [claimed EXCEPT ![w] = 0]
        /\ batch' = [batch EXCEPT ![w] = Tail(@)]
        /\ stamped' = stamped /\ changes' = changes
    BY <1>4 DEF Due!Sent
  <2>4. delivered'[r] \in {0, 1} /\ \A q \in Borrowings : q # r => delivered'[q] = delivered[q]
    BY <2>2, <2>3
  <2>5. \A v \in Runs, q \in Borrowings : SendingFor(v, q)' => v # w /\ SendingFor(v, q)
    BY <2>3 DEF SendingFor
  <2>6. \A v \in Runs : ~SendingFor(v, r)'
    BY <2>2, <2>5
  <2>7. StampHeld'
    <3> SUFFICES ASSUME NEW q \in Borrowings
                 PROVE  /\ delivered'[q] \in {0, 1}
                        /\ delivered'[q] = 1 => stamped'[q]
                        /\ \A v \in Runs : SendingFor(v, q)' =>
                              /\ stamped'[q] /\ delivered'[q] = 0
                              /\ \A u \in Runs : SendingFor(u, q)' => u = v
      BY DEF StampHeld
    <3>1. CASE q = r
      BY <2>2, <2>3, <2>4, <2>5, <2>6, <3>1 DEF StampHeld
    <3>2. CASE q # r
      BY <2>3, <2>4, <2>5, <2>6, <3>2 DEF StampHeld
    <3> QED
      BY <3>1, <3>2
  <2> QED
    BY <2>3, <2>7
<1>5. ASSUME NEW raised \in BOOLEAN, Due!Unsent(w, raised) PROVE DueInv' /\ changes' = changes
  <2>. PICK r : r = Head(batch[w])
    OBVIOUS
  <2>1. SendingFor(w, r)
    BY <1>5 DEF Due!Unsent, SendingFor
  <2>2. r \in Borrowings => delivered[r] = 0 /\ \A v \in Runs : SendingFor(v, r) => v = w
    BY <2>1 DEF StampHeld
  <2>3. /\ stamped' = [stamped EXCEPT ![r] = FALSE]
        /\ claimed' = [claimed EXCEPT ![w] = 0]
        /\ batch' = [batch EXCEPT ![w] = IF raised THEN <<>> ELSE Tail(@)]
        /\ delivered' = delivered /\ changes' = changes
    BY <1>5 DEF Due!Unsent
  <2>4. \A v \in Runs, q \in Borrowings : SendingFor(v, q)' => v # w /\ SendingFor(v, q)
    BY <2>3 DEF SendingFor
  <2>5. \A v \in Runs : r \in Borrowings => ~SendingFor(v, r)'
    BY <2>2, <2>4
  <2>6. \A q \in Borrowings : q # r => stamped'[q] = stamped[q]
    BY <2>3
  <2>7. StampHeld'
    <3> SUFFICES ASSUME NEW q \in Borrowings
                 PROVE  /\ delivered'[q] \in {0, 1}
                        /\ delivered'[q] = 1 => stamped'[q]
                        /\ \A v \in Runs : SendingFor(v, q)' =>
                              /\ stamped'[q] /\ delivered'[q] = 0
                              /\ \A u \in Runs : SendingFor(u, q)' => u = v
      BY DEF StampHeld
    <3>1. CASE q = r
      BY <2>2, <2>3, <2>4, <2>5, <2>6, <3>1 DEF StampHeld
    <3>2. CASE q # r
      BY <2>3, <2>4, <2>5, <2>6, <3>2 DEF StampHeld
    <3> QED
      BY <3>1, <3>2
  <2> QED
    BY <2>3, <2>7
<1> QED
  BY <1>1, <1>2, <1>3, <1>4, <1>5

\* No due time is changed, and no run lets another one's claim go.
LEMMA DueNext ==
    ASSUME MaxDueChanges = 0, DueInv, changes = [r \in Borrowings |-> 0],
           [Due!Next]_Due!vars
    PROVE  DueInv' /\ changes' = changes
<1>1. CASE UNCHANGED Due!vars
  BY <1>1 DEF Due!vars, DueInv, StampHeld, SendingFor
<1>2. CASE Due!Next
  BY <1>2, RacesKeep, RunKeeps DEF Due!Next
<1> QED
  BY <1>1, <1>2

\* A borrower is reminded once for one due time, however many runs overlap and
\* die (services_return_reminders.py), as long as nobody changes the due time
\* meanwhile: the finding of the run reminder_twice is why that is assumed.
THEOREM RemindedJustOnce == ASSUME MaxDueChanges = 0 PROVE Spec => []RemindedOnce
<1> DEFINE I == part = "due" => DueInv /\ changes = [r \in Borrowings |-> 0]
<1>1. Init => I
  BY DueInit DEF Init, Due!Init
<1>2. I /\ [Next]_vars => I'
  BY PartStep, DueNext
<1>3. I => RemindedOnce
  BY DEF DueInv, StampHeld, RemindedOnce, Due!RemindedOnce
<1> QED
  BY <1>1, <1>2, <1>3, PTL DEF Spec

-----------------------------------------------------------------------------
(* An e-mail of the outbox.                                                *)

\* One process sends at a time, and nobody holds a claim that went stale.
OneSender ==
    /\ \A v, w \in Mail!Sending : v = w
    /\ log.stale => Mail!Sending = {}

\* Who sends directly has the row to itself: nothing was ever enqueued for it,
\* and nobody else works on it.
DirectAlone ==
    /\ log.status = "none" \/ (\E w \in Mail!Sending : worker[w].retries = Mail!Direct) =>
         outbox = 0 /\ \A n \in 0..MaxRetries : queue[n] = 0
    /\ \A w \in Mail!Sending : worker[w].retries = Mail!Direct =>
         \A v \in Senders : v # w => worker[v].pc = "idle"

\* Before it is dispatched nobody works on the row.
NoneIdle == log.status = "none" => \A w \in Senders : worker[w].pc = "idle"

\* The mail whose acceptance is known, or will be when its sender saves the row.
Known == IF log.status = "sent" \/ \E w \in Senders : worker[w].pc = "accepted" THEN 1 ELSE 0

Counted == mails \in Nat /\ doubts \in Nat /\ mails <= doubts + Known

\* The rows of the log.
MailStatus == {"none", "pending", "sending", "failed", "sent", "skipped"}
MailRow == [status : MailStatus, stored : BOOLEAN, stale : BOOLEAN]

LEMMA RowSet ==
    ASSUME log \in MailRow, NEW st \in MailStatus, Mail!Set(st)
    PROVE  log' \in MailRow /\ log'.status = st /\ log'.stale = FALSE
  BY DEF Mail!Set, MailRow

\* The type invariant in the terms of a step.
MailTypes ==
    /\ log \in MailRow /\ blocked \in BOOLEAN
    /\ queue \in [0..MaxRetries -> Nat] /\ outbox \in Nat
    /\ worker \in [Senders ->
         [pc : {"idle", "claimed", "accepted", "refused", "saved"}, retries : 0..Mail!Direct]]
    /\ faults \in 0..MaxFaults

ClaimShown ==
    /\ log.stale => log.status = "sending"
    /\ Mail!Sending # {} =>
         log.status = IF \E w \in Mail!Sending : worker[w].retries = Mail!Direct
                      THEN "pending" ELSE "sending"

MailInv == MailTypes /\ ClaimShown /\ OneSender /\ DirectAlone /\ NoneIdle /\ Counted

LEMMA MailTyped == ASSUME ~PublishFails PROVE Mail!TypeOK <=> MailTypes /\ ClaimShown
  BY DEF Mail!TypeOK, MailTypes, ClaimShown, MailRow, MailStatus, Mail!Settled

LEMMA MailInit == ASSUME ~PublishFails, Mail!Init PROVE MailInv
<1> USE MailAssumption DEF Mail!Init, Mail!Idle, Mail!Direct
<1>1. Mail!Sending = {}
  BY DEF Mail!Sending
<1>2. MailTypes /\ ClaimShown
  BY <1>1 DEF MailTypes, ClaimShown, MailRow, MailStatus
<1> QED
  BY <1>1, <1>2 DEF MailInv, OneSender, DirectAlone, NoneIdle, Counted, Known

LEMMA DispatchKeeps ==
    ASSUME ~PublishFails, MailInv,
           \/ \E held \in BOOLEAN : Mail!dispatch_email(held)
           \/ \E outcome \in {"published", "raised", "unanswered", "died"} : Mail!_enqueue(outcome)
           \/ Mail!retry_email_log
           \/ Mail!GoesStale
           \/ Mail!Toggle
    PROVE  MailInv'
<1>1. /\ worker' = worker /\ mails' = mails /\ doubts' = doubts
      /\ Mail!Sending' = Mail!Sending /\ Mail!Direct' = Mail!Direct
  BY DEF Mail!dispatch_email, Mail!_enqueue, Mail!retry_email_log, Mail!GoesStale, Mail!Toggle,
         Mail!Sending, Mail!Direct
<1>2. ASSUME NEW st \in MailStatus \ {"none", "sent"}, Mail!Set(st), Mail!Sending = {},
             log.status # "sent",
             UNCHANGED <<queue, faults>>, blocked' \in BOOLEAN, outbox' \in Nat
      PROVE  MailInv'
  <2>1. log' \in MailRow /\ log'.status = st /\ log'.stale = FALSE
    BY <1>2, RowSet DEF MailInv, MailTypes
  <2>2. MailTypes' /\ ClaimShown'
    BY <1>1, <1>2, <2>1 DEF MailInv, MailTypes, ClaimShown
  <2>3. Known' = Known
    BY <1>1, <1>2, <2>1 DEF Known
  <2> QED
    BY <1>1, <1>2, <2>1, <2>2, <2>3 DEF MailInv, OneSender, DirectAlone, NoneIdle, Counted
<1>3. ASSUME NEW held \in BOOLEAN, Mail!dispatch_email(held)
      PROVE  MailInv'
  <2>1. Mail!Sending = {} /\ outbox \in Nat /\ blocked \in BOOLEAN
    BY <1>3 DEF MailInv, MailTypes, NoneIdle, Mail!dispatch_email, Mail!Sending
  <2>2. PICK st \in {"skipped", "pending"} : Mail!Set(st)
    BY <1>3 DEF Mail!dispatch_email
  <2>3. /\ log.status # "sent" /\ UNCHANGED <<queue, faults>> /\ blocked' = blocked
        /\ outbox' = outbox \/ outbox' = outbox + 1
    BY <1>3 DEF Mail!dispatch_email
  <2>5. outbox' \in Nat
    BY <2>1, <2>3
  <2>4. st \in MailStatus \ {"none", "sent"}
    BY DEF MailStatus
  <2> QED
    BY <1>2, <2>1, <2>2, <2>3, <2>4, <2>5
<1>4. ASSUME NEW outcome \in {"published", "raised", "unanswered", "died"}, Mail!_enqueue(outcome)
      PROVE  MailInv'
  <2>1. log' = log /\ blocked' = blocked /\ outbox > 0 /\ outbox' = outbox - 1
    BY <1>4 DEF Mail!_enqueue
  <2>2. queue' \in [0..MaxRetries -> Nat] /\ faults' \in 0..MaxFaults
    <3>1. queue \in [0..MaxRetries -> Nat] /\ faults \in 0..MaxFaults /\ 0 \in 0..MaxRetries
      BY MailAssumption DEF MailAssumption, MailInv, MailTypes
    <3>2. \/ queue' = [queue EXCEPT ![0] = @ + 1] /\ faults' = faults
          \/ queue' = queue /\ faults < MaxFaults /\ faults' = faults + 1
      BY <1>4 DEF Mail!_enqueue, Mail!Publish, Mail!Fault
    <3> QED
      BY <3>1, <3>2, MailAssumption
  <2>3. outbox # 0 /\ outbox' \in Nat
    BY <2>1 DEF MailInv, MailTypes
  <2>4. MailTypes' /\ ClaimShown'
    BY <1>1, <2>1, <2>2, <2>3 DEF MailInv, MailTypes, ClaimShown
  <2>5. DirectAlone'
    BY <1>1, <2>1, <2>3 DEF MailInv, DirectAlone
  <2>6. Known' = Known
    BY <1>1, <2>1 DEF Known
  <2> QED
    BY <1>1, <2>1, <2>4, <2>5, <2>6 DEF MailInv, OneSender, NoneIdle, Counted
<1>5. ASSUME Mail!retry_email_log
      PROVE  MailInv'
  <2>1. /\ log.status = "failed" \/ log.stale
        /\ log.status \notin {"none", "sent"} /\ Mail!Set("pending") /\ outbox' = outbox + 1
        /\ UNCHANGED <<queue, faults, blocked>>
    BY <1>5 DEF Mail!retry_email_log
  <2>2. Mail!Sending = {}
    <3>1. Mail!Sending # {} => log.status \in {"pending", "sending"}
      BY DEF MailInv, ClaimShown
    <3>2. log.stale => Mail!Sending = {}
      BY DEF MailInv, OneSender
    <3> QED
      BY <2>1, <3>1, <3>2
  <2>3. blocked \in BOOLEAN /\ outbox' \in Nat
    BY <2>1 DEF MailInv, MailTypes
  <2>4. "pending" \in MailStatus \ {"none", "sent"} /\ log.status # "sent"
    BY <2>1 DEF MailStatus
  <2> QED
    BY <1>2, <2>1, <2>2, <2>3, <2>4
<1>6. ASSUME Mail!GoesStale
      PROVE  MailInv'
  <2>1. /\ log.status = "sending" /\ Mail!Sending = {} /\ log' = [log EXCEPT !.stale = TRUE]
        /\ UNCHANGED <<blocked, queue, outbox, faults>>
    BY <1>6 DEF Mail!GoesStale
  <2>2. log' \in MailRow /\ log'.status = "sending"
    BY <2>1 DEF MailInv, MailTypes, MailRow
  <2>3. MailTypes' /\ ClaimShown'
    BY <1>1, <2>1, <2>2 DEF MailInv, MailTypes, ClaimShown
  <2>4. Known' = Known
    BY <1>1, <2>1, <2>2 DEF Known
  <2> QED
    BY <1>1, <2>1, <2>2, <2>3, <2>4 DEF MailInv, OneSender, DirectAlone, NoneIdle, Counted
<1>7. ASSUME Mail!Toggle
      PROVE  MailInv'
  <2>1. blocked' \in BOOLEAN /\ UNCHANGED <<log, queue, outbox, faults>>
    BY <1>7 DEF MailInv, MailTypes, Mail!Toggle
  <2> QED
    BY <1>1, <2>1 DEF MailInv, MailTypes, ClaimShown, OneSender, DirectAlone, NoneIdle, Counted,
       Known
<1> QED
  BY <1>3, <1>4, <1>5, <1>6, <1>7

\* A sender is the only one, and the row shows its claim.
LEMMA SenderAlone ==
    ASSUME MailInv, NEW w \in Mail!Sending
    PROVE  /\ Mail!Sending = {w} /\ w \in Senders
           /\ log.status \in {"pending", "sending"} /\ log.stale = FALSE
           /\ Known = IF worker[w].pc = "accepted" THEN 1 ELSE 0
<1>1. Mail!Sending = {w} /\ w \in Senders
  BY DEF MailInv, OneSender, Mail!Sending
<1>2. log.status \in {"pending", "sending"} /\ log.stale = FALSE
  BY <1>1 DEF MailInv, MailTypes, MailRow, OneSender, ClaimShown
<1>3. \A v \in Senders : worker[v].pc = "accepted" => v = w
  BY <1>1 DEF Mail!Sending
<1> QED
  BY <1>1, <1>2, <1>3 DEF Known

LEMMA QueueTyped ==
    ASSUME MailInv, NEW n \in 0..MaxRetries, Mail!Publish(n)
    PROVE  queue' \in [0..MaxRetries -> Nat]
  BY DEF MailInv, MailTypes, Mail!Publish

LEMMA DirectKeeps ==
    ASSUME MailInv, NEW w \in Senders, NEW kept \in BOOLEAN, Mail!dispatch_direct(w, kept)
    PROVE  MailInv'
<1>1. /\ log.status = "none" /\ log.stale = FALSE /\ log' \in MailRow
      /\ log'.status = "pending" /\ log'.stale = FALSE
  BY DEF MailInv, MailTypes, ClaimShown, Mail!dispatch_direct, MailRow, MailStatus
<1>2. /\ worker' = [worker EXCEPT ![w] = [pc |-> "claimed", retries |-> Mail!Direct]]
      /\ UNCHANGED <<blocked, queue, outbox, mails, doubts, faults>>
  BY DEF Mail!dispatch_direct
<1>3. /\ \A v \in Senders : worker[v].pc = "idle"
      /\ outbox = 0 /\ \A n \in 0..MaxRetries : queue[n] = 0
  BY <1>1 DEF MailInv, NoneIdle, DirectAlone
<1>4. Mail!Sending' = {w} /\ worker'[w].retries = Mail!Direct /\ Mail!Direct' = Mail!Direct
  BY <1>2, <1>3 DEF MailInv, MailTypes, Mail!Sending, Mail!Direct
<1>5. Mail!Direct \in 0..Mail!Direct
  BY MailAssumption DEF MailAssumption, Mail!Direct
<1>6. MailTypes'
  BY <1>1, <1>2, <1>4, <1>5 DEF MailInv, MailTypes
<1>7. Known = 0 /\ Known' = 0
  BY <1>1, <1>2, <1>3 DEF MailInv, MailTypes, Known
<1>8. ClaimShown' /\ OneSender' /\ NoneIdle'
  BY <1>1, <1>4 DEF ClaimShown, OneSender, NoneIdle
<1>9. DirectAlone'
  BY <1>1, <1>2, <1>3, <1>4 DEF MailInv, MailTypes, DirectAlone
<1> QED
  BY <1>2, <1>6, <1>7, <1>8, <1>9 DEF MailInv, Counted

LEMMA ClaimKeeps ==
    ASSUME MailInv, NEW w \in Senders, NEW n \in 0..MaxRetries, Mail!_claim_log(w, n)
    PROVE  MailInv'
<1>1. /\ worker[w].pc = "idle" /\ queue[n] # 0 /\ queue' = [queue EXCEPT ![n] = @ - 1]
      /\ UNCHANGED <<blocked, outbox, mails, doubts, faults>>
  BY DEF MailInv, MailTypes, Mail!_claim_log
<1>2. queue' \in [0..MaxRetries -> Nat]
  BY DEF MailInv, MailTypes, Mail!_claim_log
<1>3. log.status # "none" /\ \A v \in Mail!Sending : worker[v].retries # Mail!Direct
  BY <1>1 DEF MailInv, DirectAlone
<1>4. CASE Mail!MayClaim
  <2>1. Mail!Sending = {} /\ log.status # "sent"
    BY <1>3, <1>4 DEF MailInv, ClaimShown, OneSender, Mail!MayClaim, Mail!Settled
  <2>2. Mail!Set("sending") /\ worker' = [worker EXCEPT ![w] = [pc |-> "claimed", retries |-> n]]
    BY <1>4 DEF Mail!_claim_log
  <2>3. log' \in MailRow /\ log'.status = "sending" /\ log'.stale = FALSE
    BY <2>2, RowSet DEF MailInv, MailTypes, MailStatus
  <2>4. n \in 0..Mail!Direct /\ n # Mail!Direct
    BY MailAssumption DEF MailAssumption, Mail!Direct
  <2>5. MailTypes'
    BY <1>1, <1>2, <2>2, <2>3, <2>4 DEF MailInv, MailTypes, Mail!Direct
  <2>6. Mail!Sending' = {w} /\ worker'[w].retries # Mail!Direct /\ Mail!Direct' = Mail!Direct
    BY <2>1, <2>2, <2>4 DEF MailInv, MailTypes, Mail!Sending, Mail!Direct
  <2>7. Known' = Known
    BY <1>1, <2>1, <2>2, <2>3 DEF MailInv, MailTypes, Known
  <2>8. ClaimShown' /\ OneSender' /\ DirectAlone' /\ NoneIdle'
    BY <2>3, <2>6 DEF ClaimShown, OneSender, DirectAlone, NoneIdle
  <2> QED
    BY <1>1, <2>5, <2>7, <2>8 DEF MailInv, Counted
<1>5. CASE ~Mail!MayClaim
  <2>1. UNCHANGED <<log, worker>> /\ Mail!Sending' = Mail!Sending /\ Mail!Direct' = Mail!Direct
    BY <1>5 DEF Mail!_claim_log, Mail!Sending, Mail!Direct
  <2> QED
    BY <1>1, <1>2, <1>3, <2>1 DEF MailInv, MailTypes, ClaimShown, OneSender, DirectAlone,
         NoneIdle, Counted, Known
<1> QED
  BY <1>4, <1>5

\* The claim ends: its row is settled, failed, or left as it is.
LEMMA ReleaseKeeps ==
    ASSUME MailInv, NEW w \in Mail!Sending,
           worker' \in [Senders -> [pc : {"idle", "claimed", "accepted", "refused", "saved"},
                                    retries : 0..Mail!Direct]],
           worker'[w].pc \in {"idle", "saved"},
           \A v \in Senders : v # w => worker'[v] = worker[v],
           log' \in MailRow, log'.status # "none", log'.stale = FALSE,
           queue' \in [0..MaxRetries -> Nat], UNCHANGED <<blocked, outbox, mails>>,
           faults' \in 0..MaxFaults, doubts' \in Nat,
           worker[w].pc = "accepted" =>
              doubts' = doubts + 1 \/ (doubts' = doubts /\ log'.status = "sent"),
           worker[w].pc # "accepted" => doubts' = doubts
    PROVE  MailInv'
<1>1. Mail!Sending = {w} /\ w \in Senders /\ Known = IF worker[w].pc = "accepted" THEN 1 ELSE 0
  BY SenderAlone
<1>2. Mail!Sending' = {} /\ Mail!Direct' = Mail!Direct
  BY <1>1 DEF Mail!Sending, Mail!Direct
<1>3. Known' = IF log'.status = "sent" THEN 1 ELSE 0
  <2>1. \A v \in Senders : worker'[v].pc # "accepted"
    BY <1>2 DEF Mail!Sending
  <2> QED
    BY <2>1 DEF Known
<1>4. Counted'
  <2>1. mails \in Nat /\ doubts \in Nat /\ mails <= doubts + Known
    BY DEF MailInv, Counted
  <2>2. CASE worker[w].pc = "accepted"
    <3>1. Known = 1
      BY <1>1, <2>2
    <3>2. CASE doubts' = doubts + 1
      BY <1>3, <2>1, <3>1, <3>2 DEF Counted
    <3>3. CASE doubts' = doubts /\ log'.status = "sent"
      BY <1>3, <2>1, <3>1, <3>3 DEF Counted
    <3> QED
      BY <2>2, <3>2, <3>3
  <2>3. CASE worker[w].pc # "accepted"
    <3>1. Known = 0 /\ doubts' = doubts /\ mails' = mails
      BY <1>1, <2>3
    <3>2. mails' \in Nat /\ doubts' \in Nat /\ mails' <= doubts'
      BY <2>1, <3>1
    <3>3. Known' = 0 \/ Known' = 1
      BY <1>3
    <3> QED
      BY <3>2, <3>3 DEF Counted
  <2> QED
    BY <2>2, <2>3
<1>5. MailTypes'
  BY <1>2 DEF MailInv, MailTypes
<1> QED
  BY <1>2, <1>4, <1>5 DEF MailInv, ClaimShown, OneSender, DirectAlone, NoneIdle

LEMMA SendKeeps ==
    ASSUME MailInv, NEW w \in Senders,
           \/ Mail!_deliver_blocked(w)
           \/ \E accepted, arrives \in BOOLEAN : Mail!_deliver(w, accepted, arrives)
           \/ Mail!_deliver_save(w)
    PROVE  MailInv'
<1>1. w \in Mail!Sending
  BY DEF Mail!_deliver_blocked, Mail!_deliver, Mail!_deliver_save, Mail!Sending
<1>2. Mail!Sending = {w} /\ Known = IF worker[w].pc = "accepted" THEN 1 ELSE 0
  BY <1>1, SenderAlone
<1>3. Mail!Idle \in [pc : {"idle", "claimed", "accepted", "refused", "saved"},
                     retries : 0..Mail!Direct]
  BY MailAssumption DEF MailAssumption, Mail!Idle, Mail!Direct
<1>4. CASE Mail!_deliver_blocked(w)
  <2>1. /\ Mail!Set("skipped") /\ worker' = [worker EXCEPT ![w] = Mail!Idle]
        /\ worker[w].pc = "claimed"
        /\ UNCHANGED <<blocked, queue, outbox, mails, doubts, faults>>
    BY <1>4 DEF Mail!_deliver_blocked
  <2>2. log' \in MailRow /\ log'.status = "skipped" /\ log'.stale = FALSE
    BY <2>1, RowSet DEF MailInv, MailTypes, MailStatus
  <2> QED
    BY <1>1, <1>3, <2>1, <2>2, ReleaseKeeps DEF MailInv, MailTypes, Counted, Mail!Idle
<1>5. ASSUME NEW accepted \in BOOLEAN, NEW arrives \in BOOLEAN, Mail!_deliver(w, accepted, arrives)
      PROVE  MailInv'
  <2>1. /\ worker[w].pc = "claimed" /\ UNCHANGED <<log, blocked, queue, outbox>>
        /\ worker' = [worker EXCEPT ![w].pc = IF accepted THEN "accepted" ELSE "refused"]
    BY <1>5 DEF Mail!_deliver
  <2>2. mails \in Nat /\ doubts \in Nat /\ mails <= doubts /\ faults \in 0..MaxFaults
    BY <1>2, <2>1 DEF MailInv, MailTypes, Counted
  <2>3. /\ Mail!Sending' = {w} /\ Mail!Direct' = Mail!Direct
        /\ worker'[w].retries = worker[w].retries
        /\ worker'[w].pc = IF accepted THEN "accepted" ELSE "refused"
    BY <1>2, <2>1 DEF MailInv, MailTypes, Mail!Sending, Mail!Direct
  <2>4. worker' \in [Senders ->
          [pc : {"idle", "claimed", "accepted", "refused", "saved"}, retries : 0..Mail!Direct]]
    BY <2>1 DEF MailInv, MailTypes
  <2>5. Counted' /\ faults' \in 0..MaxFaults
    <3>1. CASE accepted
      <4>1. doubts' = doubts /\ faults' = faults /\ (mails' = mails \/ mails' = mails + 1)
        BY <1>5, <3>1 DEF Mail!_deliver
      <4>2. Known' = 1
        BY <2>3, <3>1 DEF Known
      <4> QED
        BY <2>2, <4>1, <4>2 DEF Counted
    <3>2. CASE ~accepted
      <4>1. /\ faults < MaxFaults /\ faults' = faults + 1
            /\ \/ mails' = mails /\ doubts' = doubts
               \/ mails' = mails + 1 /\ doubts' = doubts + 1
        BY <1>5, <3>2 DEF Mail!_deliver, Mail!Fault
      <4>2. Known' \in {0, 1}
        BY DEF Known
      <4>3. faults' \in 0..MaxFaults
        BY <2>2, <4>1, MailAssumption DEF MailAssumption
      <4> QED
        BY <2>2, <4>1, <4>2, <4>3 DEF Counted
    <3> QED
      BY <3>1, <3>2
  <2>6. MailTypes' /\ ClaimShown'
    BY <1>2, <2>1, <2>3, <2>4, <2>5 DEF MailInv, MailTypes, ClaimShown
  <2>7. OneSender' /\ DirectAlone' /\ NoneIdle'
    BY <1>2, <2>1, <2>3 DEF MailInv, MailTypes, OneSender, DirectAlone, NoneIdle
  <2> QED
    BY <2>5, <2>6, <2>7 DEF MailInv
<1>6. CASE Mail!_deliver_save(w)
  <2>. PICK st \in {"sent", "failed"} : st = IF worker[w].pc = "accepted" THEN "sent" ELSE "failed"
    OBVIOUS
  <2>1. /\ Mail!Set(st) /\ worker' = [worker EXCEPT ![w].pc = "saved"]
        /\ UNCHANGED <<blocked, queue, outbox, mails, doubts, faults>>
    BY <1>6 DEF Mail!_deliver_save
  <2>2. log' \in MailRow /\ log'.status = st /\ log'.stale = FALSE
    BY <2>1, RowSet DEF MailInv, MailTypes, MailStatus
  <2>3. /\ worker' \in [Senders ->
             [pc : {"idle", "claimed", "accepted", "refused", "saved"}, retries : 0..Mail!Direct]]
        /\ worker'[w].pc = "saved" /\ \A v \in Senders : v # w => worker'[v] = worker[v]
    BY <2>1 DEF MailInv, MailTypes
  <2> QED
    BY <1>1, <2>1, <2>2, <2>3, ReleaseKeeps DEF MailInv, MailTypes, Counted
<1> QED
  BY <1>4, <1>5, <1>6

\* A process that is done, or dies, may leave its message in the broker.
LEMMA EndKeeps ==
    ASSUME MailInv, NEW w \in Senders,
           Mail!retry_or_finish(w) \/ \E redelivered \in BOOLEAN : Mail!Dies(w, redelivered)
    PROVE  MailInv'
<1>1. /\ worker[w].pc # "idle" /\ worker' = [worker EXCEPT ![w] = Mail!Idle]
      /\ UNCHANGED <<log, blocked, outbox, mails>>
  BY DEF Mail!retry_or_finish, Mail!Dies
<1>2. Mail!Idle \in [pc : {"idle", "claimed", "accepted", "refused", "saved"},
                     retries : 0..Mail!Direct]
  BY MailAssumption DEF MailAssumption, Mail!Idle, Mail!Direct
<1>3. /\ worker' \in [Senders ->
           [pc : {"idle", "claimed", "accepted", "refused", "saved"}, retries : 0..Mail!Direct]]
      /\ worker'[w].pc = "idle" /\ \A v \in Senders : v # w => worker'[v] = worker[v]
  BY <1>1, <1>2 DEF MailInv, MailTypes, Mail!Idle
<1>4. queue' = queue \/ \E n \in 0..MaxRetries : Mail!Publish(n)
  <2>1. worker[w].retries \in 0..Mail!Direct
    BY DEF MailInv, MailTypes
  <2>2. worker[w].retries # Mail!Direct => worker[w].retries \in 0..MaxRetries
    BY <2>1, MailAssumption DEF MailAssumption, Mail!Direct
  <2>3. worker[w].retries < MaxRetries => worker[w].retries + 1 \in 0..MaxRetries
    BY <2>1, MailAssumption DEF MailAssumption, Mail!Direct
  <2> QED
    BY <2>2, <2>3 DEF Mail!retry_or_finish, Mail!Dies
<1>5. queue' \in [0..MaxRetries -> Nat]
  BY <1>4, QueueTyped DEF MailInv, MailTypes
<1>6. faults' \in 0..MaxFaults
  <2>1. faults \in 0..MaxFaults
    BY DEF MailInv, MailTypes
  <2>2. CASE Mail!retry_or_finish(w)
    BY <2>1, <2>2 DEF Mail!retry_or_finish
  <2>3. ASSUME NEW redelivered \in BOOLEAN, Mail!Dies(w, redelivered)
        PROVE  faults' \in 0..MaxFaults
    BY <2>1, <2>3, MailAssumption DEF MailAssumption, Mail!Dies, Mail!Fault
  <2> QED
    BY <2>2, <2>3
<1>7. log.status # "none"
  BY <1>1 DEF MailInv, NoneIdle
<1>8. CASE w \in Mail!Sending
  <2>1. log.stale = FALSE /\ log.status # "sent"
    BY <1>8, SenderAlone
  <2>2. doubts' = IF worker[w].pc = "accepted" THEN doubts + 1 ELSE doubts
    BY <1>8 DEF Mail!retry_or_finish, Mail!Dies, Mail!Sending
  <2>3. doubts \in Nat /\ doubts' \in Nat
    BY <2>2 DEF MailInv, Counted
  <2>4. /\ log' \in MailRow /\ log'.status # "none" /\ log'.stale = FALSE
        /\ UNCHANGED <<blocked, outbox, mails>>
    BY <1>1, <1>7, <2>1 DEF MailInv, MailTypes
  <2>5. /\ worker[w].pc = "accepted" => doubts' = doubts + 1
        /\ worker[w].pc # "accepted" => doubts' = doubts
    BY <2>2
  <2>6. worker'[w].pc \in {"idle", "saved"}
    BY <1>3
  <2> QED
    BY <1>3, <1>5, <1>6, <1>8, <2>3, <2>4, <2>5, <2>6, ReleaseKeeps
<1>9. CASE w \notin Mail!Sending
  <2>1. Mail!Sending' = Mail!Sending /\ Mail!Direct' = Mail!Direct
    BY <1>3, <1>9 DEF Mail!Sending, Mail!Direct
  <2>2. doubts' = doubts /\ worker[w].pc # "accepted"
    BY <1>9 DEF Mail!retry_or_finish, Mail!Dies, Mail!Sending
  <2>3. Known' = Known
    BY <1>1, <1>3, <2>2 DEF Known
  <2>4. \A v \in Mail!Sending : v # w /\ v \in Senders /\ worker'[v] = worker[v]
    BY <1>3, <1>9 DEF Mail!Sending
  <2>5. \A v \in Mail!Sending : worker[v].retries # Mail!Direct
    BY <1>1, <1>9, <2>4 DEF MailInv, DirectAlone
  <2>6. MailTypes'
    BY <1>1, <1>3, <1>5, <1>6, <2>1 DEF MailInv, MailTypes
  <2>7. ClaimShown' /\ OneSender'
    BY <1>1, <2>1, <2>4 DEF MailInv, ClaimShown, OneSender
  <2>8. DirectAlone' /\ NoneIdle'
    BY <1>1, <1>7, <2>1, <2>4, <2>5 DEF DirectAlone, NoneIdle
  <2> QED
    BY <1>1, <2>2, <2>3, <2>6, <2>7, <2>8 DEF MailInv, Counted
<1> QED
  BY <1>8, <1>9

\* One process claims the row, and only its message or a stale claim is taken over.
LEMMA MailNext ==
    ASSUME ~PublishFails, MailInv, [Mail!Next]_Mail!vars PROVE MailInv'
<1>1. CASE UNCHANGED Mail!vars
  BY <1>1 DEF Mail!vars, MailInv, MailTypes, ClaimShown, OneSender, DirectAlone, NoneIdle,
       Counted, Known, Mail!Sending, Mail!Direct
<1>2. CASE Mail!Next
  BY <1>2, DispatchKeeps, DirectKeeps, ClaimKeeps, SendKeeps, EndKeeps DEF Mail!Next,
     Mail!Deliver
<1> QED
  BY <1>1, <1>2

\* The instance counts as the lemmas about finite sets do.
LEMMA SameCardinality == \A S : Mail!Cardinality(S) = Cardinality(S)
  BY DEF Mail!Cardinality, Cardinality

LEMMA MailSafe == ASSUME MailInv PROVE Mail!OneSenderAtATime /\ Mail!DuplicatesAccounted
<1>1. Mail!Sending = {} \/ \E w \in Mail!Sending : Mail!Sending = {w}
  BY SenderAlone
<1>2. Cardinality(Mail!Sending) \in {0, 1}
  BY <1>1, FS_EmptySet, FS_Singleton
<1>3. Mail!OneSenderAtATime
  BY <1>2, SameCardinality DEF Mail!OneSenderAtATime
<1>4. Known \in {0, 1}
  BY DEF Known
<1> QED
  BY <1>3, <1>4 DEF MailInv, Counted, Mail!DuplicatesAccounted

-----------------------------------------------------------------------------
(* Password recovery.                                                      *)

ResetStatus == {"none"} \cup Reset!Blocked \cup Reset!Reentrant
EnvelopeRow ==
    [status : ResetStatus, generation : Nat, code : Nat, fingerprint : 0..MaxVersion,
     fresh : BOOLEAN, leased : BOOLEAN, cooling : BOOLEAN, attempts : 0..MaxAttempts]
Early == {"idle", "expired", "discarded"}
Late == {"prepared", "sent", "failed"}
DrainState == [pc : Early \cup {"claimed"} \cup Late, generation : Nat]

ResetTypes ==
    /\ envelope \in EnvelopeRow
    /\ account \in [version : 0..MaxVersion, recoverable : BOOLEAN]
    /\ emailing \in BOOLEAN
    /\ worker \in [Drains -> DrainState]
    /\ inbox \subseteq 0..envelope.generation
    /\ mailed \in [Reset!Generation -> {"no", "sent", "failed"}]
    /\ minted \in [Reset!Generation -> [version : 0..MaxVersion, request : Nat]]
    /\ requests \in 0..MaxRequests /\ stalls \in 0..MaxStalls /\ deaths \in 0..MaxDrainDeaths

\* Every generation is paid for: a request pays for its own and its claim, a lapse
\* or a death for the claim or the expiry that follows it.
Spent == 2 * requests + stalls + deaths
Owing ==
    \/ envelope.status = "pending"
    \/ /\ envelope.status \in {"claimed", "delivering"}
       /\ ~envelope.leased \/ ~Reset!Owned
Budget ==
    /\ envelope.generation <= Spent
    /\ Owing => envelope.generation < Spent

\* The fence: generations of drains are old or current, never shared, and the one
\* with the current generation is where the row says.
Fenced ==
    \A w \in Drains :
        /\ worker[w].generation <= envelope.generation
        /\ worker[w].pc \in Early <=> worker[w].generation = 0
        /\ worker[w].generation = envelope.generation /\ worker[w].generation # 0 =>
              /\ worker[w].pc = "claimed" => envelope.status = "claimed"
              /\ worker[w].pc \in Late => envelope.status = "delivering"
        /\ \A v \in Drains :
              worker[v].generation = worker[w].generation /\ worker[w].generation # 0 => v = w

\* What the row says of its code is so.
RowTold ==
    /\ envelope.status = "none" <=> envelope.generation = 0
    /\ envelope.status \in {"delivering", "issued"} =>
          /\ envelope.code = envelope.generation
          /\ envelope.fingerprint = minted[envelope.generation].version
    /\ envelope.status \notin {"delivering", "issued"} => envelope.code = 0
    /\ envelope.status = "issued" => mailed[envelope.generation] = "sent"
    /\ envelope.leased => envelope.status \in {"claimed", "delivering"}

\* A request is minted for once, and only what was minted is mailed.
MintedOnce ==
    /\ \A g \in Reset!Generation :
          /\ minted[g].request <= requests
          /\ mailed[g] # "no" => minted[g].request # 0
          /\ \A h \in Reset!Generation :
                minted[h].request = minted[g].request /\ minted[g].request # 0 => h = g
    /\ envelope.status \in {"pending", "claimed"} =>
          /\ requests # 0
          /\ \A g \in Reset!Generation : minted[g].request # requests
    /\ \A w \in Drains :
          /\ worker[w].pc \in Late => minted[worker[w].generation].request # 0
          /\ worker[w].pc = "sent" => mailed[worker[w].generation] = "sent"

ResetInv == ResetTypes /\ Budget /\ Fenced /\ RowTold /\ MintedOnce

LEMMA ResetNats ==
    /\ MaxRequests \in Nat /\ MaxStalls \in Nat /\ MaxDrainDeaths \in Nat
    /\ MaxAttempts \in Nat /\ MaxVersion \in Nat
  BY ResetAssumption DEF ResetAssumption

\* No generation outgrows the model.
LEMMA InGeneration ==
    ASSUME ResetTypes, Budget
    PROVE  /\ envelope.generation \in Reset!Generation
           /\ \A w \in Drains : worker[w].generation <= envelope.generation =>
                 worker[w].generation \in Reset!Generation
<1>1. envelope.generation \in Nat /\ \A w \in Drains : worker[w].generation \in Nat
  BY DEF ResetTypes, EnvelopeRow, DrainState
<1>2. Spent <= 2 * MaxRequests + MaxStalls + MaxDrainDeaths /\ Spent \in Nat
  BY ResetNats DEF ResetTypes, Spent
<1> QED
  BY <1>1, <1>2, ResetNats DEF Budget, Reset!Generation

LEMMA ResetInit == ASSUME Reset!Init PROVE ResetInv
<1> USE ResetNats DEF Reset!Init, Reset!Idle, Reset!NoCode
<1>1. ResetTypes
  BY DEF ResetTypes, EnvelopeRow, ResetStatus, DrainState, Early
<1>2. Budget /\ Fenced
  BY DEF Budget, Spent, Owing, Fenced, Early
<1> QED
  BY <1>1, <1>2 DEF ResetInv, RowTold, MintedOnce, Late

\* A drain goes on without a generation; one that held the current one has died.
Moves(w) ==
    \/ worker'[w] = worker[w]
    \/ /\ worker'[w].generation = 0 /\ worker'[w].pc \in Early
       /\ \/ worker[w].generation = 0
          \/ worker[w].generation # envelope.generation
          \/ deaths' = deaths + 1

LEMMA RowKept ==
    ASSUME ResetInv, envelope' \in EnvelopeRow,
           envelope'.status = envelope.status, envelope'.generation = envelope.generation,
           envelope'.code = envelope.code, envelope'.fingerprint = envelope.fingerprint,
           envelope'.leased = envelope.leased,
           account' \in [version : 0..MaxVersion, recoverable : BOOLEAN], emailing' \in BOOLEAN,
           worker' \in [Drains -> DrainState], \A w \in Drains : Moves(w),
           UNCHANGED <<inbox, mailed, requests, stalls, minted>>,
           deaths' \in 0..MaxDrainDeaths, deaths' = deaths \/ deaths' = deaths + 1
    PROVE  ResetInv'
<1>1. Reset!Generation' = Reset!Generation
  BY DEF Reset!Generation
<1>2. ResetTypes'
  BY <1>1 DEF ResetInv, ResetTypes
<1>3. Budget'
  <2>1. /\ envelope.generation \in Nat /\ requests \in Nat /\ stalls \in Nat /\ deaths \in Nat
        /\ deaths' \in Nat
    BY ResetNats DEF ResetInv, ResetTypes, EnvelopeRow
  <2>2. Spent' = Spent \/ Spent' = Spent + 1
    BY <2>1 DEF Spent
  <2>3. Spent \in Nat /\ (deaths' = deaths + 1 => Spent' = Spent + 1)
    BY <2>1 DEF Spent
  <2>4. CASE deaths' = deaths + 1
    BY <2>1, <2>3, <2>4 DEF ResetInv, Budget
  <2>5. CASE deaths' = deaths
    <3>1. deaths' # deaths + 1 /\ Spent' = Spent
      BY <2>1, <2>5 DEF Spent
    <3>2. Reset!Owned /\ envelope.generation # 0 => Reset!Owned'
      BY <3>1 DEF Moves, Reset!Owned
    <3>3. Owing' => Owing
      BY <3>2 DEF ResetInv, RowTold, Owing
    <3> QED
      BY <3>1, <3>3 DEF ResetInv, Budget
  <2> QED
    BY <2>4, <2>5
<1>4. Fenced'
  <2> SUFFICES ASSUME NEW w \in Drains
               PROVE  /\ worker'[w].generation <= envelope.generation
                      /\ worker'[w].pc \in Early <=> worker'[w].generation = 0
                      /\ worker'[w].generation = envelope.generation /\ worker'[w].generation # 0 =>
                            /\ worker'[w].pc = "claimed" => envelope.status = "claimed"
                            /\ worker'[w].pc \in Late => envelope.status = "delivering"
                      /\ \A v \in Drains :
                            worker'[v].generation = worker'[w].generation /\ worker'[w].generation # 0
                               => v = w
    BY DEF Fenced
  <2>1. 0 <= envelope.generation
    BY DEF ResetInv, ResetTypes, EnvelopeRow
  <2>2. \A v \in Drains : worker'[v].generation # 0 => worker'[v] = worker[v]
    BY DEF Moves
  <2>3. CASE worker'[w].generation # 0
    BY <2>2, <2>3 DEF ResetInv, Fenced
  <2>4. CASE worker'[w].generation = 0
    BY <2>1, <2>4 DEF ResetInv, Fenced, Moves
  <2> QED
    BY <2>3, <2>4
<1>5. RowTold'
  BY DEF ResetInv, RowTold
<1>6. MintedOnce'
  <2>1. \A w \in Drains : worker'[w].pc \in Late => worker'[w] = worker[w]
    BY DEF Moves, Early, Late
  <2>2. "sent" \in Late
    BY DEF Late
  <2> QED
    BY <1>1, <2>1, <2>2 DEF ResetInv, MintedOnce
<1> QED
  BY <1>2, <1>3, <1>4, <1>5, <1>6 DEF ResetInv

LEMMA RowEnds ==
    ASSUME ResetInv, envelope' \in EnvelopeRow, envelope.status # "none",
           envelope'.status \in {"consumed", "discarded", "undeliverable", "delivery_unknown"},
           envelope'.code = 0, ~envelope'.leased,
           \/ envelope'.generation = envelope.generation
           \/ Owing /\ envelope'.generation = envelope.generation + 1,
           account' \in [version : 0..MaxVersion, recoverable : BOOLEAN],
           worker' \in [Drains -> DrainState],
           \A w \in Drains :
              \/ worker'[w] = worker[w] /\ worker[w].generation # envelope'.generation
              \/ worker'[w].generation = 0 /\ worker'[w].pc \in Early,
           UNCHANGED <<emailing, inbox, mailed, requests, stalls, deaths, minted>>
    PROVE  ResetInv'
<1>1. Reset!Generation' = Reset!Generation /\ Spent' = Spent
  BY DEF Reset!Generation, Spent
<1>2. /\ envelope.generation \in Nat /\ envelope.generation # 0
      /\ envelope'.generation \in Nat /\ envelope'.generation # 0
      /\ envelope'.generation >= envelope.generation /\ Spent \in Nat
  BY ResetNats DEF ResetInv, ResetTypes, EnvelopeRow, RowTold, Spent
<1>3. ResetTypes'
  BY <1>1, <1>2 DEF ResetInv, ResetTypes
<1>4. Budget'
  BY <1>1, <1>2 DEF ResetInv, Budget, Owing
<1>5. Fenced'
  <2>1. \A v \in Drains :
           /\ worker[v].generation \in Nat /\ worker[v].generation <= envelope.generation
           /\ worker'[v].generation # 0 =>
                 worker'[v] = worker[v] /\ worker'[v].generation # envelope'.generation
    BY DEF ResetInv, ResetTypes, DrainState, Fenced
  <2>2. \A v \in Drains : worker'[v].generation <= envelope'.generation
    BY <1>2, <2>1
  <2>3. \A v \in Drains : worker'[v].pc \in Early <=> worker'[v].generation = 0
    BY DEF ResetInv, Fenced
  <2> QED
    BY <2>1, <2>2, <2>3 DEF ResetInv, Fenced
<1>6. RowTold'
  BY <1>2 DEF RowTold
<1>7. MintedOnce'
  <2>1. \A w \in Drains : worker'[w].pc \in Late => worker'[w] = worker[w]
    BY DEF Early, Late
  <2>2. "sent" \in Late
    BY DEF Late
  <2> QED
    BY <1>1, <2>1, <2>2 DEF ResetInv, MintedOnce
<1> QED
  BY <1>3, <1>4, <1>5, <1>6, <1>7 DEF ResetInv

LEMMA EndedRow ==
    ASSUME ResetInv, NEW st \in ResetStatus, NEW g \in Nat
    PROVE  /\ Reset!Ended(st, g) \in EnvelopeRow
           /\ Reset!Ended(st, g).status = st /\ Reset!Ended(st, g).generation = g
           /\ Reset!Ended(st, g).code = 0 /\ Reset!Ended(st, g).leased = FALSE
<1>1. 0 \in 0..MaxVersion
  BY ResetNats
<1> QED
  BY <1>1 DEF ResetInv, ResetTypes, EnvelopeRow, Reset!Ended, Reset!NoCode

LEMMA IdleDrain ==
    Reset!Idle \in DrainState /\ Reset!Idle.generation = 0 /\ Reset!Idle.pc \in Early
  BY DEF Reset!Idle, DrainState, Early

LEMMA RestKeeps ==
    ASSUME ResetInv, NEW w \in Drains, Reset!Rest(w)
    PROVE  /\ worker' \in [Drains -> DrainState] /\ worker'[w] = Reset!Idle
           /\ \A v \in Drains : v # w => worker'[v] = worker[v]
  BY IdleDrain DEF ResetInv, ResetTypes, Reset!Rest

LEMMA RequestKeeps == ASSUME ResetInv, Reset!request_password_reset PROVE ResetInv'
<1>1. /\ requests < MaxRequests /\ requests' = requests + 1
      /\ envelope.status \in {"none"} \cup Reset!Reentrant
      /\ envelope' = [status |-> "pending", generation |-> envelope.generation + 1,
                      code |-> 0, fingerprint |-> 0, fresh |-> FALSE,
                      leased |-> FALSE, cooling |-> TRUE, attempts |-> 0]
      /\ UNCHANGED <<account, emailing, worker, inbox, mailed, stalls, deaths, minted>>
  BY DEF Reset!request_password_reset, Reset!NoCode
<1>2. /\ envelope.generation \in Nat /\ requests \in Nat /\ stalls \in Nat /\ deaths \in Nat
      /\ requests + 1 \in 0..MaxRequests
  BY <1>1, ResetNats DEF ResetInv, ResetTypes, EnvelopeRow
<1>3. Reset!Generation' = Reset!Generation
  BY DEF Reset!Generation
<1>4. envelope' \in EnvelopeRow
  BY <1>1, <1>2, ResetNats DEF EnvelopeRow, ResetStatus, Reset!Blocked
<1>5. ResetTypes'
  BY <1>1, <1>2, <1>3, <1>4 DEF ResetInv, ResetTypes
<1>6. Budget'
  BY <1>1, <1>2 DEF ResetInv, Budget, Spent, Owing
<1>7. Fenced'
  <2>1. \A w \in Drains : worker[w].generation \in Nat
    BY DEF ResetInv, ResetTypes, DrainState
  <2>2. \A w \in Drains : worker[w].generation <= envelope'.generation
                          /\ worker[w].generation # envelope'.generation
    BY <1>1, <1>2, <2>1 DEF ResetInv, Fenced
  <2> QED
    BY <1>1, <2>2 DEF ResetInv, Fenced
<1>8. RowTold'
  BY <1>1, <1>2 DEF RowTold
<1>9. MintedOnce'
  <2>1. \A g \in Reset!Generation :
           /\ minted[g].request \in Nat /\ minted[g].request <= requests
           /\ minted[g].request <= requests + 1 /\ minted[g].request # requests + 1
    BY <1>2 DEF ResetInv, ResetTypes, MintedOnce
  <2> QED
    BY <1>1, <1>2, <1>3, <2>1 DEF ResetInv, MintedOnce
<1> QED
  BY <1>5, <1>6, <1>7, <1>8, <1>9 DEF ResetInv

\* A code that is entered is the current one, and nobody works on its row.
LEMMA IssuedIdle ==
    ASSUME ResetInv, envelope.status = "issued", NEW w \in Drains
    PROVE  worker[w].generation # envelope.generation /\ envelope.status # "none"
  BY DEF ResetInv, ResetTypes, DrainState, Fenced, RowTold

LEMMA ConfirmKeeps ==
    ASSUME ResetInv, NEW code, NEW valid \in BOOLEAN, Reset!confirm_password_reset(code, valid)
    PROVE  ResetInv'
<1>1. UNCHANGED <<emailing, worker, inbox, mailed, requests, stalls, deaths, minted>>
  BY DEF Reset!confirm_password_reset
<1>2. /\ account' \in [version : 0..MaxVersion, recoverable : BOOLEAN] /\ emailing' \in BOOLEAN
      /\ worker' \in [Drains -> DrainState] /\ deaths' \in 0..MaxDrainDeaths
  <2>1. account' = account \/ (account.version + 1 <= MaxVersion
                               /\ account' = [account EXCEPT !.version = @ + 1])
    BY DEF Reset!confirm_password_reset
  <2>2. account' \in [version : 0..MaxVersion, recoverable : BOOLEAN]
    BY <2>1, ResetNats DEF ResetInv, ResetTypes
  <2> QED
    BY <1>1, <2>2 DEF ResetInv, ResetTypes
<1>3. \A row \in EnvelopeRow : Reset!Attempted(row) \in EnvelopeRow
         /\ Reset!Attempted(row).status = row.status /\ Reset!Attempted(row).generation = row.generation
         /\ Reset!Attempted(row).code = row.code /\ Reset!Attempted(row).leased = row.leased
         /\ Reset!Attempted(row).fingerprint = row.fingerprint
  <2>1. (IF envelope.attempts < MaxAttempts THEN envelope.attempts + 1 ELSE MaxAttempts)
           \in 0..MaxAttempts
    BY ResetNats DEF ResetInv, ResetTypes, EnvelopeRow
  <2> QED
    BY <2>1 DEF EnvelopeRow, Reset!Attempted
<1>4. CASE Reset!StageOnePasses(code) /\ Reset!_credential_state_matches /\ valid
  <2>. PICK ended : ended = Reset!Ended("consumed", envelope.generation)
    OBVIOUS
  <2>. PICK row : row = [ended EXCEPT !.fingerprint = envelope.fingerprint,
                                      !.fresh = envelope.fresh]
    OBVIOUS
  <2>1. envelope' = Reset!Attempted(row) /\ envelope.status = "issued"
    BY <1>4 DEF Reset!confirm_password_reset, Reset!StageOnePasses
  <2>2. "consumed" \in ResetStatus /\ envelope.generation \in Nat
    BY DEF ResetInv, ResetTypes, EnvelopeRow, ResetStatus, Reset!Reentrant
  <2>3. /\ row \in EnvelopeRow /\ row.status = "consumed" /\ row.generation = envelope.generation
        /\ row.code = 0 /\ row.leased = FALSE
    <3>1. /\ ended \in EnvelopeRow /\ ended.status = "consumed"
          /\ ended.generation = envelope.generation /\ ended.code = 0 /\ ended.leased = FALSE
      BY <2>2, EndedRow, ZenonT(60)
    <3> QED
      BY <3>1 DEF ResetInv, ResetTypes, EnvelopeRow
  <2> QED
    BY <1>1, <1>2, <1>3, <2>1, <2>3, IssuedIdle, RowEnds
<1>5. CASE Reset!StageOnePasses(code) /\ ~Reset!_credential_state_matches
  <2>. PICK row : row = Reset!Ended("discarded", envelope.generation)
    OBVIOUS
  <2>1. envelope' = Reset!Attempted(row) /\ envelope.status = "issued"
    BY <1>5 DEF Reset!confirm_password_reset, Reset!StageOnePasses
  <2>2. "discarded" \in ResetStatus /\ envelope.generation \in Nat
    BY DEF ResetInv, ResetTypes, EnvelopeRow, ResetStatus, Reset!Reentrant
  <2>3. /\ row \in EnvelopeRow /\ row.status = "discarded" /\ row.generation = envelope.generation
        /\ row.code = 0 /\ row.leased = FALSE
    BY <2>2, EndedRow, ZenonT(60)
  <2> QED
    BY <1>1, <1>2, <1>3, <2>1, <2>3, IssuedIdle, RowEnds
<1>6. CASE /\ ~(Reset!StageOnePasses(code) /\ Reset!_credential_state_matches /\ valid)
           /\ ~(Reset!StageOnePasses(code) /\ ~Reset!_credential_state_matches)
  <2>1. envelope' = Reset!Attempted(envelope)
    BY <1>6 DEF Reset!confirm_password_reset
  <2>2. envelope \in EnvelopeRow
    BY DEF ResetInv, ResetTypes
  <2> QED
    BY <1>1, <1>2, <1>3, <2>1, <2>2, RowKept DEF Moves
<1> QED
  BY <1>4, <1>5, <1>6

LEMMA SweepKeeps ==
    ASSUME ResetInv, NEW w \in Drains,
           Reset!expire_delivery_leases(w) \/ Reset!discard_expired_issued(w)
    PROVE  ResetInv'
<1>1. UNCHANGED <<account, emailing, inbox, mailed, requests, stalls, deaths, minted>>
  BY DEF Reset!expire_delivery_leases, Reset!discard_expired_issued, Reset!world
<1>2. /\ account' \in [version : 0..MaxVersion, recoverable : BOOLEAN] /\ emailing' \in BOOLEAN
      /\ deaths' \in 0..MaxDrainDeaths /\ envelope \in EnvelopeRow /\ envelope.generation \in Nat
  BY <1>1 DEF ResetInv, ResetTypes, EnvelopeRow
<1>3. worker[w].pc \in Early /\ worker[w].generation = 0
  BY DEF ResetInv, Fenced, Early, Reset!expire_delivery_leases, Reset!discard_expired_issued,
     Reset!At
<1>4. /\ worker' \in [Drains -> DrainState]
      /\ worker'[w].generation = 0 /\ worker'[w].pc \in Early
      /\ \A v \in Drains : v # w => worker'[v] = worker[v]
  BY <1>3 DEF ResetInv, ResetTypes, DrainState, Early, Reset!expire_delivery_leases,
         Reset!discard_expired_issued, Reset!Go
<1>5. CASE envelope' = envelope
  BY <1>1, <1>2, <1>3, <1>4, <1>5, RowKept DEF Moves
<1>6. CASE Reset!expire_delivery_leases(w) /\ envelope' # envelope
  <2>1. /\ envelope' = Reset!Ended("delivery_unknown", envelope.generation + 1)
        /\ envelope.status = "delivering" /\ ~envelope.leased
    BY <1>6 DEF Reset!expire_delivery_leases
  <2>2. "delivery_unknown" \in ResetStatus /\ envelope.generation + 1 \in Nat
    BY <1>2 DEF ResetStatus, Reset!Reentrant
  <2>3. /\ envelope' \in EnvelopeRow /\ envelope'.status = "delivery_unknown"
        /\ envelope'.generation = envelope.generation + 1 /\ envelope'.code = 0
        /\ envelope'.leased = FALSE
    BY <2>1, <2>2, EndedRow, ZenonT(60)
  <2>4. Owing /\ envelope.status # "none"
    BY <2>1 DEF Owing
  <2>5. \A v \in Drains : worker[v].generation # envelope'.generation
    BY <1>2, <2>3 DEF ResetInv, ResetTypes, DrainState, Fenced
  <2> QED
    BY <1>1, <1>2, <1>4, <2>3, <2>4, <2>5, RowEnds
<1>7. CASE Reset!discard_expired_issued(w) /\ envelope' # envelope
  <2>1. /\ envelope' = Reset!Ended("discarded", envelope.generation)
        /\ envelope.status = "issued"
    BY <1>7 DEF Reset!discard_expired_issued
  <2>2. "discarded" \in ResetStatus
    BY DEF ResetStatus, Reset!Reentrant
  <2>3. /\ envelope' \in EnvelopeRow /\ envelope'.status = "discarded"
        /\ envelope'.generation = envelope.generation /\ envelope'.code = 0
        /\ envelope'.leased = FALSE
    BY <1>2, <2>1, <2>2, EndedRow
  <2> QED
    BY <1>1, <1>2, <1>4, <2>1, <2>3, IssuedIdle, RowEnds
<1> QED
  BY <1>5, <1>6, <1>7

LEMMA ReclaimKeeps == ASSUME ResetInv, NEW w \in Drains, Reset!claim_pending_envelopes(w) PROVE ResetInv'
<1>1. UNCHANGED <<account, emailing, inbox, mailed, requests, stalls, deaths, minted>>
  BY DEF Reset!claim_pending_envelopes, Reset!world
<1>2. /\ account' \in [version : 0..MaxVersion, recoverable : BOOLEAN] /\ emailing' \in BOOLEAN
      /\ deaths' \in 0..MaxDrainDeaths /\ envelope \in EnvelopeRow
      /\ envelope.generation \in Nat /\ Spent \in Nat
  BY <1>1, ResetNats DEF ResetInv, ResetTypes, EnvelopeRow, Spent
<1>3. worker[w].pc \in Early /\ worker[w].generation = 0
  BY DEF ResetInv, Fenced, Early, Reset!claim_pending_envelopes, Reset!At
<1>4. CASE ~Reset!Claimable
  <2>1. Reset!Rest(w) /\ envelope' = envelope
    BY <1>4 DEF Reset!claim_pending_envelopes
  <2> QED
    BY <1>1, <1>2, <1>3, <2>1, RestKeeps, IdleDrain, RowKept DEF Moves
<1>5. CASE Reset!Claimable
  <2>1. /\ envelope' = [envelope EXCEPT !.status = "claimed", !.leased = TRUE, !.generation = @ + 1]
        /\ worker' = [worker EXCEPT ![w] = [pc |-> "claimed", generation |-> envelope.generation + 1]]
    BY <1>5 DEF Reset!claim_pending_envelopes
  <2>2. /\ envelope.status \in {"pending", "claimed"} /\ Owing
        /\ envelope.code = 0
    BY <1>5 DEF Reset!Claimable, Owing, ResetInv, RowTold
  <2>3. /\ envelope' \in EnvelopeRow /\ envelope'.status = "claimed" /\ envelope'.leased
        /\ envelope'.generation = envelope.generation + 1 /\ envelope'.code = 0
        /\ envelope'.generation \in Nat /\ envelope'.generation # 0
    <3>1. "claimed" \in ResetStatus /\ envelope.generation + 1 \in Nat
      BY <1>2 DEF ResetStatus, Reset!Blocked
    <3>2. /\ envelope' \in EnvelopeRow /\ envelope'.status = "claimed" /\ envelope'.leased = TRUE
          /\ envelope'.generation = envelope.generation + 1 /\ envelope'.code = envelope.code
      BY <1>2, <2>1, <3>1 DEF EnvelopeRow
    <3> QED
      BY <1>2, <2>2, <3>2
  <2>4. /\ worker' \in [Drains -> DrainState] /\ worker'[w].pc = "claimed"
        /\ worker'[w].generation = envelope'.generation
        /\ \A v \in Drains : v # w => worker'[v] = worker[v]
    BY <1>2, <2>1, <2>3 DEF ResetInv, ResetTypes, DrainState
  <2>5. Reset!Generation' = Reset!Generation /\ Spent' = Spent
    BY <1>1 DEF Reset!Generation, Spent
  <2>6. ResetTypes'
    BY <1>1, <1>2, <2>3, <2>4, <2>5 DEF ResetInv, ResetTypes
  <2>7. Reset!Owned'
    BY <2>4 DEF Reset!Owned
  <2>8. Budget'
    BY <1>2, <2>2, <2>3, <2>5, <2>7 DEF ResetInv, Budget, Owing
  <2>9. Fenced'
    <3>1. \A v \in Drains : /\ worker[v].generation \in Nat
                            /\ worker[v].generation <= envelope'.generation
                            /\ worker[v].generation # envelope'.generation
      BY <1>2, <2>3 DEF ResetInv, ResetTypes, DrainState, Fenced
    <3>2. "claimed" \notin Early /\ "claimed" \notin Late
      BY DEF Early, Late
    <3> QED
      BY <2>3, <2>4, <3>1, <3>2 DEF ResetInv, Fenced
  <2>10. RowTold'
    BY <2>3 DEF RowTold
  <2>11. MintedOnce'
    <3>1. "claimed" \notin Late
      BY DEF Late
    <3> QED
      BY <1>1, <2>2, <2>3, <2>4, <2>5, <3>1 DEF ResetInv, MintedOnce
  <2> QED
    BY <2>6, <2>8, <2>9, <2>10, <2>11 DEF ResetInv
<1> QED
  BY <1>4, <1>5

LEMMA PrepareKeeps == ASSUME ResetInv, NEW w \in Drains, Reset!prepare_delivery(w) PROVE ResetInv'
<1>1. UNCHANGED <<account, emailing, inbox, mailed, requests, stalls, deaths>>
  BY DEF Reset!prepare_delivery
<1>2. /\ account' \in [version : 0..MaxVersion, recoverable : BOOLEAN] /\ emailing' \in BOOLEAN
      /\ deaths' \in 0..MaxDrainDeaths /\ envelope \in EnvelopeRow
      /\ envelope.generation \in Nat /\ Spent \in Nat /\ requests \in Nat
      /\ account.version \in 0..MaxVersion
  BY <1>1, ResetNats DEF ResetInv, ResetTypes, EnvelopeRow, Spent
<1>3. worker[w].pc = "claimed" /\ worker[w].generation # 0
  BY DEF ResetInv, Fenced, Early, Reset!prepare_delivery, Reset!At
<1>4. CASE ~Reset!Holds(w, "claimed")
  <2>1. Reset!Rest(w) /\ UNCHANGED <<envelope, minted>>
    BY <1>4 DEF Reset!prepare_delivery
  <2>2. worker[w].generation # envelope.generation
    BY <1>3, <1>4 DEF Reset!Holds, ResetInv, Fenced
  <2> QED
    BY <1>1, <1>2, <2>1, <2>2, RestKeeps, IdleDrain, RowKept DEF Moves
<1>5. ASSUME NEW st \in {"discarded", "undeliverable"}, Reset!Holds(w, "claimed"),
             envelope' = Reset!Ended(st, envelope.generation), Reset!Rest(w), minted' = minted
      PROVE  ResetInv'
  <2>1. envelope.status # "none" /\ worker[w].generation = envelope.generation
    BY <1>5 DEF Reset!Holds
  <2>2. st \in ResetStatus
    BY DEF ResetStatus, Reset!Reentrant
  <2>3. /\ envelope' \in EnvelopeRow /\ envelope'.status = st /\ envelope'.code = 0
        /\ envelope'.generation = envelope.generation /\ envelope'.leased = FALSE
    BY <1>2, <1>5, <2>2, EndedRow, ZenonT(60)
  <2>4. \A v \in Drains : v # w => worker[v].generation # envelope'.generation
    BY <1>3, <2>1, <2>3 DEF ResetInv, Fenced
  <2> QED
    BY <1>1, <1>2, <1>5, <2>1, <2>3, <2>4, RestKeeps, IdleDrain, RowEnds
<1>6. CASE Reset!Holds(w, "claimed") /\ account.recoverable /\ emailing
  <2>. PICK g \in Nat : g = envelope.generation
    BY <1>2
  <2>1. /\ worker[w].generation = g /\ envelope.status = "claimed"
        /\ envelope' = [envelope EXCEPT !.status = "delivering", !.code = g,
                          !.fingerprint = account.version, !.fresh = TRUE, !.leased = TRUE,
                          !.attempts = 0]
        /\ minted' = [minted EXCEPT ![g] = [version |-> account.version, request |-> requests]]
        /\ worker' = [worker EXCEPT ![w].pc = "prepared"]
    BY <1>6 DEF Reset!prepare_delivery, Reset!Holds, Reset!Go
  <2>2. g \in Reset!Generation /\ g # 0 /\ Reset!Generation' = Reset!Generation /\ Spent' = Spent
    BY <1>1, <1>3, <2>1, InGeneration DEF ResetInv, Reset!Generation, Spent
  <2>3. /\ envelope' \in EnvelopeRow /\ envelope'.status = "delivering" /\ envelope'.code = g
        /\ envelope'.fingerprint = account.version /\ envelope'.generation = g
        /\ envelope'.leased = TRUE
    <3>1. "delivering" \in ResetStatus /\ 0 \in 0..MaxAttempts
      BY ResetNats DEF ResetStatus, Reset!Blocked
    <3> QED
      BY <1>2, <2>1, <3>1 DEF EnvelopeRow
  <2>4. /\ worker' \in [Drains -> DrainState] /\ worker'[w].pc = "prepared"
        /\ worker'[w].generation = g /\ \A v \in Drains : v # w => worker'[v] = worker[v]
    <3>1. "prepared" \in Late
      BY DEF Late
    <3> QED
      BY <2>1, <3>1 DEF ResetInv, ResetTypes, DrainState
  <2>5. /\ minted' \in [Reset!Generation -> [version : 0..MaxVersion, request : Nat]]
        /\ minted'[g].version = account.version /\ minted'[g].request = requests
        /\ \A h \in Reset!Generation : h # g => minted'[h] = minted[h]
    BY <1>2, <2>1, <2>2 DEF ResetInv, ResetTypes
  <2>6. requests # 0 /\ \A h \in Reset!Generation : minted[h].request # requests
    BY <2>1 DEF ResetInv, MintedOnce
  <2>7. ResetTypes'
    BY <1>1, <1>2, <2>2, <2>3, <2>4, <2>5 DEF ResetInv, ResetTypes
  <2>8. Reset!Owned'
    BY <2>3, <2>4 DEF Reset!Owned
  <2>9. Budget'
    BY <1>2, <2>2, <2>3, <2>8 DEF ResetInv, Budget, Owing
  <2>10. \A v \in Drains : v # w => worker[v].generation # g
    BY <2>1, <2>2 DEF ResetInv, Fenced
  <2>11. Fenced'
    <3>1. "prepared" \notin Early
      BY DEF Early
    <3> QED
      BY <2>1, <2>2, <2>3, <2>4, <2>10, <3>1 DEF ResetInv, Fenced
  <2>12. RowTold'
    BY <2>2, <2>3, <2>5 DEF RowTold
  <2>13. MintedOnce'
    <3>1. \A h \in Reset!Generation :
             /\ minted'[h].request <= requests'
             /\ mailed'[h] # "no" => minted'[h].request # 0
      BY <1>1, <1>2, <2>5, <2>6 DEF ResetInv, MintedOnce
    <3>2. \A h, k \in Reset!Generation :
             minted'[k].request = minted'[h].request /\ minted'[h].request # 0 => k = h
      BY <2>5, <2>6 DEF ResetInv, MintedOnce
    <3>3. \A v \in Drains : worker'[v].pc \in Late => minted'[worker'[v].generation].request # 0
      <4>1. \A v \in Drains : v # w /\ worker[v].pc \in Late =>
               /\ worker[v].generation \in Reset!Generation
               /\ minted[worker[v].generation].request # 0
        BY InGeneration DEF ResetInv, Fenced, MintedOnce
      <4>2. \A v \in Drains : v # w /\ worker[v].pc \in Late =>
               minted'[worker[v].generation].request # 0
        BY <2>5, <2>10, <4>1
      <4>3. minted'[worker'[w].generation].request # 0
        BY <2>4, <2>5, <2>6
      <4> QED
        BY <2>4, <4>2, <4>3
    <3>4. \A v \in Drains : worker'[v].pc = "sent" => mailed'[worker'[v].generation] = "sent"
      BY <1>1, <2>4 DEF ResetInv, MintedOnce
    <3> QED
      BY <2>2, <2>3, <3>1, <3>2, <3>3, <3>4 DEF MintedOnce
  <2> QED
    BY <2>7, <2>9, <2>11, <2>12, <2>13 DEF ResetInv
<1> QED
  BY <1>4, <1>5, <1>6 DEF Reset!prepare_delivery

LEMMA PostKeeps ==
    ASSUME ResetInv, NEW w \in Drains, NEW accepted \in BOOLEAN, NEW arrives \in BOOLEAN,
           Reset!send_password_reset_otp(w, accepted, arrives)
    PROVE  ResetInv'
<1>. PICK st \in {"sent", "failed"} : st = IF accepted THEN "sent" ELSE "failed"
  OBVIOUS
<1>. PICK g : g = worker[w].generation
  OBVIOUS
<1>1. /\ worker[w].pc = "prepared" /\ worker' = [worker EXCEPT ![w].pc = st]
      /\ mailed' = [mailed EXCEPT ![g] = st]
      /\ inbox' = inbox \cup {g} \/ inbox' = inbox
      /\ UNCHANGED <<envelope, account, emailing, requests, stalls, deaths, minted>>
  BY DEF Reset!send_password_reset_otp, Reset!At, Reset!Go
<1>2. worker[w].pc \in Late /\ st \in Late /\ st \notin Early /\ st # "claimed" /\ st # "no"
  BY <1>1 DEF Late, Early
<1>3. g \in Reset!Generation /\ g # 0 /\ Reset!Generation' = Reset!Generation
  BY <1>2, InGeneration DEF ResetInv, Fenced, Early, Late, Reset!Generation
<1>4. /\ worker' \in [Drains -> DrainState] /\ worker'[w].pc = st /\ worker'[w].generation = g
      /\ \A v \in Drains : v # w => worker'[v] = worker[v]
  BY <1>1, <1>2 DEF ResetInv, ResetTypes, DrainState
<1>5. /\ mailed' \in [Reset!Generation -> {"no", "sent", "failed"}] /\ mailed'[g] = st
      /\ \A h \in Reset!Generation : h # g => mailed'[h] = mailed[h]
  BY <1>1, <1>3 DEF ResetInv, ResetTypes
<1>6. inbox' \subseteq 0..envelope.generation
  <2>1. /\ g \in Nat /\ g <= envelope.generation /\ envelope.generation \in Nat
        /\ inbox \subseteq 0..envelope.generation
    BY DEF ResetInv, ResetTypes, EnvelopeRow, DrainState, Fenced
  <2> QED
    BY <1>1, <2>1
<1>7. ResetTypes'
  BY <1>1, <1>3, <1>4, <1>5, <1>6 DEF ResetInv, ResetTypes
<1>8. \A v \in Drains : worker'[v].generation = worker[v].generation
  BY <1>4
<1>9. Budget'
  <2>1. Reset!Owned' = Reset!Owned
    BY <1>1, <1>8 DEF Reset!Owned
  <2> QED
    BY <1>1, <2>1 DEF ResetInv, Budget, Spent, Owing
<1>10. Fenced'
  BY <1>1, <1>2, <1>3, <1>4, <1>8 DEF ResetInv, Fenced
<1>11. RowTold'
  <2>1. envelope.status = "issued" => g # envelope.generation
    BY IssuedIdle
  <2>2. envelope.generation \in Reset!Generation
    BY InGeneration DEF ResetInv
  <2> QED
    BY <1>1, <1>5, <2>1, <2>2 DEF ResetInv, RowTold
<1>12. MintedOnce'
  <2>1. minted[g].request # 0
    BY <1>2 DEF ResetInv, MintedOnce
  <2>2. \A h \in Reset!Generation : mailed'[h] # "no" => minted[h].request # 0
    BY <1>5, <2>1 DEF ResetInv, MintedOnce
  <2>3. \A v \in Drains : worker'[v].pc = "sent" => mailed'[worker'[v].generation] = "sent"
    <3>1. \A v \in Drains : v # w => worker[v].generation # g
      BY <1>3 DEF ResetInv, Fenced
    <3>2. \A v \in Drains : v # w /\ worker[v].pc = "sent" =>
             worker[v].generation \in Reset!Generation /\ mailed[worker[v].generation] = "sent"
      BY InGeneration DEF ResetInv, Fenced, MintedOnce
    <3>3. \A v \in Drains : v # w /\ worker[v].pc = "sent" => mailed'[worker[v].generation] = "sent"
      BY <1>5, <3>1, <3>2
    <3> QED
      BY <1>4, <1>5, <3>3
  <2>4. \A v \in Drains : worker'[v].pc \in Late => minted[worker'[v].generation].request # 0
    BY <1>4, <1>8, <2>1 DEF ResetInv, MintedOnce
  <2> QED
    BY <1>1, <1>3, <2>2, <2>3, <2>4 DEF ResetInv, MintedOnce
<1> QED
  BY <1>7, <1>9, <1>10, <1>11, <1>12 DEF ResetInv

LEMMA FinalizeKeeps == ASSUME ResetInv, NEW w \in Drains, Reset!finalize_delivery(w) PROVE ResetInv'
<1>1. /\ worker[w].pc \in {"sent", "failed"} /\ Reset!Rest(w)
      /\ UNCHANGED <<account, emailing, inbox, mailed, requests, stalls, deaths, minted>>
  BY DEF Reset!finalize_delivery, Reset!world
<1>2. /\ account' \in [version : 0..MaxVersion, recoverable : BOOLEAN] /\ emailing' \in BOOLEAN
      /\ deaths' \in 0..MaxDrainDeaths /\ envelope \in EnvelopeRow
      /\ envelope.generation \in Nat /\ Spent \in Nat
  BY <1>1, ResetNats DEF ResetInv, ResetTypes, EnvelopeRow, Spent
<1>3. worker[w].generation # 0 /\ worker[w].pc \in Late
  BY <1>1 DEF ResetInv, Fenced, Early, Late
<1>4. /\ worker' \in [Drains -> DrainState] /\ worker'[w] = Reset!Idle
      /\ \A v \in Drains : v # w => worker'[v] = worker[v]
  BY <1>1, RestKeeps
<1>5. CASE ~Reset!Holds(w, "delivering")
  <2>1. envelope' = envelope
    BY <1>5 DEF Reset!finalize_delivery
  <2>2. worker[w].generation # envelope.generation
    BY <1>3, <1>5 DEF Reset!Holds, ResetInv, Fenced
  <2> QED
    BY <1>1, <1>2, <1>4, <2>1, <2>2, IdleDrain, RowKept DEF Moves
<1>6. ASSUME Reset!Holds(w, "delivering")
      PROVE  /\ envelope.status = "delivering" /\ worker[w].generation = envelope.generation
             /\ \A v \in Drains : v # w => worker[v].generation # envelope.generation
  BY <1>3, <1>6 DEF Reset!Holds, ResetInv, Fenced
<1>7. CASE Reset!Holds(w, "delivering") /\ worker[w].pc # "sent"
  <2>1. envelope' = Reset!Ended("undeliverable", envelope.generation)
    BY <1>7 DEF Reset!finalize_delivery, Reset!At
  <2>2. "undeliverable" \in ResetStatus
    BY DEF ResetStatus, Reset!Reentrant
  <2>3. /\ envelope' \in EnvelopeRow /\ envelope'.status = "undeliverable" /\ envelope'.code = 0
        /\ envelope'.generation = envelope.generation /\ envelope'.leased = FALSE
    BY <1>2, <2>1, <2>2, EndedRow, ZenonT(60)
  <2> QED
    BY <1>1, <1>2, <1>4, <1>6, <1>7, <2>3, IdleDrain, RowEnds
<1>8. CASE Reset!Holds(w, "delivering") /\ worker[w].pc = "sent"
  <2>1. envelope' = [envelope EXCEPT !.status = "issued", !.leased = FALSE]
    BY <1>8 DEF Reset!finalize_delivery, Reset!At
  <2>2. /\ envelope' \in EnvelopeRow /\ envelope'.status = "issued" /\ envelope'.leased = FALSE
        /\ envelope'.generation = envelope.generation /\ envelope'.code = envelope.code
        /\ envelope'.fingerprint = envelope.fingerprint
    BY <1>2, <2>1 DEF EnvelopeRow, ResetStatus, Reset!Reentrant
  <2>3. Reset!Generation' = Reset!Generation /\ Spent' = Spent
    BY <1>1 DEF Reset!Generation, Spent
  <2>4. mailed[envelope.generation] = "sent"
    BY <1>6, <1>8 DEF ResetInv, MintedOnce
  <2>5. ResetTypes' /\ Budget'
    BY <1>1, <1>2, <1>4, <2>2, <2>3 DEF ResetInv, ResetTypes, Budget, Owing
  <2>6. Fenced'
    BY <1>2, <1>4, <1>6, <1>8, <2>2, IdleDrain DEF ResetInv, Fenced
  <2>7. RowTold'
    BY <1>1, <1>6, <1>8, <2>2, <2>4 DEF ResetInv, RowTold
  <2>8. MintedOnce'
    <3>1. \A v \in Drains : worker'[v].pc \in Late => v # w
      BY <1>4, IdleDrain DEF Early, Late
    <3>2. "sent" \in Late
      BY DEF Late
    <3> QED
      BY <1>1, <1>4, <2>2, <2>3, <3>1, <3>2 DEF ResetInv, MintedOnce
  <2> QED
    BY <2>5, <2>6, <2>7, <2>8 DEF ResetInv
<1> QED
  BY <1>5, <1>7, <1>8

LEMMA DeathKeeps == ASSUME ResetInv, NEW w \in Drains, Reset!Death(w) PROVE ResetInv'
<1>1. /\ deaths < MaxDrainDeaths /\ deaths' = deaths + 1 /\ Reset!Rest(w)
      /\ UNCHANGED <<envelope, account, emailing, inbox, mailed, requests, stalls, minted>>
  BY DEF Reset!Death
<1>2. deaths' \in 0..MaxDrainDeaths
  BY <1>1, ResetNats DEF ResetInv, ResetTypes
<1>3. \A v \in Drains : Moves(v)
  BY <1>1, RestKeeps, IdleDrain DEF Moves
<1> QED
  BY <1>1, <1>2, <1>3, RestKeeps, RowKept DEF ResetInv, ResetTypes

LEMMA LapseKeeps == ASSUME ResetInv, Reset!LeaseLapses PROVE ResetInv'
<1>1. /\ envelope.leased /\ envelope' = [envelope EXCEPT !.leased = FALSE]
      /\ UNCHANGED <<account, emailing, worker, inbox, mailed, requests, deaths, minted>>
  BY DEF Reset!LeaseLapses
<1>2. /\ envelope' \in EnvelopeRow /\ envelope'.status = envelope.status
      /\ envelope'.generation = envelope.generation /\ envelope'.code = envelope.code
      /\ envelope'.fingerprint = envelope.fingerprint /\ envelope'.leased = FALSE
  BY <1>1 DEF ResetInv, ResetTypes, EnvelopeRow
<1>3. Reset!Generation' = Reset!Generation /\ Reset!Owned' = Reset!Owned
  BY <1>1, <1>2 DEF Reset!Generation, Reset!Owned
<1>4. /\ envelope.generation \in Nat /\ requests \in Nat /\ stalls \in Nat /\ deaths \in Nat
      /\ stalls \in 0..MaxStalls
  BY ResetNats DEF ResetInv, ResetTypes, EnvelopeRow
<1>5. stalls' \in 0..MaxStalls /\ (Reset!Owned => stalls' = stalls + 1)
      /\ (~Reset!Owned => stalls' = stalls)
  <2>1. CASE Reset!Owned
    BY <1>4, <2>1, ResetNats DEF Reset!LeaseLapses
  <2>2. CASE ~Reset!Owned
    BY <1>4, <2>2 DEF Reset!LeaseLapses
  <2> QED
    BY <2>1, <2>2
<1>6. ResetTypes'
  BY <1>1, <1>2, <1>3, <1>5 DEF ResetInv, ResetTypes
<1>7. Budget'
  <2>1. CASE Reset!Owned
    BY <1>1, <1>2, <1>4, <1>5, <2>1 DEF ResetInv, Budget, Spent
  <2>2. CASE ~Reset!Owned
    <3>1. Owing /\ Spent' = Spent
      BY <1>1, <1>5, <2>2 DEF ResetInv, RowTold, Owing, Spent
    <3> QED
      BY <1>2, <3>1 DEF ResetInv, Budget
  <2> QED
    BY <2>1, <2>2
<1> QED
  BY <1>1, <1>2, <1>3, <1>6, <1>7 DEF ResetInv, Fenced, RowTold, MintedOnce

LEMMA AroundKeeps ==
    ASSUME ResetInv,
           \/ \E field \in {"fresh", "cooling"} : Reset!Elapse(field)
           \/ Reset!AccountChanges
           \/ Reset!ConfigurationChanges
    PROVE  ResetInv'
<1>1. UNCHANGED <<worker, inbox, mailed, requests, stalls, deaths, minted>>
  BY DEF Reset!Elapse, Reset!AccountChanges, Reset!ConfigurationChanges, Reset!world
<1>2. account' \in [version : 0..MaxVersion, recoverable : BOOLEAN] /\ emailing' \in BOOLEAN
  <2>1. account \in [version : 0..MaxVersion, recoverable : BOOLEAN] /\ emailing \in BOOLEAN
    BY DEF ResetInv, ResetTypes
  <2>2. CASE account.version < MaxVersion /\ account' = [account EXCEPT !.version = @ + 1]
    <3>1. account.version + 1 \in 0..MaxVersion
      BY <2>1, <2>2, ResetNats
    <3> QED
      BY <2>1, <2>2, <3>1 DEF Reset!Elapse, Reset!AccountChanges, Reset!ConfigurationChanges,
           Reset!world
  <2>3. CASE account' = [account EXCEPT !.recoverable = ~@]
    BY <2>1, <2>3 DEF Reset!Elapse, Reset!AccountChanges, Reset!ConfigurationChanges,
       Reset!world
  <2>4. CASE account' = account
    BY <2>1, <2>4 DEF Reset!Elapse, Reset!AccountChanges, Reset!ConfigurationChanges,
       Reset!world
  <2> QED
    BY <2>2, <2>3, <2>4 DEF Reset!Elapse, Reset!AccountChanges, Reset!ConfigurationChanges,
         Reset!world
<1>3. /\ envelope' \in EnvelopeRow /\ envelope'.status = envelope.status
      /\ envelope'.generation = envelope.generation /\ envelope'.code = envelope.code
      /\ envelope'.fingerprint = envelope.fingerprint /\ envelope'.leased = envelope.leased
  <2>1. CASE envelope' = envelope
    BY <2>1 DEF ResetInv, ResetTypes
  <2>2. CASE envelope' = [envelope EXCEPT !["fresh"] = FALSE]
    BY <2>2 DEF ResetInv, ResetTypes, EnvelopeRow
  <2>3. CASE envelope' = [envelope EXCEPT !["cooling"] = FALSE]
    BY <2>3 DEF ResetInv, ResetTypes, EnvelopeRow
  <2> QED
    BY <2>1, <2>2, <2>3 DEF Reset!Elapse, Reset!AccountChanges, Reset!ConfigurationChanges
<1> QED
  BY <1>1, <1>2, <1>3, RowKept DEF ResetInv, ResetTypes, Moves

\* A generation belongs to one claim, so a drain finishes only what it began.
LEMMA ResetNext == ASSUME ResetInv, [Reset!Next]_Reset!vars PROVE ResetInv'
<1>1. CASE UNCHANGED Reset!vars
  <2>1. Reset!Generation' = Reset!Generation /\ Reset!Owned' = Reset!Owned
    BY <1>1 DEF Reset!vars, Reset!Generation, Reset!Owned
  <2> QED
    BY <1>1, <2>1 DEF Reset!vars, ResetInv, ResetTypes, Budget, Spent, Owing, Fenced, RowTold,
         MintedOnce
<1>2. CASE Reset!Next
  <2>1. ASSUME NEW w \in Drains, Reset!Drain(w) PROVE ResetInv'
    BY <2>1, SweepKeeps, ReclaimKeeps, PrepareKeeps, PostKeeps, FinalizeKeeps DEF Reset!Drain
  <2> QED
    BY <1>2, <2>1, RequestKeeps, ConfirmKeeps, DeathKeeps, LapseKeeps, AroundKeeps DEF
       Reset!Next
<1> QED
  BY <1>1, <1>2

LEMMA ResetSafe == ASSUME ResetInv PROVE Reset!TypeOK /\ Reset!MailedAtMostOnce /\ Reset!IssuedWasMailed
<1>1. Reset!MailedAtMostOnce
  BY DEF ResetInv, MintedOnce, Reset!MailedAtMostOnce
<1>2. Reset!IssuedWasMailed
  BY DEF ResetInv, RowTold, Reset!IssuedWasMailed
<1>3. Reset!TypeOK
  <2>1. /\ envelope.generation \in Reset!Generation /\ 0 \in Reset!Generation
        /\ \A w \in Drains : worker[w].generation \in Reset!Generation
    BY InGeneration, ResetNats DEF ResetInv, Fenced, Reset!Generation
  <2>2. envelope.code \in Reset!Generation /\ envelope.generation \in Nat
    BY <2>1 DEF ResetInv, ResetTypes, EnvelopeRow, RowTold
  <2>3. 0..envelope.generation \subseteq Reset!Generation
    BY <2>1, <2>2, ResetNats DEF Reset!Generation
  <2>4. envelope.code # 0 <=> envelope.status \in {"delivering", "issued"}
    BY DEF ResetInv, RowTold
  <2>5. \A w \in Drains : worker[w] \in
          [pc : {"idle", "expired", "discarded", "claimed", "prepared", "sent", "failed"},
           generation : Reset!Generation]
    BY <2>1 DEF ResetInv, ResetTypes, DrainState, Early, Late
  <2>6. envelope \in [status : ResetStatus, generation : Reset!Generation, code : Reset!Generation,
                      fingerprint : 0..MaxVersion, fresh : BOOLEAN, leased : BOOLEAN,
                      cooling : BOOLEAN, attempts : 0..MaxAttempts]
    BY <2>1, <2>2 DEF ResetInv, ResetTypes, EnvelopeRow
  <2> QED
    BY <2>3, <2>4, <2>5, <2>6 DEF ResetInv, ResetTypes, RowTold, ResetStatus, Reset!TypeOK,
         Reset!NoCode
<1> QED
  BY <1>1, <1>2, <1>3

\* Only a confirmation consumes, and it compares the row with the account as it is.
LEMMA ConfirmChecks ==
    ASSUME ResetInv, NEW code, NEW valid \in BOOLEAN, Reset!confirm_password_reset(code, valid),
           envelope.status # "consumed", envelope'.status = "consumed"
    PROVE  /\ \A g \in Reset!Generation : g > envelope.code => g \notin inbox
           /\ minted[envelope.code].version = account.version
           /\ account.recoverable
<1>1. Reset!StageOnePasses(code) /\ Reset!_credential_state_matches
  <2>1. \A row \in EnvelopeRow : Reset!Attempted(row).status = row.status
    BY DEF EnvelopeRow, Reset!Attempted
  <2>2. "discarded" \in ResetStatus /\ envelope \in EnvelopeRow /\ envelope.generation \in Nat
    BY DEF ResetInv, ResetTypes, EnvelopeRow, ResetStatus, Reset!Reentrant
  <2>3. /\ Reset!Ended("discarded", envelope.generation) \in EnvelopeRow
        /\ Reset!Ended("discarded", envelope.generation).status = "discarded"
    BY <2>2, EndedRow
  <2>4. CASE envelope' = Reset!Attempted(envelope)
    BY <2>1, <2>2, <2>4
  <2>5. CASE envelope' = Reset!Attempted(Reset!Ended("discarded", envelope.generation))
    BY <2>1, <2>3, <2>5
  <2> QED
    BY <2>4, <2>5 DEF Reset!confirm_password_reset
<1>2. envelope.status = "issued" /\ account.recoverable /\ account.version = envelope.fingerprint
  BY <1>1 DEF Reset!StageOnePasses, Reset!_credential_state_matches
<1>3. envelope.code = envelope.generation /\ envelope.fingerprint = minted[envelope.code].version
  BY <1>2 DEF ResetInv, RowTold
<1>4. envelope.generation \in Nat /\ inbox \subseteq 0..envelope.generation
  BY DEF ResetInv, ResetTypes, EnvelopeRow
<1>5. \A g \in Reset!Generation : g > envelope.generation => g \notin inbox
  BY <1>4, ResetNats DEF Reset!Generation
<1> QED
  BY <1>2, <1>3, <1>5

LEMMA ConsumesChecked == ASSUME ResetInv, [Reset!Next]_Reset!vars PROVE Reset!ConsumesNewestCode
<1> SUFFICES ASSUME envelope.status # "consumed", envelope'.status = "consumed"
             PROVE  /\ \A g \in Reset!Generation : g > envelope.code => g \notin inbox
                    /\ minted[envelope.code].version = account.version
                    /\ account.recoverable
  BY DEF Reset!ConsumesNewestCode
<1>1. envelope' # envelope
  OBVIOUS
<1>2. envelope \in EnvelopeRow /\ envelope.generation \in Nat /\ envelope.generation + 1 \in Nat
  BY DEF ResetInv, ResetTypes, EnvelopeRow
<1>3. ASSUME NEW st \in ResetStatus \ {"consumed"}, NEW g \in Nat
      PROVE  envelope' # Reset!Ended(st, g)
  <2>1. Reset!Ended(st, g).status = st
    BY EndedRow
  <2> QED
    BY <2>1
<1>4. {"discarded", "undeliverable", "delivery_unknown"} \subseteq ResetStatus \ {"consumed"}
  BY DEF ResetStatus, Reset!Reentrant
<1>5. ~Reset!request_password_reset
  BY DEF Reset!request_password_reset
<1>6. ASSUME NEW w \in Drains PROVE ~Reset!Drain(w) /\ ~Reset!Death(w)
  <2>1. ~Reset!expire_delivery_leases(w) /\ ~Reset!discard_expired_issued(w)
    BY <1>1, <1>2, <1>3, <1>4 DEF Reset!expire_delivery_leases, Reset!discard_expired_issued
  <2>2. ~Reset!claim_pending_envelopes(w)
    BY <1>1, <1>2 DEF Reset!claim_pending_envelopes, EnvelopeRow
  <2>3. ~Reset!prepare_delivery(w)
    <3>1. \A g : envelope' # [envelope EXCEPT !.status = "delivering", !.code = g,
                                !.fingerprint = account.version, !.fresh = TRUE,
                                !.leased = TRUE, !.attempts = 0]
      BY <1>2 DEF EnvelopeRow
    <3> QED
      BY <1>1, <1>2, <1>3, <1>4, <3>1 DEF Reset!prepare_delivery
  <2>4. ~Reset!finalize_delivery(w)
    <3>1. envelope' # [envelope EXCEPT !.status = "issued", !.leased = FALSE]
      BY <1>2 DEF EnvelopeRow
    <3> QED
      BY <1>1, <1>2, <1>3, <1>4, <3>1 DEF Reset!finalize_delivery
  <2> QED
    BY <1>1, <2>1, <2>2, <2>3, <2>4 DEF Reset!Drain, Reset!send_password_reset_otp, Reset!Death
<1>7. ~Reset!LeaseLapses /\ ~Reset!AccountChanges /\ ~Reset!ConfigurationChanges
  BY <1>1, <1>2 DEF EnvelopeRow, Reset!LeaseLapses, Reset!AccountChanges,
     Reset!ConfigurationChanges
<1>8. ~Reset!Elapse("fresh") /\ ~Reset!Elapse("cooling")
  BY <1>1, <1>2 DEF EnvelopeRow, Reset!Elapse
<1>9. \E code \in inbox \cup {Reset!WrongCode}, valid \in BOOLEAN :
         Reset!confirm_password_reset(code, valid)
  BY <1>1, <1>5, <1>6, <1>7, <1>8 DEF Reset!Next, Reset!vars
<1> QED
  BY <1>9, ConfirmChecks

-----------------------------------------------------------------------------
(* The theorems.                                                           *)

\* What is sent or skipped is only read: nobody holds a claim on it, and none is
\* given (EmailLog.Status, _claim_log).
LEMMA SettledStays ==
    ASSUME ~PublishFails, MailInv, [Mail!Next]_Mail!vars PROVE Mail!StaysSettled
<1> SUFFICES ASSUME log.status \in Mail!Settled PROVE log' = log
  BY DEF Mail!StaysSettled
<1>1. Mail!Sending = {}
  BY SenderAlone DEF Mail!Settled
<1>2. \A w \in Senders : ~Mail!_deliver_blocked(w) /\ ~Mail!_deliver_save(w)
  BY <1>1 DEF Mail!Sending, Mail!_deliver_blocked, Mail!_deliver_save
<1> QED
  BY <1>2 DEF Mail!Settled, Mail!vars, Mail!Next, Mail!dispatch_email, Mail!dispatch_direct,
       Mail!_enqueue, Mail!retry_email_log, Mail!Deliver, Mail!_claim_log, Mail!MayClaim,
       Mail!_deliver, Mail!retry_or_finish, Mail!Dies, Mail!GoesStale, Mail!Toggle

\* A request for a password leads to at most one mail and a code that counts was
\* mailed; two processes never send one mail of the outbox at the same time, and it
\* arrives twice only after an unknown outcome (services_password_reset_drain.py,
\* email_delivery.py), as long as the broker's answer to delay() is not lost.
THEOREM MailedByOneAlways == ASSUME ~PublishFails PROVE Spec => []MailedByOne
<1> DEFINE I == (part = "mail" => MailInv) /\ (part = "reset" => ResetInv)
<1>1. Init => I
  BY MailInit, ResetInit DEF Init
<1>2. I /\ [Next]_vars => I'
  BY PartStep, MailNext, ResetNext
<1>3. I => MailedByOne
  BY MailSafe, ResetSafe DEF MailedByOne
<1> QED
  BY <1>1, <1>2, <1>3, PTL DEF Spec

\* A mail that was sent, or refused for good, is never taken up again.
THEOREM MailStaysSettled ==
    ASSUME ~PublishFails PROVE Spec => [][part = "mail" => Mail!StaysSettled]_vars
<1> DEFINE I == part = "mail" => MailInv
<1>1. Init => I
  BY MailInit DEF Init
<1>2. I /\ [Next]_vars => I'
  BY PartStep, MailNext
<1>3. I /\ [Next]_vars => [part = "mail" => Mail!StaysSettled]_vars
  BY PartStep, SettledStays
<1> QED
  BY <1>1, <1>2, <1>3, PTL DEF Spec

\* A password is set only with the newest code, for the credential it was minted for
\* (services_password_reset.py, _credential_state_matches).
THEOREM ResetsOnNewestCode == Spec => ResetOnNewestCode
<1> DEFINE I == part = "reset" => ResetInv
<1>1. Init => I
  BY ResetInit DEF Init
<1>2. I /\ [Next]_vars => I'
  BY PartStep, ResetNext
<1>3. I /\ [Next]_vars => [part = "reset" => Reset!ConsumesNewestCode]_vars
  BY PartStep, ConsumesChecked
<1> QED
  BY <1>1, <1>2, <1>3, PTL DEF Spec, ResetOnNewestCode

-----------------------------------------------------------------------------
(* The handover of a makerspace.                                           *)

\* A closed gate let the writers that were in finish, and lets none in.
Shut == gate.state # "open" => inside = {} /\ gate.token \in 1..MaxToken

\* A token is new when the gate closes: no archive has it before the rows are
\* photographed under it.
TokensFenced ==
    /\ \A o \in Owners : run[o].token <= gate.token
    /\ \A o \in Owners : archive[o] # Unused =>
         /\ archive[o].token <= gate.token
         /\ gate.state = "draining" => archive[o].token < gate.token

\* The process in the snapshot has stored what it photographed.
Photographed == \A o \in Owners :
    run[o].pc \in {"snapshot", "captured"} => archive[o] # Unused

\* The receipts: a source handed over is retired until it reopened, it reopened
\* only for a target that aborted, and only the target it was paired with is live.
Receipts ==
    /\ handoff # Unused =>
         IF handoff.reopened THEN target[handoff.pairing] = "aborted"
         ELSE gate.state = "migrated_out"
    /\ \A o \in Owners : target[o] = "active" =>
         handoff # Unused /\ handoff.pairing = o /\ ~handoff.reopened

GateInv == Gate!TypeOK /\ Shut /\ TokensFenced /\ Photographed /\ Gate!SnapshotComplete /\ Receipts

-----------------------------------------------------------------------------
(* The conjuncts of GateInv for each variable, with the rows named.        *)
LEMMA Typed == ASSUME GateInv
    PROVE  /\ gate \in Gate!GateRow /\ (gate.state = "open" <=> gate.owner = Unused)
           /\ run \in [Owners -> Gate!RunRow]
           /\ archive \in [Owners -> {Unused} \cup Gate!ArchiveRow]
BY DEF GateInv, Gate!TypeOK

(* A process goes on: its place changes and nothing else.                  *)
LEMMA StepTaken ==
    ASSUME GateInv, NEW o \in Owners, NEW to, Gate!step(o, to),
           to \in {"idle", "claiming", "draining", "stamped", "snapshot", "captured"}
    PROVE  /\ run' \in [Owners -> Gate!RunRow]
           /\ \A q \in Owners : run'[q].token = run[q].token
           /\ \A q \in Owners : q # o => run'[q] = run[q]
           /\ run'[o].pc = to
BY Typed DEF Gate!step, Gate!RunRow

LEMMA GateInit == ASSUME Gate!GateConstants PROVE Gate!Init => GateInv
BY DEF Gate!GateConstants, Gate!Init, GateInv, Gate!TypeOK, Shut, TokensFenced, Photographed,
   Gate!SnapshotComplete, Receipts, Gate!Idle, Gate!Closed, Gate!GateRow, Gate!RunRow,
   Gate!ArchiveRow, Gate!HandoffRow

(* A writer comes in only while the gate is open, and writes only while it *)
(* is in: rows never change behind a closed gate.                          *)
LEMMA WriterKeeps ==
    ASSUME Gate!GateConstants, GateInv, NEW w \in Writers, Gate!WriterStep(w)
    PROVE  GateInv'
<1>1. gate' = gate /\ run' = run /\ archive' = archive /\ target' = target /\ handoff' = handoff
  BY DEF Gate!WriterStep, Gate!boundary_tenant_write, Gate!boundary_when, Gate!Write,
     Gate!presign, Gate!Leave, Gate!Put
<1>2. inside' \subseteq Writers /\ urls' \in [Writers -> 0..UploadTTL]
  BY DEF Gate!GateConstants, GateInv, Gate!TypeOK, Gate!WriterStep, Gate!boundary_tenant_write,
     Gate!boundary_when, Gate!Write, Gate!presign, Gate!Leave, Gate!Put
<1>3. rows' \in 0..MaxWrites /\ files' \in 0..MaxWrites
  BY DEF Gate!GateConstants, GateInv, Gate!TypeOK, Gate!WriterStep, Gate!boundary_tenant_write,
     Gate!boundary_when, Gate!Write, Gate!presign, Gate!Leave, Gate!Put
<1>4. gate.state # "open" => inside' = {} /\ rows' = rows
  BY DEF GateInv, Shut, Gate!WriterStep, Gate!boundary_tenant_write, Gate!boundary_when,
         Gate!Write, Gate!presign, Gate!Leave, Gate!Put
<1>5. Gate!TypeOK'
  BY <1>1, <1>2, <1>3 DEF GateInv, Gate!TypeOK
<1>6. Shut' /\ Gate!SnapshotComplete'
  BY <1>1, <1>4 DEF GateInv, Shut, Gate!SnapshotComplete
<1> QED
  BY <1>1, <1>5, <1>6 DEF GateInv, TokensFenced, Photographed, Receipts

(* A process takes a step that leaves gate and archives alone.             *)
LEMMA MigrationKeeps ==
    ASSUME Gate!GateConstants, GateInv, UNCHANGED <<gate, Gate!tenant, archive, target, handoff>>,
           run' \in [Owners -> Gate!RunRow], \A q \in Owners : run'[q].token <= gate.token,
           \A q \in Owners : run'[q].pc \in {"snapshot", "captured"} => archive[q] # Unused
    PROVE  GateInv'
<1>1. Gate!TypeOK'
  BY DEF GateInv, Gate!TypeOK, Gate!tenant, Gate!RunRow
<1> QED
  BY <1>1 DEF GateInv, Gate!tenant, Shut, TokensFenced, Photographed, Gate!SnapshotComplete, Receipts

(* The gate changes hands: who closes it anew does so under a token nobody *)
(* had, with the writers out; nobody opens a gate that was handed over,    *)
(* and no photograph is open.                                              *)
LEMMA GateKeeps ==
    ASSUME Gate!GateConstants, GateInv, UNCHANGED <<Gate!tenant, archive, target, handoff>>,
           run' \in [Owners -> Gate!RunRow],
           \A q \in Owners : run'[q].token <= run[q].token \/ run'[q].token = gate'.token,
           \A q \in Owners : run'[q].pc \in {"snapshot", "captured"} => archive[q] # Unused,
           gate' \in Gate!GateRow, gate'.state = "open" <=> gate'.owner = Unused,
           gate'.token >= gate.token,
           gate'.state # "open" => inside = {} /\ gate'.token \in 1..MaxToken,
           gate.state = "migrated_out" => gate'.state = "migrated_out",
           gate'.token > gate.token \/ gate.state = "draining" \/
              (gate.state = gate'.state /\ gate'.owner = gate.owner)
    PROVE  GateInv'
<1>1. Gate!TypeOK'
  BY Typed DEF GateInv, Gate!TypeOK, Gate!tenant, Gate!RunRow, Gate!GateRow
<1>2. Shut' /\ Photographed' /\ Receipts'
  BY DEF GateInv, Gate!tenant, Shut, Photographed, Receipts
<1>3. gate.token \in Nat /\ gate'.token \in Nat
      /\ \A q \in Owners : run[q].token \in Nat /\ run'[q].token \in Nat
      /\ \A p \in Owners : archive[p] # Unused => archive[p].token \in Nat
  BY Typed DEF Gate!GateConstants, Gate!GateRow, Gate!RunRow, Gate!ArchiveRow
<1>4. TokensFenced'
  BY <1>3 DEF GateInv, TokensFenced
<1>5. Gate!SnapshotComplete'
  BY <1>3 DEF GateInv, TokensFenced, Gate!SnapshotComplete, Gate!tenant
<1> QED
  BY <1>1, <1>2, <1>4, <1>5 DEF GateInv

(* An archive is written on: it keeps the token and the rows it was made   *)
(* with.                                                                   *)
LEMMA ArchiveKeeps ==
    ASSUME Gate!GateConstants, GateInv, UNCHANGED <<gate, Gate!tenant, target, handoff>>,
           NEW o \in Owners, archive[o] # Unused, NEW to \in {"idle", "captured"}, Gate!step(o, to),
           archive' \in [Owners -> {Unused} \cup Gate!ArchiveRow],
           \A q \in Owners : archive'[q] = Unused <=> archive[q] = Unused,
           \A q \in Owners : archive'[q] # Unused =>
                archive'[q].token = archive[q].token /\ archive'[q].rows = archive[q].rows
    PROVE  GateInv'
<1>1. /\ run' \in [Owners -> Gate!RunRow]
      /\ \A q \in Owners : run'[q].token = run[q].token
      /\ \A q \in Owners : run'[q].pc \in {"snapshot", "captured"} =>
            q = o \/ run[q].pc \in {"snapshot", "captured"}
  BY StepTaken
<1>2. Gate!TypeOK'
  BY <1>1 DEF GateInv, Gate!TypeOK, Gate!tenant, Gate!RunRow, Gate!ArchiveRow
<1> QED
  BY <1>1, <1>2 DEF GateInv, Gate!tenant, Shut, TokensFenced, Photographed, Gate!SnapshotComplete,
     Receipts

(* The rows are photographed under the token the gate has, which is still  *)
(* the process's own.                                                      *)
LEMMA SnapshotKeeps ==
    ASSUME Gate!GateConstants, GateInv, NEW o \in Owners, Gate!open_snapshot(o)
    PROVE  GateInv'
<1> DEFINE row == [rows |-> rows, files |-> files, token |-> gate.token,
                   captured |-> FALSE, published |-> FALSE]
<1>1. CASE ~(Gate!_require_live_owner(o, run[o].token) /\ gate.state = "quiesced")
  <2>1. Gate!step(o, "idle") /\ UNCHANGED <<gate, Gate!tenant, archive, target, handoff>>
    BY <1>1 DEF Gate!open_snapshot
  <2> QED
    BY <2>1, StepTaken, MigrationKeeps DEF GateInv, TokensFenced, Photographed
<1>2. CASE Gate!_require_live_owner(o, run[o].token) /\ gate.state = "quiesced"
  <2>1. /\ Gate!step(o, "snapshot") /\ archive' = [archive EXCEPT ![o] = row]
        /\ UNCHANGED <<gate, Gate!tenant, target, handoff>>
    BY <1>2 DEF Gate!open_snapshot
  <2>2. row \in Gate!ArchiveRow
    BY <1>2 DEF Gate!ArchiveRow, GateInv, Gate!TypeOK, Shut, Gate!GateConstants
  <2>3. archive' \in [Owners -> {Unused} \cup Gate!ArchiveRow]
        /\ archive'[o] = row /\ \A q \in Owners : q # o => archive'[q] = archive[q]
    BY <2>1, <2>2, Typed
  <2>4. /\ run' \in [Owners -> Gate!RunRow]
        /\ \A q \in Owners : run'[q].token = run[q].token
        /\ \A q \in Owners : q # o => run'[q] = run[q]
    BY <2>1, StepTaken
  <2>5. row # Unused /\ row.token = gate.token /\ row.rows = rows
    BY <2>2 DEF Gate!GateConstants
  <2>6. Gate!TypeOK'
    BY <2>1, <2>3, <2>4 DEF GateInv, Gate!TypeOK, Gate!tenant, Gate!RunRow, Gate!ArchiveRow
  <2>7. gate.token \in Nat /\ gate.token <= gate.token
    BY Typed DEF Gate!GateRow, Gate!GateConstants
  <2>8. TokensFenced'
    BY <1>2, <2>1, <2>3, <2>4, <2>5, <2>7 DEF GateInv, TokensFenced
  <2>9. Photographed' /\ Gate!SnapshotComplete'
    BY <2>1, <2>3, <2>4, <2>5 DEF GateInv, Photographed, Gate!SnapshotComplete, Gate!tenant
  <2> QED
    BY <2>1, <2>6, <2>8, <2>9 DEF GateInv, Shut, Receipts, Gate!tenant
<1> QED
  BY <1>1, <1>2

(* What opening the gate gives: the lease is over and the token is spent.  *)
LEMMA Opened ==
    ASSUME Gate!GateConstants, GateInv, gate.state # "open"
    PROVE  Gate!_open \in Gate!GateRow /\ Gate!_open.state = "open" /\ Gate!_open.owner = Unused
           /\ Gate!_open.token > gate.token
<1>1. gate.token \in 1..MaxToken /\ MaxToken \in Nat /\ Lease \in Nat /\ UploadTTL \in Nat
  BY DEF GateInv, Shut, Gate!GateConstants
<1> QED
  BY <1>1 DEF Gate!_open, Gate!GateRow

LEMMA OwnerKeeps ==
    ASSUME Gate!GateConstants, GateInv, NEW o \in Owners, Gate!OwnerStep(o)
    PROVE  GateInv'
<1> DEFINE Same == UNCHANGED <<gate, Gate!tenant, archive, target, handoff>>
           Gone == UNCHANGED <<Gate!tenant, archive, target, handoff>>
<1>1. ASSUME NEW to \in {"idle", "claiming", "draining", "stamped"}, Gate!step(o, to), Same
      PROVE  GateInv'
  BY <1>1, StepTaken, MigrationKeeps DEF GateInv, TokensFenced, Photographed
<1>2. CASE \E p \in Purposes : Gate!quiesced_snapshot(o, p)
  <2>1. PICK p \in Purposes : Gate!quiesced_snapshot(o, p)
    BY <1>2
  <2> DEFINE row == [pc |-> "claiming", purpose |-> p, token |-> run[o].token,
                     lease |-> Lease, drain |-> UploadTTL]
  <2>2. row \in Gate!RunRow /\ row.pc = "claiming" /\ row.token = run[o].token
    BY Typed DEF Gate!RunRow, Gate!GateConstants
  <2>3. run' = [run EXCEPT ![o] = row] /\ Same
    BY <2>1, Typed DEF Gate!quiesced_snapshot
  <2> HIDE DEF row
  <2>4. /\ run' \in [Owners -> Gate!RunRow] /\ run'[o] = row
        /\ \A q \in Owners : q # o => run'[q] = run[q]
    BY <2>2, <2>3, Typed
  <2> QED
    BY <2>2, <2>3, <2>4, MigrationKeeps DEF GateInv, TokensFenced, Photographed
<1>3. CASE Gate!claim(o) /\ gate.state = "open"
  <2>1. /\ gate' = Gate!Claimed(o) /\ gate.token < MaxToken /\ Gone /\ inside = {}
        /\ run' = [run EXCEPT ![o] = [@ EXCEPT !.pc = "draining", !.token = gate.token + 1]]
    BY <1>3 DEF Gate!claim, Gate!acquire_exclusive
  <2>2. gate.token \in Nat /\ MaxToken \in Nat /\ gate.token + 1 \in 1..MaxToken
    BY <2>1, Typed DEF Gate!GateRow, Gate!GateConstants
  <2>3. run[o] \in Gate!RunRow
    BY Typed
  <2>4. /\ gate' \in Gate!GateRow /\ gate'.state = "draining" /\ gate'.owner = o
        /\ gate'.token = gate.token + 1
    BY <2>1, <2>2, <2>3 DEF Gate!Claimed, Gate!GateRow, Gate!RunRow, Gate!Closed
  <2> DEFINE row == [run[o] EXCEPT !.pc = "draining", !.token = gate.token + 1]
  <2>5. row \in Gate!RunRow /\ row.pc = "draining" /\ row.token = gate.token + 1
    <3> DEFINE mid == [run[o] EXCEPT !.pc = "draining"]
    <3>1. mid \in Gate!RunRow /\ mid.pc = "draining"
      BY <2>3 DEF Gate!RunRow
    <3>2. row = [mid EXCEPT !.token = gate.token + 1]
      OBVIOUS
    <3>3. gate.token + 1 \in 0..MaxToken + 1
      BY <2>2
    <3> HIDE DEF row, mid
    <3> QED
      BY <3>1, <3>2, <3>3 DEF Gate!RunRow
  <2>6. run' = [run EXCEPT ![o] = row]
    BY <2>1
  <2> HIDE DEF row
  <2>7. /\ run' \in [Owners -> Gate!RunRow] /\ run'[o] = row
        /\ \A q \in Owners : q # o => run'[q] = run[q]
    BY <2>5, <2>6, Typed
  <2>8. \A q \in Owners : run[q].token \in Nat
    BY Typed DEF Gate!RunRow, Gate!GateConstants
  <2> QED
    BY <1>3, <2>1, <2>2, <2>4, <2>5, <2>7, <2>8, GateKeeps DEF Gate!GateConstants, GateInv,
       Photographed
<1>4. CASE Gate!claim(o) /\ gate.state # "open"
  BY <1>1, <1>4 DEF Gate!claim
<1>5. CASE Gate!stamp_quiesced(o) /\ Gate!_require_live_owner(o, run[o].token)
                             /\ gate.state \in {"draining", "quiesced"}
  <2>1. gate' = [gate EXCEPT !.state = "quiesced"] /\ Gate!step(o, "stamped") /\ Gone
    BY <1>5 DEF Gate!stamp_quiesced
  <2>2. /\ gate' \in Gate!GateRow /\ gate'.state = "quiesced" /\ gate'.owner = gate.owner
        /\ gate'.token = gate.token
    BY <2>1, Typed DEF Gate!GateRow, Gate!Closed
  <2>3. /\ run' \in [Owners -> Gate!RunRow] /\ \A q \in Owners : run'[q].token = run[q].token
        /\ \A q \in Owners : run'[q].pc \in {"snapshot", "captured"} =>
              run[q].pc \in {"snapshot", "captured"}
    BY <2>1, StepTaken
  <2>4. gate.token \in Nat /\ \A q \in Owners : run[q].token \in Nat
    BY Typed DEF Gate!GateRow, Gate!RunRow, Gate!GateConstants
  <2>5. gate.owner # Unused
    BY <1>5 DEF Gate!_require_live_owner, Gate!GateConstants
  <2> QED
    BY <1>5, <2>1, <2>2, <2>3, <2>4, <2>5, GateKeeps DEF GateInv, Shut, Photographed
<1>6. CASE Gate!stamp_quiesced(o) /\ ~(/\ Gate!_require_live_owner(o, run[o].token)
                                 /\ gate.state \in {"draining", "quiesced"})
  BY <1>1, <1>6 DEF Gate!stamp_quiesced
<1>7. CASE Gate!open_snapshot(o)
  BY <1>7, SnapshotKeeps
<1>8. CASE Gate!capture_tenant_objects(o)
  <2>1. archive[o] \in Gate!ArchiveRow
    BY <1>8, Typed DEF GateInv, Photographed, Gate!capture_tenant_objects
  <2> DEFINE row == [archive[o] EXCEPT !.files = files, !.captured = TRUE]
  <2>2. row \in Gate!ArchiveRow /\ row.token = archive[o].token /\ row.rows = archive[o].rows
    BY <2>1 DEF Gate!ArchiveRow, GateInv, Gate!TypeOK
  <2>3. archive' = [archive EXCEPT ![o] = row]
    BY <1>8, <2>1, Typed DEF Gate!capture_tenant_objects, Gate!ArchiveRow
  <2> HIDE DEF row
  <2>4. /\ archive' \in [Owners -> {Unused} \cup Gate!ArchiveRow] /\ archive'[o] = row
        /\ \A q \in Owners : q # o => archive'[q] = archive[q]
    BY <2>2, <2>3, Typed
  <2> QED
    BY <1>8, <2>1, <2>2, <2>4, ArchiveKeeps DEF Gate!capture_tenant_objects, Gate!GateConstants
<1>9. CASE Gate!source_archive_boundary(o)
  <2>1. CASE UNCHANGED archive
    BY <1>1, <1>9, <2>1 DEF Gate!source_archive_boundary
  <2>2. CASE archive' = [archive EXCEPT ![o].published = TRUE] /\ archive[o] \in Gate!ArchiveRow
    <3> DEFINE row == [archive[o] EXCEPT !.published = TRUE]
    <3>1. row \in Gate!ArchiveRow /\ row.token = archive[o].token /\ row.rows = archive[o].rows
      BY <2>2 DEF Gate!ArchiveRow
    <3>2. archive' = [archive EXCEPT ![o] = row]
      BY <2>2
    <3> HIDE DEF row
    <3>3. /\ archive' \in [Owners -> {Unused} \cup Gate!ArchiveRow] /\ archive'[o] = row
          /\ \A q \in Owners : q # o => archive'[q] = archive[q]
      BY <3>1, <3>2, Typed
    <3> QED
      BY <1>9, <2>2, <3>1, <3>3, ArchiveKeeps DEF Gate!source_archive_boundary,
         Gate!GateConstants
  <2>3. archive[o] \in Gate!ArchiveRow
    BY <1>9, Typed DEF Gate!source_archive_boundary, GateInv, Photographed
  <2> QED
    BY <1>9, <2>1, <2>2, <2>3 DEF Gate!source_archive_boundary
<1>10. CASE Gate!release_after_copy_capture(o)
  <2>1. CASE UNCHANGED gate
    BY <1>1, <1>10, <2>1 DEF Gate!release_after_copy_capture
  <2>2. CASE gate' = Gate!_open /\ gate.state = "quiesced"
    <3>1. Gate!step(o, "idle") /\ Gone
      BY <1>10 DEF Gate!release_after_copy_capture
    <3>2. /\ run' \in [Owners -> Gate!RunRow] /\ \A q \in Owners : run'[q].token = run[q].token
          /\ \A q \in Owners : run'[q].pc \in {"snapshot", "captured"} =>
              run[q].pc \in {"snapshot", "captured"}
      BY <3>1, StepTaken
    <3>3. gate.token \in Nat /\ Gate!_open.token \in Nat /\ \A q \in Owners : run[q].token \in Nat
      BY Typed, <2>2, Opened DEF Gate!GateRow, Gate!RunRow, Gate!GateConstants
    <3> QED
      BY <2>2, <3>1, <3>2, <3>3, Opened, GateKeeps DEF GateInv, Photographed
  <2> QED
    BY <1>10, <2>1, <2>2 DEF Gate!release_after_copy_capture
<1>11. CASE Gate!Crash(o)
  BY <1>1, <1>11 DEF Gate!Crash
<1> QED
  BY <1>2, <1>3, <1>4, <1>5, <1>6, <1>7, <1>8, <1>9, <1>10, <1>11 DEF Gate!OwnerStep

LEMMA RecoverKeeps ==
    ASSUME Gate!GateConstants, GateInv,
           Gate!recover_expired \/ \E o \in Owners : Gate!claim_completed_export(o)
    PROVE  GateInv'
<1>1. UNCHANGED <<Gate!tenant, run, archive, target, handoff>> /\ inside = {}
  BY DEF Gate!recover_expired, Gate!claim_completed_export, Gate!acquire_exclusive
<1>2. /\ run' \in [Owners -> Gate!RunRow] /\ \A q \in Owners : run'[q].token <= run[q].token
      /\ \A q \in Owners : run'[q].pc \in {"snapshot", "captured"} => archive[q] # Unused
      /\ gate.token \in Nat
  <2>1. \A q \in Owners : run[q].token \in Nat
    BY Typed DEF Gate!RunRow, Gate!GateConstants
  <2> QED
    BY <1>1, <2>1, Typed DEF GateInv, Photographed, Gate!GateRow, Gate!GateConstants
<1>3. CASE Gate!recover_expired
  <2>1. gate' = Gate!_open /\ gate.state \in {"draining", "quiesced"}
    BY <1>3 DEF Gate!recover_expired
  <2>2. Gate!_open.token \in Nat
    BY <2>1, Opened DEF Gate!GateRow, Gate!GateConstants
  <2> QED
    BY <1>1, <1>2, <2>1, <2>2, Opened, GateKeeps
<1>4. ASSUME NEW o \in Owners, Gate!claim_completed_export(o), gate.state = "open" PROVE GateInv'
  <2>1. gate.token < MaxToken /\ MaxToken \in Nat /\ gate.token + 1 \in 1..MaxToken
    BY <1>2, <1>4 DEF Gate!claim_completed_export, Gate!GateConstants
  <2> DEFINE row == [state |-> "draining", purpose |-> "migration", owner |-> o,
                     token |-> gate.token + 1, lease |-> Lease, drain |-> UploadTTL]
  <2>2. gate' = row
    BY <1>4 DEF Gate!claim_completed_export
  <2>3. row \in Gate!GateRow /\ row.state = "draining" /\ row.owner = o /\ row.token = gate.token + 1
    BY <2>1 DEF Gate!GateRow, Gate!Closed, Gate!GateConstants
  <2> HIDE DEF row
  <2> QED
    BY <1>1, <1>2, <1>4, <2>1, <2>2, <2>3, GateKeeps DEF Gate!GateConstants
<1>5. ASSUME NEW o \in Owners, Gate!claim_completed_export(o), gate.state # "open" PROVE GateInv'
  <2> DEFINE row == [gate EXCEPT !.lease = Lease]
  <2>1. gate' = row
    BY <1>5 DEF Gate!claim_completed_export
  <2>2. /\ row \in Gate!GateRow /\ row.state = gate.state /\ row.owner = gate.owner
        /\ row.token = gate.token
    BY Typed DEF Gate!GateRow, Gate!GateConstants
  <2> HIDE DEF row
  <2> QED
    BY <1>1, <1>2, <1>5, <2>1, <2>2, Typed, GateKeeps DEF GateInv, Shut
<1> QED
  BY <1>3, <1>4, <1>5

(* The receipts.                                                           *)
LEMMA HandoverKeeps ==
    ASSUME Gate!GateConstants, GateInv, NEW o \in Owners, Gate!Handover(o)
    PROVE  GateInv'
<1>1. CASE Gate!claim_completed_export(o)
  BY <1>1, RecoverKeeps
<1>2. CASE Gate!retire_source(o)
  <2>1. /\ gate' = [gate EXCEPT !.state = "migrated_out"]
        /\ handoff' = [pairing |-> o, reopened |-> FALSE]
        /\ handoff = Unused /\ gate.state = "quiesced"
        /\ UNCHANGED <<Gate!tenant, run, archive, target>>
    BY <1>2 DEF Gate!retire_source
  <2>2. /\ gate' \in Gate!GateRow /\ gate'.state = "migrated_out" /\ gate'.owner = gate.owner
        /\ gate'.token = gate.token
    BY <2>1, Typed DEF Gate!GateRow, Gate!Closed
  <2>3. handoff' \in Gate!HandoffRow
    BY <2>1 DEF Gate!HandoffRow
  <2>4. Gate!TypeOK'
    BY <2>1, <2>2, <2>3, Typed DEF GateInv, Gate!TypeOK, Gate!tenant
  <2>5. Shut' /\ TokensFenced' /\ Photographed' /\ Gate!SnapshotComplete'
    BY <2>1, <2>2 DEF GateInv, Gate!tenant, Shut, TokensFenced, Photographed, Gate!SnapshotComplete
  <2>6. Receipts'
    BY <2>1, <2>2 DEF GateInv, Receipts
  <2> QED
    BY <2>4, <2>5, <2>6 DEF GateInv
<1>3. ASSUME UNCHANGED <<gate, Gate!tenant, run, archive, handoff>>,
             target' \in [Owners -> {"none", "importing", "active", "aborted"}], Receipts'
      PROVE  GateInv'
  BY <1>3 DEF GateInv, Gate!TypeOK, Gate!tenant, Shut, TokensFenced, Photographed,
     Gate!SnapshotComplete
<1>4. CASE Gate!import_archive(o) \/ Gate!activate_target(o) \/ Gate!abort_target(o)
  <2>1. PICK to \in {"importing", "active", "aborted"} :
          /\ target' = [target EXCEPT ![o] = to]
          /\ target[o] \in {"none", "importing"}
          /\ to = "active" => handoff # Unused /\ handoff.pairing = o
          /\ UNCHANGED <<gate, Gate!tenant, run, archive, handoff>>
    BY <1>4 DEF Gate!import_archive, Gate!activate_target, Gate!abort_target,
       Gate!abort_target_when
  <2>2. target \in [Owners -> {"none", "importing", "active", "aborted"}]
    BY DEF GateInv, Gate!TypeOK
  <2>3. target' \in [Owners -> {"none", "importing", "active", "aborted"}]
    BY <2>1, <2>2
  <2>4. handoff # Unused => handoff.pairing \in Owners
    BY DEF GateInv, Gate!TypeOK, Gate!HandoffRow
  <2>5. Receipts'
    BY <2>1, <2>2, <2>4 DEF GateInv, Receipts
  <2> QED
    BY <1>3, <2>1, <2>3, <2>5
<1>5. CASE Gate!reopen_source(o)
  <2>1. /\ target[o] = "aborted" /\ handoff = [pairing |-> o, reopened |-> FALSE]
        /\ handoff' = [handoff EXCEPT !.reopened = TRUE] /\ gate' = Gate!_open
        /\ UNCHANGED <<Gate!tenant, run, archive, target>>
    BY <1>5 DEF Gate!reopen_source, Gate!reopen_when
  <2>2. handoff \in Gate!HandoffRow /\ handoff # Unused /\ handoff.pairing = o /\ ~handoff.reopened
    <3>1. handoff \in Gate!HandoffRow /\ handoff.pairing = o /\ ~handoff.reopened
      BY <2>1 DEF Gate!HandoffRow
    <3> QED
      BY <3>1 DEF Gate!GateConstants
  <2>3. gate.state = "migrated_out"
    BY <2>2 DEF GateInv, Receipts
  <2>4. /\ gate' \in Gate!GateRow /\ gate'.state = "open" /\ gate'.owner = Unused
        /\ gate'.token > gate.token
    BY <2>1, <2>3, Opened
  <2>5. handoff' \in Gate!HandoffRow /\ handoff'.pairing = o /\ handoff'.reopened
    BY <2>1, <2>2 DEF Gate!HandoffRow
  <2>6. Gate!TypeOK'
    BY <2>1, <2>4, <2>5, Typed DEF GateInv, Gate!TypeOK, Gate!tenant, Gate!GateRow,
       Gate!HandoffRow
  <2>7. gate.token \in Nat /\ gate'.token \in Nat
        /\ \A q \in Owners : run[q].token \in Nat
        /\ \A p \in Owners : archive[p] # Unused => archive[p].token \in Nat
    BY <2>4, Typed DEF Gate!GateConstants, Gate!GateRow, Gate!RunRow, Gate!ArchiveRow
  <2>8. TokensFenced'
    BY <2>1, <2>4, <2>7 DEF GateInv, TokensFenced
  <2>9. Shut' /\ Photographed' /\ Gate!SnapshotComplete'
    BY <2>1, <2>4 DEF GateInv, Shut, Photographed, Gate!SnapshotComplete
  <2>10. Receipts'
    BY <2>1, <2>2, <2>5 DEF GateInv, Receipts
  <2> QED
    BY <2>6, <2>8, <2>9, <2>10 DEF GateInv
<1> QED
  BY <1>1, <1>2, <1>4, <1>5 DEF Gate!Handover

LEMMA Passes == ASSUME NEW n \in Nat, NEW t \in 0..n PROVE Gate!Down(t) \in 0..n
BY DEF Gate!Down

LEMMA TickKeeps == ASSUME Gate!GateConstants, GateInv, Gate!Tick PROVE GateInv'
<1> DEFINE row == [gate EXCEPT !.lease = Gate!Down(@), !.drain = Gate!Down(@)]
           moved(o) == [run[o] EXCEPT !.lease = Gate!Down(@), !.drain = Gate!Down(@)]
<1>1. /\ gate' = row /\ run' = [o \in Owners |-> moved(o)]
      /\ urls' = [w \in Writers |-> Gate!Down(urls[w])]
      /\ UNCHANGED <<inside, archive, rows, files, target, handoff>>
  BY DEF Gate!Tick
<1>2. row \in Gate!GateRow /\ row.state = gate.state /\ row.owner = gate.owner
      /\ row.token = gate.token
  <2> DEFINE mid == [gate EXCEPT !.lease = Gate!Down(@)]
  <2>1. gate \in Gate!GateRow /\ Gate!Down(gate.lease) \in 0..Lease /\ Gate!Down(gate.drain) \in 0..UploadTTL
    BY Typed, Passes DEF Gate!GateRow, Gate!GateConstants
  <2>2. mid \in Gate!GateRow /\ mid.state = gate.state /\ mid.owner = gate.owner
        /\ mid.token = gate.token /\ mid.drain = gate.drain
    BY <2>1 DEF Gate!GateRow
  <2>3. row = [mid EXCEPT !.drain = Gate!Down(gate.drain)]
    BY <2>1 DEF Gate!GateRow
  <2> HIDE DEF row, mid
  <2> QED
    BY <2>1, <2>2, <2>3 DEF Gate!GateRow
<1>3. ASSUME NEW o \in Owners
      PROVE  moved(o) \in Gate!RunRow /\ moved(o).pc = run[o].pc /\ moved(o).token = run[o].token
  <2> DEFINE mid == [run[o] EXCEPT !.lease = Gate!Down(@)]
  <2>1. run[o] \in Gate!RunRow /\ Gate!Down(run[o].lease) \in 0..Lease /\ Gate!Down(run[o].drain) \in 0..UploadTTL
    BY Typed, Passes DEF Gate!RunRow, Gate!GateConstants
  <2>2. mid \in Gate!RunRow /\ mid.pc = run[o].pc /\ mid.token = run[o].token
        /\ mid.drain = run[o].drain
    BY <2>1 DEF Gate!RunRow
  <2>3. moved(o) = [mid EXCEPT !.drain = Gate!Down(run[o].drain)]
    BY <2>1 DEF Gate!RunRow
  <2> HIDE DEF moved, mid
  <2> QED
    BY <2>1, <2>2, <2>3 DEF Gate!RunRow
<1>4. urls' \in [Writers -> 0..UploadTTL]
  BY <1>1, Passes DEF GateInv, Gate!TypeOK, Gate!GateConstants
<1> HIDE DEF row, moved
<1>5. run' \in [Owners -> Gate!RunRow] /\ \A o \in Owners : run'[o].pc = run[o].pc
                                                     /\ run'[o].token = run[o].token
  BY <1>1, <1>3
<1>6. Gate!TypeOK'
  BY <1>1, <1>2, <1>4, <1>5 DEF GateInv, Gate!TypeOK, Gate!GateRow, Gate!RunRow
<1> QED
  BY <1>1, <1>2, <1>5, <1>6 DEF GateInv, Shut, TokensFenced, Photographed, Gate!SnapshotComplete,
     Receipts

LEMMA GateNext == Gate!GateConstants /\ GateInv /\ [Gate!Next]_Gate!vars => GateInv'
<1> SUFFICES ASSUME Gate!GateConstants, GateInv, [Gate!Next]_Gate!vars PROVE GateInv'
  OBVIOUS
<1>1. CASE UNCHANGED Gate!vars
  BY <1>1 DEF Gate!vars, Gate!tenant, GateInv, Gate!TypeOK, Shut, TokensFenced, Photographed,
     Gate!SnapshotComplete, Receipts
<1>2. CASE Gate!Next
  BY <1>2, WriterKeeps, OwnerKeeps, HandoverKeeps, RecoverKeeps, TickKeeps DEF Gate!Next
<1> QED
  BY <1>1, <1>2

(* The gate, the processes and the receipts keep their types and agree     *)
(* with one another, through every crash and lost lease (source_gate.py,   *)
(* cutover.py, target_cutover.py).                                         *)
THEOREM GateCorrect == Spec => [](part = "gate" => GateInv)
<1>1. Init => (part = "gate" => GateInv)
  BY GateInit, GateAssumption DEF Init
<1>2. (part = "gate" => GateInv) /\ [Next]_vars => (part = "gate" => GateInv)'
  BY GateNext, PartStep, GateAssumption
<1> QED
  BY <1>1, <1>2, PTL DEF Spec

(* The archive of a gate's owner holds all the rows the source has, and    *)
(* while a target takes writes the source takes none (quiesced_snapshot,   *)
(* boundary_tenant_write, retire_source, activate_target, reopen_source).  *)
THEOREM HandedOverSafely == Spec => []HandoverSafe
<1>1. (part = "gate" => GateInv) => HandoverSafe
  BY DEF GateInv, HandoverSafe, Gate!HandoverSafe, Gate!OneHome, Receipts, Shut
<1> QED
  BY <1>1, GateCorrect, PTL

-----------------------------------------------------------------------------
(* The restore of a deployment.                                            *)

(* A phase whose effect has happened, whether its "done" line is written.  *)
Reached(k) == ledger.done >= k \/ (ledger.done + 1 = k /\ coordinator = "acted")

Resting == {"down", "rolling", "reversed"}

(* What the coordinator does belongs to the phase it is at; a run that was *)
(* refused or is being rolled back does not go on.                         *)
InPhase ==
    /\ coordinator \notin Resting \cup {"ready"} => ledger.begun
    /\ ledger.begun => ledger.done < 21
    /\ coordinator \in {"intended", "created", "allocated"} => ledger.done \in {3, 4}
    /\ coordinator \in {"bound", "restoring"} => ledger.done = 4
    /\ coordinator \in {"armed", "launching"} => ledger.done = 13
    /\ coordinator \in {"rolling", "reversed"} => rollback = "begun"
    /\ rollback # "none" => coordinator \in Resting /\ ledger.done >= 16
    /\ refused # "no" => coordinator \in Resting
    /\ refused \in {"unverified", "unacknowledged"} => ~ledger.begun

(* The sibling of a phase: the run's own, restored, fenced, verified and   *)
(* acknowledged; only a refusal stands in for an answer.                   *)
SiblingProven ==
    /\ coordinator = "allocated" => sibling.owned
    /\ ledger.done = 3 /\ coordinator = "acted" => sibling.owned
    /\ ledger.done = 4 /\ (~ledger.begun \/ coordinator \in {"begun", "bound", "restoring", "acted"})
          => sibling.owned
    /\ ledger.done >= 5 => sibling.owned
    /\ Reached(9) => sibling.stage >= 7
    /\ Reached(15) => sibling.stage = 8 \/ (refused = "unverified" /\ ledger.done = 15)
    /\ Reached(18) => sibling.normal \/ (refused = "unacknowledged" /\ ledger.done = 18)

(* The pointer moves once to the sibling and once back, a generation each. *)
Unmoved == [to |-> Restoring!Old, generation |-> ledger.generation]
Moved == [to |-> sibling.oid, generation |-> ledger.generation + 1]
MovedBack == [to |-> Restoring!Old, generation |-> ledger.generation + 2]

PointerMoves ==
    /\ ledger.done < 15 => pointer.to = Restoring!Old
    /\ Reached(1) /\ (ledger.done < 15 \/ (ledger.done = 15 /\ ~ledger.begun)) => pointer = Unmoved
    /\ ledger.done >= 16 \/ (ledger.done = 15 /\ ledger.begun) =>
          ledger.target = sibling.oid /\ ledger.old_generation = ledger.generation
    /\ ledger.done = 15 /\ ledger.begun => pointer \in {Unmoved, Moved}
    /\ Reached(16) /\ rollback = "none" => pointer = Moved
    /\ rollback = "begun" => pointer \in {Moved, MovedBack}
    /\ coordinator = "reversed" \/ rollback = "done" => pointer = MovedBack

(* The bucket holds what it held and what the run brought.                 *)
BucketKept ==
    /\ ledger.done < 9 \/ (ledger.done = 9 /\ ~ledger.begun) => bucket = before
    /\ ledger.done >= 10 \/ (ledger.done = 9 /\ ledger.begun) => ledger.created = Objects \ before
    /\ before \subseteq bucket
    /\ Reached(10) /\ rollback = "none" => Objects \subseteq bucket
    /\ rollback = "done" => bucket = before

(* Ordinary processes are out from their exclusion to the normal marker.   *)
WritersOut ==
    /\ ledger.done = 2 /\ coordinator = "acted" => writers = {}
    /\ writers # {} /\ rollback = "none" =>
          (ledger.done <= 2 /\ writers = {Restoring!Old}) \/ (ledger.done >= 19 /\ writers = {sibling.oid})
    /\ Reached(19) => host_marker = [state |-> "normal", oid |-> sibling.oid]

(* A capability is out, and a candidate in, only in the phases for them.   *)
InTheirPhases ==
    /\ journal # "empty" => ledger.done >= 12
    /\ candidate # Restoring!None => ledger.done >= 13

Course == /\ InPhase /\ SiblingProven /\ PointerMoves /\ BucketKept
          /\ WritersOut /\ InTheirPhases /\ Restoring!CapabilityFenced

RestoreInv == Restoring!TypeOK /\ Course

-----------------------------------------------------------------------------
(* The phases and stages by number.                                        *)
LEMMA PhaseNumbers ==
    /\ Len(Restoring!PHASES) = 21 /\ Len(Restoring!Stages) = 8
    /\ Restoring!Index("static-preflight") = 1
    /\ Restoring!Index("persist-offline") = 2
    /\ Restoring!Index("exclude-writers") = 3
    /\ Restoring!Index("sibling-allocation") = 4
    /\ Restoring!Index("database-restore") = 5
    /\ Restoring!Index("roles-and-grants") = 6
    /\ Restoring!Index("rehydrate") = 7
    /\ Restoring!Index("install-fences") = 8
    /\ Restoring!Index("verify-catalog") = 9
    /\ Restoring!Index("restore-main-objects") = 10
    /\ Restoring!Index("prepare-quarantine-readiness") = 11
    /\ Restoring!Index("candidate-health-marker") = 12
    /\ Restoring!Index("arm-candidate-capability") = 13
    /\ Restoring!Index("start-candidate-backend") = 14
    /\ Restoring!Index("verify-quarantine") = 15
    /\ Restoring!Index("cutover") = 16
    /\ Restoring!Index("quarantine-marker-and-grants") = 17
    /\ Restoring!Index("recovery-acknowledgement") = 18
    /\ Restoring!Index("normal-marker") = 19
    /\ Restoring!Index("start-normal-writers") = 20
    /\ Restoring!Index("finalize") = 21
    /\ Restoring!Rank("empty") = 2
    /\ Restoring!Rank("partial") = 3
    /\ Restoring!Rank("restored") = 4
    /\ Restoring!Rank("rehydrated") = 5
    /\ Restoring!Rank("fenced") = 6
    /\ Restoring!Rank("catalogued") = 7
    /\ Restoring!Rank("ready") = 8
<1>1. Len(Restoring!PHASES) = 21 /\ Len(Restoring!Stages) = 8
  BY DEF Restoring!PHASES, Restoring!Stages
<1> QED
  BY <1>1 DEF Restoring!Index, Restoring!Rank, Restoring!PHASES, Restoring!Stages

LEMMA RestoreInit == ASSUME MaxInterruptions \in Nat PROVE Restoring!Init => RestoreInv
BY PhaseNumbers DEF Restoring!Init, RestoreInv, Restoring!TypeOK, Restoring!LedgerRow,
   Restoring!SiblingRow, Restoring!MarkerRow, Course, InPhase, Resting, SiblingProven, Reached,
   PointerMoves, Unmoved, Moved, MovedBack, BucketKept, WritersOut, InTheirPhases,
   Restoring!CapabilityFenced, Restoring!Old, Restoring!None, Restoring!Starting

(* A line of the ledger keeps its type.                                    *)
LEMMA LineBegun ==
    ASSUME NEW row \in Restoring!LedgerRow
    PROVE  /\ [row EXCEPT !.begun = TRUE] \in Restoring!LedgerRow
           /\ \A o \in SUBSET Objects : [row EXCEPT !.begun = TRUE, !.created = o] \in Restoring!LedgerRow
           /\ \A t \in Int, g \in Nat :
                [row EXCEPT !.begun = TRUE, !.target = t, !.old_generation = g] \in Restoring!LedgerRow
<1>1. [row EXCEPT !.begun = TRUE] \in Restoring!LedgerRow
  BY DEF Restoring!LedgerRow
<1> DEFINE mid == [row EXCEPT !.begun = TRUE]
<1> HIDE DEF mid
<1>2. \A o \in SUBSET Objects : [mid EXCEPT !.created = o] \in Restoring!LedgerRow
  BY <1>1 DEF Restoring!LedgerRow, mid
<1>3. ASSUME NEW t \in Int, NEW g \in Nat
      PROVE  [mid EXCEPT !.target = t, !.old_generation = g] \in Restoring!LedgerRow
  <2>1. [mid EXCEPT !.target = t] \in Restoring!LedgerRow
    BY <1>1 DEF Restoring!LedgerRow, mid
  <2> DEFINE last == [mid EXCEPT !.target = t]
  <2> HIDE DEF last
  <2>2. [last EXCEPT !.old_generation = g] \in Restoring!LedgerRow
    BY <2>1 DEF Restoring!LedgerRow, last
  <2> QED
    BY <2>2 DEF last
<1> QED
  BY <1>1, <1>2, <1>3 DEF mid

LEMMA LineDone ==
    ASSUME NEW row \in Restoring!LedgerRow, row.done < 21
    PROVE  /\ [row EXCEPT !.done = @ + 1, !.begun = FALSE] \in Restoring!LedgerRow
           /\ \A a \in Int : [row EXCEPT !.done = @ + 1, !.begun = FALSE, !.allocated = a]
                               \in Restoring!LedgerRow
<1> DEFINE first == [row EXCEPT !.done = @ + 1]
<1>1. first \in Restoring!LedgerRow
  BY PhaseNumbers DEF Restoring!LedgerRow
<1> HIDE DEF first
<1>2. [first EXCEPT !.begun = FALSE] \in Restoring!LedgerRow
  BY <1>1 DEF Restoring!LedgerRow
<1> DEFINE mid == [first EXCEPT !.begun = FALSE]
<1> HIDE DEF mid
<1>3. \A a \in Int : [mid EXCEPT !.allocated = a] \in Restoring!LedgerRow
  BY <1>2 DEF Restoring!LedgerRow, mid
<1> QED
  BY <1>2, <1>3 DEF first, mid

(* The lines of the ledger, and the effects that change nothing else.      *)
LEMMA LedgerKeeps ==
    ASSUME MaxInterruptions \in Nat, RestoreInv,
           Restoring!begin \/ Restoring!finish \/ Restoring!begin_restore \/ Restoring!interrupted \/ Restoring!static_preflight \/
           Restoring!Plain \/ Restoring!finalize \/ Restoring!Launched \/ Restoring!Invalidates
    PROVE  RestoreInv'
<1> USE PhaseNumbers DEF RestoreInv, Restoring!At, Restoring!Acts, Restoring!acted,
        Restoring!untouched, Restoring!host, Restoring!data, Restoring!bound,
        Restoring!done_detail, Restoring!Old, Restoring!None, Restoring!Starting,
        Restoring!TypeOK, Restoring!LedgerRow, Restoring!SiblingRow, Restoring!MarkerRow,
        Course, InPhase, Resting, SiblingProven, Reached, PointerMoves, Unmoved, Moved,
        MovedBack, BucketKept, WritersOut, InTheirPhases, Restoring!CapabilityFenced
<1>1. CASE Restoring!begin
  <2>1. Restoring!TypeOK'
    <3>1. ledger \in Restoring!LedgerRow /\ sibling.oid \in Int /\ pointer.generation \in Nat
      OBVIOUS
    <3>2. ledger' \in Restoring!LedgerRow
      BY <1>1, <3>1, LineBegun, ZenonT(60) DEF Restoring!begin
    <3> QED
      BY <1>1, <3>2 DEF Restoring!begin
  <2>2. Course'
    BY <1>1 DEF Restoring!begin
  <2> QED
    BY <2>1, <2>2 DEF RestoreInv
<1>2. CASE Restoring!finish
  <2>1. Restoring!TypeOK'
    <3>1. ledger \in Restoring!LedgerRow /\ sibling.oid \in Int /\ ledger.allocated \in Int
      OBVIOUS
    <3>2. ledger.done < 21
      BY <1>2 DEF Restoring!finish
    <3>3. ledger' \in Restoring!LedgerRow
      BY <1>2, <3>1, <3>2, LineDone, ZenonT(60) DEF Restoring!finish
    <3> QED
      BY <1>2, <3>3 DEF Restoring!finish
  <2>2. Course'
    BY <1>2 DEF Restoring!finish
  <2> QED
    BY <2>1, <2>2 DEF RestoreInv
<1>3. CASE Restoring!begin_restore
  <2>1. Restoring!TypeOK'
    <3>1. ledger' \in Restoring!LedgerRow
      BY <1>3, LineBegun DEF Restoring!begin_restore
    <3> QED
      BY <1>3, <3>1 DEF Restoring!begin_restore
  <2>2. Course'
    BY <1>3 DEF Restoring!begin_restore
  <2> QED
    BY <2>1, <2>2 DEF RestoreInv
<1>4. CASE Restoring!interrupted
  <2>1. Restoring!TypeOK'
    BY <1>4 DEF Restoring!interrupted
  <2>2. Course'
    BY <1>4 DEF Restoring!interrupted
  <2> QED
    BY <2>1, <2>2 DEF RestoreInv
<1>5. CASE Restoring!static_preflight
  <2>1. Restoring!TypeOK'
    BY <1>5 DEF Restoring!static_preflight
  <2>2. Course'
    BY <1>5 DEF Restoring!static_preflight
  <2> QED
    BY <2>1, <2>2 DEF RestoreInv
<1>6. CASE Restoring!Plain
  <2>1. Restoring!TypeOK'
    BY <1>6 DEF Restoring!Plain
  <2>2. Course'
    BY <1>6 DEF Restoring!Plain
  <2> QED
    BY <2>1, <2>2 DEF RestoreInv
<1>7. CASE Restoring!finalize
  <2>1. Restoring!TypeOK'
    BY <1>7 DEF Restoring!finalize
  <2>2. Course'
    BY <1>7 DEF Restoring!finalize
  <2> QED
    BY <2>1, <2>2 DEF RestoreInv
<1>8. CASE Restoring!Launched
  <2>1. Restoring!TypeOK'
    BY <1>8 DEF Restoring!Launched
  <2>2. Course'
    BY <1>8 DEF Restoring!Launched
  <2> QED
    BY <2>1, <2>2 DEF RestoreInv
<1>9. CASE Restoring!Invalidates
  <2>1. Restoring!TypeOK'
    BY <1>9 DEF Restoring!Invalidates
  <2>2. Course'
    BY <1>9 DEF Restoring!Invalidates
  <2> QED
    BY <2>1, <2>2 DEF RestoreInv
<1> QED
  BY <1>1, <1>2, <1>3, <1>4, <1>5, <1>6, <1>7, <1>8, <1>9

(* The sibling is created anew only while it is still being restored, and  *)
(* from then on its stage only rises.                                      *)
LEMMA SiblingKeeps ==
    ASSUME MaxInterruptions \in Nat, RestoreInv,
           Restoring!write_intent \/ Restoring!allocate \/ Restoring!owner_marker \/ Restoring!bind_database \/ Restoring!restore \/
           Restoring!rehydrate_pre_cutover_state \/ Restoring!install_manifest_enforcement \/
           Restoring!verify_pre_cutover_state
    PROVE  RestoreInv'
<1> USE PhaseNumbers DEF RestoreInv, Restoring!At, Restoring!Acts, Restoring!acted,
        Restoring!untouched, Restoring!host, Restoring!data, Restoring!bound,
        Restoring!done_detail, Restoring!Old, Restoring!None, Restoring!Starting,
        Restoring!TypeOK, Restoring!LedgerRow, Restoring!SiblingRow, Restoring!MarkerRow,
        Course, InPhase, Resting, SiblingProven, Reached, PointerMoves, Unmoved, Moved,
        MovedBack, BucketKept, WritersOut, InTheirPhases, Restoring!CapabilityFenced
<1>1. CASE Restoring!write_intent
  <2>1. Restoring!TypeOK'
    BY <1>1 DEF Restoring!write_intent, Restoring!_replace
  <2>2. Course'
    BY <1>1 DEF Restoring!write_intent, Restoring!_replace
  <2> QED
    BY <2>1, <2>2 DEF RestoreInv
<1>2. CASE Restoring!allocate
  <2>1. Restoring!TypeOK'
    <3>1. sibling \in Restoring!SiblingRow /\ sibling.oid + 1 \in Nat
      OBVIOUS
    <3>2. [oid |-> sibling.oid + 1, stage |-> Restoring!Rank("empty"), owned |-> FALSE, normal |-> FALSE]
             \in Restoring!SiblingRow
      BY <3>1
    <3>3. \/ sibling' = sibling
          \/ sibling' = [oid |-> sibling.oid + 1, stage |-> Restoring!Rank("empty"),
                         owned |-> FALSE, normal |-> FALSE]
      BY <1>2 DEF Restoring!allocate
    <3>4. sibling' \in Restoring!SiblingRow
      BY <3>1, <3>2, <3>3
    <3> QED
      BY <1>2, <3>4 DEF Restoring!allocate
  <2>2. Course'
    BY <1>2 DEF Restoring!allocate
  <2> QED
    BY <2>1, <2>2 DEF RestoreInv
<1>3. CASE Restoring!owner_marker
  <2>1. Restoring!TypeOK'
    BY <1>3, ZenonT(60) DEF Restoring!owner_marker
  <2>2. Course'
    BY <1>3 DEF Restoring!owner_marker
  <2> QED
    BY <2>1, <2>2 DEF RestoreInv
<1>4. CASE Restoring!bind_database
  <2>1. Restoring!TypeOK'
    BY <1>4 DEF Restoring!bind_database, Restoring!_replace
  <2>2. Course'
    BY <1>4 DEF Restoring!bind_database, Restoring!_replace
  <2> QED
    BY <2>1, <2>2 DEF RestoreInv
<1>5. CASE Restoring!restore
  <2>1. Restoring!TypeOK'
    BY <1>5 DEF Restoring!restore
  <2>2. Course'
    BY <1>5 DEF Restoring!restore
  <2> QED
    BY <2>1, <2>2 DEF RestoreInv
<1>6. CASE Restoring!rehydrate_pre_cutover_state
  <2>1. Restoring!TypeOK'
    BY <1>6 DEF Restoring!rehydrate_pre_cutover_state, Restoring!_advance, Restoring!TypeOK,
       Restoring!LedgerRow, Restoring!SiblingRow, Restoring!MarkerRow
  <2>2. Course'
    BY <1>6 DEF Restoring!rehydrate_pre_cutover_state, Restoring!_advance
  <2> QED
    BY <2>1, <2>2 DEF RestoreInv
<1>7. CASE Restoring!install_manifest_enforcement
  <2>1. Restoring!TypeOK'
    BY <1>7 DEF Restoring!install_manifest_enforcement, Restoring!_advance, Restoring!TypeOK,
       Restoring!LedgerRow, Restoring!SiblingRow, Restoring!MarkerRow
  <2>2. Course'
    BY <1>7 DEF Restoring!install_manifest_enforcement, Restoring!_advance
  <2> QED
    BY <2>1, <2>2 DEF RestoreInv
<1>8. CASE Restoring!verify_pre_cutover_state
  <2>1. Restoring!TypeOK'
    BY <1>8 DEF Restoring!verify_pre_cutover_state, Restoring!_advance, Restoring!TypeOK,
       Restoring!LedgerRow, Restoring!SiblingRow, Restoring!MarkerRow
  <2>2. Course'
    BY <1>8 DEF Restoring!verify_pre_cutover_state, Restoring!_advance
  <2> QED
    BY <2>1, <2>2 DEF RestoreInv
<1> QED
  BY <1>1, <1>2, <1>3, <1>4, <1>5, <1>6, <1>7, <1>8

(* The bucket is filled, and one capability lets one candidate onto the    *)
(* sibling.                                                                *)
LEMMA CandidateKeeps ==
    ASSUME MaxInterruptions \in Nat, RestoreInv,
           Restoring!restore_main \/ Restoring!candidate_health_marker \/ Restoring!arm_candidate_capability \/
           Restoring!start_candidate_backend \/ Restoring!handle_connection \/ Restoring!invalidate_expired
    PROVE  RestoreInv'
<1> USE PhaseNumbers DEF RestoreInv, Restoring!At, Restoring!Acts, Restoring!acted,
        Restoring!untouched, Restoring!host, Restoring!data, Restoring!bound,
        Restoring!done_detail, Restoring!Old, Restoring!None, Restoring!Starting,
        Restoring!TypeOK, Restoring!LedgerRow, Restoring!SiblingRow, Restoring!MarkerRow,
        Course, InPhase, Resting, SiblingProven, Reached, PointerMoves, Unmoved, Moved,
        MovedBack, BucketKept, WritersOut, InTheirPhases, Restoring!CapabilityFenced
<1>1. CASE Restoring!restore_main
  <2>1. Restoring!TypeOK'
    BY <1>1 DEF Restoring!restore_main
  <2>2. Course'
    BY <1>1 DEF Restoring!restore_main
  <2> QED
    BY <2>1, <2>2 DEF RestoreInv
<1>2. CASE Restoring!candidate_health_marker
  <2>1. Restoring!TypeOK'
    BY <1>2 DEF Restoring!candidate_health_marker, Restoring!transition_bound,
       Restoring!_replace, Restoring!TypeOK, Restoring!LedgerRow, Restoring!SiblingRow,
       Restoring!MarkerRow
  <2>2. Course'
    BY <1>2 DEF Restoring!candidate_health_marker, Restoring!transition_bound,
       Restoring!_replace
  <2> QED
    BY <2>1, <2>2 DEF RestoreInv
<1>3. CASE Restoring!arm_candidate_capability
  <2>1. Restoring!TypeOK'
    BY <1>3 DEF Restoring!arm_candidate_capability
  <2>2. Course'
    BY <1>3 DEF Restoring!arm_candidate_capability
  <2> QED
    BY <2>1, <2>2 DEF RestoreInv
<1>4. CASE Restoring!start_candidate_backend
  <2>1. Restoring!TypeOK'
    BY <1>4 DEF Restoring!start_candidate_backend
  <2>2. Course'
    BY <1>4 DEF Restoring!start_candidate_backend
  <2> QED
    BY <2>1, <2>2 DEF RestoreInv
<1>5. CASE Restoring!handle_connection
  <2>1. Restoring!TypeOK'
    BY <1>5 DEF Restoring!handle_connection
  <2>2. Course'
    BY <1>5 DEF Restoring!handle_connection
  <2> QED
    BY <2>1, <2>2 DEF RestoreInv
<1>6. CASE Restoring!invalidate_expired
  <2>1. Restoring!TypeOK'
    BY <1>6 DEF Restoring!invalidate_expired
  <2>2. Course'
    BY <1>6 DEF Restoring!invalidate_expired
  <2> QED
    BY <2>1, <2>2 DEF RestoreInv
<1> QED
  BY <1>1, <1>2, <1>3, <1>4, <1>5, <1>6

(* The pointer moves, writers follow it, and a rollback takes both back.   *)
LEMMA CutoverKeeps ==
    ASSUME MaxInterruptions \in Nat, RestoreInv,
           Restoring!journalled_cutover \/ Restoring!quarantine_after_cutover \/ Restoring!normal_marker \/
           Restoring!start_normal \/ Restoring!rollback_cutover \/ Restoring!reverse_effects
    PROVE  RestoreInv'
<1> USE PhaseNumbers DEF RestoreInv, Restoring!At, Restoring!Acts, Restoring!acted,
        Restoring!untouched, Restoring!host, Restoring!data, Restoring!bound,
        Restoring!done_detail, Restoring!Old, Restoring!None, Restoring!Starting,
        Restoring!TypeOK, Restoring!LedgerRow, Restoring!SiblingRow, Restoring!MarkerRow,
        Course, InPhase, Resting, SiblingProven, Reached, PointerMoves, Unmoved, Moved,
        MovedBack, BucketKept, WritersOut, InTheirPhases, Restoring!CapabilityFenced
<1>1. CASE Restoring!journalled_cutover
  <2>1. Restoring!TypeOK'
    BY <1>1 DEF Restoring!journalled_cutover, Restoring!write_pointer_atomic, Restoring!TypeOK,
       Restoring!LedgerRow, Restoring!SiblingRow, Restoring!MarkerRow
  <2>2. Course'
    BY <1>1 DEF Restoring!journalled_cutover, Restoring!write_pointer_atomic
  <2> QED
    BY <2>1, <2>2 DEF RestoreInv
<1>2. CASE Restoring!quarantine_after_cutover
  <2>1. Restoring!TypeOK'
    BY <1>2 DEF Restoring!quarantine_after_cutover, Restoring!transition_bound,
       Restoring!_replace, Restoring!TypeOK, Restoring!LedgerRow, Restoring!SiblingRow,
       Restoring!MarkerRow
  <2>2. Course'
    BY <1>2 DEF Restoring!quarantine_after_cutover, Restoring!transition_bound,
       Restoring!_replace
  <2> QED
    BY <2>1, <2>2 DEF RestoreInv
<1>3. CASE Restoring!normal_marker
  <2>1. Restoring!TypeOK'
    BY <1>3 DEF Restoring!normal_marker, Restoring!transition_bound, Restoring!_replace,
       Restoring!TypeOK, Restoring!LedgerRow, Restoring!SiblingRow, Restoring!MarkerRow
  <2>2. Course'
    BY <1>3 DEF Restoring!normal_marker, Restoring!transition_bound, Restoring!_replace
  <2> QED
    BY <2>1, <2>2 DEF RestoreInv
<1>4. CASE Restoring!start_normal
  <2>1. Restoring!TypeOK'
    BY <1>4 DEF Restoring!start_normal
  <2>2. Course'
    BY <1>4 DEF Restoring!start_normal
  <2> QED
    BY <2>1, <2>2 DEF RestoreInv
<1>5. CASE Restoring!rollback_cutover
  <2>1. Restoring!TypeOK'
    BY <1>5 DEF Restoring!rollback_cutover, Restoring!write_pointer_atomic, Restoring!TypeOK,
       Restoring!LedgerRow, Restoring!SiblingRow, Restoring!MarkerRow
  <2>2. Course'
    BY <1>5 DEF Restoring!rollback_cutover, Restoring!write_pointer_atomic
  <2> QED
    BY <2>1, <2>2 DEF RestoreInv
<1>6. CASE Restoring!reverse_effects
  <2>1. Restoring!TypeOK'
    BY <1>6 DEF Restoring!reverse_effects
  <2>2. Course'
    <3>1. ledger.done >= 16 /\ ledger.created = Objects \ before /\ before \subseteq bucket
          /\ bucket \subseteq Objects /\ rollback = "begun"
      BY <1>6 DEF Restoring!reverse_effects
    <3>2. before \subseteq bucket' /\ (rollback' = "done" => bucket' = before)
      BY <1>6, <3>1, ZenonT(60) DEF Restoring!reverse_effects
    <3>3. BucketKept'
      BY <1>6, <3>1, <3>2 DEF Restoring!reverse_effects
    <3>4. (InPhase /\ SiblingProven /\ PointerMoves)'
      BY <1>6 DEF Restoring!reverse_effects
    <3>5. (WritersOut /\ InTheirPhases /\ Restoring!CapabilityFenced)'
      BY <1>6 DEF Restoring!reverse_effects
    <3> QED
      BY <3>3, <3>4, <3>5 DEF Course
  <2> QED
    BY <2>1, <2>2 DEF RestoreInv
<1> QED
  BY <1>1, <1>2, <1>3, <1>4, <1>5, <1>6

(* The run dies, is stopped, started again or turned round.                *)
LEMMA StartKeeps ==
    ASSUME MaxInterruptions \in Nat, RestoreInv,
           Restoring!exclude \/ Restoring!run_compound_restore \/ Restoring!OperatorStops \/ Restoring!Crash \/
           Restoring!rollback_compound_restore
    PROVE  RestoreInv'
<1> USE PhaseNumbers DEF RestoreInv, Restoring!At, Restoring!Acts, Restoring!acted,
        Restoring!untouched, Restoring!host, Restoring!data, Restoring!bound,
        Restoring!done_detail, Restoring!Old, Restoring!None, Restoring!Starting,
        Restoring!TypeOK, Restoring!LedgerRow, Restoring!SiblingRow, Restoring!MarkerRow,
        Course, InPhase, Resting, SiblingProven, Reached, PointerMoves, Unmoved, Moved,
        MovedBack, BucketKept, WritersOut, InTheirPhases, Restoring!CapabilityFenced
<1>1. CASE Restoring!exclude
  <2>1. Restoring!TypeOK'
    BY <1>1 DEF Restoring!exclude
  <2>2. Course'
    BY <1>1 DEF Restoring!exclude
  <2> QED
    BY <2>1, <2>2 DEF RestoreInv
<1>2. CASE Restoring!run_compound_restore
  <2>1. Restoring!TypeOK'
    BY <1>2 DEF Restoring!run_compound_restore
  <2>2. Course'
    BY <1>2 DEF Restoring!run_compound_restore
  <2> QED
    BY <2>1, <2>2 DEF RestoreInv
<1>3. CASE Restoring!OperatorStops
  <2>1. Restoring!TypeOK'
    BY <1>3 DEF Restoring!OperatorStops
  <2>2. Course'
    BY <1>3 DEF Restoring!OperatorStops
  <2> QED
    BY <2>1, <2>2 DEF RestoreInv
<1>4. CASE Restoring!Crash
  <2>1. Restoring!TypeOK'
    BY <1>4 DEF Restoring!Crash
  <2>2. Course'
    BY <1>4 DEF Restoring!Crash
  <2> QED
    BY <2>1, <2>2 DEF RestoreInv
<1>5. CASE Restoring!rollback_compound_restore
  <2>1. Restoring!TypeOK'
    BY <1>5 DEF Restoring!rollback_compound_restore
  <2>2. Course'
    BY <1>5 DEF Restoring!rollback_compound_restore
  <2> QED
    BY <2>1, <2>2 DEF RestoreInv
<1> QED
  BY <1>1, <1>2, <1>3, <1>4, <1>5

(* A probe that says yes leaves the answer in the sibling; one that says   *)
(* no ends the run.                                                        *)
LEMMA AnswersKeep ==
    ASSUME MaxInterruptions \in Nat, RestoreInv, Restoring!verify_quarantine \/ Restoring!acknowledge_recovery
    PROVE  RestoreInv'
<1> USE PhaseNumbers DEF RestoreInv, Restoring!At, Restoring!Acts, Restoring!acted,
        Restoring!untouched, Restoring!host, Restoring!data, Restoring!bound,
        Restoring!done_detail, Restoring!Old, Restoring!None, Restoring!Starting,
        Restoring!TypeOK, Restoring!LedgerRow, Restoring!SiblingRow, Restoring!MarkerRow,
        Course, InPhase, Resting, SiblingProven, Reached, PointerMoves, Unmoved, Moved,
        MovedBack, BucketKept, WritersOut, InTheirPhases, Restoring!CapabilityFenced
<1>1. ASSUME Restoring!verify_quarantine, Restoring!acted PROVE RestoreInv'
  <2>1. /\ sibling' = [sibling EXCEPT !.stage = 8] /\ sibling.stage >= 7
        /\ ledger.done = 14 /\ coordinator \in {"begun", "resumed"}
        /\ UNCHANGED <<ledger, bucket, Restoring!host, rollback, Restoring!bound>>
    BY <1>1 DEF Restoring!verify_quarantine, Restoring!Answered
  <2>2. Restoring!TypeOK'
    BY <1>1, <2>1
  <2>3. Course'
    BY <1>1, <2>1
  <2> QED
    BY <2>2, <2>3
<1>2. ASSUME Restoring!acknowledge_recovery, Restoring!acted PROVE RestoreInv'
  <2>1. /\ sibling' = [sibling EXCEPT !.normal = TRUE]
        /\ ledger.done = 17 /\ coordinator \in {"begun", "resumed"}
        /\ UNCHANGED <<ledger, bucket, Restoring!host, rollback, Restoring!bound>>
    BY <1>2 DEF Restoring!acknowledge_recovery, Restoring!Answered
  <2>2. Restoring!TypeOK'
    BY <1>2, <2>1, ZenonT(60)
  <2>3. Course'
    BY <1>2, <2>1
  <2> QED
    BY <2>2, <2>3
<1>3. ASSUME NEW why, ~Restoring!acted,
             \/ Restoring!verify_quarantine /\ why = "unverified"
             \/ Restoring!acknowledge_recovery /\ why = "unacknowledged"
      PROVE  RestoreInv'
  <2>1. /\ ledger' = [ledger EXCEPT !.done = @ + 1, !.begun = FALSE]
        /\ coordinator' = "down" /\ refused' = why
        /\ interruptions' = interruptions + 1 /\ interruptions < MaxInterruptions
        /\ UNCHANGED <<sibling, bucket, Restoring!host, rollback, before>>
        /\ coordinator \in {"begun", "resumed"}
        /\ \/ ledger.done = 14 /\ why = "unverified"
           \/ ledger.done = 17 /\ why = "unacknowledged"
    BY <1>3 DEF Restoring!verify_quarantine, Restoring!acknowledge_recovery, Restoring!Answered
  <2>2. ledger' \in Restoring!LedgerRow
    BY <2>1, LineDone
  <2>3. Restoring!TypeOK'
    BY <2>1, <2>2
  <2>4. Course'
    BY <2>1
  <2> QED
    BY <2>3, <2>4
<1> HIDE PhaseNumbers DEF RestoreInv, Restoring!At, Restoring!Acts, Restoring!acted,
        Restoring!untouched, Restoring!host, Restoring!data, Restoring!bound,
        Restoring!done_detail, Restoring!Old, Restoring!None, Restoring!Starting,
        Restoring!TypeOK, Restoring!LedgerRow, Restoring!SiblingRow, Restoring!MarkerRow,
        Course, InPhase, Resting, SiblingProven, Reached, PointerMoves, Unmoved, Moved,
        MovedBack, BucketKept, WritersOut, InTheirPhases, Restoring!CapabilityFenced
<1>4. CASE Restoring!verify_quarantine
  BY <1>1, <1>3, <1>4
<1>5. CASE Restoring!acknowledge_recovery
  BY <1>2, <1>3, <1>5
<1> QED
  BY <1>4, <1>5

LEMMA RestoreNext ==
    MaxInterruptions \in Nat /\ RestoreInv /\ [Restoring!Next]_Restoring!vars => RestoreInv'
<1> SUFFICES ASSUME MaxInterruptions \in Nat, RestoreInv, [Restoring!Next]_Restoring!vars PROVE RestoreInv'
  OBVIOUS
<1>1. CASE UNCHANGED Restoring!vars
  BY <1>1 DEF Restoring!vars, RestoreInv, Restoring!TypeOK, Course, InPhase, SiblingProven,
     Reached, PointerMoves, Unmoved, Moved, MovedBack, BucketKept, WritersOut, InTheirPhases,
     Restoring!CapabilityFenced
<1>2. CASE Restoring!Next
  BY <1>2, LedgerKeeps, SiblingKeeps, CandidateKeeps, CutoverKeeps, StartKeeps, AnswersKeep
     DEF Restoring!Next, Restoring!CoordinatorStep
<1> QED
  BY <1>1, <1>2

(* The ledger, the sibling, the pointer, the bucket and the host's files   *)
(* keep their types and agree, however often the run dies and is run       *)
(* again (compound_restore_coordinator.py, host_supervisor.py).            *)
THEOREM RestoreCorrect == Spec => [](part = "restoring" => RestoreInv)
<1>1. Init => (part = "restoring" => RestoreInv)
  BY RestoreInit, RestoreAssumption DEF Init
<1>2. (part = "restoring" => RestoreInv) /\ [Next]_vars => (part = "restoring" => RestoreInv)'
  BY RestoreNext, PartStep, RestoreAssumption
<1> QED
  BY <1>1, <1>2, PTL DEF Spec

(* The pointer moves only to a proven sibling with the archive's objects,  *)
(* writers follow the pointer and an acknowledged recovery, a capability   *)
(* lets a candidate only onto the sibling, and a finished rollback leaves  *)
(* pointer and bucket as they were (compound_restore_cutover.py,           *)
(* compound_restore_state.py, host_capability_journal.py).                 *)
THEOREM RestoreCutsOverSafely == Spec => []CutoverFenced
<1>1. (part = "restoring" => RestoreInv) => CutoverFenced
  <2> SUFFICES ASSUME RestoreInv, part = "restoring" PROVE Restoring!CutoverFenced
    BY DEF CutoverFenced
  <2> USE PhaseNumbers DEF RestoreInv, Restoring!TypeOK, Restoring!LedgerRow,
          Restoring!SiblingRow, Course, InPhase, Resting, SiblingProven, Reached, PointerMoves,
          Unmoved, Moved, MovedBack, BucketKept, Restoring!Old
  <2>1. Restoring!CutoverProven
    BY DEF Restoring!CutoverProven, WritersOut
  <2>2. Restoring!RollbackExact
    BY DEF Restoring!RollbackExact
  <2> QED
    BY <2>1, <2>2 DEF Restoring!CutoverFenced
<1> QED
  BY <1>1, RestoreCorrect, PTL

-----------------------------------------------------------------------------
(* The audit log.                                                          *)
AuditLaws == INSTANCE AuditProofs WITH MaxRows <- AuditRows, MaxMishaps <- AuditMishaps

(* The log that AuditProofs is about is the one of this deployment.        *)
LEMMA SameLog ==
    /\ Audit!Init <=> AuditLaws!Init
    /\ [Audit!Next]_Audit!vars => [AuditLaws!Next]_AuditLaws!vars
    /\ Audit!AuditChained <=> AuditLaws!AuditChained
    /\ Audit!VerdictHonest <=> AuditLaws!VerdictHonest
<1>1. /\ Audit!Init <=> AuditLaws!Init
      /\ Audit!AuditChained <=> AuditLaws!AuditChained
      /\ Audit!VerdictHonest <=> AuditLaws!VerdictHonest
      /\ Audit!record <=> AuditLaws!record
      /\ Audit!Commit <=> AuditLaws!Commit
      /\ Audit!provision_signing_key <=> AuditLaws!provision_signing_key
      /\ Audit!activate_scope <=> AuditLaws!activate_scope
      /\ Audit!MarkActivated <=> AuditLaws!MarkActivated
      /\ Audit!synchronize_anchors <=> AuditLaws!synchronize_anchors
      /\ Audit!seal_scope <=> AuditLaws!seal_scope
      /\ Audit!AnchorBatch <=> AuditLaws!AnchorBatch
      /\ Audit!prepare_rotation <=> AuditLaws!prepare_rotation
      /\ Audit!publish_rotation <=> AuditLaws!publish_rotation
      /\ Audit!RecordPublished <=> AuditLaws!RecordPublished
      /\ Audit!finalize_rotation <=> AuditLaws!finalize_rotation
      /\ Audit!abort_rotation <=> AuditLaws!abort_rotation
      /\ Audit!Fail <=> AuditLaws!Fail
      /\ Audit!Snapshot <=> AuditLaws!Snapshot
      /\ Audit!Restore <=> AuditLaws!Restore
  <2> USE DEF Audit!None, AuditLaws!None, Audit!Open, AuditLaws!Open, Audit!Cutover,
          AuditLaws!Cutover, Audit!RowId, AuditLaws!RowId, Audit!Fingerprint,
          AuditLaws!Fingerprint, Audit!Visible, AuditLaws!Visible, Audit!Batched,
          AuditLaws!Batched, Audit!ActiveKeys, AuditLaws!ActiveKeys, Audit!active_key,
          AuditLaws!active_key, Audit!Pending, AuditLaws!Pending, Audit!KeyOf,
          AuditLaws!KeyOf, Audit!key_authorizes_sequence, AuditLaws!key_authorizes_sequence,
          Audit!scope_head, AuditLaws!scope_head, Audit!Anchor, AuditLaws!Anchor,
          Audit!Nobody, AuditLaws!Nobody, Audit!NoHead, AuditLaws!NoHead, Audit!Activation,
          AuditLaws!Activation, Audit!fetch, AuditLaws!fetch, Audit!Transition,
          AuditLaws!Transition, Audit!Followed, AuditLaws!Followed, Audit!fetch_scope_head,
          AuditLaws!fetch_scope_head, Audit!MayPublish, AuditLaws!MayPublish,
          Audit!Published, AuditLaws!Published, Audit!Row, AuditLaws!Row, Audit!Append_row,
          AuditLaws!Append_row, Audit!Unkeyed, AuditLaws!Unkeyed, Audit!record,
          AuditLaws!record, Audit!Commit, AuditLaws!Commit, Audit!Key, AuditLaws!Key,
          Audit!Proceed, AuditLaws!Proceed, Audit!provision_signing_key,
          AuditLaws!provision_signing_key, Audit!validate_genesis_database,
          AuditLaws!validate_genesis_database, Audit!activate_scope,
          AuditLaws!activate_scope, Audit!MarkActivated, AuditLaws!MarkActivated,
          Audit!TransitionsAnchored, AuditLaws!TransitionsAnchored,
          Audit!ActivationAnchored, AuditLaws!ActivationAnchored, Audit!Verifies,
          AuditLaws!Verifies, Audit!Anchored, AuditLaws!Anchored, Audit!Unanchored,
          AuditLaws!Unanchored, Audit!synchronize_anchors, AuditLaws!synchronize_anchors,
          Audit!Sealable, AuditLaws!Sealable, Audit!seal_scope, AuditLaws!seal_scope,
          Audit!AnchorBatch, AuditLaws!AnchorBatch, Audit!PendingRotation,
          AuditLaws!PendingRotation, Audit!Idle, AuditLaws!Idle, Audit!prepare_rotation,
          AuditLaws!prepare_rotation, Audit!MayTransit, AuditLaws!MayTransit,
          Audit!publish_rotation, AuditLaws!publish_rotation, Audit!RecordPublished,
          AuditLaws!RecordPublished, Audit!finalize_rotation, AuditLaws!finalize_rotation,
          Audit!HeadUnmoved, AuditLaws!HeadUnmoved, Audit!abort_rotation,
          AuditLaws!abort_rotation, Audit!Fail, AuditLaws!Fail, Audit!Snapshot,
          AuditLaws!Snapshot, Audit!Restore, AuditLaws!Restore, Audit!Init, AuditLaws!Init,
          Audit!ClassifiedAttested, AuditLaws!ClassifiedAttested, Audit!GivenUp,
          AuditLaws!GivenUp, Audit!Generations, AuditLaws!Generations,
          Audit!ActivationVerified, AuditLaws!ActivationVerified, Audit!RootAt,
          AuditLaws!RootAt, Audit!RotationsVerified, AuditLaws!RotationsVerified,
          Audit!BatchesVerified, AuditLaws!BatchesVerified, Audit!verify_audit_integrity,
          AuditLaws!verify_audit_integrity, Audit!SealedOnce, AuditLaws!SealedOnce,
          Audit!SignersAuthorized, AuditLaws!SignersAuthorized, Audit!AnchorsChained,
          AuditLaws!AnchorsChained, Audit!AuditChained, AuditLaws!AuditChained, Audit!Lost,
          AuditLaws!Lost, Audit!Settled, AuditLaws!Settled, Audit!VerdictHonest,
          AuditLaws!VerdictHonest, Audit!Last, AuditLaws!Last, Audit!Cardinality,
          AuditLaws!Cardinality
  <2>1. Audit!Init <=> AuditLaws!Init
    OBVIOUS
  <2>2. Audit!AuditChained <=> AuditLaws!AuditChained
    OBVIOUS
  <2>3. Audit!VerdictHonest <=> AuditLaws!VerdictHonest
    OBVIOUS
  <2>4. Audit!record <=> AuditLaws!record
    OBVIOUS
  <2>5. Audit!Commit <=> AuditLaws!Commit
    OBVIOUS
  <2>6. Audit!provision_signing_key <=> AuditLaws!provision_signing_key
    OBVIOUS
  <2>7. Audit!activate_scope <=> AuditLaws!activate_scope
    OBVIOUS
  <2>8. Audit!MarkActivated <=> AuditLaws!MarkActivated
    OBVIOUS
  <2>9. Audit!synchronize_anchors <=> AuditLaws!synchronize_anchors
    OBVIOUS
  <2>10. Audit!seal_scope <=> AuditLaws!seal_scope
    OBVIOUS
  <2>11. Audit!AnchorBatch <=> AuditLaws!AnchorBatch
    OBVIOUS
  <2>12. Audit!prepare_rotation <=> AuditLaws!prepare_rotation
    OBVIOUS
  <2>13. Audit!publish_rotation <=> AuditLaws!publish_rotation
    OBVIOUS
  <2>14. Audit!RecordPublished <=> AuditLaws!RecordPublished
    OBVIOUS
  <2>15. Audit!finalize_rotation <=> AuditLaws!finalize_rotation
    OBVIOUS
  <2>16. Audit!abort_rotation <=> AuditLaws!abort_rotation
    OBVIOUS
  <2>17. Audit!Fail <=> AuditLaws!Fail
    OBVIOUS
  <2>18. Audit!Snapshot <=> AuditLaws!Snapshot
    OBVIOUS
  <2>19. Audit!Restore <=> AuditLaws!Restore
    OBVIOUS
  <2> QED
    BY <2>1, <2>2, <2>3, <2>4, <2>5, <2>6, <2>7, <2>8, <2>9, <2>10, <2>11, <2>12, <2>13,
       <2>14, <2>15, <2>16, <2>17, <2>18, <2>19
<1>2. Audit!Next <=> AuditLaws!Next
  BY <1>1 DEF Audit!Next, Audit!Cycle, AuditLaws!Next, AuditLaws!Cycle
<1> QED
  BY <1>1, <1>2 DEF Audit!vars, AuditLaws!vars

(* The tables of the log and its anchors agree, whatever dies, is rotated  *)
(* or brought back (batches.py, rotations.py, rotation_lifecycle.py).      *)
THEOREM AuditLogCorrect == Spec => [](part = "auditing" => AuditLaws!AuditInv)
<1>1. Init => (part = "auditing" => AuditLaws!AuditInv)
  BY SameLog, AuditLaws!AuditInit DEF Init
<1>2. (part = "auditing" => AuditLaws!AuditInv) /\ [Next]_vars
        => (part = "auditing" => AuditLaws!AuditInv)'
  BY SameLog, AuditLaws!AuditNext, PartStep
<1> QED
  BY <1>1, <1>2, PTL DEF Spec

(* A row is sealed by one batch at most, each batch was signed by the key  *)
(* entitled to its number, and the anchors outside the database are one    *)
(* chain without a gap or a fork (seal_scope, batch_envelope,              *)
(* key_authorizes_sequence, the sinks' publish and publish_rotation).      *)
THEOREM AuditHistoryKept == Spec => []AuditChained
<1>1. (part = "auditing" => AuditLaws!AuditInv) => AuditChained
  BY SameLog, AuditLaws!AuditInvChains DEF AuditChained
<1> QED
  BY <1>1, AuditLogCorrect, PTL

(* A log that misses anything that was anchored never verifies, however it *)
(* goes on after a restore, and one that was never restored verifies when  *)
(* nothing is under way (verify_audit_integrity, fetch_scope_head).        *)
THEOREM AuditVerdictHonest == Spec => []VerdictHonest
<1>1. (part = "auditing" => AuditLaws!AuditInv) => VerdictHonest
  BY SameLog, AuditLaws!AuditInvHonest DEF VerdictHonest
<1> QED
  BY <1>1, AuditLogCorrect, PTL
=============================================================================

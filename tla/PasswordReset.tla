--------------------------- MODULE PasswordReset ---------------------------
(***************************************************************************)
(* The recovery envelope of one e-mail address: requested anonymously,     *)
(* claimed under a lease and mailed by drain workers that may stall or die *)
(* between any two transactions, confirmed with the mailed code.           *)
(***************************************************************************)
EXTENDS Integers

CONSTANTS
    Workers,      \* processes that may run drain_password_reset_envelopes
    MaxRequests,  \* bound on requests that enter the queue
    MaxStalls,    \* bound on leases that lapse under a worker still alive
    MaxDeaths,    \* bound on workers that die
    MaxAttempts,  \* MAX_ATTEMPTS
    MaxVersion    \* bound on changes of the account's credential

VARIABLES
    envelope,  \* the PasswordResetEnvelope row
    account,   \* the User behind the address: credential version, recoverable
    emailing,  \* email_enabled()
    worker,    \* where each drain is, and the generation it claimed
    inbox,     \* codes that reached the mailbox
    mailed,    \* outcome of the SMTP call for each code
    requests,  \* requests that entered the queue
    stalls, deaths,
    minted     \* for each code, the credential version and the request it was minted for

vars == <<envelope, account, emailing, worker, inbox, mailed, requests, stalls,
          deaths, minted>>
world == <<account, emailing, inbox, mailed, requests, stalls, deaths, minted>>

Blocked == {"pending", "claimed", "delivering"}
Reentrant == {"issued", "consumed", "discarded", "undeliverable", "delivery_unknown"}

(* A code is named by the generation that minted it; 0 is a dummy digest.  *)
NoCode == 0
WrongCode == -1
Generation == 0..(2 * MaxRequests + MaxStalls + MaxDeaths + 2)
Idle == [pc |-> "idle", generation |-> 0]

(* A live digest is held only while its code is being delivered or waits   *)
(* to be entered; every other status carries a dummy digest.               *)
TypeOK ==
    /\ envelope \in [status : {"none"} \cup Blocked \cup Reentrant,
                     generation : Generation, code : Generation,
                     fingerprint : 0..MaxVersion, fresh : BOOLEAN,
                     leased : BOOLEAN, cooling : BOOLEAN, attempts : 0..MaxAttempts]
    /\ account \in [version : 0..MaxVersion, recoverable : BOOLEAN]
    /\ emailing \in BOOLEAN
    /\ \A w \in Workers : worker[w] \in
         [pc : {"idle", "expired", "discarded", "claimed", "prepared", "sent", "failed"},
          generation : Generation]
    /\ inbox \subseteq Generation
    /\ envelope.code # NoCode <=> envelope.status \in {"delivering", "issued"}
    /\ envelope.leased => envelope.status \in {"claimed", "delivering"}

Init ==
    /\ envelope = [status |-> "none", generation |-> 0, code |-> NoCode,
                   fingerprint |-> 0, fresh |-> FALSE, leased |-> FALSE,
                   cooling |-> FALSE, attempts |-> 0]
    /\ account \in [version : {0}, recoverable : BOOLEAN]
    /\ emailing \in BOOLEAN
    /\ worker = [w \in Workers |-> Idle]
    /\ inbox = {}
    /\ mailed = [g \in Generation |-> "no"]
    /\ requests = 0
    /\ stalls = 0
    /\ deaths = 0
    /\ minted = [g \in Generation |-> [version |-> 0, request |-> 0]]

(***************************************************************************)
(* Request and confirmation                                                *)
(***************************************************************************)

(* A request while one is queued or in delivery is a no-op, and one within *)
(* a minute of the last is refused; neither is a step.                     *)
request_password_reset ==
    /\ requests < MaxRequests
    /\ envelope.status \in {"none"} \cup Reentrant
    /\ ~envelope.cooling
    /\ requests' = requests + 1
    /\ envelope' = [status |-> "pending", generation |-> envelope.generation + 1,
                    code |-> NoCode, fingerprint |-> 0, fresh |-> FALSE,
                    leased |-> FALSE, cooling |-> TRUE, attempts |-> 0]
    /\ UNCHANGED <<account, emailing, worker, inbox, mailed, stalls, deaths, minted>>

(* The dummy digest and the terminal status a row ends with. *)
Ended(status, generation) ==
    [envelope EXCEPT !.status = status, !.generation = generation, !.code = NoCode,
                     !.fingerprint = 0, !.fresh = FALSE, !.leased = FALSE]

StageOnePasses(code) ==
    /\ envelope.status = "issued"
    /\ envelope.code = code
    /\ envelope.fresh
    /\ envelope.attempts < MaxAttempts

Attempted(row) == [row EXCEPT !.attempts = IF envelope.attempts < MaxAttempts
                                           THEN envelope.attempts + 1 ELSE MaxAttempts]

\* Mutant: the fingerprint is not compared.
_credential_state_ignored == account.recoverable

_credential_state_matches ==
    account.recoverable /\ account.version = envelope.fingerprint

(* A password that fails validation costs an attempt and keeps the code.   *)
confirm_password_reset(code, valid) ==
    /\ envelope.status # "none"
    /\ LET passes == StageOnePasses(code)
           resets == passes /\ _credential_state_matches /\ valid
       IN  /\ account.version + (IF resets THEN 1 ELSE 0) <= MaxVersion
           /\ account' = IF resets THEN [account EXCEPT !.version = @ + 1] ELSE account
           /\ envelope' = Attempted(
                IF resets THEN [Ended("consumed", envelope.generation) EXCEPT
                                  !.fingerprint = envelope.fingerprint,
                                  !.fresh = envelope.fresh]
                ELSE IF passes /\ ~_credential_state_matches
                     THEN Ended("discarded", envelope.generation)
                     ELSE envelope)
    /\ UNCHANGED <<emailing, worker, inbox, mailed, requests, stalls, deaths, minted>>

(***************************************************************************)
(* The drain                                                               *)
(***************************************************************************)

At(w, pc) == worker[w].pc = pc
Go(w, pc) == worker' = [worker EXCEPT ![w].pc = pc]
Rest(w) == worker' = [worker EXCEPT ![w] = Idle]

(* Nobody can know whether the mail of a lapsed delivery went out: the row *)
(* ends, and the generation moves so that its worker cannot finish it.     *)
expire_delivery_leases(w) ==
    /\ At(w, "idle")
    /\ Go(w, "expired")
    /\ envelope' = IF envelope.status = "delivering" /\ ~envelope.leased
                   THEN Ended("delivery_unknown", envelope.generation + 1) ELSE envelope
    /\ UNCHANGED world

discard_expired_issued(w) ==
    /\ At(w, "expired")
    /\ Go(w, "discarded")
    /\ envelope' = IF envelope.status = "issued" /\
                      (~envelope.fresh \/ envelope.attempts >= MaxAttempts)
                   THEN Ended("discarded", envelope.generation) ELSE envelope
    /\ UNCHANGED world

\* Mutant: a lapsed claim is not taken over.
Claimable_pending_only == envelope.status = "pending"

Claimable ==
    \/ envelope.status = "pending"
    \/ envelope.status = "claimed" /\ ~envelope.leased

claim_pending_envelopes(w) ==
    /\ At(w, "discarded")
    /\ IF Claimable
       THEN /\ envelope' = [envelope EXCEPT !.status = "claimed", !.leased = TRUE,
                                            !.generation = @ + 1]
            /\ worker' = [worker EXCEPT ![w] =
                 [pc |-> "claimed", generation |-> envelope.generation + 1]]
       ELSE Rest(w) /\ UNCHANGED envelope
    /\ UNCHANGED world

(* The row is still the one this worker claimed. *)
Holds(w, status) ==
    envelope.generation = worker[w].generation /\ envelope.status = status

prepare_delivery(w) ==
    /\ At(w, "claimed")
    /\ IF ~Holds(w, "claimed") THEN Rest(w) /\ UNCHANGED <<envelope, minted>>
       ELSE IF ~account.recoverable
       THEN /\ envelope' = Ended("discarded", envelope.generation)
            /\ Rest(w) /\ UNCHANGED minted
       ELSE IF ~emailing
       THEN /\ envelope' = Ended("undeliverable", envelope.generation)
            /\ Rest(w) /\ UNCHANGED minted
       ELSE LET g == worker[w].generation IN
            /\ envelope' = [envelope EXCEPT !.status = "delivering", !.code = g,
                              !.fingerprint = account.version, !.fresh = TRUE,
                              !.leased = TRUE, !.attempts = 0]
            /\ minted' = [minted EXCEPT ![g] = [version |-> account.version,
                                                     request |-> requests]]
            /\ Go(w, "prepared")
    /\ UNCHANGED <<account, emailing, inbox, mailed, requests, stalls, deaths>>

(* The SMTP call, outside every transaction: an accepted mail may never    *)
(* arrive, and one reported as failed may.                                 *)
send_password_reset_otp(w, accepted, arrives) ==
    /\ At(w, "prepared")
    /\ Go(w, IF accepted THEN "sent" ELSE "failed")
    /\ mailed' = [mailed EXCEPT ![worker[w].generation] =
                     IF accepted THEN "sent" ELSE "failed"]
    /\ inbox' = IF arrives THEN inbox \cup {worker[w].generation} ELSE inbox
    /\ UNCHANGED <<envelope, account, emailing, requests, stalls, deaths, minted>>

\* Mutant: the generation is not compared.
finalize_unfenced(w) ==
    /\ worker[w].pc \in {"sent", "failed"}
    /\ envelope' = IF envelope.status # "delivering" THEN envelope
                   ELSE IF At(w, "sent")
                        THEN [envelope EXCEPT !.status = "issued", !.leased = FALSE]
                        ELSE Ended("undeliverable", envelope.generation)
    /\ Rest(w)
    /\ UNCHANGED world

finalize_delivery(w) ==
    /\ worker[w].pc \in {"sent", "failed"}
    /\ envelope' = IF ~Holds(w, "delivering") THEN envelope
                   ELSE IF At(w, "sent")
                        THEN [envelope EXCEPT !.status = "issued", !.leased = FALSE]
                        ELSE Ended("undeliverable", envelope.generation)
    /\ Rest(w)
    /\ UNCHANGED world

Drain(w) ==
    \/ expire_delivery_leases(w)
    \/ discard_expired_issued(w)
    \/ claim_pending_envelopes(w)
    \/ prepare_delivery(w)
    \/ \E accepted, arrives \in BOOLEAN : send_password_reset_otp(w, accepted, arrives)
    \/ finalize_delivery(w)

(***************************************************************************)
(* Time, faults and the rest of the system                                 *)
(***************************************************************************)

Death(w) ==
    /\ deaths < MaxDeaths
    /\ worker[w] # Idle
    /\ deaths' = deaths + 1
    /\ Rest(w)
    /\ UNCHANGED <<envelope, account, emailing, inbox, mailed, requests, stalls, minted>>

Owned == \E w \in Workers : worker[w].generation = envelope.generation

(* A lease lapses when five minutes pass; under a living worker that       *)
(* happens at most MaxStalls times.                                        *)
LeaseLapses ==
    /\ envelope.leased
    /\ Owned => stalls < MaxStalls
    /\ stalls' = IF Owned THEN stalls + 1 ELSE stalls
    /\ envelope' = [envelope EXCEPT !.leased = FALSE]
    /\ UNCHANGED <<account, emailing, worker, inbox, mailed, requests, deaths, minted>>

Elapse(field) ==
    /\ envelope[field]
    /\ envelope' = [envelope EXCEPT ![field] = FALSE]
    /\ UNCHANGED <<worker, world>>

(* The account changes its password by another way, or staff change its standing. *)
AccountChanges ==
    /\ \/ account.version < MaxVersion /\ account' = [account EXCEPT !.version = @ + 1]
       \/ account' = [account EXCEPT !.recoverable = ~@]
    /\ UNCHANGED <<envelope, emailing, worker, inbox, mailed, requests, stalls, deaths, minted>>

ConfigurationChanges ==
    /\ emailing' = ~emailing
    /\ UNCHANGED <<envelope, account, worker, inbox, mailed, requests, stalls, deaths, minted>>

Next ==
    \/ request_password_reset
    \/ \E code \in inbox \cup {WrongCode}, valid \in BOOLEAN : confirm_password_reset(code, valid)
    \/ \E w \in Workers : Drain(w) \/ Death(w)
    \/ LeaseLapses
    \/ \E field \in {"fresh", "cooling"} : Elapse(field)
    \/ AccountChanges
    \/ ConfigurationChanges

Spec == Init /\ [][Next]_vars

(* The scheduler starts a drain every minute, and a lease ends by the      *)
(* clock: a drain is never suspended for ever and neither is a lease.      *)
FairSpec == Spec /\ (\A w \in Workers : WF_vars(Drain(w))) /\ WF_vars(LeaseLapses)

(***************************************************************************)
(* Properties                                                              *)
(***************************************************************************)

(* "At-most-once issuance": one request leads to at most one SMTP call,    *)
(* whatever dies, stalls or is claimed again (services_password_reset_drain*)
(* and expire_delivery_leases, "never reclaim or re-send them").           *)
MailedAtMostOnce ==
    \A g, h \in Generation :
        g # h /\ mailed[g] # "no" /\ mailed[h] # "no" =>
            minted[g].request # minted[h].request

(* A row says issued only when the mail of the very code it holds was      *)
(* handed over: a worker returning from an old call never finishes the     *)
(* delivery of a newer request (the generation fence of finalize_delivery).*)
IssuedWasMailed == envelope.status = "issued" => mailed[envelope.code] = "sent"

(* A password is set only with the newest code, and only while the account *)
(* still has the credential that code was minted for                       *)
(* (credential_fingerprint, _credential_state_matches).                    *)
ConsumesNewestCode ==
    envelope.status # "consumed" /\ envelope'.status = "consumed" =>
        /\ \A g \in Generation : g > envelope.code => g \notin inbox
        /\ minted[envelope.code].version = account.version
        /\ account.recoverable

ResetOnNewestCode == [][ConsumesNewestCode]_vars

(* A queued request is always answered: it is mailed or ends, even when    *)
(* the worker that claimed it died at any point (claim leases,             *)
(* expire_delivery_leases).                                                *)
EveryRequestSettles == envelope.status \in Blocked ~> envelope.status \notin Blocked

=============================================================================

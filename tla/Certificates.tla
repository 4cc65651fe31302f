---------------------------- MODULE Certificates ----------------------------
(***************************************************************************)
(* Attendance and the certificates it earns, for one event that has ended: *)
(* check-ins replayed by offline devices and PIN stations, corrections,    *)
(* feedback, and certificates rendered outside any transaction into object *)
(* storage by request workers that may stall or die.                       *)
(***************************************************************************)
EXTENDS SequencesExt, Integers

CONSTANTS
    Registrations,   \* registrations of the event, all REGISTERED at first
    Operations,      \* operation ids the devices report
    Workers,         \* request processes that render certificates
    MaxRevisions,    \* bound on certificates of one registration
    MaxVersion       \* bound on rotations of the station PIN

VARIABLES
    event,       \* status of the Event
    status,      \* status of each EventRegistration
    responded,   \* registrations with an identified EventFeedbackResponse
    certificate, \* EventAttendanceCertificates of each, in revision order
    checkins,    \* EventCheckInEvent rows
    station,     \* the PIN credential's version and switch
    requests,    \* sync requests whose session was resolved
    store,       \* objects in the bucket
    usage,       \* storage charged to the makerspace, in certificates
    worker,      \* what each worker does, for which certificate
    cleanups,    \* callbacks deleting abandoned objects, with the keys left
    faulty       \* may processes die and deletions fail (in this behaviour)?

vars == <<event, status, responded, certificate, checkins, station, requests,
          store, usage, worker, cleanups, faulty>>
desk == <<responded, certificate, store, usage, worker, cleanups>>
door == <<checkins, station, requests>>

Certificate == [reg : Registrations, revision : 1..MaxRevisions]
Cert(c) == certificate[c.reg][c.revision]
Issued == {c \in Certificate : c.revision <= Len(certificate[c.reg])}
Revise(c, row) == [certificate EXCEPT ![c.reg][c.revision] = row]
Live(r) == {c \in Issued : c.reg = r /\ Cert(c).status # "revoked"}
Idle == [pc |-> "idle"]
Object == [of : Certificate, key : {"staging", "final"}]
Final(c) == [of |-> c, key |-> "final"]
Staging(c) == [of |-> c, key |-> "staging"]

TypeOK ==
    /\ event \in {"published", "completed", "cancelled"}
    /\ status \in [Registrations -> {"registered", "attended"}]
    /\ responded \subseteq Registrations
    /\ \A r \in Registrations :
         /\ Len(certificate[r]) \in 0..MaxRevisions
         /\ Cardinality(Live(r)) <= 1
         /\ \A n \in 1..Len(certificate[r]) : certificate[r][n] \in
              [status : {"pending", "rendering", "active", "failed", "revoked"},
               rendered : BOOLEAN]
    /\ checkins \subseteq [op : Operations, reg : Registrations,
                           version : 0..MaxVersion]
    /\ station \in [version : 0..MaxVersion, enabled : BOOLEAN]
    /\ store \subseteq Object
    /\ usage \in Nat
    /\ \A w \in Workers : worker[w] = Idle \/
         worker[w] \in [pc : {"claimed", "staged", "promoted", "stored",
                              "failing"}, on : Certificate]

Init ==
    /\ event = "published"
    /\ status = [r \in Registrations |-> "registered"]
    /\ responded = {}
    /\ certificate = [r \in Registrations |-> <<>>]
    /\ checkins = {} /\ requests = {}
    /\ station = [version |-> 0, enabled |-> FALSE]
    /\ store = {} /\ usage = 0
    /\ worker = [w \in Workers |-> Idle]
    /\ cleanups = {} /\ faulty \in BOOLEAN

Certifiable == event \in {"published", "completed"}

------------------------------------------------------------------------------
(* Check-in. A device repeats an operation until it hears an answer; a     *)
(* station's session is resolved before the transaction, version 0 stands  *)
(* for a staff device, whose lease is checked then too.                    *)
resolve_session(o, r, v) ==
    /\ v > 0 => station = [version |-> v, enabled |-> TRUE]
    /\ requests' = requests \cup {[op |-> o, reg |-> r, version |-> v]}
    /\ UNCHANGED <<event, status, checkins, station, desk>>

Recorded(q) == \E k \in checkins : k.op = q.op
SessionStands(q) ==
    q.version > 0 => station = [version |-> q.version, enabled |-> TRUE]
CanAttend(q) == status[q.reg] = "registered" /\ Certifiable

mark_attended_if(q, applies) ==
    /\ requests' = requests \ {q}
    /\ IF applies
       THEN /\ status' = [status EXCEPT ![q.reg] = "attended"]
            /\ checkins' = checkins \cup {q}
       ELSE UNCHANGED <<status, checkins>>
    /\ UNCHANGED <<event, station, desk>>

\* Mutant: a repeated operation is carried out again.
mark_attended_replayed(q) == mark_attended_if(q, SessionStands(q) /\ CanAttend(q))
mark_attended_with_event(q) ==
    mark_attended_if(q, SessionStands(q) /\ ~Recorded(q) /\ CanAttend(q))

rotate ==
    /\ station.version < MaxVersion
    /\ station' = [version |-> station.version + 1, enabled |-> TRUE]
    /\ UNCHANGED <<event, status, checkins, requests, desk>>

disable ==
    /\ station.version > 0
    /\ station' = [station EXCEPT !.enabled = FALSE]
    /\ UNCHANGED <<event, status, checkins, requests, desk>>

------------------------------------------------------------------------------
(* Feedback and the life of a certificate. *)
create_pending(r) ==
    /\ Len(certificate[r]) < MaxRevisions
    /\ certificate' = [certificate EXCEPT ![r] =
                         Append(@, [status |-> "pending", rendered |-> FALSE])]

submit_identified_feedback(r) ==
    /\ Certifiable
    /\ status[r] = "attended"
    /\ r \notin responded
    /\ responded' = responded \cup {r}
    /\ create_pending(r)
    /\ UNCHANGED <<event, status, door, store, usage, worker, cleanups>>

reissue(r) ==
    /\ Certifiable
    /\ status[r] = "attended"
    /\ Live(r) = {}
    /\ r \in responded
    /\ create_pending(r)
    /\ UNCHANGED <<event, status, door, responded, store, usage, worker, cleanups>>

(* Revoking abandons what was never issued; its cleanup runs on commit. *)
Revoked(cs) ==
    [r \in Registrations |-> [n \in DOMAIN certificate[r] |->
        IF [reg |-> r, revision |-> n] \in cs
        THEN [certificate[r][n] EXCEPT !.status = "revoked"]
        ELSE certificate[r][n]]]

Callback(c) == [on |-> c, left |-> {"final", "staging"}]

revoke(c) ==
    /\ Cert(c).status # "revoked"
    /\ certificate' = Revoked({c})
    /\ cleanups' = cleanups \cup {Callback(c)}
    /\ UNCHANGED <<event, status, door, responded, store, usage, worker>>

correct_attendance(r) ==
    /\ status[r] = "attended"
    /\ status' = [status EXCEPT ![r] = "registered"]
    /\ certificate' = Revoked({c \in Live(r) : Cert(c).status = "active"})
    /\ UNCHANGED <<event, door, responded, store, usage, worker, cleanups>>

cancel ==
    LET open == UNION {Live(r) : r \in Registrations}
    IN  /\ event = "published"
        /\ event' = "cancelled"
        /\ certificate' = Revoked(open)
        /\ cleanups' = cleanups \cup {Callback(c) : c \in open}
        /\ UNCHANGED <<status, door, responded, store, usage, worker>>

complete ==
    /\ event = "published"
    /\ event' = "completed"
    /\ UNCHANGED <<status, door, desk>>

------------------------------------------------------------------------------
(* Rendering: a claim, storage calls without any lock, an activation. *)
_claim_render(w, c) ==
    /\ worker[w] = Idle
    /\ Certifiable
    /\ status[c.reg] = "attended"
    /\ Cert(c).status \in {"pending", "failed"}
    /\ certificate' = Revise(c, [Cert(c) EXCEPT !.status = "rendering"])
    /\ worker' = [worker EXCEPT ![w] = [pc |-> "claimed", on |-> c]]
    /\ UNCHANGED <<event, status, door, responded, store, usage, cleanups>>

Goto(w, pc) == worker' = [worker EXCEPT ![w].pc = pc]

(* One call of store_immutable_pdf; the bytes of a certificate never vary. *)
store_immutable_pdf(w) ==
    LET c == worker[w].on
        Call(from, holds, objects, to) ==
            /\ worker[w].pc = from
            /\ holds
            /\ store' = objects
            /\ Goto(w, to)
    IN  /\ worker[w] # Idle
        /\ \/ Call("claimed", Final(c) \in store, store, "stored")
           \/ Call("claimed", Final(c) \notin store,
                   store \cup {Staging(c)}, "staged")
           \/ Call("staged", Staging(c) \in store,
                   store \cup {Final(c)}, "promoted")
           \/ Call("promoted", Final(c) \in store,
                   store \ {Staging(c)}, "stored")
           \/ Call("staged", Staging(c) \notin store, store, "failing")
           \/ Call("promoted", Final(c) \notin store, store, "failing")
        /\ UNCHANGED <<event, status, door, responded, certificate, usage,
                       cleanups>>

StorageUnavailable(w) ==
    /\ worker[w] # Idle /\ worker[w].pc \in {"claimed", "staged", "promoted"}
    /\ Goto(w, "failing")
    /\ UNCHANGED <<event, status, door, responded, certificate, store, usage,
                   cleanups>>

activate_if(w, allowed) ==
    LET c == worker[w].on
    IN  /\ worker[w] # Idle /\ worker[w].pc = "stored"
        /\ \/ /\ allowed
              /\ usage' = usage + 1
              /\ certificate' = Revise(c, [status |-> "active", rendered |-> TRUE])
              /\ worker' = [worker EXCEPT ![w] = Idle]
           \/ Goto(w, "failing") /\ UNCHANGED <<usage, certificate>>
        /\ UNCHANGED <<event, status, door, responded, store, cleanups>>

\* Mutant: the attendance is not looked at again.
activate_unchecked(w) == activate_if(w, Cert(worker[w].on).status = "rendering")

(* The failing alternative also stands for a storage quota that is full. *)
_activate(w) ==
    activate_if(w, /\ Certifiable
                   /\ status[worker[w].on.reg] = "attended"
                   /\ Cert(worker[w].on).status = "rendering")

_fail_render(w) ==
    LET c == worker[w].on
    IN  /\ worker[w] # Idle /\ worker[w].pc = "failing"
        /\ certificate' = IF Cert(c).status = "rendering"
                          THEN Revise(c, [Cert(c) EXCEPT !.status = "failed"])
                          ELSE certificate
        /\ cleanups' = cleanups \cup {Callback(c)}
        /\ worker' = [worker EXCEPT ![w] = Idle]
        /\ UNCHANGED <<event, status, door, responded, store, usage>>

Abandoned(c) == Cert(c).status = "revoked" /\ ~Cert(c).rendered

(* The row is read again first; then each key is deleted, or logged. *)
cleanup_abandoned_certificate(t) ==
    /\ \/ /\ ~Abandoned(t.on)
          /\ UNCHANGED store
          /\ cleanups' = cleanups \ {t}
       \/ /\ Abandoned(t.on)
          /\ LET key == IF "final" \in t.left THEN "final" ELSE "staging"
                 rest == t.left \ {key}
             IN  /\ \/ store' = store \ {[of |-> t.on, key |-> key]}
                    \/ faulty /\ UNCHANGED store
                 /\ cleanups' = (cleanups \ {t}) \cup
                      (IF rest = {} THEN {} ELSE {[t EXCEPT !.left = rest]})
    /\ UNCHANGED <<event, status, door, responded, certificate, usage, worker>>

Killed ==
    /\ faulty
    /\ \/ \E w \in Workers : worker[w] # Idle
            /\ worker' = [worker EXCEPT ![w] = Idle] /\ UNCHANGED cleanups
       \/ \E t \in cleanups : cleanups' = cleanups \ {t} /\ UNCHANGED worker
    /\ UNCHANGED <<event, status, door, responded, certificate, store, usage>>

------------------------------------------------------------------------------
Moves ==
    \/ \E o \in Operations, r \in Registrations, v \in 0..MaxVersion :
         resolve_session(o, r, v)
    \/ \E q \in requests : mark_attended_with_event(q)
    \/ rotate \/ disable \/ cancel \/ complete \/ Killed
    \/ \E r \in Registrations :
         submit_identified_feedback(r) \/ reissue(r) \/ correct_attendance(r)
    \/ \E c \in Issued : revoke(c) \/ \E w \in Workers : _claim_render(w, c)
    \/ \E w \in Workers : \/ store_immutable_pdf(w) \/ StorageUnavailable(w)
                          \/ _activate(w) \/ _fail_render(w)
    \/ \E t \in cleanups : cleanup_abandoned_certificate(t)

Next == Moves /\ UNCHANGED faulty

Spec == Init /\ [][Next]_vars

------------------------------------------------------------------------------
(* Properties. *)

(* A certificate stands only for attendance that stands: corrections and   *)
(* cancellations that land while a worker renders leave nothing active     *)
(* (services_certificates._activate, correct_attendance, cancel).          *)
ActiveIsEarned ==
    \A c \in Issued :
        Cert(c).status = "active" => status[c.reg] = "attended" /\ Certifiable

(* An issued PDF is retained and charged exactly once, revoked or not,     *)
(* through stalled workers, cleanups of other revisions and crashes.       *)
IssuedRetained ==
    /\ \A c \in Issued : Cert(c).rendered => Final(c) \in store
    /\ usage = Cardinality({c \in Issued : Cert(c).rendered})

(* Once nobody works on it any more, a certificate revoked before it was   *)
(* issued leaves no object behind where nothing dies (certificate_cleanup).*)
AbandonedCollected ==
    ~faulty => \A c \in Issued :
        Abandoned(c) => \/ {Final(c), Staging(c)} \cap store = {}
                        \/ \E w \in Workers : worker[w] # Idle /\ worker[w].on = c
                        \/ \E t \in cleanups : t.on = c

(* A scan is applied once: a device repeating it never undoes a correction *)
(* staff made since (EventCheckInEvent.operation_id).                      *)
ReplayIgnored ==
    \A q \in requests :
        (\E k \in checkins : k.op = q.op) /\ requests' = requests \ {q}
            => status' = status

(* No check-in lands from a station session whose PIN was rotated or       *)
(* switched off after the request was let in.                              *)
CheckedInByStation ==
    \A k \in checkins' \ checkins :
        k.version > 0 => station.enabled /\ station.version = k.version
=============================================================================

----------------------------- MODULE SourceGate -----------------------------
(***************************************************************************)
(* Moving one makerspace to another deployment.  The source gate freezes   *)
(* its writes: writers hold a shared advisory lock from the check of the   *)
(* gate to the end of their work, whoever closes, photographs or opens the *)
(* gate holds the lock exclusively.  An owner keeps the gate by a lease    *)
(* with a fencing token.  Signed receipts hand the tenant over: the source *)
(* retires, then the target opens, or the target aborts, then the source   *)
(* opens again.                                                            *)
(*                                                                         *)
(* Times are what is left of them, in ticks; what was read before a lock   *)
(* was waited for runs down while waiting.                                 *)
(***************************************************************************)
EXTENDS Integers

CONSTANTS
    Writers,     \* requests and tasks of the makerspace
    Owners,      \* owner ids; each makes one archive, for one pairing
    Purposes,    \* purposes an archive is made for
    UrlTTL,      \* life of a presigned upload, and the drain that waits for it
    Lease,       \* life of a gate lease
    MaxWrites,   \* bound on changes of rows, and on uploads
    MaxToken,    \* bound on fencing tokens
    None

VARIABLES
    gate,      \* the SourceMigrationGate row
    inside,    \* writers that hold the shared lock
    urls,      \* time left of the upload URL each writer was given
    run,       \* what each owner's process does
    archive,   \* the archive of each owner
    rows,      \* version of the tenant's rows
    files,     \* version of its objects
    target,    \* lifecycle of the importing makerspace of each archive
    handoff    \* the MigratedOutHandoff of the source

vars == <<gate, inside, urls, run, archive, rows, files, target, handoff>>
tenant == <<inside, urls, rows, files>>

Closed == {"draining", "quiesced", "migrated_out"}
Idle == [pc |-> "idle", purpose |-> None, token |-> 0, lease |-> 0, drain |-> 0]

GateRow == [state : Closed \cup {"open"}, purpose : Purposes \cup {None},
            owner : Owners \cup {None}, token : 0..MaxToken + 1,
            lease : 0..Lease, drain : 0..UrlTTL]
RunRow == [pc : {"idle", "claiming", "draining", "stamped", "snapshot", "captured"},
           purpose : Purposes \cup {None}, token : 0..MaxToken + 1,
           lease : 0..Lease, drain : 0..UrlTTL]
ArchiveRow == [rows : 0..MaxWrites, files : 0..MaxWrites, token : 1..MaxToken + 1,
               captured : BOOLEAN, published : BOOLEAN]
HandoffRow == [pairing : Owners, reopened : BOOLEAN]

TypeOK ==
    /\ gate \in GateRow
    /\ gate.state = "open" <=> gate.owner = None
    /\ inside \subseteq Writers
    /\ urls \in [Writers -> 0..UrlTTL]
    /\ run \in [Owners -> RunRow]
    /\ archive \in [Owners -> {None} \cup ArchiveRow]
    /\ rows \in 0..MaxWrites /\ files \in 0..MaxWrites
    /\ target \in [Owners -> {"none", "importing", "active", "aborted"}]
    /\ handoff \in {None} \cup HandoffRow

\* None is neither an owner nor an archive nor a handoff.
GateConstants ==
    /\ None \notin Owners /\ None \notin ArchiveRow /\ None \notin HandoffRow
    /\ "migration" \in Purposes
    /\ {MaxToken, MaxWrites, Lease, UrlTTL} \subseteq Nat
    /\ MaxToken > 0

Init ==
    /\ gate = [state |-> "open", purpose |-> None, owner |-> None, token |-> 0,
               lease |-> 0, drain |-> 0]
    /\ inside = {} /\ urls = [w \in Writers |-> 0]
    /\ run = [o \in Owners |-> Idle]
    /\ archive = [o \in Owners |-> None]
    /\ rows = 0 /\ files = 0
    /\ target = [o \in Owners |-> "none"]
    /\ handoff = None

-----------------------------------------------------------------------------
(* Locks and authority.                                                    *)

ExclusivelyHeld == \E o \in Owners : run[o].pc = "snapshot"
acquire_shared == ~ExclusivelyHeld
acquire_exclusive == inside = {} /\ ~ExclusivelyHeld

_require_live_owner(o, token) ==
    gate.owner = o /\ gate.token = token /\ gate.lease > 0

_open == [state |-> "open", purpose |-> None, owner |-> None,
          token |-> gate.token + 1, lease |-> 0, drain |-> 0]

-----------------------------------------------------------------------------
(* Writers.  The middleware and the task base class hold the boundary      *)
(* around everything a request or task does.                               *)

boundary_when(w, admitted) ==
    /\ w \notin inside /\ acquire_shared /\ admitted
    /\ inside' = inside \cup {w}
    /\ UNCHANGED <<gate, urls, run, archive, rows, files, target, handoff>>

\* Mutant: only a retired source refuses writers.
boundary_unretired(w) == boundary_when(w, gate.state # "migrated_out")
boundary_tenant_write(w) == boundary_when(w, gate.state = "open")

Write(w) ==
    /\ w \in inside /\ rows < MaxWrites
    /\ rows' = rows + 1
    /\ UNCHANGED <<gate, inside, urls, run, archive, files, target, handoff>>

presign(w) ==
    /\ w \in inside
    /\ urls' = [urls EXCEPT ![w] = UrlTTL]
    /\ UNCHANGED <<gate, inside, run, archive, rows, files, target, handoff>>

Leave(w) ==
    /\ w \in inside
    /\ inside' = inside \ {w}
    /\ UNCHANGED <<gate, urls, run, archive, rows, files, target, handoff>>

\* The browser uploads straight to the object store: no lock, no gate.
Put(w) ==
    /\ urls[w] > 0 /\ files < MaxWrites
    /\ files' = files + 1
    /\ UNCHANGED <<gate, inside, urls, run, archive, rows, target, handoff>>

-----------------------------------------------------------------------------
(* The owner: claim, drain, stamp, photograph, publish.                    *)

step(o, to) == run' = [run EXCEPT ![o].pc = to]

\* quiesced_snapshot reads the clock, then waits for the locks in claim.
quiesced_snapshot(o, purpose) ==
    /\ run[o].pc = "idle"
    /\ archive[o] # None => ~archive[o].published
    /\ run' = [run EXCEPT ![o] = [pc |-> "claiming", purpose |-> purpose,
                                  token |-> @.token, lease |-> Lease, drain |-> UrlTTL]]
    /\ UNCHANGED <<gate, tenant, archive, target, handoff>>

Claimed(o) ==
    [state |-> "draining", purpose |-> run[o].purpose, owner |-> o,
     token |-> gate.token + 1, lease |-> run[o].lease, drain |-> run[o].drain]

\* A run started with the token of a closed gate resumes it.  Its lease is
\* compared with the clock read before the wait, which the next steps make good:
\* here any lease will do.
Resumes(o) ==
    gate.owner = o /\ gate.token = run[o].token /\ gate.purpose = run[o].purpose

claim(o) ==
    /\ run[o].pc = "claiming" /\ acquire_exclusive
    /\ \/ /\ gate.state = "open" /\ gate.token < MaxToken
          /\ gate' = Claimed(o)
          /\ run' = [run EXCEPT ![o] = [@ EXCEPT !.pc = "draining", !.token = gate.token + 1]]
       \/ /\ gate.state # "open"
          /\ step(o, IF Resumes(o) THEN "draining" ELSE "idle")
          /\ UNCHANGED gate
    /\ UNCHANGED <<tenant, archive, target, handoff>>

\* After sleeping until the drain is over.
stamp_quiesced(o) ==
    /\ run[o].pc = "draining" /\ gate.drain = 0 /\ acquire_exclusive
    /\ IF _require_live_owner(o, run[o].token) /\ gate.state \in {"draining", "quiesced"}
       THEN gate' = [gate EXCEPT !.state = "quiesced"] /\ step(o, "stamped")
       ELSE UNCHANGED gate /\ step(o, "idle")
    /\ UNCHANGED <<tenant, archive, target, handoff>>

\* The repeatable-read snapshot; the exclusive lock is held while it is open.
open_snapshot(o) ==
    /\ run[o].pc = "stamped" /\ acquire_exclusive
    /\ IF _require_live_owner(o, run[o].token) /\ gate.state = "quiesced"
       THEN /\ step(o, "snapshot")
            /\ archive' = [archive EXCEPT ![o] =
                 [rows |-> rows, files |-> files, token |-> gate.token,
                  captured |-> FALSE, published |-> FALSE]]
       ELSE step(o, "idle") /\ UNCHANGED archive
    /\ UNCHANGED <<gate, tenant, target, handoff>>

capture_tenant_objects(o) ==
    /\ run[o].pc = "snapshot"
    /\ step(o, "captured")
    /\ archive' = [archive EXCEPT ![o].files = files, ![o].captured = TRUE]
    /\ UNCHANGED <<gate, tenant, target, handoff>>

\* run_migration_export_job uploads and finalizes under source_archive_boundary;
\* an open gate lets everybody write.
source_archive_boundary(o) ==
    /\ run[o].pc = "captured" /\ run[o].purpose = "migration" /\ acquire_shared
    /\ step(o, "idle")
    /\ archive' =
         IF gate.state = "open" \/ _require_live_owner(o, run[o].token)
         THEN [archive EXCEPT ![o].published = TRUE] ELSE archive
    /\ UNCHANGED <<gate, tenant, target, handoff>>

release_after_copy_capture(o) ==
    /\ run[o].pc = "captured" /\ run[o].purpose = "copy_capture" /\ acquire_exclusive
    /\ step(o, "idle")
    /\ gate' = IF /\ _require_live_owner(o, run[o].token)
                  /\ gate.state = "quiesced" /\ gate.purpose = "copy_capture"
               THEN _open ELSE gate
    /\ UNCHANGED <<tenant, archive, target, handoff>>

\* The process dies, its connections close and its locks are gone.
Crash(o) ==
    /\ run[o].pc # "idle"
    /\ step(o, "idle")
    /\ UNCHANGED <<gate, tenant, archive, target, handoff>>

-----------------------------------------------------------------------------
(* The operator: recover an orphaned gate, reassert a finished archive.    *)

recover_expired ==
    /\ acquire_exclusive
    /\ gate.state \in {"draining", "quiesced"} /\ gate.lease = 0
    /\ gate' = _open
    /\ UNCHANGED <<tenant, run, archive, target, handoff>>

\* claim_completed_export: claim again as the archive's owner, then heartbeat.
\* An open gate is closed anew, under a new token.
claim_completed_export(o) ==
    /\ archive[o] # None /\ archive[o].published /\ acquire_exclusive
    /\ \/ /\ gate.state = "open" /\ gate.token < MaxToken
          /\ gate' = [state |-> "draining", purpose |-> "migration", owner |-> o,
                      token |-> gate.token + 1, lease |-> Lease, drain |-> UrlTTL]
       \/ /\ gate.state # "open" /\ gate.purpose = "migration"
          /\ _require_live_owner(o, archive[o].token)
          /\ gate' = [gate EXCEPT !.lease = Lease]
    /\ UNCHANGED <<tenant, run, archive, target, handoff>>

-----------------------------------------------------------------------------
(* The handoff.  A pairing pins the digest of one archive; receipts are    *)
(* signed, persisted once and verified against the pairing.                *)

\* Whichever owner quiesced the gate: retire_source does not compare it with the
\* archive's.
retire_source(o) ==
    /\ archive[o] # None /\ archive[o].published
    /\ handoff = None
    /\ acquire_exclusive /\ gate.state = "quiesced" /\ gate.lease > 0
    /\ gate' = [gate EXCEPT !.state = "migrated_out"]
    /\ handoff' = [pairing |-> o, reopened |-> FALSE]
    /\ UNCHANGED <<tenant, run, archive, target>>

\* The import job has completed and was verified (import_execution.py).
import_archive(o) ==
    /\ archive[o] # None /\ archive[o].published /\ target[o] = "none"
    /\ target' = [target EXCEPT ![o] = "importing"]
    /\ UNCHANGED <<gate, tenant, run, archive, handoff>>

\* With the source's receipt, which stays valid once it was issued.
activate_target(o) ==
    /\ target[o] = "importing"
    /\ handoff # None /\ handoff.pairing = o
    /\ target' = [target EXCEPT ![o] = "active"]
    /\ UNCHANGED <<gate, tenant, run, archive, handoff>>

\* transition_target is a conditional UPDATE from IMPORTING.
abort_target_when(o, from) ==
    /\ target[o] \in from
    /\ target' = [target EXCEPT ![o] = "aborted"]
    /\ UNCHANGED <<gate, tenant, run, archive, handoff>>
abort_target(o) == abort_target_when(o, {"importing"})

reopen_when(o, receipt) ==
    /\ receipt
    /\ handoff = [pairing |-> o, reopened |-> FALSE]
    /\ acquire_exclusive
    /\ handoff' = [handoff EXCEPT !.reopened = TRUE]
    /\ gate' = _open
    /\ UNCHANGED <<tenant, run, archive, target>>

\* Mutant: the source opens again without the target's receipt.
reopen_unproved(o) == reopen_when(o, TRUE)
reopen_source(o) == reopen_when(o, target[o] = "aborted")

-----------------------------------------------------------------------------
Down(t) == IF t = 0 THEN 0 ELSE t - 1

Tick ==
    /\ gate' = [gate EXCEPT !.lease = Down(@), !.drain = Down(@)]
    /\ urls' = [w \in Writers |-> Down(urls[w])]
    /\ run' = [o \in Owners |-> [run[o] EXCEPT !.lease = Down(@), !.drain = Down(@)]]
    /\ <<gate', urls', run'>> # <<gate, urls, run>>
    /\ UNCHANGED <<inside, archive, rows, files, target, handoff>>

WriterStep(w) ==
    boundary_tenant_write(w) \/ Write(w) \/ presign(w) \/ Leave(w) \/ Put(w)

OwnerStep(o) ==
    \/ \E p \in Purposes : quiesced_snapshot(o, p)
    \/ claim(o) \/ stamp_quiesced(o) \/ open_snapshot(o)
    \/ capture_tenant_objects(o) \/ source_archive_boundary(o)
    \/ release_after_copy_capture(o) \/ Crash(o)

Handover(o) ==
    \/ claim_completed_export(o) \/ retire_source(o) \/ import_archive(o)
    \/ activate_target(o) \/ abort_target(o) \/ reopen_source(o)

Next ==
    \/ \E w \in Writers : WriterStep(w)
    \/ \E o \in Owners : OwnerStep(o) \/ Handover(o)
    \/ recover_expired \/ Tick

Spec == Init /\ [][Next]_vars

-----------------------------------------------------------------------------
\* Whoever owns the quiesced or retired source holds an archive of exactly the
\* rows the source still has: no writer that was let in before the gate closed,
\* and none let in by a lost lease, changes them (claim, quiesced_snapshot,
\* boundary_tenant_write, recover_expired).
SnapshotComplete ==
    \A o \in Owners :
        (/\ archive[o] # None /\ gate.owner = o /\ archive[o].token = gate.token
         /\ gate.state \in {"quiesced", "migrated_out"})
            => archive[o].rows = rows

\* The source and a target never both take writes ("both deployments are not
\* writable during cutover"): while a target is active the source stays retired,
\* and nobody is still at work in it (cutover.py, target_cutover.py).
OneHome ==
    (\E o \in Owners : target[o] = "active")
        => gate.state = "migrated_out" /\ inside = {}

\* Neither is lost in a handover, whoever crashes, waits or comes late.
HandoverSafe == SnapshotComplete /\ OneHome
=============================================================================

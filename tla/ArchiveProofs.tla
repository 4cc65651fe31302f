--------------------------- MODULE ArchiveProofs ---------------------------
(***************************************************************************)
(* Theorems about BackupArchives, for every number of archives, nightly    *)
(* runs, changes of the access switch, expiries, deaths and failed calls.  *)
(***************************************************************************)
EXTENDS BackupArchives, FiniteSetTheorems, WellFoundedInduction, TLAPS

-----------------------------------------------------------------------------
(* The inductive invariant.                                                *)

\* What the status of an archive says of the state of its artifact.
Legal(status, state) ==
    /\ status \in {"absent", "pending", "running"} => state = "absent"
    /\ status = "promoting" => state \in Open \cup {"absent", "failed"}
    /\ status = "available" => state \in Promoted \cup {"absent"}
    /\ status = "failed" => state \in {"absent", "failed"}
    /\ status = "expired" => state \in {"absent", "bytes_deleted"}

\* The two rows of an archive, the BackupArchive and its line of the ledger.
RowsAgree ==
    \A a \in Archives : /\ Legal(backup[a].status, artifact[a].state)
                        /\ artifact[a].state # "absent" => Deployment(a)

\* The objects an archive has, or has no longer.
ObjectsHeld ==
    \A a \in Archives :
        /\ backup[a].status = "available" /\ a \notin overdue => a \in published
        /\ artifact[a].state = "final_verified" => a \in published
        /\ ~artifact[a].cleanup =>
              /\ artifact[a].state = "failed" => a \notin staged \cup published
              /\ artifact[a].state \in {"available", "superseded"} => a \notin staged

\* Archive a stands at this status, its artifact in one of these states.
Stands(a, status, states) ==
    a \in Archives /\ backup[a].status = status /\ artifact[a].state \in states

Finished(a) == artifact[a].state \in Promoted \cup {"failed"}

\* How far the archive at work has come, by the step of the owner of the lock.
AtWork ==
    LET a == holder.archive
        s == holder.step
    IN /\ s \in {"claim", "built"} \/ (s = "sweep" /\ holder.task = "demand") => a \in Archives
       /\ s \in {"capture", "claim_promotion"} => Stands(a, "running", {"absent"})
       /\ s = "persist" => Stands(a, "promoting", {"absent"}) /\ Deployment(a)
       /\ s = "upload" => IF Deployment(a) THEN Stands(a, "promoting", {"pending"})
                          ELSE Stands(a, "running", {"absent"})
       /\ s \in {"stage", "finish", "tombstone"} => Stands(a, "promoting", Open)
       /\ s = "publish" => Stands(a, "promoting", IF Deployment(a) THEN Open ELSE {"absent"})
       /\ s = "promote" => Stands(a, "promoting", {"final_verified"})
       /\ s = "complete" => /\ Stands(a, "promoting", {"absent"})
                            /\ ~Deployment(a) /\ a \in published
       /\ s = "bury" => Stands(a, "promoting", {"failed"})
       /\ s = "unstage" => /\ a \in Archives /\ backup[a].status \in {"available", "expired"}
                           /\ Deployment(a) => artifact[a].state \in Promoted
       /\ s = "clean" => a \in Archives \ staged /\ artifact[a].state \in Promoted
       /\ s = "tidied" => /\ a \in Archives \ staged /\ Finished(a)
                          /\ artifact[a].state = "failed" => a \notin published

\* What it has yet to look at.
Queued ==
    /\ holder.step \in {"sweep", "open", "window", "create", "claim"} =>
          holder.task \in {"demand", "schedule"}
    /\ holder.step = "sweep" => holder.todo \subseteq Promoting
    /\ holder.step = "inspect" => holder.task = "reconcile"
    /\ holder.step \in {"tidy", "tidied"} => \A a \in holder.todo : Finished(a)
    /\ holder.task = "reconcile" /\ holder.step \notin {"tidy", "tidied"} =>
          /\ holder.archive \notin holder.todo
          /\ \A a \in holder.todo : artifact[a].state \in Open

\* The archives whose objects the owner of the lock and the purger delete.
Ending ==
    /\ holder.doomed # None => backup[holder.doomed].status = "failed"
    /\ purger # None => backup[purger].status = "available" /\ purger \in overdue

\* Promotions are numbered in their order.
Ordinals ==
    \A a \in Archives :
        /\ artifact[a].promoted > 0 <=> artifact[a].state \in Promoted
        /\ artifact[a].promoted <= Cardinality({b \in Archives : artifact[b].promoted > 0})

Effective == activation.state = "off_effective" => activation.effective \in Archives

History == Ordinals /\ Effective /\ OneLineage /\ ExclusionEarned

ArchiveInv ==
    TypeOK /\ RowsAgree /\ ObjectsHeld /\ AtWork /\ Queued /\ Ending /\ History

-----------------------------------------------------------------------------
(* What the updates of the model do, field by field.                       *)

\* Only the status of a changes.
StatusSet(a, s) ==
    /\ backup' \in [Archives -> BackupRows]
    /\ \A b \in Archives : /\ backup'[b].status = IF b = a THEN s ELSE backup[b].status
                           /\ backup'[b].scope = backup[b].scope

\* Only the state of a and what it has to clean up change.
StateSet(a, s, c) ==
    /\ artifact' \in [Archives -> LedgerRows]
    /\ \A b \in Archives : /\ artifact'[b].state = IF b = a THEN s ELSE artifact[b].state
                           /\ artifact'[b].cleanup = IF b = a THEN c ELSE artifact[b].cleanup
                           /\ artifact'[b].promoted = artifact[b].promoted
                           /\ artifact'[b].facts = artifact[b].facts

LEMMA BackupFields ==
    ASSUME backup \in [Archives -> BackupRows], NEW a, NEW s \in Statuses,
           backup' = [backup EXCEPT ![a].status = s]
    PROVE  StatusSet(a, s)
BY ZenonT(60) DEF StatusSet, BackupRows

LEMMA LedgerFields ==
    ASSUME artifact \in [Archives -> LedgerRows], NEW a,
           NEW s \in Open \cup Promoted \cup {"absent", "failed"}, NEW c \in BOOLEAN,
           artifact' = [artifact EXCEPT ![a].state = s, ![a].cleanup = c]
    PROVE  StateSet(a, s, c)
BY ZenonT(60) DEF StateSet, LedgerRows

LEMMA StateFields ==
    ASSUME artifact \in [Archives -> LedgerRows], NEW a \in Archives,
           NEW s \in Open \cup Promoted \cup {"absent", "failed"},
           artifact' = [artifact EXCEPT ![a].state = s]
    PROVE  StateSet(a, s, artifact[a].cleanup)
BY DEF StateSet, LedgerRows

LEMMA CleanupFields ==
    ASSUME artifact \in [Archives -> LedgerRows], NEW a \in Archives, NEW c \in BOOLEAN,
           artifact' = [artifact EXCEPT ![a].cleanup = c]
    PROVE  StateSet(a, artifact[a].state, c)
BY DEF StateSet, LedgerRows

\* The owner of the lock goes to a step, with the rest as it was.
HolderSet(step, archive, todo, doomed) ==
    /\ holder' \in Holders
    /\ holder'.task = holder.task /\ holder'.step = step /\ holder'.archive = archive
    /\ holder'.todo = todo /\ holder'.doomed = doomed

LEMMA HolderFields ==
    ASSUME holder \in Holders, NEW step \in Steps, NEW archive \in Archives \cup {None},
           NEW todo \in SUBSET Archives, NEW doomed \in Archives \cup {None}
    PROVE  /\ Goes(step) => HolderSet(step, holder.archive, holder.todo, holder.doomed)
           /\ holder' = [holder EXCEPT !.doomed = doomed]
                => HolderSet(holder.step, holder.archive, holder.todo, doomed)
           /\ holder' = [holder EXCEPT !.step = step, !.doomed = doomed]
                => HolderSet(step, holder.archive, holder.todo, doomed)
           /\ holder' = [holder EXCEPT !.archive = archive, !.step = step]
                => HolderSet(step, archive, holder.todo, holder.doomed)
           /\ holder' = [holder EXCEPT !.step = step, !.archive = archive]
                => HolderSet(step, archive, holder.todo, holder.doomed)
           /\ holder' = [holder EXCEPT !.todo = todo]
                => HolderSet(holder.step, holder.archive, todo, holder.doomed)
           /\ holder' = [holder EXCEPT !.todo = todo, !.doomed = doomed]
                => HolderSet(holder.step, holder.archive, todo, doomed)
           /\ holder' = [holder EXCEPT !.step = step, !.todo = todo]
                => HolderSet(step, holder.archive, todo, holder.doomed)
           /\ holder' = [holder EXCEPT !.todo = todo, !.archive = archive, !.step = step]
                => HolderSet(step, archive, todo, holder.doomed)
BY ZenonT(60) DEF HolderSet, Holders, Goes

\* The lock is taken, or given back.
HolderIs(task, step, archive, todo) ==
    /\ holder' \in Holders
    /\ holder'.task = task /\ holder'.step = step /\ holder'.archive = archive
    /\ holder'.todo = todo /\ holder'.doomed = None

LEMMA IdleHolder == Idle \in Holders
<1>1. NoFacts \in Facts
  BY DEF NoFacts, Facts, Switch
<1> QED
  BY <1>1 DEF Idle, Holders, Steps

LEMMA IdleFields == holder' = Idle => HolderIs("none", "none", None, {})
BY IdleHolder DEF HolderIs, Idle

LEMMA TakenFields ==
    ASSUME NEW task \in {"demand", "schedule", "reconcile"}, NEW a \in Archives \cup {None},
           NEW step \in Steps, NEW todo \in SUBSET Archives, Acquires(task, a, step, todo)
    PROVE  /\ HolderIs(task, step, a, todo)
           /\ UNCHANGED <<backup, artifact, staged, published, activation, last_success,
                          backup_run, leased, purger, overdue, switches, mishaps>>
<1>1. holder' = [Idle EXCEPT !.task = task, !.archive = a, !.step = step, !.todo = todo]
  BY DEF Acquires
<1>2. HolderIs(task, step, a, todo)
  BY <1>1, IdleHolder DEF HolderIs, Holders, Idle
<1> QED
  BY <1>2 DEF Acquires, rows, objects, others

-----------------------------------------------------------------------------
(* The facts about data, kept by every step that moves one archive on.     *)

LEMMA RowsMove ==
    ASSUME RowsAgree, NEW a \in Archives, NEW s, NEW state, NEW c,
           StatusSet(a, s), StateSet(a, state, c),
           Legal(s, state), state # "absent" => Deployment(a)
    PROVE  RowsAgree'
<1> SUFFICES ASSUME NEW b \in Archives
             PROVE  /\ Legal(backup'[b].status, artifact'[b].state)
                    /\ artifact'[b].state # "absent" => backup'[b].scope = "deployment"
  BY DEF RowsAgree, Deployment, Legal
<1>1. CASE b = a
  BY <1>1 DEF StatusSet, StateSet, Deployment
<1>2. CASE b # a
  BY <1>2 DEF StatusSet, StateSet, RowsAgree, Deployment
<1> QED
  BY <1>1, <1>2

LEMMA StatusMove ==
    ASSUME RowsAgree, NEW a \in Archives, NEW s, StatusSet(a, s), artifact' = artifact,
           Legal(s, artifact[a].state)
    PROVE  RowsAgree'
BY DEF RowsAgree, StatusSet, Legal, Deployment

LEMMA StateMove ==
    ASSUME RowsAgree, NEW a \in Archives, NEW s, NEW c, StateSet(a, s, c), backup' = backup,
           Legal(backup[a].status, s), s # "absent" => Deployment(a)
    PROVE  RowsAgree'
BY DEF RowsAgree, StateSet, Legal, Deployment

\* What a step outside promotion may do to the state of an artifact.
Kind(from, to) ==
    \/ to = from
    \/ from \notin Promoted /\ to \notin Promoted
    \/ from \in {"available", "superseded"} /\ to = "bytes_deleted"

LEMMA HistoryMove ==
    ASSUME TypeOK, History, NEW a \in Archives, NEW s, NEW c, StateSet(a, s, c),
           Kind(artifact[a].state, s), activation' = activation
    PROVE  History'
<1>1. \A b \in Archives : /\ artifact'[b].state \in Promoted <=> artifact[b].state \in Promoted
                          /\ artifact'[b].state = "available" => artifact[b].state = "available"
                          /\ artifact'[b].promoted = artifact[b].promoted
                          /\ artifact'[b].facts = artifact[b].facts
  BY DEF StateSet, Kind, Promoted
<1>2. {b \in Archives : artifact'[b].promoted > 0} = {b \in Archives : artifact[b].promoted > 0}
  BY <1>1
<1>3. Ordinals'
  BY <1>1, <1>2 DEF History, Ordinals
<1>4. Effective'
  BY DEF History, Effective
<1>5. OneLineage'
  <2>1. \A b \in Archives : artifact[b].facts.predecessor \in Archives \cup {None}
    BY DEF TypeOK, LedgerRows, Facts
  <2> QED
    BY <1>1, <2>1 DEF History, OneLineage
<1>6. ExclusionEarned'
  BY <1>1 DEF History, Effective, ExclusionEarned
<1> QED
  BY <1>3, <1>4, <1>5, <1>6 DEF History

LEMMA HistoryKept ==
    ASSUME History, UNCHANGED <<artifact, activation>>
    PROVE  History'
BY DEF History, Ordinals, Effective, OneLineage, ExclusionEarned

LEMMA RowsKept ==
    ASSUME RowsAgree, UNCHANGED <<backup, artifact>>
    PROVE  RowsAgree'
BY DEF RowsAgree, Legal, Deployment

\* What requests and the purger may do to the archive at work.
LEMMA OwnerKept ==
    ASSUME TypeOK, AtWork, staged' \subseteq staged, holder'.step = holder.step,
           holder'.archive = holder.archive, holder'.task = holder.task,
           \A a \in Archives :
              /\ Deployment(a)' = Deployment(a)
              /\ \/ backup'[a].status = backup[a].status
                 \/ backup[a].status = "pending"
                 \/ backup[a].status = "available" /\ backup'[a].status = "expired"
              /\ Kind(artifact[a].state, artifact'[a].state)
              /\ artifact[a].state \notin Promoted => artifact'[a].state = artifact[a].state
              /\ a \in published /\ backup[a].status = "promoting" => a \in published'
              /\ a \in published' => a \in published
    PROVE  AtWork'
BY DEF AtWork, Stands, Kind, Promoted, Open, Finished

LEMMA FailedFields ==
    ASSUME TypeOK, NEW a \in Archives, Failed(a)
    PROVE  /\ StatusSet(a, "failed")
           /\ IF artifact[a].state \in Open THEN StateSet(a, "failed", TRUE)
              ELSE artifact' = artifact
<1>1. /\ backup \in [Archives -> BackupRows] /\ artifact \in [Archives -> LedgerRows]
      /\ backup' = [backup EXCEPT ![a].status = "failed"]
      /\ artifact' = IF artifact[a].state \in Open
                     THEN [artifact EXCEPT ![a].state = "failed", ![a].cleanup = TRUE]
                     ELSE artifact
  BY DEF TypeOK, Failed
<1>2. StatusSet(a, "failed")
  BY <1>1, BackupFields DEF Statuses
<1>3. CASE artifact[a].state \in Open
  BY <1>1, <1>2, <1>3, LedgerFields
<1>4. CASE artifact[a].state \notin Open
  BY <1>1, <1>2, <1>4
<1> QED
  BY <1>3, <1>4

\* The rows that fail stay in order, and their objects need not be there.
LEMMA FailedRows ==
    ASSUME TypeOK, RowsAgree, History, NEW a \in Archives, Failed(a), activation' = activation,
           artifact[a].state \notin Promoted
    PROVE  RowsAgree' /\ History'
<1>1. CASE artifact[a].state \in Open
  <2>1. RowsAgree'
    BY <1>1, FailedFields, RowsMove DEF RowsAgree, Legal, Open
  <2>2. History'
    BY <1>1, FailedFields, HistoryMove DEF Kind, Promoted, Open
  <2> QED
    BY <2>1, <2>2
<1>2. CASE artifact[a].state \notin Open
  <2>1. StateSet(a, artifact[a].state, artifact[a].cleanup)
    BY <1>2, FailedFields DEF StateSet, TypeOK
  <2>2. Legal("failed", artifact[a].state)
    BY <1>2 DEF Legal, RowsAgree, TypeOK, LedgerRows
  <2>3. RowsAgree'
    BY <2>1, <2>2, FailedFields, RowsMove DEF RowsAgree
  <2>4. History'
    BY <1>2, FailedFields, HistoryKept
  <2> QED
    BY <2>3, <2>4
<1> QED
  BY <1>1, <1>2

LEMMA LeastNumber ==
    ASSUME NEW U \in SUBSET Nat, U # {}
    PROVE  \E b \in U : \A o \in U : b <= o
<1>1. \E R : /\ \E b \in U : \A o \in U : ~(<<o, b>> \in R)
             /\ \A o, b \in U : <<o, b>> \in R <=> o < b
  <2>1. \E b \in U : \A o \in U : ~(<<o, b>> \in OpToRel(<, Nat))
    BY NatLessThanWellFounded, WFMin
  <2>2. \A o, b \in U : <<o, b>> \in OpToRel(<, Nat) <=> o < b
    BY DEF OpToRel
  <2> QED
    BY <2>1, <2>2, Zenon
<1>2. PICK b \in U : \A o \in U : ~(o < b)
  BY <1>1, Zenon
<1> QED
  BY <1>2

\* The predecessor that a capture freezes is the current artifact promoted last.
LEMMA Predecessor ==
    ASSUME ArchiveConstants, TypeOK, Ordinals
    PROVE  predecessor_snapshot \in Archives \cup {None}
<1> DEFINE current == {a \in Archives : artifact[a].state = "available"}
           most == Cardinality({b \in Archives : artifact[b].promoted > 0})
           U == {most - artifact[a].promoted : a \in current}
<1>1. most \in Nat
  <2>1. IsFiniteSet({b \in Archives : artifact[b].promoted > 0})
    BY FS_Subset DEF ArchiveConstants
  <2> QED
    BY <2>1, FS_CardinalityType
<1>2. \A a \in Archives : artifact[a].promoted \in Nat /\ artifact[a].promoted <= most
  BY DEF TypeOK, LedgerRows, Ordinals
<1> HIDE DEF most
<1>3. CASE current # {}
  <2>1. U \in SUBSET Nat /\ U # {}
    BY <1>1, <1>2, <1>3
  <2>2. PICK u \in U : \A o \in U : u <= o
    BY <2>1, LeastNumber
  <2>3. PICK a \in current : u = most - artifact[a].promoted
    BY <2>2
  <2>4. \A b \in current : artifact[b].promoted <= artifact[a].promoted
    <3>1. SUFFICES ASSUME NEW b \in current
                   PROVE  artifact[b].promoted <= artifact[a].promoted
      OBVIOUS
    <3>2. most - artifact[b].promoted \in U
      OBVIOUS
    <3>3. most - artifact[a].promoted <= most - artifact[b].promoted
      BY <2>2, <2>3, <3>2
    <3> QED
      BY <1>1, <1>2, <3>3
  <2> QED
    BY <1>3, <2>3, <2>4 DEF predecessor_snapshot
<1>4. CASE current = {}
  BY <1>4 DEF predecessor_snapshot
<1> QED
  BY <1>3, <1>4

-----------------------------------------------------------------------------
(* Requests, the purger and faults.                                        *)

LEMMA DispatchFails ==
    ASSUME ArchiveConstants, ArchiveInv, NEW a \in Archives, fail_archive_dispatch(a)
    PROVE  ArchiveInv'
<1>1. /\ backup[a].status = "pending"
      /\ artifact[a].state = "absent"
  BY DEF fail_archive_dispatch, ArchiveInv, RowsAgree, Legal
<1>2. /\ StatusSet(a, "failed")
      /\ mishaps' = mishaps + 1
      /\ UNCHANGED <<artifact, staged, published, activation, last_success, backup_run,
                     holder, leased, purger, overdue, switches>>
  <2>1. /\ backup \in [Archives -> BackupRows]
        /\ backup' = [backup EXCEPT ![a].status = "failed"]
        /\ mishaps' = mishaps + 1
        /\ UNCHANGED <<artifact, staged, published, activation, last_success,
                       backup_run, holder, leased, purger, overdue, switches>>
    BY <1>1 DEF fail_archive_dispatch, Mishap, objects, others, rows, ArchiveInv, TypeOK
  <2>2. StatusSet(a, "failed")
    BY <1>1, <2>1, BackupFields DEF Statuses
  <2> QED
    BY <2>1, <2>2
<1>3. TypeOK'
  BY <1>1, <1>2 DEF ArchiveInv, TypeOK, StatusSet
<1>4. RowsAgree'
  BY <1>1, <1>2, StatusMove DEF ArchiveInv, Legal, Open
<1>5. ObjectsHeld'
  BY <1>1, <1>2 DEF ArchiveInv, ObjectsHeld, StatusSet
<1>6. AtWork'
  BY <1>1, <1>2, OwnerKept
     DEF ArchiveInv, Kind, Open, Promoted, Deployment, TypeOK, BackupRows, LedgerRows,
     StatusSet
<1>7. Queued' /\ Ending'
  BY <1>1, <1>2
     DEF ArchiveInv, Queued, Ending, Finished, Promoting, Open, Promoted, StatusSet,
     TypeOK, Holders
<1>8. History'
  BY <1>2, HistoryKept DEF ArchiveInv
<1> QED
  BY <1>3, <1>4, <1>5, <1>6, <1>7, <1>8 DEF ArchiveInv

LEMMA Expiry ==
    ASSUME ArchiveConstants, ArchiveInv, NEW a \in Archives, Expires(a)
    PROVE  ArchiveInv'
<1>1. /\ overdue' = overdue \cup {a}
      /\ UNCHANGED <<backup, artifact, staged, published, activation, last_success,
                     backup_run, holder, leased, purger, switches, mishaps>>
  BY DEF Expires, objects, others, rows
<1>2. TypeOK'
  BY <1>1 DEF ArchiveInv, TypeOK
<1>3. RowsAgree'
  BY <1>1, RowsKept DEF ArchiveInv
<1>4. ObjectsHeld'
  BY <1>1 DEF ArchiveInv, ObjectsHeld
<1>5. AtWork'
  BY <1>1, OwnerKept
     DEF ArchiveInv, Kind, Open, Promoted, Deployment, TypeOK, BackupRows, LedgerRows
<1>6. Queued' /\ Ending'
  BY <1>1
     DEF ArchiveInv, Queued, Ending, Finished, Promoting, Open, Promoted, TypeOK,
     Holders
<1>7. History'
  BY <1>1, HistoryKept DEF ArchiveInv
<1> QED
  BY <1>2, <1>3, <1>4, <1>5, <1>6, <1>7 DEF ArchiveInv

LEMMA PurgerStarts ==
    ASSUME ArchiveConstants, ArchiveInv, NEW a \in Archives, purge_expired_archives(a)
    PROVE  ArchiveInv'
<1>1. /\ purger' = a /\ published' = published \ {a}
      /\ a \in overdue /\ backup[a].status = "available"
      /\ UNCHANGED <<backup, artifact, staged, activation, last_success, backup_run,
                     holder, leased, overdue, switches, mishaps>>
  BY DEF purge_expired_archives, objects, others, rows
<1>2. TypeOK'
  BY <1>1 DEF ArchiveInv, TypeOK
<1>3. RowsAgree'
  BY <1>1, RowsKept DEF ArchiveInv
<1>4. ObjectsHeld'
  BY <1>1 DEF ArchiveInv, ObjectsHeld, RowsAgree, Legal, Open, Promoted
<1>5. AtWork'
  BY <1>1, OwnerKept
     DEF ArchiveInv, Kind, Open, Promoted, Deployment, TypeOK, BackupRows, LedgerRows
<1>6. Queued' /\ Ending'
  BY <1>1
     DEF ArchiveInv, Queued, Ending, Finished, Promoting, Open, Promoted, TypeOK,
     Holders
<1>7. History'
  BY <1>1, HistoryKept DEF ArchiveInv
<1> QED
  BY <1>2, <1>3, <1>4, <1>5, <1>6, <1>7 DEF ArchiveInv

LEMMA BytesDeleted ==
    ASSUME ArchiveConstants, ArchiveInv, mark_managed_bytes_deleted
    PROVE  ArchiveInv'
<1>1. /\ purger \in Archives
      /\ backup[purger].status = "available" /\ purger \in overdue
      /\ artifact[purger].state \in {"available", "superseded"}
  BY DEF mark_managed_bytes_deleted, ArchiveInv, TypeOK, Ending
<1>2. /\ StateSet(purger, "bytes_deleted", FALSE)
      /\ UNCHANGED <<backup, staged, published, activation, last_success, backup_run,
                     holder, leased, purger, overdue, switches, mishaps>>
  <2>1. /\ artifact \in [Archives -> LedgerRows]
        /\ artifact' = [artifact EXCEPT ![purger].state = "bytes_deleted",
                   ![purger].cleanup = FALSE]
        /\ UNCHANGED <<backup, staged, published, activation, last_success, backup_run,
                       holder, leased, purger, overdue, switches, mishaps>>
    BY <1>1 DEF mark_managed_bytes_deleted, objects, others, rows, ArchiveInv, TypeOK
  <2>2. StateSet(purger, "bytes_deleted", FALSE)
    BY <1>1, <2>1, LedgerFields DEF Open, Promoted
  <2> QED
    BY <2>1, <2>2
<1>3. TypeOK'
  BY <1>1, <1>2 DEF ArchiveInv, TypeOK, StateSet
<1>4. RowsAgree'
  BY <1>1, <1>2, StateMove DEF ArchiveInv, Legal, Open, Promoted, RowsAgree
<1>5. ObjectsHeld'
  BY <1>1, <1>2 DEF ArchiveInv, ObjectsHeld, StateSet
<1>6. AtWork'
  BY <1>1, <1>2, OwnerKept
     DEF ArchiveInv, Kind, Open, Promoted, Deployment, TypeOK, BackupRows, LedgerRows,
     StateSet
<1>7. Queued' /\ Ending'
  BY <1>1, <1>2, ZenonT(60)
     DEF ArchiveInv, Queued, Ending, Finished, Promoting, Open, Promoted, StateSet,
     TypeOK, Holders
<1>8. History'
  BY <1>1, <1>2, HistoryMove DEF ArchiveInv, Kind, Open, Promoted, TypeOK
<1> QED
  BY <1>3, <1>4, <1>5, <1>6, <1>7, <1>8 DEF ArchiveInv

LEMMA PurgerEnds ==
    ASSUME ArchiveConstants, ArchiveInv, PurgeRow
    PROVE  ArchiveInv'
<1>1. /\ purger \in Archives
      /\ backup[purger].status = "available" /\ purger \in overdue
      /\ artifact[purger].state \in {"absent", "bytes_deleted"}
  BY DEF PurgeRow, ArchiveInv, TypeOK, Ending, RowsAgree, Legal, Promoted
<1>2. /\ StatusSet(purger, "expired")
      /\ purger' = None
      /\ UNCHANGED <<artifact, staged, published, activation, last_success, backup_run,
                     holder, leased, overdue, switches, mishaps>>
  <2>1. /\ backup \in [Archives -> BackupRows]
        /\ backup' = [backup EXCEPT ![purger].status = "expired"]
        /\ purger' = None
        /\ UNCHANGED <<artifact, staged, published, activation, last_success,
                       backup_run, holder, leased, overdue, switches, mishaps>>
    BY <1>1 DEF PurgeRow, objects, others, rows, ArchiveInv, TypeOK
  <2>2. StatusSet(purger, "expired")
    BY <1>1, <2>1, BackupFields DEF Statuses
  <2> QED
    BY <2>1, <2>2
<1>3. TypeOK'
  BY <1>1, <1>2 DEF ArchiveInv, TypeOK, StatusSet
<1>4. RowsAgree'
  BY <1>1, <1>2, StatusMove DEF ArchiveInv, Legal, Open
<1>5. ObjectsHeld'
  BY <1>1, <1>2 DEF ArchiveInv, ObjectsHeld, StatusSet
<1>6. AtWork'
  BY <1>1, <1>2, OwnerKept
     DEF ArchiveInv, Kind, Open, Promoted, Deployment, TypeOK, BackupRows, LedgerRows,
     StatusSet
<1>7. Queued' /\ Ending'
  BY <1>1, <1>2
     DEF ArchiveInv, Queued, Ending, Finished, Promoting, Open, Promoted, StatusSet,
     TypeOK, Holders
<1>8. History'
  BY <1>2, HistoryKept DEF ArchiveInv
<1> QED
  BY <1>3, <1>4, <1>5, <1>6, <1>7, <1>8 DEF ArchiveInv

LEMMA LapsedLease ==
    ASSUME ArchiveConstants, ArchiveInv, LeaseLapses
    PROVE  ArchiveInv'
<1>1. /\ leased' = "no"
      /\ UNCHANGED <<backup, artifact, staged, published, activation, last_success,
                     backup_run, holder, purger, overdue, switches, mishaps>>
  BY DEF LeaseLapses, objects, others, rows
<1>2. TypeOK'
  BY <1>1 DEF ArchiveInv, TypeOK
<1>3. RowsAgree'
  BY <1>1, RowsKept DEF ArchiveInv
<1>4. ObjectsHeld'
  BY <1>1 DEF ArchiveInv, ObjectsHeld
<1>5. AtWork'
  BY <1>1, OwnerKept
     DEF ArchiveInv, Kind, Open, Promoted, Deployment, TypeOK, BackupRows, LedgerRows
<1>6. Queued' /\ Ending'
  BY <1>1
     DEF ArchiveInv, Queued, Ending, Finished, Promoting, Open, Promoted, TypeOK,
     Holders
<1>7. History'
  BY <1>1, HistoryKept DEF ArchiveInv
<1> QED
  BY <1>2, <1>3, <1>4, <1>5, <1>6, <1>7 DEF ArchiveInv

-----------------------------------------------------------------------------
(* Taking the lock and giving it back.                                     *)

LEMMA RunArchive ==
    ASSUME ArchiveConstants, ArchiveInv, NEW a \in Archives, run_archive(a)
    PROVE  ArchiveInv'
<1>1. /\ HolderIs("demand", "sweep", a, Promoting)
      /\ UNCHANGED <<backup, artifact, staged, published, activation, last_success,
                     backup_run, leased, purger, overdue, switches, mishaps>>
  BY TakenFields DEF run_archive, Steps, Promoting
<1>2. TypeOK'
  BY <1>1 DEF ArchiveInv, TypeOK, HolderIs
<1>3. RowsAgree'
  BY <1>1, RowsKept DEF ArchiveInv
<1>4. ObjectsHeld'
  BY <1>1 DEF ArchiveInv, ObjectsHeld
<1>5. AtWork'
  BY <1>1 DEF ArchiveInv, AtWork, Stands, Deployment, Open, Promoted, HolderIs
<1>6. Queued' /\ Ending'
  BY <1>1
     DEF ArchiveInv, Queued, Ending, Finished, Promoting, Open, Promoted, HolderIs,
     TypeOK, Holders
<1>7. History'
  BY <1>1, HistoryKept DEF ArchiveInv
<1> QED
  BY <1>2, <1>3, <1>4, <1>5, <1>6, <1>7 DEF ArchiveInv

LEMMA ScheduleBackup ==
    ASSUME ArchiveConstants, ArchiveInv, schedule_deployment_backup
    PROVE  ArchiveInv'
<1>1. /\ HolderIs("schedule", "sweep", None, Promoting)
      /\ UNCHANGED <<backup, artifact, staged, published, activation, last_success,
                     backup_run, leased, purger, overdue, switches, mishaps>>
  BY TakenFields DEF schedule_deployment_backup, Steps, Promoting
<1>2. TypeOK'
  BY <1>1 DEF ArchiveInv, TypeOK, HolderIs
<1>3. RowsAgree'
  BY <1>1, RowsKept DEF ArchiveInv
<1>4. ObjectsHeld'
  BY <1>1 DEF ArchiveInv, ObjectsHeld
<1>5. AtWork'
  BY <1>1 DEF ArchiveInv, AtWork, Stands, Deployment, Open, Promoted, HolderIs
<1>6. Queued' /\ Ending'
  BY <1>1
     DEF ArchiveInv, Queued, Ending, Finished, Promoting, Open, Promoted, HolderIs,
     TypeOK, Holders
<1>7. History'
  BY <1>1, HistoryKept DEF ArchiveInv
<1> QED
  BY <1>2, <1>3, <1>4, <1>5, <1>6, <1>7 DEF ArchiveInv

LEMMA ReconcileUploads ==
    ASSUME ArchiveConstants, ArchiveInv, reconcile_artifact_uploads
    PROVE  ArchiveInv'
<1>1. /\ HolderIs("reconcile", "inspect", None, {a \in Archives : artifact[a].state \in Open})
      /\ UNCHANGED <<backup, artifact, staged, published, activation, last_success,
                     backup_run, leased, purger, overdue, switches, mishaps>>
  BY TakenFields DEF reconcile_artifact_uploads, Steps
<1>2. TypeOK'
  BY <1>1 DEF ArchiveInv, TypeOK, HolderIs
<1>3. RowsAgree'
  BY <1>1, RowsKept DEF ArchiveInv
<1>4. ObjectsHeld'
  BY <1>1 DEF ArchiveInv, ObjectsHeld
<1>5. AtWork'
  BY <1>1 DEF ArchiveInv, AtWork, Stands, Deployment, Open, Promoted, HolderIs
<1>6. Queued' /\ Ending'
  BY <1>1
     DEF ArchiveInv, Queued, Ending, Finished, Promoting, Open, Promoted, HolderIs,
     TypeOK, Holders, ArchiveConstants
<1>7. History'
  BY <1>1, HistoryKept DEF ArchiveInv
<1> QED
  BY <1>2, <1>3, <1>4, <1>5, <1>6, <1>7 DEF ArchiveInv

LEMMA WindowShut ==
    ASSUME ArchiveConstants, ArchiveInv, NotDue
    PROVE  ArchiveInv'
<1>1. /\ HolderIs("none", "none", None, {})
      /\ UNCHANGED <<backup, artifact, staged, published, activation, last_success,
                     backup_run, leased, purger, overdue, switches, mishaps>>
  <2>1. /\ holder' = Idle
        /\ UNCHANGED <<backup, artifact, staged, published, activation, last_success,
                       backup_run, leased, purger, overdue, switches, mishaps>>
    BY DEF NotDue, At, Idle, NoFacts, objects, others, rows, ArchiveInv, TypeOK
  <2>2. HolderIs("none", "none", None, {})
    BY <2>1, IdleFields
  <2> QED
    BY <2>1, <2>2
<1>2. TypeOK'
  BY <1>1 DEF ArchiveInv, TypeOK, HolderIs
<1>3. RowsAgree'
  BY <1>1, RowsKept DEF ArchiveInv
<1>4. ObjectsHeld'
  BY <1>1 DEF ArchiveInv, ObjectsHeld
<1>5. AtWork'
  BY <1>1 DEF ArchiveInv, AtWork, Stands, Deployment, Open, Promoted, HolderIs
<1>6. Queued' /\ Ending'
  BY <1>1
     DEF ArchiveInv, Queued, Ending, Finished, Promoting, Open, Promoted, HolderIs,
     TypeOK, Holders
<1>7. History'
  BY <1>1, HistoryKept DEF ArchiveInv
<1> QED
  BY <1>2, <1>3, <1>4, <1>5, <1>6, <1>7 DEF ArchiveInv

LEMMA BuiltOnDemand ==
    ASSUME ArchiveConstants, ArchiveInv, Built
    PROVE  ArchiveInv'
<1>1. /\ HolderIs("none", "none", None, {})
      /\ leased' \in {leased, "no"}
      /\ UNCHANGED <<backup, artifact, staged, published, activation, last_success,
                     backup_run, purger, overdue, switches, mishaps>>
  <2>1. /\ holder' = Idle
        /\ leased' \in {leased, "no"}
        /\ UNCHANGED <<backup, artifact, staged, published, activation, last_success,
                       backup_run, purger, overdue, switches, mishaps>>
    BY DEF Built, Ends, At, Idle, NoFacts, objects, others, rows, ArchiveInv, TypeOK
  <2>2. HolderIs("none", "none", None, {})
    BY <2>1, IdleFields
  <2> QED
    BY <2>1, <2>2
<1>2. TypeOK'
  BY <1>1 DEF ArchiveInv, TypeOK, HolderIs
<1>3. RowsAgree'
  BY <1>1, RowsKept DEF ArchiveInv
<1>4. ObjectsHeld'
  BY <1>1 DEF ArchiveInv, ObjectsHeld
<1>5. AtWork'
  BY <1>1 DEF ArchiveInv, AtWork, Stands, Deployment, Open, Promoted, HolderIs
<1>6. Queued' /\ Ending'
  BY <1>1
     DEF ArchiveInv, Queued, Ending, Finished, Promoting, Open, Promoted, HolderIs,
     TypeOK, Holders
<1>7. History'
  BY <1>1, HistoryKept DEF ArchiveInv
<1> QED
  BY <1>2, <1>3, <1>4, <1>5, <1>6, <1>7 DEF ArchiveInv

LEMMA ReconcilerEnds ==
    ASSUME ArchiveConstants, ArchiveInv, Reconciled
    PROVE  ArchiveInv'
<1>1. /\ HolderIs("none", "none", None, {})
      /\ UNCHANGED <<backup, artifact, staged, published, activation, last_success,
                     backup_run, leased, purger, overdue, switches, mishaps>>
  <2>1. /\ holder' = Idle
        /\ UNCHANGED <<backup, artifact, staged, published, activation, last_success,
                       backup_run, leased, purger, overdue, switches, mishaps>>
    BY DEF Reconciled, Idle, NoFacts, At, objects, others, rows, ArchiveInv, TypeOK
  <2>2. HolderIs("none", "none", None, {})
    BY <2>1, IdleFields
  <2> QED
    BY <2>1, <2>2
<1>2. TypeOK'
  BY <1>1 DEF ArchiveInv, TypeOK, HolderIs
<1>3. RowsAgree'
  BY <1>1, RowsKept DEF ArchiveInv
<1>4. ObjectsHeld'
  BY <1>1 DEF ArchiveInv, ObjectsHeld
<1>5. AtWork'
  BY <1>1 DEF ArchiveInv, AtWork, Stands, Deployment, Open, Promoted, HolderIs
<1>6. Queued' /\ Ending'
  BY <1>1
     DEF ArchiveInv, Queued, Ending, Finished, Promoting, Open, Promoted, HolderIs,
     TypeOK, Holders
<1>7. History'
  BY <1>1, HistoryKept DEF ArchiveInv
<1> QED
  BY <1>2, <1>3, <1>4, <1>5, <1>6, <1>7 DEF ArchiveInv

-----------------------------------------------------------------------------
(* The nightly run.                                                        *)

LEMMA StaleRuns ==
    ASSUME ArchiveConstants, ArchiveInv, _fail_stale_runs
    PROVE  ArchiveInv'
<1>1. /\ HolderSet("window", holder.archive, holder.todo, holder.doomed)
      /\ leased' \in {leased, "no"}
      /\ backup_run' \in {backup_run, [backup_run EXCEPT !.status = "failed"]}
      /\ holder.step = "open"
      /\ UNCHANGED <<backup, artifact, staged, published, activation, last_success,
                     purger, overdue, switches, mishaps>>
  <2>1. /\ holder \in Holders
        /\ Goes("window")
        /\ leased' \in {leased, "no"}
        /\ backup_run' \in {backup_run, [backup_run EXCEPT !.status = "failed"]}
        /\ holder.step = "open"
        /\ UNCHANGED <<backup, artifact, staged, published, activation, last_success,
                       purger, overdue, switches, mishaps>>
    BY DEF _fail_stale_runs, Goes, At, objects, others, rows, ArchiveInv, TypeOK
  <2>2. HolderSet("window", holder.archive, holder.todo, holder.doomed)
    BY <2>1, HolderFields DEF Steps, Holders
  <2> QED
    BY <2>1, <2>2
<1>2. TypeOK'
  BY <1>1 DEF ArchiveInv, TypeOK, HolderSet
<1>3. RowsAgree'
  BY <1>1, RowsKept DEF ArchiveInv
<1>4. ObjectsHeld'
  BY <1>1 DEF ArchiveInv, ObjectsHeld
<1>5. AtWork'
  BY <1>1 DEF ArchiveInv, AtWork, Stands, Deployment, Open, Promoted, HolderSet
<1>6. Queued' /\ Ending'
  BY <1>1
     DEF ArchiveInv, Queued, Ending, Finished, Promoting, Open, Promoted, HolderSet,
     TypeOK, Holders
<1>7. History'
  BY <1>1, HistoryKept DEF ArchiveInv
<1> QED
  BY <1>2, <1>3, <1>4, <1>5, <1>6, <1>7 DEF ArchiveInv

LEMMA RunCovered ==
    ASSUME ArchiveConstants, ArchiveInv, _mark_coverage_covered
    PROVE  ArchiveInv'
<1>1. /\ HolderSet(IF ~backup_run.flag /\ Deployment(holder.archive) THEN "create" ELSE "finalize",
                     holder.archive, holder.todo, holder.doomed)
      /\ holder.task = "schedule"
      /\ backup_run' \in {backup_run, [backup_run EXCEPT !.covered = TRUE]}
      /\ holder.step = "built"
      /\ UNCHANGED <<backup, artifact, staged, published, activation, last_success,
                     leased, purger, overdue, switches, mishaps>>
  <2>1. /\ holder \in Holders
        /\ Goes(IF ~backup_run.flag /\ Deployment(holder.archive) THEN "create" ELSE "finalize")
        /\ holder.task = "schedule"
        /\ backup_run' \in {backup_run, [backup_run EXCEPT !.covered = TRUE]}
        /\ holder.step = "built"
        /\ UNCHANGED <<backup, artifact, staged, published, activation, last_success,
                       leased, purger, overdue, switches, mishaps>>
    BY DEF _mark_coverage_covered, Goes, At, objects, others, rows, ArchiveInv, TypeOK
  <2>2. HolderSet(IF ~backup_run.flag /\ Deployment(holder.archive) THEN "create" ELSE "finalize",
            holder.archive, holder.todo, holder.doomed)
    BY <2>1, HolderFields DEF Steps, Holders
  <2> QED
    BY <2>1, <2>2
<1>2. TypeOK'
  BY <1>1 DEF ArchiveInv, TypeOK, HolderSet
<1>3. RowsAgree'
  BY <1>1, RowsKept DEF ArchiveInv
<1>4. ObjectsHeld'
  BY <1>1 DEF ArchiveInv, ObjectsHeld
<1>5. AtWork'
  BY <1>1 DEF ArchiveInv, AtWork, Stands, Deployment, Open, Promoted, HolderSet
<1>6. Queued' /\ Ending'
  BY <1>1
     DEF ArchiveInv, Queued, Ending, Finished, Promoting, Open, Promoted, HolderSet,
     TypeOK, Holders
<1>7. History'
  BY <1>1, HistoryKept DEF ArchiveInv
<1> QED
  BY <1>2, <1>3, <1>4, <1>5, <1>6, <1>7 DEF ArchiveInv

-----------------------------------------------------------------------------
(* Building.                                                               *)

LEMMA ClaimsPromotion ==
    ASSUME ArchiveConstants, ArchiveInv, _claim_promotion
    PROVE  ArchiveInv'
<1>1. /\ holder.archive \in Archives /\ holder.step = "claim_promotion" /\ holder.doomed = None
      /\ backup[holder.archive].status = "running"
      /\ artifact[holder.archive].state = "absent"
  BY DEF _claim_promotion, At, ArchiveInv, AtWork, Stands, RowsAgree, Legal, Open,
  Promoted
<1>2. /\ StatusSet(holder.archive, "promoting")
      /\ HolderSet(IF Deployment(holder.archive) THEN "persist" ELSE "publish", holder.archive,
                     holder.todo, holder.doomed)
      /\ UNCHANGED <<artifact, staged, published, activation, last_success, backup_run,
                     leased, purger, overdue, switches, mishaps>>
  <2>1. /\ backup \in [Archives -> BackupRows]
        /\ backup' = [backup EXCEPT ![holder.archive].status = "promoting"]
        /\ holder \in Holders
        /\ Goes(IF Deployment(holder.archive) THEN "persist" ELSE "publish")
        /\ UNCHANGED <<artifact, staged, published, activation, last_success,
                       backup_run, leased, purger, overdue, switches, mishaps>>
    BY <1>1 DEF _claim_promotion, Goes, At, objects, others, rows, ArchiveInv, TypeOK
  <2>2. StatusSet(holder.archive, "promoting")
    BY <1>1, <2>1, BackupFields DEF Statuses
  <2>3. HolderSet(IF Deployment(holder.archive) THEN "persist" ELSE "publish", holder.archive,
            holder.todo, holder.doomed)
    BY <1>1, <2>1, HolderFields, ZenonT(60) DEF Steps, Holders
  <2> QED
    BY <2>1, <2>2, <2>3
<1>3. TypeOK'
  BY <1>1, <1>2 DEF ArchiveInv, TypeOK, HolderSet, StatusSet
<1>4. RowsAgree'
  BY <1>1, <1>2, StatusMove DEF ArchiveInv, Legal, Open
<1>5. ObjectsHeld'
  BY <1>1, <1>2 DEF ArchiveInv, ObjectsHeld, StatusSet
<1>6. AtWork'
  BY <1>1, <1>2
     DEF ArchiveInv, AtWork, Stands, Deployment, Open, Promoted, HolderSet, StatusSet
<1>7. Queued' /\ Ending'
  BY <1>1, <1>2
     DEF ArchiveInv, Queued, Ending, Finished, Promoting, Open, Promoted, HolderSet,
     StatusSet, TypeOK, Holders
<1>8. History'
  BY <1>2, HistoryKept DEF ArchiveInv
<1> QED
  BY <1>3, <1>4, <1>5, <1>6, <1>7, <1>8 DEF ArchiveInv

LEMMA Uploads ==
    ASSUME ArchiveConstants, ArchiveInv, upload_staging
    PROVE  ArchiveInv'
<1>1. /\ holder.archive \in Archives /\ holder.step = "upload" /\ holder.doomed = None
      /\ artifact[holder.archive].state \in {"pending", "absent"}
  BY DEF upload_staging, At, ArchiveInv, AtWork, Stands, RowsAgree, Legal, Open, Promoted
<1>2. /\ HolderSet(IF Deployment(holder.archive) THEN "stage" ELSE "claim_promotion", holder.archive,
                     holder.todo, holder.doomed)
      /\ staged' = staged \cup {holder.archive}
      /\ UNCHANGED <<backup, artifact, published, activation, last_success, backup_run,
                     leased, purger, overdue, switches, mishaps>>
  <2>1. /\ holder \in Holders
        /\ Goes(IF Deployment(holder.archive) THEN "stage" ELSE "claim_promotion")
        /\ staged' = staged \cup {holder.archive}
        /\ UNCHANGED <<backup, artifact, published, activation, last_success,
                       backup_run, leased, purger, overdue, switches, mishaps>>
    BY <1>1 DEF upload_staging, Goes, At, objects, others, rows, ArchiveInv, TypeOK
  <2>2. HolderSet(IF Deployment(holder.archive) THEN "stage" ELSE "claim_promotion", holder.archive,
            holder.todo, holder.doomed)
    BY <1>1, <2>1, HolderFields, ZenonT(60) DEF Steps, Holders
  <2> QED
    BY <2>1, <2>2
<1>3. TypeOK'
  BY <1>1, <1>2 DEF ArchiveInv, TypeOK, HolderSet
<1>4. RowsAgree'
  BY <1>2, RowsKept DEF ArchiveInv
<1>5. ObjectsHeld'
  BY <1>1, <1>2 DEF ArchiveInv, ObjectsHeld
<1>6. AtWork'
  BY <1>1, <1>2 DEF ArchiveInv, AtWork, Stands, Deployment, Open, Promoted, HolderSet
<1>7. Queued' /\ Ending'
  BY <1>1, <1>2
     DEF ArchiveInv, Queued, Ending, Finished, Promoting, Open, Promoted, HolderSet,
     TypeOK, Holders
<1>8. History'
  BY <1>2, HistoryKept DEF ArchiveInv
<1> QED
  BY <1>3, <1>4, <1>5, <1>6, <1>7, <1>8 DEF ArchiveInv

LEMMA StagingVerified ==
    ASSUME ArchiveConstants, ArchiveInv, mark_staging_verified
    PROVE  ArchiveInv'
<1>1. /\ holder.archive \in Archives /\ holder.step = "stage" /\ holder.doomed = None
      /\ backup[holder.archive].status = "promoting"
      /\ artifact[holder.archive].state \in Open
      /\ Deployment(holder.archive)
  BY DEF mark_staging_verified, At, ArchiveInv, AtWork, Stands, RowsAgree, Legal, Open,
  Promoted
<1>2. /\ StateSet(holder.archive, "staging_verified", artifact[holder.archive].cleanup)
      /\ HolderSet("publish", holder.archive, holder.todo, holder.doomed)
      /\ UNCHANGED <<backup, staged, published, activation, last_success, backup_run,
                     leased, purger, overdue, switches, mishaps>>
  <2>1. /\ artifact \in [Archives -> LedgerRows]
        /\ artifact' = [artifact EXCEPT ![holder.archive].state = "staging_verified"]
        /\ holder \in Holders
        /\ Goes("publish")
        /\ UNCHANGED <<backup, staged, published, activation, last_success, backup_run,
                       leased, purger, overdue, switches, mishaps>>
    BY <1>1 DEF mark_staging_verified, Goes, At, objects, others, rows, ArchiveInv, TypeOK
  <2>2. StateSet(holder.archive, "staging_verified", artifact[holder.archive].cleanup)
    BY <1>1, <2>1, StateFields DEF Open
  <2>3. HolderSet("publish", holder.archive, holder.todo, holder.doomed)
    BY <1>1, <2>1, HolderFields, ZenonT(60) DEF Steps, Holders
  <2> QED
    BY <2>1, <2>2, <2>3
<1>3. TypeOK'
  BY <1>1, <1>2 DEF ArchiveInv, TypeOK, HolderSet, StateSet
<1>4. RowsAgree'
  BY <1>1, <1>2, StateMove DEF ArchiveInv, Legal, Open
<1>5. ObjectsHeld'
  BY <1>1, <1>2 DEF ArchiveInv, ObjectsHeld, StateSet
<1>6. AtWork'
  BY <1>1, <1>2
     DEF ArchiveInv, AtWork, Stands, Deployment, Open, Promoted, HolderSet, StateSet
<1>7. Queued' /\ Ending'
  BY <1>1, <1>2
     DEF ArchiveInv, Queued, Ending, Finished, Promoting, Open, Promoted, HolderSet,
     StateSet, TypeOK, Holders
<1>8. History'
  BY <1>1, <1>2, HistoryMove DEF ArchiveInv, Kind, Open, Promoted, TypeOK
<1> QED
  BY <1>3, <1>4, <1>5, <1>6, <1>7, <1>8 DEF ArchiveInv

LEMMA Publishes ==
    ASSUME ArchiveConstants, ArchiveInv, create_final_from_staging
    PROVE  ArchiveInv'
<1>1. /\ holder.archive \in Archives /\ holder.step = "publish" /\ holder.doomed = None
      /\ backup[holder.archive].status = "promoting"
      /\ artifact[holder.archive].state \in Open \cup {"absent"}
  BY DEF create_final_from_staging, At, ArchiveInv, AtWork, Stands, RowsAgree, Legal,
  Open, Promoted
<1>2. /\ HolderSet(IF Deployment(holder.archive) THEN "finish" ELSE "complete", holder.archive,
                     holder.todo, holder.doomed)
      /\ published' = published \cup {holder.archive}
      /\ UNCHANGED <<backup, artifact, staged, activation, last_success, backup_run,
                     leased, purger, overdue, switches, mishaps>>
  <2>1. /\ holder \in Holders
        /\ Goes(IF Deployment(holder.archive) THEN "finish" ELSE "complete")
        /\ published' = published \cup {holder.archive}
        /\ UNCHANGED <<backup, artifact, staged, activation, last_success, backup_run,
                       leased, purger, overdue, switches, mishaps>>
    BY <1>1
       DEF create_final_from_staging, Goes, At, objects, others, rows, ArchiveInv,
       TypeOK
  <2>2. HolderSet(IF Deployment(holder.archive) THEN "finish" ELSE "complete", holder.archive,
            holder.todo, holder.doomed)
    BY <1>1, <2>1, HolderFields, ZenonT(60) DEF Steps, Holders
  <2> QED
    BY <2>1, <2>2
<1>3. TypeOK'
  BY <1>1, <1>2 DEF ArchiveInv, TypeOK, HolderSet
<1>4. RowsAgree'
  BY <1>2, RowsKept DEF ArchiveInv
<1>5. ObjectsHeld'
  BY <1>1, <1>2 DEF ArchiveInv, ObjectsHeld, Open
<1>6. AtWork'
  BY <1>1, <1>2 DEF ArchiveInv, AtWork, Stands, Deployment, Open, Promoted, HolderSet
<1>7. Queued' /\ Ending'
  BY <1>1, <1>2
     DEF ArchiveInv, Queued, Ending, Finished, Promoting, Open, Promoted, HolderSet,
     TypeOK, Holders
<1>8. History'
  BY <1>2, HistoryKept DEF ArchiveInv
<1> QED
  BY <1>3, <1>4, <1>5, <1>6, <1>7, <1>8 DEF ArchiveInv

LEMMA FinalVerified ==
    ASSUME ArchiveConstants, ArchiveInv, mark_final_verified
    PROVE  ArchiveInv'
<1>1. /\ holder.archive \in Archives /\ holder.step = "finish" /\ holder.doomed = None
      /\ backup[holder.archive].status = "promoting"
      /\ artifact[holder.archive].state \in Open
      /\ Deployment(holder.archive)
  BY DEF mark_final_verified, At, ArchiveInv, AtWork, Stands, RowsAgree, Legal, Open,
  Promoted
<1>2. /\ StateSet(holder.archive, "final_verified", artifact[holder.archive].cleanup)
      /\ HolderSet("promote", holder.archive, holder.todo, holder.doomed)
      /\ holder.archive \in published
      /\ UNCHANGED <<backup, staged, published, activation, last_success, backup_run,
                     leased, purger, overdue, switches, mishaps>>
  <2>1. /\ artifact \in [Archives -> LedgerRows]
        /\ artifact' = [artifact EXCEPT ![holder.archive].state = "final_verified"]
        /\ holder \in Holders
        /\ Goes("promote")
        /\ holder.archive \in published
        /\ UNCHANGED <<backup, staged, published, activation, last_success, backup_run,
                       leased, purger, overdue, switches, mishaps>>
    BY <1>1 DEF mark_final_verified, Goes, At, objects, others, rows, ArchiveInv, TypeOK
  <2>2. StateSet(holder.archive, "final_verified", artifact[holder.archive].cleanup)
    BY <1>1, <2>1, StateFields DEF Open
  <2>3. HolderSet("promote", holder.archive, holder.todo, holder.doomed)
    BY <1>1, <2>1, HolderFields, ZenonT(60) DEF Steps, Holders
  <2> QED
    BY <2>1, <2>2, <2>3
<1>3. TypeOK'
  BY <1>1, <1>2 DEF ArchiveInv, TypeOK, HolderSet, StateSet
<1>4. RowsAgree'
  BY <1>1, <1>2, StateMove DEF ArchiveInv, Legal, Open
<1>5. ObjectsHeld'
  BY <1>1, <1>2 DEF ArchiveInv, ObjectsHeld, StateSet
<1>6. AtWork'
  BY <1>1, <1>2
     DEF ArchiveInv, AtWork, Stands, Deployment, Open, Promoted, HolderSet, StateSet
<1>7. Queued' /\ Ending'
  BY <1>1, <1>2
     DEF ArchiveInv, Queued, Ending, Finished, Promoting, Open, Promoted, HolderSet,
     StateSet, TypeOK, Holders
<1>8. History'
  BY <1>1, <1>2, HistoryMove DEF ArchiveInv, Kind, Open, Promoted, TypeOK
<1> QED
  BY <1>3, <1>4, <1>5, <1>6, <1>7, <1>8 DEF ArchiveInv

LEMMA CommitsAvailable ==
    ASSUME ArchiveConstants, ArchiveInv, _commit_archive_available
    PROVE  ArchiveInv'
<1>1. /\ holder.archive \in Archives /\ holder.step = "complete" /\ holder.doomed = None
      /\ backup[holder.archive].status = "promoting"
      /\ artifact[holder.archive].state = "absent"
      /\ holder.archive \in published
      /\ ~Deployment(holder.archive)
  BY DEF _commit_archive_available, At, ArchiveInv, AtWork, Stands, RowsAgree, Legal,
  Open, Promoted
<1>2. /\ StatusSet(holder.archive, "available")
      /\ HolderSet("unstage", holder.archive, holder.todo, holder.doomed)
      /\ last_success' \in {last_success, holder.archive}
      /\ UNCHANGED <<artifact, staged, published, activation, backup_run, leased,
                     purger, overdue, switches, mishaps>>
  <2>1. /\ backup \in [Archives -> BackupRows]
        /\ backup' = [backup EXCEPT ![holder.archive].status = "available"]
        /\ holder \in Holders
        /\ Goes("unstage")
        /\ last_success' \in {last_success, holder.archive}
        /\ UNCHANGED <<artifact, staged, published, activation, backup_run, leased,
                       purger, overdue, switches, mishaps>>
    BY <1>1
       DEF _commit_archive_available, Goes, At, objects, others, rows, ArchiveInv,
       TypeOK
  <2>2. StatusSet(holder.archive, "available")
    BY <1>1, <2>1, BackupFields DEF Statuses
  <2>3. HolderSet("unstage", holder.archive, holder.todo, holder.doomed)
    BY <1>1, <2>1, HolderFields, ZenonT(60) DEF Steps, Holders
  <2> QED
    BY <2>1, <2>2, <2>3
<1>3. TypeOK'
  BY <1>1, <1>2 DEF ArchiveInv, TypeOK, HolderSet, StatusSet
<1>4. RowsAgree'
  BY <1>1, <1>2, StatusMove DEF ArchiveInv, Legal, Open
<1>5. ObjectsHeld'
  BY <1>1, <1>2 DEF ArchiveInv, ObjectsHeld, StatusSet
<1>6. AtWork'
  BY <1>1, <1>2
     DEF ArchiveInv, AtWork, Stands, Deployment, Open, Promoted, HolderSet, StatusSet
<1>7. Queued' /\ Ending'
  BY <1>1, <1>2
     DEF ArchiveInv, Queued, Ending, Finished, Promoting, Open, Promoted, HolderSet,
     StatusSet, TypeOK, Holders
<1>8. History'
  BY <1>2, HistoryKept DEF ArchiveInv
<1> QED
  BY <1>3, <1>4, <1>5, <1>6, <1>7, <1>8 DEF ArchiveInv

LEMMA CleanupDone ==
    ASSUME ArchiveConstants, ArchiveInv, mark_cleanup_complete
    PROVE  ArchiveInv'
<1>1. /\ holder.archive \in Archives /\ holder.step = "clean" /\ holder.doomed = None
      /\ artifact[holder.archive].state \in Promoted
      /\ holder.archive \notin staged
  BY DEF mark_cleanup_complete, At, ArchiveInv, AtWork, Stands, RowsAgree, Legal, Open,
  Promoted
<1>2. /\ StateSet(holder.archive, artifact[holder.archive].state, FALSE)
      /\ HolderSet("built", holder.archive, holder.todo, holder.doomed)
      /\ UNCHANGED <<backup, staged, published, activation, last_success, backup_run,
                     leased, purger, overdue, switches, mishaps>>
  <2>1. /\ artifact \in [Archives -> LedgerRows]
        /\ artifact' = [artifact EXCEPT ![holder.archive].cleanup = FALSE]
        /\ holder \in Holders
        /\ Goes("built")
        /\ UNCHANGED <<backup, staged, published, activation, last_success, backup_run,
                       leased, purger, overdue, switches, mishaps>>
    BY <1>1 DEF mark_cleanup_complete, Goes, At, objects, others, rows, ArchiveInv, TypeOK
  <2>2. StateSet(holder.archive, artifact[holder.archive].state, FALSE)
    BY <1>1, <2>1, CleanupFields DEF LedgerRows
  <2>3. HolderSet("built", holder.archive, holder.todo, holder.doomed)
    BY <1>1, <2>1, HolderFields, ZenonT(60) DEF Steps, Holders
  <2> QED
    BY <2>1, <2>2, <2>3
<1>3. TypeOK'
  BY <1>1, <1>2 DEF ArchiveInv, TypeOK, HolderSet, StateSet
<1>4. RowsAgree'
  BY <1>1, <1>2, StateMove DEF ArchiveInv, Legal, Open, RowsAgree
<1>5. ObjectsHeld'
  BY <1>1, <1>2 DEF ArchiveInv, ObjectsHeld, StateSet, Promoted
<1>6. AtWork'
  BY <1>1, <1>2
     DEF ArchiveInv, AtWork, Stands, Deployment, Open, Promoted, HolderSet, StateSet
<1>7. Queued' /\ Ending'
  BY <1>1, <1>2
     DEF ArchiveInv, Queued, Ending, Finished, Promoting, Open, Promoted, HolderSet,
     StateSet, TypeOK, Holders
<1>8. History'
  BY <1>1, <1>2, HistoryMove DEF ArchiveInv, Kind, Open, Promoted, TypeOK
<1> QED
  BY <1>3, <1>4, <1>5, <1>6, <1>7, <1>8 DEF ArchiveInv

-----------------------------------------------------------------------------
(* The reconciler.                                                         *)

LEMMA NextPending ==
    ASSUME ArchiveConstants, ArchiveInv, NEW a \in Archives, _reconcile_pending(a)
    PROVE  ArchiveInv'
<1>1. /\ holder.step = "inspect" /\ holder.task = "reconcile" /\ a \in holder.todo
      /\ backup[a].status = "promoting" /\ artifact[a].state \in Open
  BY DEF _reconcile_pending, At, ArchiveInv, Queued, RowsAgree, Legal, Open, TypeOK,
  BackupRows, Statuses, Promoted
<1>2. /\ HolderSet(IF a \in published THEN "finish" ELSE IF a \in staged THEN "stage" ELSE "tombstone",
                     a, holder.todo \ {a}, holder.doomed)
      /\ UNCHANGED <<backup, artifact, staged, published, activation, last_success,
                     backup_run, leased, purger, overdue, switches, mishaps>>
  <2>1. /\ holder \in Holders
        /\ holder' = [holder EXCEPT !.todo = holder.todo \ {a}, !.archive = a,
              !.step = IF a \in published THEN "finish"
              ELSE IF a \in staged THEN "stage" ELSE "tombstone"]
        /\ UNCHANGED <<backup, artifact, staged, published, activation, last_success,
                       backup_run, leased, purger, overdue, switches, mishaps>>
    BY <1>1 DEF _reconcile_pending, At, objects, others, rows, ArchiveInv, TypeOK
  <2>2. HolderSet(IF a \in published THEN "finish" ELSE IF a \in staged THEN "stage" ELSE "tombstone",
            a, holder.todo \ {a}, holder.doomed)
    BY <1>1, <2>1, HolderFields DEF Steps, Holders
  <2> QED
    BY <2>1, <2>2
<1>3. TypeOK'
  BY <1>1, <1>2 DEF ArchiveInv, TypeOK, HolderSet
<1>4. RowsAgree'
  BY <1>2, RowsKept DEF ArchiveInv
<1>5. ObjectsHeld'
  BY <1>1, <1>2 DEF ArchiveInv, ObjectsHeld
<1>6. AtWork'
  BY <1>1, <1>2 DEF ArchiveInv, AtWork, Stands, Deployment, Open, Promoted, HolderSet
<1>7. Queued' /\ Ending'
  BY <1>1, <1>2
     DEF ArchiveInv, Queued, Ending, Finished, Promoting, Open, Promoted, HolderSet,
     TypeOK, Holders
<1>8. History'
  BY <1>2, HistoryKept DEF ArchiveInv
<1> QED
  BY <1>3, <1>4, <1>5, <1>6, <1>7, <1>8 DEF ArchiveInv

LEMMA TombstoneWritten ==
    ASSUME ArchiveConstants, ArchiveInv, _tombstone
    PROVE  ArchiveInv'
<1>1. /\ holder.archive \in Archives /\ holder.step = "tombstone" /\ holder.doomed = None
      /\ backup[holder.archive].status = "promoting"
      /\ artifact[holder.archive].state \in Open
      /\ Deployment(holder.archive)
  BY DEF _tombstone, At, ArchiveInv, AtWork, Stands, RowsAgree, Legal, Open, Promoted
<1>2. /\ StateSet(holder.archive, "failed", TRUE)
      /\ HolderSet("bury", holder.archive, holder.todo, holder.doomed)
      /\ UNCHANGED <<backup, staged, published, activation, last_success, backup_run,
                     leased, purger, overdue, switches, mishaps>>
  <2>1. /\ artifact \in [Archives -> LedgerRows]
        /\ artifact' = [artifact EXCEPT ![holder.archive].state = "failed",
                   ![holder.archive].cleanup = TRUE]
        /\ holder \in Holders
        /\ Goes("bury")
        /\ UNCHANGED <<backup, staged, published, activation, last_success, backup_run,
                       leased, purger, overdue, switches, mishaps>>
    BY <1>1 DEF _tombstone, Goes, At, objects, others, rows, ArchiveInv, TypeOK
  <2>2. StateSet(holder.archive, "failed", TRUE)
    BY <1>1, <2>1, LedgerFields DEF Open, Promoted
  <2>3. HolderSet("bury", holder.archive, holder.todo, holder.doomed)
    BY <1>1, <2>1, HolderFields, ZenonT(60) DEF Steps, Holders
  <2> QED
    BY <2>1, <2>2, <2>3
<1>3. TypeOK'
  BY <1>1, <1>2 DEF ArchiveInv, TypeOK, HolderSet, StateSet
<1>4. RowsAgree'
  BY <1>1, <1>2, StateMove DEF ArchiveInv, Legal, Open
<1>5. ObjectsHeld'
  BY <1>1, <1>2 DEF ArchiveInv, ObjectsHeld, StateSet
<1>6. AtWork'
  BY <1>1, <1>2
     DEF ArchiveInv, AtWork, Stands, Deployment, Open, Promoted, HolderSet, StateSet
<1>7. Queued' /\ Ending'
  BY <1>1, <1>2
     DEF ArchiveInv, Queued, Ending, Finished, Promoting, Open, Promoted, HolderSet,
     StateSet, TypeOK, Holders
<1>8. History'
  BY <1>1, <1>2, HistoryMove DEF ArchiveInv, Kind, Open, Promoted, TypeOK
<1> QED
  BY <1>3, <1>4, <1>5, <1>6, <1>7, <1>8 DEF ArchiveInv

LEMMA NextInspected ==
    ASSUME ArchiveConstants, ArchiveInv, NextArtifact
    PROVE  ArchiveInv'
<1>1. /\ HolderSet("inspect", None, holder.todo, holder.doomed)
      /\ holder.task = "reconcile" /\ holder.step = "built"
      /\ UNCHANGED <<backup, artifact, staged, published, activation, last_success,
                     backup_run, leased, purger, overdue, switches, mishaps>>
  <2>1. /\ holder \in Holders
        /\ holder' = [holder EXCEPT !.step = "inspect", !.archive = None]
        /\ holder.task = "reconcile" /\ holder.step = "built"
        /\ UNCHANGED <<backup, artifact, staged, published, activation, last_success,
                       backup_run, leased, purger, overdue, switches, mishaps>>
    BY DEF NextArtifact, At, objects, others, rows, ArchiveInv, TypeOK
  <2>2. HolderSet("inspect", None, holder.todo, holder.doomed)
    BY <2>1, HolderFields DEF Steps, Holders
  <2> QED
    BY <2>1, <2>2
<1>2. TypeOK'
  BY <1>1 DEF ArchiveInv, TypeOK, HolderSet
<1>3. RowsAgree'
  BY <1>1, RowsKept DEF ArchiveInv
<1>4. ObjectsHeld'
  BY <1>1 DEF ArchiveInv, ObjectsHeld
<1>5. AtWork'
  BY <1>1 DEF ArchiveInv, AtWork, Stands, Deployment, Open, Promoted, HolderSet
<1>6. Queued' /\ Ending'
  BY <1>1
     DEF ArchiveInv, Queued, Ending, Finished, Promoting, Open, Promoted, HolderSet,
     TypeOK, Holders, ArchiveConstants
<1>7. History'
  BY <1>1, HistoryKept DEF ArchiveInv
<1> QED
  BY <1>2, <1>3, <1>4, <1>5, <1>6, <1>7 DEF ArchiveInv

LEMMA CleanupStarts ==
    ASSUME ArchiveConstants, ArchiveInv, StartCleanup
    PROVE  ArchiveInv'
<1>1. /\ HolderSet("tidy", holder.archive, Retained, holder.doomed)
      /\ holder.step = "inspect"
      /\ UNCHANGED <<backup, artifact, staged, published, activation, last_success,
                     backup_run, leased, purger, overdue, switches, mishaps>>
  <2>1. /\ holder \in Holders
        /\ holder' = [holder EXCEPT !.step = "tidy", !.todo = Retained]
        /\ holder.step = "inspect"
        /\ UNCHANGED <<backup, artifact, staged, published, activation, last_success,
                       backup_run, leased, purger, overdue, switches, mishaps>>
    BY DEF StartCleanup, Retained, At, objects, others, rows, ArchiveInv, TypeOK
  <2>2. HolderSet("tidy", holder.archive, Retained, holder.doomed)
    BY <2>1, HolderFields DEF Steps, Holders, Retained
  <2> QED
    BY <2>1, <2>2
<1>2. TypeOK'
  BY <1>1 DEF ArchiveInv, TypeOK, HolderSet
<1>3. RowsAgree'
  BY <1>1, RowsKept DEF ArchiveInv
<1>4. ObjectsHeld'
  BY <1>1 DEF ArchiveInv, ObjectsHeld
<1>5. AtWork'
  BY <1>1 DEF ArchiveInv, AtWork, Stands, Deployment, Open, Promoted, HolderSet
<1>6. Queued' /\ Ending'
  BY <1>1
     DEF ArchiveInv, Queued, Ending, Finished, Promoting, Open, Promoted, HolderSet,
     TypeOK, Holders, Retained
<1>7. History'
  BY <1>1, HistoryKept DEF ArchiveInv
<1> QED
  BY <1>2, <1>3, <1>4, <1>5, <1>6, <1>7 DEF ArchiveInv

LEMMA CleanupNoted ==
    ASSUME ArchiveConstants, ArchiveInv, CleanupRetried
    PROVE  ArchiveInv'
<1>1. /\ holder.archive \in Archives /\ holder.step = "tidied" /\ holder.doomed = None
      /\ holder.archive \notin staged /\ Finished(holder.archive)
      /\ artifact[holder.archive].state = "failed" => holder.archive \notin published
  BY DEF CleanupRetried, At, ArchiveInv, AtWork, Stands, RowsAgree, Legal, Open, Promoted
<1>2. /\ StateSet(holder.archive, artifact[holder.archive].state, FALSE)
      /\ HolderSet("tidy", holder.archive, holder.todo, holder.doomed)
      /\ UNCHANGED <<backup, staged, published, activation, last_success, backup_run,
                     leased, purger, overdue, switches, mishaps>>
  <2>1. /\ artifact \in [Archives -> LedgerRows]
        /\ artifact' = [artifact EXCEPT ![holder.archive].cleanup = FALSE]
        /\ holder \in Holders
        /\ Goes("tidy")
        /\ UNCHANGED <<backup, staged, published, activation, last_success, backup_run,
                       leased, purger, overdue, switches, mishaps>>
    BY <1>1 DEF CleanupRetried, Goes, At, objects, others, rows, ArchiveInv, TypeOK
  <2>2. StateSet(holder.archive, artifact[holder.archive].state, FALSE)
    BY <1>1, <2>1, CleanupFields DEF LedgerRows
  <2>3. HolderSet("tidy", holder.archive, holder.todo, holder.doomed)
    BY <1>1, <2>1, HolderFields, ZenonT(60) DEF Steps, Holders
  <2> QED
    BY <2>1, <2>2, <2>3
<1>3. TypeOK'
  BY <1>1, <1>2 DEF ArchiveInv, TypeOK, HolderSet, StateSet
<1>4. RowsAgree'
  BY <1>1, <1>2, StateMove DEF ArchiveInv, Legal, Open, RowsAgree
<1>5. ObjectsHeld'
  BY <1>1, <1>2 DEF ArchiveInv, ObjectsHeld, StateSet
<1>6. AtWork'
  BY <1>1, <1>2
     DEF ArchiveInv, AtWork, Stands, Deployment, Open, Promoted, HolderSet, StateSet
<1>7. Queued' /\ Ending'
  BY <1>1, <1>2
     DEF ArchiveInv, Queued, Ending, Finished, Promoting, Open, Promoted, HolderSet,
     StateSet, TypeOK, Holders
<1>8. History'
  BY <1>1, <1>2, HistoryMove DEF ArchiveInv, Kind, Open, Promoted, TypeOK
<1> QED
  BY <1>3, <1>4, <1>5, <1>6, <1>7, <1>8 DEF ArchiveInv

LEMMA RunFinalized ==
    ASSUME ArchiveConstants, ArchiveInv, finalize_run
    PROVE  ArchiveInv'
<1>1. /\ HolderIs("none", "none", None, {})
      /\ leased' \in {leased, "no"}
      /\ last_success' \in {last_success, backup_run.id}
      /\ backup_run' \in {[backup_run EXCEPT !.status = "complete"],
                            [backup_run EXCEPT !.status = "failed"]}
      /\ UNCHANGED <<backup, artifact, staged, published, activation, purger, overdue,
                     switches, mishaps>>
  <2>1. /\ holder' = Idle
        /\ leased' \in {leased, "no"}
        /\ last_success' \in {last_success, backup_run.id}
        /\ backup_run' \in {[backup_run EXCEPT !.status = "complete"],
                              [backup_run EXCEPT !.status = "failed"]}
        /\ UNCHANGED <<backup, artifact, staged, published, activation, purger, overdue,
                       switches, mishaps>>
    BY DEF finalize_run, Ends, At, Idle, NoFacts, objects, others, rows, ArchiveInv,
    TypeOK
  <2>2. HolderIs("none", "none", None, {})
    BY <2>1, IdleFields
  <2> QED
    BY <2>1, <2>2
<1>2. TypeOK'
  BY <1>1 DEF ArchiveInv, TypeOK, HolderIs
<1>3. RowsAgree'
  BY <1>1, RowsKept DEF ArchiveInv
<1>4. ObjectsHeld'
  BY <1>1 DEF ArchiveInv, ObjectsHeld
<1>5. AtWork'
  BY <1>1 DEF ArchiveInv, AtWork, Stands, Deployment, Open, Promoted, HolderIs
<1>6. Queued' /\ Ending'
  BY <1>1
     DEF ArchiveInv, Queued, Ending, Finished, Promoting, Open, Promoted, HolderIs,
     TypeOK, Holders
<1>7. History'
  BY <1>1, HistoryKept DEF ArchiveInv
<1> QED
  BY <1>2, <1>3, <1>4, <1>5, <1>6, <1>7 DEF ArchiveInv

LEMMA RunFails ==
    ASSUME ArchiveConstants, ArchiveInv, _fail_run
    PROVE  ArchiveInv'
<1>1. /\ HolderIs("none", "none", None, {})
      /\ leased' \in {leased, "no"} /\ mishaps' = mishaps + 1
      /\ backup_run' = [backup_run EXCEPT !.status = "failed"]
      /\ UNCHANGED <<backup, artifact, staged, published, activation, last_success,
                     purger, overdue, switches>>
  <2>1. /\ holder' = Idle
        /\ leased' \in {leased, "no"} /\ mishaps' = mishaps + 1
        /\ backup_run' = [backup_run EXCEPT !.status = "failed"]
        /\ UNCHANGED <<backup, artifact, staged, published, activation, last_success,
                       purger, overdue, switches>>
    BY DEF _fail_run, Mishap, Ends, Idle, NoFacts, objects, others, rows, ArchiveInv,
    TypeOK
  <2>2. HolderIs("none", "none", None, {})
    BY <2>1, IdleFields
  <2> QED
    BY <2>1, <2>2
<1>2. TypeOK'
  BY <1>1 DEF ArchiveInv, TypeOK, HolderIs
<1>3. RowsAgree'
  BY <1>1, RowsKept DEF ArchiveInv
<1>4. ObjectsHeld'
  BY <1>1 DEF ArchiveInv, ObjectsHeld
<1>5. AtWork'
  BY <1>1 DEF ArchiveInv, AtWork, Stands, Deployment, Open, Promoted, HolderIs
<1>6. Queued' /\ Ending'
  BY <1>1
     DEF ArchiveInv, Queued, Ending, Finished, Promoting, Open, Promoted, HolderIs,
     TypeOK, Holders
<1>7. History'
  BY <1>1, HistoryKept DEF ArchiveInv
<1> QED
  BY <1>2, <1>3, <1>4, <1>5, <1>6, <1>7 DEF ArchiveInv

LEMMA RunOpened ==
    ASSUME ArchiveConstants, ArchiveInv, open_run
    PROVE  ArchiveInv'
<1>1. /\ holder.step = "window"
      /\ leased' \in {leased, "schedule"}
      /\ backup_run' = [id |-> backup_run.id + 1, flag |-> Full(activation.state),
                          status |-> IF leased = "no" THEN "running" ELSE "failed",
                          archive |-> None, covered |-> FALSE]
      /\ Full(activation.state) \in BOOLEAN
  BY DEF open_run, At, Full
<1>2. CASE leased = "no"
  <2>1. /\ HolderSet("create", holder.archive, holder.todo, holder.doomed)
        /\ UNCHANGED <<backup, artifact, staged, published, activation, last_success,
                       purger, overdue, switches, mishaps>>
    <3>1. /\ holder \in Holders
          /\ holder' = [holder EXCEPT !.step = "create"]
          /\ UNCHANGED <<backup, artifact, staged, published, activation, last_success,
                         purger, overdue, switches, mishaps>>
      BY <1>1, <1>2 DEF open_run, objects, others, rows, ArchiveInv, TypeOK
    <3>2. HolderSet("create", holder.archive, holder.todo, holder.doomed)
      BY <1>1, <1>2, <3>1, HolderFields DEF Steps, Holders
    <3> QED
      BY <3>1, <3>2
  <2>2. TypeOK'
    BY <1>1, <1>2, <2>1 DEF ArchiveInv, TypeOK, HolderSet
  <2>3. RowsAgree'
    BY <2>1, RowsKept DEF ArchiveInv
  <2>4. ObjectsHeld'
    BY <1>1, <1>2, <2>1 DEF ArchiveInv, ObjectsHeld
  <2>5. AtWork'
    BY <1>1, <1>2, <2>1
       DEF ArchiveInv, AtWork, Stands, Deployment, Open, Promoted, HolderSet
  <2>6. Queued' /\ Ending'
    BY <1>1, <1>2, <2>1
       DEF ArchiveInv, Queued, Ending, Finished, Promoting, Open, Promoted, HolderSet,
       TypeOK, Holders
  <2>7. History'
    BY <2>1, HistoryKept DEF ArchiveInv
  <2> QED
    BY <2>2, <2>3, <2>4, <2>5, <2>6, <2>7 DEF ArchiveInv
<1>3. CASE leased # "no"
  <2>1. /\ HolderIs("none", "none", None, {})
        /\ UNCHANGED <<backup, artifact, staged, published, activation, last_success,
                       purger, overdue, switches, mishaps>>
    <3>1. /\ holder' = Idle
          /\ UNCHANGED <<backup, artifact, staged, published, activation, last_success,
                         purger, overdue, switches, mishaps>>
      BY <1>1, <1>3 DEF open_run, objects, others, rows, ArchiveInv, TypeOK
    <3>2. HolderIs("none", "none", None, {})
      BY <1>1, <1>3, <3>1, IdleFields
    <3> QED
      BY <3>1, <3>2
  <2>2. TypeOK'
    BY <1>1, <1>3, <2>1 DEF ArchiveInv, TypeOK, HolderIs
  <2>3. RowsAgree'
    BY <2>1, RowsKept DEF ArchiveInv
  <2>4. ObjectsHeld'
    BY <1>1, <1>3, <2>1 DEF ArchiveInv, ObjectsHeld
  <2>5. AtWork'
    BY <1>1, <1>3, <2>1
       DEF ArchiveInv, AtWork, Stands, Deployment, Open, Promoted, HolderIs
  <2>6. Queued' /\ Ending'
    BY <1>1, <1>3, <2>1
       DEF ArchiveInv, Queued, Ending, Finished, Promoting, Open, Promoted, HolderIs,
       TypeOK, Holders
  <2>7. History'
    BY <2>1, HistoryKept DEF ArchiveInv
  <2> QED
    BY <2>2, <2>3, <2>4, <2>5, <2>6, <2>7 DEF ArchiveInv
<1> QED
  BY <1>1, <1>2, <1>3

LEMMA Claims ==
    ASSUME ArchiveConstants, ArchiveInv, _claim_archive
    PROVE  ArchiveInv'
<1>1. holder.archive \in Archives /\ holder.step = "claim" /\ holder.doomed = None
  BY DEF _claim_archive, At, ArchiveInv, AtWork
<1>2. CASE (holder.task = "schedule" \/ leased = "no") /\ backup[holder.archive].status = "pending"
  <2>1. /\ StatusSet(holder.archive, "running")
        /\ HolderSet("capture", holder.archive, holder.todo, holder.doomed)
        /\ leased' = holder.task
        /\ artifact[holder.archive].state = "absent"
        /\ holder.task \in {"demand", "schedule"}
        /\ UNCHANGED <<artifact, staged, published, activation, last_success,
                       backup_run, purger, overdue, switches, mishaps>>
    <3>1. /\ backup \in [Archives -> BackupRows]
          /\ backup' = [backup EXCEPT ![holder.archive].status = "running"]
          /\ holder \in Holders
          /\ holder' = [holder EXCEPT !.step = "capture"]
          /\ leased' = holder.task
          /\ artifact[holder.archive].state = "absent"
          /\ holder.task \in {"demand", "schedule"}
          /\ UNCHANGED <<artifact, staged, published, activation, last_success,
                         backup_run, purger, overdue, switches, mishaps>>
      BY <1>1, <1>2
         DEF _claim_archive, Queued, RowsAgree, Legal, objects, others, rows,
         ArchiveInv, TypeOK
    <3>2. StatusSet(holder.archive, "running")
      BY <1>1, <1>2, <3>1, BackupFields DEF Statuses
    <3>3. HolderSet("capture", holder.archive, holder.todo, holder.doomed)
      BY <1>1, <1>2, <3>1, HolderFields, ZenonT(60) DEF Steps, Holders
    <3> QED
      BY <3>1, <3>2, <3>3
  <2>2. TypeOK'
    BY <1>1, <1>2, <2>1 DEF ArchiveInv, TypeOK, HolderSet, StatusSet
  <2>3. RowsAgree'
    BY <1>1, <1>2, <2>1, StatusMove DEF ArchiveInv, Legal, Open
  <2>4. ObjectsHeld'
    BY <1>1, <1>2, <2>1 DEF ArchiveInv, ObjectsHeld, StatusSet
  <2>5. AtWork'
    BY <1>1, <1>2, <2>1
       DEF ArchiveInv, AtWork, Stands, Deployment, Open, Promoted, HolderSet, StatusSet
  <2>6. Queued' /\ Ending'
    BY <1>1, <1>2, <2>1
       DEF ArchiveInv, Queued, Ending, Finished, Promoting, Open, Promoted, HolderSet,
       StatusSet, TypeOK, Holders
  <2>7. History'
    BY <2>1, HistoryKept DEF ArchiveInv
  <2> QED
    BY <2>2, <2>3, <2>4, <2>5, <2>6, <2>7 DEF ArchiveInv
<1>3. CASE ~((holder.task = "schedule" \/ leased = "no") /\ backup[holder.archive].status = "pending")
  <2>1. /\ HolderIs("none", "none", None, {})
        /\ leased' = leased
        /\ UNCHANGED <<backup, artifact, staged, published, activation, last_success,
                       backup_run, purger, overdue, switches, mishaps>>
    <3>1. /\ holder' = Idle
          /\ leased' = leased
          /\ UNCHANGED <<backup, artifact, staged, published, activation, last_success,
                         backup_run, purger, overdue, switches, mishaps>>
      BY <1>1, <1>3 DEF _claim_archive, objects, others, rows, ArchiveInv, TypeOK
    <3>2. HolderIs("none", "none", None, {})
      BY <1>1, <1>3, <3>1, IdleFields
    <3> QED
      BY <3>1, <3>2
  <2>2. TypeOK'
    BY <1>1, <1>3, <2>1 DEF ArchiveInv, TypeOK, HolderIs
  <2>3. RowsAgree'
    BY <2>1, RowsKept DEF ArchiveInv
  <2>4. ObjectsHeld'
    BY <1>1, <1>3, <2>1 DEF ArchiveInv, ObjectsHeld
  <2>5. AtWork'
    BY <1>1, <1>3, <2>1
       DEF ArchiveInv, AtWork, Stands, Deployment, Open, Promoted, HolderIs
  <2>6. Queued' /\ Ending'
    BY <1>1, <1>3, <2>1
       DEF ArchiveInv, Queued, Ending, Finished, Promoting, Open, Promoted, HolderIs,
       TypeOK, Holders
  <2>7. History'
    BY <2>1, HistoryKept DEF ArchiveInv
  <2> QED
    BY <2>2, <2>3, <2>4, <2>5, <2>6, <2>7 DEF ArchiveInv
<1> QED
  BY <1>1, <1>2, <1>3

LEMMA StagingDeleted ==
    ASSUME ArchiveConstants, ArchiveInv, DeleteStaging
    PROVE  ArchiveInv'
<1>1. /\ holder.archive \in Archives /\ holder.step = "unstage" /\ holder.doomed = None
      /\ Deployment(holder.archive) => artifact[holder.archive].state \in Promoted
  BY DEF DeleteStaging, At, ArchiveInv, AtWork
<1>2. CASE staged' = staged \ {holder.archive} /\ UNCHANGED mishaps
           /\ Goes(IF Deployment(holder.archive) THEN "clean" ELSE "built")
  <2>1. /\ HolderSet(IF Deployment(holder.archive) THEN "clean" ELSE "built", holder.archive,
                       holder.todo, holder.doomed)
        /\ staged' = staged \ {holder.archive}
        /\ UNCHANGED <<backup, artifact, published, activation, last_success,
                       backup_run, leased, purger, overdue, switches, mishaps>>
    <3>1. /\ holder \in Holders
          /\ Goes(IF Deployment(holder.archive) THEN "clean" ELSE "built")
          /\ staged' = staged \ {holder.archive}
          /\ UNCHANGED <<backup, artifact, published, activation, last_success,
                         backup_run, leased, purger, overdue, switches, mishaps>>
      BY <1>1, <1>2 DEF DeleteStaging, objects, others, rows, ArchiveInv, TypeOK
    <3>2. HolderSet(IF Deployment(holder.archive) THEN "clean" ELSE "built", holder.archive,
            holder.todo, holder.doomed)
      BY <1>1, <1>2, <3>1, HolderFields, ZenonT(60) DEF Steps, Holders
    <3> QED
      BY <3>1, <3>2
  <2>2. TypeOK'
    BY <1>1, <1>2, <2>1 DEF ArchiveInv, TypeOK, HolderSet
  <2>3. RowsAgree'
    BY <2>1, RowsKept DEF ArchiveInv
  <2>4. ObjectsHeld'
    BY <1>1, <1>2, <2>1 DEF ArchiveInv, ObjectsHeld
  <2>5. AtWork'
    BY <1>1, <1>2, <2>1
       DEF ArchiveInv, AtWork, Stands, Deployment, Open, Promoted, HolderSet
  <2>6. Queued' /\ Ending'
    BY <1>1, <1>2, <2>1
       DEF ArchiveInv, Queued, Ending, Finished, Promoting, Open, Promoted, HolderSet,
       TypeOK, Holders
  <2>7. History'
    BY <2>1, HistoryKept DEF ArchiveInv
  <2> QED
    BY <2>2, <2>3, <2>4, <2>5, <2>6, <2>7 DEF ArchiveInv
<1>3. CASE Mishap /\ Goes("built") /\ UNCHANGED staged
  <2>1. /\ HolderSet("built", holder.archive, holder.todo, holder.doomed)
        /\ mishaps' = mishaps + 1
        /\ UNCHANGED <<backup, artifact, staged, published, activation, last_success,
                       backup_run, leased, purger, overdue, switches>>
    <3>1. /\ holder \in Holders
          /\ Goes("built")
          /\ mishaps' = mishaps + 1
          /\ UNCHANGED <<backup, artifact, staged, published, activation, last_success,
                         backup_run, leased, purger, overdue, switches>>
      BY <1>1, <1>3 DEF DeleteStaging, Mishap, objects, others, rows, ArchiveInv, TypeOK
    <3>2. HolderSet("built", holder.archive, holder.todo, holder.doomed)
      BY <1>1, <1>3, <3>1, HolderFields, ZenonT(60) DEF Steps, Holders
    <3> QED
      BY <3>1, <3>2
  <2>2. TypeOK'
    BY <1>1, <1>3, <2>1 DEF ArchiveInv, TypeOK, HolderSet
  <2>3. RowsAgree'
    BY <2>1, RowsKept DEF ArchiveInv
  <2>4. ObjectsHeld'
    BY <1>1, <1>3, <2>1 DEF ArchiveInv, ObjectsHeld
  <2>5. AtWork'
    BY <1>1, <1>3, <2>1
       DEF ArchiveInv, AtWork, Stands, Deployment, Open, Promoted, HolderSet
  <2>6. Queued' /\ Ending'
    BY <1>1, <1>3, <2>1
       DEF ArchiveInv, Queued, Ending, Finished, Promoting, Open, Promoted, HolderSet,
       TypeOK, Holders
  <2>7. History'
    BY <2>1, HistoryKept DEF ArchiveInv
  <2> QED
    BY <2>2, <2>3, <2>4, <2>5, <2>6, <2>7 DEF ArchiveInv
<1> QED
  BY <1>1, <1>2, <1>3 DEF DeleteStaging

LEMMA RetriesCleanup ==
    ASSUME ArchiveConstants, ArchiveInv, NEW a \in Archives, RetryCleanup(a)
    PROVE  ArchiveInv'
<1>1. /\ holder.step = "tidy" /\ holder.doomed = None /\ a \in holder.todo /\ Finished(a)
      /\ staged \ {a} \subseteq staged' /\ staged' \subseteq staged
      /\ published \ {a} \subseteq published' /\ published' \subseteq published
      /\ artifact[a].state # "failed" => published' = published
  BY DEF RetryCleanup, At, ArchiveInv, Queued, Kept
<1>2. CASE holder' = [holder EXCEPT !.todo = @ \ {a}, !.archive = a, !.step = "tidied"]
           /\ staged' = staged \ {a} /\ published' = Kept(a) /\ UNCHANGED mishaps
  <2>1. /\ HolderSet("tidied", a, holder.todo \ {a}, holder.doomed)
        /\ a \notin staged'
        /\ artifact[a].state = "failed" => a \notin published'
        /\ UNCHANGED <<backup, artifact, activation, last_success, backup_run, leased,
                       purger, overdue, switches, mishaps>>
    <3>1. /\ holder \in Holders
          /\ holder' = [holder EXCEPT !.todo = holder.todo \ {a}, !.archive = a, !.step = "tidied"]
          /\ a \notin staged'
          /\ artifact[a].state = "failed" => a \notin published'
          /\ UNCHANGED <<backup, artifact, activation, last_success, backup_run, leased,
                         purger, overdue, switches, mishaps>>
      BY <1>1, <1>2 DEF RetryCleanup, Kept, objects, others, rows, ArchiveInv, TypeOK
    <3>2. HolderSet("tidied", a, holder.todo \ {a}, holder.doomed)
      BY <1>1, <1>2, <3>1, HolderFields DEF Steps, Holders
    <3> QED
      BY <3>1, <3>2
  <2>2. TypeOK'
    BY <1>1, <1>2, <2>1 DEF ArchiveInv, TypeOK, HolderSet
  <2>3. RowsAgree'
    BY <2>1, RowsKept DEF ArchiveInv
  <2>4. ObjectsHeld'
    BY <1>1, <1>2, <2>1 DEF ArchiveInv, ObjectsHeld, RowsAgree, Legal, Finished, Promoted
  <2>5. AtWork'
    BY <1>1, <1>2, <2>1
       DEF ArchiveInv, AtWork, Stands, Deployment, Open, Promoted, HolderSet, Finished
  <2>6. Queued' /\ Ending'
    BY <1>1, <1>2, <2>1
       DEF ArchiveInv, Queued, Ending, Finished, Promoting, Open, Promoted, HolderSet,
       TypeOK, Holders
  <2>7. History'
    BY <2>1, HistoryKept DEF ArchiveInv
  <2> QED
    BY <2>2, <2>3, <2>4, <2>5, <2>6, <2>7 DEF ArchiveInv
<1>3. CASE holder' = [holder EXCEPT !.todo = @ \ {a}] /\ mishaps' = mishaps + 1
  <2>1. /\ HolderSet("tidy", holder.archive, holder.todo \ {a}, holder.doomed)
        /\ mishaps' = mishaps + 1
        /\ UNCHANGED <<backup, artifact, activation, last_success, backup_run, leased,
                       purger, overdue, switches>>
    <3>1. /\ holder \in Holders
          /\ holder' = [holder EXCEPT !.todo = holder.todo \ {a}]
          /\ mishaps' = mishaps + 1
          /\ UNCHANGED <<backup, artifact, activation, last_success, backup_run, leased,
                         purger, overdue, switches>>
      BY <1>1, <1>3 DEF RetryCleanup, Kept, objects, others, rows, ArchiveInv, TypeOK
    <3>2. HolderSet("tidy", holder.archive, holder.todo \ {a}, holder.doomed)
      BY <1>1, <1>3, <3>1, HolderFields, ZenonT(60) DEF Steps, Holders
    <3> QED
      BY <3>1, <3>2
  <2>2. TypeOK'
    BY <1>1, <1>3, <2>1 DEF ArchiveInv, TypeOK, HolderSet
  <2>3. RowsAgree'
    BY <2>1, RowsKept DEF ArchiveInv
  <2>4. ObjectsHeld'
    BY <1>1, <1>3, <2>1 DEF ArchiveInv, ObjectsHeld, RowsAgree, Legal, Finished, Promoted
  <2>5. AtWork'
    BY <1>1, <1>3, <2>1
       DEF ArchiveInv, AtWork, Stands, Deployment, Open, Promoted, HolderSet
  <2>6. Queued' /\ Ending'
    BY <1>1, <1>3, <2>1
       DEF ArchiveInv, Queued, Ending, Finished, Promoting, Open, Promoted, HolderSet,
       TypeOK, Holders
  <2>7. History'
    BY <2>1, HistoryKept DEF ArchiveInv
  <2> QED
    BY <2>2, <2>3, <2>4, <2>5, <2>6, <2>7 DEF ArchiveInv
<1> QED
  BY <1>1, <1>2, <1>3 DEF RetryCleanup, Mishap

LEMMA LosesHolder ==
    ASSUME ArchiveConstants, ArchiveInv, Dies
    PROVE  ArchiveInv'
<1>1. mishaps' = mishaps + 1
  BY DEF Dies, Mishap
<1>2. CASE holder' = Idle /\ UNCHANGED purger
  <2>1. /\ HolderIs("none", "none", None, {})
        /\ UNCHANGED <<backup, artifact, staged, published, activation, last_success,
                       backup_run, leased, purger, overdue, switches>>
    <3>1. /\ holder' = Idle
          /\ UNCHANGED <<backup, artifact, staged, published, activation, last_success,
                         backup_run, leased, purger, overdue, switches>>
      BY <1>1, <1>2 DEF Dies, objects, others, rows, ArchiveInv, TypeOK
    <3>2. HolderIs("none", "none", None, {})
      BY <1>1, <1>2, <3>1, IdleFields
    <3> QED
      BY <3>1, <3>2
  <2>2. TypeOK'
    BY <1>1, <1>2, <2>1 DEF ArchiveInv, TypeOK, HolderIs
  <2>3. RowsAgree'
    BY <2>1, RowsKept DEF ArchiveInv
  <2>4. ObjectsHeld'
    BY <1>1, <1>2, <2>1 DEF ArchiveInv, ObjectsHeld
  <2>5. AtWork'
    BY <1>1, <1>2, <2>1
       DEF ArchiveInv, AtWork, Stands, Deployment, Open, Promoted, HolderIs
  <2>6. Queued' /\ Ending'
    BY <1>1, <1>2, <2>1
       DEF ArchiveInv, Queued, Ending, Finished, Promoting, Open, Promoted, HolderIs,
       TypeOK, Holders
  <2>7. History'
    BY <2>1, HistoryKept DEF ArchiveInv
  <2> QED
    BY <2>2, <2>3, <2>4, <2>5, <2>6, <2>7 DEF ArchiveInv
<1>3. CASE purger' = None /\ UNCHANGED holder
  <2>1. /\ purger' = None
        /\ UNCHANGED <<backup, artifact, staged, published, activation, last_success,
                       backup_run, holder, leased, overdue, switches>>
    BY <1>1, <1>3 DEF Dies, objects, others, rows
  <2>2. TypeOK'
    BY <1>1, <1>3, <2>1 DEF ArchiveInv, TypeOK
  <2>3. RowsAgree'
    BY <2>1, RowsKept DEF ArchiveInv
  <2>4. ObjectsHeld'
    BY <1>1, <1>3, <2>1 DEF ArchiveInv, ObjectsHeld
  <2>5. AtWork'
    BY <1>1, <1>3, <2>1, OwnerKept
       DEF ArchiveInv, Kind, Open, Promoted, Deployment, TypeOK, BackupRows, LedgerRows
  <2>6. Queued' /\ Ending'
    BY <1>1, <1>3, <2>1
       DEF ArchiveInv, Queued, Ending, Finished, Promoting, Open, Promoted, TypeOK,
       Holders
  <2>7. History'
    BY <2>1, HistoryKept DEF ArchiveInv
  <2> QED
    BY <2>2, <2>3, <2>4, <2>5, <2>6, <2>7 DEF ArchiveInv
<1> QED
  BY <1>1, <1>2, <1>3 DEF Dies

LEMMA DeletesFailed ==
    ASSUME ArchiveConstants, ArchiveInv, DeleteFailed
    PROVE  ArchiveInv'
<1>1. /\ holder.doomed \in Archives /\ backup[holder.doomed].status = "failed"
      /\ artifact[holder.doomed].state \in {"absent", "failed"}
  BY DEF DeleteFailed, ArchiveInv, TypeOK, Holders, Ending, RowsAgree, Legal
<1>2. /\ HolderSet(holder.step, holder.archive, holder.todo, None)
      /\ staged \ {holder.doomed} \subseteq staged' /\ staged' \subseteq staged
      /\ published \ {holder.doomed} \subseteq published' /\ published' \subseteq published
      /\ mishaps' \in {mishaps, mishaps + 1}
      /\ UNCHANGED <<backup, artifact, activation, last_success, backup_run, leased,
                     purger, overdue, switches>>
  <2>1. /\ holder \in Holders
        /\ holder' = [holder EXCEPT !.doomed = None]
        /\ staged \ {holder.doomed} \subseteq staged' /\ staged' \subseteq staged
        /\ published \ {holder.doomed} \subseteq published' /\ published' \subseteq published
        /\ mishaps' \in {mishaps, mishaps + 1}
        /\ UNCHANGED <<backup, artifact, activation, last_success, backup_run, leased,
                       purger, overdue, switches>>
    BY <1>1 DEF DeleteFailed, Mishap, objects, others, rows, ArchiveInv, TypeOK
  <2>2. HolderSet(holder.step, holder.archive, holder.todo, None)
    BY <1>1, <2>1, HolderFields, ZenonT(60) DEF Steps, Holders
  <2> QED
    BY <2>1, <2>2
<1>3. TypeOK'
  BY <1>1, <1>2 DEF ArchiveInv, TypeOK, HolderSet
<1>4. RowsAgree'
  BY <1>2, RowsKept DEF ArchiveInv
<1>5. ObjectsHeld'
  BY <1>1, <1>2 DEF ArchiveInv, ObjectsHeld
<1>6. AtWork'
  BY <1>1, <1>2, OwnerKept
     DEF ArchiveInv, Kind, Open, Promoted, Deployment, TypeOK, BackupRows, LedgerRows,
     HolderSet
<1>7. Queued' /\ Ending'
  BY <1>1, <1>2
     DEF ArchiveInv, Queued, Ending, Finished, Promoting, Open, Promoted, HolderSet,
     TypeOK, Holders
<1>8. History'
  BY <1>2, HistoryKept DEF ArchiveInv
<1> QED
  BY <1>3, <1>4, <1>5, <1>6, <1>7, <1>8 DEF ArchiveInv
-----------------------------------------------------------------------------
(* New rows, the switch, and archives that fail.                           *)

LEMMA NewRow ==
    ASSUME TypeOK, RowsAgree, ObjectsHeld, NEW a \in Missing, NEW row \in BackupRows,
           row.status = "pending", backup' = [backup EXCEPT ![a] = row],
           UNCHANGED <<artifact, staged, published, overdue>>
    PROVE  /\ backup' \in [Archives -> BackupRows] /\ backup'[a].status = "pending"
           /\ \A b \in Archives \ {a} : backup'[b] = backup[b]
           /\ artifact[a].state = "absent" /\ RowsAgree' /\ ObjectsHeld'
<1>1. a \in Archives /\ backup[a].status = "absent" /\ artifact[a].state = "absent"
  BY DEF Missing, RowsAgree, Legal
<1>2. /\ backup' \in [Archives -> BackupRows] /\ backup'[a].status = "pending"
      /\ \A b \in Archives \ {a} : backup'[b] = backup[b]
  BY <1>1 DEF TypeOK
<1>3. RowsAgree'
  BY <1>1, <1>2 DEF RowsAgree, Legal, Deployment
<1>4. ObjectsHeld'
  BY <1>1, <1>2 DEF ObjectsHeld
<1> QED
  BY <1>1, <1>2, <1>3, <1>4

LEMMA Created ==
    ASSUME ArchiveInv, NEW a \in Archives, NEW scope \in Scopes, create_archive(a, scope)
    PROVE  ArchiveInv'
<1> DEFINE row == [backup[a] EXCEPT !.status = "pending", !.scope = scope]
<1>1. /\ a \in Missing /\ backup' = [backup EXCEPT ![a] = row]
      /\ UNCHANGED <<artifact, staged, published, activation, last_success, backup_run,
                     holder, leased, purger, overdue, switches, mishaps>>
  BY DEF create_archive, objects, others
<1>2. row \in BackupRows /\ row.status = "pending"
  BY ZenonT(60) DEF ArchiveInv, TypeOK, BackupRows, Statuses
<1>3. /\ backup' \in [Archives -> BackupRows] /\ backup'[a].status = "pending"
      /\ \A b \in Archives \ {a} : backup'[b] = backup[b]
      /\ backup[a].status = "absent" /\ artifact[a].state = "absent"
      /\ RowsAgree' /\ ObjectsHeld'
  BY <1>1, <1>2, NewRow DEF ArchiveInv, Missing
<1> HIDE DEF row
<1>4. TypeOK'
  BY <1>1, <1>3 DEF ArchiveInv, TypeOK
<1>5. AtWork'
  BY <1>1, <1>3 DEF ArchiveInv, AtWork, Stands, Deployment, Open, Promoted, Finished
<1>6. Queued' /\ Ending'
  BY <1>1, <1>3 DEF ArchiveInv, Queued, Ending, Finished, Promoting, TypeOK, Holders
<1>7. History'
  BY <1>1, HistoryKept DEF ArchiveInv
<1> QED
  BY <1>3, <1>4, <1>5, <1>6, <1>7 DEF ArchiveInv

LEMMA RunBuilds ==
    ASSUME ArchiveInv, NEW a \in Archives, _build_run_archives(a)
    PROVE  ArchiveInv'
<1> DEFINE row == [status |-> "pending",
                   scope |-> IF holder.archive = None THEN "deployment" ELSE "makerspace",
                   run |-> backup_run.id, flag |-> backup_run.flag]
<1>1. /\ a \in Missing /\ backup' = [backup EXCEPT ![a] = row]
      /\ holder.step = "create" /\ holder.doomed = None
      /\ holder' = [holder EXCEPT !.archive = a, !.step = "claim"]
      /\ backup_run' \in {backup_run, [backup_run EXCEPT !.archive = a]}
      /\ UNCHANGED <<artifact, staged, published, activation, last_success, leased, purger,
                     overdue, switches, mishaps>>
  BY DEF _build_run_archives, At, objects, others
<1>2. row \in BackupRows /\ row.status = "pending"
  BY DEF ArchiveInv, TypeOK, BackupRows, Statuses
<1>3. /\ backup' \in [Archives -> BackupRows] /\ backup'[a].status = "pending"
      /\ \A b \in Archives \ {a} : backup'[b] = backup[b]
      /\ backup[a].status = "absent" /\ artifact[a].state = "absent"
      /\ RowsAgree' /\ ObjectsHeld'
  BY <1>1, <1>2, NewRow, ZenonT(60) DEF ArchiveInv, Missing
<1> HIDE DEF row
<1>4. HolderSet("claim", a, holder.todo, None)
  BY <1>1, HolderFields DEF ArchiveInv, TypeOK, Holders, Steps
<1>5. TypeOK'
  BY <1>1, <1>3, <1>4 DEF ArchiveInv, TypeOK, HolderSet
<1>6. AtWork'
  BY <1>4 DEF AtWork, HolderSet
<1>7. Queued' /\ Ending'
  BY <1>1, <1>3, <1>4 DEF ArchiveInv, Queued, Ending, TypeOK, HolderSet
<1>8. History'
  BY <1>1, HistoryKept DEF ArchiveInv
<1> QED
  BY <1>3, <1>5, <1>6, <1>7, <1>8 DEF ArchiveInv

LEMMA Switched ==
    ASSUME ArchiveInv, set_superadmin_access
    PROVE  ArchiveInv'
<1>1. /\ activation' \in [state : {"on", "off_pending"}, effective : {None}]
      /\ switches' = switches + 1
      /\ UNCHANGED <<backup, artifact, staged, published, last_success, backup_run, holder,
                     leased, purger, overdue, mishaps>>
  BY DEF set_superadmin_access, rows, objects, others
<1>2. TypeOK'
  BY <1>1 DEF ArchiveInv, TypeOK, Switch
<1>3. RowsAgree' /\ ObjectsHeld'
  BY <1>1, RowsKept DEF ArchiveInv, ObjectsHeld
<1>4. AtWork' /\ Queued' /\ Ending'
  BY <1>1, OwnerKept
     DEF ArchiveInv, Kind, Deployment, Queued, Ending, Promoting, Finished
<1>5. History'
  BY <1>1 DEF ArchiveInv, History, Ordinals, Effective, OneLineage, ExclusionEarned
<1> QED
  BY <1>2, <1>3, <1>4, <1>5 DEF ArchiveInv

\* A build that stops, with the rows left for the reconciler.
LEMMA BuildStops ==
    ASSUME ArchiveConstants, ArchiveInv, holder.archive \in Archives, holder.doomed = None,
           holder.step \notin {"tidy", "tidied"}, Goes("built"),
           staged \subseteq staged', staged' \subseteq staged \cup {holder.archive},
           published \subseteq published', published' \subseteq published \cup {holder.archive},
           \/ staged' = staged /\ published' = published
           \/ artifact[holder.archive].state \in Open \cup {"absent"},
           mishaps' \in {mishaps, mishaps + 1},
           UNCHANGED <<backup, artifact, activation, last_success, backup_run, leased, purger,
                       overdue, switches>>
    PROVE  ArchiveInv'
<1>1. HolderSet("built", holder.archive, holder.todo, None)
  BY HolderFields DEF ArchiveInv, TypeOK, Holders, Steps
<1>2. TypeOK'
  BY <1>1 DEF ArchiveInv, TypeOK, HolderSet
<1>3. RowsAgree' /\ History'
  BY RowsKept, HistoryKept DEF ArchiveInv
<1>4. ObjectsHeld'
  BY DEF ArchiveInv, ObjectsHeld, Open
<1>5. AtWork'
  BY <1>1 DEF AtWork, HolderSet
<1>6. Queued' /\ Ending'
  BY <1>1 DEF ArchiveInv, Queued, Ending, Finished, HolderSet
<1> QED
  BY <1>2, <1>3, <1>4, <1>5, <1>6 DEF ArchiveInv

\* A build that ends, with the archive at work failed where the code fails it.
LEMMA BuildFails ==
    ASSUME ArchiveConstants, ArchiveInv, holder.archive \in Archives, holder.doomed = None,
           holder.step \notin {"tidy", "tidied"}, _fail_archive(holder.archive, "built"),
           staged \subseteq staged', staged' \subseteq staged \cup {holder.archive},
           published \subseteq published', published' \subseteq published \cup {holder.archive},
           \/ staged' = staged /\ published' = published
           \/ artifact[holder.archive].state \in Open \cup {"absent"},
           mishaps' \in {mishaps, mishaps + 1},
           UNCHANGED <<activation, last_success, backup_run, leased, purger, overdue, switches>>
    PROVE  ArchiveInv'
<1> DEFINE a == holder.archive
<1>1. CASE /\ backup[a].status \in {"running", "promoting"} /\ artifact[a].state \notin Protected
           /\ Failed(a) /\ holder' = [holder EXCEPT !.step = "built", !.doomed = a]
  <2>1. HolderSet("built", a, holder.todo, a)
    BY <1>1, HolderFields, ZenonT(60) DEF ArchiveInv, TypeOK, Holders, Steps
  <2>2. /\ StatusSet(a, "failed")
        /\ artifact' \in [Archives -> LedgerRows]
        /\ \A b \in Archives \ {a} : artifact'[b] = artifact[b]
        /\ \/ artifact[a].state \in Open /\ artifact'[a].state = "failed" /\ artifact'[a].cleanup
           \/ artifact[a].state \in {"absent", "failed"} /\ artifact'[a] = artifact[a]
    <3>1. artifact[a].state \in Open \cup {"absent", "failed"}
      BY <1>1 DEF ArchiveInv, TypeOK, LedgerRows, Protected
    <3>2. /\ artifact \in [Archives -> LedgerRows]
          /\ artifact' = IF artifact[a].state \in Open
                         THEN [artifact EXCEPT ![a].state = "failed", ![a].cleanup = TRUE]
                         ELSE artifact
      BY <1>1 DEF Failed, ArchiveInv, TypeOK
    <3>3. StatusSet(a, "failed")
      BY <1>1, FailedFields DEF ArchiveInv
    <3>4. CASE artifact[a].state \in Open
      <4>1. \A b \in Archives \ {a} : artifact'[b] = artifact[b]
        BY <3>2, <3>4
      <4>2. StateSet(a, "failed", TRUE)
        BY <3>2, <3>4, LedgerFields
      <4> QED
        BY <3>3, <3>4, <4>1, <4>2 DEF StateSet
    <3>5. CASE artifact[a].state \notin Open
      BY <3>1, <3>2, <3>3, <3>5
    <3> QED
      BY <3>4, <3>5
  <2>3. TypeOK'
    BY <2>1, <2>2 DEF ArchiveInv, TypeOK, HolderSet, StatusSet
  <2>4. RowsAgree' /\ History'
    BY <1>1, FailedRows DEF ArchiveInv, Protected, Promoted
  <2>5. ObjectsHeld'
    BY <2>2 DEF ArchiveInv, ObjectsHeld, StatusSet, Open
  <2>6. AtWork'
    BY <2>1 DEF AtWork, HolderSet
  <2>7. Queued'
    <3>1. holder.todo \subseteq Archives
      BY DEF ArchiveInv, TypeOK, Holders
    <3> QED
      BY <2>1, <2>2, <3>1 DEF ArchiveInv, Queued, HolderSet
  <2>8. Ending'
    BY <1>1, <2>1, <2>2 DEF ArchiveInv, Ending, HolderSet, StatusSet, TypeOK
  <2> QED
    BY <2>3, <2>4, <2>5, <2>6, <2>7, <2>8 DEF ArchiveInv
<1>2. CASE Goes("built") /\ UNCHANGED <<backup, artifact>>
  BY <1>2, BuildStops
<1> QED
  BY <1>1, <1>2 DEF _fail_archive

LEMMA Conflict ==
    ASSUME ArchiveConstants, ArchiveInv, BuilderConflict \/ Bury
    PROVE  ArchiveInv'
<1>1. /\ holder.archive \in Archives /\ holder.doomed = None
      /\ holder.step \in {"tombstone", "bury"} /\ _fail_archive(holder.archive, "built")
      /\ UNCHANGED <<staged, published, activation, last_success, backup_run, leased, purger,
                     overdue, switches, mishaps>>
  BY DEF BuilderConflict, Bury, At, objects, others, ArchiveInv, AtWork, Stands
<1> QED
  BY <1>1, BuildFails

LEMMA CallRaises ==
    ASSUME ArchiveConstants, ArchiveInv, Raises
    PROVE  ArchiveInv'
<1>1. /\ holder.archive \in Archives /\ holder.doomed = None
      /\ holder.step \notin {"tidy", "tidied"}
      /\ staged \subseteq staged' /\ staged' \subseteq staged \cup {holder.archive}
      /\ published \subseteq published' /\ published' \subseteq published \cup {holder.archive}
      /\ \/ staged' = staged /\ published' = published
         \/ artifact[holder.archive].state \in Open \cup {"absent"}
      /\ mishaps' = mishaps + 1
      /\ UNCHANGED <<activation, last_success, backup_run, leased, purger, overdue, switches>>
  <2>1. /\ holder.step \in {"capture", "claim_promotion", "persist", "upload", "stage",
                            "publish", "finish", "promote", "complete", "clean"}
        /\ holder.doomed = None /\ mishaps' = mishaps + 1
        /\ \/ staged' = staged /\ published' = published
           \/ /\ holder.step \in {"upload", "publish"}
              /\ staged' \in {staged, staged \cup {holder.archive}}
              /\ published' \in {published, published \cup {holder.archive}}
        /\ UNCHANGED <<activation, last_success, backup_run, leased, purger, overdue, switches>>
    BY DEF Raises, Mishap, objects, others
  <2>2. /\ holder.archive \in Archives
        /\ holder.step \in {"upload", "publish"} =>
              artifact[holder.archive].state \in Open \cup {"absent"}
    BY <2>1 DEF ArchiveInv, AtWork, Stands, Open
  <2> QED
    BY <2>1, <2>2
<1>2. \/ _fail_archive(holder.archive, "built")
      \/ Goes("built") /\ UNCHANGED <<backup, artifact>>
  BY DEF Raises
<1>3. CASE _fail_archive(holder.archive, "built")
  BY <1>1, <1>3, BuildFails
<1>4. CASE Goes("built") /\ UNCHANGED <<backup, artifact>>
  BY <1>1, <1>4, BuildStops
<1> QED
  BY <1>2, <1>3, <1>4

LEMMA Sweeps ==
    ASSUME ArchiveConstants, ArchiveInv, sweep_stale_promotions
    PROVE  ArchiveInv'
<1>1. /\ holder.step = "sweep" /\ holder.doomed = None /\ holder.task \in {"demand", "schedule"}
      /\ holder.todo \subseteq Promoting /\ holder \in Holders
      /\ UNCHANGED <<staged, published, activation, last_success, backup_run, leased, purger,
                     overdue, switches, mishaps>>
  BY DEF sweep_stale_promotions, At, objects, others, ArchiveInv, Queued, TypeOK
<1>2. CASE \E a \in holder.todo : holder' = [holder EXCEPT !.todo = @ \ {a}]
                                  /\ UNCHANGED <<backup, artifact>>
  <2>1. PICK a \in holder.todo : /\ holder' = [holder EXCEPT !.todo = holder.todo \ {a}]
                                 /\ UNCHANGED <<backup, artifact>>
    BY <1>2
  <2>2. HolderSet("sweep", holder.archive, holder.todo \ {a}, None)
    BY <1>1, <2>1, HolderFields DEF Holders
  <2>3. TypeOK'
    BY <1>1, <2>1, <2>2 DEF ArchiveInv, TypeOK, HolderSet
  <2>4. RowsAgree' /\ History' /\ ObjectsHeld'
    BY <1>1, <2>1, RowsKept, HistoryKept DEF ArchiveInv, ObjectsHeld
  <2>5. AtWork' /\ Queued' /\ Ending'
    BY <1>1, <2>1, <2>2 DEF ArchiveInv, AtWork, Queued, Ending, Promoting, HolderSet
  <2> QED
    BY <2>3, <2>4, <2>5 DEF ArchiveInv
<1>3. CASE \E a \in holder.todo :
              /\ artifact[a].state \notin Protected /\ Failed(a)
              /\ holder' = [holder EXCEPT !.todo = @ \ {a}, !.doomed = a]
  <2>1. PICK a \in holder.todo :
            /\ artifact[a].state \notin Protected /\ Failed(a)
            /\ holder' = [holder EXCEPT !.todo = holder.todo \ {a}, !.doomed = a]
    BY <1>3
  <2>2. a \in Archives /\ backup[a].status = "promoting"
    BY <1>1, <2>1 DEF Promoting
  <2>3. HolderSet("sweep", holder.archive, holder.todo \ {a}, a)
    BY <1>1, <2>1, <2>2 DEF HolderSet, Holders
  <2>4. /\ StatusSet(a, "failed")
        /\ IF artifact[a].state \in Open THEN StateSet(a, "failed", TRUE) ELSE artifact' = artifact
    BY <2>1, <2>2, FailedFields DEF ArchiveInv
  <2>5. TypeOK'
    BY <1>1, <2>3, <2>4, ZenonT(60) DEF ArchiveInv, TypeOK, HolderSet, StatusSet, StateSet
  <2>6. RowsAgree' /\ History'
    BY <1>1, <2>1, <2>2, FailedRows DEF ArchiveInv, Protected
  <2>7. ObjectsHeld'
    <3>1. CASE artifact[a].state \in Open
      BY <1>1, <2>4, <3>1 DEF ArchiveInv, ObjectsHeld, StatusSet, StateSet
    <3>2. CASE artifact[a].state \notin Open
      BY <1>1, <2>4, <3>2 DEF ArchiveInv, ObjectsHeld, StatusSet
    <3> QED
      BY <3>1, <3>2
  <2>8. AtWork'
    BY <1>1, <2>3 DEF ArchiveInv, AtWork, HolderSet
  <2>9. Queued'
    <3>1. \A b \in holder.todo \ {a} : b \in Archives /\ backup'[b].status = "promoting"
      BY <1>1, <2>4 DEF Promoting, StatusSet
    <3> QED
      BY <1>1, <2>3, <3>1 DEF Queued, Promoting, HolderSet
  <2>10. Ending'
    BY <1>1, <2>2, <2>3, <2>4 DEF ArchiveInv, Ending, HolderSet, StatusSet, TypeOK
  <2> QED
    BY <2>5, <2>6, <2>7, <2>8, <2>9, <2>10 DEF ArchiveInv
<1>4. CASE Goes(IF holder.task = "demand" THEN "claim" ELSE "open") /\ UNCHANGED <<backup, artifact>>
  <2>1. HolderSet(IF holder.task = "demand" THEN "claim" ELSE "open", holder.archive, holder.todo,
                  None)
    BY <1>1, <1>4, HolderFields DEF Steps, Holders
  <2>2. TypeOK'
    BY <1>1, <1>4, <2>1 DEF ArchiveInv, TypeOK, HolderSet
  <2>3. RowsAgree' /\ History' /\ ObjectsHeld'
    BY <1>1, <1>4, RowsKept, HistoryKept DEF ArchiveInv, ObjectsHeld
  <2>4. AtWork' /\ Queued' /\ Ending'
    BY <1>1, <1>4, <2>1 DEF ArchiveInv, AtWork, Queued, Ending, HolderSet
  <2> QED
    BY <2>2, <2>3, <2>4 DEF ArchiveInv
<1> QED
  BY <1>2, <1>3, <1>4 DEF sweep_stale_promotions

LEMMA Captures ==
    ASSUME ArchiveConstants, ArchiveInv, build_archive
    PROVE  ArchiveInv'
<1> DEFINE a == holder.archive
           facts == [activation |-> activation.state, success |-> last_success,
                     predecessor |-> predecessor_snapshot]
<1>1. /\ holder.step = "capture" /\ holder.doomed = None /\ a \in Archives /\ holder \in Holders
      /\ backup[a].status = "running" /\ artifact[a].state = "absent"
      /\ UNCHANGED <<staged, published, activation, last_success, backup_run, leased, purger,
                     overdue, switches, mishaps>>
  BY DEF build_archive, At, objects, others, ArchiveInv, AtWork, Stands, TypeOK
<1>2. CASE _fail_archive(a, "built")
  BY <1>1, <1>2, BuildFails
<1>3. CASE /\ holder' = [holder EXCEPT
                             !.step = IF Deployment(a) THEN "claim_promotion" ELSE "upload",
                             !.facts = facts]
           /\ UNCHANGED <<backup, artifact>>
  <2>1. facts \in Facts
    <3>1. predecessor_snapshot \in Archives \cup {None}
      BY Predecessor DEF ArchiveInv, History
    <3> QED
      BY <3>1 DEF Facts, ArchiveInv, TypeOK
  <2> HIDE DEF facts
  <2>2. /\ HolderSet(IF Deployment(a) THEN "claim_promotion" ELSE "upload", a, holder.todo, None)
    BY <1>1, <1>3, <2>1 DEF HolderSet, Holders, Steps
  <2>3. TypeOK'
    BY <1>1, <1>3, <2>2 DEF ArchiveInv, TypeOK, HolderSet
  <2>4. RowsAgree' /\ History' /\ ObjectsHeld'
    BY <1>1, <1>3, RowsKept, HistoryKept DEF ArchiveInv, ObjectsHeld
  <2>5. AtWork'
    BY <1>1, <1>3, <2>2 DEF AtWork, Stands, Deployment, HolderSet
  <2>6. Queued' /\ Ending'
    BY <1>1, <1>3, <2>2 DEF ArchiveInv, Queued, Ending, HolderSet
  <2> QED
    BY <2>3, <2>4, <2>5, <2>6 DEF ArchiveInv
<1> QED
  BY <1>2, <1>3 DEF build_archive

LEMMA Persists ==
    ASSUME ArchiveConstants, ArchiveInv, persist_pending
    PROVE  ArchiveInv'
<1> DEFINE a == holder.archive
<1>1. /\ holder.step = "persist" /\ holder.doomed = None /\ a \in Archives /\ holder \in Holders
      /\ backup[a].status = "promoting" /\ artifact[a].state = "absent" /\ Deployment(a)
      /\ artifact \in [Archives -> LedgerRows] /\ holder.facts \in Facts
      /\ artifact' = [artifact EXCEPT ![a] = [@ EXCEPT !.state = "pending", !.facts = holder.facts]]
      /\ Goes("upload")
      /\ UNCHANGED <<backup, staged, published, activation, last_success, backup_run, leased,
                     purger, overdue, switches, mishaps>>
  BY DEF persist_pending, At, objects, others, ArchiveInv, AtWork, Stands, TypeOK, Holders
<1>2. HolderSet("upload", a, holder.todo, None)
  BY <1>1, HolderFields DEF Steps, Holders
<1>3. /\ artifact' \in [Archives -> LedgerRows]
      /\ artifact'[a].state = "pending" /\ artifact'[a].promoted = artifact[a].promoted
      /\ \A b \in Archives \ {a} : artifact'[b] = artifact[b]
  BY <1>1 DEF LedgerRows, Open
<1>4. TypeOK'
  BY <1>1, <1>2, <1>3 DEF ArchiveInv, TypeOK, HolderSet
<1>5. RowsAgree'
  BY <1>1, <1>3 DEF ArchiveInv, RowsAgree, Legal, Deployment, Open
<1>6. ObjectsHeld'
  BY <1>1, <1>3 DEF ArchiveInv, ObjectsHeld
<1>7. AtWork'
  BY <1>1, <1>2, <1>3 DEF AtWork, Stands, Deployment, HolderSet
<1>8. Queued' /\ Ending'
  BY <1>1, <1>2, <1>3 DEF ArchiveInv, Queued, Ending, HolderSet
<1>9. History'
  <2>1. {b \in Archives : artifact'[b].promoted > 0} = {b \in Archives : artifact[b].promoted > 0}
    BY <1>3
  <2>2. Ordinals'
    BY <1>1, <1>3, <2>1 DEF ArchiveInv, History, Ordinals, Promoted
  <2>3. Effective'
    BY <1>1 DEF ArchiveInv, History, Effective
  <2>4. OneLineage'
    <3>1. \A b \in Archives : artifact[b].facts.predecessor \in Archives \cup {None}
      BY DEF ArchiveInv, TypeOK, LedgerRows, Facts
    <3> QED
      BY <1>1, <1>3, <3>1 DEF ArchiveInv, History, OneLineage, Promoted
  <2>5. ExclusionEarned'
    <3>1. artifact[a].promoted = 0
      <4>1. artifact[a].promoted \in Nat /\ ~(artifact[a].promoted > 0)
        <5>1. artifact[a].state \notin Promoted
          BY <1>1 DEF Promoted
        <5> QED
          BY <1>1, <5>1 DEF LedgerRows, ArchiveInv, History, Ordinals
      <4> QED
        BY <4>1
    <3> QED
      <4>1. SUFFICES ASSUME activation.state = "off_effective"
                     PROVE  ExclusionEarned'
        BY <1>1 DEF ExclusionEarned
      <4> DEFINE e == activation.effective
      <4>2. /\ e \in Archives /\ artifact[e].state \in Promoted
            /\ artifact[e].facts.activation = "off_pending" /\ artifact[e].promoted > 0
            /\ \A b \in Archives : artifact[b].promoted >= artifact[e].promoted
                                     => ~Full(artifact[b].facts.activation)
        BY <4>1 DEF ArchiveInv, History, Ordinals, Effective, ExclusionEarned
      <4>3. e # a /\ artifact[e].promoted \in Nat
        BY <1>1, <4>2 DEF LedgerRows, Promoted
      <4> QED
        BY <1>1, <1>3, <3>1, <4>2, <4>3 DEF ExclusionEarned
  <2> QED
    BY <2>2, <2>3, <2>4, <2>5 DEF History
<1> QED
  BY <1>4, <1>5, <1>6, <1>7, <1>8, <1>9 DEF ArchiveInv

-----------------------------------------------------------------------------
(* Promotion.                                                              *)

\* The artifact a becomes current and its predecessor is superseded.
Promotes(a) ==
    LET p == artifact[a].facts.predecessor
        most == Cardinality({b \in Archives : artifact[b].promoted > 0})
    IN /\ artifact' \in [Archives -> LedgerRows]
       /\ artifact'[a].state = "available" /\ artifact'[a].cleanup
       /\ artifact'[a].promoted = 1 + most
       /\ \A b \in Archives \ {a} :
             /\ artifact'[b].state = IF b = p THEN "superseded" ELSE artifact[b].state
             /\ artifact'[b].cleanup = artifact[b].cleanup
             /\ artifact'[b].promoted = artifact[b].promoted
       /\ \A b \in Archives : artifact'[b].facts = artifact[b].facts

LEMMA PromotedFields ==
    ASSUME ArchiveConstants, TypeOK, NEW a \in Archives, artifact[a].facts.predecessor # a,
           artifact' = PromotedLedger(a)
    PROVE  Promotes(a)
<1> DEFINE most == Cardinality({b \in Archives : artifact[b].promoted > 0})
<1>1. most \in Nat
  <2>1. IsFiniteSet({b \in Archives : artifact[b].promoted > 0})
    BY FS_Subset DEF ArchiveConstants
  <2> QED
    BY <2>1, FS_CardinalityType
<1> HIDE DEF most
<1>2. artifact' = [b \in Archives |->
          CASE b = a -> [artifact[a] EXCEPT !.state = "available", !.cleanup = TRUE,
                            !.promoted = 1 + most]
            [] b = artifact[a].facts.predecessor -> [artifact[b] EXCEPT !.state = "superseded"]
            [] OTHER -> artifact[b]]
  BY DEF PromotedLedger, most
<1>3. \A b \in Archives : artifact[b] \in LedgerRows
  BY DEF TypeOK
<1>4. artifact'[a] = [artifact[a] EXCEPT !.state = "available", !.cleanup = TRUE,
                         !.promoted = 1 + most]
  <2> DEFINE row == [artifact[a] EXCEPT !.state = "available", !.cleanup = TRUE,
                                        !.promoted = 1 + most]
  <2> HIDE DEF row
  <2>1. artifact' = [b \in Archives |->
          CASE b = a -> row
            [] b = artifact[a].facts.predecessor -> [artifact[b] EXCEPT !.state = "superseded"]
            [] OTHER -> artifact[b]]
    BY <1>2 DEF row
  <2>2. artifact'[a] = row
    BY <2>1
  <2> QED
    BY <2>2 DEF row
<1>5. /\ artifact'[a] \in LedgerRows /\ artifact'[a].state = "available" /\ artifact'[a].cleanup
      /\ artifact'[a].promoted = 1 + most /\ artifact'[a].facts = artifact[a].facts
  <2>1. /\ artifact'[a].state = "available" /\ artifact'[a].cleanup
        /\ artifact'[a].promoted = 1 + most /\ artifact'[a].facts = artifact[a].facts
    BY <1>3, <1>4 DEF LedgerRows
  <2>2. artifact'[a] = [state |-> "available", promoted |-> 1 + most, cleanup |-> TRUE,
                        facts |-> artifact[a].facts]
    BY <1>3, <1>4 DEF LedgerRows
  <2>3. 1 + most \in Nat /\ artifact[a].facts \in Facts
    BY <1>1, <1>3 DEF LedgerRows
  <2>4. artifact'[a] \in LedgerRows
    BY <2>2, <2>3 DEF LedgerRows, Promoted
  <2> QED
    BY <2>1, <2>4
<1>6. ASSUME NEW b \in Archives \ {a}
      PROVE  /\ artifact'[b] \in LedgerRows
             /\ artifact'[b].state = IF b = artifact[a].facts.predecessor THEN "superseded"
                                     ELSE artifact[b].state
             /\ artifact'[b].cleanup = artifact[b].cleanup
             /\ artifact'[b].promoted = artifact[b].promoted
             /\ artifact'[b].facts = artifact[b].facts
  <2>1. artifact'[b] = IF b = artifact[a].facts.predecessor
                       THEN [artifact[b] EXCEPT !.state = "superseded"] ELSE artifact[b]
    BY <1>2
  <2> QED
    BY <1>3, <2>1 DEF LedgerRows, Promoted
<1>7. artifact' \in [Archives -> LedgerRows]
  <2>1. artifact' = [b \in Archives |-> artifact'[b]]
    BY <1>2
  <2> QED
    BY <1>5, <1>6, <2>1
<1> QED
  BY <1>5, <1>6, <1>7 DEF Promotes, most

\* What the validation under the locks makes sure of.
LEMMA PromotionFounded ==
    ASSUME ArchiveConstants, TypeOK, History, NEW a \in Archives,
           artifact[a].state = "final_verified", artifact' = PromotedLedger(a),
           validate_frozen_state(a),
           activation' = IF activation.state = "off_pending"
                         THEN [state |-> "off_effective", effective |-> a] ELSE activation
    PROVE  History'
<1> DEFINE p == artifact[a].facts.predecessor
           most == Cardinality({b \in Archives : artifact[b].promoted > 0})
<1>1. /\ p \in Archives \cup {None}
      /\ p # None => p \in Archives \ {a} /\ artifact[p].state = "available"
      /\ activation.state = artifact[a].facts.activation
      /\ \A b \in Archives : /\ artifact[b].promoted \in Nat
                             /\ artifact[b].facts.predecessor \in Archives \cup {None}
  BY DEF validate_frozen_state, TypeOK, LedgerRows, Facts
<1>2. Promotes(a)
  BY <1>1, PromotedFields, a # None DEF ArchiveConstants
<1>3. /\ most \in Nat /\ artifact[a].promoted = 0
      /\ \A b \in Archives : artifact[b].promoted <= most
  <2>1. IsFiniteSet({b \in Archives : artifact[b].promoted > 0})
    BY FS_Subset DEF ArchiveConstants
  <2>2. artifact[a].state \notin Promoted
    BY DEF Promoted
  <2> QED
    BY <1>1, <2>1, <2>2, FS_CardinalityType DEF History, Ordinals
<1>4. Cardinality({b \in Archives : artifact'[b].promoted > 0}) = most + 1
  <2>1. {b \in Archives : artifact'[b].promoted > 0}
            = {b \in Archives : artifact[b].promoted > 0} \cup {a}
    BY <1>2, <1>3 DEF Promotes
  <2>2. IsFiniteSet({b \in Archives : artifact[b].promoted > 0})
    BY FS_Subset DEF ArchiveConstants
  <2>3. a \notin {b \in Archives : artifact[b].promoted > 0}
    BY <1>3
  <2> QED
    BY <2>1, <2>2, <2>3, FS_AddElement
<1>5. /\ artifact'[a].state = "available" /\ artifact'[a].promoted = most + 1
      /\ \A b \in Archives \ {a} :
            /\ artifact'[b].state = IF b = p THEN "superseded" ELSE artifact[b].state
            /\ artifact'[b].promoted = artifact[b].promoted
      /\ \A b \in Archives : artifact'[b].facts = artifact[b].facts
  BY <1>2, <1>3 DEF Promotes
<1>6. \A b \in Archives \ {a} : artifact'[b].state \in Promoted <=> artifact[b].state \in Promoted
  <2>1. SUFFICES ASSUME NEW b \in Archives \ {a}
                 PROVE  artifact'[b].state \in Promoted <=> artifact[b].state \in Promoted
    OBVIOUS
  <2>2. artifact'[b].state = IF b = p THEN "superseded" ELSE artifact[b].state
    BY <1>5
  <2>3. CASE b = p
    <3>1. artifact[b].state = "available" /\ artifact'[b].state = "superseded"
      BY <1>1, <2>1, <2>2, <2>3, a # None, b # None DEF ArchiveConstants
    <3> QED
      BY <3>1 DEF Promoted
  <2>4. CASE b # p
    BY <2>2, <2>4
  <2> QED
    BY <2>3, <2>4
<1> HIDE DEF most
<1>7. Ordinals'
  <2>1. SUFFICES ASSUME NEW b \in Archives
                 PROVE  /\ artifact'[b].promoted > 0 <=> artifact'[b].state \in Promoted
                        /\ artifact'[b].promoted <= most + 1
    BY <1>4 DEF Ordinals
  <2>2. CASE b = a
    BY <1>3, <1>5, <2>2 DEF Promoted
  <2>3. CASE b # a
    <3>1. artifact'[b].promoted = artifact[b].promoted /\ artifact[b].promoted \in Nat
      BY <1>1, <1>5, <2>3
    <3>2. /\ artifact[b].promoted > 0 <=> artifact[b].state \in Promoted
          /\ artifact[b].promoted <= most /\ most \in Nat
      BY <1>3 DEF History, Ordinals
    <3>3. artifact[b].promoted <= most + 1
      BY <3>1, <3>2
    <3> QED
      BY <1>6, <2>3, <3>1, <3>2, <3>3
  <2> QED
    BY <2>2, <2>3
<1>8. Effective'
  BY DEF History, Effective
<1>9. OneLineage'
  <2>1. SUFFICES ASSUME NEW b \in Archives, artifact'[b].state \in Promoted,
                        artifact[b].facts.predecessor # None
                 PROVE  LET o == artifact[b].facts.predecessor IN
                        /\ artifact'[o].state \in Promoted \ {"available"}
                        /\ artifact'[o].promoted < artifact'[b].promoted
                        /\ \A c \in Archives \ {b} :
                              artifact'[c].state \in Promoted => artifact[c].facts.predecessor # o
    BY <1>5 DEF OneLineage
  <2> DEFINE o == artifact[b].facts.predecessor
  <2>2. o \in Archives
    BY <1>1, <2>1
  <2>3. \A c \in Archives : artifact[c].state \in Promoted /\ artifact[c].facts.predecessor # None
            => /\ artifact[artifact[c].facts.predecessor].state \in Promoted \ {"available"}
               /\ artifact[artifact[c].facts.predecessor].promoted < artifact[c].promoted
               /\ \A d \in Archives \ {c} : artifact[d].state \in Promoted
                     => artifact[d].facts.predecessor # artifact[c].facts.predecessor
    BY DEF History, OneLineage
  <2>4. CASE b = a
    <3>1. artifact'[o].state = "superseded" /\ o # a /\ artifact'[o].promoted = artifact[o].promoted
      BY <1>1, <1>5, <2>1, <2>4
    <3>2. artifact'[o].promoted < artifact'[b].promoted
      BY <1>1, <1>3, <1>5, <2>2, <2>4, <3>1
    <3>3. \A c \in Archives \ {b} : artifact'[c].state \in Promoted => artifact[c].facts.predecessor # o
      BY <1>1, <1>6, <2>1, <2>3, <2>4
    <3> QED
      BY <3>1, <3>2, <3>3 DEF Promoted
  <2>5. CASE b # a
    <3>1. /\ artifact[o].state \in Promoted \ {"available"}
          /\ artifact[o].promoted < artifact[b].promoted
          /\ \A d \in Archives \ {b} :
                artifact[d].state \in Promoted => artifact[d].facts.predecessor # o
      BY <1>6, <2>1, <2>3, <2>5
    <3>2. o # a
      BY <3>1 DEF Promoted
    <3>3. o # p
      <4>1. o # None
        BY <2>1
      <4> QED
        BY <1>1, <3>1, <4>1
    <3>4. artifact'[o].state = artifact[o].state /\ artifact'[o].promoted = artifact[o].promoted
      BY <1>5, <2>2, <3>2, <3>3
    <3>5. \A c \in Archives \ {b} : artifact'[c].state \in Promoted => artifact[c].facts.predecessor # o
      BY <1>6, <3>1, <3>3
    <3> QED
      BY <1>5, <2>5, <3>1, <3>4, <3>5
  <2> QED
    BY <2>4, <2>5
<1>10. ExclusionEarned'
  <2>1. CASE activation.state = "off_pending"
    <3>1. \A b \in Archives : artifact'[b].promoted >= artifact'[a].promoted => b = a
      BY <1>1, <1>3, <1>5
    <3> QED
      BY <1>1, <1>5, <2>1, <3>1, ZenonT(60) DEF ExclusionEarned, Promoted, Full
  <2>2. CASE activation.state # "off_pending" /\ activation.state # "off_effective"
    BY <2>2 DEF ExclusionEarned
  <2>3. CASE activation.state = "off_effective"
    <3> DEFINE e == activation.effective
    <3>1. /\ e \in Archives /\ artifact[e].state \in Promoted
          /\ artifact[e].facts.activation = "off_pending"
          /\ \A b \in Archives : artifact[b].promoted >= artifact[e].promoted
                                   => ~Full(artifact[b].facts.activation)
      BY <2>3 DEF History, Effective, ExclusionEarned
    <3>2. e # a /\ activation' = activation
      BY <2>3, <3>1 DEF Promoted
    <3>3. ~Full(artifact[a].facts.activation)
      BY <1>1, <2>3 DEF Full
    <3> QED
      BY <1>5, <1>6, <3>1, <3>2, <3>3 DEF ExclusionEarned
  <2> QED
    BY <2>1, <2>2, <2>3
<1> QED
  BY <1>7, <1>8, <1>9, <1>10 DEF History

LEMMA PromotionStep ==
    ASSUME ArchiveConstants, ArchiveInv, promote_verified_artifact
    PROVE  ArchiveInv'
<1> DEFINE a == holder.archive
<1>1. /\ holder.step = "promote" /\ holder.doomed = None /\ a \in Archives /\ holder \in Holders
      /\ backup[a].status = "promoting" /\ artifact[a].state = "final_verified"
      /\ Deployment(a) /\ a \in published
      /\ UNCHANGED <<staged, published, backup_run, leased, purger, overdue, switches, mishaps>>
  BY DEF promote_verified_artifact, At, objects, others, ArchiveInv, AtWork, Stands, TypeOK,
         RowsAgree, ObjectsHeld
<1>2. CASE /\ validate_frozen_state(a) /\ artifact' = PromotedLedger(a)
           /\ activation' = IF activation.state = "off_pending"
                            THEN [state |-> "off_effective", effective |-> a] ELSE activation
           /\ backup' = [backup EXCEPT ![a].status = "available"]
           /\ last_success' = IF backup[a].run = None THEN a ELSE last_success
           /\ Goes("unstage")
  <2>1. HolderSet("unstage", a, holder.todo, None)
    BY <1>1, <1>2, HolderFields DEF Steps, Holders
  <2>2. StatusSet(a, "available")
    BY <1>1, <1>2, BackupFields DEF ArchiveInv, TypeOK, Statuses
  <2>3. LET p == artifact[a].facts.predecessor IN
        p # None => p \in Archives \ {a} /\ artifact[p].state = "available"
    BY <1>1, <1>2 DEF validate_frozen_state, ArchiveInv, TypeOK, LedgerRows, Facts
  <2>4. Promotes(a)
    BY <1>1, <1>2, <2>3, PromotedFields DEF ArchiveInv, ArchiveConstants
  <2>5. \A b \in Archives \ {a} :
           /\ backup'[b].status = backup[b].status
           /\ artifact'[b].cleanup = artifact[b].cleanup
           /\ \/ artifact'[b].state = artifact[b].state
              \/ artifact[b].state = "available" /\ artifact'[b].state = "superseded"
    BY <1>1, <2>2, <2>3, <2>4 DEF StatusSet, Promotes, ArchiveConstants
  <2>6. /\ backup' \in [Archives -> BackupRows] /\ artifact' \in [Archives -> LedgerRows]
        /\ backup'[a].status = "available" /\ artifact'[a].state = "available"
        /\ artifact'[a].cleanup /\ \A b \in Archives : backup'[b].scope = backup[b].scope
    <3>1. /\ backup' \in [Archives -> BackupRows] /\ backup'[a].status = "available"
          /\ \A b \in Archives : backup'[b].scope = backup[b].scope
      BY <1>1, <2>2 DEF StatusSet
    <3>2. /\ artifact' \in [Archives -> LedgerRows] /\ artifact'[a].state = "available"
          /\ artifact'[a].cleanup
      BY <2>4 DEF Promotes
    <3> QED
      BY <3>1, <3>2
  <2>7. TypeOK'
    BY <1>1, <1>2, <2>1, <2>6 DEF ArchiveInv, TypeOK, HolderSet, Switch
  <2>8. RowsAgree'
    BY <1>1, <2>5, <2>6 DEF ArchiveInv, RowsAgree, Legal, Deployment, Promoted, Open
  <2>9. ObjectsHeld'
    BY <1>1, <2>5, <2>6 DEF ArchiveInv, ObjectsHeld
  <2>10. AtWork'
    <3>1. holder'.archive = a /\ holder'.step = "unstage"
      BY <2>1 DEF HolderSet
    <3>2. backup'[a].status = "available" /\ artifact'[a].state \in Promoted
      BY <2>6 DEF Promoted
    <3> QED
      BY <1>1, <3>1, <3>2 DEF AtWork, Stands
  <2>11. Queued'
    <3>1. holder.todo \subseteq Archives
      BY <1>1 DEF Holders
    <3> QED
      BY <1>1, <2>1, <2>5, <3>1 DEF ArchiveInv, Queued, HolderSet, Open
  <2>12. Ending'
    BY <1>1, <2>1, <2>5 DEF ArchiveInv, Ending, HolderSet, TypeOK
  <2>13. History'
    BY <1>1, <1>2, PromotionFounded DEF ArchiveInv
  <2> QED
    BY <2>7, <2>8, <2>9, <2>10, <2>11, <2>12, <2>13 DEF ArchiveInv
<1>3. CASE Goes("tombstone") /\ UNCHANGED <<artifact, activation, backup, last_success>>
  <2>1. HolderSet("tombstone", a, holder.todo, None)
    BY <1>1, <1>3, HolderFields DEF Steps, Holders
  <2>2. TypeOK'
    BY <1>1, <1>3, <2>1 DEF ArchiveInv, TypeOK, HolderSet
  <2>3. RowsAgree' /\ ObjectsHeld' /\ History'
    BY <1>1, <1>3, RowsKept, HistoryKept DEF ArchiveInv, ObjectsHeld
  <2>4. AtWork'
    BY <1>1, <1>3, <2>1 DEF AtWork, Stands, Open, HolderSet
  <2>5. Queued' /\ Ending'
    BY <1>1, <1>3, <2>1 DEF ArchiveInv, Queued, Ending, HolderSet
  <2> QED
    BY <2>2, <2>3, <2>4, <2>5 DEF ArchiveInv
<1> QED
  BY <1>2, <1>3 DEF promote_verified_artifact

-----------------------------------------------------------------------------
(* The invariant holds in every state.                                     *)

LEMMA ArchiveUnchanged ==
    ASSUME ArchiveInv, UNCHANGED vars
    PROVE  ArchiveInv'
<1>1. UNCHANGED <<backup, artifact, staged, published, activation, last_success, backup_run,
                  holder, leased, purger, overdue, switches, mishaps>>
  BY DEF vars
<1>2. TypeOK'
  BY <1>1 DEF ArchiveInv, TypeOK
<1>3. RowsAgree' /\ History'
  BY <1>1, RowsKept, HistoryKept DEF ArchiveInv
<1>4. ObjectsHeld'
  BY <1>1 DEF ArchiveInv, ObjectsHeld
<1>5. AtWork'
  BY <1>1 DEF ArchiveInv, AtWork, Stands, Deployment, Finished
<1>6. Queued' /\ Ending'
  BY <1>1 DEF ArchiveInv, Queued, Ending, Promoting, Finished
<1> QED
  BY <1>2, <1>3, <1>4, <1>5, <1>6 DEF ArchiveInv

LEMMA ArchiveInit ==
    ASSUME ArchiveConstants, Init
    PROVE  ArchiveInv
<1>1. /\ \A a \in Archives :
            /\ backup[a].status = IF a \in Established THEN "available" ELSE "absent"
            /\ artifact[a].state = IF a \in Established THEN "available" ELSE "absent"
            /\ artifact[a].promoted = IF a \in Established THEN 1 ELSE 0
            /\ backup[a].scope = "deployment" /\ ~artifact[a].cleanup
            /\ artifact[a].facts.predecessor = None
      /\ staged = {} /\ published = Established /\ holder = Idle /\ purger = None
      /\ activation.state = "on"
  BY DEF Init, NoFacts
<1>2. TypeOK
  <2>1. NoFacts \in Facts
    BY DEF NoFacts, Facts, Switch
  <2>2. /\ backup \in [Archives -> BackupRows] /\ artifact \in [Archives -> LedgerRows]
    BY <2>1 DEF Init, BackupRows, LedgerRows, Statuses, Promoted, Open
  <2>3. holder \in Holders
    BY <2>1 DEF Init, Idle, Holders, Steps
  <2>4. /\ last_success \in Archives \cup Nat \cup {None}
        /\ staged \subseteq Archives /\ published \subseteq Archives
    BY DEF Init, ArchiveConstants
  <2> QED
    BY <2>2, <2>3, <2>4 DEF Init, TypeOK, Switch
<1>3. RowsAgree
  BY <1>1 DEF RowsAgree, Legal, Deployment, Promoted
<1>4. ObjectsHeld
  BY <1>1 DEF ObjectsHeld
<1>5. AtWork
  BY <1>1 DEF AtWork, Idle
<1>6. Queued /\ Ending
  BY <1>1 DEF Queued, Ending, Idle
<1>7. Ordinals
  <2> DEFINE first == {b \in Archives : artifact[b].promoted > 0}
  <2>1. IsFiniteSet(first)
    BY FS_Subset DEF ArchiveConstants
  <2>2. Cardinality(first) \in Nat /\ (Cardinality(first) = 0 => first = {})
    BY <2>1, FS_CardinalityType, FS_EmptySet
  <2>3. ASSUME NEW a \in Archives
        PROVE  /\ artifact[a].promoted > 0 <=> artifact[a].state \in Promoted
               /\ artifact[a].promoted <= Cardinality(first)
    <3>1. CASE a \in Established
      <4>1. artifact[a].promoted = 1 /\ artifact[a].state \in Promoted
        BY <1>1, <3>1 DEF Promoted
      <4>2. first # {}
        BY <4>1
      <4> QED
        BY <2>2, <4>1, <4>2
    <3>2. CASE a \notin Established
      <4>1. artifact[a].promoted = 0 /\ artifact[a].state \notin Promoted
        BY <1>1, <3>2 DEF Promoted
      <4> QED
        BY <2>2, <4>1
    <3> QED
      BY <3>1, <3>2
  <2> QED
    BY <2>3 DEF Ordinals
<1>8. Effective /\ OneLineage /\ ExclusionEarned
  BY <1>1 DEF Effective, OneLineage, ExclusionEarned
<1> QED
  BY <1>2, <1>3, <1>4, <1>5, <1>6, <1>7, <1>8 DEF ArchiveInv, History

LEMMA RequestStep ==
    ASSUME ArchiveConstants, ArchiveInv, Asked
    PROVE  ArchiveInv'
<1>1. CASE \E a \in Archives, scope \in Scopes : create_archive(a, scope)
  BY <1>1, Created
<1>2. CASE \E a \in Archives : fail_archive_dispatch(a) \/ run_archive(a)
  BY <1>2, DispatchFails, RunArchive
<1>3. CASE set_superadmin_access
  BY <1>3, Switched
<1> QED
  BY <1>1, <1>2, <1>3 DEF Asked

LEMMA PurgeStep ==
    ASSUME ArchiveConstants, ArchiveInv, Purges
    PROVE  ArchiveInv'
<1>1. CASE \E a \in Archives : Expires(a) \/ purge_expired_archives(a)
  BY <1>1, Expiry, PurgerStarts
<1>2. CASE mark_managed_bytes_deleted \/ PurgeRow
  BY <1>2, BytesDeleted, PurgerEnds
<1> QED
  BY <1>1, <1>2 DEF Purges

LEMMA WorkStep ==
    ASSUME ArchiveConstants, ArchiveInv, Works
    PROVE  ArchiveInv'
<1>1. CASE DeleteFailed \/ sweep_stale_promotions
  BY <1>1, DeletesFailed, Sweeps
<1>2. CASE \/ _fail_stale_runs \/ NotDue \/ open_run \/ _mark_coverage_covered \/ finalize_run
           \/ \E a \in Archives : _build_run_archives(a)
  BY <1>2, StaleRuns, WindowShut, RunOpened, RunCovered, RunFinalized, RunBuilds
<1>3. CASE \/ _claim_archive \/ build_archive \/ _claim_promotion \/ persist_pending
           \/ upload_staging \/ mark_staging_verified \/ create_final_from_staging
           \/ mark_final_verified
  BY <1>3, Claims, Captures, ClaimsPromotion, Persists, Uploads, StagingVerified, Publishes,
     FinalVerified
<1>4. CASE \/ promote_verified_artifact \/ _commit_archive_available \/ DeleteStaging
           \/ mark_cleanup_complete \/ Built \/ BuilderConflict
  BY <1>4, PromotionStep, CommitsAvailable, StagingDeleted, CleanupDone, BuiltOnDemand, Conflict
<1>5. CASE \E a \in Archives : _reconcile_pending(a) \/ RetryCleanup(a)
  BY <1>5, NextPending, RetriesCleanup
<1>6. CASE _tombstone \/ Bury \/ NextArtifact \/ StartCleanup \/ CleanupRetried \/ Reconciled
  BY <1>6, TombstoneWritten, Conflict, NextInspected, CleanupStarts, CleanupNoted, ReconcilerEnds
<1> QED
  BY <1>1, <1>2, <1>3, <1>4, <1>5, <1>6 DEF Works

LEMMA ArchiveNext ==
    ASSUME ArchiveConstants, ArchiveInv, [Next]_vars
    PROVE  ArchiveInv'
<1>1. CASE Asked \/ Works \/ Purges
  BY <1>1, RequestStep, WorkStep, PurgeStep
<1>2. CASE schedule_deployment_backup \/ reconcile_artifact_uploads
  BY <1>2, ScheduleBackup, ReconcileUploads
<1>3. CASE Raises \/ _fail_run \/ Dies \/ LeaseLapses
  BY <1>3, CallRaises, RunFails, LosesHolder, LapsedLease
<1>4. CASE UNCHANGED vars
  BY <1>4, ArchiveUnchanged
<1> QED
  BY <1>1, <1>2, <1>3, <1>4 DEF Next

\* What a reader asks of an archive follows from the invariant.
LEMMA ArchiveInvSound ==
    ASSUME ArchiveInv
    PROVE  ArchivesBacked /\ OneLineage /\ ExclusionEarned
<1>1. ASSUME NEW a \in Archives, artifact[a].state \in {"available", "superseded"}
      PROVE  backup[a].status = "available"
  <2>1. Legal(backup[a].status, artifact[a].state) /\ backup[a].status \in Statuses
    BY DEF ArchiveInv, RowsAgree, TypeOK, BackupRows
  <2> QED
    BY <1>1, <2>1 DEF Legal, Statuses, Open
<1>2. ArchivesBacked
  BY <1>1 DEF ArchiveInv, ObjectsHeld, ArchivesBacked
<1> QED
  BY <1>2 DEF ArchiveInv, History

\* An archive that can be downloaded has its object, whatever died while it was
\* built or reconciled; a promoted artifact has one successor at most, and an
\* exclusion in effect rests on an artifact that does not show the makerspace
\* (promotion.py, reconciliation.py, services_archives.py).
THEOREM ArchivesCorrect ==
    ASSUME ArchiveConstants
    PROVE  Spec => [](TypeOK /\ ArchivesBacked /\ OneLineage /\ ExclusionEarned)
<1>1. Init => ArchiveInv
  BY ArchiveInit
<1>2. ArchiveInv /\ [Next]_vars => ArchiveInv'
  BY ArchiveNext
<1>3. ArchiveInv => TypeOK /\ ArchivesBacked /\ OneLineage /\ ExclusionEarned
  BY ArchiveInvSound DEF ArchiveInv
<1> QED
  BY <1>1, <1>2, <1>3, PTL DEF Spec
=============================================================================

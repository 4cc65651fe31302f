---- MODULE AuditChain ----
(* The attested audit log of one scope (backend/apps/audit): rows carrying a *)
(* MAC are sealed into signed batches, every batch is anchored outside the   *)
(* database, and the signing key is rotated by an operator. The database can *)
(* be brought back from an older snapshot; the anchors cannot.               *)
(*                                                                           *)
(* A per-scope advisory lock is held by a whole attestation cycle and by     *)
(* each transaction of a rotation; step is the one its holder is about to take. Only *)
(* the writers of audit rows work outside it. A fingerprint is the version   *)
(* of a key with the epoch it was made in, a Merkle root the set of its      *)
(* rows: both are injective, and epochs keep what is written again after a   *)
(* restore apart from what was lost.                                         *)
EXTENDS Integers, Sequences, FiniteSets, SequencesExt

CONSTANTS
  MaxRows,      \* bound on rows of the log before writers stop
  MaxUnkeyed,   \* bound on rows written while the MAC key is unavailable
  MaxKeys,      \* bound on generations of the signing key
  MaxMishaps,   \* bound on failed calls and deaths
  MaxRestores   \* bound on restores of an older database

VARIABLES
  db,           \* the rows of the scope's tables
  sink,         \* the external anchors: batches and key transitions
  step,           \* what the holder of the scope's lock is about to do
  saved,        \* the database snapshots a restore may bring back
  epoch,        \* how often the database was restored
  losses

vars == <<db, sink, step, saved, epoch, losses>>

None == 0
Open == -1
\* The rows written before attestation was switched on (attested_from_id).
Cutover == 1

RowId(d, i) == <<i, d.rows[i].epoch>>
RowIds(d) == {RowId(d, i) : i \in DOMAIN d.rows}
Fingerprint(d, k) == <<k, d.keys[k].epoch>>

Visible(d) == {i \in DOMAIN d.rows : d.rows[i].kept}
Batched(d) == UNION {d.batches[b].leaves : b \in DOMAIN d.batches}

ActiveKeys(d) == {k \in DOMAIN d.keys : d.keys[k].active}
active_key(d) == CHOOSE k \in ActiveKeys(d) : TRUE
Pending(d) == \E k \in ActiveKeys(d) : d.keys[k].pending # None

KeyOf(d, fingerprint) == {k \in DOMAIN d.keys : Fingerprint(d, k) = fingerprint}

key_authorizes_sequence(key, seq) ==
  seq >= key.from /\ (key.to = Open \/ seq <= key.to)

scope_head(d) ==
  [seq |-> Len(d.batches),
   root |-> IF d.batches = <<>> THEN {} ELSE Last(d.batches).leaves]

(* ------------------------------- the anchors ---------------------------- *)

\* An anchor is the envelope of a batch under its sequence number; number 0 is
\* the activation of the first key, whose leaves are its genesis snapshot.
Anchor(seq, body) == [seq |-> seq, body |-> body]
Nobody == <<0, 0>>
NoHead == [seq |-> -1, signer |-> Nobody, root |-> {}]

Activation(d, k) ==
  [leaves |-> d.keys[k].genesis, prev |-> {}, signer |-> Fingerprint(d, k),
   epoch |-> d.keys[k].epoch]

\* What is anchored under the identity of a batch.
fetch(seq, body) ==
  {a \in sink.batches : a.seq = seq /\ a.body.signer = body.signer}

Transition(d, r) ==
  [seq |-> d.rotations[r].last,
   old |-> Fingerprint(d, d.rotations[r].old),
   new |-> Fingerprint(d, d.rotations[r].new),
   root |-> d.rotations[r].root]

\* Where the transitions after the newest batch lead from its signer.
Followed(signer, moves) ==
  LET reached == {signer} \cup {m.new : m \in moves}
  IN  CHOOSE s \in reached : \A m \in moves : m.old # s

fetch_scope_head ==
  IF sink.batches = {} THEN NoHead
  ELSE LET top == CHOOSE a \in sink.batches :
                    \A b \in sink.batches : b.seq <= a.seq
           moves == {m \in sink.moves : m.seq = top.seq}
       IN  [seq |-> top.seq,
            signer |-> Followed(top.body.signer, moves),
            root |-> IF top.seq = 0 THEN {} ELSE top.body.leaves]

\* Mutant: nobody asks who holds the scope.
MayPublish_own_sequence(seq, body) ==
  IF fetch(seq, body) # {} THEN fetch(seq, body) = {Anchor(seq, body)}
  ELSE \A a \in sink.batches : a.body.signer = body.signer => a.seq < seq

\* The sink takes a batch when it is already there, or when its signer holds the
\* scope and it extends the sequence: that of its own key for the first key, that
\* of the whole scope for a later one. Number 0 pins the scope to its signer.
MayPublish(seq, body) ==
  LET head == fetch_scope_head
      own == {a.seq : a \in {b \in sink.batches : b.body.signer = body.signer}}
      newest == CHOOSE n \in own \cup {-1} : \A m \in own : m <= n
  IN  IF fetch(seq, body) # {} THEN fetch(seq, body) = {Anchor(seq, body)}
      ELSE /\ head.signer \in {Nobody, body.signer}
           /\ seq > newest
           /\ seq = (IF body.signer[1] > 1 THEN head.seq ELSE newest) + 1
           /\ seq = 0 => sink = [batches |-> {}, moves |-> {}]

Published(seq, body) == [sink EXCEPT !.batches = @ \cup {Anchor(seq, body)}]

(* ------------------------------- the log -------------------------------- *)

Row(kept, mac) == [kept |-> kept, mac |-> mac, epoch |-> epoch]
Append_row(d) == [d EXCEPT !.rows = Append(@, Row(TRUE, TRUE))]

\* audit.record inserts its row inside the caller's transaction: the row has its
\* place in the log at once and is visible when that transaction commits. A row
\* is written without a MAC when its key cannot be unwrapped.
Unkeyed(d) == {i \in DOMAIN d.rows : ~d.rows[i].mac /\ i > Cutover}

record ==
  /\ Len(db.rows) < MaxRows
  /\ \E mac \in BOOLEAN :
       /\ ~mac => Cardinality(Unkeyed(db)) < MaxUnkeyed
       /\ db' = [db EXCEPT !.rows = Append(@, Row(FALSE, mac))]
  /\ UNCHANGED <<sink, step, saved, epoch, losses>>

Commit ==
  /\ \E i \in DOMAIN db.rows \ Visible(db) :
       /\ db.rows[i].epoch = epoch
       /\ db' = [db EXCEPT !.rows[i].kept = TRUE]
  /\ UNCHANGED <<sink, step, saved, epoch, losses>>

(* --------------------------- an attestation cycle ------------------------ *)

Key(from, active, genesis) ==
  [from |-> from, to |-> Open, active |-> active, live |-> TRUE,
   activated |-> FALSE, pending |-> None, genesis |-> genesis, epoch |-> epoch]

\* Each step of a cycle goes on or ends the cycle with an exception.
Proceed(checked, next) == step' = IF checked THEN next ELSE "idle"

\* provision_signing_key: the first key signs a snapshot of the rows it can see.
provision_signing_key ==
  /\ step = "idle"
  /\ step' = "activate"
  /\ db' = IF ActiveKeys(db) # {} THEN db
           ELSE [db EXCEPT !.keys =
                   Append(@, Key(0, TRUE, {RowId(db, i) : i \in Visible(db)}))]
  /\ UNCHANGED <<sink, saved, epoch, losses>>

\* validate_genesis_database: no row of the snapshot was lost, and every row
\* without a MAC was in it.
validate_genesis_database(d, key) ==
  /\ key.genesis \subseteq {RowId(d, i) : i \in Visible(d)}
  /\ \A i \in Visible(d) : d.rows[i].mac \/ RowId(d, i) \in key.genesis

\* activate_scope anchors the snapshot of the first key and then marks the key;
\* a later key was marked when its rotation ended.
activate_scope ==
  /\ step = "activate"
  /\ LET k == active_key(db)
         valid == /\ validate_genesis_database(db, db.keys[k])
                  /\ MayPublish(0, Activation(db, k))
     IN  IF k > 1
         THEN /\ Proceed(db.keys[k].activated, "synchronize")
              /\ UNCHANGED sink
         ELSE /\ Proceed(valid, "mark")
              /\ sink' = IF valid THEN Published(0, Activation(db, k)) ELSE sink
  /\ UNCHANGED <<db, saved, epoch, losses>>

MarkActivated ==
  /\ step = "mark"
  /\ db' = [db EXCEPT !.keys[active_key(db)].activated = TRUE]
  /\ step' = "synchronize"
  /\ UNCHANGED <<sink, saved, epoch, losses>>

TransitionsAnchored(d) ==
  \A r \in DOMAIN d.rotations :
    d.rotations[r].state = "FINALIZED" => Transition(d, r) \in sink.moves

ActivationAnchored(d) == Anchor(0, Activation(d, 1)) \in sink.batches

\* batch_envelope refuses a batch its own signer may not have signed.
Verifies(d, b) ==
  \E k \in KeyOf(d, d.batches[b].signer) : key_authorizes_sequence(d.keys[k], b)

Anchored(d, b) == Anchor(b, d.batches[b]) \in sink.batches
Unanchored(d) == {b \in DOMAIN d.batches : ~Anchored(d, b)}

\* synchronize_anchors goes through the batches in order and publishes the one a
\* cycle that died has left behind.
synchronize_anchors ==
  /\ step = "synchronize"
  /\ LET sound == /\ ActivationAnchored(db)
                  /\ TransitionsAnchored(db)
                  /\ \A b \in DOMAIN db.batches : Verifies(db, b)
         next == CHOOSE b \in Unanchored(db) : \A o \in Unanchored(db) : b <= o
         publishes == sound /\ Unanchored(db) # {} /\ MayPublish(next, db.batches[next])
     IN  /\ sink' = IF publishes THEN Published(next, db.batches[next]) ELSE sink
         /\ IF publishes THEN UNCHANGED step
            ELSE Proceed(sound /\ Unanchored(db) = {}, "seal")
  /\ UNCHANGED <<db, saved, epoch, losses>>

\* Mutant: only rows behind the newest one that was sealed.
Sealable_after_newest(d) ==
  {i \in Visible(d) : d.rows[i].mac /\ \A id \in Batched(d) : id[1] < i}

\* The visible rows with a MAC that no batch holds yet.
Sealable(d) ==
  {i \in Visible(d) : d.rows[i].mac /\ RowId(d, i) \notin Batched(d)}

seal_scope ==
  /\ step = "seal"
  /\ LET k == active_key(db)
         head == scope_head(db)
         seals == /\ db.keys[k].pending = None
                  /\ Sealable(db) # {}
                  /\ key_authorizes_sequence(db.keys[k], head.seq + 1)
         batch == [leaves |-> {RowId(db, i) : i \in Sealable(db)},
                   prev |-> head.root, signer |-> Fingerprint(db, k),
                   epoch |-> epoch]
     IN  /\ Proceed(seals, "publish")
         /\ db' = IF seals THEN [db EXCEPT !.batches = Append(@, batch)] ELSE db
  /\ UNCHANGED <<sink, saved, epoch, losses>>

AnchorBatch ==
  /\ step = "publish"
  /\ LET b == Len(db.batches)
         valid == Verifies(db, b) /\ MayPublish(b, db.batches[b])
     IN  sink' = IF valid THEN Published(b, db.batches[b]) ELSE sink
  /\ step' = "idle"
  /\ UNCHANGED <<db, saved, epoch, losses>>

(* ------------------------- the rotation of the key ----------------------- *)

\* Everything the operator's command does takes the lock for one transaction; it
\* is run again until the rotation it finds pending has ended.
PendingRotation == db.keys[active_key(db)].pending
Idle == step = "idle" /\ ActiveKeys(db) # {}

\* prepare_rotation: a key that sealed nothing yet is not rotated, a rotation that
\* is pending is taken up again.
prepare_rotation ==
  /\ Idle
  /\ PendingRotation = None
  /\ Len(db.keys) < MaxKeys
  /\ LET k == active_key(db)
         head == scope_head(db)
         new == Len(db.keys) + 1
         rotation == [old |-> k, new |-> new, last |-> head.seq,
                      root |-> head.root, state |-> "PREPARED"]
         prepared == [db EXCEPT
                        !.keys = Append([@ EXCEPT ![k].pending = Len(db.rotations) + 1],
                                        Key(head.seq + 1, FALSE, {})),
                        !.rotations = Append(@, rotation)]
     IN  /\ k > 1 => head.seq >= db.keys[k].from
         /\ db' = Append_row(prepared)
  /\ UNCHANGED <<sink, step, saved, epoch, losses>>

MayTransit(r) ==
  LET head == fetch_scope_head
      t == Transition(db, r)
  IN  t \in sink.moves
      \/ head = [seq |-> t.seq, signer |-> t.old, root |-> t.root]

\* publish_rotation anchors the transition inside the transaction that records it
\* as published: dying in between leaves it anchored and PREPARED.
publish_rotation ==
  /\ Idle
  /\ PendingRotation # None
  /\ MayTransit(PendingRotation)
  /\ sink' = [sink EXCEPT !.moves = @ \cup {Transition(db, PendingRotation)}]
  /\ step' = "published"
  /\ UNCHANGED <<db, saved, epoch, losses>>

RecordPublished ==
  /\ step = "published"
  /\ db' = [db EXCEPT !.rotations[PendingRotation].state = "PUBLISHED"]
  /\ step' = "idle"
  /\ UNCHANGED <<sink, saved, epoch, losses>>

\* finalize_rotation retires the old key at the head the rotation was bound to.
finalize_rotation ==
  /\ Idle
  /\ PendingRotation # None
  /\ LET r == PendingRotation
         rotation == db.rotations[r]
         retired == [db.keys[rotation.old] EXCEPT
                       !.to = rotation.last, !.active = FALSE,
                       !.pending = None, !.live = FALSE]
         promoted == [db.keys[rotation.new] EXCEPT
                        !.active = TRUE, !.activated = TRUE]
     IN  /\ Transition(db, r) \in sink.moves
         /\ scope_head(db) = [seq |-> rotation.last, root |-> rotation.root]
         /\ rotation.state = "PUBLISHED"
         /\ db' = Append_row([db EXCEPT
                    !.keys = [@ EXCEPT ![rotation.old] = retired,
                                       ![rotation.new] = promoted],
                    !.rotations[r].state = "FINALIZED"])
  /\ UNCHANGED <<sink, step, saved, epoch, losses>>

\* Mutant: the database is asked, not the sink.
HeadUnmoved_local(r) ==
  scope_head(db) = [seq |-> db.rotations[r].last, root |-> db.rotations[r].root]

\* The head out there is still the one the rotation was bound to.
HeadUnmoved(r) ==
  fetch_scope_head = [seq |-> db.rotations[r].last, root |-> db.rotations[r].root,
                      signer |-> Fingerprint(db, db.rotations[r].old)]

\* abort_rotation gives up a transition the sink has never seen. Its audit rows
\* commit together and count as one.
abort_rotation ==
  /\ Idle
  /\ PendingRotation # None
  /\ LET r == PendingRotation
         rotation == db.rotations[r]
     IN  /\ rotation.state = "PREPARED"
         /\ HeadUnmoved(r)
         /\ db' = Append_row([db EXCEPT
                    !.keys = [@ EXCEPT ![rotation.new].live = FALSE,
                                       ![rotation.old].pending = None],
                    !.rotations[r].state = "ABORTED"])
  /\ UNCHANGED <<sink, step, saved, epoch, losses>>

(* --------------------------------- faults -------------------------------- *)

\* The sink or the database cannot be reached, or the process dies: the lock is
\* released, and the transaction it was in is rolled back.
Fail ==
  /\ step # "idle"
  /\ losses < MaxMishaps
  /\ losses' = losses + 1
  /\ step' = "idle"
  /\ UNCHANGED <<db, sink, saved, epoch>>

Snapshot ==
  /\ saved = {}
  /\ epoch < MaxRestores
  /\ saved' = {db}
  /\ UNCHANGED <<db, sink, step, epoch, losses>>

\* The deployment is stopped and its database replaced by the snapshot; whoever
\* had a transaction open then never commits it.
Restore ==
  /\ epoch < MaxRestores
  /\ \E d \in saved : db' = d
  /\ saved' = {}
  /\ epoch' = epoch + 1
  /\ step' = "idle"
  /\ UNCHANGED <<sink, losses>>

Init ==
  /\ epoch = 0
  /\ db = [rows |-> <<[kept |-> TRUE, mac |-> FALSE, epoch |-> 0]>>, keys |-> <<>>,
           batches |-> <<>>, rotations |-> <<>>]
  /\ sink = [batches |-> {}, moves |-> {}]
  /\ step = "idle"
  /\ saved = {}
  /\ losses = 0

Cycle ==
  \/ provision_signing_key \/ activate_scope \/ MarkActivated
  \/ synchronize_anchors \/ seal_scope \/ AnchorBatch

Next ==
  \/ record \/ Commit
  \/ Cycle
  \/ prepare_rotation \/ publish_rotation \/ RecordPublished
  \/ finalize_rotation \/ abort_rotation
  \/ Fail \/ Snapshot \/ Restore

Unrecorded == db.rotations[PendingRotation].state = "PREPARED"

\* The scheduler runs a cycle every five minutes, and the lock queues those who
\* wait for it; an operator repeats the command until the rotation has ended.
Fairness ==
  /\ WF_vars(Cycle)
  /\ WF_vars(RecordPublished)
  /\ SF_vars(publish_rotation /\ Unrecorded)
  /\ SF_vars(finalize_rotation)

Spec == Init /\ [][Next]_vars
FairSpec == Spec /\ Fairness

(* ------------------------------ verification ----------------------------- *)

ClassifiedAttested(d) == \A i \in Visible(d) : d.rows[i].mac \/ i <= Cutover

\* The generations of the key, without the candidates that were given up.
GivenUp(d) ==
  {d.rotations[r].new : r \in {q \in DOMAIN d.rotations :
                                 d.rotations[q].state = "ABORTED"}}
Generations(d) == DOMAIN d.keys \ GivenUp(d)

\* _verify_activation and _verify_genesis_membership
ActivationVerified(d) ==
  /\ d.keys[1].activated
  /\ ActivationAnchored(d)
  /\ validate_genesis_database(d, d.keys[1])

RootAt(d, seq) == IF seq = 0 THEN {} ELSE d.batches[seq].leaves

\* _verify_rotation_chain: the generations follow one another, each handing over
\* to the next at the sequence number where its interval was closed, and there is
\* no other transition.
RotationsVerified(d) ==
  LET finalized == {r \in DOMAIN d.rotations : d.rotations[r].state = "FINALIZED"}
      Adjacent(k, l) ==
        l \in Generations(d) /\ k < l /\ \A o \in Generations(d) : o <= k \/ l <= o
      Joins(r, k) ==
        LET rotation == d.rotations[r] IN
        /\ rotation.old = k /\ Adjacent(k, rotation.new)
        /\ d.keys[k].to = rotation.last
        /\ d.keys[rotation.new].from = rotation.last + 1
        /\ rotation.last <= Len(d.batches)
        /\ rotation.root = RootAt(d, rotation.last)
  IN  /\ 1 \in Generations(d) /\ d.keys[1].from = 0
      /\ \E newest \in Generations(d) :
           /\ ActiveKeys(d) = {newest} /\ d.keys[newest].to = Open
           /\ \A k \in Generations(d) \ {newest} :
                /\ k < newest
                /\ d.keys[k].to # Open /\ ~d.keys[k].live
                /\ \E r \in finalized : Joins(r, k)
      /\ Cardinality(finalized) = Cardinality(Generations(d)) - 1
      /\ TransitionsAnchored(d)

\* _verify_batches: the batches continue one another, every one is anchored, and
\* nothing is anchored beyond the last.
BatchesVerified(d) ==
  /\ \A b \in DOMAIN d.batches :
       /\ d.batches[b].prev = RootAt(d, b - 1)
       /\ Verifies(d, b)
       /\ Anchored(d, b)
  /\ fetch_scope_head = [seq |-> Len(d.batches), root |-> scope_head(d).root,
                         signer |-> Fingerprint(d, active_key(d))]

verify_audit_integrity(d) ==
  /\ ClassifiedAttested(d)
  /\ ActiveKeys(d) # {}
  /\ ActivationVerified(d)
  /\ RotationsVerified(d)
  /\ BatchesVerified(d)

(* ------------------------------- properties ------------------------------ *)

TypeOK ==
  /\ step \in {"idle", "activate", "mark", "synchronize", "seal", "publish", "published"}
  /\ epoch \in 0..MaxRestores
  /\ losses \in 0..MaxMishaps

\* A row is sealed by at most one batch, whatever the order in which the writers
\* commit, and only when it is visible and carries a MAC.
SealedOnce ==
  /\ \A a, b \in DOMAIN db.batches :
       a # b => db.batches[a].leaves \cap db.batches[b].leaves = {}
  /\ Batched(db) \subseteq {RowId(db, i) : i \in {v \in Visible(db) : db.rows[v].mac}}

\* Every batch was signed by the generation whose closed interval holds its
\* number, and no two generations that ever held the scope hold the same number.
SignersAuthorized ==
  /\ \A b \in DOMAIN db.batches : Verifies(db, b)
  /\ \A k, l \in {j \in DOMAIN db.keys : db.keys[j].activated} :
       k < l => db.keys[k].to # Open /\ db.keys[k].to < db.keys[l].from

\* The anchors outside are one chain without a gap or a fork: each batch continues
\* the one before it and is signed by whoever the transitions handed the scope to.
AnchorsChained ==
  LET At(n) == CHOOSE a \in sink.batches : a.seq = n
      Moves(n) == {m \in sink.moves : m.seq = n}
  IN  /\ {a.seq : a \in sink.batches} = 0..(Cardinality(sink.batches) - 1)
      /\ \A m, o \in sink.moves : m.seq = o.seq /\ m.old = o.old => m = o
      /\ \A n \in 1..(Cardinality(sink.batches) - 1) :
           /\ At(n).body.signer = Followed(At(n - 1).body.signer, Moves(n - 1))
           /\ At(n).body.prev = IF n = 1 THEN {} ELSE At(n - 1).body.leaves

\* The log keeps one history: rows sealed once, by the key entitled to, anchored
\* as one chain, through crashes, rotations, aborted rotations and restores.
AuditChained == SealedOnce /\ SignersAuthorized /\ AnchorsChained

\* What was anchored and is no longer in the database.
Lost ==
  \/ \E a \in sink.batches :
       a.seq > 0 /\ (a.seq > Len(db.batches) \/ db.batches[a.seq] # a.body)
  \/ \E m \in sink.moves :
       \A r \in DOMAIN db.rotations :
         Transition(db, r) # m \/ db.rotations[r].state # "FINALIZED"

Settled ==
  /\ Idle
  /\ PendingRotation = None
  /\ Unanchored(db) = {}
  /\ db.keys[1].activated

\* The verdict of verify_audit_log is honest both ways. A database that misses
\* anything that was anchored never passes, however it goes on after a restore;
\* one that was never restored, and has no row written without a MAC, passes
\* whenever no cycle or rotation is under way or was left half done.
VerdictHonest ==
  /\ Lost => ~verify_audit_integrity(db)
  /\ Settled /\ epoch = 0 /\ Unkeyed(db) \cap Visible(db) = {}
       => verify_audit_integrity(db)

Attested ==
  {id \in RowIds(db) : db.rows[id[1]].mac /\ id[1] \in Visible(db)}
    \subseteq UNION {a.body.leaves : a \in sink.batches}

\* Whatever dies on the way, again and again all that was logged is anchored and
\* no rotation is pending: no row is forgotten, whenever its writer commits, and
\* every rotation that was begun comes to its end (seal_scope, synchronize_anchors,
\* the rotation command).
AuditSettles == []<>(Attested /\ ~Pending(db))
====

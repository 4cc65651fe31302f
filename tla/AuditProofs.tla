----------------------------- MODULE AuditProofs -----------------------------
(***************************************************************************)
(* The audit log of a scope keeps one history, for any number of rows, of  *)
(* keys, of failed calls and deaths and of restores of its database: what  *)
(* AuditChain promises, by an invariant of four parts.                     *)
(*                                                                         *)
(*   LogInv     the tables: the rows that were sealed, the intervals of    *)
(*              the keys, what the rotations say of them, who signed       *)
(*   SinkInv    the anchors outside                                        *)
(*   Outside    what the anchors and the tables know of one another, also  *)
(*              after the tables were brought back from a snapshot         *)
(*   Lock       what the holder of the scope's lock has made sure of       *)
(***************************************************************************)
EXTENDS AuditChain, FiniteSetTheorems, WellFoundedInduction, TLAPS

(* The columns of the tables.                                              *)
Ids == Nat \X Nat
RowSet == [kept : BOOLEAN, mac : BOOLEAN, epoch : Nat]
KeySet == [from : Nat, to : Nat \cup {Open}, active : BOOLEAN, live : BOOLEAN,
           activated : BOOLEAN, pending : Nat, genesis : SUBSET Ids, epoch : Nat]
BatchSet == [leaves : SUBSET Ids, prev : SUBSET Ids, signer : Ids, epoch : Nat]
RotationSet == [old : Nat, new : Nat, last : Nat, root : SUBSET Ids,
                state : {"PREPARED", "PUBLISHED", "FINALIZED", "ABORTED"}]
MoveSet == [seq : Nat, old : Ids, new : Ids, root : SUBSET Ids]
DbSet == [rows : Seq(RowSet), keys : Seq(KeySet), batches : Seq(BatchSet),
          rotations : Seq(RotationSet)]

\* Each row that was sealed is visible and carries a MAC, the batches continue one
\* another, and the first key's snapshot holds rows that are still there.
RowsSealed(d) ==
  /\ 1 \in DOMAIN d.rows /\ d.rows[1].kept /\ d.rows[1].epoch = 0
  /\ \A a, b \in DOMAIN d.batches :
       a # b => d.batches[a].leaves \cap d.batches[b].leaves = {}
  /\ \A b \in DOMAIN d.batches : \A id \in d.batches[b].leaves :
       \E i \in Visible(d) : d.rows[i].mac /\ id = RowId(d, i)
  /\ \A b \in DOMAIN d.batches : d.batches[b].prev = RootAt(d, b - 1)
  /\ d.keys # <<>> =>
       /\ RowId(d, 1) \in d.keys[1].genesis
       /\ \A id \in d.keys[1].genesis : \E i \in Visible(d) : id = RowId(d, i)

\* The keys that hold the scope or held it, and the one about to be handed it.
Held(d, k) == k = 1 \/ d.keys[k].activated
Candidate(d, a, k) == d.keys[a].pending # None /\ k = d.rotations[d.keys[a].pending].new

\* One key holds the scope and it is the newest that ever did; the intervals of
\* those that held it follow one another without overlap.
KeysHeld(d) ==
  /\ \A j, k \in ActiveKeys(d) : j = k
  /\ d.keys # <<>> => ActiveKeys(d) # {} /\ d.keys[1].from = 0
  /\ \A k \in DOMAIN d.keys :
       /\ d.keys[k].pending \in 0..Len(d.rotations)
       /\ d.keys[k].active => d.keys[k].to = Open /\ Held(d, k)
       /\ ~d.keys[k].active => d.keys[k].pending = None
       /\ ~d.keys[k].active /\ Held(d, k) => ~d.keys[k].live
       /\ d.keys[k].to # Open => d.keys[k].to \in 0..Len(d.batches)
       /\ k > 1 => d.keys[k].from \in 1..(Len(d.batches) + 1)
       /\ k > 1 /\ d.keys[k].to # Open => d.keys[k].from <= d.keys[k].to
  /\ \A k \in ActiveKeys(d) : \A j \in DOMAIN d.keys :
       /\ Held(d, j) => j <= k
       /\ j > k => j \in GivenUp(d) \/ Candidate(d, k, j)
  /\ \A j, k \in DOMAIN d.keys :
       j < k /\ Held(d, j) /\ Held(d, k) => d.keys[j].to # Open /\ d.keys[j].to < d.keys[k].from

\* What a rotation says of its keys, and its keys of it.
RotationSays(d, r) ==
  LET rotation == d.rotations[r] IN
  /\ rotation.old \in DOMAIN d.keys /\ rotation.new \in DOMAIN d.keys
  /\ rotation.old < rotation.new /\ Held(d, rotation.old)
  /\ rotation.last <= Len(d.batches)
  /\ rotation.old > 1 => d.keys[rotation.old].from <= rotation.last
  /\ d.keys[rotation.new].from = rotation.last + 1
  /\ rotation.root = RootAt(d, rotation.last)
  /\ rotation.state = "FINALIZED" <=> Held(d, rotation.new)
  /\ rotation.state = "FINALIZED" =>
       /\ ~d.keys[rotation.old].active
       /\ d.keys[rotation.old].to = rotation.last
       /\ \A k \in DOMAIN d.keys : rotation.old < k /\ k < rotation.new => k \in GivenUp(d)
  /\ rotation.state \in {"PREPARED", "PUBLISHED"} <=> d.keys[rotation.old].pending = r

RotationsKept(d) ==
  /\ \A r \in DOMAIN d.rotations : RotationSays(d, r)
  /\ \A q, r \in DOMAIN d.rotations : d.rotations[q].new = d.rotations[r].new => q = r
  /\ \A k \in DOMAIN d.keys :
       /\ k > 1 => \E r \in DOMAIN d.rotations : d.rotations[r].new = k
       /\ Held(d, k) /\ ~d.keys[k].active =>
            \E r \in DOMAIN d.rotations : d.rotations[r].old = k /\ d.rotations[r].state = "FINALIZED"
       /\ d.keys[k].pending # None =>
            /\ d.rotations[d.keys[k].pending].old = k
            /\ d.rotations[d.keys[k].pending].last = Len(d.batches)

\* A batch's signer held the scope at the sequence number it signed.
Signed(d) ==
  \A b \in DOMAIN d.batches :
    \E k \in DOMAIN d.keys : 
      Held(d, k) /\ d.batches[b].signer = Fingerprint(d, k) /\ key_authorizes_sequence(d.keys[k], b)

LogInv(d) == d \in DbSet /\ RowsSealed(d) /\ KeysHeld(d) /\ RotationsKept(d) /\ Signed(d)

\* The anchors are numbered without a gap, a transition is made at a batch its old
\* key signed, and the batch behind it is signed by the new one.
Size == Cardinality(sink.batches)
SinkInv ==
  /\ sink \in [batches : SUBSET [seq : Nat, body : BatchSet], moves : SUBSET MoveSet]
  /\ IsFiniteSet(sink.batches)
  /\ \A a \in sink.batches : a.seq < Size /\ a.body.signer[1] > 0
  /\ \A n \in 0..Size - 1 : \E a \in sink.batches : a.seq = n
  /\ \A a, b \in sink.batches : a.seq = b.seq => a = b
  /\ \A m \in sink.moves :
       /\ m.old[1] < m.new[1]
       /\ \E a \in sink.batches : a.seq = m.seq /\ a.body.signer = m.old
  /\ \A m, o \in sink.moves : m.seq = o.seq => m = o
  /\ \A a, b \in sink.batches : b.seq = a.seq + 1 =>
       /\ b.body.prev = IF a.seq = 0 THEN {} ELSE a.body.leaves
       /\ \A m \in sink.moves : m.seq = a.seq => b.body.signer = m.new
       /\ (\A m \in sink.moves : m.seq # a.seq) => b.body.signer = a.body.signer

\* What a database says is activated or finalized was anchored, and what was
\* anchored of its keys is what it says.
KnownBy(s, d) ==
  /\ \A m \in s.moves : \A k \in DOMAIN d.keys :
       m.new = Fingerprint(d, k) => d.keys[k].from = m.seq + 1
  /\ d.keys # <<>> /\ d.keys[1].activated => Anchor(0, Activation(d, 1)) \in s.batches
  /\ \A r \in DOMAIN d.rotations :
       d.rotations[r].state = "FINALIZED" => Transition(d, r) \in s.moves

\* Nothing outside comes from an epoch that has not begun.
EpochsBy(s, d, n) ==
  /\ n \in Nat
  /\ \A k \in DOMAIN d.keys : d.keys[k].epoch <= n
  /\ \A m \in s.moves :
       m.new[2] <= n /\ (m.new[2] = n => m.new[1] <= Len(d.keys))

\* A snapshot is such a database too, and the keys it has are still there.
SnapshotsBy(S, s, d) ==
  \A x \in S :
    /\ LogInv(x) /\ KnownBy(s, x)
    /\ Len(x.keys) <= Len(d.keys)
    /\ \A k \in DOMAIN x.keys :
         x.keys[k].epoch = d.keys[k].epoch /\ x.keys[k].from = d.keys[k].from

\* What the holder of the scope's lock has made sure of when it comes to a step.
Lock ==
  /\ step \in {"idle", "activate", "mark", "synchronize", "seal", "publish", "published"}
  /\ step # "idle" => db.keys # <<>>
  /\ step = "mark" => active_key(db) = 1 /\ ActivationAnchored(db)
  /\ step = "seal" => Unanchored(db) = {}
  /\ step = "publish" =>
       db.batches # <<>> /\ \A b \in DOMAIN db.batches : b < Len(db.batches) => Anchored(db, b)
  /\ step = "published" => PendingRotation # None /\ Transition(db, PendingRotation) \in sink.moves

\* Where nothing was restored, whatever is outside is still in the database.
UnrestoredBy(s, d) ==
  /\ \A a \in s.batches : a.seq <= Len(d.batches)
  /\ \A m \in s.moves : \E r \in DOMAIN d.rotations :
       m = Transition(d, r) /\ d.rotations[r].state # "ABORTED"

Outside ==
  /\ KnownBy(sink, db) /\ EpochsBy(sink, db, epoch) /\ SnapshotsBy(saved, sink, db)
  /\ epoch = 0 => UnrestoredBy(sink, db)

AuditInv == LogInv(db) /\ SinkInv /\ Outside /\ Lock

(* The columns of the tables.                                                *)
LEMMA DbFields ==
    ASSUME NEW d, d \in DbSet
    PROVE  /\ Len(d.rows) \in Nat /\ DOMAIN d.rows = 1..Len(d.rows)
           /\ Len(d.keys) \in Nat /\ DOMAIN d.keys = 1..Len(d.keys)
           /\ Len(d.batches) \in Nat /\ DOMAIN d.batches = 1..Len(d.batches)
           /\ Len(d.rotations) \in Nat /\ DOMAIN d.rotations = 1..Len(d.rotations)
           /\ \A i \in DOMAIN d.rows : d.rows[i] \in RowSet
           /\ \A k \in DOMAIN d.keys :
                /\ d.keys[k] \in KeySet
                /\ d.keys[k].from \in Nat /\ d.keys[k].to \in Nat \cup {Open}
                /\ d.keys[k].pending \in Nat /\ d.keys[k].epoch \in Nat
           /\ \A b \in DOMAIN d.batches : d.batches[b] \in BatchSet
           /\ \A r \in DOMAIN d.rotations :
                /\ d.rotations[r] \in RotationSet
                /\ d.rotations[r].old \in Nat /\ d.rotations[r].new \in Nat
                /\ d.rotations[r].last \in Nat
<1>1. /\ d.rows \in Seq(RowSet) /\ d.keys \in Seq(KeySet)
      /\ d.batches \in Seq(BatchSet) /\ d.rotations \in Seq(RotationSet)
  BY DEF DbSet
<1>2. /\ \A i \in DOMAIN d.rows : d.rows[i] \in RowSet
      /\ \A k \in DOMAIN d.keys : d.keys[k] \in KeySet
      /\ \A b \in DOMAIN d.batches : d.batches[b] \in BatchSet
      /\ \A r \in DOMAIN d.rotations : d.rotations[r] \in RotationSet
  BY <1>1
<1>3. \A x \in KeySet : x.from \in Nat /\ x.to \in Nat \cup {Open} /\ x.pending \in Nat /\ x.epoch \in Nat
  BY DEF KeySet
<1>4. \A x \in RotationSet : x.old \in Nat /\ x.new \in Nat /\ x.last \in Nat
  BY DEF RotationSet
<1> QED
  BY <1>1, <1>2, <1>3, <1>4

-----------------------------------------------------------------------------
LEMMA KeyHolder ==
    ASSUME NEW d, LogInv(d), d.keys # <<>>
    PROVE  /\ active_key(d) \in DOMAIN d.keys /\ d.keys[active_key(d)].active
           /\ \A k \in DOMAIN d.keys : d.keys[k].active => k = active_key(d)
<1>1. ActiveKeys(d) # {} /\ \A j, k \in ActiveKeys(d) : j = k
  BY DEF LogInv, KeysHeld
<1>2. active_key(d) \in ActiveKeys(d)
  BY <1>1 DEF active_key
<1> QED
  BY <1>1, <1>2 DEF ActiveKeys

LEMMA HeadOfLog ==
    ASSUME NEW d, d \in DbSet
    PROVE  scope_head(d) = [seq |-> Len(d.batches), root |-> RootAt(d, Len(d.batches))]
BY DEF scope_head, RootAt, Last, DbSet, BatchSet

(* The newest anchor, and whom the transitions behind it handed the scope to. *)
LEMMA HeadOutside ==
    ASSUME SinkInv, NEW a \in sink.batches, a.seq + 1 = Size
    PROVE  /\ fetch_scope_head.seq = a.seq
           /\ fetch_scope_head.root = IF a.seq = 0 THEN {} ELSE a.body.leaves
           /\ \A m \in sink.moves : m.seq = a.seq => fetch_scope_head.signer = m.new
           /\ (\A m \in sink.moves : m.seq # a.seq) =>
                fetch_scope_head.signer = a.body.signer
<1> DEFINE moves == {m \in sink.moves : m.seq = a.seq}
<1>1. Size \in Nat /\ \A b \in sink.batches : b.seq \in Nat /\ b.seq <= a.seq
  BY FS_CardinalityType DEF SinkInv, Size
<1>2. (CHOOSE b \in sink.batches : \A c \in sink.batches : c.seq <= b.seq) = a
  BY <1>1 DEF SinkInv
<1>3. fetch_scope_head = [seq |-> a.seq, signer |-> Followed(a.body.signer, moves),
                          root |-> IF a.seq = 0 THEN {} ELSE a.body.leaves]
  <2> DEFINE top == CHOOSE b \in sink.batches : \A c \in sink.batches : c.seq <= b.seq
  <2>1. fetch_scope_head =
          [seq |-> top.seq,
           signer |-> Followed(top.body.signer, {m \in sink.moves : m.seq = top.seq}),
           root |-> IF top.seq = 0 THEN {} ELSE top.body.leaves]
    BY Zenon DEF fetch_scope_head
  <2>2. top = a
    BY <1>2
  <2> HIDE DEF top
  <2> QED
    BY <2>1, <2>2
<1>4. ASSUME NEW m \in sink.moves, m.seq = a.seq
      PROVE  Followed(a.body.signer, moves) = m.new
  <2>1. moves = {m} /\ m.old = a.body.signer /\ m.old[1] < m.new[1]
    BY <1>4 DEF SinkInv
  <2>2. m.old \in Ids /\ m.new \in Ids
    BY DEF SinkInv, MoveSet
  <2>3. m.old # m.new
    BY <2>1, <2>2 DEF Ids
  <2> QED
    BY <2>1, <2>3 DEF Followed
<1>5. ASSUME \A m \in sink.moves : m.seq # a.seq
      PROVE  Followed(a.body.signer, moves) = a.body.signer
  BY <1>5 DEF Followed
<1> QED
  BY <1>3, <1>4, <1>5

(* A batch that the sink takes is the next one, from whoever holds the scope. *)
LEMMA NextAnchor ==
    ASSUME SinkInv, NEW seq \in Nat, NEW body \in BatchSet, body.signer[1] > 0,
           MayPublish(seq, body), fetch(seq, body) = {}
    PROVE  seq = Size /\ (seq > 0 => fetch_scope_head.signer = body.signer)
<1> DEFINE own == {a.seq : a \in {b \in sink.batches : b.body.signer = body.signer}}
           newest == CHOOSE n \in own \cup {-1} : \A m \in own : m <= n
<1>1. /\ fetch_scope_head.signer \in {Nobody, body.signer}
      /\ seq = (IF body.signer[1] > 1 THEN fetch_scope_head.seq ELSE newest) + 1
      /\ seq = 0 => sink.batches = {}
  <2>1. /\ fetch_scope_head.signer \in {Nobody, body.signer}
        /\ seq = (IF body.signer[1] > 1 THEN fetch_scope_head.seq ELSE newest) + 1
        /\ seq = 0 => sink = [batches |-> {}, moves |-> {}]
    BY Zenon DEF MayPublish
  <2> HIDE DEF own, newest
  <2> QED
    BY <2>1
<1>2. Size \in Nat /\ (Size = 0 <=> sink.batches = {})
  BY FS_CardinalityType, FS_EmptySet DEF SinkInv, Size
<1>3. body.signer \in Ids
  BY DEF BatchSet
<1>4. CASE sink.batches = {}
  <2>1. fetch_scope_head = NoHead
    BY <1>4 DEF fetch_scope_head
  <2>2. newest = -1
    BY <1>4
  <2> QED
    BY <1>1, <1>2, <1>4, <2>1, <2>2 DEF NoHead
<1>5. CASE sink.batches # {}
  <2>1. PICK a \in sink.batches : a.seq = Size - 1
    BY <1>2, <1>5 DEF SinkInv
  <2>2. /\ fetch_scope_head.seq = a.seq
        /\ \A m \in sink.moves : m.seq = a.seq => fetch_scope_head.signer = m.new
        /\ (\A m \in sink.moves : m.seq # a.seq) => fetch_scope_head.signer = a.body.signer
    BY <1>2, <2>1, HeadOutside
  <2>3. \A m \in sink.moves : m.old \in Ids /\ m.new \in Ids /\ m.new[1] > 1
    BY DEF SinkInv, MoveSet, BatchSet, Ids
  <2>4. fetch_scope_head.signer # Nobody
    BY <2>2, <2>3 DEF Nobody, SinkInv
  <2>5. fetch_scope_head.signer = body.signer
    BY <1>1, <2>4
  <2>6. CASE body.signer[1] > 1
    BY <1>1, <1>2, <2>1, <2>2, <2>5, <2>6
  <2>7. CASE ~(body.signer[1] > 1)
    <3>1. a.body.signer = body.signer
      BY <2>2, <2>3, <2>5, <2>7
    <3>2. a.seq \in own /\ \A n \in own : n \in Nat /\ n <= a.seq
      BY <1>2, <2>1, <3>1 DEF SinkInv
    <3>3. newest = a.seq
      <4> HIDE DEF own
      <4> QED
        BY <3>2
    <3> HIDE DEF own, newest
    <3> QED
      BY <1>1, <1>2, <2>1, <2>5, <2>7, <3>3
  <2> QED
    BY <2>6, <2>7
<1> QED
  BY <1>4, <1>5

(* Publishing keeps the anchors one chain.                                   *)
LEMMA AnchorAdded ==
    ASSUME SinkInv, NEW seq \in Nat, NEW body \in BatchSet, body.signer[1] > 0,
           MayPublish(seq, body),
           \A a \in sink.batches : seq = a.seq + 1 =>
              body.prev = IF a.seq = 0 THEN {} ELSE a.body.leaves,
           sink' = Published(seq, body)
    PROVE  /\ SinkInv' /\ sink'.moves = sink.moves
           /\ sink'.batches = sink.batches \cup {Anchor(seq, body)}
<1>1. sink' = [sink EXCEPT !.batches = @ \cup {Anchor(seq, body)}]
  BY DEF Published
<1>2. /\ sink'.moves = sink.moves /\ sink'.batches = sink.batches \cup {Anchor(seq, body)}
      /\ sink' \in [batches : SUBSET [seq : Nat, body : BatchSet], moves : SUBSET MoveSet]
  BY <1>1 DEF SinkInv, Anchor
<1>3. CASE fetch(seq, body) # {}
  <2>1. Anchor(seq, body) \in sink.batches
    BY <1>3 DEF MayPublish, fetch
  <2>2. sink' = sink
    BY <1>1, <2>1 DEF SinkInv
  <2>3. SinkInv'
    BY <2>2 DEF SinkInv, Size
  <2> QED
    BY <1>2, <2>3
<1>4. CASE fetch(seq, body) = {}
  <2> DEFINE new == Anchor(seq, body)
  <2>1. seq = Size /\ (seq > 0 => fetch_scope_head.signer = body.signer)
    BY <1>4, NextAnchor
  <2>2. Size \in Nat /\ \A a \in sink.batches : a.seq \in Nat /\ a.seq < Size
    BY FS_CardinalityType DEF SinkInv, Size
  <2>3. new.seq = seq /\ new.body = body /\ new \notin sink.batches
    BY <2>1, <2>2 DEF Anchor
  <2>4. IsFiniteSet(sink.batches)' /\ Size' = Size + 1
    BY <1>2, <2>3, FS_AddElement DEF SinkInv, Size
  <2>5. \A n \in 0..Size' - 1 : \E a \in sink'.batches : a.seq = n
    BY <1>2, <2>1, <2>2, <2>3, <2>4 DEF SinkInv
  <2>6. /\ \A a \in sink'.batches : a.seq < Size' /\ a.body.signer[1] > 0
        /\ \A a, b \in sink'.batches : a.seq = b.seq => a = b
    BY <1>2, <2>1, <2>2, <2>3, <2>4 DEF SinkInv
  <2>7. \A m \in sink'.moves :
       /\ m.old[1] < m.new[1]
       /\ \E a \in sink'.batches : a.seq = m.seq /\ a.body.signer = m.old
    BY <1>2 DEF SinkInv
  <2>8. \A m, o \in sink'.moves : m.seq = o.seq => m = o
    BY <1>2 DEF SinkInv
  <2>9. ASSUME NEW a \in sink.batches, seq = a.seq + 1
        PROVE  /\ \A m \in sink.moves : m.seq = a.seq => body.signer = m.new
               /\ (\A m \in sink.moves : m.seq # a.seq) => body.signer = a.body.signer
    BY <2>1, <2>2, <2>9, HeadOutside
  <2>10. \A m \in sink.moves : m.seq < seq
    BY <2>1, <2>2 DEF SinkInv
  <2>11. ASSUME NEW a \in sink'.batches, NEW b \in sink'.batches, b.seq = a.seq + 1
         PROVE  /\ b.body.prev = IF a.seq = 0 THEN {} ELSE a.body.leaves
                /\ \A m \in sink'.moves : m.seq = a.seq => b.body.signer = m.new
                /\ (\A m \in sink'.moves : m.seq # a.seq) => b.body.signer = a.body.signer
    <3>1. a # new
      BY <1>2, <2>1, <2>2, <2>3, <2>11
    <3>2. CASE b = new
      BY <1>2, <2>3, <2>9, <2>11, <3>1, <3>2
    <3>3. CASE b # new
      BY <1>2, <2>11, <3>1, <3>3 DEF SinkInv
    <3> QED
      BY <3>2, <3>3
  <2> QED
    BY <1>2, <2>4, <2>5, <2>6, <2>7, <2>8, <2>11 DEF SinkInv
<1> QED
  BY <1>3, <1>4

(* What the sink's chain is made of, as AnchorsChained says it.              *)
LEMMA SinkChained == SinkInv => AnchorsChained
<1> SUFFICES ASSUME SinkInv PROVE AnchorsChained
  OBVIOUS
<1> DEFINE At(n) == CHOOSE a \in sink.batches : a.seq = n
           Moves(n) == {m \in sink.moves : m.seq = n}
<1>1. Size \in Nat /\ \A a \in sink.batches : a.seq \in Nat
  BY FS_CardinalityType DEF SinkInv, Size
<1>2. {a.seq : a \in sink.batches} = 0..(Size - 1)
  BY <1>1 DEF SinkInv
<1>3. \A m, o \in sink.moves : m.seq = o.seq /\ m.old = o.old => m = o
  BY DEF SinkInv
<1>4. ASSUME NEW n \in 1..(Size - 1)
      PROVE  /\ At(n).body.signer = Followed(At(n - 1).body.signer, Moves(n - 1))
             /\ At(n).body.prev = IF n = 1 THEN {} ELSE At(n - 1).body.leaves
  <2>1. /\ At(n) \in sink.batches /\ At(n).seq = n
        /\ At(n - 1) \in sink.batches /\ At(n - 1).seq = n - 1
    BY <1>1 DEF SinkInv
  <2> HIDE DEF At
  <2>2. /\ At(n).body.prev = IF n = 1 THEN {} ELSE At(n - 1).body.leaves
        /\ \A m \in Moves(n - 1) : At(n).body.signer = m.new
        /\ Moves(n - 1) = {} => At(n).body.signer = At(n - 1).body.signer
    BY <1>1, <2>1 DEF SinkInv
  <2>3. CASE Moves(n - 1) = {}
    BY <2>2, <2>3 DEF Followed
  <2>4. ASSUME NEW m \in Moves(n - 1)
        PROVE  Followed(At(n - 1).body.signer, Moves(n - 1)) = m.new
    <3>1. Moves(n - 1) = {m} /\ m.old = At(n - 1).body.signer /\ m.old[1] < m.new[1]
      BY <2>1 DEF SinkInv
    <3>2. m.old \in Ids /\ m.new \in Ids
      BY DEF SinkInv, MoveSet
    <3>3. m.old # m.new
      BY <3>1, <3>2 DEF Ids
    <3> QED
      BY <3>1, <3>3 DEF Followed
  <2> QED
    BY <2>2, <2>3, <2>4
<1> QED
  BY <1>2, <1>3, <1>4 DEF AnchorsChained, Size

-----------------------------------------------------------------------------
(* The log.                                                                  *)
RowsGrow(d, e) ==
  /\ Len(d.rows) <= Len(e.rows)
  /\ \A i \in DOMAIN d.rows :
       /\ e.rows[i].mac = d.rows[i].mac /\ e.rows[i].epoch = d.rows[i].epoch
       /\ d.rows[i].kept => e.rows[i].kept

LEMMA RowsSealedGrow ==
    ASSUME NEW d, NEW e, d \in DbSet, e \in DbSet, RowsSealed(d), RowsGrow(d, e),
           e.batches = d.batches,
           e.keys # <<>> => d.keys # <<>> /\ e.keys[1].genesis = d.keys[1].genesis
    PROVE  RowsSealed(e)
<1>1. DOMAIN d.rows \subseteq DOMAIN e.rows
  BY DEF RowsGrow, DbSet
<1>2. \A i \in Visible(d) : i \in Visible(e) /\ e.rows[i].mac = d.rows[i].mac /\ RowId(e, i) = RowId(d, i)
  BY <1>1 DEF RowsGrow, Visible, RowId
<1>3. \A b \in DOMAIN e.batches : e.batches[b].prev = RootAt(e, b - 1)
  BY DEF RowsSealed, RootAt
<1>4. 1 \in Visible(d)
  BY DEF RowsSealed, Visible
<1>5. 1 \in DOMAIN e.rows /\ e.rows[1].kept /\ e.rows[1].epoch = 0
  BY <1>1, <1>4 DEF RowsGrow, RowsSealed, Visible
<1>6. \A b \in DOMAIN e.batches : \A id \in e.batches[b].leaves :
        \E i \in Visible(e) : e.rows[i].mac /\ id = RowId(e, i)
  BY <1>2 DEF RowsSealed
<1>7. e.keys # <<>> =>
        /\ RowId(e, 1) \in e.keys[1].genesis
        /\ \A id \in e.keys[1].genesis : \E i \in Visible(e) : id = RowId(e, i)
  BY <1>2, <1>4 DEF RowsSealed
<1> QED
  BY <1>3, <1>5, <1>6, <1>7 DEF RowsSealed

(* Only rows are written.                                                    *)
LEMMA LogGrows ==
    ASSUME NEW d, NEW e, LogInv(d), e \in DbSet, RowsGrow(d, e),
           e.keys = d.keys, e.batches = d.batches, e.rotations = d.rotations
    PROVE  LogInv(e)
<1>1. RowsSealed(e)
  BY RowsSealedGrow DEF LogInv
<1>2. KeysHeld(e)
  BY DEF LogInv, KeysHeld, ActiveKeys, Held, GivenUp, Candidate
<1>3. RotationsKept(e)
  BY DEF LogInv, RotationsKept, RotationSays, Held, GivenUp, RootAt
<1>4. Signed(e)
  BY DEF LogInv, Signed, Held, Fingerprint
<1> QED
  BY <1>1, <1>2, <1>3, <1>4 DEF LogInv

(* The first key signs a snapshot of the rows it can see.                    *)
LEMMA LogProvisioned ==
    ASSUME NEW d, NEW e, LogInv(d), e \in DbSet, d.keys = <<>>, NEW n,
           e.rows = d.rows, e.batches = d.batches, e.rotations = d.rotations,
           e.keys = <<[from |-> 0, to |-> Open, active |-> TRUE, live |-> TRUE,
                       activated |-> FALSE, pending |-> None,
                       genesis |-> {RowId(d, i) : i \in Visible(d)}, epoch |-> n]>>
    PROVE  LogInv(e)
<1>1. DOMAIN d.rotations = {} /\ DOMAIN d.batches = {}
  BY DEF LogInv, RotationsKept, RotationSays, Signed
<1>2. Len(e.keys) = 1 /\ DOMAIN e.keys = {1} /\ e.keys[1].from = 0 /\ e.keys[1].to = Open
      /\ e.keys[1].active /\ e.keys[1].pending = None
      /\ e.keys[1].genesis = {RowId(d, i) : i \in Visible(d)}
  OBVIOUS
<1>3. RowsSealed(e)
  <2>1. Visible(e) = Visible(d) /\ \A i \in Visible(d) : RowId(e, i) = RowId(d, i)
    BY DEF Visible, RowId
  <2>2. 1 \in Visible(d)
    BY DEF LogInv, RowsSealed, Visible
  <2>3. /\ RowId(e, 1) \in e.keys[1].genesis
        /\ \A id \in e.keys[1].genesis : \E i \in Visible(e) : id = RowId(e, i)
    BY <1>2, <2>1, <2>2
  <2> QED
    BY <1>1, <2>3 DEF LogInv, RowsSealed
<1>4. ActiveKeys(e) = {1}
  BY <1>2 DEF ActiveKeys
<1>5. KeysHeld(e)
  BY <1>2, <1>4 DEF KeysHeld, Held, None, DbSet
<1>6. RotationsKept(e) /\ Signed(e)
  BY <1>1, <1>2 DEF RotationsKept, Signed, Held, None
<1> QED
  BY <1>3, <1>5, <1>6 DEF LogInv

(* The first key is marked.                                                  *)
LEMMA LogMarked ==
    ASSUME NEW d, NEW e, LogInv(d), e \in DbSet, d.keys # <<>>,
           e.rows = d.rows, e.batches = d.batches, e.rotations = d.rotations,
           e.keys = [d.keys EXCEPT ![1].activated = TRUE]
    PROVE  LogInv(e)
<1>1. /\ DOMAIN e.keys = DOMAIN d.keys
      /\ \A k \in DOMAIN d.keys :
           /\ e.keys[k].from = d.keys[k].from /\ e.keys[k].to = d.keys[k].to
           /\ e.keys[k].active = d.keys[k].active /\ e.keys[k].live = d.keys[k].live
           /\ e.keys[k].pending = d.keys[k].pending /\ e.keys[k].epoch = d.keys[k].epoch
           /\ e.keys[k].genesis = d.keys[k].genesis
           /\ Held(e, k) <=> Held(d, k)
  <2>1. d.keys \in Seq(KeySet) /\ \A k \in DOMAIN d.keys : d.keys[k] \in KeySet
    BY DEF LogInv, DbSet
  <2>2. DOMAIN e.keys = DOMAIN d.keys
        /\ \A k \in DOMAIN d.keys :
             e.keys[k] = IF k = 1 THEN [d.keys[k] EXCEPT !.activated = TRUE] ELSE d.keys[k]
    BY <2>1
  <2> QED
    BY <2>1, <2>2 DEF KeySet, Held
<1>2. RowsSealed(e)
  <2>1. d.rows \in Seq(RowSet) /\ d.keys \in Seq(KeySet) /\ 1 \in DOMAIN d.keys
    BY DEF LogInv, DbSet
  <2>2. RowsGrow(d, e)
    BY <2>1 DEF RowsGrow
  <2> QED
    BY <1>1, <2>1, <2>2, RowsSealedGrow DEF LogInv
<1>3. ActiveKeys(e) = ActiveKeys(d) /\ GivenUp(e) = GivenUp(d)
  BY <1>1 DEF ActiveKeys, GivenUp
<1>4. KeysHeld(e)
  BY <1>1, <1>3 DEF LogInv, KeysHeld, ActiveKeys, Candidate, DbSet
<1>5. RotationsKept(e)
  BY <1>1, <1>3 DEF LogInv, RotationsKept, RotationSays, RootAt
<1>6. Signed(e)
  BY <1>1 DEF LogInv, Signed, Fingerprint, key_authorizes_sequence
<1> QED
  BY <1>2, <1>4, <1>5, <1>6 DEF LogInv

(* A batch is sealed by the key in office, while no rotation is pending.     *)
LEMMA LogSealed ==
    ASSUME NEW d, NEW e, LogInv(d), e \in DbSet, NEW k \in DOMAIN d.keys, d.keys[k].active,
           d.keys[k].pending = None, NEW x \in BatchSet,
           key_authorizes_sequence(d.keys[k], Len(d.batches) + 1),
           x.leaves = {RowId(d, i) : i \in Sealable(d)},
           x.prev = RootAt(d, Len(d.batches)), x.signer = Fingerprint(d, k),
           e.rows = d.rows, e.keys = d.keys, e.rotations = d.rotations,
           e.batches = Append(d.batches, x)
    PROVE  LogInv(e)
<1> DEFINE n == Len(d.batches) + 1
<1>1. /\ Len(d.batches) \in Nat /\ DOMAIN d.batches = 1..Len(d.batches)
      /\ Len(e.batches) = n /\ DOMAIN e.batches = 1..n /\ e.batches[n] = x
      /\ \A b \in DOMAIN d.batches : e.batches[b] = d.batches[b]
  BY DEF LogInv, DbSet
<1>2. \A s \in 0..Len(d.batches) : RootAt(e, s) = RootAt(d, s)
  BY <1>1 DEF RootAt
<1>3. Visible(e) = Visible(d) /\ \A i \in Visible(d) : RowId(e, i) = RowId(d, i)
  BY DEF Visible, RowId
<1>4. ASSUME NEW b \in DOMAIN d.batches PROVE d.batches[b].leaves \cap x.leaves = {}
  BY DEF Sealable, Batched
<1>5. RowsSealed(e)
  <2>1. \A a, b \in DOMAIN e.batches :
          a # b => e.batches[a].leaves \cap e.batches[b].leaves = {}
    BY <1>1, <1>4 DEF LogInv, RowsSealed
  <2>2. \A b \in DOMAIN e.batches : \A id \in e.batches[b].leaves :
          \E i \in Visible(e) : e.rows[i].mac /\ id = RowId(e, i)
    <3>1. \A id \in x.leaves : \E i \in Visible(e) : e.rows[i].mac /\ id = RowId(e, i)
      BY <1>3 DEF Sealable
    <3>2. \A b \in DOMAIN d.batches : \A id \in d.batches[b].leaves :
            \E i \in Visible(e) : e.rows[i].mac /\ id = RowId(e, i)
      BY <1>3 DEF LogInv, RowsSealed
    <3> QED
      BY <1>1, <3>1, <3>2
  <2>3. \A b \in DOMAIN e.batches : e.batches[b].prev = RootAt(e, b - 1)
    BY <1>1, <1>2 DEF LogInv, RowsSealed
  <2>4. e.keys # <<>> =>
          /\ RowId(e, 1) \in e.keys[1].genesis
          /\ \A id \in e.keys[1].genesis : \E i \in Visible(e) : id = RowId(e, i)
    BY <1>3 DEF LogInv, RowsSealed, Visible
  <2> QED
    BY <2>1, <2>2, <2>3, <2>4 DEF LogInv, RowsSealed
<1>6. \A j \in DOMAIN d.keys : d.keys[j].pending # None => FALSE
  BY DEF LogInv, KeysHeld, ActiveKeys
<1>7. KeysHeld(e)
  <2>1. ActiveKeys(e) = ActiveKeys(d) /\ GivenUp(e) = GivenUp(d)
        /\ (\A j \in DOMAIN d.keys : Held(e, j) <=> Held(d, j))
        /\ \A i, j \in DOMAIN d.keys : Candidate(e, i, j) <=> Candidate(d, i, j)
    BY DEF ActiveKeys, GivenUp, Held, Candidate
  <2>2. \A j \in DOMAIN d.keys : d.keys[j].from \in Nat /\ d.keys[j].to \in Nat \cup {Open}
    BY DbFields DEF LogInv
  <2>3. \A j \in DOMAIN e.keys :
       /\ e.keys[j].pending \in 0..Len(e.rotations)
       /\ e.keys[j].active => e.keys[j].to = Open /\ Held(e, j)
       /\ ~e.keys[j].active => e.keys[j].pending = None
       /\ ~e.keys[j].active /\ Held(e, j) => ~e.keys[j].live
       /\ e.keys[j].to # Open => e.keys[j].to \in 0..Len(e.batches)
       /\ j > 1 => e.keys[j].from \in 1..(Len(e.batches) + 1)
       /\ j > 1 /\ e.keys[j].to # Open => e.keys[j].from <= e.keys[j].to
    BY <1>1, <2>1, <2>2 DEF LogInv, KeysHeld
  <2>4. \A i \in ActiveKeys(e) : \A j \in DOMAIN e.keys :
       /\ Held(e, j) => j <= i
       /\ j > i => j \in GivenUp(e) \/ Candidate(e, i, j)
    BY <2>1 DEF LogInv, KeysHeld, ActiveKeys
  <2>5. \A i, j \in DOMAIN e.keys :
       i < j /\ Held(e, i) /\ Held(e, j) => e.keys[i].to # Open /\ e.keys[i].to < e.keys[j].from
    BY <2>1 DEF LogInv, KeysHeld
  <2>6. /\ \A i, j \in ActiveKeys(e) : i = j
        /\ e.keys # <<>> => ActiveKeys(e) # {} /\ e.keys[1].from = 0
    BY <2>1 DEF LogInv, KeysHeld
  <2> QED
    BY <2>3, <2>4, <2>5, <2>6 DEF KeysHeld
<1>8. RotationsKept(e)
  <2>1. \A r \in DOMAIN e.rotations : RotationSays(e, r)
    <3> SUFFICES ASSUME NEW r \in DOMAIN d.rotations PROVE RotationSays(e, r)
      OBVIOUS
    <3>1. RotationSays(d, r) /\ d.rotations[r].last \in Nat
      BY DbFields DEF LogInv, RotationsKept
    <3>2. RootAt(e, d.rotations[r].last) = RootAt(d, d.rotations[r].last)
      BY <1>1, <1>2, <3>1 DEF RotationSays
    <3>3. GivenUp(e) = GivenUp(d) /\ \A j \in DOMAIN d.keys : Held(e, j) <=> Held(d, j)
      BY DEF GivenUp, Held
    <3> QED
      BY <1>1, <3>1, <3>2, <3>3 DEF RotationSays
  <2>2. \A j \in DOMAIN d.keys : Held(e, j) <=> Held(d, j)
    BY DEF Held
  <2> QED
    BY <1>6, <2>1, <2>2 DEF LogInv, RotationsKept
<1>9. Signed(e)
  <2>1. Held(e, k) /\ x.signer = Fingerprint(e, k) /\ key_authorizes_sequence(e.keys[k], n)
    BY DEF LogInv, KeysHeld, Held, Fingerprint
  <2>2. ASSUME NEW b \in DOMAIN d.batches
        PROVE  \E j \in DOMAIN e.keys :
                 /\ Held(e, j) /\ e.batches[b].signer = Fingerprint(e, j)
                 /\ key_authorizes_sequence(e.keys[j], b)
    BY <1>1 DEF LogInv, Signed, Held, Fingerprint
  <2> QED
    BY <1>1, <2>1, <2>2 DEF Signed
<1> QED
  BY <1>5, <1>7, <1>8, <1>9 DEF LogInv

(* A rotation that is pending is one of the key in office.                   *)
LEMMA PendingRotates ==
    ASSUME NEW d, LogInv(d), NEW k \in DOMAIN d.keys, d.keys[k].pending # None
    PROVE  LET r == d.keys[k].pending IN
           /\ d.keys[k].active /\ Held(d, k)
           /\ r \in DOMAIN d.rotations /\ RotationSays(d, r)
           /\ d.rotations[r].old = k /\ d.rotations[r].last = Len(d.batches)
           /\ d.rotations[r].state \in {"PREPARED", "PUBLISHED"}
           /\ d.rotations[r].new \in DOMAIN d.keys /\ d.rotations[r].new > k
           /\ ~Held(d, d.rotations[r].new) /\ ~d.keys[d.rotations[r].new].active
<1> DEFINE r == d.keys[k].pending
<1>1. d.keys[k].active /\ Held(d, k) /\ r \in 0..Len(d.rotations) /\ r # 0
  BY DEF LogInv, KeysHeld, None
<1>2. r \in DOMAIN d.rotations
  BY <1>1, DbFields DEF LogInv
<1>3. RotationSays(d, r) /\ d.rotations[r].old = k /\ d.rotations[r].last = Len(d.batches)
  BY <1>2 DEF LogInv, RotationsKept
<1>4. d.rotations[r].state \in {"PREPARED", "PUBLISHED"} /\ ~Held(d, d.rotations[r].new)
  BY <1>3 DEF RotationSays
<1>5. d.rotations[r].new \in DOMAIN d.keys /\ d.rotations[r].new > k
  BY <1>2, <1>3, DbFields DEF LogInv, RotationSays
<1>6. ~d.keys[d.rotations[r].new].active
  BY <1>4, <1>5 DEF LogInv, KeysHeld
<1> QED
  BY <1>1, <1>2, <1>3, <1>4, <1>5, <1>6

(* A rotation that nobody touches.                                           *)
LEMMA RotationFrame ==
    ASSUME NEW d, NEW e, NEW r, RotationSays(d, r), e.rotations[r] = d.rotations[r],
           \A s : RootAt(e, s) = RootAt(d, s), Len(d.batches) = Len(e.batches),
           DOMAIN d.keys \subseteq DOMAIN e.keys, GivenUp(d) \subseteq GivenUp(e),
           \A j \in DOMAIN d.keys : (Held(d, j) => Held(e, j)) /\ e.keys[j].from = d.keys[j].from,
           Held(e, d.rotations[r].new) => Held(d, d.rotations[r].new),
           \A j \in DOMAIN e.keys : j \notin DOMAIN d.keys => j > d.rotations[r].new,
           \A k \in DOMAIN e.keys : k \in Nat, d.rotations[r].new \in Nat,
           ~d.keys[d.rotations[r].old].active =>
              /\ ~e.keys[d.rotations[r].old].active
              /\ e.keys[d.rotations[r].old].to = d.keys[d.rotations[r].old].to,
           d.keys[d.rotations[r].old].pending = r <=> e.keys[d.rotations[r].old].pending = r
    PROVE  RotationSays(e, r)
<1> DEFINE x == d.rotations[r]
<1>1. /\ x.old \in DOMAIN d.keys /\ x.new \in DOMAIN d.keys
      /\ x.old < x.new /\ Held(d, x.old) /\ x.last <= Len(d.batches)
      /\ x.old > 1 => d.keys[x.old].from <= x.last
      /\ d.keys[x.new].from = x.last + 1 /\ x.root = RootAt(d, x.last)
      /\ x.state = "FINALIZED" <=> Held(d, x.new)
      /\ x.state = "FINALIZED" =>
           /\ ~d.keys[x.old].active /\ d.keys[x.old].to = x.last
           /\ \A k \in DOMAIN d.keys : x.old < k /\ k < x.new => k \in GivenUp(d)
      /\ x.state \in {"PREPARED", "PUBLISHED"} <=> d.keys[x.old].pending = r
  BY DEF RotationSays
<1>2. \A k \in DOMAIN e.keys : x.old < k /\ k < x.new => k \in DOMAIN d.keys
  OBVIOUS
<1>3. x.state = "FINALIZED" =>
        \A k \in DOMAIN e.keys : x.old < k /\ k < x.new => k \in GivenUp(e)
  BY <1>1, <1>2
<1> HIDE DEF x
<1>4. e.rotations[r] = x
  BY DEF x
<1> QED
  BY <1>1, <1>3, <1>4 DEF RotationSays, x

LEMMA KeyPending ==
    ASSUME NEW K \in Seq(KeySet), NEW k \in DOMAIN K, NEW p \in Nat
    PROVE  LET f == [K EXCEPT ![k].pending = p] IN
           /\ f \in Seq(KeySet) /\ Len(f) = Len(K) /\ DOMAIN f = DOMAIN K
           /\ \A j \in DOMAIN K :
                /\ f[j].from = K[j].from /\ f[j].to = K[j].to
                /\ f[j].active = K[j].active /\ f[j].live = K[j].live
                /\ f[j].activated = K[j].activated /\ f[j].epoch = K[j].epoch
                /\ f[j].genesis = K[j].genesis
                /\ f[j].pending = IF j = k THEN p ELSE K[j].pending
<1> DEFINE x == [K[k] EXCEPT !.pending = p]
           f == [K EXCEPT ![k] = x]
<1>1. K[k] \in KeySet
  OBVIOUS
<1>2. /\ x \in KeySet
      /\ x.from = K[k].from /\ x.to = K[k].to
      /\ x.active = K[k].active /\ x.live = K[k].live
      /\ x.activated = K[k].activated /\ x.epoch = K[k].epoch
      /\ x.genesis = K[k].genesis /\ x.pending = p
  <2> HIDE DEF f
  <2> QED
    BY <1>1 DEF KeySet
<1>3. /\ f \in Seq(KeySet) /\ Len(f) = Len(K) /\ DOMAIN f = DOMAIN K
      /\ \A j \in DOMAIN K : f[j] = IF j = k THEN x ELSE K[j]
  <2> HIDE DEF x
  <2> QED
    BY <1>2
<1> HIDE DEF x
<1>4. f = [K EXCEPT ![k].pending = p]
  BY DEF x
<1> HIDE DEF f
<1>5. \A j \in DOMAIN K :
                /\ f[j].from = K[j].from /\ f[j].to = K[j].to
                /\ f[j].active = K[j].active /\ f[j].live = K[j].live
                /\ f[j].activated = K[j].activated /\ f[j].epoch = K[j].epoch
                /\ f[j].genesis = K[j].genesis
                /\ f[j].pending = IF j = k THEN p ELSE K[j].pending
  BY <1>2, <1>3
<1> QED
  BY <1>3, <1>4, <1>5

\* What a preparation leaves of the keys and the rotations, read field by field.
RotationPrepared(d, e, k, new, R) ==
  /\ Len(d.keys) \in Nat /\ DOMAIN d.keys = 1..Len(d.keys)
  /\ new = Len(d.keys) + 1 /\ Len(e.keys) = new /\ DOMAIN e.keys = 1..new
  /\ Len(d.batches) \in Nat
  /\ Len(d.rotations) \in Nat /\ DOMAIN d.rotations = 1..Len(d.rotations)
  /\ R = Len(d.rotations) + 1 /\ Len(e.rotations) = R /\ DOMAIN e.rotations = 1..R
  /\ \A r \in DOMAIN d.rotations : e.rotations[r] = d.rotations[r]
  /\ e.rotations[R].old = k /\ e.rotations[R].new = new
  /\ e.rotations[R].last = Len(d.batches)
  /\ e.rotations[R].root = RootAt(d, Len(d.batches)) /\ e.rotations[R].state = "PREPARED"
  /\ e.keys[new].from = Len(d.batches) + 1 /\ e.keys[new].to = Open
  /\ e.keys[new].active = FALSE /\ e.keys[new].activated = FALSE
  /\ e.keys[new].pending = None /\ new > 1
  /\ \A j \in DOMAIN d.keys :
       /\ e.keys[j].from = d.keys[j].from /\ e.keys[j].to = d.keys[j].to
       /\ e.keys[j].active = d.keys[j].active /\ e.keys[j].live = d.keys[j].live
       /\ e.keys[j].activated = d.keys[j].activated /\ e.keys[j].epoch = d.keys[j].epoch
       /\ e.keys[j].genesis = d.keys[j].genesis
       /\ e.keys[j].pending = IF j = k THEN R ELSE d.keys[j].pending

LEMMA Appended ==
    ASSUME NEW S, NEW s \in Seq(S), NEW x
    PROVE  /\ Len(s) \in Nat /\ DOMAIN s = 1..Len(s)
           /\ Len(Append(s, x)) = Len(s) + 1 /\ DOMAIN Append(s, x) = 1..(Len(s) + 1)
           /\ \A i \in DOMAIN s : Append(s, x)[i] = s[i]
           /\ Append(s, x)[Len(s) + 1] = x
  OBVIOUS

LEMMA KeysPrepared ==
    ASSUME NEW d \in DbSet, NEW e, NEW k \in DOMAIN d.keys, NEW n \in Nat,
           e.keys = Append([d.keys EXCEPT ![k].pending = Len(d.rotations) + 1],
                           [from |-> Len(d.batches) + 1, to |-> Open, active |-> FALSE,
                            live |-> TRUE, activated |-> FALSE, pending |-> None,
                            genesis |-> {}, epoch |-> n]),
           e.rotations = Append(d.rotations,
                           [old |-> k, new |-> Len(d.keys) + 1, last |-> Len(d.batches),
                            root |-> RootAt(d, Len(d.batches)), state |-> "PREPARED"])
    PROVE  RotationPrepared(d, e, k, Len(d.keys) + 1, Len(d.rotations) + 1)
<1> DEFINE new == Len(d.keys) + 1
           R == Len(d.rotations) + 1
           f == [d.keys EXCEPT ![k].pending = R]
           x == [from |-> Len(d.batches) + 1, to |-> Open, active |-> FALSE, live |-> TRUE,
                 activated |-> FALSE, pending |-> None, genesis |-> {}, epoch |-> n]
           y == [old |-> k, new |-> new, last |-> Len(d.batches),
                 root |-> RootAt(d, Len(d.batches)), state |-> "PREPARED"]
<1>1. e.keys = Append(f, x) /\ e.rotations = Append(d.rotations, y)
  OBVIOUS
<1>2. /\ x.from = Len(d.batches) + 1 /\ x.to = Open /\ x.active = FALSE
      /\ x.activated = FALSE /\ x.pending = None
  OBVIOUS
<1>3. /\ y.old = k /\ y.new = new /\ y.last = Len(d.batches)
      /\ y.root = RootAt(d, Len(d.batches)) /\ y.state = "PREPARED"
  OBVIOUS
<1> HIDE DEF x, y
<1>4. /\ d.keys \in Seq(KeySet) /\ d.rotations \in Seq(RotationSet) /\ R \in Nat
      /\ Len(d.keys) \in Nat /\ DOMAIN d.keys = 1..Len(d.keys) /\ Len(d.batches) \in Nat
  <2>1. d.keys \in Seq(KeySet) /\ d.rotations \in Seq(RotationSet)
    BY DEF DbSet
  <2> QED
    BY <2>1, DbFields
<1>5. /\ f \in Seq(KeySet) /\ Len(f) = Len(d.keys) /\ DOMAIN f = DOMAIN d.keys
      /\ \A j \in DOMAIN d.keys :
           /\ f[j].from = d.keys[j].from /\ f[j].to = d.keys[j].to
           /\ f[j].active = d.keys[j].active /\ f[j].live = d.keys[j].live
           /\ f[j].activated = d.keys[j].activated /\ f[j].epoch = d.keys[j].epoch
           /\ f[j].genesis = d.keys[j].genesis
           /\ f[j].pending = IF j = k THEN R ELSE d.keys[j].pending
  <2> HIDE DEF R
  <2> QED
    BY <1>4, KeyPending, SMTT(60)
<1> HIDE DEF f
<1>6. /\ Len(e.keys) = new /\ DOMAIN e.keys = 1..new /\ e.keys[new] = x
      /\ \A j \in DOMAIN d.keys : e.keys[j] = f[j]
  <2>1. /\ Len(Append(f, x)) = Len(f) + 1 /\ DOMAIN Append(f, x) = 1..(Len(f) + 1)
        /\ \A i \in DOMAIN f : Append(f, x)[i] = f[i]
        /\ Append(f, x)[Len(f) + 1] = x
    BY <1>5, Appended, SMTT(60)
  <2> QED
    BY <1>1, <1>5, <2>1
<1>7. /\ Len(d.rotations) \in Nat /\ DOMAIN d.rotations = 1..Len(d.rotations)
      /\ Len(e.rotations) = R /\ DOMAIN e.rotations = 1..R /\ e.rotations[R] = y
      /\ \A r \in DOMAIN d.rotations : e.rotations[r] = d.rotations[r]
  <2>1. /\ Len(d.rotations) \in Nat /\ DOMAIN d.rotations = 1..Len(d.rotations)
        /\ Len(Append(d.rotations, y)) = R /\ DOMAIN Append(d.rotations, y) = 1..R
        /\ \A i \in DOMAIN d.rotations : Append(d.rotations, y)[i] = d.rotations[i]
        /\ Append(d.rotations, y)[R] = y
    BY <1>4, Appended
  <2> QED
    BY <1>1, <2>1
<1>8. new > 1
  BY <1>4
<1>9. \A j \in DOMAIN d.keys :
       /\ e.keys[j].from = d.keys[j].from /\ e.keys[j].to = d.keys[j].to
       /\ e.keys[j].active = d.keys[j].active /\ e.keys[j].live = d.keys[j].live
       /\ e.keys[j].activated = d.keys[j].activated /\ e.keys[j].epoch = d.keys[j].epoch
       /\ e.keys[j].genesis = d.keys[j].genesis
       /\ e.keys[j].pending = IF j = k THEN R ELSE d.keys[j].pending
  <2>1. ASSUME NEW j \in DOMAIN d.keys
        PROVE  /\ e.keys[j].from = d.keys[j].from /\ e.keys[j].to = d.keys[j].to
               /\ e.keys[j].active = d.keys[j].active /\ e.keys[j].live = d.keys[j].live
               /\ e.keys[j].activated = d.keys[j].activated
               /\ e.keys[j].epoch = d.keys[j].epoch
               /\ e.keys[j].genesis = d.keys[j].genesis
               /\ e.keys[j].pending = IF j = k THEN R ELSE d.keys[j].pending
    <3>1. e.keys[j] = f[j]
      BY <1>6
    <3>2. e.keys[j].from = d.keys[j].from
      BY <1>5, <3>1
    <3>3. e.keys[j].to = d.keys[j].to
      BY <1>5, <3>1
    <3>4. e.keys[j].active = d.keys[j].active
      BY <1>5, <3>1, ZenonT(60)
    <3>5. e.keys[j].live = d.keys[j].live
      BY <1>5, <3>1, ZenonT(60)
    <3>6. e.keys[j].activated = d.keys[j].activated
      BY <1>5, <3>1
    <3>7. e.keys[j].epoch = d.keys[j].epoch
      BY <1>5, <3>1, ZenonT(60)
    <3>8. e.keys[j].genesis = d.keys[j].genesis
      BY <1>5, <3>1
    <3>9. e.keys[j].pending = IF j = k THEN R ELSE d.keys[j].pending
      BY <1>5, <3>1
    <3> QED
      BY <3>2, <3>3, <3>4, <3>5, <3>6, <3>7, <3>8, <3>9
  <2> QED
    BY <2>1
<1>10. /\ e.rotations[R].old = k /\ e.rotations[R].new = new
       /\ e.rotations[R].last = Len(d.batches)
       /\ e.rotations[R].root = RootAt(d, Len(d.batches)) /\ e.rotations[R].state = "PREPARED"
  BY <1>3, <1>7, Zenon
<1>11. /\ e.keys[new].from = Len(d.batches) + 1 /\ e.keys[new].to = Open
       /\ e.keys[new].active = FALSE /\ e.keys[new].activated = FALSE
       /\ e.keys[new].pending = None
  BY <1>2, <1>6, Zenon
<1> QED
  BY <1>4, <1>6, <1>7, <1>8, <1>9, <1>10, <1>11 DEF RotationPrepared

(* An operator begins to replace the key in office.                          *)
LEMMA LogPrepared ==
    ASSUME NEW d, NEW e, LogInv(d), e \in DbSet, NEW k \in DOMAIN d.keys, d.keys[k].active,
           d.keys[k].pending = None, k > 1 => d.keys[k].from <= Len(d.batches),
           RowsGrow(d, e), e.batches = d.batches,
           RotationPrepared(d, e, k, Len(d.keys) + 1, Len(d.rotations) + 1)
    PROVE  LogInv(e)
<1> DEFINE new == Len(d.keys) + 1
           R == Len(d.rotations) + 1
<1>1. /\ Len(d.keys) \in Nat /\ DOMAIN d.keys = 1..Len(d.keys)
      /\ Len(e.keys) = new /\ DOMAIN e.keys = 1..new
      /\ Len(d.batches) \in Nat
      /\ Len(d.rotations) \in Nat /\ DOMAIN d.rotations = 1..Len(d.rotations)
      /\ Len(e.rotations) = R /\ DOMAIN e.rotations = 1..R
      /\ \A r \in DOMAIN d.rotations : e.rotations[r] = d.rotations[r]
  BY DEF RotationPrepared
<1>2. /\ e.rotations[R].old = k /\ e.rotations[R].new = new
      /\ e.rotations[R].last = Len(d.batches)
      /\ e.rotations[R].root = RootAt(d, Len(d.batches)) /\ e.rotations[R].state = "PREPARED"
  BY DEF RotationPrepared
<1>3. /\ e.keys[new].from = Len(d.batches) + 1 /\ e.keys[new].to = Open
      /\ e.keys[new].active = FALSE /\ e.keys[new].activated = FALSE
      /\ e.keys[new].pending = None /\ new > 1
  BY DEF RotationPrepared
<1>4. \A j \in DOMAIN d.keys :
        /\ e.keys[j].from = d.keys[j].from /\ e.keys[j].to = d.keys[j].to
        /\ e.keys[j].active = d.keys[j].active /\ e.keys[j].live = d.keys[j].live
        /\ e.keys[j].activated = d.keys[j].activated /\ e.keys[j].epoch = d.keys[j].epoch
        /\ e.keys[j].genesis = d.keys[j].genesis
        /\ e.keys[j].pending = IF j = k THEN R ELSE d.keys[j].pending
  BY DEF RotationPrepared
<1>5. /\ ~Held(e, new)
      /\ \A j \in DOMAIN d.keys : Held(e, j) <=> Held(d, j)
  BY <1>1, <1>3, <1>4 DEF Held
<1>6. ActiveKeys(e) = ActiveKeys(d)
  BY <1>1, <1>3, <1>4, SMTT(60) DEF ActiveKeys
<1>7. GivenUp(e) = GivenUp(d)
  <2>1. {q \in DOMAIN e.rotations : e.rotations[q].state = "ABORTED"} =
        {q \in DOMAIN d.rotations : d.rotations[q].state = "ABORTED"}
    BY <1>1, <1>2, SMTT(60)
  <2> QED
    BY <1>1, <2>1 DEF GivenUp
<1>8. \A j \in DOMAIN d.keys : d.keys[j].pending = None
  <2>1. \A j \in DOMAIN d.keys : d.keys[j].active => j = k
    BY DEF LogInv, KeysHeld, ActiveKeys
  <2> QED
    BY <2>1 DEF LogInv, KeysHeld
<1>9. RowsSealed(e)
  <2>1. e.keys[1].genesis = d.keys[1].genesis /\ d.keys # <<>>
    BY <1>1, <1>4
  <2> QED
    BY <2>1, RowsSealedGrow DEF LogInv
<1>10. KeysHeld(e)
  <2>1. /\ \A i, j \in ActiveKeys(e) : i = j
        /\ e.keys # <<>> => ActiveKeys(e) # {} /\ e.keys[1].from = 0
    <3>1. KeysHeld(d) /\ d.keys # <<>> /\ 1 \in DOMAIN d.keys
      BY <1>1 DEF LogInv
    <3>2. /\ \A i, j \in ActiveKeys(d) : i = j
          /\ ActiveKeys(d) # {} /\ d.keys[1].from = 0
      BY <3>1, ZenonT(60) DEF KeysHeld
    <3>3. e.keys[1].from = d.keys[1].from
      BY <1>4, <3>1
    <3> QED
      BY <1>6, <3>2, <3>3
  <2>2. ASSUME NEW j \in DOMAIN e.keys
        PROVE  /\ e.keys[j].pending \in 0..Len(e.rotations)
               /\ e.keys[j].active => e.keys[j].to = Open /\ Held(e, j)
               /\ ~e.keys[j].active => e.keys[j].pending = None
               /\ ~e.keys[j].active /\ Held(e, j) => ~e.keys[j].live
               /\ e.keys[j].to # Open => e.keys[j].to \in 0..Len(e.batches)
               /\ j > 1 => e.keys[j].from \in 1..(Len(e.batches) + 1)
               /\ j > 1 /\ e.keys[j].to # Open => e.keys[j].from <= e.keys[j].to
    <3>1. CASE j = new
      <4>1. e.keys[j].pending \in 0..Len(e.rotations) /\ e.keys[j].pending = None
        BY <1>1, <1>3, <3>1 DEF None
      <4>2. e.keys[j].from \in 1..(Len(e.batches) + 1)
        BY <1>1, <1>3, <3>1, SMTT(60)
      <4>3. e.keys[j].active = FALSE /\ e.keys[j].to = Open /\ ~Held(e, j)
        BY <1>3, <1>5, <3>1
      <4> QED
        BY <4>1, <4>2, <4>3
    <3>2. CASE j # new
      <4>1. j \in DOMAIN d.keys
        BY <1>1, <3>2
      <4>2. e.keys[j].pending \in 0..Len(e.rotations)
        BY <1>1, <1>4, <1>8, <4>1, SMTT(60) DEF None
      <4>3. ~e.keys[j].active => e.keys[j].pending = None
        BY <1>4, <1>8, <4>1
      <4> QED
        BY <1>4, <1>5, <4>1, <4>2, <4>3 DEF LogInv, KeysHeld
    <3> QED
      BY <3>1, <3>2
  <2>3. ASSUME NEW i \in ActiveKeys(e), NEW j \in DOMAIN e.keys
        PROVE  /\ Held(e, j) => j <= i
               /\ j > i => j \in GivenUp(e) \/ Candidate(e, i, j)
    <3>1. i = k
      BY <1>6 DEF LogInv, KeysHeld, ActiveKeys
    <3>2. CASE j = new
      BY <1>1, <1>2, <1>4, <1>5, <3>1, <3>2, SMTT(60) DEF Candidate, None
    <3>3. CASE j # new
      <4>1. j \in DOMAIN d.keys /\ i \in ActiveKeys(d)
        BY <1>1, <1>6, <3>3
      <4> QED
        BY <1>5, <1>7, <1>8, <4>1, <3>1 DEF LogInv, KeysHeld, Candidate
    <3> QED
      BY <3>2, <3>3
  <2>4. ASSUME NEW i \in DOMAIN e.keys, NEW j \in DOMAIN e.keys, i < j, Held(e, i), Held(e, j)
        PROVE  e.keys[i].to # Open /\ e.keys[i].to < e.keys[j].from
    <3>1. i # new /\ j # new
      BY <1>5, <2>4
    <3>2. i \in DOMAIN d.keys /\ j \in DOMAIN d.keys
      BY <1>1, <3>1
    <3> QED
      BY <1>4, <1>5, <2>4, <3>2 DEF LogInv, KeysHeld
  <2> QED
    BY <2>1, <2>2, <2>3, <2>4 DEF KeysHeld
<1>11. RotationsKept(e)
  <2>1. ASSUME NEW r \in DOMAIN d.rotations PROVE RotationSays(e, r)
    <3>1. RotationSays(d, r)
      BY DEF LogInv, RotationsKept
    <3>2. d.rotations[r].old \in DOMAIN d.keys /\ d.rotations[r].new \in DOMAIN d.keys
      BY <3>1 DEF RotationSays
    <3>3. r # R /\ r # None
      BY <1>1 DEF None
    <3>4. d.keys[d.rotations[r].old].pending = r <=> e.keys[d.rotations[r].old].pending = r
      BY <1>4, <1>8, <3>2, <3>3
    <3>5. \A s : RootAt(e, s) = RootAt(d, s)
      BY DEF RootAt
    <3>6. /\ DOMAIN d.keys \subseteq DOMAIN e.keys /\ GivenUp(d) \subseteq GivenUp(e)
          /\ \A j \in DOMAIN e.keys : j \in Nat
          /\ d.rotations[r].new \in Nat
          /\ \A j \in DOMAIN e.keys : j \notin DOMAIN d.keys => j > d.rotations[r].new
      <4>1. d.rotations[r].new \in 1..Len(d.keys)
        BY <1>1, <3>2
      <4>2. GivenUp(d) \subseteq GivenUp(e)
        BY <1>7
      <4>3. Len(d.keys) \in Nat /\ DOMAIN d.keys = 1..Len(d.keys)
            /\ DOMAIN e.keys = 1..(Len(d.keys) + 1)
        BY <1>1
      <4>4. DOMAIN d.keys \subseteq DOMAIN e.keys /\ \A j \in DOMAIN e.keys : j \in Nat
        BY <4>3
      <4>5. \A j \in DOMAIN e.keys : j \notin DOMAIN d.keys => j > d.rotations[r].new
        BY <4>1, <4>3
      <4> QED
        BY <4>1, <4>2, <4>4, <4>5
    <3>7. ~d.keys[d.rotations[r].old].active =>
              /\ ~e.keys[d.rotations[r].old].active
              /\ e.keys[d.rotations[r].old].to = d.keys[d.rotations[r].old].to
      BY <1>4, <3>2
    <3>8. \A j \in DOMAIN d.keys :
            (Held(d, j) => Held(e, j)) /\ e.keys[j].from = d.keys[j].from
      BY <1>4, <1>5
    <3>10. Held(e, d.rotations[r].new) => Held(d, d.rotations[r].new)
      BY <1>5, <3>2
    <3>9. e.rotations[r] = d.rotations[r] /\ Len(d.batches) = Len(e.batches)
      BY <1>1
    <3> QED
      BY <3>1, <3>4, <3>5, <3>6, <3>7, <3>8, <3>9, <3>10, RotationFrame
  <2>2. RotationSays(e, R)
    <3>1. RootAt(e, Len(d.batches)) = RootAt(d, Len(d.batches))
      BY DEF RootAt
    <3>2. k \in DOMAIN e.keys /\ new \in DOMAIN e.keys /\ k < new /\ Held(e, k)
      BY <1>1, <1>5 DEF LogInv, KeysHeld
    <3>3. e.keys[k].pending = R /\ (k > 1 => e.keys[k].from <= Len(d.batches))
      BY <1>4
    <3> HIDE DEF new, R
    <3> QED
      BY <1>1, <1>2, <1>3, <1>5, <3>1, <3>2, <3>3 DEF RotationSays
  <2>3. \A r \in DOMAIN d.rotations : d.rotations[r].new \in DOMAIN d.keys
    <3>1. \A r \in DOMAIN d.rotations : RotationSays(d, r)
      BY DEF LogInv, RotationsKept
    <3> QED
      BY <3>1 DEF RotationSays
  <2>4. \A q, r \in DOMAIN e.rotations : e.rotations[q].new = e.rotations[r].new => q = r
    <3>1. \A q, r \in DOMAIN d.rotations : d.rotations[q].new = d.rotations[r].new => q = r
      BY DEF LogInv, RotationsKept
    <3>2. new \notin DOMAIN d.keys /\ \A q \in DOMAIN e.rotations : q \in DOMAIN d.rotations \/ q = R
      BY <1>1, SMTT(60)
    <3>3. /\ \A q \in DOMAIN d.rotations :
               e.rotations[q].new = d.rotations[q].new /\ e.rotations[q].new # new
          /\ e.rotations[R].new = new
      BY <1>1, <1>2, <2>3, <3>2
    <3> HIDE DEF new, R
    <3> QED
      BY <3>1, <3>2, <3>3
  <2>5. ASSUME NEW j \in DOMAIN e.keys
        PROVE  /\ j > 1 => \E r \in DOMAIN e.rotations : e.rotations[r].new = j
               /\ Held(e, j) /\ ~e.keys[j].active =>
                    \E r \in DOMAIN e.rotations :
                      e.rotations[r].old = j /\ e.rotations[r].state = "FINALIZED"
               /\ e.keys[j].pending # None =>
                    /\ e.rotations[e.keys[j].pending].old = j
                    /\ e.rotations[e.keys[j].pending].last = Len(e.batches)
    <3>1. CASE j = new
      <4>1. R \in DOMAIN e.rotations /\ e.rotations[R].new = j
        BY <1>1, <1>2, <3>1
      <4>2. ~Held(e, j) /\ e.keys[j].pending = None
        BY <1>3, <1>5, <3>1
      <4> QED
        BY <4>1, <4>2
    <3>2. CASE j # new
      <4>1. j \in DOMAIN d.keys
        BY <1>1, <3>2
      <4>2. DOMAIN d.rotations \subseteq DOMAIN e.rotations
        BY <1>1
      <4>3. j > 1 => \E r \in DOMAIN e.rotations : e.rotations[r].new = j
        BY <1>1, <4>1, <4>2, SMTT(60) DEF LogInv, RotationsKept
      <4>4. Held(e, j) /\ ~e.keys[j].active =>
              \E r \in DOMAIN e.rotations :
                e.rotations[r].old = j /\ e.rotations[r].state = "FINALIZED"
        <5> SUFFICES ASSUME Held(d, j), ~d.keys[j].active
                     PROVE  \E r \in DOMAIN e.rotations :
                              e.rotations[r].old = j /\ e.rotations[r].state = "FINALIZED"
          BY <1>4, <1>5, <4>1
        <5>1. PICK r \in DOMAIN d.rotations :
                d.rotations[r].old = j /\ d.rotations[r].state = "FINALIZED"
          BY <4>1 DEF LogInv, RotationsKept
        <5>2. r \in DOMAIN e.rotations /\ e.rotations[r] = d.rotations[r]
          BY <1>1, <4>2
        <5> QED
          BY <5>1, <5>2
      <4>5. e.keys[j].pending # None => j = k /\ e.keys[j].pending = R
        BY <1>4, <1>8, <4>1
      <4>6. e.rotations[R].old = k /\ e.rotations[R].last = Len(e.batches)
        BY <1>2
      <4> HIDE DEF R
      <4> QED
        BY <4>3, <4>4, <4>5, <4>6
    <3> QED
      BY <3>1, <3>2
  <2>6. \A r \in DOMAIN e.rotations : r \in DOMAIN d.rotations \/ r = R
    BY <1>1
  <2>7. \A r \in DOMAIN e.rotations : RotationSays(e, r)
    BY <2>1, <2>2, <2>6
  <2> HIDE DEF R, new
  <2> QED
    BY <2>4, <2>5, <2>7 DEF RotationsKept
<1>12. Signed(e)
  <2>1. ASSUME NEW b \in DOMAIN d.batches
        PROVE  \E j \in DOMAIN e.keys :
                 /\ Held(e, j) /\ e.batches[b].signer = Fingerprint(e, j)
                 /\ key_authorizes_sequence(e.keys[j], b)
    <3>1. PICK j \in DOMAIN d.keys :
            /\ Held(d, j) /\ d.batches[b].signer = Fingerprint(d, j)
            /\ key_authorizes_sequence(d.keys[j], b)
      BY DEF LogInv, Signed
    <3> QED
      BY <1>1, <1>4, <1>5, <3>1, SMTT(60) DEF Fingerprint, key_authorizes_sequence
  <2> QED
    BY <2>1 DEF Signed
<1> QED
  BY <1>9, <1>10, <1>11, <1>12 DEF LogInv

(* A rotation changes its state.                                             *)
Restated(K, r, s) == [K EXCEPT ![r].state = s]

OnlyRestated(K, r, s, Q) ==
  /\ Q \in Seq(RotationSet) /\ DOMAIN Q = DOMAIN K
  /\ \A q \in DOMAIN K :
       /\ Q[q].old = K[q].old /\ Q[q].new = K[q].new
       /\ Q[q].last = K[q].last /\ Q[q].root = K[q].root
       /\ Q[q].state = IF q = r THEN s ELSE K[q].state

LEMMA RotationState ==
    ASSUME NEW K \in Seq(RotationSet), NEW r \in DOMAIN K,
           NEW s \in {"PREPARED", "PUBLISHED", "FINALIZED", "ABORTED"}
    PROVE  OnlyRestated(K, r, s, Restated(K, r, s))
<1> DEFINE x == [K[r] EXCEPT !.state = s]
           f == [K EXCEPT ![r] = x]
<1>1. K[r] \in RotationSet
  OBVIOUS
<1>2. /\ x \in RotationSet
      /\ x.old = K[r].old /\ x.new = K[r].new /\ x.last = K[r].last
      /\ x.root = K[r].root /\ x.state = s
  <2> HIDE DEF f
  <2> QED
    BY <1>1 DEF RotationSet
<1>3. /\ f \in Seq(RotationSet) /\ DOMAIN f = DOMAIN K
      /\ \A q \in DOMAIN K : f[q] = IF q = r THEN x ELSE K[q]
  <2> HIDE DEF x
  <2> QED
    BY <1>2
<1> HIDE DEF x
<1>4. f = Restated(K, r, s)
  BY DEF x, Restated
<1> HIDE DEF f
<1>5. \A q \in DOMAIN K :
         /\ f[q].old = K[q].old /\ f[q].new = K[q].new
         /\ f[q].last = K[q].last /\ f[q].root = K[q].root
         /\ f[q].state = IF q = r THEN s ELSE K[q].state
  BY <1>2, <1>3
<1> QED
  BY <1>3, <1>4, <1>5 DEF OnlyRestated

(* What e's rotations and keys share with those of d while one of them ends. *)
SameRotations(d, e) ==
  /\ DOMAIN e.rotations = DOMAIN d.rotations
  /\ \A r \in DOMAIN d.rotations :
       /\ e.rotations[r].old = d.rotations[r].old /\ e.rotations[r].new = d.rotations[r].new
       /\ e.rotations[r].last = d.rotations[r].last /\ e.rotations[r].root = d.rotations[r].root
SameKeys(d, e) ==
  /\ DOMAIN e.keys = DOMAIN d.keys
  /\ \A j \in DOMAIN d.keys :
       /\ e.keys[j].from = d.keys[j].from /\ e.keys[j].epoch = d.keys[j].epoch
       /\ e.keys[j].genesis = d.keys[j].genesis

LEMMA LogRecorded ==
    ASSUME NEW d, NEW e, LogInv(d), e \in DbSet, NEW k \in DOMAIN d.keys, NEW R,
           R = d.keys[k].pending, R # None, SameRotations(d, e),
           \A r \in DOMAIN d.rotations :
             e.rotations[r].state = IF r = R THEN "PUBLISHED" ELSE d.rotations[r].state,
           e.rows = d.rows, e.keys = d.keys, e.batches = d.batches
    PROVE  LogInv(e)
<1>1. /\ R \in DOMAIN d.rotations /\ d.rotations[R].state \in {"PREPARED", "PUBLISHED"}
      /\ d.rotations[R].old = k
  BY PendingRotates
<1>2. GivenUp(e) = GivenUp(d)
  <2>1. {q \in DOMAIN e.rotations : e.rotations[q].state = "ABORTED"} =
        {q \in DOMAIN d.rotations : d.rotations[q].state = "ABORTED"}
    BY <1>1 DEF SameRotations
  <2> QED
    BY <2>1 DEF GivenUp, SameRotations
<1>3. \A r \in DOMAIN d.rotations :
        /\ e.rotations[r].state = "FINALIZED" <=> d.rotations[r].state = "FINALIZED"
        /\ e.rotations[r].state \in {"PREPARED", "PUBLISHED"} <=>
             d.rotations[r].state \in {"PREPARED", "PUBLISHED"}
  BY <1>1
<1>4. RowsSealed(e)
  <2>1. d.rows \in Seq(RowSet)
    BY DEF LogInv, DbSet
  <2>2. RowsGrow(d, e)
    BY <2>1 DEF RowsGrow
  <2> QED
    BY <2>2, RowsSealedGrow DEF LogInv
<1>5. ActiveKeys(e) = ActiveKeys(d) /\ \A j \in DOMAIN d.keys : Held(e, j) <=> Held(d, j)
  BY DEF ActiveKeys, Held
<1>6. KeysHeld(e)
  <2>1. DOMAIN d.rotations = 1..Len(d.rotations) /\ DOMAIN e.rotations = 1..Len(e.rotations)
        /\ Len(d.rotations) \in Nat /\ Len(e.rotations) \in Nat
    BY DbFields DEF LogInv
  <2>2. Len(e.rotations) = Len(d.rotations)
    BY <2>1 DEF SameRotations
  <2>3. ASSUME NEW i \in ActiveKeys(d), NEW j \in DOMAIN d.keys
        PROVE  /\ Held(e, j) => j <= i
               /\ j > i => j \in GivenUp(e) \/ Candidate(e, i, j)
    <3>1. Held(d, j) => j <= i
      BY DEF LogInv, KeysHeld
    <3>2. j > i => j \in GivenUp(d) \/ Candidate(d, i, j)
      BY DEF LogInv, KeysHeld
    <3>3. Candidate(d, i, j) => Candidate(e, i, j)
      <4>1. d.keys[i].pending # None => d.keys[i].pending \in DOMAIN d.rotations
        BY PendingRotates DEF ActiveKeys
      <4> QED
        BY <4>1 DEF Candidate, SameRotations
    <3> QED
      BY <1>2, <1>5, <3>1, <3>2, <3>3
  <2> QED
    BY <1>5, <2>2, <2>3 DEF LogInv, KeysHeld
<1>7. RotationsKept(e)
  <2>1. ASSUME NEW r \in DOMAIN d.rotations PROVE RotationSays(e, r)
    <3>1. RotationSays(d, r)
      BY DEF LogInv, RotationsKept
    <3>2. \A s : RootAt(e, s) = RootAt(d, s)
      BY DEF RootAt
    <3>3. e.rotations[r].old \in DOMAIN d.keys /\ e.rotations[r].new \in DOMAIN d.keys
      BY <3>1 DEF RotationSays, SameRotations
    <3> QED
      BY <1>2, <1>3, <1>5, <3>1, <3>2, <3>3 DEF RotationSays, SameRotations
  <2>2. \A q, r \in DOMAIN e.rotations : e.rotations[q].new = e.rotations[r].new => q = r
    BY DEF LogInv, RotationsKept, SameRotations
  <2>3. ASSUME NEW j \in DOMAIN d.keys
        PROVE  /\ j > 1 => \E r \in DOMAIN e.rotations : e.rotations[r].new = j
               /\ Held(e, j) /\ ~e.keys[j].active =>
                    \E r \in DOMAIN e.rotations :
                      e.rotations[r].old = j /\ e.rotations[r].state = "FINALIZED"
               /\ e.keys[j].pending # None =>
                    /\ e.rotations[e.keys[j].pending].old = j
                    /\ e.rotations[e.keys[j].pending].last = Len(e.batches)
    <3>1. d.keys[j].pending # None => d.keys[j].pending \in DOMAIN d.rotations
      BY PendingRotates
    <3> QED
      BY <1>3, <1>5, <3>1 DEF LogInv, RotationsKept, SameRotations
  <2> QED
    BY <2>1, <2>2, <2>3 DEF RotationsKept, SameRotations
<1>8. Signed(e)
  BY <1>5 DEF LogInv, Signed, Fingerprint
<1> QED
  BY <1>4, <1>6, <1>7, <1>8 DEF LogInv

(* An operator gives a rotation up.                                          *)
LetGo(d, e, k, R) ==
  /\ \A r \in DOMAIN d.rotations :
       e.rotations[r].state = IF r = R THEN "ABORTED" ELSE d.rotations[r].state
  /\ \A j \in DOMAIN d.keys :
       /\ e.keys[j].to = d.keys[j].to /\ e.keys[j].active = d.keys[j].active
       /\ e.keys[j].activated = d.keys[j].activated
       /\ d.keys[j].live = FALSE => e.keys[j].live = FALSE
       /\ e.keys[j].pending = IF j = k THEN None ELSE d.keys[j].pending

LEMMA LogAborted ==
    ASSUME NEW d, NEW e, LogInv(d), e \in DbSet, NEW k \in DOMAIN d.keys,
           d.keys[k].pending # None, SameRotations(d, e), SameKeys(d, e),
           LetGo(d, e, k, d.keys[k].pending), RowsGrow(d, e), e.batches = d.batches
    PROVE  LogInv(e)
<1> DEFINE R == d.keys[k].pending
<1> SUFFICES
      ASSUME \A r \in DOMAIN d.rotations :
               e.rotations[r].state = IF r = R THEN "ABORTED" ELSE d.rotations[r].state,
             \A j \in DOMAIN d.keys :
               /\ e.keys[j].to = d.keys[j].to /\ e.keys[j].active = d.keys[j].active
               /\ e.keys[j].activated = d.keys[j].activated
               /\ d.keys[j].live = FALSE => e.keys[j].live = FALSE
               /\ e.keys[j].pending = IF j = k THEN None ELSE d.keys[j].pending
      PROVE  LogInv(e)
  BY ZenonT(60) DEF LetGo
<1> DEFINE new == d.rotations[R].new
<1>1. /\ d.keys[k].active /\ Held(d, k)
      /\ R \in DOMAIN d.rotations /\ d.rotations[R].state \in {"PREPARED", "PUBLISHED"}
      /\ d.rotations[R].old = k /\ RotationSays(d, R)
      /\ new \in DOMAIN d.keys /\ ~Held(d, new) /\ ~d.keys[new].active
  <2>1. /\ d.keys[k].active /\ Held(d, k) /\ R \in DOMAIN d.rotations /\ RotationSays(d, R)
    BY PendingRotates
  <2>2. d.rotations[R].old = k /\ d.rotations[R].state \in {"PREPARED", "PUBLISHED"}
    BY PendingRotates
  <2>3. new \in DOMAIN d.keys /\ ~Held(d, new) /\ ~d.keys[new].active
    BY PendingRotates
  <2> QED
    BY <2>1, <2>2, <2>3
<1>2. GivenUp(d) \subseteq GivenUp(e) /\ new \in GivenUp(e)
  BY <1>1 DEF SameRotations, GivenUp
<1>3. RowsSealed(e)
  <2>1. e.keys[1].genesis = d.keys[1].genesis /\ d.keys # <<>>
    BY DbFields DEF LogInv, SameKeys
  <2> QED
    BY <2>1, RowsSealedGrow DEF LogInv
<1>4. \A j \in DOMAIN d.keys : Held(e, j) <=> Held(d, j)
  BY DEF Held
<1>5. ActiveKeys(e) = ActiveKeys(d)
  BY DEF SameKeys, ActiveKeys
<1>6. \A j \in DOMAIN d.keys : j # k => d.keys[j].pending = None
  BY <1>1 DEF LogInv, KeysHeld, ActiveKeys
<1>7. \A j \in DOMAIN e.keys : e.keys[j].pending = None
  BY <1>6 DEF SameKeys
<1>8. KeysHeld(e)
  <2>1. Len(e.rotations) \in Nat /\ d.keys # <<>> /\ e.keys # <<>>
    BY <1>1, DbFields DEF LogInv, SameKeys
  <2>2. /\ \A i, j \in ActiveKeys(e) : i = j
        /\ e.keys # <<>> => ActiveKeys(e) # {} /\ e.keys[1].from = 0
    BY <1>5, <2>1, DbFields DEF LogInv, KeysHeld, SameKeys
  <2>3. ASSUME NEW j \in DOMAIN e.keys
        PROVE  /\ e.keys[j].pending \in 0..Len(e.rotations)
               /\ e.keys[j].active => e.keys[j].to = Open /\ Held(e, j)
               /\ ~e.keys[j].active => e.keys[j].pending = None
               /\ ~e.keys[j].active /\ Held(e, j) => ~e.keys[j].live
               /\ e.keys[j].to # Open => e.keys[j].to \in 0..Len(e.batches)
               /\ j > 1 => e.keys[j].from \in 1..(Len(e.batches) + 1)
               /\ j > 1 /\ e.keys[j].to # Open => e.keys[j].from <= e.keys[j].to
    <3>1. j \in DOMAIN d.keys
      BY DEF SameKeys
    <3>2. e.keys[j].pending \in 0..Len(e.rotations) /\ e.keys[j].pending = None
      BY <1>7, <2>1 DEF None
    <3>3. d.keys[j].live \in BOOLEAN
      BY <3>1, DbFields DEF LogInv, KeySet
    <3>4. ~e.keys[j].active /\ Held(e, j) => ~e.keys[j].live
      BY <1>4, <3>1, <3>3 DEF LogInv, KeysHeld
    <3>5. e.keys[j].active => e.keys[j].to = Open /\ Held(e, j)
      BY <1>4, <3>1 DEF LogInv, KeysHeld
    <3> QED
      BY <3>1, <3>2, <3>4, <3>5 DEF LogInv, KeysHeld, SameKeys
  <2>4. ASSUME NEW i \in ActiveKeys(e), NEW j \in DOMAIN e.keys
        PROVE  /\ Held(e, j) => j <= i
               /\ j > i => j \in GivenUp(e) \/ Candidate(e, i, j)
    <3>1. i = k
      BY <1>1, <1>5 DEF LogInv, KeysHeld, ActiveKeys
    <3>2. j \in DOMAIN d.keys /\ i \in ActiveKeys(d)
      BY <1>5 DEF SameKeys
    <3>3. Held(d, j) => j <= i
      BY <3>2 DEF LogInv, KeysHeld
    <3>4. j > i => j \in GivenUp(d) \/ Candidate(d, i, j)
      BY <3>2 DEF LogInv, KeysHeld
    <3>5. Candidate(d, i, j) => j = new
      BY <3>1 DEF Candidate
    <3> QED
      BY <1>2, <1>4, <3>2, <3>3, <3>4, <3>5
  <2>5. \A i, j \in DOMAIN e.keys :
          i < j /\ Held(e, i) /\ Held(e, j) =>
            e.keys[i].to # Open /\ e.keys[i].to < e.keys[j].from
    BY <1>4 DEF LogInv, KeysHeld, SameKeys
  <2> QED
    BY <2>2, <2>3, <2>4, <2>5 DEF KeysHeld
<1>9. RotationsKept(e)
  <2>1. ASSUME NEW r \in DOMAIN d.rotations, r # R PROVE RotationSays(e, r)
    <3>1. RotationSays(d, r)
      BY DEF LogInv, RotationsKept
    <3>2. d.rotations[r].old \in DOMAIN d.keys /\ d.rotations[r].new \in DOMAIN d.keys
      BY <3>1 DEF RotationSays
    <3>3. r # None
      BY DbFields DEF LogInv, None
    <3>4. d.keys[d.rotations[r].old].pending = r <=> e.keys[d.rotations[r].old].pending = r
      BY <1>6, <1>7, <2>1, <3>2, <3>3 DEF SameKeys
    <3>5. \A s : RootAt(e, s) = RootAt(d, s)
      BY DEF RootAt
    <3>6. e.rotations[r] = d.rotations[r]
      <4>1. d.rotations[r] \in RotationSet /\ e.rotations[r] \in RotationSet
        BY DbFields DEF LogInv, SameRotations
      <4> QED
        BY <2>1, <4>1 DEF SameRotations, RotationSet
    <3>7. ~d.keys[d.rotations[r].old].active =>
              /\ ~e.keys[d.rotations[r].old].active
              /\ e.keys[d.rotations[r].old].to = d.keys[d.rotations[r].old].to
      BY <3>2
    <3>8. \A j \in DOMAIN d.keys : (Held(d, j) => Held(e, j)) /\ e.keys[j].from = d.keys[j].from
      BY <1>4 DEF SameKeys
    <3>9. Held(e, d.rotations[r].new) => Held(d, d.rotations[r].new)
      BY <1>4, <3>2
    <3>10. /\ DOMAIN d.keys \subseteq DOMAIN e.keys
           /\ \A j \in DOMAIN e.keys : j \notin DOMAIN d.keys => j > d.rotations[r].new
           /\ \A j \in DOMAIN e.keys : j \in Nat
           /\ d.rotations[r].new \in Nat /\ Len(d.batches) = Len(e.batches)
      BY DbFields DEF LogInv, SameKeys
    <3> QED
      BY <1>2, <3>1, <3>4, <3>5, <3>6, <3>7, <3>8, <3>9, <3>10, RotationFrame
  <2>2. RotationSays(e, R)
    <3>1. \A s : RootAt(e, s) = RootAt(d, s)
      BY DEF RootAt
    <3>2. e.keys[k].pending # R /\ e.rotations[R].state = "ABORTED" /\ ~Held(e, new)
      BY <1>1, <1>4
    <3>3. k \in DOMAIN e.keys /\ new \in DOMAIN e.keys /\ Held(e, k)
      BY <1>1, <1>4 DEF SameKeys
    <3>4. /\ k < new /\ d.rotations[R].last <= Len(d.batches)
          /\ k > 1 => d.keys[k].from <= d.rotations[R].last
          /\ d.keys[new].from = d.rotations[R].last + 1
          /\ d.rotations[R].root = RootAt(d, d.rotations[R].last)
      BY <1>1 DEF RotationSays
    <3>5. /\ e.rotations[R].old = k /\ e.rotations[R].new = new
          /\ e.rotations[R].last = d.rotations[R].last
          /\ e.rotations[R].root = d.rotations[R].root
          /\ e.keys[k].from = d.keys[k].from /\ e.keys[new].from = d.keys[new].from
      BY <1>1 DEF SameRotations, SameKeys
    <3> HIDE DEF new
    <3> QED
      BY <3>1, <3>2, <3>3, <3>4, <3>5 DEF RotationSays
  <2>3. \A q, r \in DOMAIN e.rotations : e.rotations[q].new = e.rotations[r].new => q = r
    BY DEF LogInv, RotationsKept, SameRotations
  <2>4. ASSUME NEW j \in DOMAIN d.keys
        PROVE  /\ j > 1 => \E r \in DOMAIN e.rotations : e.rotations[r].new = j
               /\ Held(e, j) /\ ~e.keys[j].active =>
                    \E r \in DOMAIN e.rotations :
                      e.rotations[r].old = j /\ e.rotations[r].state = "FINALIZED"
               /\ e.keys[j].pending # None =>
                    /\ e.rotations[e.keys[j].pending].old = j
                    /\ e.rotations[e.keys[j].pending].last = Len(e.batches)
    <3>1. j > 1 => \E r \in DOMAIN e.rotations : e.rotations[r].new = j
      BY DEF LogInv, RotationsKept, SameRotations
    <3>2. Held(e, j) /\ ~e.keys[j].active =>
            \E r \in DOMAIN e.rotations :
              e.rotations[r].old = j /\ e.rotations[r].state = "FINALIZED"
      <4>1. Held(d, j) /\ ~d.keys[j].active =>
              \E r \in DOMAIN d.rotations :
                d.rotations[r].old = j /\ d.rotations[r].state = "FINALIZED"
        BY DEF LogInv, RotationsKept
      <4>2. d.rotations[R].state # "FINALIZED"
        BY <1>1
      <4> QED
        BY <1>4, <4>1, <4>2 DEF SameRotations
    <3> QED
      BY <1>7, <3>1, <3>2 DEF SameKeys
  <2>5. DOMAIN e.rotations = DOMAIN d.rotations /\ DOMAIN e.keys = DOMAIN d.keys
    BY DEF SameRotations, SameKeys
  <2>6. \A r \in DOMAIN e.rotations : RotationSays(e, r)
    BY <2>1, <2>2, <2>5
  <2> QED
    BY <2>3, <2>4, <2>5, <2>6 DEF RotationsKept
<1>10. Signed(e)
  BY <1>4 DEF LogInv, Signed, Fingerprint, SameKeys, key_authorizes_sequence
<1> QED
  BY <1>3, <1>8, <1>9, <1>10 DEF LogInv

(* One key retires and the next is promoted.                                 *)
HandsOver(d, e, k, new) ==
  \A j \in DOMAIN d.keys :
    /\ e.keys[j].to = IF j = k THEN Len(d.batches) ELSE d.keys[j].to
    /\ e.keys[j].active <=> j # k /\ (j = new \/ d.keys[j].active)
    /\ e.keys[j].activated <=> j = new \/ d.keys[j].activated
    /\ e.keys[j].live <=> j # k /\ d.keys[j].live
    /\ e.keys[j].pending = IF j = k THEN None ELSE d.keys[j].pending

(* What PendingRotates says of the rotation that is pending.                  *)
InOffice(d, k, R, new) ==
  /\ d.keys[k].active /\ Held(d, k) /\ d.keys[k].pending = R /\ R # None
  /\ d.rotations[R].state \in {"PREPARED", "PUBLISHED"}
  /\ d.rotations[R].old = k /\ d.rotations[R].new = new
  /\ d.rotations[R].last = Len(d.batches) /\ RotationSays(d, R)
  /\ ~Held(d, new) /\ ~d.keys[new].active /\ new > k

(* The scope passes to the next key, at the head the rotation was bound to.  *)
LEMMA LogHandedOver ==
    ASSUME NEW d, NEW e, LogInv(d), e \in DbSet, NEW k \in DOMAIN d.keys,
           NEW new \in DOMAIN d.keys, NEW R \in DOMAIN d.rotations, InOffice(d, k, R, new),
           SameRotations(d, e), SameKeys(d, e), HandsOver(d, e, k, new),
           \A r \in DOMAIN d.rotations :
             e.rotations[r].state = IF r = R THEN "FINALIZED" ELSE d.rotations[r].state,
           RowsGrow(d, e), e.batches = d.batches
    PROVE  LogInv(e)
<1>1. /\ d.keys[k].active /\ Held(d, k)
      /\ R \in DOMAIN d.rotations /\ d.rotations[R].state \in {"PREPARED", "PUBLISHED"}
      /\ d.rotations[R].old = k /\ d.rotations[R].last = Len(d.batches) /\ RotationSays(d, R)
      /\ new \in DOMAIN d.keys /\ ~Held(d, new) /\ ~d.keys[new].active /\ new > k
  BY DEF InOffice
<1>0. d.rotations[R].new = new /\ d.keys[k].pending = R
  BY DEF InOffice
<1>2. GivenUp(e) = GivenUp(d)
  <2>1. {q \in DOMAIN e.rotations : e.rotations[q].state = "ABORTED"} =
        {q \in DOMAIN d.rotations : d.rotations[q].state = "ABORTED"}
    BY <1>1 DEF SameRotations
  <2> QED
    BY <2>1 DEF GivenUp, SameRotations
<1>3. RowsSealed(e)
  <2>1. e.keys[1].genesis = d.keys[1].genesis /\ d.keys # <<>>
    BY DbFields DEF LogInv, SameKeys
  <2> QED
    BY <2>1, RowsSealedGrow DEF LogInv
<1>4. \A j \in DOMAIN d.keys : Held(e, j) <=> Held(d, j) \/ j = new
  BY DEF Held, HandsOver
<1>5. \A j \in DOMAIN d.keys : d.keys[j].active => j = k
  BY <1>1 DEF LogInv, KeysHeld, ActiveKeys
<1>6. ActiveKeys(e) = {new}
  BY <1>1, <1>5, DbFields DEF SameKeys, ActiveKeys, LogInv, HandsOver
<1>7. \A j \in DOMAIN e.keys : e.keys[j].pending = None
  BY <1>5, SMTT(60) DEF SameKeys, LogInv, KeysHeld, HandsOver
<1>8. /\ DOMAIN e.keys = DOMAIN d.keys /\ DOMAIN d.keys = 1..Len(d.keys) /\ Len(d.keys) \in Nat
      /\ Len(d.batches) \in Nat /\ Len(e.rotations) \in Nat
      /\ \A j \in DOMAIN d.keys :
           /\ e.keys[j].from = d.keys[j].from
           /\ d.keys[j].from \in Nat /\ d.keys[j].to \in Nat \cup {Open}
  BY DbFields DEF LogInv, SameKeys
<1>9. d.keys[new].from = Len(d.batches) + 1 /\ (k > 1 => d.keys[k].from <= Len(d.batches))
  BY <1>0, <1>1 DEF RotationSays
<1>10. \A j \in DOMAIN d.keys : Held(d, j) => j <= k
  BY <1>1 DEF LogInv, KeysHeld, ActiveKeys
<1>11. \A j \in DOMAIN d.keys : j > k => j \in GivenUp(d) \/ j = new
  BY <1>1 DEF LogInv, KeysHeld, ActiveKeys, Candidate, InOffice
<1>15. /\ k \in Nat /\ new \in Nat /\ k < new /\ k # new /\ k >= 1
       /\ \A j \in DOMAIN d.keys : j \in Nat /\ j >= 1
       /\ \A j \in DOMAIN e.keys : j \in DOMAIN d.keys
  <2>1. \A j \in 1..Len(d.keys) : j \in Nat /\ j >= 1
    OBVIOUS
  <2>2. \A j \in DOMAIN d.keys : j \in Nat /\ j >= 1
    BY <1>8, <2>1
  <2> QED
    BY <1>1, <1>8, <2>2
<1>16. /\ e.keys[k].to = Len(d.batches) /\ e.keys[new].from = Len(d.batches) + 1
       /\ \A j \in DOMAIN d.keys : j # k => e.keys[j].to = d.keys[j].to
  BY <1>1, <1>8, <1>9 DEF HandsOver
<1>12. KeysHeld(e)
  <2>1. /\ \A i, j \in ActiveKeys(e) : i = j
        /\ e.keys # <<>> => ActiveKeys(e) # {} /\ e.keys[1].from = 0
    <3>1. d.keys # <<>> /\ 1 \in DOMAIN d.keys
      BY <1>8
    <3> QED
      BY <1>6, <1>8, <3>1 DEF LogInv, KeysHeld
  <2>2. ASSUME NEW j \in DOMAIN e.keys
        PROVE  /\ e.keys[j].pending \in 0..Len(e.rotations)
               /\ e.keys[j].active => e.keys[j].to = Open /\ Held(e, j)
               /\ ~e.keys[j].active => e.keys[j].pending = None
               /\ ~e.keys[j].active /\ Held(e, j) => ~e.keys[j].live
               /\ e.keys[j].to # Open => e.keys[j].to \in 0..Len(e.batches)
               /\ j > 1 => e.keys[j].from \in 1..(Len(e.batches) + 1)
               /\ j > 1 /\ e.keys[j].to # Open => e.keys[j].from <= e.keys[j].to
    <3>1. j \in DOMAIN d.keys
      BY <1>8
    <3>2. e.keys[j].pending \in 0..Len(e.rotations) /\ e.keys[j].pending = None
      BY <1>7, <1>8 DEF None
    <3>3. /\ d.keys[j].to # Open => d.keys[j].to \in 0..Len(d.batches)
          /\ j > 1 => d.keys[j].from \in 1..(Len(d.batches) + 1)
          /\ j > 1 /\ d.keys[j].to # Open => d.keys[j].from <= d.keys[j].to
          /\ ~d.keys[j].active /\ Held(d, j) => ~d.keys[j].live
      BY <3>1 DEF LogInv, KeysHeld
    <3>4. /\ e.keys[j].to # Open => e.keys[j].to \in 0..Len(e.batches)
          /\ j > 1 => e.keys[j].from \in 1..(Len(e.batches) + 1)
          /\ j > 1 /\ e.keys[j].to # Open => e.keys[j].from <= e.keys[j].to
      <4>1. d.keys[j].from \in Int /\ d.keys[j].to \in Int /\ Len(e.batches) = Len(d.batches)
        BY <1>8, <3>1 DEF Open
      <4>2. e.keys[j].from = d.keys[j].from
            /\ e.keys[j].to = IF j = k THEN Len(d.batches) ELSE d.keys[j].to
        BY <1>8, <1>16, <3>1
      <4> QED
        BY <1>8, <1>9, <3>3, <4>1, <4>2
    <3>5. e.keys[j].active => e.keys[j].to = Open /\ Held(e, j)
      <4>1. SUFFICES ASSUME e.keys[j].active PROVE e.keys[j].to = Open /\ Held(e, j)
        OBVIOUS
      <4>2. j = new
        BY <1>5, <3>1, <4>1 DEF HandsOver
      <4>3. d.keys[j].to = Open
        <5>1. d.keys[new].to # Open =>
                d.keys[new].to \in 0..Len(d.batches) /\ d.keys[new].from <= d.keys[new].to
          BY <1>15, <3>3, <4>2
        <5>2. Len(d.batches) \in Nat /\ d.keys[new].from = Len(d.batches) + 1
          BY <1>8, <1>9
        <5> QED
          BY <4>2, <5>1, <5>2
      <4> QED
        BY <1>4, <1>15, <1>16, <3>1, <4>2, <4>3
    <3>6. ~e.keys[j].active /\ Held(e, j) => ~e.keys[j].live
      BY <1>1, <1>4, <3>1, <3>3 DEF HandsOver
    <3> QED
      BY <3>2, <3>4, <3>5, <3>6
  <2>3. ASSUME NEW i \in ActiveKeys(e), NEW j \in DOMAIN e.keys
        PROVE  /\ Held(e, j) => j <= i
               /\ j > i => j \in GivenUp(e) \/ Candidate(e, i, j)
    <3>1. i = new /\ j \in DOMAIN d.keys /\ j \in Nat
      BY <1>6, <1>15
    <3>2. Held(e, j) => j <= k \/ j = new
      BY <1>4, <1>10, <3>1
    <3>3. j > k => j \in GivenUp(e) \/ j = new
      BY <1>2, <1>11, <3>1
    <3> QED
      BY <1>15, <3>1, <3>2, <3>3
  <2>4. ASSUME NEW i \in DOMAIN e.keys, NEW j \in DOMAIN e.keys, i < j, Held(e, i), Held(e, j)
        PROVE  e.keys[i].to # Open /\ e.keys[i].to < e.keys[j].from
    <3>1. \A x, y \in DOMAIN d.keys : x < y /\ Held(d, x) /\ Held(d, y) =>
            d.keys[x].to # Open /\ d.keys[x].to < d.keys[y].from
      BY DEF LogInv, KeysHeld
    <3>2. i # new
      <4>1. i \in Nat /\ j \in Nat /\ (Held(d, j) => j <= k) /\ (Held(d, j) \/ j = new)
        BY <1>4, <1>10, <1>15, <2>4
      <4> QED
        BY <1>15, <2>4, <4>1
    <3>3. Held(d, i) /\ i <= k
      BY <1>4, <1>8, <1>10, <2>4, <3>2
    <3>4. CASE j = new /\ i = k
      BY <1>8, <1>16, <3>4 DEF Open
    <3>5. CASE j = new /\ i # k
      <4>1. i < k
        BY <1>8, <3>3, <3>5
      <4>2. d.keys[i].to # Open /\ d.keys[i].to < d.keys[k].from /\ k > 1
        BY <1>1, <1>8, <3>1, <3>3, <4>1
      <4>3. /\ e.keys[i].to = d.keys[i].to /\ e.keys[j].from = Len(d.batches) + 1
            /\ d.keys[k].from <= Len(d.batches) /\ Len(d.batches) \in Nat
            /\ d.keys[i].to \in Int /\ d.keys[k].from \in Int
        BY <1>8, <1>9, <1>15, <1>16, <3>5, <4>2 DEF Open
      <4> QED
        BY <4>2, <4>3
    <3>6. CASE j # new
      <4>1. Held(d, j) /\ j <= k
        BY <1>4, <1>8, <1>10, <2>4, <3>6
      <4>2. i # k
        BY <1>8, <2>4, <4>1
      <4> QED
        <5>1. d.keys[i].to # Open /\ d.keys[i].to < d.keys[j].from
          BY <1>8, <2>4, <3>1, <3>3, <4>1
        <5>2. e.keys[i].to = d.keys[i].to /\ e.keys[j].from = d.keys[j].from
          BY <1>8, <1>16, <4>2
        <5> QED
          BY <5>1, <5>2
    <3> QED
      BY <3>4, <3>5, <3>6
  <2> QED
    BY <2>1, <2>2, <2>3, <2>4 DEF KeysHeld
<1>13. RotationsKept(e)
  <2>1. ASSUME NEW r \in DOMAIN d.rotations, r # R PROVE RotationSays(e, r)
    <3>1. RotationSays(d, r)
      BY DEF LogInv, RotationsKept
    <3>2. /\ d.rotations[r].old \in DOMAIN d.keys /\ d.rotations[r].new \in DOMAIN d.keys
          /\ Held(d, d.rotations[r].old)
      BY <3>1 DEF RotationSays
    <3>3. r # None
      BY DbFields DEF LogInv, None
    <3>4. d.keys[d.rotations[r].old].pending = r <=> e.keys[d.rotations[r].old].pending = r
      BY <1>0, <2>1, <3>2, <3>3 DEF HandsOver
    <3>5. \A s : RootAt(e, s) = RootAt(d, s)
      BY DEF RootAt
    <3>6. e.rotations[r] = d.rotations[r]
      <4>1. d.rotations[r] \in RotationSet /\ e.rotations[r] \in RotationSet
        BY DbFields DEF LogInv, SameRotations
      <4> QED
        BY <2>1, <4>1 DEF SameRotations, RotationSet
    <3>7. ~d.keys[d.rotations[r].old].active =>
              /\ ~e.keys[d.rotations[r].old].active
              /\ e.keys[d.rotations[r].old].to = d.keys[d.rotations[r].old].to
      BY <1>1, <3>2 DEF HandsOver
    <3>8. \A j \in DOMAIN d.keys : (Held(d, j) => Held(e, j)) /\ e.keys[j].from = d.keys[j].from
      BY <1>4, <1>8
    <3>9. Held(e, d.rotations[r].new) => Held(d, d.rotations[r].new)
      <4>1. d.rotations[r].new # new
        BY <1>0, <1>1, <2>1 DEF LogInv, RotationsKept
      <4> QED
        BY <1>4, <3>2, <4>1
    <3>10. /\ DOMAIN d.keys \subseteq DOMAIN e.keys
           /\ \A j \in DOMAIN e.keys : j \notin DOMAIN d.keys => j > d.rotations[r].new
           /\ \A j \in DOMAIN e.keys : j \in Nat
           /\ d.rotations[r].new \in Nat /\ Len(d.batches) = Len(e.batches)
      BY DbFields DEF LogInv, SameKeys
    <3> QED
      BY <1>2, <3>1, <3>4, <3>5, <3>6, <3>7, <3>8, <3>9, <3>10, RotationFrame
  <2>2. RotationSays(e, R)
    <3>1. \A s : RootAt(e, s) = RootAt(d, s)
      BY DEF RootAt
    <3>2. e.keys[k].pending # R /\ e.rotations[R].state = "FINALIZED" /\ Held(e, new)
      BY <1>0, <1>1, <1>4 DEF HandsOver, InOffice
    <3>3. k \in DOMAIN e.keys /\ new \in DOMAIN e.keys /\ Held(e, k)
      BY <1>1, <1>4 DEF SameKeys
    <3>4. /\ k < new /\ d.rotations[R].last = Len(d.batches)
          /\ k > 1 => d.keys[k].from <= Len(d.batches)
          /\ d.keys[new].from = Len(d.batches) + 1
          /\ d.rotations[R].root = RootAt(d, d.rotations[R].last)
      BY <1>0, <1>1, <1>8, <1>9 DEF RotationSays
    <3>5. /\ e.rotations[R].old = k /\ e.rotations[R].new = new
          /\ e.rotations[R].last = d.rotations[R].last
          /\ e.rotations[R].root = d.rotations[R].root
          /\ e.keys[k].from = d.keys[k].from /\ e.keys[new].from = d.keys[new].from
      BY <1>0, <1>1 DEF SameRotations, SameKeys
    <3>6. /\ ~e.keys[k].active /\ e.keys[k].to = Len(d.batches)
          /\ \A j \in DOMAIN e.keys : k < j /\ j < new => j \in GivenUp(e)
      <4>1. ASSUME NEW j \in DOMAIN e.keys, k < j, j < new PROVE j \in GivenUp(e)
        <5>1. j \in DOMAIN d.keys /\ j # new /\ j > k
          BY <1>15, <4>1
        <5> QED
          BY <1>2, <1>11, <5>1
      <4> QED
        BY <1>1, <1>16, <4>1 DEF HandsOver
    <3>7. e.rotations[R].last <= Len(e.batches) /\ Len(e.batches) = Len(d.batches)
      BY <1>8, <3>4, <3>5
    <3>8. /\ e.rotations[R].old \in DOMAIN e.keys /\ e.rotations[R].new \in DOMAIN e.keys
          /\ e.rotations[R].old < e.rotations[R].new /\ Held(e, e.rotations[R].old)
          /\ e.rotations[R].old > 1 => e.keys[e.rotations[R].old].from <= e.rotations[R].last
          /\ e.keys[e.rotations[R].new].from = e.rotations[R].last + 1
          /\ e.rotations[R].root = RootAt(e, e.rotations[R].last)
      BY <3>1, <3>3, <3>4, <3>5
    <3>9. /\ ~e.keys[e.rotations[R].old].active
          /\ e.keys[e.rotations[R].old].to = e.rotations[R].last
          /\ \A j \in DOMAIN e.keys :
               e.rotations[R].old < j /\ j < e.rotations[R].new => j \in GivenUp(e)
      BY <3>4, <3>5, <3>6
    <3>10. Held(e, e.rotations[R].new) /\ e.keys[e.rotations[R].old].pending # R
      BY <3>2, <3>5
    <3> QED
      BY <3>2, <3>7, <3>8, <3>9, <3>10 DEF RotationSays
  <2>3. \A q, r \in DOMAIN e.rotations : e.rotations[q].new = e.rotations[r].new => q = r
    BY DEF LogInv, RotationsKept, SameRotations
  <2>4. ASSUME NEW j \in DOMAIN d.keys
        PROVE  /\ j > 1 => \E r \in DOMAIN e.rotations : e.rotations[r].new = j
               /\ Held(e, j) /\ ~e.keys[j].active =>
                    \E r \in DOMAIN e.rotations :
                      e.rotations[r].old = j /\ e.rotations[r].state = "FINALIZED"
               /\ e.keys[j].pending # None =>
                    /\ e.rotations[e.keys[j].pending].old = j
                    /\ e.rotations[e.keys[j].pending].last = Len(e.batches)
    <3>1. j > 1 => \E r \in DOMAIN e.rotations : e.rotations[r].new = j
      BY DEF LogInv, RotationsKept, SameRotations
    <3>2. Held(e, j) /\ ~e.keys[j].active =>
            \E r \in DOMAIN e.rotations :
              e.rotations[r].old = j /\ e.rotations[r].state = "FINALIZED"
      <4>1. Held(d, j) /\ ~d.keys[j].active =>
              \E r \in DOMAIN d.rotations :
                d.rotations[r].old = j /\ d.rotations[r].state = "FINALIZED"
        BY DEF LogInv, RotationsKept
      <4>2. d.rotations[R].state # "FINALIZED"
        BY <1>1
      <4>3. CASE j = k
        BY <1>1, <4>3 DEF SameRotations, HandsOver
      <4>4. CASE j # k
        BY <1>1, <1>4, <4>1, <4>2, <4>4 DEF SameRotations, HandsOver
      <4> QED
        BY <4>3, <4>4
    <3> QED
      BY <1>7, <3>1, <3>2 DEF SameKeys
  <2>5. DOMAIN e.rotations = DOMAIN d.rotations /\ DOMAIN e.keys = DOMAIN d.keys
    BY DEF SameRotations, SameKeys
  <2>6. \A r \in DOMAIN e.rotations : RotationSays(e, r)
    BY <2>1, <2>2, <2>5
  <2> QED
    BY <2>3, <2>4, <2>5, <2>6 DEF RotationsKept
<1>14. Signed(e)
  <2> SUFFICES ASSUME NEW b \in DOMAIN d.batches
               PROVE  \E j \in DOMAIN e.keys :
                        /\ Held(e, j) /\ d.batches[b].signer = Fingerprint(e, j)
                        /\ key_authorizes_sequence(e.keys[j], b)
    BY DEF Signed
  <2>1. PICK j \in DOMAIN d.keys :
          /\ Held(d, j) /\ d.batches[b].signer = Fingerprint(d, j)
          /\ key_authorizes_sequence(d.keys[j], b)
    BY DEF LogInv, Signed
  <2>2. b \in Nat /\ b <= Len(d.batches)
    BY DbFields DEF LogInv
  <2>3. key_authorizes_sequence(e.keys[j], b)
    BY <1>8, <1>16, <2>1, <2>2 DEF key_authorizes_sequence
  <2> QED
    BY <1>4, <2>1, <2>3 DEF SameKeys, Fingerprint
<1> QED
  BY <1>3, <1>12, <1>13, <1>14 DEF LogInv

LEMMA LogFinalized ==
    ASSUME NEW d, NEW e, LogInv(d), e \in DbSet, NEW k \in DOMAIN d.keys,
           d.keys[k].pending # None, SameRotations(d, e), SameKeys(d, e),
           HandsOver(d, e, k, d.rotations[d.keys[k].pending].new),
           \A r \in DOMAIN d.rotations :
             e.rotations[r].state =
               IF r = d.keys[k].pending THEN "FINALIZED" ELSE d.rotations[r].state,
           RowsGrow(d, e), e.batches = d.batches
    PROVE  LogInv(e)
<1>1. /\ d.keys[k].pending \in DOMAIN d.rotations
      /\ d.rotations[d.keys[k].pending].new \in DOMAIN d.keys
      /\ InOffice(d, k, d.keys[k].pending, d.rotations[d.keys[k].pending].new)
  BY PendingRotates, ZenonT(60) DEF InOffice
<1> QED
  BY <1>1, LogHandedOver

-----------------------------------------------------------------------------
(* The log and the anchors.                                                  *)
(* What stays when the database is written.                                  *)
Extends(d, e) ==
  /\ Len(d.batches) <= Len(e.batches) /\ Len(d.keys) <= Len(e.keys)
  /\ \A k \in DOMAIN d.keys :
       e.keys[k].epoch = d.keys[k].epoch /\ e.keys[k].from = d.keys[k].from
  /\ \A r \in DOMAIN d.rotations :
       /\ r \in DOMAIN e.rotations
       /\ e.rotations[r].old = d.rotations[r].old /\ e.rotations[r].new = d.rotations[r].new
       /\ e.rotations[r].last = d.rotations[r].last /\ e.rotations[r].root = d.rotations[r].root

LEMMA TransitionKept ==
    ASSUME NEW d, NEW e, LogInv(d), Extends(d, e), NEW r \in DOMAIN d.rotations
    PROVE  Transition(e, r) = Transition(d, r)
<1>1. d.rotations[r].old \in DOMAIN d.keys /\ d.rotations[r].new \in DOMAIN d.keys
  BY DEF LogInv, RotationsKept, RotationSays
<1>2. /\ Fingerprint(e, d.rotations[r].old) = Fingerprint(d, d.rotations[r].old)
      /\ Fingerprint(e, d.rotations[r].new) = Fingerprint(d, d.rotations[r].new)
  BY <1>1 DEF Fingerprint, Extends
<1>3. /\ e.rotations[r].old = d.rotations[r].old /\ e.rotations[r].new = d.rotations[r].new
      /\ e.rotations[r].last = d.rotations[r].last /\ e.rotations[r].root = d.rotations[r].root
  BY DEF Extends
<1> QED
  BY <1>2, <1>3 DEF Transition

LEMMA KnownKept ==
    ASSUME NEW s, NEW d, NEW e, NEW n, NEW S, LogInv(d), e \in DbSet,
           s.moves \subseteq MoveSet,
           KnownBy(s, d), EpochsBy(s, d, n), SnapshotsBy(S, s, d), Extends(d, e),
           \A k \in DOMAIN e.keys : k \notin DOMAIN d.keys => e.keys[k].epoch = n,
           e.keys # <<>> /\ e.keys[1].activated => Anchor(0, Activation(e, 1)) \in s.batches,
           \A r \in DOMAIN e.rotations :
             e.rotations[r].state = "FINALIZED" => Transition(e, r) \in s.moves
    PROVE  KnownBy(s, e) /\ EpochsBy(s, e, n) /\ SnapshotsBy(S, s, e)
<1>1. /\ DOMAIN d.keys = 1..Len(d.keys) /\ Len(d.keys) \in Nat
      /\ DOMAIN e.keys = 1..Len(e.keys) /\ Len(e.keys) \in Nat
      /\ \A k \in DOMAIN d.keys : d.keys[k].epoch \in Nat
      /\ \A k \in DOMAIN d.keys : e.keys[k].epoch = d.keys[k].epoch
      /\ \A k \in DOMAIN d.keys : e.keys[k].from = d.keys[k].from
      /\ Len(d.keys) <= Len(e.keys)
  BY DbFields DEF LogInv, Extends
<1>2. ASSUME NEW m \in s.moves, NEW k \in DOMAIN e.keys, m.new = Fingerprint(e, k)
      PROVE  e.keys[k].from = m.seq + 1
  <2>1. CASE k \in DOMAIN d.keys
    BY <1>1, <1>2, <2>1 DEF KnownBy, Fingerprint
  <2>2. CASE k \notin DOMAIN d.keys
    <3>1. m.new[1] = k /\ m.new[2] = n
      BY <1>2, <2>2 DEF Fingerprint
    <3>2. k <= Len(d.keys)
      BY <3>1 DEF EpochsBy
    <3> QED
      BY <1>1, <2>2, <3>2
  <2> QED
    BY <2>1, <2>2
<1>3. KnownBy(s, e)
  BY <1>2 DEF KnownBy
<1>4. EpochsBy(s, e, n)
  <2>1. \A k \in DOMAIN e.keys : e.keys[k].epoch <= n
    BY <1>1 DEF EpochsBy
  <2>2. ASSUME NEW m \in s.moves, m.new[2] = n
        PROVE  m.new[1] <= Len(e.keys)
    <3>1. m.new[1] <= Len(d.keys) /\ m.new[1] \in Nat
      BY <2>2 DEF EpochsBy, MoveSet, Ids
    <3> QED
      BY <1>1, <3>1
  <2> QED
    BY <2>1, <2>2 DEF EpochsBy
<1>5. SnapshotsBy(S, s, e)
  <2> SUFFICES ASSUME NEW x \in S
               PROVE  /\ LogInv(x) /\ KnownBy(s, x) /\ Len(x.keys) <= Len(e.keys)
                      /\ \A k \in DOMAIN x.keys :
                           /\ x.keys[k].epoch = e.keys[k].epoch
                           /\ x.keys[k].from = e.keys[k].from
    BY DEF SnapshotsBy
  <2>1. /\ LogInv(x) /\ KnownBy(s, x) /\ Len(x.keys) <= Len(d.keys)
        /\ \A k \in DOMAIN x.keys :
             x.keys[k].epoch = d.keys[k].epoch /\ x.keys[k].from = d.keys[k].from
    BY DEF SnapshotsBy
  <2>2. DOMAIN x.keys = 1..Len(x.keys) /\ Len(x.keys) \in Nat
    BY <2>1, DbFields DEF LogInv
  <2>3. DOMAIN x.keys \subseteq DOMAIN d.keys
    BY <1>1, <2>1, <2>2
  <2> QED
    BY <1>1, <2>1, <2>2, <2>3
<1> QED
  BY <1>3, <1>4, <1>5

LEMMA UnrestoredKept ==
    ASSUME NEW s, NEW d, NEW e, LogInv(d), e \in DbSet, UnrestoredBy(s, d), Extends(d, e),
           \A a \in s.batches : a.seq \in Nat,
           \A r \in DOMAIN d.rotations :
             e.rotations[r].state = "ABORTED" =>
               d.rotations[r].state = "ABORTED" \/ Transition(d, r) \notin s.moves
    PROVE  UnrestoredBy(s, e)
<1>1. \A a \in s.batches : a.seq <= Len(e.batches)
  BY DbFields DEF UnrestoredBy, Extends, LogInv
<1>2. ASSUME NEW m \in s.moves
      PROVE  \E r \in DOMAIN e.rotations : m = Transition(e, r) /\ e.rotations[r].state # "ABORTED"
  <2>1. PICK r \in DOMAIN d.rotations :
          m = Transition(d, r) /\ d.rotations[r].state # "ABORTED"
    BY DEF UnrestoredBy
  <2>2. r \in DOMAIN e.rotations /\ Transition(e, r) = Transition(d, r)
    BY TransitionKept DEF Extends
  <2> QED
    BY <2>1, <2>2
<1> QED
  BY <1>1, <1>2 DEF UnrestoredBy

(* The anchors grow and the log stays.                                       *)
LEMMA AnchorsGrow ==
    ASSUME NEW s, NEW t, NEW d, NEW n, NEW S, s.batches \subseteq t.batches, t.moves = s.moves,
           KnownBy(s, d), EpochsBy(s, d, n), SnapshotsBy(S, s, d)
    PROVE  KnownBy(t, d) /\ EpochsBy(t, d, n) /\ SnapshotsBy(S, t, d)
<1>1. ASSUME NEW x, KnownBy(s, x) PROVE KnownBy(t, x)
  BY <1>1 DEF KnownBy
<1>2. EpochsBy(t, d, n)
  BY DEF EpochsBy
<1>3. SnapshotsBy(S, t, d)
  BY <1>1 DEF SnapshotsBy
<1> QED
  BY <1>1, <1>2, <1>3

(* The rotation that is pending, of the key in office.                       *)
LEMMA RotationPending ==
    ASSUME LogInv(db), db.keys # <<>>, PendingRotation # None
    PROVE  /\ active_key(db) \in DOMAIN db.keys /\ db.keys[active_key(db)].active
           /\ PendingRotation \in DOMAIN db.rotations
           /\ db.rotations[PendingRotation].old = active_key(db)
           /\ db.rotations[PendingRotation].last = Len(db.batches)
           /\ db.rotations[PendingRotation].state \in {"PREPARED", "PUBLISHED"}
           /\ RotationSays(db, PendingRotation)
           /\ db.rotations[PendingRotation].new \in DOMAIN db.keys
           /\ Transition(db, PendingRotation) \in MoveSet
<1>1. active_key(db) \in DOMAIN db.keys /\ db.keys[active_key(db)].active
  BY KeyHolder
<1>2. db.keys[active_key(db)].pending # None
  BY DEF PendingRotation
<1>3. /\ PendingRotation \in DOMAIN db.rotations
      /\ db.rotations[PendingRotation].old = active_key(db)
      /\ db.rotations[PendingRotation].last = Len(db.batches)
      /\ db.rotations[PendingRotation].state \in {"PREPARED", "PUBLISHED"}
      /\ RotationSays(db, PendingRotation)
      /\ db.rotations[PendingRotation].new \in DOMAIN db.keys
  BY <1>1, <1>2, PendingRotates DEF PendingRotation
<1>4. \A k \in DOMAIN db.keys : Fingerprint(db, k) \in Ids
  BY DbFields DEF LogInv, Fingerprint, Ids
<1>5. db.rotations[PendingRotation].root \in SUBSET Ids
      /\ db.rotations[PendingRotation].last \in Nat
  BY <1>3, DbFields DEF LogInv, RotationSet
<1>6. Transition(db, PendingRotation) \in MoveSet
  BY <1>1, <1>3, <1>4, <1>5 DEF Transition, MoveSet
<1> QED
  BY <1>1, <1>3, <1>6

(* Handing over keeps the anchors one chain: nobody has moved on from the    *)
(* newest batch, since no key was handed the scope behind the head it retires at. *)
LEMMA NothingBehind ==
    ASSUME LogInv(db), SinkInv, KnownBy(sink, db), db.keys # <<>>, PendingRotation # None,
           fetch_scope_head = [seq |-> db.rotations[PendingRotation].last,
                               signer |-> Fingerprint(db, db.rotations[PendingRotation].old),
                               root |-> db.rotations[PendingRotation].root]
    PROVE  \E a \in sink.batches :
             /\ a.seq = db.rotations[PendingRotation].last /\ a.seq + 1 = Size
             /\ a.body.signer = Fingerprint(db, db.rotations[PendingRotation].old)
             /\ \A m \in sink.moves : m.seq # a.seq
<1> DEFINE R == PendingRotation
           old == db.rotations[R].old
<1>1. /\ R \in DOMAIN db.rotations /\ RotationSays(db, R)
      /\ db.rotations[R].last \in Nat /\ old \in DOMAIN db.keys /\ old \in Nat /\ old > 0
  BY RotationPending, DbFields DEF LogInv
<1>2. old > 1 => db.keys[old].from <= db.rotations[R].last
  BY <1>1 DEF RotationSays
<1>3. fetch_scope_head.seq = db.rotations[R].last /\ fetch_scope_head.signer = Fingerprint(db, old)
  OBVIOUS
<1> HIDE DEF R, old
<1>4. Size \in Nat /\ (Size = 0 <=> sink.batches = {})
  BY FS_CardinalityType, FS_EmptySet DEF SinkInv, Size
<1>5. sink.batches # {}
  BY <1>1, <1>3 DEF fetch_scope_head, NoHead
<1>6. PICK a \in sink.batches : a.seq = Size - 1
  BY <1>4, <1>5 DEF SinkInv
<1>7. /\ fetch_scope_head.seq = a.seq
      /\ \A m \in sink.moves : m.seq = a.seq => fetch_scope_head.signer = m.new
      /\ (\A m \in sink.moves : m.seq # a.seq) => fetch_scope_head.signer = a.body.signer
  BY <1>4, <1>6, HeadOutside
<1>8. ASSUME NEW m \in sink.moves, m.seq = a.seq PROVE FALSE
  <2>1. m.new = Fingerprint(db, old)
    BY <1>3, <1>7, <1>8
  <2>2. db.keys[old].from = m.seq + 1
    BY <1>1, <2>1 DEF KnownBy
  <2>3. m.old[1] > 0 /\ m.old[1] < m.new[1] /\ m.old \in Ids
    BY DEF SinkInv, MoveSet
  <2>4. old > 1
    BY <1>1, <2>1, <2>3 DEF Fingerprint, Ids
  <2> QED
    BY <1>1, <1>2, <1>3, <1>7, <1>8, <2>2, <2>4
<1> QED
  BY <1>3, <1>4, <1>6, <1>7, <1>8 DEF R, old

LEMMA MoveAdded ==
    ASSUME LogInv(db), SinkInv, Outside, db.keys # <<>>, PendingRotation # None,
           MayTransit(PendingRotation),
           sink' = [sink EXCEPT !.moves = @ \cup {Transition(db, PendingRotation)}],
           db' = db, saved' = saved, epoch' = epoch
    PROVE  SinkInv' /\ Outside'
<1> DEFINE R == PendingRotation
           t == Transition(db, R)
           old == db.rotations[R].old
           new == db.rotations[R].new
<1>1. /\ R \in DOMAIN db.rotations /\ RotationSays(db, R) /\ t \in MoveSet
      /\ old \in DOMAIN db.keys /\ new \in DOMAIN db.keys /\ old < new
      /\ db.keys[new].from = db.rotations[R].last + 1
      /\ db.rotations[R].state # "ABORTED"
  BY RotationPending DEF RotationSays
<1>2. /\ t.seq = db.rotations[R].last /\ t.old = Fingerprint(db, old)
      /\ t.new = Fingerprint(db, new)
      /\ Fingerprint(db, new)[1] = new /\ Fingerprint(db, new)[2] = db.keys[new].epoch
      /\ Fingerprint(db, old)[1] = old
  BY DEF Transition, Fingerprint
<1>3. t \in sink.moves \/ fetch_scope_head = [seq |-> t.seq, signer |-> t.old, root |-> t.root]
  BY DEF MayTransit
<1>4. t.root = db.rotations[R].root
  BY DEF Transition
<1>5. sink'.batches = sink.batches /\ sink'.moves = sink.moves \cup {t}
      /\ sink' \in [batches : SUBSET [seq : Nat, body : BatchSet], moves : SUBSET MoveSet]
  BY <1>1 DEF SinkInv
<1>6. CASE t \in sink.moves
  <2>1. sink' = sink
    BY <1>6 DEF SinkInv
  <2>2. SinkInv'
    BY <2>1 DEF SinkInv, Size
  <2>3. Outside'
    <3> HIDE DEF R, old, new, t
    <3> QED
      BY <2>1 DEF Outside
  <2> QED
    BY <2>2, <2>3
<1>7. CASE t \notin sink.moves
  <2>1. PICK a \in sink.batches :
          /\ a.seq = db.rotations[R].last /\ a.seq + 1 = Size
          /\ a.body.signer = Fingerprint(db, old) /\ \A m \in sink.moves : m.seq # a.seq
    <3>1. fetch_scope_head = [seq |-> db.rotations[PendingRotation].last,
                               signer |-> Fingerprint(db, db.rotations[PendingRotation].old),
                               root |-> db.rotations[PendingRotation].root]
      BY <1>2, <1>3, <1>4, <1>7
    <3> QED
      BY <3>1, NothingBehind DEF Outside
  <2>2. Size \in Nat
    BY FS_CardinalityType DEF SinkInv, Size
  <2> HIDE DEF R, old, new, t
  <2>3. SinkInv'
    <3>1. Size' = Size
      BY <1>5 DEF Size
    <3>2. ASSUME NEW m \in sink'.moves
          PROVE  /\ m.old[1] < m.new[1]
                 /\ \E b \in sink'.batches : b.seq = m.seq /\ b.body.signer = m.old
      <4>1. CASE m = t
        BY <1>1, <1>2, <1>5, <2>1, <4>1
      <4>2. CASE m # t
        BY <1>5, <4>2 DEF SinkInv
      <4> QED
        BY <4>1, <4>2
    <3>3. \A m, o \in sink'.moves : m.seq = o.seq => m = o
      BY <1>2, <1>5, <2>1 DEF SinkInv
    <3>4. ASSUME NEW x \in sink'.batches, NEW b \in sink'.batches, b.seq = x.seq + 1
          PROVE  /\ b.body.prev = IF x.seq = 0 THEN {} ELSE x.body.leaves
                 /\ \A m \in sink'.moves : m.seq = x.seq => b.body.signer = m.new
                 /\ (\A m \in sink'.moves : m.seq # x.seq) => b.body.signer = x.body.signer
      <4>1. x.seq # t.seq
        <5>1. b.seq < Size /\ b.seq \in Nat /\ x.seq \in Nat
          BY <1>5 DEF SinkInv
        <5> QED
          BY <1>2, <2>1, <2>2, <3>4, <5>1
      <4> QED
        BY <1>5, <3>4, <4>1 DEF SinkInv
    <3>5. /\ IsFiniteSet(sink'.batches)
          /\ \A x \in sink'.batches : x.seq < Size' /\ x.body.signer[1] > 0
          /\ \A n \in 0..Size' - 1 : \E x \in sink'.batches : x.seq = n
          /\ \A x, y \in sink'.batches : x.seq = y.seq => x = y
      BY <1>5, <3>1 DEF SinkInv
    <3> QED
      BY <1>5, <3>2, <3>3, <3>4, <3>5 DEF SinkInv
  <2>4. ASSUME NEW x, LogInv(x), KnownBy(sink, x), Len(x.keys) <= Len(db.keys),
               \A k \in DOMAIN x.keys :
                 x.keys[k].epoch = db.keys[k].epoch /\ x.keys[k].from = db.keys[k].from
        PROVE  KnownBy(sink', x)
    <3>1. ASSUME NEW m \in sink'.moves, NEW k \in DOMAIN x.keys, m.new = Fingerprint(x, k)
          PROVE  x.keys[k].from = m.seq + 1
      <4>1. CASE m = t
        <5>1. k = new
          BY <1>2, <3>1, <4>1 DEF Fingerprint
        <5> QED
          BY <1>1, <1>2, <2>4, <4>1, <5>1
      <4>2. CASE m # t
        BY <1>5, <2>4, <3>1, <4>2 DEF KnownBy
      <4> QED
        BY <4>1, <4>2
    <3> QED
      BY <1>5, <2>4, <3>1 DEF KnownBy
  <2>5. KnownBy(sink', db)
    <3>1. KnownBy(sink, db) /\ Len(db.keys) <= Len(db.keys)
      BY DbFields DEF Outside, LogInv
    <3> QED
      BY <2>4, <3>1
  <2>6. EpochsBy(sink', db, epoch)
    <3>1. db.keys[new].epoch <= epoch /\ new <= Len(db.keys)
      BY <1>1, DbFields DEF Outside, EpochsBy, LogInv
    <3> QED
      BY <1>2, <1>5, <3>1 DEF Outside, EpochsBy
  <2>7. SnapshotsBy(saved, sink', db)
    <3>1. SnapshotsBy(saved, sink, db)
      BY DEF Outside
    <3> QED
      BY <2>4, <3>1 DEF SnapshotsBy
  <2>8. epoch = 0 => UnrestoredBy(sink', db)
    <3>1. epoch = 0 => UnrestoredBy(sink, db)
      BY DEF Outside
    <3>2. t = Transition(db, R)
      BY DEF t
    <3> QED
      BY <1>1, <1>5, <3>1, <3>2 DEF UnrestoredBy
  <2> QED
    BY <2>3, <2>5, <2>6, <2>7, <2>8 DEF Outside
<1> QED
  BY <1>6, <1>7

-----------------------------------------------------------------------------
(* The steps.                                                                *)
LEMMA OutsideWritten ==
    ASSUME LogInv(db), SinkInv, Outside, db' \in DbSet, Extends(db, db'),
           sink' = sink, saved' = saved, epoch' = epoch,
           \A k \in DOMAIN db'.keys : k \notin DOMAIN db.keys => db'.keys[k].epoch = epoch,
           db'.keys # <<>> /\ db'.keys[1].activated =>
             Anchor(0, Activation(db', 1)) \in sink.batches,
           \A r \in DOMAIN db'.rotations :
             db'.rotations[r].state = "FINALIZED" => Transition(db', r) \in sink.moves,
           epoch = 0 => \A r \in DOMAIN db.rotations :
             db'.rotations[r].state = "ABORTED" =>
               db.rotations[r].state = "ABORTED" \/ Transition(db, r) \notin sink.moves
    PROVE  SinkInv' /\ Outside'
<1>1. SinkInv'
  BY DEF SinkInv, Size
<1>2. sink.moves \subseteq MoveSet /\ \A a \in sink.batches : a.seq \in Nat
  BY DEF SinkInv
<1>3. KnownBy(sink, db) /\ EpochsBy(sink, db, epoch) /\ SnapshotsBy(saved, sink, db)
      /\ (epoch = 0 => UnrestoredBy(sink, db))
  BY DEF Outside
<1>4. KnownBy(sink, db') /\ EpochsBy(sink, db', epoch) /\ SnapshotsBy(saved, sink, db')
  BY <1>2, <1>3, KnownKept
<1>5. epoch = 0 => UnrestoredBy(sink, db')
  BY <1>2, <1>3, UnrestoredKept
<1> QED
  BY <1>1, <1>4, <1>5 DEF Outside

LEMMA OutsideAnchored ==
    ASSUME SinkInv, Outside, SinkInv', db' = db, saved' = saved, epoch' = epoch,
           sink'.moves = sink.moves, sink.batches \subseteq sink'.batches,
           epoch = 0 => \A a \in sink'.batches : a \in sink.batches \/ a.seq <= Len(db.batches)
    PROVE  Outside'
<1>1. KnownBy(sink, db) /\ EpochsBy(sink, db, epoch) /\ SnapshotsBy(saved, sink, db)
      /\ (epoch = 0 => UnrestoredBy(sink, db))
  BY DEF Outside
<1>2. KnownBy(sink', db) /\ EpochsBy(sink', db, epoch) /\ SnapshotsBy(saved, sink', db)
  BY <1>1, AnchorsGrow
<1>3. epoch = 0 => UnrestoredBy(sink', db)
  BY <1>1 DEF UnrestoredBy
<1> QED
  BY <1>2, <1>3 DEF Outside

(* Only rows are written.                                                    *)
LEMMA RowsWritten ==
    ASSUME AuditInv, db' \in DbSet, RowsGrow(db, db'),
           db'.keys = db.keys, db'.batches = db.batches, db'.rotations = db.rotations,
           UNCHANGED <<sink, step, saved, epoch>>
    PROVE  AuditInv'
<1>1. LogInv(db) /\ SinkInv /\ Outside /\ Lock
  BY DEF AuditInv
<1>2. LogInv(db')
  BY <1>1, LogGrows
<1>3. Extends(db, db')
  BY <1>1, DbFields DEF Extends, LogInv
<1>4. \A r \in DOMAIN db'.rotations : Transition(db', r) = Transition(db, r)
  BY <1>1, <1>3, TransitionKept
<1>5. Activation(db', 1) = Activation(db, 1)
  BY DEF Activation, Fingerprint
<1>6. /\ db.keys # <<>> /\ db.keys[1].activated => Anchor(0, Activation(db, 1)) \in sink.batches
      /\ \A r \in DOMAIN db.rotations :
            db.rotations[r].state = "FINALIZED" => Transition(db, r) \in sink.moves
  BY <1>1 DEF Outside, KnownBy
<1>7. SinkInv' /\ Outside'
  BY <1>1, <1>3, <1>4, <1>5, <1>6, OutsideWritten
<1>8. Lock'
  <2>1. /\ active_key(db') = active_key(db)
        /\ (ActivationAnchored(db))' <=> ActivationAnchored(db)
        /\ (Unanchored(db))' = Unanchored(db)
        /\ \A b \in DOMAIN db.batches : (Anchored(db, b))' <=> Anchored(db, b)
    BY <1>5 DEF active_key, ActiveKeys, ActivationAnchored, Unanchored, Anchored
  <2>2. PendingRotation' = PendingRotation
    BY <2>1 DEF PendingRotation
  <2>3. step = "published" =>
          PendingRotation' # None /\ Transition(db', PendingRotation') \in sink'.moves
    <3>1. SUFFICES ASSUME step = "published"
                   PROVE  PendingRotation' # None /\ Transition(db', PendingRotation') \in sink'.moves
      OBVIOUS
    <3>2. PendingRotation # None /\ Transition(db, PendingRotation) \in sink.moves /\ db.keys # <<>>
      BY <1>1, <3>1 DEF Lock
    <3>3. PendingRotation \in DOMAIN db.rotations
      BY <1>1, <3>2, RotationPending
    <3> QED
      BY <1>4, <2>2, <3>2, <3>3
  <2> QED
    BY <1>1, <2>1, <2>3 DEF Lock, Anchored
<1> QED
  BY <1>2, <1>7, <1>8 DEF AuditInv

LEMMA Typing ==
    ASSUME AuditInv
    PROVE  /\ db \in DbSet /\ epoch \in Nat
           /\ \A kept, mac \in BOOLEAN : Row(kept, mac) \in RowSet
BY DEF AuditInv, LogInv, Outside, EpochsBy, Row, RowSet

LEMMA RowAdded ==
    ASSUME NEW d \in DbSet, NEW row \in RowSet, NEW e, e = [d EXCEPT !.rows = Append(@, row)]
    PROVE  /\ e \in DbSet /\ RowsGrow(d, e)
           /\ e.keys = d.keys /\ e.batches = d.batches /\ e.rotations = d.rotations
<1>1. e = [d EXCEPT !.rows = Append(d.rows, row)]
  OBVIOUS
<1>2. e.rows = Append(d.rows, row) /\ e.keys = d.keys /\ e.batches = d.batches
      /\ e.rotations = d.rotations /\ Append(d.rows, row) \in Seq(RowSet)
  BY <1>1 DEF DbSet
<1>3. e \in DbSet
  BY <1>1, <1>2 DEF DbSet
<1>4. RowsGrow(d, e)
  <2>1. d.rows \in Seq(RowSet)
    BY DEF DbSet
  <2> QED
    BY <1>2, <2>1 DEF RowsGrow
<1> QED
  BY <1>2, <1>3, <1>4

LEMMA RecordKeeps == AuditInv /\ record => AuditInv'
<1> SUFFICES ASSUME AuditInv, record PROVE AuditInv'
  OBVIOUS
<1>1. PICK mac \in BOOLEAN : db' = [db EXCEPT !.rows = Append(@, Row(FALSE, mac))]
  BY DEF record
<1>2. db \in DbSet /\ Row(FALSE, mac) \in RowSet
  BY Typing
<1>3. /\ db' \in DbSet /\ RowsGrow(db, db')
      /\ db'.keys = db.keys /\ db'.batches = db.batches /\ db'.rotations = db.rotations
  BY <1>1, <1>2, RowAdded
<1>4. UNCHANGED <<sink, step, saved, epoch>>
  BY DEF record
<1> QED
  BY <1>3, <1>4, RowsWritten

LEMMA CommitKeeps == AuditInv /\ Commit => AuditInv'
<1> SUFFICES ASSUME AuditInv, Commit PROVE AuditInv'
  OBVIOUS
<1>1. PICK i \in DOMAIN db.rows : db' = [db EXCEPT !.rows[i].kept = TRUE]
  BY DEF Commit
<1>2. db \in DbSet /\ db.rows \in Seq(RowSet) /\ db.rows[i] \in RowSet
  BY Typing, DbFields DEF DbSet
<1> DEFINE x == [db.rows[i] EXCEPT !.kept = TRUE]
           f == [db.rows EXCEPT ![i] = x]
<1>3. x \in RowSet /\ x.kept = TRUE /\ x.mac = db.rows[i].mac /\ x.epoch = db.rows[i].epoch
  BY <1>2 DEF RowSet
<1>4. f \in Seq(RowSet) /\ Len(f) = Len(db.rows)
      /\ \A j \in DOMAIN db.rows : f[j] = IF j = i THEN x ELSE db.rows[j]
  <2> HIDE DEF x
  <2> QED
    BY <1>2, <1>3
<1>5. db' = [db EXCEPT !.rows = f]
  BY <1>1
<1> HIDE DEF f, x
<1>6. /\ db' \in DbSet /\ db'.rows = f
      /\ db'.keys = db.keys /\ db'.batches = db.batches /\ db'.rotations = db.rotations
  BY <1>2, <1>4, <1>5 DEF DbSet
<1>7. RowsGrow(db, db')
  <2>1. \A j \in DOMAIN db.rows :
          f[j].mac = db.rows[j].mac /\ f[j].epoch = db.rows[j].epoch
          /\ (db.rows[j].kept => f[j].kept)
    BY <1>3, <1>4
  <2>2. Len(db.rows) \in Nat
    BY <1>2
  <2> QED
    BY <1>4, <1>6, <2>1, <2>2 DEF RowsGrow
<1>8. UNCHANGED <<sink, step, saved, epoch>>
  BY DEF Commit
<1> QED
  BY <1>6, <1>7, <1>8, RowsWritten

LEMMA NothingWritten ==
    ASSUME AuditInv, db' = db, sink' = sink, saved' = saved, epoch' = epoch
    PROVE  LogInv(db') /\ SinkInv' /\ Outside'
BY DEF AuditInv, SinkInv, Size, Outside

LEMMA ProvisionKeeps == AuditInv /\ provision_signing_key => AuditInv'
<1> SUFFICES ASSUME AuditInv, provision_signing_key PROVE AuditInv'
  OBVIOUS
<1>1. /\ LogInv(db) /\ SinkInv /\ Outside /\ step' = "activate"
      /\ sink' = sink /\ saved' = saved /\ epoch' = epoch
  BY DEF AuditInv, provision_signing_key
<1>2. CASE ActiveKeys(db) # {}
  <2>1. db' = db
    BY <1>2 DEF provision_signing_key
  <2>2. db.keys # <<>>
    BY <1>2 DEF ActiveKeys
  <2> QED
    BY <1>1, <2>1, <2>2, NothingWritten DEF AuditInv, Lock
<1>3. CASE ActiveKeys(db) = {}
  <2> DEFINE new == Key(0, TRUE, {RowId(db, i) : i \in Visible(db)})
  <2>1. db.keys = <<>>
    BY <1>1, <1>3 DEF LogInv, KeysHeld
  <2>2. db' = [db EXCEPT !.keys = Append(db.keys, new)]
    BY <1>3 DEF provision_signing_key
  <2>3. new \in KeySet /\ new.activated = FALSE /\ new.epoch = epoch
    <3>1. {RowId(db, i) : i \in Visible(db)} \in SUBSET Ids
      <4>1. \A i \in DOMAIN db.rows : i \in Nat /\ db.rows[i].epoch \in Nat
        BY <1>1, DbFields DEF LogInv, RowSet
      <4> QED
        BY <4>1 DEF RowId, Ids, Visible
    <3>2. epoch \in Nat
      BY Typing
    <3> QED
      BY <3>1, <3>2 DEF Key, KeySet, Open, None
  <2> HIDE DEF new
  <2>4. /\ db'.keys = <<new>> /\ db'.rows = db.rows /\ db'.batches = db.batches
        /\ db'.rotations = db.rotations
    BY <1>1, <2>1, <2>2 DEF LogInv, DbSet
  <2>5. db' \in DbSet
    <3>1. Append(db.keys, new) \in Seq(KeySet)
      BY <1>1, <2>3 DEF LogInv, DbSet
    <3> QED
      BY <1>1, <2>2, <3>1 DEF LogInv, DbSet
  <2>6. LogInv(db')
    <3>1. new = [from |-> 0, to |-> Open, active |-> TRUE, live |-> TRUE,
                 activated |-> FALSE, pending |-> None,
                 genesis |-> {RowId(db, i) : i \in Visible(db)}, epoch |-> epoch]
      BY DEF new, Key
    <3> QED
      BY <1>1, <2>1, <2>4, <2>5, <3>1, LogProvisioned
  <2>7. DOMAIN db.rotations = {}
    BY <1>1, <2>1 DEF LogInv, RotationsKept, RotationSays
  <2>8. Extends(db, db')
    BY <1>1, <2>1, <2>4, <2>7, DbFields DEF Extends, LogInv
  <2>9. /\ db'.keys[1].activated = FALSE /\ DOMAIN db'.rotations = {}
        /\ \A k \in DOMAIN db'.keys : db'.keys[k].epoch = epoch
    BY <2>3, <2>4, <2>7
  <2>10. SinkInv' /\ Outside'
    BY <1>1, <2>5, <2>7, <2>8, <2>9, OutsideWritten
  <2>11. Lock'
    BY <1>1, <2>4 DEF Lock
  <2> QED
    BY <2>6, <2>10, <2>11 DEF AuditInv
<1> QED
  BY <1>2, <1>3

LEMMA ActivateKeeps == AuditInv /\ activate_scope => AuditInv'
<1> SUFFICES ASSUME AuditInv, activate_scope PROVE AuditInv'
  OBVIOUS
<1> DEFINE k == active_key(db)
           valid == /\ validate_genesis_database(db, db.keys[k])
                    /\ MayPublish(0, Activation(db, k))
<1>1. /\ LogInv(db) /\ SinkInv /\ Outside /\ Lock /\ step = "activate"
      /\ db' = db /\ saved' = saved /\ epoch' = epoch
  BY DEF AuditInv, activate_scope
<1>2. db.keys # <<>> /\ k \in DOMAIN db.keys /\ k \in Nat /\ k >= 1
  BY <1>1, KeyHolder, DbFields DEF Lock, LogInv
<1>3. IF k > 1
      THEN Proceed(db.keys[k].activated, "synchronize") /\ UNCHANGED sink
      ELSE Proceed(valid, "mark") /\ sink' = IF valid THEN Published(0, Activation(db, k)) ELSE sink
  BY Zenon DEF activate_scope
<1> HIDE DEF k, valid
<1>4. CASE k > 1
  <2>1. sink' = sink /\ step' \in {"synchronize", "idle"}
    BY <1>3, <1>4 DEF Proceed
  <2> QED
    BY <1>1, <1>2, <2>1, NothingWritten DEF AuditInv, Lock
<1>5. CASE ~(k > 1) /\ ~valid
  <2>1. sink' = sink /\ step' = "idle"
    BY <1>3, <1>5 DEF Proceed
  <2> QED
    BY <1>1, <1>2, <2>1, NothingWritten DEF AuditInv, Lock
<1>6. CASE ~(k > 1) /\ valid
  <2>1. k = 1 /\ sink' = Published(0, Activation(db, 1)) /\ step' = "mark"
    BY <1>2, <1>3, <1>6 DEF Proceed
  <2>2. MayPublish(0, Activation(db, 1))
    BY <1>6, <2>1 DEF valid
  <2>3. Activation(db, 1) \in BatchSet /\ Activation(db, 1).signer[1] > 0
    <3>1. db.keys[1] \in KeySet
      BY <1>1, <1>2, <2>1, DbFields DEF LogInv
    <3> QED
      BY <3>1 DEF Activation, Fingerprint, BatchSet, KeySet, Ids
  <2>4. \A a \in sink.batches : a.seq \in Nat
    BY <1>1 DEF SinkInv
  <2>5. /\ SinkInv' /\ sink'.moves = sink.moves
        /\ sink'.batches = sink.batches \cup {Anchor(0, Activation(db, 1))}
    <3>1. \A a \in sink.batches : 0 # a.seq + 1
      BY <2>4
    <3> QED
      BY <1>1, <2>1, <2>2, <2>3, <3>1, AnchorAdded
  <2>6. \A a \in sink'.batches : a \in sink.batches \/ a.seq <= Len(db.batches)
    BY <1>1, <2>5, DbFields DEF Anchor, LogInv
  <2>7. Outside'
    BY <1>1, <2>5, <2>6, OutsideAnchored
  <2>8. Lock'
    BY <1>1, <1>2, <2>1, <2>5 DEF Lock, ActivationAnchored, k
  <2> QED
    BY <1>1, <2>5, <2>7, <2>8 DEF AuditInv
<1> QED
  BY <1>4, <1>5, <1>6

LEMMA KeyActivated ==
    ASSUME NEW K \in Seq(KeySet), NEW k \in DOMAIN K
    PROVE  [K EXCEPT ![k].activated = TRUE] \in Seq(KeySet)
<1>1. K[k] \in KeySet
  OBVIOUS
<1>2. [K[k] EXCEPT !.activated = TRUE] \in KeySet
  BY <1>1 DEF KeySet
<1>3. ASSUME NEW x \in KeySet PROVE [K EXCEPT ![k] = x] \in Seq(KeySet)
  OBVIOUS
<1> QED
  BY <1>2, <1>3

LEMMA MarkKeeps == AuditInv /\ MarkActivated => AuditInv'
<1> SUFFICES ASSUME AuditInv, MarkActivated PROVE AuditInv'
  OBVIOUS
<1>1. /\ LogInv(db) /\ SinkInv /\ Outside /\ Lock /\ step = "mark" /\ step' = "synchronize"
      /\ sink' = sink /\ saved' = saved /\ epoch' = epoch
  BY DEF AuditInv, MarkActivated
<1>2. active_key(db) = 1 /\ ActivationAnchored(db) /\ db.keys # <<>> /\ 1 \in DOMAIN db.keys
  BY <1>1, KeyHolder DEF Lock
<1>3. db' = [db EXCEPT !.keys = [db.keys EXCEPT ![1].activated = TRUE]]
  BY <1>2 DEF MarkActivated
<1>4. db.keys \in Seq(KeySet) /\ [db.keys EXCEPT ![1].activated = TRUE] \in Seq(KeySet)
  BY <1>1, <1>2, KeyActivated DEF LogInv, DbSet
<1>5. /\ db' \in DbSet /\ db'.rows = db.rows /\ db'.batches = db.batches
      /\ db'.rotations = db.rotations /\ db'.keys = [db.keys EXCEPT ![1].activated = TRUE]
  BY <1>1, <1>3, <1>4 DEF LogInv, DbSet
<1>6. LogInv(db')
  BY <1>1, <1>2, <1>5, LogMarked
<1>7. /\ DOMAIN db'.keys = DOMAIN db.keys
      /\ \A k \in DOMAIN db.keys :
           /\ db'.keys[k].epoch = db.keys[k].epoch /\ db'.keys[k].from = db.keys[k].from
           /\ db'.keys[k].genesis = db.keys[k].genesis
  <2>1. \A k \in DOMAIN db.keys : db.keys[k] \in KeySet
    BY <1>4
  <2> QED
    BY <1>5, <2>1 DEF KeySet
<1>8. Extends(db, db')
  BY <1>1, <1>5, <1>6, <1>7, DbFields DEF Extends, LogInv
<1>9. \A r \in DOMAIN db.rotations : Transition(db', r) = Transition(db, r)
  BY <1>1, <1>8, TransitionKept
<1>10. Activation(db', 1) = Activation(db, 1)
  BY <1>2, <1>7 DEF Activation, Fingerprint
<1>11. /\ Anchor(0, Activation(db', 1)) \in sink.batches
       /\ \A r \in DOMAIN db.rotations :
            db.rotations[r].state = "FINALIZED" => Transition(db, r) \in sink.moves
  BY <1>1, <1>2, <1>10 DEF Outside, KnownBy, ActivationAnchored
<1>12. SinkInv' /\ Outside'
  BY <1>1, <1>5, <1>7, <1>8, <1>9, <1>11, OutsideWritten
<1>13. Lock'
  BY <1>1, <1>2, <1>7, DbFields DEF Lock
<1> QED
  BY <1>6, <1>12, <1>13 DEF AuditInv

(* What is published from the log continues what is outside.                 *)
LEMMA BatchAnchored ==
    ASSUME LogInv(db), SinkInv, Outside, NEW b \in DOMAIN db.batches,
           b > 1 => Anchored(db, b - 1), MayPublish(b, db.batches[b]),
           sink' = Published(b, db.batches[b]), db' = db, saved' = saved, epoch' = epoch
    PROVE  SinkInv' /\ Outside' /\ sink'.batches = sink.batches \cup {Anchor(b, db.batches[b])}
<1>1. b \in Nat /\ b >= 1 /\ b <= Len(db.batches) /\ db.batches[b] \in BatchSet
  BY DbFields DEF LogInv
<1>2. db.batches[b].signer[1] > 0
  <2>1. PICK k \in DOMAIN db.keys : db.batches[b].signer = Fingerprint(db, k)
    BY DEF LogInv, Signed
  <2>2. k > 0
    BY DbFields DEF LogInv
  <2> QED
    BY <2>1, <2>2 DEF Fingerprint
<1>3. ASSUME NEW a \in sink.batches, b = a.seq + 1
      PROVE  db.batches[b].prev = IF a.seq = 0 THEN {} ELSE a.body.leaves
  <2>1. a.seq \in Nat /\ a.seq = b - 1
    BY <1>3 DEF SinkInv
  <2>2. db.batches[b].prev = RootAt(db, b - 1)
    BY DEF LogInv, RowsSealed
  <2>3. CASE b = 1
    BY <2>1, <2>2, <2>3 DEF RootAt
  <2>4. CASE b # 1
    <3>1. Anchor(b - 1, db.batches[b - 1]) \in sink.batches
      BY <1>1, <2>4 DEF Anchored
    <3>2. a = Anchor(b - 1, db.batches[b - 1])
      BY <2>1, <3>1 DEF SinkInv, Anchor
    <3> QED
      BY <1>1, <2>1, <2>2, <2>4, <3>2 DEF RootAt, Anchor
  <2> QED
    BY <2>3, <2>4
<1>4. /\ SinkInv' /\ sink'.moves = sink.moves
      /\ sink'.batches = sink.batches \cup {Anchor(b, db.batches[b])}
  BY <1>1, <1>2, <1>3, AnchorAdded
<1>5. \A a \in sink'.batches : a \in sink.batches \/ a.seq <= Len(db.batches)
  BY <1>1, <1>4 DEF Anchor
<1> QED
  BY <1>4, <1>5, OutsideAnchored

LEMMA LeastNumber ==
    ASSUME NEW U \in SUBSET Nat, U # {}
    PROVE  \E b \in U : \A o \in U : b <= o
<1>1. \E R : /\ \E b \in U : \A o \in U : ~(<<o, b>> \in R)
             /\ \A o, b \in U : <<o, b>> \in R <=> o < b
  <2>1. \E b \in U : \A o \in U : ~(<<o, b>> \in OpToRel(<, Nat))
    BY NatLessThanWellFounded, WFMin
  <2>2. \A o, b \in U : <<o, b>> \in OpToRel(<, Nat) <=> o < b
    BY DEF OpToRel
  <2> QED
    BY <2>1, <2>2, Zenon
<1>2. PICK b \in U : \A o \in U : ~(o < b)
  BY <1>1, Zenon
<1>3. \A o \in U : b <= o
  BY <1>2
<1> QED
  BY <1>3

LEMMA SynchronizeKeeps == AuditInv /\ synchronize_anchors => AuditInv'
<1> SUFFICES ASSUME AuditInv, synchronize_anchors PROVE AuditInv'
  OBVIOUS
<1> DEFINE sound == /\ ActivationAnchored(db)
                    /\ TransitionsAnchored(db)
                    /\ \A b \in DOMAIN db.batches : Verifies(db, b)
           next == CHOOSE b \in Unanchored(db) : \A o \in Unanchored(db) : b <= o
           publishes == sound /\ Unanchored(db) # {} /\ MayPublish(next, db.batches[next])
<1>1. /\ LogInv(db) /\ SinkInv /\ Outside /\ Lock /\ step = "synchronize"
      /\ db' = db /\ saved' = saved /\ epoch' = epoch
  BY DEF AuditInv, synchronize_anchors
<1>2. /\ sink' = IF publishes THEN Published(next, db.batches[next]) ELSE sink
      /\ IF publishes THEN UNCHANGED step ELSE Proceed(sound /\ Unanchored(db) = {}, "seal")
  BY Zenon DEF synchronize_anchors
<1> HIDE DEF sound, publishes
<1>3. CASE ~publishes
  <2>1. sink' = sink /\ (step' = "idle" \/ (step' = "seal" /\ Unanchored(db) = {}))
    BY <1>2, <1>3 DEF Proceed
  <2>2. (Unanchored(db))' = Unanchored(db)
    BY <1>1, <2>1 DEF Unanchored, Anchored
  <2>3. Lock'
    BY <1>1, <2>1, <2>2 DEF Lock
  <2> QED
    BY <1>1, <2>1, <2>3, NothingWritten DEF AuditInv
<1>4. CASE publishes
  <2>1. Unanchored(db) # {} /\ MayPublish(next, db.batches[next])
    BY <1>4 DEF publishes
  <2>2. Unanchored(db) \subseteq 1..Len(db.batches)
    BY <1>1, DbFields DEF Unanchored, LogInv
  <2>3. \A U \in SUBSET Nat : U # {} => \E b \in U : \A o \in U : b <= o
    BY LeastNumber
  <2>4. next \in Unanchored(db) /\ \A o \in Unanchored(db) : next <= o
    BY <2>1, <2>2, <2>3
  <2> HIDE DEF next
  <2>5. next \in DOMAIN db.batches /\ (next > 1 => Anchored(db, next - 1))
    <3>1. next \in DOMAIN db.batches /\ DOMAIN db.batches = 1..Len(db.batches)
          /\ Len(db.batches) \in Nat
      BY <1>1, <2>4, DbFields DEF Unanchored, LogInv
    <3>2. ASSUME next > 1, ~Anchored(db, next - 1) PROVE FALSE
      <4>1. next - 1 \in Unanchored(db)
        BY <3>1, <3>2 DEF Unanchored
      <4> QED
        BY <2>4, <3>1, <4>1
    <3> QED
      BY <3>1, <3>2
  <2>6. SinkInv' /\ Outside'
    BY <1>1, <1>2, <1>4, <2>1, <2>5, BatchAnchored
  <2>7. Lock'
    BY <1>1, <1>2, <1>4 DEF Lock
  <2> QED
    BY <1>1, <2>6, <2>7 DEF AuditInv
<1> QED
  BY <1>3, <1>4

LEMMA BatchAppended ==
    ASSUME NEW d \in DbSet, NEW x \in BatchSet, NEW e, e = [d EXCEPT !.batches = Append(@, x)]
    PROVE  /\ e \in DbSet /\ e.batches = Append(d.batches, x) /\ e.rows = d.rows
           /\ e.keys = d.keys /\ e.rotations = d.rotations
<1>1. Append(d.batches, x) \in Seq(BatchSet)
  BY DEF DbSet
<1>2. e = [d EXCEPT !.batches = Append(d.batches, x)]
  OBVIOUS
<1> QED
  BY <1>1, <1>2 DEF DbSet

LEMMA SealKeeps == AuditInv /\ seal_scope => AuditInv'
<1> SUFFICES ASSUME AuditInv, seal_scope PROVE AuditInv'
  OBVIOUS
<1> DEFINE k == active_key(db)
           head == scope_head(db)
           seals == /\ db.keys[k].pending = None
                    /\ Sealable(db) # {}
                    /\ key_authorizes_sequence(db.keys[k], head.seq + 1)
           new == [leaves |-> {RowId(db, i) : i \in Sealable(db)},
                   prev |-> head.root, signer |-> Fingerprint(db, k), epoch |-> epoch]
<1>1. /\ LogInv(db) /\ SinkInv /\ Outside /\ Lock /\ step = "seal"
      /\ sink' = sink /\ saved' = saved /\ epoch' = epoch
  BY DEF AuditInv, seal_scope
<1>2. Proceed(seals, "publish") /\ db' = IF seals THEN [db EXCEPT !.batches = Append(@, new)] ELSE db
  BY Zenon DEF seal_scope
<1>3. /\ db.keys # <<>> /\ k \in DOMAIN db.keys /\ db.keys[k].active /\ k \in Nat
      /\ Unanchored(db) = {} /\ db \in DbSet /\ epoch \in Nat
  BY <1>1, KeyHolder, DbFields, Typing DEF Lock, LogInv
<1>4. head.seq = Len(db.batches) /\ head.root = RootAt(db, Len(db.batches))
  BY <1>3, HeadOfLog
<1> HIDE DEF k, head, seals
<1>5. CASE ~seals
  <2>1. db' = db /\ step' = "idle"
    BY <1>2, <1>5 DEF Proceed
  <2> QED
    BY <1>1, <2>1, NothingWritten DEF AuditInv, Lock
<1>6. CASE seals
  <2>1. /\ db.keys[k].pending = None /\ key_authorizes_sequence(db.keys[k], Len(db.batches) + 1)
        /\ step' = "publish" /\ db' = [db EXCEPT !.batches = Append(@, new)]
    BY <1>2, <1>4, <1>6 DEF Proceed, seals
  <2>2. /\ new.leaves = {RowId(db, i) : i \in Sealable(db)}
        /\ new.prev = RootAt(db, Len(db.batches)) /\ new.signer = Fingerprint(db, k)
    BY <1>4
  <2>3. new \in BatchSet
    <3>1. {RowId(db, i) : i \in Sealable(db)} \in SUBSET Ids
      <4>1. \A i \in DOMAIN db.rows : i \in Nat /\ db.rows[i].epoch \in Nat
        BY <1>3, DbFields DEF RowSet
      <4> QED
        <5>1. Sealable(db) \subseteq DOMAIN db.rows
          BY DEF Sealable, Visible
        <5> QED
          BY <4>1, <5>1 DEF RowId, Ids
    <3>2. RootAt(db, Len(db.batches)) \in SUBSET Ids
      <4>1. \A b \in DOMAIN db.batches : db.batches[b].leaves \in SUBSET Ids
        BY <1>3, DbFields DEF BatchSet
      <4>2. Len(db.batches) # 0 => Len(db.batches) \in DOMAIN db.batches
        BY <1>3, DbFields
      <4> QED
        BY <4>1, <4>2 DEF RootAt
    <3>3. Fingerprint(db, k) \in Ids
      BY <1>3, DbFields DEF Fingerprint, Ids
    <3> QED
      BY <1>3, <1>4, <3>1, <3>2, <3>3 DEF BatchSet
  <2> HIDE DEF new
  <2>4. /\ db' \in DbSet /\ db'.batches = Append(db.batches, new) /\ db'.rows = db.rows
        /\ db'.keys = db.keys /\ db'.rotations = db.rotations
    BY <1>3, <2>1, <2>3, BatchAppended
  <2>5. LogInv(db')
    BY <1>1, <1>3, <2>1, <2>2, <2>3, <2>4, LogSealed
  <2>6. /\ db.batches \in Seq(BatchSet) /\ Len(db'.batches) = Len(db.batches) + 1
        /\ Len(db.batches) \in Nat
    BY <1>3, <2>3, <2>4 DEF DbSet
  <2>7. Extends(db, db')
    BY <1>3, <2>4, <2>6, DbFields DEF Extends
  <2>8. \A r \in DOMAIN db'.rotations : Transition(db', r) = Transition(db, r)
    BY <1>1, <2>4, <2>7, TransitionKept
  <2>9. Activation(db', 1) = Activation(db, 1)
    BY <2>4 DEF Activation, Fingerprint
  <2>10. /\ db.keys # <<>> /\ db.keys[1].activated => Anchor(0, Activation(db, 1)) \in sink.batches
         /\ \A r \in DOMAIN db.rotations :
              db.rotations[r].state = "FINALIZED" => Transition(db, r) \in sink.moves
    BY <1>1 DEF Outside, KnownBy
  <2>11. SinkInv' /\ Outside'
    BY <1>1, <2>4, <2>7, <2>8, <2>9, <2>10, OutsideWritten
  <2>12. ASSUME NEW b \in DOMAIN db'.batches, b < Len(db'.batches) PROVE (Anchored(db, b))'
    <3>1. b \in DOMAIN db.batches /\ db'.batches[b] = db.batches[b]
      BY <2>3, <2>4, <2>6, <2>12
    <3>2. Anchored(db, b)
      BY <1>3, <3>1 DEF Unanchored
    <3> QED
      BY <1>1, <3>1, <3>2 DEF Anchored
  <2>13. Lock'
    <3>1. db'.keys # <<>> /\ db'.batches # <<>>
      BY <1>3, <2>4, <2>6
    <3> QED
      BY <2>1, <2>12, <3>1 DEF Lock
  <2> QED
    BY <2>5, <2>11, <2>13 DEF AuditInv
<1> QED
  BY <1>5, <1>6

LEMMA AnchorBatchKeeps == AuditInv /\ AnchorBatch => AuditInv'
<1> SUFFICES ASSUME AuditInv, AnchorBatch PROVE AuditInv'
  OBVIOUS
<1> DEFINE b == Len(db.batches)
           valid == Verifies(db, b) /\ MayPublish(b, db.batches[b])
<1>1. /\ LogInv(db) /\ SinkInv /\ Outside /\ Lock /\ step = "publish" /\ step' = "idle"
      /\ db' = db /\ saved' = saved /\ epoch' = epoch
      /\ sink' = IF valid THEN Published(b, db.batches[b]) ELSE sink
  BY DEF AuditInv, AnchorBatch
<1>2. Lock'
  BY <1>1 DEF Lock
<1> HIDE DEF valid
<1>3. CASE ~valid
  <2>1. sink' = sink
    BY <1>1, <1>3
  <2> QED
    BY <1>1, <1>2, <2>1, NothingWritten DEF AuditInv
<1>4. CASE valid
  <2>1. MayPublish(b, db.batches[b]) /\ sink' = Published(b, db.batches[b])
    BY <1>1, <1>4 DEF valid
  <2>2. b \in DOMAIN db.batches /\ (b > 1 => Anchored(db, b - 1))
    <3>1. /\ db.batches # <<>> /\ \A c \in DOMAIN db.batches : c < b => Anchored(db, c)
          /\ DOMAIN db.batches = 1..b /\ b \in Nat
      BY <1>1, DbFields DEF Lock, LogInv
    <3>2. b # 0
      BY <1>1, <3>1 DEF LogInv, DbSet
    <3> QED
      BY <3>1, <3>2
  <2> HIDE DEF b
  <2>3. SinkInv' /\ Outside'
    BY <1>1, <2>1, <2>2, BatchAnchored
  <2> QED
    BY <1>1, <1>2, <2>3 DEF AuditInv
<1> QED
  BY <1>3, <1>4

Rewriting(d, K, Q) == [d EXCEPT !.keys = K, !.rotations = Q]

LEMMA Rewritten ==
    ASSUME NEW d \in DbSet, NEW K \in Seq(KeySet), NEW Q \in Seq(RotationSet), NEW e,
           e = Rewriting(d, K, Q)
    PROVE  /\ e \in DbSet /\ e.keys = K /\ e.rotations = Q
           /\ e.rows = d.rows /\ e.batches = d.batches
BY DEF DbSet, Rewriting

LEMMA RowLogged ==
    ASSUME AuditInv, NEW d \in DbSet, d.rows = db.rows, NEW e, e = Append_row(d)
    PROVE  /\ e \in DbSet /\ RowsGrow(db, e)
           /\ e.keys = d.keys /\ e.batches = d.batches /\ e.rotations = d.rotations
<1>1. e = [d EXCEPT !.rows = Append(@, Row(TRUE, TRUE))] /\ Row(TRUE, TRUE) \in RowSet
  BY Typing DEF Append_row
<1>2. /\ e \in DbSet /\ RowsGrow(d, e)
      /\ e.keys = d.keys /\ e.batches = d.batches /\ e.rotations = d.rotations
  BY <1>1, RowAdded
<1> QED
  BY <1>2 DEF RowsGrow

LEMMA NewKey ==
    ASSUME AuditInv, NEW n \in Nat
    PROVE  Key(n, FALSE, {}) \in KeySet /\ Key(n, FALSE, {}).epoch = epoch
BY Typing DEF Key, KeySet, Open, None

Preparing(d, k, p, x, y) ==
  [d EXCEPT !.keys = Append([@ EXCEPT ![k].pending = p], x), !.rotations = Append(@, y)]

LEMMA Prepared ==
    ASSUME NEW d \in DbSet, NEW k \in DOMAIN d.keys, NEW x \in KeySet, NEW y \in RotationSet,
           NEW p \in Nat, NEW e, e = Preparing(d, k, p, x, y)
    PROVE  /\ e \in DbSet /\ e.rows = d.rows /\ e.batches = d.batches
           /\ e.keys = Append([d.keys EXCEPT ![k].pending = p], x)
           /\ e.rotations = Append(d.rotations, y)
           /\ Len(e.keys) = Len(d.keys) + 1 /\ e.keys[Len(d.keys) + 1] = x
           /\ DOMAIN e.keys = 1..(Len(d.keys) + 1)
           /\ \A j \in DOMAIN d.keys :
                /\ e.keys[j].epoch = d.keys[j].epoch /\ e.keys[j].from = d.keys[j].from
                /\ e.keys[j].genesis = d.keys[j].genesis
                /\ e.keys[j].activated = d.keys[j].activated
<1>1. d.keys \in Seq(KeySet) /\ d.rotations \in Seq(RotationSet)
  BY DEF DbSet
<1> DEFINE f == [d.keys EXCEPT ![k].pending = p]
<1>2. /\ f \in Seq(KeySet) /\ Len(f) = Len(d.keys)
      /\ \A j \in DOMAIN d.keys :
           /\ f[j].epoch = d.keys[j].epoch /\ f[j].from = d.keys[j].from
           /\ f[j].genesis = d.keys[j].genesis
           /\ f[j].activated = d.keys[j].activated
  BY <1>1, KeyPending
<1>3. e = [d EXCEPT !.keys = Append(f, x), !.rotations = Append(d.rotations, y)]
  BY DEF Preparing
<1>9. f = [d.keys EXCEPT ![k].pending = p]
  OBVIOUS
<1> HIDE DEF f
<1>4. Append(f, x) \in Seq(KeySet) /\ Append(d.rotations, y) \in Seq(RotationSet)
  BY <1>1, <1>2
<1>5. /\ e \in DbSet /\ e.rows = d.rows /\ e.batches = d.batches
      /\ e.keys = Append(f, x) /\ e.rotations = Append(d.rotations, y)
  BY <1>3, <1>4 DEF DbSet
<1>6. ASSUME NEW K \in Seq(KeySet), Len(K) = Len(d.keys)
        PROVE  /\ Len(Append(K, x)) = Len(d.keys) + 1 /\ Append(K, x)[Len(d.keys) + 1] = x
               /\ DOMAIN Append(K, x) = 1..(Len(d.keys) + 1)
               /\ \A j \in DOMAIN d.keys : Append(K, x)[j] = K[j]
  BY <1>1, <1>6
<1>7. /\ Len(e.keys) = Len(d.keys) + 1 /\ e.keys[Len(d.keys) + 1] = x
      /\ DOMAIN e.keys = 1..(Len(d.keys) + 1)
      /\ \A j \in DOMAIN d.keys : e.keys[j] = f[j]
  BY <1>2, <1>5, <1>6
<1>8. ASSUME NEW j \in DOMAIN d.keys
      PROVE  /\ e.keys[j].epoch = d.keys[j].epoch /\ e.keys[j].from = d.keys[j].from
             /\ e.keys[j].genesis = d.keys[j].genesis
             /\ e.keys[j].activated = d.keys[j].activated
  <2>1. e.keys[j] = f[j]
    BY <1>7
  <2>2. /\ f[j].epoch = d.keys[j].epoch /\ f[j].from = d.keys[j].from
        /\ f[j].genesis = d.keys[j].genesis
        /\ f[j].activated = d.keys[j].activated
    BY <1>2
  <2> QED
    BY <2>1, <2>2, Zenon
<1> QED
  BY <1>5, <1>7, <1>8, <1>9

LEMMA PrepareKeeps == AuditInv /\ prepare_rotation => AuditInv'
<1> SUFFICES ASSUME AuditInv, prepare_rotation PROVE AuditInv'
  OBVIOUS
<1> DEFINE k == active_key(db)
           head == scope_head(db)
           new == Len(db.keys) + 1
           y == [old |-> k, new |-> new, last |-> head.seq,
                 root |-> head.root, state |-> "PREPARED"]
           x == Key(head.seq + 1, FALSE, {})
           prepared == [db EXCEPT
                          !.keys = Append([@ EXCEPT ![k].pending = Len(db.rotations) + 1], x),
                          !.rotations = Append(@, y)]
<1>1. /\ LogInv(db) /\ SinkInv /\ Outside /\ Lock /\ db \in DbSet
      /\ step = "idle" /\ step' = step
      /\ sink' = sink /\ saved' = saved /\ epoch' = epoch /\ epoch \in Nat
  BY Typing DEF AuditInv, prepare_rotation, Idle
<1>2. ActiveKeys(db) # {} /\ PendingRotation = None
  BY Zenon DEF prepare_rotation, Idle
<1>3. (k > 1 => head.seq >= db.keys[k].from) /\ db' = Append_row(prepared)
  BY Zenon DEF prepare_rotation
<1>4. db.keys # <<>> /\ k \in DOMAIN db.keys /\ db.keys[k].active /\ db.keys[k].pending = None
  BY <1>1, <1>2, KeyHolder DEF ActiveKeys, PendingRotation
<1>5. head.seq = Len(db.batches) /\ head.root = RootAt(db, Len(db.batches))
  BY <1>1, HeadOfLog
<1>6. /\ Len(db.batches) \in Nat /\ Len(db.keys) \in Nat /\ k \in Nat
      /\ DOMAIN db.keys = 1..Len(db.keys) /\ db.keys[k].from \in Nat
      /\ DOMAIN db.rotations = 1..Len(db.rotations) /\ Len(db.rotations) \in Nat
  BY <1>1, <1>4, DbFields
<1> HIDE DEF k, head
<1>7. x \in KeySet /\ x.epoch = epoch
  <2>1. head.seq + 1 \in Nat
    BY <1>5, <1>6
  <2> QED
    BY <1>1, <2>1, NewKey
<1>8. y \in RotationSet
  <2>1. RootAt(db, Len(db.batches)) \in SUBSET Ids
      <3>1. \A b \in DOMAIN db.batches : db.batches[b].leaves \in SUBSET Ids
        BY <1>1, DbFields DEF BatchSet
      <3>2. Len(db.batches) # 0 => Len(db.batches) \in DOMAIN db.batches
        BY <1>1, DbFields
      <3> QED
        BY <3>1, <3>2 DEF RootAt
  <2> QED
    BY <1>5, <1>6, <2>1 DEF RotationSet
<1>9. /\ x = [from |-> Len(db.batches) + 1, to |-> Open, active |-> FALSE,
              live |-> TRUE, activated |-> FALSE, pending |-> None,
              genesis |-> {}, epoch |-> epoch]
      /\ y = [old |-> k, new |-> Len(db.keys) + 1, last |-> Len(db.batches),
              root |-> RootAt(db, Len(db.batches)), state |-> "PREPARED"]
  BY <1>5 DEF Key
<1> HIDE DEF x, y, new
<1>10. /\ prepared \in DbSet /\ prepared.rows = db.rows /\ prepared.batches = db.batches
       /\ prepared.keys = Append([db.keys EXCEPT ![k].pending = Len(db.rotations) + 1], x)
       /\ prepared.rotations = Append(db.rotations, y)
       /\ Len(prepared.keys) = Len(db.keys) + 1 /\ prepared.keys[Len(db.keys) + 1] = x
       /\ DOMAIN prepared.keys = 1..(Len(db.keys) + 1)
       /\ \A j \in DOMAIN db.keys :
            /\ prepared.keys[j].epoch = db.keys[j].epoch
            /\ prepared.keys[j].from = db.keys[j].from
            /\ prepared.keys[j].genesis = db.keys[j].genesis
            /\ prepared.keys[j].activated = db.keys[j].activated
  <2>1. Len(db.rotations) + 1 \in Nat
    BY <1>6
  <2> DEFINE p == Len(db.rotations) + 1
  <2>2. prepared = Preparing(db, k, p, x, y)
    BY DEF Preparing
  <2>3. p \in Nat
    BY <2>1
  <2>4. /\ db \in DbSet /\ k \in DOMAIN db.keys /\ x \in KeySet /\ y \in RotationSet
    BY <1>1, <1>4, <1>7, <1>8
  <2> HIDE DEF prepared, p
  <2>5. /\ prepared \in DbSet /\ prepared.rows = db.rows /\ prepared.batches = db.batches
        /\ prepared.keys = Append([db.keys EXCEPT ![k].pending = p], x)
        /\ prepared.rotations = Append(db.rotations, y)
        /\ Len(prepared.keys) = Len(db.keys) + 1 /\ prepared.keys[Len(db.keys) + 1] = x
        /\ DOMAIN prepared.keys = 1..(Len(db.keys) + 1)
        /\ \A j \in DOMAIN db.keys :
             /\ prepared.keys[j].epoch = db.keys[j].epoch
             /\ prepared.keys[j].from = db.keys[j].from
             /\ prepared.keys[j].genesis = db.keys[j].genesis
             /\ prepared.keys[j].activated = db.keys[j].activated
    BY <2>2, <2>3, <2>4, Prepared, SMTT(60)
  <2> QED
    BY <2>5 DEF p
<1> HIDE DEF prepared
<1>11. /\ db' \in DbSet /\ RowsGrow(db, db')
       /\ db'.keys = Append([db.keys EXCEPT ![k].pending = Len(db.rotations) + 1], x)
       /\ db'.batches = db.batches /\ db'.rotations = Append(db.rotations, y)
  BY <1>3, <1>10, RowLogged
<1>12. LogInv(db')
  <2>1. k > 1 => db.keys[k].from <= Len(db.batches)
    BY <1>3, <1>5, <1>6
  <2>2. RotationPrepared(db, db', k, Len(db.keys) + 1, Len(db.rotations) + 1)
    BY <1>1, <1>4, <1>9, <1>11, KeysPrepared
  <2> QED
    BY <1>1, <1>4, <1>11, <2>1, <2>2, LogPrepared
<1>13. /\ Len(db'.keys) = Len(db.keys) + 1 /\ db'.keys[Len(db.keys) + 1] = x
       /\ DOMAIN db'.keys = 1..(Len(db.keys) + 1)
       /\ \A j \in DOMAIN db.keys :
            /\ db'.keys[j].epoch = db.keys[j].epoch /\ db'.keys[j].from = db.keys[j].from
            /\ db'.keys[j].genesis = db.keys[j].genesis
            /\ db'.keys[j].activated = db.keys[j].activated
  <2>1. db'.keys = prepared.keys
    BY <1>10, <1>11
  <2> QED
    BY <1>10, <2>1
<1>14. /\ DOMAIN db'.rotations = 1..(Len(db.rotations) + 1)
       /\ \A r \in DOMAIN db.rotations : db'.rotations[r] = db.rotations[r]
       /\ db'.rotations[Len(db.rotations) + 1].state = "PREPARED"
  <2>1. db.rotations \in Seq(RotationSet) /\ y.state = "PREPARED"
    BY <1>1, <1>9 DEF DbSet
  <2> QED
    BY <1>6, <1>8, <1>11, <2>1
<1>15. Extends(db, db')
  BY <1>6, <1>11, <1>13, <1>14 DEF Extends
<1>16. \A j \in DOMAIN db'.keys : j \notin DOMAIN db.keys => db'.keys[j].epoch = epoch
  BY <1>6, <1>7, <1>13
<1>17. db'.keys # <<>> /\ db'.keys[1].activated => Anchor(0, Activation(db', 1)) \in sink.batches
  <2>1. 1 \in DOMAIN db.keys
    BY <1>4, <1>6
  <2>2. Activation(db', 1) = Activation(db, 1)
    BY <1>13, <2>1 DEF Activation, Fingerprint
  <2> QED
    BY <1>1, <1>4, <1>13, <2>1, <2>2 DEF Outside, KnownBy
<1>18. ASSUME NEW r \in DOMAIN db'.rotations, db'.rotations[r].state = "FINALIZED"
       PROVE  Transition(db', r) \in sink.moves
  <2>1. r \in DOMAIN db.rotations /\ db.rotations[r].state = "FINALIZED"
    BY <1>6, <1>14, <1>18
  <2> QED
    BY <1>1, <1>15, <2>1, TransitionKept DEF Outside, KnownBy
<1>19. \A r \in DOMAIN db.rotations :
         db'.rotations[r].state = "ABORTED" => db.rotations[r].state = "ABORTED"
  BY <1>14
<1>20. SinkInv' /\ Outside'
  BY <1>1, <1>11, <1>15, <1>16, <1>17, <1>18, <1>19, OutsideWritten
<1>21. Lock'
  BY <1>1 DEF Lock
<1> QED
  BY <1>12, <1>20, <1>21 DEF AuditInv

-----------------------------------------------------------------------------
(* The end of a rotation.                                                    *)
Passing(K, k, new, n) ==
  [K EXCEPT ![k] = [K[k] EXCEPT !.to = n, !.active = FALSE, !.pending = None, !.live = FALSE],
            ![new] = [K[new] EXCEPT !.active = TRUE, !.activated = TRUE]]
Freeing(K, k, new) == [K EXCEPT ![new].live = FALSE, ![k].pending = None]

OnlyPassed(K, k, new, n, L) ==
  /\ L \in Seq(KeySet) /\ DOMAIN L = DOMAIN K
  /\ \A j \in DOMAIN K :
       /\ L[j].from = K[j].from /\ L[j].epoch = K[j].epoch
       /\ L[j].genesis = K[j].genesis
       /\ L[j].to = IF j = k THEN n ELSE K[j].to
       /\ L[j].active <=> j # k /\ (j = new \/ K[j].active)
       /\ L[j].activated <=> j = new \/ K[j].activated
       /\ L[j].live <=> j # k /\ K[j].live
       /\ L[j].pending = IF j = k THEN None ELSE K[j].pending

LEMMA KeysPassed ==
    ASSUME NEW K \in Seq(KeySet), NEW k \in DOMAIN K, NEW new \in DOMAIN K, k # new,
           NEW n \in Nat
    PROVE  OnlyPassed(K, k, new, n, Passing(K, k, new, n))
<1> DEFINE x == [K[k] EXCEPT !.to = n, !.active = FALSE, !.pending = None, !.live = FALSE]
           y == [K[new] EXCEPT !.active = TRUE, !.activated = TRUE]
           f == [K EXCEPT ![k] = x, ![new] = y]
<1>1. K[k] \in KeySet /\ K[new] \in KeySet
  OBVIOUS
<1>2. /\ x \in KeySet
      /\ x.from = K[k].from /\ x.epoch = K[k].epoch /\ x.genesis = K[k].genesis
      /\ x.to = n /\ x.pending = None /\ x.activated = K[k].activated
      /\ x.active = FALSE /\ x.live = FALSE
  <2> HIDE DEF f
  <2> QED
    BY <1>1 DEF KeySet, None
<1>3. /\ y \in KeySet
      /\ y.from = K[new].from /\ y.epoch = K[new].epoch /\ y.genesis = K[new].genesis
      /\ y.to = K[new].to /\ y.pending = K[new].pending /\ y.live = K[new].live
      /\ y.active = TRUE /\ y.activated = TRUE
  <2> HIDE DEF f
  <2> QED
    BY <1>1 DEF KeySet
<1>4. /\ f \in Seq(KeySet) /\ DOMAIN f = DOMAIN K
      /\ \A j \in DOMAIN K : f[j] = IF j = new THEN y ELSE IF j = k THEN x ELSE K[j]
  <2> HIDE DEF x, y
  <2> QED
    BY <1>2, <1>3
<1> HIDE DEF x, y
<1>5. f = Passing(K, k, new, n)
  BY DEF x, y, Passing
<1> HIDE DEF f
<1>6. ASSUME NEW j \in DOMAIN K
      PROVE  /\ f[j].from = K[j].from /\ f[j].epoch = K[j].epoch
             /\ f[j].genesis = K[j].genesis
             /\ f[j].to = IF j = k THEN n ELSE K[j].to
             /\ f[j].active <=> j # k /\ (j = new \/ K[j].active)
             /\ f[j].activated <=> j = new \/ K[j].activated
             /\ f[j].live <=> j # k /\ K[j].live
             /\ f[j].pending = IF j = k THEN None ELSE K[j].pending
  <2>1. CASE j = k
    BY <1>2, <1>4, <2>1
  <2>2. CASE j = new
    BY <1>3, <1>4, <2>2
  <2>3. CASE j # k /\ j # new
    BY <1>4, <2>3
  <2> QED
    BY <2>1, <2>2, <2>3
<1> QED
  BY <1>4, <1>5, <1>6 DEF OnlyPassed

OnlyFreed(K, k, new, L) ==
  /\ L \in Seq(KeySet) /\ DOMAIN L = DOMAIN K
  /\ \A j \in DOMAIN K :
       /\ L[j].from = K[j].from /\ L[j].epoch = K[j].epoch
       /\ L[j].genesis = K[j].genesis /\ L[j].to = K[j].to
       /\ L[j].active = K[j].active /\ L[j].activated = K[j].activated
       /\ K[j].live = FALSE => L[j].live = FALSE
       /\ L[j].pending = IF j = k THEN None ELSE K[j].pending

LEMMA KeysFreed ==
    ASSUME NEW K \in Seq(KeySet), NEW k \in DOMAIN K, NEW new \in DOMAIN K
    PROVE  OnlyFreed(K, k, new, Freeing(K, k, new))
<1> DEFINE x == [K[new] EXCEPT !.live = FALSE]
           g == [K EXCEPT ![new] = x]
<1>1. K[new] \in KeySet
  OBVIOUS
<1>2. /\ x \in KeySet
      /\ x.from = K[new].from /\ x.epoch = K[new].epoch /\ x.genesis = K[new].genesis
      /\ x.to = K[new].to /\ x.pending = K[new].pending /\ x.activated = K[new].activated
      /\ x.active = K[new].active /\ x.live = FALSE
  <2> HIDE DEF g
  <2> QED
    BY <1>1 DEF KeySet
<1>3. /\ g \in Seq(KeySet) /\ DOMAIN g = DOMAIN K
      /\ \A j \in DOMAIN K : g[j] = IF j = new THEN x ELSE K[j]
  <2> HIDE DEF x
  <2> QED
    BY <1>2
<1> HIDE DEF x
<1> DEFINE f == [g EXCEPT ![k].pending = None]
<1>4. f = Freeing(K, k, new)
  BY DEF x, Freeing
<1> HIDE DEF g
<1>5. /\ f \in Seq(KeySet) /\ DOMAIN f = DOMAIN g
      /\ \A j \in DOMAIN g :
                /\ f[j].from = g[j].from /\ f[j].to = g[j].to
                /\ f[j].active = g[j].active /\ f[j].live = g[j].live
                /\ f[j].activated = g[j].activated /\ f[j].epoch = g[j].epoch
                /\ f[j].genesis = g[j].genesis
                /\ f[j].pending = IF j = k THEN None ELSE g[j].pending
  <2>1. None \in Nat
    BY DEF None
  <2> QED
    BY <1>3, <2>1, KeyPending
<1> HIDE DEF f
<1>6. ASSUME NEW j \in DOMAIN K
      PROVE  /\ f[j].from = K[j].from /\ f[j].epoch = K[j].epoch
             /\ f[j].genesis = K[j].genesis /\ f[j].to = K[j].to
             /\ f[j].active = K[j].active /\ f[j].activated = K[j].activated
             /\ K[j].live = FALSE => f[j].live = FALSE
             /\ f[j].pending = IF j = k THEN None ELSE K[j].pending
  <2>1. CASE j = new
    BY <1>2, <1>3, <1>5, <2>1
  <2>2. CASE j # new
    BY <1>3, <1>5, <2>2
  <2> QED
    BY <2>1, <2>2
<1> QED
  BY <1>3, <1>4, <1>5, <1>6 DEF OnlyFreed

(* Keys and rotations keep what they say of one another; some change state.  *)
LEMMA StatesMoved ==
    ASSUME AuditInv, db.keys # <<>>, LogInv(db'), SameKeys(db, db'), SameRotations(db, db'),
           db'.batches = db.batches,
           db'.keys[1].activated => db.keys[1].activated,
           \A r \in DOMAIN db.rotations :
             db'.rotations[r].state = "FINALIZED" =>
               db.rotations[r].state = "FINALIZED" \/ Transition(db, r) \in sink.moves,
           epoch = 0 => \A r \in DOMAIN db.rotations :
             db'.rotations[r].state = "ABORTED" =>
               db.rotations[r].state = "ABORTED" \/ Transition(db, r) \notin sink.moves,
           sink' = sink, saved' = saved, epoch' = epoch, step' = "idle"
    PROVE  AuditInv'
<1>1. /\ LogInv(db) /\ SinkInv /\ Outside /\ db \in DbSet /\ db' \in DbSet
  BY DEF AuditInv, LogInv
<1>2. Len(db'.keys) = Len(db.keys) /\ Len(db.batches) \in Nat /\ Len(db.keys) \in Nat
  BY <1>1, DbFields DEF SameKeys
<1>3. Extends(db, db')
  BY <1>2 DEF Extends, SameKeys, SameRotations
<1>4. \A r \in DOMAIN db.rotations : Transition(db', r) = Transition(db, r)
  BY <1>1, <1>3, TransitionKept
<1>5. 1 \in DOMAIN db.keys
  BY <1>1, <1>2, DbFields DEF DbSet
<1>6. Activation(db', 1) = Activation(db, 1)
  BY <1>5 DEF Activation, Fingerprint, SameKeys
<1>7. /\ db.keys[1].activated => Anchor(0, Activation(db, 1)) \in sink.batches
      /\ \A r \in DOMAIN db.rotations :
           db.rotations[r].state = "FINALIZED" => Transition(db, r) \in sink.moves
  BY <1>1 DEF Outside, KnownBy
<1>8. \A r \in DOMAIN db'.rotations :
        db'.rotations[r].state = "FINALIZED" => Transition(db', r) \in sink.moves
  BY <1>4, <1>7 DEF SameRotations
<1>9. \A k \in DOMAIN db'.keys : k \notin DOMAIN db.keys => db'.keys[k].epoch = epoch
  BY DEF SameKeys
<1>10. SinkInv' /\ Outside'
  BY <1>1, <1>3, <1>6, <1>7, <1>8, <1>9, OutsideWritten
<1>11. Lock'
  BY DEF Lock
<1> QED
  BY <1>10, <1>11 DEF AuditInv

(* The rotation an operator finds pending.                                   *)
LEMMA InHand ==
    ASSUME AuditInv, ActiveKeys(db) # {} \/ step = "published", PendingRotation # None
    PROVE  /\ LogInv(db) /\ SinkInv /\ Outside /\ Lock /\ db \in DbSet
           /\ db.keys # <<>> /\ active_key(db) \in DOMAIN db.keys
           /\ db.keys[active_key(db)].pending = PendingRotation
           /\ PendingRotation \in DOMAIN db.rotations
           /\ db.rotations[PendingRotation].old = active_key(db)
           /\ db.rotations[PendingRotation].new \in DOMAIN db.keys
           /\ db.rotations[PendingRotation].last = Len(db.batches)
           /\ active_key(db) < db.rotations[PendingRotation].new
           /\ active_key(db) \in Nat /\ db.rotations[PendingRotation].new \in Nat
           /\ Len(db.batches) \in Nat
<1>1. LogInv(db) /\ SinkInv /\ Outside /\ Lock /\ db \in DbSet
  BY DEF AuditInv, LogInv
<1>2. db.keys # <<>>
  BY <1>1 DEF Lock, ActiveKeys
<1>3. /\ active_key(db) \in DOMAIN db.keys
      /\ PendingRotation \in DOMAIN db.rotations
      /\ db.rotations[PendingRotation].old = active_key(db)
      /\ db.rotations[PendingRotation].last = Len(db.batches)
      /\ RotationSays(db, PendingRotation)
      /\ db.rotations[PendingRotation].new \in DOMAIN db.keys
  BY <1>1, <1>2, RotationPending
<1>4. active_key(db) < db.rotations[PendingRotation].new
  BY <1>3 DEF RotationSays
<1>5. /\ active_key(db) \in Nat /\ db.rotations[PendingRotation].new \in Nat
      /\ Len(db.batches) \in Nat
  BY <1>1, <1>3, DbFields
<1>6. db.keys[active_key(db)].pending = PendingRotation
  BY DEF PendingRotation
<1> QED
  BY <1>1, <1>2, <1>3, <1>4, <1>5, <1>6

LEMMA StateMoved ==
    ASSUME NEW d \in DbSet, NEW r \in DOMAIN d.rotations,
           NEW s \in {"PREPARED", "PUBLISHED", "FINALIZED", "ABORTED"},
           NEW e, e = [d EXCEPT !.rotations = Restated(@, r, s)]
    PROVE  /\ e \in DbSet /\ e.rows = d.rows /\ e.keys = d.keys /\ e.batches = d.batches
           /\ SameRotations(d, e)
           /\ \A q \in DOMAIN d.rotations :
                e.rotations[q].state = IF q = r THEN s ELSE d.rotations[q].state
<1> DEFINE Q == Restated(d.rotations, r, s)
<1>1. d.rotations \in Seq(RotationSet) /\ d.keys \in Seq(KeySet)
  BY DEF DbSet
<1>Q. Q = Restated(d.rotations, r, s)
  OBVIOUS
<1>0. OnlyRestated(d.rotations, r, s, Q)
  <2>1. s \in {"PREPARED", "PUBLISHED", "FINALIZED", "ABORTED"}
    OBVIOUS
  <2> QED
    BY <1>1, <2>1, RotationState, Zenon
<1> HIDE DEF Q
<1>2. /\ Q \in Seq(RotationSet) /\ DOMAIN Q = DOMAIN d.rotations
      /\ \A q \in DOMAIN d.rotations :
           /\ Q[q].old = d.rotations[q].old /\ Q[q].new = d.rotations[q].new
           /\ Q[q].last = d.rotations[q].last /\ Q[q].root = d.rotations[q].root
           /\ Q[q].state = IF q = r THEN s ELSE d.rotations[q].state
  BY <1>0 DEF OnlyRestated
<1>3. e = [d EXCEPT !.rotations = Q]
  BY <1>Q
<1>4. e \in DbSet /\ e.rows = d.rows /\ e.keys = d.keys /\ e.batches = d.batches /\ e.rotations = Q
  BY <1>2, <1>3 DEF DbSet
<1> QED
  BY <1>2, <1>4 DEF SameRotations

LEMMA PublishRotationKeeps == AuditInv /\ publish_rotation => AuditInv'
<1> SUFFICES ASSUME AuditInv, publish_rotation PROVE AuditInv'
  OBVIOUS
<1>1. /\ ActiveKeys(db) # {} /\ PendingRotation # None /\ MayTransit(PendingRotation)
      /\ sink' = [sink EXCEPT !.moves = @ \cup {Transition(db, PendingRotation)}]
      /\ step' = "published" /\ db' = db /\ saved' = saved /\ epoch' = epoch
  BY DEF publish_rotation, Idle
<1>2. LogInv(db) /\ SinkInv /\ Outside /\ db.keys # <<>>
  BY <1>1, InHand
<1>3. SinkInv' /\ Outside'
  BY <1>1, <1>2, MoveAdded
<1>4. PendingRotation' = PendingRotation
  BY <1>1 DEF PendingRotation
<1>5. Transition(db, PendingRotation) \in sink'.moves
  BY <1>1, <1>2 DEF SinkInv
<1>6. Lock'
  BY <1>1, <1>2, <1>4, <1>5 DEF Lock
<1> QED
  BY <1>1, <1>2, <1>3, <1>6 DEF AuditInv

LEMMA RecordPublishedKeeps == AuditInv /\ RecordPublished => AuditInv'
<1> SUFFICES ASSUME AuditInv, RecordPublished PROVE AuditInv'
  OBVIOUS
<1> DEFINE k == active_key(db)
           R == PendingRotation
<1>1. /\ step = "published" /\ step' = "idle" /\ sink' = sink /\ saved' = saved /\ epoch' = epoch
      /\ db' = [db EXCEPT !.rotations = Restated(@, R, "PUBLISHED")]
  BY DEF RecordPublished, Restated
<1>2. R # None
  BY <1>1 DEF AuditInv, Lock
<1>3. /\ LogInv(db) /\ db \in DbSet /\ db.keys # <<>> /\ k \in DOMAIN db.keys
      /\ db.keys[k].pending = R /\ R \in DOMAIN db.rotations
  BY <1>1, <1>2, InHand
<1> HIDE DEF k, R
<1>4. /\ db' \in DbSet /\ db'.rows = db.rows /\ db'.keys = db.keys /\ db'.batches = db.batches
      /\ SameRotations(db, db')
      /\ \A q \in DOMAIN db.rotations :
           db'.rotations[q].state = IF q = R THEN "PUBLISHED" ELSE db.rotations[q].state
  BY <1>1, <1>3, StateMoved
<1>5. LogInv(db')
  BY <1>2, <1>3, <1>4, LogRecorded
<1>6. SameKeys(db, db')
  BY <1>4 DEF SameKeys
<1> QED
  BY <1>1, <1>3, <1>4, <1>5, <1>6, StatesMoved

(* What ends a rotation writes keys, the state of the rotation and a row.    *)
LEMMA RotationEnded ==
    ASSUME AuditInv, NEW K \in Seq(KeySet), NEW r \in DOMAIN db.rotations,
           NEW s \in {"FINALIZED", "ABORTED"},
           db' = Append_row(Rewriting(db, K, Restated(db.rotations, r, s)))
    PROVE  /\ db' \in DbSet /\ RowsGrow(db, db') /\ db'.batches = db.batches /\ db'.keys = K
           /\ SameRotations(db, db')
           /\ \A q \in DOMAIN db.rotations :
                db'.rotations[q].state = IF q = r THEN s ELSE db.rotations[q].state
<1> DEFINE Q == Restated(db.rotations, r, s)
           ended == Rewriting(db, K, Q)
<1>1. db \in DbSet /\ db.rotations \in Seq(RotationSet)
  BY Typing DEF DbSet
<1>Q. Q = Restated(db.rotations, r, s)
  OBVIOUS
<1>0. OnlyRestated(db.rotations, r, s, Q)
  <2>1. s \in {"PREPARED", "PUBLISHED", "FINALIZED", "ABORTED"}
    OBVIOUS
  <2> QED
    BY <1>1, <2>1, RotationState, Zenon
<1> HIDE DEF Q
<1>2. /\ Q \in Seq(RotationSet) /\ DOMAIN Q = DOMAIN db.rotations
      /\ \A q \in DOMAIN db.rotations :
           /\ Q[q].old = db.rotations[q].old /\ Q[q].new = db.rotations[q].new
           /\ Q[q].last = db.rotations[q].last /\ Q[q].root = db.rotations[q].root
           /\ Q[q].state = IF q = r THEN s ELSE db.rotations[q].state
  BY <1>0 DEF OnlyRestated
<1>3. db' = Append_row(ended)
  BY <1>Q
<1>4. /\ ended \in DbSet /\ ended.keys = K /\ ended.rotations = Q
      /\ ended.rows = db.rows /\ ended.batches = db.batches
  BY <1>1, <1>2, Rewritten
<1> HIDE DEF ended
<1>5. /\ db' \in DbSet /\ RowsGrow(db, db')
      /\ db'.keys = K /\ db'.batches = db.batches /\ db'.rotations = Q
  BY <1>3, <1>4, RowLogged
<1> QED
  BY <1>2, <1>5 DEF SameRotations

LEMMA FinalizeKeeps == AuditInv /\ finalize_rotation => AuditInv'
<1> SUFFICES ASSUME AuditInv, finalize_rotation PROVE AuditInv'
  OBVIOUS
<1> DEFINE k == active_key(db)
           R == PendingRotation
           new == db.rotations[R].new
           K == Passing(db.keys, k, new, db.rotations[R].last)
<1>1. /\ ActiveKeys(db) # {} /\ R # None /\ step' = "idle"
      /\ sink' = sink /\ saved' = saved /\ epoch' = epoch
  BY DEF finalize_rotation, Idle
<1>2. /\ LogInv(db) /\ db \in DbSet /\ db.keys # <<>> /\ k \in DOMAIN db.keys
      /\ db.keys[k].pending = R /\ R \in DOMAIN db.rotations
      /\ db.rotations[R].old = k /\ new \in DOMAIN db.keys
      /\ db.rotations[R].last = Len(db.batches) /\ k < new /\ k \in Nat /\ new \in Nat
      /\ Len(db.batches) \in Nat
  BY <1>1, InHand
<1>3. /\ Transition(db, R) \in sink.moves
      /\ db' = Append_row([db EXCEPT !.keys = [db.keys EXCEPT
                   ![db.rotations[R].old] = [db.keys[db.rotations[R].old] EXCEPT
                        !.to = db.rotations[R].last, !.active = FALSE,
                        !.pending = None, !.live = FALSE],
                   ![new] = [db.keys[new] EXCEPT !.active = TRUE, !.activated = TRUE]],
                !.rotations = [@ EXCEPT ![R].state = "FINALIZED"]])
  BY Zenon DEF finalize_rotation
<1>4. db' = Append_row(Rewriting(db, K, Restated(db.rotations, R, "FINALIZED")))
  <2> HIDE DEF k, R, new
  <2> QED
    BY <1>2, <1>3 DEF Rewriting, Restated, Passing
<1>5. db.keys \in Seq(KeySet) /\ k # new
  BY <1>2 DEF DbSet
<1>6. /\ K \in Seq(KeySet) /\ DOMAIN K = DOMAIN db.keys
      /\ \A j \in DOMAIN db.keys :
           /\ K[j].from = db.keys[j].from /\ K[j].epoch = db.keys[j].epoch
           /\ K[j].genesis = db.keys[j].genesis
           /\ K[j].to = IF j = k THEN db.rotations[R].last ELSE db.keys[j].to
           /\ K[j].active <=> j # k /\ (j = new \/ db.keys[j].active)
           /\ K[j].activated <=> j = new \/ db.keys[j].activated
           /\ K[j].live <=> j # k /\ db.keys[j].live
           /\ K[j].pending = IF j = k THEN None ELSE db.keys[j].pending
  <2>1. db.rotations[R].last \in Nat
    BY <1>2
  <2>2. OnlyPassed(db.keys, k, new, db.rotations[R].last, K)
    BY <1>2, <1>5, <2>1, KeysPassed, Zenon
  <2> HIDE DEF k, R, new, K
  <2> QED
    BY <2>2 DEF OnlyPassed
<1> HIDE DEF K, k, R
<1>7. /\ db' \in DbSet /\ RowsGrow(db, db') /\ db'.batches = db.batches /\ db'.keys = K
      /\ SameRotations(db, db')
      /\ \A q \in DOMAIN db.rotations :
           db'.rotations[q].state = IF q = R THEN "FINALIZED" ELSE db.rotations[q].state
  BY <1>2, <1>4, <1>6, RotationEnded
<1>8. SameKeys(db, db')
  BY <1>6, <1>7 DEF SameKeys
<1>9. HandsOver(db, db', k, new)
  BY <1>2, <1>6, <1>7 DEF HandsOver
<1>10. LogInv(db')
  BY <1>1, <1>2, <1>7, <1>8, <1>9, LogFinalized
<1>11. db'.keys[1].activated => db.keys[1].activated
  <2>1. 1 \in DOMAIN db.keys /\ 1 # new
    BY <1>2, DbFields
  <2> HIDE DEF new
  <2> QED
    BY <1>6, <1>7, <2>1
<1>12. \A r \in DOMAIN db.rotations :
         /\ db'.rotations[r].state = "FINALIZED" =>
              db.rotations[r].state = "FINALIZED" \/ Transition(db, r) \in sink.moves
         /\ db'.rotations[r].state = "ABORTED" => db.rotations[r].state = "ABORTED"
  BY <1>3, <1>7
<1> QED
  BY <1>1, <1>2, <1>7, <1>8, <1>10, <1>11, <1>12, StatesMoved

LEMMA AbortKeeps == AuditInv /\ abort_rotation => AuditInv'
<1> SUFFICES ASSUME AuditInv, abort_rotation PROVE AuditInv'
  OBVIOUS
<1> DEFINE k == active_key(db)
           R == PendingRotation
           new == db.rotations[R].new
           K == Freeing(db.keys, k, new)
<1>1. /\ ActiveKeys(db) # {} /\ R # None /\ step' = "idle"
      /\ sink' = sink /\ saved' = saved /\ epoch' = epoch
  BY DEF abort_rotation, Idle
<1>2. /\ LogInv(db) /\ SinkInv /\ Outside /\ db \in DbSet /\ db.keys # <<>>
      /\ k \in DOMAIN db.keys /\ db.keys[k].pending = R /\ R \in DOMAIN db.rotations
      /\ db.rotations[R].old = k /\ new \in DOMAIN db.keys
      /\ db.rotations[R].last = Len(db.batches)
  BY <1>1, InHand
<1>3. /\ HeadUnmoved(R)
      /\ db' = Append_row([db EXCEPT
                  !.keys = [db.keys EXCEPT ![new].live = FALSE,
                                           ![db.rotations[R].old].pending = None],
                  !.rotations = [@ EXCEPT ![R].state = "ABORTED"]])
  BY Zenon DEF abort_rotation
<1>4. db' = Append_row(Rewriting(db, K, Restated(db.rotations, R, "ABORTED")))
  <2> HIDE DEF k, R, new
  <2> QED
    BY <1>2, <1>3 DEF Rewriting, Restated, Freeing
<1>5. db.keys \in Seq(KeySet)
  BY <1>2 DEF DbSet
<1>6. /\ K \in Seq(KeySet) /\ DOMAIN K = DOMAIN db.keys
      /\ \A j \in DOMAIN db.keys :
           /\ K[j].from = db.keys[j].from /\ K[j].epoch = db.keys[j].epoch
           /\ K[j].genesis = db.keys[j].genesis /\ K[j].to = db.keys[j].to
           /\ K[j].active = db.keys[j].active /\ K[j].activated = db.keys[j].activated
           /\ db.keys[j].live = FALSE => K[j].live = FALSE
           /\ K[j].pending = IF j = k THEN None ELSE db.keys[j].pending
  <2>1. OnlyFreed(db.keys, k, new, K)
    BY <1>2, <1>5, KeysFreed, Zenon
  <2> HIDE DEF k, R, new, K
  <2> QED
    BY <2>1 DEF OnlyFreed
<1>7. Transition(db, R) \notin sink.moves
  <2>1. fetch_scope_head = [seq |-> db.rotations[PendingRotation].last,
                            signer |-> Fingerprint(db, db.rotations[PendingRotation].old),
                            root |-> db.rotations[PendingRotation].root]
    BY <1>3 DEF HeadUnmoved
  <2>2. KnownBy(sink, db)
    BY <1>2 DEF Outside
  <2>3. PICK a \in sink.batches :
          /\ a.seq = db.rotations[PendingRotation].last
          /\ \A m \in sink.moves : m.seq # a.seq
    BY <1>1, <1>2, <2>1, <2>2, NothingBehind
  <2> QED
    BY <2>3 DEF Transition
<1> HIDE DEF K, k, R, new
<1>8. /\ db' \in DbSet /\ RowsGrow(db, db') /\ db'.batches = db.batches /\ db'.keys = K
      /\ SameRotations(db, db')
      /\ \A q \in DOMAIN db.rotations :
           db'.rotations[q].state = IF q = R THEN "ABORTED" ELSE db.rotations[q].state
  BY <1>2, <1>4, <1>6, RotationEnded
<1>9. SameKeys(db, db')
  BY <1>6, <1>8 DEF SameKeys
<1>10. LogInv(db')
  <2>1. SameRotations(db, db') /\ SameKeys(db, db')
    BY <1>8, <1>9
  <2>2. LetGo(db, db', k, R)
    BY <1>6, <1>8 DEF LetGo
  <2>3. /\ LogInv(db) /\ db' \in DbSet /\ k \in DOMAIN db.keys /\ R = db.keys[k].pending
        /\ R # None /\ RowsGrow(db, db') /\ db'.batches = db.batches
    BY <1>1, <1>2, <1>8
  <2> QED
    BY <2>1, <2>2, <2>3, LogAborted
<1>11. db'.keys[1].activated => db.keys[1].activated
  <2>1. 1 \in DOMAIN db.keys
    BY <1>2, DbFields DEF DbSet
  <2> QED
    BY <1>6, <1>8, <2>1
<1>12. \A r \in DOMAIN db.rotations :
         /\ db'.rotations[r].state = "FINALIZED" => db.rotations[r].state = "FINALIZED"
         /\ db'.rotations[r].state = "ABORTED" =>
              db.rotations[r].state = "ABORTED" \/ Transition(db, r) \notin sink.moves
  BY <1>7, <1>8
<1> QED
  BY <1>1, <1>2, <1>8, <1>9, <1>10, <1>11, <1>12, StatesMoved

LEMMA FailKeeps == AuditInv /\ Fail => AuditInv'
<1> SUFFICES ASSUME AuditInv, Fail PROVE AuditInv'
  OBVIOUS
<1>1. db' = db /\ sink' = sink /\ saved' = saved /\ epoch' = epoch /\ step' = "idle"
  BY DEF Fail
<1>2. Lock'
  BY <1>1 DEF Lock
<1> QED
  BY <1>1, <1>2, NothingWritten DEF AuditInv

LEMMA DatabaseSaveKeeps == AuditInv /\ Snapshot => AuditInv'
<1> SUFFICES ASSUME AuditInv, Snapshot PROVE AuditInv'
  OBVIOUS
<1>1. /\ LogInv(db) /\ SinkInv /\ Outside /\ Lock
      /\ db' = db /\ sink' = sink /\ step' = step /\ epoch' = epoch /\ saved' = {db}
  BY DEF AuditInv, Snapshot
<1>2. SinkInv'
  BY <1>1 DEF SinkInv, Size
<1>3. KnownBy(sink, db) /\ EpochsBy(sink, db, epoch) /\ (epoch = 0 => UnrestoredBy(sink, db))
  BY <1>1 DEF Outside
<1>4. SnapshotsBy(saved', sink, db)
  <2>1. Len(db.keys) \in Nat
    BY <1>1, DbFields DEF LogInv
  <2> QED
    BY <1>1, <1>3, <2>1 DEF SnapshotsBy
<1>5. Outside'
  BY <1>1, <1>3, <1>4 DEF Outside
<1>6. Lock'
  BY <1>1 DEF Lock, PendingRotation, ActivationAnchored, Unanchored, Anchored
<1> QED
  BY <1>1, <1>2, <1>5, <1>6 DEF AuditInv

LEMMA RestoreKeeps == AuditInv /\ Restore => AuditInv'
<1> SUFFICES ASSUME AuditInv, Restore PROVE AuditInv'
  OBVIOUS
<1>1. PICK d \in saved : db' = d
  BY DEF Restore
<1>2. /\ LogInv(db) /\ SinkInv /\ Outside /\ epoch \in Nat
      /\ sink' = sink /\ step' = "idle" /\ epoch' = epoch + 1 /\ saved' = {}
  BY Typing DEF AuditInv, Restore
<1>3. /\ LogInv(d) /\ KnownBy(sink, d) /\ Len(d.keys) <= Len(db.keys)
      /\ \A k \in DOMAIN d.keys : d.keys[k].epoch = db.keys[k].epoch
  BY <1>1, <1>2 DEF Outside, SnapshotsBy
<1>4. EpochsBy(sink, db, epoch)
  BY <1>2 DEF Outside
<1>5. SinkInv'
  BY <1>2 DEF SinkInv, Size
<1>6. EpochsBy(sink, d, epoch + 1)
  <2>1. /\ Len(d.keys) \in Nat /\ DOMAIN d.keys = 1..Len(d.keys)
        /\ Len(db.keys) \in Nat /\ DOMAIN db.keys = 1..Len(db.keys)
    BY <1>2, <1>3, DbFields DEF LogInv
  <2>2. ASSUME NEW k \in DOMAIN d.keys PROVE d.keys[k].epoch <= epoch + 1
    <3>1. k \in DOMAIN db.keys
      BY <1>3, <2>1
    <3>2. db.keys[k].epoch \in Nat /\ db.keys[k].epoch <= epoch
      BY <1>2, <1>4, <3>1, DbFields DEF EpochsBy, LogInv
    <3> QED
      BY <1>2, <1>3, <3>2
  <2>3. ASSUME NEW m \in sink.moves PROVE m.new[2] <= epoch /\ m.new[2] \in Nat
    <3>1. m \in MoveSet
      BY <1>2 DEF SinkInv
    <3> QED
      BY <1>4, <3>1 DEF EpochsBy, MoveSet, Ids
  <2> QED
    BY <1>2, <2>2, <2>3 DEF EpochsBy
<1>7. Outside'
  <2>1. SnapshotsBy(saved', sink, d)
    BY <1>2 DEF SnapshotsBy
  <2> QED
    BY <1>1, <1>2, <1>3, <1>6, <2>1 DEF Outside
<1>8. Lock'
  BY <1>2 DEF Lock
<1> QED
  BY <1>1, <1>3, <1>5, <1>7, <1>8 DEF AuditInv

LEMMA AuditInit == Init => AuditInv
<1> SUFFICES ASSUME Init PROVE AuditInv
  OBVIOUS
<1> DEFINE row == [kept |-> TRUE, mac |-> FALSE, epoch |-> 0]
<1>1. /\ db = [rows |-> <<row>>, keys |-> <<>>, batches |-> <<>>, rotations |-> <<>>]
      /\ sink = [batches |-> {}, moves |-> {}] /\ step = "idle" /\ saved = {} /\ epoch = 0
  BY DEF Init
<1>2. /\ db.rows = <<row>> /\ db.keys = <<>> /\ db.batches = <<>> /\ db.rotations = <<>>
      /\ row \in RowSet /\ sink.batches = {} /\ sink.moves = {}
  BY <1>1 DEF RowSet
<1>3. db \in DbSet
  BY <1>1, <1>2 DEF DbSet
<1>4. RowsSealed(db)
  BY <1>2 DEF RowsSealed
<1>5. KeysHeld(db) /\ RotationsKept(db) /\ Signed(db)
  BY <1>2 DEF KeysHeld, RotationsKept, Signed, ActiveKeys
<1>6. SinkInv
  <2>1. Size = 0 /\ IsFiniteSet(sink.batches)
    BY <1>2, FS_EmptySet DEF Size
  <2> QED
    BY <1>1, <1>2, <2>1 DEF SinkInv
<1>7. Outside
  BY <1>1, <1>2 DEF Outside, KnownBy, EpochsBy, SnapshotsBy, UnrestoredBy
<1>8. Lock
  BY <1>1 DEF Lock
<1> QED
  BY <1>3, <1>4, <1>5, <1>6, <1>7, <1>8 DEF AuditInv, LogInv

LEMMA AuditNext == AuditInv /\ [Next]_vars => AuditInv'
<1> SUFFICES ASSUME AuditInv, [Next]_vars PROVE AuditInv'
  OBVIOUS
<1>1. CASE record
  BY <1>1, RecordKeeps
<1>2. CASE Commit
  BY <1>2, CommitKeeps
<1>3. CASE Cycle
  BY <1>3, ProvisionKeeps, ActivateKeeps, MarkKeeps, SynchronizeKeeps, SealKeeps,
     AnchorBatchKeeps DEF Cycle
<1>4. CASE prepare_rotation
  BY <1>4, PrepareKeeps
<1>5. CASE publish_rotation
  BY <1>5, PublishRotationKeeps
<1>6. CASE RecordPublished
  BY <1>6, RecordPublishedKeeps
<1>7. CASE finalize_rotation
  BY <1>7, FinalizeKeeps
<1>8. CASE abort_rotation
  BY <1>8, AbortKeeps
<1>9. CASE Fail
  BY <1>9, FailKeeps
<1>10. CASE Snapshot
  BY <1>10, DatabaseSaveKeeps
<1>11. CASE Restore
  BY <1>11, RestoreKeeps
<1>12. CASE UNCHANGED vars
  <2>1. /\ db' = db /\ sink' = sink /\ saved' = saved /\ epoch' = epoch /\ step' = step
    BY <1>12 DEF vars
  <2>2. Lock'
    BY <2>1 DEF AuditInv, Lock, PendingRotation, ActivationAnchored, Unanchored, Anchored
  <2> QED
    BY <2>1, <2>2, NothingWritten DEF AuditInv
<1> QED
  BY <1>1, <1>2, <1>3, <1>4, <1>5, <1>6, <1>7, <1>8, <1>9, <1>10, <1>11, <1>12 DEF Next

-----------------------------------------------------------------------------
(* What the invariant says of the history of the log.                        *)
LEMMA AuditInvChains == AuditInv => AuditChained
<1> SUFFICES ASSUME AuditInv PROVE AuditChained
  OBVIOUS
<1>1. LogInv(db) /\ SinkInv
  BY DEF AuditInv
<1>2. SealedOnce
  <2>1. \A a, b \in DOMAIN db.batches :
          a # b => db.batches[a].leaves \cap db.batches[b].leaves = {}
    BY <1>1 DEF LogInv, RowsSealed
  <2>2. ASSUME NEW b \in DOMAIN db.batches, NEW id \in db.batches[b].leaves
        PROVE  id \in {RowId(db, i) : i \in {v \in Visible(db) : db.rows[v].mac}}
    BY <1>1 DEF LogInv, RowsSealed
  <2> QED
    BY <2>1, <2>2 DEF SealedOnce, Batched
<1>3. SignersAuthorized
  <2>1. ASSUME NEW b \in DOMAIN db.batches PROVE Verifies(db, b)
    BY <1>1 DEF LogInv, Signed, Verifies, KeyOf
  <2>2. ASSUME NEW k \in DOMAIN db.keys, NEW l \in DOMAIN db.keys, k < l,
               db.keys[k].activated, db.keys[l].activated
        PROVE  db.keys[k].to # Open /\ db.keys[k].to < db.keys[l].from
    BY <1>1, <2>2 DEF LogInv, KeysHeld, Held
  <2> QED
    BY <2>1, <2>2 DEF SignersAuthorized
<1>4. AnchorsChained
  BY <1>1, SinkChained
<1> QED
  BY <1>2, <1>3, <1>4 DEF AuditChained

-----------------------------------------------------------------------------
(* The verdict of verify_audit_log.                                          *)
LEMMA NewestAnchor ==
    ASSUME SinkInv, sink.batches # {}
    PROVE  /\ Size \in Nat \ {0}
           /\ \E a \in sink.batches : a.seq = Size - 1
           /\ \A a \in sink.batches : a.seq \in Nat /\ a.seq <= Size - 1
<1>1. Size \in Nat /\ Size # 0
  BY FS_CardinalityType, FS_EmptySet DEF SinkInv, Size
<1>2. \A a \in sink.batches : a.seq \in Nat /\ a.seq < Size
  BY DEF SinkInv
<1>3. Size - 1 \in 0..Size - 1
  BY <1>1
<1> QED
  BY <1>1, <1>2, <1>3 DEF SinkInv

LEMMA FingerprintNamesKey ==
    ASSUME NEW d, NEW k
    PROVE  Fingerprint(d, k)[1] = k
BY DEF Fingerprint

(* A key that holds the scope, and is not the first, was handed it.          *)
LEMMA HandedOver ==
    ASSUME NEW d, LogInv(d), NEW k \in DOMAIN d.keys, k > 1, Held(d, k)
    PROVE  \E r \in DOMAIN d.rotations :
             /\ d.rotations[r].new = k /\ d.rotations[r].state = "FINALIZED"
             /\ d.keys[k].from = d.rotations[r].last + 1
             /\ d.rotations[r].last \in 0..Len(d.batches)
<1>1. PICK r \in DOMAIN d.rotations : d.rotations[r].new = k
  BY DEF LogInv, RotationsKept
<1>2. RotationSays(d, r)
  BY DEF LogInv, RotationsKept
<1>3. d.rotations[r].last \in Nat
  BY DbFields DEF LogInv
<1> QED
  BY <1>1, <1>2, <1>3, DbFields DEF RotationSays, LogInv

(* A database that passes misses no batch that was anchored.                 *)
LEMMA VerifiedHasBatches ==
    ASSUME AuditInv, BatchesVerified(db), NEW a \in sink.batches, a.seq > 0
    PROVE  a.seq <= Len(db.batches) /\ db.batches[a.seq] = a.body
<1>1. LogInv(db) /\ SinkInv /\ db \in DbSet
  BY DEF AuditInv, LogInv
<1>2. PICK top \in sink.batches : top.seq = Size - 1
  BY <1>1, NewestAnchor
<1>3. Size \in Nat \ {0} /\ a.seq \in Nat /\ a.seq <= top.seq
  BY <1>1, <1>2, NewestAnchor
<1>4. fetch_scope_head.seq = top.seq
  BY <1>1, <1>2, <1>3, HeadOutside
<1>5. fetch_scope_head.seq = Len(db.batches)
  BY DEF BatchesVerified
<1>6. Len(db.batches) \in Nat /\ DOMAIN db.batches = 1..Len(db.batches)
  BY <1>1, DbFields
<1>7. a.seq \in DOMAIN db.batches
  BY <1>3, <1>4, <1>5, <1>6
<1>8. Anchor(a.seq, db.batches[a.seq]) \in sink.batches
  BY <1>7 DEF BatchesVerified, Anchored
<1>9. Anchor(a.seq, db.batches[a.seq]) = a
  BY <1>1, <1>8 DEF SinkInv, Anchor
<1> QED
  BY <1>3, <1>4, <1>5, <1>9 DEF Anchor

(* Whoever a transition handed the scope to is a key the database knows.     *)
LEMMA VerifiedKnowsSuccessor ==
    ASSUME AuditInv, db.keys # <<>>, BatchesVerified(db), NEW m \in sink.moves
    PROVE  \E k \in DOMAIN db.keys : k > 1 /\ Held(db, k) /\ m.new = Fingerprint(db, k)
<1>1. LogInv(db) /\ SinkInv /\ db \in DbSet
  BY DEF AuditInv, LogInv
<1>2. PICK a \in sink.batches : a.seq = m.seq /\ a.body.signer = m.old
  BY <1>1 DEF SinkInv
<1>3. PICK top \in sink.batches : top.seq = Size - 1
  BY <1>1, NewestAnchor
<1>4. Size \in Nat \ {0} /\ a.seq \in Nat /\ a.seq <= top.seq
  BY <1>1, <1>3, NewestAnchor
<1>5. m.new[1] > 1
  <2>1. m.old \in Ids /\ m.new \in Ids /\ m.old[1] > 0 /\ m.old[1] < m.new[1]
    BY <1>1, <1>2 DEF SinkInv, MoveSet
  <2> QED
    BY <2>1 DEF Ids
<1>6. \E k \in DOMAIN db.keys : Held(db, k) /\ m.new = Fingerprint(db, k)
  <2>1. CASE a.seq = top.seq
    <3>1. fetch_scope_head.signer = m.new
      <4>1. a.seq + 1 = Size
        BY <1>3, <1>4, <2>1
      <4> QED
        BY <1>1, <1>2, <4>1, HeadOutside
    <3>2. fetch_scope_head.signer = Fingerprint(db, active_key(db))
      BY DEF BatchesVerified
    <3>3. active_key(db) \in DOMAIN db.keys /\ Held(db, active_key(db))
      BY <1>1, KeyHolder DEF LogInv, KeysHeld
    <3> QED
      BY <3>1, <3>2, <3>3
  <2>2. CASE a.seq # top.seq
    <3>1. a.seq + 1 \in 0..Size - 1
      BY <1>3, <1>4, <2>2
    <3>2. PICK b \in sink.batches : b.seq = a.seq + 1
      BY <1>1, <3>1 DEF SinkInv
    <3>3. b.body.signer = m.new
      BY <1>1, <1>2, <3>2 DEF SinkInv
    <3>4. b.seq <= Len(db.batches) /\ db.batches[b.seq] = b.body
      BY <1>4, <3>2, VerifiedHasBatches
    <3>5. b.seq \in DOMAIN db.batches
      BY <1>1, <1>4, <3>2, <3>4, DbFields
    <3> QED
      BY <1>1, <3>3, <3>4, <3>5 DEF LogInv, Signed
  <2> QED
    BY <2>1, <2>2
<1> QED
  BY <1>5, <1>6, FingerprintNamesKey

(* Nor any transition.                                                       *)
LEMMA VerifiedHasMoves ==
    ASSUME AuditInv, db.keys # <<>>, BatchesVerified(db), NEW m \in sink.moves
    PROVE  \E r \in DOMAIN db.rotations :
             Transition(db, r) = m /\ db.rotations[r].state = "FINALIZED"
<1>1. LogInv(db) /\ SinkInv /\ KnownBy(sink, db) /\ db \in DbSet
  BY DEF AuditInv, LogInv, Outside
<1>2. PICK k \in DOMAIN db.keys : k > 1 /\ Held(db, k) /\ m.new = Fingerprint(db, k)
  BY VerifiedKnowsSuccessor
<1>3. PICK r \in DOMAIN db.rotations :
        /\ db.rotations[r].new = k /\ db.rotations[r].state = "FINALIZED"
        /\ db.keys[k].from = db.rotations[r].last + 1
        /\ db.rotations[r].last \in 0..Len(db.batches)
  BY <1>1, <1>2, HandedOver
<1>4. db.keys[k].from = m.seq + 1 /\ Transition(db, r) \in sink.moves
  BY <1>1, <1>2, <1>3 DEF KnownBy
<1>5. m.seq \in Nat /\ db.rotations[r].last \in Nat
  BY <1>1, <1>3, DbFields DEF SinkInv, MoveSet
<1>6. Transition(db, r).seq = m.seq
  BY <1>3, <1>4, <1>5 DEF Transition
<1> QED
  BY <1>1, <1>3, <1>4, <1>6 DEF SinkInv

LEMMA VerifiedMissesNothing == AuditInv /\ verify_audit_integrity(db) => ~Lost
<1> SUFFICES ASSUME AuditInv, verify_audit_integrity(db) PROVE ~Lost
  OBVIOUS
<1>1. BatchesVerified(db) /\ ActiveKeys(db) # {}
  BY DEF verify_audit_integrity
<1>2. db.keys # <<>>
  BY <1>1 DEF ActiveKeys
<1>3. \A a \in sink.batches : a.seq > 0 => a.seq <= Len(db.batches) /\ db.batches[a.seq] = a.body
  BY <1>1, VerifiedHasBatches
<1>4. \A m \in sink.moves : \E r \in DOMAIN db.rotations :
        Transition(db, r) = m /\ db.rotations[r].state = "FINALIZED"
  BY <1>1, <1>2, VerifiedHasMoves
<1>5. \A a \in sink.batches : a.seq > 0 => ~(a.seq > Len(db.batches))
  <2>1. Len(db.batches) \in Nat
    BY DbFields DEF AuditInv, LogInv
  <2>2. \A a \in sink.batches : a.seq \in Nat
    BY DEF AuditInv, SinkInv
  <2> QED
    BY <1>3, <2>1, <2>2
<1> QED
  BY <1>3, <1>4, <1>5 DEF Lost

(* A log at rest: no rotation is pending and every batch is anchored.        *)
AtRest(d) ==
  LogInv(d) /\ d.keys # <<>> /\ ActiveKeys(d) # {} /\ d.keys[active_key(d)].pending = None

LEMMA RestingKeys ==
    ASSUME NEW d, AtRest(d)
    PROVE  /\ active_key(d) \in DOMAIN d.keys /\ ActiveKeys(d) = {active_key(d)}
           /\ d.keys[active_key(d)].to = Open /\ Held(d, active_key(d))
           /\ \A k \in DOMAIN d.keys : Held(d, k) => k <= active_key(d)
           /\ \A k \in DOMAIN d.keys : d.keys[k].pending = None
           /\ \A k \in DOMAIN d.keys : k > active_key(d) => k \in GivenUp(d)
<1>1. LogInv(d) /\ d.keys # <<>> /\ d.keys[active_key(d)].pending = None
  BY DEF AtRest
<1>2. /\ active_key(d) \in DOMAIN d.keys /\ d.keys[active_key(d)].active
      /\ \A k \in DOMAIN d.keys : d.keys[k].active => k = active_key(d)
  BY <1>1, KeyHolder
<1>3. ActiveKeys(d) = {active_key(d)}
  BY <1>2 DEF ActiveKeys
<1>4. \A k \in DOMAIN d.keys : d.keys[k].pending = None
  BY <1>1, <1>2 DEF LogInv, KeysHeld
<1>5. /\ d.keys[active_key(d)].to = Open /\ Held(d, active_key(d))
      /\ \A k \in DOMAIN d.keys : Held(d, k) => k <= active_key(d)
      /\ \A k \in DOMAIN d.keys :
           k > active_key(d) => k \in GivenUp(d) \/ Candidate(d, active_key(d), k)
  BY <1>1, <1>2, <1>3 DEF LogInv, KeysHeld
<1> QED
  BY <1>2, <1>3, <1>4, <1>5 DEF Candidate

LEMMA RestingRotations ==
    ASSUME NEW d, AtRest(d), NEW r \in DOMAIN d.rotations
    PROVE  d.rotations[r].state \in {"FINALIZED", "ABORTED"}
<1>1. LogInv(d) /\ RotationSays(d, r) /\ d.rotations[r] \in RotationSet
  BY DbFields DEF AtRest, LogInv, RotationsKept
<1>2. r \in Nat /\ r # None
  BY <1>1, DbFields DEF LogInv, None
<1>3. d.keys[d.rotations[r].old].pending # r
  BY <1>1, <1>2, RestingKeys DEF RotationSays
<1>4. d.rotations[r].state \notin {"PREPARED", "PUBLISHED"}
  BY <1>1, <1>3 DEF RotationSays
<1> QED
  BY <1>1, <1>4 DEF RotationSet

(* The generations of the key are those that hold the scope or held it.      *)
LEMMA RestingGenerations ==
    ASSUME NEW d, AtRest(d), NEW k \in DOMAIN d.keys
    PROVE  k \in Generations(d) <=> Held(d, k)
<1>1. LogInv(d) /\ k \in Nat /\ k >= 1
  BY DbFields DEF AtRest, LogInv
<1>2. ASSUME NEW r \in DOMAIN d.rotations, d.rotations[r].new = k
      PROVE  Held(d, k) <=> d.rotations[r].state # "ABORTED"
  <2>1. RotationSays(d, r)
    BY <1>1 DEF LogInv, RotationsKept
  <2>2. d.rotations[r].state \in {"FINALIZED", "ABORTED"}
    BY RestingRotations
  <2> QED
    BY <1>2, <2>1, <2>2 DEF RotationSays
<1>3. CASE k = 1
  <2>1. \A r \in DOMAIN d.rotations : d.rotations[r].new # 1
    <3>1. ASSUME NEW r \in DOMAIN d.rotations PROVE d.rotations[r].new # 1
      <4>1. RotationSays(d, r)
        BY <1>1 DEF LogInv, RotationsKept
      <4>2. d.rotations[r].old >= 1 /\ d.rotations[r].old \in Nat /\ d.rotations[r].new \in Nat
        BY <1>1, <4>1, DbFields DEF RotationSays, LogInv
      <4> QED
        BY <4>1, <4>2 DEF RotationSays
    <3> QED
      BY <3>1
  <2> QED
    BY <1>3, <2>1 DEF Generations, GivenUp, Held
<1>4. CASE k > 1
  <2>1. PICK r \in DOMAIN d.rotations : d.rotations[r].new = k
    BY <1>1, <1>4 DEF LogInv, RotationsKept
  <2>2. \A q \in DOMAIN d.rotations : d.rotations[q].new = k => q = r
    BY <1>1, <2>1 DEF LogInv, RotationsKept
  <2>3. k \in GivenUp(d) <=> d.rotations[r].state = "ABORTED"
    BY <2>1, <2>2 DEF GivenUp
  <2> QED
    BY <1>2, <2>1, <2>3 DEF Generations
<1> QED
  BY <1>1, <1>3, <1>4

(* Each generation handed the scope to the next, at the number its interval *)
(* was closed at.                                                           *)
LEMMA RestingChain ==
    ASSUME NEW d, AtRest(d), NEW k \in Generations(d), k # active_key(d)
    PROVE  /\ k < active_key(d) /\ d.keys[k].to # Open /\ ~d.keys[k].live
           /\ \E r \in DOMAIN d.rotations :
                /\ d.rotations[r].state = "FINALIZED" /\ d.rotations[r].old = k
                /\ d.rotations[r].new \in Generations(d) /\ k < d.rotations[r].new
                /\ \A o \in Generations(d) : o <= k \/ d.rotations[r].new <= o
                /\ d.keys[k].to = d.rotations[r].last
                /\ d.keys[d.rotations[r].new].from = d.rotations[r].last + 1
                /\ d.rotations[r].last <= Len(d.batches)
                /\ d.rotations[r].root = RootAt(d, d.rotations[r].last)
<1>1. LogInv(d) /\ k \in DOMAIN d.keys /\ k \notin GivenUp(d)
  BY DEF AtRest, Generations
<1>2. Held(d, k)
  BY <1>1, RestingGenerations
<1>3. active_key(d) \in DOMAIN d.keys /\ Held(d, active_key(d)) /\ k <= active_key(d)
  BY <1>1, <1>2, RestingKeys
<1>4. \A j \in DOMAIN d.keys : j \in Nat
  BY <1>1, DbFields DEF LogInv
<1>5. k < active_key(d)
  BY <1>1, <1>3, <1>4
<1>6. ~d.keys[k].active
  BY <1>1, RestingKeys, KeyHolder DEF AtRest
<1>7. d.keys[k].to # Open /\ ~d.keys[k].live
  BY <1>1, <1>2, <1>3, <1>5, <1>6 DEF LogInv, KeysHeld
<1>8. PICK r \in DOMAIN d.rotations : d.rotations[r].old = k /\ d.rotations[r].state = "FINALIZED"
  BY <1>1, <1>2, <1>6 DEF LogInv, RotationsKept
<1>9. RotationSays(d, r)
  BY <1>1 DEF LogInv, RotationsKept
<1>10. d.rotations[r].new \in DOMAIN d.keys /\ Held(d, d.rotations[r].new)
  BY <1>8, <1>9 DEF RotationSays
<1>11. d.rotations[r].new \in Generations(d)
  BY <1>10, RestingGenerations
<1>12. ASSUME NEW o \in Generations(d) PROVE o <= k \/ d.rotations[r].new <= o
  <2>1. o \in DOMAIN d.keys /\ o \notin GivenUp(d)
    BY DEF Generations
  <2>2. ~(k < o /\ o < d.rotations[r].new)
    BY <1>8, <1>9, <2>1 DEF RotationSays
  <2> QED
    BY <1>1, <1>4, <1>10, <2>1, <2>2
<1> QED
  BY <1>5, <1>7, <1>8, <1>9, <1>11, <1>12 DEF RotationSays

(* As many rotations were finalized as there are later generations.          *)
LEMMA RestingCount ==
    ASSUME NEW d, AtRest(d)
    PROVE  Cardinality({r \in DOMAIN d.rotations : d.rotations[r].state = "FINALIZED"})
             = Cardinality(Generations(d)) - 1
<1> DEFINE F == {r \in DOMAIN d.rotations : d.rotations[r].state = "FINALIZED"}
           G == Generations(d) \ {1}
           f == [r \in F |-> d.rotations[r].new]
<1>1. LogInv(d) /\ d.keys # <<>>
  BY DEF AtRest
<1>2. /\ Len(d.keys) \in Nat /\ DOMAIN d.keys = 1..Len(d.keys)
      /\ Len(d.rotations) \in Nat /\ DOMAIN d.rotations = 1..Len(d.rotations)
      /\ 1 \in DOMAIN d.keys
  BY <1>1, DbFields DEF LogInv, DbSet
<1>3. IsFiniteSet(Generations(d)) /\ IsFiniteSet(F)
  <2>1. IsFiniteSet(DOMAIN d.keys) /\ IsFiniteSet(DOMAIN d.rotations)
    BY <1>2, FS_Interval, SMTT(60)
  <2> QED
    BY <2>1, FS_Subset DEF Generations
<1>4. 1 \in Generations(d)
  BY <1>2, RestingGenerations DEF Held
<1>5. IsFiniteSet(G) /\ Cardinality(G) = Cardinality(Generations(d)) - 1
  BY <1>3, <1>4, FS_RemoveElement
<1>6. ASSUME NEW r \in F PROVE d.rotations[r].new \in G
  <2>1. RotationSays(d, r)
    BY <1>1 DEF LogInv, RotationsKept
  <2>2. /\ d.rotations[r].new \in DOMAIN d.keys /\ Held(d, d.rotations[r].new)
        /\ d.rotations[r].old \in DOMAIN d.keys /\ d.rotations[r].old < d.rotations[r].new
    BY <2>1 DEF RotationSays
  <2> QED
    BY <1>2, <2>2, RestingGenerations
<1>7. ASSUME NEW g \in G PROVE \E r \in F : d.rotations[r].new = g
  <2>1. g \in DOMAIN d.keys /\ g > 1
    BY <1>2 DEF Generations
  <2>2. Held(d, g)
    BY <2>1, RestingGenerations
  <2> QED
    BY <1>1, <2>1, <2>2, HandedOver
<1>8. \A q, r \in F : d.rotations[q].new = d.rotations[r].new => q = r
  BY <1>1 DEF LogInv, RotationsKept
<1>9. f \in Bijection(F, G)
  <2> HIDE DEF F, G
  <2>1. f \in [F -> G] /\ \A r \in F : f[r] = d.rotations[r].new
    BY <1>6
  <2> HIDE DEF f
  <2>2. f \in Injection(F, G)
    BY <1>8, <2>1 DEF Injection, IsInjective
  <2>3. f \in Surjection(F, G)
    BY <1>7, <2>1 DEF Surjection
  <2> QED
    BY <2>2, <2>3 DEF Bijection
<1>10. Cardinality(G) = Cardinality(F)
  <2> HIDE DEF F, G, f
  <2> QED
    BY <1>3, <1>9, FS_Bijection DEF ExistsBijection
<1> QED
  BY <1>5, <1>10

LEMMA RestingRotationsVerified ==
    ASSUME NEW d, AtRest(d), TransitionsAnchored(d)
    PROVE  RotationsVerified(d)
<1> DEFINE finalized == {r \in DOMAIN d.rotations : d.rotations[r].state = "FINALIZED"}
           Adjacent(k, l) ==
             l \in Generations(d) /\ k < l /\ \A o \in Generations(d) : o <= k \/ l <= o
           Joins(r, k) ==
             /\ d.rotations[r].old = k /\ Adjacent(k, d.rotations[r].new)
             /\ d.keys[k].to = d.rotations[r].last
             /\ d.keys[d.rotations[r].new].from = d.rotations[r].last + 1
             /\ d.rotations[r].last <= Len(d.batches)
             /\ d.rotations[r].root = RootAt(d, d.rotations[r].last)
           newest == active_key(d)
<1>1. LogInv(d) /\ d.keys # <<>>
  BY DEF AtRest
<1>2. 1 \in Generations(d) /\ d.keys[1].from = 0
  <2>1. 1 \in DOMAIN d.keys
    BY <1>1, DbFields DEF LogInv, DbSet
  <2> QED
    BY <1>1, <2>1, RestingGenerations DEF LogInv, KeysHeld, Held
<1>3. newest \in Generations(d) /\ ActiveKeys(d) = {newest} /\ d.keys[newest].to = Open
  BY RestingKeys, RestingGenerations
<1>4. \A k \in Generations(d) \ {newest} :
        /\ k < newest /\ d.keys[k].to # Open /\ ~d.keys[k].live
        /\ \E r \in finalized : Joins(r, k)
  BY RestingChain
<1>5. Cardinality(finalized) = Cardinality(Generations(d)) - 1
  BY RestingCount
<1> HIDE DEF newest
<1> QED
  BY <1>2, <1>3, <1>4, <1>5 DEF RotationsVerified

(* Where nothing was restored, the newest anchor is the newest batch, and  *)
(* the scope out there is held by the key in office.                        *)
RestsAnchored ==
  AtRest(db) /\ SinkInv /\ KnownBy(sink, db) /\ UnrestoredBy(sink, db)
    /\ Unanchored(db) = {} /\ db.keys[1].activated

LEMMA RestingTop ==
    ASSUME RestsAnchored
    PROVE  \E a \in sink.batches :
             /\ a.seq = Len(db.batches) /\ a.seq + 1 = Size
             /\ a.seq > 0 => a.body = db.batches[a.seq]
             /\ a.seq = 0 => a.body.signer = Fingerprint(db, 1)
<1>1. SinkInv /\ LogInv(db) /\ db.keys # <<>>
  BY DEF RestsAnchored, AtRest
<1>2. Anchor(0, Activation(db, 1)) \in sink.batches
  BY <1>1 DEF RestsAnchored, KnownBy
<1>3. PICK top \in sink.batches : top.seq = Size - 1
  BY <1>1, <1>2, NewestAnchor
<1>4. Size \in Nat \ {0} /\ \A a \in sink.batches : a.seq \in Nat /\ a.seq <= top.seq
  BY <1>1, <1>2, <1>3, NewestAnchor
<1>5. top.seq <= Len(db.batches) /\ Len(db.batches) \in Nat /\ DOMAIN db.batches = 1..Len(db.batches)
  BY <1>1, DbFields DEF RestsAnchored, UnrestoredBy, LogInv
<1>6. CASE Len(db.batches) = 0
  <2>1. top.seq = 0
    BY <1>4, <1>5, <1>6
  <2>2. top = Anchor(0, Activation(db, 1))
    BY <1>1, <1>2, <2>1 DEF SinkInv, Anchor
  <2>3. top.body.signer = Fingerprint(db, 1)
    BY <2>2 DEF Anchor, Activation
  <2> QED
    BY <1>3, <1>4, <1>6, <2>1, <2>3
<1>7. CASE Len(db.batches) > 0
  <2> DEFINE n == Len(db.batches)
  <2>1. Anchor(n, db.batches[n]) \in sink.batches
    BY <1>5, <1>7 DEF RestsAnchored, Unanchored, Anchored
  <2>2. n <= top.seq
    BY <1>4, <2>1 DEF Anchor
  <2>3. top.seq = n
    BY <1>4, <1>5, <2>2
  <2>4. top = Anchor(n, db.batches[n])
    BY <1>1, <2>1, <2>3 DEF SinkInv, Anchor
  <2>5. top.body = db.batches[n]
    BY <2>4 DEF Anchor
  <2> QED
    BY <1>3, <1>4, <1>7, <2>3, <2>5
<1> QED
  BY <1>5, <1>6, <1>7

(* The key that a transition behind the newest batch promoted is in office. *)
LEMMA MovedIsInOffice ==
    ASSUME RestsAnchored, NEW m \in sink.moves, m.seq = Len(db.batches)
    PROVE  m.new = Fingerprint(db, active_key(db))
<1> DEFINE A == active_key(db)
<1>1. AtRest(db) /\ LogInv(db) /\ Len(db.batches) \in Nat
  BY DbFields DEF RestsAnchored, AtRest, LogInv
<1>2. PICK r \in DOMAIN db.rotations :
        m = Transition(db, r) /\ db.rotations[r].state # "ABORTED"
  BY DEF RestsAnchored, UnrestoredBy
<1>3. RotationSays(db, r) /\ db.rotations[r].state = "FINALIZED"
  BY <1>1, <1>2, RestingRotations DEF LogInv, RotationsKept
<1> DEFINE k == db.rotations[r].new
<1>4. /\ k \in DOMAIN db.keys /\ Held(db, k) /\ db.rotations[r].old \in DOMAIN db.keys
      /\ db.rotations[r].old < k /\ db.keys[k].from = db.rotations[r].last + 1
  BY <1>3 DEF RotationSays
<1>5. m.seq = db.rotations[r].last /\ m.new = Fingerprint(db, k)
  BY <1>2 DEF Transition
<1>6. A \in DOMAIN db.keys /\ Held(db, A) /\ k <= A
  BY <1>1, <1>4, RestingKeys
<1>7. \A j \in DOMAIN db.keys :
        j \in Nat /\ j >= 1 /\ db.keys[j].from \in Nat /\ db.keys[j].to \in Nat \cup {Open}
  BY <1>1, DbFields DEF LogInv
<1>8. A > 1 => db.keys[A].from <= Len(db.batches) + 1
  BY <1>1, <1>6 DEF LogInv, KeysHeld
<1>9. k > 1
  BY <1>4, <1>7
<1>10. CASE k < A
  <2>1. db.keys[k].to # Open /\ db.keys[k].to < db.keys[A].from
    BY <1>1, <1>4, <1>6, <1>10 DEF LogInv, KeysHeld
  <2>2. db.keys[k].from <= db.keys[k].to
    BY <1>1, <1>4, <1>9, <2>1 DEF LogInv, KeysHeld
  <2>3. db.keys[k].to \in Nat /\ db.keys[k].from \in Nat /\ db.keys[A].from \in Nat
    BY <1>4, <1>6, <1>7, <2>1
  <2>4. A > 1 /\ db.keys[k].from = Len(db.batches) + 1
    BY <1>4, <1>5, <1>6, <1>7, <1>9, <1>10
  <2> QED
    BY <1>1, <1>8, <2>1, <2>2, <2>3, <2>4
<1>11. CASE k = A
  BY <1>5, <1>11
<1> QED
  BY <1>4, <1>6, <1>7, <1>10, <1>11

(* Where there is none, the key in office signed the newest batch.           *)
LEMMA SignerIsInOffice ==
    ASSUME RestsAnchored, \A m \in sink.moves : m.seq # Len(db.batches)
    PROVE  /\ Len(db.batches) = 0 => active_key(db) = 1
           /\ Len(db.batches) > 0 =>
                db.batches[Len(db.batches)].signer = Fingerprint(db, active_key(db))
<1> DEFINE A == active_key(db)
           n == Len(db.batches)
<1>1. AtRest(db) /\ LogInv(db) /\ n \in Nat /\ DOMAIN db.batches = 1..n
  BY DbFields DEF RestsAnchored, AtRest, LogInv
<1>2. A \in DOMAIN db.keys /\ Held(db, A) /\ \A k \in DOMAIN db.keys : Held(db, k) => k <= A
  BY <1>1, RestingKeys
<1>3. \A j \in DOMAIN db.keys :
        j \in Nat /\ j >= 1 /\ db.keys[j].from \in Nat /\ db.keys[j].to \in Nat \cup {Open}
  BY <1>1, DbFields DEF LogInv
<1>4. A > 1 => db.keys[A].from <= n
  <2>1. SUFFICES ASSUME A > 1 PROVE db.keys[A].from <= n
    OBVIOUS
  <2>2. PICK r \in DOMAIN db.rotations :
          /\ db.rotations[r].new = A /\ db.rotations[r].state = "FINALIZED"
          /\ db.keys[A].from = db.rotations[r].last + 1
          /\ db.rotations[r].last \in 0..n
    BY <1>1, <1>2, <2>1, HandedOver
  <2>3. Transition(db, r) \in sink.moves
    BY <2>2 DEF RestsAnchored, KnownBy
  <2>4. db.rotations[r].last # n
    BY <2>3 DEF Transition
  <2> QED
    BY <1>1, <2>2, <2>4
<1>5. n = 0 => A = 1
  <2>1. A > 1 => db.keys[A].from >= 1
    BY <1>1, <1>2 DEF LogInv, KeysHeld
  <2> QED
    BY <1>1, <1>2, <1>3, <1>4, <2>1
<1>6. ASSUME n > 0 PROVE db.batches[n].signer = Fingerprint(db, A)
  <2>1. PICK k \in DOMAIN db.keys :
          /\ Held(db, k) /\ db.batches[n].signer = Fingerprint(db, k)
          /\ key_authorizes_sequence(db.keys[k], n)
    <3>1. n \in DOMAIN db.batches /\ Signed(db)
      BY <1>1, <1>6 DEF LogInv
    <3> HIDE DEF n
    <3> QED
      BY <3>1 DEF Signed
  <2>2. k <= A
    BY <1>2, <2>1
  <2>3. CASE k < A
    <3>1. db.keys[k].to # Open /\ db.keys[k].to < db.keys[A].from
      BY <1>1, <1>2, <2>1, <2>3 DEF LogInv, KeysHeld
    <3>2. n <= db.keys[k].to
      BY <2>1, <3>1 DEF key_authorizes_sequence
    <3>3. A > 1
      BY <1>2, <1>3, <2>3
    <3>4. db.keys[A].from <= n
      BY <1>4, <3>3
    <3> QED
      BY <1>1, <1>2, <1>3, <3>1, <3>2, <3>4
  <2> QED
    BY <1>2, <1>3, <2>1, <2>2, <2>3
<1> QED
  BY <1>5, <1>6

LEMMA RestingHead ==
    ASSUME RestsAnchored
    PROVE  fetch_scope_head = [seq |-> Len(db.batches), root |-> scope_head(db).root,
                               signer |-> Fingerprint(db, active_key(db))]
<1> DEFINE n == Len(db.batches)
<1>1. SinkInv /\ LogInv(db) /\ db \in DbSet
  BY DEF RestsAnchored, AtRest, LogInv
<1>2. PICK a \in sink.batches :
        /\ a.seq = n /\ a.seq + 1 = Size
        /\ a.seq > 0 => a.body = db.batches[a.seq]
        /\ a.seq = 0 => a.body.signer = Fingerprint(db, 1)
  BY RestingTop
<1>3. /\ fetch_scope_head.seq = n
      /\ fetch_scope_head.root = IF n = 0 THEN {} ELSE a.body.leaves
      /\ \A m \in sink.moves : m.seq = n => fetch_scope_head.signer = m.new
      /\ (\A m \in sink.moves : m.seq # n) => fetch_scope_head.signer = a.body.signer
  BY <1>1, <1>2, HeadOutside
<1>4. n \in Nat
  BY <1>1, DbFields
<1>5. fetch_scope_head.root = scope_head(db).root
  <2>1. scope_head(db).root = RootAt(db, n)
    BY <1>1, HeadOfLog
  <2> QED
    BY <1>2, <1>3, <1>4, <2>1 DEF RootAt
<1>6. fetch_scope_head.signer = Fingerprint(db, active_key(db))
  <2>1. CASE \E m \in sink.moves : m.seq = n
    BY <1>3, <2>1, MovedIsInOffice
  <2>2. CASE \A m \in sink.moves : m.seq # n
    <3>1. CASE n = 0
      BY <1>2, <1>3, <2>2, <3>1, SignerIsInOffice
    <3>2. CASE n > 0
      BY <1>2, <1>3, <2>2, <3>2, SignerIsInOffice
    <3> QED
      BY <1>4, <3>1, <3>2
  <2> QED
    BY <2>1, <2>2
<1>7. fetch_scope_head = [seq |-> fetch_scope_head.seq, root |-> fetch_scope_head.root,
                          signer |-> fetch_scope_head.signer]
  BY <1>2 DEF fetch_scope_head
<1> QED
  BY <1>3, <1>5, <1>6, <1>7

(* Such a log passes.                                                        *)
LEMMA SettledPasses ==
    ASSUME AuditInv, Settled, epoch = 0, Unkeyed(db) \cap Visible(db) = {}
    PROVE  verify_audit_integrity(db)
<1>1. /\ LogInv(db) /\ SinkInv /\ KnownBy(sink, db) /\ UnrestoredBy(sink, db)
      /\ db \in DbSet /\ RowsSealed(db)
  BY DEF AuditInv, Outside, LogInv
<1>2. /\ ActiveKeys(db) # {} /\ db.keys[active_key(db)].pending = None
      /\ Unanchored(db) = {} /\ db.keys[1].activated
  BY DEF Settled, Idle, PendingRotation
<1>3. db.keys # <<>>
  BY <1>2 DEF ActiveKeys
<1>4. AtRest(db) /\ RestsAnchored
  BY <1>1, <1>2, <1>3 DEF AtRest, RestsAnchored
<1>5. \A i \in Visible(db) : i \in Nat /\ i >= 1
  BY <1>1, DbFields DEF Visible
<1>6. ClassifiedAttested(db)
  BY <1>5 DEF ClassifiedAttested, Unkeyed, Visible, Cutover
<1>7. validate_genesis_database(db, db.keys[1])
  <2>1. RowId(db, 1) \in db.keys[1].genesis
    BY <1>1, <1>3 DEF RowsSealed
  <2>2. \A i \in Visible(db) : db.rows[i].mac \/ i = 1
    BY <1>5, <1>6 DEF ClassifiedAttested, Cutover
  <2>3. db.keys[1].genesis \subseteq {RowId(db, i) : i \in Visible(db)}
    BY <1>1, <1>3 DEF RowsSealed
  <2> QED
    BY <2>1, <2>2, <2>3 DEF validate_genesis_database
<1>8. ActivationVerified(db)
  BY <1>1, <1>2, <1>3, <1>7 DEF ActivationVerified, ActivationAnchored, KnownBy
<1>9. TransitionsAnchored(db)
  BY <1>1 DEF TransitionsAnchored, KnownBy
<1>10. RotationsVerified(db)
  BY <1>4, <1>9, RestingRotationsVerified
<1>11. BatchesVerified(db)
  <2>1. \A b \in DOMAIN db.batches : db.batches[b].prev = RootAt(db, b - 1)
    BY <1>1 DEF RowsSealed
  <2>2. \A b \in DOMAIN db.batches : Verifies(db, b)
    BY <1>1 DEF LogInv, Signed, Verifies, KeyOf
  <2>3. \A b \in DOMAIN db.batches : Anchored(db, b)
    BY <1>2 DEF Unanchored
  <2>4. fetch_scope_head = [seq |-> Len(db.batches), root |-> scope_head(db).root,
                            signer |-> Fingerprint(db, active_key(db))]
    BY <1>4, RestingHead
  <2> QED
    BY <2>1, <2>2, <2>3, <2>4, Zenon DEF BatchesVerified
<1> QED
  BY <1>2, <1>6, <1>8, <1>10, <1>11 DEF verify_audit_integrity

LEMMA AuditInvHonest == AuditInv => VerdictHonest
  BY VerifiedMissesNothing, SettledPasses DEF VerdictHonest

(* The log keeps its history and the anchors one chain, through the steps  *)
(* of cycles, of rotations that are finalized or aborted, of deaths between *)
(* two steps, and of a restore of the database (batches.py, rotations.py,  *)
(* rotation_lifecycle.py, anchors_object_storage.py).                      *)
THEOREM AuditCorrect == Spec => []AuditInv
  BY AuditInit, AuditNext, PTL DEF Spec

(* A row is sealed by one batch at most, each batch was signed by the key  *)
(* entitled to its number, and the anchors outside the database are one    *)
(* chain without a gap or a fork (seal_scope, batch_envelope,              *)
(* key_authorizes_sequence, the sinks' publish and publish_rotation).      *)
THEOREM HistoryKept == Spec => []AuditChained
  BY AuditCorrect, AuditInvChains, PTL

(* A database that misses anything that was anchored never passes, however *)
(* it goes on after a restore; one that was never restored, holds no row   *)
(* without a MAC and is at rest, passes (verify_audit_log).                *)
THEOREM VerdictKept == Spec => []VerdictHonest
  BY AuditCorrect, AuditInvHonest, PTL
==============================================================================

---------------------------- MODULE StorageProofs ----------------------------
(***************************************************************************)
(* What lies in the bucket is what the rows say, and it is charged once: a *)
(* photograph promoted by any number of requests and swept by any number   *)
(* of sweeps, of any sizes and ages; any number of exports and processes,  *)
(* whatever fails or dies; any number of certificates and of processes     *)
(* that render them, while attendances are corrected and events cancelled; *)
(* any number of archives, as ArchiveProofs shows of the module by itself. *)
(***************************************************************************)
EXTENDS Background, Integers, Sequences, FiniteSetTheorems, SequenceTheorems, TLAPS

(* A step belongs to the component its behaviour started in. *)
LEMMA PartStep ==
    ASSUME [Next]_vars
    PROVE  /\ part' = part
           /\ part = "photo" => [Photo!Next]_Photo!vars
           /\ part = "exports" => [Exports!Next]_Exports!vars
           /\ part = "render" => [Render!Next]_Render!vars
           /\ part = "checkin" => [Checkin!Next]_Checkin!vars
           /\ part = "archiving" => [Backups!Next]_Backups!vars
  BY DEF Next, vars, photoVars, photoRest, deskVars, newerVars, exportVars, backupVars, Photo!vars,
     Photo!uploadVars, Photo!retentionVars, Photo!otherVars, Photo!callerVars, Photo!sweepVars,
     Photo!faults, Exports!vars, Render!vars, Checkin!vars, Backups!vars

-----------------------------------------------------------------------------
(* Photographs.                                                            *)

\* Requests that may still write the final object.
Working == {"claimed", "unstaged", "copying", "copied"}

\* The clock of the claim started no earlier than the photograph's.
AgesOrdered == photoAge < Photo!PhotoCap => uploadAge <= photoAge

\* While the upload URL works, one request at most is at work on the objects.
OnePromoter ==
    photoAge < PhotoTTL => \A c \in Callers : pc[c] \in Working =>
        /\ upload = "finalized" \/ (upload = "promoting" /\ promoter = c)
        /\ \A d \in Callers : pc[d] \in Working => d = c

\* A request that copies late copies what is there: the URL has expired, and
\* nobody can have changed the staging object.
CopiesAgain ==
    \A c \in Callers : pc[c] \in {"unstaged", "copying"} /\ final \in Sizes =>
        photoAge >= PhotoTTL /\ staging \in {Unused, final}

\* What a request validated is still there when it completes.
ResultBacked ==
    \A c \in Callers : pc[c] \in {"validated", "completing", "recovered"} /\ retention = "none" =>
        final \in Sizes /\ final = result[c]

\* Nothing is deleted before the photograph is claimed for expiry.
SweepsClaim ==
    \A w \in Sweepers : at[w] \notin {"idle", "listed"} => retention # "none"

\* The journal marker names the save that charged the row, which was the last.
ChargedLast == charged => upload = "finalized" /\ marker = version

EvidenceInv ==
    /\ Photo!TypeOK /\ AgesOrdered /\ OnePromoter /\ CopiesAgain /\ ResultBacked /\ SweepsClaim
    /\ ChargedLast /\ Photo!FinalizedBacked /\ Photo!QuotaExact

-----------------------------------------------------------------------------
(* The clock.                                                              *)

\* The caps of the ages lie above what the ages are compared with.
LEMMA Caps ==
    ASSUME Photo!EvidenceConstants
    PROVE  /\ Photo!AgeCap \in Nat /\ StaleAfter <= Photo!AgeCap
           /\ Photo!PhotoCap \in Nat /\ PhotoTTL <= Photo!PhotoCap
<1>1. PICK d \in Retentions : PhotoTTL <= d /\ \A e \in Retentions : e <= d
  BY DEF Photo!EvidenceConstants
<1> DEFINE longest == CHOOSE m \in Retentions : \A e \in Retentions : e <= m
<1>2. longest \in Retentions /\ \A e \in Retentions : e <= longest
  BY <1>1
<1>3. Photo!PhotoCap = longest + MaxSweep
  BY DEF Photo!PhotoCap
<1> HIDE DEF longest
<1>4. d <= longest /\ d \in Nat /\ longest \in Nat
  BY <1>1, <1>2 DEF Photo!EvidenceConstants
<1> QED
  BY <1>1, <1>3, <1>4 DEF Photo!EvidenceConstants, Photo!AgeCap

\* An age that grows stays within its cap.
LEMMA Ages ==
    ASSUME NEW cap \in Nat, NEW age \in 0..cap
    PROVE  /\ Photo!Older(age, cap) \in 0..cap /\ age <= Photo!Older(age, cap)
           /\ age < cap => Photo!Older(age, cap) = age + 1
           /\ Photo!Older(age, cap) <= age + 1
BY DEF Photo!Older

-----------------------------------------------------------------------------
(* Every step keeps the invariant.                                         *)

LEMMA InvInit ==
    ASSUME Photo!EvidenceConstants, Photo!Init
    PROVE  EvidenceInv
<1>1. Photo!TypeOK
  <2>1. pc \in [Callers -> Photo!Placed] /\ result \in [Callers -> Nat]
    BY DEF Photo!Init, Photo!Placed
  <2>2. uploadAge \in 0..Photo!AgeCap /\ photoAge \in 0..Photo!PhotoCap
    BY Caps DEF Photo!Init
  <2>3. {staging, final} \subseteq Sizes \cup {0, Unused}
    BY DEF Photo!Init
  <2> QED
    BY <2>1, <2>2, <2>3 DEF Photo!Init, Photo!TypeOK
<1>2. AgesOrdered /\ OnePromoter /\ CopiesAgain /\ ResultBacked /\ SweepsClaim
  <2>1. AgesOrdered
    BY DEF Photo!Init, AgesOrdered
  <2>2. OnePromoter /\ CopiesAgain /\ ResultBacked
    BY DEF Photo!Init, OnePromoter, CopiesAgain, ResultBacked, Working
  <2>3. SweepsClaim
    BY DEF Photo!Init, SweepsClaim
  <2> QED
    BY <2>1, <2>2, <2>3
<1>3. ChargedLast /\ Photo!FinalizedBacked /\ Photo!QuotaExact
  BY DEF Photo!Init, ChargedLast, Photo!FinalizedBacked, Photo!QuotaExact
<1> QED
  BY <1>1, <1>2, <1>3 DEF EvidenceInv

LEMMA CallerKeeps ==
    ASSUME Photo!EvidenceConstants, EvidenceInv, NEW c \in Callers, Photo!CallerStep(c) \/ Photo!StoreFails(c)
    PROVE  EvidenceInv'
<1> USE Caps DEF Photo!EvidenceConstants, EvidenceInv, Photo!TypeOK, AgesOrdered, OnePromoter,
        CopiesAgain, ResultBacked, SweepsClaim, ChargedLast, Photo!FinalizedBacked,
        Photo!QuotaExact, Working, Photo!Placed, Photo!Promoting, Photo!Goto, Photo!Hold,
        Photo!Stamp, Photo!Move, Photo!uploadVars, Photo!retentionVars, Photo!otherVars,
        Photo!callerVars, Photo!sweepVars, Photo!faults
<1>1. CASE Photo!ClaimPromotion(c)
  <2>1. Photo!TypeOK'
    BY <1>1 DEF Photo!ClaimPromotion, Photo!PromotionStale
  <2>2. AgesOrdered' /\ OnePromoter'
    BY <1>1 DEF Photo!ClaimPromotion, Photo!PromotionStale
  <2>3. CopiesAgain' /\ ResultBacked' /\ SweepsClaim'
    BY <1>1 DEF Photo!ClaimPromotion, Photo!PromotionStale
  <2>4. ChargedLast' /\ Photo!FinalizedBacked' /\ Photo!QuotaExact'
    BY <1>1 DEF Photo!ClaimPromotion, Photo!PromotionStale
  <2> QED
    BY <2>1, <2>2, <2>3, <2>4
<1>2. CASE Photo!CheckFinal(c)
  <2>1. Photo!TypeOK'
    BY <1>2, ZenonT(60) DEF Photo!CheckFinal
  <2>2. AgesOrdered' /\ OnePromoter'
    BY <1>2 DEF Photo!CheckFinal
  <2>3. CopiesAgain' /\ ResultBacked' /\ SweepsClaim'
    <3>1. CopiesAgain'
      BY <1>2 DEF Photo!CheckFinal
    <3>2. ResultBacked'
      BY <1>2 DEF Photo!CheckFinal
    <3> QED
      BY <1>2, <3>1, <3>2 DEF Photo!CheckFinal
  <2>4. ChargedLast' /\ Photo!FinalizedBacked' /\ Photo!QuotaExact'
    BY <1>2 DEF Photo!CheckFinal
  <2> QED
    BY <2>1, <2>2, <2>3, <2>4
<1>3. CASE Photo!CheckStaging(c)
  <2>1. Photo!TypeOK'
    BY <1>3 DEF Photo!CheckStaging
  <2>2. AgesOrdered' /\ OnePromoter'
    BY <1>3 DEF Photo!CheckStaging
  <2>3. CopiesAgain' /\ ResultBacked' /\ SweepsClaim'
    BY <1>3 DEF Photo!CheckStaging
  <2>4. ChargedLast' /\ Photo!FinalizedBacked' /\ Photo!QuotaExact'
    BY <1>3 DEF Photo!CheckStaging
  <2> QED
    BY <2>1, <2>2, <2>3, <2>4
<1>4. CASE Photo!copy_object(c)
  <2>1. Photo!TypeOK'
    BY <1>4 DEF Photo!copy_object
  <2>2. AgesOrdered' /\ OnePromoter'
    BY <1>4 DEF Photo!copy_object
  <2>3. CopiesAgain' /\ ResultBacked' /\ SweepsClaim'
    BY <1>4 DEF Photo!copy_object
  <2>4. ChargedLast' /\ Photo!FinalizedBacked' /\ Photo!QuotaExact'
    BY <1>4 DEF Photo!copy_object
  <2> QED
    BY <2>1, <2>2, <2>3, <2>4
<1>5. CASE Photo!ValidateFinal(c)
  <2>1. Photo!TypeOK'
    BY <1>5, ZenonT(60) DEF Photo!ValidateFinal
  <2>2. AgesOrdered' /\ OnePromoter'
    BY <1>5 DEF Photo!ValidateFinal
  <2>3. CopiesAgain' /\ ResultBacked' /\ SweepsClaim'
    BY <1>5, ZenonT(60) DEF Photo!ValidateFinal
  <2>4. ChargedLast' /\ Photo!FinalizedBacked' /\ Photo!QuotaExact'
    BY <1>5 DEF Photo!ValidateFinal
  <2> QED
    BY <2>1, <2>2, <2>3, <2>4
<1>6. CASE Photo!DeleteStaging(c)
  <2>1. Photo!TypeOK'
    BY <1>6 DEF Photo!DeleteStaging
  <2>2. AgesOrdered' /\ OnePromoter'
    BY <1>6 DEF Photo!DeleteStaging
  <2>3. CopiesAgain' /\ ResultBacked' /\ SweepsClaim'
    BY <1>6 DEF Photo!DeleteStaging
  <2>4. ChargedLast' /\ Photo!FinalizedBacked' /\ Photo!QuotaExact'
    BY <1>6 DEF Photo!DeleteStaging
  <2> QED
    BY <2>1, <2>2, <2>3, <2>4
<1>7. CASE Photo!CompletePromotion(c)
  <2>1. Photo!TypeOK'
    BY <1>7 DEF Photo!CompletePromotion
  <2>2. AgesOrdered' /\ OnePromoter'
    BY <1>7 DEF Photo!CompletePromotion
  <2>3. CopiesAgain' /\ ResultBacked' /\ SweepsClaim'
    BY <1>7 DEF Photo!CompletePromotion
  <2>4. ChargedLast' /\ Photo!FinalizedBacked' /\ Photo!QuotaExact'
    BY <1>7 DEF Photo!CompletePromotion
  <2> QED
    BY <2>1, <2>2, <2>3, <2>4
<1>8. CASE Photo!_release_claim(c)
  <2>1. Photo!TypeOK'
    BY <1>8 DEF Photo!_release_claim
  <2>2. AgesOrdered' /\ OnePromoter'
    BY <1>8 DEF Photo!_release_claim
  <2>3. CopiesAgain' /\ ResultBacked' /\ SweepsClaim'
    BY <1>8 DEF Photo!_release_claim
  <2>4. ChargedLast' /\ Photo!FinalizedBacked' /\ Photo!QuotaExact'
    BY <1>8 DEF Photo!_release_claim
  <2> QED
    BY <2>1, <2>2, <2>3, <2>4
<1>9. CASE Photo!RecoverOrWait(c)
  <2>1. Photo!TypeOK'
    BY <1>9, ZenonT(60) DEF Photo!RecoverOrWait
  <2>2. AgesOrdered' /\ OnePromoter'
    BY <1>9 DEF Photo!RecoverOrWait
  <2>3. CopiesAgain' /\ ResultBacked' /\ SweepsClaim'
    BY <1>9 DEF Photo!RecoverOrWait
  <2>4. ChargedLast' /\ Photo!FinalizedBacked' /\ Photo!QuotaExact'
    BY <1>9 DEF Photo!RecoverOrWait
  <2> QED
    BY <2>1, <2>2, <2>3, <2>4
<1>10. CASE Photo!Attach(c)
  <2>1. Photo!TypeOK'
    <3>1. used' \in Nat /\ version' \in Nat /\ uploadAge' \in 0..Photo!AgeCap
      BY <1>10 DEF Photo!Attach, Photo!charge_storage_once
    <3>2. pc' \in [Callers -> Photo!Placed] /\ result' \in [Callers -> Nat] /\ attached' \subseteq Callers
      BY <1>10 DEF Photo!Attach
    <3>3. charged' \in BOOLEAN
      BY <1>10, ZenonT(60) DEF Photo!Attach, Photo!charge_storage_once
    <3> QED
      BY <1>10, <3>1, <3>2, <3>3 DEF Photo!Attach
  <2>2. AgesOrdered' /\ OnePromoter'
    BY <1>10 DEF Photo!Attach, Photo!charge_storage_once, Photo!lock_evidence_for_attachment
  <2>3. CopiesAgain' /\ ResultBacked' /\ SweepsClaim'
    BY <1>10 DEF Photo!Attach, Photo!charge_storage_once, Photo!lock_evidence_for_attachment
  <2>4. ChargedLast' /\ Photo!FinalizedBacked' /\ Photo!QuotaExact'
    BY <1>10 DEF Photo!Attach, Photo!charge_storage_once, Photo!lock_evidence_for_attachment
  <2> QED
    BY <2>1, <2>2, <2>3, <2>4
<1>11. CASE Photo!StoreFails(c)
  <2>1. Photo!TypeOK'
    BY <1>11 DEF Photo!StoreFails
  <2>2. AgesOrdered' /\ OnePromoter'
    BY <1>11 DEF Photo!StoreFails
  <2>3. CopiesAgain' /\ ResultBacked' /\ SweepsClaim'
    BY <1>11 DEF Photo!StoreFails
  <2>4. ChargedLast' /\ Photo!FinalizedBacked' /\ Photo!QuotaExact'
    BY <1>11 DEF Photo!StoreFails
  <2> QED
    BY <2>1, <2>2, <2>3, <2>4
<1> QED
  BY <1>1, <1>2, <1>3, <1>4, <1>5, <1>6, <1>7, <1>8, <1>9, <1>10, <1>11 DEF Photo!CallerStep

LEMMA SweepKeeps ==
    ASSUME Photo!EvidenceConstants, EvidenceInv, NEW w \in Sweepers, Photo!SweepStep(w) \/ Photo!SweepFails(w)
    PROVE  EvidenceInv'
<1> USE Caps DEF Photo!EvidenceConstants, EvidenceInv, Photo!TypeOK, AgesOrdered, OnePromoter,
        CopiesAgain, ResultBacked, SweepsClaim, ChargedLast, Photo!FinalizedBacked,
        Photo!QuotaExact, Working, Photo!Placed, Photo!Promoting, Photo!Goto, Photo!Hold,
        Photo!Stamp, Photo!Move, Photo!uploadVars, Photo!retentionVars, Photo!otherVars,
        Photo!callerVars, Photo!sweepVars, Photo!faults
<1>1. CASE Photo!StartSweep(w)
  <2>1. Photo!TypeOK'
    BY <1>1 DEF Photo!StartSweep
  <2>2. AgesOrdered' /\ OnePromoter'
    BY <1>1 DEF Photo!StartSweep
  <2>3. CopiesAgain' /\ ResultBacked' /\ SweepsClaim'
    BY <1>1 DEF Photo!StartSweep
  <2>4. ChargedLast' /\ Photo!FinalizedBacked' /\ Photo!QuotaExact'
    BY <1>1 DEF Photo!StartSweep
  <2> QED
    BY <2>1, <2>2, <2>3, <2>4
<1>2. CASE Photo!ClaimExpiry(w)
  <2>1. Photo!TypeOK'
    BY <1>2 DEF Photo!ClaimExpiry
  <2>2. AgesOrdered' /\ OnePromoter'
    BY <1>2 DEF Photo!ClaimExpiry
  <2>3. CopiesAgain' /\ ResultBacked' /\ SweepsClaim'
    BY <1>2 DEF Photo!ClaimExpiry
  <2>4. ChargedLast' /\ Photo!FinalizedBacked' /\ Photo!QuotaExact'
    BY <1>2 DEF Photo!ClaimExpiry, Photo!Claimable
  <2> QED
    BY <2>1, <2>2, <2>3, <2>4
<1>3. CASE Photo!DeleteFinalStrict(w)
  <2>1. Photo!TypeOK'
    BY <1>3 DEF Photo!DeleteFinalStrict
  <2>2. AgesOrdered' /\ OnePromoter'
    BY <1>3 DEF Photo!DeleteFinalStrict
  <2>3. CopiesAgain' /\ ResultBacked' /\ SweepsClaim'
    BY <1>3 DEF Photo!DeleteFinalStrict
  <2>4. ChargedLast' /\ Photo!FinalizedBacked' /\ Photo!QuotaExact'
    BY <1>3 DEF Photo!DeleteFinalStrict
  <2> QED
    BY <2>1, <2>2, <2>3, <2>4
<1>4. CASE Photo!DeleteStagingStrict(w)
  <2>1. Photo!TypeOK'
    BY <1>4 DEF Photo!DeleteStagingStrict
  <2>2. AgesOrdered' /\ OnePromoter'
    BY <1>4 DEF Photo!DeleteStagingStrict
  <2>3. CopiesAgain' /\ ResultBacked' /\ SweepsClaim'
    BY <1>4 DEF Photo!DeleteStagingStrict
  <2>4. ChargedLast' /\ Photo!FinalizedBacked' /\ Photo!QuotaExact'
    BY <1>4 DEF Photo!DeleteStagingStrict
  <2> QED
    BY <2>1, <2>2, <2>3, <2>4
<1>5. CASE Photo!CompleteExpiry(w)
  <2>1. Photo!TypeOK'
    BY <1>5 DEF Photo!CompleteExpiry, Photo!proven_charge_bytes
  <2>2. AgesOrdered' /\ OnePromoter'
    BY <1>5 DEF Photo!CompleteExpiry, Photo!proven_charge_bytes
  <2>3. CopiesAgain' /\ ResultBacked' /\ SweepsClaim'
    BY <1>5 DEF Photo!CompleteExpiry, Photo!proven_charge_bytes
  <2>4. ChargedLast' /\ Photo!FinalizedBacked' /\ Photo!QuotaExact'
    BY <1>5 DEF Photo!CompleteExpiry, Photo!proven_charge_bytes
  <2> QED
    BY <2>1, <2>2, <2>3, <2>4
<1>6. CASE Photo!SweepFails(w)
  <2>1. Photo!TypeOK'
    BY <1>6 DEF Photo!SweepFails
  <2>2. AgesOrdered' /\ OnePromoter'
    BY <1>6 DEF Photo!SweepFails
  <2>3. CopiesAgain' /\ ResultBacked' /\ SweepsClaim'
    BY <1>6, ZenonT(60) DEF Photo!SweepFails
  <2>4. ChargedLast' /\ Photo!FinalizedBacked' /\ Photo!QuotaExact'
    BY <1>6 DEF Photo!SweepFails
  <2> QED
    BY <2>1, <2>2, <2>3, <2>4
<1> QED
  BY <1>1, <1>2, <1>3, <1>4, <1>5, <1>6 DEF Photo!SweepStep

LEMMA TickKeeps ==
    ASSUME Photo!EvidenceConstants, EvidenceInv, Photo!Tick
    PROVE  EvidenceInv'
<1> USE Caps DEF Photo!EvidenceConstants, EvidenceInv, Photo!TypeOK, AgesOrdered, OnePromoter,
        CopiesAgain, ResultBacked, SweepsClaim, ChargedLast, Photo!FinalizedBacked,
        Photo!QuotaExact, Working, Photo!Placed, Photo!Promoting, Photo!Goto, Photo!Hold,
        Photo!Stamp, Photo!Move, Photo!uploadVars, Photo!retentionVars, Photo!otherVars,
        Photo!callerVars, Photo!sweepVars, Photo!faults
<1>1. /\ uploadAge' \in 0..Photo!AgeCap /\ uploadAge' <= uploadAge + 1
      /\ photoAge' \in 0..Photo!PhotoCap /\ photoAge <= photoAge'
      /\ photoAge < Photo!PhotoCap => photoAge' = photoAge + 1
  BY Ages DEF Photo!Tick
<1>2. Photo!TypeOK'
  BY <1>1 DEF Photo!Tick
<1>3. AgesOrdered'
  BY <1>1
<1>4. OnePromoter' /\ CopiesAgain'
  BY <1>1 DEF Photo!Tick
<1>5. ResultBacked' /\ SweepsClaim' /\ ChargedLast' /\ Photo!FinalizedBacked' /\ Photo!QuotaExact'
  BY DEF Photo!Tick
<1> QED
  BY <1>2, <1>3, <1>4, <1>5

LEMMA WorldKeeps ==
    ASSUME Photo!EvidenceConstants, EvidenceInv,
           \/ Photo!Crash
           \/ \E content \in Sizes \cup {0} : Photo!Put(content)
           \/ \E d \in Retentions : Photo!update_policy(d)
    PROVE  EvidenceInv'
<1> USE Caps DEF Photo!EvidenceConstants, EvidenceInv, Photo!TypeOK, AgesOrdered, OnePromoter,
        CopiesAgain, ResultBacked, SweepsClaim, ChargedLast, Photo!FinalizedBacked,
        Photo!QuotaExact, Working, Photo!Placed, Photo!Promoting, Photo!Goto, Photo!Hold,
        Photo!Stamp, Photo!Move, Photo!uploadVars, Photo!retentionVars, Photo!otherVars,
        Photo!callerVars, Photo!sweepVars, Photo!faults
<1>1. CASE Photo!Crash
  <2>1. Photo!TypeOK'
    BY <1>1 DEF Photo!Crash
  <2>2. AgesOrdered' /\ OnePromoter'
    BY <1>1 DEF Photo!Crash
  <2>3. CopiesAgain' /\ ResultBacked' /\ SweepsClaim'
    BY <1>1 DEF Photo!Crash
  <2>4. ChargedLast' /\ Photo!FinalizedBacked' /\ Photo!QuotaExact'
    BY <1>1 DEF Photo!Crash
  <2> QED
    BY <2>1, <2>2, <2>3, <2>4
<1>2. ASSUME NEW content \in Sizes \cup {0}, Photo!Put(content)
      PROVE  EvidenceInv'
  <2>1. Photo!TypeOK'
    BY <1>2 DEF Photo!Put
  <2>2. AgesOrdered' /\ OnePromoter'
    BY <1>2 DEF Photo!Put
  <2>3. CopiesAgain' /\ ResultBacked' /\ SweepsClaim'
    BY <1>2 DEF Photo!Put
  <2>4. ChargedLast' /\ Photo!FinalizedBacked' /\ Photo!QuotaExact'
    BY <1>2 DEF Photo!Put
  <2> QED
    BY <2>1, <2>2, <2>3, <2>4
<1>3. ASSUME NEW d \in Retentions, Photo!update_policy(d)
      PROVE  EvidenceInv'
  <2>1. Photo!TypeOK'
    BY <1>3 DEF Photo!update_policy
  <2>2. AgesOrdered' /\ OnePromoter'
    BY <1>3 DEF Photo!update_policy
  <2>3. CopiesAgain' /\ ResultBacked' /\ SweepsClaim'
    BY <1>3 DEF Photo!update_policy
  <2>4. ChargedLast' /\ Photo!FinalizedBacked' /\ Photo!QuotaExact'
    BY <1>3 DEF Photo!update_policy
  <2> QED
    BY <2>1, <2>2, <2>3, <2>4
<1> QED
  BY <1>1, <1>2, <1>3

LEMMA InvStep ==
    ASSUME Photo!EvidenceConstants, EvidenceInv, [Photo!Next]_Photo!vars
    PROVE  EvidenceInv'
<1>1. CASE UNCHANGED Photo!vars
  BY <1>1 DEF Photo!vars, Photo!uploadVars, Photo!retentionVars, Photo!otherVars,
     Photo!callerVars, Photo!sweepVars, Photo!faults, EvidenceInv, Photo!TypeOK, AgesOrdered,
     OnePromoter, CopiesAgain, ResultBacked, SweepsClaim, ChargedLast, Photo!FinalizedBacked,
     Photo!QuotaExact, Photo!proven_charge_bytes
<1> QED
  BY <1>1, TickKeeps, WorldKeeps, CallerKeeps, SweepKeeps DEF Photo!Next

\* The invariant holds of any number of requests and sweeps: in particular a
\* request that copies late finds the staging object as it was
\* (finalization._promote), and a sweep deletes only what it claimed.
THEOREM EvidenceCorrect == Spec => [](part = "photo" => EvidenceInv)
<1>1. Init => (part = "photo" => EvidenceInv)
  BY InvInit, PhotoAssumption DEF Init
<1>2. (part = "photo" => EvidenceInv) /\ [Next]_vars => (part = "photo" => EvidenceInv)'
  BY InvStep, PartStep, PhotoAssumption
<1> QED
  BY <1>1, <1>2, PTL DEF Spec

\* From the moment the row says FINALIZED until a sweep claims the photograph,
\* the final object is there with the recorded size (finalization.py), and the
\* storage counter is the size of the charged and not yet expired photograph
\* (charge_storage_once, services_retention._complete).
THEOREM PhotographsStayExact == Spec => []PhotographsExact
<1>1. (part = "photo" => EvidenceInv) => PhotographsExact
  BY DEF EvidenceInv, PhotographsExact, Photo!PhotographsExact
<1> QED
  BY <1>1, EvidenceCorrect, PTL

\* A workflow commits with a photograph only while its bytes exist
\* (lock_evidence_for_attachment), although it looked at them before its
\* transaction began.
THEOREM AttachedWhileBacked == Spec => AttachmentBacked
<1>1. (part = "photo" => EvidenceInv) /\ [Next]_vars
      => [part = "photo" => Photo!AttachesBytes]_vars
  <2> SUFFICES ASSUME EvidenceInv, part = "photo", [Photo!Next]_Photo!vars
               PROVE  Photo!AttachesBytes
    BY PartStep
  <2> SUFFICES ASSUME attached' # attached PROVE final \in Sizes
    BY DEF Photo!AttachesBytes
  <2>1. Photo!Next
    BY DEF Photo!vars, Photo!otherVars
  <2>2. PICK c \in Callers : Photo!Attach(c)
    BY <2>1 DEF Photo!Next, Photo!Tick, Photo!Crash, Photo!Put, Photo!update_policy,
       Photo!CallerStep, Photo!ClaimPromotion, Photo!CheckFinal, Photo!CheckStaging,
       Photo!copy_object, Photo!ValidateFinal, Photo!DeleteStaging, Photo!CompletePromotion,
       Photo!_release_claim, Photo!RecoverOrWait, Photo!StoreFails, Photo!SweepStep,
       Photo!StartSweep, Photo!ClaimExpiry, Photo!DeleteFinalStrict, Photo!DeleteStagingStrict,
       Photo!CompleteExpiry, Photo!SweepFails, Photo!otherVars
  <2>3. upload = "finalized" /\ retention = "none"
    BY <2>2 DEF Photo!Attach, Photo!lock_evidence_for_attachment, Photo!charge_storage_once
  <2> QED
    BY <2>3 DEF EvidenceInv, Photo!FinalizedBacked
<1> QED
  BY <1>1, EvidenceCorrect, PTL DEF Spec, AttachmentBacked

-----------------------------------------------------------------------------
(* Exports.                                                                *)

JobStatus == {"absent", "pending", "running", "available", "failed", "purged"}
JobRow == [status : JobStatus, late : BOOLEAN, expired : BOOLEAN, accounted : 0..1,
           link : {"none", "issued", "used"}]
\* The pc of a process between its claim and the end of its run.
Producing == {"building", "uploading", "uploaded", "failing", "cleaning"}
ProcPc == {"idle", "expiring", "purging", "recovering", "freeing"} \cup Producing
ProcRow == [task : {"none", "run", "sweep"}, pc : ProcPc, job : ExportJobs \cup {Unused}]

ExportTypes ==
    /\ jobs \in [ExportJobs -> JobRow]
    /\ procs \in [Exporters -> ProcRow]
    /\ \A p \in Exporters : procs[p].pc # "idle" => procs[p].job \in ExportJobs

\* A job has one producer at most: none before it is claimed, and a redelivered
\* message starts no second one.
OneProducer ==
    \A p \in Exporters : procs[p].pc \in Producing =>
        /\ jobs[procs[p].job].status \notin {"absent", "pending"}
        /\ \A q \in Exporters : procs[q].pc \in Producing /\ procs[q].job = procs[p].job => q = p

\* The lock on the object of a job.
LockExclusive ==
    \A p, q \in Exporters :
        /\ procs[p].pc \in Exports!LockHeld /\ procs[q].pc \in Exports!LockHeld
        /\ procs[p].job = procs[q].job
        => p = q

\* What a process at work on a job knows of its row and of its archive.
WorkKnows ==
    \A p \in Exporters :
        /\ procs[p].pc = "uploading" => jobs[procs[p].job].status \in {"running", "failed"}
        /\ procs[p].pc = "uploaded" /\ jobs[procs[p].job].status = "running" =>
              procs[p].job \in objects
        /\ procs[p].pc = "cleaning" => jobs[procs[p].job].status = "failed"
        /\ procs[p].pc \in {"expiring", "recovering"} =>
              jobs[procs[p].job].status \in {"failed", "purged"}
        /\ procs[p].pc = "freeing" =>
              /\ jobs[procs[p].job].status \in {"available", "failed"}
              /\ jobs[procs[p].job].expired
              /\ procs[p].job \notin objects

\* A job is charged when it becomes available and only then, where the limit
\* is the one it was charged under.
Charged ==
    /\ limited = TRUE
    /\ debited \subseteq ExportJobs /\ IsFiniteSet(debited)
    /\ \A j \in ExportJobs :
          /\ j \in debited <=> jobs[j].accounted = 1
          /\ jobs[j].status = "available" => j \in debited
          /\ j \in debited => jobs[j].status \in {"available", "purged"}
    /\ Exports!ExportsCharged

\* The exports that were debited and not given back.
Held == {j \in debited : jobs[j].status # "purged"}

Handled == ExportTypes /\ OneProducer /\ LockExclusive /\ WorkKnows /\ Exports!ExportsHeld
ExportInv == Handled /\ Charged

LEMMA HeldCounted ==
    /\ Exports!ExportsCharged <=> stored = Cardinality(Held)
    /\ Exports!ExportsCharged' <=> stored' = Cardinality(Held')
<1>1. \A S : Exports!Cardinality(S) = Cardinality(S)
  BY DEF Exports!Cardinality, Cardinality
<1> QED
  BY <1>1 DEF Exports!ExportsCharged, Held

LEMMA ExportInit == ASSUME Exports!Init PROVE ExportInv
<1>1. jobs \in [ExportJobs -> JobRow]
  BY DEF Exports!Init, JobRow, JobStatus
<1>2. procs \in [Exporters -> ProcRow] /\ \A p \in Exporters : procs[p].pc = "idle"
  BY DEF Exports!Init, Exports!Idle, ProcRow, ProcPc
<1>3. ExportTypes /\ OneProducer /\ LockExclusive /\ WorkKnows
  BY <1>1, <1>2 DEF ExportTypes, OneProducer, LockExclusive, WorkKnows, Producing,
     Exports!LockHeld
<1>4. \A j \in ExportJobs : jobs[j].status = "absent" /\ jobs[j].accounted = 0
  BY DEF Exports!Init
<1>5. Exports!ExportsHeld
  BY <1>4 DEF Exports!ExportsHeld
<1>6. debited = {} /\ stored = 0 /\ limited = TRUE
  BY DEF Exports!Init
<1>7. Held = {}
  BY <1>6 DEF Held
<1>8. Exports!ExportsCharged
  BY <1>6, <1>7, FS_EmptySet, HeldCounted
<1> QED
  BY <1>3, <1>4, <1>5, <1>6, <1>8, FS_EmptySet DEF ExportInv, Handled, Charged

-----------------------------------------------------------------------------
(* What a step may do to the rows and the archives, whoever takes it.      *)

\* A row goes from here to there.
Moves == {<<"absent", "pending">>, <<"pending", "running">>, <<"pending", "failed">>,
          <<"running", "failed">>, <<"running", "available">>, <<"available", "purged">>,
          <<"failed", "purged">>}

\* Charges are kept when no row is charged or purged.
LEMMA ChargedKept ==
    ASSUME ExportInv, UNCHANGED <<stored, debited, limited>>,
           \A j \in ExportJobs :
              /\ jobs'[j].accounted = jobs[j].accounted
              /\ jobs'[j].status = jobs[j].status
                 \/ (jobs[j].status \in {"absent", "pending", "running"}
                     /\ jobs'[j].status \notin {"available", "purged"})
    PROVE  Charged'
<1>1. Held' = Held
  BY DEF ExportInv, Charged, Held
<1>2. Exports!ExportsCharged'
  BY <1>1, HeldCounted DEF ExportInv, Charged, Held, Exports!ExportsCharged
<1> QED
  BY <1>2 DEF ExportInv, Charged

\* What a request, a member or the clock does to a row.
LEMMA RowMoves ==
    ASSUME ExportInv, NEW j \in ExportJobs, NEW row \in JobRow,
           jobs' = [jobs EXCEPT ![j] = row],
           \/ row.status = jobs[j].status
           \/ jobs[j].status = "absent" /\ row.status = "pending"
           \/ jobs[j].status = "pending" /\ row.status = "failed",
           jobs[j].expired => row.expired,
           row.accounted = jobs[j].accounted,
           UNCHANGED <<procs, objects, stored, debited, limited>>
    PROVE  ExportInv'
<1> USE DEF ExportInv, Handled
<1>1. jobs \in [ExportJobs -> JobRow] /\ procs \in [Exporters -> ProcRow]
      /\ jobs'[j] = row /\ \A k \in ExportJobs : k # j => jobs'[k] = jobs[k]
  BY DEF ExportTypes
<1>2. ExportTypes'
  BY DEF ExportTypes
<1>3. OneProducer'
  BY <1>1 DEF ExportTypes, OneProducer, Producing
<1>4. LockExclusive'
  BY DEF LockExclusive
<1>5. WorkKnows'
  BY <1>1 DEF ExportTypes, WorkKnows, OneProducer, Producing, JobRow
<1>6. Exports!ExportsHeld'
  BY <1>1 DEF Exports!ExportsHeld, JobRow
<1>7. Charged'
  BY <1>1, ChargedKept
<1> QED
  BY <1>2, <1>3, <1>4, <1>5, <1>6, <1>7

\* What a process may do: it goes from one place to the next, on one job.
Advances(p, j, row, new) ==
    /\ procs[p].pc = "idle" \/ procs[p].job = j
    /\ new.pc # "idle" => new.job = j
    /\ procs' = [procs EXCEPT ![p] = new]
    /\ jobs' = [jobs EXCEPT ![j] = row]
    /\ objects' \ {j} = objects \ {j}
    /\ row.expired = jobs[j].expired
    \* A producer starts with the claim, and the lock is taken when it is free.
    /\ new.pc \in Producing =>
          \/ procs[p].pc \in Producing
          \/ jobs[j].status = "pending" /\ row.status = "running"
    /\ new.pc \in Exports!LockHeld =>
          procs[p].pc \in Exports!LockHeld \/ Exports!export_object_lock(j)
    \* Who may change the row, and who the archive.
    /\ \/ row.status = jobs[j].status
       \/ jobs[j].status = "pending" /\ row.status \in {"running", "failed"}
       \/ jobs[j].status = "running" /\ row.status = "failed"
       \/ jobs[j].status = "running" /\ row.status = "available" /\ procs[p].pc = "uploaded"
          /\ j \in objects'
       \/ row.status = "purged" /\ procs[p].pc = "freeing" /\ j \notin objects'
    /\ j \in objects' /\ j \notin objects => procs[p].pc = "uploading"
    /\ j \notin objects' /\ j \in objects =>
          \/ procs[p].pc \in {"cleaning", "recovering"}
          \/ jobs[j].expired /\ Exports!export_object_lock(j) /\ row.status # "running"
    \* What it knows where it arrives.
    /\ new.pc = "uploading" => row.status \in {"running", "failed"}
    /\ new.pc = "uploaded" => j \in objects'
    /\ new.pc = "cleaning" => row.status = "failed"
    /\ new.pc \in {"expiring", "recovering"} => row.status \in {"failed", "purged"}
    /\ new.pc = "freeing" =>
          row.status \in {"available", "failed"} /\ row.expired /\ j \notin objects'

LEMMA ProcMoves ==
    ASSUME ExportInv, NEW p \in Exporters, NEW j \in ExportJobs, NEW row \in JobRow,
           NEW new \in ProcRow, Advances(p, j, row, new)
    PROVE  Handled'
<1> USE DEF ExportInv, Handled, Advances
<1>1. /\ jobs \in [ExportJobs -> JobRow] /\ procs \in [Exporters -> ProcRow]
      /\ jobs'[j] = row /\ \A k \in ExportJobs : k # j => jobs'[k] = jobs[k]
      /\ procs'[p] = new /\ \A q \in Exporters : q # p => procs'[q] = procs[q]
      /\ \A k \in ExportJobs : k # j => (k \in objects' <=> k \in objects)
      /\ \A q \in Exporters : procs[q].pc # "idle" => procs[q].job \in ExportJobs
  BY DEF ExportTypes
<1>2. ExportTypes'
  BY <1>1 DEF ExportTypes
<1>3. OneProducer'
  BY <1>1 DEF OneProducer, Producing, ProcRow, JobRow
<1>4. LockExclusive'
  BY <1>1 DEF LockExclusive, Exports!export_object_lock, Exports!LockHeld
<1>5. WorkKnows'
  <2>1. ASSUME NEW q \in Exporters, q # p, procs[q].pc # "idle", procs[q].job = j
        PROVE  /\ procs[q].pc = "uploading" => row.status \in {"running", "failed"}
               /\ procs[q].pc = "uploaded" /\ row.status = "running" => j \in objects'
               /\ procs[q].pc = "cleaning" => row.status = "failed"
               /\ procs[q].pc \in {"expiring", "recovering"} => row.status \in {"failed", "purged"}
               /\ procs[q].pc = "freeing" =>
                     row.status \in {"available", "failed"} /\ row.expired /\ j \notin objects'
    BY <1>1, <2>1 DEF WorkKnows, OneProducer, LockExclusive, Producing, Exports!LockHeld,
       Exports!export_object_lock
  <2> QED
    BY <1>1, <2>1 DEF WorkKnows
<1>6. Exports!ExportsHeld'
  BY <1>1 DEF Exports!ExportsHeld, WorkKnows, OneProducer, Producing, JobRow
<1> QED
  BY <1>2, <1>3, <1>4, <1>5, <1>6

-----------------------------------------------------------------------------
(* The operations.                                                         *)

\* Requests, downloads and the clock.
LEMMA RequestKeeps ==
    ASSUME ExportInv, NEW j \in ExportJobs,
           \/ Exports!Asked(j) \/ Exports!DeadlinePasses(j) \/ Exports!Expires(j)
           \/ Exports!issue_download_token(j) \/ Exports!consume_download_token(j)
    PROVE  ExportInv'
<1>1. jobs \in [ExportJobs -> JobRow] /\ jobs[j] \in JobRow
  BY DEF ExportInv, Handled, ExportTypes
<1>2. CASE UNCHANGED <<jobs, procs, objects, stored, debited, limited>>
  BY <1>2 DEF ExportInv, Handled, ExportTypes, OneProducer, LockExclusive, WorkKnows,
     Exports!ExportsHeld, Charged, Exports!ExportsCharged
<1>3. CASE /\ UNCHANGED <<procs, objects, stored, debited, limited>>
           /\ \E row \in JobRow :
                /\ jobs' = [jobs EXCEPT ![j] = row]
                /\ \/ row.status = jobs[j].status
                   \/ jobs[j].status = "absent" /\ row.status = "pending"
                   \/ jobs[j].status = "pending" /\ row.status = "failed"
                /\ jobs[j].expired => row.expired
                /\ row.accounted = jobs[j].accounted
  BY <1>3, RowMoves
<1>4. CASE Exports!create_export_job(j)
  <2>1. jobs' = [jobs EXCEPT ![j] = [jobs[j] EXCEPT !.status = "pending"]]
    BY <1>1, <1>4 DEF Exports!create_export_job
  <2>2. [jobs[j] EXCEPT !.status = "pending"] \in JobRow
    BY <1>1 DEF JobRow, JobStatus
  <2> QED
    BY <1>1, <1>3, <1>4, <2>1, <2>2 DEF Exports!create_export_job, Exports!quota, JobRow
<1>5. CASE Exports!delay(j) \/ Exports!RequestDies(j)
  BY <1>2, <1>5 DEF Exports!delay, Exports!RequestDies, Exports!quota
<1>6. CASE Exports!fail_dispatch(j)
  <2>1. CASE jobs[j].status = "pending"
    <3>1. jobs' = [jobs EXCEPT ![j] = [jobs[j] EXCEPT !.status = "failed", !.link = "none"]]
      BY <1>1, <1>6, <2>1 DEF Exports!fail_dispatch, Exports!_mark_failed_locked
    <3>2. [jobs[j] EXCEPT !.status = "failed", !.link = "none"] \in JobRow
      BY <1>1 DEF JobRow, JobStatus
    <3> QED
      BY <1>1, <1>3, <1>6, <2>1, <3>1, <3>2 DEF Exports!fail_dispatch, Exports!quota, JobRow
  <2>2. CASE jobs[j].status # "pending"
    BY <1>2, <1>6, <2>2 DEF Exports!fail_dispatch, Exports!quota
  <2> QED
    BY <2>1, <2>2
<1>7. CASE Exports!DeadlinePasses(j)
  <2>1. jobs' = [jobs EXCEPT ![j] = [jobs[j] EXCEPT !.late = TRUE]]
    BY <1>1, <1>7 DEF Exports!DeadlinePasses
  <2>2. [jobs[j] EXCEPT !.late = TRUE] \in JobRow
    BY <1>1 DEF JobRow
  <2> QED
    BY <1>1, <1>3, <1>7, <2>1, <2>2 DEF Exports!DeadlinePasses, Exports!quota, JobRow
<1>8. CASE Exports!Expires(j)
  <2>1. jobs' = [jobs EXCEPT ![j] = [jobs[j] EXCEPT !.expired = TRUE]]
    BY <1>1, <1>8 DEF Exports!Expires
  <2>2. [jobs[j] EXCEPT !.expired = TRUE] \in JobRow
    BY <1>1 DEF JobRow
  <2> QED
    BY <1>1, <1>3, <1>8, <2>1, <2>2 DEF Exports!Expires, Exports!quota, JobRow
<1>9. CASE Exports!issue_download_token(j) \/ Exports!consume_download_token(j)
  <2>1. PICK l \in {"issued", "used"} : jobs' = [jobs EXCEPT ![j] = [jobs[j] EXCEPT !.link = l]]
    BY <1>1, <1>9 DEF Exports!issue_download_token, Exports!consume_download_token
  <2>2. [jobs[j] EXCEPT !.link = l] \in JobRow
    BY <1>1 DEF JobRow
  <2> QED
    BY <1>1, <1>3, <1>9, <2>1, <2>2 DEF Exports!issue_download_token,
       Exports!consume_download_token, Exports!quota, JobRow
<1> QED
  BY <1>4, <1>5, <1>6, <1>7, <1>8, <1>9 DEF Exports!Asked

(* How a process goes on, and what it does to the row of its job.          *)
LEMMA Goes ==
    ASSUME ExportInv, NEW p \in Exporters, NEW to \in ProcPc, Exports!goes(p, to)
    PROVE  \E new \in ProcRow : /\ procs' = [procs EXCEPT ![p] = new]
                                /\ new.pc = to /\ new.job = procs[p].job
<1>1. procs \in [Exporters -> ProcRow]
  BY DEF ExportInv, Handled, ExportTypes
<1>2. procs' = [procs EXCEPT ![p] = [procs[p] EXCEPT !.pc = to]]
  BY <1>1 DEF Exports!goes
<1>3. [procs[p] EXCEPT !.pc = to] \in ProcRow
  BY <1>1 DEF ProcRow
<1> QED
  BY <1>1, <1>2, <1>3 DEF ProcRow

LEMMA Returns ==
    ASSUME NEW p \in Exporters, procs' = [procs EXCEPT ![p] = Exports!Idle]
    PROVE  \E new \in ProcRow : procs' = [procs EXCEPT ![p] = new] /\ new.pc = "idle"
<1>1. Exports!Idle \in ProcRow /\ Exports!Idle.pc = "idle"
  BY DEF Exports!Idle, ProcRow, ProcPc
<1> QED
  BY <1>1

LEMMA Starts ==
    ASSUME NEW p \in Exporters, NEW j \in ExportJobs, NEW task \in {"run", "sweep"},
           NEW to \in ProcPc, Exports!starts(p, task, to, j)
    PROVE  /\ procs[p].pc = "idle"
           /\ \E new \in ProcRow : /\ procs' = [procs EXCEPT ![p] = new]
                                   /\ new.pc = to /\ new.job = j
<1>1. [task |-> task, pc |-> to, job |-> j] \in ProcRow
  BY DEF ProcRow
<1> QED
  BY <1>1 DEF Exports!starts

LEMMA Fails ==
    ASSUME ExportInv, NEW j \in ExportJobs, Exports!_mark_failed_locked(j)
    PROVE  \E row \in JobRow : /\ jobs' = [jobs EXCEPT ![j] = row]
                               /\ row.status = "failed"
                               /\ row.expired = jobs[j].expired
                               /\ row.accounted = jobs[j].accounted
<1>1. jobs \in [ExportJobs -> JobRow] /\ jobs[j] \in JobRow
  BY DEF ExportInv, Handled, ExportTypes
<1>2. jobs' = [jobs EXCEPT ![j] = [jobs[j] EXCEPT !.status = "failed", !.link = "none"]]
  BY <1>1 DEF Exports!_mark_failed_locked
<1>3. [jobs[j] EXCEPT !.status = "failed", !.link = "none"] \in JobRow
  BY <1>1 DEF JobRow, JobStatus
<1> QED
  BY <1>1, <1>2, <1>3 DEF JobRow

LEMMA Stays ==
    ASSUME ExportInv, NEW j \in ExportJobs, UNCHANGED jobs
    PROVE  \E row \in JobRow : row = jobs[j] /\ jobs' = [jobs EXCEPT ![j] = row]
<1>1. jobs \in [ExportJobs -> JobRow] /\ jobs[j] \in JobRow
  BY DEF ExportInv, Handled, ExportTypes
<1> QED
  BY <1>1

(* A process that charges nothing and purges nothing.                      *)
LEMMA ProcKeeps ==
    ASSUME ExportInv, NEW j \in ExportJobs, NEW row \in JobRow, jobs' = [jobs EXCEPT ![j] = row],
           row.accounted = jobs[j].accounted,
           \/ row.status = jobs[j].status
           \/ jobs[j].status \in {"absent", "pending", "running"}
              /\ row.status \notin {"available", "purged"},
           UNCHANGED <<stored, debited, limited>>
    PROVE  Charged'
<1>1. jobs \in [ExportJobs -> JobRow]
  BY DEF ExportInv, Handled, ExportTypes
<1> QED
  BY <1>1, ChargedKept

(* Claims: the producer's and the sweep's.                                 *)
LEMMA ClaimKeeps ==
    ASSUME ExportInv, NEW p \in Exporters, NEW j \in ExportJobs,
           Exports!_claim_job(p, j) \/ Exports!recover_expired_job(p, j)
    PROVE  ExportInv'
<1>1. /\ jobs \in [ExportJobs -> JobRow] /\ jobs[j] \in JobRow
      /\ UNCHANGED <<objects, stored, debited, limited>>
  BY DEF ExportInv, Handled, ExportTypes, Exports!_claim_job, Exports!recover_expired_job,
     Exports!recover_when, Exports!quota
<1>2. ASSUME jobs[j].status = "running", Exports!_mark_failed_locked(j),
             NEW task \in {"run", "sweep"}, Exports!starts(p, task, "expiring", j)
      PROVE  ExportInv'
  <2>1. PICK row \in JobRow : /\ jobs' = [jobs EXCEPT ![j] = row]
                              /\ row.status = "failed" /\ row.expired = jobs[j].expired
                              /\ row.accounted = jobs[j].accounted
    BY <1>2, Fails
  <2>2. procs[p].pc = "idle" /\ "expiring" \in ProcPc
    BY <1>2 DEF Exports!starts, ProcPc
  <2>3. PICK new \in ProcRow : procs' = [procs EXCEPT ![p] = new] /\ new.pc = "expiring" /\ new.job = j
    BY <1>2, <2>2, Starts
  <2>4. Handled'
    BY <1>1, <1>2, <2>1, <2>2, <2>3, ProcMoves DEF Advances, Producing, Exports!LockHeld
  <2>5. Charged'
    BY <1>1, <1>2, <2>1, ProcKeeps
  <2> QED
    BY <2>4, <2>5 DEF ExportInv
<1>3. ASSUME jobs[j].status = "pending", Exports!starts(p, "run", "building", j),
             jobs' = [jobs EXCEPT ![j].status = "running"]
      PROVE  ExportInv'
  <2>1. /\ [jobs[j] EXCEPT !.status = "running"] \in JobRow
        /\ jobs' = [jobs EXCEPT ![j] = [jobs[j] EXCEPT !.status = "running"]]
    BY <1>1, <1>3 DEF JobRow, JobStatus
  <2>2. PICK row \in JobRow : /\ jobs' = [jobs EXCEPT ![j] = row]
                              /\ row.status = "running" /\ row.expired = jobs[j].expired
                              /\ row.accounted = jobs[j].accounted
    BY <1>1, <2>1 DEF JobRow
  <2>3. procs[p].pc = "idle" /\ "building" \in ProcPc
    BY <1>3 DEF Exports!starts, ProcPc, Producing
  <2>4. PICK new \in ProcRow : procs' = [procs EXCEPT ![p] = new] /\ new.pc = "building" /\ new.job = j
    BY <1>3, <2>3, Starts
  <2>5. Handled'
    <3>1. new.pc \in Producing /\ new.pc \notin Exports!LockHeld
      BY <2>4 DEF Producing, Exports!LockHeld
    <3>2. /\ new.pc \notin {"idle", "uploading", "uploaded", "cleaning", "expiring", "recovering", "freeing"}
          /\ objects' = objects
      BY <1>1, <2>4
    <3> QED
      BY <1>3, <2>2, <2>3, <2>4, <3>1, <3>2, ProcMoves, ZenonT(60) DEF Advances
  <2>6. Charged'
    BY <1>1, <1>3, <2>2, ProcKeeps
  <2> QED
    BY <2>5, <2>6 DEF ExportInv
<1>4. ASSUME jobs[j].status = "pending", Exports!_mark_failed_locked(j), UNCHANGED procs
      PROVE  ExportInv'
  <2>1. PICK row \in JobRow : /\ jobs' = [jobs EXCEPT ![j] = row]
                              /\ row.status = "failed" /\ row.expired = jobs[j].expired
                              /\ row.accounted = jobs[j].accounted
    BY <1>4, Fails
  <2> QED
    BY <1>1, <1>4, <2>1, RowMoves
<1>5. ASSUME UNCHANGED <<jobs, procs>>
      PROVE  ExportInv'
  BY <1>1, <1>5 DEF ExportInv, Handled, ExportTypes, OneProducer, LockExclusive, WorkKnows,
     Exports!ExportsHeld, Charged, Exports!ExportsCharged
<1>6. ASSUME Exports!starts(p, "sweep", "purging", j), UNCHANGED jobs
      PROVE  ExportInv'
  <2>1. PICK row \in JobRow : row = jobs[j] /\ jobs' = [jobs EXCEPT ![j] = row]
    BY <1>6, Stays
  <2>2. procs[p].pc = "idle" /\ "purging" \in ProcPc
    BY <1>6 DEF Exports!starts, ProcPc
  <2>3. PICK new \in ProcRow : procs' = [procs EXCEPT ![p] = new] /\ new.pc = "purging" /\ new.job = j
    BY <1>6, <2>2, Starts
  <2>4. Handled'
    BY <1>1, <2>1, <2>2, <2>3, ProcMoves DEF Advances, Producing, Exports!LockHeld
  <2>5. Charged'
    BY <1>1, <2>1, ProcKeeps
  <2> QED
    BY <2>4, <2>5 DEF ExportInv
<1>7. CASE Exports!_claim_job(p, j)
  BY <1>2, <1>3, <1>4, <1>5, <1>7 DEF Exports!_claim_job, Exports!Overdue
<1>8. CASE Exports!recover_expired_job(p, j)
  BY <1>2, <1>6, <1>8 DEF Exports!recover_expired_job, Exports!recover_when, Exports!Overdue
<1> QED
  BY <1>7, <1>8

(* A step of a process that leaves the rows alone, or fails its job.       *)
Proceeds(p, to) ==
    LET j == procs[p].job IN
    /\ Exports!goes(p, to) \/ (to = "idle" /\ procs' = [procs EXCEPT ![p] = Exports!Idle])
    /\ UNCHANGED <<stored, debited, limited>>
    /\ objects' \ {j} = objects \ {j}
    /\ \/ UNCHANGED jobs
       \/ /\ Exports!_mark_failed_locked(j) /\ jobs[j].status \in {"pending", "running"}
          /\ to # "uploaded"
    /\ to \in Producing => procs[p].pc \in Producing
    /\ to \in Exports!LockHeld =>
          procs[p].pc \in Exports!LockHeld \/ Exports!export_object_lock(j)
    /\ j \in objects' /\ j \notin objects => procs[p].pc = "uploading"
    /\ j \notin objects' /\ j \in objects =>
          \/ procs[p].pc \in {"cleaning", "recovering"}
          \/ jobs[j].expired /\ Exports!export_object_lock(j) /\ jobs[j].status # "running"
    /\ to = "uploading" => jobs'[j].status \in {"running", "failed"}
    /\ to = "uploaded" => j \in objects'
    /\ to = "cleaning" => jobs'[j].status = "failed"
    /\ to \in {"expiring", "recovering"} => jobs'[j].status \in {"failed", "purged"}
    /\ to = "freeing" =>
          jobs'[j].status \in {"available", "failed"} /\ jobs[j].expired /\ j \notin objects'

LEMMA PlaceKeeps ==
    ASSUME ExportInv, NEW p \in Exporters, procs[p].pc # "idle", NEW to \in ProcPc, Proceeds(p, to)
    PROVE  ExportInv'
<1>1. PICK j \in ExportJobs : j = procs[p].job
  BY DEF ExportInv, Handled, ExportTypes
<1>2. jobs \in [ExportJobs -> JobRow] /\ jobs[j] \in JobRow
  BY DEF ExportInv, Handled, ExportTypes
<1>3. PICK row \in JobRow :
        /\ jobs' = [jobs EXCEPT ![j] = row] /\ row.expired = jobs[j].expired
        /\ row.accounted = jobs[j].accounted
        /\ \/ row.status = jobs[j].status
           \/ jobs[j].status \in {"pending", "running"} /\ row.status = "failed"
  BY <1>1, Stays, Fails DEF Proceeds
<1>4. PICK new \in ProcRow :
        procs' = [procs EXCEPT ![p] = new] /\ new.pc = to /\ (to # "idle" => new.job = j)
  BY <1>1, Goes, Returns DEF Proceeds
<1>5. jobs'[j] = row
  BY <1>2, <1>3
<1>6. Handled'
  <2>1. /\ new.pc # "idle" => new.job = j
        /\ procs[p].job = j /\ objects' \ {j} = objects \ {j} /\ row.expired = jobs[j].expired
        /\ new.pc \in Producing => procs[p].pc \in Producing
        /\ new.pc \in Exports!LockHeld =>
              procs[p].pc \in Exports!LockHeld \/ Exports!export_object_lock(j)
        /\ j \in objects' /\ j \notin objects => procs[p].pc = "uploading"
    BY <1>1, <1>3, <1>4 DEF Proceeds
  <2>2. /\ new.pc = "uploading" => row.status \in {"running", "failed"}
        /\ new.pc = "uploaded" => j \in objects'
        /\ new.pc = "cleaning" => row.status = "failed"
        /\ new.pc \in {"expiring", "recovering"} => row.status \in {"failed", "purged"}
        /\ new.pc = "freeing" =>
              row.status \in {"available", "failed"} /\ row.expired /\ j \notin objects'
    BY <1>1, <1>3, <1>4, <1>5 DEF Proceeds
  <2>3. j \notin objects' /\ j \in objects =>
              \/ procs[p].pc \in {"cleaning", "recovering"}
              \/ jobs[j].expired /\ Exports!export_object_lock(j) /\ row.status # "running"
    BY <1>1, <1>3 DEF Proceeds
  <2>4. /\ new.pc \in Producing =>
              \/ procs[p].pc \in Producing
              \/ jobs[j].status = "pending" /\ row.status = "running"
        /\ \/ row.status = jobs[j].status
           \/ jobs[j].status = "pending" /\ row.status \in {"running", "failed"}
           \/ jobs[j].status = "running" /\ row.status = "failed"
           \/ jobs[j].status = "running" /\ row.status = "available" /\ procs[p].pc = "uploaded"
              /\ j \in objects'
           \/ row.status = "purged" /\ procs[p].pc = "freeing" /\ j \notin objects'
    BY <1>3, <2>1
  <2>5. /\ procs' = [procs EXCEPT ![p] = new] /\ jobs' = [jobs EXCEPT ![j] = row]
        /\ procs[p].pc = "idle" \/ procs[p].job = j
    BY <1>3, <1>4, <2>1
  <2>6. Advances(p, j, row, new)
    BY <2>1, <2>2, <2>3, <2>4, <2>5 DEF Advances
  <2> QED
    BY <2>6, ProcMoves
<1>7. Charged'
  BY <1>3, ProcKeeps DEF Proceeds
<1> QED
  BY <1>6, <1>7 DEF ExportInv

\* The places of a process, in the lemmas' terms.
LEMMA Places ==
    /\ ProcPc = {"idle", "expiring", "purging", "recovering", "freeing", "building",
                 "uploading", "uploaded", "failing", "cleaning"}
    /\ Exports!LockHeld = {"uploading", "cleaning", "recovering", "freeing"}
    /\ Producing = {"building", "uploading", "uploaded", "failing", "cleaning"}
  BY DEF ProcPc, Producing, Exports!LockHeld

\* A process without a job is in no list of messages either.
LEMMA Returning ==
    ASSUME NEW p, Exports!returns(p)
    PROVE  procs' = [procs EXCEPT ![p] = Exports!Idle]
  BY DEF Exports!returns

(* The producer and the sweep at work, and deaths.                         *)
LEMMA WorkKeeps ==
    ASSUME ExportInv, NEW p \in Exporters,
           \/ Exports!build_archive(p) \/ Exports!_upload_archive_bytes(p)
           \/ Exports!_fail_job(p) \/ Exports!FailureCleanup(p) \/ Exports!RecoveryLock(p)
           \/ Exports!RecoveryCleanup(p) \/ Exports!purge_expired_job(p) \/ Exports!Dies(p)
    PROVE  ExportInv'
<1>1. SUFFICES \E to \in ProcPc : procs[p].pc # "idle" /\ Proceeds(p, to)
  BY PlaceKeeps
<1>2. PICK j \in ExportJobs \cup {Unused} : j = procs[p].job
  BY DEF ExportInv, Handled, ExportTypes, ProcRow
<1>3. CASE Exports!build_archive(p)
  <2>1. PICK to \in {"uploading", "failing"} :
          /\ Exports!goes(p, to) /\ procs[p].pc = "building"
          /\ to = "uploading" => Exports!export_object_lock(j) /\ jobs[j].status = "running"
          /\ UNCHANGED <<jobs, objects, stored, debited, limited>>
    BY <1>2, <1>3 DEF Exports!build_archive, Exports!require_running, Exports!quota
  <2> QED
    BY <1>2, <2>1, Places DEF Proceeds
<1>4. CASE Exports!_upload_archive_bytes(p)
  <2>1. PICK to \in {"uploaded", "failing"} :
          /\ Exports!goes(p, to) /\ procs[p].pc = "uploading"
          /\ objects' = IF to = "uploaded" THEN objects \cup {j} ELSE objects
          /\ UNCHANGED <<jobs, stored, debited, limited>>
    BY <1>2, <1>4 DEF Exports!_upload_archive_bytes, Exports!quota
  <2> QED
    BY <1>2, <2>1, Places DEF Proceeds
<1>5. CASE Exports!_fail_job(p)
  <2>1. /\ procs[p].pc = "failing" /\ Exports!export_object_lock(j)
        /\ UNCHANGED <<objects, stored, debited, limited>>
    BY <1>2, <1>5 DEF Exports!_fail_job, Exports!quota
  <2>2. CASE jobs[j].status \in {"running", "failed"}
    <3>1. /\ Exports!goes(p, "cleaning")
          /\ \/ jobs[j].status = "running" /\ Exports!_mark_failed_locked(j)
             \/ jobs[j].status = "failed" /\ UNCHANGED jobs
      BY <1>2, <1>5, <2>2 DEF Exports!_fail_job
    <3>2. jobs'[j].status = "failed"
      BY <1>2, <2>1, <3>1, Fails DEF ExportInv, Handled, ExportTypes
    <3> QED
      BY <1>2, <2>1, <3>1, <3>2, Places DEF Proceeds
  <2>3. CASE jobs[j].status \notin {"running", "failed"}
    <3>1. procs' = [procs EXCEPT ![p] = Exports!Idle] /\ UNCHANGED jobs
      BY <1>2, <1>5, <2>3 DEF Exports!_fail_job, Exports!returns
    <3> QED
      BY <1>2, <2>1, <3>1, Places DEF Proceeds
  <2> QED
    BY <2>2, <2>3
<1>6. CASE Exports!FailureCleanup(p)
  <2>1. /\ procs[p].pc = "cleaning" /\ objects' \in {objects, objects \ {j}}
        /\ procs' = [procs EXCEPT ![p] = Exports!Idle]
        /\ UNCHANGED <<jobs, stored, debited, limited>>
    BY <1>2, <1>6 DEF Exports!FailureCleanup, Exports!delete_object, Exports!returns,
       Exports!quota
  <2> QED
    BY <1>2, <2>1, Places DEF Proceeds
<1>7. CASE Exports!RecoveryLock(p)
  <2>1. procs[p].pc = "expiring" /\ UNCHANGED <<jobs, objects, stored, debited, limited>>
    BY <1>7 DEF Exports!RecoveryLock, Exports!quota
  <2>2. jobs[j].status \in {"failed", "purged"}
    BY <1>2, <2>1 DEF ExportInv, Handled, WorkKnows
  <2>3. \/ Exports!export_object_lock(j) /\ Exports!goes(p, "recovering")
        \/ Exports!goes(p, "purging")
        \/ procs' = [procs EXCEPT ![p] = Exports!Idle]
    BY <1>2, <1>7 DEF Exports!RecoveryLock, Exports!Recovered, Exports!returns
  <2> QED
    BY <1>2, <2>1, <2>2, <2>3, Places DEF Proceeds
<1>8. CASE Exports!RecoveryCleanup(p)
  <2>1. /\ procs[p].pc = "recovering" /\ objects' \in {objects, objects \ {j}}
        /\ Exports!goes(p, "purging") \/ procs' = [procs EXCEPT ![p] = Exports!Idle]
        /\ UNCHANGED <<jobs, stored, debited, limited>>
    BY <1>2, <1>8 DEF Exports!RecoveryCleanup, Exports!delete_object, Exports!Recovered,
       Exports!returns, Exports!quota
  <2> QED
    BY <1>2, <2>1, Places DEF Proceeds
<1>9. CASE Exports!purge_expired_job(p)
  <2>1. procs[p].pc = "purging" /\ UNCHANGED <<stored, debited, limited>>
    BY <1>9 DEF Exports!purge_expired_job, Exports!quota
  <2>2. CASE /\ Exports!export_object_lock(j) /\ jobs[j].expired
             /\ jobs[j].status \in Exports!Live \ {"running"}
    <3>1. /\ \/ jobs[j].status = "pending" /\ Exports!_mark_failed_locked(j)
             \/ jobs[j].status \in {"available", "failed"} /\ UNCHANGED jobs
          /\ \/ objects' = objects \ {j} /\ Exports!goes(p, "freeing")
             \/ objects' = objects /\ procs' = [procs EXCEPT ![p] = Exports!Idle]
      BY <1>2, <1>9, <2>2 DEF Exports!purge_expired_job, Exports!delete_object, Exports!returns,
         Exports!Live
    <3>2. jobs'[j].status \in {"available", "failed"}
      BY <1>1, <1>2, <2>1, <3>1, Fails DEF ExportInv, Handled, ExportTypes
    <3> QED
      BY <1>2, <2>1, <2>2, <3>1, <3>2, Places DEF Proceeds
  <2>3. CASE ~(/\ Exports!export_object_lock(j) /\ jobs[j].expired
               /\ jobs[j].status \in Exports!Live \ {"running"})
    <3>1. procs' = [procs EXCEPT ![p] = Exports!Idle] /\ UNCHANGED <<jobs, objects>>
      BY <1>2, <1>9, <2>3 DEF Exports!purge_expired_job, Exports!returns
    <3> QED
      BY <1>2, <2>1, <3>1, Places DEF Proceeds
  <2> QED
    BY <2>2, <2>3
<1>10. CASE Exports!Dies(p)
  BY <1>2, <1>10, Places DEF Proceeds, Exports!Dies, Exports!quota
<1> QED
  BY <1>3, <1>4, <1>5, <1>6, <1>7, <1>8, <1>9, <1>10

(* The one step that charges.                                              *)
LEMMA FinalizeKeeps ==
    ASSUME ExportInv, NEW p \in Exporters, Exports!_finalize_job(p)
    PROVE  ExportInv'
<1>1. procs[p].pc = "uploaded" /\ UNCHANGED <<objects, limited>>
  BY DEF Exports!_finalize_job, Exports!finalize_when
<1>2. PICK j \in ExportJobs : j = procs[p].job
  BY <1>1 DEF ExportInv, Handled, ExportTypes
<1>3. CASE Exports!goes(p, "failing") /\ UNCHANGED <<jobs, stored, debited>>
  <2>1. Proceeds(p, "failing") /\ "failing" \in ProcPc
    BY <1>1, <1>3, Places DEF Proceeds
  <2> QED
    BY <1>1, <2>1, PlaceKeeps
<1>4. ASSUME Exports!require_running(j),
             jobs' = [jobs EXCEPT ![j].status = "available", ![j].accounted = 1],
             stored' = IF limited THEN stored + 1 ELSE stored,
             debited' = IF limited THEN debited \cup {j} ELSE debited,
             procs' = [procs EXCEPT ![p] = Exports!Idle]
      PROVE  ExportInv'
  <2>1. jobs \in [ExportJobs -> JobRow] /\ jobs[j] \in JobRow /\ jobs[j].status = "running"
    BY <1>4 DEF ExportInv, Handled, ExportTypes, Exports!require_running
  <2>2. PICK row \in JobRow : /\ jobs' = [jobs EXCEPT ![j] = row] /\ row.status = "available"
                              /\ row.accounted = 1 /\ row.expired = jobs[j].expired
    <3>1. jobs' = [jobs EXCEPT ![j] = [jobs[j] EXCEPT !.status = "available", !.accounted = 1]]
      BY <1>4, <2>1
    <3>2. [jobs[j] EXCEPT !.status = "available", !.accounted = 1] \in JobRow
      <4>1. 1 \in 0..1 /\ "available" \in JobStatus
        BY DEF JobStatus
      <4> QED
        BY <2>1, <4>1 DEF JobRow
    <3> QED
      BY <2>1, <3>1, <3>2 DEF JobRow
  <2>3. PICK new \in ProcRow : procs' = [procs EXCEPT ![p] = new] /\ new.pc = "idle"
    BY <1>4, Returns
  <2>4. j \in objects
    BY <1>1, <1>2, <2>1 DEF ExportInv, Handled, WorkKnows
  <2>5. Advances(p, j, row, new)
    BY <1>1, <1>2, <2>1, <2>2, <2>3, <2>4, Places DEF Advances
  <2>6. Handled'
    BY <2>5, ProcMoves
  <2>7. /\ limited = TRUE /\ debited \subseteq ExportJobs /\ IsFiniteSet(debited)
        /\ stored = Cardinality(Held) /\ j \notin debited
    BY <2>1, HeldCounted DEF ExportInv, Charged
  <2>8. Held' = Held \cup {j} /\ j \notin Held /\ IsFiniteSet(Held)
    <3>1. Held' = Held \cup {j} /\ j \notin Held /\ Held \subseteq debited
      BY <1>4, <2>1, <2>2, <2>7 DEF Held
    <3> QED
      BY <2>7, <3>1, FS_Subset
  <2>9. stored' = Cardinality(Held')
    BY <1>4, <2>7, <2>8, FS_AddElement
  <2>10. IsFiniteSet(debited') /\ debited' = debited \cup {j}
    BY <1>4, <2>7, FS_AddElement
  <2>11. Exports!ExportsCharged'
    BY <2>9, HeldCounted
  <2>12. \A k \in ExportJobs :
           /\ k \in debited' <=> jobs'[k].accounted = 1
           /\ jobs'[k].status = "available" => k \in debited'
           /\ k \in debited' => jobs'[k].status \in {"available", "purged"}
    BY <2>1, <2>2, <2>10 DEF ExportInv, Charged
  <2> QED
    BY <1>1, <2>6, <2>7, <2>10, <2>11, <2>12 DEF ExportInv, Charged
<1> QED
  BY <1>1, <1>2, <1>3, <1>4 DEF Exports!_finalize_job, Exports!finalize_when, Exports!returns

(* The one step that gives back.                                           *)
LEMMA PurgeKeeps ==
    ASSUME ExportInv, NEW p \in Exporters, Exports!PurgeRow(p)
    PROVE  ExportInv'
<1>1. procs[p].pc = "freeing" /\ UNCHANGED <<objects, debited, limited>>
      /\ procs' = [procs EXCEPT ![p] = Exports!Idle]
  BY DEF Exports!PurgeRow, Exports!returns
<1>2. PICK j \in ExportJobs : j = procs[p].job
  BY <1>1 DEF ExportInv, Handled, ExportTypes
<1>3. /\ jobs \in [ExportJobs -> JobRow] /\ jobs[j] \in JobRow
      /\ jobs[j].status \in {"available", "failed"} /\ j \notin objects
  BY <1>1, <1>2 DEF ExportInv, Handled, ExportTypes, WorkKnows
<1>4. PICK row \in JobRow : /\ jobs' = [jobs EXCEPT ![j] = row] /\ row.status = "purged"
                            /\ row.accounted = jobs[j].accounted /\ row.expired = jobs[j].expired
  <2>1. /\ [jobs[j] EXCEPT !.status = "purged", !.link = "none"] \in JobRow
        /\ jobs' = [jobs EXCEPT ![j] = [jobs[j] EXCEPT !.status = "purged", !.link = "none"]]
    BY <1>2, <1>3 DEF JobRow, JobStatus, Exports!PurgeRow
  <2> QED
    BY <1>3, <2>1 DEF JobRow
<1>5. PICK new \in ProcRow : procs' = [procs EXCEPT ![p] = new] /\ new.pc = "idle"
  BY <1>1, Returns
<1>6. Advances(p, j, row, new)
  BY <1>1, <1>2, <1>3, <1>4, <1>5, Places DEF Advances
<1>7. Handled'
  BY <1>6, ProcMoves
<1>8. /\ limited = TRUE /\ debited \subseteq ExportJobs /\ IsFiniteSet(debited)
      /\ stored = Cardinality(Held) /\ jobs[j].accounted \in 0..1
      /\ j \in debited <=> jobs[j].accounted = 1
  BY <1>3, HeldCounted DEF ExportInv, Charged, JobRow
<1>9. /\ Held' = Held \ {j} /\ IsFiniteSet(Held)
      /\ j \in Held <=> jobs[j].accounted = 1
  <2>1. /\ Held' = Held \ {j} /\ Held \subseteq debited
        /\ j \in Held <=> jobs[j].accounted = 1
    BY <1>1, <1>3, <1>4, <1>8 DEF Held
  <2> QED
    BY <1>8, <2>1, FS_Subset
<1>10. stored' = Cardinality(Held')
  <2>1. /\ Cardinality(Held) \in Nat
        /\ Cardinality(Held \ {j}) = IF j \in Held THEN Cardinality(Held) - 1 ELSE Cardinality(Held)
        /\ IsFiniteSet(Held \ {j})
    BY <1>9, FS_RemoveElement, FS_CardinalityType
  <2>2. Cardinality(Held \ {j}) \in Nat
    BY <2>1, FS_CardinalityType
  <2>3. stored' = IF stored < jobs[j].accounted THEN 0 ELSE stored - jobs[j].accounted
    BY <1>2 DEF Exports!PurgeRow
  <2> QED
    BY <1>8, <1>9, <2>1, <2>2, <2>3
<1>11. Exports!ExportsCharged'
  BY <1>10, HeldCounted
<1>12. \A k \in ExportJobs :
         /\ k \in debited' <=> jobs'[k].accounted = 1
         /\ jobs'[k].status = "available" => k \in debited'
         /\ k \in debited' => jobs'[k].status \in {"available", "purged"}
  BY <1>1, <1>3, <1>4 DEF ExportInv, Charged
<1> QED
  BY <1>1, <1>7, <1>8, <1>11, <1>12 DEF ExportInv, Charged

LEMMA ExportStep ==
    ASSUME MaxLimits = 0, ExportInv, limitings = 0, [Exports!Next]_Exports!vars
    PROVE  ExportInv' /\ limitings' = 0
<1>1. CASE UNCHANGED Exports!vars
  BY <1>1 DEF Exports!vars, ExportInv, Handled, ExportTypes, OneProducer, LockExclusive,
     WorkKnows, Exports!ExportsHeld, Charged, Exports!ExportsCharged
<1>2. ~Exports!ChangeLimit
  BY DEF Exports!ChangeLimit
<1>3. CASE Exports!Next
  <2>1. ExportInv'
    BY <1>2, <1>3, RequestKeeps, ClaimKeeps, WorkKeeps, FinalizeKeeps, PurgeKeeps
       DEF Exports!Next, Exports!Works
  <2>2. limitings' = limitings
    BY <1>2, <1>3 DEF Exports!Next, Exports!Works, Exports!Asked, Exports!create_export_job,
       Exports!delay, Exports!fail_dispatch, Exports!RequestDies, Exports!DeadlinePasses,
       Exports!Expires, Exports!issue_download_token, Exports!consume_download_token,
       Exports!_claim_job, Exports!recover_expired_job, Exports!recover_when,
       Exports!build_archive, Exports!_upload_archive_bytes, Exports!_finalize_job,
       Exports!finalize_when, Exports!_fail_job, Exports!FailureCleanup, Exports!RecoveryLock,
       Exports!RecoveryCleanup, Exports!purge_expired_job, Exports!PurgeRow, Exports!Dies,
       Exports!quota
  <2> QED
    BY <2>1, <2>2
<1> QED
  BY <1>1, <1>3

\* An export that can be downloaded has its archive, whichever of its worker, a
\* redelivery and a sweep came first; a purged row left none behind
\* (upload_archive, _finalize_job, purge_expired_job).  And storage_bytes_used is
\* what was debited for the exports that still exist, as long as the storage limit
\* is not lifted or set meanwhile.
THEOREM ExportsAlwaysAccounted == ASSUME MaxLimits = 0 PROVE Spec => []ExportsAccounted
<1>1. Init => (part = "exports" => ExportInv /\ limitings = 0)
  BY ExportInit DEF Init, Exports!Init
<1>2. (part = "exports" => ExportInv /\ limitings = 0) /\ [Next]_vars
      => (part = "exports" => ExportInv /\ limitings = 0)'
  BY ExportStep, PartStep
<1>3. (part = "exports" => ExportInv /\ limitings = 0) => ExportsAccounted
  BY DEF ExportInv, Handled, Charged, ExportsAccounted
<1> QED
  BY <1>1, <1>2, <1>3, PTL DEF Spec

-----------------------------------------------------------------------------
(* Certificates.                                                           *)

CertRow == [status : {"pending", "rendering", "active", "failed", "revoked"}, rendered : BOOLEAN]
Rendered == {c \in Render!Issued : Render!Cert(c).rendered}

\* A certificate is rendered when it is issued and not before, and what was
\* issued is only ever revoked.
RowsSound ==
    /\ certificate \in [Attendees -> Seq(CertRow)]
    /\ \A c \in Render!Issued :
          /\ Render!Cert(c).status = "active" => Render!Cert(c).rendered
          /\ Render!Cert(c).rendered => Render!Cert(c).status \in {"active", "revoked"}

\* Processes and callbacks work on certificates that were created.
WorkSound ==
    /\ worker = [w \in Renderers |-> worker[w]]
    /\ \A w \in Renderers : worker[w] # Render!Idle =>
          /\ worker[w] = [pc |-> worker[w].pc, on |-> worker[w].on]
          /\ worker[w].on \in Render!Issued
          /\ worker[w].pc \in {"claimed", "staged", "promoted", "stored", "failing"}
    /\ \A t \in cleanups : t = [on |-> t.on, left |-> t.left] /\ t.on \in Render!Issued

\* Unless its certificate was revoked meanwhile, a process that stored the
\* document finds it there.
StoredBacked ==
    \A w \in Renderers :
        /\ worker[w] # Render!Idle /\ worker[w].pc = "stored"
        /\ Render!Cert(worker[w].on).status # "revoked"
        => Render!Final(worker[w].on) \in store

\* Each object of an abandoned certificate has a process or a callback that
\* answers for it.
Answered(c) ==
    /\ Render!Final(c) \in store =>
          \/ \E w \in Renderers : worker[w] # Render!Idle /\ worker[w].on = c
          \/ \E t \in cleanups : t.on = c /\ "final" \in t.left
    /\ Render!Staging(c) \in store =>
          \/ \E w \in Renderers : worker[w] # Render!Idle /\ worker[w].on = c
          \/ \E t \in cleanups : t.on = c /\ "staging" \in t.left

AbandonedAnswered == ~faulty => \A c \in Render!Issued : Render!Abandoned(c) => Answered(c)

Retained ==
    /\ \A c \in Render!Issued : Render!Cert(c).rendered => Render!Final(c) \in store
    /\ IsFiniteSet(Rendered) /\ usage = Cardinality(Rendered)

RenderInv ==
    /\ DOMAIN status = Attendees
    /\ RowsSound /\ Render!ActiveIsEarned /\ WorkSound /\ StoredBacked
    /\ AbandonedAnswered /\ Retained

-----------------------------------------------------------------------------
(* The rows, seen as a table of certificates.                              *)

LEMMA CreateRow ==
    ASSUME MaxRevisions \in Nat, RowsSound, NEW r \in Attendees, Render!create_pending(r)
    PROVE  /\ certificate' \in [Attendees -> Seq(CertRow)]
           /\ \E new : /\ Render!Issued' = Render!Issued \cup {new} /\ new \notin Render!Issued
                       /\ Render!Cert(new)' = [status |-> "pending", rendered |-> FALSE]
           /\ \A c \in Render!Issued : Render!Cert(c)' = Render!Cert(c)
<1>1. PICK s : s = certificate[r]
  OBVIOUS
<1>2. PICK e \in CertRow : e = [status |-> "pending", rendered |-> FALSE]
  BY DEF CertRow
<1>3. s \in Seq(CertRow) /\ Len(s) \in Nat
  BY <1>1, LenProperties DEF RowsSound
<1>4. certificate' = [certificate EXCEPT ![r] = Append(s, e)] /\ Len(s) < MaxRevisions
  BY <1>1, <1>2 DEF Render!create_pending, RowsSound
<1>5. /\ Append(s, e) \in Seq(CertRow) /\ Len(Append(s, e)) = Len(s) + 1
      /\ \A i \in 1..Len(s) : Append(s, e)[i] = s[i]
      /\ Append(s, e)[Len(s) + 1] = e
  BY <1>3, AppendProperties
<1>6. certificate' \in [Attendees -> Seq(CertRow)]
  BY <1>4, <1>5 DEF RowsSound
<1>7. PICK new : new = [reg |-> r, revision |-> Len(s) + 1]
  OBVIOUS
<1>8. Render!Issued' = Render!Issued \cup {new} /\ new \notin Render!Issued
  BY <1>1, <1>3, <1>4, <1>5, <1>7 DEF Render!Issued, Render!Certificate, RowsSound
<1>9. Render!Cert(new)' = e
  BY <1>4, <1>5, <1>7 DEF Render!Cert, RowsSound
<1>10. \A c \in Render!Issued : Render!Cert(c)' = Render!Cert(c)
  BY <1>1, <1>3, <1>4, <1>5 DEF Render!Cert, Render!Issued, Render!Certificate, RowsSound
<1> QED
  BY <1>2, <1>6, <1>8, <1>9, <1>10

LEMMA ReviseRow ==
    ASSUME RowsSound, NEW c \in Render!Issued, NEW row \in CertRow,
           certificate' = Render!Revise(c, row)
    PROVE  /\ certificate' \in [Attendees -> Seq(CertRow)] /\ Render!Issued' = Render!Issued
           /\ Render!Cert(c)' = row
           /\ \A d \in Render!Issued : d # c => Render!Cert(d)' = Render!Cert(d)
<1>1. PICK r, n, s : r = c.reg /\ n = c.revision /\ s = certificate[r]
  OBVIOUS
<1>2. /\ r \in Attendees /\ s \in Seq(CertRow) /\ Len(s) \in Nat /\ n \in 1..Len(s)
  BY <1>1, LenProperties DEF RowsSound, Render!Issued, Render!Certificate
<1>3. /\ [s EXCEPT ![n] = row] \in Seq(CertRow)
      /\ Len([s EXCEPT ![n] = row]) = Len(s)
      /\ \A i \in 1..Len(s) : [s EXCEPT ![n] = row][i] = IF i = n THEN row ELSE s[i]
  BY <1>2, ExceptSeq
<1>4. certificate' = [certificate EXCEPT ![r] = [s EXCEPT ![n] = row]]
  BY <1>1 DEF Render!Revise
<1>5. certificate' \in [Attendees -> Seq(CertRow)]
  BY <1>3, <1>4 DEF RowsSound
<1>6. \A q \in Attendees : Len(certificate'[q]) = Len(certificate[q])
  BY <1>1, <1>3, <1>4 DEF RowsSound
<1>7. Render!Issued' = Render!Issued
  BY <1>6 DEF Render!Issued, Render!Certificate
<1>8. Render!Cert(c)' = row
  BY <1>1, <1>2, <1>3, <1>4 DEF Render!Cert, RowsSound
<1>9. ASSUME NEW d \in Render!Issued, d # c
      PROVE  Render!Cert(d)' = Render!Cert(d)
  <2>1. d.reg \in Attendees /\ d.revision \in 1..Len(certificate[d.reg])
    BY DEF Render!Issued, Render!Certificate
  <2>2. d.reg # r \/ d.revision # n
    BY <1>1, <1>9 DEF Render!Issued, Render!Certificate
  <2> QED
    BY <1>1, <1>2, <1>3, <1>4, <2>1, <2>2 DEF Render!Cert, RowsSound
<1> QED
  BY <1>5, <1>7, <1>8, <1>9

LEMMA RevokeRows ==
    ASSUME RowsSound, NEW cs, certificate' = Render!Revoked(cs)
    PROVE  /\ certificate' \in [Attendees -> Seq(CertRow)] /\ Render!Issued' = Render!Issued
           /\ \A c \in Render!Issued : Render!Cert(c)' =
                IF c \in cs THEN [Render!Cert(c) EXCEPT !.status = "revoked"] ELSE Render!Cert(c)
<1>1. ASSUME NEW r \in Attendees
      PROVE  /\ certificate'[r] \in Seq(CertRow) /\ Len(certificate'[r]) = Len(certificate[r])
             /\ \A n \in 1..Len(certificate[r]) : certificate'[r][n] =
                  IF [reg |-> r, revision |-> n] \in cs
                  THEN [certificate[r][n] EXCEPT !.status = "revoked"] ELSE certificate[r][n]
  <2>1. PICK s : s = certificate[r]
    OBVIOUS
  <2>2. s \in Seq(CertRow) /\ Len(s) \in Nat /\ s \in [1..Len(s) -> CertRow]
    BY <2>1, LenProperties DEF RowsSound
  <2>3. DOMAIN s = 1..Len(s)
    BY <2>2
  <2>4. PICK t : t = [n \in 1..Len(s) |-> IF [reg |-> r, revision |-> n] \in cs
                                          THEN [s[n] EXCEPT !.status = "revoked"] ELSE s[n]]
    OBVIOUS
  <2>5. certificate'[r] = t
    BY <2>1, <2>3, <2>4 DEF Render!Revoked
  <2>6. t \in [1..Len(s) -> CertRow]
    <3>1. \A n \in 1..Len(s) : s[n] \in CertRow /\ [s[n] EXCEPT !.status = "revoked"] \in CertRow
      BY <2>2 DEF CertRow
    <3> QED
      BY <2>4, <3>1
  <2>7. t \in Seq(CertRow) /\ Len(t) = Len(s)
    BY <2>2, <2>6
  <2> QED
    BY <2>1, <2>4, <2>5, <2>7
<1>2. certificate' = [r \in Attendees |-> certificate'[r]]
  BY DEF Render!Revoked
<1>3. certificate' \in [Attendees -> Seq(CertRow)]
  BY <1>1, <1>2
<1>4. Render!Issued' = Render!Issued
  BY <1>1 DEF Render!Issued, Render!Certificate
<1>5. ASSUME NEW c \in Render!Issued
      PROVE  Render!Cert(c)' =
                IF c \in cs THEN [Render!Cert(c) EXCEPT !.status = "revoked"] ELSE Render!Cert(c)
  <2>1. c.reg \in Attendees /\ c.revision \in 1..Len(certificate[c.reg])
        /\ c = [reg |-> c.reg, revision |-> c.revision]
    BY DEF Render!Issued, Render!Certificate
  <2> QED
    BY <1>1, <2>1 DEF Render!Cert
<1> QED
  BY <1>3, <1>4, <1>5

LEMMA RowTyped ==
    ASSUME RowsSound, NEW c \in Render!Issued
    PROVE  Render!Cert(c) \in CertRow /\ c \in Render!Certificate /\ c.reg \in Attendees
<1>1. c \in Render!Certificate /\ c.reg \in Attendees /\ c.revision \in 1..Len(certificate[c.reg])
  BY DEF Render!Issued, Render!Certificate
<1>2. certificate[c.reg] \in Seq(CertRow)
  BY <1>1 DEF RowsSound
<1> QED
  BY <1>1, <1>2, ElementOfSeq DEF Render!Cert

(* The two objects of a certificate are its own.                           *)
LEMMA ObjectsApart ==
    \A c, d : /\ Render!Final(c) # Render!Staging(d)
              /\ Render!Final(c) = Render!Final(d) => c = d
              /\ Render!Staging(c) = Render!Staging(d) => c = d
  BY DEF Render!Final, Render!Staging

-----------------------------------------------------------------------------
(* The operations.                                                         *)

LEMMA RenderInit == ASSUME Render!Init PROVE RenderInv
<1>1. certificate = [r \in Attendees |-> <<>>] /\ Render!Issued = {}
  BY DEF Render!Init, Render!Issued, Render!Certificate
<1>2. <<>> \in Seq(CertRow)
  BY EmptySeq
<1>3. RowsSound /\ Render!ActiveIsEarned /\ AbandonedAnswered
  BY <1>1, <1>2 DEF RowsSound, Render!ActiveIsEarned, AbandonedAnswered
<1>4. WorkSound /\ StoredBacked
  BY DEF Render!Init, WorkSound, StoredBacked
<1>5. Retained
  BY <1>1, FS_EmptySet DEF Retained, Rendered, Render!Init
<1> QED
  BY <1>3, <1>4, <1>5 DEF RenderInv, Render!Init

\* Check-ins and the end of the event touch no certificate.
LEMMA DoorKeeps ==
    ASSUME RenderInv, UNCHANGED <<certificate, store, usage, worker, cleanups, faulty>>,
           Render!Certifiable => Render!Certifiable',
           DOMAIN status' = DOMAIN status,
           \A r \in Attendees : status[r] = "attended" => status'[r] = "attended"
    PROVE  RenderInv'
<1>1. RowsSound' /\ WorkSound' /\ StoredBacked' /\ AbandonedAnswered' /\ Retained'
  BY ZenonT(60)
    DEF RenderInv, RowsSound, WorkSound, StoredBacked, AbandonedAnswered, Answered, Retained,
     Rendered, Render!Issued, Render!Cert, Render!Abandoned
<1>2. Render!ActiveIsEarned'
  <2>1. Render!Issued' = Render!Issued /\ \A c \in Render!Issued : Render!Cert(c)' = Render!Cert(c)
    BY DEF Render!Issued, Render!Cert
  <2> QED
    BY <2>1, RowTyped DEF RenderInv, Render!ActiveIsEarned
<1> QED
  BY <1>1, <1>2 DEF RenderInv

\* A new revision, pending.
LEMMA CreateKeeps ==
    ASSUME MaxRevisions \in Nat, RenderInv, NEW r \in Attendees, Render!create_pending(r),
           UNCHANGED <<event, status, store, usage, worker, cleanups, faulty>>
    PROVE  RenderInv'
<1>1. RowsSound
  BY DEF RenderInv
<1>2. PICK new : /\ Render!Issued' = Render!Issued \cup {new} /\ new \notin Render!Issued
                 /\ Render!Cert(new)' = [status |-> "pending", rendered |-> FALSE]
  BY <1>1, CreateRow
<1>3. \A c \in Render!Issued : Render!Cert(c)' = Render!Cert(c)
  BY <1>1, CreateRow
<1>4. certificate' \in [Attendees -> Seq(CertRow)]
  BY <1>1, CreateRow
<1>5. RowsSound' /\ Render!ActiveIsEarned'
  BY <1>2, <1>3, <1>4 DEF RenderInv, RowsSound, Render!ActiveIsEarned, Render!Certifiable
<1>6. WorkSound' /\ StoredBacked'
  BY <1>2, <1>3 DEF RenderInv, WorkSound, StoredBacked
<1>7. AbandonedAnswered'
  BY <1>2, <1>3 DEF RenderInv, AbandonedAnswered, Render!Abandoned, Answered
<1>8. Rendered' = Rendered
  BY <1>2, <1>3 DEF Rendered
<1>9. Retained'
  BY <1>2, <1>3, <1>8 DEF RenderInv, Retained
<1> QED
  BY <1>5, <1>6, <1>7, <1>9 DEF RenderInv

\* Certificates revoked: those that were never issued with a callback each.
LEMMA RevokeKeeps ==
    ASSUME RenderInv, NEW cs, certificate' = Render!Revoked(cs),
           UNCHANGED <<store, usage, worker, faulty>>, DOMAIN status' = DOMAIN status,
           \A t \in cleanups' : t \in cleanups \/ (\E c \in Render!Issued : t = Render!Callback(c)),
           cleanups \subseteq cleanups',
           \A c \in Render!Issued : c \in cs /\ Render!Cert(c).status # "active" =>
              Render!Cert(c).status = "revoked" \/ Render!Callback(c) \in cleanups',
           \A c \in Render!Issued : c \notin cs /\ Render!Cert(c).status = "active" =>
              status'[c.reg] = "attended" /\ Render!Certifiable'
    PROVE  RenderInv'
<1>1. RowsSound
  BY DEF RenderInv
<1>2. /\ certificate' \in [Attendees -> Seq(CertRow)] /\ Render!Issued' = Render!Issued
      /\ \A c \in Render!Issued : Render!Cert(c)' =
            IF c \in cs THEN [Render!Cert(c) EXCEPT !.status = "revoked"] ELSE Render!Cert(c)
  BY <1>1, RevokeRows
<1>3. \A c \in Render!Issued :
        /\ Render!Cert(c) \in CertRow
        /\ Render!Cert(c)'.rendered = Render!Cert(c).rendered
        /\ Render!Cert(c)'.status = IF c \in cs THEN "revoked" ELSE Render!Cert(c).status
  <2> SUFFICES ASSUME NEW c \in Render!Issued
               PROVE  /\ Render!Cert(c) \in CertRow
                      /\ Render!Cert(c)'.rendered = Render!Cert(c).rendered
                      /\ Render!Cert(c)'.status = IF c \in cs THEN "revoked" ELSE Render!Cert(c).status
    OBVIOUS
  <2>1. Render!Cert(c) \in CertRow
    BY <1>1, RowTyped
  <2> QED
    BY <1>2, <2>1 DEF CertRow
<1>4. RowsSound' /\ Render!ActiveIsEarned'
  <2>1. RowsSound'
    BY <1>1, <1>2, <1>3 DEF RowsSound
  <2>2. Render!ActiveIsEarned'
    BY <1>2, <1>3 DEF Render!ActiveIsEarned
  <2> QED
    BY <2>1, <2>2
<1>5. WorkSound' /\ StoredBacked'
  <2>1. \A t \in cleanups' : t = [on |-> t.on, left |-> t.left] /\ t.on \in Render!Issued
    BY DEF RenderInv, WorkSound, Render!Callback
  <2>2. WorkSound'
    BY <1>2, <2>1 DEF RenderInv, WorkSound
  <2>3. StoredBacked'
    BY <1>2, <1>3 DEF RenderInv, WorkSound, StoredBacked
  <2> QED
    BY <2>2, <2>3
<1>6. AbandonedAnswered'
  <2> SUFFICES ASSUME ~faulty, NEW c \in Render!Issued, Render!Abandoned(c)'
               PROVE  Answered(c)'
    BY <1>2 DEF AbandonedAnswered
  <2>1. Render!Cert(c)'.status = "revoked" /\ ~Render!Cert(c).rendered
    BY <1>3 DEF Render!Abandoned
  <2>2. CASE Render!Cert(c).status = "revoked"
    <3>1. Answered(c)
      BY <2>1, <2>2 DEF RenderInv, AbandonedAnswered, Render!Abandoned
    <3> QED
      BY <3>1 DEF Answered
  <2>3. CASE Render!Cert(c).status # "revoked"
    <3>1. Render!Cert(c).status # "active" /\ c \in cs
      BY <1>1, <1>3, <2>1, <2>3 DEF RowsSound
    <3>2. Render!Callback(c) \in cleanups'
      BY <2>3, <3>1
    <3>3. \E t \in cleanups' : t.on = c /\ "final" \in t.left /\ "staging" \in t.left
      BY <3>2 DEF Render!Callback
    <3> QED
      BY <3>3 DEF Answered
  <2> QED
    BY <2>2, <2>3
<1>7. Rendered' = Rendered
  BY <1>2, <1>3 DEF Rendered
<1>8. Retained'
  BY <1>2, <1>3, <1>7 DEF RenderInv, Retained, Render!Final
<1> QED
  BY <1>4, <1>5, <1>6, <1>8 DEF RenderInv

LEMMA SameRows ==
    ASSUME RowsSound, certificate' = certificate
    PROVE  /\ RowsSound' /\ Render!Issued' = Render!Issued /\ Rendered' = Rendered
           /\ \A c \in Render!Issued : Render!Cert(c)' = Render!Cert(c)
  BY DEF RowsSound, Render!Issued, Rendered, Render!Cert

LEMMA SameEarned ==
    ASSUME RenderInv, UNCHANGED <<event, status, certificate>>
    PROVE  Render!ActiveIsEarned'
  BY DEF RenderInv, Render!ActiveIsEarned, Render!Certifiable, Render!Issued, Render!Cert

\* One process goes on to the next call, or to nothing.
LEMMA WorkerGoes ==
    ASSUME WorkSound, NEW w \in Renderers, worker[w] # Render!Idle,
           NEW to \in {"claimed", "staged", "promoted", "stored", "failing"}, Render!Goto(w, to)
    PROVE  /\ worker' = [v \in Renderers |-> worker'[v]]
           /\ worker'[w] = [pc |-> to, on |-> worker[w].on] /\ worker'[w] # Render!Idle
           /\ \A v \in Renderers : v # w => worker'[v] = worker[v]
<1>1. worker'[w] = [pc |-> to, on |-> worker[w].on]
  BY DEF WorkSound, Render!Goto
<1>2. worker'[w] # Render!Idle
  BY <1>1 DEF Render!Idle
<1> QED
  BY <1>1, <1>2 DEF WorkSound, Render!Goto

LEMMA WorkerLeaves ==
    ASSUME WorkSound, NEW w \in Renderers, worker' = [worker EXCEPT ![w] = Render!Idle]
    PROVE  /\ worker' = [v \in Renderers |-> worker'[v]] /\ worker'[w] = Render!Idle
           /\ \A v \in Renderers : v # w => worker'[v] = worker[v]
  BY DEF WorkSound

LEMMA RenderClaimKeeps ==
    ASSUME RenderInv, NEW w \in Renderers, NEW c \in Render!Issued, Render!_claim_render(w, c),
           UNCHANGED faulty
    PROVE  RenderInv'
<1>1. RowsSound /\ WorkSound /\ UNCHANGED <<event, status, store, usage, cleanups>>
  BY DEF RenderInv, Render!_claim_render
<1>2. PICK row : row = [Render!Cert(c) EXCEPT !.status = "rendering"]
  OBVIOUS
<1>3. /\ Render!Cert(c) \in CertRow /\ Render!Cert(c).status \in {"pending", "failed"}
      /\ row \in CertRow /\ row.rendered = Render!Cert(c).rendered /\ row.status = "rendering"
  BY <1>1, <1>2, RowTyped DEF Render!_claim_render, CertRow
<1>4. certificate' = Render!Revise(c, row)
  BY <1>2 DEF Render!_claim_render
<1>5. /\ certificate' \in [Attendees -> Seq(CertRow)] /\ Render!Issued' = Render!Issued
      /\ Render!Cert(c)' = row
      /\ \A d \in Render!Issued : d # c => Render!Cert(d)' = Render!Cert(d)
  BY <1>1, <1>3, <1>4, ReviseRow
<1>6. ~Render!Cert(c).rendered
  BY <1>1, <1>3 DEF RowsSound
<1>7. RowsSound' /\ Render!ActiveIsEarned'
  <2>1. RowsSound'
    BY <1>1, <1>3, <1>5, <1>6 DEF RowsSound
  <2>2. Render!ActiveIsEarned'
    BY <1>1, <1>3, <1>5 DEF RenderInv, Render!ActiveIsEarned, Render!Certifiable
  <2> QED
    BY <2>1, <2>2
<1>8. /\ worker' = [v \in Renderers |-> worker'[v]]
      /\ worker'[w] = [pc |-> "claimed", on |-> c] /\ worker'[w] # Render!Idle
      /\ \A v \in Renderers : v # w => worker'[v] = worker[v]
  BY <1>1 DEF Render!_claim_render, WorkSound, Render!Idle
<1>9. WorkSound'
  BY <1>1, <1>5, <1>8 DEF WorkSound
<1>10. StoredBacked'
  <2> SUFFICES ASSUME NEW v \in Renderers, worker'[v] # Render!Idle, worker'[v].pc = "stored",
                      NEW d, d = worker'[v].on, Render!Cert(d)'.status # "revoked"
               PROVE  Render!Final(d) \in store'
    BY DEF StoredBacked, Render!Final, Render!Idle, Render!Cert
  <2>1. v # w /\ worker'[v] = worker[v] /\ d \in Render!Issued
    BY <1>1, <1>8 DEF WorkSound
  <2>2. Render!Cert(d).status # "revoked"
    BY <1>3, <1>5, <2>1
  <2> QED
    BY <1>1, <2>1, <2>2 DEF RenderInv, StoredBacked
<1>11. AbandonedAnswered'
  <2> SUFFICES ASSUME ~faulty, NEW d \in Render!Issued, Render!Abandoned(d)'
               PROVE  Answered(d)'
    BY <1>5 DEF AbandonedAnswered, Render!_claim_render
  <2>1. d # c /\ Render!Abandoned(d)
    BY <1>3, <1>5 DEF Render!Abandoned
  <2>2. Answered(d)
    BY <2>1 DEF RenderInv, AbandonedAnswered
  <2>3. worker[w] = Render!Idle
    BY DEF Render!_claim_render
  <2> QED
    BY <1>1, <1>8, <2>2, <2>3 DEF Answered, Render!Final, Render!Staging
<1>12. Rendered' = Rendered
  BY <1>3, <1>5 DEF Rendered
<1>13. Retained'
  BY <1>1, <1>3, <1>5, <1>12 DEF RenderInv, Retained, Render!Final
<1> QED
  BY <1>1, <1>7, <1>9, <1>10, <1>11, <1>13 DEF RenderInv

\* One call of a process that renders, or the failure of one: a document is
\* stored only when it is there, and only staging objects are deleted.
LEMMA WorksKeeps ==
    ASSUME RenderInv, NEW w \in Renderers, worker[w] # Render!Idle,
           NEW to \in {"claimed", "staged", "promoted", "stored", "failing"},
           Render!Goto(w, to),
           to = "stored" => Render!Final(worker[w].on) \in store,
           store' \subseteq store \cup {Render!Final(worker[w].on), Render!Staging(worker[w].on)},
           \A c : Render!Final(c) \in store => Render!Final(c) \in store',
           UNCHANGED <<event, status, certificate, usage, cleanups, faulty>>
    PROVE  RenderInv'
<1>1. RowsSound /\ WorkSound
  BY DEF RenderInv
<1>2. /\ RowsSound' /\ Render!Issued' = Render!Issued /\ Rendered' = Rendered
      /\ \A c \in Render!Issued : Render!Cert(c)' = Render!Cert(c)
  BY <1>1, SameRows
<1>3. Render!ActiveIsEarned'
  BY SameEarned
<1>4. /\ worker' = [v \in Renderers |-> worker'[v]]
      /\ worker'[w] = [pc |-> to, on |-> worker[w].on] /\ worker'[w] # Render!Idle
      /\ \A v \in Renderers : v # w => worker'[v] = worker[v]
  BY <1>1, WorkerGoes
<1>5. WorkSound'
  BY <1>1, <1>2, <1>4 DEF WorkSound
<1>6. StoredBacked'
  <2> SUFFICES ASSUME NEW v \in Renderers, worker'[v] # Render!Idle, worker'[v].pc = "stored",
                      NEW c, c = worker'[v].on, Render!Cert(c)'.status # "revoked"
               PROVE  Render!Final(c) \in store'
    BY DEF StoredBacked, Render!Final, Render!Idle, Render!Cert
  <2>1. CASE v = w
    BY <1>4, <2>1
  <2>2. CASE v # w
    <3>1. worker'[v] = worker[v] /\ worker[v].on \in Render!Issued
      BY <1>1, <1>4, <2>2 DEF WorkSound
    <3> QED
      BY <1>2, <3>1 DEF RenderInv, StoredBacked
  <2> QED
    BY <2>1, <2>2
<1>7. AbandonedAnswered'
  <2> SUFFICES ASSUME ~faulty, NEW c \in Render!Issued, Render!Abandoned(c)
               PROVE  Answered(c)'
    BY <1>2 DEF AbandonedAnswered, Render!Abandoned
  <2>1. Answered(c)
    BY DEF RenderInv, AbandonedAnswered
  <2>2. CASE worker[w].on = c
    BY <1>4, <2>2 DEF Answered
  <2>3. CASE worker[w].on # c
    <3>1. /\ Render!Final(c) \in store' => Render!Final(c) \in store
          /\ Render!Staging(c) \in store' => Render!Staging(c) \in store
      BY <2>3, ObjectsApart
    <3>2. \A v \in Renderers : worker[v] # Render!Idle /\ worker[v].on = c =>
            worker'[v] # Render!Idle /\ worker'[v].on = c
      BY <1>4, <2>3
    <3> QED
      BY <2>1, <3>1, <3>2 DEF Answered, Render!Final, Render!Staging, Render!Idle
  <2> QED
    BY <2>2, <2>3
<1>8. Retained'
  BY <1>2 DEF RenderInv, Retained, Render!Final
<1> QED
  BY <1>2, <1>3, <1>5, <1>6, <1>7, <1>8 DEF RenderInv

LEMMA StoreKeeps ==
    ASSUME RenderInv, NEW w \in Renderers, UNCHANGED faulty,
           Render!store_immutable_pdf(w) \/ Render!StorageUnavailable(w)
    PROVE  RenderInv'
<1>1. worker[w] # Render!Idle /\ UNCHANGED <<event, status, certificate, usage, cleanups>>
  BY DEF Render!store_immutable_pdf, Render!StorageUnavailable
<1>2. PICK to \in {"claimed", "staged", "promoted", "stored", "failing"} :
        /\ Render!Goto(w, to)
        /\ to = "stored" => Render!Final(worker[w].on) \in store
        /\ \/ store' = store
           \/ store' = store \cup {Render!Staging(worker[w].on)}
           \/ store' = store \cup {Render!Final(worker[w].on)}
           \/ store' = store \ {Render!Staging(worker[w].on)}
  BY DEF Render!store_immutable_pdf, Render!StorageUnavailable
<1>3. \A c : Render!Final(c) \in store => Render!Final(c) \in store'
  BY <1>2, ObjectsApart
<1>4. store' \subseteq store \cup {Render!Final(worker[w].on), Render!Staging(worker[w].on)}
  BY <1>2
<1> QED
  BY <1>1, <1>2, <1>3, <1>4, WorksKeeps

\* The document counts as issued and is charged, or the render fails.
LEMMA ActivateKeeps ==
    ASSUME RenderInv, NEW w \in Renderers, Render!_activate(w), UNCHANGED faulty
    PROVE  RenderInv'
<1>1. RowsSound /\ WorkSound /\ worker[w] # Render!Idle /\ worker[w].pc = "stored"
      /\ UNCHANGED <<event, status, store, cleanups>>
  BY DEF RenderInv, Render!_activate, Render!activate_if
<1>2. CASE Render!Goto(w, "failing") /\ UNCHANGED <<usage, certificate>>
  BY <1>1, <1>2, WorksKeeps
<1>3. CASE /\ Render!Certifiable /\ status[worker[w].on.reg] = "attended"
           /\ Render!Cert(worker[w].on).status = "rendering"
           /\ usage' = usage + 1
           /\ certificate' =
                Render!Revise(worker[w].on, [status |-> "active", rendered |-> TRUE])
           /\ worker' = [worker EXCEPT ![w] = Render!Idle]
  <2>1. PICK c \in Render!Issued : c = worker[w].on
    BY <1>1 DEF WorkSound
  <2>2. PICK row \in CertRow : row = [status |-> "active", rendered |-> TRUE]
    BY DEF CertRow
  <2>3. /\ certificate' \in [Attendees -> Seq(CertRow)] /\ Render!Issued' = Render!Issued
        /\ Render!Cert(c)' = row
        /\ \A d \in Render!Issued : d # c => Render!Cert(d)' = Render!Cert(d)
    BY <1>1, <1>3, <2>1, <2>2, ReviseRow
  <2>4. /\ worker' = [v \in Renderers |-> worker'[v]] /\ worker'[w] = Render!Idle
        /\ \A v \in Renderers : v # w => worker'[v] = worker[v]
    BY <1>1, <1>3, WorkerLeaves
  <2>5. RowsSound'
    <3>1. row.status = "active" /\ row.rendered
      BY <2>2
    <3> QED
      BY <1>1, <2>3, <3>1 DEF RowsSound
  <2>6. Render!ActiveIsEarned'
    BY <1>1, <1>3, <2>1, <2>3 DEF RenderInv, Render!ActiveIsEarned, Render!Certifiable
  <2>7. WorkSound'
    BY <1>1, <2>3, <2>4 DEF WorkSound
  <2>8. StoredBacked'
    <3> SUFFICES ASSUME NEW v \in Renderers, worker'[v] # Render!Idle, worker'[v].pc = "stored",
                        NEW d, d = worker'[v].on, Render!Cert(d)'.status # "revoked"
                 PROVE  Render!Final(d) \in store'
      BY DEF StoredBacked, Render!Final, Render!Idle, Render!Cert
    <3>1. v # w /\ worker'[v] = worker[v] /\ worker[v].on \in Render!Issued
      BY <1>1, <2>4 DEF WorkSound
    <3>2. Render!Cert(worker[v].on).status # "revoked"
      BY <1>3, <2>1, <2>3, <3>1
    <3> QED
      BY <1>1, <3>1, <3>2 DEF RenderInv, StoredBacked
  <2>9. AbandonedAnswered'
    <3> SUFFICES ASSUME ~faulty, NEW d \in Render!Issued, Render!Abandoned(d)'
                 PROVE  Answered(d)'
      BY <2>3 DEF AbandonedAnswered
    <3>1. d # c /\ Render!Abandoned(d)
      BY <2>2, <2>3 DEF Render!Abandoned
    <3>2. Answered(d)
      BY <3>1 DEF RenderInv, AbandonedAnswered
    <3>3. \A v \in Renderers : worker[v] # Render!Idle /\ worker[v].on = d =>
            worker'[v] # Render!Idle /\ worker'[v].on = d
      BY <2>1, <2>4, <3>1
    <3> QED
      BY <1>1, <3>2, <3>3 DEF Answered, Render!Final, Render!Staging, Render!Idle
  <2>10. Retained'
    <3>1. Rendered' = Rendered \cup {c}
      BY <2>2, <2>3 DEF Rendered
    <3>2. c \notin Rendered
      BY <1>1, <1>3, <2>1 DEF Rendered, RowsSound
    <3>3. IsFiniteSet(Rendered') /\ Cardinality(Rendered') = Cardinality(Rendered) + 1
      BY <3>1, <3>2, FS_AddElement DEF RenderInv, Retained
    <3>4. Render!Final(c) \in store
      BY <1>1, <1>3, <2>1 DEF RenderInv, StoredBacked
    <3>5. \A d \in Render!Issued' : Render!Cert(d)'.rendered => Render!Final(d) \in store'
      BY <1>1, <2>3, <3>4 DEF RenderInv, Retained
    <3> QED
      BY <1>3, <3>3, <3>5 DEF RenderInv, Retained, Render!Final
  <2> QED
    BY <1>1, <2>5, <2>6, <2>7, <2>8, <2>9, <2>10 DEF RenderInv
<1> QED
  BY <1>2, <1>3 DEF Render!_activate, Render!activate_if

\* A failed render leaves a callback for both objects.
LEMMA FailKeeps ==
    ASSUME RenderInv, NEW w \in Renderers, Render!_fail_render(w), UNCHANGED faulty
    PROVE  RenderInv'
<1>1. RowsSound /\ WorkSound /\ worker[w] # Render!Idle
      /\ UNCHANGED <<event, status, store, usage>>
  BY DEF RenderInv, Render!_fail_render
<1>2. PICK c \in Render!Issued : c = worker[w].on
  BY <1>1 DEF WorkSound
<1>3. Render!Cert(c) \in CertRow
  BY <1>1, RowTyped
<1>4. /\ certificate' \in [Attendees -> Seq(CertRow)] /\ Render!Issued' = Render!Issued
      /\ \A d \in Render!Issued : d # c => Render!Cert(d)' = Render!Cert(d)
      /\ \/ Render!Cert(c)' = Render!Cert(c)
         \/ /\ Render!Cert(c).status = "rendering" /\ Render!Cert(c)'.status = "failed"
            /\ Render!Cert(c)'.rendered = Render!Cert(c).rendered
  <2>1. CASE Render!Cert(c).status = "rendering"
    <3>1. PICK row : row = [Render!Cert(c) EXCEPT !.status = "failed"]
      OBVIOUS
    <3>2. row \in CertRow /\ row.status = "failed" /\ row.rendered = Render!Cert(c).rendered
      BY <1>3, <3>1 DEF CertRow
    <3>3. certificate' = Render!Revise(c, row)
      BY <1>2, <2>1, <3>1 DEF Render!_fail_render
    <3> QED
      BY <1>1, <2>1, <3>2, <3>3, ReviseRow
  <2>2. CASE Render!Cert(c).status # "rendering"
    <3>1. certificate' = certificate
      BY <1>2, <2>2 DEF Render!_fail_render
    <3> QED
      BY <1>1, <3>1, SameRows DEF RowsSound
  <2> QED
    BY <2>1, <2>2
<1>5. \A d \in Render!Issued : Render!Cert(d)'.rendered = Render!Cert(d).rendered
  BY <1>4
<1>6. \A d \in Render!Issued :
        \/ Render!Cert(d)'.status = Render!Cert(d).status
        \/ Render!Cert(d).status = "rendering" /\ Render!Cert(d)'.status = "failed"
  BY <1>4
<1>7. RowsSound'
  BY <1>1, <1>4, <1>5, <1>6 DEF RowsSound
<1>8. Render!ActiveIsEarned'
  BY <1>1, <1>4, <1>6 DEF RenderInv, Render!ActiveIsEarned, Render!Certifiable
<1>9. /\ worker' = [v \in Renderers |-> worker'[v]] /\ worker'[w] = Render!Idle
      /\ \A v \in Renderers : v # w => worker'[v] = worker[v]
  <2>1. worker' = [worker EXCEPT ![w] = Render!Idle]
    BY DEF Render!_fail_render
  <2> QED
    BY <1>1, <2>1, WorkerLeaves
<1>10. cleanups' = cleanups \cup {Render!Callback(c)}
  BY <1>2 DEF Render!_fail_render
<1>11. WorkSound'
  <2>1. \A t \in cleanups' : t = [on |-> t.on, left |-> t.left] /\ t.on \in Render!Issued
    BY <1>1, <1>10 DEF WorkSound, Render!Callback
  <2> QED
    BY <1>1, <1>4, <1>9, <2>1 DEF WorkSound
<1>12. StoredBacked'
  <2> SUFFICES ASSUME NEW v \in Renderers, worker'[v] # Render!Idle, worker'[v].pc = "stored",
                      NEW d, d = worker'[v].on, Render!Cert(d)'.status # "revoked"
               PROVE  Render!Final(d) \in store'
    BY DEF StoredBacked, Render!Final, Render!Idle, Render!Cert
  <2>1. v # w /\ worker'[v] = worker[v] /\ d \in Render!Issued
    BY <1>1, <1>9 DEF WorkSound
  <2>2. Render!Cert(d).status # "revoked"
    BY <1>6, <2>1
  <2> QED
    BY <1>1, <2>1, <2>2 DEF RenderInv, StoredBacked
<1>13. AbandonedAnswered'
  <2> SUFFICES ASSUME ~faulty, NEW d \in Render!Issued, Render!Abandoned(d)'
               PROVE  Answered(d)'
    BY <1>4 DEF AbandonedAnswered
  <2>1. CASE d = c
    <3>1. Render!Callback(c) \in cleanups' /\ Render!Callback(c).on = c
          /\ Render!Callback(c).left = {"final", "staging"}
      BY <1>10 DEF Render!Callback
    <3>2. \E t \in cleanups' : t.on = d /\ "final" \in t.left /\ "staging" \in t.left
      BY <2>1, <3>1
    <3> QED
      BY <3>2 DEF Answered
  <2>2. CASE d # c
    <3>1. Render!Abandoned(d)
      BY <1>5, <1>6 DEF Render!Abandoned
    <3>2. Answered(d)
      BY <3>1 DEF RenderInv, AbandonedAnswered
    <3>3. \A v \in Renderers : worker[v] # Render!Idle /\ worker[v].on = d =>
            worker'[v] # Render!Idle /\ worker'[v].on = d
      BY <1>2, <1>9, <2>2
    <3> QED
      BY <1>1, <1>10, <3>2, <3>3 DEF Answered, Render!Final, Render!Staging, Render!Idle
  <2> QED
    BY <2>1, <2>2
<1>14. Rendered' = Rendered
  BY <1>4, <1>5 DEF Rendered
<1>15. Retained'
  BY <1>1, <1>4, <1>5, <1>14 DEF RenderInv, Retained, Render!Final
<1> QED
  BY <1>1, <1>7, <1>8, <1>11, <1>12, <1>13, <1>15 DEF RenderInv

\* A callback deletes the objects of an abandoned certificate only, and
\* forgets an object only when it deleted it.
LEMMA CleanupKeeps ==
    ASSUME RenderInv, NEW t \in cleanups, Render!cleanup_abandoned_certificate(t), UNCHANGED faulty
    PROVE  RenderInv'
<1>1. RowsSound /\ WorkSound /\ UNCHANGED <<event, status, certificate, usage, worker>>
  BY DEF RenderInv, Render!cleanup_abandoned_certificate
<1>2. /\ RowsSound' /\ Render!Issued' = Render!Issued /\ Rendered' = Rendered
      /\ \A c \in Render!Issued : Render!Cert(c)' = Render!Cert(c)
  BY <1>1, SameRows
<1>3. Render!ActiveIsEarned'
  BY <1>1, SameEarned
<1>4. t = [on |-> t.on, left |-> t.left] /\ t.on \in Render!Issued
  BY <1>1 DEF WorkSound
<1>5. CASE ~Render!Abandoned(t.on) /\ UNCHANGED store /\ cleanups' = cleanups \ {t}
  <2>1. WorkSound' /\ StoredBacked' /\ Retained'
    BY <1>1, <1>2, <1>5 DEF RenderInv, WorkSound, StoredBacked, Retained, Render!Cert,
       Render!Final
  <2>2. AbandonedAnswered'
    <3> SUFFICES ASSUME ~faulty, NEW d \in Render!Issued, Render!Abandoned(d)
                 PROVE  Answered(d)'
      BY <1>2 DEF AbandonedAnswered, Render!Abandoned
    <3>1. Answered(d) /\ d # t.on
      BY <1>5 DEF RenderInv, AbandonedAnswered
    <3> QED
      BY <1>1, <1>5, <3>1 DEF Answered
  <2> QED
    BY <1>1, <1>2, <1>3, <2>1, <2>2 DEF RenderInv
<1>6. ASSUME Render!Abandoned(t.on), NEW key \in {"final", "staging"}, NEW rest,
             key = IF "final" \in t.left THEN "final" ELSE "staging", rest = t.left \ {key},
             \/ store' = store \ {[of |-> t.on, key |-> key]}
             \/ faulty /\ UNCHANGED store,
             cleanups' = (cleanups \ {t}) \cup
                (IF rest = {} THEN {} ELSE {[t EXCEPT !.left = rest]})
      PROVE  RenderInv'
  <2>1. [t EXCEPT !.left = rest] = [on |-> t.on, left |-> rest]
    BY <1>4
  <2>2. WorkSound'
    <3>1. \A u \in cleanups' : u \in cleanups \/ u = [on |-> t.on, left |-> rest]
      BY <1>6, <2>1
    <3>2. \A u \in cleanups' : u = [on |-> u.on, left |-> u.left] /\ u.on \in Render!Issued
      BY <1>1, <1>4, <3>1 DEF WorkSound
    <3> QED
      BY <1>1, <1>2, <3>2 DEF WorkSound
  <2>3. /\ store' \subseteq store
        /\ \A c : Render!Final(c) \in store /\ c # t.on => Render!Final(c) \in store'
    BY <1>6 DEF Render!Final
  <2>4. Render!Cert(t.on).status = "revoked" /\ ~Render!Cert(t.on).rendered
    BY <1>6 DEF Render!Abandoned
  <2>5. StoredBacked'
    <3> SUFFICES ASSUME NEW v \in Renderers, worker[v] # Render!Idle, worker[v].pc = "stored",
                        NEW d, d = worker[v].on, Render!Cert(d).status # "revoked"
                 PROVE  Render!Final(d) \in store'
      BY <1>1 DEF StoredBacked, Render!Final, Render!Idle, Render!Cert
    <3>1. Render!Final(d) \in store
      BY DEF RenderInv, StoredBacked
    <3> QED
      BY <2>3, <2>4, <3>1
  <2>6. Retained'
    BY <1>1, <1>2, <2>3, <2>4 DEF RenderInv, Retained, Render!Final
  <2>7. AbandonedAnswered'
    <3> SUFFICES ASSUME ~faulty, NEW d \in Render!Issued, Render!Abandoned(d)
                 PROVE  Answered(d)'
      BY <1>2 DEF AbandonedAnswered, Render!Abandoned
    <3>1. Answered(d)
      BY DEF RenderInv, AbandonedAnswered
    <3>2. CASE d # t.on
      <4>1. \A u \in cleanups : u.on = d => u \in cleanups'
        BY <1>6, <3>2
      <4> QED
        BY <1>1, <2>3, <3>1, <4>1 DEF Answered, Render!Final, Render!Staging
    <3>3. CASE d = t.on
      <4>1. store' = store \ {[of |-> d, key |-> key]}
        BY <1>6, <3>3
      <4>2. ASSUME Render!Final(d) \in store'
            PROVE  \/ \E v \in Renderers : worker'[v] # Render!Idle /\ worker'[v].on = d
                   \/ \E u \in cleanups' : u.on = d /\ "final" \in u.left
        <5>1. key # "final" /\ "final" \notin t.left /\ Render!Final(d) \in store
          BY <1>6, <4>1, <4>2 DEF Render!Final
        <5>2. \A u \in cleanups : u # t => u \in cleanups'
          BY <1>6
        <5> QED
          BY <1>1, <3>1, <5>1, <5>2 DEF Answered, Render!Idle
      <4>3. ASSUME Render!Staging(d) \in store'
            PROVE  \/ \E v \in Renderers : worker'[v] # Render!Idle /\ worker'[v].on = d
                   \/ \E u \in cleanups' : u.on = d /\ "staging" \in u.left
        <5>1. key # "staging" /\ key = "final" /\ Render!Staging(d) \in store
          BY <1>6, <4>1, <4>3 DEF Render!Staging
        <5>2. \A u \in cleanups : u # t => u \in cleanups'
          BY <1>6
        <5>3. "staging" \in t.left => "staging" \in rest /\ [on |-> t.on, left |-> rest] \in cleanups'
          BY <1>6, <2>1, <5>1
        <5> QED
          BY <1>1, <3>1, <3>3, <5>1, <5>2, <5>3 DEF Answered, Render!Idle
      <4> QED
        BY <4>2, <4>3 DEF Answered, Render!Final, Render!Staging, Render!Idle
    <3> QED
      BY <3>2, <3>3
  <2> QED
    BY <1>1, <1>2, <1>3, <2>2, <2>5, <2>6, <2>7 DEF RenderInv
<1> QED
  BY <1>5, <1>6 DEF Render!cleanup_abandoned_certificate

\* Where processes may die, nothing answers for the objects left.
LEMMA KilledKeeps ==
    ASSUME RenderInv, Render!Killed, UNCHANGED faulty
    PROVE  RenderInv'
<1>1. faulty /\ RowsSound /\ WorkSound
      /\ UNCHANGED <<event, status, certificate, store, usage>>
  BY DEF RenderInv, Render!Killed
<1>2. /\ RowsSound' /\ Render!Issued' = Render!Issued /\ Rendered' = Rendered
      /\ \A c \in Render!Issued : Render!Cert(c)' = Render!Cert(c)
  BY <1>1, SameRows
<1>3. Render!ActiveIsEarned'
  BY <1>1, SameEarned
<1>4. /\ worker' = [v \in Renderers |-> worker'[v]]
      /\ \A v \in Renderers : worker'[v] = worker[v] \/ worker'[v] = Render!Idle
  <2>1. CASE UNCHANGED worker
    BY <1>1, <2>1 DEF WorkSound
  <2>2. ASSUME NEW w \in Renderers, worker' = [worker EXCEPT ![w] = Render!Idle]
        PROVE  <1>4
    BY <1>1, <2>2, WorkerLeaves
  <2> QED
    BY <2>1, <2>2 DEF Render!Killed
<1>5. cleanups' \subseteq cleanups
  BY DEF Render!Killed
<1>6. WorkSound'
  BY <1>1, <1>2, <1>4, <1>5 DEF WorkSound, Render!Idle
<1>7. StoredBacked'
  BY <1>1, <1>4 DEF RenderInv, StoredBacked, Render!Cert, Render!Final, Render!Idle
<1>8. AbandonedAnswered' /\ Retained'
  BY <1>1, <1>2 DEF RenderInv, AbandonedAnswered, Retained, Render!Final
<1> QED
  BY <1>1, <1>2, <1>3, <1>6, <1>7, <1>8 DEF RenderInv

\* Check-ins, the station's PIN and the end of the event.
LEMMA DoorSteps ==
    ASSUME RenderInv, UNCHANGED faulty,
           \/ \E o, r, v : Render!resolve_session(o, r, v)
           \/ \E q \in requests : Render!mark_attended_with_event(q)
           \/ Render!rotate \/ Render!disable \/ Render!complete
    PROVE  RenderInv'
<1>1. CASE /\ UNCHANGED <<event, Render!desk>>
           /\ UNCHANGED status \/ \E r : status' = [status EXCEPT ![r] = "attended"]
  <2>1. /\ DOMAIN status' = DOMAIN status
        /\ \A r \in Attendees : status[r] = "attended" => status'[r] = "attended"
    BY <1>1 DEF RenderInv
  <2> QED
    BY <1>1, <2>1, DoorKeeps DEF Render!desk, Render!Certifiable
<1>2. CASE Render!complete
  BY <1>2, DoorKeeps DEF Render!complete, Render!desk, Render!Certifiable
<1> QED
  BY <1>1, <1>2 DEF Render!resolve_session, Render!mark_attended_with_event,
     Render!mark_attended_if, Render!rotate, Render!disable

\* Feedback and reissue, corrections, revocations and the event's end.
LEMMA PendingSteps ==
    ASSUME MaxRevisions \in Nat, RenderInv, UNCHANGED faulty, NEW r \in Attendees,
           Render!submit_identified_feedback(r) \/ Render!reissue(r)
    PROVE  RenderInv'
<1>1. Render!create_pending(r) /\ UNCHANGED <<event, status, store, usage, worker, cleanups>>
  BY DEF Render!submit_identified_feedback, Render!reissue
<1> QED
  BY <1>1, CreateKeeps

LEMMA CorrectKeeps ==
    ASSUME RenderInv, UNCHANGED faulty, NEW r \in Attendees, Render!correct_attendance(r)
    PROVE  RenderInv'
<1>1. PICK cs : cs = {c \in Render!Live(r) : Render!Cert(c).status = "active"}
  OBVIOUS
<1>2. /\ certificate' = Render!Revoked(cs) /\ UNCHANGED <<event, store, usage, worker, cleanups>>
      /\ status' = [status EXCEPT ![r] = "registered"]
  BY <1>1 DEF Render!correct_attendance
<1>3. \A c \in Render!Issued : c \in cs => Render!Cert(c).status = "active"
  BY <1>1
<1>4. ASSUME NEW c \in Render!Issued, c \notin cs, Render!Cert(c).status = "active"
      PROVE  status'[c.reg] = "attended" /\ Render!Certifiable'
  <2>1. c.reg # r
    BY <1>1, <1>4 DEF Render!Live
  <2>2. status[c.reg] = "attended" /\ Render!Certifiable
    BY <1>4 DEF RenderInv, Render!ActiveIsEarned
  <2> QED
    BY <1>2, <2>1, <2>2 DEF Render!Certifiable
<1> QED
  BY <1>2, <1>3, <1>4, RevokeKeeps

LEMMA RevokeSteps ==
    ASSUME RenderInv, UNCHANGED faulty, NEW c \in Render!Issued, Render!revoke(c)
    PROVE  RenderInv'
<1>1. PICK cs : cs = {c}
  OBVIOUS
<1>2. /\ certificate' = Render!Revoked(cs) /\ UNCHANGED <<event, status, store, usage, worker>>
      /\ cleanups' = cleanups \cup {Render!Callback(c)}
  BY <1>1 DEF Render!revoke
<1>3. \A d \in Render!Issued : d \in cs => Render!Callback(d) \in cleanups'
  BY <1>1, <1>2
<1>4. \A d \in Render!Issued : Render!Cert(d).status = "active" =>
        status'[d.reg] = "attended" /\ Render!Certifiable'
  BY <1>2 DEF RenderInv, Render!ActiveIsEarned, Render!Certifiable
<1>5. cleanups \subseteq cleanups' /\ \A t \in cleanups' : t \in cleanups \/ t = Render!Callback(c)
  BY <1>2
<1> QED
  BY <1>2, <1>3, <1>4, <1>5, RevokeKeeps

LEMMA CancelKeeps ==
    ASSUME RenderInv, UNCHANGED faulty, Render!cancel
    PROVE  RenderInv'
<1>1. PICK cs : cs = UNION {Render!Live(r) : r \in Attendees}
  OBVIOUS
<1>2. /\ certificate' = Render!Revoked(cs) /\ UNCHANGED <<status, store, usage, worker>>
      /\ cleanups' = cleanups \cup {Render!Callback(c) : c \in cs}
  BY <1>1 DEF Render!cancel
<1>3. cs \subseteq Render!Issued
  BY <1>1 DEF Render!Live
<1>4. \A c \in Render!Issued : c \notin cs => Render!Cert(c).status = "revoked"
  BY <1>1, RowTyped DEF RenderInv, Render!Live
<1>5. /\ cleanups \subseteq cleanups' /\ \A c \in cs : Render!Callback(c) \in cleanups'
      /\ \A t \in cleanups' : t \in cleanups \/ \E c \in Render!Issued : t = Render!Callback(c)
  BY <1>2, <1>3
<1> QED
  BY <1>2, <1>4, <1>5, RevokeKeeps

LEMMA RenderStep ==
    ASSUME MaxRevisions \in Nat, RenderInv, [Render!Next]_Render!vars
    PROVE  RenderInv'
<1>1. CASE UNCHANGED Render!vars
  <2>1. UNCHANGED <<event, status, certificate, store, usage, worker, cleanups, faulty>>
    BY <1>1 DEF Render!vars
  <2> QED
    BY <2>1, DoorKeeps DEF Render!Certifiable
<1>2. CASE Render!Next
  BY <1>2, DoorSteps, PendingSteps, CorrectKeeps, RevokeSteps, CancelKeeps, RenderClaimKeeps,
     StoreKeeps, ActivateKeeps, FailKeeps, CleanupKeeps, KilledKeeps DEF Render!Next,
     Render!Moves
<1> QED
  BY <1>1, <1>2

\* The cardinality of a component's module is that of the library.
LEMMA RenderCardinality ==
    /\ \A S : Render!Cardinality(S) = Cardinality(S)
  BY DEF Render!Cardinality, Cardinality

LEMMA RenderSound ==
    ASSUME RenderInv
    PROVE  Render!ActiveIsEarned /\ Render!IssuedRetained /\ Render!AbandonedCollected
<1>1. Render!IssuedRetained
  BY RenderCardinality DEF RenderInv, Retained, Rendered, Render!IssuedRetained
<1>2. Render!AbandonedCollected
  BY DEF RenderInv, AbandonedAnswered, Answered, Render!AbandonedCollected
<1> QED
  BY <1>1, <1>2 DEF RenderInv

\* A certificate stands only for attendance that stands, whatever is corrected or
\* cancelled while it is rendered (services_certificates._activate); an issued PDF
\* is retained and charged exactly once; and where no process dies, a certificate
\* revoked before it was issued leaves no object that nobody answers for
\* (certificate_cleanup).
THEOREM CertificatesAlwaysSound == Spec => []CertificatesSound
<1>1. Init => (part = "render" => RenderInv)
  BY RenderInit DEF Init
<1>2. (part = "render" => RenderInv) /\ [Next]_vars => (part = "render" => RenderInv)'
  BY RenderStep, PartStep, RenderAssumption
<1>3. (part = "render" => RenderInv) => CertificatesSound
  BY RenderSound DEF CertificatesSound
<1> QED
  BY <1>1, <1>2, <1>3, PTL DEF Spec

\* Only a check-in records a scan or marks an attendance, and it looked at both.
LEMMA RenderScans ==
    ASSUME [Render!Next]_Render!vars
    PROVE  Render!ReplayIgnored /\ Render!CheckedInByStation
<1>1. CASE UNCHANGED <<status, checkins>>
  BY <1>1 DEF Render!ReplayIgnored, Render!CheckedInByStation
<1>2. CASE UNCHANGED <<requests, checkins>>
  BY <1>2 DEF Render!ReplayIgnored, Render!CheckedInByStation
<1>3. ASSUME NEW q \in requests, Render!mark_attended_with_event(q)
      PROVE  Render!ReplayIgnored /\ Render!CheckedInByStation
  <2>1. Render!ReplayIgnored
    <3> SUFFICES ASSUME NEW p \in requests, NEW k \in checkins, k.op = p.op,
                        requests' = requests \ {p}
                 PROVE  status' = status
      BY DEF Render!ReplayIgnored
    <3>1. p = q
      BY <1>3 DEF Render!mark_attended_with_event, Render!mark_attended_if
    <3> QED
      BY <1>3, <3>1 DEF Render!mark_attended_with_event, Render!mark_attended_if,
         Render!Recorded
  <2>2. Render!CheckedInByStation
    <3> SUFFICES ASSUME NEW k \in checkins' \ checkins, k.version > 0
                 PROVE  station.enabled /\ station.version = k.version
      BY DEF Render!CheckedInByStation
    <3>1. k = q /\ Render!SessionStands(q)
      BY <1>3 DEF Render!mark_attended_with_event, Render!mark_attended_if
    <3> QED
      BY <3>1 DEF Render!SessionStands
  <2> QED
    BY <2>1, <2>2
<1>4. CASE UNCHANGED Render!vars
  BY <1>1, <1>4 DEF Render!vars
<1>5. CASE Render!Next
  BY <1>1, <1>2, <1>3, <1>5, ZenonT(60) DEF Render!Next, Render!Moves, Render!resolve_session,
     Render!rotate, Render!disable, Render!cancel, Render!complete, Render!Killed,
     Render!submit_identified_feedback, Render!reissue, Render!correct_attendance,
     Render!revoke, Render!_claim_render, Render!store_immutable_pdf, Render!StorageUnavailable,
     Render!_activate, Render!activate_if, Render!_fail_render,
     Render!cleanup_abandoned_certificate, Render!door
<1> QED
  BY <1>4, <1>5

LEMMA CheckinScans ==
    ASSUME [Checkin!Next]_Checkin!vars
    PROVE  Checkin!ReplayIgnored /\ Checkin!CheckedInByStation
<1>1. CASE UNCHANGED <<status, checkins>>
  BY <1>1 DEF Checkin!ReplayIgnored, Checkin!CheckedInByStation
<1>2. CASE UNCHANGED <<requests, checkins>>
  BY <1>2 DEF Checkin!ReplayIgnored, Checkin!CheckedInByStation
<1>3. ASSUME NEW q \in requests, Checkin!mark_attended_with_event(q)
      PROVE  Checkin!ReplayIgnored /\ Checkin!CheckedInByStation
  <2>1. Checkin!ReplayIgnored
    <3> SUFFICES ASSUME NEW p \in requests, NEW k \in checkins, k.op = p.op,
                        requests' = requests \ {p}
                 PROVE  status' = status
      BY DEF Checkin!ReplayIgnored
    <3>1. p = q
      BY <1>3 DEF Checkin!mark_attended_with_event, Checkin!mark_attended_if
    <3> QED
      BY <1>3, <3>1 DEF Checkin!mark_attended_with_event, Checkin!mark_attended_if,
         Checkin!Recorded
  <2>2. Checkin!CheckedInByStation
    <3> SUFFICES ASSUME NEW k \in checkins' \ checkins, k.version > 0
                 PROVE  station.enabled /\ station.version = k.version
      BY DEF Checkin!CheckedInByStation
    <3>1. k = q /\ Checkin!SessionStands(q)
      BY <1>3 DEF Checkin!mark_attended_with_event, Checkin!mark_attended_if
    <3> QED
      BY <3>1 DEF Checkin!SessionStands
  <2> QED
    BY <2>1, <2>2
<1>4. CASE UNCHANGED Checkin!vars
  BY <1>1, <1>4 DEF Checkin!vars
<1>5. CASE Checkin!Next
  BY <1>1, <1>2, <1>3, <1>5, ZenonT(60) DEF Checkin!Next, Checkin!Moves, Checkin!resolve_session,
     Checkin!rotate, Checkin!disable, Checkin!cancel, Checkin!complete, Checkin!Killed,
     Checkin!submit_identified_feedback, Checkin!reissue, Checkin!correct_attendance,
     Checkin!revoke, Checkin!_claim_render, Checkin!store_immutable_pdf,
     Checkin!StorageUnavailable, Checkin!_activate, Checkin!activate_if, Checkin!_fail_render,
     Checkin!cleanup_abandoned_certificate, Checkin!door
<1> QED
  BY <1>4, <1>5

\* A scan that a device repeats undoes no correction made since, and no check-in
\* lands from a session whose PIN was rotated or switched off
\* (mark_attended_with_event looks at both inside its transaction).
THEOREM CheckInsAlwaysCount == Spec => CheckInsCount
<1>1. [Next]_vars
      => [/\ part = "render" => Render!ReplayIgnored /\ Render!CheckedInByStation
          /\ part = "checkin" => Checkin!ReplayIgnored /\ Checkin!CheckedInByStation]_vars
  BY PartStep, RenderScans, CheckinScans
<1> QED
  BY <1>1, PTL DEF Spec, CheckInsCount

-----------------------------------------------------------------------------
(* The archives of the deployment.                                         *)
ArchiveLaws == INSTANCE ArchiveProofs WITH None <- Unused

(* The archives that ArchiveProofs is about are those of this deployment.  *)
LEMMA SameArchives ==
    /\ Backups!ArchiveConstants <=> ArchiveLaws!ArchiveConstants
    /\ Backups!Init <=> ArchiveLaws!Init
    /\ [Backups!Next]_Backups!vars => [ArchiveLaws!Next]_ArchiveLaws!vars
    /\ Backups!ArchivesBacked <=> ArchiveLaws!ArchivesBacked
    /\ Backups!OneLineage <=> ArchiveLaws!OneLineage
    /\ Backups!ExclusionEarned <=> ArchiveLaws!ExclusionEarned
<1>1. /\ Backups!Init <=> ArchiveLaws!Init
      /\ Backups!ArchivesBacked <=> ArchiveLaws!ArchivesBacked
      /\ Backups!OneLineage <=> ArchiveLaws!OneLineage
      /\ Backups!ExclusionEarned <=> ArchiveLaws!ExclusionEarned
      /\ Backups!ArchiveConstants <=> ArchiveLaws!ArchiveConstants
      /\ Backups!DeleteFailed <=> ArchiveLaws!DeleteFailed
      /\ Backups!sweep_stale_promotions <=> ArchiveLaws!sweep_stale_promotions
      /\ Backups!_fail_stale_runs <=> ArchiveLaws!_fail_stale_runs
      /\ Backups!NotDue <=> ArchiveLaws!NotDue
      /\ Backups!open_run <=> ArchiveLaws!open_run
      /\ Backups!_mark_coverage_covered <=> ArchiveLaws!_mark_coverage_covered
      /\ Backups!finalize_run <=> ArchiveLaws!finalize_run
      /\ \A a \in Archives :
               Backups!_build_run_archives(a) <=> ArchiveLaws!_build_run_archives(a)
      /\ Backups!_claim_archive <=> ArchiveLaws!_claim_archive
      /\ Backups!build_archive <=> ArchiveLaws!build_archive
      /\ Backups!_claim_promotion <=> ArchiveLaws!_claim_promotion
      /\ Backups!persist_pending <=> ArchiveLaws!persist_pending
      /\ Backups!upload_staging <=> ArchiveLaws!upload_staging
      /\ Backups!mark_staging_verified <=> ArchiveLaws!mark_staging_verified
      /\ Backups!create_final_from_staging <=> ArchiveLaws!create_final_from_staging
      /\ Backups!mark_final_verified <=> ArchiveLaws!mark_final_verified
      /\ Backups!promote_verified_artifact <=> ArchiveLaws!promote_verified_artifact
      /\ Backups!_commit_archive_available <=> ArchiveLaws!_commit_archive_available
      /\ Backups!DeleteStaging <=> ArchiveLaws!DeleteStaging
      /\ Backups!mark_cleanup_complete <=> ArchiveLaws!mark_cleanup_complete
      /\ Backups!Built <=> ArchiveLaws!Built
      /\ Backups!BuilderConflict <=> ArchiveLaws!BuilderConflict
      /\ \A a \in Archives :
               Backups!_reconcile_pending(a) <=> ArchiveLaws!_reconcile_pending(a)
      /\ \A a \in Archives : Backups!RetryCleanup(a) <=> ArchiveLaws!RetryCleanup(a)
      /\ Backups!_tombstone <=> ArchiveLaws!_tombstone
      /\ Backups!Bury <=> ArchiveLaws!Bury
      /\ Backups!NextArtifact <=> ArchiveLaws!NextArtifact
      /\ Backups!StartCleanup <=> ArchiveLaws!StartCleanup
      /\ Backups!CleanupRetried <=> ArchiveLaws!CleanupRetried
      /\ Backups!Reconciled <=> ArchiveLaws!Reconciled
      /\ \A a \in Archives, scope \in Scopes :
               Backups!create_archive(a, scope) <=> ArchiveLaws!create_archive(a, scope)
      /\ \A a \in Archives :
               Backups!fail_archive_dispatch(a) <=> ArchiveLaws!fail_archive_dispatch(a)
      /\ \A a \in Archives : Backups!run_archive(a) <=> ArchiveLaws!run_archive(a)
      /\ Backups!set_superadmin_access <=> ArchiveLaws!set_superadmin_access
      /\ \A a \in Archives : Backups!Expires(a) <=> ArchiveLaws!Expires(a)
      /\ \A a \in Archives :
               Backups!purge_expired_archives(a) <=> ArchiveLaws!purge_expired_archives(a)
      /\ Backups!mark_managed_bytes_deleted <=> ArchiveLaws!mark_managed_bytes_deleted
      /\ Backups!PurgeRow <=> ArchiveLaws!PurgeRow
      /\ Backups!schedule_deployment_backup <=> ArchiveLaws!schedule_deployment_backup
      /\ Backups!reconcile_artifact_uploads <=> ArchiveLaws!reconcile_artifact_uploads
      /\ Backups!Raises <=> ArchiveLaws!Raises
      /\ Backups!_fail_run <=> ArchiveLaws!_fail_run
      /\ Backups!Dies <=> ArchiveLaws!Dies
      /\ Backups!LeaseLapses <=> ArchiveLaws!LeaseLapses
  <2> USE DEF Backups!ArchiveConstants, ArchiveLaws!ArchiveConstants, Backups!Open,
          ArchiveLaws!Open, Backups!Promoted, ArchiveLaws!Promoted,
          Backups!Protected, ArchiveLaws!Protected, Backups!Promoting,
          ArchiveLaws!Promoting, Backups!Missing, ArchiveLaws!Missing,
          Backups!Deployment, ArchiveLaws!Deployment, Backups!Full,
          ArchiveLaws!Full, Backups!NoFacts, ArchiveLaws!NoFacts, Backups!Idle,
          ArchiveLaws!Idle, Backups!Mishap, ArchiveLaws!Mishap, Backups!At,
          ArchiveLaws!At, Backups!Goes, ArchiveLaws!Goes, Backups!Ends,
          ArchiveLaws!Ends, Backups!Init, ArchiveLaws!Init, Backups!rows,
          ArchiveLaws!rows, Backups!objects, ArchiveLaws!objects, Backups!others,
          ArchiveLaws!others, Backups!Reserved, ArchiveLaws!Reserved,
          Backups!create_archive, ArchiveLaws!create_archive,
          Backups!fail_archive_dispatch, ArchiveLaws!fail_archive_dispatch,
          Backups!set_superadmin_access, ArchiveLaws!set_superadmin_access,
          Backups!Failed, ArchiveLaws!Failed, Backups!_fail_archive,
          ArchiveLaws!_fail_archive, Backups!DeleteFailed, ArchiveLaws!DeleteFailed,
          Backups!Acquires, ArchiveLaws!Acquires, Backups!run_archive,
          ArchiveLaws!run_archive, Backups!schedule_deployment_backup,
          ArchiveLaws!schedule_deployment_backup,
          Backups!reconcile_artifact_uploads,
          ArchiveLaws!reconcile_artifact_uploads, Backups!sweep_stale_promotions,
          ArchiveLaws!sweep_stale_promotions, Backups!_fail_stale_runs,
          ArchiveLaws!_fail_stale_runs, Backups!NotDue, ArchiveLaws!NotDue,
          Backups!open_run, ArchiveLaws!open_run, Backups!_build_run_archives,
          ArchiveLaws!_build_run_archives, Backups!_mark_coverage_covered,
          ArchiveLaws!_mark_coverage_covered, Backups!finalize_run,
          ArchiveLaws!finalize_run, Backups!_fail_run, ArchiveLaws!_fail_run,
          Backups!_claim_archive, ArchiveLaws!_claim_archive, Backups!RunHolds,
          ArchiveLaws!RunHolds, Backups!predecessor_snapshot,
          ArchiveLaws!predecessor_snapshot, Backups!build_archive,
          ArchiveLaws!build_archive, Backups!_claim_promotion,
          ArchiveLaws!_claim_promotion, Backups!persist_pending,
          ArchiveLaws!persist_pending, Backups!upload_staging,
          ArchiveLaws!upload_staging, Backups!mark_staging_verified,
          ArchiveLaws!mark_staging_verified, Backups!create_final_from_staging,
          ArchiveLaws!create_final_from_staging, Backups!mark_final_verified,
          ArchiveLaws!mark_final_verified, Backups!validate_frozen_state,
          ArchiveLaws!validate_frozen_state, Backups!PromotedLedger,
          ArchiveLaws!PromotedLedger, Backups!promote_verified_artifact,
          ArchiveLaws!promote_verified_artifact, Backups!_commit_archive_available,
          ArchiveLaws!_commit_archive_available, Backups!DeleteStaging,
          ArchiveLaws!DeleteStaging, Backups!mark_cleanup_complete,
          ArchiveLaws!mark_cleanup_complete, Backups!Built, ArchiveLaws!Built,
          Backups!Raises, ArchiveLaws!Raises, Backups!BuilderConflict,
          ArchiveLaws!BuilderConflict, Backups!_reconcile_pending,
          ArchiveLaws!_reconcile_pending, Backups!_tombstone,
          ArchiveLaws!_tombstone, Backups!Bury, ArchiveLaws!Bury,
          Backups!NextArtifact, ArchiveLaws!NextArtifact, Backups!Retained,
          ArchiveLaws!Retained, Backups!StartCleanup, ArchiveLaws!StartCleanup,
          Backups!Kept, ArchiveLaws!Kept, Backups!RetryCleanup,
          ArchiveLaws!RetryCleanup, Backups!CleanupRetried,
          ArchiveLaws!CleanupRetried, Backups!Reconciled, ArchiveLaws!Reconciled,
          Backups!Expires, ArchiveLaws!Expires, Backups!purge_expired_archives,
          ArchiveLaws!purge_expired_archives, Backups!mark_managed_bytes_deleted,
          ArchiveLaws!mark_managed_bytes_deleted, Backups!PurgeRow,
          ArchiveLaws!PurgeRow, Backups!Dies, ArchiveLaws!Dies, Backups!LeaseLapses,
          ArchiveLaws!LeaseLapses, Backups!Statuses, ArchiveLaws!Statuses,
          Backups!Switch, ArchiveLaws!Switch, Backups!Facts, ArchiveLaws!Facts,
          Backups!BackupRows, ArchiveLaws!BackupRows, Backups!LedgerRows,
          ArchiveLaws!LedgerRows, Backups!Steps, ArchiveLaws!Steps, Backups!Holders,
          ArchiveLaws!Holders, Backups!TypeOK, ArchiveLaws!TypeOK,
          Backups!ArchivesBacked, ArchiveLaws!ArchivesBacked, Backups!OneLineage,
          ArchiveLaws!OneLineage, Backups!ExclusionEarned,
          ArchiveLaws!ExclusionEarned, Backups!Cardinality, ArchiveLaws!Cardinality,
          Backups!IsFiniteSet, ArchiveLaws!IsFiniteSet
  <2>1. Backups!Init <=> ArchiveLaws!Init
    OBVIOUS
  <2>2. Backups!ArchivesBacked <=> ArchiveLaws!ArchivesBacked
    OBVIOUS
  <2>3. Backups!OneLineage <=> ArchiveLaws!OneLineage
    OBVIOUS
  <2>4. Backups!ExclusionEarned <=> ArchiveLaws!ExclusionEarned
    OBVIOUS
  <2>5. Backups!ArchiveConstants <=> ArchiveLaws!ArchiveConstants
    OBVIOUS
  <2>6. Backups!DeleteFailed <=> ArchiveLaws!DeleteFailed
    OBVIOUS
  <2>7. Backups!sweep_stale_promotions <=> ArchiveLaws!sweep_stale_promotions
    OBVIOUS
  <2>8. Backups!_fail_stale_runs <=> ArchiveLaws!_fail_stale_runs
    OBVIOUS
  <2>9. Backups!NotDue <=> ArchiveLaws!NotDue
    OBVIOUS
  <2>10. Backups!open_run <=> ArchiveLaws!open_run
    OBVIOUS
  <2>11. Backups!_mark_coverage_covered <=> ArchiveLaws!_mark_coverage_covered
    OBVIOUS
  <2>12. Backups!finalize_run <=> ArchiveLaws!finalize_run
    OBVIOUS
  <2>13. \A a \in Archives :
           Backups!_build_run_archives(a) <=> ArchiveLaws!_build_run_archives(a)
    OBVIOUS
  <2>14. Backups!_claim_archive <=> ArchiveLaws!_claim_archive
    OBVIOUS
  <2>15. Backups!build_archive <=> ArchiveLaws!build_archive
    OBVIOUS
  <2>16. Backups!_claim_promotion <=> ArchiveLaws!_claim_promotion
    OBVIOUS
  <2>17. Backups!persist_pending <=> ArchiveLaws!persist_pending
    OBVIOUS
  <2>18. Backups!upload_staging <=> ArchiveLaws!upload_staging
    OBVIOUS
  <2>19. Backups!mark_staging_verified <=> ArchiveLaws!mark_staging_verified
    OBVIOUS
  <2>20. Backups!create_final_from_staging <=> ArchiveLaws!create_final_from_staging
    OBVIOUS
  <2>21. Backups!mark_final_verified <=> ArchiveLaws!mark_final_verified
    OBVIOUS
  <2>22. Backups!promote_verified_artifact <=> ArchiveLaws!promote_verified_artifact
    OBVIOUS
  <2>23. Backups!_commit_archive_available <=> ArchiveLaws!_commit_archive_available
    OBVIOUS
  <2>24. Backups!DeleteStaging <=> ArchiveLaws!DeleteStaging
    OBVIOUS
  <2>25. Backups!mark_cleanup_complete <=> ArchiveLaws!mark_cleanup_complete
    OBVIOUS
  <2>26. Backups!Built <=> ArchiveLaws!Built
    OBVIOUS
  <2>27. Backups!BuilderConflict <=> ArchiveLaws!BuilderConflict
    OBVIOUS
  <2>28. \A a \in Archives :
           Backups!_reconcile_pending(a) <=> ArchiveLaws!_reconcile_pending(a)
    OBVIOUS
  <2>29. \A a \in Archives : Backups!RetryCleanup(a) <=> ArchiveLaws!RetryCleanup(a)
    OBVIOUS
  <2>30. Backups!_tombstone <=> ArchiveLaws!_tombstone
    OBVIOUS
  <2>31. Backups!Bury <=> ArchiveLaws!Bury
    OBVIOUS
  <2>32. Backups!NextArtifact <=> ArchiveLaws!NextArtifact
    OBVIOUS
  <2>33. Backups!StartCleanup <=> ArchiveLaws!StartCleanup
    OBVIOUS
  <2>34. Backups!CleanupRetried <=> ArchiveLaws!CleanupRetried
    OBVIOUS
  <2>35. Backups!Reconciled <=> ArchiveLaws!Reconciled
    OBVIOUS
  <2>36. \A a \in Archives, scope \in Scopes :
           Backups!create_archive(a, scope) <=> ArchiveLaws!create_archive(a, scope)
    OBVIOUS
  <2>37. \A a \in Archives :
           Backups!fail_archive_dispatch(a) <=> ArchiveLaws!fail_archive_dispatch(a)
    OBVIOUS
  <2>38. \A a \in Archives : Backups!run_archive(a) <=> ArchiveLaws!run_archive(a)
    OBVIOUS
  <2>39. Backups!set_superadmin_access <=> ArchiveLaws!set_superadmin_access
    OBVIOUS
  <2>40. \A a \in Archives : Backups!Expires(a) <=> ArchiveLaws!Expires(a)
    OBVIOUS
  <2>41. \A a \in Archives :
           Backups!purge_expired_archives(a) <=> ArchiveLaws!purge_expired_archives(a)
    OBVIOUS
  <2>42. Backups!mark_managed_bytes_deleted <=> ArchiveLaws!mark_managed_bytes_deleted
    OBVIOUS
  <2>43. Backups!PurgeRow <=> ArchiveLaws!PurgeRow
    OBVIOUS
  <2>44. Backups!schedule_deployment_backup <=> ArchiveLaws!schedule_deployment_backup
    OBVIOUS
  <2>45. Backups!reconcile_artifact_uploads <=> ArchiveLaws!reconcile_artifact_uploads
    OBVIOUS
  <2>46. Backups!Raises <=> ArchiveLaws!Raises
    OBVIOUS
  <2>47. Backups!_fail_run <=> ArchiveLaws!_fail_run
    OBVIOUS
  <2>48. Backups!Dies <=> ArchiveLaws!Dies
    OBVIOUS
  <2>49. Backups!LeaseLapses <=> ArchiveLaws!LeaseLapses
    OBVIOUS
  <2> QED
    BY <2>1, <2>2, <2>3, <2>4, <2>5, <2>6, <2>7, <2>8, <2>9, <2>10, <2>11, <2>12,
       <2>13, <2>14, <2>15, <2>16, <2>17, <2>18, <2>19, <2>20, <2>21, <2>22, <2>23,
       <2>24, <2>25, <2>26, <2>27, <2>28, <2>29, <2>30, <2>31, <2>32, <2>33, <2>34,
       <2>35, <2>36, <2>37, <2>38, <2>39, <2>40, <2>41, <2>42, <2>43, <2>44, <2>45,
       <2>46, <2>47, <2>48, <2>49
<1>2. Backups!Next <=> ArchiveLaws!Next
  BY <1>1 DEF Backups!Next, Backups!Works, Backups!Asked, Backups!Purges,
     ArchiveLaws!Next, ArchiveLaws!Works, ArchiveLaws!Asked, ArchiveLaws!Purges
<1> QED
  BY <1>1, <1>2 DEF Backups!vars, ArchiveLaws!vars

(* The rows of an archive, its objects and the history of the promotions   *)
(* agree, whatever dies, fails, expires or is switched off meanwhile       *)
(* (promotion.py, reconciliation.py, services_archives.py).                *)
THEOREM ArchivesAgree == Spec => [](part = "archiving" => ArchiveLaws!ArchiveInv)
<1>1. ArchiveLaws!ArchiveConstants
  BY SameArchives, BackupsAssumption
<1>2. Init => (part = "archiving" => ArchiveLaws!ArchiveInv)
  BY <1>1, SameArchives, ArchiveLaws!ArchiveInit DEF Init
<1>3. (part = "archiving" => ArchiveLaws!ArchiveInv) /\ [Next]_vars
        => (part = "archiving" => ArchiveLaws!ArchiveInv)'
  BY <1>1, SameArchives, ArchiveLaws!ArchiveNext, PartStep
<1> QED
  BY <1>2, <1>3, PTL DEF Spec

(* An archive that can be downloaded has its object and nothing that was   *)
(* cleaned up has one left; promotion never forks the history, and an      *)
(* exclusion in effect rests on an artifact that does not show the         *)
(* makerspace (promote_verified_artifact, validate_frozen_state,           *)
(* reconcile_artifact_uploads, purge_expired_archives).                    *)
THEOREM ArchivesAlwaysSound == Spec => []ArchivesSound
<1>1. (part = "archiving" => ArchiveLaws!ArchiveInv) => ArchivesSound
  BY SameArchives, ArchiveLaws!ArchiveInvSound DEF ArchivesSound
<1> QED
  BY <1>1, ArchivesAgree, PTL
=============================================================================

------------------------ MODULE StorageLifecycleProofs ------------------------
(* Proofs about StorageLifecycle for any number of segments, archive targets *)
(* and worker threads, and about RecorderRuntime for any profiles, policies  *)
(* and worker threads.                                                       *)
EXTENDS StorageLifecycle, RecorderRuntime, TLAPS

LEMMA NothingType == NoSegment \in Segments /\ NoRemote \in Remotes
  BY SetsAssumption DEF NoSegment, NoRemote

LEMMA RetryArchiveType ==
  ASSUME QueueType, NEW s \in Segments, NEW r \in Remotes, MayRetryArchive(s, r)
  PROVE  archiveQ' \in [Segments -> [Remotes -> 0..MaxPending]]
<1>1. CASE archiveQ' = archiveQ
  BY <1>1 DEF QueueType
<1>2. CASE /\ archiveQ[s][r] < MaxPending
           /\ archiveQ' = [archiveQ EXCEPT ![s][r] = @ + 1]
  BY <1>2, BoundsAssumption DEF QueueType
<1> QED
  BY <1>1, <1>2 DEF MayRetryArchive

LEMMA RetryDeleteType ==
  ASSUME QueueType, NEW s \in Segments, NEW p \in BOOLEAN, MayRetryDelete(s, p)
  PROVE  deleteQ' \in [Segments -> [BOOLEAN -> 0..MaxPending]]
<1>1. CASE deleteQ' = deleteQ
  BY <1>1 DEF QueueType
<1>2. CASE /\ deleteQ[s][p] < MaxPending
           /\ deleteQ' = [deleteQ EXCEPT ![s][p] = @ + 1]
  BY <1>2, BoundsAssumption DEF QueueType
<1> QED
  BY <1>1, <1>2 DEF MayRetryDelete

LEMMA TypeInit == Init => TypeOK
<1> USE NothingType, BoundsAssumption
<1> SUFFICES ASSUME Init PROVE TypeOK
  OBVIOUS
<1>1. StoreType
  BY DEF Init, StoreType, LocalStates, RemoteStates
<1>2. RulesType
  <2>1. crashes \in 0..MaxCrashes
    BY DEF Init
  <2>2. required \in BOOLEAN /\ pressure \in BOOLEAN /\ mounted \in BOOLEAN
    BY DEF Init
  <2>3. /\ guarded \in [Segments -> BOOLEAN] /\ due \in [Segments -> BOOLEAN]
        /\ enabled \in [Remotes -> BOOLEAN]
    BY DEF Init
  <2>4. claiming \subseteq Segments /\ suspects \subseteq Segments
    BY DEF Init
  <2> QED
    BY <2>1, <2>2, <2>3, <2>4 DEF RulesType
<1>3. QueueType
  BY DEF Init, QueueType
<1>4. ProcType
  BY DEF Init, ProcType, RemoteStates
<1> QED
  BY <1>1, <1>2, <1>3, <1>4 DEF TypeOK

LEMMA TypeArchive == ASSUME TypeOK, NEW w \in Workers, ArchiveStep(w) PROVE TypeOK'
<1> USE NothingType, BoundsAssumption DEF TypeOK, StoreType, RulesType, QueueType,
        ProcType, LocalStates, RemoteStates, ArchiveSteps, DeleteSteps, store, rules,
        queues, procs, task, Goto, Finish
<1>1. ASSUME NEW s \in Segments, NEW r \in Remotes, ArchiveImpossible(w, s, r) PROVE TypeOK'
  <2>1. StoreType'
    BY <1>1 DEF ArchiveImpossible, TakeArchive
  <2>2. RulesType'
    BY <1>1 DEF ArchiveImpossible, TakeArchive
  <2>3. QueueType'
    BY <1>1 DEF ArchiveImpossible, TakeArchive
  <2>4. ProcType'
    BY <1>1 DEF ArchiveImpossible, TakeArchive
  <2> QED
    BY <2>1, <2>2, <2>3, <2>4
<1>2. ASSUME NEW s \in Segments, NEW r \in Remotes, ArchiveAlreadyAvailable(w, s, r) PROVE TypeOK'
  <2>1. StoreType'
    BY <1>2 DEF ArchiveAlreadyAvailable, TakeArchive
  <2>2. RulesType'
    BY <1>2 DEF ArchiveAlreadyAvailable, TakeArchive
  <2>3. QueueType'
    BY <1>2 DEF ArchiveAlreadyAvailable, TakeArchive
  <2>4. ProcType'
    BY <1>2 DEF ArchiveAlreadyAvailable, TakeArchive
  <2> QED
    BY <2>1, <2>2, <2>3, <2>4
<1>3. ASSUME NEW s \in Segments, NEW r \in Remotes, ArchiveBegin(w, s, r) PROVE TypeOK'
  <2>1. StoreType'
    BY <1>3 DEF ArchiveBegin, TakeArchive
  <2>2. RulesType'
    BY <1>3 DEF ArchiveBegin, TakeArchive
  <2>3. QueueType'
    BY <1>3 DEF ArchiveBegin, TakeArchive
  <2>4. ProcType'
    BY <1>3 DEF ArchiveBegin, TakeArchive
  <2> QED
    BY <2>1, <2>2, <2>3, <2>4
<1>4. CASE ArchiveRowConflict(w)
  <2>1. StoreType'
    BY <1>4 DEF ArchiveRowConflict
  <2>2. RulesType'
    BY <1>4 DEF ArchiveRowConflict
  <2>3. QueueType'
    <3>1. MayRetryArchive(seg[w], rem[w]) /\ deleteQ' = deleteQ
      BY <1>4 DEF ArchiveRowConflict
    <3>2. seg[w] \in Segments /\ rem[w] \in Remotes
      OBVIOUS
    <3> QED
      BY <3>1, <3>2, RetryArchiveType
  <2>4. ProcType'
    BY <1>4 DEF ArchiveRowConflict
  <2> QED
    BY <2>1, <2>2, <2>3, <2>4
<1>5. CASE ArchivePrepare(w)
  <2>1. StoreType'
    BY <1>5 DEF ArchivePrepare
  <2>2. RulesType'
    BY <1>5 DEF ArchivePrepare
  <2>3. QueueType'
    BY <1>5 DEF ArchivePrepare
  <2>4. ProcType'
    BY <1>5 DEF ArchivePrepare
  <2> QED
    BY <2>1, <2>2, <2>3, <2>4
<1>6. CASE ArchiveUpload(w)
  <2>1. StoreType'
    BY <1>6 DEF ArchiveUpload
  <2>2. RulesType'
    BY <1>6 DEF ArchiveUpload
  <2>3. QueueType'
    BY <1>6 DEF ArchiveUpload
  <2>4. ProcType'
    BY <1>6 DEF ArchiveUpload
  <2> QED
    BY <2>1, <2>2, <2>3, <2>4
<1>7. CASE ArchiveUploadFails(w)
  <2>1. StoreType'
    BY <1>7 DEF ArchiveUploadFails
  <2>2. RulesType'
    BY <1>7 DEF ArchiveUploadFails
  <2>3. QueueType'
    BY <1>7 DEF ArchiveUploadFails
  <2>4. ProcType'
    BY <1>7 DEF ArchiveUploadFails
  <2> QED
    BY <2>1, <2>2, <2>3, <2>4
<1>8. CASE ArchiveSourceMissing(w)
  <2>1. StoreType'
    BY <1>8 DEF ArchiveSourceMissing
  <2>2. RulesType'
    BY <1>8 DEF ArchiveSourceMissing
  <2>3. QueueType'
    BY <1>8 DEF ArchiveSourceMissing
  <2>4. ProcType'
    BY <1>8 DEF ArchiveSourceMissing
  <2> QED
    BY <2>1, <2>2, <2>3, <2>4
<1>9. CASE ArchiveMarkAvailable(w)
  <2>1. StoreType'
    BY <1>9 DEF ArchiveMarkAvailable
  <2>2. RulesType'
    BY <1>9 DEF ArchiveMarkAvailable
  <2>3. QueueType'
    BY <1>9 DEF ArchiveMarkAvailable
  <2>4. ProcType'
    BY <1>9 DEF ArchiveMarkAvailable
  <2> QED
    BY <2>1, <2>2, <2>3, <2>4
<1>10. CASE ArchiveMarkFailed(w)
  <2>1. StoreType'
    BY <1>10 DEF ArchiveMarkFailed
  <2>2. RulesType'
    BY <1>10 DEF ArchiveMarkFailed
  <2>3. QueueType'
    <3>1. MayRetryArchive(seg[w], rem[w]) /\ deleteQ' = deleteQ
      BY <1>10 DEF ArchiveMarkFailed
    <3>2. seg[w] \in Segments /\ rem[w] \in Remotes
      OBVIOUS
    <3> QED
      BY <3>1, <3>2, RetryArchiveType
  <2>4. ProcType'
    BY <1>10 DEF ArchiveMarkFailed
  <2> QED
    BY <2>1, <2>2, <2>3, <2>4
<1> QED
  BY <1>1, <1>2, <1>3, <1>4, <1>5, <1>6, <1>7, <1>8, <1>9, <1>10 DEF ArchiveStep

LEMMA TypeDelete == ASSUME TypeOK, NEW w \in Workers, DeleteStep(w) PROVE TypeOK'
<1> USE NothingType, BoundsAssumption DEF TypeOK, StoreType, RulesType, QueueType,
        ProcType, LocalStates, RemoteStates, ArchiveSteps, DeleteSteps, store, rules,
        queues, procs, task, Goto, Finish
<1>1. ASSUME NEW s \in Segments, NEW p \in BOOLEAN, DeleteRefused(w, s, p) PROVE TypeOK'
  <2>1. StoreType'
    BY <1>1 DEF DeleteRefused, TakeDelete
  <2>2. RulesType'
    BY <1>1 DEF DeleteRefused, TakeDelete
  <2>3. QueueType'
    BY <1>1 DEF DeleteRefused, TakeDelete
  <2>4. ProcType'
    BY <1>1 DEF DeleteRefused, TakeDelete
  <2> QED
    BY <2>1, <2>2, <2>3, <2>4
<1>2. ASSUME NEW s \in Segments, NEW p \in BOOLEAN, DeleteApprove(w, s, p) PROVE TypeOK'
  <2>1. StoreType'
    BY <1>2 DEF DeleteApprove, TakeDelete
  <2>2. RulesType'
    BY <1>2 DEF DeleteApprove, TakeDelete
  <2>3. QueueType'
    BY <1>2 DEF DeleteApprove, TakeDelete
  <2>4. ProcType'
    BY <1>2 DEF DeleteApprove, TakeDelete
  <2> QED
    BY <2>1, <2>2, <2>3, <2>4
<1>3. CASE DeleteMark(w)
  <2>1. StoreType'
    BY <1>3 DEF DeleteMark
  <2>2. RulesType'
    BY <1>3 DEF DeleteMark
  <2>3. QueueType'
    BY <1>3 DEF DeleteMark
  <2>4. ProcType'
    BY <1>3 DEF DeleteMark
  <2> QED
    BY <2>1, <2>2, <2>3, <2>4
<1>4. CASE DeleteUnlink(w)
  <2>1. StoreType'
    BY <1>4 DEF DeleteUnlink
  <2>2. RulesType'
    BY <1>4 DEF DeleteUnlink
  <2>3. QueueType'
    BY <1>4 DEF DeleteUnlink
  <2>4. ProcType'
    BY <1>4 DEF DeleteUnlink
  <2> QED
    BY <2>1, <2>2, <2>3, <2>4
<1>5. CASE DeleteNothingThere(w)
  <2>1. StoreType'
    BY <1>5 DEF DeleteNothingThere
  <2>2. RulesType'
    BY <1>5 DEF DeleteNothingThere
  <2>3. QueueType'
    BY <1>5 DEF DeleteNothingThere
  <2>4. ProcType'
    BY <1>5 DEF DeleteNothingThere
  <2> QED
    BY <2>1, <2>2, <2>3, <2>4
<1>6. CASE DeleteUnlinkFails(w)
  <2>1. StoreType'
    BY <1>6 DEF DeleteUnlinkFails
  <2>2. RulesType'
    BY <1>6 DEF DeleteUnlinkFails
  <2>3. QueueType'
    BY <1>6 DEF DeleteUnlinkFails
  <2>4. ProcType'
    BY <1>6 DEF DeleteUnlinkFails
  <2> QED
    BY <2>1, <2>2, <2>3, <2>4
<1>7. CASE DeleteMarkDeleted(w)
  <2>1. StoreType'
    BY <1>7 DEF DeleteMarkDeleted
  <2>2. RulesType'
    BY <1>7 DEF DeleteMarkDeleted
  <2>3. QueueType'
    BY <1>7 DEF DeleteMarkDeleted
  <2>4. ProcType'
    BY <1>7 DEF DeleteMarkDeleted
  <2> QED
    BY <2>1, <2>2, <2>3, <2>4
<1>8. CASE DeleteMarkFailed(w)
  <2>1. StoreType'
    BY <1>8 DEF DeleteMarkFailed
  <2>2. RulesType'
    BY <1>8 DEF DeleteMarkFailed
  <2>3. QueueType'
    <3>1. MayRetryDelete(seg[w], hurry[w]) /\ archiveQ' = archiveQ
      BY <1>8 DEF DeleteMarkFailed
    <3>2. seg[w] \in Segments /\ hurry[w] \in BOOLEAN
      OBVIOUS
    <3> QED
      BY <3>1, <3>2, RetryDeleteType
  <2>4. ProcType'
    BY <1>8 DEF DeleteMarkFailed
  <2> QED
    BY <2>1, <2>2, <2>3, <2>4
<1> QED
  BY <1>1, <1>2, <1>3, <1>4, <1>5, <1>6, <1>7, <1>8 DEF DeleteStep

LEMMA TypeCatalog == ASSUME TypeOK, NEW s \in Segments, CatalogStep(s) PROVE TypeOK'
<1> USE NothingType, BoundsAssumption DEF TypeOK, StoreType, RulesType, QueueType,
        ProcType, LocalStates, RemoteStates, ArchiveSteps, DeleteSteps, store, rules,
        queues, procs, task, Goto, Finish
<1>1. ASSUME NEW r \in Remotes, EnqueueArchive(s, r) PROVE TypeOK'
  <2>1. StoreType'
    BY <1>1 DEF EnqueueArchive
  <2>2. RulesType'
    BY <1>1 DEF EnqueueArchive
  <2>3. QueueType'
    BY <1>1 DEF EnqueueArchive
  <2>4. ProcType'
    BY <1>1 DEF EnqueueArchive
  <2> QED
    BY <2>1, <2>2, <2>3, <2>4
<1>2. CASE EnqueueDelete(s)
  <2>1. StoreType'
    BY <1>2 DEF EnqueueDelete
  <2>2. RulesType'
    BY <1>2 DEF EnqueueDelete
  <2>3. QueueType'
    <3> DEFINE override == pressure /\ ~due[s]
    <3>1. override \in BOOLEAN
      BY DEF override
    <3>2. /\ deleteQ' = [deleteQ EXCEPT ![s][override] = @ + 1]
          /\ deleteQ[s][override] < MaxPending
          /\ archiveQ' = archiveQ
      BY <1>2 DEF EnqueueDelete
    <3> HIDE DEF override
    <3> QED
      BY <3>1, <3>2
  <2>4. ProcType'
    BY <1>2 DEF EnqueueDelete
  <2> QED
    BY <2>1, <2>2, <2>3, <2>4
<1>3. CASE ReconcileSuspect(s)
  <2>1. StoreType'
    BY <1>3 DEF ReconcileSuspect
  <2>2. RulesType'
    BY <1>3 DEF ReconcileSuspect
  <2>3. QueueType'
    BY <1>3 DEF ReconcileSuspect
  <2>4. ProcType'
    BY <1>3 DEF ReconcileSuspect
  <2> QED
    BY <2>1, <2>2, <2>3, <2>4
<1>4. CASE ReconcileMarkMissing(s)
  <2>1. StoreType'
    BY <1>4 DEF ReconcileMarkMissing
  <2>2. RulesType'
    BY <1>4 DEF ReconcileMarkMissing
  <2>3. QueueType'
    BY <1>4 DEF ReconcileMarkMissing
  <2>4. ProcType'
    BY <1>4 DEF ReconcileMarkMissing
  <2> QED
    BY <2>1, <2>2, <2>3, <2>4
<1>5. CASE ReconcileRelink(s)
  <2>1. StoreType'
    BY <1>5 DEF ReconcileRelink
  <2>2. RulesType'
    BY <1>5 DEF ReconcileRelink
  <2>3. QueueType'
    BY <1>5 DEF ReconcileRelink
  <2>4. ProcType'
    BY <1>5 DEF ReconcileRelink
  <2> QED
    BY <2>1, <2>2, <2>3, <2>4
<1> QED
  BY <1>1, <1>2, <1>3, <1>4, <1>5 DEF CatalogStep, RetentionReconcile

LEMMA TypeProtection == ASSUME TypeOK, NEW s \in Segments, ProtectionStep(s) PROVE TypeOK'
<1> USE NothingType, BoundsAssumption DEF TypeOK, StoreType, RulesType, QueueType,
        ProcType, LocalStates, RemoteStates, ArchiveSteps, DeleteSteps, store, rules,
        queues, procs, task, Goto, Finish
<1>1. CASE ProtectionCheck(s)
  <2>1. StoreType'
    BY <1>1 DEF ProtectionCheck
  <2>2. RulesType'
    BY <1>1 DEF ProtectionCheck
  <2>3. QueueType'
    BY <1>1 DEF ProtectionCheck
  <2>4. ProcType'
    BY <1>1 DEF ProtectionCheck
  <2> QED
    BY <2>1, <2>2, <2>3, <2>4
<1>2. CASE ProtectionCreate(s)
  <2>1. StoreType'
    BY <1>2 DEF ProtectionCreate
  <2>2. RulesType'
    BY <1>2 DEF ProtectionCreate
  <2>3. QueueType'
    BY <1>2 DEF ProtectionCreate
  <2>4. ProcType'
    BY <1>2 DEF ProtectionCreate
  <2> QED
    BY <2>1, <2>2, <2>3, <2>4
<1>3. CASE ProtectionEnd(s)
  <2>1. StoreType'
    BY <1>3 DEF ProtectionEnd
  <2>2. RulesType'
    BY <1>3 DEF ProtectionEnd
  <2>3. QueueType'
    BY <1>3 DEF ProtectionEnd
  <2>4. ProcType'
    BY <1>3 DEF ProtectionEnd
  <2> QED
    BY <2>1, <2>2, <2>3, <2>4
<1> QED
  BY <1>1, <1>2, <1>3 DEF ProtectionStep

LEMMA TypeEnvironment == ASSUME TypeOK, EnvironmentStep PROVE TypeOK'
<1> USE NothingType, BoundsAssumption DEF TypeOK, StoreType, RulesType, QueueType,
        ProcType, LocalStates, RemoteStates, ArchiveSteps, DeleteSteps, store, rules,
        queues, procs, task, Goto, Finish
<1>1. ASSUME NEW s \in Segments, DueChanges(s) PROVE TypeOK'
  <2>1. StoreType'
    BY <1>1 DEF DueChanges
  <2>2. RulesType'
    BY <1>1 DEF DueChanges
  <2>3. QueueType'
    BY <1>1 DEF DueChanges
  <2>4. ProcType'
    BY <1>1 DEF DueChanges
  <2> QED
    BY <2>1, <2>2, <2>3, <2>4
<1>2. ASSUME NEW s \in Segments, FileLost(s) PROVE TypeOK'
  <2>1. StoreType'
    BY <1>2 DEF FileLost
  <2>2. RulesType'
    BY <1>2 DEF FileLost
  <2>3. QueueType'
    BY <1>2 DEF FileLost
  <2>4. ProcType'
    BY <1>2 DEF FileLost
  <2> QED
    BY <2>1, <2>2, <2>3, <2>4
<1>3. ASSUME NEW r \in Remotes, TargetToggle(r) PROVE TypeOK'
  <2>1. StoreType'
    BY <1>3 DEF TargetToggle
  <2>2. RulesType'
    BY <1>3 DEF TargetToggle
  <2>3. QueueType'
    BY <1>3 DEF TargetToggle
  <2>4. ProcType'
    BY <1>3 DEF TargetToggle
  <2> QED
    BY <2>1, <2>2, <2>3, <2>4
<1>4. ASSUME NEW s \in Segments, NEW r \in Remotes, AttemptAges(s, r) PROVE TypeOK'
  <2>1. StoreType'
    BY <1>4 DEF AttemptAges
  <2>2. RulesType'
    BY <1>4 DEF AttemptAges
  <2>3. QueueType'
    BY <1>4 DEF AttemptAges
  <2>4. ProcType'
    BY <1>4 DEF AttemptAges
  <2> QED
    BY <2>1, <2>2, <2>3, <2>4
<1>5. CASE PolicyEdit
  <2>1. StoreType'
    BY <1>5 DEF PolicyEdit
  <2>2. RulesType'
    BY <1>5 DEF PolicyEdit
  <2>3. QueueType'
    BY <1>5 DEF PolicyEdit
  <2>4. ProcType'
    BY <1>5 DEF PolicyEdit
  <2> QED
    BY <2>1, <2>2, <2>3, <2>4
<1>6. CASE PressureChanges
  <2>1. StoreType'
    BY <1>6 DEF PressureChanges
  <2>2. RulesType'
    BY <1>6 DEF PressureChanges
  <2>3. QueueType'
    BY <1>6 DEF PressureChanges
  <2>4. ProcType'
    BY <1>6 DEF PressureChanges
  <2> QED
    BY <2>1, <2>2, <2>3, <2>4
<1>7. CASE Remount
  <2>1. StoreType'
    BY <1>7 DEF Remount
  <2>2. RulesType'
    BY <1>7 DEF Remount
  <2>3. QueueType'
    BY <1>7 DEF Remount
  <2>4. ProcType'
    BY <1>7 DEF Remount
  <2> QED
    BY <2>1, <2>2, <2>3, <2>4
<1>8. CASE Crash
  <2>1. StoreType'
    BY <1>8 DEF Crash
  <2>2. RulesType'
    BY <1>8 DEF Crash
  <2>3. QueueType'
    BY <1>8 DEF Crash
  <2>4. ProcType'
    BY <1>8 DEF Crash
  <2> QED
    BY <2>1, <2>2, <2>3, <2>4
<1> QED
  BY <1>1, <1>2, <1>3, <1>4, <1>5, <1>6, <1>7, <1>8 DEF EnvironmentStep

\* Every step keeps the types.
LEMMA TypeStep == TypeOK /\ [Next]_vars => TypeOK'
<1> SUFFICES ASSUME TypeOK, [Next]_vars PROVE TypeOK'
  OBVIOUS
<1>1. CASE UNCHANGED vars
  BY <1>1 DEF vars, store, rules, queues, procs, task, TypeOK, StoreType, RulesType,
     QueueType, ProcType
<1> QED
  BY <1>1, TypeArchive, TypeDelete, TypeCatalog, TypeProtection, TypeEnvironment DEF Next

\* Every state the storage tasks reach has the declared types.
THEOREM TypeCorrect == Spec => []TypeOK
  BY TypeInit, TypeStep, PTL DEF Spec
-----------------------------------------------------------------------------
(* The media: an archived object stays, and a deletion goes ahead only with   *)
(* an archived object or a waived rule behind it.                             *)

\* verified_at and the state AVAILABLE both stand for an object on the remote;
\* so does a task that is about to write them.
ObjectInv ==
  /\ \A s \in Segments, r \in Remotes : verified[s][r] => object[s][r]
  /\ \A s \in Segments, r \in Remotes : arch[s][r] = "AVAILABLE" => verified[s][r]
  /\ \A w \in Workers : pc[w] = "uploaded" => object[seg[w]][rem[w]]

Safe(s) == waived[s] \/ \E r \in Remotes : object[s][r]

\* From its approval on, a delete task relies on another copy or a waiver.
CopyInv == \A w \in Workers : pc[w] \in {"approved", "unlink"} => Safe(seg[w])

\* A delete task past its unlink leaves no file.
GoneInv ==
  "detach" \notin Environment =>
    /\ mounted
    /\ \A w \in Workers : pc[w] = "unlinked" => ~file[seg[w]]

\* The steps that touch neither a worker nor an archive copy.
Aside ==
  \/ \E s \in Segments : CatalogStep(s) \/ ProtectionStep(s)
  \/ EnvironmentStep /\ ~Crash
  \/ UNCHANGED vars

LEMMA AsideKeeps ==
  ASSUME Aside
  PROVE  UNCHANGED <<arch, verified, object, waived, pc, seg, rem>>
<1> USE DEF store, rules, queues, procs, task
<1>1. ASSUME NEW s \in Segments, CatalogStep(s)
      PROVE  UNCHANGED <<arch, verified, object, waived, pc, seg, rem>>
  BY <1>1 DEF CatalogStep, RetentionReconcile, EnqueueArchive, EnqueueDelete,
     ReconcileSuspect, ReconcileMarkMissing, ReconcileRelink
<1>2. ASSUME NEW s \in Segments, ProtectionStep(s)
      PROVE  UNCHANGED <<arch, verified, object, waived, pc, seg, rem>>
  BY <1>2 DEF ProtectionStep, ProtectionCheck, ProtectionCreate, ProtectionEnd
<1>3. ASSUME EnvironmentStep, ~Crash
      PROVE  UNCHANGED <<arch, verified, object, waived, pc, seg, rem>>
  BY <1>3 DEF EnvironmentStep, DueChanges, FileLost, TargetToggle, AttemptAges,
     PolicyEdit, PressureChanges, Remount
<1>4. ASSUME UNCHANGED vars
      PROVE  UNCHANGED <<arch, verified, object, waived, pc, seg, rem>>
  BY <1>4 DEF vars
<1> QED
  BY <1>1, <1>2, <1>3, <1>4 DEF Aside

LEMMA StepKinds ==
  ASSUME [Next]_vars
  PROVE  Aside \/ Crash \/ \E w \in Workers : ArchiveStep(w) \/ DeleteStep(w)
  BY DEF Next, Aside

LEMMA ObjectStep == ASSUME TypeOK, ObjectInv, [Next]_vars PROVE ObjectInv'
<1> USE DEF ObjectInv, TypeOK, StoreType, ProcType, store, queues, procs, task, Goto, Finish
<1>1. CASE Aside
  BY <1>1, AsideKeeps
<1>2. CASE Crash
  BY <1>2 DEF Crash
<1>3. ASSUME NEW w \in Workers, ArchiveStep(w) PROVE ObjectInv'
  <2>1. ASSUME NEW s \in Segments, NEW r \in Remotes, ArchiveImpossible(w, s, r) PROVE ObjectInv'
    BY <2>1 DEF ArchiveImpossible, TakeArchive
  <2>2. ASSUME NEW s \in Segments, NEW r \in Remotes, ArchiveAlreadyAvailable(w, s, r) PROVE ObjectInv'
    BY <2>2 DEF ArchiveAlreadyAvailable, TakeArchive
  <2>3. ASSUME NEW s \in Segments, NEW r \in Remotes, ArchiveBegin(w, s, r) PROVE ObjectInv'
    BY <2>3 DEF ArchiveBegin, TakeArchive
  <2>4. CASE ArchiveRowConflict(w)
    BY <2>4 DEF ArchiveRowConflict
  <2>5. CASE ArchivePrepare(w)
    BY <2>5 DEF ArchivePrepare
  <2>6. CASE ArchiveUpload(w)
    BY <2>6 DEF ArchiveUpload
  <2>7. CASE ArchiveUploadFails(w)
    BY <2>7 DEF ArchiveUploadFails
  <2>8. CASE ArchiveSourceMissing(w)
    BY <2>8 DEF ArchiveSourceMissing
  <2>9. CASE ArchiveMarkAvailable(w)
    BY <2>9 DEF ArchiveMarkAvailable
  <2>10. CASE ArchiveMarkFailed(w)
    BY <2>10 DEF ArchiveMarkFailed
  <2> QED
    BY <1>3, <2>1, <2>2, <2>3, <2>4, <2>5, <2>6, <2>7, <2>8, <2>9, <2>10 DEF ArchiveStep
<1>4. ASSUME NEW w \in Workers, DeleteStep(w) PROVE ObjectInv'
  <2>1. ASSUME NEW s \in Segments, NEW p \in BOOLEAN, DeleteRefused(w, s, p) PROVE ObjectInv'
    BY <2>1 DEF DeleteRefused, TakeDelete
  <2>2. ASSUME NEW s \in Segments, NEW p \in BOOLEAN, DeleteApprove(w, s, p) PROVE ObjectInv'
    BY <2>2 DEF DeleteApprove, TakeDelete
  <2>3. CASE DeleteMark(w)
    BY <2>3 DEF DeleteMark
  <2>4. CASE DeleteUnlink(w)
    BY <2>4 DEF DeleteUnlink
  <2>5. CASE DeleteNothingThere(w)
    BY <2>5 DEF DeleteNothingThere
  <2>6. CASE DeleteUnlinkFails(w)
    BY <2>6 DEF DeleteUnlinkFails
  <2>7. CASE DeleteMarkDeleted(w)
    BY <2>7 DEF DeleteMarkDeleted
  <2>8. CASE DeleteMarkFailed(w)
    BY <2>8 DEF DeleteMarkFailed
  <2> QED
    BY <1>4, <2>1, <2>2, <2>3, <2>4, <2>5, <2>6, <2>7, <2>8 DEF DeleteStep
<1> QED
  BY <1>1, <1>2, <1>3, <1>4, StepKinds

LEMMA ApprovalIsSafe ==
  ASSUME TypeOK, ObjectInv, NEW w \in Workers, NEW s \in Segments, NEW p \in BOOLEAN,
         DeleteApprove(w, s, p)
  PROVE  Safe(s)'
<1>1. required => \E r \in Remotes : object[s][r]
  BY DEF DeleteApprove, EligibleForDelete, ArchiveSatisfied, AvailableArchiveExists, ObjectInv
<1>2. object' = object /\ waived' = [waived EXCEPT ![s] = @ \/ ~required]
  BY DEF DeleteApprove, store
<1> QED
  BY <1>1, <1>2 DEF Safe, TypeOK, StoreType

LEMMA CopyStep == ASSUME TypeOK, ObjectInv, CopyInv, [Next]_vars PROVE CopyInv'
<1> USE DEF CopyInv, Safe, TypeOK, StoreType, ProcType, store, queues, procs, task, Goto, Finish
<1>1. CASE Aside
  BY <1>1, AsideKeeps
<1>2. CASE Crash
  BY <1>2 DEF Crash
<1>3. ASSUME NEW w \in Workers, ArchiveStep(w) PROVE CopyInv'
  <2>1. ASSUME NEW s \in Segments, NEW r \in Remotes, ArchiveImpossible(w, s, r) PROVE CopyInv'
    BY <2>1 DEF ArchiveImpossible, TakeArchive
  <2>2. ASSUME NEW s \in Segments, NEW r \in Remotes, ArchiveAlreadyAvailable(w, s, r) PROVE CopyInv'
    BY <2>2 DEF ArchiveAlreadyAvailable, TakeArchive
  <2>3. ASSUME NEW s \in Segments, NEW r \in Remotes, ArchiveBegin(w, s, r) PROVE CopyInv'
    BY <2>3 DEF ArchiveBegin, TakeArchive
  <2>4. CASE ArchiveRowConflict(w)
    BY <2>4 DEF ArchiveRowConflict
  <2>5. CASE ArchivePrepare(w)
    BY <2>5 DEF ArchivePrepare
  <2>6. CASE ArchiveUpload(w)
    BY <2>6 DEF ArchiveUpload
  <2>7. CASE ArchiveUploadFails(w)
    BY <2>7 DEF ArchiveUploadFails
  <2>8. CASE ArchiveSourceMissing(w)
    BY <2>8 DEF ArchiveSourceMissing
  <2>9. CASE ArchiveMarkAvailable(w)
    BY <2>9 DEF ArchiveMarkAvailable
  <2>10. CASE ArchiveMarkFailed(w)
    BY <2>10 DEF ArchiveMarkFailed
  <2> QED
    BY <1>3, <2>1, <2>2, <2>3, <2>4, <2>5, <2>6, <2>7, <2>8, <2>9, <2>10 DEF ArchiveStep
<1>4. ASSUME NEW w \in Workers, DeleteStep(w) PROVE CopyInv'
  <2>1. ASSUME NEW s \in Segments, NEW p \in BOOLEAN, DeleteRefused(w, s, p) PROVE CopyInv'
    BY <2>1 DEF DeleteRefused, TakeDelete
  <2>2. ASSUME NEW s \in Segments, NEW p \in BOOLEAN, DeleteApprove(w, s, p) PROVE CopyInv'
    BY <2>2, ApprovalIsSafe DEF DeleteApprove, TakeDelete
  <2>3. CASE DeleteMark(w)
    BY <2>3 DEF DeleteMark
  <2>4. CASE DeleteUnlink(w)
    BY <2>4 DEF DeleteUnlink
  <2>5. CASE DeleteNothingThere(w)
    BY <2>5 DEF DeleteNothingThere
  <2>6. CASE DeleteUnlinkFails(w)
    BY <2>6 DEF DeleteUnlinkFails
  <2>7. CASE DeleteMarkDeleted(w)
    BY <2>7 DEF DeleteMarkDeleted
  <2>8. CASE DeleteMarkFailed(w)
    BY <2>8 DEF DeleteMarkFailed
  <2> QED
    BY <1>4, <2>1, <2>2, <2>3, <2>4, <2>5, <2>6, <2>7, <2>8 DEF DeleteStep
<1> QED
  BY <1>1, <1>2, <1>3, <1>4, StepKinds

\* Files disappear only by an unlink, or by a loss outside the program.
LEMMA FileKept ==
  ASSUME TypeOK, [Next]_vars, "loss" \notin Environment,
         \A w \in Workers : ~DeleteUnlink(w)
  PROVE  file' = file
<1> USE DEF store, rules, queues, procs, task
<1>1. ASSUME NEW w \in Workers, ArchiveStep(w) PROVE file' = file
  BY <1>1 DEF ArchiveStep, ArchiveImpossible, ArchiveAlreadyAvailable, ArchiveBegin,
     ArchiveRowConflict, ArchivePrepare, ArchiveUpload, ArchiveUploadFails,
     ArchiveSourceMissing, ArchiveMarkAvailable, ArchiveMarkFailed
<1>2. ASSUME NEW w \in Workers, DeleteStep(w) PROVE file' = file
  BY <1>2 DEF DeleteStep, DeleteRefused, DeleteApprove, DeleteMark, DeleteNothingThere,
     DeleteUnlinkFails, DeleteMarkDeleted, DeleteMarkFailed
<1>3. ASSUME NEW s \in Segments, CatalogStep(s) PROVE file' = file
  BY <1>3 DEF CatalogStep, RetentionReconcile, EnqueueArchive, EnqueueDelete,
     ReconcileSuspect, ReconcileMarkMissing, ReconcileRelink
<1>4. ASSUME NEW s \in Segments, ProtectionStep(s) PROVE file' = file
  BY <1>4 DEF ProtectionStep, ProtectionCheck, ProtectionCreate, ProtectionEnd
<1>5. ASSUME EnvironmentStep PROVE file' = file
  BY <1>5 DEF EnvironmentStep, DueChanges, FileLost, TargetToggle, AttemptAges,
     PolicyEdit, PressureChanges, Remount, Crash
<1>6. CASE UNCHANGED vars
  BY <1>6 DEF vars
<1> QED
  BY <1>1, <1>2, <1>3, <1>4, <1>5, <1>6 DEF Next

\* A segment with another copy or a waiver keeps it.
LEMMA SafeStays ==
  ASSUME TypeOK, [Next]_vars, NEW s \in Segments, Safe(s)
  PROVE  Safe(s)'
<1> USE DEF Safe, TypeOK, StoreType, ProcType, store, queues, procs, task, Goto, Finish
<1>1. CASE Aside
  BY <1>1, AsideKeeps
<1>2. CASE Crash
  BY <1>2 DEF Crash
<1>3. ASSUME NEW w \in Workers, ArchiveStep(w) PROVE Safe(s)'
  <2>1. waived' = waived
    BY <1>3 DEF ArchiveStep, ArchiveImpossible, ArchiveAlreadyAvailable, ArchiveBegin,
       ArchiveRowConflict, ArchivePrepare, ArchiveUpload, ArchiveUploadFails,
       ArchiveSourceMissing, ArchiveMarkAvailable, ArchiveMarkFailed
  <2>2. CASE ArchiveUpload(w)
    BY <2>1, <2>2 DEF ArchiveUpload
  <2>3. CASE ~ArchiveUpload(w)
    <3>1. object' = object
      BY <1>3, <2>3 DEF ArchiveStep, ArchiveImpossible, ArchiveAlreadyAvailable,
         ArchiveBegin, ArchiveRowConflict, ArchivePrepare, ArchiveUploadFails,
         ArchiveSourceMissing, ArchiveMarkAvailable, ArchiveMarkFailed
    <3> QED
      BY <2>1, <3>1
  <2> QED
    BY <2>2, <2>3
<1>4. ASSUME NEW w \in Workers, DeleteStep(w) PROVE Safe(s)'
  <2>1. object' = object
    BY <1>4 DEF DeleteStep, DeleteRefused, DeleteApprove, DeleteMark, DeleteUnlink,
       DeleteNothingThere, DeleteUnlinkFails, DeleteMarkDeleted, DeleteMarkFailed
  <2>2. waived[s] => waived'[s]
    BY <1>4 DEF DeleteStep, DeleteRefused, DeleteApprove, DeleteMark, DeleteUnlink,
       DeleteNothingThere, DeleteUnlinkFails, DeleteMarkDeleted, DeleteMarkFailed
  <2> QED
    BY <2>1, <2>2
<1> QED
  BY <1>1, <1>2, <1>3, <1>4, StepKinds

LEMMA SurvivesStep ==
  ASSUME TypeOK, CopyInv, FootageSurvives, [Next]_vars
  PROVE  FootageSurvives'
<1> SUFFICES ASSUME "loss" \notin Environment, NEW s \in Segments
             PROVE  file'[s] \/ Safe(s)'
  BY DEF FootageSurvives, Safe
<1>1. file[s] \/ Safe(s)
  BY DEF FootageSurvives, Safe
<1>2. CASE Safe(s)
  BY <1>2, SafeStays
<1>3. CASE file[s] /\ ~Safe(s)
  <2>1. ASSUME NEW w \in Workers, DeleteUnlink(w) PROVE file'[s]
    BY <1>3, <2>1 DEF DeleteUnlink, CopyInv, TypeOK, StoreType, ProcType
  <2> QED
    BY <1>3, <2>1, FileKept
<1> QED
  BY <1>1, <1>2, <1>3

LEMMA GoneStep ==
  ASSUME TypeOK, GoneInv, DeletedMeansGone, [Next]_vars
  PROVE  GoneInv' /\ DeletedMeansGone'
<1> SUFFICES ASSUME "detach" \notin Environment
             PROVE  GoneInv' /\ DeletedMeansGone'
  BY DEF GoneInv, DeletedMeansGone
<1> USE DEF GoneInv, DeletedMeansGone, TypeOK, StoreType, ProcType, store, rules, queues, procs, task, Goto, Finish
<1>1. ASSUME NEW w \in Workers, ArchiveStep(w) PROVE GoneInv' /\ DeletedMeansGone'
  <2>1. ASSUME NEW s \in Segments, NEW r \in Remotes, ArchiveImpossible(w, s, r) PROVE GoneInv' /\ DeletedMeansGone'
    BY <2>1 DEF ArchiveImpossible, TakeArchive
  <2>2. ASSUME NEW s \in Segments, NEW r \in Remotes, ArchiveAlreadyAvailable(w, s, r) PROVE GoneInv' /\ DeletedMeansGone'
    BY <2>2 DEF ArchiveAlreadyAvailable, TakeArchive
  <2>3. ASSUME NEW s \in Segments, NEW r \in Remotes, ArchiveBegin(w, s, r) PROVE GoneInv' /\ DeletedMeansGone'
    BY <2>3 DEF ArchiveBegin, TakeArchive
  <2>4. CASE ArchiveRowConflict(w)
    BY <2>4 DEF ArchiveRowConflict
  <2>5. CASE ArchivePrepare(w)
    BY <2>5 DEF ArchivePrepare
  <2>6. CASE ArchiveUpload(w)
    BY <2>6 DEF ArchiveUpload
  <2>7. CASE ArchiveUploadFails(w)
    BY <2>7 DEF ArchiveUploadFails
  <2>8. CASE ArchiveSourceMissing(w)
    BY <2>8 DEF ArchiveSourceMissing
  <2>9. CASE ArchiveMarkAvailable(w)
    BY <2>9 DEF ArchiveMarkAvailable
  <2>10. CASE ArchiveMarkFailed(w)
    BY <2>10 DEF ArchiveMarkFailed
  <2> QED
    BY <1>1, <2>1, <2>2, <2>3, <2>4, <2>5, <2>6, <2>7, <2>8, <2>9, <2>10 DEF ArchiveStep
<1>2. ASSUME NEW w \in Workers, DeleteStep(w) PROVE GoneInv' /\ DeletedMeansGone'
  <2>1. ASSUME NEW s \in Segments, NEW p \in BOOLEAN, DeleteRefused(w, s, p) PROVE GoneInv' /\ DeletedMeansGone'
    BY <2>1 DEF DeleteRefused, TakeDelete
  <2>2. ASSUME NEW s \in Segments, NEW p \in BOOLEAN, DeleteApprove(w, s, p) PROVE GoneInv' /\ DeletedMeansGone'
    BY <2>2 DEF DeleteApprove, TakeDelete
  <2>3. CASE DeleteMark(w)
    BY <2>3 DEF DeleteMark
  <2>4. CASE DeleteUnlink(w)
    BY <2>4 DEF DeleteUnlink
  <2>5. CASE DeleteNothingThere(w)
    BY <2>5 DEF DeleteNothingThere, Visible
  <2>6. CASE DeleteUnlinkFails(w)
    BY <2>6 DEF DeleteUnlinkFails
  <2>7. CASE DeleteMarkDeleted(w)
    BY <2>7 DEF DeleteMarkDeleted
  <2>8. CASE DeleteMarkFailed(w)
    BY <2>8 DEF DeleteMarkFailed
  <2> QED
    BY <1>2, <2>1, <2>2, <2>3, <2>4, <2>5, <2>6, <2>7, <2>8 DEF DeleteStep
<1>3. ASSUME NEW s \in Segments, CatalogStep(s) PROVE GoneInv' /\ DeletedMeansGone'
  <2>1. ASSUME NEW r \in Remotes, EnqueueArchive(s, r) PROVE GoneInv' /\ DeletedMeansGone'
    BY <2>1 DEF EnqueueArchive
  <2>2. CASE EnqueueDelete(s)
    BY <2>2 DEF EnqueueDelete
  <2>3. CASE ReconcileSuspect(s)
    BY <2>3 DEF ReconcileSuspect
  <2>4. CASE ReconcileMarkMissing(s)
    BY <2>4 DEF ReconcileMarkMissing
  <2>5. CASE ReconcileRelink(s)
    BY <2>5 DEF ReconcileRelink
  <2> QED
    BY <1>3, <2>1, <2>2, <2>3, <2>4, <2>5 DEF CatalogStep, RetentionReconcile
<1>4. ASSUME NEW s \in Segments, ProtectionStep(s) PROVE GoneInv' /\ DeletedMeansGone'
  <2>1. CASE ProtectionCheck(s)
    BY <2>1 DEF ProtectionCheck
  <2>2. CASE ProtectionCreate(s)
    BY <2>2 DEF ProtectionCreate
  <2>3. CASE ProtectionEnd(s)
    BY <2>3 DEF ProtectionEnd
  <2> QED
    BY <1>4, <2>1, <2>2, <2>3 DEF ProtectionStep
<1>5. ASSUME EnvironmentStep PROVE GoneInv' /\ DeletedMeansGone'
  <2>1. ASSUME NEW s \in Segments, DueChanges(s) PROVE GoneInv' /\ DeletedMeansGone'
    BY <2>1 DEF DueChanges
  <2>2. ASSUME NEW s \in Segments, FileLost(s) PROVE GoneInv' /\ DeletedMeansGone'
    BY <2>2 DEF FileLost
  <2>3. ASSUME NEW r \in Remotes, TargetToggle(r) PROVE GoneInv' /\ DeletedMeansGone'
    BY <2>3 DEF TargetToggle
  <2>4. ASSUME NEW s \in Segments, NEW r \in Remotes, AttemptAges(s, r) PROVE GoneInv' /\ DeletedMeansGone'
    BY <2>4 DEF AttemptAges
  <2>5. CASE PolicyEdit
    BY <2>5 DEF PolicyEdit
  <2>6. CASE PressureChanges
    BY <2>6 DEF PressureChanges
  <2>7. CASE Remount
    BY <2>7 DEF Remount
  <2>8. CASE Crash
    BY <2>8 DEF Crash
  <2> QED
    BY <1>5, <2>1, <2>2, <2>3, <2>4, <2>5, <2>6, <2>7, <2>8 DEF EnvironmentStep
<1>6. CASE UNCHANGED vars
  BY <1>6 DEF vars
<1> QED
  BY <1>1, <1>2, <1>3, <1>4, <1>5, <1>6 DEF Next

SafetyInv == TypeOK /\ ObjectInv /\ CopyInv /\ GoneInv /\ FootageSurvives /\ DeletedMeansGone

LEMMA SafetyInit == Init => SafetyInv
<1> SUFFICES ASSUME Init PROVE SafetyInv
  OBVIOUS
<1>1. TypeOK
  BY TypeInit
<1>2. ObjectInv /\ CopyInv
  BY DEF Init, ObjectInv, CopyInv
<1>3. GoneInv /\ DeletedMeansGone /\ FootageSurvives
  BY DEF Init, GoneInv, DeletedMeansGone, FootageSurvives
<1> QED
  BY <1>1, <1>2, <1>3 DEF SafetyInv

LEMMA SafetyStep == SafetyInv /\ [Next]_vars => SafetyInv'
  BY TypeStep, ObjectStep, CopyStep, GoneStep, SurvivesStep DEF SafetyInv

THEOREM Safety == Spec => []SafetyInv
  BY SafetyInit, SafetyStep, PTL DEF Spec

\* Footage under archive-before-delete survives every interleaving of archive
\* and delete tasks, every crash and retry, and every protection or policy edit.
THEOREM FootageSurvival == Spec => []FootageSurvives
<1>1. SafetyInv => FootageSurvives
  BY DEF SafetyInv
<1> QED
  BY <1>1, Safety, PTL

\* No row is DELETED while its file exists, if the filesystem stays mounted.
THEOREM TruthfulDeletion == Spec => []DeletedMeansGone
<1>1. SafetyInv => DeletedMeansGone
  BY DEF SafetyInv
<1> QED
  BY <1>1, Safety, PTL

\* An AVAILABLE archive row has a verified object behind it.
THEOREM TruthfulArchive == Spec => []RemoteAvailableIsReal
<1>1. SafetyInv => RemoteAvailableIsReal
  BY DEF SafetyInv, ObjectInv, RemoteAvailableIsReal
<1> QED
  BY <1>1, Safety, PTL

-----------------------------------------------------------------------------
(* Protected or unexpired footage *)

\* Only an approval puts a worker on the delete path.
LEMMA NewDeletion ==
  ASSUME TypeOK, [Next]_vars, NEW s \in Segments, ~Deleting(s), Deleting(s)'
  PROVE  \E w \in Workers, p \in BOOLEAN : DeleteApprove(w, s, p)
<1> SUFFICES ASSUME \A w \in Workers, p \in BOOLEAN : ~DeleteApprove(w, s, p)
             PROVE  FALSE
  OBVIOUS
<1> USE DEF Deleting, DeleteSteps, TypeOK, ProcType, store, procs, task, Goto, Finish
<1>1. CASE Aside
  BY <1>1, AsideKeeps
<1>2. CASE Crash
  BY <1>2 DEF Crash
<1>3. ASSUME NEW w \in Workers, ArchiveStep(w) PROVE FALSE
  <2>1. ASSUME NEW q \in Segments, NEW r \in Remotes, ArchiveImpossible(w, q, r) PROVE FALSE
    BY <2>1 DEF ArchiveImpossible, TakeArchive
  <2>2. ASSUME NEW q \in Segments, NEW r \in Remotes, ArchiveAlreadyAvailable(w, q, r) PROVE FALSE
    BY <2>2 DEF ArchiveAlreadyAvailable, TakeArchive
  <2>3. ASSUME NEW q \in Segments, NEW r \in Remotes, ArchiveBegin(w, q, r) PROVE FALSE
    BY <2>3 DEF ArchiveBegin, TakeArchive
  <2>4. CASE ArchiveRowConflict(w)
    BY <2>4 DEF ArchiveRowConflict
  <2>5. CASE ArchivePrepare(w)
    BY <2>5 DEF ArchivePrepare
  <2>6. CASE ArchiveUpload(w)
    BY <2>6 DEF ArchiveUpload
  <2>7. CASE ArchiveUploadFails(w)
    BY <2>7 DEF ArchiveUploadFails
  <2>8. CASE ArchiveSourceMissing(w)
    BY <2>8 DEF ArchiveSourceMissing
  <2>9. CASE ArchiveMarkAvailable(w)
    BY <2>9 DEF ArchiveMarkAvailable
  <2>10. CASE ArchiveMarkFailed(w)
    BY <2>10 DEF ArchiveMarkFailed
  <2> QED
    BY <1>3, <2>1, <2>2, <2>3, <2>4, <2>5, <2>6, <2>7, <2>8, <2>9, <2>10 DEF ArchiveStep
<1>4. ASSUME NEW w \in Workers, DeleteStep(w) PROVE FALSE
  <2>1. ASSUME NEW q \in Segments, NEW p \in BOOLEAN, DeleteRefused(w, q, p) PROVE FALSE
    BY <2>1 DEF DeleteRefused, TakeDelete
  <2>2. ASSUME NEW q \in Segments, NEW p \in BOOLEAN, DeleteApprove(w, q, p) PROVE FALSE
    BY <2>2 DEF DeleteApprove, TakeDelete
  <2>3. CASE DeleteMark(w)
    BY <2>3 DEF DeleteMark
  <2>4. CASE DeleteUnlink(w)
    BY <2>4 DEF DeleteUnlink
  <2>5. CASE DeleteNothingThere(w)
    BY <2>5 DEF DeleteNothingThere
  <2>6. CASE DeleteUnlinkFails(w)
    BY <2>6 DEF DeleteUnlinkFails
  <2>7. CASE DeleteMarkDeleted(w)
    BY <2>7 DEF DeleteMarkDeleted
  <2>8. CASE DeleteMarkFailed(w)
    BY <2>8 DEF DeleteMarkFailed
  <2> QED
    BY <1>4, <2>1, <2>2, <2>3, <2>4, <2>5, <2>6, <2>7, <2>8 DEF DeleteStep
<1> QED
  BY <1>1, <1>2, <1>3, <1>4, StepKinds

LEMMA BlockedStep == TypeOK /\ [Next]_vars => KeepsBlocked
<1> SUFFICES ASSUME TypeOK, [Next]_vars, NEW s \in Segments, ~Deleting(s)
             PROVE  /\ Blocked(s) => ~Deleting(s)'
                    /\ "loss" \notin Environment /\ file[s] => file'[s]
  BY DEF KeepsBlocked
<1>1. Blocked(s) => ~Deleting(s)'
  <2> SUFFICES ASSUME Blocked(s), Deleting(s)' PROVE FALSE
    OBVIOUS
  <2>1. PICK w \in Workers, p \in BOOLEAN : DeleteApprove(w, s, p)
    BY NewDeletion
  <2> QED
    BY <2>1 DEF DeleteApprove, EligibleForDelete, Purgeable, Blocked
<1>2. ASSUME "loss" \notin Environment, file[s] PROVE file'[s]
  <2>1. ASSUME NEW w \in Workers, DeleteUnlink(w) PROVE file'[s]
    BY <1>2, <2>1 DEF DeleteUnlink, Deleting, DeleteSteps, TypeOK, StoreType, ProcType
  <2> QED
    BY <1>2, <2>1, FileKept
<1> QED
  BY <1>1, <1>2

\* No deletion begins while a segment is protected, or unexpired and not
\* expendable; and no file is removed without a deletion under way.
THEOREM BlockedFootage == Spec => BlockedFootageStays
  BY TypeCorrect, BlockedStep, PTL DEF Spec, BlockedFootageStays

-----------------------------------------------------------------------------
(* Refinement *)

Held(s) == {r \in Remotes : object[s][r]} \cup (IF file[s] THEN {"local"} ELSE {})

Kept == [s \in Segments |-> Held(s)]

LEMMA CopiesInit == Init => Copies!Init
<1> SUFFICES ASSUME Init PROVE Copies!Init
  OBVIOUS
<1>1. ASSUME NEW s \in Segments PROVE Held(s) = {"local"}
  BY DEF Init, Held
<1> QED
  BY <1>1 DEF Init, Copies!Init, Held

LEMMA CopiesStep ==
  ASSUME SafetyInv, [Next]_vars, "loss" \notin Environment
  PROVE  [Copies!Next]_(Copies!vars)
<1> USE DEF SafetyInv, TypeOK, StoreType, RulesType, ProcType, store, rules, queues, procs, task
<1>1. ASSUME NEW w \in Workers, ArchiveUpload(w) PROVE Copies!Next
  <2>1. PICK q \in Segments, r \in Remotes : q = seg[w] /\ r = rem[w]
    OBVIOUS
  <2>2. /\ object' = [object EXCEPT ![q][r] = TRUE]
        /\ file' = file /\ waived' = waived /\ required' = required
        /\ file[q]
    BY <1>1, <2>1 DEF ArchiveUpload, Visible
  <2>3. "local" \in Held(q)
    BY <2>2 DEF Held
  <2>4. Held(q)' = Held(q) \cup {r}
    BY <2>2 DEF Held
  <2>5. ASSUME NEW s \in Segments, s # q PROVE Held(s)' = Held(s)
    BY <2>2, <2>5 DEF Held
  <2>6. Kept' = [Kept EXCEPT ![q] = @ \cup {r}]
    BY <2>4, <2>5 DEF Kept
  <2>7. Copies!Archive(q, r)
    BY <2>2, <2>3, <2>6 DEF Copies!Archive, Held, Kept
  <2> QED
    BY <2>7 DEF Copies!Next
<1>2. ASSUME NEW w \in Workers, DeleteUnlink(w) PROVE Copies!Next
  <2>1. PICK q \in Segments : q = seg[w]
    OBVIOUS
  <2>2. /\ file' = [file EXCEPT ![q] = FALSE]
        /\ object' = object /\ waived' = waived /\ required' = required
        /\ file[q] /\ pc[w] = "unlink"
    BY <1>2, <2>1 DEF DeleteUnlink, Visible
  <2>3. "local" \in Held(q) /\ "local" \notin Remotes
    BY <2>2, SetsAssumption DEF Held
  <2>4. waived[q] \/ Held(q) # {"local"}
    BY <2>1, <2>2, <2>3 DEF CopyInv, Safe, Held
  <2>5. Held(q)' = Held(q) \ {"local"}
    BY <2>2, <2>3 DEF Held
  <2>6. ASSUME NEW s \in Segments, s # q PROVE Held(s)' = Held(s)
    BY <2>2, <2>6 DEF Held
  <2>7. Kept' = [Kept EXCEPT ![q] = @ \ {"local"}]
    BY <2>5, <2>6 DEF Kept
  <2>8. Copies!Release(q)
    BY <2>2, <2>3, <2>4, <2>7 DEF Copies!Release, Held, Kept
  <2> QED
    BY <2>8 DEF Copies!Next
<1>3. ASSUME NEW w \in Workers, NEW s \in Segments, NEW p \in BOOLEAN, DeleteApprove(w, s, p)
      PROVE  [Copies!Next]_(Copies!vars)
  <2>1. /\ UNCHANGED <<file, object, required>>
        /\ waived' = [waived EXCEPT ![s] = @ \/ ~required]
    BY <1>3 DEF DeleteApprove
  <2>2. CASE required
    <3>1. waived' = waived
      BY <2>1, <2>2
    <3> QED
      BY <2>1, <3>1 DEF Copies!vars
  <2>3. CASE ~required
    <3>1. waived' = [waived EXCEPT ![s] = TRUE]
      BY <2>1, <2>3
    <3>2. Kept' = Kept /\ required' = required
      BY <2>1 DEF Kept, Held
    <3>3. Copies!Waive(s)
      BY <2>3, <3>1, <3>2, Zenon DEF Copies!Waive, Kept, Held
    <3> QED
      BY <3>3 DEF Copies!Next
  <2> QED
    BY <2>2, <2>3
<1>4. ASSUME PolicyEdit PROVE Copies!Next
  <2>1. UNCHANGED <<file, object, waived>> /\ required' = ~required
    BY <1>4 DEF PolicyEdit
  <2>2. Copies!EditRule
    BY <2>1 DEF Copies!EditRule
  <2> QED
    BY <2>2 DEF Copies!Next
<1>5. ASSUME ~PolicyEdit, \A w \in Workers : ~ArchiveUpload(w) /\ ~DeleteUnlink(w),
             \A w \in Workers, s \in Segments, p \in BOOLEAN : ~DeleteApprove(w, s, p)
      PROVE  UNCHANGED <<file, object, waived, required>>
  <2>1. file' = file
    BY <1>5, FileKept
  <2>2. UNCHANGED <<object, waived, required>>
    <3>1. CASE Aside
      <4>1. required' = required
        BY <1>5, <3>1 DEF Aside, CatalogStep, RetentionReconcile, EnqueueArchive,
           EnqueueDelete, ReconcileSuspect, ReconcileMarkMissing, ReconcileRelink,
           ProtectionStep, ProtectionCheck, ProtectionCreate, ProtectionEnd,
           EnvironmentStep, DueChanges, FileLost, TargetToggle, AttemptAges,
           PressureChanges, Remount, vars
      <4> QED
        BY <3>1, <4>1, AsideKeeps
    <3>2. CASE Crash
      BY <3>2 DEF Crash
    <3>3. ASSUME NEW w \in Workers, ArchiveStep(w) PROVE UNCHANGED <<object, waived, required>>
      BY <1>5, <3>3 DEF ArchiveStep, ArchiveImpossible, ArchiveAlreadyAvailable,
         ArchiveBegin, ArchiveRowConflict, ArchivePrepare, ArchiveUploadFails,
         ArchiveSourceMissing, ArchiveMarkAvailable, ArchiveMarkFailed
    <3>4. ASSUME NEW w \in Workers, DeleteStep(w) PROVE UNCHANGED <<object, waived, required>>
      BY <1>5, <3>4 DEF DeleteStep, DeleteRefused, DeleteMark, DeleteNothingThere,
         DeleteUnlinkFails, DeleteMarkDeleted, DeleteMarkFailed
    <3> QED
      BY <3>1, <3>2, <3>3, <3>4, StepKinds
  <2> QED
    BY <2>1, <2>2
<1>6. CASE UNCHANGED <<file, object, waived, required>>
  BY <1>6 DEF Copies!vars
<1> QED
  BY <1>1, <1>2, <1>3, <1>4, <1>5, <1>6

\* Seen as media only, the storage tasks never do more than FootageCopies
\* allows: they implement archive-before-delete.
THEOREM Refinement == ASSUME "loss" \notin Environment PROVE Spec => CopiesSpec
<1>1. SafetyInv /\ [Next]_vars => [Copies!Next]_(Copies!vars)
  BY CopiesStep
<1> QED
  BY <1>1, CopiesInit, Safety, PTL DEF Spec, CopiesSpec, Copies!Spec

-----------------------------------------------------------------------------
(* RecorderRuntime: what the guard leaves alone is told to a task. *)

InQueue(q) == {q[i] : i \in DOMAIN q}
Profiles == Profile \union {NoProfile}
Pcs == {"idle", "ensure", "read", "observe", "stop", "start", "set",
        "switch", "swStop", "swSet"}
Tasks == [kind : {"runtime", "manual", "current", "stale"}, force : BOOLEAN,
          prev : Profiles, restart : BOOLEAN, tries : Nat]
Executions == [pc : Pcs, want : Modes, prof : Profiles, known : Modes,
               enabled : BOOLEAN, task : Tasks]

\* Types of facts and of ZLMediaKit's side; a recorder needs its stream.
SideTypes ==
  /\ camera \in BOOLEAN /\ rec \in Profile /\ calm \in BOOLEAN /\ hasty \in BOOLEAN
  /\ manual \in {"none", "active", "ending"} /\ policy \in Policies
  /\ online \subseteq Profile /\ recorder \in [Profile -> Modes]
  /\ \A p \in Profile : recorder[p] # "off" => p \in online
WorkTypes ==
  /\ tracker \in [{"api", "worker"} -> [Profile -> Modes]]
  /\ boundary \subseteq {"current", "stale"}
  /\ queue \in Seq(Tasks) /\ exec \in [Executor -> Executions]
  /\ \A e \in Executor : Busy(e) => exec[e].prof \in Profile

\* An execution in a calm behaviour: the facts it read still hold, but for
\* a post-roll that ended meanwhile.
ManualQueued == \E t \in InQueue(queue) : t.kind = "manual"
SoundRun(x) ==
  /\ x.prof = rec
  /\ x.want = "prebuffer" => Evaluate(policy) = "prebuffer"
  /\ x.want = "persistent" => Evaluate(policy) = "persistent" \/ ManualQueued
  /\ x.pc \in {"switch", "swStop", "swSet"} => x.task.prev # NoProfile
  /\ x.pc \in {"observe", "stop"} => x.task.prev = NoProfile
  /\ x.task.prev # NoProfile => x.task.prev # rec /\ ~x.task.force
  /\ x.pc # "ensure" /\ x.want # "off" => rec \in online
  /\ x.pc = "start" => x.want # "off"
OneRun ==
  /\ \A e, f \in Executor : Busy(e) /\ Busy(f) => e = f
  /\ \A e \in Executor : ~Busy(e) => exec[e].task.kind = "runtime"
  /\ \A e \in Executor : Busy(e) => SoundRun(exec[e])

\* The tasks at the boundaries of a schedule: one carries the version of the
\* policy in force.
SoundTask(t) ==
  /\ t.prev # NoProfile => t.kind = "runtime" /\ ~t.force
  /\ t.kind # "runtime" => t.force
CurrentHeld ==
  \/ "current" \in boundary
  \/ \E t \in InQueue(queue) : t.kind = "current"
  \/ \E e \in Executor : exec[e].task.kind = "current"
BoundaryHeld ==
  /\ \A t \in InQueue(queue) : SoundTask(t)
  /\ CurrentHeld => policy.baseline = "schedule"
  /\ policy.enabled /\ policy.baseline = "schedule" => CurrentHeld

Real(t) == t.force /\ t.kind \in {"runtime", "current"}
RealQueued == \E t \in InQueue(queue) : Real(t)
ForcedRun == \E e \in Executor :
  exec[e].task.force /\ exec[e].pc \in {"ensure", "read", "observe", "stop"}
ModeTold ==
  /\ Evaluate(policy) = "persistent" /\ recorder[rec] = "prebuffer"
       => RealQueued \/ ForcedRun
  /\ Evaluate(policy) = "prebuffer" /\ recorder[rec] = "persistent"
       => RealQueued \/ ManualQueued \/ ForcedRun
ProfileTold ==
  \A p \in Profile \ {rec} : recorder[p] # "off" =>
    \/ \E t \in InQueue(queue) : t.prev = p
    \/ \E e \in Executor : Busy(e) /\ Prev(e) = p

RecorderIInv ==
  /\ SideTypes /\ WorkTypes
  /\ calm => OneRun /\ BoundaryHeld
  /\ calm /\ ~hasty => ModeTold /\ ProfileTold

LEMMA QueueAppend ==
  ASSUME NEW S, NEW q \in Seq(S), NEW t \in S
  PROVE  /\ Append(q, t) \in Seq(S)
         /\ InQueue(Append(q, t)) = InQueue(q) \union {t}
<1>1. /\ Append(q, t) \in Seq(S) /\ DOMAIN q = 1..Len(q) /\ Len(q) \in Nat
      /\ DOMAIN Append(q, t) = 1..(Len(q) + 1)
      /\ \A i \in 1..Len(q) : Append(q, t)[i] = q[i]
      /\ Append(q, t)[Len(q) + 1] = t
  OBVIOUS
<1> QED
  BY <1>1 DEF InQueue

LEMMA QueueOne ==
  ASSUME NEW S, NEW t \in S
  PROVE  <<t>> \in Seq(S) /\ InQueue(<<t>>) = {t} /\ <<>> \in Seq(S) /\ InQueue(<<>>) = {}
<1>1. DOMAIN <<t>> = {1} /\ <<t>>[1] = t /\ DOMAIN <<>> = {} /\ <<t>> \in Seq(S) /\ <<>> \in Seq(S)
  OBVIOUS
<1> DEFINE one == <<t>>
           none == <<>>
<1>2. DOMAIN one = {1} /\ one[1] = t /\ DOMAIN none = {}
  BY <1>1
<1> HIDE DEF one, none
<1>3. InQueue(one) = {t} /\ InQueue(none) = {}
  BY <1>2 DEF InQueue
<1> QED
  BY <1>1, <1>3 DEF one, none

LEMMA QueueConcat ==
  ASSUME NEW S, NEW q \in Seq(S), NEW r \in Seq(S)
  PROVE  q \o r \in Seq(S) /\ InQueue(q \o r) = InQueue(q) \union InQueue(r)
<1>1. /\ q \o r \in Seq(S) /\ Len(q) \in Nat /\ Len(r) \in Nat
      /\ DOMAIN q = 1..Len(q) /\ DOMAIN r = 1..Len(r)
      /\ DOMAIN (q \o r) = 1..(Len(q) + Len(r))
      /\ \A i \in 1..(Len(q) + Len(r)) :
           (q \o r)[i] = IF i <= Len(q) THEN q[i] ELSE r[i - Len(q)]
  OBVIOUS
<1> DEFINE qr == q \o r
<1> HIDE DEF qr
<1>2. ASSUME NEW i \in DOMAIN qr PROVE qr[i] \in InQueue(q) \union InQueue(r)
  <2>1. CASE i <= Len(q)
    BY <1>1, <2>1 DEF qr, InQueue
  <2>2. CASE ~(i <= Len(q))
    <3>1. i - Len(q) \in DOMAIN r /\ qr[i] = r[i - Len(q)]
      BY <1>1, <2>2 DEF qr
    <3> QED
      BY <3>1 DEF InQueue
  <2> QED
    BY <2>1, <2>2
<1>3. ASSUME NEW i \in DOMAIN q PROVE q[i] \in InQueue(qr)
  <2>1. i \in DOMAIN qr /\ qr[i] = q[i]
    BY <1>1 DEF qr
  <2> QED
    BY <2>1 DEF InQueue
<1>4. ASSUME NEW i \in DOMAIN r PROVE r[i] \in InQueue(qr)
  <2>1. i + Len(q) \in DOMAIN qr /\ ~(i + Len(q) <= Len(q)) /\ (i + Len(q)) - Len(q) = i
    BY <1>1 DEF qr
  <2>2. qr[i + Len(q)] = r[i]
    BY <1>1, <2>1 DEF qr
  <2> QED
    BY <2>1, <2>2 DEF InQueue
<1>5. InQueue(qr) = InQueue(q) \union InQueue(r)
  BY <1>2, <1>3, <1>4 DEF InQueue
<1> QED
  BY <1>1, <1>5 DEF qr

LEMMA QueueTake ==
  ASSUME NEW S, NEW q \in Seq(S), q # <<>>
  PROVE  /\ Head(q) \in S /\ Tail(q) \in Seq(S)
         /\ InQueue(q) = InQueue(Tail(q)) \union {Head(q)}
<1>1. /\ Head(q) \in S /\ Tail(q) \in Seq(S) /\ Len(q) \in Nat \ {0}
      /\ DOMAIN q = 1..Len(q) /\ DOMAIN Tail(q) = 1..(Len(q) - 1)
      /\ Head(q) = q[1] /\ \A i \in 1..(Len(q) - 1) : Tail(q)[i] = q[i + 1]
  OBVIOUS
<1>2. ASSUME NEW i \in 1..Len(q), i # 1
      PROVE  \E j \in DOMAIN Tail(q) : q[i] = Tail(q)[j]
  <2>1. i - 1 \in 1..(Len(q) - 1) /\ (i - 1) + 1 = i
    BY <1>1, <1>2
  <2> QED
    BY <1>1, <2>1
<1>3. InQueue(q) \subseteq InQueue(Tail(q)) \union {Head(q)}
  <2> SUFFICES ASSUME NEW i \in 1..Len(q)
               PROVE  q[i] = Head(q) \/ q[i] \in InQueue(Tail(q))
    BY <1>1 DEF InQueue
  <2> QED
    BY <1>1, <1>2 DEF InQueue
<1>4. InQueue(Tail(q)) \union {Head(q)} \subseteq InQueue(q)
  <2>1. 1 \in 1..Len(q) /\ \A i \in 1..(Len(q) - 1) : i + 1 \in 1..Len(q)
    BY <1>1
  <2> QED
    BY <1>1, <2>1 DEF InQueue
<1> QED
  BY <1>1, <1>3, <1>4

\* The queue with the kinds of its tasks superseded by a put of the policy.
LEMMA QueueSupersede ==
  ASSUME NEW q \in Seq(Tasks), NEW p
  PROVE  LET r == [i \in DOMAIN q |-> [q[i] EXCEPT !.kind = Superseded(p, @)]]
         IN /\ r \in Seq(Tasks)
            /\ InQueue(r) = {[t EXCEPT !.kind = Superseded(p, @)] : t \in InQueue(q)}
<1> DEFINE r == [i \in DOMAIN q |-> [q[i] EXCEPT !.kind = Superseded(p, @)]]
<1>1. DOMAIN q = 1..Len(q) /\ Len(q) \in Nat /\ \A i \in DOMAIN q : q[i] \in Tasks
  OBVIOUS
<1>2. \A t \in Tasks : [t EXCEPT !.kind = Superseded(p, @)] \in Tasks
  BY DEF Tasks, Superseded
<1>3. \A i \in DOMAIN q : r[i] \in Tasks
  BY <1>1, <1>2
<1>4. r \in [1..Len(q) -> Tasks]
  BY <1>1, <1>3
<1>5. r \in Seq(Tasks)
  BY <1>1, <1>4
<1>6. DOMAIN r = DOMAIN q /\ \A i \in DOMAIN q : r[i] = [q[i] EXCEPT !.kind = Superseded(p, @)]
  OBVIOUS
<1> HIDE DEF r
<1>7. InQueue(r) = {[t EXCEPT !.kind = Superseded(p, @)] : t \in InQueue(q)}
  BY <1>6 DEF InQueue
<1> QED
  BY <1>5, <1>7 DEF r

LEMMA TaskType ==
  /\ \A f, restart \in BOOLEAN, prev \in Profiles : Task(f, prev, restart) \in Tasks
  /\ \A k \in {"runtime", "manual", "current", "stale"} : Boundary(k) \in Tasks
  /\ Idle \in Executions /\ NoProfile \in Profiles /\ Profile \subseteq Profiles
  /\ \A t \in Tasks : [t EXCEPT !.tries = @ + 1] \in Tasks
  /\ Idle.pc = "idle" /\ Idle.task.kind = "runtime"
<1> USE DEF Tasks, Profiles
<1>1. ASSUME NEW f \in BOOLEAN, NEW restart \in BOOLEAN, NEW prev \in Profiles
      PROVE  Task(f, prev, restart) \in Tasks
  BY <1>1 DEF Task
<1>2. ASSUME NEW k \in {"runtime", "manual", "current", "stale"} PROVE Boundary(k) \in Tasks
  BY <1>2 DEF Task, Boundary
<1>3. ASSUME NEW t \in Tasks PROVE [t EXCEPT !.tries = @ + 1] \in Tasks
  BY <1>3
<1>4. Idle \in Executions /\ Idle.pc = "idle" /\ Idle.task.kind = "runtime"
  <2>1. Task(FALSE, NoProfile, FALSE) \in Tasks
    BY <1>1
  <2> QED
    BY <2>1 DEF Idle, Executions, Pcs, Modes, Task
<1> QED
  BY <1>1, <1>2, <1>3, <1>4

LEMMA RecorderInitInv == RecorderInit => RecorderIInv
<1> SUFFICES ASSUME RecorderInit PROVE RecorderIInv
  OBVIOUS
<1>1. SideTypes
  BY RecorderConstants DEF RecorderInit, SideTypes, Modes
<1>2. WorkTypes
  <2>1. Task(FALSE, NoProfile, FALSE) \in Tasks
    BY TaskType
  <2>2. queue \in Seq(Tasks)
    <3>1. <<Task(FALSE, NoProfile, FALSE)>> \in Seq(Tasks)
      BY <2>1, QueueOne
    <3> QED
      BY <3>1 DEF RecorderInit
  <2>3. exec \in [Executor -> Executions] /\ \A e \in Executor : ~Busy(e)
    BY TaskType DEF RecorderInit, Busy
  <2>4. boundary \subseteq {"current", "stale"}
    BY DEF RecorderInit
  <2>5. tracker \in [{"api", "worker"} -> [Profile -> Modes]]
    BY DEF RecorderInit, Modes
  <2> QED
    BY <2>2, <2>3, <2>4, <2>5 DEF WorkTypes
<1>3. InQueue(queue) = {Task(FALSE, NoProfile, FALSE)}
  <2>1. queue = <<Task(FALSE, NoProfile, FALSE)>>
    BY DEF RecorderInit
  <2> QED
    BY <2>1, QueueOne, TaskType
<1>4. OneRun
  BY TaskType DEF RecorderInit, OneRun, Busy
<1>5. BoundaryHeld
  <2>1. \A e \in Executor : exec[e].task.kind = "runtime"
    BY TaskType DEF RecorderInit
  <2>2. \A t \in InQueue(queue) : t.kind = "runtime" /\ t.prev = NoProfile
    BY <1>3 DEF Task
  <2>3. "current" \in boundary <=> policy.baseline = "schedule"
    BY DEF RecorderInit
  <2> QED
    BY <2>1, <2>2, <2>3 DEF BoundaryHeld, CurrentHeld, SoundTask
<1>6. ModeTold /\ ProfileTold
  BY RecorderConstants DEF RecorderInit, ModeTold, ProfileTold
<1> QED
  BY <1>1, <1>2, <1>4, <1>5, <1>6 DEF RecorderIInv

\* Every step keeps the types of the facts and of ZLMediaKit's side.
LEMMA SideTypesStep ==
  ASSUME SideTypes, WorkTypes, RecorderNext
  PROVE  SideTypes'
<1> USE DEF SideTypes, Change, facts, media, pending, budget
<1>1. ASSUME NEW p \in Policies, PutPolicy(p) PROVE SideTypes'
  BY <1>1 DEF PutPolicy, MayStart
<1>2. ASSUME NEW b \in BOOLEAN, SetCameraEnabled(b) PROVE SideTypes'
  BY <1>2 DEF SetCameraEnabled, MayStart
<1>3. CASE RetireCamera
  BY <1>3 DEF RetireCamera, MayStart
<1>4. ASSUME NEW b \in BOOLEAN, CreateTrigger(b) PROVE SideTypes'
  BY <1>4 DEF CreateTrigger, MayStart
<1>5. CASE RepeatTrigger
  BY <1>5 DEF RepeatTrigger, MayStart
<1>6. CASE StopTrigger
  BY <1>6 DEF StopTrigger, MayStart
<1>7. ASSUME NEW p \in Profile, ReplaceRecordBinding(p) PROVE SideTypes'
  BY <1>7 DEF ReplaceRecordBinding, MayStart
<1>8. CASE RefreshStreams
  BY <1>8 DEF RefreshStreams, MayStart
<1>9. CASE ChangeTarget
  BY <1>9 DEF ChangeTarget, MayStart
<1>10. CASE CapacityChanges
  BY <1>10 DEF CapacityChanges, MayStart
<1>11. CASE WindowBoundary
  BY <1>11 DEF WindowBoundary, MayStart
<1>12. CASE PostRollEnds
  BY <1>12 DEF PostRollEnds, MayStart
<1>13. CASE CapacityGuard
  BY <1>13 DEF CapacityGuard, MayStart
<1>14. ASSUME NEW w \in Worker, ReconcileCameraRuntime(w) PROVE SideTypes'
  BY <1>14 DEF ReconcileCameraRuntime, Take
<1>15. ASSUME NEW w \in Worker, ManualBoundary(w) PROVE SideTypes'
  BY <1>15 DEF ManualBoundary, Take
<1>16. ASSUME NEW w \in Worker, PolicyBoundary(w) PROVE SideTypes'
  BY <1>16 DEF PolicyBoundary, Take
<1>17. ASSUME NEW e \in Executor, EnsureStreams(e) PROVE SideTypes'
  <2>1. exec[e].prof \in Profile
    BY <1>17 DEF WorkTypes, Busy, EnsureStreams
  <2>2. CASE exec[e].task.restart
    <3>1. PICK up \in {{}, {exec[e].prof}} :
            /\ online' = (online \ {exec[e].prof}) \union up
            /\ recorder' = [recorder EXCEPT ![exec[e].prof] = "off"]
      BY <1>17, <2>2 DEF EnsureStreams
    <3>2. online' \subseteq Profile /\ recorder' \in [Profile -> Modes]
      BY <2>1, <3>1 DEF Modes
    <3>3. \A p \in Profile : recorder'[p] # "off" => p \in online'
      BY <2>1, <3>1
    <3> QED
      BY <1>17, <3>2, <3>3 DEF EnsureStreams, Step
  <2>3. CASE ~exec[e].task.restart
    BY <1>17, <2>1, <2>3 DEF EnsureStreams, Step
  <2> QED
    BY <2>2, <2>3
<1>18. ASSUME NEW e \in Executor, ReadKnownMode(e) PROVE SideTypes'
  BY <1>18 DEF ReadKnownMode, Step, Fail, EndExecution, Close, WorkTypes, Executions, Busy, Modes, Keeps
<1>19. ASSUME NEW e \in Executor, Observe(e) PROVE SideTypes'
  BY <1>19 DEF Observe, Step, Fail, EndExecution, Close, WorkTypes, Executions, Busy, Modes, Keeps
<1>20. ASSUME NEW e \in Executor, Stop(e) PROVE SideTypes'
  BY <1>20 DEF Stop, Step, Fail, EndExecution, Close, WorkTypes, Executions, Busy, Modes, Keeps
<1>21. ASSUME NEW e \in Executor, Start(e) PROVE SideTypes'
  BY <1>21 DEF Start, Step, Fail, EndExecution, Close, WorkTypes, Executions, Busy, Modes, Keeps
<1>22. ASSUME NEW e \in Executor, SetMode(e) PROVE SideTypes'
  BY <1>22 DEF SetMode, Step, Fail, EndExecution, Close, WorkTypes, Executions, Busy, Modes, Keeps
<1>23. ASSUME NEW e \in Executor, SwitchProfile(e) PROVE SideTypes'
  BY <1>23 DEF SwitchProfile, Step, Fail, EndExecution, Close, WorkTypes, Executions, Busy, Modes, Keeps
<1>24. ASSUME NEW e \in Executor, SwitchStop(e) PROVE SideTypes'
  BY <1>24 DEF SwitchStop, Step, Fail, EndExecution, Close, WorkTypes, Executions, Busy, Modes, Keeps
<1>25. ASSUME NEW e \in Executor, SwitchSet(e) PROVE SideTypes'
  BY <1>25 DEF SwitchSet, Step, Fail, EndExecution, Close, WorkTypes, Executions, Busy, Modes, Keeps
<1>26. ASSUME NEW e \in Executor, RefusedCall(e) PROVE SideTypes'
  BY <1>26 DEF RefusedCall, Step, Fail, EndExecution, Close, WorkTypes, Executions, Busy, Modes, Keeps
<1>27. ASSUME NEW p \in Profile, StreamDrops(p) PROVE SideTypes'
  BY <1>27 DEF StreamDrops, Fault, Close, Modes
<1>28. CASE ServerStarted
  BY <1>28 DEF ServerStarted, Fault, Close, Modes
<1>29. ASSUME NEW x \in {"api", "worker"}, Restart(x) PROVE SideTypes'
  BY <1>29 DEF Restart, Fault
<1> QED
  BY <1>1, <1>2, <1>3, <1>4, <1>5, <1>6, <1>7, <1>8, <1>9, <1>10, <1>11, <1>12, <1>13, <1>14, <1>15, <1>16, <1>17, <1>18, <1>19, <1>20, <1>21, <1>22, <1>23, <1>24, <1>25, <1>26, <1>27, <1>28, <1>29
     DEF RecorderNext, Facts, Execute, StartTask

\* The steps that give an execution another state keep its type.
LEMMA ProceedType ==
  ASSUME WorkTypes, NEW e \in Executor, NEW next \in Pcs, Busy(e), Proceed(e, next)
  PROVE  /\ exec' \in [Executor -> Executions]
         /\ \A f \in Executor : Busy(f)' => exec'[f].prof \in Profile
<1>1. [exec[e] EXCEPT !.pc = next, !.known = "off"] \in Executions
  BY DEF WorkTypes, Executions, Modes
<1>2. exec' = [exec EXCEPT ![e] = [exec[e] EXCEPT !.pc = next, !.known = "off"]]
  BY DEF Proceed, WorkTypes
<1>3. exec[e].prof \in Profile
  BY DEF WorkTypes
<1> QED
  BY <1>1, <1>2, <1>3 DEF WorkTypes, Busy, Executions

LEMMA IdleType ==
  ASSUME WorkTypes, NEW e \in Executor, exec' = [exec EXCEPT ![e] = Idle]
  PROVE  /\ exec' \in [Executor -> Executions]
         /\ \A f \in Executor : Busy(f)' => exec'[f].prof \in Profile
  BY TaskType DEF WorkTypes, Busy

LEMMA EndType ==
  ASSUME WorkTypes, NEW e \in Executor, EndExecution(e)
  PROVE  /\ exec' \in [Executor -> Executions]
         /\ \A f \in Executor : Busy(f)' => exec'[f].prof \in Profile
         /\ boundary' \subseteq {"current", "stale"} /\ queue' \in Seq(Tasks)
<1>1. exec' = [exec EXCEPT ![e] = Idle]
  BY DEF EndExecution
<1>2. boundary' \subseteq {"current", "stale"} /\ queue' \in Seq(Tasks)
  BY DEF EndExecution, WorkTypes
<1> QED
  BY <1>1, <1>2, IdleType

LEMMA FailType ==
  ASSUME WorkTypes, NEW e \in Executor, NEW offline \in BOOLEAN, Fail(e, offline)
  PROVE  WorkTypes'
<1>1. exec' = [exec EXCEPT ![e] = Idle]
  BY DEF Fail
<1>2. Task(TRUE, NoProfile, FALSE) \in Tasks /\ [exec[e].task EXCEPT !.tries = @ + 1] \in Tasks
  BY TaskType DEF WorkTypes, Executions
<1>3. queue' \in Seq(Tasks)
  <2>1. \/ queue' = Append(queue, Task(TRUE, NoProfile, FALSE))
        \/ queue' = Append(queue, [exec[e].task EXCEPT !.tries = @ + 1])
        \/ queue' = queue
    BY DEF Fail, Enqueue
  <2>2. queue \in Seq(Tasks)
    BY DEF WorkTypes
  <2>3. \A t \in Tasks : Append(queue, t) \in Seq(Tasks)
    BY <2>2, QueueAppend
  <2> QED
    BY <1>2, <2>1, <2>2, <2>3
<1> QED
  BY <1>1, <1>3, IdleType DEF Fail, WorkTypes, media

LEMMA BeginType ==
  ASSUME SideTypes, WorkTypes, NEW w \in Executor, NEW t \in Tasks, Begin(w, t)
  PROVE  /\ exec' \in [Executor -> Executions]
         /\ \A f \in Executor : Busy(f)' => exec'[f].prof \in Profile
<1> DEFINE x == [Idle EXCEPT !.pc = IF Desired # "off" \/ (t.restart /\ camera)
                                    THEN "ensure" ELSE "read",
                             !.want = Desired, !.prof = rec, !.enabled = camera, !.task = t]
<1>1. Desired \in Modes
  BY DEF Desired, Evaluate, Modes
<1>2. x \in Executions /\ x.prof = rec
  BY <1>1, TaskType DEF Executions, SideTypes, Profiles, Pcs
<1>3. exec' = [exec EXCEPT ![w] = x]
  BY DEF Begin
<1> HIDE DEF x
<1> QED
  BY <1>2, <1>3 DEF WorkTypes, Busy, SideTypes

\* Every step keeps the types of the tables, the queue and the executions.
LEMMA WorkTypesStep ==
  ASSUME SideTypes, WorkTypes, RecorderNext
  PROVE  WorkTypes'
<1> USE DEF Change, facts, media, pending, budget
<1>t. \A f, restart \in BOOLEAN, prev \in Profiles : Task(f, prev, restart) \in Tasks
  BY TaskType
<1>a. \A t \in Tasks : Append(queue, t) \in Seq(Tasks)
  BY QueueAppend DEF WorkTypes
<1>h. queue # <<>> => Head(queue) \in Tasks /\ Tail(queue) \in Seq(Tasks)
  BY QueueTake DEF WorkTypes
<1>1. ASSUME NEW p \in Policies, PutPolicy(p) PROVE WorkTypes'
  <2> DEFINE x == [Idle EXCEPT !.pc = IF Evaluate(p) # "off" THEN "ensure" ELSE "read",
                               !.want = Evaluate(p), !.prof = rec,
                               !.task = Task(ForcePolicy(p), NoProfile, FALSE)]
             old == [e \in Executor |-> [exec[e] EXCEPT !.task.kind = Superseded(p, @)]]
  <2>1. queue' \in Seq(Tasks)
    BY <1>1, QueueSupersede DEF PutPolicy, WorkTypes
  <2>2. boundary' \subseteq {"current", "stale"}
    BY <1>1 DEF PutPolicy, WorkTypes, Superseded
  <2>3. Evaluate(p) \in Modes /\ Task(ForcePolicy(p), NoProfile, FALSE) \in Tasks
    BY <1>t DEF Evaluate, Modes, ForcePolicy, Profiles
  <2>4. x \in Executions /\ x.prof = rec
    BY <2>3, TaskType DEF Executions, SideTypes, Profiles, Pcs
  <2>5. old \in [Executor -> Executions]
        /\ \A e \in Executor : old[e].pc = exec[e].pc /\ old[e].prof = exec[e].prof
    <3>1. ASSUME NEW y \in Executions
          PROVE  LET z == [y EXCEPT !.task.kind = Superseded(p, @)]
                 IN z \in Executions /\ z.pc = y.pc /\ z.prof = y.prof
      BY <3>1 DEF Executions, Tasks, Superseded
    <3> QED
      BY <3>1 DEF WorkTypes
  <2>6. exec' = [old EXCEPT !["api"] = x]
    BY <1>1 DEF PutPolicy
  <2> HIDE DEF x, old
  <2>7. "api" \in Executor
    BY DEF Executor
  <2>8. exec' \in [Executor -> Executions]
        /\ \A e \in Executor : Busy(e)' => exec'[e].prof \in Profile
    BY <2>4, <2>5, <2>6, <2>7 DEF WorkTypes, Busy, SideTypes
  <2> QED
    BY <1>1, <2>1, <2>2, <2>8 DEF PutPolicy, WorkTypes
<1>2. ASSUME NEW b \in BOOLEAN, SetCameraEnabled(b) PROVE WorkTypes'
  <2>1. queue' \in Seq(Tasks)
    BY <1>2, <1>t, <1>a, TaskType DEF SetCameraEnabled, Enqueue, WorkTypes, SideTypes, TriggerForce, Baseline, Profiles
  <2> QED
    BY <1>2, <2>1 DEF SetCameraEnabled, WorkTypes, Busy
<1>3. CASE RetireCamera
  <2>1. queue' \in Seq(Tasks)
    BY <1>3, <1>t, <1>a, TaskType DEF RetireCamera, Enqueue, WorkTypes, SideTypes, TriggerForce, Baseline, Profiles
  <2> QED
    BY <1>3, <2>1 DEF RetireCamera, WorkTypes, Busy
<1>4. ASSUME NEW b \in BOOLEAN, CreateTrigger(b) PROVE WorkTypes'
  <2>1. Task(TriggerForce, NoProfile, FALSE) \in Tasks
    BY <1>t DEF TriggerForce, Profiles
  <2>2. queue' = queue \/ queue' = Append(queue, Task(TriggerForce, NoProfile, FALSE))
    BY <1>4 DEF CreateTrigger, Enqueue
  <2>3. queue' \in Seq(Tasks)
    BY <2>1, <2>2, <1>a DEF WorkTypes
  <2> QED
    BY <1>4, <2>3 DEF CreateTrigger, WorkTypes, Busy
<1>5. CASE RepeatTrigger
  <2>1. queue' \in Seq(Tasks)
    BY <1>5, <1>t, <1>a, TaskType DEF RepeatTrigger, Enqueue, WorkTypes, SideTypes, TriggerForce, Baseline, Profiles
  <2> QED
    BY <1>5, <2>1 DEF RepeatTrigger, WorkTypes, Busy
<1>6. CASE StopTrigger
  <2>1. queue' \in Seq(Tasks)
    BY <1>6, <1>t, <1>a, TaskType DEF StopTrigger, Enqueue, WorkTypes, SideTypes, TriggerForce, Baseline, Profiles
  <2> QED
    BY <1>6, <2>1 DEF StopTrigger, WorkTypes, Busy
<1>7. ASSUME NEW p \in Profile, ReplaceRecordBinding(p) PROVE WorkTypes'
  <2>1. queue' \in Seq(Tasks)
    BY <1>7, <1>t, <1>a, TaskType DEF ReplaceRecordBinding, Enqueue, WorkTypes, SideTypes, TriggerForce, Baseline, Profiles
  <2> QED
    BY <1>7, <2>1 DEF ReplaceRecordBinding, WorkTypes, Busy
<1>8. CASE RefreshStreams
  <2>1. queue' \in Seq(Tasks)
    BY <1>8, <1>t, <1>a, TaskType DEF RefreshStreams, Enqueue, WorkTypes, SideTypes, TriggerForce, Baseline, Profiles
  <2> QED
    BY <1>8, <2>1 DEF RefreshStreams, WorkTypes, Busy
<1>9. CASE ChangeTarget
  <2>1. queue' \in Seq(Tasks)
    BY <1>9, <1>t, <1>a, TaskType DEF ChangeTarget, Enqueue, WorkTypes, SideTypes, TriggerForce, Baseline, Profiles
  <2> QED
    BY <1>9, <2>1 DEF ChangeTarget, WorkTypes, Busy
<1>10. CASE CapacityChanges
  BY <1>10 DEF CapacityChanges, WorkTypes, Busy
<1>11. CASE WindowBoundary
  <2>1. Due("stale") \in Seq(Tasks) /\ Due("current") \in Seq(Tasks)
    BY TaskType, QueueOne DEF Due
  <2>2. queue' \in Seq(Tasks)
    BY <1>11, <2>1, QueueConcat DEF WindowBoundary, WorkTypes
  <2> QED
    BY <1>11, <2>2 DEF WindowBoundary, WorkTypes, Busy
<1>12. CASE PostRollEnds
  <2>1. queue' \in Seq(Tasks)
    BY <1>12, <1>t, <1>a, TaskType DEF PostRollEnds, Enqueue, WorkTypes, SideTypes, TriggerForce, Baseline, Profiles
  <2> QED
    BY <1>12, <2>1 DEF PostRollEnds, WorkTypes, Busy
<1>13. CASE CapacityGuard
  <2>1. queue' \in Seq(Tasks)
    BY <1>13, <1>t, <1>a, TaskType DEF CapacityGuard, Enqueue, WorkTypes, SideTypes, TriggerForce, Baseline, Profiles
  <2> QED
    BY <1>13, <2>1 DEF CapacityGuard, WorkTypes, Busy
<1>14. ASSUME NEW w \in Worker, ReconcileCameraRuntime(w) PROVE WorkTypes'
  <2> DEFINE t == [Head(queue) EXCEPT !.prev = IF @ = rec THEN NoProfile ELSE @]
  <2>1. Head(queue) \in Tasks /\ queue' \in Seq(Tasks)
    BY <1>14, <1>h DEF ReconcileCameraRuntime, Take, WorkTypes
  <2>2. t \in Tasks
    BY <2>1 DEF Tasks, Profiles
  <2>3. Begin(w, t) /\ w \in Executor
    BY <1>14 DEF ReconcileCameraRuntime, Executor
  <2> HIDE DEF t
  <2> QED
    BY <1>14, <2>1, <2>2, <2>3, BeginType DEF ReconcileCameraRuntime, Take, WorkTypes
<1>15. ASSUME NEW w \in Worker, ManualBoundary(w) PROVE WorkTypes'
  <2>1. Tail(queue) \in Seq(Tasks)
    BY <1>15, <1>h DEF ManualBoundary, WorkTypes
  <2>2. Task(Desired # "persistent", NoProfile, FALSE) \in Tasks
    BY <1>t DEF Profiles
  <2>3. queue' \in Seq(Tasks)
    BY <1>15, <2>1, <2>2, QueueAppend DEF ManualBoundary
  <2> QED
    BY <1>15, <2>3 DEF ManualBoundary, WorkTypes, Busy
<1>16. ASSUME NEW w \in Worker, PolicyBoundary(w) PROVE WorkTypes'
  <2>1. Head(queue) \in Tasks /\ queue' \in Seq(Tasks)
    BY <1>16, <1>h DEF PolicyBoundary, Take, WorkTypes
  <2>2. exec' = exec \/ Begin(w, Head(queue))
    BY <1>16 DEF PolicyBoundary
  <2>3. exec' \in [Executor -> Executions]
        /\ \A e \in Executor : Busy(e)' => exec'[e].prof \in Profile
    BY <2>1, <2>2, BeginType DEF Executor, WorkTypes, Busy
  <2> QED
    BY <1>16, <2>1, <2>3 DEF PolicyBoundary, Take, WorkTypes
<1>17. ASSUME NEW e \in Executor, EnsureStreams(e) PROVE WorkTypes'
  <2>1. Proceed(e, "read") /\ Busy(e)
    BY <1>17 DEF EnsureStreams, Busy
  <2> QED
    BY <1>17, <2>1, ProceedType DEF EnsureStreams, Step, WorkTypes, Pcs
<1>18. ASSUME NEW e \in Executor, ReadKnownMode(e) PROVE WorkTypes'
  <2> DEFINE x == [exec[e] EXCEPT !.pc = IF Prev(e) # NoProfile THEN "switch" ELSE "observe",
                                  !.known = tracker[Process(e)][exec[e].prof]]
  <2>1. Busy(e) /\ exec[e].prof \in Profile /\ Process(e) \in {"api", "worker"}
    BY <1>18 DEF ReadKnownMode, Busy, WorkTypes, Process
  <2>2. tracker[Process(e)][exec[e].prof] \in Modes
    BY <2>1 DEF WorkTypes
  <2>3. x \in Executions /\ x.prof = exec[e].prof
    BY <2>2 DEF WorkTypes, Executions, Pcs
  <2>4. exec' = [exec EXCEPT ![e] = x]
    BY <1>18 DEF ReadKnownMode
  <2> HIDE DEF x
  <2>5. exec' \in [Executor -> Executions]
        /\ \A f \in Executor : Busy(f)' => exec'[f].prof \in Profile
    BY <2>1, <2>3, <2>4 DEF WorkTypes, Busy
  <2> QED
    BY <1>18, <2>5 DEF ReadKnownMode, Step, WorkTypes
<1>19. ASSUME NEW e \in Executor, Observe(e) PROVE WorkTypes'
  <2>1. CASE Fail(e, TRUE)
    BY <2>1, FailType
  <2>2. CASE EndExecution(e) /\ UNCHANGED <<media, tracker>>
    BY <2>2, EndType DEF WorkTypes
  <2>3. ASSUME NEW next \in {"stop", "start", "set"},
               Proceed(e, next), Step, UNCHANGED <<media, tracker, queue, faults>>
        PROVE  WorkTypes'
    <3>1. Busy(e) /\ next \in Pcs
      BY <1>19, <2>3 DEF Observe, Busy, Pcs
    <3> QED
      BY <2>3, <3>1, ProceedType DEF Step, WorkTypes
  <2>4. CASE Step /\ UNCHANGED <<media, tracker, queue, faults>>
             /\ \E next \in {"stop", "start", "set"} : Proceed(e, next)
    BY <2>3, <2>4
  <2> QED
    BY <1>19, <2>1, <2>2, <2>4 DEF Observe
<1>20. ASSUME NEW e \in Executor, Stop(e) PROVE WorkTypes'
  <2>1. Proceed(e, IF exec[e].want = "off" THEN "set" ELSE "start") /\ Busy(e)
    BY <1>20 DEF Stop, Busy
  <2> QED
    BY <1>20, <2>1, ProceedType DEF Stop, Step, WorkTypes, Pcs
<1>21. ASSUME NEW e \in Executor, Start(e) PROVE WorkTypes'
  <2>1. CASE Fail(e, FALSE)
    BY <2>1, FailType
  <2>2. CASE Proceed(e, "set") /\ Step /\ UNCHANGED <<online, tracker, queue, faults>>
    <3>1. Busy(e)
      BY <1>21 DEF Start, Busy
    <3> QED
      BY <2>2, <3>1, ProceedType DEF Step, WorkTypes, Pcs
  <2> QED
    BY <1>21, <2>1, <2>2 DEF Start
<1>22. ASSUME NEW e \in Executor, SetMode(e) PROVE WorkTypes'
  <2>1. exec[e].want \in Modes /\ Process(e) \in {"api", "worker"} /\ EndExecution(e)
    BY <1>22 DEF SetMode, WorkTypes, Executions, Process
  <2>2. tracker' \in [{"api", "worker"} -> [Profile -> Modes]]
    BY <1>22, <2>1 DEF SetMode, WorkTypes
  <2> QED
    BY <2>1, <2>2, EndType DEF WorkTypes
<1>23. ASSUME NEW e \in Executor, SwitchProfile(e) PROVE WorkTypes'
  <2>1. CASE Fail(e, FALSE)
    BY <2>1, FailType
  <2>2. ASSUME NEW next \in {"swStop", "swSet"},
               Proceed(e, next), Step, UNCHANGED <<media, tracker, queue, faults>>
        PROVE  WorkTypes'
    <3>1. Busy(e) /\ next \in Pcs
      BY <1>23, <2>2 DEF SwitchProfile, Busy, Pcs
    <3> QED
      BY <2>2, <3>1, ProceedType DEF Step, WorkTypes
  <2>3. CASE Step /\ UNCHANGED <<media, tracker, queue, faults>>
             /\ \E next \in {"swStop", "swSet"} : Proceed(e, next)
    BY <2>2, <2>3
  <2> QED
    BY <1>23, <2>1, <2>3 DEF SwitchProfile
<1>24. ASSUME NEW e \in Executor, SwitchStop(e) PROVE WorkTypes'
  <2>1. Proceed(e, "swSet") /\ Busy(e)
    BY <1>24 DEF SwitchStop, Busy
  <2> QED
    BY <1>24, <2>1, ProceedType DEF SwitchStop, Step, WorkTypes, Pcs
<1>25. ASSUME NEW e \in Executor, SwitchSet(e) PROVE WorkTypes'
  <2>1. Busy(e) /\ Process(e) \in {"api", "worker"}
    BY <1>25 DEF SwitchSet, Busy, Process
  <2>2. tracker' \in [{"api", "worker"} -> [Profile -> Modes]]
    BY <1>25, <2>1 DEF SwitchSet, WorkTypes, Modes
  <2>3. CASE EndExecution(e)
    BY <2>2, <2>3, EndType DEF WorkTypes
  <2>4. ASSUME NEW next \in {"start", "set"}, Proceed(e, next), Step, UNCHANGED <<media, queue, faults>>
        PROVE  WorkTypes'
    <3>1. next \in Pcs
      BY <2>4 DEF Pcs
    <3> QED
      BY <2>1, <2>2, <2>4, <3>1, ProceedType DEF Step, WorkTypes
  <2>5. CASE /\ Step /\ UNCHANGED <<media, queue, faults>>
             /\ \E next \in {"start", "set"} : Proceed(e, next)
    BY <2>4, <2>5
  <2> QED
    BY <1>25, <2>3, <2>5 DEF SwitchSet
<1>26. ASSUME NEW e \in Executor, RefusedCall(e) PROVE WorkTypes'
  <2>1. Fail(e, exec[e].pc = "ensure")
    BY <1>26 DEF RefusedCall
  <2>2. Fail(e, TRUE) \/ Fail(e, FALSE)
    <3>1. CASE exec[e].pc = "ensure"
      BY <2>1, <3>1 DEF Fail
    <3>2. CASE exec[e].pc # "ensure"
      BY <2>1, <3>2 DEF Fail
    <3> QED
      BY <3>1, <3>2
  <2> QED
    BY <2>2, FailType
<1>27. ASSUME NEW p \in Profile, StreamDrops(p) PROVE WorkTypes'
  BY <1>27 DEF StreamDrops, WorkTypes, Busy
<1>28. CASE ServerStarted
  <2>1. queue' \in Seq(Tasks)
    BY <1>28, <1>t, <1>a, TaskType DEF ServerStarted, Enqueue, WorkTypes, SideTypes, TriggerForce, Baseline, Profiles
  <2> QED
    BY <1>28, <2>1 DEF ServerStarted, WorkTypes, Busy
<1>29. ASSUME NEW x \in {"api", "worker"}, Restart(x) PROVE WorkTypes'
  <2>1. queue' \in Seq(Tasks)
    <3>1. Task(FALSE, NoProfile, FALSE) \in Tasks
      BY TaskType
    <3> QED
      BY <1>29, <3>1, <1>a DEF Restart, Enqueue, WorkTypes
  <2>2. tracker' \in [{"api", "worker"} -> [Profile -> Modes]]
    BY <1>29 DEF Restart, WorkTypes, Modes
  <2>3. exec' \in [Executor -> Executions]
        /\ \A e \in Executor : Busy(e)' => exec'[e].prof \in Profile
    BY <1>29, TaskType DEF Restart, WorkTypes, Busy
  <2> QED
    BY <1>29, <2>1, <2>2, <2>3 DEF Restart, WorkTypes
<1> QED
  BY <1>1, <1>2, <1>3, <1>4, <1>5, <1>6, <1>7, <1>8, <1>9, <1>10, <1>11, <1>12, <1>13, <1>14, <1>15, <1>16, <1>17, <1>18, <1>19, <1>20, <1>21, <1>22, <1>23, <1>24, <1>25, <1>26, <1>27, <1>28, <1>29
     DEF RecorderNext, Facts, Execute, StartTask

-----------------------------------------------------------------------------
(* Calm behaviours: one execution at a time, and what it read still holds. *)

Quiet == \A e \in Executor : ~Busy(e)

\* Where an execution may proceed to in a calm behaviour.
MayProceed(e, next) ==
  /\ next \in Pcs \ {"idle"}
  /\ next \in {"switch", "swStop", "swSet"} => Prev(e) # NoProfile
  /\ next \in {"observe", "stop"} => Prev(e) = NoProfile
  /\ next # "ensure" /\ exec[e].want # "off" => rec \in online'
  /\ next = "start" => exec[e].want # "off"

LEMMA SameEvaluate == facts' = facts => /\ Evaluate(policy)' = Evaluate(policy)
                                        /\ rec' = rec /\ policy' = policy
  BY DEF facts, Evaluate, Baseline

LEMMA ProceedKeeps ==
  ASSUME WorkTypes, OneRun, BoundaryHeld, NEW e \in Executor, Busy(e), NEW next, MayProceed(e, next),
         \/ exec' = [exec EXCEPT ![e].pc = next, ![e].known = "off"]
         \/ \E k \in Modes : exec' = [exec EXCEPT ![e].pc = next, ![e].known = k],
         UNCHANGED <<facts, boundary, queue>>
  PROVE  /\ OneRun' /\ BoundaryHeld'
         /\ \A f \in Executor : Busy(f)' <=> f = e
         /\ exec'[e].pc = next /\ exec'[e].task = exec[e].task
<1>1. PICK k \in Modes : exec' = [exec EXCEPT ![e].pc = next, ![e].known = k]
  BY DEF Modes
<1>2. /\ exec[e] \in Executions /\ exec \in [Executor -> Executions]
      /\ \A f \in Executor : Busy(f) <=> f = e
  BY DEF WorkTypes, OneRun
<1>3. /\ exec'[e].pc = next /\ exec'[e].task = exec[e].task
      /\ exec'[e].want = exec[e].want /\ exec'[e].prof = exec[e].prof
      /\ \A f \in Executor : f # e => exec'[f] = exec[f]
  BY <1>1, <1>2 DEF Executions
<1>4. \A f \in Executor : Busy(f)' <=> f = e
  BY <1>2, <1>3 DEF Busy, MayProceed
<1>5. \A f \in Executor : exec'[f].task = exec[f].task
  BY <1>3
<1>6. Evaluate(policy)' = Evaluate(policy) /\ rec' = rec /\ policy' = policy
  BY SameEvaluate
<1>7. SoundRun(exec[e])
  BY DEF OneRun
<1>8. SoundRun(exec[e])'
  BY <1>3, <1>6, <1>7 DEF SoundRun, MayProceed, ManualQueued, Prev
<1>9. OneRun'
  BY <1>2, <1>4, <1>5, <1>8 DEF OneRun, Busy
<1>10. BoundaryHeld'
  BY <1>5, <1>6 DEF BoundaryHeld, CurrentHeld, SoundTask
<1> QED
  BY <1>3, <1>4, <1>9, <1>10

LEMMA EndKeeps ==
  ASSUME WorkTypes, OneRun, BoundaryHeld, NEW e \in Executor, Busy(e), EndExecution(e)
  PROVE  OneRun' /\ BoundaryHeld' /\ Quiet'
<1>1. \A f \in Executor : Busy(f) <=> f = e
  BY DEF OneRun
<1>2. exec'[e] = Idle /\ \A f \in Executor : f # e => exec'[f] = exec[f]
  BY DEF EndExecution, WorkTypes
<1>3. Quiet'
  BY <1>1, <1>2, TaskType DEF Quiet, Busy
<1>4. \A f \in Executor : exec'[f].task.kind = "runtime"
  BY <1>1, <1>2, TaskType DEF OneRun
<1>5. OneRun'
  BY <1>3, <1>4 DEF OneRun, Quiet
<1>6. CurrentHeld <=> CurrentHeld'
  <2>1. \A f \in Executor : exec[f].task.kind = "current" => f = e
    BY <1>1 DEF OneRun
  <2>2. "current" \in boundary' <=> "current" \in boundary \/ exec[e].task.kind = "current"
    BY DEF EndExecution
  <2> QED
    BY <1>4, <2>1, <2>2 DEF CurrentHeld, EndExecution
<1>7. BoundaryHeld'
  BY <1>6, SameEvaluate DEF BoundaryHeld, EndExecution, SoundTask, facts
<1> QED
  BY <1>3, <1>5, <1>7

\* A task of another kind than the boundary of the policy in force.
LEMMA PushKeeps ==
  ASSUME WorkTypes, BoundaryHeld, NEW t \in Tasks, SoundTask(t), t.kind # "current",
         queue' = Append(queue, t), UNCHANGED <<boundary, exec, policy>>
  PROVE  BoundaryHeld'
<1>1. InQueue(queue') = InQueue(queue) \union {t}
  BY QueueAppend DEF WorkTypes
<1> QED
  BY <1>1 DEF BoundaryHeld, CurrentHeld, SoundTask

LEMMA QuietKeeps ==
  ASSUME OneRun, Quiet, UNCHANGED exec
  PROVE  OneRun' /\ Quiet'
  BY DEF OneRun, Quiet, Busy

LEMMA BeginKeeps ==
  ASSUME SideTypes, WorkTypes, OneRun, BoundaryHeld, Quiet, NEW w \in Executor, NEW t \in Tasks,
         queue # <<>>, t.kind = Head(queue).kind, t.force = Head(queue).force,
         t.prev \in {NoProfile, Head(queue).prev} \ {rec},
         Begin(w, t), queue' = Tail(queue), UNCHANGED <<facts, boundary>>
  PROVE  /\ OneRun' /\ BoundaryHeld'
         /\ \A f \in Executor : Busy(f)' <=> f = w
         /\ exec'[w].task = t /\ exec'[w].pc \in {"ensure", "read"}
<1>1. Head(queue) \in Tasks /\ InQueue(queue) = InQueue(queue') \union {Head(queue)}
  BY QueueTake DEF WorkTypes
<1>2. SoundTask(Head(queue)) /\ SoundTask(t)
  BY <1>1 DEF BoundaryHeld, SoundTask
<1>3. /\ exec'[w].pc = (IF Desired # "off" \/ (t.restart /\ camera) THEN "ensure" ELSE "read")
      /\ exec'[w].want = Desired /\ exec'[w].prof = rec /\ exec'[w].task = t
      /\ \A f \in Executor : f # w => exec'[f] = exec[f]
  BY DEF Begin, WorkTypes, Idle
<1>4. \A f \in Executor : Busy(f)' <=> f = w
  BY <1>3 DEF Quiet, Busy
<1>5. Evaluate(policy)' = Evaluate(policy) /\ rec' = rec /\ policy' = policy
  BY SameEvaluate
<1>6. SoundRun(exec[w])'
  BY <1>2, <1>3, <1>5 DEF SoundRun, SoundTask, Desired
<1>7. OneRun'
  BY <1>3, <1>4, <1>6 DEF OneRun, Quiet, Busy
<1>8. CurrentHeld <=> CurrentHeld'
  BY <1>1, <1>3 DEF CurrentHeld, OneRun, Quiet
<1>9. BoundaryHeld'
  BY <1>1, <1>5, <1>8 DEF BoundaryHeld, SoundTask
<1> QED
  BY <1>3, <1>4, <1>7, <1>9

-----------------------------------------------------------------------------
(* Steps of a calm behaviour. *)

CalmKept ==
  /\ OneRun' /\ BoundaryHeld'
  /\ ModeTold /\ ProfileTold /\ ~hasty' => ModeTold' /\ ProfileTold'

\* Tasks may join the queue, executions as they are: what was told stays told.
LEMMA StillTold ==
  ASSUME SideTypes, WorkTypes, ModeTold, ProfileTold, NEW t \in Tasks,
         queue' = Append(queue, t) \/ UNCHANGED queue, UNCHANGED <<exec, recorder>>,
         Evaluate(policy)' = Evaluate(policy) \/ Evaluate(policy)' = "off",
         rec' = rec
  PROVE  ModeTold' /\ ProfileTold'
<1>1. InQueue(Append(queue, t)) = InQueue(queue) \union {t}
  BY QueueAppend DEF WorkTypes
<1>2. InQueue(queue) \subseteq InQueue(queue')
  BY <1>1
<1> QED
  BY <1>2 DEF ModeTold, ProfileTold, RealQueued, ManualQueued, ForcedRun, Busy, Prev

LEMMA ProceedTold ==
  ASSUME SideTypes, ModeTold, ProfileTold, NEW e \in Executor,
         Busy(e), \A f \in Executor : Busy(f) <=> f = e,
         \A f \in Executor : Busy(f)' <=> f = e, exec'[e].task = exec[e].task,
         UNCHANGED <<facts, queue>>,
         \/ recorder'[rec] = "off"
         \/ /\ recorder'[rec] = recorder[rec]
            /\ exec[e].task.force /\ exec[e].pc \in {"ensure", "read", "observe", "stop"}
                 => exec'[e].pc \in {"ensure", "read", "observe", "stop"},
         \A p \in Profile \ {rec} : recorder'[p] \in {"off", recorder[p]}
  PROVE  ModeTold' /\ ProfileTold'
<1>1. Evaluate(policy)' = Evaluate(policy) /\ rec' = rec
  BY SameEvaluate
<1>2. RealQueued' = RealQueued /\ ManualQueued' = ManualQueued
  BY DEF RealQueued, ManualQueued
<1>3. \/ recorder'[rec] = "off"
      \/ recorder'[rec] = recorder[rec] /\ (ForcedRun => ForcedRun')
  BY DEF ForcedRun, Busy
<1>4. ModeTold'
  BY <1>1, <1>2, <1>3 DEF ModeTold
<1>5. ProfileTold'
  BY <1>1 DEF ProfileTold, Prev
<1> QED
  BY <1>4, <1>5

LEMMA EndTold ==
  ASSUME SideTypes, ModeTold, ProfileTold, NEW e \in Executor,
         \A f \in Executor : Busy(f) <=> f = e, UNCHANGED <<facts, queue>>,
         \/ recorder'[rec] = "off"
         \/ /\ recorder'[rec] = recorder[rec]
            /\ exec[e].task.force => exec[e].pc \notin {"ensure", "read", "observe", "stop"},
         \A p \in Profile \ {rec} : \/ recorder'[p] = "off"
                                    \/ recorder'[p] = recorder[p] /\ p # Prev(e)
  PROVE  ModeTold' /\ ProfileTold'
<1>1. Evaluate(policy)' = Evaluate(policy) /\ rec' = rec
  BY SameEvaluate
<1>2. RealQueued' = RealQueued /\ ManualQueued' = ManualQueued
  BY DEF RealQueued, ManualQueued
<1>3. \/ recorder'[rec] = "off"
      \/ recorder'[rec] = recorder[rec] /\ ~ForcedRun
  BY DEF ForcedRun, Busy
<1>4. ModeTold'
  BY <1>1, <1>2, <1>3 DEF ModeTold
<1>5. ProfileTold'
  BY <1>1 DEF ProfileTold, Prev
<1> QED
  BY <1>4, <1>5

\* A task leaves the queue for an execution that does what it asks for.
LEMMA TakeTold ==
  ASSUME SideTypes, WorkTypes, ModeTold, ProfileTold, Quiet, NEW w \in Executor,
         queue # <<>>, queue' = Tail(queue), UNCHANGED <<facts, recorder>>,
         Head(queue).kind \in {"runtime", "current"},
         exec'[w].task.force = Head(queue).force, exec'[w].pc \in {"ensure", "read"},
         exec'[w].task.prev = IF Head(queue).prev = rec THEN NoProfile ELSE Head(queue).prev
  PROVE  ModeTold' /\ ProfileTold'
<1>1. Head(queue) \in Tasks /\ InQueue(queue) = InQueue(queue') \union {Head(queue)}
  BY QueueTake DEF WorkTypes
<1>2. Evaluate(policy)' = Evaluate(policy) /\ rec' = rec
  BY SameEvaluate
<1>3. (RealQueued => RealQueued' \/ ForcedRun') /\ (ManualQueued => ManualQueued')
  BY <1>1 DEF RealQueued, ManualQueued, Real, ForcedRun
<1>4. ~ForcedRun
  BY DEF Quiet, Busy, ForcedRun
<1>5. ModeTold'
  BY <1>2, <1>3, <1>4 DEF ModeTold
<1>6. ProfileTold'
  BY <1>1, <1>2 DEF ProfileTold, Quiet, Busy, Prev
<1> QED
  BY <1>5, <1>6

LEMMA ExecuteCalm ==
  ASSUME SideTypes, WorkTypes, calm, OneRun, BoundaryHeld, NEW e \in Executor, Execute(e)
  PROVE  CalmKept
<1>b. Busy(e)
  BY DEF Execute, EnsureStreams, ReadKnownMode, Observe, Stop, Start, SetMode,
         SwitchProfile, SwitchStop, SwitchSet, Busy
<1>1. /\ \A f \in Executor : Busy(f) <=> f = e
      /\ SoundRun(exec[e]) /\ exec[e] \in Executions
      /\ rec \in Profile /\ NoProfile \notin Profile /\ exec[e].prof = rec
  BY <1>b, RecorderConstants DEF OneRun, WorkTypes, SideTypes, SoundRun
\* No call fails.
<1>2. /\ ~(exec[e].prof \notin online /\ exec[e].want # "off" /\ exec[e].pc = "observe")
      /\ ~(exec[e].prof \notin online /\ exec[e].want # "off" /\ exec[e].pc = "switch")
      /\ ~(exec[e].prof \notin online /\ exec[e].pc = "start")
  BY <1>1 DEF SoundRun
\* An execution that proceeds keeps what holds of it.
<1>p. ASSUME NEW next, MayProceed(e, next),
             \E k \in Modes : exec' = [exec EXCEPT ![e].pc = next, ![e].known = k],
             UNCHANGED <<facts, boundary, queue>>,
             \/ recorder'[rec] = "off"
             \/ /\ recorder'[rec] = recorder[rec]
                /\ exec[e].task.force /\ exec[e].pc \in {"ensure", "read", "observe", "stop"}
                     => next \in {"ensure", "read", "observe", "stop"},
             \A p \in Profile \ {rec} : recorder'[p] \in {"off", recorder[p]}
      PROVE  CalmKept
  <2>1. /\ OneRun' /\ BoundaryHeld' /\ \A f \in Executor : Busy(f)' <=> f = e
        /\ exec'[e].pc = next /\ exec'[e].task = exec[e].task
    BY <1>b, <1>p, ProceedKeeps
  <2> QED
    BY <1>b, <1>1, <1>p, <2>1, ProceedTold DEF CalmKept
<1>q. ASSUME NEW next, Proceed(e, next)
      PROVE  \E k \in Modes : exec' = [exec EXCEPT ![e].pc = next, ![e].known = k]
  BY <1>q DEF Proceed, Modes
<1>3. CASE EnsureStreams(e)
  <2>1. Proceed(e, "read") /\ UNCHANGED <<facts, boundary, queue>>
    BY <1>3 DEF EnsureStreams, Step
  <2>2. rec \in online'
    BY <1>1, <1>3 DEF EnsureStreams
  <2>3. recorder' \in {recorder, [recorder EXCEPT ![rec] = "off"]}
    BY <1>1, <1>3 DEF EnsureStreams
  <2>4. MayProceed(e, "read")
    BY <2>2 DEF MayProceed, Pcs
  <2> QED
    BY <1>1, <1>p, <1>q, <2>1, <2>3, <2>4 DEF SideTypes
<1>4. CASE ReadKnownMode(e)
  <2> DEFINE next == IF Prev(e) # NoProfile THEN "switch" ELSE "observe"
  <2>1. tracker[Process(e)][exec[e].prof] \in Modes
    BY <1>1 DEF WorkTypes, Process
  <2>2. /\ \E k \in Modes : exec' = [exec EXCEPT ![e].pc = next, ![e].known = k]
        /\ UNCHANGED <<facts, boundary, queue, media>>
    BY <1>4, <2>1 DEF ReadKnownMode, Step
  <2>3. MayProceed(e, next)
    BY <1>1, <1>4, <2>2 DEF MayProceed, Pcs, ReadKnownMode, SoundRun, media, Prev
  <2>4. exec[e].task.force => next = "observe"
    BY <1>1 DEF SoundRun, Prev
  <2> HIDE DEF next
  <2> QED
    BY <1>1, <1>p, <2>2, <2>3, <2>4 DEF media
<1>5. CASE Observe(e)
  <2>1. CASE EndExecution(e) /\ UNCHANGED <<media, tracker>> /\ exec[e].task.force = FALSE
    <3>1. OneRun' /\ BoundaryHeld'
      BY <1>b, <2>1, EndKeeps
    <3>2. UNCHANGED <<facts, queue, recorder>> /\ Prev(e) = NoProfile
      BY <1>1, <1>5, <2>1 DEF EndExecution, media, Observe, SoundRun, Prev
    <3> QED
      BY <1>1, <2>1, <3>1, <3>2, EndTold DEF CalmKept
  <2>2. ASSUME NEW next, Proceed(e, next), Step, UNCHANGED <<media, tracker, queue, faults>>,
               next = "stop" \/ (recorder[rec] = "off" /\ next \in {"start", "set"}),
               next = "start" => exec[e].want # "off"
        PROVE  CalmKept
    <3>1. MayProceed(e, next)
      BY <1>1, <1>5, <2>2 DEF MayProceed, Pcs, Observe, SoundRun, media, Prev
    <3>2. UNCHANGED <<facts, boundary, queue, recorder>>
      BY <2>2 DEF Step, media
    <3> QED
      BY <1>1, <1>p, <1>q, <2>2, <3>1, <3>2
  <2>3. CASE recorder[exec[e].prof] # "off" /\ exec[e].want # "off" /\ Keeps(e)
    BY <1>1, <1>2, <1>5, <2>1, <2>3 DEF Observe, Keeps, Executions, Tasks
  <2>4. CASE recorder[exec[e].prof] # "off" /\ ~(exec[e].want # "off" /\ Keeps(e))
    <3>1. Proceed(e, "stop") /\ Step /\ UNCHANGED <<media, tracker, queue, faults>>
      BY <1>2, <1>5, <2>4 DEF Observe
    <3> QED
      BY <3>1, <2>2
  <2>5. CASE recorder[exec[e].prof] = "off"
    <3>1. /\ Proceed(e, IF exec[e].want # "off" THEN "start" ELSE "set")
          /\ Step /\ UNCHANGED <<media, tracker, queue, faults>>
      BY <1>2, <1>5, <2>5 DEF Observe
    <3> QED
      BY <1>1, <3>1, <2>2, <2>5
  <2> QED
    BY <2>3, <2>4, <2>5
<1>6. CASE Stop(e)
  <2> DEFINE next == IF exec[e].want = "off" THEN "set" ELSE "start"
  <2>1. Proceed(e, next) /\ UNCHANGED <<facts, boundary, queue, online>>
        /\ recorder' = [recorder EXCEPT ![rec] = "off"]
    BY <1>1, <1>6 DEF Stop, Step
  <2>2. MayProceed(e, next)
    BY <1>1, <1>6, <2>1 DEF MayProceed, Pcs, Stop, SoundRun
  <2> HIDE DEF next
  <2> QED
    BY <1>1, <1>p, <1>q, <2>1, <2>2 DEF SideTypes
<1>7. CASE Start(e)
  <2>1. /\ Proceed(e, "set") /\ UNCHANGED <<facts, boundary, queue, online>>
        /\ recorder' = [recorder EXCEPT ![rec] = IF @ = "off" THEN exec[e].want ELSE @]
    BY <1>1, <1>2, <1>7 DEF Start, Step
  <2>2. MayProceed(e, "set")
    BY <1>1, <1>7, <2>1 DEF MayProceed, Pcs, Start, SoundRun
  <2>3. CASE recorder[rec] # "off"
    BY <1>1, <1>7, <1>p, <1>q, <2>1, <2>2, <2>3 DEF SideTypes, Start
  <2>4. CASE recorder[rec] = "off"
    <3>1. /\ OneRun' /\ BoundaryHeld' /\ \A f \in Executor : Busy(f)' <=> f = e
          /\ exec'[e].pc = "set" /\ exec'[e].task = exec[e].task
      BY <1>b, <1>q, <2>1, <2>2, ProceedKeeps
    <3>2. Evaluate(policy)' = Evaluate(policy) /\ rec' = rec
      BY <2>1, SameEvaluate
    <3>3. recorder'[rec] = exec[e].want /\ \A p \in Profile \ {rec} : recorder'[p] = recorder[p]
      BY <1>1, <2>1, <2>4 DEF SideTypes
    <3>4. ModeTold'
      BY <1>1, <2>1, <3>2, <3>3 DEF ModeTold, SoundRun, ManualQueued
    <3>5. ProfileTold => ProfileTold'
      BY <1>1, <2>1, <3>1, <3>2, <3>3 DEF ProfileTold, Prev
    <3> QED
      BY <3>1, <3>4, <3>5 DEF CalmKept
  <2> QED
    BY <2>3, <2>4
\* Closing a stream ends its recorder.
<1>c. ASSUME Close(CloseAfter(e)), EndExecution(e), exec[e].pc \in {"set", "swSet"}
      PROVE  CalmKept
  <2>1. OneRun' /\ BoundaryHeld'
    BY <1>b, <1>c, EndKeeps
  <2>2. /\ \A p \in Profile : recorder'[p] \in {"off", recorder[p]}
        /\ Prev(e) \in Profile => recorder'[Prev(e)] = "off"
    BY <1>c, RecorderConstants DEF Close, CloseAfter
  <2>3. UNCHANGED <<facts, queue>>
    BY <1>c DEF EndExecution
  <2> QED
    BY <1>1, <1>c, <2>1, <2>2, <2>3, EndTold DEF CalmKept
<1>8. CASE SetMode(e)
  BY <1>8, <1>c DEF SetMode
<1>9. CASE SwitchProfile(e)
  <2>1. \E next \in {"swStop", "swSet"} :
          Proceed(e, next) /\ Step /\ UNCHANGED <<media, tracker, queue, faults>>
    BY <1>2, <1>9 DEF SwitchProfile
  <2>2. PICK next \in {"swStop", "swSet"} :
          Proceed(e, next) /\ Step /\ UNCHANGED <<media, tracker, queue, faults>>
    BY <2>1
  <2>3. MayProceed(e, next) /\ UNCHANGED <<facts, boundary, queue, recorder>>
    BY <1>1, <1>9, <2>2 DEF MayProceed, Pcs, SwitchProfile, SoundRun, media, Prev, Step
  <2> QED
    BY <1>1, <1>9, <1>p, <1>q, <2>2, <2>3 DEF SwitchProfile
<1>10. CASE SwitchStop(e)
  <2>1. /\ Proceed(e, "swSet") /\ UNCHANGED <<facts, boundary, queue, online>>
        /\ recorder' = [recorder EXCEPT ![Prev(e)] = "off"]
    BY <1>10 DEF SwitchStop, Step
  <2>2. MayProceed(e, "swSet")
    BY <1>1, <1>10, <2>1 DEF MayProceed, Pcs, SwitchStop, SoundRun, Prev
  <2> QED
    BY <1>1, <1>10, <1>p, <1>q, <2>1, <2>2 DEF SideTypes, SwitchStop
<1>11. CASE SwitchSet(e)
  <2>1. CASE exec[e].want = "off"
    BY <1>11, <1>c, <2>1 DEF SwitchSet
  <2>2. CASE exec[e].want # "off"
    <3> DEFINE next == IF recorder[exec[e].prof] = "off" THEN "start" ELSE "set"
    <3>1. Proceed(e, next) /\ UNCHANGED <<facts, boundary, queue, online, recorder>>
      BY <1>11, <2>2 DEF SwitchSet, Step, media
    <3>2. MayProceed(e, next)
      BY <1>1, <1>11, <2>2, <3>1 DEF MayProceed, Pcs, SwitchSet, SoundRun
    <3> HIDE DEF next
    <3> QED
      BY <1>1, <1>11, <1>p, <1>q, <3>1, <3>2 DEF SwitchSet
  <2> QED
    BY <2>1, <2>2
<1> QED
  BY <1>3, <1>4, <1>5, <1>6, <1>7, <1>8, <1>9, <1>10, <1>11 DEF Execute

\* The changes of facts that push one task of kind "runtime" and leave the
\* policy, the executions and ZLMediaKit alone.
LEMMA PushCalm ==
  ASSUME SideTypes, WorkTypes, OneRun, BoundaryHeld, Quiet,
         NEW t \in Tasks, t.kind = "runtime", t.prev = NoProfile \/ ~t.force,
         queue' = Append(queue, t), UNCHANGED <<boundary, exec, policy>>
  PROVE  OneRun' /\ BoundaryHeld'
  BY QuietKeeps, PushKeeps DEF SoundTask

LEMMA FactsCalm ==
  ASSUME SideTypes, WorkTypes, calm, OneRun, BoundaryHeld, Facts
  PROVE  CalmKept
<1> USE DEF Change, facts, media, pending, budget
<1>q. Quiet
  BY DEF Facts, PutPolicy, SetCameraEnabled, RetireCamera, CreateTrigger, RepeatTrigger,
         StopTrigger, ReplaceRecordBinding, RefreshStreams, ChangeTarget, CapacityChanges,
         WindowBoundary, MayStart, Quiet
<1>f. ~ForcedRun /\ ~ \E e \in Executor : Busy(e)
  BY <1>q DEF Quiet, Busy, ForcedRun
<1>t. /\ \A f, restart \in BOOLEAN, prev \in Profiles :
            /\ Task(f, prev, restart) \in Tasks
            /\ Task(f, prev, restart).kind = "runtime"
            /\ Task(f, prev, restart).force = f /\ Task(f, prev, restart).prev = prev
      /\ NoProfile \in Profiles /\ Profile \subseteq Profiles
  BY TaskType DEF Task
<1>a. \A t \in Tasks : InQueue(Append(queue, t)) = InQueue(queue) \union {t}
  BY QueueAppend DEF WorkTypes
<1>1. ASSUME NEW p \in Policies, PutPolicy(p) PROVE CalmKept
  <2> DEFINE x == [Idle EXCEPT !.pc = IF Evaluate(p) # "off" THEN "ensure" ELSE "read",
                               !.want = Evaluate(p), !.prof = rec,
                               !.task = Task(ForcePolicy(p), NoProfile, FALSE)]
             old == [e \in Executor |-> [exec[e] EXCEPT !.task.kind = Superseded(p, @)]]
  <2>1. InQueue(queue') = {[t EXCEPT !.kind = Superseded(p, @)] : t \in InQueue(queue)}
    BY <1>1, QueueSupersede DEF PutPolicy, WorkTypes
  <2>2. \A t \in InQueue(queue) : t \in Tasks
    BY DEF InQueue, WorkTypes
  <2>3. \A t \in InQueue(queue) :
          LET s == [t EXCEPT !.kind = Superseded(p, @)]
          IN /\ s \in InQueue(queue') /\ s.force = t.force /\ s.prev = t.prev
             /\ s.kind = Superseded(p, t.kind)
    BY <2>1, <2>2 DEF Tasks
  <2>4. \A s \in InQueue(queue') : \E t \in InQueue(queue) :
             s.force = t.force /\ s.prev = t.prev /\ s.kind = Superseded(p, t.kind)
    BY <2>1, <2>2 DEF Tasks
  <2>5. /\ exec' = [old EXCEPT !["api"] = x] /\ "api" \in Executor /\ policy' = p /\ rec' = rec
    BY <1>1 DEF PutPolicy, Executor
  <2>6. /\ x.pc \in {"ensure", "read"} /\ (x.want # "off" => x.pc = "ensure")
        /\ x.want = Evaluate(p) /\ x.prof = rec
        /\ x.task.kind = "runtime" /\ x.task.force = (p # policy) /\ x.task.prev = NoProfile
    <3>1. /\ x.pc = (IF Evaluate(p) # "off" THEN "ensure" ELSE "read") /\ x.want = Evaluate(p)
          /\ x.prof = rec /\ x.task = Task(ForcePolicy(p), NoProfile, FALSE)
      BY DEF Idle
    <3> QED
      BY <3>1 DEF Task, ForcePolicy
  <2>7. \A e \in Executor : old[e].pc = exec[e].pc /\ old[e].task.kind = "runtime"
    <3>1. \A e \in Executor : exec[e] \in Executions /\ exec[e].task.kind = "runtime"
      BY <1>q DEF WorkTypes, OneRun, Quiet
    <3> QED
      BY <3>1 DEF Executions, Tasks, Superseded
  <2> HIDE DEF x, old
  <2>8. exec'["api"] = x /\ \A e \in Executor : e # "api" => exec'[e] = old[e]
    <3>1. DOMAIN old = Executor
      BY DEF old
    <3> QED
      BY <2>5, <3>1
  <2>9. \A e \in Executor : Busy(e)' <=> e = "api"
    BY <1>q, <2>6, <2>7, <2>8 DEF Quiet, Busy
  <2>10. Evaluate(policy)' = Evaluate(p)
    BY <1>1 DEF PutPolicy, Evaluate, Baseline
  <2>11. SoundRun(exec["api"])'
    BY <2>5, <2>6, <2>8, <2>10 DEF SoundRun
  <2>12. OneRun'
    BY <2>7, <2>8, <2>9, <2>11 DEF OneRun
  <2>13. \A e \in Executor : exec'[e].task.kind = "runtime" /\ exec[e].task.kind = "runtime"
    BY <1>q, <2>6, <2>7, <2>8 DEF OneRun, Quiet
  <2>14. \A t \in InQueue(queue') : SoundTask(t)
    BY <2>4 DEF BoundaryHeld, SoundTask, Superseded
  <2>15. CurrentHeld' <=> \/ p = policy /\ CurrentHeld
                          \/ p.enabled /\ p.baseline = "schedule"
    <3>1. "current" \in boundary' <=> \/ p = policy /\ "current" \in boundary
                                      \/ p.enabled /\ p.baseline = "schedule"
      BY <1>1 DEF PutPolicy, Superseded
    <3>2. (\E t \in InQueue(queue') : t.kind = "current")
            <=> p = policy /\ \E t \in InQueue(queue) : t.kind = "current"
      BY <2>3, <2>4 DEF Superseded
    <3> QED
      BY <2>13, <3>1, <3>2 DEF CurrentHeld
  <2>16. BoundaryHeld'
    BY <2>5, <2>14, <2>15 DEF BoundaryHeld
  <2>17. ModeTold => ModeTold'
    <3>1. CASE p # policy
      <4>1. ForcedRun'
        BY <2>5, <2>6, <2>8, <3>1 DEF ForcedRun
      <4> QED
        BY <4>1 DEF ModeTold
    <3>2. CASE p = policy
      <4>1. (RealQueued => RealQueued') /\ (ManualQueued => ManualQueued')
        BY <2>3, <3>2 DEF RealQueued, ManualQueued, Real, Superseded
      <4>2. recorder' = recorder /\ Evaluate(policy)' = Evaluate(policy)
        BY <1>1, <2>10, <3>2 DEF PutPolicy
      <4> QED
        BY <1>f, <2>5, <4>1, <4>2 DEF ModeTold
    <3> QED
      BY <3>1, <3>2
  <2>18. ProfileTold => ProfileTold'
    <3>1. \A t \in InQueue(queue) : \E s \in InQueue(queue') : s.prev = t.prev
      BY <2>3
    <3>2. recorder' = recorder /\ rec' = rec
      BY <1>1 DEF PutPolicy
    <3> QED
      BY <1>f, <3>1, <3>2 DEF ProfileTold
  <2> QED
    BY <2>12, <2>16, <2>17, <2>18 DEF CalmKept
<1>2. ASSUME NEW b \in BOOLEAN, SetCameraEnabled(b) PROVE CalmKept
  <2>1. Task(FALSE, NoProfile, FALSE) \in Tasks /\ UNCHANGED <<exec, recorder, rec>>
    BY <1>2, <1>t DEF SetCameraEnabled
  <2>2. OneRun' /\ BoundaryHeld'
    BY <1>2, <1>q, <1>t, <2>1, PushCalm DEF SetCameraEnabled, Enqueue
  <2>3. CASE b = TRUE
    <3>1. ~hasty' => \A p \in Profile : recorder'[p] = "off"
      BY <1>2, <2>3 DEF SetCameraEnabled
    <3> QED
      BY <2>1, <2>2, <3>1 DEF CalmKept, ModeTold, ProfileTold, SideTypes
  <2>4. CASE b = FALSE
    <3>1. Evaluate(policy)' = "off"
      BY <1>2, <2>4 DEF SetCameraEnabled, Evaluate
    <3> QED
      BY <1>2, <2>1, <2>2, <3>1, StillTold DEF CalmKept, SetCameraEnabled, Enqueue
  <2> QED
    BY <2>3, <2>4
<1>3. CASE RetireCamera
  <2>1. Task(FALSE, NoProfile, FALSE) \in Tasks /\ UNCHANGED <<exec, recorder, rec>>
    BY <1>3, <1>t DEF RetireCamera
  <2>2. OneRun' /\ BoundaryHeld'
    BY <1>3, <1>q, <1>t, <2>1, PushCalm DEF RetireCamera, Enqueue
  <2>3. Evaluate(policy)' = "off"
    BY <1>3 DEF RetireCamera, Evaluate
  <2> QED
    BY <1>3, <2>1, <2>2, <2>3, StillTold DEF CalmKept, RetireCamera, Enqueue
<1>4. ASSUME NEW b \in BOOLEAN, CreateTrigger(b) PROVE CalmKept
  <2> DEFINE t == Task(TriggerForce, NoProfile, FALSE)
  <2>1. /\ t \in Tasks /\ t.kind = "runtime" /\ t.prev = NoProfile
        /\ t.force = TriggerForce
    BY <1>t DEF TriggerForce
  <2>2. queue' = Append(queue, t) /\ UNCHANGED <<exec, recorder, rec, policy, boundary>>
    BY <1>4 DEF CreateTrigger, Enqueue
  <2> HIDE DEF t
  <2>3. OneRun' /\ BoundaryHeld'
    BY <1>q, <2>1, <2>2, PushCalm
  <2>4. CASE Evaluate(policy)' = Evaluate(policy)
    BY <2>1, <2>2, <2>3, <2>4, StillTold DEF CalmKept
  <2>5. CASE Evaluate(policy)' # Evaluate(policy)
    <3>1. TriggerForce /\ Evaluate(policy)' = "persistent"
      BY <1>4, <2>5 DEF CreateTrigger, Evaluate, Baseline, TriggerForce, SideTypes
    <3>2. t \in InQueue(queue')
      BY <1>a, <2>1, <2>2
    <3>3. ModeTold'
      BY <2>1, <3>1, <3>2 DEF ModeTold, RealQueued, Real
    <3>4. ProfileTold => ProfileTold'
      BY <1>a, <2>1, <2>2 DEF ProfileTold, Busy, Prev
    <3> QED
      BY <2>3, <3>3, <3>4 DEF CalmKept
  <2> QED
    BY <2>4, <2>5
<1>5. CASE RepeatTrigger \/ StopTrigger
  <2>1. Task(FALSE, NoProfile, FALSE) \in Tasks /\ UNCHANGED <<exec, recorder, rec, boundary, policy>>
        /\ queue' = Append(queue, Task(FALSE, NoProfile, FALSE))
    BY <1>5, <1>t DEF RepeatTrigger, StopTrigger, Enqueue
  <2>2. OneRun' /\ BoundaryHeld'
    BY <1>q, <1>t, <2>1, PushCalm
  <2>3. Evaluate(policy)' = Evaluate(policy)
    <3>1. CASE RepeatTrigger
      BY <3>1, SameEvaluate DEF RepeatTrigger
    <3>2. CASE StopTrigger
      BY <3>2 DEF StopTrigger, Evaluate, Baseline
    <3> QED
      BY <1>5, <3>1, <3>2
  <2> QED
    BY <2>1, <2>2, <2>3, StillTold DEF CalmKept
<1>6. CASE RefreshStreams \/ ChangeTarget
  <2>1. PICK t \in {Task(FALSE, NoProfile, TRUE), Task(TRUE, NoProfile, FALSE)} :
          queue' = Append(queue, t)
    BY <1>6 DEF RefreshStreams, ChangeTarget, Enqueue
  <2>2. t \in Tasks /\ t.kind = "runtime" /\ t.prev = NoProfile
    <3>1. CASE t = Task(FALSE, NoProfile, TRUE)
      BY <1>t, <3>1
    <3>2. CASE t = Task(TRUE, NoProfile, FALSE)
      BY <1>t, <3>2
    <3> QED
      BY <2>1, <3>1, <3>2
  <2>3. UNCHANGED <<exec, recorder, rec, boundary, policy>> /\ UNCHANGED facts
    BY <1>6 DEF RefreshStreams, ChangeTarget
  <2>4. OneRun' /\ BoundaryHeld'
    BY <1>q, <2>1, <2>2, <2>3, PushCalm
  <2> QED
    BY <2>1, <2>2, <2>3, <2>4, SameEvaluate, StillTold DEF CalmKept
<1>7. ASSUME NEW p \in Profile, ReplaceRecordBinding(p) PROVE CalmKept
  <2> DEFINE t == Task(FALSE, rec, FALSE)
  <2>1. t \in Tasks /\ t.kind = "runtime" /\ t.prev = rec /\ t.force = FALSE
    BY <1>t DEF SideTypes
  <2>2. queue' = Append(queue, t) /\ UNCHANGED <<exec, recorder, policy, boundary>> /\ rec' = p
    BY <1>7 DEF ReplaceRecordBinding, Enqueue
  <2> HIDE DEF t
  <2>3. OneRun' /\ BoundaryHeld'
    BY <1>q, <2>1, <2>2, PushCalm
  <2>4. ~hasty' => recorder'[p] = "off"
    BY <1>7 DEF ReplaceRecordBinding
  <2>5. ProfileTold => ProfileTold'
    BY <1>a, <2>1, <2>2 DEF ProfileTold, Busy, Prev
  <2> QED
    BY <2>2, <2>3, <2>4, <2>5 DEF CalmKept, ModeTold
<1>8. CASE CapacityChanges
  <2>1. UNCHANGED <<exec, recorder, rec, queue, boundary, policy>>
    BY <1>8 DEF CapacityChanges
  <2>2. Evaluate(policy)' = Evaluate(policy)
    BY <1>8 DEF CapacityChanges, Evaluate, Baseline
  <2>3. OneRun' /\ BoundaryHeld'
    BY <1>q, <2>1, QuietKeeps DEF BoundaryHeld, CurrentHeld, SoundTask
  <2> QED
    BY <1>t, <2>1, <2>2, <2>3, StillTold DEF CalmKept
<1>9. CASE WindowBoundary
  <2>1. /\ UNCHANGED <<exec, recorder, rec, policy, camera, manual>> /\ boundary' = {}
        /\ policy.baseline = "schedule" /\ inWindow' = ~inWindow
    BY <1>9 DEF WindowBoundary
  <2>2. /\ Due("stale") \in Seq(Tasks) /\ Due("current") \in Seq(Tasks)
        /\ InQueue(Due("stale")) \subseteq {Boundary("stale")}
        /\ InQueue(Due("current")) = IF "current" \in boundary THEN {Boundary("current")} ELSE {}
    BY TaskType, QueueOne DEF Due
  <2>3. /\ queue \o Due("stale") \in Seq(Tasks)
        /\ InQueue(queue \o Due("stale")) = InQueue(queue) \union InQueue(Due("stale"))
    BY <2>2, QueueConcat DEF WorkTypes
  <2>4. InQueue(queue') = InQueue(queue) \union InQueue(Due("stale")) \union InQueue(Due("current"))
    <3> DEFINE q == queue \o Due("stale")
    <3>1. queue' = q \o Due("current")
      BY <1>9 DEF WindowBoundary
    <3>2. q \in Seq(Tasks) /\ InQueue(q) = InQueue(queue) \union InQueue(Due("stale"))
      BY <2>3
    <3> HIDE DEF q
    <3>3. InQueue(q \o Due("current")) = InQueue(q) \union InQueue(Due("current"))
      BY <2>2, <3>2, QueueConcat
    <3> QED
      BY <3>1, <3>2, <3>3
  <2>5. \A k \in {"stale", "current"} :
          Boundary(k).kind = k /\ Boundary(k).force /\ Boundary(k).prev = NoProfile
    BY DEF Boundary, Task
  <2>6. CurrentHeld' <=> CurrentHeld
    BY <2>1, <2>2, <2>4, <2>5 DEF CurrentHeld
  <2>7. OneRun' /\ BoundaryHeld'
    <3>1. \A t \in InQueue(queue') : SoundTask(t)
      BY <2>2, <2>4, <2>5 DEF BoundaryHeld, SoundTask
    <3> QED
      BY <1>q, <2>1, <2>6, <3>1, QuietKeeps DEF BoundaryHeld
  <2>8. policy.enabled => RealQueued'
    <3>1. policy.enabled => \E t \in InQueue(queue') : t.kind = "current"
      BY <1>9, <2>1, <2>6 DEF BoundaryHeld, CurrentHeld, WindowBoundary
    <3> QED
      BY <2>7, <3>1 DEF RealQueued, Real, BoundaryHeld, SoundTask
  <2>9. ModeTold'
    BY <2>1, <2>8 DEF ModeTold, Evaluate
  <2>10. ProfileTold => ProfileTold'
    BY <2>1, <2>4 DEF ProfileTold, Busy, Prev
  <2> QED
    BY <2>7, <2>9, <2>10 DEF CalmKept
<1> QED
  BY <1>1, <1>2, <1>3, <1>4, <1>5, <1>6, <1>7, <1>8, <1>9 DEF Facts

LEMMA QueueCalm ==
  ASSUME SideTypes, WorkTypes, calm, OneRun, BoundaryHeld,
         PostRollEnds \/ CapacityGuard \/ \E w \in Worker : StartTask(w)
  PROVE  CalmKept
<1> USE DEF facts, media, pending, budget
<1>t. /\ \A f \in BOOLEAN :
            /\ Task(f, NoProfile, FALSE) \in Tasks /\ Task(f, NoProfile, FALSE).kind = "runtime"
            /\ Task(f, NoProfile, FALSE).force = f /\ Task(f, NoProfile, FALSE).prev = NoProfile
      /\ Boundary("manual") \in Tasks /\ Boundary("manual").kind = "manual"
      /\ Boundary("manual").force /\ Boundary("manual").prev = NoProfile
  BY TaskType DEF Task, Boundary, Profiles
<1>1. CASE PostRollEnds
  <2>1. /\ queue' = Append(queue, Boundary("manual")) /\ UNCHANGED <<boundary, exec, policy, recorder, rec, online>>
        /\ manual = "ending"
    BY <1>1 DEF PostRollEnds, Enqueue
  <2>2. BoundaryHeld'
    BY <1>t, <2>1, PushKeeps DEF SoundTask
  <2>3. InQueue(queue') = InQueue(queue) \union {Boundary("manual")} /\ ManualQueued'
    <3>1. InQueue(queue') = InQueue(queue) \union {Boundary("manual")}
      BY <1>t, <2>1, QueueAppend DEF WorkTypes
    <3> QED
      BY <1>t, <3>1 DEF ManualQueued
  <2>4. /\ Evaluate(policy) # "prebuffer"
        /\ Evaluate(policy)' = "persistent" => Evaluate(policy) = "persistent"
    BY <1>1 DEF PostRollEnds, Evaluate, Baseline
  <2>5. OneRun'
    BY <2>1, <2>3, <2>4 DEF OneRun, SoundRun, Busy
  <2>6. ModeTold => ModeTold'
    BY <2>1, <2>3, <2>4 DEF ModeTold, RealQueued, ForcedRun
  <2>7. ProfileTold => ProfileTold'
    BY <2>1, <2>3 DEF ProfileTold, Busy, Prev
  <2> QED
    BY <2>2, <2>5, <2>6, <2>7 DEF CalmKept
<1>2. CASE CapacityGuard
  <2> DEFINE t == Task(FALSE, NoProfile, FALSE)
  <2>1. /\ queue' = Append(queue, t) /\ UNCHANGED <<facts, boundary, exec, policy, recorder, rec, online>>
        /\ t \in Tasks /\ t.kind = "runtime" /\ t.prev = NoProfile
    BY <1>t, <1>2 DEF CapacityGuard, Enqueue
  <2> HIDE DEF t
  <2>2. BoundaryHeld'
    BY <2>1, PushKeeps DEF SoundTask
  <2>3. InQueue(queue') = InQueue(queue) \union {t}
    BY <2>1, QueueAppend DEF WorkTypes
  <2>4. Evaluate(policy)' = Evaluate(policy)
    BY <2>1, SameEvaluate
  <2>5. OneRun'
    BY <2>1, <2>3, <2>4 DEF OneRun, SoundRun, Busy, ManualQueued
  <2> QED
    BY <2>1, <2>2, <2>4, <2>5, StillTold DEF CalmKept
<1>3. ASSUME NEW w \in Worker, ReconcileCameraRuntime(w) PROVE CalmKept
  <2> DEFINE t == [Head(queue) EXCEPT !.prev = IF @ = rec THEN NoProfile ELSE @]
  <2>1. /\ Quiet /\ queue # <<>> /\ queue' = Tail(queue) /\ Head(queue).kind = "runtime"
        /\ UNCHANGED <<facts, boundary, recorder>> /\ Begin(w, t) /\ w \in Executor
    BY <1>3 DEF ReconcileCameraRuntime, Take, MayStart, Quiet, Executor
  <2>2. Head(queue) \in Tasks /\ rec # NoProfile
    BY <2>1, QueueTake, RecorderConstants DEF WorkTypes, SideTypes
  <2>3. /\ t \in Tasks /\ t.kind = "runtime" /\ t.force = Head(queue).force
        /\ t.prev = IF Head(queue).prev = rec THEN NoProfile ELSE Head(queue).prev
    BY <2>1, <2>2 DEF Tasks, Profiles
  <2> HIDE DEF t
  <2>4. /\ OneRun' /\ BoundaryHeld'
        /\ exec'[w].task = t /\ exec'[w].pc \in {"ensure", "read"}
    BY <2>1, <2>2, <2>3, BeginKeeps
  <2> QED
    BY <2>1, <2>3, <2>4, TakeTold DEF CalmKept
<1>4. ASSUME NEW w \in Worker, ManualBoundary(w) PROVE CalmKept
  <2> DEFINE t == Task(Desired # "persistent", NoProfile, FALSE)
  <2>1. /\ Quiet /\ queue # <<>> /\ queue' = Append(Tail(queue), t) /\ Head(queue).kind = "manual"
        /\ UNCHANGED <<facts, boundary, recorder, exec>>
    BY <1>4 DEF ManualBoundary, MayStart, Quiet
  <2>2. t \in Tasks /\ t.kind = "runtime" /\ t.prev = NoProfile /\ t.force = (Desired # "persistent")
    BY <1>t
  <2> HIDE DEF t
  <2>3. /\ Head(queue) \in Tasks /\ Tail(queue) \in Seq(Tasks)
        /\ InQueue(queue) = InQueue(Tail(queue)) \union {Head(queue)}
    BY <2>1, QueueTake DEF WorkTypes
  <2>4. InQueue(queue') = InQueue(Tail(queue)) \union {t}
    <3> DEFINE q == Tail(queue)
    <3>1. q \in Seq(Tasks) /\ queue' = Append(q, t)
      BY <2>1, <2>3
    <3> HIDE DEF q
    <3>2. InQueue(Append(q, t)) = InQueue(q) \union {t}
      BY <2>2, <3>1, QueueAppend
    <3> QED
      BY <3>1, <3>2 DEF q
  <2>5. Evaluate(policy)' = Evaluate(policy) /\ rec' = rec /\ policy' = policy
    BY <2>1, SameEvaluate
  <2>6. OneRun' /\ Quiet'
    BY <2>1, QuietKeeps
  <2>7. CurrentHeld' <=> CurrentHeld
    BY <2>1, <2>2, <2>3, <2>4 DEF CurrentHeld
  <2>8. BoundaryHeld'
    BY <2>2, <2>3, <2>4, <2>5, <2>7 DEF BoundaryHeld, SoundTask
  <2>9. RealQueued => RealQueued'
    BY <2>1, <2>3, <2>4 DEF RealQueued, Real
  <2>10. Evaluate(policy) = "prebuffer" => RealQueued'
    BY <2>2, <2>4 DEF RealQueued, Real, Desired
  <2>11. ModeTold => ModeTold'
    BY <2>1, <2>5, <2>9, <2>10 DEF ModeTold, ForcedRun, Quiet, Busy
  <2>12. Head(queue).prev = NoProfile
    BY <2>1, <2>3 DEF BoundaryHeld, SoundTask
  <2>13. ProfileTold => ProfileTold'
    BY <2>1, <2>3, <2>4, <2>5, <2>12, RecorderConstants DEF ProfileTold, Busy, Prev
  <2> QED
    BY <2>6, <2>8, <2>11, <2>13 DEF CalmKept
<1>5. ASSUME NEW w \in Worker, PolicyBoundary(w) PROVE CalmKept
  <2>1. /\ Quiet /\ queue # <<>> /\ queue' = Tail(queue) /\ Head(queue).kind \in {"current", "stale"}
        /\ UNCHANGED <<facts, boundary, recorder>> /\ w \in Executor
    BY <1>5 DEF PolicyBoundary, Take, MayStart, Quiet, Executor
  <2>2. Head(queue) \in Tasks /\ InQueue(queue) = InQueue(queue') \union {Head(queue)}
    BY <2>1, QueueTake DEF WorkTypes
  <2>3. Head(queue).prev = NoProfile /\ SoundTask(Head(queue))
    BY <2>1, <2>2 DEF BoundaryHeld, SoundTask
  <2>4. CASE Begin(w, Head(queue)) /\ Head(queue).kind = "current"
    <3>1. rec # NoProfile
      BY RecorderConstants DEF SideTypes
    <3>2. /\ OneRun' /\ BoundaryHeld'
          /\ exec'[w].task = Head(queue) /\ exec'[w].pc \in {"ensure", "read"}
      BY <2>1, <2>2, <2>3, <2>4, <3>1, BeginKeeps
    <3> QED
      BY <2>1, <2>3, <2>4, <3>1, <3>2, TakeTold DEF CalmKept
  <2>5. CASE UNCHANGED exec /\ (Head(queue).kind = "stale" \/ ~policy.enabled)
    <3>1. OneRun' /\ Quiet'
      BY <2>1, <2>5, QuietKeeps
    <3>2. Evaluate(policy)' = Evaluate(policy) /\ rec' = rec /\ policy' = policy
      BY <2>1, SameEvaluate
    <3>3. BoundaryHeld'
      BY <2>1, <2>2, <2>5, <3>2 DEF BoundaryHeld, CurrentHeld, SoundTask
    <3>4. ModeTold => ModeTold'
      <4>1. CASE ~policy.enabled
        BY <3>2, <4>1 DEF ModeTold, Evaluate
      <4>2. CASE Head(queue).kind = "stale"
        BY <2>1, <2>2, <2>5, <3>2, <4>2
           DEF ModeTold, RealQueued, Real, ManualQueued, ForcedRun
      <4> QED
        BY <2>5, <4>1, <4>2
    <3>5. ProfileTold => ProfileTold'
      BY <2>1, <2>2, <2>3, <2>5, <3>2, RecorderConstants DEF ProfileTold, Busy, Prev
    <3> QED
      BY <3>1, <3>3, <3>4, <3>5 DEF CalmKept
  <2> QED
    <3>1. Head(queue).kind = "current" => policy.baseline = "schedule"
      BY <2>2 DEF BoundaryHeld, CurrentHeld
    <3> QED
      BY <1>5, <2>4, <2>5, <3>1 DEF PolicyBoundary, Take
<1> QED
  BY <1>1, <1>2, <1>3, <1>4, <1>5 DEF StartTask

LEMMA RestartCalm ==
  ASSUME SideTypes, WorkTypes, calm, OneRun, BoundaryHeld,
         NEW x \in {"api", "worker"}, Restart(x)
  PROVE  CalmKept
<1> DEFINE t == Task(FALSE, NoProfile, FALSE)
<1>t. t \in Tasks /\ t.kind = "runtime" /\ t.prev = NoProfile
  BY TaskType DEF Task
<1>1. /\ Quiet /\ UNCHANGED <<facts, boundary, recorder>>
      /\ queue' = Append(queue, t) \/ queue' = queue
      /\ \A e \in Executor : exec'[e] \in {Idle, exec[e]}
  BY DEF Restart, Quiet, MayStart, media, Enqueue
<1> HIDE DEF t
<1>2. InQueue(Append(queue, t)) = InQueue(queue) \union {t}
  BY <1>t, QueueAppend DEF WorkTypes
<1>3. InQueue(queue') = InQueue(queue) \/ InQueue(queue') = InQueue(queue) \union {t}
  BY <1>1, <1>2
<1>4. Evaluate(policy)' = Evaluate(policy) /\ rec' = rec /\ policy' = policy
  BY <1>1, SameEvaluate
<1>5. \A e \in Executor : /\ ~Busy(e) /\ ~Busy(e)'
                          /\ exec[e].task.kind = "runtime" /\ exec'[e].task.kind = "runtime"
  BY <1>1, TaskType DEF Quiet, Busy, OneRun
<1>6. OneRun'
  BY <1>5 DEF OneRun
<1>7. BoundaryHeld'
  BY <1>t, <1>1, <1>3, <1>4, <1>5 DEF BoundaryHeld, CurrentHeld, SoundTask
<1>8. ModeTold => ModeTold'
  BY <1>1, <1>3, <1>4, <1>5 DEF ModeTold, RealQueued, ManualQueued, ForcedRun, Busy
<1>9. ProfileTold => ProfileTold'
  BY <1>1, <1>3, <1>4, <1>5 DEF ProfileTold
<1> QED
  BY <1>6, <1>7, <1>8, <1>9 DEF CalmKept

LEMMA RecorderStep == RecorderIInv /\ [RecorderNext]_recorderVars => RecorderIInv'
<1> SUFFICES ASSUME RecorderIInv, [RecorderNext]_recorderVars PROVE RecorderIInv'
  OBVIOUS
<1>1. CASE RecorderNext
  <2>1. SideTypes' /\ WorkTypes'
    BY <1>1, SideTypesStep, WorkTypesStep DEF RecorderIInv
  <2>2. calm' = calm /\ (hasty => hasty')
    <3>a. CASE \/ \E p \in Policies : PutPolicy(p)
               \/ RetireCamera \/ \E b \in BOOLEAN : CreateTrigger(b)
      <4>1. calm' = calm /\ hasty' = hasty
        BY <3>a DEF PutPolicy, RetireCamera, CreateTrigger, Change
      <4> QED
        BY <4>1
    <3>b. CASE \/ RepeatTrigger \/ StopTrigger \/ RefreshStreams \/ ChangeTarget
               \/ CapacityChanges \/ WindowBoundary
      <4>1. calm' = calm /\ hasty' = hasty
        BY <3>b DEF RepeatTrigger, StopTrigger, RefreshStreams, ChangeTarget,
           CapacityChanges, WindowBoundary, Change
      <4> QED
        BY <4>1
    <3>c. ASSUME NEW b \in BOOLEAN, SetCameraEnabled(b) PROVE calm' = calm /\ (hasty => hasty')
      BY <3>c DEF SetCameraEnabled, Change
    <3>d. ASSUME NEW p \in Profile, ReplaceRecordBinding(p)
          PROVE  calm' = calm /\ (hasty => hasty')
      BY <3>d DEF ReplaceRecordBinding, Change
    <3>1. CASE Facts
      BY <3>1, <3>a, <3>b, <3>c, <3>d DEF Facts
    <3>2. ASSUME NEW w \in Worker, StartTask(w) PROVE calm' = calm /\ hasty' = hasty
      BY <3>2 DEF StartTask, ReconcileCameraRuntime, ManualBoundary, PolicyBoundary, Take
    <3>3. ASSUME NEW e \in Executor, Execute(e) PROVE calm' = calm /\ hasty' = hasty
      BY <3>3 DEF Execute, EnsureStreams, ReadKnownMode, Observe, Stop, Start, SetMode,
         SwitchProfile, SwitchStop, SwitchSet, Fail, EndExecution, Step
    <3>4. ASSUME NEW e \in Executor, RefusedCall(e) PROVE calm' = calm /\ hasty' = hasty
      BY <3>4 DEF RefusedCall, Fail
    <3>5. CASE \/ PostRollEnds \/ CapacityGuard \/ ServerStarted
               \/ \E p \in Profile : StreamDrops(p)
               \/ \E x \in {"api", "worker"} : Restart(x)
      <4>1. calm' = calm /\ hasty' = hasty
        BY <3>5 DEF PostRollEnds, CapacityGuard, ServerStarted, StreamDrops, Restart, Fault
      <4> QED
        BY <4>1
    <3> QED
      BY <1>1, <3>1, <3>2, <3>3, <3>4, <3>5 DEF RecorderNext
  <2>3. calm => CalmKept
    <3>1. SUFFICES ASSUME calm PROVE CalmKept
      OBVIOUS
    <3>2. SideTypes /\ WorkTypes /\ OneRun /\ BoundaryHeld
      BY <3>1 DEF RecorderIInv
    <3>3. ~ServerStarted /\ (\A p \in Profile : ~StreamDrops(p))
          /\ \A e \in Executor : ~RefusedCall(e)
      BY <3>1 DEF ServerStarted, StreamDrops, RefusedCall
    <3> QED
      BY <1>1, <3>1, <3>2, <3>3, FactsCalm, QueueCalm, ExecuteCalm, RestartCalm DEF RecorderNext
  <2> QED
    BY <2>1, <2>2, <2>3 DEF RecorderIInv, CalmKept
<1>2. CASE UNCHANGED recorderVars
  <2> USE DEF recorderVars, facts, media, pending, budget
  <2>1. SideTypes' /\ WorkTypes'
    BY <1>2 DEF RecorderIInv, SideTypes, WorkTypes, Busy
  <2>2. Evaluate(policy)' = Evaluate(policy)
    BY <1>2 DEF Evaluate, Baseline
  <2>3. calm => OneRun' /\ BoundaryHeld'
    BY <1>2, <2>2 DEF RecorderIInv, OneRun, BoundaryHeld, SoundRun, CurrentHeld, Busy,
                      ManualQueued, SoundTask
  <2>4. calm /\ ~hasty => ModeTold' /\ ProfileTold'
    BY <1>2, <2>2 DEF RecorderIInv, ModeTold, ProfileTold, RealQueued, ManualQueued,
                      ForcedRun, Busy, Prev
  <2> QED
    BY <1>2, <2>1, <2>3, <2>4 DEF RecorderIInv
<1> QED
  BY <1>1, <1>2

\* Whatever requests, tasks, calls and restarts there are, the recorders have
\* one of their modes and the queue, the tables and the executions are well
\* formed (recordings/runtime.py).
THEOREM RecorderTypes == RecorderSpec => []RecorderTypeOK
<1>1. RecorderIInv => RecorderTypeOK
  BY DEF RecorderIInv, SideTypes, WorkTypes, RecorderTypeOK
<1> QED
  BY <1>1, RecorderInitInv, RecorderStep, PTL DEF RecorderSpec

\* In a calm behaviour, for any profiles, policies, numbers of workers, changes
\* and restarts, a recorder in another mode than the facts ask for, or on a
\* profile RECORD is not bound to, is what a task in the queue or in execution
\* will put right (force_runtime_reconfigure, previous_record_profile_id).
THEOREM WrongRecorderIsTold == RecorderSpec => []WrongRecorderHasTask
<1>1. RecorderIInv => WrongRecorderHasTask
  <2> SUFFICES ASSUME RecorderIInv, calm, ~hasty PROVE WrongRecorderHasTask
    BY DEF WrongRecorderHasTask
  <2>1. /\ SideTypes /\ ModeTold /\ ProfileTold /\ BoundaryHeld /\ WorkTypes
        /\ recorder[rec] \in Modes /\ Evaluate(policy) \in Modes
    BY DEF RecorderIInv, SideTypes, Evaluate, Modes
  <2>2. RealQueued \/ ManualQueued => \E i \in DOMAIN queue : Tells(queue[i])
    BY <2>1 DEF RealQueued, ManualQueued, InQueue, Tells, Real, BoundaryHeld, SoundTask
  <2>3. ForcedRun => \E e \in Executor : Busy(e) /\ exec[e].task.force
    BY DEF ForcedRun, Busy
  <2>4. \/ recorder[rec] \in {"off", Evaluate(policy)} \/ Evaluate(policy) = "off"
        \/ \E i \in DOMAIN queue : Tells(queue[i])
        \/ \E e \in Executor : Busy(e) /\ exec[e].task.force
    BY <2>1, <2>2, <2>3 DEF ModeTold, Modes
  <2>5. \A p \in Profile \ {rec} :
          \/ recorder[p] = "off"
          \/ \E i \in DOMAIN queue : queue[i].prev = p
          \/ \E e \in Executor : Busy(e) /\ Prev(e) = p
    BY <2>1 DEF ProfileTold, InQueue
  <2> QED
    BY <2>4, <2>5 DEF WrongRecorderHasTask
<1> QED
  BY <1>1, RecorderInitInv, RecorderStep, PTL DEF RecorderSpec
=============================================================================

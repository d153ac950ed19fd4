------------------------ MODULE DispatchQueueProofs ------------------------
(***************************************************************************)
(* Proofs about DispatchQueue, and at the end about HistoryRecovery, for   *)
(* every set of generations and every value of the bounds.                 *)
(***************************************************************************)
EXTENDS HistoryRecovery, FiniteSetTheorems, TLAPS

-----------------------------------------------------------------------------
(* What the repository operations do to a row.                              *)

\* q is a row in the same submission state, with the same prompt ids, as r.
SameSubmission(r, q) == /\ q \in Row
                        /\ q.sub = r.sub
                        /\ q.gprompt = r.gprompt
                        /\ q.jprompt = r.jprompt

\* The operations that only move statuses, claims, leases and requests.
LEMMA QuietOperations ==
    ASSUME NEW r \in Row, NEW n \in Nat
    PROVE  /\ SameSubmission(r, r)
           /\ SameSubmission(r, Unclaimed(r))
           /\ SameSubmission(r, Claim(r, n))
           /\ SameSubmission(r, Renew(r))
           /\ SameSubmission(r, Release(r, n))
           /\ SameSubmission(r, RequestCancel(r))
           /\ SameSubmission(r, MarkCancelled(r))
           /\ SameSubmission(r, Complete(r))
           /\ SameSubmission(r, Fail(r))
           /\ SameSubmission(r, Progress(r))
           /\ SameSubmission(r, MarkMissing(r))
           /\ SameSubmission(r, FailAmbiguous(r))
           /\ SameSubmission(r, Drop(r))
           /\ SameSubmission(r, [r EXCEPT !.lease = "expired"])
<1>1. SameSubmission(r, r)
  BY DEF SameSubmission, Row
<1>2. SameSubmission(r, Unclaimed(r))
  BY DEF SameSubmission, Row, Unclaimed, Lease
<1>3. SameSubmission(r, Claim(r, n))
  BY DEF SameSubmission, Row, Claim, Lease
<1>4. SameSubmission(r, Renew(r))
  BY DEF SameSubmission, Row, Renew, Lease
<1>5. SameSubmission(r, Release(r, n))
  BY DEF SameSubmission, Row, Release, Unclaimed, Lease
<1>6. SameSubmission(r, RequestCancel(r))
  BY DEF SameSubmission, Row, RequestCancel
<1>7. SameSubmission(r, MarkCancelled(r))
  BY DEF SameSubmission, Row, MarkCancelled, Unclaimed, Both, Status, Terminal, Lease
<1>8. SameSubmission(r, Complete(r))
  BY DEF SameSubmission, Row, Complete, Both, Status, Terminal
<1>9. SameSubmission(r, Fail(r))
  BY DEF SameSubmission, Row, Fail, Both, Status, Terminal, Audit
<1>10. SameSubmission(r, Progress(r))
  BY DEF SameSubmission, Row, Progress, Both, Status, Active
<1>11. SameSubmission(r, MarkMissing(r))
  BY DEF SameSubmission, Row, MarkMissing, Unclaimed, Status, Terminal, Lease, Audit
<1>12. SameSubmission(r, FailAmbiguous(r))
  BY DEF SameSubmission, Row, FailAmbiguous, Unclaimed, Both, Status, Terminal, Lease, Audit
<1>13. SameSubmission(r, Drop(r))
  BY <1>1, <1>6, <1>7 DEF Drop
<1>14. SameSubmission(r, [r EXCEPT !.lease = "expired"])
  BY DEF SameSubmission, Row, Lease
<1> QED
  BY <1>1, <1>2, <1>3, <1>4, <1>5, <1>6, <1>7, <1>8, <1>9, <1>10, <1>11, <1>12, <1>13, <1>14

\* The operations that move the submission state.
LEMMA SubmissionOperations ==
    ASSUME NEW r \in Row, NEW p \in Prompt
    PROVE  /\ BeginSubmission(r) \in Row /\ BeginSubmission(r).sub = "submitting"
           /\ BeginSubmission(r).gprompt = r.gprompt /\ BeginSubmission(r).jprompt = r.jprompt
           /\ MarkSubmitted(r, p) \in Row /\ MarkSubmitted(r, p).sub = "submitted"
           /\ Quarantine(r) \in Row /\ Quarantine(r).sub = "ambiguous"
           /\ MarkMismatch(r) \in Row /\ MarkMismatch(r).sub = "ambiguous"
           /\ LinkPrompt(r, p) \in Row /\ LinkPrompt(r, p).sub = "submitted"
<1>1. BeginSubmission(r) \in Row /\ BeginSubmission(r).sub = "submitting"
      /\ BeginSubmission(r).gprompt = r.gprompt /\ BeginSubmission(r).jprompt = r.jprompt
  BY DEF Row, BeginSubmission, SubmissionState
<1>2. MarkSubmitted(r, p) \in Row /\ MarkSubmitted(r, p).sub = "submitted"
  BY DEF Row, MarkSubmitted, Both, Status, Active, SubmissionState
<1>3. Unclaimed(r) \in Row
  BY QuietOperations, 0 \in Nat DEF SameSubmission
<1>4. Quarantine(r) \in Row /\ Quarantine(r).sub = "ambiguous"
  BY <1>3 DEF Row, Quarantine, SubmissionState, Audit
<1>5. MarkMismatch(r) \in Row /\ MarkMismatch(r).sub = "ambiguous"
  BY <1>3 DEF Row, MarkMismatch, SubmissionState, Audit
<1>6. LinkPrompt(r, p) \in Row /\ LinkPrompt(r, p).sub = "submitted"
  BY DEF Row, LinkPrompt, Unclaimed, Both, Status, Active, SubmissionState, Lease, Audit
<1> QED
  BY <1>1, <1>2, <1>4, <1>5, <1>6

\* Reconciling an expired claim never leaves a row in "submitting".
LEMMA ReconcileOperation ==
    ASSUME NEW r \in Row
    PROVE  /\ ReconcileExpired(r) \in Row
           /\ r.sub = "submitting" => ReconcileExpired(r).sub = "ambiguous"
           /\ r.sub # "submitting" => SameSubmission(r, ReconcileExpired(r))
<1> DEFINE q == IF r.cancel /\ r.sub = "ready" /\ NoPrompts(r)
                     /\ r.gen = "pending" /\ r.job = "pending"
                THEN Both(r, "cancelled") ELSE r
<1>1. SameSubmission(r, q)
  BY DEF SameSubmission, Row, Both, Status, Terminal
<1>2. SameSubmission(q, Unclaimed(q))
  BY <1>1, QuietOperations, 0 \in Nat DEF SameSubmission
<1>3. ReconcileExpired(r) =
        [Unclaimed(q) EXCEPT !.sub = IF r.sub = "submitting" THEN "ambiguous" ELSE r.sub]
  BY DEF ReconcileExpired
<1> HIDE DEF q
<1> QED
  BY <1>1, <1>2, <1>3 DEF SameSubmission, Row, SubmissionState
-----------------------------------------------------------------------------
(* Types.                                                                   *)

\* Storing one well-typed row (the repository's update of one row) keeps
\* the table well typed.
LEMMA StoreType ==
    ASSUME row \in [Gen -> Row], NEW g, NEW q, g \in Gen => q \in Row, Store(g, q)
    PROVE  row' \in [Gen -> Row]
  BY DEF Store

\* Where the worker has an item, it is a generation.
ItemPc == Held \union {"cancelling", "stopping", "looking", "writing"}

HasItem == w.pc \in ItemPc => w.g \in Gen

Typed == TypeOK /\ HasItem

\* Each way the worker moves to its next await leaves it a well-typed worker.
LEMMA MoveTypes ==
    ASSUME w \in Worker
    PROVE  /\ \A label \in WorkerPc : Go(label) => w' \in Worker /\ w'.pc = label
           /\ \A act \in Act : WriteNext(act) => w' \in Worker
           /\ GoBack => w' \in Worker /\ w'.pc = w.back
           /\ Halt => w' \in Worker /\ w'.pc = "callback"
           /\ (\E label \in WorkerPc : Go(label)) \/ (\E act \in Act : WriteNext(act)) \/ GoBack
                => w'.g = w.g
<1>1. \A label \in WorkerPc : Go(label) => w' \in Worker /\ w'.pc = label /\ w'.g = w.g
  BY DEF Go, Worker
<1>2. \A act \in Act : WriteNext(act) => w' \in Worker /\ w'.g = w.g
  BY DEF WriteNext, Worker, WorkerPc
<1>3. GoBack => w' \in Worker /\ w'.pc = w.back /\ w'.g = w.g
  BY DEF GoBack, Worker, WorkerPc, Held, Act
<1>4. Halt => w' \in Worker /\ w'.pc = "callback"
  BY DEF Halt, Worker, WorkerPc
<1> QED
  BY <1>1, <1>2, <1>3, <1>4

\* Enqueueing numbers the new rows from nextSeq on.
LEMMA EnqueueType ==
    ASSUME TypeOK, NEW order \in Batches, Enqueue(order)
    PROVE  TypeOK'
<1>1. Cardinality(Gen) \in Nat
  BY FiniteAssumption, FS_CardinalityType
<1>2. PICK n \in 1..Cardinality(Gen) : order \in [1..n -> Gen]
  BY DEF Batches
<1>3. n \in Nat /\ DOMAIN order = 1..n /\ Len(order) = n
  BY <1>1, <1>2
<1>4. nextSeq' \in Nat \ {0}
  BY <1>3 DEF Enqueue, TypeOK
<1>5. ASSUME NEW g \in Members(order)
      PROVE  [Absent EXCEPT !.seq = nextSeq - 1 + (CHOOSE i \in DOMAIN order : order[i] = g)]
               \in Row
  <2>1. (CHOOSE i \in DOMAIN order : order[i] = g) \in 1..n
    BY <1>3 DEF Members
  <2>2. nextSeq - 1 + (CHOOSE i \in DOMAIN order : order[i] = g) \in Nat
    BY <2>1, <1>3 DEF TypeOK
  <2> QED
    BY <2>2 DEF Absent, Row, Status, Active, Terminal, SubmissionState, Lease, Audit
<1>6. row' \in [Gen -> Row]
  BY <1>5 DEF Enqueue, TypeOK
<1> QED
  BY <1>4, <1>6 DEF Enqueue, TypeOK, comfyui

\* The table as the process finds it, and the fresh worker, are well typed.
LEMMA InitType == Init => Typed
<1> SUFFICES ASSUME Init PROVE Typed
  OBVIOUS
<1>1. Cardinality(Legacy) \in Nat
  BY FiniteAssumption, BoundAssumption, FS_Subset, FS_CardinalityType
<1>2. row \in [Gen -> Row]
  <2>1. PICK order \in [Legacy -> 1..Cardinality(Legacy)] :
           /\ row \in [Gen -> {Absent} \union
                         UNION {QuarantinedByMigration(g, order[g]) : g \in Legacy}]
    BY DEF Init
  <2>2. Absent \in Row
    BY DEF Absent, Row, Status, Active, Terminal, SubmissionState, Lease, Audit
  <2>3. ASSUME NEW g \in Legacy, NEW r \in QuarantinedByMigration(g, order[g])
        PROVE  r \in Row
    <3>1. order[g] \in Nat /\ g \in Prompt /\ Alien \in Prompt
      BY <1>1, BoundAssumption DEF Prompt
    <3>2. [Absent EXCEPT !.seq = order[g], !.sub = "ambiguous", !.audit = "migration",
                         !.gen = "queued", !.job = "queued",
                         !.gprompt = g, !.jprompt = Alien] \in Row
      BY <2>2, <3>1 DEF Row, Status, Active, SubmissionState, Audit
    <3>3. [Absent EXCEPT !.seq = order[g], !.sub = "ambiguous", !.audit = "migration",
                         !.gen = "failed", !.job = "failed"] \in Row
      BY <2>2, <3>1 DEF Row, Status, Terminal, SubmissionState, Audit
    <3> QED
      BY <3>2, <3>3 DEF QuarantinedByMigration
  <2> QED
    BY <2>1, <2>2, <2>3
<1>3. nextSeq \in Nat \ {0}
  BY <1>1 DEF Init
<1>4. w \in Worker
  BY DEF Init, Idle, Worker, WorkerPc, Act
<1>5. ui \in Ui
  BY DEF Init, NoRequest, Ui
<1>6. remote \in [Prompt -> Remote]
  BY DEF Init, Remote
<1> QED
  BY <1>2, <1>3, <1>4, <1>5, <1>6 DEF Init, Idle, Typed, TypeOK, HasItem, ItemPc, Held

\* The steps of a reconcile pass.
LEMMA PassTypes ==
    ASSUME Typed, WSkipReconcile \/ WReconcileExpired \/ WList \/ WScanned
                     \/ \E item \in w.todo : WVisit(item)
    PROVE  Typed'
<1>1. CASE WSkipReconcile
  BY <1>1, MoveTypes DEF WSkipReconcile, Typed, TypeOK, HasItem, ItemPc, Held, WorkerPc,
                          database, comfyui
<1>2. CASE WReconcileExpired
  <2>1. row' \in [Gen -> Row]
    BY <1>2, ReconcileOperation, QuietOperations, 0 \in Nat
    DEF WReconcileExpired, Typed, TypeOK, SameSubmission
  <2> QED
    BY <1>2, <2>1, MoveTypes
    DEF WReconcileExpired, Typed, TypeOK, HasItem, ItemPc, Held, WorkerPc, comfyui
<1>3. CASE WList
  <2>1. ASSUME NEW g \in Gen PROVE Visits(g) \subseteq Item
    BY DEF Typed, TypeOK, Visits, Item, PromptOf, Row
  <2> DEFINE found == UNION {Visits(g) : g \in Gen}
  <2>2. found \in SUBSET Item
    BY <2>1
  <2>3. w' = [w EXCEPT !.pc = "scanning", !.back = "scanning", !.todo = found]
    BY <1>3 DEF WList
  <2> HIDE DEF found
  <2>4. w' \in Worker /\ w'.pc = "scanning"
    BY <2>2, <2>3 DEF Typed, TypeOK, Worker, WorkerPc
  <2> QED
    BY <1>3, <2>4 DEF WList, Typed, TypeOK, HasItem, ItemPc, Held, database, comfyui
<1>4. CASE WScanned
  BY <1>4 DEF WScanned, Typed, TypeOK, HasItem, ItemPc, Held, Worker, WorkerPc,
              database, comfyui
<1>5. CASE \E item \in w.todo : WVisit(item)
  <2>1. PICK item \in w.todo : WVisit(item)
    BY <1>5
  <2>2. item \in Item
    BY DEF Typed, TypeOK, Worker
  <2> DEFINE pc == CASE item.kind = "cancel"   -> "cancelling"
                     [] item.kind = "mismatch" -> "writing"
                     [] item.kind = "prompt"   -> "looking"
  <2>3. pc \in WorkerPc /\ item.kind \in Act /\ item.g \in Gen /\ item.prompt \in Prompt \union {None}
    BY <2>2 DEF Item, Act, WorkerPc
  <2>4. w' = [w EXCEPT !.g = item.g, !.todo = w.todo \ {item}, !.pc = pc,
                       !.act = item.kind, !.ask = item.prompt]
    BY <2>1 DEF WVisit
  <2> HIDE DEF pc
  <2>5. w' \in Worker /\ w'.g = item.g
    BY <2>3, <2>4 DEF Typed, TypeOK, Worker
  <2> QED
    BY <2>1, <2>3, <2>5 DEF WVisit, Typed, TypeOK, HasItem, database, comfyui
<1> QED
  BY <1>1, <1>2, <1>3, <1>4, <1>5

\* ComfyUI changes the state of one prompt, if at all.
LEMMA CancelPromptType ==
    ASSUME remote \in [Prompt -> Remote], NEW p, NEW outcome, CancelPrompt(p, outcome)
    PROVE  remote' \in [Prompt -> Remote]
  BY DEF CancelPrompt, Stopped, Remote

\* The steps that cancel or reconcile one item.
LEMMA ItemTypes ==
    ASSUME Typed, WCancelRead \/ WStopPrompt \/ WLook \/ WWrite
    PROVE  Typed'
<1> USE DEF Typed, TypeOK
<1>1. w.g \in Gen
  BY DEF HasItem, ItemPc, WCancelRead, WStopPrompt, WLook, WWrite
<1>2. CASE WCancelRead
  <2>1. PromptOf(row[w.g]) \in Prompt \union {None}
    BY <1>1 DEF PromptOf, Row
  <2>2. w' = [w EXCEPT !.pc = "stopping", !.ask = PromptOf(row[w.g])]
          => w' \in Worker /\ w'.g = w.g
    BY <2>1 DEF Worker, WorkerPc
  <2>3. w' \in Worker /\ w'.g = w.g
    BY <1>2, <2>2, MoveTypes DEF WCancelRead, Act
  <2> QED
    BY <1>1, <1>2, <2>3 DEF WCancelRead, HasItem, database, comfyui
<1>3. CASE WStopPrompt
  <2>1. w' \in Worker /\ w'.g = w.g
    BY <1>3, MoveTypes DEF WStopPrompt, Act, WorkerPc
  <2>2. remote' \in [Prompt -> Remote]
    BY <1>3, CancelPromptType DEF WStopPrompt
  <2> QED
    BY <1>1, <1>3, <2>1, <2>2 DEF WStopPrompt, HasItem, database
<1>4. CASE WLook
  <2>1. w' \in Worker /\ w'.g = w.g
    BY <1>4, MoveTypes DEF WLook, Act
  <2> QED
    BY <1>1, <1>4, <2>1 DEF WLook, HasItem, database, comfyui
<1>5. CASE WWrite
  <2> DEFINE r == row[w.g]
  <2>1. r \in Row /\ Alien \in Prompt
    BY <1>1 DEF Prompt
  <2>2. MarkCancelled(r) \in Row /\ Complete(r) \in Row /\ Fail(r) \in Row /\ MarkMissing(r) \in Row
    BY <2>1, QuietOperations, 0 \in Nat DEF SameSubmission
  <2>3. MarkMismatch(r) \in Row
    BY <2>1, SubmissionOperations
  <2>4. row' \in [Gen -> Row]
    BY <1>5, <2>1, <2>2, <2>3, StoreType DEF WWrite
  <2>5. w' \in Worker /\ w'.g = w.g
    BY <1>5, MoveTypes DEF WWrite
  <2> QED
    BY <1>1, <1>5, <2>4, <2>5 DEF WWrite, HasItem, comfyui
<1> QED
  BY <1>2, <1>3, <1>4, <1>5

\* The steps of run_once up to the request.
LEMMA ExecuteTypes ==
    ASSUME Typed, (\E g \in Gen : WClaim(g)) \/ WNothingToClaim \/ WExecute \/ WPrepareFails
                     \/ WCheckCancel \/ WBegin \/ WPost
    PROVE  Typed'
<1> USE DEF Typed, TypeOK
<1>1. CASE \E g \in Gen : WClaim(g)
  <2>1. PICK g \in Gen : WClaim(g)
    BY <1>1
  <2>2. row' \in [Gen -> Row]
    BY <2>1, StoreType, QuietOperations DEF WClaim, SameSubmission
  <2>3. w' \in Worker /\ w'.g = g
    BY <2>1 DEF WClaim, Worker, WorkerPc, Held
  <2> QED
    BY <2>1, <2>2, <2>3 DEF WClaim, HasItem, comfyui
<1>2. CASE WNothingToClaim
  BY <1>2, MoveTypes DEF WNothingToClaim, WorkerPc, HasItem, ItemPc, Held, database, comfyui
<1>3. CASE WExecute
  <2>1. w' \in Worker /\ w'.g = w.g
    BY <1>3, MoveTypes DEF WExecute, WorkerPc, Held
  <2> QED
    BY <1>3, <2>1 DEF WExecute, HasItem, ItemPc, Held, database, comfyui
<1>4. CASE WPrepareFails
  <2>1. w' \in Worker /\ w'.g = w.g
    BY <1>4, MoveTypes DEF WPrepareFails, WorkerPc, Held
  <2> QED
    BY <1>4, <2>1 DEF WPrepareFails, HasItem, ItemPc, Held, database, comfyui
<1>5. CASE WCheckCancel
  <2>1. w' \in Worker /\ w'.g = w.g
    BY <1>5, MoveTypes DEF WCheckCancel, WorkerPc, Held, Act
  <2> QED
    BY <1>5, <2>1 DEF WCheckCancel, HasItem, ItemPc, Held, database, comfyui
<1>6. CASE WBegin
  <2>1. w' \in Worker /\ w'.g = w.g
    BY <1>6, MoveTypes DEF WBegin, WorkerPc, Held
  <2>2. row' \in [Gen -> Row]
    BY <1>6, StoreType, SubmissionOperations, Alien \in Prompt DEF WBegin, Prompt
  <2> QED
    BY <1>6, <2>1, <2>2 DEF WBegin, HasItem, ItemPc, Held, comfyui
<1>7. CASE WPost
  <2>1. w' \in Worker /\ w'.g = w.g
    BY <1>7, MoveTypes DEF WPost, WorkerPc, Held
  <2>2. w.g \in Gen
    BY <1>7 DEF WPost, HasItem, ItemPc, Held
  <2>3. posts' \in [Gen -> Nat]
    BY <1>7, <2>2 DEF WPost
  <2>4. remote' \in [Prompt -> Remote]
    BY <1>7 DEF WPost, Remote
  <2> QED
    BY <1>7, <2>1, <2>3, <2>4 DEF WPost, HasItem, ItemPc, Held, database
<1> QED
  BY <1>1, <1>2, <1>3, <1>4, <1>5, <1>6, <1>7

\* The steps of run_once after the request, and its end.
LEMMA WatchTypes ==
    ASSUME Typed, WMarkSubmitted \/ WQuarantine \/ WProgress \/ WSeesCancel \/ WHistory
                     \/ WStoreImages \/ WComplete \/ WFail \/ WRelease \/ WCallback
    PROVE  Typed'
<1> USE DEF Typed, TypeOK
<1> DEFINE r == row[w.g]
<1>1. w.g \in Gen => r \in Row
  OBVIOUS
<1>2. CASE WMarkSubmitted
  <2>1. w.g \in Gen /\ w.g \in Prompt
    BY <1>2 DEF WMarkSubmitted, HasItem, ItemPc, Held, Prompt
  <2>2. w' \in Worker /\ w'.g = w.g
    BY <1>2, MoveTypes DEF WMarkSubmitted, WorkerPc, Held
  <2>3. row' \in [Gen -> Row]
    BY <1>1, <1>2, <2>1, StoreType, SubmissionOperations DEF WMarkSubmitted
  <2> QED
    BY <1>2, <2>1, <2>2, <2>3 DEF WMarkSubmitted, HasItem, comfyui
<1>3. CASE WQuarantine
  <2>1. w.g \in Gen /\ Alien \in Prompt
    BY <1>3 DEF WQuarantine, HasItem, ItemPc, Held, Prompt
  <2>2. w' \in Worker /\ (w'.pc = "callback" \/ w'.g = w.g)
    BY <1>3, MoveTypes DEF WQuarantine, WorkerPc, Held
  <2>3. row' \in [Gen -> Row]
    BY <1>1, <1>3, <2>1, StoreType, SubmissionOperations DEF WQuarantine
  <2> QED
    BY <1>3, <2>1, <2>2, <2>3 DEF WQuarantine, HasItem, ItemPc, Held, comfyui
<1>4. CASE WProgress
  <2>1. row' \in [Gen -> Row]
    BY <1>1, <1>4, StoreType, QuietOperations, 0 \in Nat DEF WProgress, SameSubmission
  <2> QED
    BY <1>4, <2>1 DEF WProgress, HasItem, comfyui
<1>5. CASE WSeesCancel \/ WHistory \/ WStoreImages
  <2>1. w.g \in Gen
    BY <1>5 DEF WSeesCancel, WHistory, WStoreImages, HasItem, ItemPc, Held
  <2>2. w' \in Worker /\ w'.g = w.g
    BY <1>5, MoveTypes DEF WSeesCancel, WHistory, WStoreImages, WorkerPc, Held
  <2> QED
    BY <1>5, <2>1, <2>2 DEF WSeesCancel, WHistory, WStoreImages, HasItem, database, comfyui
<1>6. CASE WComplete \/ WFail \/ WRelease
  <2>1. w.g \in Gen
    BY <1>6 DEF WComplete, WFail, WRelease, HasItem, ItemPc, Held
  <2>2. w' \in Worker /\ w'.g = w.g
    BY <1>6, MoveTypes DEF WComplete, WFail, WRelease, WorkerPc, Held
  <2>3. Complete(r) \in Row /\ Fail(r) \in Row /\ Release(r, run) \in Row
    BY <1>1, <2>1, QuietOperations DEF SameSubmission
  <2>4. row' \in [Gen -> Row]
    BY <1>1, <1>6, <2>1, <2>3, StoreType DEF WComplete, WFail, WRelease
  <2> QED
    BY <1>6, <2>1, <2>2, <2>4 DEF WComplete, WFail, WRelease, HasItem, comfyui
<1>7. CASE WCallback
  <2>1. w' \in Worker /\ w'.pc = w.then
    BY <1>7 DEF WCallback, Worker, WorkerPc
  <2>2. ASSUME NEW h \in Gen PROVE Drop(row[h]) \in Row
    BY QuietOperations, 0 \in Nat DEF SameSubmission
  <2>3. row' \in [Gen -> Row]
    BY <1>7, <2>2 DEF WCallback
  <2>4. row' \in [Gen -> Row] /\ runActive' \in BOOLEAN
    BY <1>7, <2>3 DEF WCallback
  <2>5. w'.pc \notin ItemPc
    BY <2>1 DEF Worker, ItemPc, Held
  <2> QED
    BY <1>7, <2>1, <2>4, <2>5 DEF WCallback, HasItem, comfyui
<1> QED
  BY <1>2, <1>3, <1>4, <1>5, <1>6, <1>7

\* The heartbeat, and a failed transaction.
LEMMA FaultTypes ==
    ASSUME Typed, WHeartbeat \/ WTransactionFails
    PROVE  Typed'
<1> USE DEF Typed, TypeOK
<1>1. CASE WHeartbeat
  <2>1. row' \in [Gen -> Row]
    BY <1>1, StoreType, QuietOperations, 0 \in Nat DEF WHeartbeat, SameSubmission
  <2> QED
    BY <1>1, <2>1 DEF WHeartbeat, HasItem, comfyui
<1>2. CASE WTransactionFails
  <2> SUFFICES w' \in Worker /\ HasItem'
    BY <1>2 DEF WTransactionFails, database, comfyui
  <2> USE DEF HasItem, ItemPc, Held, Worker, WorkerPc
  <2>1. ASSUME NEW from, NEW to \in WorkerPc, Fault(from, to),
               to \in ItemPc => from \subseteq ItemPc
        PROVE  w' \in Worker /\ HasItem'
    BY <2>1 DEF Fault
  <2>2. CASE GoBack /\ w.back = "scanning"
    BY <2>2, MoveTypes
  <2>3. CASE GoBack /\ w.pc = "looking"
    BY <2>3, MoveTypes
  <2>4. CASE Halt
    BY <2>4, MoveTypes
  <2>5. CASE w' = [w EXCEPT !.pc = "scanning", !.ask = None, !.act = "none", !.todo = {}]
    BY <2>5 DEF Act
  <2>6. CASE /\ w.pc \in {"cancelling", "writing"}
             /\ w' = [w EXCEPT !.pc = "releasing", !.ask = None, !.act = "none",
                               !.then = IF w.act \in {"complete", "fail"} THEN "top" ELSE "dead"]
    BY <2>6 DEF Act
  <2>7. \/ Fault({"start", "top", "listing"}, "claiming")
        \/ Fault({"claiming"}, "top")
        \/ Fault({"prepared", "beginning", "watching", "storing", "completing"}, "failing")
        \/ Fault({"accepted"}, "quarantine")
        \/ Fault({"failing"}, "releasing")
        => w' \in Worker /\ HasItem'
    BY <2>1
  <2>8. CASE Fault({"claimed", "releasing"},
                   IF w.pc = "claimed" THEN "releasing" ELSE "callback")
    BY <2>8 DEF Fault
  <2> QED
    BY <1>2, <2>2, <2>3, <2>4, <2>5, <2>6, <2>7, <2>8 DEF WTransactionFails
<1> QED
  BY <1>1, <1>2

\* Users and operators.
LEMMA CallerTypes ==
    ASSUME Typed, Callers
    PROVE  Typed'
<1> USE DEF Typed, TypeOK
<1>1. CASE \E order \in Batches : Enqueue(order)
  BY <1>1, EnqueueType DEF Enqueue, HasItem
<1>2. CASE \E g \in Gen : UiCancel(g)
  <2>1. PICK g \in Gen : UiCancel(g)
    BY <1>2
  <2>2. row' \in [Gen -> Row]
    BY <2>1, StoreType, QuietOperations, 0 \in Nat DEF UiCancel, SameSubmission
  <2>3. PromptOf(row[g]) \in Prompt \union {None}
    BY DEF PromptOf, Row
  <2>4. ui' \in Ui
    BY <2>1, <2>3 DEF UiCancel, Ui, NoRequest
  <2> QED
    BY <2>1, <2>2, <2>4 DEF UiCancel, HasItem, comfyui
<1>3. CASE UiStopPrompt
  <2>1. remote' \in [Prompt -> Remote]
    BY <1>3, CancelPromptType DEF UiStopPrompt
  <2>2. ui' = [ui EXCEPT !.pc = "marking", !.ask = None] \/ ui' = NoRequest
    BY <1>3 DEF UiStopPrompt
  <2>3. [ui EXCEPT !.pc = "marking", !.ask = None] \in Ui
    BY DEF Ui
  <2>4. NoRequest \in Ui
    BY DEF Ui, NoRequest
  <2>5. ui' \in Ui
    BY <2>2, <2>3, <2>4
  <2> QED
    BY <1>3, <2>1, <2>5 DEF UiStopPrompt, HasItem, database
<1>4. CASE UiMark
  <2>1. row' \in [Gen -> Row]
    BY <1>4, StoreType, QuietOperations, 0 \in Nat DEF UiMark, SameSubmission
  <2> QED
    BY <1>4, <2>1 DEF UiMark, Ui, NoRequest, HasItem, comfyui
<1>5. CASE UiPoll
  <2>1. Remaining \in SUBSET Gen
    BY BoundAssumption DEF Remaining
  <2> QED
    BY <1>5, <2>1 DEF UiPoll, Ui, NoRequest, HasItem, database, comfyui
<1>6. CASE UiDrop
  <2>1. row' \in [Gen -> Row]
    BY <1>6, StoreType, QuietOperations, 0 \in Nat DEF UiDrop, SameSubmission
  <2> QED
    BY <1>6, <2>1 DEF UiDrop, Ui, HasItem, comfyui
<1>7. CASE UiPolled
  BY <1>7 DEF UiPolled, Ui, NoRequest, HasItem, comfyui
<1>8. CASE \E h \in ui.left : UiDropRead(h)
  <2>1. PICK h \in ui.left : UiDropRead(h)
    BY <1>8
  <2>2. h \in Gen /\ ui.left \ {h} \in SUBSET Gen
    BY DEF Ui
  <2>3. \/ ui' = [ui EXCEPT !.pc = "dropping", !.g = h, !.left = ui.left \ {h}]
        \/ ui' = [ui EXCEPT !.pc = "requesting", !.g = h, !.left = ui.left \ {h}]
    BY <2>1 DEF UiDropRead
  <2>4. ui' \in Ui
    BY <2>2, <2>3 DEF Ui
  <2> QED
    BY <2>1, <2>4 DEF UiDropRead, HasItem, database, comfyui
<1>9. CASE \E g \in Gen : ResolveAsFailed(g)
  <2>1. PICK g \in Gen : ResolveAsFailed(g)
    BY <1>9
  <2>2. row' \in [Gen -> Row]
    BY <2>1, StoreType, QuietOperations, 0 \in Nat DEF ResolveAsFailed, SameSubmission
  <2> QED
    BY <2>1, <2>2 DEF ResolveAsFailed, HasItem, comfyui
<1>10. CASE \E g \in Gen, p \in Supplied : LinkAmbiguous(g, p)
  <2>1. PICK g \in Gen, p \in Supplied : LinkAmbiguous(g, p)
    BY <1>10
  <2>2. row' \in [Gen -> Row]
    BY <2>1, StoreType, SubmissionOperations, BoundAssumption DEF LinkAmbiguous
  <2> QED
    BY <2>1, <2>2 DEF LinkAmbiguous, HasItem, comfyui
<1> QED
  BY <1>1, <1>2, <1>3, <1>4, <1>5, <1>6, <1>7, <1>8, <1>9, <1>10 DEF Callers

\* ComfyUI, time and the process.
LEMMA WorldTypes ==
    ASSUME Typed, World \/ Restart
    PROVE  Typed'
<1> USE DEF Typed, TypeOK
<1>1. CASE \E p \in Prompt : RemoteMoves(p)
  BY <1>1 DEF RemoteMoves, Remote, HasItem, database
<1>2. CASE \E g \in Gen : LeaseExpires(g)
  <2>1. PICK g \in Gen : LeaseExpires(g)
    BY <1>2
  <2>2. row' \in [Gen -> Row]
    BY <2>1, StoreType, QuietOperations, 0 \in Nat DEF LeaseExpires, SameSubmission
  <2> QED
    BY <2>1, <2>2 DEF LeaseExpires, HasItem, comfyui
<1>3. CASE RemoteRestarts
  BY <1>3 DEF RemoteRestarts, Remote, HasItem, database
<1>4. CASE Restart
  BY <1>4 DEF Restart, Idle, NoRequest, Worker, WorkerPc, Act, Ui, HasItem, ItemPc, Held,
              database, comfyui
<1> QED
  BY <1>1, <1>2, <1>3, <1>4 DEF World

\* Every step of the system keeps the types.
LEMMA StepTypes == Typed /\ [Next]_vars => Typed'
<1> SUFFICES ASSUME Typed, [Next]_vars PROVE Typed'
  OBVIOUS
<1>1. CASE WorkerStep
  BY <1>1, PassTypes, ItemTypes, ExecuteTypes, WatchTypes DEF WorkerStep
<1>2. CASE UNCHANGED vars
  BY <1>2 DEF vars, Typed, TypeOK, HasItem
<1> QED
  BY <1>1, <1>2, FaultTypes, CallerTypes, WorldTypes DEF Next, Steps

\* Every variable of the queue, its worker, its callers and ComfyUI keeps its
\* type, and the worker always knows the generation it is working on.
THEOREM TypeCorrect == Spec => []TypeOK
<1>1. Typed => TypeOK
  BY DEF Typed
<1> QED
  BY <1>1, InitType, StepTypes, PTL DEF Spec

-----------------------------------------------------------------------------
(* Effects: which steps touch a submission at all.                          *)

Quiet == /\ posts' = posts
         /\ \A g \in Gen : SameSubmission(row[g], row'[g])

\* Storing a row with the same submission disturbs no submission.
LEMMA QuietStore ==
    ASSUME Typed, NEW g, NEW q, g \in Gen => SameSubmission(row[g], q), Store(g, q)
    PROVE  \A h \in Gen : SameSubmission(row[h], row'[h])
  BY DEF Typed, TypeOK, Store, SameSubmission

\* A step that leaves the table alone disturbs no submission.
LEMMA QuietStay ==
    ASSUME Typed, row' = row
    PROVE  \A h \in Gen : SameSubmission(row[h], row'[h])
  BY DEF Typed, TypeOK, SameSubmission

\* The worker's steps.
LEMMA QuietWorker ==
    ASSUME Typed, WorkerStep
    PROVE  \/ Quiet
           \/ WReconcileExpired \/ WPost
           \/ WBegin /\ CanBegin(row[w.g], run)
           \/ WMarkSubmitted /\ CanMarkSubmitted(row[w.g], run)
           \/ WQuarantine /\ CanQuarantine(row[w.g], run)
           \/ WWrite /\ w.act = "mismatch"
<1> DEFINE r == row[w.g]
<1> USE DEF Quiet
<1>1. w.g \in Gen => r \in Row
  BY DEF Typed, TypeOK
<1>2. run \in Nat /\ 0 \in Nat
  BY DEF Typed, TypeOK
<1>3. CASE WSkipReconcile \/ WList \/ WScanned \/ \E item \in w.todo : WVisit(item)
  BY <1>3, QuietStay DEF WSkipReconcile, WList, WScanned, WVisit, database, comfyui
<1>4. CASE WCancelRead \/ WStopPrompt \/ WLook
  BY <1>4, QuietStay DEF WCancelRead, WStopPrompt, WLook, database, comfyui
<1>5. CASE WWrite /\ w.act # "mismatch"
  <2>1. w.g \in Gen => /\ SameSubmission(r, r)
                       /\ SameSubmission(r, MarkCancelled(r))
                       /\ SameSubmission(r, Complete(r))
                       /\ SameSubmission(r, Fail(r))
                       /\ SameSubmission(r, MarkMissing(r))
    BY <1>1, <1>2, QuietOperations
  <2> QED
    BY <1>5, <2>1, QuietStore DEF WWrite, comfyui
<1>6. CASE \E g \in Gen : WClaim(g)
  <2>1. PICK g \in Gen : WClaim(g)
    BY <1>6
  <2>2. SameSubmission(row[g], Claim(row[g], run))
    BY <1>2, QuietOperations DEF Typed, TypeOK
  <2> QED
    BY <2>1, <2>2, QuietStore DEF WClaim, comfyui
<1>7. CASE WNothingToClaim \/ WExecute \/ WPrepareFails \/ WCheckCancel
  BY <1>7, QuietStay DEF WNothingToClaim, WExecute, WPrepareFails, WCheckCancel, database,
     comfyui
<1>8. CASE WBegin /\ ~CanBegin(row[w.g], run)
  BY <1>8, QuietStay DEF WBegin, comfyui
<1>9. CASE WMarkSubmitted /\ ~CanMarkSubmitted(row[w.g], run)
  BY <1>9, QuietStay DEF WMarkSubmitted, comfyui
<1>10. CASE WQuarantine /\ ~CanQuarantine(row[w.g], run)
  <2>1. w.g \in Gen => SameSubmission(r, r)
    BY <1>1, <1>2, QuietOperations
  <2> QED
    BY <1>10, <2>1, QuietStay, QuietStore DEF WQuarantine, comfyui
<1>11. CASE WSeesCancel \/ WHistory \/ WStoreImages
  BY <1>11, QuietStay DEF WSeesCancel, WHistory, WStoreImages, database, comfyui
<1>12. CASE WProgress \/ WComplete \/ WFail \/ WRelease
  <2>1. w.g \in Gen => /\ SameSubmission(r, r)
                       /\ SameSubmission(r, Progress(r))
                       /\ SameSubmission(r, Complete(r))
                       /\ SameSubmission(r, Fail(r))
                       /\ SameSubmission(r, Release(r, run))
    BY <1>1, <1>2, QuietOperations
  <2> QED
    BY <1>12, <2>1, QuietStay, QuietStore DEF WProgress, WComplete, WFail, WRelease, comfyui
<1>13. CASE WCallback
  <2>1. ASSUME NEW h \in Gen
        PROVE  SameSubmission(row[h], row[h]) /\ SameSubmission(row[h], Drop(row[h]))
    BY <1>2, QuietOperations DEF Typed, TypeOK
  <2> QED
    BY <1>13, <2>1, QuietStay DEF WCallback, comfyui
<1> QED
  BY <1>3, <1>4, <1>5, <1>6, <1>7, <1>8, <1>9, <1>10, <1>11, <1>12, <1>13 DEF WorkerStep

\* Everybody else's.
LEMMA QuietOthers ==
    ASSUME Typed, WHeartbeat \/ WTransactionFails \/ Callers \/ World \/ Restart \/ UNCHANGED vars
    PROVE  Quiet \/ \E g \in Gen, p \in Supplied : LinkAmbiguous(g, p)
<1> USE DEF Quiet
<1>1. ASSUME NEW g \in Gen
      PROVE  /\ SameSubmission(row[g], row[g])
             /\ SameSubmission(row[g], Renew(row[g]))
             /\ SameSubmission(row[g], RequestCancel(row[g]))
             /\ SameSubmission(row[g], MarkCancelled(row[g]))
             /\ SameSubmission(row[g], FailAmbiguous(row[g]))
             /\ SameSubmission(row[g], [row[g] EXCEPT !.lease = "expired"])
  BY QuietOperations, 0 \in Nat DEF Typed, TypeOK
<1>2. CASE WHeartbeat
  BY <1>1, <1>2, QuietStore DEF WHeartbeat, comfyui
<1>3. CASE WTransactionFails \/ Restart \/ UNCHANGED vars
  BY <1>3, QuietStay DEF WTransactionFails, Restart, vars, database, comfyui
<1>4. CASE \E order \in Batches : Enqueue(order)
  <2>1. PICK order \in Batches : Enqueue(order)
    BY <1>4
  <2>2. row' \in [Gen -> Row]
    BY <2>1, EnqueueType DEF Typed, TypeOK
  <2>3. ASSUME NEW g \in Gen PROVE SameSubmission(row[g], row'[g])
    <3>1. CASE g \in Members(order)
      <4>1. row[g] = Absent
        BY <2>1, <3>1 DEF Enqueue
      <4>2. PICK n : row'[g] = [Absent EXCEPT !.seq = n]
        BY <2>1, <3>1 DEF Enqueue
      <4> QED
        BY <4>1, <4>2, <2>2 DEF SameSubmission, Absent
    <3>2. CASE g \notin Members(order)
      BY <1>1, <2>1, <3>2 DEF Enqueue
    <3> QED
      BY <3>1, <3>2
  <2> QED
    BY <2>1, <2>3 DEF Enqueue, comfyui
<1>5. CASE \E g \in Gen : UiCancel(g)
  <2>1. PICK g \in Gen : UiCancel(g)
    BY <1>5
  <2> QED
    BY <1>1, <2>1, QuietStore DEF UiCancel, comfyui
<1>6. CASE UiStopPrompt \/ UiPoll \/ UiPolled \/ \E h \in ui.left : UiDropRead(h)
  BY <1>6, QuietStay DEF UiStopPrompt, UiPoll, UiPolled, UiDropRead, database, comfyui
<1>7. CASE UiMark \/ UiDrop
  BY <1>1, <1>7, QuietStore DEF UiMark, UiDrop, comfyui
<1>8. CASE \E g \in Gen : ResolveAsFailed(g)
  <2>1. PICK g \in Gen : ResolveAsFailed(g)
    BY <1>8
  <2> QED
    BY <1>1, <2>1, QuietStore DEF ResolveAsFailed, comfyui
<1>9. CASE \E g \in Gen : LeaseExpires(g)
  <2>1. PICK g \in Gen : LeaseExpires(g)
    BY <1>9
  <2> QED
    BY <1>1, <2>1, QuietStore DEF LeaseExpires, comfyui
<1>10. CASE RemoteRestarts \/ \E p \in Prompt : RemoteMoves(p)
  BY <1>10, QuietStay DEF RemoteRestarts, RemoteMoves, database
<1> QED
  BY <1>2, <1>3, <1>4, <1>5, <1>6, <1>7, <1>8, <1>9, <1>10 DEF Callers, World

-----------------------------------------------------------------------------
(* The inductive invariant behind "at most once".  AtMostOnePost alone is   *)
(* not inductive: a second request is ruled out because the first one left  *)
(* a row that is not "ready" and that nothing makes "ready" again, and      *)
(* because between the commit of "submitting" and the request only the      *)
(* worker that is about to send it can move that row's submission state.    *)

SentIsNotReady == \A g \in Gen : posts[g] > 0 => row[g].sub # "ready"

ReadyIsBlank == \A g \in Gen : row[g].sub = "ready" => NoPrompts(row[g])

LegacyApart == \A g \in Legacy : row[g].sub \in {"submitted", "ambiguous"} /\ posts[g] = 0

AboutToSend ==
    /\ w.pc = "posting" => row[w.g].sub = "submitting" /\ posts[w.g] = 0
    /\ w.pc \in {"accepted", "quarantine"} => posts[w.g] = 1

MismatchIsNotReady ==
    /\ \A item \in w.todo : item.kind = "mismatch" => row[item.g].sub # "ready"
    /\ w.pc = "writing" /\ w.act = "mismatch" => row[w.g].sub # "ready"

Inv == /\ Typed
       /\ AtMostOnePost
       /\ SentIsNotReady
       /\ ReadyIsBlank
       /\ LegacyApart
       /\ AboutToSend
       /\ MismatchIsNotReady

\* A step that sends nothing and begins no submission moves each row, if at
\* all, out of "submitting" and never towards "ready".
Moved(r, q) == \/ SameSubmission(r, q)
               \/ /\ r.sub # "ready"
                  /\ q.sub \in {"submitted", "ambiguous"}
                  /\ r.sub = "submitting" => w'.pc # "posting"

Plain == /\ posts' = posts
         /\ \A g \in Gen : Moved(row[g], row'[g])

\* Such a step neither brings the worker to the point of sending nor makes it
\* take a blank row for one with two prompts.
Controlled ==
    /\ w'.pc = "posting" => w' = w
    /\ w'.pc \in {"accepted", "quarantine"} =>
         w'.g = w.g /\ w.pc \in {"accepted", "quarantine"}
    /\ \A item \in w'.todo : item.kind = "mismatch" => row[item.g].sub # "ready"
    /\ w'.pc = "writing" /\ w'.act = "mismatch" => row[w'.g].sub # "ready"

\* A step that neither sends nor begins a submission, and does not bring the
\* worker to the point of sending, preserves the invariant.
LEMMA PlainStep ==
    ASSUME Inv, Typed', Plain, Controlled
    PROVE  Inv'
<1>1. ASSUME NEW g \in Gen
      PROVE  /\ row'[g].sub = "ready" => SameSubmission(row[g], row'[g])
             /\ row[g].sub # "ready" => row'[g].sub # "ready"
             /\ row[g].sub \in {"submitted", "ambiguous"} =>
                  row'[g].sub \in {"submitted", "ambiguous"}
             /\ row[g].sub = "submitting" /\ w'.pc = "posting" => row'[g].sub = "submitting"
  <2>1. Moved(row[g], row'[g])
    BY DEF Plain
  <2> QED
    BY <2>1 DEF Moved, SameSubmission
<1>2. AtMostOnePost' /\ SentIsNotReady'
  BY <1>1 DEF Inv, Plain, AtMostOnePost, SentIsNotReady
<1>3. ReadyIsBlank'
  BY <1>1 DEF Inv, ReadyIsBlank, NoPrompts, SameSubmission
<1>4. LegacyApart'
  BY <1>1, BoundAssumption DEF Inv, Plain, LegacyApart
<1>5. AboutToSend'
  <2>1. w'.pc = "posting" => w'.g \in Gen
    BY DEF Typed, HasItem, ItemPc, Held
  <2> QED
    BY <1>1, <2>1 DEF Inv, Plain, Controlled, AboutToSend
<1>6. MismatchIsNotReady'
  <2>1. \A item \in w'.todo : item.g \in Gen
    BY DEF Typed, TypeOK, Worker, Item
  <2>2. w'.pc = "writing" => w'.g \in Gen
    BY DEF Typed, HasItem, ItemPc
  <2> QED
    BY <1>1, <2>1, <2>2 DEF Controlled, MismatchIsNotReady
<1> QED
  BY <1>2, <1>3, <1>4, <1>5, <1>6 DEF Inv

\* No step of the worker but WBegin and WPost brings it to the point of
\* sending, or closer to it.
LEMMA ControlWorker ==
    ASSUME Inv, WorkerStep
    PROVE  Controlled \/ WPost \/ (WBegin /\ CanBegin(row[w.g], run))
<1> USE DEF Controlled, Inv, MismatchIsNotReady, AboutToSend
<1>1. w \in Worker
  BY DEF Typed, TypeOK
<1>2. CASE WSkipReconcile \/ WReconcileExpired \/ WNothingToClaim
  BY <1>1, <1>2 DEF WSkipReconcile, WReconcileExpired, WNothingToClaim, Go, Worker
<1>3. CASE WList
  <2>1. ASSUME NEW g \in Gen, NEW item \in Visits(g)
        PROVE  item.kind = "mismatch" => item.g = g /\ row[g].sub # "ready"
    <3>1. Mismatch(row[g]) => row[g].sub # "ready"
      BY DEF Mismatch, ReadyIsBlank, NoPrompts
    <3> QED
      BY <2>1, <3>1 DEF Visits
  <2> DEFINE found == UNION {Visits(g) : g \in Gen}
  <2>2. w' = [w EXCEPT !.pc = "scanning", !.back = "scanning", !.todo = found]
    BY <1>3 DEF WList
  <2>3. \A item \in found : item.kind = "mismatch" => row[item.g].sub # "ready"
    BY <2>1
  <2> HIDE DEF found
  <2> QED
    BY <1>1, <2>2, <2>3 DEF Worker
<1>4. CASE WScanned
  BY <1>1, <1>4 DEF WScanned, Worker
<1>5. CASE \E item \in w.todo : WVisit(item)
  <2>1. PICK item \in w.todo : WVisit(item)
    BY <1>5
  <2>2. item \in Item
    BY <1>1 DEF Worker
  <2> DEFINE pc == CASE item.kind = "cancel"   -> "cancelling"
                     [] item.kind = "mismatch" -> "writing"
                     [] item.kind = "prompt"   -> "looking"
  <2>3. pc \in {"cancelling", "writing", "looking"}
    BY <2>2 DEF Item
  <2>4. w' = [w EXCEPT !.g = item.g, !.todo = w.todo \ {item}, !.pc = pc,
                       !.act = item.kind, !.ask = item.prompt]
    BY <2>1 DEF WVisit
  <2> HIDE DEF pc
  <2>5. w'.pc = pc /\ w'.g = item.g /\ w'.act = item.kind /\ w'.todo \subseteq w.todo
    BY <1>1, <2>4 DEF Worker
  <2> QED
    BY <2>3, <2>5
<1>6. CASE WCancelRead
  <2>1. Mismatch(row[w.g]) => row[w.g].sub # "ready"
    BY <1>6 DEF WCancelRead, Mismatch, ReadyIsBlank, NoPrompts, Typed, HasItem, ItemPc
  <2>2. \/ WriteNext("mismatch") /\ Mismatch(row[w.g])
        \/ WriteNext("cancelled")
        \/ GoBack
        \/ w' = [w EXCEPT !.pc = "stopping", !.ask = PromptOf(row[w.g])]
    BY <1>6 DEF WCancelRead
  <2>3. CASE WriteNext("mismatch") /\ Mismatch(row[w.g])
    BY <1>1, <2>1, <2>3 DEF WriteNext, Worker
  <2>4. CASE WriteNext("cancelled") \/ GoBack
    BY <1>1, <2>4 DEF WriteNext, GoBack, Worker
  <2>5. CASE w' = [w EXCEPT !.pc = "stopping", !.ask = PromptOf(row[w.g])]
    BY <1>1, <2>5 DEF Worker
  <2> QED
    BY <2>2, <2>3, <2>4, <2>5
<1>7. CASE WStopPrompt \/ WLook \/ WWrite
  <2>1. \/ GoBack \/ Go("looking")
        \/ \E act \in {"cancelled", "missing", "complete", "fail"} : WriteNext(act)
    BY <1>7 DEF WStopPrompt, WLook, WWrite
  <2> QED
    BY <1>1, <2>1 DEF WriteNext, Go, GoBack, Worker
<1>8. CASE \E g \in Gen : WClaim(g)
  <2>1. PICK g \in Gen : w' = [w EXCEPT !.pc = "claimed", !.g = g, !.back = "releasing"]
    BY <1>8 DEF WClaim
  <2> QED
    BY <1>1, <2>1 DEF Worker
<1>9. CASE \/ WExecute \/ WPrepareFails \/ WCheckCancel
           \/ WBegin /\ ~CanBegin(row[w.g], run)
           \/ WMarkSubmitted \/ WQuarantine
           \/ WSeesCancel \/ WHistory \/ WStoreImages \/ WComplete \/ WFail \/ WRelease
  <2>1. \/ \E label \in {"prepared", "releasing", "failing", "beginning", "watching",
                         "cancelling", "storing", "completing", "callback"} : Go(label)
        \/ w.pc = "accepted" /\ Go("quarantine")
        \/ WriteNext("cancelled")
        \/ Halt
    BY <1>9 DEF WExecute, WPrepareFails, WCheckCancel, WBegin, WMarkSubmitted, WQuarantine,
                WSeesCancel, WHistory, WStoreImages, WComplete, WFail, WRelease
  <2> QED
    BY <1>1, <2>1 DEF Go, WriteNext, Halt, Worker
<1>10. CASE WProgress
  BY <1>10 DEF WProgress
<1>11. CASE WCallback
  BY <1>1, <1>11 DEF WCallback, Worker
<1> QED
  BY <1>2, <1>3, <1>4, <1>5, <1>6, <1>7, <1>8, <1>9, <1>10, <1>11 DEF WorkerStep

\* Neither the callers, nor ComfyUI, nor a fault or a restart brings the
\* worker to the point of sending.
LEMMA ControlOthers ==
    ASSUME Inv, WHeartbeat \/ WTransactionFails \/ Callers \/ World \/ Restart \/ UNCHANGED vars
    PROVE  Controlled
<1> USE DEF Controlled, Inv, MismatchIsNotReady, AboutToSend
<1>1. w \in Worker
  BY DEF Typed, TypeOK
<1>2. CASE WTransactionFails
  <2>1. \/ GoBack
        \/ \E from \in {"claimed", "releasing", "start", "top", "listing", "claiming",
                        "prepared", "beginning", "watching", "storing", "completing",
                        "failing"},
              to \in {"releasing", "callback", "claiming", "top", "failing"} :
             w.pc = from /\ w' = [w EXCEPT !.pc = to]
        \/ w.pc = "accepted" /\ w' = [w EXCEPT !.pc = "quarantine"]
        \/ Halt
        \/ w' = [w EXCEPT !.pc = "scanning", !.ask = None, !.act = "none", !.todo = {}]
        \/ w' = [w EXCEPT !.pc = "releasing", !.ask = None, !.act = "none",
                          !.then = IF w.act \in {"complete", "fail"} THEN "top" ELSE "dead"]
    BY <1>2 DEF WTransactionFails, Fault
  <2> QED
    BY <1>1, <2>1 DEF GoBack, Halt, Worker
<1>3. CASE Restart
  BY <1>3 DEF Restart, Idle
<1>4. CASE WHeartbeat \/ Callers \/ World \/ UNCHANGED vars
  <2>1. w' = w
    BY <1>4 DEF WHeartbeat, Callers, Enqueue, UiCancel, UiStopPrompt, UiMark, UiPoll,
       UiDropRead,
                UiDrop, UiPolled, LinkAmbiguous, ResolveAsFailed,
                World, RemoteMoves, LeaseExpires, RemoteRestarts, vars
  <2> QED
    BY <2>1
<1> QED
  BY <1>2, <1>3, <1>4

\* The invariant holds of every table a migration can leave.
LEMMA InvInit == Init => Inv
<1> SUFFICES ASSUME Init PROVE Inv
  OBVIOUS
<1>1. PICK order \in [Legacy -> 1..Cardinality(Legacy)] :
         \A g \in Gen : IF g \in Legacy THEN row[g] \in QuarantinedByMigration(g, order[g])
                                        ELSE row[g] = Absent
  BY DEF Init
<1>2. \A g \in Legacy : row[g].sub = "ambiguous"
  BY <1>1, BoundAssumption DEF QuarantinedByMigration, Absent
<1>3. ReadyIsBlank
  BY <1>1, <1>2 DEF ReadyIsBlank, NoPrompts, Absent
<1>4. LegacyApart
  BY <1>2, BoundAssumption DEF LegacyApart, Init
<1>5. AboutToSend /\ MismatchIsNotReady
  BY DEF Init, Idle, AboutToSend, MismatchIsNotReady
<1> QED
  BY <1>3, <1>4, <1>5, InitType DEF Inv, Init, AtMostOnePost, SentIsNotReady

\* The two steps that are not plain.
LEMMA BeginStep ==
    ASSUME Inv, Typed', WBegin, CanBegin(row[w.g], run)
    PROVE  Inv'
<1> USE DEF Inv
<1>1. w.g \in Gen /\ row[w.g].sub = "ready" /\ posts' = posts
  BY DEF WBegin, CanBegin, Typed, HasItem, ItemPc, Held, comfyui
<1>2. posts[w.g] = 0 /\ w.g \notin Legacy
  BY <1>1 DEF SentIsNotReady, LegacyApart, Typed, TypeOK
<1>3. w' = [w EXCEPT !.pc = "posting"] /\ row' = [row EXCEPT ![w.g] = BeginSubmission(row[w.g])]
  BY DEF WBegin, Store, Go
<1>4. w'.pc = "posting" /\ w'.g = w.g /\ w'.todo = w.todo
  BY <1>3 DEF Typed, TypeOK, Worker
<1>5. /\ row'[w.g].sub = "submitting"
      /\ \A g \in Gen \ {w.g} : row'[g] = row[g]
  BY <1>1, <1>3, SubmissionOperations, Alien \in Prompt DEF Prompt, Typed, TypeOK
<1>6. AtMostOnePost' /\ SentIsNotReady'
  BY <1>1, <1>5 DEF AtMostOnePost, SentIsNotReady
<1>7. ReadyIsBlank'
  BY <1>5 DEF ReadyIsBlank, NoPrompts
<1>8. LegacyApart'
  BY <1>1, <1>2, <1>5, BoundAssumption DEF LegacyApart
<1>9. AboutToSend'
  BY <1>1, <1>2, <1>4, <1>5 DEF AboutToSend
<1>10. MismatchIsNotReady'
  BY <1>4, <1>5 DEF MismatchIsNotReady, Typed, TypeOK, Worker, Item
<1> QED
  BY <1>6, <1>7, <1>8, <1>9, <1>10

\* The POST itself preserves the invariant: nothing was sent for the row yet.
LEMMA PostStep ==
    ASSUME Inv, Typed', WPost
    PROVE  Inv'
<1> USE DEF Inv
<1>1. w.g \in Gen /\ row[w.g].sub = "submitting" /\ posts[w.g] = 0 /\ row' = row
  BY DEF WPost, AboutToSend, Typed, HasItem, ItemPc, Held, database
<1>2. posts' = [posts EXCEPT ![w.g] = 1]
  BY <1>1 DEF WPost
<1>3. posts'[w.g] = 1 /\ \A g \in Gen \ {w.g} : posts'[g] = posts[g]
  BY <1>1, <1>2 DEF Typed, TypeOK
<1>4. w'.pc \in {"accepted", "quarantine"} /\ w'.g = w.g /\ w'.todo = w.todo
  BY DEF WPost, Go, Typed, TypeOK, Worker
<1>5. AtMostOnePost' /\ SentIsNotReady'
  BY <1>1, <1>3 DEF AtMostOnePost, SentIsNotReady
<1>6. ReadyIsBlank'
  BY <1>1 DEF ReadyIsBlank
<1>7. LegacyApart'
  BY <1>1, <1>3, BoundAssumption DEF LegacyApart
<1>8. AboutToSend' /\ MismatchIsNotReady'
  BY <1>1, <1>3, <1>4 DEF AboutToSend, MismatchIsNotReady
<1> QED
  BY <1>5, <1>6, <1>7, <1>8

\* The steps that move a submission, row by row.
LEMMA MarkSubmittedMoves ==
    ASSUME Inv, WMarkSubmitted, CanMarkSubmitted(row[w.g], run), ~Quiet
    PROVE  /\ w.g \in Gen /\ w.pc = "accepted" /\ row[w.g].sub = "submitting"
           /\ row' = [row EXCEPT ![w.g] = MarkSubmitted(row[w.g], w.g)]
           /\ row'[w.g].sub = "submitted"
           /\ posts' = posts /\ w'.pc # "posting"
<1> USE DEF Inv
<1>1. w.g \in Gen /\ w.pc = "accepted" /\ row[w.g].sub = "submitting" /\ posts' = posts
  BY DEF WMarkSubmitted, CanMarkSubmitted, Typed, HasItem, ItemPc, Held, comfyui
<1>2. row' # row
  BY <1>1, QuietStay DEF Quiet
<1>3. row' = [row EXCEPT ![w.g] = MarkSubmitted(row[w.g], w.g)]
  BY <1>2 DEF WMarkSubmitted, Store
<1>4. MarkSubmitted(row[w.g], w.g).sub = "submitted"
  <2>1. row[w.g] \in Row /\ w.g \in Prompt
    BY <1>1 DEF Typed, TypeOK, Prompt
  <2> QED
    BY <2>1, SubmissionOperations
<1>5. w'.pc # "posting"
  BY DEF WMarkSubmitted, Go, Typed, TypeOK, Worker
<1> QED
  BY <1>1, <1>3, <1>4, <1>5 DEF Typed, TypeOK

\* A quarantine puts in doubt one row that was being sent or was in doubt.
LEMMA QuarantineMoves ==
    ASSUME Inv, WQuarantine, CanQuarantine(row[w.g], run)
    PROVE  /\ w.g \in Gen /\ row[w.g].sub \in {"submitting", "ambiguous"}
           /\ row' = [row EXCEPT ![w.g] = Quarantine(row[w.g])]
           /\ row'[w.g].sub = "ambiguous"
           /\ posts' = posts /\ w'.pc # "posting"
<1> USE DEF Inv
<1>1. w.g \in Gen /\ posts[w.g] = 1 /\ posts' = posts
  BY DEF WQuarantine, AboutToSend, Typed, HasItem, ItemPc, Held, comfyui
<1>2. row[w.g].sub \in {"submitting", "ambiguous"}
  BY <1>1 DEF CanQuarantine, SentIsNotReady, Typed, TypeOK, Row, SubmissionState
<1>3. row' = [row EXCEPT ![w.g] = Quarantine(row[w.g])]
  BY DEF WQuarantine, CanQuarantine, Store
<1>4. Quarantine(row[w.g]).sub = "ambiguous"
  BY <1>1, SubmissionOperations, Alien \in Prompt DEF Typed, TypeOK, Prompt
<1>5. w'.pc # "posting"
  BY DEF WQuarantine, CanQuarantine, Halt, Go, Typed, TypeOK, Worker
<1> QED
  BY <1>1, <1>2, <1>3, <1>4, <1>5 DEF Typed, TypeOK

\* A prompt mismatch puts in doubt one row that has left "ready".
LEMMA MismatchMoves ==
    ASSUME Inv, WWrite, w.act = "mismatch"
    PROVE  /\ w.g \in Gen /\ row[w.g].sub # "ready"
           /\ row' = [row EXCEPT ![w.g] = MarkMismatch(row[w.g])]
           /\ row'[w.g].sub = "ambiguous"
           /\ posts' = posts /\ w'.pc # "posting"
<1> USE DEF Inv
<1>1. w.g \in Gen /\ row[w.g].sub # "ready" /\ posts' = posts
  BY DEF WWrite, MismatchIsNotReady, Typed, HasItem, ItemPc, comfyui
<1>2. row' = [row EXCEPT ![w.g] = MarkMismatch(row[w.g])]
  BY DEF WWrite, Store
<1>3. MarkMismatch(row[w.g]).sub = "ambiguous"
  BY <1>1, SubmissionOperations, Alien \in Prompt DEF Typed, TypeOK, Prompt
<1>4. w'.pc # "posting"
  BY DEF WWrite, GoBack, Typed, TypeOK, Worker
<1> QED
  BY <1>1, <1>2, <1>3, <1>4 DEF Typed, TypeOK

\* Linking a prompt settles one row in doubt as submitted, and sends nothing.
LEMMA LinkMoves ==
    ASSUME Inv, NEW g \in Gen, NEW p \in Supplied, LinkAmbiguous(g, p)
    PROVE  /\ row[g].sub = "ambiguous"
           /\ row' = [row EXCEPT ![g] = LinkPrompt(row[g], p)]
           /\ row'[g].sub = "submitted"
           /\ posts' = posts
<1> USE DEF Inv
<1>1. LinkPrompt(row[g], p).sub = "submitted"
  BY SubmissionOperations, BoundAssumption DEF Typed, TypeOK
<1> QED
  BY <1>1 DEF LinkAmbiguous, CanResolve, Store, comfyui, Typed, TypeOK

\* The pass over expired claims only takes rows from sending to doubt.
LEMMA ReconcileMoves ==
    ASSUME Inv, WReconcileExpired
    PROVE  /\ posts' = posts /\ w'.pc # "posting"
           /\ \A g \in Gen : \/ SameSubmission(row[g], row'[g])
                             \/ row[g].sub = "submitting" /\ row'[g].sub = "ambiguous"
<1> USE DEF Inv
<1>1. ASSUME NEW g \in Gen
      PROVE  \/ SameSubmission(row[g], row'[g])
             \/ row[g].sub = "submitting" /\ row'[g].sub = "ambiguous"
  <2>1. row[g] \in Row /\ SameSubmission(row[g], row[g])
    BY QuietOperations, 0 \in Nat DEF Typed, TypeOK
  <2>2. row'[g] = row[g] \/ row'[g] = ReconcileExpired(row[g])
    BY DEF WReconcileExpired
  <2> QED
    BY <2>1, <2>2, ReconcileOperation
<1> QED
  BY <1>1 DEF WReconcileExpired, Go, Typed, TypeOK, Worker, comfyui

\* Every step is a plain one, a POST or the beginning of a submission.
LEMMA PlainOrNot ==
    ASSUME Inv, [Next]_vars
    PROVE  \/ Plain /\ Controlled
           \/ WPost
           \/ WBegin /\ CanBegin(row[w.g], run)
<1> DEFINE single(g) == /\ posts' = posts
                        /\ \A h \in Gen \ {g} : row'[h] = row[h]
                        /\ row[g].sub # "ready"
                        /\ row'[g].sub \in {"submitted", "ambiguous"}
                        /\ row[g].sub = "submitting" => w'.pc # "posting"
<1>1. Quiet => Plain
  BY DEF Quiet, Plain, Moved
<1>2. ASSUME NEW g \in Gen, single(g) PROVE Plain
  <2>1. \A h \in Gen : SameSubmission(row[h], row[h])
    BY QuietOperations, 0 \in Nat DEF Inv, Typed, TypeOK
  <2> QED
    BY <1>2, <2>1 DEF Plain, Moved
<1>3. CASE WReconcileExpired
  <2>1. Plain
    BY <1>3, ReconcileMoves DEF Plain, Moved
  <2>2. WorkerStep
    BY <1>3 DEF WorkerStep
  <2> QED
    BY <2>1, <2>2, ControlWorker
<1>4. CASE WMarkSubmitted /\ CanMarkSubmitted(row[w.g], run) /\ ~Quiet
  <2>1. single(w.g) /\ w.g \in Gen
    BY <1>4, MarkSubmittedMoves DEF Inv, Typed, TypeOK
  <2>2. WorkerStep
    BY <1>4 DEF WorkerStep
  <2> QED
    BY <1>2, <2>1, <2>2, ControlWorker
<1>5. CASE WQuarantine /\ CanQuarantine(row[w.g], run)
  <2>1. single(w.g) /\ w.g \in Gen
    BY <1>5, QuarantineMoves DEF Inv, Typed, TypeOK
  <2>2. WorkerStep
    BY <1>5 DEF WorkerStep
  <2> QED
    BY <1>2, <2>1, <2>2, ControlWorker
<1>6. CASE WWrite /\ w.act = "mismatch"
  <2>1. single(w.g) /\ w.g \in Gen
    BY <1>6, MismatchMoves DEF Inv, Typed, TypeOK
  <2>2. WorkerStep
    BY <1>6 DEF WorkerStep
  <2> QED
    BY <1>2, <2>1, <2>2, ControlWorker
<1>7. CASE \E g \in Gen, p \in Supplied : LinkAmbiguous(g, p)
  <2>1. PICK g \in Gen, p \in Supplied : LinkAmbiguous(g, p)
    BY <1>7
  <2>2. single(g)
    BY <2>1, LinkMoves DEF Inv, Typed, TypeOK
  <2>3. Callers
    BY <1>7 DEF Callers
  <2> QED
    BY <1>2, <2>2, <2>3, ControlOthers
<1>8. CASE WorkerStep
  BY <1>1, <1>3, <1>4, <1>5, <1>6, <1>8, QuietWorker, ControlWorker DEF Inv
<1>9. CASE WHeartbeat \/ WTransactionFails \/ Callers \/ World \/ Restart \/ UNCHANGED vars
  BY <1>1, <1>7, <1>9, QuietOthers, ControlOthers DEF Inv
<1> QED
  BY <1>8, <1>9 DEF Next, Steps

\* Every step of the system preserves the invariant.
LEMMA InvStep == Inv /\ [Next]_vars => Inv'
<1> SUFFICES ASSUME Inv, [Next]_vars PROVE Inv'
  OBVIOUS
<1>1. Typed'
  BY StepTypes DEF Inv
<1> QED
  BY <1>1, PlainOrNot, PlainStep, BeginStep, PostStep

\* The invariant holds in every reachable state.
LEMMA InvAlways == Spec => []Inv
  BY InvInit, InvStep, PTL DEF Spec

\* At most one POST /prompt is sent for a generation, for any number of
\* generations, restarts, failed transactions, expired leases, cancellations
\* and operator decisions (begin_submission, reconcile_expired_claims).
THEOREM PostedOnce == Spec => []AtMostOnePost
<1>1. Inv => AtMostOnePost
  BY DEF Inv
<1> QED
  BY <1>1, InvAlways, PTL

\* No row that a migration quarantined is ever sent, whatever prompt ids the
\* operator links to it.
THEOREM LegacyStaysUnsent == Spec => []LegacyIsNeverSent
<1>1. Inv => LegacyIsNeverSent
  BY DEF Inv, LegacyApart, LegacyIsNeverSent
<1> QED
  BY <1>1, InvAlways, PTL

-----------------------------------------------------------------------------
(* The queue implements SubmitOnce.                                         *)

phase == [g \in Gen |-> Phase(row[g].sub)]

\* One row moves, and with it one generation of SubmitOnce.
LEMMA MoveMaps ==
    ASSUME Typed, NEW g \in Gen, NEW q, row' = [row EXCEPT ![g] = q], posts' = posts
    PROVE  Promise!Move(g, Phase(row[g].sub), Phase(q.sub))
<1>1. phase' = [phase EXCEPT ![g] = Phase(q.sub)]
  BY DEF phase, Typed, TypeOK
<1>2. phase[g] = Phase(row[g].sub)
  BY DEF phase
<1> QED
  BY <1>1, <1>2 DEF Promise!Move, phase

\* A step that leaves every submission state alone is a stutter of SubmitOnce.
LEMMA StutterMaps ==
    ASSUME posts' = posts, \A g \in Gen : row'[g].sub = row[g].sub
    PROVE  UNCHANGED <<phase, posts>>
  BY DEF phase

\* Taking a set of rows from "submitting" to "ambiguous" is one Doubt step of
\* SubmitOnce.
LEMMA DoubtMaps ==
    ASSUME posts' = posts, NEW G \in SUBSET Gen, G # {},
           \A g \in G : row[g].sub = "submitting" /\ row'[g].sub = "ambiguous",
           \A g \in Gen \ G : row'[g].sub = row[g].sub
    PROVE  Promise!Doubt(G)
<1>1. \A g \in G : phase[g] = "sending" /\ phase'[g] = "doubt"
  BY DEF phase, Phase
<1>2. phase' = [g \in Gen |-> IF g \in G THEN "doubt" ELSE phase[g]]
  <2>1. Phase("ambiguous") = "doubt"
    BY DEF Phase
  <2>2. \A g \in Gen : Phase(row'[g].sub) = IF g \in G THEN "doubt" ELSE Phase(row[g].sub)
    BY <2>1
  <2> QED
    BY <2>2 DEF phase
<1> QED
  BY <1>1, <1>2 DEF Promise!Doubt, phase

\* Every step of the queue is a step of SubmitOnce or a stutter.
LEMMA StepMaps ==
    ASSUME Inv, [Next]_vars
    PROVE  [Promise!Next]_<<phase, posts>>
<1> USE DEF Inv
<1>1. CASE Quiet
  BY <1>1, StutterMaps DEF Quiet, SameSubmission
<1>2. CASE WReconcileExpired
  <2> DEFINE G == {g \in Gen : row[g].sub = "submitting" /\ row'[g].sub = "ambiguous"}
  <2>1. posts' = posts /\ \A g \in Gen \ G : row'[g].sub = row[g].sub
    BY <1>2, ReconcileMoves DEF SameSubmission
  <2>2. CASE G = {}
    BY <2>1, <2>2, StutterMaps
  <2>3. CASE G # {}
    BY <2>1, <2>3, DoubtMaps DEF Promise!Next
  <2> QED
    BY <2>2, <2>3
<1>3. CASE WPost
  <2>1. w.g \in Gen /\ row[w.g].sub = "submitting" /\ posts[w.g] = 0 /\ row' = row
    BY <1>3 DEF WPost, AboutToSend, Typed, HasItem, ItemPc, Held, database
  <2>2. posts' = [posts EXCEPT ![w.g] = 1]
    BY <1>3, <2>1 DEF WPost
  <2>3. phase[w.g] = "sending" /\ phase' = phase
    BY <2>1 DEF phase, Phase
  <2>4. Promise!Send(w.g)
    BY <2>1, <2>2, <2>3 DEF Promise!Send, phase
  <2> QED
    BY <2>1, <2>4 DEF Promise!Next
<1>4. CASE WBegin /\ CanBegin(row[w.g], run)
  <2>1. w.g \in Gen /\ row[w.g].sub = "ready" /\ posts' = posts
    BY <1>4 DEF WBegin, CanBegin, Typed, HasItem, ItemPc, Held, comfyui
  <2>2. row' = [row EXCEPT ![w.g] = BeginSubmission(row[w.g])]
    BY <1>4 DEF WBegin, Store
  <2>3. BeginSubmission(row[w.g]).sub = "submitting"
    BY <2>1, SubmissionOperations, Alien \in Prompt DEF Prompt, Typed, TypeOK
  <2>4. Promise!Move(w.g, "waiting", "sending")
    BY <2>1, <2>2, <2>3, MoveMaps DEF Phase
  <2> QED
    BY <2>1, <2>4 DEF Promise!Begin, Promise!Next
<1>5. CASE WMarkSubmitted /\ CanMarkSubmitted(row[w.g], run) /\ ~Quiet
  <2>1. /\ w.g \in Gen /\ w.pc = "accepted" /\ row[w.g].sub = "submitting"
        /\ row' = [row EXCEPT ![w.g] = MarkSubmitted(row[w.g], w.g)]
        /\ row'[w.g].sub = "submitted" /\ posts' = posts
    BY <1>5, MarkSubmittedMoves
  <2>2. MarkSubmitted(row[w.g], w.g).sub = "submitted"
    BY <2>1 DEF Typed, TypeOK
  <2>3. Promise!Move(w.g, "sending", "sent")
    BY <2>1, <2>2, MoveMaps DEF Phase
  <2>4. Promise!Confirm(w.g)
    BY <2>1, <2>3 DEF Promise!Confirm, AboutToSend
  <2> QED
    BY <2>1, <2>4 DEF Promise!Next
<1>6. ASSUME NEW g \in Gen, NEW q, row[g].sub # "ready", q.sub = "ambiguous",
             row' = [row EXCEPT ![g] = q], posts' = posts
      PROVE  [Promise!Next]_<<phase, posts>>
  <2>1. row'[g].sub = "ambiguous" /\ \A h \in Gen \ {g} : row'[h].sub = row[h].sub
    BY <1>6 DEF Typed, TypeOK
  <2>2. row[g].sub \in {"submitting", "submitted", "ambiguous"}
    BY <1>6 DEF Typed, TypeOK, Row, SubmissionState
  <2>3. CASE row[g].sub = "submitting"
    BY <1>6, <2>1, <2>3, DoubtMaps, {g} \in SUBSET Gen DEF Promise!Next
  <2>4. CASE row[g].sub = "submitted"
    <3>1. Promise!Move(g, "sent", "doubt")
      BY <1>6, <2>4, MoveMaps DEF Phase
    <3> QED
      BY <3>1 DEF Promise!Reopen, Promise!Next
  <2>5. CASE row[g].sub = "ambiguous"
    BY <1>6, <2>1, <2>5, StutterMaps
  <2> QED
    BY <2>2, <2>3, <2>4, <2>5
<1>7. CASE WQuarantine /\ CanQuarantine(row[w.g], run)
  <2>1. /\ w.g \in Gen /\ row[w.g].sub # "ready"
        /\ row' = [row EXCEPT ![w.g] = Quarantine(row[w.g])]
        /\ row'[w.g].sub = "ambiguous" /\ posts' = posts
    BY <1>7, QuarantineMoves
  <2>2. Quarantine(row[w.g]).sub = "ambiguous"
    BY <2>1 DEF Typed, TypeOK
  <2> QED
    BY <1>6, <2>1, <2>2
<1>8. CASE WWrite /\ w.act = "mismatch"
  <2>1. /\ w.g \in Gen /\ row[w.g].sub # "ready"
        /\ row' = [row EXCEPT ![w.g] = MarkMismatch(row[w.g])]
        /\ row'[w.g].sub = "ambiguous" /\ posts' = posts
    BY <1>8, MismatchMoves
  <2>2. MarkMismatch(row[w.g]).sub = "ambiguous"
    BY <2>1 DEF Typed, TypeOK
  <2> QED
    BY <1>6, <2>1, <2>2
<1>9. CASE \E g \in Gen, p \in Supplied : LinkAmbiguous(g, p)
  <2>1. PICK g \in Gen, p \in Supplied : LinkAmbiguous(g, p)
    BY <1>9
  <2>2. /\ row[g].sub = "ambiguous" /\ row' = [row EXCEPT ![g] = LinkPrompt(row[g], p)]
        /\ row'[g].sub = "submitted" /\ posts' = posts
    BY <2>1, LinkMoves
  <2>3. LinkPrompt(row[g], p).sub = "submitted"
    BY <2>2 DEF Typed, TypeOK
  <2>4. Promise!Move(g, "doubt", "sent")
    BY <2>2, <2>3, MoveMaps DEF Phase
  <2> QED
    BY <2>4 DEF Promise!Resolve, Promise!Next
<1>10. CASE WorkerStep
  BY <1>1, <1>2, <1>3, <1>4, <1>5, <1>7, <1>8, <1>10, QuietWorker
<1>11. CASE WHeartbeat \/ WTransactionFails \/ Callers \/ World \/ Restart \/ UNCHANGED vars
  BY <1>1, <1>9, <1>11, QuietOthers
<1> QED
  BY <1>10, <1>11 DEF Next, Steps

\* The initial tables are initial states of SubmitOnce.
LEMMA InitMaps == Init => Promise!Init
<1> SUFFICES ASSUME Init PROVE Promise!Init
  OBVIOUS
<1>1. PICK order \in [Legacy -> 1..Cardinality(Legacy)] :
         \A g \in Gen : IF g \in Legacy THEN row[g] \in QuarantinedByMigration(g, order[g])
                                        ELSE row[g] = Absent
  BY DEF Init
<1>2. ASSUME NEW g \in Gen PROVE row[g].sub \in {"ready", "ambiguous"}
  <2>1. CASE g \in Legacy
    BY <1>1, <2>1 DEF QuarantinedByMigration, Absent
  <2>2. CASE g \notin Legacy
    BY <1>1, <2>2 DEF Absent
  <2> QED
    BY <2>1, <2>2
<1>3. phase \in [Gen -> {"waiting", "doubt"}]
  BY <1>2 DEF phase, Phase
<1> QED
  BY <1>3 DEF Promise!Init, phase, Init

\* The queue, with its crashes, lost answers, cancellations and operators,
\* implements SubmitOnce: every generation waits, is sent once, and is then
\* known to be sent or in doubt, and nothing ever waits twice.
THEOREM Refinement == Spec => KeepsPromise
<1>1. Inv /\ [Next]_vars => [Promise!Next]_<<phase, posts>>
  BY StepMaps
<1>2. Spec => Promise!Init /\ [][Promise!Next]_<<phase, posts>>
  BY <1>1, InitMaps, InvAlways, PTL DEF Spec
<1> QED
  BY <1>2, PTL DEF KeepsPromise, Promise!Spec, phase

-----------------------------------------------------------------------------
(* What the repository operations do to the statuses, claims, leases and    *)
(* requests of a row.                                                       *)

\* A row that was never sent knows no prompt.
Blank(r) == r.sub \in {"ready", "submitting"} => NoPrompts(r)

\* A worker's submission in progress is at most failed by others.
Busy(r) == r.sub = "submitting" /\ r.worker # 0

Begun(r) == Busy(r) => r.gen = r.job /\ r.gen \in {"pending", "failed"}

\* Without a recovery pass it is not even that.
Steady(r) == Busy(r) => r.gen = "pending"

\* A row that is claimed, or unfinished and being submitted, has a lease.
Leased(r) == r.worker # 0 \/ (r.sub = "submitting" /\ ~Over(r)) => r.lease # "none"

Sound(r) == Blank(r) /\ Begun(r) /\ Leased(r)

\* What a row that has ended may still become.
Stays(r, q) ==
    /\ r.gen \in {"completed", "cancelled"} => q.gen = r.gen
    /\ r.gen = "failed" => q.gen = "failed" \/ r.audit = "migration" \/ Busy(r)

\* Generation and job agree, as they do unless a migration met older data.
Twin(r) == r.gen = r.job /\ r.gprompt = r.jprompt /\ r.audit # "migration"

\* A row knows a prompt only once that prompt was recorded as submitted.
Pure(r) == r.sub # "submitted" => NoPrompts(r)

\* A row in doubt says so.
Known(r) == r.sub = "ambiguous" /\ ~Over(r) => r.audit \in {"ambiguous", "migration"}

\* A row that nobody has claimed and anybody may.
Free(r) == CanClaim(r) /\ r.lease = "none"

\* What no operation but begin_submission breaks.
Lasts(r, q) ==
    /\ q \in Row /\ q.seq = r.seq
    /\ r.cancel => q.cancel
    /\ q.sub = r.sub \/ (r.sub # "ready" /\ q.sub \in {"submitted", "ambiguous"})
    /\ Stays(r, q)
    /\ Sound(q)

\* The recovery pass breaks steadiness, too.
Advances(r, q) == Lasts(r, q) /\ (Steady(r) => Steady(q))

\* What no operation but mark_reconciliation_mismatch breaks.
Tidy(r, q) ==
    /\ Twin(r) => Twin(q)
    /\ Pure(r) => Pure(q) /\ (NoPrompts(r) \/ (q.gprompt = r.gprompt /\ q.jprompt = r.jprompt))

Ordinary(r, q) ==
    /\ Advances(r, q)
    /\ Tidy(r, q)
    /\ Known(r) => Known(q)
    /\ Free(q) => Free(r)
    /\ q.gen = "cancelled" => r.gen = "cancelled"

\* What most operations keep of a row.
LEMMA OrdinaryOperations ==
    ASSUME NEW r \in Row, NEW n \in Nat \ {0}, NEW p \in Prompt, Sound(r)
    PROVE  /\ Ordinary(r, r)
           /\ Ordinary(r, RequestCancel(r))
           /\ r.lease = "live" => Ordinary(r, [r EXCEPT !.lease = "expired"])
           /\ Ordinary(r, Renew(r))
           /\ CanClaim(r) => Ordinary(r, Claim(r, n))
           /\ CanMarkSubmitted(r, n) => Ordinary(r, MarkSubmitted(r, p))
           /\ CanQuarantine(r, n) /\ r.sub # "ready" => Ordinary(r, Quarantine(r))
           /\ CanProgress(r) => Ordinary(r, Progress(r))
           /\ CanComplete(r) /\ r.sub # "submitting" => Ordinary(r, Complete(r))
           /\ CanFail(r) /\ r.sub # "submitting" => Ordinary(r, Fail(r))
           /\ Ordinary(r, MarkMissing(r))
           /\ CanResolve(r) => Ordinary(r, LinkPrompt(r, p))
           /\ CanResolve(r) => Ordinary(r, FailAmbiguous(r))
<1> USE DEF Ordinary, Advances, Lasts, Stays, Steady, Busy, Tidy, Sound, Blank, Begun,
            Leased, Twin, Pure, Known, Free, NoPrompts, Over, Terminal, Active, Status, Row
<1>1. Ordinary(r, r)
  OBVIOUS
<1>2. Ordinary(r, RequestCancel(r))
  <2> DEFINE q == RequestCancel(r)
  <2>1. /\ q \in Row /\ q.cancel /\ q.seq = r.seq /\ q.gen = r.gen /\ q.job = r.job
        /\ q.gprompt = r.gprompt /\ q.jprompt = r.jprompt /\ q.sub = r.sub
        /\ q.worker = r.worker /\ q.lease = r.lease /\ q.audit = r.audit
    BY DEF RequestCancel
  <2> HIDE DEF q
  <2>2. Advances(r, q)
    BY <2>1
  <2>3. Tidy(r, q) /\ (Known(r) => Known(q))
    BY <2>1
  <2>4. ~Free(q)
    BY <2>1 DEF CanClaim
  <2>5. q.gen = "cancelled" => r.gen = "cancelled"
    BY <2>1
  <2>6. Ordinary(r, q)
    BY <2>2, <2>3, <2>4, <2>5 DEF Ordinary
  <2> QED
    BY <2>6 DEF q
<1>3. r.lease = "live" => Ordinary(r, [r EXCEPT !.lease = "expired"])
  BY DEF CanClaim, Exists, Lease
<1>4. Ordinary(r, Renew(r))
  BY DEF Renew, CanClaim, Exists, Lease
<1>5. CanClaim(r) => Ordinary(r, Claim(r, n))
  BY DEF Claim, CanClaim, Exists, Lease
<1>6. CanMarkSubmitted(r, n) => Ordinary(r, MarkSubmitted(r, p))
  BY PromptAssumption DEF CanMarkSubmitted, MarkSubmitted, Both, CanClaim, Exists,
     SubmissionState
<1>7. CanQuarantine(r, n) /\ r.sub # "ready" => Ordinary(r, Quarantine(r))
  BY DEF CanQuarantine, Quarantine, Unclaimed, CanClaim, Exists, SubmissionState, Lease,
     Audit
<1>8. CanProgress(r) => Ordinary(r, Progress(r))
  BY DEF CanProgress, Progress, Both, CanClaim, Exists
<1>9. CanComplete(r) /\ r.sub # "submitting" => Ordinary(r, Complete(r))
  BY DEF CanComplete, ValidTransition, Complete, Both, CanClaim, Exists
<1>10. CanFail(r) /\ r.sub # "submitting" => Ordinary(r, Fail(r))
  BY DEF CanFail, Fail, Both, CanClaim, Exists, Audit
<1>11. Ordinary(r, MarkMissing(r))
  <2> DEFINE gen == IF r.gen \in Terminal THEN r.gen ELSE "failed"
             job == IF r.job \in Terminal THEN r.job ELSE "failed"
             audit == IF r.gen \in Terminal /\ r.job \in Terminal THEN r.audit ELSE "other"
             q == [Unclaimed(r) EXCEPT !.gen = gen, !.job = job, !.audit = audit]
  <2>1. gen \in Terminal /\ job \in Terminal /\ audit \in Audit
    BY DEF Audit
  <2>2. gen = (IF r.gen \in Terminal THEN r.gen ELSE "failed")
        /\ job = (IF r.job \in Terminal THEN r.job ELSE "failed")
        /\ (audit = r.audit \/ audit = "other")
    OBVIOUS
  <2>3. q = MarkMissing(r)
    BY DEF MarkMissing
  <2> HIDE DEF gen, job, audit
  <2>4. /\ q \in Row /\ q.seq = r.seq /\ q.cancel = r.cancel /\ q.sub = r.sub
        /\ q.gprompt = r.gprompt /\ q.jprompt = r.jprompt /\ q.worker = 0
        /\ q.gen = gen /\ q.job = job /\ q.audit = audit
    <3> DEFINE u == Unclaimed(r)
    <3>1. /\ u \in Row /\ u.seq = r.seq /\ u.cancel = r.cancel /\ u.sub = r.sub
          /\ u.gprompt = r.gprompt /\ u.jprompt = r.jprompt /\ u.worker = 0
      BY DEF Unclaimed, Lease
    <3>2. q = [u EXCEPT !.gen = gen, !.job = job, !.audit = audit]
      OBVIOUS
    <3> HIDE DEF u, q
    <3> QED
      BY <2>1, <3>1, <3>2
  <2> HIDE DEF q
  <2>5. Advances(r, q)
    BY <2>1, <2>4, <2>2
  <2>6. Tidy(r, q)
    BY <2>4, <2>2
  <2>7. Ordinary(r, q)
    BY <2>1, <2>4, <2>2, <2>5, <2>6 DEF CanClaim
  <2> QED
    BY <2>3, <2>7
<1>12. CanResolve(r) => Ordinary(r, LinkPrompt(r, p))
  BY PromptAssumption DEF CanResolve, LinkPrompt, Unclaimed, Both, CanClaim, Exists,
     SubmissionState, Lease, Audit
<1>13. CanResolve(r) => Ordinary(r, FailAmbiguous(r))
  BY DEF CanResolve, FailAmbiguous, Unclaimed, Both, CanClaim, Exists, Lease, Audit
<1> QED
  BY <1>1, <1>2, <1>3, <1>4, <1>5, <1>6, <1>7, <1>8, <1>9, <1>10, <1>11, <1>12, <1>13

\* What the others keep: those that cancel, put in doubt, resolve or report
\* a mismatch, and the one that begins a submission.
LEMMA OtherOperations ==
    ASSUME NEW r \in Row, NEW n \in Nat \ {0}, Sound(r)
    PROVE  /\ CanMarkCancelled(r) =>
                /\ Advances(r, MarkCancelled(r)) /\ Tidy(r, MarkCancelled(r))
                /\ Known(r) => Known(MarkCancelled(r))
                /\ ~Free(MarkCancelled(r)) /\ MarkCancelled(r).cancel
           /\ /\ Advances(r, ReconcileExpired(r)) /\ Tidy(r, ReconcileExpired(r))
              /\ Known(r) /\ r.sub # "submitting" => Known(ReconcileExpired(r))
              /\ ReconcileExpired(r).gen = "cancelled" =>
                   r.gen = "cancelled" \/ (r.sub = "ready" /\ r.cancel)
           /\ r.sub # "submitting" =>
                /\ Advances(r, Unclaimed(r)) /\ Tidy(r, Unclaimed(r))
                /\ Known(r) => Known(Unclaimed(r))
                /\ Unclaimed(r).gen = r.gen
           /\ CanBegin(r, n) /\ Leased(r) =>
                /\ BeginSubmission(r) \in Row /\ BeginSubmission(r).seq = r.seq
                /\ BeginSubmission(r).cancel = r.cancel
                /\ BeginSubmission(r).gen = r.gen /\ BeginSubmission(r).sub = "submitting"
                /\ BeginSubmission(r).gen = "pending"
                /\ Sound(BeginSubmission(r)) /\ Tidy(r, BeginSubmission(r))
                /\ Known(BeginSubmission(r)) /\ ~Free(BeginSubmission(r))
           /\ r.sub # "ready" =>
                /\ Advances(r, MarkMismatch(r))
                /\ Known(r) => Known(MarkMismatch(r))
                /\ ~Free(MarkMismatch(r)) /\ MarkMismatch(r).gen = r.gen
<1> USE DEF Advances, Lasts, Stays, Steady, Busy, Tidy, Sound, Blank, Begun, Leased, Twin,
            Pure, Known, Free,
            NoPrompts, Over, Terminal, Active, Status, Row
<1>1. CanMarkCancelled(r) =>
                /\ Advances(r, MarkCancelled(r)) /\ Tidy(r, MarkCancelled(r))
                /\ Known(r) => Known(MarkCancelled(r))
                /\ ~Free(MarkCancelled(r)) /\ MarkCancelled(r).cancel
  BY DEF CanMarkCancelled, MarkCancelled, Unclaimed, Both, CanClaim, Exists, Lease
<1>2. /\ Advances(r, ReconcileExpired(r)) /\ Tidy(r, ReconcileExpired(r))
      /\ Known(r) /\ r.sub # "submitting" => Known(ReconcileExpired(r))
      /\ ReconcileExpired(r).gen = "cancelled" =>
           r.gen = "cancelled" \/ (r.sub = "ready" /\ r.cancel)
  <2> DEFINE dropped == r.cancel /\ r.sub = "ready" /\ NoPrompts(r)
                     /\ r.gen = "pending" /\ r.job = "pending"
             sub == IF r.sub = "submitting" THEN "ambiguous" ELSE r.sub
  <2>1. CASE dropped
    <3> DEFINE q == [r EXCEPT !.gen = "cancelled", !.job = "cancelled",
                              !.worker = 0, !.lease = "none"]
    <3>1. ReconcileExpired(r) = q
      BY <2>1 DEF ReconcileExpired, Unclaimed, Both
    <3>2. /\ q \in Row /\ q.seq = r.seq /\ q.cancel = r.cancel /\ q.sub = r.sub
          /\ q.gprompt = r.gprompt /\ q.jprompt = r.jprompt /\ q.worker = 0
          /\ q.gen = "cancelled" /\ q.job = "cancelled" /\ q.audit = r.audit
      BY DEF Lease
    <3> HIDE DEF q
    <3> QED
      BY <2>1, <3>1, <3>2
  <2>2. CASE ~dropped
    <3> DEFINE q == [r EXCEPT !.worker = 0, !.lease = "none", !.sub = sub]
    <3>1. ReconcileExpired(r) = q
      BY <2>2 DEF ReconcileExpired, Unclaimed, Both
    <3>2. /\ sub \in SubmissionState /\ (sub = r.sub \/ (r.sub = "submitting" /\ sub = "ambiguous"))
          /\ sub # "submitting"
      BY DEF SubmissionState
    <3> HIDE DEF sub
    <3>3. /\ q \in Row /\ q.seq = r.seq /\ q.cancel = r.cancel /\ q.sub = sub
          /\ q.gprompt = r.gprompt /\ q.jprompt = r.jprompt /\ q.worker = 0
          /\ q.gen = r.gen /\ q.job = r.job /\ q.audit = r.audit
      BY <3>2 DEF Lease
    <3> HIDE DEF q
    <3> QED
      BY <3>1, <3>2, <3>3
  <2> QED
    BY <2>1, <2>2
<1>3. r.sub # "submitting" =>
                /\ Advances(r, Unclaimed(r)) /\ Tidy(r, Unclaimed(r))
                /\ Known(r) => Known(Unclaimed(r))
                /\ Unclaimed(r).gen = r.gen
  BY DEF Unclaimed, CanClaim, Exists, Lease
<1>4. CanBegin(r, n) /\ Leased(r) =>
                /\ BeginSubmission(r) \in Row /\ BeginSubmission(r).seq = r.seq
                /\ BeginSubmission(r).cancel = r.cancel
                /\ BeginSubmission(r).gen = r.gen /\ BeginSubmission(r).sub = "submitting"
                /\ BeginSubmission(r).gen = "pending"
                /\ Sound(BeginSubmission(r)) /\ Tidy(r, BeginSubmission(r))
                /\ Known(BeginSubmission(r)) /\ ~Free(BeginSubmission(r))
  BY DEF CanBegin, BeginSubmission, CanClaim, Exists, SubmissionState
<1>5. r.sub # "ready" =>
                /\ Advances(r, MarkMismatch(r))
                /\ Known(r) => Known(MarkMismatch(r))
                /\ ~Free(MarkMismatch(r)) /\ MarkMismatch(r).gen = r.gen
  BY DEF MarkMismatch, Unclaimed, CanClaim, Exists, SubmissionState, Lease, Audit
<1> QED
  BY <1>1, <1>2, <1>3, <1>4, <1>5
-----------------------------------------------------------------------------
(* Which operation a step may apply to which row.                           *)

Settled(g) == row[g].sub \in {"submitted", "ambiguous"}

\* Rows are numbered below nextSeq; what does not exist is blank.
Rows == \A g \in Gen : /\ row[g].seq < nextSeq
                       /\ ~Exists(row[g]) => row[g] = Absent
                       /\ Sound(row[g])

\* What the worker knows about the row in its hand.
Handling ==
    /\ w.pc \in ItemPc => Exists(row[w.g])
    /\ w.pc \in {"claimed", "prepared", "beginning"} => row[w.g].sub = "ready"
    /\ w.pc \in {"watching", "storing", "completing", "stopping", "looking"} => Settled(w.g)
    /\ w.pc = "writing" /\ w.act \notin {"cancelled", "mismatch"} => Settled(w.g)
    /\ w.pc \in {"failing", "releasing"} => row[w.g].sub # "submitting"
    /\ w.back = "releasing" /\ w.pc \in {"cancelling", "writing"} => row[w.g].sub # "submitting"
    /\ w.pc = "scanning" => w.back = "scanning"

\* What it knows about the items it has listed.
Listed == \A item \in w.todo : /\ Exists(row[item.g])
                               /\ item.kind = "prompt" => Settled(item.g)

Base == Inv /\ Rows /\ Handling /\ Listed

Enqueued(r, q) == /\ r = Absent
                  /\ \E n \in Nat : /\ nextSeq <= n /\ n < nextSeq'
                                    /\ q = [Absent EXCEPT !.seq = n]

\* Who cancels a row, and how it came to that.
Cancels(g) == \/ w.pc = "writing" /\ w.act = "cancelled" /\ g = w.g
              \/ ui.pc = "marking" /\ g = ui.g
              \/ ui.pc = "dropping" /\ g = ui.g
              \/ w.pc = "callback" /\ g \in Interactive

Changes(g) ==
    LET r == row[g]
        q == row'[g]
    IN  \/ q = r
        \/ Enqueued(r, q)
        \/ Exists(r) /\ Ordinary(r, q)
        \/ CanMarkCancelled(r) /\ Cancels(g) /\ q = MarkCancelled(r)
        \/ w.pc \in {"start", "top"} /\ Expired(r) /\ q = ReconcileExpired(r)
        \/ w.pc = "releasing" /\ g = w.g /\ Exists(r) /\ q = Unclaimed(r)
        \/ w.pc = "beginning" /\ g = w.g /\ Exists(r) /\ CanBegin(r, run)
             /\ q = BeginSubmission(r) /\ w'.pc = "posting" /\ w'.g = w.g
        \/ w.pc = "writing" /\ w.act = "mismatch" /\ g = w.g /\ Exists(r) /\ q = MarkMismatch(r)

\* Storing one row leaves the others alone.
LEMMA StoreOne ==
    ASSUME Typed, NEW g \in Gen, NEW q, Store(g, q)
    PROVE  row'[g] = q /\ \A h \in Gen \ {g} : row'[h] = row[h]
  BY DEF Typed, TypeOK, Store

\* A step of the worker applies one operation to one row.
LEMMA WorkerChanges ==
    ASSUME Base, WorkerStep
    PROVE  nextSeq' = nextSeq /\ \A g \in Gen : Changes(g)
<1> DEFINE r == row[w.g]
<1>1. \A g \in Gen : row[g] \in Row /\ Sound(row[g])
  BY DEF Base, Inv, Typed, TypeOK, Rows
<1>2. run \in Nat \ {0} /\ w \in Worker /\ Typed
  BY DEF Base, Inv, Typed, TypeOK
<1>3. w.pc \in ItemPc => w.g \in Gen /\ w.g \in Prompt /\ Exists(r)
  BY DEF Base, Inv, Typed, HasItem, Prompt, Handling
<1>4. CASE \/ WSkipReconcile \/ WList \/ WScanned \/ \E item \in w.todo : WVisit(item)
           \/ WCancelRead \/ WStopPrompt \/ WLook \/ WNothingToClaim
           \/ WExecute \/ WPrepareFails \/ WCheckCancel \/ WPost
           \/ WSeesCancel \/ WHistory \/ WStoreImages
  <2>1. row' = row /\ nextSeq' = nextSeq
    BY <1>4 DEF WSkipReconcile, WList, WScanned, WVisit, WCancelRead, WStopPrompt, WLook,
                WNothingToClaim, WExecute, WPrepareFails, WCheckCancel, WPost,
                WSeesCancel, WHistory, WStoreImages, database
  <2> QED
    BY <2>1 DEF Changes
<1>5. CASE WReconcileExpired
  BY <1>5 DEF WReconcileExpired, Changes
<1>6. CASE WWrite
  <2>1. /\ w.g \in Gen /\ Exists(r) /\ nextSeq' = nextSeq /\ w.pc = "writing"
        /\ w.act \notin {"cancelled", "mismatch"} => r.sub # "submitting"
        /\ w.act = "mismatch" => r.sub # "ready"
    BY <1>3, <1>6 DEF WWrite, ItemPc, Base, Inv, MismatchIsNotReady, Handling, Settled
  <2> DEFINE q == CASE w.act = "cancelled" /\ CanMarkCancelled(r) -> MarkCancelled(r)
                    [] w.act = "complete"  /\ CanComplete(r)      -> Complete(r)
                    [] w.act = "fail"      /\ CanFail(r)          -> Fail(r)
                    [] w.act = "missing"                          -> MarkMissing(r)
                    [] w.act = "mismatch"                         -> MarkMismatch(r)
                    [] OTHER                                      -> r
  <2>2. Store(w.g, q)
    BY <1>6 DEF WWrite
  <2>3. \/ q = r
        \/ Ordinary(r, q)
        \/ w.act = "cancelled" /\ CanMarkCancelled(r) /\ q = MarkCancelled(r)
        \/ w.act = "mismatch" /\ q = MarkMismatch(r)
    <3>1. Alien \in Prompt
      BY DEF Prompt
    <3>2. /\ Ordinary(r, MarkMissing(r))
          /\ w.act = "complete" /\ CanComplete(r) => Ordinary(r, Complete(r))
          /\ w.act = "fail" /\ CanFail(r) => Ordinary(r, Fail(r))
      BY <1>1, <1>2, <2>1, <3>1, OrdinaryOperations
    <3> QED
      BY <3>2
  <2> HIDE DEF q
  <2>4. row'[w.g] = q /\ \A h \in Gen \ {w.g} : row'[h] = row[h]
    BY <1>2, <2>1, <2>2, StoreOne
  <2> QED
    BY <2>1, <2>3, <2>4 DEF Changes, Cancels
<1>7. CASE \E g \in Gen : WClaim(g)
  <2>1. PICK g \in Gen : WClaim(g)
    BY <1>7
  <2>2. Store(g, Claim(row[g], run)) /\ CanClaim(row[g]) /\ nextSeq' = nextSeq
    BY <2>1 DEF WClaim, NextInLine
  <2>3. Ordinary(row[g], Claim(row[g], run)) /\ Exists(row[g])
    BY <1>1, <1>2, <2>2, OrdinaryOperations, Alien \in Prompt DEF Prompt, CanClaim
  <2>4. row'[g] = Claim(row[g], run) /\ \A h \in Gen \ {g} : row'[h] = row[h]
    BY <1>2, <2>2, StoreOne
  <2> QED
    BY <2>2, <2>3, <2>4 DEF Changes
<1>8. CASE WBegin
  <2>1. w.g \in Gen /\ Exists(r) /\ nextSeq' = nextSeq /\ w.pc = "beginning"
    BY <1>3, <1>8 DEF WBegin, ItemPc, Held
  <2>2. CASE CanBegin(r, run)
    <3>1. Store(w.g, BeginSubmission(r)) /\ w'.pc = "posting" /\ w'.g = w.g
      BY <1>2, <1>8, <2>2 DEF WBegin, Go, Worker
    <3>2. row'[w.g] = BeginSubmission(r) /\ \A h \in Gen \ {w.g} : row'[h] = row[h]
      BY <1>2, <2>1, <3>1, StoreOne
    <3> QED
      BY <2>1, <2>2, <3>1, <3>2 DEF Changes
  <2>3. CASE ~CanBegin(r, run)
    BY <1>8, <2>1, <2>3 DEF WBegin, Changes
  <2> QED
    BY <2>2, <2>3
<1>9. CASE WMarkSubmitted \/ WQuarantine \/ WProgress \/ WComplete \/ WFail
  <2>1. w.g \in Gen /\ w.g \in Prompt /\ Exists(r) /\ nextSeq' = nextSeq
    BY <1>3, <1>9 DEF WMarkSubmitted, WQuarantine, WProgress, WComplete, WFail, ItemPc, Held
  <2>2. /\ w.pc \in {"completing", "failing"} => r.sub # "submitting"
        /\ w.pc = "quarantine" => r.sub # "ready"
    BY <2>1 DEF Base, Handling, Settled, Inv, AboutToSend, SentIsNotReady, Typed, TypeOK
  <2>3. row' = row \/ \E q : Store(w.g, q) /\ Ordinary(r, q)
    <3>1. /\ Ordinary(r, r)
          /\ CanMarkSubmitted(r, run) => Ordinary(r, MarkSubmitted(r, w.g))
          /\ CanQuarantine(r, run) /\ r.sub # "ready" => Ordinary(r, Quarantine(r))
          /\ CanProgress(r) => Ordinary(r, Progress(r))
          /\ CanComplete(r) /\ r.sub # "submitting" => Ordinary(r, Complete(r))
          /\ CanFail(r) /\ r.sub # "submitting" => Ordinary(r, Fail(r))
      BY <1>1, <1>2, <2>1, OrdinaryOperations
    <3>2. CASE WMarkSubmitted
      BY <3>1, <3>2 DEF WMarkSubmitted
    <3>3. CASE WQuarantine
      BY <2>2, <3>1, <3>3 DEF WQuarantine
    <3>4. CASE WProgress
      BY <3>1, <3>4 DEF WProgress
    <3>5. CASE WComplete
      BY <2>2, <3>1, <3>5 DEF WComplete
    <3>6. CASE WFail
      BY <2>2, <3>1, <3>6 DEF WFail
    <3> QED
      BY <1>9, <3>2, <3>3, <3>4, <3>5, <3>6
  <2> QED
    BY <1>2, <2>1, <2>3, StoreOne DEF Changes
<1>10. CASE WRelease
  <2>1. w.g \in Gen /\ Exists(r) /\ nextSeq' = nextSeq /\ w.pc = "releasing"
    BY <1>3, <1>10 DEF WRelease, ItemPc, Held
  <2>2. Store(w.g, Release(r, run))
    BY <1>10 DEF WRelease
  <2>3. row'[w.g] = Release(r, run) /\ \A h \in Gen \ {w.g} : row'[h] = row[h]
    BY <1>2, <2>1, <2>2, StoreOne
  <2> QED
    BY <2>1, <2>3 DEF Changes, Release
<1>11. CASE WCallback
  <2>1. nextSeq' = nextSeq /\ w.pc = "callback"
    BY <1>11 DEF WCallback
  <2>2. ASSUME NEW g \in Gen PROVE Changes(g)
    <3>1. row'[g] = row[g] \/ (g \in Interactive /\ row'[g] = Drop(row[g]))
      BY <1>11 DEF WCallback, Remaining
    <3>2. \/ Drop(row[g]) = row[g]
          \/ Exists(row[g]) /\ Drop(row[g]) = RequestCancel(row[g])
          \/ CanMarkCancelled(row[g]) /\ Drop(row[g]) = MarkCancelled(row[g])
      BY DEF Drop
    <3>3. Ordinary(row[g], RequestCancel(row[g]))
      BY <1>1, <1>2, OrdinaryOperations, Alien \in Prompt DEF Prompt
    <3> QED
      BY <2>1, <3>1, <3>2, <3>3 DEF Changes, Cancels
  <2> QED
    BY <2>1, <2>2
<1> QED
  BY <1>4, <1>5, <1>6, <1>7, <1>8, <1>9, <1>10, <1>11 DEF WorkerStep

\* The new rows of a batch are numbered from nextSeq on.
LEMMA EnqueueNumbers ==
    ASSUME Typed, NEW order \in Batches, Enqueue(order)
    PROVE  /\ nextSeq' >= nextSeq
           /\ \A g \in Members(order) : Enqueued(row[g], row'[g])
<1>1. Cardinality(Gen) \in Nat /\ nextSeq \in Nat \ {0}
  BY FiniteAssumption, FS_CardinalityType DEF Typed, TypeOK
<1>2. PICK n \in 1..Cardinality(Gen) : order \in [1..n -> Gen]
  BY DEF Batches
<1>3. n \in Nat /\ DOMAIN order = 1..n /\ Len(order) = n
  BY <1>1, <1>2
<1>4. nextSeq' = nextSeq + n
  BY <1>3 DEF Enqueue
<1>5. ASSUME NEW g \in Members(order) PROVE Enqueued(row[g], row'[g])
  <2> DEFINE i == CHOOSE j \in DOMAIN order : order[j] = g
  <2>1. i \in 1..n /\ g \in Gen
    BY <1>2, <1>3 DEF Members
  <2>2. row[g] = Absent /\ row'[g] = [Absent EXCEPT !.seq = nextSeq - 1 + i]
    BY <2>1 DEF Enqueue
  <2> HIDE DEF i
  <2>3. nextSeq - 1 + i \in Nat /\ nextSeq <= nextSeq - 1 + i /\ nextSeq - 1 + i < nextSeq'
    BY <1>1, <1>3, <1>4, <2>1
  <2> QED
    BY <2>2, <2>3 DEF Enqueued
<1> QED
  BY <1>1, <1>3, <1>4, <1>5

\* The others.
LEMMA OtherChanges ==
    ASSUME Base, WHeartbeat \/ WTransactionFails \/ Callers \/ World \/ Restart \/ UNCHANGED vars
    PROVE  nextSeq' >= nextSeq /\ \A g \in Gen : Changes(g)
<1>1. \A g \in Gen : row[g] \in Row /\ Sound(row[g])
  BY DEF Base, Inv, Typed, TypeOK, Rows
<1>2. run \in Nat \ {0} /\ nextSeq \in Nat /\ Typed
  BY DEF Base, Inv, Typed, TypeOK
<1>3. ASSUME NEW g \in Gen, NEW p \in Prompt
      PROVE  /\ Ordinary(row[g], row[g])
             /\ Ordinary(row[g], RequestCancel(row[g]))
             /\ row[g].lease = "live" => Ordinary(row[g], [row[g] EXCEPT !.lease = "expired"])
             /\ Ordinary(row[g], Renew(row[g]))
             /\ CanResolve(row[g]) => Ordinary(row[g], LinkPrompt(row[g], p))
             /\ CanResolve(row[g]) => Ordinary(row[g], FailAmbiguous(row[g]))
  BY <1>1, <1>2, OrdinaryOperations
<1>4. Alien \in Prompt
  BY DEF Prompt
<1>5. ASSUME NEW g \in Gen, NEW q, Store(g, q), Exists(row[g]), nextSeq' = nextSeq,
             q = row[g] \/ Ordinary(row[g], q)
                \/ (CanMarkCancelled(row[g]) /\ Cancels(g) /\ q = MarkCancelled(row[g]))
      PROVE  nextSeq' >= nextSeq /\ \A h \in Gen : Changes(h)
  <2>1. row'[g] = q /\ \A h \in Gen \ {g} : row'[h] = row[h]
    BY <1>2, <1>5, StoreOne
  <2> QED
    BY <1>2, <1>5, <2>1 DEF Changes
<1>6. CASE \/ WTransactionFails \/ Restart \/ UNCHANGED vars
           \/ UiStopPrompt \/ UiPoll \/ UiPolled \/ (\E h \in ui.left : UiDropRead(h))
           \/ RemoteRestarts \/ \E p \in Prompt : RemoteMoves(p)
  <2>1. row' = row /\ nextSeq' = nextSeq
    BY <1>6 DEF WTransactionFails, Restart, vars, UiStopPrompt, UiPoll, UiPolled,
       UiDropRead,
                RemoteRestarts, RemoteMoves, database
  <2> QED
    BY <1>2, <2>1 DEF Changes
<1>7. CASE WHeartbeat
  <2>1. w.g \in Gen /\ Exists(row[w.g])
    BY <1>7 DEF WHeartbeat, InHand, Base, Inv, Typed, HasItem, ItemPc, Held, Handling
  <2> QED
    BY <1>3, <1>4, <1>5, <1>7, <2>1 DEF WHeartbeat
<1>8. CASE \E order \in Batches : Enqueue(order)
  <2>1. PICK order \in Batches : Enqueue(order)
    BY <1>8
  <2>2. \A g \in Members(order) : Enqueued(row[g], row'[g])
    BY <1>2, <2>1, EnqueueNumbers
  <2>3. \A g \in Gen \ Members(order) : row'[g] = row[g]
    BY <2>1 DEF Enqueue
  <2>4. nextSeq' >= nextSeq
    BY <1>2, <2>1, EnqueueNumbers
  <2> QED
    BY <2>2, <2>3, <2>4 DEF Changes
<1>9. CASE \E g \in Gen : UiCancel(g)
  <2>1. PICK g \in Gen : UiCancel(g)
    BY <1>9
  <2> QED
    BY <1>3, <1>4, <1>5, <2>1 DEF UiCancel
<1>10. CASE UiMark
  <2>1. ui.g \in Gen \/ ui.g = None
    BY DEF Base, Inv, Typed, TypeOK, Ui
  <2>2. CASE ui.g \in Gen /\ CanMarkCancelled(row[ui.g])
    BY <1>5, <1>10, <2>2 DEF UiMark, CanMarkCancelled, Cancels
  <2>3. CASE ui.g \notin Gen \/ ~CanMarkCancelled(row[ui.g])
    <3>1. row' = row
      BY <1>10, <1>2, <2>3 DEF UiMark, Store, Typed, TypeOK
    <3> QED
      BY <1>2, <1>10, <3>1 DEF UiMark, Changes
  <2> QED
    BY <2>2, <2>3
<1>11. CASE UiDrop
  <2> DEFINE r == row[ui.g]
             q == CASE ui.pc = "dropping" /\ CanMarkCancelled(r)   -> MarkCancelled(r)
                    [] ui.pc = "requesting" /\ CanRequestCancel(r) -> RequestCancel(r)
                    [] OTHER                                       -> r
  <2>1. Store(ui.g, q) /\ nextSeq' = nextSeq
    BY <1>11 DEF UiDrop
  <2>2. \/ q = r
        \/ ui.pc = "dropping" /\ CanMarkCancelled(r) /\ q = MarkCancelled(r)
        \/ CanRequestCancel(r) /\ q = RequestCancel(r)
    OBVIOUS
  <2> HIDE DEF q
  <2>3. CASE ui.g \in Gen /\ Exists(r)
    BY <1>3, <1>4, <1>5, <2>1, <2>2, <2>3 DEF Cancels
  <2>4. CASE ui.g \notin Gen \/ ~Exists(r)
    <3>1. row' = row
      BY <1>2, <2>1, <2>2, <2>4
      DEF Store, Typed, TypeOK, CanMarkCancelled, CanRequestCancel
    <3> QED
      BY <1>2, <2>1, <3>1 DEF Changes
  <2> QED
    BY <2>3, <2>4
<1>12. CASE \E g \in Gen : ResolveAsFailed(g)
  <2>1. PICK g \in Gen : ResolveAsFailed(g)
    BY <1>12
  <2> QED
    BY <1>3, <1>4, <1>5, <2>1 DEF ResolveAsFailed, CanResolve
<1>13. CASE \E g \in Gen, p \in Supplied : LinkAmbiguous(g, p)
  <2>1. PICK g \in Gen, p \in Supplied : LinkAmbiguous(g, p)
    BY <1>13
  <2>2. p \in Prompt
    BY BoundAssumption
  <2> QED
    BY <1>3, <1>5, <2>1, <2>2 DEF LinkAmbiguous, CanResolve
<1>14. CASE \E g \in Gen : LeaseExpires(g)
  <2>1. PICK g \in Gen : LeaseExpires(g)
    BY <1>14
  <2>2. Exists(row[g])
    BY <2>1 DEF LeaseExpires, Base, Rows, Absent
  <2> QED
    BY <1>3, <1>4, <1>5, <2>1, <2>2 DEF LeaseExpires
<1> QED
  BY <1>6, <1>7, <1>8, <1>9, <1>10, <1>11, <1>12, <1>13, <1>14 DEF Callers, World
-----------------------------------------------------------------------------
(* What every step keeps of every row.                                      *)

Endures(r, q, next, begins) ==
    /\ q \in Row /\ q.seq < next
    /\ Exists(r) => q.seq = r.seq
    /\ ~Exists(q) => q = Absent
    /\ Sound(q)
    /\ r.cancel => q.cancel
    /\ r.sub \in {"submitted", "ambiguous"} => q.sub \in {"submitted", "ambiguous"}
    /\ q.sub = "ready" => r.sub = "ready"
    /\ r.sub = "ready" => q.sub = "ready" \/ begins
    /\ q.sub = "submitting" => r.sub = "submitting" \/ begins
    /\ Stays(r, q)

Kept(r, q, next, begins) == Endures(r, q, next, begins) /\ (Steady(r) => Steady(q))

Holds(g) == Endures(row[g], row'[g], nextSeq', w'.pc = "posting" /\ g = w'.g)

Keeps(g) == Kept(row[g], row'[g], nextSeq', w'.pc = "posting" /\ g = w'.g)

\* An operation that advances a row keeps what Kept, Endures says.
LEMMA LastsEndures ==
    ASSUME NEW r \in Row, NEW q, NEW next \in Nat, NEW begins \in BOOLEAN,
           Sound(r), r.seq < next, Exists(r), Lasts(r, q)
    PROVE  Endures(r, q, next, begins)
  BY DEF Endures, Lasts, Exists, Row, SubmissionState

\* ... all of it, unless the recovery pass applies it.
LEMMA AdvancesKept ==
    ASSUME NEW r \in Row, NEW q, NEW next \in Nat, NEW begins \in BOOLEAN,
           Sound(r), r.seq < next, Exists(r), Advances(r, q)
    PROVE  Kept(r, q, next, begins)
  BY LastsEndures DEF Kept, Advances

\* A row left alone keeps it ...
LEMMA SameKept ==
    ASSUME NEW r \in Row, NEW next \in Nat, NEW begins \in BOOLEAN,
           Sound(r), r.seq < next, ~Exists(r) => r = Absent
    PROVE  Kept(r, r, next, begins)
  BY DEF Kept, Endures, Row, Stays

\* ... a new row has it ...
LEMMA EnqueuedKept ==
    ASSUME Absent \in Row, NEW n \in Nat, n > 0, NEW next \in Nat, n < next,
           NEW begins \in BOOLEAN
    PROVE  Kept(Absent, [Absent EXCEPT !.seq = n], next, begins)
<1> DEFINE q == [Absent EXCEPT !.seq = n]
<1>1. /\ q.seq = n /\ q.gen = "pending" /\ q.job = "pending" /\ q.gprompt = None
      /\ q.jprompt = None /\ q.sub = "ready" /\ q.worker = 0 /\ q.lease = "none"
      /\ ~q.cancel /\ q.audit = "none"
  BY DEF Absent
<1>2. /\ Absent.seq = 0 /\ Absent.gen = "pending" /\ Absent.sub = "ready" /\ ~Absent.cancel
  BY DEF Absent
<1>3. q \in Row
  BY DEF Row
<1> HIDE DEF q
<1>4. Sound(q)
  BY <1>1 DEF Sound, Blank, Begun, Busy, Leased, NoPrompts
<1>5. Exists(q) /\ ~Exists(Absent)
  BY <1>1, <1>2 DEF Exists
<1>6. Kept(Absent, q, next, begins)
  BY <1>1, <1>2, <1>3, <1>4, <1>5 DEF Kept, Endures, Stays, Steady, Busy
<1> QED
  BY <1>6 DEF q

\* ... and a row whose submission begins keeps it.
LEMMA BegunKept ==
    ASSUME NEW r \in Row, NEW n \in Nat \ {0}, NEW next \in Nat,
           Sound(r), r.seq < next, Exists(r), CanBegin(r, n)
    PROVE  Kept(r, BeginSubmission(r), next, TRUE)
<1> DEFINE q == BeginSubmission(r)
<1>1. /\ q \in Row /\ q.seq = r.seq /\ q.cancel = r.cancel
      /\ q.gen = r.gen /\ q.gen = "pending" /\ q.sub = "submitting" /\ Sound(q)
  BY OtherOperations DEF Sound
<1>2. r.sub = "ready"
  BY DEF CanBegin
<1> HIDE DEF q
<1>3. Kept(r, q, next, TRUE)
  BY <1>1, <1>2 DEF Kept, Endures, Exists, Stays, Steady, Busy
<1> QED
  BY <1>3 DEF q

\* Every step applies one of these operations to each row, or leaves it.
LEMMA AllKeep ==
    ASSUME Base, [Next]_vars, NEW g \in Gen
    PROVE  Changes(g) /\ nextSeq' >= nextSeq /\ Keeps(g)
<1>1. /\ row[g] \in Row /\ Sound(row[g]) /\ row[g].seq < nextSeq
      /\ ~Exists(row[g]) => row[g] = Absent
      /\ nextSeq \in Nat \ {0} /\ nextSeq' \in Nat /\ run \in Nat \ {0} /\ Typed
  <2>1. Typed'
    BY StepTypes DEF Base, Inv
  <2> QED
    BY <2>1 DEF Base, Inv, Typed, TypeOK, Rows
<1>2. Changes(g) /\ nextSeq' >= nextSeq
  BY <1>1, WorkerChanges, OtherChanges DEF Next, Steps
<1> SUFFICES Keeps(g)
  BY <1>2
<1>3. row[g].seq < nextSeq' /\ row[g].seq \in Nat
  BY <1>1, <1>2 DEF Row
<1>4. CASE row'[g] = row[g]
  BY <1>1, <1>3, <1>4, SameKept DEF Keeps
<1>5. ASSUME Exists(row[g]), Advances(row[g], row'[g])
      PROVE  Keeps(g)
  BY <1>1, <1>3, <1>5, AdvancesKept DEF Keeps
<1>6. CASE Enqueued(row[g], row'[g])
  <2>1. PICK n \in Nat : nextSeq <= n /\ n < nextSeq' /\ row'[g] = [Absent EXCEPT !.seq = n]
    BY <1>6 DEF Enqueued
  <2>2. row[g] = Absent /\ n > 0
    BY <1>1, <1>6, <2>1 DEF Enqueued
  <2>3. Absent \in Row
    BY <1>1, <2>2
  <2>4. Kept(Absent, [Absent EXCEPT !.seq = n], nextSeq', w'.pc = "posting" /\ g = w'.g)
    BY ONLY <1>1, <2>1, <2>2, <2>3, EnqueuedKept
  <2> QED
    BY ONLY <2>1, <2>2, <2>4 DEF Keeps
<1>7. CASE Exists(row[g]) /\ Ordinary(row[g], row'[g])
  BY <1>5, <1>7 DEF Ordinary
<1>8. CASE CanMarkCancelled(row[g]) /\ row'[g] = MarkCancelled(row[g])
  BY <1>1, <1>5, <1>8, OtherOperations DEF CanMarkCancelled
<1>9. CASE Expired(row[g]) /\ row'[g] = ReconcileExpired(row[g])
  BY <1>1, <1>5, <1>9, OtherOperations DEF Expired
<1>10. CASE w.pc = "releasing" /\ g = w.g /\ Exists(row[g]) /\ row'[g] = Unclaimed(row[g])
  <2>1. row[g].sub # "submitting"
    BY <1>10 DEF Base, Handling
  <2> QED
    BY <1>1, <1>5, <1>10, <2>1, OtherOperations
<1>11. CASE w.pc = "beginning" /\ g = w.g /\ Exists(row[g]) /\ CanBegin(row[g], run)
            /\ row'[g] = BeginSubmission(row[g]) /\ w'.pc = "posting" /\ w'.g = w.g
  BY <1>1, <1>3, <1>11, BegunKept DEF Keeps
<1>12. CASE w.pc = "writing" /\ w.act = "mismatch" /\ g = w.g /\ Exists(row[g])
            /\ row'[g] = MarkMismatch(row[g])
  <2>1. row[g].sub # "ready"
    BY <1>12 DEF Base, Inv, MismatchIsNotReady
  <2> QED
    BY <1>1, <1>5, <1>12, <2>1, OtherOperations
<1> QED
  BY <1>2, <1>4, <1>6, <1>7, <1>8, <1>9, <1>10, <1>11, <1>12 DEF Changes

-----------------------------------------------------------------------------
(* What the worker knows about the row it takes in hand.                    *)

Placed ==
    /\ w'.pc \in ItemPc => Exists(row[w'.g])
    /\ w'.pc \in {"claimed", "prepared", "beginning"} => row[w'.g].sub = "ready"
    /\ w'.pc \in {"watching", "storing", "completing", "stopping", "looking"} =>
         Settled(w'.g) \/ row'[w'.g].sub \in {"submitted", "ambiguous"}
    /\ w'.pc = "writing" /\ w'.act \notin {"cancelled", "mismatch"} => Settled(w'.g)
    /\ w'.pc \in {"failing", "releasing"} =>
         row[w'.g].sub # "submitting" \/ row'[w'.g].sub # "submitting"
    /\ w'.back = "releasing" /\ w'.pc \in {"cancelling", "writing"} =>
         row[w'.g].sub # "submitting"
    /\ w'.pc = "scanning" => w'.back = "scanning"
    /\ \A item \in w'.todo : /\ Exists(row[item.g])
                             /\ item.kind = "prompt" => Settled(item.g)

\* What the worker has just read stays true in the rows after the step.
LEMMA PlacedKeeps ==
    ASSUME Base, [Next]_vars, Placed
    PROVE  Handling' /\ Listed'
<1>1. Typed'
  BY StepTypes DEF Base, Inv
<1>2. \A g \in Gen : Keeps(g) /\ row[g] \in Row
  BY AllKeep DEF Base, Inv, Typed, TypeOK
<1>3. ASSUME NEW g \in Gen
      PROVE  /\ Exists(row[g]) => Exists(row'[g])
             /\ Settled(g) => row'[g].sub \in {"submitted", "ambiguous"}
             /\ row[g].sub = "ready" /\ w'.pc # "posting" => row'[g].sub = "ready"
             /\ row[g].sub # "submitting" /\ w'.pc # "posting" => row'[g].sub # "submitting"
  BY <1>2 DEF Keeps, Kept, Endures, Exists, Settled
<1>4. w'.pc \in ItemPc => w'.g \in Gen
  BY <1>1 DEF Typed, HasItem
<1>5. \A item \in w'.todo : item.g \in Gen
  BY <1>1 DEF Typed, TypeOK, Worker, Item
<1>6. Listed'
  BY <1>3, <1>5 DEF Placed, Listed, Settled
<1>7. Handling'
  BY <1>3, <1>4 DEF Placed, Handling, Settled, ItemPc, Held
<1> QED
  BY <1>6, <1>7

\* The worker only holds and lists what it has read.
LEMMA PlacedWorker ==
    ASSUME Base, WorkerStep
    PROVE  Placed
<1> USE DEF Placed
<1>1. /\ w \in Worker /\ Handling /\ Listed /\ Typed /\ Inv
      /\ w.pc \in ItemPc => w.g \in Gen /\ row[w.g] \in Row
  BY DEF Base, Inv, Typed, TypeOK, HasItem
<1>2. CASE WSkipReconcile \/ WReconcileExpired \/ WNothingToClaim
  BY <1>1, <1>2 DEF WSkipReconcile, WReconcileExpired, WNothingToClaim, Go, Worker, ItemPc,
     Held,
                    Listed
<1>3. CASE WList
  <2>1. ASSUME NEW g \in Gen, NEW item \in Visits(g)
        PROVE  item.g = g /\ Exists(row[g]) /\ (item.kind = "prompt" => Settled(g))
    <3>1. Blank(row[g]) /\ row[g] \in Row
      BY DEF Base, Rows, Sound, Inv, Typed, TypeOK
    <3>2. PromptOf(row[g]) # None => Settled(g)
      BY <3>1 DEF Blank, NoPrompts, PromptOf, Settled, Row, SubmissionState
    <3> QED
      BY <2>1, <3>2 DEF Visits
  <2> DEFINE found == UNION {Visits(g) : g \in Gen}
  <2>2. w' = [w EXCEPT !.pc = "scanning", !.back = "scanning", !.todo = found]
    BY <1>3 DEF WList
  <2>3. \A item \in found : /\ Exists(row[item.g])
                            /\ item.kind = "prompt" => Settled(item.g)
    BY <2>1
  <2> HIDE DEF found
  <2> QED
    BY <1>1, <2>2, <2>3 DEF Worker, ItemPc, Held
<1>4. CASE WScanned \/ WCallback
  BY <1>1, <1>4 DEF WScanned, WCallback, Worker, ItemPc, Held, Listed
<1>5. CASE \E item \in w.todo : WVisit(item)
  <2>1. PICK item \in w.todo : WVisit(item)
    BY <1>5
  <2>2. item \in Item
    BY <1>1 DEF Worker
  <2> DEFINE pc == CASE item.kind = "cancel"   -> "cancelling"
                     [] item.kind = "mismatch" -> "writing"
                     [] item.kind = "prompt"   -> "looking"
  <2>3. /\ item.kind = "cancel" => pc = "cancelling"
        /\ item.kind = "mismatch" => pc = "writing"
        /\ item.kind = "prompt" => pc = "looking"
        /\ item.kind \in {"cancel", "mismatch", "prompt"}
    BY <2>2 DEF Item
  <2>4. w' = [w EXCEPT !.g = item.g, !.todo = w.todo \ {item}, !.pc = pc,
                       !.act = item.kind, !.ask = item.prompt]
    BY <2>1 DEF WVisit
  <2>5. w.back = "scanning"
    BY <1>1, <2>1 DEF WVisit, Handling
  <2> HIDE DEF pc
  <2>6. /\ w'.pc = pc /\ w'.g = item.g /\ w'.act = item.kind /\ w'.todo \subseteq w.todo
        /\ w'.back = "scanning"
    BY <1>1, <2>4, <2>5 DEF Worker
  <2> QED
    BY <1>1, <2>3, <2>6 DEF Listed
<1>6. CASE WCancelRead
  <2>1. w.pc = "cancelling" /\ w.pc \in ItemPc
    BY <1>6 DEF WCancelRead, ItemPc
  <2>2. \/ WriteNext("mismatch")
        \/ WriteNext("cancelled")
        \/ GoBack
        \/ PromptOf(row[w.g]) # None /\ w' = [w EXCEPT !.pc = "stopping", !.ask = PromptOf(row[w.g])]
    BY <1>6 DEF WCancelRead
  <2>3. PromptOf(row[w.g]) # None => Settled(w.g)
    <3>1. Blank(row[w.g])
      BY <1>1, <2>1 DEF Base, Rows, Sound
    <3> QED
      BY <1>1, <2>1, <3>1 DEF Blank, NoPrompts, PromptOf, Settled, Row, SubmissionState
  <2> QED
    BY <1>1, <2>1, <2>2, <2>3 DEF WriteNext, GoBack, Worker, Handling, Listed, ItemPc, Held
<1>7. CASE WStopPrompt \/ WLook \/ WWrite
  <2>1. /\ w.pc \in {"stopping", "looking", "writing"} /\ w.pc \in ItemPc
        /\ \/ GoBack
           \/ w.pc # "writing" /\ Go("looking")
           \/ w.pc # "writing" /\ \E act \in {"cancelled", "missing", "complete", "fail"} : WriteNext(act)
    BY <1>7 DEF WStopPrompt, WLook, WWrite, ItemPc
  <2>2. w.pc # "writing" => Settled(w.g)
    BY <1>1, <2>1 DEF Handling
  <2> QED
    BY <1>1, <2>1, <2>2 DEF WriteNext, Go, GoBack, Worker, Handling, Listed, Settled,
       ItemPc, Held
<1>8. CASE \E g \in Gen : WClaim(g)
  <2>1. PICK g \in Gen : w' = [w EXCEPT !.pc = "claimed", !.g = g, !.back = "releasing"]
                         /\ CanClaim(row[g])
    BY <1>8 DEF WClaim, NextInLine
  <2> QED
    BY <1>1, <2>1 DEF Worker, CanClaim, Listed, ItemPc, Held
<1>9. CASE WExecute \/ WPrepareFails \/ WCheckCancel
  <2>1. /\ w.pc \in {"claimed", "prepared"} /\ w.pc \in ItemPc
        /\ \/ \E label \in {"prepared", "releasing", "failing", "beginning"} : Go(label)
           \/ WriteNext("cancelled")
    BY <1>9 DEF WExecute, WPrepareFails, WCheckCancel, ItemPc, Held
  <2>2. row[w.g].sub = "ready" /\ Exists(row[w.g])
    BY <1>1, <2>1 DEF Handling
  <2> QED
    BY <1>1, <2>1, <2>2 DEF Go, WriteNext, Worker, Listed, ItemPc, Held
<1>10. CASE WBegin \/ WPost
  <2>1. /\ w.pc \in {"beginning", "posting"} /\ w.pc \in ItemPc
        /\ \/ w.pc = "beginning" /\ \E label \in {"posting", "failing"} : Go(label)
           \/ \E label \in {"accepted", "quarantine"} : Go(label)
    BY <1>10 DEF WBegin, WPost, ItemPc, Held
  <2>2. Exists(row[w.g]) /\ (w.pc = "beginning" => row[w.g].sub = "ready")
    BY <1>1, <2>1 DEF Handling
  <2> QED
    BY <1>1, <2>1, <2>2 DEF Go, Worker, Listed, ItemPc, Held
<1>11. CASE WMarkSubmitted
  <2>1. w.pc = "accepted" /\ w.pc \in ItemPc /\ Exists(row[w.g])
    BY <1>1, <1>11 DEF WMarkSubmitted, ItemPc, Held, Handling
  <2>2. \/ Go("quarantine")
        \/ Go("watching") /\ row'[w.g].sub = "submitted"
    <3>1. CASE Store(w.g, MarkSubmitted(row[w.g], w.g)) /\ Go("watching")
      <4>1. row'[w.g] = MarkSubmitted(row[w.g], w.g)
        BY <1>1, <2>1, <3>1, StoreOne
      <4>2. w.g \in Prompt
        BY <1>1, <2>1 DEF Prompt
      <4> QED
        BY <1>1, <2>1, <3>1, <4>1, <4>2, SubmissionOperations
    <3> QED
      BY <1>11, <3>1 DEF WMarkSubmitted
  <2> QED
    BY <1>1, <2>1, <2>2 DEF Go, Worker, Listed, ItemPc, Held
<1>12. CASE WQuarantine
  <2>1. w.pc = "quarantine" /\ w.pc \in ItemPc /\ Exists(row[w.g])
    BY <1>1, <1>12 DEF WQuarantine, ItemPc, Held, Handling
  <2>2. \/ Halt
        \/ Go("releasing") /\ (row[w.g].sub # "submitting" \/ row'[w.g].sub # "submitting")
    <3>1. CASE CanQuarantine(row[w.g], run)
      BY <1>1, <1>12, <3>1, QuarantineMoves DEF WQuarantine, CanQuarantine
    <3>2. CASE ~CanQuarantine(row[w.g], run)
      BY <1>12, <3>2 DEF WQuarantine, CanQuarantine
    <3> QED
      BY <3>1, <3>2
  <2> QED
    BY <1>1, <2>1, <2>2 DEF Go, Halt, Worker, Listed, ItemPc, Held
<1>13. CASE WProgress
  BY <1>1, <1>13 DEF WProgress, Handling, Listed
<1>14. CASE WSeesCancel \/ WHistory \/ WStoreImages \/ WComplete \/ WFail \/ WRelease
  <2>1. /\ w.pc \in {"watching", "storing", "completing", "failing", "releasing"} /\ w.pc \in ItemPc
        /\ \/ /\ w.pc \in {"watching", "storing", "completing"}
              /\ \E label \in {"cancelling", "storing", "completing", "failing", "releasing"} : Go(label)
           \/ w.pc = "failing" /\ Go("releasing")
           \/ Go("callback")
    BY <1>14 DEF WSeesCancel, WHistory, WStoreImages, WComplete, WFail, WRelease, ItemPc,
       Held
  <2>2. /\ Exists(row[w.g]) /\ row[w.g].sub # "submitting"
        /\ w.pc \in {"watching", "storing", "completing"} => Settled(w.g)
    BY <1>1, <2>1 DEF Handling, Settled
  <2> QED
    BY <1>1, <2>1, <2>2 DEF Go, Worker, Listed, ItemPc, Held
<1> QED
  BY <1>2, <1>3, <1>4, <1>5, <1>6, <1>7, <1>8, <1>9, <1>10, <1>11, <1>12, <1>13, <1>14
     DEF WorkerStep

\* Nobody else puts anything in its hand.
LEMMA PlacedOthers ==
    ASSUME Base, WHeartbeat \/ WTransactionFails \/ Callers \/ World \/ Restart \/ UNCHANGED vars
    PROVE  Placed
<1> USE DEF Placed
<1>1. /\ w \in Worker /\ Handling /\ Listed
      /\ w.pc \in ItemPc => w.g \in Gen /\ row[w.g] \in Row
  BY DEF Base, Inv, Typed, TypeOK, HasItem
<1>2. CASE WTransactionFails
  <2>1. \/ GoBack /\ w.pc \in {"cancelling", "looking", "writing"}
        \/ \E from \in {"claimed", "releasing", "start", "top", "listing", "claiming",
                        "prepared", "beginning", "watching", "storing", "completing",
                        "failing"},
              to \in {"releasing", "callback", "claiming", "top", "failing"} :
             /\ w.pc = from /\ w' = [w EXCEPT !.pc = to]
             /\ to \in {"releasing", "failing"} =>
                  from \in {"claimed", "prepared", "beginning", "watching", "storing",
                            "completing", "failing"}
        \/ w.pc = "accepted" /\ w' = [w EXCEPT !.pc = "quarantine"]
        \/ Halt
        \/ w.back = "scanning"
             /\ w' = [w EXCEPT !.pc = "scanning", !.ask = None, !.act = "none", !.todo = {}]
        \/ /\ w.back = "releasing" /\ w.pc \in {"cancelling", "writing"}
           /\ w' = [w EXCEPT !.pc = "releasing", !.ask = None, !.act = "none",
                             !.then = IF w.act \in {"complete", "fail"} THEN "top" ELSE "dead"]
    BY <1>2 DEF WTransactionFails, Fault
  <2>2. CASE GoBack /\ w.pc \in {"cancelling", "looking", "writing"}
    BY <1>1, <2>2 DEF GoBack, Worker, Handling, Listed, Settled, ItemPc, Held
  <2>3. ASSUME NEW from \in {"claimed", "releasing", "start", "top", "listing", "claiming",
                             "prepared", "beginning", "watching", "storing", "completing",
                             "failing"},
               NEW to \in {"releasing", "callback", "claiming", "top", "failing"},
               w.pc = from, w' = [w EXCEPT !.pc = to],
               to \in {"releasing", "failing"} =>
                  from \in {"claimed", "prepared", "beginning", "watching", "storing",
                            "completing", "failing"}
        PROVE  Placed
    <3>1. /\ w'.pc = to /\ w'.g = w.g /\ w'.back = w.back /\ w'.todo = w.todo /\ w'.act = w.act
      BY <1>1, <2>3 DEF Worker
    <3>2. to \in {"releasing", "failing"} =>
             Exists(row[w.g]) /\ row[w.g].sub # "submitting"
      BY <1>1, <2>3 DEF Handling, ItemPc, Held, Settled
    <3> QED
      BY <1>1, <2>3, <3>1, <3>2 DEF Listed, ItemPc, Held
  <2>4. CASE w.pc = "accepted" /\ w' = [w EXCEPT !.pc = "quarantine"]
    BY <1>1, <2>4 DEF Worker, Handling, Listed, ItemPc, Held
  <2>5. CASE Halt
    BY <1>1, <2>5 DEF Halt, Worker, Listed, ItemPc, Held
  <2>6. CASE \/ /\ w.back = "scanning"
                /\ w' = [w EXCEPT !.pc = "scanning", !.ask = None, !.act = "none", !.todo = {}]
             \/ /\ w.back = "releasing" /\ w.pc \in {"cancelling", "writing"}
                /\ w' = [w EXCEPT !.pc = "releasing", !.ask = None, !.act = "none",
                                  !.then = IF w.act \in {"complete", "fail"} THEN "top"
                                           ELSE "dead"]
    BY <1>1, <2>6 DEF Worker, Handling, Listed, Settled, ItemPc, Held
  <2> QED
    BY <2>1, <2>2, <2>3, <2>4, <2>5, <2>6
<1>3. CASE Restart
  BY <1>3 DEF Restart, Idle, ItemPc, Held
<1>4. CASE WHeartbeat \/ Callers \/ World \/ UNCHANGED vars
  <2>1. w' = w
    BY <1>4 DEF WHeartbeat, Callers, Enqueue, UiCancel, UiStopPrompt, UiMark, UiPoll,
       UiDropRead,
                UiDrop, UiPolled, LinkAmbiguous, ResolveAsFailed,
                World, RemoteMoves, LeaseExpires, RemoteRestarts, vars
  <2> QED
    BY <1>1, <2>1 DEF Handling, Listed
<1> QED
  BY <1>2, <1>3, <1>4

\* The first part of the invariant: initially,
LEMMA BaseInit == Init => Base
<1> SUFFICES ASSUME Init PROVE Base
  OBVIOUS
<1>1. PICK order \in [Legacy -> 1..Cardinality(Legacy)] :
         \A g \in Gen : IF g \in Legacy THEN row[g] \in QuarantinedByMigration(g, order[g])
                                        ELSE row[g] = Absent
  BY DEF Init
<1>2. Cardinality(Legacy) \in Nat
  BY FiniteAssumption, BoundAssumption, FS_Subset, FS_CardinalityType
<1>3. nextSeq = Cardinality(Legacy) + 1
  BY DEF Init
<1>4. ASSUME NEW g \in Gen
      PROVE  row[g].seq < nextSeq /\ (~Exists(row[g]) => row[g] = Absent) /\ Sound(row[g])
  <2>1. CASE g \in Legacy
    <3>1. row[g].seq = order[g] /\ row[g].sub = "ambiguous" /\ row[g].worker = 0
      BY <1>1, <2>1 DEF QuarantinedByMigration, Absent
    <3>2. order[g] \in 1..Cardinality(Legacy)
      BY <2>1
    <3> QED
      BY <1>2, <1>3, <3>1, <3>2 DEF Exists, Sound, Blank, Begun, Busy, Leased
  <2>2. CASE g \notin Legacy
    <3>1. row[g] = Absent
      BY <1>1, <2>2
    <3> QED
      BY <1>2, <1>3, <3>1 DEF Absent, Sound, Blank, Begun, Busy, Leased, NoPrompts
  <2> QED
    BY <2>1, <2>2
<1>5. Handling /\ Listed
  BY DEF Init, Idle, Handling, Listed, ItemPc, Held
<1> QED
  BY <1>4, <1>5, InvInit DEF Base, Rows

\* in every step,
LEMMA BaseStep == Base /\ [Next]_vars => Base'
<1> SUFFICES ASSUME Base, [Next]_vars PROVE Base'
  OBVIOUS
<1>1. Inv'
  BY InvStep DEF Base
<1>2. Rows'
  BY AllKeep DEF Rows, Keeps, Kept, Endures
<1>3. Handling' /\ Listed'
  BY PlacedKeeps, PlacedWorker, PlacedOthers DEF Next, Steps
<1> QED
  BY <1>1, <1>2, <1>3 DEF Base

\* and so always.
LEMMA BaseAlways == Spec => []Base
  BY BaseInit, BaseStep, PTL DEF Spec

\* After a crash at any point, every claim and every submission left
\* unfinished has a lease, so reconcile_expired_claims will find it.
THEOREM ClaimsRecoverable == Spec => []ClaimsAreRecoverable
<1>1. Base => ClaimsAreRecoverable
  BY DEF Base, Rows, Sound, Leased, ClaimsAreRecoverable
<1> QED
  BY <1>1, BaseAlways, PTL

\* Without a recovery pass nobody ends a row that is being submitted.
AllSteady == \A g \in Gen : Steady(row[g])

\* This holds initially ...
LEMMA SteadyInit == Init => AllSteady
<1> SUFFICES ASSUME Init, NEW g \in Gen PROVE Steady(row[g])
  BY DEF AllSteady
<1>1. PICK order \in [Legacy -> 1..Cardinality(Legacy)] :
         \A h \in Gen : IF h \in Legacy THEN row[h] \in QuarantinedByMigration(h, order[h])
                                        ELSE row[h] = Absent
  BY DEF Init
<1>2. row[g].worker = 0
  <2>1. CASE g \in Legacy
    BY <1>1, <2>1 DEF QuarantinedByMigration, Absent
  <2>2. CASE g \notin Legacy
    BY <1>1, <2>2 DEF Absent
  <2> QED
    BY <2>1, <2>2
<1> QED
  BY <1>2 DEF Steady, Busy

\* ... and after every step.
LEMMA SteadyStep == Base /\ AllSteady /\ [Next]_vars => AllSteady'
  BY AllKeep DEF AllSteady, Keeps, Kept, Endures

\* What has ended without a recovery pass stays ended.
LEMMA EndIsFinal ==
    ASSUME Base, AllSteady, [Next]_vars, NEW g \in Gen, row[g].gen \in Terminal
    PROVE  row'[g].gen = row[g].gen \/ (row[g].audit = "migration" /\ row[g].gen = "failed")
<1>1. Stays(row[g], row'[g])
  BY AllKeep DEF Keeps, Kept, Endures
<1>2. Steady(row[g])
  BY DEF AllSteady
<1> QED
  BY <1>1, <1>2 DEF Stays, Steady, Terminal

\* No late answer, stale pass or repeated request changes a terminal status.
THEOREM TerminalFinal == Spec => TerminalIsFinal
<1>1. Base /\ AllSteady /\ [Next]_vars =>
        [\A g \in Gen : row[g].gen \in Terminal =>
          \/ row'[g].gen = row[g].gen
          \/ row[g].audit = "migration" /\ row[g].gen = "failed"]_vars
  BY EndIsFinal
<1> QED
  BY <1>1, SteadyInit, SteadyStep, BaseAlways, PTL DEF Spec, TerminalIsFinal

-----------------------------------------------------------------------------
(* First in, first out.                                                     *)

Line == {"claimed", "prepared", "beginning", "posting"}

\* No row before the one that is on its way out is free.  (A row before it may
\* be claimable again, but only because its lease has expired meanwhile.)
InLine == w.pc \in Line => \A h \in Gen : row[h].seq < row[w.g].seq => ~Free(row[h])

\* Rows that no migration touched keep generation and job alike, and never
\* show two different prompts.
Alike == \A g \in Gen \ Legacy : Twin(row[g])

OldMismatch == /\ \A item \in w.todo : item.kind = "mismatch" => item.g \in Legacy
               /\ w.pc = "writing" /\ w.act = "mismatch" => w.g \in Legacy

\* How the worker comes by what it holds and what it has listed.
Onward ==
    /\ w'.pc \in Line => w'.g = w.g /\ w.pc \in Line
    /\ \A item \in w'.todo : item.kind = "mismatch" => item.g \in Legacy
    /\ w'.pc = "writing" /\ w'.act = "mismatch" => w'.g \in Legacy

\* The worker gets a row to send from WClaim only.
LEMMA OnwardWorker ==
    ASSUME Base, Alike, OldMismatch, WorkerStep
    PROVE  Onward \/ \E g \in Gen : WClaim(g)
<1> USE DEF Onward, Line
<1>1. w \in Worker /\ OldMismatch
      /\ (w.pc \in ItemPc => w.g \in Gen)
  BY DEF Base, Inv, Typed, TypeOK, HasItem
<1>2. ASSUME NEW g \in Gen, Mismatch(row[g]) PROVE g \in Legacy
  BY <1>2 DEF Alike, Twin, Mismatch
<1>3. CASE WList
  <2>1. ASSUME NEW g \in Gen, NEW item \in Visits(g), item.kind = "mismatch"
        PROVE  item.g \in Legacy
    BY <1>2, <2>1 DEF Visits
  <2> DEFINE found == UNION {Visits(g) : g \in Gen}
  <2>2. w' = [w EXCEPT !.pc = "scanning", !.back = "scanning", !.todo = found]
    BY <1>3 DEF WList
  <2>3. \A item \in found : item.kind = "mismatch" => item.g \in Legacy
    BY <2>1
  <2> HIDE DEF found
  <2> QED
    BY <1>1, <2>2, <2>3 DEF Worker
<1>4. CASE WSkipReconcile \/ WReconcileExpired \/ WNothingToClaim \/ WScanned
  BY <1>1, <1>4 DEF WSkipReconcile, WReconcileExpired, WNothingToClaim, WScanned, Go,
     Worker,
                    OldMismatch
<1>5. CASE \E item \in w.todo : WVisit(item)
  <2>1. PICK item \in w.todo : WVisit(item)
    BY <1>5
  <2>2. item \in Item
    BY <1>1 DEF Worker
  <2> DEFINE pc == CASE item.kind = "cancel"   -> "cancelling"
                     [] item.kind = "mismatch" -> "writing"
                     [] item.kind = "prompt"   -> "looking"
  <2>3. pc \in {"cancelling", "writing", "looking"}
    BY <2>2 DEF Item
  <2>4. w' = [w EXCEPT !.g = item.g, !.todo = w.todo \ {item}, !.pc = pc,
                       !.act = item.kind, !.ask = item.prompt]
    BY <2>1 DEF WVisit
  <2> HIDE DEF pc
  <2>5. w'.pc = pc /\ w'.g = item.g /\ w'.act = item.kind /\ w'.todo \subseteq w.todo
    BY <1>1, <2>4 DEF Worker
  <2> QED
    BY <1>1, <2>3, <2>5 DEF OldMismatch
<1>6. CASE WCancelRead
  <2>1. w.g \in Gen
    BY <1>1, <1>6 DEF WCancelRead, ItemPc
  <2>2. \/ WriteNext("mismatch") /\ w.g \in Legacy
        \/ WriteNext("cancelled")
        \/ GoBack
        \/ w' = [w EXCEPT !.pc = "stopping", !.ask = PromptOf(row[w.g])]
    BY <1>2, <1>6, <2>1 DEF WCancelRead
  <2> QED
    BY <1>1, <2>2 DEF WriteNext, GoBack, Worker, OldMismatch
<1>7. CASE WStopPrompt \/ WLook \/ WWrite
  <2>1. \/ GoBack \/ Go("looking")
        \/ \E act \in {"cancelled", "missing", "complete", "fail"} : WriteNext(act)
    BY <1>7 DEF WStopPrompt, WLook, WWrite
  <2> QED
    BY <1>1, <2>1 DEF WriteNext, Go, GoBack, Worker, OldMismatch
<1>8. CASE \/ WExecute \/ WPrepareFails \/ WCheckCancel \/ WBegin
           \/ WPost \/ WMarkSubmitted \/ WQuarantine
           \/ WSeesCancel \/ WHistory \/ WStoreImages \/ WComplete \/ WFail \/ WRelease
  <2>1. \/ \E label \in {"releasing", "failing", "accepted", "quarantine", "watching",
                         "cancelling", "storing", "completing", "callback"} : Go(label)
        \/ w.pc \in Line /\ \E label \in Line : Go(label)
        \/ WriteNext("cancelled")
        \/ Halt
    BY <1>8 DEF WExecute, WPrepareFails, WCheckCancel, WBegin, WPost, WMarkSubmitted,
       WQuarantine,
                WSeesCancel, WHistory, WStoreImages, WComplete, WFail, WRelease
  <2> QED
    BY <1>1, <2>1 DEF Go, WriteNext, Halt, Worker, OldMismatch
<1>9. CASE WProgress
  BY <1>1, <1>9 DEF WProgress, OldMismatch
<1>10. CASE WCallback
  BY <1>1, <1>10 DEF WCallback, Worker, OldMismatch
<1> QED
  BY <1>3, <1>4, <1>5, <1>6, <1>7, <1>8, <1>9, <1>10 DEF WorkerStep

\* Nobody else gives it one.
LEMMA OnwardOthers ==
    ASSUME Base, OldMismatch,
           WHeartbeat \/ WTransactionFails \/ Callers \/ World \/ Restart \/ UNCHANGED vars
    PROVE  Onward
<1> USE DEF Onward, Line
<1>1. w \in Worker /\ OldMismatch
  BY DEF Base, Inv, Typed, TypeOK
<1>2. CASE WTransactionFails
  <2>1. \/ GoBack
        \/ \E to \in {"releasing", "callback", "claiming", "top", "failing", "quarantine"} :
             w' = [w EXCEPT !.pc = to]
        \/ Halt
        \/ w' = [w EXCEPT !.pc = "scanning", !.ask = None, !.act = "none", !.todo = {}]
        \/ w' = [w EXCEPT !.pc = "releasing", !.ask = None, !.act = "none",
                          !.then = IF w.act \in {"complete", "fail"} THEN "top" ELSE "dead"]
    BY <1>2 DEF WTransactionFails, Fault
  <2> QED
    BY <1>1, <2>1 DEF GoBack, Halt, Worker, OldMismatch
<1>3. CASE Restart
  BY <1>3 DEF Restart, Idle
<1>4. CASE WHeartbeat \/ Callers \/ World \/ UNCHANGED vars
  <2>1. w' = w
    BY <1>4 DEF WHeartbeat, Callers, Enqueue, UiCancel, UiStopPrompt, UiMark, UiPoll,
       UiDropRead,
                UiDrop, UiPolled, LinkAmbiguous, ResolveAsFailed,
                World, RemoteMoves, LeaseExpires, RemoteRestarts, vars
  <2> QED
    BY <1>1, <2>1 DEF OldMismatch
<1> QED
  BY <1>2, <1>3, <1>4

\* While the worker brings a row to its request, no other row before it is freed.
LEMMA NoneFreed ==
    ASSUME Base, [Next]_vars, NEW h \in Gen, w.pc \in Line, w.g \in Gen,
           row'[h].seq < row[w.g].seq, Free(row'[h])
    PROVE  row[h].seq = row'[h].seq /\ Free(row[h])
<1>1. /\ row[h] \in Row /\ Sound(row[h]) /\ nextSeq \in Nat /\ run \in Nat \ {0}
      /\ row[w.g].seq < nextSeq /\ row[w.g].seq \in Nat /\ row'[h] \in Row
  <2>1. Typed'
    BY StepTypes DEF Base, Inv
  <2> QED
    BY <2>1 DEF Base, Inv, Typed, TypeOK, Rows, Row
<1>2. Changes(h)
  BY AllKeep
<1>3. ~Enqueued(row[h], row'[h])
  <2>1. SUFFICES ASSUME NEW n \in Nat, nextSeq <= n, row'[h] = [Absent EXCEPT !.seq = n]
                 PROVE  FALSE
    BY DEF Enqueued
  <2>2. row'[h].seq = n
    BY <2>1 DEF Absent
  <2> QED
    BY <1>1, <2>1, <2>2
<1>4. CASE Ordinary(row[h], row'[h])
  BY <1>4 DEF Ordinary, Advances, Lasts
<1>5. CASE CanMarkCancelled(row[h]) /\ row'[h] = MarkCancelled(row[h])
  BY <1>1, <1>5, OtherOperations
<1>6. CASE CanBegin(row[h], run) /\ row'[h] = BeginSubmission(row[h])
  BY <1>1, <1>6, OtherOperations DEF Sound
<1> QED
  BY <1>2, <1>3, <1>4, <1>5, <1>6 DEF Changes, Line

\* A free row is never overtaken.
LEMMA LineStep ==
    ASSUME Base, InLine, Onward \/ \E g \in Gen : WClaim(g), [Next]_vars
    PROVE  InLine'
<1> SUFFICES ASSUME w'.pc \in Line, NEW h \in Gen, row'[h].seq < row'[w'.g].seq, Free(row'[h])
             PROVE  FALSE
  BY DEF InLine
<1>1. w \in Worker
  BY DEF Base, Inv, Typed, TypeOK
<1>2. CASE Onward
  <2>1. w'.g = w.g /\ w.pc \in Line /\ w.g \in Gen /\ Exists(row[w.g])
    BY <1>2 DEF Onward, Line, Base, Inv, Typed, HasItem, ItemPc, Held, Handling
  <2>2. row'[w.g].seq = row[w.g].seq
    BY <2>1, AllKeep DEF Keeps, Kept, Endures
  <2>3. row[h].seq = row'[h].seq /\ Free(row[h])
    BY <2>1, <2>2, NoneFreed
  <2> QED
    BY <2>1, <2>2, <2>3 DEF InLine
<1>3. CASE \E g \in Gen : WClaim(g)
  <2>1. PICK g \in Gen : WClaim(g)
    BY <1>3
  <2>2. /\ Store(g, Claim(row[g], run)) /\ NextInLine(g)
        /\ w' = [w EXCEPT !.pc = "claimed", !.g = g, !.back = "releasing"]
    BY <2>1 DEF WClaim
  <2>3. w'.g = g
    BY <1>1, <2>2 DEF Worker
  <2>4. row'[g] = Claim(row[g], run) /\ \A k \in Gen \ {g} : row'[k] = row[k]
    BY <2>2, StoreOne DEF Base, Inv
  <2>5. row'[g].seq = row[g].seq /\ row[g].seq \in Nat /\ row[h].seq \in Nat
    BY <2>4 DEF Claim, Base, Inv, Typed, TypeOK, Row
  <2> QED
    BY <2>2, <2>3, <2>4, <2>5 DEF NextInLine, Free
<1> QED
  BY <1>2, <1>3

\* Every operation keeps a row that no migration touched tidy.
LEMMA AllTidy ==
    ASSUME Base, OldMismatch, [Next]_vars, NEW g \in Gen, g \notin Legacy
    PROVE  Tidy(row[g], row'[g])
<1>1. /\ row[g] \in Row /\ Sound(row[g]) /\ run \in Nat \ {0}
      /\ w.pc = "releasing" /\ g = w.g => row[g].sub # "submitting"
  BY DEF Base, Inv, Typed, TypeOK, Rows, Handling
<1>2. Changes(g)
  BY AllKeep
<1>3. CASE Enqueued(row[g], row'[g])
  <2>1. PICK n \in Nat : row'[g] = [Absent EXCEPT !.seq = n]
    BY <1>3 DEF Enqueued
  <2>2. row[g] = Absent
    BY <1>3 DEF Enqueued
  <2> QED
    BY <2>1, <2>2 DEF Absent, Tidy, Twin, Pure, NoPrompts
<1>4. CASE row'[g] = row[g]
  BY <1>4 DEF Tidy
<1>5. CASE \/ CanMarkCancelled(row[g]) /\ row'[g] = MarkCancelled(row[g])
           \/ row'[g] = ReconcileExpired(row[g])
           \/ row[g].sub # "submitting" /\ row'[g] = Unclaimed(row[g])
           \/ CanBegin(row[g], run) /\ row'[g] = BeginSubmission(row[g])
  BY <1>1, <1>5, OtherOperations DEF Sound
<1>6. ~(w.pc = "writing" /\ w.act = "mismatch" /\ g = w.g)
  BY DEF OldMismatch
<1> QED
  BY <1>1, <1>2, <1>3, <1>4, <1>5, <1>6 DEF Changes, Ordinary

\* Hence such rows stay alike.
LEMMA AlikeStep ==
    ASSUME Base, Alike, OldMismatch, [Next]_vars
    PROVE  Alike'
  BY AllTidy DEF Alike, Tidy

Order == Base /\ AllSteady /\ InLine /\ Alike /\ OldMismatch

\* The second part of the invariant: initially,
LEMMA OrderInit == Init => Order
<1> SUFFICES ASSUME Init PROVE Order
  OBVIOUS
<1>1. \A g \in Gen \ Legacy : row[g] = Absent
  BY DEF Init
<1>2. Twin(Absent)
  BY DEF Twin, Absent
<1>3. Alike
  BY <1>1, <1>2 DEF Alike
<1> QED
  BY <1>3, BaseInit, SteadyInit DEF Init, Idle, Order, InLine, Line, OldMismatch

\* in every step,
LEMMA OrderStep == Order /\ [Next]_vars => Order'
<1> SUFFICES ASSUME Order, [Next]_vars PROVE Order'
  OBVIOUS
<1> USE DEF Order
<1>1. Base' /\ Alike' /\ AllSteady'
  BY BaseStep, AlikeStep, SteadyStep
<1>2. Onward \/ \E g \in Gen : WClaim(g)
  BY OnwardWorker, OnwardOthers DEF Next, Steps
<1>3. InLine'
  BY <1>2, LineStep
<1>4. OldMismatch'
  <2>1. CASE Onward
    BY <2>1 DEF Onward, OldMismatch
  <2>2. CASE \E g \in Gen : WClaim(g)
    <3>1. PICK g \in Gen : w' = [w EXCEPT !.pc = "claimed", !.g = g, !.back = "releasing"]
      BY <2>2 DEF WClaim
    <3> QED
      BY <3>1 DEF OldMismatch, Base, Inv, Typed, TypeOK, Worker
  <2> QED
    BY <1>2, <2>1, <2>2
<1> QED
  BY <1>1, <1>3, <1>4

\* and so always.
LEMMA OrderAlways == Spec => []Order
  BY OrderInit, OrderStep, PTL DEF Spec

\* Requests are sent in the order of the queue.
THEOREM PostsInOrder == Spec => PostInOrder
<1>1. Order /\ [Next]_vars =>
        [\A g, h \in Gen :
           posts'[g] > posts[g] /\ row[h].seq < row[g].seq =>
             ~(CanClaim(row[h]) /\ row[h].lease = "none")]_vars
  <2> SUFFICES ASSUME Order, [Next]_vars, NEW g \in Gen, NEW h \in Gen,
                      posts'[g] > posts[g], row[h].seq < row[g].seq
               PROVE  ~Free(row[h])
    BY DEF Free
  <2>1. posts \in [Gen -> Nat] /\ Typed /\ Inv
    BY DEF Order, Base, Inv, Typed, TypeOK
  <2>2. posts' # posts
    BY <2>1
  <2>3. WPost
    BY <2>1, <2>2, PlainOrNot DEF Plain, WBegin, comfyui
  <2>4. w.pc = "posting" /\ w.g \in Gen
    BY <2>1, <2>3 DEF WPost, Typed, HasItem, ItemPc, Held
  <2>5. g = w.g
    BY <2>1, <2>3, <2>4 DEF WPost
  <2> QED
    BY <2>4, <2>5 DEF Order, InLine, Line
<1> QED
  BY <1>1, OrderAlways, PTL DEF Spec, PostInOrder
-----------------------------------------------------------------------------
(* The failed interactive run.                                              *)

\* The generations of the run are enqueued together.
Together == \A g, h \in Interactive : Exists(row[g]) => Exists(row[h])

Ended(g) == row[g].gen \in Terminal \/ row[g].cancel

\* A poll that drops the rest of a failed run has dealt with every generation
\* that it does not still have before it.
Dropping ==
    /\ ui.left \subseteq Interactive
    /\ ui.pc \in {"polling", "dropping", "requesting"} =>
         \A h \in Interactive :
            /\ Exists(row[h])
            /\ h \in ui.left \/ (ui.pc # "polling" /\ h = ui.g) \/ Ended(h)

RunInv == Order /\ Together /\ Dropping /\ FailedRunStops

\* An enqueued row exists.
LEMMA EnqueuedExists ==
    ASSUME Typed, NEW r, NEW q, Enqueued(r, q)
    PROVE  Exists(q)
<1>1. PICK n \in Nat : nextSeq <= n /\ q = [Absent EXCEPT !.seq = n]
  BY DEF Enqueued
<1>2. q.seq = n
  BY <1>1 DEF Absent
<1> QED
  BY <1>1, <1>2 DEF Exists, Typed, TypeOK

\* A row comes into being only when its batch is enqueued.
LEMMA OnlyEnqueue ==
    ASSUME Base, [Next]_vars, NEW g \in Gen, ~Exists(row[g]), Exists(row'[g])
    PROVE  \E order \in Batches : Enqueue(order) /\ g \in Members(order)
<1>1. Changes(g) /\ Typed /\ nextSeq \in Nat
  BY AllKeep DEF Base, Inv, Typed, TypeOK
<1>2. ASSUME nextSeq' = nextSeq PROVE FALSE
  <2>1. ~Enqueued(row[g], row'[g])
    <3>1. SUFFICES ASSUME NEW n \in Nat, nextSeq <= n, n < nextSeq' PROVE FALSE
      BY DEF Enqueued
    <3> QED
      BY <1>1, <1>2, <3>1
  <2> QED
    BY <1>1, <2>1 DEF Changes, CanMarkCancelled, Expired
<1>3. ~WorkerStep
  BY <1>2, WorkerChanges
<1>4. PICK order \in Batches : Enqueue(order)
  BY <1>2, <1>3 DEF Next, Steps, WHeartbeat, WTransactionFails, Callers, UiCancel,
     UiStopPrompt,
                    UiMark, UiPoll, UiDropRead, UiDrop, UiPolled, LinkAmbiguous, ResolveAsFailed,
                    World, RemoteMoves, LeaseExpires, RemoteRestarts, Restart, vars, database
<1>5. g \in Members(order)
  BY <1>4 DEF Enqueue
<1> QED
  BY <1>4, <1>5

\* Enqueue stores the whole run or nothing of it.
LEMMA TogetherStep ==
    ASSUME Base, Together, [Next]_vars
    PROVE  Together'
<1> SUFFICES ASSUME NEW g \in Interactive, NEW h \in Interactive, Exists(row'[g])
             PROVE  Exists(row'[h])
  BY DEF Together
<1>1. g \in Gen /\ h \in Gen /\ Typed
  BY BoundAssumption DEF Base, Inv
<1>2. Exists(row[h]) => Exists(row'[h])
  BY <1>1, AllKeep DEF Keeps, Kept, Endures, Exists
<1>3. CASE Exists(row[g])
  BY <1>2, <1>3 DEF Together
<1>4. CASE ~Exists(row[g])
  <2>1. PICK order \in Batches : Enqueue(order) /\ g \in Members(order)
    BY <1>1, <1>4, OnlyEnqueue
  <2>2. h \in Members(order)
    BY <2>1 DEF Enqueue
  <2>3. Enqueued(row[h], row'[h])
    BY <1>1, <2>1, <2>2, EnqueueNumbers
  <2> QED
    BY <1>1, <2>3, EnqueuedExists
<1> QED
  BY <1>3, <1>4

\* What has ended, or has been asked to, stays so; and nothing disappears.
LEMMA EndedStays ==
    ASSUME Order, [Next]_vars, NEW h \in Interactive
    PROVE  /\ Ended(h) => Ended(h)'
           /\ Exists(row[h]) => Exists(row'[h])
<1>1. h \in Gen /\ h \notin Legacy
  BY BoundAssumption
<1>2. Kept(row[h], row'[h], nextSeq', w'.pc = "posting" /\ h = w'.g)
  BY <1>1, AllKeep DEF Order, Keeps
<1>3. row[h].audit # "migration"
  BY <1>1 DEF Order, Alike, Twin
<1>4. row[h].gen \in Terminal => row'[h].gen = row[h].gen
  BY <1>1, <1>3, EndIsFinal DEF Order
<1> QED
  BY <1>2, <1>4 DEF Kept, Endures, Exists, Ended

\* The worker's callback ends the run with every generation dealt with.
LEMMA CallbackDrops ==
    ASSUME RunInv, [Next]_vars, WCallback
    PROVE  runActive' = runActive \/ \A h \in Interactive : Ended(h)'
<1> SUFFICES ASSUME RunFailed, NEW h \in Interactive PROVE Ended(h)'
  BY DEF WCallback
<1>1. \A g \in Interactive : g \in Gen /\ g \notin Legacy
  BY BoundAssumption
<1>2. row \in [Gen -> Row]
  BY DEF RunInv, Order, Base, Inv, Typed, TypeOK
<1>3. Exists(row[h])
  <2>1. PICK g \in Interactive : row[g].gen = "failed"
    BY DEF RunFailed
  <2>2. Exists(row[g])
    BY <1>1, <2>1 DEF RunInv, Order, Base, Rows, Absent
  <2> QED
    BY <2>2 DEF RunInv, Together
<1>4. CASE h \notin Remaining
  BY <1>4, EndedStays DEF Remaining, Ended, Terminal, RunInv
<1>5. CASE h \in Remaining
  <2>1. row'[h] = Drop(row[h])
    BY <1>1, <1>2, <1>5 DEF WCallback
  <2>2. Twin(row[h]) /\ row[h] \in Row
    BY <1>1, <1>2 DEF RunInv, Order, Alike
  <2>3. row[h].gen \in Terminal \/ CanMarkCancelled(row[h])
    BY <1>3, <2>2 DEF Twin, CanMarkCancelled, Terminal
  <2>4. MarkCancelled(row[h]).cancel /\ RequestCancel(row[h]).cancel
    BY <2>2 DEF MarkCancelled, RequestCancel, Unclaimed, Both, Row
  <2> QED
    BY <1>3, <2>1, <2>3, <2>4 DEF Drop, Ended
<1> QED
  BY <1>4, <1>5

\* No step leaves a generation of a failed run behind.
LEMMA DroppingStep ==
    ASSUME RunInv, [Next]_vars
    PROVE  Dropping' /\ FailedRunStops'
<1>1. \A h \in Interactive : /\ h \in Gen /\ h \notin Legacy
                             /\ Ended(h) => Ended(h)'
                             /\ Exists(row[h]) => Exists(row'[h])
  BY BoundAssumption, EndedStays DEF RunInv
<1>2. /\ ui \in Ui /\ row \in [Gen -> Row] /\ Dropping /\ FailedRunStops /\ Typed
  BY DEF RunInv, Order, Base, Inv, Typed, TypeOK
<1>3. ASSUME ui' = ui PROVE Dropping'
  BY <1>1, <1>2, <1>3 DEF Dropping, Ended
<1>4. ASSUME runActive' = runActive PROVE FailedRunStops'
  BY <1>1, <1>2, <1>4 DEF FailedRunStops, Ended
<1>5. ASSUME ui' = NoRequest PROVE Dropping'
  BY <1>5 DEF NoRequest, Dropping
<1>6. CASE WCallback
  <2>1. ui' = ui
    BY <1>6 DEF WCallback
  <2>2. CASE runActive' = runActive
    BY <1>3, <1>4, <2>1, <2>2
  <2>3. CASE \A h \in Interactive : Ended(h)'
    BY <1>3, <2>1, <2>3 DEF FailedRunStops, Ended
  <2> QED
    BY <1>6, <2>2, <2>3, CallbackDrops
<1>7. CASE WorkerStep /\ ~WCallback
  <2>1. ui' = ui /\ runActive' = runActive
    BY <1>7 DEF WorkerStep, WSkipReconcile, WReconcileExpired, WList, WScanned, WVisit,
       WCancelRead,
                WStopPrompt, WLook, WWrite, WClaim, WNothingToClaim, WExecute, WPrepareFails,
                WCheckCancel, WBegin, WPost, WMarkSubmitted, WQuarantine, WProgress, WSeesCancel,
                WHistory, WStoreImages, WComplete, WFail, WRelease, database
  <2> QED
    BY <1>3, <1>4, <2>1
<1>8. CASE WHeartbeat \/ WTransactionFails \/ World \/ Restart \/ UNCHANGED vars
            \/ (\E order \in Batches : Enqueue(order)) \/ UiMark
            \/ (\E g \in Gen : ResolveAsFailed(g))
            \/ (\E g \in Gen, p \in Supplied : LinkAmbiguous(g, p))
  <2>1. (ui' = ui \/ ui' = NoRequest) /\ runActive' = runActive
    BY <1>8 DEF WHeartbeat, WTransactionFails, World, RemoteMoves, LeaseExpires,
       RemoteRestarts,
                Restart, vars, Enqueue, UiMark, ResolveAsFailed, LinkAmbiguous, database
  <2> QED
    BY <1>3, <1>4, <1>5, <2>1
<1>9. CASE (\E g \in Gen : UiCancel(g)) \/ UiStopPrompt
  <2>1. /\ runActive' = runActive /\ ui.pc \in {"idle", "asking"}
        /\ \/ ui' = NoRequest
           \/ \E g \in Gen : ui' = [NoRequest EXCEPT !.pc = "marking", !.g = g]
           \/ \E g \in Gen, ask \in Prompt \union {None} :
                 ui' = [NoRequest EXCEPT !.pc = "asking", !.g = g, !.ask = ask]
           \/ ui' = [ui EXCEPT !.pc = "marking", !.ask = None]
    <3>1. CASE UiStopPrompt
      BY <3>1 DEF UiStopPrompt, database
    <3>2. CASE \E g \in Gen : UiCancel(g)
      <4>1. PICK g \in Gen : UiCancel(g)
        BY <3>2
      <4>2. PromptOf(row[g]) \in Prompt \union {None}
        BY <1>2 DEF PromptOf, Row
      <4>3. /\ runActive' = runActive /\ ui.pc = "idle"
            /\ \/ ui' = NoRequest
               \/ ui' = [NoRequest EXCEPT !.pc = "marking", !.g = g]
               \/ ui' = [NoRequest EXCEPT !.pc = "asking", !.g = g, !.ask = PromptOf(row[g])]
        BY <4>1 DEF UiCancel
      <4> QED
        BY <4>2, <4>3
    <3> QED
      BY <1>9, <3>1, <3>2
  <2>2. ui'.left \subseteq Interactive /\ ui'.pc \in {"idle", "marking", "asking"}
    <3>1. CASE ui' = NoRequest
      BY <3>1 DEF NoRequest
    <3>2. CASE \E g \in Gen : ui' = [NoRequest EXCEPT !.pc = "marking", !.g = g]
      <4>1. PICK g \in Gen : ui' = [NoRequest EXCEPT !.pc = "marking", !.g = g]
        BY <3>2
      <4> QED
        BY <4>1 DEF NoRequest
    <3>3. CASE \E g \in Gen, ask \in Prompt \union {None} :
                 ui' = [NoRequest EXCEPT !.pc = "asking", !.g = g, !.ask = ask]
      <4>1. PICK g \in Gen, ask \in Prompt \union {None} :
               ui' = [NoRequest EXCEPT !.pc = "asking", !.g = g, !.ask = ask]
        BY <3>3
      <4> QED
        BY <4>1 DEF NoRequest
    <3>4. CASE ui' = [ui EXCEPT !.pc = "marking", !.ask = None]
      BY <1>2, <3>4 DEF Ui, Dropping
    <3> QED
      BY <2>1, <3>1, <3>2, <3>3, <3>4
  <2> QED
    BY <1>4, <2>1, <2>2 DEF Dropping
<1>10. CASE UiPoll
  <2>1. runActive' = runActive /\ ui' = [NoRequest EXCEPT !.pc = "polling", !.left = Remaining]
    BY <1>10 DEF UiPoll, database
  <2>2. ui'.pc = "polling" /\ ui'.left = Remaining
    BY <2>1 DEF NoRequest
  <2>3. PICK g \in Interactive : row[g].gen = "failed"
    BY <1>10 DEF UiPoll, RunFailed
  <2>4. Exists(row[g])
    BY <1>1, <2>3 DEF RunInv, Order, Base, Rows, Absent
  <2>5. \A h \in Interactive : Exists(row[h])
    BY <2>4 DEF RunInv, Together
  <2>6. \A h \in Interactive : h \in Remaining \/ Ended(h)
    BY DEF Remaining, Ended, Terminal
  <2>7. Remaining \subseteq Interactive
    BY DEF Remaining
  <2> QED
    BY <1>1, <1>4, <2>1, <2>2, <2>5, <2>6, <2>7 DEF Dropping, Ended
<1>11. CASE \E h \in ui.left : UiDropRead(h)
  <2>1. PICK h \in ui.left : UiDropRead(h)
    BY <1>11
  <2>2. /\ ui'.pc \in {"dropping", "requesting"} /\ ui'.g = h /\ ui'.left = ui.left \ {h}
        /\ ui.pc = "polling" /\ runActive' = runActive
    BY <1>2, <2>1 DEF UiDropRead, Ui, database
  <2> QED
    BY <1>1, <1>2, <1>4, <2>2 DEF Dropping, Ended
<1>12. CASE UiDrop
  <2>1. /\ ui'.pc = "polling" /\ ui'.left = ui.left /\ runActive' = runActive
        /\ ui.pc \in {"dropping", "requesting"}
    BY <1>2, <1>12 DEF UiDrop, Ui
  <2>2. ASSUME ui.g \in Interactive
        PROVE  row'[ui.g].gen \in Terminal \/ row'[ui.g].cancel
    <3> DEFINE r == row[ui.g]
               q == CASE ui.pc = "dropping" /\ CanMarkCancelled(r)   -> MarkCancelled(r)
                      [] ui.pc = "requesting" /\ CanRequestCancel(r) -> RequestCancel(r)
                      [] OTHER                                       -> r
    <3>1. Store(ui.g, q)
      BY <1>12 DEF UiDrop
    <3>2. Exists(r) /\ Twin(r) /\ r \in Row
      BY <1>1, <1>2, <2>1, <2>2 DEF Dropping, RunInv, Order, Alike
    <3>3. r.gen \in Terminal \/ (CanMarkCancelled(r) /\ CanRequestCancel(r))
      BY <3>2 DEF Twin, CanMarkCancelled, CanRequestCancel, Terminal
    <3>4. MarkCancelled(r).cancel /\ RequestCancel(r).cancel
      BY <3>2 DEF MarkCancelled, RequestCancel, Unclaimed, Both, Row
    <3>5. r.gen \in Terminal \/ q.cancel
      BY <2>1, <3>3, <3>4
    <3> HIDE DEF q
    <3>6. row'[ui.g] = q
      BY <1>1, <1>2, <2>2, <3>1, StoreOne
    <3>7. CASE r.gen \in Terminal
      <4>1. PICK h \in Interactive : h = ui.g
        BY <2>2
      <4>2. Ended(h)'
        BY <1>1, <3>7, <4>1 DEF Ended
      <4> QED
        BY <4>1, <4>2 DEF Ended
    <3> QED
      BY <3>5, <3>6, <3>7
  <2>3. \A h \in Interactive : h \in ui.left \/ Ended(h)'
    <3>1. SUFFICES ASSUME NEW h \in Interactive, h \notin ui.left PROVE Ended(h)'
      OBVIOUS
    <3>2. h = ui.g \/ Ended(h)
      BY <1>2, <2>1, <3>1 DEF Dropping
    <3>3. CASE h = ui.g
      <4>1. row'[h].gen \in Terminal \/ row'[h].cancel
        BY <2>2, <3>3 DEF Ended
      <4> QED
        BY <4>1 DEF Ended
    <3> QED
      BY <1>1, <3>2, <3>3
  <2>4. \A h \in Interactive : Exists(row'[h])
    BY <1>1, <1>2, <2>1 DEF Dropping
  <2> QED
    BY <1>2, <1>4, <2>1, <2>3, <2>4 DEF Dropping, Ended
<1>13. CASE UiPolled
  <2>1. ui' = NoRequest /\ \A h \in Interactive : Ended(h)
    BY <1>2, <1>13 DEF UiPolled, Dropping
  <2> QED
    BY <1>1, <1>5, <2>1 DEF FailedRunStops, Ended
<1> QED
  BY <1>6, <1>7, <1>8, <1>9, <1>10, <1>11, <1>12, <1>13 DEF Next, Steps, Callers

\* The invariant of the failed run, initially ...
LEMMA RunInit == Init => RunInv
<1> SUFFICES ASSUME Init PROVE RunInv
  OBVIOUS
<1>1. \A g \in Interactive : row[g] = Absent
  BY BoundAssumption DEF Init
<1>2. Together
  BY <1>1 DEF Together
<1> QED
  BY <1>2, OrderInit DEF RunInv, Init, NoRequest, Dropping, FailedRunStops

\* ... and in every step.
LEMMA RunStep == RunInv /\ [Next]_vars => RunInv'
<1> SUFFICES ASSUME RunInv, [Next]_vars PROVE RunInv'
  OBVIOUS
<1>1. Order'
  BY OrderStep DEF RunInv
<1>2. Together'
  BY TogetherStep DEF RunInv, Order
<1>3. Dropping' /\ FailedRunStops'
  BY DroppingStep
<1> QED
  BY <1>1, <1>2, <1>3 DEF RunInv

\* Once an interactive run has failed, each of its generations is finished or
\* has been asked to stop, however the polls, the worker's callback, the
\* user's cancellations and restarts interleave.
THEOREM FailedRunEnds == Spec => []FailedRunStops
<1>1. RunInv => FailedRunStops
  BY DEF RunInv
<1> QED
  BY <1>1, RunInit, RunStep, PTL DEF Spec

-----------------------------------------------------------------------------
(* Submissions in doubt, while the process is not restarted.                *)

\* A submission under way is in the hands of the worker, or of one that
\* stopped because it could not even put the row in doubt.
Sending(g) == \/ w.g = g /\ w.pc \in {"posting", "accepted", "quarantine"}
              \/ w.g = g /\ w.pc = "callback" /\ w.then = "halted"
              \/ w.pc = "halted"

DoubtInv == /\ Base
            /\ \A g \in Gen : row[g].sub = "submitting" => Sending(g)
            /\ \A g \in Gen : Known(row[g])

\* A submission leaves the worker's hands only when its row stops being sent.
LEMMA SendingStep ==
    ASSUME Base, MaxRuns <= 1, [Next]_vars, NEW g \in Gen,
           Sending(g), row'[g].sub = "submitting"
    PROVE  Sending(g)'
<1> SUFFICES \/ w'.g = g /\ w'.pc \in {"posting", "accepted", "quarantine"}
             \/ w'.g = g /\ w'.pc = "callback" /\ w'.then = "halted"
             \/ w'.pc = "halted"
  BY DEF Sending
<1>1. /\ w \in Worker /\ run \in Nat \ {0} /\ Typed /\ Inv
      /\ w.pc \in {"posting", "accepted", "quarantine", "callback", "halted"}
  BY DEF Sending, Base, Inv, Typed, TypeOK
<1>2. CASE w' = w
  BY <1>2 DEF Sending
<1>3. CASE WPost
  BY <1>1, <1>3 DEF WPost, Go, Worker, Sending
<1>4. CASE WMarkSubmitted
  <2>1. w.pc = "accepted" /\ w.g = g
    BY <1>4 DEF WMarkSubmitted, Sending
  <2>2. CASE Store(w.g, MarkSubmitted(row[w.g], w.g))
    <3>1. row'[g] = MarkSubmitted(row[g], g)
      BY <1>1, <2>1, <2>2, StoreOne
    <3>2. MarkSubmitted(row[g], g).sub = "submitted"
      BY <1>1, SubmissionOperations DEF Typed, TypeOK, Prompt
    <3> QED
      BY <3>1, <3>2
  <2>3. CASE Go("quarantine")
    BY <1>1, <2>1, <2>3 DEF Go, Worker
  <2> QED
    BY <1>4, <2>2, <2>3 DEF WMarkSubmitted
<1>5. CASE WQuarantine
  <2>1. w.pc = "quarantine" /\ w.g = g
    BY <1>5 DEF WQuarantine, Sending
  <2>2. CASE CanQuarantine(row[w.g], run)
    BY <1>1, <1>5, <2>1, <2>2, QuarantineMoves
  <2>3. CASE Halt
    BY <1>1, <2>1, <2>3 DEF Halt, Worker
  <2>4. CASE row[w.g].worker = run /\ ~CanQuarantine(row[w.g], run)
    <3>1. row[g].sub = "submitted" /\ row'[g] = row[g]
      BY <1>1, <1>5, <2>1, <2>4, StoreOne DEF WQuarantine, CanQuarantine
    <3> QED
      BY <3>1
  <2> QED
    BY <1>5, <2>2, <2>3, <2>4 DEF WQuarantine
<1>6. CASE WCallback
  BY <1>1, <1>6 DEF WCallback, Worker, Sending
<1>7. CASE WTransactionFails
  <2>1. \/ w.pc = "accepted" /\ w' = [w EXCEPT !.pc = "quarantine"]
        \/ w.pc = "quarantine" /\ Halt
    BY <1>1, <1>7 DEF WTransactionFails, Fault
  <2> QED
    BY <1>1, <2>1 DEF Halt, Worker, Sending
<1>8. ~Restart
  BY <1>1, BoundAssumption DEF Restart
<1>9. CASE WHeartbeat \/ Callers \/ World \/ UNCHANGED vars
  <2>1. w' = w
    BY <1>9 DEF WHeartbeat, Callers, Enqueue, UiCancel, UiStopPrompt, UiMark, UiPoll,
       UiDropRead,
                UiDrop, UiPolled, LinkAmbiguous, ResolveAsFailed,
                World, RemoteMoves, LeaseExpires, RemoteRestarts, vars
  <2> QED
    BY <1>2, <2>1
<1>10. CASE WorkerStep
  <2>1. WPost \/ WMarkSubmitted \/ WQuarantine \/ WCallback
    BY <1>1, <1>10
    DEF WorkerStep, WSkipReconcile, WReconcileExpired, WList, WScanned, WVisit, WCancelRead,
        WStopPrompt, WLook, WWrite, WClaim, WNothingToClaim, WExecute, WPrepareFails, WCheckCancel,
        WBegin, WProgress, WSeesCancel, WHistory, WStoreImages, WComplete, WFail, WRelease
  <2> QED
    BY <1>3, <1>4, <1>5, <1>6, <2>1
<1> QED
  BY <1>7, <1>8, <1>9, <1>10 DEF Next, Steps

\* Without a restart, no step puts a row in doubt without an audit code.
LEMMA KnownStep ==
    ASSUME DoubtInv, [Next]_vars, NEW g \in Gen
    PROVE  Known(row'[g])
<1>1. /\ row[g] \in Row /\ Sound(row[g]) /\ run \in Nat \ {0} /\ Known(row[g])
      /\ w.pc = "releasing" /\ g = w.g => row[g].sub # "submitting"
      /\ w.pc = "writing" /\ w.act = "mismatch" /\ g = w.g => row[g].sub # "ready"
  BY DEF DoubtInv, Base, Inv, Typed, TypeOK, Rows, Handling, MismatchIsNotReady
<1>2. Changes(g)
  BY AllKeep DEF DoubtInv
<1>3. CASE Enqueued(row[g], row'[g])
  <2>1. PICK n \in Nat : row'[g] = [Absent EXCEPT !.seq = n]
    BY <1>3 DEF Enqueued
  <2> QED
    BY <2>1 DEF Absent, Known
<1>4. CASE Ordinary(row[g], row'[g])
  BY <1>1, <1>4 DEF Ordinary
<1>5. CASE w.pc \in {"start", "top"} /\ row'[g] = ReconcileExpired(row[g])
  <2>1. row[g].sub # "submitting"
    BY <1>5 DEF DoubtInv, Sending
  <2> QED
    BY <1>1, <1>5, <2>1, OtherOperations
<1>6. CASE \/ CanMarkCancelled(row[g]) /\ row'[g] = MarkCancelled(row[g])
           \/ row[g].sub # "submitting" /\ row'[g] = Unclaimed(row[g])
           \/ CanBegin(row[g], run) /\ row'[g] = BeginSubmission(row[g])
           \/ row[g].sub # "ready" /\ row'[g] = MarkMismatch(row[g])
  BY <1>1, <1>6, OtherOperations DEF Sound
<1> QED
  BY <1>1, <1>2, <1>3, <1>4, <1>5, <1>6 DEF Changes

\* The invariant of submissions in doubt, initially ...
LEMMA DoubtInit == Init => DoubtInv
<1> SUFFICES ASSUME Init PROVE DoubtInv
  OBVIOUS
<1>1. PICK order \in [Legacy -> 1..Cardinality(Legacy)] :
         \A g \in Gen : IF g \in Legacy THEN row[g] \in QuarantinedByMigration(g, order[g])
                                        ELSE row[g] = Absent
  BY DEF Init
<1>2. ASSUME NEW g \in Gen PROVE row[g].sub # "submitting" /\ Known(row[g])
  <2>1. CASE g \in Legacy
    <3>1. row[g].sub = "ambiguous" /\ row[g].audit = "migration"
      BY <1>1, <2>1 DEF QuarantinedByMigration, Absent
    <3> QED
      BY <3>1 DEF Known
  <2>2. CASE g \notin Legacy
    <3>1. row[g] = Absent
      BY <1>1, <2>2
    <3> QED
      BY <3>1 DEF Absent, Known
  <2> QED
    BY <2>1, <2>2
<1> QED
  BY <1>2, BaseInit DEF DoubtInv

\* ... and in every step, as long as the process is not restarted.
LEMMA DoubtStep ==
    ASSUME MaxRuns <= 1
    PROVE  DoubtInv /\ [Next]_vars => DoubtInv'
<1> SUFFICES ASSUME DoubtInv, [Next]_vars PROVE DoubtInv'
  OBVIOUS
<1>1. Base' /\ Base
  BY BaseStep DEF DoubtInv
<1>2. \A g \in Gen : Known(row'[g])
  BY KnownStep
<1>3. ASSUME NEW g \in Gen, row'[g].sub = "submitting" PROVE Sending(g)'
  <2>1. row[g].sub = "submitting" \/ (w'.pc = "posting" /\ g = w'.g)
    BY <1>1, <1>3, AllKeep DEF Keeps, Kept, Endures
  <2>2. CASE row[g].sub = "submitting"
    BY <1>1, <1>3, <2>2, SendingStep DEF DoubtInv
  <2>3. CASE w'.pc = "posting" /\ g = w'.g
    BY <2>3 DEF Sending
  <2> QED
    BY <2>1, <2>2, <2>3
<1> QED
  BY <1>1, <1>2, <1>3 DEF DoubtInv

\* As long as the process is not restarted, every unfinished submission in
\* doubt carries the audit code the operator's two resolutions ask for.  (A
\* restart takes this away: reconcile_expired_claims puts a row in doubt and
\* writes no code.)
THEOREM DoubtResolvable ==
    ASSUME MaxRuns <= 1
    PROVE  Spec => []AmbiguousIsResolvable
<1>1. DoubtInv => AmbiguousIsResolvable
  <2> SUFFICES ASSUME DoubtInv, NEW g \in Gen, row[g].sub = "ambiguous", ~Over(row[g])
               PROVE  CanResolve(row[g])
    BY DEF AmbiguousIsResolvable
  <2>1. row[g].audit \in {"ambiguous", "migration"}
    BY DEF DoubtInv, Known
  <2>2. Exists(row[g])
    BY DEF DoubtInv, Base, Rows, Absent
  <2> QED
    BY <2>1, <2>2 DEF CanResolve, Over, Terminal
<1> QED
  BY <1>1, DoubtInit, DoubtStep, PTL DEF Spec
-----------------------------------------------------------------------------
(* Cancelled generations, in a queue without migrated rows and without an   *)
(* interactive run.                                                         *)

Plainly == Legacy = {} /\ Interactive = {}

\* In the state m of ComfyUI the prompt p is there no more, and does not come back.
Dead(m, p) == m[p] \notin {"none", "pending", "running"}

\* A row that may be cancelled: its prompt has ended, or it will never be sent.
Halts(r, m) == \/ PromptOf(r) # None /\ Dead(m, PromptOf(r))
               \/ r.sub = "ready" /\ r.cancel

UnsentIsUnknown == \A g \in Gen : posts[g] = 0 => remote[g] = "none"

CancelledHalts == \A g \in Gen : row[g].gen = "cancelled" => Halts(row[g], remote)

\* What a cancellation or a reconcile pass has read of a row still holds.
WorkerKnows ==
    /\ \A item \in w.todo :
          /\ item.kind = "cancel" => row[item.g].cancel
          /\ item.kind = "prompt" => item.prompt # None /\ item.prompt = PromptOf(row[item.g])
    /\ w.pc = "cancelling" => row[w.g].cancel
    /\ w.pc \in {"stopping", "looking"} => w.ask # None /\ w.ask = PromptOf(row[w.g])
    /\ w.pc = "writing" /\ w.act = "cancelled" => Halts(row[w.g], remote)

UiKnows ==
    /\ ui.pc \in {"idle", "asking", "marking"}
    /\ ui.pc \in {"asking", "marking"} => ui.g \in Gen
    /\ ui.pc = "asking" => ui.ask # None /\ ui.ask = PromptOf(row[ui.g])
    /\ ui.pc = "marking" => Halts(row[ui.g], remote)

StopInv == /\ Order
           /\ UnsentIsUnknown
           /\ \A g \in Gen : Pure(row[g])
           /\ CancelledHalts
           /\ WorkerKnows
           /\ UiKnows

\* An answer that the prompt is cancelled is true.
LEMMA CancelAnswer ==
    ASSUME remote \in [Prompt -> Remote], NEW p \in Prompt, NEW outcome, CancelPrompt(p, outcome)
    PROVE  /\ outcome = "CANCELLED" => Dead(remote', p)
           /\ \A s \in Prompt : Dead(remote, s) => Dead(remote', s)
           /\ \A s \in Prompt : remote[s] = "none" => remote'[s] = "none"
<1>1. PICK accepted \in BOOLEAN, after \in Stopped(p) \union {remote[p]} :
        /\ after # remote[p] => accepted
        /\ accepted => Stopped(p) # {}
        /\ remote' = [remote EXCEPT ![p] = after]
        /\ outcome \in {Outcome(after, accepted), "UNAVAILABLE"}
  BY DEF CancelPrompt
<1>2. Stopped(p) # {} => remote[p] \in {"pending", "running"}
  BY DEF Stopped
<1>3. after = remote[p] \/ (after \in {"gone", "interrupted"} /\ remote[p] \in {"pending", "running"})
  BY <1>1 DEF Stopped
<1>4. outcome = "CANCELLED" => after \notin {"none", "pending", "running"}
  BY <1>1, <1>2, <1>3 DEF Outcome
<1> QED
  BY <1>1, <1>3, <1>4 DEF Dead

\* Only a request, a cancellation, a restart of ComfyUI and its own moves
\* change the state of a prompt.
LEMMA RemoteMovers ==
    ASSUME [Next]_vars
    PROVE  \/ remote' = remote
           \/ WPost \/ WStopPrompt \/ UiStopPrompt \/ RemoteRestarts
           \/ \E p \in Prompt : RemoteMoves(p)
<1>1. CASE WorkerStep /\ ~WStopPrompt /\ ~WPost
  BY <1>1
  DEF WorkerStep, WSkipReconcile, WReconcileExpired, WList, WScanned, WVisit, WCancelRead,
      WLook, WWrite, WClaim, WNothingToClaim, WExecute, WPrepareFails, WCheckCancel, WBegin,
      WMarkSubmitted, WQuarantine, WProgress, WSeesCancel, WHistory, WStoreImages, WComplete,
      WFail, WRelease, WCallback, comfyui
<1>2. CASE WHeartbeat \/ WTransactionFails \/ (Callers /\ ~UiStopPrompt) \/ Restart
             \/ UNCHANGED vars \/ \E g \in Gen : LeaseExpires(g)
  BY <1>2 DEF WHeartbeat, WTransactionFails, Callers, Enqueue, UiCancel, UiMark, UiPoll,
              UiDropRead, UiDrop, UiPolled, LinkAmbiguous, ResolveAsFailed, LeaseExpires,
              Restart, vars, comfyui
<1> QED
  BY <1>1, <1>2 DEF Next, Steps, World

\* What ComfyUI no longer has does not come back, and it has only what it was
\* sent.
LEMMA RemoteStep ==
    ASSUME StopInv, Plainly, [Next]_vars
    PROVE  /\ \A p \in Prompt : Dead(remote, p) => Dead(remote', p)
           /\ UnsentIsUnknown'
<1>1. /\ remote \in [Prompt -> Remote] /\ posts \in [Gen -> Nat] /\ Inv /\ Typed
      /\ \A g \in Gen : g \in Prompt /\ (posts[g] = 0 => remote[g] = "none")
  BY DEF StopInv, Order, Base, Inv, Typed, TypeOK, UnsentIsUnknown, Prompt
<1>2. CASE WPost
  <2>1. w.g \in Gen /\ w.g \in Prompt /\ posts[w.g] = 0 /\ remote[w.g] = "none"
    BY <1>1, <1>2 DEF WPost, Typed, HasItem, ItemPc, Held, Inv, AboutToSend
  <2>2. /\ remote' = remote \/ remote' = [remote EXCEPT ![w.g] = "pending"]
        /\ posts' = [posts EXCEPT ![w.g] = 1]
    BY <1>2, <2>1 DEF WPost
  <2> QED
    BY <1>1, <2>1, <2>2 DEF Dead, UnsentIsUnknown
<1>3. CASE ~WPost
  <2>1. posts' = posts
    BY <1>1, <1>3, PlainOrNot DEF Plain, WBegin, comfyui
  <2>2. CASE remote' = remote
    BY <1>1, <2>1, <2>2 DEF UnsentIsUnknown
  <2>3. CASE \E p \in Prompt, outcome \in {"CANCELLED", "COMPLETED", "FAILED", "IN_PROGRESS",
                                           "NOT_FOUND", "UNAVAILABLE"} : CancelPrompt(p, outcome)
    BY <1>1, <2>1, <2>3, CancelAnswer DEF UnsentIsUnknown
  <2>4. CASE WStopPrompt
    <3>1. w.ask \in Prompt
      BY <2>4 DEF WStopPrompt, StopInv, WorkerKnows, Order, Base, Inv, Typed, TypeOK, Worker
    <3> QED
      BY <2>3, <2>4, <3>1 DEF WStopPrompt
  <2>5. CASE UiStopPrompt
    <3>1. ui.ask \in Prompt
      BY <2>5 DEF UiStopPrompt, StopInv, UiKnows, Order, Base, Inv, Typed, TypeOK, Ui
    <3> QED
      BY <2>3, <2>5, <3>1 DEF UiStopPrompt
  <2>6. CASE RemoteRestarts
    BY <1>1, <2>1, <2>6 DEF RemoteRestarts, Dead, UnsentIsUnknown
  <2>7. CASE \E p \in Prompt : RemoteMoves(p)
    <3>1. PICK p \in Prompt, s \in {"running", "gone", "done", "failed", "interrupted"} :
            remote' = [remote EXCEPT ![p] = s] /\ remote[p] \in {"pending", "running"}
      BY <2>7 DEF RemoteMoves
    <3> QED
      BY <1>1, <2>1, <3>1 DEF Dead, UnsentIsUnknown
  <2> QED
    BY <1>3, <2>2, <2>4, <2>5, <2>6, <2>7, RemoteMovers
<1> QED
  BY <1>2, <1>3

\* Nothing a step does to a row takes back its prompt, its cancel request, or
\* the fact that it may be cancelled.
LEMMA RowStays ==
    ASSUME StopInv, Plainly, [Next]_vars, NEW g \in Gen
    PROVE  /\ row[g].cancel => row'[g].cancel
           /\ PromptOf(row[g]) # None => PromptOf(row'[g]) = PromptOf(row[g])
           /\ Halts(row[g], remote) => Halts(row'[g], remote')
           /\ PromptOf(row[g]) # None /\ Dead(remote', PromptOf(row[g])) => Halts(row'[g], remote')
           /\ Pure(row'[g])
<1>1. /\ row[g] \in Row /\ Sound(row[g]) /\ run \in Nat \ {0} /\ Pure(row[g])
      /\ w.pc = "releasing" /\ g = w.g => row[g].sub # "submitting"
      /\ Base /\ OldMismatch /\ g \notin Legacy
  BY DEF StopInv, Order, Base, Inv, Typed, TypeOK, Rows, Handling, Plainly
<1>2. Tidy(row[g], row'[g]) /\ Changes(g) /\ Keeps(g)
  BY <1>1, AllTidy, AllKeep
<1>3. PromptOf(row[g]) # None => PromptOf(row'[g]) = PromptOf(row[g])
  BY <1>1, <1>2 DEF Tidy, NoPrompts, PromptOf, Mismatch
<1>4. row[g].sub = "ready" /\ row[g].cancel => row'[g].sub = "ready"
  <2>1. SUFFICES ASSUME row[g].sub = "ready", row[g].cancel PROVE row'[g].sub = "ready"
    OBVIOUS
  <2>2. CASE Advances(row[g], row'[g])
    BY <2>1, <2>2 DEF Advances, Lasts
  <2>3. ~Enqueued(row[g], row'[g])
    BY <2>1 DEF Enqueued, Absent
  <2>4. ~CanBegin(row[g], run)
    BY <2>1 DEF CanBegin
  <2>5. CASE \/ CanMarkCancelled(row[g]) /\ row'[g] = MarkCancelled(row[g])
             \/ row'[g] = ReconcileExpired(row[g])
             \/ row[g].sub # "submitting" /\ row'[g] = Unclaimed(row[g])
    BY <1>1, <2>2, <2>5, OtherOperations
  <2>6. ~(w.pc = "writing" /\ w.act = "mismatch" /\ g = w.g)
    BY <1>1 DEF OldMismatch
  <2> QED
    BY <1>1, <1>2, <2>1, <2>2, <2>3, <2>4, <2>5, <2>6 DEF Changes, Ordinary
<1>5. row[g].cancel => row'[g].cancel
  BY <1>2 DEF Keeps, Kept, Endures
<1>6. PromptOf(row[g]) \in Prompt \union {None}
  BY <1>1 DEF PromptOf, Row
<1>7. Halts(row[g], remote) => Halts(row'[g], remote')
  BY <1>3, <1>4, <1>5, <1>6, RemoteStep DEF Halts
<1>8. Pure(row'[g])
  BY <1>1, <1>2 DEF Tidy
<1> QED
  BY <1>3, <1>5, <1>7, <1>8 DEF Halts

\* What the worker reads and is told.
Aware ==
    /\ \A item \in w'.todo :
          /\ item.kind = "cancel" => row[item.g].cancel
          /\ item.kind = "prompt" => item.prompt # None /\ item.prompt = PromptOf(row[item.g])
    /\ w'.pc = "cancelling" => row[w'.g].cancel
    /\ w'.pc \in {"stopping", "looking"} => w'.ask # None /\ w'.ask = PromptOf(row[w'.g])
    /\ w'.pc = "writing" /\ w'.act = "cancelled" =>
         \/ Halts(row[w'.g], remote)
         \/ PromptOf(row[w'.g]) # None /\ Dead(remote', PromptOf(row[w'.g]))

\* What the worker acts on is what it has read or has been told.
LEMMA AwareWorker ==
    ASSUME StopInv, Plainly, WorkerStep
    PROVE  Aware
<1> USE DEF Aware
<1>1. /\ w \in Worker /\ WorkerKnows /\ Base /\ Handling
      /\ w.pc \in ItemPc => w.g \in Gen
      /\ remote \in [Prompt -> Remote]
  BY DEF StopInv, Order, Base, Inv, Typed, TypeOK, HasItem
<1>2. CASE \/ WSkipReconcile \/ WReconcileExpired \/ WNothingToClaim \/ WScanned \/ WProgress
           \/ WCallback
  BY <1>1, <1>2 DEF WSkipReconcile, WReconcileExpired, WNothingToClaim, WScanned, WProgress,
                    WCallback, Go, Worker, WorkerKnows
<1>3. CASE WList
  <2>1. ASSUME NEW g \in Gen, NEW item \in Visits(g)
        PROVE  /\ item.kind = "cancel" => row[item.g].cancel
               /\ item.kind = "prompt" => item.prompt # None /\ item.prompt = PromptOf(row[item.g])
    BY <2>1 DEF Visits
  <2> DEFINE found == UNION {Visits(g) : g \in Gen}
  <2>2. w' = [w EXCEPT !.pc = "scanning", !.back = "scanning", !.todo = found]
    BY <1>3 DEF WList
  <2>3. \A item \in found :
          /\ item.kind = "cancel" => row[item.g].cancel
          /\ item.kind = "prompt" => item.prompt # None /\ item.prompt = PromptOf(row[item.g])
    BY <2>1
  <2> HIDE DEF found
  <2> QED
    BY <1>1, <2>2, <2>3 DEF Worker
<1>4. CASE \E item \in w.todo : WVisit(item)
  <2>1. PICK item \in w.todo : WVisit(item)
    BY <1>4
  <2>2. item \in Item
    BY <1>1 DEF Worker
  <2> DEFINE pc == CASE item.kind = "cancel"   -> "cancelling"
                     [] item.kind = "mismatch" -> "writing"
                     [] item.kind = "prompt"   -> "looking"
  <2>3. /\ item.kind = "cancel" => pc = "cancelling"
        /\ item.kind = "mismatch" => pc = "writing"
        /\ item.kind = "prompt" => pc = "looking"
        /\ item.kind \in {"cancel", "mismatch", "prompt"}
    BY <2>2 DEF Item
  <2>4. w' = [w EXCEPT !.g = item.g, !.todo = w.todo \ {item}, !.pc = pc,
                       !.act = item.kind, !.ask = item.prompt]
    BY <2>1 DEF WVisit
  <2> HIDE DEF pc
  <2>5. /\ w'.pc = pc /\ w'.g = item.g /\ w'.act = item.kind /\ w'.todo \subseteq w.todo
        /\ w'.ask = item.prompt
    BY <1>1, <2>4 DEF Worker
  <2> QED
    BY <1>1, <2>3, <2>5 DEF WorkerKnows
<1>5. CASE WCancelRead
  <2>1. w.pc = "cancelling" /\ row[w.g].cancel
    BY <1>1, <1>5 DEF WCancelRead, WorkerKnows
  <2>2. \/ WriteNext("mismatch")
        \/ WriteNext("cancelled") /\ row[w.g].sub = "ready"
        \/ GoBack
        \/ PromptOf(row[w.g]) # None /\ w' = [w EXCEPT !.pc = "stopping", !.ask = PromptOf(row[w.g])]
    BY <1>5 DEF WCancelRead
  <2> QED
    BY <1>1, <2>1, <2>2 DEF WriteNext, GoBack, Worker, WorkerKnows, Halts
<1>6. CASE WStopPrompt
  <2>1. w.pc = "stopping" /\ w.ask # None /\ w.ask = PromptOf(row[w.g])
    BY <1>1, <1>6 DEF WStopPrompt, WorkerKnows
  <2>2. w.ask \in Prompt
    BY <1>1, <2>1 DEF Worker
  <2>3. \/ WriteNext("cancelled") /\ Dead(remote', w.ask)
        \/ WriteNext("missing") \/ Go("looking") \/ GoBack
    BY <1>1, <1>6, <2>2, CancelAnswer DEF WStopPrompt
  <2> QED
    BY <1>1, <2>1, <2>3 DEF WriteNext, Go, GoBack, Worker, WorkerKnows
<1>7. CASE WLook
  <2>1. w.pc = "looking" /\ w.ask # None /\ w.ask = PromptOf(row[w.g])
    BY <1>1, <1>7 DEF WLook, WorkerKnows
  <2>2. \/ WriteNext("cancelled") /\ Dead(remote, w.ask)
        \/ (\E act \in {"missing", "complete", "fail"} : WriteNext(act)) \/ GoBack
    BY <1>7 DEF WLook, Answer, Dead
  <2> QED
    BY <1>1, <2>1, <2>2 DEF WriteNext, GoBack, Worker, WorkerKnows, Halts
<1>8. CASE WWrite
  BY <1>1, <1>8 DEF WWrite, GoBack, Worker, WorkerKnows
<1>9. CASE \E g \in Gen : WClaim(g)
  <2>1. PICK g \in Gen : w' = [w EXCEPT !.pc = "claimed", !.g = g, !.back = "releasing"]
    BY <1>9 DEF WClaim
  <2> QED
    BY <1>1, <2>1 DEF Worker, WorkerKnows
<1>10. CASE WCheckCancel
  <2>1. \/ Go("beginning")
        \/ WriteNext("cancelled") /\ row[w.g].cancel /\ row[w.g].sub = "ready"
    BY <1>1, <1>10 DEF WCheckCancel, Handling
  <2> QED
    BY <1>1, <2>1 DEF Go, WriteNext, Worker, WorkerKnows, Halts
<1>11. CASE WSeesCancel
  BY <1>1, <1>11 DEF WSeesCancel, Go, Worker, WorkerKnows
<1>12. CASE \/ WExecute \/ WPrepareFails \/ WBegin \/ WPost \/ WMarkSubmitted \/ WQuarantine
            \/ WHistory \/ WStoreImages \/ WComplete \/ WFail \/ WRelease
  <2>1. \/ \E label \in {"prepared", "releasing", "failing", "posting", "accepted", "quarantine",
                         "watching", "storing", "completing", "callback"} : Go(label)
        \/ Halt
    BY <1>12 DEF WExecute, WPrepareFails, WBegin, WPost, WMarkSubmitted, WQuarantine,
                 WHistory, WStoreImages, WComplete, WFail, WRelease
  <2> QED
    BY <1>1, <2>1 DEF Go, Halt, Worker, WorkerKnows
<1> QED
  BY <1>2, <1>3, <1>4, <1>5, <1>6, <1>7, <1>8, <1>9, <1>10, <1>11, <1>12 DEF WorkerStep

\* Nobody else tells it anything.
LEMMA AwareOthers ==
    ASSUME StopInv,
           WHeartbeat \/ WTransactionFails \/ Callers \/ World \/ Restart \/ UNCHANGED vars
    PROVE  Aware
<1> USE DEF Aware
<1>1. w \in Worker /\ WorkerKnows
  BY DEF StopInv, Order, Base, Inv, Typed, TypeOK
<1>2. CASE WTransactionFails
  <2>1. \/ GoBack
        \/ \E to \in {"releasing", "callback", "claiming", "top", "failing", "quarantine"} :
             w' = [w EXCEPT !.pc = to]
        \/ Halt
        \/ w' = [w EXCEPT !.pc = "scanning", !.ask = None, !.act = "none", !.todo = {}]
        \/ w' = [w EXCEPT !.pc = "releasing", !.ask = None, !.act = "none",
                          !.then = IF w.act \in {"complete", "fail"} THEN "top" ELSE "dead"]
    BY <1>2 DEF WTransactionFails, Fault
  <2> QED
    BY <1>1, <2>1 DEF GoBack, Halt, Worker, WorkerKnows
<1>3. CASE Restart
  BY <1>3 DEF Restart, Idle
<1>4. CASE WHeartbeat \/ Callers \/ World \/ UNCHANGED vars
  <2>1. w' = w
    BY <1>4 DEF WHeartbeat, Callers, Enqueue, UiCancel, UiStopPrompt, UiMark, UiPoll,
       UiDropRead,
                UiDrop, UiPolled, LinkAmbiguous, ResolveAsFailed,
                World, RemoteMoves, LeaseExpires, RemoteRestarts, vars
  <2> QED
    BY <1>1, <2>1 DEF WorkerKnows
<1> QED
  BY <1>2, <1>3, <1>4

\* The rows bear the worker out after the step, too ...
LEMMA WorkerKnowsStep ==
    ASSUME StopInv, Plainly, [Next]_vars
    PROVE  WorkerKnows'
<1>1. Aware
  BY AwareWorker, AwareOthers DEF Next, Steps
<1>2. Typed'
  BY StepTypes DEF StopInv, Order, Base, Inv
<1>3. w'.pc \in ItemPc => w'.g \in Gen
  BY <1>2 DEF Typed, HasItem
<1>4. \A item \in w'.todo : item.g \in Gen
  BY <1>2 DEF Typed, TypeOK, Worker, Item
<1>5. \A item \in w'.todo :
         /\ item.kind = "cancel" => row'[item.g].cancel
         /\ item.kind = "prompt" => item.prompt # None /\ item.prompt = PromptOf(row'[item.g])
  BY <1>1, <1>4, RowStays DEF Aware
<1>6. /\ w'.pc = "cancelling" => row'[w'.g].cancel
      /\ w'.pc \in {"stopping", "looking"} => w'.ask # None /\ w'.ask = PromptOf(row'[w'.g])
      /\ w'.pc = "writing" /\ w'.act = "cancelled" => Halts(row'[w'.g], remote')
  BY <1>1, <1>3, RowStays DEF Aware, ItemPc
<1> QED
  BY <1>5, <1>6 DEF WorkerKnows

\* ... and so they do the UI thread.
LEMMA UiKnowsStep ==
    ASSUME StopInv, Plainly, [Next]_vars
    PROVE  UiKnows'
<1>1. ui \in Ui /\ UiKnows /\ Typed /\ row \in [Gen -> Row] /\ remote \in [Prompt -> Remote]
  BY DEF StopInv, Order, Base, Inv, Typed, TypeOK
<1>2. CASE ui' = ui
  BY <1>1, <1>2, RowStays DEF UiKnows
<1>3. CASE ui' = NoRequest
  BY <1>3 DEF NoRequest, UiKnows
<1>4. CASE \E g \in Gen : UiCancel(g)
  <2>1. PICK g \in Gen : UiCancel(g)
    BY <1>4
  <2> DEFINE r == row[g]
             asked == IF CanRequestCancel(r) THEN RequestCancel(r) ELSE r
  <2>2. row'[g] = asked
    BY <1>1, <2>1, StoreOne DEF UiCancel
  <2>3. \/ ui' = NoRequest
        \/ /\ r.gen \notin Terminal /\ Unstarted(asked)
           /\ ui' = [NoRequest EXCEPT !.pc = "marking", !.g = g]
        \/ /\ PromptOf(r) # None
           /\ ui' = [NoRequest EXCEPT !.pc = "asking", !.g = g, !.ask = PromptOf(r)]
    <3>1. ui' = IF r.gen \in Terminal \/ Mismatch(r) THEN NoRequest
                ELSE IF Unstarted(asked) THEN [NoRequest EXCEPT !.pc = "marking", !.g = g]
                ELSE IF PromptOf(r) = None THEN NoRequest
                ELSE [NoRequest EXCEPT !.pc = "asking", !.g = g, !.ask = PromptOf(r)]
      BY <2>1 DEF UiCancel
    <3> HIDE DEF r, asked
    <3> QED
      BY <3>1
  <2>4. CASE r.gen \notin Terminal /\ Unstarted(asked)
             /\ ui' = [NoRequest EXCEPT !.pc = "marking", !.g = g]
    <3>1. asked = RequestCancel(r)
      BY <2>1, <2>4 DEF UiCancel, CanRequestCancel
    <3>2. asked.cancel /\ asked.sub = "ready"
      BY <1>1, <2>4, <3>1 DEF RequestCancel, Row, Unstarted
    <3> HIDE DEF asked
    <3>3. ui'.pc = "marking" /\ ui'.g = g
      BY <2>4 DEF NoRequest
    <3>4. Halts(row'[g], remote')
      BY <2>2, <3>2 DEF Halts
    <3> QED
      BY <3>3, <3>4 DEF UiKnows
  <2>5. CASE PromptOf(r) # None
             /\ ui' = [NoRequest EXCEPT !.pc = "asking", !.g = g, !.ask = PromptOf(r)]
    <3>1. ui'.pc = "asking" /\ ui'.g = g /\ ui'.ask = PromptOf(r)
      BY <2>5 DEF NoRequest
    <3>2. PromptOf(row'[g]) = PromptOf(r)
      BY <2>5, RowStays
    <3> QED
      BY <2>5, <3>1, <3>2 DEF UiKnows
  <2> QED
    BY <1>3, <2>3, <2>4, <2>5
<1>5. CASE UiStopPrompt
  <2>1. ui.pc = "asking" /\ ui.g \in Gen /\ ui.ask # None /\ ui.ask = PromptOf(row[ui.g])
    BY <1>1, <1>5 DEF UiStopPrompt, UiKnows
  <2>2. ui.ask \in Prompt
    BY <1>1, <2>1 DEF Ui
  <2>3. \/ ui' = NoRequest
        \/ ui' = [ui EXCEPT !.pc = "marking", !.ask = None] /\ Dead(remote', ui.ask)
    BY <1>1, <1>5, <2>2, CancelAnswer DEF UiStopPrompt
  <2>4. CASE ui' = [ui EXCEPT !.pc = "marking", !.ask = None] /\ Dead(remote', ui.ask)
    <3>1. ui'.pc = "marking" /\ ui'.g = ui.g
      BY <1>1, <2>4 DEF Ui
    <3>2. Halts(row'[ui.g], remote')
      BY <2>1, <2>4, RowStays
    <3> QED
      BY <2>1, <3>1, <3>2 DEF UiKnows
  <2> QED
    BY <1>3, <2>3, <2>4
<1>6. ~(UiPoll \/ UiDrop \/ UiPolled \/ \E h \in ui.left : UiDropRead(h))
  BY <1>1 DEF UiPoll, RunFailed, Plainly, UiDrop, UiPolled, UiDropRead, UiKnows
<1>7. CASE WorkerStep
  <2>1. ui' = ui
    BY <1>7 DEF WorkerStep, WSkipReconcile, WReconcileExpired, WList, WScanned, WVisit,
       WCancelRead,
                WStopPrompt, WLook, WWrite, WClaim, WNothingToClaim, WExecute, WPrepareFails,
                WCheckCancel, WBegin, WPost, WMarkSubmitted, WQuarantine, WProgress, WSeesCancel,
                WHistory, WStoreImages, WComplete, WFail, WRelease, WCallback
  <2> QED
    BY <1>2, <2>1
<1>8. CASE WHeartbeat \/ WTransactionFails \/ World \/ Restart \/ UNCHANGED vars
            \/ (\E order \in Batches : Enqueue(order)) \/ UiMark
            \/ (\E g \in Gen : ResolveAsFailed(g))
            \/ (\E g \in Gen, p \in Supplied : LinkAmbiguous(g, p))
  <2>1. ui' = ui \/ ui' = NoRequest
    BY <1>8 DEF WHeartbeat, WTransactionFails, World, RemoteMoves, LeaseExpires,
       RemoteRestarts,
                Restart, vars, Enqueue, UiMark, ResolveAsFailed, LinkAmbiguous
  <2> QED
    BY <1>2, <1>3, <2>1
<1> QED
  BY <1>4, <1>5, <1>6, <1>7, <1>8 DEF Next, Steps, Callers

\* A row is only cancelled when it may be.
LEMMA CancelledStep ==
    ASSUME StopInv, Plainly, [Next]_vars
    PROVE  CancelledHalts'
<1> SUFFICES ASSUME NEW g \in Gen, row'[g].gen = "cancelled"
             PROVE  Halts(row'[g], remote')
  BY DEF CancelledHalts
<1>1. /\ row[g] \in Row /\ Sound(row[g]) /\ run \in Nat \ {0}
      /\ w.pc = "releasing" /\ g = w.g => row[g].sub # "submitting"
      /\ Base /\ OldMismatch /\ UiKnows /\ WorkerKnows
      /\ row[g].gen = "cancelled" => Halts(row[g], remote)
  BY DEF StopInv, Order, Base, Inv, Typed, TypeOK, Rows, Handling, CancelledHalts
<1>2. Changes(g)
  BY <1>1, AllKeep
<1> SUFFICES Halts(row[g], remote)
  BY RowStays
<1>3. CASE row'[g] = row[g]
  BY <1>1, <1>3
<1>4. CASE Ordinary(row[g], row'[g])
  BY <1>1, <1>4 DEF Ordinary
<1>5. ~Enqueued(row[g], row'[g])
  BY DEF Enqueued, Absent
<1>6. CASE Cancels(g)
  BY <1>1, <1>6 DEF Cancels, UiKnows, WorkerKnows, Plainly
<1>7. CASE row'[g] = ReconcileExpired(row[g])
  BY <1>1, <1>7, OtherOperations DEF Halts
<1>8. CASE \/ row[g].sub # "submitting" /\ row'[g] = Unclaimed(row[g])
           \/ CanBegin(row[g], run) /\ row'[g] = BeginSubmission(row[g])
  BY <1>1, <1>8, OtherOperations DEF Sound
<1>9. ~(w.pc = "writing" /\ w.act = "mismatch" /\ g = w.g)
  BY <1>1 DEF OldMismatch, Plainly
<1> QED
  BY <1>1, <1>2, <1>3, <1>4, <1>5, <1>6, <1>7, <1>8, <1>9 DEF Changes

\* The invariant of cancelled generations, initially ...
LEMMA StopInit ==
    ASSUME Plainly
    PROVE  Init => StopInv
<1> SUFFICES ASSUME Init PROVE StopInv
  OBVIOUS
<1>1. \A g \in Gen : row[g] = Absent
  BY DEF Init, Plainly
<1>2. Absent.gen = "pending" /\ Pure(Absent)
  BY DEF Absent, Pure, NoPrompts
<1>3. UnsentIsUnknown
  <2>1. SUFFICES ASSUME NEW g \in Gen PROVE remote[g] = "none"
    BY DEF UnsentIsUnknown
  <2>2. g # Alien /\ g \notin Legacy /\ g \in Prompt
    BY PromptAssumption DEF Plainly, Prompt
  <2> QED
    BY <2>2 DEF Init
<1>4. CancelledHalts
  BY <1>1, <1>2 DEF CancelledHalts
<1> QED
  BY <1>1, <1>2, <1>3, <1>4, OrderInit
  DEF StopInv, WorkerKnows, UiKnows, Init, Idle, NoRequest

\* ... and in every step.
LEMMA StopStep ==
    ASSUME Plainly
    PROVE  StopInv /\ [Next]_vars => StopInv'
<1> SUFFICES ASSUME StopInv, [Next]_vars PROVE StopInv'
  OBVIOUS
<1>1. Order'
  BY OrderStep DEF StopInv
<1>2. UnsentIsUnknown'
  BY RemoteStep
<1>3. \A g \in Gen : Pure(row'[g])
  BY RowStays
<1> QED
  BY <1>1, <1>2, <1>3, CancelledStep, WorkerKnowsStep, UiKnowsStep DEF StopInv

\* In a queue without migrated rows and without an interactive run, no
\* cancelled generation is waiting or running in ComfyUI: not when the answer
\* to a cancellation is late, not after restarts, not when the operator links
\* prompts.  (A run breaks it by cancelling on a stale reading, and a migrated row when
\* the operator links it to another prompt between the stop of the first and the mark.)
THEOREM CancelledStopped ==
    ASSUME Legacy = {}, Interactive = {}
    PROVE  Spec => []CancelledMeansStopped
<1>1. Plainly
  BY DEF Plainly
<1>2. StopInv => CancelledMeansStopped
  <2> SUFFICES ASSUME StopInv, NEW g \in Gen, row[g].gen = "cancelled"
               PROVE  remote[WorkOf(g)] \notin {"pending", "running"}
    BY DEF CancelledMeansStopped
  <2>1. Halts(row[g], remote)
    BY DEF StopInv, CancelledHalts
  <2>2. CASE PromptOf(row[g]) # None
    <3>1. Pure(row[g]) /\ row[g] \in Row /\ Sound(row[g])
      BY DEF StopInv, Order, Base, Inv, Typed, TypeOK, Rows
    <3>2. row[g].sub # "ready"
      BY <2>2, <3>1 DEF Pure, NoPrompts, PromptOf
    <3> QED
      BY <2>1, <2>2, <3>2 DEF Halts, WorkOf, Dead
  <2>3. CASE PromptOf(row[g]) = None
    <3>1. row[g].sub = "ready"
      BY <2>1, <2>3 DEF Halts
    <3>2. posts[g] = 0
      BY <3>1 DEF StopInv, Order, Base, Inv, SentIsNotReady, Typed, TypeOK
    <3> QED
      BY <2>3, <3>2 DEF StopInv, UnsentIsUnknown, WorkOf
  <2> QED
    BY <2>2, <2>3
<1> QED
  BY <1>1, <1>2, StopInit, StopStep, PTL DEF Spec
-----------------------------------------------------------------------------
(* The queue with the recovery pass.  The pass may fail a row that is being *)
(* submitted, so rows are not steady any more; what it completes or cancels *)
(* had a prompt when it was listed, and was submitted by then.              *)

Recovery == [pc   : {"idle", "visiting", "looking", "failing", "cancelling", "completing"},
             job  : [g : Gen \union {None}, prompt : Prompt \union {None}],
             todo : SUBSET [g : Gen, prompt : Prompt \union {None}]]

\* What the pass knows about a job.
Recovers(job) == /\ job.g \in Gen /\ Exists(row[job.g])
                 /\ job.prompt # None => Settled(job.g)

Recovering == /\ rec \in Recovery
              /\ \A job \in rec.todo : Recovers(job)
              /\ rec.pc \notin {"idle", "visiting"} => Recovers(rec.job)
              /\ rec.pc \in {"looking", "cancelling", "completing"} => rec.job.prompt # None

RBase == Base /\ Recovering

\* Every prompt id a row knows has been assigned: it belongs to none of these
\* generations, or to one whose request was sent or will never be.  Only an
\* operator who types in an id before it is assigned could break this.
Assigned(p) == p \in Gen => Settled(p) \/ posts[p] > 0

PromptsAssigned == \A g \in Gen : Assigned(row[g].jprompt)

\* ComfyUI has ended a prompt, or does not have it.
Inactive(p) == remote[p] \notin {"pending", "running"}

Looked == /\ \A job \in rec.todo : Assigned(job.prompt)
          /\ Assigned(rec.job.prompt)
          /\ rec.pc \in {"failing", "cancelling", "completing"} /\ rec.job.prompt # None =>
               Inactive(rec.job.prompt)

\* The pass starts with nothing listed.
LEMMA RecoveringInit == RInit => Recovering
  BY DEF RInit, NoRecovery, NoJob, Recovering, Recovery

\* What the pass does to a row is no more than a worker could meet.
LEMMA WriteOperations ==
    ASSUME NEW r \in Row, Sound(r), Exists(r)
    PROVE  /\ CanFail(r) =>
                Lasts(r, Fail(r)) /\ SameSubmission(r, Fail(r))
           /\ CanCancelGeneration(r) /\ r.sub # "submitting" =>
                Lasts(r, CancelGeneration(r)) /\ SameSubmission(r, CancelGeneration(r))
           /\ CanComplete(r) /\ r.sub # "submitting" =>
                Lasts(r, Complete(r)) /\ SameSubmission(r, Complete(r))
<1> USE DEF Lasts, SameSubmission, Stays, Steady, Busy, Sound, Blank, Begun, Leased,
            NoPrompts, Over, Terminal, Active, Status, Row
<1>1. CanFail(r) => Lasts(r, Fail(r)) /\ SameSubmission(r, Fail(r))
  BY DEF CanFail, Fail, Both, Audit
<1>2. CanCancelGeneration(r) /\ r.sub # "submitting" =>
        Lasts(r, CancelGeneration(r)) /\ SameSubmission(r, CancelGeneration(r))
  <2> DEFINE q == CancelGeneration(r)
  <2> SUFFICES ASSUME CanCancelGeneration(r), r.sub # "submitting"
               PROVE  Lasts(r, q) /\ SameSubmission(r, q)
    OBVIOUS
  <2>1. r.gen \notin {"completed", "failed"}
    BY DEF CanCancelGeneration
  <2>2. /\ q \in Row /\ q.gen = "cancelled" /\ q.job = "cancelled" /\ q.sub = r.sub
        /\ q.seq = r.seq /\ q.cancel = r.cancel /\ q.worker = r.worker /\ q.lease = r.lease
        /\ q.gprompt = r.gprompt /\ q.jprompt = r.jprompt
    BY DEF CancelGeneration, Both, Audit
  <2> HIDE DEF q
  <2> QED
    BY <2>1, <2>2
<1>3. CanComplete(r) /\ r.sub # "submitting" =>
        Lasts(r, Complete(r)) /\ SameSubmission(r, Complete(r))
  BY DEF CanComplete, ValidTransition, Complete, Both
<1> QED
  BY <1>1, <1>2, <1>3

\* The pass writes one row, and leaves everything else alone.
LEMMA WriteKeeps ==
    ASSUME RBase, RWrite
    PROVE  /\ w' = w /\ posts' = posts /\ remote' = remote /\ nextSeq' = nextSeq
           /\ row' \in [Gen -> Row]
           /\ \A g \in Gen : SameSubmission(row[g], row'[g]) /\ Holds(g)
<1> DEFINE r == row[rec.job.g]
           q == CASE rec.pc = "failing"    /\ CanFail(r)             -> Fail(r)
                  [] rec.pc = "cancelling" /\ CanCancelGeneration(r) -> CancelGeneration(r)
                  [] rec.pc = "completing" /\ CanComplete(r)         -> Complete(r)
                  [] OTHER                                           -> r
<1>1. /\ w' = w /\ posts' = posts /\ remote' = remote /\ nextSeq' = nextSeq
      /\ Store(rec.job.g, q)
  BY DEF RWrite, comfyui
<1>2. /\ rec.job.g \in Gen /\ Exists(r)
      /\ rec.pc \in {"cancelling", "completing"} => r.sub # "submitting"
  BY DEF RBase, Recovering, Recovers, Settled, RWrite
<1>3. \A g \in Gen : /\ row[g] \in Row /\ Sound(row[g]) /\ row[g].seq < nextSeq
                     /\ ~Exists(row[g]) => row[g] = Absent
  BY DEF RBase, Base, Rows, Inv, Typed, TypeOK
<1>4. nextSeq \in Nat /\ Typed
  BY DEF RBase, Base, Inv, Typed, TypeOK
<1>5. r \in Row /\ Sound(r)
  BY <1>2, <1>3
<1>6. q = r \/ (Lasts(r, q) /\ SameSubmission(r, q))
  <2>1. /\ rec.pc = "failing" /\ CanFail(r) =>
             Lasts(r, Fail(r)) /\ SameSubmission(r, Fail(r))
        /\ rec.pc = "cancelling" /\ CanCancelGeneration(r) =>
             Lasts(r, CancelGeneration(r)) /\ SameSubmission(r, CancelGeneration(r))
        /\ rec.pc = "completing" /\ CanComplete(r) =>
             Lasts(r, Complete(r)) /\ SameSubmission(r, Complete(r))
    BY <1>2, <1>5, WriteOperations
  <2> QED
    BY <2>1
<1> HIDE DEF q
<1>7. row'[rec.job.g] = q /\ \A h \in Gen \ {rec.job.g} : row'[h] = row[h]
  BY <1>1, <1>2, <1>4, StoreOne
<1>8. ASSUME NEW g \in Gen PROVE SameSubmission(row[g], row'[g]) /\ Holds(g)
  <2>1. CASE row'[g] = row[g]
    <3>1. Endures(row[g], row[g], nextSeq, w'.pc = "posting" /\ g = w'.g)
      BY <1>3, <1>4, SameKept DEF Kept
    <3> QED
      BY <1>1, <1>3, <2>1, <3>1 DEF Holds, Endures, SameSubmission
  <2>2. CASE g = rec.job.g /\ Lasts(r, q) /\ SameSubmission(r, q)
    <3>1. Endures(r, q, nextSeq, w'.pc = "posting" /\ g = w'.g)
      BY <1>2, <1>3, <1>4, <2>2, LastsEndures
    <3> QED
      BY <1>1, <1>7, <2>2, <3>1 DEF Holds
  <2> QED
    BY <1>6, <1>7, <2>1, <2>2
<1>9. row' \in [Gen -> Row]
  BY <1>1, <1>4, <1>6, StoreType DEF SameSubmission, Typed, TypeOK
<1> QED
  BY <1>1, <1>8, <1>9

\* Every other step is one of the queue's, or leaves the queue alone.
LEMMA OnlyWrites ==
    ASSUME [RNext]_recVars
    PROVE  RWrite \/ [Next]_vars
  BY DEF RNext, recVars, RecoveryStep, RList, RDone, RLook, RVisit, Next

\* Rows keep their numbers, submissions and ends next to the pass, too.
LEMMA RecoveryKeeps ==
    ASSUME RBase, [RNext]_recVars, NEW g \in Gen
    PROVE  Holds(g)
  BY OnlyWrites, WriteKeeps, AllKeep DEF RBase, Keeps, Kept, Holds

\* The first part of the invariant holds next to the pass ...
LEMMA RBaseBase == RBase /\ [RNext]_recVars => Base'
<1> SUFFICES ASSUME RBase, [RNext]_recVars PROVE Base'
  OBVIOUS
<1>1. CASE [Next]_vars
  BY <1>1, BaseStep DEF RBase
<1>2. CASE RWrite
  <2>1. /\ w' = w /\ posts' = posts /\ remote' = remote /\ nextSeq' = nextSeq
        /\ row' \in [Gen -> Row]
        /\ \A g \in Gen : SameSubmission(row[g], row'[g]) /\ Holds(g)
    BY <1>2, WriteKeeps
  <2>2. Typed /\ Inv /\ Handling /\ Listed
    BY DEF RBase, Base, Inv
  <2>3. Typed'
    BY <1>2, <2>1, <2>2 DEF RWrite, Typed, TypeOK, HasItem, comfyui
  <2>4. Inv'
    <3>1. Plain
      BY <2>1 DEF Plain, Moved
    <3>2. Controlled
      BY <2>1, <2>2 DEF Controlled, Inv, MismatchIsNotReady
    <3> QED
      BY <2>2, <2>3, <3>1, <3>2, PlainStep
  <2>5. Rows'
    BY <2>1 DEF Rows, Holds, Endures
  <2>6. \A g \in Gen : (Exists(row[g]) => Exists(row'[g])) /\ row'[g].sub = row[g].sub
    BY <2>1, <2>2 DEF Holds, Endures, Exists, SameSubmission, Typed, TypeOK, Row
  <2>7. /\ w.pc \in ItemPc => w.g \in Gen
        /\ \A item \in w.todo : item.g \in Gen
    BY <2>2 DEF Typed, TypeOK, HasItem, Worker, Item
  <2>8. Handling'
    BY <2>1, <2>2, <2>6, <2>7 DEF Handling, Settled, ItemPc, Held
  <2>9. Listed'
    BY <2>1, <2>2, <2>6, <2>7 DEF Listed, Settled
  <2> QED
    BY <2>4, <2>5, <2>8, <2>9 DEF Base
<1> QED
  BY <1>1, <1>2, OnlyWrites

\* ... and what the pass knows about its jobs stays true.
LEMMA RecoveringStep == RBase /\ [RNext]_recVars => Recovering'
<1> SUFFICES ASSUME RBase, [RNext]_recVars PROVE Recovering'
  OBVIOUS
<1>1. \A g \in Gen : row[g] \in Row /\ Blank(row[g]) /\ None \notin Gen
  BY PromptAssumption DEF RBase, Base, Rows, Sound, Inv, Typed, TypeOK, Prompt
<1>2. ASSUME NEW g \in Gen
      PROVE  /\ Exists(row[g]) => Exists(row'[g])
             /\ Settled(g) => row'[g].sub \in {"submitted", "ambiguous"}
  BY <1>1, RecoveryKeeps DEF Holds, Endures, Exists, Settled
<1>3. \A job : Recovers(job) => /\ job.g \in Gen /\ Exists(row'[job.g])
                                /\ job.prompt # None =>
                                     row'[job.g].sub \in {"submitted", "ambiguous"}
  BY <1>2 DEF Recovers
<1>4. rec \in Recovery /\ Recovering
  BY DEF RBase, Recovering
<1>5. SUFFICES /\ rec' \in Recovery
               /\ \A job \in rec'.todo : Recovers(job)
               /\ rec'.pc \notin {"idle", "visiting"} => Recovers(rec'.job)
               /\ rec'.pc \in {"looking", "cancelling", "completing"} => rec'.job.prompt # None
  BY <1>3, <1>5 DEF Recovering, Recovers, Settled
<1>6. CASE rec' = rec
  BY <1>4, <1>6 DEF Recovering
<1>7. CASE rec' = NoRecovery
  BY <1>7 DEF NoRecovery, NoJob, Recovery
<1>8. CASE RList
  <2> DEFINE found == {[g |-> g, prompt |-> row[g].jprompt] :
                         g \in {h \in Gen : Exists(row[h]) /\ row[h].job \in Active}}
  <2>1. rec.pc = "idle" /\ rec' = [rec EXCEPT !.pc = "visiting", !.todo = found]
    BY <1>8 DEF RList
  <2>2. ASSUME NEW job \in found
        PROVE  job \in [g : Gen, prompt : Prompt \union {None}] /\ Recovers(job)
    <3>1. PICK g \in Gen : Exists(row[g]) /\ job = [g |-> g, prompt |-> row[g].jprompt]
      OBVIOUS
    <3>2. row[g].jprompt # None => Settled(g)
      BY <1>1 DEF Blank, NoPrompts, Settled, Row, SubmissionState
    <3> QED
      BY <1>1, <3>1, <3>2 DEF Recovers, Row
  <2>3. found \in SUBSET [g : Gen, prompt : Prompt \union {None}]
    BY <2>2
  <2> HIDE DEF found
  <2>4. rec'.pc = "visiting" /\ rec'.todo = found /\ rec' \in Recovery
    BY <1>4, <2>1, <2>3 DEF Recovery
  <2> QED
    BY <2>2, <2>4
<1>9. CASE \E job \in rec.todo : RVisit(job)
  <2>1. PICK job \in rec.todo, label \in {"visiting", "failing", "looking"} :
           /\ label = "looking" <=> job.prompt # None /\ row[job.g].gen \notin Terminal
           /\ rec' = [pc   |-> label,
                      job  |-> IF label = "visiting" THEN NoJob ELSE job,
                      todo |-> rec.todo \ {job}]
    BY <1>9 DEF RVisit
  <2>2. Recovers(job) /\ job \in [g : Gen, prompt : Prompt \union {None}]
    BY <1>4 DEF Recovering, Recovery
  <2>3. NoJob \in [g : Gen \union {None}, prompt : Prompt \union {None}]
    BY DEF NoJob
  <2>4. rec' \in Recovery
    BY <1>4, <2>1, <2>2, <2>3 DEF Recovery
  <2>5. rec'.pc = label /\ rec'.todo \subseteq rec.todo /\ (label # "visiting" => rec'.job = job)
    BY <2>1
  <2> QED
    BY <1>4, <2>1, <2>2, <2>4, <2>5 DEF Recovering
<1>10. CASE RLook
  <2>1. PICK label \in {"completing", "failing", "cancelling", "visiting"} :
           rec.pc = "looking" /\ IF label = "visiting" THEN NextJob ELSE Then(label)
    BY <1>10 DEF RLook, Decision
  <2>2. CASE label = "visiting"
    <3>1. NoJob \in [g : Gen \union {None}, prompt : Prompt \union {None}]
      BY DEF NoJob
    <3>2. rec' = [rec EXCEPT !.pc = "visiting", !.job = NoJob]
      BY <2>1, <2>2 DEF NextJob
    <3> QED
      BY <1>4, <3>1, <3>2 DEF Recovering, Recovery
  <2>3. CASE label # "visiting"
    BY <1>4, <2>1, <2>3 DEF Then, Recovering, Recovery
  <2> QED
    BY <2>2, <2>3
<1>11. CASE RWrite
  BY <1>4, <1>11 DEF RWrite, NextJob, NoJob, Recovering, Recovery
<1> QED
  BY <1>6, <1>7, <1>8, <1>9, <1>10, <1>11 DEF RNext, recVars, RecoveryStep, RDone

\* So both hold always.
LEMMA RBaseAlways == RSpec => []RBase
<1>1. RInit => RBase
  BY BaseInit, RecoveringInit DEF RInit, RBase
<1>2. RBase /\ [RNext]_recVars => RBase'
  BY RBaseBase, RecoveringStep DEF RBase
<1> QED
  BY <1>1, <1>2, PTL DEF RSpec

\* Next to the recovery pass, too, at most one POST /prompt is sent for a
\* generation, and the queue implements SubmitOnce: the pass touches statuses
\* only, never a submission.
THEOREM RecoveryRefinement == RSpec => KeepsPromise
<1>1. RBase /\ [RNext]_recVars => [Promise!Next]_<<phase, posts>>
  <2> SUFFICES ASSUME RBase, [RNext]_recVars PROVE [Promise!Next]_<<phase, posts>>
    OBVIOUS
  <2>1. CASE [Next]_vars
    BY <2>1, StepMaps DEF RBase, Base
  <2>2. CASE RWrite
    BY <2>2, WriteKeeps, StutterMaps DEF SameSubmission
  <2> QED
    BY <2>1, <2>2, OnlyWrites
<1>2. RInit => Promise!Init
  BY InitMaps DEF RInit
<1>3. RSpec => Promise!Init /\ [][Promise!Next]_<<phase, posts>>
  BY <1>1, <1>2, RBaseAlways, PTL DEF RSpec
<1> QED
  BY <1>3, PTL DEF KeepsPromise, Promise!Spec, phase

\* The pass leaves every claim and every submission it meets recoverable.
THEOREM RecoveryClaims == RSpec => []ClaimsAreRecoverable
<1>1. RBase => ClaimsAreRecoverable
  BY DEF RBase, Base, Rows, Sound, Leased, ClaimsAreRecoverable
<1> QED
  BY <1>1, RBaseAlways, PTL

\* A completed or cancelled generation stays so, whatever the worker, the UI
\* and the recovery pass then do with what they read before.
THEOREM SettledStays == RSpec => SettledIsFinal
<1>1. RBase /\ [RNext]_recVars =>
        [\A g \in Gen : row[g].gen \in {"completed", "cancelled"} =>
            row'[g].gen = row[g].gen]_recVars
  BY RecoveryKeeps DEF Holds, Endures, Stays
<1> QED
  BY <1>1, RBaseAlways, PTL DEF RSpec, SettledIsFinal

-----------------------------------------------------------------------------
(* What ComfyUI had said of a prompt when the pass decided stays true of it. *)

\* No request is taken back, and only a request the worker was about to send
\* makes an ended or unknown prompt wait again.
LEMMA InactiveStays ==
    ASSUME RBase, [RNext]_recVars
    PROVE  /\ \A g \in Gen : posts[g] > 0 => posts'[g] > 0
           /\ \A p : Assigned(p) => (p \in Gen => row'[p].sub \in {"submitted", "ambiguous"}
                                                    \/ posts'[p] > 0)
           /\ \A p \in Prompt : Assigned(p) /\ Inactive(p) =>
                remote'[p] \notin {"pending", "running"}
<1>1. /\ Typed /\ AboutToSend /\ \A g \in Gen : row[g] \in Row
  BY DEF RBase, Base, Inv, Typed, TypeOK
<1>2. ASSUME NEW p, CancelPrompt(w.ask, p) \/ CancelPrompt(ui.ask, p)
      PROVE  \A q \in Prompt : Inactive(q) => remote'[q] \notin {"pending", "running"}
  BY <1>1, <1>2 DEF CancelPrompt, Stopped, Inactive, Typed, TypeOK
<1>3. CASE WPost
  <2>1. w.g \in Gen /\ w.pc = "posting" /\ ~Assigned(w.g)
    BY <1>1, <1>3 DEF WPost, AboutToSend, Typed, HasItem, ItemPc, Held, Assigned, Settled
  <2>2. posts' = [posts EXCEPT ![w.g] = posts[w.g] + 1]
    BY <1>3 DEF WPost
  <2>3. remote' = remote \/ remote' = [remote EXCEPT ![w.g] = "pending"]
    BY <1>3 DEF WPost
  <2>4. \A g \in Gen : posts[g] > 0 => posts'[g] > 0
    BY <1>1, <2>1, <2>2 DEF Typed, TypeOK
  <2>5. \A p \in Prompt : Assigned(p) /\ Inactive(p) => remote'[p] \notin {"pending", "running"}
    BY <1>1, <2>1, <2>3 DEF Inactive, Typed, TypeOK
  <2>6. row' = row
    BY <1>3 DEF WPost, database
  <2> QED
    BY <2>4, <2>5, <2>6 DEF Assigned, Settled
<1>4. CASE ~WPost
  <2>1. posts' = posts
    <3>1. CASE RWrite
      BY <3>1, WriteKeeps
    <3>2. CASE [Next]_vars
      BY <1>4, <3>2, PlainOrNot DEF RBase, Base, Plain, WBegin, comfyui
    <3> QED
      BY <3>1, <3>2, OnlyWrites
  <2>2. \A p \in Prompt : Inactive(p) => remote'[p] \notin {"pending", "running"}
    <3>1. CASE RWrite
      BY <3>1, WriteKeeps DEF Inactive
    <3>2. CASE WStopPrompt \/ UiStopPrompt
      BY <1>2, <3>2 DEF WStopPrompt, UiStopPrompt
    <3>3. CASE RemoteRestarts \/ \E p \in Prompt : RemoteMoves(p)
      BY <1>1, <3>3 DEF RemoteRestarts, RemoteMoves, Inactive, Typed, TypeOK
    <3>4. CASE remote' = remote
      BY <3>4 DEF Inactive
    <3> QED
      BY <1>4, <3>1, <3>2, <3>3, <3>4, OnlyWrites, RemoteMovers
  <2>3. \A g \in Gen : Holds(g)
    BY RecoveryKeeps
  <2> QED
    BY <1>1, <2>1, <2>2, <2>3 DEF Assigned, Settled, Holds, Endures
<1> QED
  BY <1>3, <1>4

\* So the pass acts on what is still true, as long as prompt ids are assigned.
LEMMA LookedStep ==
    ASSUME RBase, PromptsAssigned, Looked, [RNext]_recVars
    PROVE  Looked'
<1>1. \A job \in rec.todo : job.prompt \in Prompt \union {None}
  BY DEF RBase, Recovering, Recovery
<1>2. rec.job.prompt \in Prompt \union {None} /\ None \notin Gen
  BY PromptAssumption DEF RBase, Recovering, Recovery, Prompt
<1>3. \A p : Assigned(p) => (p \in Gen => row'[p].sub \in {"submitted", "ambiguous"}
                                            \/ posts'[p] > 0)
  BY InactiveStays
<1>4. SUFFICES /\ \A job \in rec'.todo : Assigned(job.prompt)
               /\ Assigned(rec'.job.prompt)
               /\ rec'.pc \in {"failing", "cancelling", "completing"}
                    /\ rec'.job.prompt # None =>
                       remote'[rec'.job.prompt] \notin {"pending", "running"}
  BY <1>3, <1>4 DEF Looked, Inactive, Assigned, Settled
<1>5. Assigned(None)
  BY <1>2 DEF Assigned
<1>6. CASE rec' = rec
  BY <1>2, <1>6, InactiveStays DEF Looked
<1>7. CASE rec' = NoRecovery
  BY <1>5, <1>7 DEF NoRecovery, NoJob
<1>8. CASE RList
  <2>1. rec \in Recovery
    BY DEF RBase, Recovering
  <2> DEFINE found == {[g |-> g, prompt |-> row[g].jprompt] :
                         g \in {h \in Gen : Exists(row[h]) /\ row[h].job \in Active}}
  <2>2. \A job \in found : Assigned(job.prompt)
    BY DEF PromptsAssigned
  <2>3. rec' = [rec EXCEPT !.pc = "visiting", !.todo = found]
    BY <1>8 DEF RList
  <2> HIDE DEF found
  <2> QED
    BY <2>1, <2>2, <2>3 DEF Recovery, Looked
<1>9. CASE \E job \in rec.todo : RVisit(job)
  <2>1. PICK job \in rec.todo, label \in {"visiting", "failing", "looking"} :
           /\ label = "failing" => job.prompt = None /\ row[job.g].gen = "pending"
           /\ rec' = [pc   |-> label,
                      job  |-> IF label = "visiting" THEN NoJob ELSE job,
                      todo |-> rec.todo \ {job}]
    BY <1>9 DEF RVisit
  <2> QED
    BY <1>5, <2>1 DEF Looked, NoJob
<1>10. CASE RLook
  <2>1. PICK answer \in Answer(rec.job.prompt) : \E label \in Decision(answer) :
           rec.pc = "looking" /\ IF label = "visiting" THEN NextJob ELSE Then(label)
    BY <1>10 DEF RLook
  <2>2. PICK label \in Decision(answer) :
           rec.pc = "looking" /\ IF label = "visiting" THEN NextJob ELSE Then(label)
    BY <2>1
  <2>3. remote' = remote /\ rec \in Recovery
    BY <1>10 DEF RLook, vars, RBase, Recovering
  <2>4. CASE label = "visiting"
    <3>1. rec' = [rec EXCEPT !.pc = "visiting", !.job = NoJob]
      BY <2>2, <2>4 DEF NextJob
    <3> QED
      BY <1>5, <2>3, <3>1 DEF NoJob, Looked, Recovery
  <2>5. CASE label # "visiting"
    <3>1. label \in {"completing", "failing", "cancelling"}
      BY <2>2, <2>5 DEF Decision
    <3>2. answer \in {"done", "failed", "interrupted", "missing"}
      BY <2>2, <2>5 DEF Decision
    <3>3. Inactive(rec.job.prompt)
      BY <2>2, <3>2 DEF Answer, Inactive
    <3> QED
      BY <2>2, <2>3, <2>5, <3>1, <3>3 DEF Then, Looked, Inactive, Recovery
  <2> QED
    BY <2>4, <2>5
<1>11. CASE RWrite
  <2>1. rec \in Recovery /\ rec' = [rec EXCEPT !.pc = "visiting", !.job = NoJob]
    BY <1>11 DEF RWrite, NextJob, RBase, Recovering
  <2> QED
    BY <1>5, <2>1 DEF NoJob, Looked, Recovery
<1> QED
  BY <1>6, <1>7, <1>8, <1>9, <1>10, <1>11 DEF RNext, recVars, RecoveryStep, RDone

\* The recovery pass never ends a generation whose prompt ComfyUI still has
\* waiting or running, although it acts some steps after ComfyUI answered.
\* An operator who links a row to an id that is assigned only later can break
\* this, hence the premise.
THEOREM SparesRunning == RSpec /\ []PromptsAssigned => RecoverySparesRunning
<1>1. RInit => Looked
  BY PromptAssumption DEF RInit, NoRecovery, NoJob, Looked, Assigned, Prompt
<1>2. RBase /\ PromptsAssigned /\ Looked /\ [RNext]_recVars => Looked'
  BY LookedStep
<1>3. Looked => [\A g \in Gen :
                   /\ rec.pc \in {"failing", "cancelling", "completing"} /\ rec.job.g = g
                   /\ rec.job.prompt # None
                   /\ row'[g].gen # row[g].gen
                   => remote[rec.job.prompt] \notin {"pending", "running"}]_recVars
  BY DEF Looked, Inactive
<1> QED
  BY <1>1, <1>2, <1>3, RBaseAlways, PTL DEF RSpec, RecoverySparesRunning

\* The premise holds when the operator can only paste ids that no generation
\* of this application has yet to be given.
LEMMA AssignedStep ==
    ASSUME Supplied \intersect Gen \subseteq Legacy,
           RBase, PromptsAssigned, [RNext]_recVars
    PROVE  PromptsAssigned'
<1>1. /\ Typed /\ Inv /\ None \notin Gen /\ \A g \in Gen : row[g] \in Row
  BY PromptAssumption DEF RBase, Base, Inv, Typed, TypeOK, Prompt
<1>2. \A p : Assigned(p) => (p \in Gen => row'[p].sub \in {"submitted", "ambiguous"}
                                            \/ posts'[p] > 0)
  BY InactiveStays
<1>3. SUFFICES ASSUME NEW g \in Gen
               PROVE  LET p == row'[g].jprompt IN
                      Assigned(p) \/ (p \in Gen => row'[p].sub \in {"submitted", "ambiguous"})
  BY <1>2, <1>3 DEF PromptsAssigned, Assigned, Settled
<1>4. Assigned(row[g].jprompt)
  BY DEF PromptsAssigned
<1>5. CASE row'[g].jprompt = row[g].jprompt
  BY <1>4, <1>5
<1>6. CASE WMarkSubmitted /\ CanMarkSubmitted(row[w.g], run) /\ ~Quiet
  <2>1. /\ w.g \in Gen /\ row' = [row EXCEPT ![w.g] = MarkSubmitted(row[w.g], w.g)]
        /\ row'[w.g].sub = "submitted"
    BY <1>1, <1>6, MarkSubmittedMoves
  <2>2. MarkSubmitted(row[w.g], w.g).jprompt = w.g
    BY <1>1, <2>1 DEF MarkSubmitted, Both, Row
  <2>3. CASE g = w.g
    BY <1>1, <2>1, <2>2, <2>3 DEF Typed, TypeOK
  <2>4. CASE g # w.g
    BY <1>1, <1>5, <2>1, <2>4 DEF Typed, TypeOK
  <2> QED
    BY <2>3, <2>4
<1>7. CASE \E h \in Gen, p \in Supplied : LinkAmbiguous(h, p)
  <2>1. PICK h \in Gen, p \in Supplied : LinkAmbiguous(h, p)
    BY <1>7
  <2>2. row' = [row EXCEPT ![h] = LinkPrompt(row[h], p)] /\ LinkPrompt(row[h], p).jprompt = p
    BY <1>1, <2>1 DEF LinkAmbiguous, Store, LinkPrompt, Unclaimed, Both, Row
  <2>3. Assigned(p)
    BY <1>1 DEF Inv, LegacyApart, Assigned, Settled
  <2> QED
    BY <1>1, <1>5, <2>2, <2>3 DEF Typed, TypeOK
<1>8. ASSUME row' = row \/ SameSubmission(row[g], row'[g])
      PROVE  row'[g].jprompt = row[g].jprompt
  BY <1>8 DEF SameSubmission
<1>9. CASE Quiet \/ RWrite \/ WPost
  BY <1>5, <1>8, <1>9, WriteKeeps DEF Quiet, WPost, database
<1>10. CASE WReconcileExpired
  BY <1>1, <1>5, <1>10 DEF WReconcileExpired, ReconcileExpired, Unclaimed, Both, Row, Typed, TypeOK
<1>11. CASE WBegin \/ WQuarantine \/ (WWrite /\ w.act = "mismatch")
  <2>1. w.g \in Gen
    BY <1>1, <1>11 DEF WBegin, WQuarantine, WWrite, Typed, HasItem, ItemPc, Held
  <2>2. /\ BeginSubmission(row[w.g]).jprompt = row[w.g].jprompt
        /\ Quarantine(row[w.g]).jprompt = row[w.g].jprompt
        /\ MarkMismatch(row[w.g]).jprompt = row[w.g].jprompt
    BY <1>1, <2>1 DEF BeginSubmission, Quarantine, MarkMismatch, Unclaimed, Row
  <2>3. row'[g].jprompt = row[g].jprompt
    BY <1>1, <1>11, <2>1, <2>2
    DEF WBegin, WQuarantine, WWrite, Store, Typed, TypeOK
  <2> QED
    BY <1>5, <2>3
<1>12. CASE [Next]_vars
  BY <1>1, <1>6, <1>7, <1>9, <1>10, <1>11, <1>12, QuietWorker, QuietOthers DEF Next, Steps
<1> QED
  BY <1>9, <1>12, OnlyWrites

\* Then it holds without a premise.
COROLLARY SparesRunningUnlinked ==
    ASSUME Supplied \intersect Gen \subseteq Legacy
    PROVE  RSpec => RecoverySparesRunning
<1>1. RInit => PromptsAssigned
  <2> SUFFICES ASSUME RInit, NEW g \in Gen PROVE Assigned(row[g].jprompt)
    BY DEF PromptsAssigned
  <2>1. PICK order \in [Legacy -> 1..Cardinality(Legacy)] :
           \A h \in Gen : IF h \in Legacy THEN row[h] \in QuarantinedByMigration(h, order[h])
                                          ELSE row[h] = Absent
    BY DEF RInit, Init
  <2>2. row[g].jprompt \in {None, Alien}
    <3>1. CASE g \in Legacy
      BY <2>1, <3>1 DEF QuarantinedByMigration, Absent
    <3>2. CASE g \notin Legacy
      BY <2>1, <3>2 DEF Absent
    <3> QED
      BY <3>1, <3>2
  <2> QED
    BY <2>2, PromptAssumption DEF Assigned, Prompt
<1>2. RBase /\ PromptsAssigned /\ [RNext]_recVars => PromptsAssigned'
  BY AssignedStep
<1>3. RSpec => []PromptsAssigned
  BY <1>1, <1>2, RBaseAlways, PTL DEF RSpec
<1> QED
  BY <1>3, SparesRunning, PTL
=============================================================================

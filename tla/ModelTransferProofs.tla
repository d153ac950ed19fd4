-------------------------- MODULE ModelTransferProofs --------------------------
(***************************************************************************)
(* Proofs about ModelTransfer: what may happen to a job, that a job is     *)
(* completed for a file that is there, and that the form is only restored  *)
(* with its models on the disk.                                            *)
(***************************************************************************)
EXTENDS ModelTransfer, WellFoundedInduction, TLAPS

WorkerState ==
    [pc : {"reconcile", "list", "files", "repair", "idle", "start", "download", "visible",
           "complete", "cancel", "fail"},
     job : Nat, todo : SUBSET Nat, code : Code, stop : BOOLEAN]

CallState == [pc : {"idle", "hash", "look", "enqueue", "found", "retry"}, model : Model,
              version : Version, job : Nat, found : BOOLEAN]

RestoreState == [state : {"restoring", "preparing", "visibility", "skipped"} \union Decided,
                 todo : SUBSET Wanted, tracked : SUBSET Nat, missing : BOOLEAN]

Typed == /\ remote \in [Model -> Content] /\ file \in [Model -> Content]
         /\ jobs \in Seq(JobState) /\ w \in WorkerState /\ call \in [Caller -> CallState]
         /\ restore \in RestoreState /\ unsaved \subseteq DOMAIN jobs /\ run \in Nat

Present(m) == file[m] # NoVersion

\* The worker holds a job that exists, and the file of one that it is about to
\* complete or to repair is the job's own version.
Working ==
    /\ w.todo \subseteq DOMAIN jobs /\ w.job \in 0 .. Len(jobs)
    /\ w.pc \in {"repair", "start", "download", "visible", "complete", "cancel", "fail"}
           => w.job \in DOMAIN jobs
    /\ w.pc \in {"repair", "visible", "complete"}
           => file[jobs[w.job].model] = jobs[w.job].version

\* A caller that has found a file found one that is still there, maybe with another
\* content by now.
Calling(c) ==
    LET p == call[c] IN
    /\ p.found => Present(p.model)
    /\ p.pc = "found" => p.found /\ p.job \in DOMAIN jobs /\ jobs[p.job].model = p.model
    /\ p.pc = "retry" => c # Restorer

\* A model that the start-up thread has dealt with is known to be missing, is on the
\* disk, is being requested, or waits for a job whose completion means that it is on
\* the disk.
Dealt(m) == \/ restore.missing \/ Present(m)
            \/ call[Restorer].pc # "idle" /\ call[Restorer].model = m
            \/ \E j \in restore.tracked : jobs[j].model = m

Restoring ==
    /\ \A j \in restore.tracked :
          j \in DOMAIN jobs /\ (jobs[j].status = "completed" => Present(jobs[j].model))
    /\ restore.state = "preparing" => \A m \in Wanted \ restore.todo : Dealt(m)
    /\ restore.state = "ready" \/ (restore.state = "visibility" /\ ~restore.missing)
           => \A m \in Wanted : Present(m)

Inv == Typed /\ Working /\ (\A c \in Caller : Calling(c)) /\ Restoring

\* What a step may make of a job.
Kept(j, k) ==
    /\ k.model = j.model /\ k.version = j.version
    /\ j.status \in {"cancelled", "completed"} => k = j
    /\ j.status = "failed" => k.status \in {"failed", "completed"}
    /\ j.status # "completed" /\ k.status = "completed" =>
          /\ Present(j.model)
          /\ k.code # "already_prepared" => file[j.model] = j.version

JobsMove == /\ jobs' \in Seq(JobState) /\ Len(jobs) <= Len(jobs')
            /\ \A j \in DOMAIN jobs : Kept(jobs[j], jobs'[j])

\* No file goes away.
FilesStay == file' \in [Model -> Content] /\ \A m \in Model : Present(m) => Present(m)'

-----------------------------------------------------------------------------
(* Numbers and sequences.                                                   *)

\* A set of numbers has a smallest member: what the CHOOSEs of the model pick.
LEMMA Smallest ==
  ASSUME NEW S \in SUBSET Nat, S # {}
  PROVE  \E x \in S : \A y \in S : x <= y
<1>1. \E x \in S : \A y \in S : ~ (<<y, x>> \in OpToRel(<, Nat))
  BY NatLessThanWellFounded, WFMin
<1>2. PICK x \in S : \A y \in S : ~ (<<y, x>> \in OpToRel(<, Nat))
  BY <1>1
<1>3. ASSUME NEW y \in S PROVE x <= y
  <2>1. <<y, x>> \in Nat \X Nat /\ ~(<<y, x>> \in OpToRel(<, Nat))
    BY <1>2
  <2>2. ~(y < x)
    BY <2>1 DEF OpToRel
  <2>3. QED
    BY <2>2
<1>4. QED
  BY <1>3

\* A bounded one has a largest.
LEMMA Largest ==
  ASSUME NEW n \in Nat, NEW S \in SUBSET (1 .. n), S # {}
  PROVE  \E x \in S : \A y \in S : y <= x
<1> DEFINE T == {n - x : x \in S}
<1>1. T \in SUBSET Nat /\ T # {}
  <2>1. \A x \in S : n - x \in Nat
    OBVIOUS
  <2>2. PICK x \in S : TRUE
    OBVIOUS
  <2>3. n - x \in T
    OBVIOUS
  <2>4. T \subseteq Nat
    BY <2>1
  <2>5. QED
    BY <2>3, <2>4
<1>2. PICK t \in T : \A u \in T : t <= u
  <2> HIDE DEF T
  <2>1. QED
    BY <1>1, Smallest
<1>3. PICK x \in S : t = n - x
  BY <1>2
<1>4. ASSUME NEW y \in S PROVE y <= x
  <2>1. n - y \in T
    OBVIOUS
  <2>2. n - x <= n - y
    BY <1>2, <1>3, <2>1
  <2>3. QED
    BY <2>2
<1>5. QED
  BY <1>4

\* One entry of a sequence is replaced.
LEMMA OneEntry ==
  ASSUME NEW S, NEW s \in Seq(S), NEW i \in DOMAIN s, NEW e \in S, NEW t,
         t = [s EXCEPT ![i] = e]
  PROVE  /\ t \in Seq(S) /\ Len(t) = Len(s) /\ DOMAIN t = DOMAIN s
         /\ t[i] = e /\ \A j \in DOMAIN s \ {i} : t[j] = s[j]
OBVIOUS

\* There is nothing to replace.
LEMMA NoEntry ==
  ASSUME NEW S, NEW s \in Seq(S), NEW i, i \notin DOMAIN s, NEW e
  PROVE  [s EXCEPT ![i] = e] = s
<1>1. s = [x \in DOMAIN s |-> s[x]]
  OBVIOUS
<1>2. [s EXCEPT ![i] = e] = [x \in DOMAIN s |-> s[x]]
  OBVIOUS
<1>3. QED
  BY <1>1, <1>2


-----------------------------------------------------------------------------
(* The jobs.                                                                *)

\* A job that nothing happens to.
LEMMA KeptItself ==
  ASSUME NEW j
  PROVE  Kept(j, j)
BY DEF Kept

\* One job is written.
LEMMA OneJob ==
  ASSUME NEW i, NEW e, Typed,
         i \in DOMAIN jobs => e \in JobState /\ Kept(jobs[i], e),
         jobs' = [jobs EXCEPT ![i] = e]
  PROVE  JobsMove /\ Len(jobs') = Len(jobs)
<1>1. jobs \in Seq(JobState) /\ Len(jobs) <= Len(jobs)
  BY DEF Typed
<1>2. CASE i \in DOMAIN jobs
  <2>1. /\ jobs' \in Seq(JobState) /\ Len(jobs') = Len(jobs) /\ jobs'[i] = e
        /\ \A j \in DOMAIN jobs \ {i} : jobs'[j] = jobs[j]
    BY ONLY <1>1, <1>2, OneEntry, i \in DOMAIN jobs => e \in JobState /\ Kept(jobs[i], e),
            jobs' = [jobs EXCEPT ![i] = e]
  <2>2. QED
    BY <1>1, <1>2, <2>1, KeptItself DEF JobsMove
<1>3. CASE i \notin DOMAIN jobs
  <2>1. jobs' = jobs
    BY ONLY <1>1, <1>3, NoEntry, jobs' = [jobs EXCEPT ![i] = e]
  <2>2. QED
    BY <1>1, <2>1, KeptItself DEF JobsMove
<1>4. QED
  BY <1>2, <1>3

\* All of them are.
LEMMA AllJobs ==
  ASSUME Typed, \A i \in DOMAIN jobs : jobs'[i] \in JobState /\ Kept(jobs[i], jobs'[i]),
         jobs' = [i \in DOMAIN jobs |-> jobs'[i]]
  PROVE  JobsMove /\ Len(jobs') = Len(jobs)
<1>1. jobs \in Seq(JobState) /\ Len(jobs) \in Nat /\ DOMAIN jobs = 1 .. Len(jobs)
  BY DEF Typed
<1>2. jobs' \in Seq(JobState) /\ Len(jobs') = Len(jobs)
  BY <1>1
<1>3. QED
  BY <1>1, <1>2 DEF JobsMove

\* No job is written.
LEMMA SameJobs ==
  ASSUME Typed, jobs' = jobs
  PROVE  JobsMove /\ Len(jobs') = Len(jobs)
BY KeptItself DEF Typed, JobsMove

\* A job that is not completed by it is closed.
LEMMA ClosedJob ==
  ASSUME NEW j \in JobState, NEW status \in Status, NEW code \in Code
  PROVE  LET k == Closed(j, status, code) IN
         /\ k \in JobState /\ k.model = j.model /\ k.version = j.version
         /\ k.status = status /\ k.code = code
BY DEF Closed, JobState

\* The request of a job gives the active one, or a new one at the end.
LEMMA EnqueuedJob ==
  ASSUME Typed, NEW m \in Model, NEW v \in Version, jobs' = Enqueued(m, v)
  PROVE  /\ JobsMove
         /\ JobOf(m, v) \in DOMAIN jobs' /\ jobs'[JobOf(m, v)].model = m
         /\ jobs'[JobOf(m, v)].status # "completed"
<1>1. jobs \in Seq(JobState) /\ Len(jobs) \in Nat /\ Len(jobs) <= Len(jobs)
  BY DEF Typed
<1>2. CASE ActiveJob(m, v) # {}
  <2>1. JobOf(m, v) \in ActiveJob(m, v) /\ jobs' = jobs
    BY <1>2 DEF JobOf, Enqueued
  <2>2. QED
    BY <2>1, SameJobs DEF ActiveJob, Active
<1>3. CASE ActiveJob(m, v) = {}
  <2> DEFINE new == NewJob(m, v)
  <2>1. new \in JobState /\ new.model = m /\ new.status = "pending"
    BY DEF NewJob, JobState, Status, Code
  <2>2. jobs' = Append(jobs, new) /\ JobOf(m, v) = Len(jobs) + 1
    BY <1>3 DEF JobOf, Enqueued
  <2> HIDE DEF new
  <2>3. /\ jobs' \in Seq(JobState) /\ Len(jobs') = Len(jobs) + 1 /\ jobs'[Len(jobs) + 1] = new
        /\ \A j \in DOMAIN jobs : jobs'[j] = jobs[j]
    BY <1>1, <2>1, <2>2
  <2>4. JobsMove
    BY <1>1, <2>3, KeptItself DEF JobsMove
  <2>5. QED
    BY <1>1, <2>1, <2>2, <2>3, <2>4
<1>4. QED
  BY <1>2, <1>3

\* mark_already_prepared completes a pending job for a file that the caller has seen.
LEMMA MarkJobs ==
  ASSUME NEW c \in Caller, Inv, MarkAlreadyPrepared(c)
  PROVE  JobsMove /\ Len(jobs') = Len(jobs)
<1> DEFINE i == call[c].job
           done == [jobs[i] EXCEPT !.status = "completed", !.code = "already_prepared"]
           e == IF jobs[i].status # "pending" THEN jobs[i] ELSE done
<1>1. jobs' = [jobs EXCEPT ![i] = e]
  BY DEF MarkAlreadyPrepared
<1>2. i \in DOMAIN jobs /\ jobs[i] \in JobState /\ Present(jobs[i].model)
  BY DEF MarkAlreadyPrepared, Inv, Calling, Typed
<1>3. CASE jobs[i].status = "pending"
  <2>1. /\ done \in JobState /\ done.model = jobs[i].model /\ done.version = jobs[i].version
        /\ done.status = "completed" /\ done.code = "already_prepared"
    BY <1>2 DEF JobState, Status, Code
  <2> HIDE DEF done
  <2>2. e \in JobState /\ Kept(jobs[i], e)
    BY <1>2, <1>3, <2>1 DEF Kept
  <2> HIDE DEF e, i
  <2>3. QED
    BY <1>1, <2>2, OneJob DEF Inv
<1>4. CASE jobs[i].status # "pending"
  <2>1. e \in JobState /\ Kept(jobs[i], e)
    BY <1>2, <1>4, KeptItself
  <2> HIDE DEF e, i
  <2>2. QED
    BY <1>1, <2>1, OneJob DEF Inv
<1>5. QED
  BY <1>3, <1>4

\* A job that has ended is not cancelled.
LEMMA CancelJobs ==
  ASSUME NEW i \in DOMAIN jobs, Inv, Cancel(i)
  PROVE  JobsMove /\ Len(jobs') = Len(jobs)
<1> DEFINE e == AfterRequest(jobs[i])
<1>1. jobs' = [jobs EXCEPT ![i] = e]
  BY DEF Cancel
<1>2. jobs[i] \in JobState /\ jobs[i].status \in Status
  <2>1. jobs[i] \in JobState
    BY DEF Inv, Typed
  <2>2. QED
    BY <2>1 DEF JobState
<1>3. e \in JobState /\ Kept(jobs[i], e)
  <2>1. CASE jobs[i].status \in Terminal
    <3>1. e = jobs[i]
      BY <2>1 DEF AfterRequest, Terminal, Active
    <3>2. QED
      BY <1>2, <3>1, KeptItself
  <2>2. CASE jobs[i].status = "pending"
    <3>1. e = Closed(jobs[i], "cancelled", "cancelled")
      BY <2>2 DEF AfterRequest, Terminal, Active
    <3>2. QED
      BY <1>2, <2>2, <3>1, ClosedJob DEF Kept, Status, Code
  <2>3. CASE jobs[i].status \in {"downloading", "cancel_requested"}
    <3>1. e = [jobs[i] EXCEPT !.status = "cancel_requested"]
      BY <2>3 DEF AfterRequest, Terminal, Active
    <3>2. e \in JobState /\ e.model = jobs[i].model /\ e.version = jobs[i].version
          /\ e.status = "cancel_requested"
      BY <1>2, <3>1 DEF JobState, Status
    <3>3. QED
      BY <2>3, <3>2 DEF Kept
  <2>4. QED
    BY <1>2, <2>1, <2>2, <2>3 DEF Terminal, Active, Status
<1> HIDE DEF e
<1>4. QED
  BY <1>1, <1>3, OneJob DEF Inv

\* An interrupted job fails.
LEMMA ReconcileJobs ==
  ASSUME Inv, WReconcile
  PROVE  JobsMove /\ Len(jobs') = Len(jobs)
<1>1. jobs' = [i \in DOMAIN jobs |-> Interrupted(jobs[i])]
  BY DEF WReconcile
<1>2. ASSUME NEW i \in DOMAIN jobs
      PROVE  jobs'[i] \in JobState /\ Kept(jobs[i], jobs'[i])
  <2>1. jobs[i] \in JobState /\ jobs'[i] = Interrupted(jobs[i])
    BY <1>1 DEF Inv, Typed
  <2>2. QED
    BY <2>1, ClosedJob, KeptItself DEF Interrupted, Kept, Status, Code
<1>3. QED
  BY <1>1, <1>2, AllJobs DEF Inv

\* A new Pod fails what was not finished.
LEMMA RestartJobs ==
  ASSUME NEW newPod \in BOOLEAN, Inv, Restart(newPod)
  PROVE  JobsMove /\ Len(jobs') = Len(jobs)
<1>1. CASE jobs' = jobs
  BY <1>1, SameJobs DEF Inv
<1>2. CASE jobs' = [i \in DOMAIN jobs |-> StatelessFailed(jobs[i])]
  <2>1. ASSUME NEW i \in DOMAIN jobs
        PROVE  jobs'[i] \in JobState /\ Kept(jobs[i], jobs'[i])
    <3>1. jobs[i] \in JobState /\ jobs'[i] = StatelessFailed(jobs[i])
      BY <1>2 DEF Inv, Typed
    <3>2. QED
      BY <3>1, ClosedJob, KeptItself DEF StatelessFailed, Kept, Status, Code, Active
  <2>2. QED
    BY <1>2, <2>1, AllJobs DEF Inv
<1>3. QED
  BY <1>1, <1>2 DEF Restart

\* The worker completes the job it owns, or one that has failed, for a file that is there.
LEMMA WorkerJobs ==
  ASSUME Inv, WRepair \/ WClaim \/ WComplete \/ WCancel \/ WFail
  PROVE  JobsMove /\ Len(jobs') = Len(jobs)
<1>1. w.job \in DOMAIN jobs => jobs[w.job] \in JobState
  BY DEF Inv, Typed
<1>2. w.code \in Code
  BY DEF Inv, Typed, WorkerState
<1>3. CASE WRepair
  <2> DEFINE e == Repaired(jobs[w.job])
  <2>1. w.job \in DOMAIN jobs /\ file[jobs[w.job].model] = jobs[w.job].version
    BY <1>3 DEF WRepair, Inv, Working
  <2>2. jobs[w.job].version \in Version /\ Present(jobs[w.job].model)
    BY <1>1, <2>1, TransferAssumption DEF JobState, Present
  <2>3. e \in JobState /\ Kept(jobs[w.job], e)
    BY <1>1, <2>1, <2>2, ClosedJob, KeptItself DEF Repaired, Kept, Status, Code
  <2>4. jobs' = [jobs EXCEPT ![w.job] = e]
    BY <1>3 DEF WRepair
  <2> HIDE DEF e
  <2>5. QED
    BY <2>3, <2>4, OneJob DEF Inv
<1>4. CASE WClaim
  <2>1. PICK j : jobs' = [jobs EXCEPT ![j] = [jobs[j] EXCEPT !.status = "downloading", !.owner = run]]
                 /\ j = CHOOSE i \in Pending : \A k \in Pending : i <= k
    BY <1>4 DEF WClaim
  <2>2. j \in DOMAIN jobs /\ jobs[j].status = "pending"
    <3>1. Pending \in SUBSET Nat /\ Pending # {}
      <4>1. DOMAIN jobs \subseteq Nat
        BY DEF Inv, Typed
      <4>2. QED
        BY <1>4, <4>1 DEF WClaim, Pending
    <3>2. j \in Pending
      BY <2>1, <3>1, Smallest
    <3>3. QED
      BY <3>2 DEF Pending
  <2> DEFINE e == [jobs[j] EXCEPT !.status = "downloading", !.owner = run]
  <2>3. jobs[j] \in JobState /\ run \in Nat
    BY <2>2 DEF Inv, Typed
  <2>4. /\ e \in JobState /\ e.model = jobs[j].model /\ e.version = jobs[j].version
        /\ e.status = "downloading"
    BY <2>3 DEF JobState, Status
  <2>5. jobs' = [jobs EXCEPT ![j] = e]
    BY <2>1
  <2> HIDE DEF e
  <2>6. Kept(jobs[j], e)
    BY <2>2, <2>4 DEF Kept
  <2>7. QED
    BY <2>4, <2>5, <2>6, OneJob DEF Inv
<1>5. CASE WComplete
  <2>1. CASE jobs' = jobs
    BY <2>1, SameJobs DEF Inv
  <2>2. CASE Owned(jobs[w.job]) /\ jobs' = [jobs EXCEPT ![w.job] = Closed(jobs[w.job], "completed", "none")]
    <3>1. w.job \in DOMAIN jobs /\ file[jobs[w.job].model] = jobs[w.job].version
      BY <1>5 DEF WComplete, Inv, Working
    <3>2. jobs[w.job].version \in Version /\ Present(jobs[w.job].model)
      BY <1>1, <3>1, TransferAssumption DEF JobState, Present
    <3>3. /\ Closed(jobs[w.job], "completed", "none") \in JobState
          /\ Kept(jobs[w.job], Closed(jobs[w.job], "completed", "none"))
      BY <1>1, <2>2, <3>1, <3>2, ClosedJob DEF Kept, Status, Code, Owned
    <3>4. QED
      BY <2>2, <3>3, OneJob DEF Inv
  <2>3. QED
    BY <1>5, <2>1, <2>2 DEF WComplete
<1>6. CASE WCancel
  <2> DEFINE e == IF Owned(jobs[w.job]) THEN Closed(jobs[w.job], "cancelled", "cancelled")
                  ELSE jobs[w.job]
  <2>1. w.job \in DOMAIN jobs => e \in JobState /\ Kept(jobs[w.job], e)
    BY <1>1, ClosedJob, KeptItself DEF Kept, Status, Code, Owned
  <2>2. jobs' = [jobs EXCEPT ![w.job] = e]
    BY <1>6 DEF WCancel
  <2> HIDE DEF e
  <2>3. QED
    BY <2>1, <2>2, OneJob DEF Inv
<1>7. CASE WFail
  <2> DEFINE e == IF jobs[w.job].status \in Terminal \/ jobs[w.job].owner # run
                  THEN jobs[w.job] ELSE Closed(jobs[w.job], "failed", w.code)
  <2>1. w.job \in DOMAIN jobs => e \in JobState /\ Kept(jobs[w.job], e)
    BY <1>1, <1>2, ClosedJob, KeptItself DEF Kept, Status, Terminal, Active
  <2>2. jobs' = [jobs EXCEPT ![w.job] = e]
    BY <1>7 DEF WFail
  <2> HIDE DEF e
  <2>3. QED
    BY <2>1, <2>2, OneJob DEF Inv
<1>8. QED
  BY <1>3, <1>4, <1>5, <1>6, <1>7

\* Every step moves the jobs as Kept says.
LEMMA JobsAlways ==
  ASSUME Inv, [Next]_vars
  PROVE  JobsMove
<1>1. ASSUME NEW c \in Caller, CallerStep(c) PROVE JobsMove
  <2>1. call[c].model \in Model /\ call[c].version \in Version
    BY DEF Inv, Typed, CallState
  <2>2. CASE Enqueue(c)
    BY <2>1, <2>2, EnqueuedJob DEF Enqueue, Inv
  <2>3. CASE MarkAlreadyPrepared(c)
    BY <2>3, MarkJobs
  <2>4. CASE Retry(c)
    BY <2>1, <2>4, EnqueuedJob, SameJobs DEF Retry, Inv
  <2>5. CASE ReadFile(c) \/ Look(c)
    BY <2>5, SameJobs DEF ReadFile, Look, Inv
  <2>6. QED
    BY <1>1, <2>2, <2>3, <2>4, <2>5 DEF CallerStep
<1>2. CASE WorkerStep
  <2>1. CASE WList \/ WLookAtFile \/ WStart \/ WDownload \/ WVisible
    BY <2>1, SameJobs DEF WList, WLookAtFile, WStart, WDownload, WVisible, Inv
  <2>2. QED
    BY <1>2, <2>1, ReconcileJobs, WorkerJobs DEF WorkerStep
<1>3. ASSUME jobs' = jobs PROVE JobsMove
  BY <1>3, SameJobs DEF Inv
<1>4. CASE RestoreStep
  BY <1>3, <1>4 DEF RestoreStep, RBegin, RWait, RFinish, RPrepare
<1>5. CASE UNCHANGED vars
  BY <1>3, <1>5 DEF vars
<1>6. QED
  BY <1>1, <1>2, <1>3, <1>4, <1>5, CancelJobs, RestartJobs
     DEF Next, Prepare, StartRetry, Refused, WBreaks, Stop, RemoteChanges

-----------------------------------------------------------------------------
(* What the steps of the others leave true.                                 *)

\* What a caller knows stays true while it waits.
LEMMA CallingStill ==
  ASSUME NEW c \in Caller, Typed, Calling(c), JobsMove, FilesStay,
         call'[c] = call[c]
  PROVE  Calling(c)'
<1>1. call[c].model \in Model
  BY DEF Typed, CallState
<1>2. DOMAIN jobs \subseteq DOMAIN jobs'
  <2>1. DOMAIN jobs = 1 .. Len(jobs) /\ DOMAIN jobs' = 1 .. Len(jobs')
        /\ Len(jobs) \in Nat /\ Len(jobs') \in Nat /\ Len(jobs) <= Len(jobs')
    BY DEF Typed, JobsMove
  <2>2. QED
    BY <2>1
<1>3. call[c].found => Present(call[c].model)'
  BY <1>1 DEF Calling, FilesStay, Present
<1>4. call[c].pc = "found" => call[c].job \in DOMAIN jobs'
                              /\ jobs'[call[c].job].model = call[c].model
  BY <1>2 DEF Calling, JobsMove, Kept
<1>5. QED
  BY <1>3, <1>4 DEF Calling, Present

\* The file of a job that is completed is there.
LEMMA TrackedStill ==
  ASSUME Typed, JobsMove, FilesStay, NEW j \in DOMAIN jobs,
         jobs[j].status = "completed" => Present(jobs[j].model)
  PROVE  /\ j \in DOMAIN jobs' /\ jobs'[j].model = jobs[j].model
         /\ jobs'[j].status = "completed" => file'[jobs'[j].model] # NoVersion
<1>1. jobs[j].model \in Model
  <2>1. jobs[j] \in JobState
    BY DEF Typed
  <2>2. QED
    BY <2>1 DEF JobState
<1>2. j \in DOMAIN jobs'
  <2>1. DOMAIN jobs = 1 .. Len(jobs) /\ DOMAIN jobs' = 1 .. Len(jobs')
        /\ Len(jobs) \in Nat /\ Len(jobs') \in Nat /\ Len(jobs) <= Len(jobs')
    BY DEF Typed, JobsMove
  <2>2. QED
    BY <2>1
<1>3. Kept(jobs[j], jobs'[j])
  BY DEF JobsMove
<1>4. jobs'[j].status = "completed" => Present(jobs[j].model)
  BY <1>3 DEF Kept
<1>5. QED
  BY <1>1, <1>2, <1>3, <1>4 DEF Kept, FilesStay, Present

\* So does what the worker holds.
LEMMA WorkingStill ==
  ASSUME Typed, Working, JobsMove, UNCHANGED <<file, w>>
  PROVE  Working'
<1>1. DOMAIN jobs = 1 .. Len(jobs) /\ DOMAIN jobs' = 1 .. Len(jobs')
      /\ Len(jobs) \in Nat /\ Len(jobs') \in Nat /\ Len(jobs) <= Len(jobs')
  BY DEF Typed, JobsMove
<1>2. DOMAIN jobs \subseteq DOMAIN jobs' /\ 0 .. Len(jobs) \subseteq 0 .. Len(jobs')
  BY <1>1
<1>3. \A j \in DOMAIN jobs : jobs'[j].model = jobs[j].model /\ jobs'[j].version = jobs[j].version
  BY DEF JobsMove, Kept
<1>4. QED
  BY <1>2, <1>3 DEF Working

\* The start-up thread's account holds while it waits.
LEMMA RestoringStill ==
  ASSUME Typed, Restoring, JobsMove, FilesStay, restore' = restore,
         restore.state = "preparing" /\ call[Restorer].pc # "idle" =>
             call'[Restorer].pc # "idle" /\ call'[Restorer].model = call[Restorer].model
  PROVE  Restoring'
<1>1. \A j \in restore.tracked :
        /\ j \in DOMAIN jobs' /\ jobs'[j].model = jobs[j].model
        /\ jobs'[j].status = "completed" => file'[jobs'[j].model] # NoVersion
  BY TrackedStill DEF Restoring
<1>2. Wanted \subseteq Model
  BY TransferAssumption
<1>3. ASSUME restore.state = "preparing", NEW m \in Wanted \ restore.todo
      PROVE  Dealt(m)'
  BY <1>1, <1>2, <1>3 DEF Restoring, Dealt, FilesStay, Present
<1>4. QED
  BY <1>1, <1>2, <1>3 DEF Restoring, FilesStay, Present

-----------------------------------------------------------------------------
(* The callers.                                                             *)

\* A caller between two requests.
LEMMA IdleCaller == Idle \in CallState /\ Idle.pc = "idle" /\ ~Idle.found
<1>1. (CHOOSE m \in Model : TRUE) \in Model /\ (CHOOSE v \in Version : TRUE) \in Version
  BY TransferAssumption
<1>2. QED
  BY <1>1 DEF Idle, CallState

\* A caller that has found nothing claims nothing.
LEMMA IdleCalling ==
  ASSUME NEW c, call'[c].pc # "found", ~call'[c].found,
         call'[c].pc # "retry" \/ c # Restorer
  PROVE  Calling(c)'
BY DEF Calling

\* One caller moves.
LEMMA CallerMoves ==
  ASSUME NEW c \in Caller, NEW p \in CallState, Inv, JobsMove,
         UNCHANGED <<remote, file, w, unsaved, run>>, call' = [call EXCEPT ![c] = p],
         Calling(c)', restore' \in RestoreState, Restoring'
  PROVE  Inv'
<1>1. FilesStay
  BY DEF FilesStay, Inv, Typed, Present
<1>2. /\ call' \in [Caller -> CallState]
      /\ \A d \in Caller \ {c} : call'[d] = call[d]
  BY DEF Inv, Typed
<1>3. DOMAIN jobs \subseteq DOMAIN jobs'
  <2>1. DOMAIN jobs = 1 .. Len(jobs) /\ DOMAIN jobs' = 1 .. Len(jobs')
        /\ Len(jobs) \in Nat /\ Len(jobs') \in Nat /\ Len(jobs) <= Len(jobs')
    BY DEF Inv, Typed, JobsMove
  <2>2. QED
    BY <2>1
<1>4. Typed'
  BY <1>2, <1>3 DEF Inv, Typed, JobsMove
<1>5. \A d \in Caller : Calling(d)'
  BY <1>1, <1>2, CallingStill DEF Inv
<1>6. Working'
  BY WorkingStill DEF Inv
<1>7. QED
  BY <1>4, <1>5, <1>6 DEF Inv

\* The same when the start-up thread has nothing to learn from it.
LEMMA CallerWaits ==
  ASSUME NEW c \in Caller, NEW p \in CallState, Inv, JobsMove,
         UNCHANGED <<remote, file, w, unsaved, run, restore>>, call' = [call EXCEPT ![c] = p],
         Calling(c)', c # Restorer \/ (p.pc # "idle" /\ p.model = call[c].model)
  PROVE  Inv'
<1>1. FilesStay
  BY DEF FilesStay, Inv, Typed, Present
<1>2. call'[c] = p /\ \A d \in Caller \ {c} : call'[d] = call[d]
  BY DEF Inv, Typed
<1>3. Restorer \in Caller
  BY DEF Caller
<1>4. Restoring'
  BY <1>1, <1>2, <1>3, RestoringStill DEF Inv
<1>5. restore' \in RestoreState
  BY DEF Inv, Typed
<1>6. QED
  BY <1>4, <1>5, CallerMoves

\* The start-up thread keeps a job that it waits for, or that the model is missing.
LEMMA Returned ==
  ASSUME NEW c \in Caller, NEW tracked, Inv, JobsMove, Return(c, tracked),
         UNCHANGED <<remote, file, w, unsaved, run>>,
         \/ tracked = {}
         \/ \E j \in DOMAIN jobs' : /\ tracked = {j} /\ jobs'[j].model = call[c].model
                                    /\ jobs'[j].status = "completed" => Present(call[c].model)
  PROVE  Inv'
<1>1. call' = [call EXCEPT ![c] = Idle] /\ call'[c] = Idle
      /\ \A d \in Caller \ {c} : call'[d] = call[d]
  BY DEF Return, Inv, Typed
<1>2. Calling(c)'
  BY <1>1, IdleCaller, IdleCalling
<1>3. FilesStay
  BY DEF FilesStay, Inv, Typed, Present
<1>4. CASE c # Restorer
  <2>1. restore' = restore
    BY <1>4 DEF Return
  <2>2. QED
    BY <1>1, <1>2, <1>4, <2>1, IdleCaller, CallerWaits
<1>5. CASE c = Restorer
  <2>1. restore \in RestoreState /\ Restoring /\ Wanted \subseteq Model
    BY TransferAssumption DEF Inv, Typed
  <2>2. ASSUME NEW j \in restore.tracked
        PROVE  /\ j \in DOMAIN jobs' /\ jobs'[j].model = jobs[j].model
               /\ jobs'[j].status = "completed" => file'[jobs'[j].model] # NoVersion
    BY <1>3, TrackedStill DEF Inv, Restoring
  <2>3. CASE tracked = {}
    <3>1. restore' = [restore EXCEPT !.missing = TRUE]
      BY <1>5, <2>3 DEF Return
    <3>2. /\ restore' \in RestoreState /\ restore'.missing /\ restore'.tracked = restore.tracked
          /\ restore'.state = restore.state
      BY <2>1, <3>1 DEF RestoreState
    <3>3. Restoring'
      BY <2>1, <2>2, <3>2 DEF Restoring, Dealt, Present
    <3>4. QED
      BY <1>1, <1>2, <3>2, <3>3, IdleCaller, CallerMoves
  <2>4. CASE tracked # {}
    <3>1. PICK j \in DOMAIN jobs' : /\ tracked = {j} /\ jobs'[j].model = call[c].model
                                    /\ jobs'[j].status = "completed" => Present(call[c].model)
      BY <2>4
    <3>2. restore' = [restore EXCEPT !.tracked = restore.tracked \union {j}]
      BY <1>5, <3>1 DEF Return
    <3>3. j \in Nat
      BY DEF JobsMove
    <3>4. /\ restore' \in RestoreState /\ restore'.tracked = restore.tracked \union {j}
          /\ restore'.missing = restore.missing /\ restore'.state = restore.state
          /\ restore'.todo = restore.todo
      BY <2>1, <3>2, <3>3 DEF RestoreState
    <3>5. \A i \in restore'.tracked :
            i \in DOMAIN jobs' /\ (jobs'[i].status = "completed" => file'[jobs'[i].model] # NoVersion)
      BY <2>2, <3>1, <3>4 DEF Present
    <3>6. ASSUME restore'.state = "preparing", NEW m \in Wanted \ restore'.todo PROVE Dealt(m)'
      <4>1. Dealt(m)
        BY <2>1, <3>4, <3>6 DEF Restoring
      <4>2. QED
        BY <1>5, <2>2, <3>1, <3>4, <4>1 DEF Dealt, Present
    <3>7. Restoring'
      BY <2>1, <3>4, <3>5, <3>6 DEF Restoring, Present
    <3>8. QED
      BY <1>1, <1>2, <3>4, <3>7, IdleCaller, CallerMoves
  <2>5. QED
    BY <2>3, <2>4
<1>6. QED
  BY <1>4, <1>5

\* A listed model starts a request with its version of now.
LEMMA ListedCall ==
  ASSUME NEW c \in Caller, NEW m \in Model, NEW pc \in {"hash", "retry"}, NEW j \in Nat, Inv,
         Listed(c, m, pc, j), pc = "hash" \/ c # Restorer
  PROVE  \E p \in CallState : /\ call' = [call EXCEPT ![c] = p] /\ p.pc = pc /\ p.model = m
                              /\ Calling(c)'
<1> DEFINE p == [pc |-> pc, model |-> m, version |-> remote[m], job |-> j, found |-> FALSE]
<1>1. remote[m] \in Version
  BY DEF Listed, Inv, Typed, Content
<1>2. p \in CallState /\ p.pc = pc /\ p.model = m /\ ~p.found
  BY <1>1 DEF CallState
<1>3. call' = [call EXCEPT ![c] = p] /\ call'[c] = p
  BY DEF Listed, Inv, Typed
<1>4. Calling(c)'
  BY <1>2, <1>3, IdleCalling
<1>5. QED
  BY <1>2, <1>3, <1>4

\* A handler starts a request.
LEMMA RequestStep ==
  ASSUME NEW c \in Client, Inv,
         (\E m \in Model : Prepare(c, m)) \/ \E j \in DOMAIN jobs : StartRetry(c, j)
  PROVE  Inv'
<1>1. c \in Caller /\ c # Restorer /\ JobsMove
  BY TransferAssumption, JobsAlways DEF Caller, Next
<1>2. UNCHANGED <<remote, file, w, unsaved, run, restore>>
  BY DEF Prepare, StartRetry, disk
<1>3. PICK m \in Model, pc \in {"hash", "retry"}, j \in Nat : Listed(c, m, pc, j)
  <2>1. CASE \E m \in Model : Prepare(c, m)
    BY <2>1 DEF Prepare
  <2>2. CASE \E j \in DOMAIN jobs : StartRetry(c, j)
    <3>1. PICK j \in DOMAIN jobs : StartRetry(c, j)
      BY <2>2
    <3>2. j \in Nat /\ jobs[j] \in JobState
      BY DEF Inv, Typed
    <3>3. jobs[j].model \in Model
      BY <3>2 DEF JobState
    <3>4. QED
      BY <3>1, <3>2, <3>3 DEF StartRetry
  <2>3. QED
    BY <2>1, <2>2
<1>4. QED
  <2>1. PICK p \in CallState : call' = [call EXCEPT ![c] = p] /\ Calling(c)'
    BY <1>1, <1>3, ListedCall
  <2>2. QED
    BY <1>1, <1>2, <2>1, CallerWaits

\* The steps of a request, one case for each.
LEMMA CallerStepInv ==
  ASSUME NEW c \in Caller, Inv, CallerStep(c) \/ Refused(c)
  PROVE  Inv'
<1> DEFINE p == call[c]
<1>1. p \in CallState /\ p.model \in Model /\ p.version \in Version
  BY DEF Inv, Typed, CallState
<1>2. JobsMove
  BY JobsAlways DEF Next
<1>3. UNCHANGED <<remote, file, w, unsaved, run>>
  BY DEF CallerStep, ReadFile, Look, Enqueue, MarkAlreadyPrepared, Retry, Refused, disk,
     counts
<1>4. CASE ReadFile(c)
  <2> DEFINE found == Verified(file[p.model], p.version)
             s == [p EXCEPT !.found = found, !.pc = IF found THEN "look" ELSE "enqueue"]
  <2>1. found \in BOOLEAN /\ (found => Present(p.model))
    BY <1>1, TransferAssumption DEF Verified, Present
  <2>2. call' = [call EXCEPT ![c] = s] /\ UNCHANGED restore
    BY <1>4 DEF ReadFile
  <2> HIDE DEF found
  <2>3. /\ s \in CallState /\ s.found = found /\ s.pc \in {"look", "enqueue"}
        /\ s.model = p.model
    BY <1>1, <2>1 DEF CallState
  <2> HIDE DEF s
  <2>4. call'[c] = s
    BY <2>2 DEF Inv, Typed
  <2>5. Calling(c)'
    BY <1>3, <2>1, <2>3, <2>4 DEF Calling, Present
  <2>6. QED
    BY <1>2, <1>3, <2>2, <2>3, <2>5, CallerWaits
<1>5. CASE Look(c)
  <2>1. CASE Return(c, {})
    BY <1>2, <1>3, <2>1, Returned
  <2>2. CASE call' = [call EXCEPT ![c].pc = "enqueue"] /\ UNCHANGED restore
    <3> DEFINE s == [p EXCEPT !.pc = "enqueue"]
    <3>1. s \in CallState /\ s.found = p.found /\ s.pc = "enqueue" /\ s.model = p.model
      BY <1>1 DEF CallState
    <3>2. call' = [call EXCEPT ![c] = s] /\ call'[c] = s
      BY <2>2 DEF Inv, Typed
    <3> HIDE DEF s
    <3>3. Calling(c)'
      BY <1>3, <3>1, <3>2 DEF Calling, Present, Inv
    <3>4. QED
      BY <1>2, <1>3, <2>2, <3>1, <3>2, <3>3, CallerWaits
  <2>3. QED
    BY <1>5, <2>1, <2>2 DEF Look
<1>6. CASE Enqueue(c)
  <2> DEFINE j == JobOf(p.model, p.version)
  <2>1. /\ j \in DOMAIN jobs' /\ jobs'[j].model = p.model
        /\ jobs'[j].status # "completed"
    BY <1>1, <1>6, EnqueuedJob DEF Inv, Enqueue
  <2>2. CASE p.found
    <3> DEFINE s == [p EXCEPT !.pc = "found", !.job = j]
    <3>1. call' = [call EXCEPT ![c] = s] /\ UNCHANGED restore
      BY <1>6, <2>2 DEF Enqueue
    <3>2. j \in Nat
      BY <1>2, <2>1 DEF JobsMove
    <3> HIDE DEF j
    <3>3. /\ s \in CallState /\ s.found = p.found /\ s.pc = "found" /\ s.model = p.model
          /\ s.job = j
      BY <1>1, <3>2 DEF CallState
    <3> HIDE DEF s
    <3>4. call'[c] = s
      BY <3>1 DEF Inv, Typed
    <3>5. Calling(c)'
      BY <1>3, <2>1, <2>2, <3>3, <3>4 DEF Calling, Present, Inv
    <3>6. QED
      BY <1>2, <1>3, <3>1, <3>3, <3>5, CallerWaits
  <2>3. CASE ~p.found
    <3>1. Return(c, {j})
      BY <1>6, <2>3 DEF Enqueue
    <3> HIDE DEF j
    <3>2. QED
      BY <1>2, <1>3, <2>1, <3>1, Returned
  <2>4. QED
    BY <2>2, <2>3
<1>7. CASE MarkAlreadyPrepared(c)
  <2>1. p.job \in DOMAIN jobs /\ Present(p.model) /\ jobs[p.job].model = p.model
    BY <1>7 DEF MarkAlreadyPrepared, Inv, Calling
  <2>2. p.job \in DOMAIN jobs' /\ jobs'[p.job].model = p.model
    <3>1. Len(jobs') = Len(jobs) /\ jobs \in Seq(JobState) /\ jobs' \in Seq(JobState)
      BY <1>2, <1>7, MarkJobs DEF Inv, Typed, JobsMove
    <3>2. DOMAIN jobs' = DOMAIN jobs
      BY <3>1
    <3>3. QED
      BY <1>2, <2>1, <3>2 DEF JobsMove, Kept
  <2>3. PICK tracked \in {{}, {p.job}} : Return(c, tracked)
    BY <1>7 DEF MarkAlreadyPrepared
  <2>4. QED
    BY <1>2, <1>3, <2>1, <2>2, <2>3, Returned
<1>8. CASE Retry(c)
  <2>1. call' = [call EXCEPT ![c] = Idle] /\ call'[c] = Idle /\ UNCHANGED restore
    BY <1>8 DEF Retry, Inv, Typed
  <2>2. Calling(c)'
    BY <2>1, IdleCaller, IdleCalling
  <2>3. c # Restorer
    BY <1>8 DEF Retry, Inv, Calling
  <2>4. QED
    BY <1>2, <1>3, <2>1, <2>2, <2>3, IdleCaller, CallerWaits
<1>9. CASE Refused(c)
  BY <1>2, <1>3, <1>9, Returned DEF Refused
<1>10. QED
  BY <1>4, <1>5, <1>6, <1>7, <1>8, <1>9 DEF CallerStep

-----------------------------------------------------------------------------
(* The start-up thread.                                                     *)

\* It moves on without a request.
LEMMA RestoreMoves ==
  ASSUME Inv, UNCHANGED <<remote, file, jobs, w, call, unsaved, run>>,
         restore' \in RestoreState, Restoring'
  PROVE  Inv'
<1>1. Restorer \in Caller /\ JobsMove /\ call[Restorer] \in CallState
  BY SameJobs DEF Caller, Inv, Typed
<1>2. call' = [call EXCEPT ![Restorer] = call[Restorer]]
  BY DEF Inv, Typed
<1>3. Calling(Restorer)'
  BY <1>1 DEF Inv, Calling, Present
<1>4. QED
  BY <1>1, <1>2, <1>3, CallerMoves

\* What it decides without its jobs.
LEMMA NothingTracked ==
  ASSUME NEW state, restore' = [NoRestore EXCEPT !.state = state],
         state \in {"restoring", "skipped"} \union Decided, state = "ready" => \A m \in Wanted : Present(m)',
         file' = file
  PROVE  restore' \in RestoreState /\ Restoring'
<1>1. NoRestore \in RestoreState /\ NoRestore.tracked = {} /\ NoRestore.missing = FALSE
  BY DEF NoRestore, RestoreState
<1>2. restore' \in RestoreState /\ restore'.tracked = {} /\ restore'.state = state
  BY <1>1 DEF RestoreState
<1>3. restore'.state # "preparing" /\ restore'.state # "visibility"
  BY <1>2 DEF Decided
<1>4. QED
  BY <1>2, <1>3 DEF Restoring, Present

\* The steps of the start-up thread.
LEMMA RestoreStepInv ==
  ASSUME Inv, RestoreStep
  PROVE  Inv'
<1>1. UNCHANGED <<remote, file, jobs, w, unsaved, run>>
  BY DEF RestoreStep, RBegin, RPrepare, RWait, RFinish, disk, counts
<1>2. restore \in RestoreState /\ Restoring /\ Wanted \subseteq Model
  BY TransferAssumption DEF Inv, Typed
<1>3. CASE RBegin
  <2>1. call' = call
    BY <1>3 DEF RBegin
  <2>2. CASE restore' = [restore EXCEPT !.state = "preparing", !.todo = Wanted]
    <3>1. /\ restore' \in RestoreState /\ restore'.state = "preparing" /\ restore'.todo = Wanted
          /\ restore'.tracked = restore.tracked
      BY <1>2, <2>2 DEF RestoreState
    <3>2. Restoring'
      BY <1>1, <1>2, <3>1 DEF Restoring, Present
    <3>3. QED
      BY <1>1, <2>1, <3>1, <3>2, RestoreMoves
  <2>3. CASE RestoreTo("skipped") \/ RestoreTo("failed")
    <3>1. restore' \in RestoreState /\ Restoring'
      BY <1>1, <2>3, NothingTracked DEF RestoreTo, Decided
    <3>2. QED
      BY <1>1, <2>1, <3>1, RestoreMoves
  <2>4. QED
    BY <1>3, <2>2, <2>3 DEF RBegin
<1>4. ASSUME NEW m \in Wanted, RPrepare(m) PROVE Inv'
  <2>1. restore.state = "preparing" /\ call[Restorer].pc = "idle" /\ m \in Model /\ Restorer \in Caller
    BY <1>2, <1>4 DEF RPrepare, Caller
  <2>2. CASE call' = call /\ restore' = [restore EXCEPT !.todo = restore.todo \ {m}, !.missing = TRUE]
    <3>1. /\ restore' \in RestoreState /\ restore'.missing
          /\ restore'.tracked = restore.tracked /\ restore'.state = "preparing"
      BY <1>2, <2>1, <2>2 DEF RestoreState
    <3>2. Restoring'
      BY <1>1, <1>2, <3>1 DEF Restoring, Dealt, Present
    <3>3. QED
      BY <1>1, <2>2, <3>1, <3>2, RestoreMoves
  <2>3. CASE Listed(Restorer, m, "hash", 0) /\ restore' = [restore EXCEPT !.todo = restore.todo \ {m}]
    <3>1. PICK p \in CallState : /\ call' = [call EXCEPT ![Restorer] = p] /\ p.pc = "hash"
                                 /\ p.model = m /\ Calling(Restorer)'
      BY <2>1, <2>3, ListedCall
    <3>2. call'[Restorer] = p
      BY <2>1, <3>1 DEF Inv, Typed
    <3>3. /\ restore' \in RestoreState /\ restore'.tracked = restore.tracked
          /\ restore'.todo = restore.todo \ {m} /\ restore'.state = "preparing"
          /\ restore'.missing = restore.missing
      BY <1>2, <2>1, <2>3 DEF RestoreState
    <3>4. ASSUME NEW n \in Wanted \ restore'.todo PROVE Dealt(n)'
      <4>1. CASE n = m
        BY <3>1, <3>2, <4>1 DEF Dealt
      <4>2. CASE n # m
        <5>1. Dealt(n)
          BY <1>2, <2>1, <3>3, <4>2 DEF Restoring
        <5>2. QED
          BY <1>1, <2>1, <3>3, <5>1 DEF Dealt, Present
      <4>3. QED
        BY <4>1, <4>2
    <3>5. Restoring'
      BY <1>1, <1>2, <3>3, <3>4 DEF Restoring, Present
    <3>6. JobsMove
      BY <1>1, SameJobs DEF Inv
    <3>7. QED
      BY <1>1, <2>1, <3>1, <3>3, <3>5, <3>6, CallerMoves
  <2>4. QED
    BY <1>4, <2>2, <2>3 DEF RPrepare
<1>5. CASE RWait
  <2>1. call' = call /\ call[Restorer].pc = "idle" /\ restore.state = "preparing" /\ restore.todo = {}
    BY <1>5 DEF RWait
  <2> DEFINE failed == Failures(restore.tracked)
             missing == restore.missing \/ failed # {}
  <2>2. restore' = [restore EXCEPT !.state = "visibility", !.missing = missing]
    BY <1>5 DEF RWait
  <2>3. restore.missing \in BOOLEAN
    BY <1>2 DEF RestoreState
  <2>4. missing \in BOOLEAN
    BY <2>3
  <2>5. ASSUME ~missing, NEW m \in Wanted PROVE Present(m)
    <3>1. Dealt(m)
      BY <1>2, <2>1 DEF Restoring
    <3>2. \A j \in restore.tracked : jobs[j].status = "completed"
      BY <2>5 DEF Failures
    <3>3. \A j \in restore.tracked : Present(jobs[j].model)
      BY <1>2, <3>2 DEF Restoring
    <3>4. QED
      BY <2>1, <2>5, <3>1, <3>3 DEF Dealt
  <2> HIDE DEF missing
  <2>6. /\ restore' \in RestoreState /\ restore'.tracked = restore.tracked
        /\ restore'.state = "visibility" /\ restore'.missing = missing
    BY <1>2, <2>2, <2>4 DEF RestoreState
  <2>7. Restoring'
    BY <1>1, <1>2, <2>5, <2>6 DEF Restoring, Present
  <2>8. QED
    BY <1>1, <2>1, <2>6, <2>7, RestoreMoves
<1>6. CASE RFinish
  <2>1. call' = call /\ restore.state = "visibility"
    BY <1>6 DEF RFinish
  <2>2. PICK state \in {"incomplete", "ready", "failed"} :
            /\ restore' = [NoRestore EXCEPT !.state = state]
            /\ state = "ready" => ~restore.missing
    BY <1>6 DEF RFinish, RestoreTo
  <2>3. state = "ready" => \A m \in Wanted : Present(m)'
    BY <1>1, <1>2, <2>1, <2>2 DEF Restoring, Present
  <2>4. restore' \in RestoreState /\ Restoring'
    BY <1>1, <2>2, <2>3, NothingTracked DEF Decided
  <2>5. QED
    BY <1>1, <2>1, <2>4, RestoreMoves
<1>7. QED
  BY <1>3, <1>4, <1>5, <1>6 DEF RestoreStep

-----------------------------------------------------------------------------
(* The worker.                                                              *)

\* The states in which the worker holds a job.
Holding == {"repair", "start", "download", "visible", "complete", "cancel", "fail"}

\* The worker moves, and its job and its file are what it takes them for.
LEMMA WorkerMoves ==
  ASSUME Inv, JobsMove, Len(jobs') = Len(jobs), FilesStay, UNCHANGED <<remote, call, restore, run>>,
         unsaved' \subseteq DOMAIN jobs, w' \in WorkerState,
         w'.todo \subseteq DOMAIN jobs, w'.job \in 0 .. Len(jobs),
         w'.pc \in Holding => w'.job \in DOMAIN jobs,
         w'.pc \in {"repair", "visible", "complete"}
             => file'[jobs[w'.job].model] = jobs[w'.job].version
  PROVE  Inv'
<1>1. DOMAIN jobs' = DOMAIN jobs
  BY DEF Inv, Typed, JobsMove
<1>2. Typed'
  BY <1>1 DEF Inv, Typed, JobsMove, FilesStay
<1>3. Working'
  BY <1>1 DEF Working, Holding, JobsMove, Kept
<1>4. \A c \in Caller : Calling(c)'
  BY CallingStill DEF Inv
<1>5. Restoring'
  BY RestoringStill DEF Inv
<1>6. QED
  BY <1>2, <1>3, <1>4, <1>5 DEF Inv

\* The ways in which the worker goes on.
LEMMA WorkerRecords ==
  ASSUME Inv, NEW pc \in Holding \union {"reconcile", "list", "files", "idle"}, NEW code \in Code,
         NEW j \in Nat, NEW todo \in SUBSET Nat
  PROVE  /\ To(pc) => /\ w' \in WorkerState /\ w'.pc = pc /\ w'.job = w.job /\ w'.todo = w.todo
         /\ Fails(code) => /\ w' \in WorkerState /\ w'.pc = "fail" /\ w'.job = w.job
                           /\ w'.todo = w.todo
         /\ Free => w' \in WorkerState /\ w'.pc = "idle" /\ w'.job = 0 /\ w'.todo = {}
         /\ w' = [w EXCEPT !.pc = pc, !.todo = todo] =>
                w' \in WorkerState /\ w'.pc = pc /\ w'.job = w.job /\ w'.todo = todo
         /\ w' = [w EXCEPT !.pc = pc, !.job = j] =>
                w' \in WorkerState /\ w'.pc = pc /\ w'.job = j /\ w'.todo = w.todo
         /\ w' = [w EXCEPT !.pc = pc, !.job = j, !.todo = todo] =>
                w' \in WorkerState /\ w'.pc = pc /\ w'.job = j /\ w'.todo = todo
<1>1. w \in WorkerState
  BY DEF Inv, Typed
<1>2. Off \in WorkerState /\ Off.job = 0 /\ Off.todo = {}
  BY DEF Off, WorkerState, Code
<1>3. To(pc) => /\ w' \in WorkerState /\ w'.pc = pc /\ w'.job = w.job /\ w'.todo = w.todo
  BY <1>1 DEF To, WorkerState, Holding
<1>4. Fails(code) => /\ w' \in WorkerState /\ w'.pc = "fail" /\ w'.job = w.job
                     /\ w'.todo = w.todo
  BY <1>1 DEF Fails, WorkerState
<1>5. Free => w' \in WorkerState /\ w'.pc = "idle" /\ w'.job = 0 /\ w'.todo = {}
  <2>1. w.stop \in BOOLEAN
    BY <1>1 DEF WorkerState
  <2>2. QED
    BY <1>2, <2>1 DEF Free, WorkerState
<1>6. w' = [w EXCEPT !.pc = pc, !.todo = todo] =>
          w' \in WorkerState /\ w'.pc = pc /\ w'.job = w.job /\ w'.todo = todo
  BY <1>1 DEF WorkerState, Holding
<1>7. w' = [w EXCEPT !.pc = pc, !.job = j] =>
          w' \in WorkerState /\ w'.pc = pc /\ w'.job = j /\ w'.todo = w.todo
  BY <1>1 DEF WorkerState, Holding
<1>8. w' = [w EXCEPT !.pc = pc, !.job = j, !.todo = todo] =>
          w' \in WorkerState /\ w'.pc = pc /\ w'.job = j /\ w'.todo = todo
  BY <1>1 DEF WorkerState, Holding
<1>9. QED
  BY <1>3, <1>4, <1>5, <1>6, <1>7, <1>8

\* The files are untouched by all but a download.
LEMMA WorkerWrites ==
  ASSUME Inv, JobsMove, Len(jobs') = Len(jobs), UNCHANGED <<remote, file, call, restore, run>>,
         unsaved' \subseteq DOMAIN jobs, w' \in WorkerState,
         w'.todo \subseteq w.todo \/ w'.todo \subseteq DOMAIN jobs,
         w'.job \in {0, w.job} \/ w'.job \in DOMAIN jobs,
         w'.pc \in Holding => w'.job \in DOMAIN jobs,
         w'.pc \in {"repair", "visible", "complete"}
             => file[jobs[w'.job].model] = jobs[w'.job].version
  PROVE  Inv'
<1>1. FilesStay
  BY DEF FilesStay, Inv, Typed, Present
<1>2. w'.todo \subseteq DOMAIN jobs
  BY DEF Inv, Working
<1>3. w'.job \in 0 .. Len(jobs)
  <2>1. w.job \in 0 .. Len(jobs) /\ Len(jobs) \in Nat /\ DOMAIN jobs = 1 .. Len(jobs)
    BY DEF Inv, Working, Typed
  <2>2. QED
    BY <2>1
<1>4. QED
  BY <1>1, <1>2, <1>3, WorkerMoves

\* The next job of a reconciliation exists.
LEMMA NewestTodo ==
  ASSUME Inv, w.todo # {}
  PROVE  Newest \in w.todo /\ Newest \in DOMAIN jobs /\ Newest \in Nat
<1>1. Len(jobs) \in Nat /\ DOMAIN jobs = 1 .. Len(jobs)
  BY DEF Inv, Typed
<1>2. w.todo \in SUBSET (1 .. Len(jobs))
  BY <1>1 DEF Inv, Working
<1>3. Newest \in w.todo
  BY <1>1, <1>2, Largest DEF Newest
<1>4. QED
  BY <1>1, <1>2, <1>3

\* The reconciliation goes on with the rest.
LEMMA NextFileRecord ==
  ASSUME Inv, NextFile
  PROVE  w' \in WorkerState /\ w'.pc = "files" /\ w'.job = 0 /\ w'.todo \subseteq w.todo
<1> DEFINE todo == w.todo \ {Newest}
<1>1. w' = [w EXCEPT !.pc = "files", !.job = 0, !.todo = todo]
  BY DEF NextFile
<1>2. todo \in SUBSET Nat /\ todo \subseteq w.todo
  BY DEF Inv, Typed, WorkerState
<1> HIDE DEF todo
<1>3. "files" \in Holding \union {"reconcile", "list", "files", "idle"} /\ 0 \in Nat /\ "none" \in Code
  BY DEF Code
<1>4. QED
  BY <1>1, <1>2, <1>3, WorkerRecords

\* The steps of the worker, and of a transaction of it that fails.
LEMMA WorkerStepInv ==
  ASSUME Inv, WorkerStep \/ WBreaks
  PROVE  Inv'
<1>1. JobsMove
  BY JobsAlways DEF Next
<1>2. UNCHANGED <<remote, call, restore, run>>
  BY DEF WorkerStep, WReconcile, WList, WLookAtFile, WRepair, WClaim, WStart, WDownload,
         WVisible, WComplete, WCancel, WFail, WBreaks, disk, counts
<1>3. w \in WorkerState /\ w.code \in Code /\ w.todo \in SUBSET Nat /\ 0 \in Nat
      /\ unsaved \subseteq DOMAIN jobs /\ w.todo \subseteq DOMAIN jobs
  BY DEF Inv, Typed, WorkerState, Working
<1>4. {"interrupted", "failed", "persistence", "none"} \subseteq Code
  BY DEF Code
<1>5. w.pc \in Holding => w.job \in DOMAIN jobs
  BY DEF Inv, Working, Holding
<1> DEFINE pcs == Holding \union {"reconcile", "list", "files", "idle"}
<1>6. CASE WReconcile
  <2>1. w' \in WorkerState /\ w'.pc = "list" /\ w'.job = w.job /\ w'.todo = w.todo
    BY <1>3, <1>6, WorkerRecords DEF WReconcile
  <2>2. QED
    BY <1>1, <1>2, <1>3, <1>6, <2>1, ReconcileJobs, WorkerWrites DEF WReconcile, disk,
       Holding
<1>7. ASSUME jobs' = jobs PROVE Len(jobs') = Len(jobs)
  BY <1>7
<1>8. CASE WList
  <2>1. Unfinished \in SUBSET Nat /\ Unfinished \subseteq DOMAIN jobs
    <3>1. DOMAIN jobs \subseteq Nat
      BY DEF Inv, Typed
    <3>2. QED
      BY <3>1 DEF Unfinished
  <2>2. w' \in WorkerState /\ w'.pc = "files" /\ w'.job = w.job /\ w'.todo = Unfinished
    BY <1>3, <1>8, <2>1, WorkerRecords DEF WList
  <2>3. QED
    BY <1>1, <1>2, <1>3, <1>7, <1>8, <2>1, <2>2, WorkerWrites DEF WList, disk, Holding
<1>9. ASSUME NextFile, UNCHANGED <<file, jobs, unsaved>> PROVE Inv'
  <2>1. w' \in WorkerState /\ w'.pc = "files" /\ w'.job = 0 /\ w'.todo \subseteq w.todo
    BY <1>9, NextFileRecord
  <2>2. QED
    BY <1>1, <1>2, <1>3, <1>7, <1>9, <2>1, WorkerWrites DEF Holding
<1>10. ASSUME Free, UNCHANGED file, Len(jobs') = Len(jobs), unsaved' \subseteq DOMAIN jobs
       PROVE  Inv'
  <2>1. w' \in WorkerState /\ w'.pc = "idle" /\ w'.job = 0 /\ w'.todo = {}
    BY <1>3, <1>10, WorkerRecords
  <2>2. QED
    BY <1>1, <1>2, <1>10, <2>1, WorkerWrites DEF Holding
<1>11. ASSUME NEW code \in Code, Fails(code), w.pc \in Holding, UNCHANGED <<file, unsaved>>,
              Len(jobs') = Len(jobs)
       PROVE  Inv'
  <2>1. w' \in WorkerState /\ w'.pc = "fail" /\ w'.job = w.job /\ w'.todo = w.todo
    BY <1>3, <1>11, WorkerRecords
  <2>2. QED
    BY <1>1, <1>2, <1>3, <1>5, <1>11, <2>1, WorkerWrites
<1>12. CASE WLookAtFile
  <2>1. UNCHANGED <<file, jobs, unsaved>>
    BY <1>12 DEF WLookAtFile, disk
  <2>2. CASE /\ w.todo # {} /\ Verified(file[jobs[Newest].model], jobs[Newest].version)
             /\ w' = [w EXCEPT !.pc = "repair", !.job = Newest]
    <3>1. Newest \in DOMAIN jobs /\ Newest \in Nat
      BY <2>2, NewestTodo
    <3>2. w' \in WorkerState /\ w'.pc = "repair" /\ w'.job = Newest /\ w'.todo = w.todo
      BY <1>3, <1>4, <2>2, <3>1, WorkerRecords DEF Holding
    <3>3. QED
      BY <1>1, <1>2, <1>3, <1>7, <2>1, <2>2, <3>1, <3>2, WorkerWrites DEF Verified
  <2>3. QED
    BY <1>3, <1>7, <1>9, <1>10, <1>12, <2>1, <2>2 DEF WLookAtFile
<1>13. CASE WRepair
  <2>1. w' \in WorkerState /\ w'.pc = "files" /\ w'.job = 0 /\ w'.todo \subseteq w.todo
    BY <1>13, NextFileRecord DEF WRepair
  <2>2. Len(jobs') = Len(jobs) /\ UNCHANGED <<file, unsaved>>
    BY <1>13, WorkerJobs DEF WRepair, disk
  <2>3. QED
    BY <1>1, <1>2, <1>3, <2>1, <2>2, WorkerWrites DEF Holding
<1>14. CASE WClaim
  <2>1. PICK j : /\ j = CHOOSE i \in Pending : \A k \in Pending : i <= k
                 /\ w' = [w EXCEPT !.pc = "start", !.job = j]
    BY <1>14 DEF WClaim
  <2>2. j \in DOMAIN jobs /\ j \in Nat
    <3>1. DOMAIN jobs \subseteq Nat
      BY DEF Inv, Typed
    <3>2. Pending \in SUBSET Nat /\ Pending # {} /\ Pending \subseteq DOMAIN jobs
      BY <1>14, <3>1 DEF WClaim, Pending
    <3>3. j \in Pending
      BY <2>1, <3>2, Smallest
    <3>4. QED
      BY <3>1, <3>2, <3>3
  <2>3. w' \in WorkerState /\ w'.pc = "start" /\ w'.job = j /\ w'.todo = w.todo
    BY <1>3, <1>4, <2>1, <2>2, WorkerRecords DEF Holding
  <2>4. Len(jobs') = Len(jobs) /\ UNCHANGED <<file, unsaved>>
    BY <1>14, WorkerJobs DEF WClaim, disk
  <2>5. QED
    BY <1>1, <1>2, <1>3, <2>2, <2>3, <2>4, WorkerWrites
<1>15. ASSUME NEW pc \in {"download", "cancel"}, To(pc), w.pc \in Holding,
              UNCHANGED <<file, jobs, unsaved>>
       PROVE  Inv'
  <2>1. w' \in WorkerState /\ w'.pc = pc /\ w'.job = w.job /\ w'.todo = w.todo
    BY <1>3, <1>15, WorkerRecords DEF Holding
  <2>2. QED
    BY <1>1, <1>2, <1>3, <1>5, <1>7, <1>15, <2>1, WorkerWrites
<1>16. CASE WStart
  BY <1>4, <1>7, <1>11, <1>15, <1>16 DEF WStart, disk, Holding
<1>17. CASE WDownload
  <2>1. UNCHANGED <<jobs, unsaved>> /\ w.pc = "download" /\ w.pc \in Holding
    BY <1>17 DEF WDownload, Holding
  <2>2. CASE Install
    <3> DEFINE i == w.job
               m == jobs[i].model
    <3>1. i \in DOMAIN jobs
      BY <1>5, <2>1
    <3>2. jobs[i] \in JobState
      BY <3>1 DEF Inv, Typed
    <3>3. m \in Model /\ jobs[i].version \in Version
      BY <3>2 DEF JobState
    <3>4. remote[m] = jobs[i].version /\ file' = [file EXCEPT ![m] = remote[m]] /\ To("visible")
      BY <2>2 DEF Install, Verified
    <3>5. /\ file' \in [Model -> Content] /\ file'[m] = jobs[i].version
          /\ \A n \in Model \ {m} : file'[n] = file[n]
      BY <3>3, <3>4 DEF Inv, Typed, Content
    <3>6. FilesStay
      BY <3>3, <3>5, TransferAssumption DEF FilesStay, Present
    <3>7. w' \in WorkerState /\ w'.pc = "visible" /\ w'.job = i /\ w'.todo = w.todo
      BY <1>3, <3>4, WorkerRecords DEF Holding
    <3>8. i \in 0 .. Len(jobs)
      BY DEF Inv, Working
    <3>9. QED
      BY <1>1, <1>2, <1>3, <1>7, <2>1, <3>1, <3>5, <3>6, <3>7, <3>8, WorkerMoves
  <2>3. QED
    BY <1>4, <1>7, <1>11, <1>15, <1>17, <2>1, <2>2 DEF WDownload
<1>18. CASE WVisible
  <2>1. UNCHANGED <<file, jobs, unsaved>> /\ w.pc = "visible"
    BY <1>18 DEF WVisible, disk
  <2>2. CASE To("complete")
    <3>1. w' \in WorkerState /\ w'.pc = "complete" /\ w'.job = w.job /\ w'.todo = w.todo
      BY <1>3, <2>2, WorkerRecords DEF Holding
    <3>2. file[jobs[w.job].model] = jobs[w.job].version /\ w.job \in DOMAIN jobs
      BY <1>5, <2>1 DEF Inv, Working, Holding
    <3>3. QED
      BY <1>1, <1>2, <1>3, <1>7, <2>1, <3>1, <3>2, WorkerWrites
  <2>3. QED
    BY <1>4, <1>7, <1>11, <1>18, <2>1, <2>2 DEF WVisible, Holding
<1>19. CASE WComplete
  <2>1. Len(jobs') = Len(jobs) /\ UNCHANGED <<file, unsaved>> /\ w.pc = "complete"
    BY <1>19, WorkerJobs DEF WComplete, disk
  <2>2. QED
    BY <1>3, <1>4, <1>10, <1>11, <1>19, <2>1 DEF WComplete, Holding
<1>20. CASE WCancel \/ WFail
  <2>1. Len(jobs') = Len(jobs) /\ UNCHANGED <<file, unsaved>> /\ Free
    BY <1>20, WorkerJobs DEF WCancel, WFail, disk
  <2>2. QED
    BY <1>3, <1>10, <2>1
<1>21. CASE WBreaks
  <2>1. UNCHANGED <<file, jobs>> /\ Len(jobs') = Len(jobs)
    BY <1>21 DEF WBreaks, disk
  <2>2. CASE Free
    <3>1. unsaved' \subseteq DOMAIN jobs
      BY <1>3, <1>5, <1>21 DEF WBreaks, Holding
    <3>2. QED
      BY <1>10, <2>1, <2>2, <3>1
  <2>3. CASE NextFile /\ UNCHANGED unsaved
    BY <1>9, <2>1, <2>3
  <2>4. CASE Fails("persistence") /\ w.pc \in {"start", "complete"} /\ UNCHANGED unsaved
    BY <1>4, <1>11, <2>1, <2>4 DEF Holding
  <2>5. QED
    BY <1>21, <2>2, <2>3, <2>4 DEF WBreaks
<1>22. QED
  BY <1>6, <1>8, <1>12, <1>13, <1>14, <1>16, <1>17, <1>18, <1>19, <1>20, <1>21
     DEF WorkerStep

-----------------------------------------------------------------------------
(* The process, the remote, and the invariant.                              *)

\* A request to cancel writes one job.
LEMMA CancelStep ==
  ASSUME NEW i \in DOMAIN jobs, Inv, Cancel(i)
  PROVE  Inv'
<1>1. JobsMove /\ Len(jobs') = Len(jobs)
  BY CancelJobs
<1>2. UNCHANGED <<remote, file, w, call, restore, unsaved, run>>
  BY DEF Cancel, disk, counts
<1>3. unsaved \subseteq DOMAIN jobs /\ w \in WorkerState
  BY DEF Inv, Typed
<1>4. w.todo \subseteq DOMAIN jobs /\ (w.pc \in Holding => w.job \in DOMAIN jobs)
      /\ (w.pc \in {"repair", "visible", "complete"} => file[jobs[w.job].model] = jobs[w.job].version)
  BY DEF Inv, Working, Holding
<1>5. QED
  BY <1>1, <1>2, <1>3, <1>4, WorkerWrites

\* Whatever the remote becomes.
LEMMA RemoteStep ==
  ASSUME NEW m \in Model, NEW v \in Content, Inv, RemoteChanges(m, v)
  PROVE  Inv'
<1>1. UNCHANGED <<file, jobs, w, call, restore, unsaved, run>>
      /\ remote' = [remote EXCEPT ![m] = v]
  BY DEF RemoteChanges
<1>2. Typed'
  BY <1>1 DEF Inv, Typed
<1>3. Working' /\ \A c \in Caller : Calling(c)'
  BY <1>1 DEF Inv, Working, Calling, Present
<1>4. Restoring'
  BY <1>1 DEF Inv, Restoring, Dealt, Present
<1>5. QED
  BY <1>2, <1>3, <1>4 DEF Inv

\* The start-up thread stops with the application.
LEMMA StopStep ==
  ASSUME Inv, Stop
  PROVE  Inv'
<1>1. UNCHANGED <<remote, file, jobs, unsaved, run>> /\ w' = [w EXCEPT !.stop = TRUE]
      /\ call' = [call EXCEPT ![Restorer] = Idle]
  BY DEF Stop, disk, counts
<1>2. w \in WorkerState
  BY DEF Inv, Typed
<1>3. w' \in WorkerState /\ w'.pc = w.pc /\ w'.job = w.job /\ w'.todo = w.todo
  BY <1>1, <1>2 DEF WorkerState
<1>4. call' \in [Caller -> CallState] /\ \A c \in Caller : call'[c] = IF c = Restorer THEN Idle ELSE call[c]
  BY <1>1, IdleCaller DEF Inv, Typed
<1>5. \A c \in Caller : Calling(c)'
  BY <1>1, <1>4, IdleCaller DEF Calling, Inv, Present
<1>6. Working'
  BY <1>1, <1>3 DEF Inv, Working
<1>7. restore' \in RestoreState /\ Restoring'
  <2>1. CASE restore' = restore /\ restore.state \in Decided \union {"skipped"}
    BY <1>1, <2>1 DEF Inv, Typed, Restoring, Present, Decided
  <2>2. CASE restore' = [NoRestore EXCEPT !.state = "failed"]
    BY <1>1, <2>2, NothingTracked DEF Decided
  <2>3. QED
    BY <2>1, <2>2 DEF Stop
<1>8. Typed'
  BY <1>1, <1>3, <1>4, <1>7 DEF Inv, Typed
<1>9. QED
  BY <1>5, <1>6, <1>7, <1>8 DEF Inv

\* A new process waits for nothing, and a new Pod has no files.
LEMMA RestartStep ==
  ASSUME NEW newPod \in BOOLEAN, Inv, Restart(newPod)
  PROVE  Inv'
<1>1. /\ UNCHANGED <<remote, unsaved>> /\ run' = run + 1 /\ w' = Off
      /\ call' = [c \in Caller |-> Idle] /\ restore' = NoRestore
  BY DEF Restart
<1>2. JobsMove /\ Len(jobs') = Len(jobs)
  BY RestartJobs
<1>3. DOMAIN jobs' = DOMAIN jobs /\ Len(jobs) \in Nat
  BY <1>2 DEF Inv, Typed, JobsMove
<1>4. file' \in [Model -> Content]
  BY DEF Restart, Inv, Typed, Content
<1>5. /\ Off \in WorkerState /\ Off.pc = "reconcile" /\ Off.job = 0 /\ Off.todo = {}
      /\ NoRestore \in RestoreState /\ NoRestore.state = "restoring" /\ NoRestore.tracked = {}
  BY DEF Off, WorkerState, Code, NoRestore, RestoreState
<1>6. Typed'
  BY <1>1, <1>2, <1>3, <1>4, <1>5, IdleCaller DEF Inv, Typed, JobsMove
<1>7. Working'
  BY <1>1, <1>2, <1>3, <1>5 DEF Working
<1>8. \A c \in Caller : Calling(c)'
  BY <1>1, IdleCaller DEF Calling
<1>9. Restoring'
  BY <1>1, <1>5 DEF Restoring
<1>10. QED
  BY <1>6, <1>7, <1>8, <1>9 DEF Inv

\* Nothing has been requested.
LEMMA InitialInv == Init => Inv
<1> SUFFICES ASSUME Init PROVE Inv
  OBVIOUS
<1>1. /\ jobs = <<>> /\ w = Off /\ call = [c \in Caller |-> Idle] /\ restore = NoRestore
      /\ unsaved = {} /\ run = 1 /\ file = [m \in Model |-> NoVersion]
      /\ remote = [m \in Model |-> CHOOSE v \in Version : TRUE]
  BY DEF Init
<1>2. /\ Off \in WorkerState /\ Off.pc = "reconcile" /\ Off.job = 0 /\ Off.todo = {}
      /\ NoRestore \in RestoreState /\ NoRestore.state = "restoring" /\ NoRestore.tracked = {}
  BY DEF Off, WorkerState, Code, NoRestore, RestoreState
<1>3. (CHOOSE v \in Version : TRUE) \in Version
  BY TransferAssumption
<1>4. Typed
  BY <1>1, <1>2, <1>3, IdleCaller DEF Typed, Content
<1>5. Working
  BY <1>1, <1>2 DEF Working
<1>6. \A c \in Caller : Calling(c)
  BY <1>1, IdleCaller DEF Calling
<1>7. Restoring
  BY <1>1, <1>2 DEF Restoring
<1>8. QED
  BY <1>4, <1>5, <1>6, <1>7 DEF Inv

\* Every step keeps the invariant.
LEMMA StepInv == Inv /\ [Next]_vars => Inv'
<1> SUFFICES ASSUME Inv, [Next]_vars PROVE Inv'
  OBVIOUS
<1>1. CASE UNCHANGED vars
  BY <1>1 DEF vars, Inv, Typed, Working, Calling, Restoring, Dealt, Present
<1>2. QED
  BY <1>1, RequestStep, CallerStepInv, CancelStep, RestoreStepInv, WorkerStepInv, StopStep,
     RestartStep, RemoteStep DEF Next

\* The invariant holds in every reachable state.
LEMMA Invariance == Spec => []Inv
BY InitialInv, StepInv, PTL DEF Spec

\* The types, and the jobs that the records refer to.
THEOREM TypeCorrect == Spec => []TypeOK
<1>1. Inv => TypeOK
  BY DEF Inv, Typed, Working, Restoring, TypeOK, CallState, RestoreState
<1>2. QED
  BY Invariance, <1>1, PTL

\* When the start-up thread says that the form can be restored, each of its models
\* has a file (prepare_previous_models, _wait_for_model_jobs).
THEOREM ReadyPrepared == Spec => []ReadyMeansPrepared
<1>1. Inv => ReadyMeansPrepared
  <2> SUFFICES ASSUME Inv, restore.state = "ready" PROVE \A m \in Wanted : file[m] # NoVersion
    BY DEF ReadyMeansPrepared
  <2>1. QED
    BY DEF Inv, Restoring, Present
<1>2. QED
  BY Invariance, <1>1, PTL

\* A job that the worker completes has its own version on the disk at that moment
\* (_run_job, repair_completed).
THEOREM CompletionsMatch == Spec => CompletionMatchesFile
<1>1. Inv /\ [Next]_vars =>
        [\A j \in DOMAIN jobs :
            jobs[j].status # "completed" /\ jobs'[j].status = "completed"
                /\ jobs'[j].code # "already_prepared"
            => file[jobs[j].model] = jobs[j].version]_vars
  BY JobsAlways DEF JobsMove, Kept
<1>2. QED
  BY Invariance, <1>1, PTL DEF Spec, CompletionMatchesFile

\* A job that was cancelled or completed is not written again, and one that failed
\* may only be repaired (cancel_job, mark_completed, repair_completed).
THEOREM TerminalsStay == Spec => TerminalStays
<1>1. Inv /\ [Next]_vars =>
        [\A j \in DOMAIN jobs :
            /\ jobs[j].status \in {"cancelled", "completed"} => jobs'[j] = jobs[j]
            /\ jobs[j].status = "failed" => jobs'[j].status \in {"failed", "completed"}]_vars
  BY JobsAlways DEF JobsMove, Kept
<1>2. QED
  BY Invariance, <1>1, PTL DEF Spec, TerminalStays
================================================================================

--------------------------- MODULE ModelTransfer ---------------------------
(***************************************************************************)
(* Models fetched from Google Drive on demand: the jobs of                 *)
(* ModelTransferRepository, the callers of ModelPreparationService that    *)
(* enqueue, cancel and retry them, the one ModelTransferWorker that        *)
(* downloads, verifies and installs the files, and the start-up thread     *)
(* that prepares the models of the last session and decides when the form  *)
(* may be restored.                                                        *)
(*                                                                         *)
(* A model is one kind and relative path.  A version stands for the        *)
(* identity of a remote entry (hash, size, time): the remote lists a hash  *)
(* for every file, so a file verifies against its own version only.        *)
(***************************************************************************)
EXTENDS Integers, FiniteSets, Sequences, SequencesExt

CONSTANTS Model,        \* models
          Version,      \* contents of a model file
          NoVersion,    \* no file
          Client,       \* handlers of the user interface
          Restorer,     \* the startup-model-restore thread
          Wanted,       \* the models of the last form state
          MaxRequests,  \* bound: requests of the clients
          MaxChanges,   \* bound: changes of the remote
          MaxRuns,      \* bound: processes started
          MaxFaults     \* bound: transactions that fail

ASSUME TransferAssumption ==
    /\ Model # {} /\ Version # {} /\ NoVersion \notin Version
    /\ Restorer \notin Client /\ Wanted \subseteq Model /\ IsFiniteSet(Wanted)
    /\ MaxRequests \in Nat /\ MaxChanges \in Nat /\ MaxRuns \in Nat /\ MaxFaults \in Nat

VARIABLES
  remote,    \* external: the content of each model on Google Drive
  file,      \* the content of each local model file
  jobs,      \* model_transfer_jobs, oldest first
  w,         \* the worker thread
  call,      \* the callers of the service
  restore,   \* StartupModelRestoreRuntime
  unsaved,   \* history: jobs whose outcome could not be written
  requests, changes, run, faults

vars == <<remote, file, jobs, w, call, restore, unsaved, requests, changes, run, faults>>

counts == <<requests, changes, run>>
disk == <<remote, file>>

-----------------------------------------------------------------------------
(* Jobs.                                                                    *)

Status == {"pending", "downloading", "cancel_requested", "completed", "failed", "cancelled"}
Active == {"pending", "downloading", "cancel_requested"}
WrongTerminal == {"completed", "failed"}

Terminal == Status \ Active

\* Error codes, "failed" for every one that repair_completed does not accept.
Code == {"none", "interrupted", "persistence", "failed", "cancelled", "already_prepared"}
Recoverable == {"interrupted", "persistence"}

JobState == [model : Model, version : Version, status : Status, owner : Nat, code : Code]

Content == Version \union {NoVersion}

NewJob(m, v) == [model |-> m, version |-> v, status |-> "pending", owner |-> 0, code |-> "none"]

Closed(j, status, code) == [j EXCEPT !.status = status, !.owner = 0, !.code = code]

Owned(j) == j.owner = run /\ j.status \in {"downloading", "cancel_requested"}

ActiveJob(m, v) == {i \in DOMAIN jobs :
                      jobs[i].model = m /\ jobs[i].version = v /\ jobs[i].status \in Active}

\* The partial unique index makes a second request read the first one's row.
Enqueued(m, v) == IF ActiveJob(m, v) # {} THEN jobs ELSE Append(jobs, NewJob(m, v))

JobOf(m, v) == IF ActiveJob(m, v) # {} THEN CHOOSE i \in ActiveJob(m, v) : TRUE
               ELSE Len(jobs) + 1

\* _verify_file and _matching_local_sha256
WrongVerified(content, v) == content # NoVersion

Verified(content, v) == content = v

Fault == faults < MaxFaults /\ faults' = faults + 1

-----------------------------------------------------------------------------
(* The callers.                                                             *)

Idle == [pc |-> "idle", model |-> CHOOSE m \in Model : TRUE,
         version |-> CHOOSE v \in Version : TRUE, job |-> 0, found |-> FALSE]

Caller == Client \union {Restorer}

\* refresh_catalog: the entry the caller goes on with is the remote's now.
Listed(c, m, pc, j) ==
    /\ remote[m] # NoVersion
    /\ call' = [call EXCEPT ![c] = [pc |-> pc, model |-> m, version |-> remote[m],
                                    job |-> j, found |-> FALSE]]

Prepare(c, m) ==
    /\ requests < MaxRequests /\ requests' = requests + 1
    /\ call[c].pc = "idle" /\ Listed(c, m, "hash", 0)
    /\ UNCHANGED <<disk, jobs, w, restore, unsaved, changes, run, faults>>

StartRetry(c, j) ==
    /\ requests < MaxRequests /\ requests' = requests + 1
    /\ call[c].pc = "idle" /\ Listed(c, jobs[j].model, "retry", j)
    /\ UNCHANGED <<disk, jobs, w, restore, unsaved, changes, run, faults>>

\* prepare_entry hashes the local file and, when it matches, awaits ComfyUI.
ReadFile(c) ==
    /\ call[c].pc = "hash"
    /\ LET found == Verified(file[call[c].model], call[c].version)
       IN call' = [call EXCEPT ![c] = [@ EXCEPT !.found = found,
                                                !.pc = IF found THEN "look" ELSE "enqueue"]]
    /\ UNCHANGED <<disk, jobs, w, restore, unsaved, counts, faults>>

\* What the caller does with the job, or with the refusal: only the restorer keeps it.
Return(c, tracked) ==
    /\ call' = [call EXCEPT ![c] = Idle]
    /\ restore' = IF c # Restorer THEN restore
                  ELSE IF tracked = {} THEN [restore EXCEPT !.missing = TRUE]
                  ELSE [restore EXCEPT !.tracked = @ \union tracked]

\* ComfyUI lists the model, or it does not and the request ends.
Look(c) ==
    /\ call[c].pc = "look"
    /\ \/ /\ call' = [call EXCEPT ![c].pc = "enqueue"] /\ UNCHANGED restore
       \/ Return(c, {})
    /\ UNCHANGED <<disk, jobs, w, unsaved, counts, faults>>

Enqueue(c) ==
    /\ call[c].pc = "enqueue"
    /\ jobs' = Enqueued(call[c].model, call[c].version)
    /\ LET j == JobOf(call[c].model, call[c].version)
       IN IF call[c].found
          THEN call' = [call EXCEPT ![c] = [@ EXCEPT !.pc = "found", !.job = j]] /\ UNCHANGED restore
          ELSE Return(c, {j})
    /\ UNCHANGED <<disk, w, unsaved, counts, faults>>

\* The job enqueue returned may be one that the worker has claimed meanwhile.
MarkAlreadyPrepared(c) ==
    /\ call[c].pc = "found"
    /\ LET j == call[c].job
       IN /\ jobs' = [jobs EXCEPT ![j] = IF @.status # "pending" THEN @
                          ELSE [@ EXCEPT !.status = "completed", !.code = "already_prepared"]]
          /\ Return(c, IF jobs[j].status \in {"pending", "completed"} THEN {j} ELSE {})
    /\ UNCHANGED <<disk, w, unsaved, counts, faults>>

WrongAfterRequest(j) ==
    IF j.status = "pending" THEN Closed(j, "cancelled", "cancelled")
    ELSE [j EXCEPT !.status = "cancel_requested"]

\* Pending ones are cancelled here, the others by the worker.
AfterRequest(j) ==
    CASE j.status \in Terminal  -> j
      [] j.status = "pending"   -> Closed(j, "cancelled", "cancelled")
      [] OTHER                  -> [j EXCEPT !.status = "cancel_requested"]

Cancel(j) ==
    /\ jobs' = [jobs EXCEPT ![j] = AfterRequest(@)]
    /\ UNCHANGED <<disk, w, call, restore, unsaved, counts, faults>>

\* The job of a failed or cancelled one is a new row.
Retry(c) ==
    /\ call[c].pc = "retry"
    /\ IF jobs[call[c].job].status \in {"failed", "cancelled"}
       THEN jobs' = Enqueued(call[c].model, call[c].version)
       ELSE UNCHANGED jobs
    /\ call' = [call EXCEPT ![c] = Idle]
    /\ UNCHANGED <<disk, w, restore, unsaved, counts, faults>>

\* The gate refuses the request or its transaction fails.
Refused(c) ==
    /\ call[c].pc \in {"enqueue", "found", "retry"} /\ Fault
    /\ Return(c, {})
    /\ UNCHANGED <<disk, jobs, w, unsaved, counts>>

-----------------------------------------------------------------------------
(* Start-up: the models of the last form state.                             *)

NoRestore == [state |-> "restoring", todo |-> {}, tracked |-> {}, missing |-> FALSE]

Decided == {"ready", "incomplete", "failed"}

RestoreTo(state) == restore' = [NoRestore EXCEPT !.state = state]

\* Nothing to restore or to prepare, or the catalogue cannot be listed.
RBegin ==
    /\ restore.state = "restoring"
    /\ \/ restore' = [restore EXCEPT !.state = "preparing", !.todo = Wanted]
       \/ RestoreTo("skipped") \/ RestoreTo("failed")
    /\ UNCHANGED <<disk, jobs, w, call, unsaved, counts, faults>>

\* prepare_previous_models, one selection after the other.
RPrepare(m) ==
    /\ restore.state = "preparing" /\ call[Restorer].pc = "idle" /\ m \in restore.todo
    /\ IF remote[m] = NoVersion
       THEN UNCHANGED call /\ restore' = [restore EXCEPT !.todo = @ \ {m}, !.missing = TRUE]
       ELSE Listed(Restorer, m, "hash", 0) /\ restore' = [restore EXCEPT !.todo = @ \ {m}]
    /\ UNCHANGED <<disk, jobs, w, unsaved, counts, faults>>

WrongFailures(tracked) == {j \in tracked : jobs[j].status = "failed"}

\* _wait_for_model_jobs: every tracked job is terminal; one that did not complete
\* makes its model missing.
Failures(tracked) == {j \in tracked : jobs[j].status # "completed"}

RWait ==
    /\ restore.state = "preparing" /\ restore.todo = {} /\ call[Restorer].pc = "idle"
    /\ \A j \in restore.tracked : jobs[j].status \in Terminal
    /\ restore' = [restore EXCEPT !.state = "visibility",
                                  !.missing = @ \/ Failures(restore.tracked) # {}]
    /\ UNCHANGED <<disk, jobs, w, call, unsaved, counts, faults>>

RFinish ==
    /\ restore.state = "visibility"
    /\ \/ RestoreTo(IF restore.missing THEN "incomplete" ELSE "ready")
       \/ RestoreTo("failed")
    /\ UNCHANGED <<disk, jobs, w, call, unsaved, counts, faults>>

-----------------------------------------------------------------------------
(* The worker.                                                              *)

Off == [pc |-> "reconcile", job |-> 0, todo |-> {}, code |-> "none", stop |-> FALSE]

To(pc) == w' = [w EXCEPT !.pc = pc]
Fails(code) == w' = [w EXCEPT !.pc = "fail", !.code = code]
Free == w' = [Off EXCEPT !.pc = "idle", !.stop = w.stop]

WrongInterrupted(j) == IF j.status = "downloading"
                       THEN Closed(j, "failed", "interrupted") ELSE j

Interrupted(j) == IF j.status \in {"downloading", "cancel_requested"}
                  THEN Closed(j, "failed", "interrupted") ELSE j

Unfinished == {i \in DOMAIN jobs : jobs[i].status # "completed"}

\* startup_reconcile: interrupted jobs fail, then the files of all unfinished ones
\* are looked at; reconcile_stale finds nothing left.
WReconcile ==
    /\ w.pc = "reconcile"
    /\ jobs' = [i \in DOMAIN jobs |-> Interrupted(jobs[i])]
    /\ To("list")
    /\ unsaved' = {}
    /\ UNCHANGED <<disk, call, restore, counts, faults>>

WList ==
    /\ w.pc = "list" /\ w' = [w EXCEPT !.pc = "files", !.todo = Unfinished]
    /\ UNCHANGED <<disk, jobs, call, restore, unsaved, counts, faults>>

\* Newest first, as the jobs were listed.
Newest == CHOOSE i \in w.todo : \A j \in w.todo : j <= i

NextFile == w' = [w EXCEPT !.pc = "files", !.job = 0, !.todo = @ \ {Newest}]

\* reconcile_files: a file that verifies and that ComfyUI lists may complete its job.
WLookAtFile ==
    /\ w.pc = "files"
    /\ IF w.todo = {} THEN Free
       ELSE \/ /\ Verified(file[jobs[Newest].model], jobs[Newest].version)
               /\ w' = [w EXCEPT !.pc = "repair", !.job = Newest]
            \/ NextFile
    /\ UNCHANGED <<disk, jobs, call, restore, unsaved, counts, faults>>

Repaired(j) == IF j.status = "failed" /\ j.code \in Recoverable
               THEN Closed(j, "completed", "none") ELSE j

WRepair ==
    /\ w.pc = "repair"
    /\ jobs' = [jobs EXCEPT ![w.job] = Repaired(@)]
    /\ NextFile
    /\ UNCHANGED <<disk, call, restore, unsaved, counts, faults>>

Pending == {i \in DOMAIN jobs : jobs[i].status = "pending"}

WClaim ==
    /\ w.pc = "idle" /\ ~w.stop /\ Pending # {}
    /\ LET j == CHOOSE i \in Pending : \A k \in Pending : i <= k
       IN /\ jobs' = [jobs EXCEPT ![j] = [@ EXCEPT !.status = "downloading", !.owner = run]]
          /\ w' = [w EXCEPT !.pc = "start", !.job = j]
    /\ UNCHANGED <<disk, call, restore, unsaved, counts, faults>>

\* rclone is started and its process id saved.
WStart ==
    /\ w.pc = "start"
    /\ IF w.stop THEN Fails("interrupted") ELSE To("download")
    /\ UNCHANGED <<disk, jobs, call, restore, unsaved, counts, faults>>

\* What rclone wrote is verified and moved to its place.
Install ==
    /\ Verified(remote[jobs[w.job].model], jobs[w.job].version)
    /\ file' = [file EXCEPT ![jobs[w.job].model] = remote[jobs[w.job].model]]
    /\ To("visible")

\* Otherwise the job fails: the copy failed, timed out or does not verify, or was
\* stopped for the shutdown or the cancel request.
WDownload ==
    /\ w.pc = "download"
    /\ \/ Install
       \/ Fails("failed") /\ UNCHANGED file
       \/ w.stop /\ Fails("interrupted") /\ UNCHANGED file
       \/ jobs[w.job].status = "cancel_requested" /\ To("cancel") /\ UNCHANGED file
    /\ UNCHANGED <<remote, jobs, call, restore, unsaved, counts, faults>>

WVisible ==
    /\ w.pc = "visible" /\ (To("complete") \/ Fails("failed"))
    /\ UNCHANGED <<disk, jobs, call, restore, unsaved, counts, faults>>

\* A cancel request that came after the last look at it is overtaken.
WComplete ==
    /\ w.pc = "complete"
    /\ IF Owned(jobs[w.job])
       THEN /\ jobs' = [jobs EXCEPT ![w.job] = Closed(@, "completed", "none")]
            /\ Free
       ELSE Fails("persistence") /\ UNCHANGED jobs
    /\ UNCHANGED <<disk, call, restore, unsaved, counts, faults>>

WCancel ==
    /\ w.pc = "cancel"
    /\ jobs' = [jobs EXCEPT ![w.job] = IF Owned(@) THEN Closed(@, "cancelled", "cancelled") ELSE @]
    /\ Free
    /\ UNCHANGED <<disk, call, restore, unsaved, counts, faults>>

WFail ==
    /\ w.pc = "fail"
    /\ jobs' = [jobs EXCEPT ![w.job] =
                    IF @.status \in Terminal \/ @.owner # run THEN @ ELSE Closed(@, "failed", w.code)]
    /\ Free
    /\ UNCHANGED <<disk, call, restore, unsaved, counts, faults>>

\* A transaction of the worker fails.  The completion has a second chance as a
\* failure; the last write of a job has none.
WBreaks ==
    /\ Fault
    /\ \/ w.pc = "reconcile" /\ Free
          /\ unsaved' = {i \in DOMAIN jobs : jobs[i].status \in {"downloading", "cancel_requested"}}
       \/ w.pc = "list" /\ Free /\ UNCHANGED unsaved
       \/ w.pc = "repair" /\ NextFile /\ UNCHANGED unsaved
       \/ w.pc \in {"start", "complete"} /\ Fails("persistence") /\ UNCHANGED unsaved
       \/ w.pc \in {"cancel", "fail"} /\ Free /\ unsaved' = unsaved \union {w.job}
    /\ UNCHANGED <<disk, jobs, call, restore, counts>>

-----------------------------------------------------------------------------
(* The process and the remote.                                              *)

\* stop(): no job is claimed any more and a download is interrupted.
Stop ==
    /\ ~w.stop /\ w' = [w EXCEPT !.stop = TRUE]
    /\ restore' = IF restore.state \in Decided \union {"skipped"} THEN restore
                  ELSE [NoRestore EXCEPT !.state = "failed"]
    /\ call' = [call EXCEPT ![Restorer] = Idle]
    /\ UNCHANGED <<disk, jobs, unsaved, counts, faults>>

\* reconcile_stateless_restore
StatelessFailed(j) == IF j.status \in Active THEN Closed(j, "failed", "failed") ELSE j

\* The next process: on the same Pod, or on a new one that restored the database
\* and has no model files.
Restart(newPod) ==
    /\ run < MaxRuns /\ run' = run + 1
    /\ w' = Off /\ call' = [c \in Caller |-> Idle] /\ restore' = NoRestore
    /\ IF newPod
       THEN /\ file' = [m \in Model |-> NoVersion]
            /\ jobs' = [i \in DOMAIN jobs |-> StatelessFailed(jobs[i])]
       ELSE UNCHANGED <<file, jobs>>
    /\ UNCHANGED <<remote, unsaved, requests, changes, faults>>

RemoteChanges(m, v) ==
    /\ changes < MaxChanges /\ changes' = changes + 1
    /\ remote[m] # v /\ remote' = [remote EXCEPT ![m] = v]
    /\ UNCHANGED <<file, jobs, w, call, restore, unsaved, requests, run, faults>>

Init ==
    /\ remote = [m \in Model |-> CHOOSE v \in Version : TRUE] /\ file = [m \in Model |-> NoVersion]
    /\ jobs = <<>> /\ w = Off /\ call = [c \in Caller |-> Idle]
    /\ restore = NoRestore /\ unsaved = {} /\ requests = 0 /\ changes = 0 /\ run = 1 /\ faults = 0

CallerStep(c) == ReadFile(c) \/ Look(c) \/ Enqueue(c) \/ MarkAlreadyPrepared(c) \/ Retry(c)

RestoreStep == RBegin \/ RWait \/ RFinish \/ \E m \in Wanted : RPrepare(m)

WorkerStep == \/ WReconcile \/ WList \/ WLookAtFile \/ WRepair \/ WClaim \/ WStart
              \/ WDownload \/ WVisible \/ WComplete \/ WCancel \/ WFail

Next == \/ \E c \in Client : (\E m \in Model : Prepare(c, m)) \/ \E j \in DOMAIN jobs : StartRetry(c, j)
        \/ \E c \in Caller : CallerStep(c) \/ Refused(c)
        \/ \E j \in DOMAIN jobs : Cancel(j)
        \/ RestoreStep \/ WorkerStep \/ WBreaks \/ Stop
        \/ \E newPod \in BOOLEAN : Restart(newPod)
        \/ \E m \in Model, v \in Content : RemoteChanges(m, v)

Spec == Init /\ [][Next]_vars

\* The threads of a process run.
FairSpec == Spec /\ WF_vars(WorkerStep) /\ WF_vars(RestoreStep)
                 /\ \A c \in Caller : WF_vars(CallerStep(c))

-----------------------------------------------------------------------------
(* Properties.                                                              *)

TypeOK ==
    /\ remote \in [Model -> Content] /\ file \in [Model -> Content]
    /\ jobs \in Seq(JobState)
    /\ \A c \in Caller : call[c].pc \in {"idle", "hash", "look", "enqueue", "found", "retry"}
    /\ restore.todo \subseteq Wanted /\ restore.tracked \subseteq DOMAIN jobs
    /\ w.job \in 0 .. Len(jobs) /\ unsaved \subseteq DOMAIN jobs

\* When the start-up thread says that the form can be restored, each of its models
\* has a file: jobs that an older Pod completed, jobs of other callers, cancelled
\* and interrupted ones never make it say so.
ReadyMeansPrepared ==
    restore.state = "ready" => \A m \in Wanted : file[m] # NoVersion

\* A job that the worker completes, after its download or at a later start from
\* the file alone, has its own version on the disk then.
CompletionMatchesFile ==
    [][\A j \in DOMAIN jobs :
          jobs[j].status # "completed" /\ jobs'[j].status = "completed"
              /\ jobs'[j].code # "already_prepared"
          => file[jobs[j].model] = jobs[j].version]_vars

\* A transfer that was cancelled or completed stays so, whoever asks for what
\* and whenever; a failed one may only be repaired.
TerminalStays ==
    [][\A j \in DOMAIN jobs :
          /\ jobs[j].status \in {"cancelled", "completed"} => jobs'[j] = jobs[j]
          /\ jobs[j].status = "failed" => jobs'[j].status \in {"failed", "completed"}]_vars

\* Every transfer ends, also one whose process died, unless the application is
\* stopping or could not write the outcome: requests being bounded, again and
\* again all of them have.
EveryTransferEnds ==
    []<>(w.stop \/ unsaved # {} \/ \A j \in DOMAIN jobs : jobs[j].status \in Terminal)

\* The start-up thread decides, so that the form and the auto-termination go on.
RestoreDecides ==
    []<>(restore.state \in Decided \union {"skipped"} \/ unsaved # {})
=============================================================================

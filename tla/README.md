# A verification development for RunPod SDXL Image Studio

The application queues image generations in SQLite, sends each one to a ComfyUI
server, stores and thumbnails the results, uploads them to Google Drive, fetches
models on demand, backs its database up, and terminates its own pod when nothing
is left to do. The pod may stop at any time. This directory holds TLA+ models of
these parts, the TLC configurations that check them and TLAPS proofs about them.
Paths below are relative to `src/src/runpod_sdxl_image_studio/` unless they start
with `src/`.

## 1. The system

| Component | State it keeps | Operations | Modelled in |
|---|---|---|---|
| Dispatch queue (`adapters/database/repositories/generation_dispatch_queue_repository.py`) | rows of `generations`, `generation_jobs`, `generation_queue_entries`: statuses, prompt ids, submission state, claim and lease, cancel request, audit code | enqueue, claim, renew, release, begin/mark submitted/quarantine, request and mark cancelled, resolve ambiguous, reconcile expired, mark missing or mismatched | `QueueRows`, `DispatchQueue` |
| Queue worker (`jobs/generation_queue_worker.py`) | one thread, its item, fail-closed flag | reconcile pass, claim and execute, cancel, heartbeat | `DispatchQueue` |
| Generation execution (`services/generation_service.py`) | the running job | `execute_persisted`, `_run_job`, `reconcile_prompt` | `DispatchQueue`, `GenerationOutput`, `Upscale` |
| Status repositories (`generation_repository.py`, `generation_progress_repository.py`) | the same rows | fail, cancel, complete, progress | `QueueRows`, `GenerationOutput` |
| Cancellation and client (`adapters/comfyui/`) | none | post, cancel, observe, upload | `DispatchQueue`, `Upscale` |
| Queue service (`services/generation_queue_service.py`) | none | enqueue, cancel, cancel_pending, manual resolution, retry | `DispatchQueue`, `InteractiveRun` |
| Recovery (`services/generation_recovery_service.py`) | none; runs at each refresh of the History tab | list unfinished jobs and settle them; repair outputs | `HistoryRecovery`, `GenerationOutput` |
| Interactive runs (`services/interactive_generation_service.py`, its repository) | run rows and the generations they own | start, refresh, cancel, restore | `InteractiveRun`; the failure path also in `DispatchQueue` |
| Outputs (`adapters/storage/`, `services/generation_service.py`) | image files and artifact rows, sidecars, thumbnails | store, complete, repair | `GenerationOutput` |
| Drive sync (`jobs/drive_sync_worker.py`, its repository and service) | records with per-artifact progress, jobs with leases, manifests | enqueue, retry, resync, claim, upload, reconcile, rebuild a manifest | `DriveSync` |
| Model transfer (`jobs/model_transfer_worker.py`, its repository, `model_preparation_service.py`, `startup_model_restore.py`) | jobs, model files, the start-up thread | prepare, cancel, retry, download, verify, install, reconcile, restore | `ModelTransfer` |
| Pod lifecycle (`services/pod_lifecycle_service.py`, `jobs/auto_terminate_worker.py`) | the session row, admission gate, coordinator | arm, check, drain, back up, request, reopen | `PodLifecycle` |
| State backup and restore (`services/state_*_service.py`), stateless reconciliation | versions, debounce timer, remote files | mark dirty, back up, wait for a clean state, close, restore, reconcile | `StateBackup` |
| Upscaling (`services/upscale_*.py`, `ui/tabs/upscale_tab.py`) | tab, snapshots, jobs | choose, click, enqueue, run, retry | `Upscale` |
| Metadata import (`services/metadata_import_service.py`, its repository and tab) | import rows and image files, capabilities | import, select a source, map models, apply | `MetadataImport` |
| Presets (`services/preset_service.py`, its repository and tab) | preset rows, tab, form | save, update, duplicate, delete, favourite, apply | `PresetLibrary` |
| Migrations (`src/alembic/versions/0006..0008`) | quarantined rows | once, before the start | initial states of `DispatchQueue` |
| LoRA catalogue, forms and recent settings, history and search, preflight and health, workflow building, rendering | rows without a protocol | reads, overwrites, data transformations | not modelled (section 6) |

How they meet. The UI threads, the queue worker, the recovery pass, the Drive and
transfer workers share nothing but the database, the files and the remote services;
no lock orders them. The queue worker calls the execution service, which calls back
into the repository to begin and to record a submission; after each item a callback
refreshes the interactive run. A completed generation makes a Drive sync job and a
dirty mark for the state backup. The coordinator reads all of these to decide
whether the pod may go; the admission gate is the only lock taken by enqueueing and
draining alike. At the start, the restore runs before the stateless reconciliation,
which runs before the workers.

What is hard here: a POST, a DELETE or an upload whose outcome nobody knows; a
process that dies between any two transactions; services that read in one
transaction and write in the next, or in a browser event later; several actors that
settle the same row; leases that race late answers; a queue, a drain and a backup
that must come to an end. The `hazards` of `PROJECT.json` list these at their lines,
with the property that watches each.

What makes each component correct is what its module's properties say; section 3
lists them by run.

## 2. The modules

| Module | What it is |
|---|---|
| `QueueRows` | the database row of a generation and each repository operation on it, as a guard and a new row |
| `DispatchQueue` | the queue: rows, worker, a UI cancellation, operator, ComfyUI, the clock and restarts |
| `SubmitOnce` | abstract specification of the queue: one request per generation |
| `HistoryRecovery` | `DispatchQueue` with the recovery pass as a further process |
| `InteractiveRun` | runs and everybody who recomputes their progress, on a reduced queue |
| `GenerationOutput` | files and artifact rows of one prompt, two finishers and the repairers |
| `DriveSync` | records, jobs, leases, files and manifests of the uploads |
| `ModelTransfer` | transfers, their callers and worker, and the start-up model restore |
| `PodLifecycle` | admission gate, coordinator, terminate button, one DELETE |
| `StateBackup` | versions, snapshot, three uploads, pointer, restore |
| `Upscale`, `MetadataImport`, `PresetLibrary` | the upscale tab and its jobs; imports; presets |
| `DispatchQueueProofs` | theorems about the queue, alone and with the recovery pass (section 4) |
| `InteractiveRunProofs`, `GenerationOutputProofs`, `DriveSyncProofs`, `ModelTransferProofs`, `PodLifecycleProofs`, `StateBackupProofs` | theorems about the module each is named after |
| `LibraryProofs` | theorems about `MetadataImport`, `Upscale`, `PresetLibrary` and `Library` |
| `Library` | four components that share no state in one specification, of which a behaviour follows one |
| `MC...` | model values |

In every module a thread is a record with a program counter whose values are the
points between two transactions, file operations or remote calls; an action is what
happens between two of them. Operators named `Wrong...` are faulty variants of the
operator that follows them. No specification uses them; each shows, substituted for
the right one, that a property notices the fault.

### The queue

| Code | Actions of `DispatchQueue` |
|---|---|
| `enqueue_single`, `enqueue_batch` | `Enqueue` |
| `reconcile` | `WReconcileExpired`, `WList`, `WVisit`, `WScanned` |
| `_cancel_item`, `_reconcile_item` | `WCancelRead`, `WStopPrompt`, `WLook`, `WWrite` |
| `run_once` | `WClaim`, `WNothingToClaim`, `WQuarantine`, `WRelease`, `WCallback` |
| `execute_persisted`, `_run_job` | `WExecute`, `WPrepareFails`, `WCheckCancel`, `WBegin`, `WPost`, `WMarkSubmitted`, `WProgress`, `WSeesCancel`, `WHistory`, `WStoreImages`, `WComplete`, `WFail` |
| `_heartbeat` | `WHeartbeat` |
| a repository call raises | `WTransactionFails` |
| `GenerationQueueService.cancel` | `UiCancel`, `UiStopPrompt`, `UiMark` |
| refresh of a failed interactive run | `UiPoll`, `UiDropRead`, `UiDrop`, `UiPolled`; `WCallback` on the worker |
| `link_ambiguous_prompt`, `fail_ambiguous_prompt` | `LinkAmbiguous`, `ResolveAsFailed` |
| ComfyUI, the clock, the process | `RemoteMoves`, `RemoteRestarts`, `LeaseExpires`, `Restart` |

Error codes become four classes (`audit`), because only the class decides whether an
operator may resolve a row; `lease_expires_at` is none, live or expired; `worker_id`
is the number of the process that holds the row. The submission token is left out: a
worker that holds a row in `submitting` is the one that began it. The job's claim
columns are left out because no code reads them. A generation's prompt id is the
generation itself; `Alien` is an id that belongs to none of them. One UI
cancellation and one recovery pass run at a time. `stop()` is `Restart`: what it
interrupts, a crash may interrupt too. When a failing transaction ends a whole
reconcile pass, the model lets it end in slightly more situations than the code.

One repository operation is one atomic step, here and in every module. The queue
repository takes the SQLite write lock up front only for enqueueing and manual
resolution; elsewhere the lock comes with the first write, so a concurrent commit
can fall between an operation's read and its write. That refinement is not done.

`SubmitOnce`: a generation waits, is being sent, is sent or in doubt; the one
request is made while it is being sent. `DispatchQueue` implements it through
`Promise`: the submission state is renamed by `Phase`, `sends` is `posts`.

### Runs

`InteractiveRun` keeps the run rows, the members' statuses, three readers (browser
timer, worker callback, cancel handler) and a handler that queues a direct request: of a
generate button, which asks for an active run under the admission lock (`AdmitDirect`),
or a batch, a retry or an upscale, which does not (`AdmitOther`). A reader takes the
row, then each member's status, then writes what it concluded: `Read` is one step of any
reader. `Start`, `RequestCancel`, `CancelOne`, `Cancelled`, `RefreshSizes`,
`EnqueueDirect`, `Poll` are the handlers; `Claim`, `Finish` and `FinishDirect` the
queue. The queue is reduced to what a reader sees, served in order by one worker; the
failure path next to the full queue is `FailedRunStops` in `DispatchQueue`.

### Outputs

In `GenerationOutput` the worker and the recovery pass finish the same prompt
(`Finishing`: fetch, link the file, complete in one transaction), then they, the
history's maintenance and the Drive worker write sidecar and thumbnails (`Writing`:
look, write the file, add the row). An image's name is a free number of its day, or
fixed when the request has no `client_local_date`. A thumbnail is repaired by type,
as in the code; the loser of a race leaves its files behind, which nothing reads.

### Drive sync

`record`, `jobs` and `mjobs` are the three tables, `files` and `published` what the
remotes hold. `Complete` ends a generation, `ClientStep` is a step of a caller that
enqueues, retries or resyncs, `WorkerStep` one step of the worker's loop (reconcile,
claim, verify, copy one item, save, close, manifest), `WReconcile` the end of a lease, `WBreaks` a
failing step, `Crash` a restart, possibly with another configured remote and on a
restored database. All generations end on one local date, so a destination has one
manifest. An empty remote name fails the job, as in the code.

### Model transfer

A `Version` stands for the identity of a remote file (hash, size, time). `Prepare`,
`CallerStep`, `Refused`, `StartRetry`, `Cancel` are the service's callers,
`WorkerStep` the download, verification, installation and outcome, `WBreaks` a
transaction that fails, `Stop` and `Restart` the process, `RestoreStep` the start-up
thread, `RemoteChanges` Google Drive. Left out: the recovery of an outcome that could
not be written within the same process, verification by size alone (a remote without
hashes), removal of orphaned temporary files, the limit of 500 jobs in a listing.

### Pod lifecycle

A readiness check reads each generation with its Drive record, transfers, and the
state sync. `Enqueue`, `Work`, `StartTransfer`, `EndTransfer`, `MarkDirty`, `Backup`
are what goes on, `Toggle` and `Press` the user, `CoordinatorStep` the coordinator's
poll, `ThreadStep` a thread in `drain_backup_and_terminate` (three checks, the
backup, the request, the DELETE, its answer or the end of waiting for it),
`StartupRestored` and `Restart` the process. Facts the model shows and no property
forbids: a restart while draining keeps new work blocked; after a restart no backup
is made until the next mutation; switching auto-termination off does not stop a drain
that has begun.

### State backup

The content of the database is the number of its last transaction, numbered afresh
even after a lost disk. `Commit` and `MarkDirty` are the two halves of a mutation;
`TimerFires`, `RequestBackup`, `WaiterLocks` lead into `BackupStep`, one step of
`_backup_once` (compare, body, metadata, pointer, record, settle), each upload of
which may fail with or without effect. `Close`, `Closed`, `Stop` are shutdown,
`Start` a process on the same disk or on a new pod, `Reconcile` and
`ReconcileFails` what follows a restore. An rclone child dies with its process; at
most one caller waits in `backup()` at a time. Of the stateless reconciliation only
when it runs and what a failure does is kept.

### Upscales, imports, presets

`Upscale`: choosers answer later than they are clicked (`Choose`, `Answer`, `Clear`), a
click captures the form (`Click`, `Enqueue`), the worker verifies again (`Start`), reads
the file a second time for the upload (`ReadSource`; `read_verified` of an import does
the same) and validates the result (`Preflight` to `Finish`, `Reconcile`, `Retry`);
source files change at any time (`FileChanges`). Sizes are computed exactly: the code
multiplies floats, so a product may be carried one step of 64 further up, and a size
given as a factor may then exceed the largest factor. `MetadataImport`: `Store`,
`Create`, `Cleanup` are an import; `SelectSource`, `ApplyMapping` read and `Save` writes
a row; `ApplyToForm` checks it against the capabilities. A source's content is one model
and whether the rest resolves; rows are saved whole, over whatever another handler made
of them. `PresetLibrary`: a handler takes tab and form at the click, reads in one
transaction and writes in another; the favourite's change event fires for programmatic
changes too (a favourite or an edit of another click in between is overwritten, and only
counts and deletions are claimed to survive), the confirmation's box stays ticked, and
"previous seed" becomes "fixed" when saved, as in the code.

## 3. What TLC checks

| Run | Instance | Shows |
|---|---|---|
| `queue_restart` | two generations, one restart, users and an operator | at most one POST; first in, first out; claims can be recovered; cancelled means stopped; a terminal state is final (1.4 million states) |
| `queue_legacy` | one quarantined row and one new row, one process, one fault | each submission in doubt can be resolved by the operator while the process lives (1 million) |
| `queue_served` | a run of two generations, one process, `FairSpec` | no row waits for ever; once one member has failed the other is finished or asked to stop (0.5 million) |
| `recovery` | one generation, one restart, one fault | `SubmitOnce` is implemented with the recovery pass running; it overturns nothing settled and ends nothing that still runs; a cancel request is answered |
| `pod_lifecycle` | one generation, coordinator and button, one failing save, one restart | one DELETE, only with nothing to lose, nothing started after it; draining ends; a quiet pod is terminated |
| `state_backup` | two transactions, three processes | pointer complete; clean means covered; nothing confirmed is lost; a mutation is backed up |
| `drive_sync` | one generation of one image, two remotes, two jobs, one fault, one restart | a synced record has its files at its remote; one job at a time works on it; the manifest lists it; each job ends (0.5 million) |
| `model_transfer` | one model, two versions, one fault, one restart | completed means the version is there; outcomes are final; transfers end; the restore decides, and says ready only with the files (0.5 million) |
| `interactive_run` | one run of two, one direct request, one fault, one restart | verdicts are true; requests of a generate button wait; runs end; progress settles (0.4 million) |
| `library` | imports, upscales, outputs and presets; `part` selects one | rows have their files; an upscale is as planned; completed outputs are whole; artifact rows match; an unclear import is applied as the user chose; edits undo nothing (1.4 million) |
| `claim_image_resettled`, `claim_mismatch_unconfirmed` | section 5 | a documented statement does not hold |

Bounds. `MaxRuns` bounds processes (2: one restart anywhere), `MaxFaults` or
`MaxTroubles` failed transactions, calls and refused requests together; the other
`Max...` bound jobs, requests, clicks or transactions. Claims, leases, polls and cancel
requests are unbounded. Two generations suffice for order, for batches, for a
failing and a waiting member of a run and for one row blocking another; one restart
for a stale claim or lease next to a live worker; two remotes for a job resumed at the
wrong one; two versions for a file that changes during its download; three
processes for a backup that is restored and then kept; two handlers for a stale read.
Symmetry is used in `queue_restart` only, which checks no liveness.

Larger instances without liveness pass too and are left out for their time:
`PodLifecycle` with two generations (1.2 million states) and with two users, `DriveSync`
with two images, two generations or two clients (5.7, 8.3 and 1.8 million),
`Library` with two imports and one editor (1.4 million). `InteractiveRun` passed with
two runs and with a batch of three (4 and 10 million) when the only direct requests were
those of a generate button.

Deadlock is checked in `queue_restart`, `queue_served`, `recovery` and
`pod_lifecycle`. Elsewhere a bounded system may stop: its jobs, requests, clicks or
transactions are used up and nothing is left to do.

### Fairness

- Queue: the worker thread keeps taking steps (`run` loops until it is stopped), its
  poll interval keeps elapsing, and leases expire. Nothing is assumed of users or of
  ComfyUI. `EveryRowIsServed` needs no more. `CancelIsAnsweredAnyway` also needs
  `ComfyUIAnswers` and no faults, which it states: an unreachable server leaves the
  request open, as the code intends.
- Pod: threads run, a dirty mark leads to a backup, and grace periods elapse when
  they are not interrupted again (strong fairness of `EndGrace`).
- Backup: timer and threads run; the remote accepts each kind of upload again and
  again (strong fairness), without which no retry helps.
- Drive sync and transfer: the worker thread and the start-up thread run while the
  process does, and leases end.
- Interactive runs: the browser's timer polls, handlers and the worker go on.
- Outputs: the worker reconciles what it finds, and what began goes on.

## 4. What is proved

Every safety invariant and every action property that a passing run checks is also
proved for every value of the constants that the last column of the table below
allows. Only liveness is left to TLC: it follows from fairness, which is about
`ENABLED`, and the prover does not reason about that.

The assumptions are the named ones that the modules declare: `PromptAssumption`,
`BoundAssumption`, `FiniteAssumption`, `BackupAssumption`, `LifecycleAssumption`,
`DriveAssumption`, `TransferAssumption`, `InteractiveAssumption` and, for the four
components of `Library`, `LibraryAssumption`. TLC evaluates all of them. They say that
bounds are numbers, that sets of names are finite or not empty, and that the markers
for "nothing" are not names. Four theorems assume more; the last column says what.

| Module | Theorem | Statement | Assumes also |
|---|---|---|---|
| `DispatchQueueProofs` | `TypeCorrect` | `Spec => []TypeOK` | |
| | `PostedOnce` | `Spec => []AtMostOnePost` | |
| | `LegacyStaysUnsent` | `Spec => []LegacyIsNeverSent` | |
| | `Refinement` | `Spec => KeepsPromise`: the queue implements `SubmitOnce` | |
| | `ClaimsRecoverable` | `Spec => []ClaimsAreRecoverable` | |
| | `TerminalFinal` | `Spec => TerminalIsFinal` | |
| | `PostsInOrder` | `Spec => PostInOrder` | |
| | `FailedRunEnds` | `Spec => []FailedRunStops` | |
| | `DoubtResolvable` | `Spec => []AmbiguousIsResolvable` | no restart (`MaxRuns <= 1`) |
| | `CancelledStopped` | `Spec => []CancelledMeansStopped` | no migrated row, no interactive run |
| | `RecoveryRefinement` | `RSpec => KeepsPromise`, the recovery pass running | |
| | `RecoveryClaims` | `RSpec => []ClaimsAreRecoverable` | |
| | `SettledStays` | `RSpec => SettledIsFinal` | |
| | `SparesRunning` | `RSpec => RecoverySparesRunning` | in executions with `[]PromptsAssigned` |
| | `SparesRunningUnlinked` | `RSpec => RecoverySparesRunning` | the operator enters no id of a new generation |
| `DriveSyncProofs` | `SyncedOnDrive` | `Spec => []SyncedIsOnDrive` | |
| | `OneJobActive` | `Spec => []OneActiveJob` | |
| | `ManifestsCurrent` | `Spec => []ManifestIsCurrent` | |
| `ModelTransferProofs` | `TypeCorrect` | `Spec => []TypeOK` | |
| | `ReadyPrepared` | `Spec => []ReadyMeansPrepared` | |
| | `CompletionsMatch` | `Spec => CompletionMatchesFile` | |
| | `TerminalsStay` | `Spec => TerminalStays` | |
| `InteractiveRunProofs` | `TypeCorrect` | `Spec => []TypeOK` | |
| | `VerdictTrue` | `Spec => []VerdictIsTrue` | |
| | `DirectlyWaits` | `Spec => DirectWaits` | |
| `GenerationOutputProofs` | `CompletedWhole` | `Spec => []CompletedIsWhole` | |
| | `RowsMatch` | `Spec => []RowsMatchFiles` | |
| `LibraryProofs` | `RowsHaveFiles` | `Spec => []RowHasFile` | |
| | `ChosenOnly` | `Spec => UnclearIsChosen` | |
| | `AsPlanned` | `Spec => []UpscaledAsPlanned` | |
| | `CompletedWhole` | `Spec => []CompletedIsWhole` | |
| | `RowsMatch` | `Spec => []RowsMatchFiles` | |
| | `NothingUndone` | `Spec => EditsUndoNothing` | |
| `StateBackupProofs` | `TypeCorrect` | `Spec => []TypeOK` | |
| | `PointerComplete` | `Spec => []PointerIsComplete` | |
| | `CleanCovered` | `Spec => []CleanMeansCovered` | |
| | `NothingLost` | `Spec => []NothingConfirmedIsLost` | |
| `PodLifecycleProofs` | `TypeCorrect` | `Spec => []TypeOK` | |
| | `DeleteOnce` | `Spec => []OneDelete` | |
| | `DeleteSafe` | `Spec => []DeleteIsSafe` | |
| | `NothingStarts` | `Spec => NoWorkAfterDelete` | |

Each module follows one plan. An inductive invariant, a conjunction of named parts, is
what the property needs and does not say. TLC checked each on an instance with faults
and restarts before its proof (50 thousand to 6.3 million states). One lemma per action
or handler shows what the step does to each part; relations between two states ("no
file goes away", "no lease is given") are named, so that the parts of an actor that did
not move follow from what the others can do.

**Queue, submissions.** `AtMostOnePost` is not inductive: nothing in it says that a row
about to be sent was never sent. `Inv` adds that a row whose request was made is no
longer `ready`; that a `ready` row has no prompt id; that rows with differing prompt ids, and
legacy rows, are not `ready`; and that a worker about to POST, or just past it, holds
a row whose count of requests is what its program counter says, unless another actor
moved the row to `ambiguous`. Lemmas first state what each row operation does to the
submission state, then sort the actions: those that leave every submission state
alone (`PlainStep`), and the few that do not, one lemma each. `StepMaps` reuses the
sorting for the refinement: a plain step is a stutter, each other step is a step of
`SubmitOnce`.

**Queue, rows.** `Base` adds `Rows` (what a row's claim, lease, cancel request and
submission state say together), `Handling` (what the worker's program counter says of
the row in its hands) and `Listed` (what its list of rows to look at still means).
`ClaimsRecoverable` and `TerminalFinal` follow. `Order` adds that nothing before the row on its
way out is free (`InLine`), which holds although rows in front may become ready
again, because the claim and the walk to the POST are those of one thread.
`RunInv` adds what a refresh of the failed run has seen (`Together`, `Dropping`).
`DoubtInv` says that a submission under way is in the hands of a living worker, which
writes the audit code when it gives up; a restart takes that worker away, and
`reconcile_expired_claims` then writes no code. This is why `DoubtResolvable` assumes
that there is no restart, and `claim_unresolvable` shows the state after one.
`StopInv` says of each row what is known of its prompt: `WorkerKnows` and `UiKnows`
keep what ComfyUI answered true until it is written. Two things break it, and they are
the hypotheses of `CancelledStopped`. A failed interactive run cancels on a stale
reading (`claim_cancelled_running`). A migrated row may be put back in doubt by a
mismatch while a cancellation is on its way: the first prompt is stopped, the
operator links the row to another one, and the late mark cancels the row while that
prompt runs. The first is a disagreement with the documentation (section 5); the second
needs an operator who acts while one cancellation is under way.

**Recovery.** `RBase` is `Base` for the larger system; `Recovering` says that the pass
holds a job of a row that began. The queue's lemmas are reused: a step of the pass is
one more plain step. `Looked` keeps ComfyUI's answer true until the pass acts on it. It
would not be kept if a row could hold a prompt id that is only assigned later, by an
operator who links it in advance; `PromptsAssigned` excludes those executions, and
`SparesRunningUnlinked` derives it when no id that the operator may enter is one that
ComfyUI gives to a generation of this queue.

**Drive.** `OnDrive` says that what a record counts as copied is at its own remote, and
`Calling` the same of the plan a caller has read. `InStep` is the heart: while
the worker holds its lease, nobody replans the record it copies for, so its copies
count for the right remote. `ManifestIsCurrent` needs that a manifest job is
followed by another one of its remote only when it is over (`InTurn`), that nothing
is synchronised while a manifest is published (`Publishing`), and that a record
outside the manifest has a job that is still open, a request on its way or a
warning (`Current`).

**Transfers.** `ReadyMeansPrepared` needs `Restoring`: a model that the start-up thread
has dealt with is known to be missing, is present, is being requested, or is waited for by a
job whose completion means that it is present. `Kept` says what a step may make of
a job, and `FilesStay` that no model file goes away.

**Runs.** A reader collects statuses one by one and concludes from readings of
different ages. `Knows` says which part of them is still true: of the generations
that had ended. The verdicts need no more than these, which is why they are true.

**Outputs.** `Stored` says that what a finisher has linked is on the disk in order and
that only its last file may be torn; files are never renamed or removed (`Kept`).
`RowsMatchFiles` holds although several writers race, because each of them
writes the content of the completed generation (`Right`).

**Imports, upscales, presets.** `InProgress` puts the image's file before its row.
`Decisive` says of the rows, and of those a handler is about to save over them, that a
candidate is the one of the recorded selection, and that a row whose sources are invalid
or disagree and that has no selection still says that a file is invalid, or has no
candidate; so no whole-row save, however stale, makes `UnclearIsChosen` false.
`UpscalesInv` says that the source in the worker's hands is the registered one until it
is read, unless it changed since its verification (`late`), and ties the job's
target to the limits; its lemmas are about the rounding to 64. `TableKept` says that
a deleted preset's number is spent and that counts only grow, against a handler that
writes what it read earlier. The theorems are proved for each component's own
specification first (`ImportsHaveFiles`, `ImportsChosen`, `UpscalesPlanned`,
`PresetsUndoNothing`); `OneComponent` then carries them, and those of
`GenerationOutputProofs`, over to `Library`, which the run checks.

**Backup.** The pointer may run ahead of what the process recorded, when an upload
succeeded and its answer was lost, so no property is inductive alone. `Inv` orders what
there is: the pointer is at most the disk and the disk at most the latest transaction
(`Contents`); the files of the backup in progress are there as far as its program
counter says (`Uploads`); its snapshot is no older than the pointer and covers the
version read before it (`Snapshots`); the recorded hash and version are of something
the pointer covers (`Backups`); what was promised is at most the pointer (`Promises`).
One lemma per kind of step preserves the parts, and each theorem is then a
consequence.

**Pod.** `Requests` says that a request not known to be refused is counted once and
leaves the session requesting or ambiguous, with at most one thread at the DELETE.
`Reliable(t)` says what thread `t` may rely on after each of its checks as long as
the gate has been closed since it began to drain. The argument is rely and
guarantee: `GateHolds` shows that, with the gate closed, no step of another thread
undoes what a check has seen; `StepReliable` adds the thread's own steps.
`NothingStarts` is an action property proved from `Requests`.

Model-checked only: `EveryRowIsServed`, `CancelIsAnsweredAnyway`, `DrainingEnds`,
`QuietPodIsTerminated`, `DirtyIsBackedUp`, `EveryJobEnds`, `EveryTransferEnds`,
`RestoreDecides`, `RunEnds` and `ProgressSettles`, which are liveness, and the
counterexamples of section 5.

## 5. Disagreements between code and documentation

Two are runs of their own:

- `claim_image_resettled`: a generation whose request has no `client_local_date`
  names its images by time and id. A process that ends between the link of such a
  file and the completion leaves a name that is taken; `store_image` then refuses each
  time and no reconciliation ever settles the generation, where `src/README.md:25`
  calls completion idempotent. Two images of one such prompt collide alike.
- `claim_mismatch_unconfirmed`: choosing the PNG prompt drops the hash-mismatch
  warning (`services/metadata_import_service.py:272`); choosing the sidecar
  afterwards asks for no confirmation, where `src/README.md:502` requires one.

The others have a configuration each, to be run by hand with the module in
brackets; TLC finds a counterexample in each:

- `claim_cancelled_running` [`MCDispatchQueue`]: the poll of a failed interactive run
  reads a generation as unstarted and cancels it while the worker claims and posts it;
  it is `cancelled` while ComfyUI runs it. `src/README.md:31` allows `cancelled` only
  after the stop was confirmed.
- `claim_failed_requeued` [`MCHistoryRecovery`]: the recovery pass fails a row that is
  being submitted, and `mark_submitted`, which looks at no status, makes it `queued`
  again.
- `claim_failed_running` [`MCDispatchQueue`]: a time-out or an unreachable server after
  submission fails a generation whose prompt still runs
  (`src/DEVELOPMENT_PLAN.md:16` keeps such rows).
- `claim_unresolvable` [`MCDispatchQueue`]: a crash while sending leaves a row that is
  `ambiguous` without an audit code; both manual resolutions of `src/README.md:8`
  refuse it.
- `claim_interrupted_failed` [`MCDispatchQueue`]: a prompt interrupted in ComfyUI is
  not recognised by the worker's history poll and ends `failed`, where
  `src/README.md:31` says cancelled.
- `claim_waiting_failed` [`MCHistoryRecovery`]: the recovery pass fails rows that merely
  wait longer than `stale_pending_seconds`, with a message that the work before
  sending stalled.
- `claim_delete_unsafe` [`MCPodLifecycle`]: `services/pod_lifecycle_service.py:347`
  authorises the DELETE by a fresh check at the final boundary. Between that check and
  the request another thread's failing check may reopen the pod, work be admitted and
  a further press begin to drain again; the first thread's request then goes out on its
  older check. `DeleteIsSafe` has that proviso.
- `claim_preview_upscaled` [`MCUpscale`]: the result tab's upscale button shows the
  generation as the parent but leaves the import id set, and the import is upscaled
  (`ui/app_builder.py:2816`; `src/README.md:476`).
- `claim_upscale_unverified` [`MCUpscale`]: the worker verifies a source and then reads it
  again (`services/generation_service.py:907`,
  `adapters/storage/imported_image_storage.py:166`), and nothing compares what the
  second reading returns. A file that changes in between is uploaded, where
  `src/README.md:506` says that a changed source is not. `UpscaledAsPlanned` has that
  proviso.
- `claim_direct_into_run` [`MCInteractiveRun`]: the guard of
  `services/interactive_generation_service.py:140` rejects generations "while an
  interactive run owns the queue", but only `enqueue` is given it. `retry`,
  `retry_failed_batch`, `enqueue_batch` and the upscale enqueue take the admission lock
  and ask for no run (`services/generation_queue_service.py:341`, `:369`, `:155`,
  `services/upscale_enqueue_service.py:445`, `:540`). `DirectWaits` is about `enqueue`.
- `claim_restore_unreconciled` [`MCStateBackup`]: a process that ends between the
  restore and the reconciliation leaves a database that the next process takes for its
  own; the workers run on unreconciled rows
  (`generation_dispatch_queue_repository.py:1328`).
- `claim_resync_unconfirmed` [`MCDriveSync`]: two retries read a failed record; the
  first is saved and the worker synchronises the record before the second is saved,
  which resets the synced record without the confirmation that the message at
  `services/drive_sync_service.py:209` asks for.

## 6. Not modelled, and what is left

Not modelled, because no property of several actors is at stake: the LoRA catalogue
(reads of a directory and a usage counter), forms and recent settings (one row,
overwritten whole), history, search and differences (read-only), preflight and
health (read-only), workflow building (a pure translation whose tests compare whole
graphs), rendering. Also left out: the older `generate()` and direct upscale paths that
do not use the queue, listings and counts, path and option checks, and what the
stateless reconciliation does to single rows.

Left, in this order:

1. Torn transactions of the queue as a refinement of its atomic steps.
2. Proofs: weaker hypotheses for `CancelledStopped` (a run that cancels only what no
   worker can claim, a migrated row that nobody links twice), and an abstract
   specification of the runs that `InteractiveRun` implements.
3. Row by row, the stateless reconciliation, composed with `DispatchQueue`.

----------------------------- MODULE DriveSync -----------------------------
(***************************************************************************)
(* The upload of finished generations to Google Drive: the sync records    *)
(* and jobs of DriveSyncRepository, the callers of DriveSyncService that   *)
(* enqueue and retry, the one DriveSyncWorker that copies the files with   *)
(* rclone, and the manifest of a destination, which a job of its own       *)
(* rebuilds from the synced records.                                       *)
(*                                                                         *)
(* All generations here end on one local date, so a destination has one    *)
(* manifest.  A method of the repository is one transaction.               *)
(***************************************************************************)
EXTENDS Integers, FiniteSets, Sequences

CONSTANTS Gen,          \* generations
          ImageCount,   \* images of each
          Dest,         \* configured remotes
          NoDest,       \* rclone_remote is empty
          Client,       \* threads that call the service: the queue worker, the UI
          MaxJobs,      \* bound: sync jobs, and manifest jobs when a user asks for one
          MaxRuns,      \* bound: processes started
          MaxFaults     \* bound: failed copies, refused requests, failed saves

ASSUME DriveAssumption ==
    /\ IsFiniteSet(Gen) /\ ImageCount \in [Gen -> Nat \ {0}]
    /\ IsFiniteSet(Dest) /\ NoDest \notin Dest
    /\ MaxJobs \in Nat /\ MaxRuns \in Nat /\ MaxFaults \in Nat

VARIABLES
  config,     \* the destination of this process
  source,     \* each generation's local files
  sidecar,    \* generations with a metadata artifact
  record,     \* drive_sync_records
  jobs,       \* drive_sync_jobs in queue order
  mjobs,      \* drive_manifest_jobs in queue order
  files,      \* external: the files on the remotes
  published,  \* external: the generations each remote's manifest lists
  w,          \* the worker thread
  client,     \* the callers
  orphaned,   \* history: synced generations whose manifest request was lost
  run,        \* processes started so far
  faults      \* faults so far

vars == <<config, source, sidecar, record, jobs, mjobs, files, published, w,
          client, orphaned, run, faults>>

local == <<config, source>>
remote == <<files, published>>
history == <<orphaned, run>>

-----------------------------------------------------------------------------
(* Plans, records and jobs.                                                 *)

Status == {"pending", "syncing", "synced", "failed"}
Active == {"pending", "syncing"}

Image(i) == <<"image", i>>
Meta(i) == <<"metadata", i>>

\* image_synced and metadata_synced of a plan's artifacts.
Items(g) == {Image(i) : i \in 1 .. ImageCount[g]} \union {Meta(i) : i \in 1 .. ImageCount[g]}
AllItems == UNION {Items(g) : g \in Gen}

\* The images have a file each, their metadata share one.
FileOf(item) == IF item[1] = "image" THEN item ELSE Meta(1)

Remote == Dest \union {NoDest}

Plan == [dest : Remote, meta : BOOLEAN, done : SUBSET AllItems]

RecordState == [status : Status \union {"none"}, dest : Remote, meta : BOOLEAN,
                done : SUBSET AllItems, warned : BOOLEAN]

\* owner is the process of the worker that leased the job, 0 without a lease.
JobState == [gen : Gen, status : Status, owner : Nat, meta : BOOLEAN, done : SUBSET AllItems]

ManifestState == [dest : Remote, status : Status, owner : Nat, retryable : BOOLEAN]

NoRecord == [status |-> "none", dest |-> NoDest, meta |-> FALSE, done |-> {}, warned |-> FALSE]

PlannedRecord(p) == [status |-> "pending", dest |-> p.dest, meta |-> p.meta,
                     done |-> p.done, warned |-> FALSE]

NewJob(g, p) == [gen |-> g, status |-> "pending", owner |-> 0, meta |-> p.meta, done |-> p.done]

\* What an earlier attempt has already copied to the same place.
WrongResumed(r, d, m, resync) ==
    {i \in r.done : ~resync /\ (i[1] = "image" \/ (m /\ r.meta))}

Resumed(r, d, m, resync) ==
    {i \in r.done : ~resync /\ r.dest = d /\ (i[1] = "image" \/ (m /\ r.meta))}

MakePlan(r, m, resync) == [dest |-> config, meta |-> m, done |-> Resumed(r, config, m, resync)]

ActiveJobs(g) == {j \in DOMAIN jobs : jobs[j].gen = g /\ jobs[j].status \in Active}

\* _artifacts_with_repair: a missing sidecar may be rebuilt on the way.
SidecarRead(g, m) == m \in (IF g \in sidecar THEN {TRUE} ELSE BOOLEAN)

Repaired(g, m) == sidecar' = IF m THEN sidecar \union {g} ELSE sidecar

-----------------------------------------------------------------------------
(* The transactions on the two tables.                                      *)

Closed(j) == [j EXCEPT !.status = "failed", !.owner = 0]

\* mark_failed; the record follows unless it is synced by now.
FailJob(j) ==
    IF record[jobs[j].gen].status = "synced" \/ jobs[j].status = "synced"
    THEN UNCHANGED <<record, jobs>>
    ELSE /\ jobs' = [jobs EXCEPT ![j] = Closed(@)]
         /\ record' = [record EXCEPT ![jobs[j].gen] =
                           [@ EXCEPT !.status = "failed", !.warned = FALSE]]

\* mark_artifact_synced, for a job whose lease is held.
MarkItem(j, item) ==
    /\ jobs' = [jobs EXCEPT ![j].done = @ \union {item}]
    /\ record' = [record EXCEPT ![jobs[j].gen].done = @ \union {item}]

\* mark_synced: the record takes over the job's items.
WrongCloseJob(j) ==
    /\ jobs' = [jobs EXCEPT ![j] = [@ EXCEPT !.owner = 0]]
    /\ record' = [record EXCEPT ![jobs[j].gen] =
                      [@ EXCEPT !.status = "synced", !.done = jobs[j].done, !.warned = FALSE]]

CloseJob(j) ==
    /\ jobs' = [jobs EXCEPT ![j] = [@ EXCEPT !.status = "synced", !.owner = 0]]
    /\ record' = [record EXCEPT ![jobs[j].gen] =
                      [@ EXCEPT !.status = "synced", !.done = jobs[j].done, !.warned = FALSE]]

ManifestJobs(d) == {j \in DOMAIN mjobs : mjobs[j].dest = d}

\* manifest_state_for_destination: an active job outweighs the latest.
ManifestOf(d) ==
    LET mine == ManifestJobs(d)
        active == {j \in mine : mjobs[j].status \in Active}
        last(S) == CHOOSE j \in S : \A k \in S : k <= j
    IN IF mine = {} THEN "missing"
       ELSE mjobs[last(IF active # {} THEN active ELSE mine)].status

\* enqueue_manifest: an active job of the destination answers the request.
WrongRequestManifest(d) ==
    IF ManifestJobs(d) # {} THEN UNCHANGED mjobs
    ELSE mjobs' = Append(mjobs, [dest |-> d, status |-> "pending", owner |-> 0,
                                 retryable |-> TRUE])

RequestManifest(d) ==
    IF ManifestOf(d) \in Active THEN UNCHANGED mjobs
    ELSE mjobs' = Append(mjobs, [dest |-> d, status |-> "pending", owner |-> 0,
                                 retryable |-> TRUE])

\* clear_manifest_warning and mark_manifest_warning_for_destination.
Warn(d, on) ==
    record' = [g \in Gen |-> IF record[g].status = "synced" /\ record[g].dest = d
                             THEN [record[g] EXCEPT !.warned = on] ELSE record[g]]

\* list_manifest_failure_targets.
FailureTargets ==
    {d \in Remote : \/ /\ ManifestJobs(d) # {}
                       /\ LET j == CHOOSE j \in ManifestJobs(d) :
                                       \A k \in ManifestJobs(d) : k <= j
                          IN mjobs[j].status = "failed" /\ mjobs[j].retryable
                    \/ \E g \in Gen : /\ record[g].status = "synced" /\ record[g].warned
                                      /\ record[g].dest = d}

\* reconcile_stale: the leases that have run out.
Reconcile(expired, mexpired) ==
    LET open == {j \in expired : record[jobs[j].gen].status # "synced"}
    IN /\ jobs' = [j \in DOMAIN jobs |-> IF j \in open THEN Closed(jobs[j]) ELSE jobs[j]]
       /\ record' = [g \in Gen |-> IF \E j \in open : jobs[j].gen = g
                                   THEN [record[g] EXCEPT !.status = "failed", !.warned = FALSE]
                                   ELSE record[g]]
       /\ mjobs' = [j \in DOMAIN mjobs |-> IF j \in mexpired THEN Closed(mjobs[j]) ELSE mjobs[j]]

\* reconcile_stateless_restore: nothing unfinished is resumed on a new Pod.
ReconcileRestored ==
    LET open == {j \in DOMAIN jobs : jobs[j].status \in Active}
    IN /\ jobs' = [j \in DOMAIN jobs |-> IF j \in open THEN Closed(jobs[j]) ELSE jobs[j]]
       /\ record' = [g \in Gen |-> IF /\ \E j \in open : jobs[j].gen = g
                                      /\ record[g].status # "synced"
                                   THEN [record[g] EXCEPT !.status = "failed", !.warned = FALSE]
                                   ELSE record[g]]
       /\ mjobs' = [j \in DOMAIN mjobs |->
                       IF mjobs[j].status \in Active
                       THEN [Closed(mjobs[j]) EXCEPT !.retryable = FALSE] ELSE mjobs[j]]

-----------------------------------------------------------------------------
(* The callers: enqueue_generation and retry_generation read the record,   *)
(* then write in a second transaction.                                     *)

IdleClient == [pc |-> "idle", gen |-> CHOOSE g \in Gen : TRUE,
               plan |-> [dest |-> NoDest, meta |-> FALSE, done |-> {}],
               resync |-> FALSE, job |-> 0]

\* The generation is completed and its files are stored, with a sidecar or without.
Complete(g) ==
    /\ source[g] = "none"
    /\ source' = [source EXCEPT ![g] = "local"]
    /\ \E m \in BOOLEAN : Repaired(g, m)
    /\ UNCHANGED <<config, record, jobs, mjobs, remote, w, client, history, faults>>

Begin(c, g, pc, resync) ==
    \E m \in BOOLEAN :
        /\ SidecarRead(g, m) /\ Repaired(g, m)
        /\ client' = [client EXCEPT ![c] =
               [pc |-> pc, gen |-> g, plan |-> MakePlan(record[g], m, resync),
                resync |-> resync, job |-> 0]]

StartEnqueue(c, g) ==
    /\ client[c].pc = "idle" /\ source[g] # "none"
    /\ record[g].status \in {"none", "failed"}
    /\ Begin(c, g, "enqueue", FALSE)
    /\ UNCHANGED <<local, record, jobs, mjobs, remote, w, history, faults>>

\* A synced generation needs a confirmed resync, and the manifest that lists it.
ResyncAllowed(g) == ~record[g].warned /\ ManifestOf(record[g].dest) = "synced"

StartRetry(c, g, resync) ==
    /\ client[c].pc = "idle" /\ source[g] # "none"
    /\ record[g].status \in {"failed", "synced"}
    /\ record[g].status = "synced" => resync /\ ResyncAllowed(g)
    /\ resync => source[g] = "local"
    /\ Begin(c, g, "retry", resync)
    /\ UNCHANGED <<local, record, jobs, mjobs, remote, w, history, faults>>

\* A saved job without metadata or remote is failed in a further transaction.
Saved(c, j) ==
    client' = [client EXCEPT ![c] =
                  IF j # 0 /\ (~client[c].plan.meta \/ config = NoDest)
                  THEN [@ EXCEPT !.pc = "fail", !.job = j] ELSE IdleClient]

\* DriveSyncRepository.enqueue: an existing record keeps its plan.
SaveEnqueue(c) ==
    LET g == client[c].gen
        p == client[c].plan
    IN /\ client[c].pc = "enqueue"
       /\ record' = IF record[g].status = "none" THEN [record EXCEPT ![g] = PlannedRecord(p)]
                    ELSE record
       /\ \/ \E j \in ActiveJobs(g) : Saved(c, j) /\ UNCHANGED jobs
          \/ /\ ActiveJobs(g) = {} /\ record[g].status = "synced"
             /\ Saved(c, 0) /\ UNCHANGED jobs
          \/ /\ ActiveJobs(g) = {} /\ record[g].status # "synced" /\ Len(jobs) < MaxJobs
             /\ jobs' = Append(jobs, NewJob(g, p))
             /\ Saved(c, Len(jobs) + 1)
       /\ UNCHANGED <<local, sidecar, mjobs, remote, w, history, faults>>

\* DriveSyncRepository.retry: a resync checks the manifest once more.
RetryAdmitted(g) == ActiveJobs(g) = {}

SaveRetry(c) ==
    LET g == client[c].gen
        p == client[c].plan
    IN /\ client[c].pc = "retry"
       /\ client[c].resync => record[g].status = "synced" /\ ResyncAllowed(g)
       /\ IF RetryAdmitted(g)
          THEN /\ Len(jobs) < MaxJobs
               /\ record' = [record EXCEPT ![g] = PlannedRecord(p)]
               /\ jobs' = Append(jobs, NewJob(g, p))
               /\ Saved(c, Len(jobs) + 1)
          ELSE /\ \E j \in ActiveJobs(g) : Saved(c, j)
               /\ UNCHANGED <<record, jobs>>
       /\ UNCHANGED <<local, sidecar, mjobs, remote, w, history, faults>>

\* The admission gate of a draining Pod, or a refused resync.
Refused(c) ==
    /\ client[c].pc \in {"enqueue", "retry"}
    /\ client' = [client EXCEPT ![c] = IdleClient]
    /\ UNCHANGED <<local, sidecar, record, jobs, mjobs, remote, w, history, faults>>

\* _mark_enqueued_failed: the job may have been claimed in the meantime.
FailEnqueued(c) ==
    /\ client[c].pc = "fail"
    /\ FailJob(client[c].job)
    /\ client' = [client EXCEPT ![c] = IdleClient]
    /\ UNCHANGED <<local, sidecar, mjobs, remote, w, history, faults>>

\* The manifest buttons: any date at the configured remote, or a failed target.
RebuildManifest ==
    \E d \in Dest :
        /\ d = config \/ d \in FailureTargets
        /\ Len(mjobs) < MaxJobs
        /\ RequestManifest(d)
        /\ UNCHANGED <<local, sidecar, record, jobs, remote, w, client, history, faults>>

-----------------------------------------------------------------------------
(* The worker: DriveSyncWorker.run_once and process_job.                    *)

Off == [pc |-> "off", job |-> 0, dest |-> NoDest, todo |-> {}, snap |-> {}]
Free == [Off EXCEPT !.pc = "idle"]

To(pc) == w' = [w EXCEPT !.pc = pc]

Owned == jobs[w.job].status = "syncing" /\ jobs[w.job].owner = run

\* Startup reconciles, then enqueues what has no record, as any caller may.
WStart ==
    /\ w.pc = "off"
    /\ w' = Free
    /\ UNCHANGED <<local, sidecar, record, jobs, mjobs, remote, client, history, faults>>

WrongLeased(js) == {j \in DOMAIN js : js[j].status = "syncing" /\ js[j].owner = run}

Leased(js) == {j \in DOMAIN js : js[j].status = "syncing"}

\* The idle worker renews no lease, so any of them may be over.
WReconcile ==
    /\ w.pc = "idle"
    /\ \E expired \in SUBSET Leased(jobs), mexpired \in SUBSET Leased(mjobs) :
          /\ expired # {} \/ mexpired # {}
          /\ Reconcile(expired, mexpired)
    /\ UNCHANGED <<local, sidecar, remote, w, client, history, faults>>

Pending == {j \in DOMAIN jobs : jobs[j].status = "pending"}
MPending == {j \in DOMAIN mjobs : mjobs[j].status = "pending"}
First(S) == CHOOSE j \in S : \A k \in S : j <= k

WClaim ==
    /\ w.pc = "idle" /\ Pending # {}
    /\ LET j == First(Pending)
       IN /\ jobs' = [jobs EXCEPT ![j] = [@ EXCEPT !.status = "syncing", !.owner = run]]
          /\ record' = [record EXCEPT ![jobs[j].gen] =
                            [@ EXCEPT !.status = "syncing", !.warned = FALSE]]
          /\ w' = [w EXCEPT !.pc = "verify", !.job = j]
    /\ UNCHANGED <<local, sidecar, mjobs, remote, client, history, faults>>

\* The images still to copy, and the metadata unless every image has it.
Steps(g, done) ==
    LET images == {Image(i) : i \in 1 .. ImageCount[g]}
        metas == {Meta(i) : i \in 1 .. ImageCount[g]}
    IN (images \ done) \union (IF metas \subseteq done THEN {} ELSE metas)

\* The images come first, each kind in the order of display.
NextOf(todo) ==
    LET images == {i \in todo : i[1] = "image"}
        due == IF images # {} THEN images ELSE todo
    IN CHOOSE item \in due : \A other \in due : item[2] <= other[2]

\* The sources are what the plan says, and the job's plan is the record's.
SourcesVerified(j, m) ==
    LET g == jobs[j].gen
    IN /\ source[g] = "local" /\ m
       /\ record[g].meta /\ jobs[j].meta
       /\ jobs[j].done = record[g].done

WVerify ==
    /\ w.pc = "verify"
    /\ LET g == jobs[w.job].gen
           todo == Steps(g, record[g].done)
       IN \E m \in BOOLEAN :
             /\ SidecarRead(g, m) /\ Repaired(g, m)
             /\ IF SourcesVerified(w.job, m)
                THEN w' = [w EXCEPT !.pc = IF todo = {} THEN "finish" ELSE "start",
                                    !.dest = record[g].dest, !.todo = todo]
                ELSE To("fail")
    /\ UNCHANGED <<local, record, jobs, mjobs, remote, client, history, faults>>

\* mark_process_started kills rclone when the lease is gone; a remote without a
\* name is no remote.
WStartCopy ==
    /\ w.pc = "start"
    /\ To(IF Owned /\ w.dest # NoDest THEN "copying" ELSE "fail")
    /\ UNCHANGED <<local, sidecar, record, jobs, mjobs, remote, client, history, faults>>

WCopy ==
    /\ w.pc = "copying"
    /\ files' = files \union {<<w.dest, jobs[w.job].gen, FileOf(NextOf(w.todo))>>}
    /\ To("mark")
    /\ UNCHANGED <<local, sidecar, record, jobs, mjobs, published, client, history, faults>>

\* The one metadata file is marked for every image in turn.
AfterMark(todo) ==
    IF todo = {} THEN "finish"
    ELSE IF NextOf(todo)[1] = "metadata" /\ NextOf(todo) # Meta(1) THEN "mark" ELSE "start"

WMark ==
    /\ w.pc = "mark"
    /\ IF Owned
       THEN LET rest == w.todo \ {NextOf(w.todo)}
            IN /\ MarkItem(w.job, NextOf(w.todo))
               /\ w' = [w EXCEPT !.todo = rest, !.pc = AfterMark(rest)]
       ELSE To("fail") /\ UNCHANGED <<record, jobs>>
    /\ UNCHANGED <<local, sidecar, mjobs, remote, client, history, faults>>

WFinish ==
    /\ w.pc = "finish"
    /\ IF Owned /\ jobs[w.job].done = Items(jobs[w.job].gen)
       THEN CloseJob(w.job) /\ To("request")
       ELSE To("fail") /\ UNCHANGED <<record, jobs>>
    /\ UNCHANGED <<local, sidecar, mjobs, remote, client, history, faults>>

\* mark_failed raises, and is ignored, when the lease is gone.
WFail ==
    /\ w.pc = "fail"
    /\ IF Owned THEN FailJob(w.job) ELSE UNCHANGED <<record, jobs>>
    /\ w' = Free
    /\ UNCHANGED <<local, sidecar, mjobs, remote, client, history, faults>>

\* The rebuild is requested after the commit, and a refusal leaves a warning.
WRequest ==
    /\ w.pc = "request"
    /\ RequestManifest(w.dest)
    /\ w' = Free
    /\ UNCHANGED <<local, sidecar, record, jobs, remote, client, history, faults>>

WWarn ==
    /\ w.pc = "warn"
    /\ LET g == jobs[w.job].gen
       IN record' = IF record[g].status = "synced"
                    THEN [record EXCEPT ![g] = [@ EXCEPT !.warned = TRUE]] ELSE record
    /\ w' = Free
    /\ UNCHANGED <<local, sidecar, jobs, mjobs, remote, client, history, faults>>

-----------------------------------------------------------------------------
(* The worker: _run_manifest_once and process_manifest_job.                 *)

WClaimManifest ==
    /\ w.pc = "idle" /\ Pending = {} /\ MPending # {}
    /\ LET j == First(MPending)
       IN /\ mjobs' = [mjobs EXCEPT ![j] = [@ EXCEPT !.status = "syncing", !.owner = run]]
          /\ w' = [w EXCEPT !.pc = "write", !.job = j, !.dest = mjobs[j].dest]
    /\ UNCHANGED <<local, sidecar, record, jobs, remote, client, history, faults>>

\* list_manifest_records: the rows a manifest is rebuilt from.
Listed(d) == {g \in Gen : record[g].status = "synced" /\ record[g].dest = d /\ record[g].meta}

WWriteManifest ==
    /\ w.pc = "write"
    /\ w' = [w EXCEPT !.pc = "upload", !.snap = Listed(w.dest)]
    /\ UNCHANGED <<local, sidecar, record, jobs, mjobs, remote, client, history, faults>>

WUploadManifest ==
    /\ w.pc = "upload"
    /\ published' = [published EXCEPT ![w.dest] = w.snap]
    /\ To("msync")
    /\ UNCHANGED <<local, sidecar, record, jobs, mjobs, files, client, history, faults>>

WCloseManifest ==
    /\ w.pc = "msync"
    /\ mjobs' = [mjobs EXCEPT ![w.job] = [@ EXCEPT !.status = "synced", !.owner = 0]]
    /\ To("mclear")
    /\ UNCHANGED <<local, sidecar, record, jobs, remote, client, history, faults>>

WClearWarning ==
    /\ w.pc = "mclear"
    /\ Warn(w.dest, FALSE)
    /\ w' = Free
    /\ UNCHANGED <<local, sidecar, jobs, mjobs, remote, client, history, faults>>

WFailManifest ==
    /\ w.pc = "mfail"
    /\ mjobs' = [mjobs EXCEPT ![w.job] = IF @.status = "synced" THEN @ ELSE Closed(@)]
    /\ To("mwarn")
    /\ UNCHANGED <<local, sidecar, record, jobs, remote, client, history, faults>>

WWarnAll ==
    /\ w.pc = "mwarn"
    /\ Warn(w.dest, TRUE)
    /\ w' = Free
    /\ UNCHANGED <<local, sidecar, jobs, mjobs, remote, client, history, faults>>

\* A step that raises: rclone fails or times out, the gate refuses the request, a
\* transaction fails.  Where it goes is the handler around it.
WBreaks ==
    /\ faults < MaxFaults /\ faults' = faults + 1
    /\ \/ w.pc \in {"verify", "start", "copying", "mark", "finish"} /\ To("fail")
       \/ w.pc = "request" /\ To("warn")
       \/ w.pc \in {"write", "upload", "msync", "mclear"} /\ To("mfail")
       \/ w.pc \in {"fail", "warn", "mfail", "mwarn"} /\ w' = Free
    /\ orphaned' = IF w.pc = "warn" THEN orphaned \union {jobs[w.job].gen} ELSE orphaned
    /\ UNCHANGED <<local, sidecar, record, jobs, mjobs, remote, client, run>>

-----------------------------------------------------------------------------
(* The process ends.  A later one may run elsewhere, with another remote,  *)
(* or on a new Pod that restored the database without the local files.     *)

Crash(restored) ==
    /\ run < MaxRuns /\ run' = run + 1
    /\ \E d \in Remote : config' = d
    /\ w' = Off
    /\ client' = [c \in Client |-> IdleClient]
    /\ orphaned' = IF w.pc \in {"request", "warn"}
                   THEN orphaned \union {jobs[w.job].gen} ELSE orphaned
    /\ IF restored
       THEN /\ source' = [g \in Gen |-> IF source[g] = "none" THEN "none" ELSE "lost"]
            /\ ReconcileRestored
       ELSE UNCHANGED <<source, record, jobs, mjobs>>
    /\ UNCHANGED <<sidecar, remote, faults>>

Init == /\ config \in Dest
        /\ source = [g \in Gen |-> "none"] /\ sidecar = {}
        /\ record = [g \in Gen |-> NoRecord] /\ jobs = <<>> /\ mjobs = <<>>
        /\ files = {} /\ published = [d \in Dest |-> {}]
        /\ w = Off /\ client = [c \in Client |-> IdleClient]
        /\ orphaned = {} /\ run = 1 /\ faults = 0

ClientStep(c) ==
    \/ \E g \in Gen : \/ StartEnqueue(c, g)
                      \/ \E resync \in BOOLEAN : StartRetry(c, g, resync)
    \/ SaveEnqueue(c) \/ SaveRetry(c) \/ Refused(c) \/ FailEnqueued(c)

WorkerStep ==
    \/ WStart \/ WClaim \/ WVerify \/ WStartCopy \/ WCopy \/ WMark \/ WFinish
    \/ WFail \/ WRequest \/ WWarn
    \/ WClaimManifest \/ WWriteManifest \/ WUploadManifest \/ WCloseManifest
    \/ WClearWarning \/ WFailManifest \/ WWarnAll

Next == \/ \E g \in Gen : Complete(g)
        \/ \E c \in Client : ClientStep(c)
        \/ RebuildManifest
        \/ WorkerStep \/ WReconcile \/ WBreaks
        \/ \E restored \in BOOLEAN : Crash(restored)

Spec == Init /\ [][Next]_vars

\* The worker thread runs while the process does, and leases end.
FairSpec == Spec /\ WF_vars(WorkerStep) /\ WF_vars(WReconcile)

-----------------------------------------------------------------------------
(* Properties.                                                              *)

TypeOK ==
    /\ config \in Remote
    /\ source \in [Gen -> {"none", "local", "lost"}] /\ sidecar \subseteq Gen
    /\ record \in [Gen -> RecordState]
    /\ jobs \in Seq(JobState) /\ mjobs \in Seq(ManifestState)
    /\ files \subseteq Dest \X Gen \X AllItems
    /\ published \in [Dest -> SUBSET Gen]
    /\ w.job \in Nat /\ w.dest \in Remote /\ w.todo \subseteq AllItems
    /\ orphaned \subseteq Gen /\ run \in Nat /\ faults \in 0 .. MaxFaults

\* What a record counts as copied is on its own remote, and a synced one has
\* everything there: not after a resume at another remote, not when a worker
\* whose job was failed by a caller goes on.
SyncedIsOnDrive ==
    \A g \in Gen : /\ \A item \in record[g].done :
                          <<record[g].dest, g, FileOf(item)>> \in files
                   /\ record[g].status = "synced" => record[g].done = Items(g)

\* A generation is worked on by one job at a time, and by none once it is synced,
\* so that a lease that ends is never skipped by reconcile_stale.
OneActiveJob ==
    \A g \in Gen : /\ Cardinality(ActiveJobs(g)) <= 1
                   /\ record[g].status = "synced" => ActiveJobs(g) = {}

\* A destination whose manifest state says "synced" (or was never requested) lists
\* each synced generation without a warning, except the one whose request is
\* being made or was lost with the process: what a resync relies on.
ManifestIsCurrent ==
    \A g \in Gen :
        \/ record[g].status # "synced" \/ record[g].warned \/ g \in orphaned
        \/ ManifestOf(record[g].dest) \in {"pending", "syncing", "failed"}
        \/ w.pc \in {"request", "warn"} /\ jobs[w.job].gen = g
        \/ g \in published[record[g].dest]

\* Every job ends, whatever fails on the way and whoever held its lease.
JobIn(j, S) == j \in DOMAIN jobs /\ jobs[j].status \in S

EveryJobEnds ==
    \A j \in 1 .. MaxJobs : JobIn(j, Active) ~> JobIn(j, {"synced", "failed"})

\* A claim of the service's error message: a synced generation is sent again only
\* after an explicit resync.
SyncedNeedsConfirmation ==
    [][\A g \in Gen : record[g].status = "synced" /\ record'[g].status # "synced"
           => \E c \in Client : client[c].pc = "retry" /\ client[c].gen = g
                                /\ client[c].resync]_vars
=============================================================================

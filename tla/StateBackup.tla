---------------------------- MODULE StateBackup ----------------------------
(***************************************************************************)
(* Backup of the application's SQLite database to a remote store, and its  *)
(* restore into a fresh Pod: the debounce timer, the callers who wait for  *)
(* a clean backup, the three uploads of one backup, and the start of a     *)
(* process, which restores only when no local database exists.             *)
(*                                                                         *)
(* The content of the database is the number of its last transaction;      *)
(* transactions are never numbered alike, not even after a loss of the     *)
(* disk.  The SHA-256 of a snapshot is that number, too.                   *)
(***************************************************************************)
EXTENDS Integers, FiniteSets

CONSTANTS MaxVersion,   \* bound: transactions committed
          MaxRuns,      \* bound: processes started
          None

ASSUME BackupAssumption == MaxVersion \in Nat /\ MaxRuns \in Nat /\ None \notin Nat

VARIABLES
  disk,      \* the local database: its content, or None on a fresh Pod
  top,       \* history: the latest content there ever was
  fresh,     \* history: restored from the remote, not yet reconciled
  owed,      \* transactions committed whose mark_dirty call is still to come
  marked,    \* history: the content at this process's last mark_dirty
  sync,      \* StateSyncService
  job,       \* the thread inside the backup lock, if any
  waiter,    \* a caller of backup(wait_for_clean=True)
  remote,    \* the files below the remote state directory
  promised,  \* history: the content last reported as backed up
  phase,     \* of the process
  run        \* processes started so far

vars == <<disk, top, fresh, owed, marked, sync, job, waiter, remote, promised, phase, run>>

service == <<sync, job, waiter>>

-----------------------------------------------------------------------------
Sync == [dirty  : Nat,                    \* mutations seen
         backed : Nat,                    \* the last of them a backup covers
         last   : Nat \union {None},      \* hash of the last backup
         status : {"idle", "running", "synced", "failed"},
         timer  : BOOLEAN,                \* the debounce timer is set
         closed : BOOLEAN]

Job == [pc   : {"idle", "locked", "compare", "body", "metadata", "pointer",
                "record", "view", "failed", "settle"},
        by   : {"timer", "waiter"},
        ver  : Nat,                       \* dirty version when the lock was taken
        snap : Nat,                       \* content of the snapshot
        ok   : BOOLEAN]

NoJob == [pc |-> "idle", by |-> "timer", ver |-> 0, snap |-> 0, ok |-> FALSE]

NewSync(hash) == [dirty |-> 0, backed |-> 0, last |-> hash, status |-> "idle",
                  timer |-> FALSE, closed |-> FALSE]

TypeOK == /\ disk \in Nat \union {None}
          /\ top \in Nat
          /\ fresh \in BOOLEAN
          /\ owed \in Nat
          /\ marked \in Nat
          /\ sync \in Sync
          /\ job \in Job
          /\ waiter \in {"idle", "waiting", "holding"}
          /\ remote \in [bodies : SUBSET Nat, metadata : SUBSET Nat,
                         pointer : Nat \union {None}]
          /\ promised \in Nat
          /\ phase \in {"down", "restored", "up", "closing"}
          /\ run \in Nat

Running == phase \in {"up", "closing"}

Init == /\ disk = None /\ top = 0 /\ fresh = FALSE /\ owed = 0 /\ marked = 0
        /\ sync = NewSync(None) /\ job = NoJob /\ waiter = "idle"
        /\ remote = [bodies |-> {}, metadata |-> {}, pointer |-> None]
        /\ promised = 0 /\ phase = "down" /\ run = 0

-----------------------------------------------------------------------------
(* Mutations: a repository commits, then a callback marks the state dirty.  *)

Transaction == /\ top < MaxVersion
               /\ top' = top + 1
               /\ disk' = top'

Commit == /\ Running
          /\ Transaction
          /\ owed' = owed + 1
          /\ UNCHANGED <<fresh, marked, service, remote, promised, phase, run>>

\* mark_dirty restarts the timer; a closed service ignores the call.
Marked(s) == IF s.closed THEN s
             ELSE [s EXCEPT !.dirty = s.dirty + 1, !.timer = TRUE]

MarkDirty == /\ Running /\ owed > 0
             /\ owed' = owed - 1
             /\ sync' = Marked(sync)
             /\ marked' = IF sync.closed THEN marked ELSE disk
             /\ UNCHANGED <<disk, top, fresh, job, waiter, remote, promised, phase, run>>

-----------------------------------------------------------------------------
(* Taking the lock.                                                         *)

Locked(by) == [NoJob EXCEPT !.pc = "locked", !.by = by, !.ver = sync.dirty]

\* _run_debounced_backup.  While the lock is held it only sets the timer again.
TimerFires == /\ Running /\ sync.timer /\ job.pc = "idle"
              /\ job' = Locked("timer")
              /\ sync' = [sync EXCEPT !.timer = FALSE, !.status = "running"]
              /\ UNCHANGED <<disk, top, fresh, owed, marked, waiter, remote, promised, phase, run>>

RequestBackup == /\ phase = "up" /\ waiter = "idle"
                 /\ waiter' = "waiting"
                 /\ UNCHANGED <<disk, top, fresh, owed, marked, sync, job, remote, promised, phase, run>>

WaiterLocks == /\ Running /\ waiter = "waiting" /\ job.pc = "idle"
               /\ job' = Locked("waiter")
               /\ waiter' = "holding"
               /\ sync' = [sync EXCEPT !.status = "running"]
               /\ UNCHANGED <<disk, top, fresh, owed, marked, remote, promised, phase, run>>

-----------------------------------------------------------------------------
(* _backup_once.                                                            *)

Fails == job' = [job EXCEPT !.pc = "failed"]

\* create_snapshot copies the live database as it is at one moment.
TakeSnapshot ==
    /\ job.pc = "locked"
    /\ \/ job' = [job EXCEPT !.pc = "compare", !.snap = disk]
       \/ Fails
    /\ UNCHANGED <<disk, top, fresh, owed, marked, sync, waiter, remote, promised, phase, run>>

CompareHash ==
    /\ job.pc = "compare"
    /\ job' = [job EXCEPT !.pc = IF job.snap = sync.last THEN "record" ELSE "body"]
    /\ UNCHANGED <<disk, top, fresh, owed, marked, sync, waiter, remote, promised, phase, run>>

Stored(file, snap) ==
    CASE file = "body"     -> [remote EXCEPT !.bodies = @ \union {snap}]
      [] file = "metadata" -> [remote EXCEPT !.metadata = @ \union {snap}]
      [] file = "pointer"  -> [remote EXCEPT !.pointer = snap]

WrongAfter(file) == CASE file = "body"     -> "pointer"
                      [] file = "pointer"  -> "metadata"
                      [] file = "metadata" -> "record"

\* The order of the uploads.
After(file) == CASE file = "body"     -> "metadata"
                 [] file = "metadata" -> "pointer"
                 [] file = "pointer"  -> "record"

\* One rclone copyto.  A failed or timed-out copy may have reached the remote.
Upload ==
    /\ job.pc \in {"body", "metadata", "pointer"}
    /\ \/ remote' = Stored(job.pc, job.snap) /\ job' = [job EXCEPT !.pc = After(job.pc)]
       \/ remote' \in {remote, Stored(job.pc, job.snap)} /\ Fails
    /\ UNCHANGED <<disk, top, fresh, owed, marked, sync, waiter, promised, phase, run>>

Larger(m, n) == IF m > n THEN m ELSE n

WrongCovered == sync.dirty

\* A backup covers the mutations seen when the lock was taken.
Covered == Larger(sync.backed, job.ver)

RecordSuccess ==
    /\ job.pc = "record"
    /\ sync' = [sync EXCEPT !.last = job.snap, !.backed = Covered]
    /\ job' = [job EXCEPT !.pc = "view", !.ok = TRUE]
    /\ UNCHANGED <<disk, top, fresh, owed, marked, waiter, remote, promised, phase, run>>

\* What readiness asks of the service: is_clean and has_latest_remote_backup.
Clean(s) == s.backed >= s.dirty /\ s.last # None /\ s.status = "synced"

SetViewSynced ==
    /\ job.pc = "view"
    /\ sync' = [sync EXCEPT !.status = "synced"]
    /\ promised' = IF Clean(sync') THEN Larger(promised, marked) ELSE promised
    /\ job' = [job EXCEPT !.pc = "settle"]
    /\ UNCHANGED <<disk, top, fresh, owed, marked, waiter, remote, phase, run>>

SetViewFailed ==
    /\ job.pc = "failed"
    /\ sync' = [sync EXCEPT !.status = "failed"]
    /\ job' = [job EXCEPT !.pc = "settle"]
    /\ UNCHANGED <<disk, top, fresh, owed, marked, waiter, remote, promised, phase, run>>

WrongFollowUp == job.by = "timer" /\ job.ok /\ sync.backed < sync.dirty

\* A debounced backup that failed, or did not cover everything, sets the timer.
FollowUp == job.by = "timer" /\ (~job.ok \/ sync.backed < sync.dirty)

\* Follow-up and release of the lock; a waiting caller returns when its backup
\* failed or left nothing dirty, else it tries again.
Settle ==
    /\ job.pc = "settle"
    /\ sync' = [sync EXCEPT !.timer = sync.timer \/ (FollowUp /\ ~sync.closed)]
    /\ waiter' = IF job.by = "timer" THEN waiter
                 ELSE IF job.ok /\ sync.backed < sync.dirty THEN "waiting" ELSE "idle"
    /\ job' = NoJob
    /\ UNCHANGED <<disk, top, fresh, owed, marked, remote, promised, phase, run>>

-----------------------------------------------------------------------------
(* Start, stop and loss of the process.                                     *)

\* close() cancels the timer and flushes through backup().
Close == /\ phase = "up" /\ waiter = "idle"
         /\ phase' = "closing"
         /\ sync' = [sync EXCEPT !.timer = FALSE]
         /\ waiter' = IF sync.dirty > sync.backed THEN "waiting" ELSE "idle"
         /\ UNCHANGED <<disk, top, fresh, owed, marked, job, remote, promised, run>>

Closed == /\ phase = "closing" /\ waiter = "idle" /\ ~sync.closed
          /\ sync' = [sync EXCEPT !.closed = TRUE, !.timer = FALSE]
          /\ UNCHANGED <<disk, top, fresh, owed, marked, job, waiter, remote, promised, phase, run>>

\* The process ends, and its Pod with it or not.
Stop == /\ phase # "down" /\ run < MaxRuns
        /\ phase' = "down"
        /\ disk' \in {disk, None}
        /\ fresh' = (fresh /\ disk' # None)
        /\ owed' = 0 /\ marked' = 0
        /\ sync' = NewSync(None) /\ job' = NoJob /\ waiter' = "idle"
        /\ UNCHANGED <<top, remote, promised, run>>

\* _read_pointer and the size, hash and integrity checks of the body.
Restorable(p) == p \in remote.bodies

WrongNoBackup == TRUE

\* StateRestoreStatus.NO_BACKUP: the remote answers, and has no latest.json.
NoBackup == remote.pointer = None

\* restore_if_missing.  When the remote cannot be read, or the backup is not
\* what the pointer says, main() raises and the process does not start.
Start ==
    /\ phase = "down"
    /\ run' = run + 1
    /\ CASE disk # None ->
              /\ phase' = "up" /\ UNCHANGED <<disk, fresh, sync>>
         [] disk = None /\ NoBackup ->
              /\ phase' = "up" /\ disk' = 0 /\ UNCHANGED <<fresh, sync>>
         [] disk = None /\ remote.pointer # None ->
              /\ Restorable(remote.pointer)
              /\ phase' = "restored" /\ disk' = remote.pointer /\ fresh' = TRUE
              /\ sync' = NewSync(remote.pointer)
    /\ UNCHANGED <<top, owed, marked, job, waiter, remote, promised>>

\* StatelessReconciliationService.reconcile before the workers start: unfinished
\* work of the restored database is failed, and marked dirty when there was any.
Reconcile ==
    /\ phase = "restored"
    /\ phase' = "up" /\ fresh' = FALSE
    /\ \/ UNCHANGED <<disk, top, marked, sync>>
       \/ /\ Transaction /\ marked' = disk'
          /\ sync' = Marked(sync)
    /\ UNCHANGED <<owed, job, waiter, remote, promised, run>>

\* One of the repositories fails: the workers are not started.
ReconcileFails ==
    /\ phase = "restored" /\ run < MaxRuns
    /\ phase' = "down"
    /\ Transaction \/ UNCHANGED <<disk, top>>
    /\ sync' = NewSync(None)
    /\ UNCHANGED <<fresh, owed, marked, job, waiter, remote, promised, run>>

-----------------------------------------------------------------------------
BackupStep == \/ TakeSnapshot \/ CompareHash \/ Upload \/ RecordSuccess
              \/ SetViewSynced \/ SetViewFailed \/ Settle

Next == \/ Commit \/ MarkDirty
        \/ TimerFires \/ RequestBackup \/ WaiterLocks
        \/ BackupStep
        \/ Close \/ Closed \/ Stop
        \/ Start \/ Reconcile \/ ReconcileFails

Spec == Init /\ [][Next]_vars

\* The remote accepts each of the files again and again; the timer and the
\* threads run.
Succeeds(pc) == job.pc = pc /\ BackupStep /\ job'.pc # "failed"

Fairness == /\ \A pc \in {"locked", "body", "metadata", "pointer"} : SF_vars(Succeeds(pc))
            /\ WF_vars(BackupStep)
            /\ WF_vars(TimerFires)
            /\ WF_vars(WaiterLocks)

FairSpec == Spec /\ Fairness

-----------------------------------------------------------------------------
(* Properties.                                                              *)

\* The pointer latest.json names a backup whose body and metadata are on the
\* remote, after every failed, half-delivered or interrupted upload
\* (_backup_once uploads the pointer last).
PointerIsComplete ==
    remote.pointer # None => remote.pointer \in remote.bodies \intersect remote.metadata

\* When the service reports a clean, backed-up state, the backup the pointer
\* names contains every transaction that was marked dirty in this process
\* (the version is read before the snapshot is taken).
CleanMeansCovered ==
    Running /\ Clean(sync) /\ sync.dirty > 0 => remote.pointer # None /\ remote.pointer >= marked

\* What was once reported as backed up is in the database of every later
\* process, whether its Pod kept the disk or restored from the pointer.
NothingConfirmedIsLost == phase # "down" => disk >= promised

\* A mutation is backed up eventually, without another mutation and without a
\* caller, unless the process stops (the follow-up timer of _backup_once).
DirtyIsBackedUp == (phase = "up" /\ sync.backed < sync.dirty)
                      ~> (phase # "up" \/ sync.backed >= sync.dirty)

\* Work restored into a fresh Pod is reconciled before workers may run on it
\* (stated by reconcile_stateless_restore: a new Pod never resends an old prompt).
RestoredWorkIsReconciled == phase = "up" => ~fresh

=============================================================================

------------------------- MODULE StateBackupProofs -------------------------
(***************************************************************************)
(* Proofs about StateBackup: the backup that latest.json names is complete *)
(* and covers what the service reports as clean, and no later process      *)
(* starts from less than what was once reported as backed up.              *)
(***************************************************************************)
EXTENDS StateBackup, TLAPS

pointer == remote.pointer

HasSnapshot == {"compare", "body", "metadata", "pointer", "record"}

\* Nothing is dirty, and no backup runs, before the workers of a process start.
Phases == /\ phase # "down" => disk # None
          /\ ~Running => job = NoJob /\ marked = 0 /\ sync.dirty = 0 /\ ~sync.closed

\* The pointer never names a content that is newer than the disk.
Contents == /\ disk # None => disk <= top /\ marked <= disk
            /\ pointer # None => /\ pointer <= top
                                 /\ disk # None => pointer <= disk

\* Each upload follows the one it relies on.
Uploads == /\ PointerIsComplete
           /\ job.pc \in {"metadata", "pointer"} => job.snap \in remote.bodies
           /\ job.pc = "pointer" => job.snap \in remote.metadata

\* A snapshot is no older than the pointer, and contains what its version counts.
Snapshots == /\ job.pc \in HasSnapshot =>
                   /\ job.snap <= disk
                   /\ pointer # None => pointer <= job.snap
                   /\ job.ver = sync.dirty => marked <= job.snap
             /\ job.pc = "record" => pointer # None /\ job.snap <= pointer

\* What the service believes to be backed up is behind the pointer.
Backups == /\ job.ver <= sync.dirty /\ sync.backed <= sync.dirty
           /\ sync.dirty = 0 => marked = 0
           /\ sync.last # None => pointer # None /\ sync.last <= pointer
           /\ sync.backed = sync.dirty /\ sync.dirty > 0 => pointer # None /\ marked <= pointer

Promises == promised > 0 => pointer # None /\ promised <= pointer

Inv == TypeOK /\ Phases /\ Contents /\ Uploads /\ Snapshots /\ Backups /\ Promises

USE BackupAssumption

-----------------------------------------------------------------------------
(* Types.                                                                   *)

\* The fields of the records, which the steps below compare.
LEMMA Fields ==
  ASSUME TypeOK
  PROVE  /\ sync.dirty \in Nat /\ sync.backed \in Nat /\ sync.last \in Nat \union {None}
         /\ job.ver \in Nat /\ job.snap \in Nat
         /\ pointer \in Nat \union {None}
BY DEF TypeOK, Sync, Job, pointer

\* mark_dirty and the constructor of the service return well-formed states.
LEMMA SyncTypes ==
  /\ \A s \in Sync : Marked(s) \in Sync
  /\ \A hash \in Nat \union {None} : NewSync(hash) \in Sync
<1>1. ASSUME NEW s \in Sync PROVE Marked(s) \in Sync
  <2>1. s.dirty + 1 \in Nat
    BY DEF Sync
  <2>2. [s EXCEPT !.dirty = s.dirty + 1, !.timer = TRUE] \in Sync
    BY <2>1 DEF Sync
  <2>3. QED
    BY <2>2 DEF Marked
<1>2. ASSUME NEW hash \in Nat \union {None} PROVE NewSync(hash) \in Sync
  BY DEF NewSync, Sync
<1>3. QED
  BY <1>1, <1>2

\* The three ways a process may start.
LEMMA StartCases ==
  ASSUME Start
  PROVE  /\ phase = "down" /\ run' = run + 1
         /\ UNCHANGED <<top, owed, marked, job, waiter, remote, promised>>
         /\ \/ disk # None /\ phase' = "up" /\ UNCHANGED <<disk, fresh, sync>>
            \/ /\ disk = None /\ pointer = None
               /\ phase' = "up" /\ disk' = 0 /\ UNCHANGED <<fresh, sync>>
            \/ /\ disk = None /\ pointer # None /\ pointer \in remote.bodies
               /\ phase' = "restored" /\ disk' = pointer /\ fresh' = TRUE
               /\ sync' = NewSync(pointer)
<1>1. CASE disk # None
  BY <1>1 DEF Start
<1>2. CASE disk = None /\ pointer = None
  BY <1>2 DEF Start, NoBackup, pointer
<1>3. CASE disk = None /\ pointer # None
  BY <1>3 DEF Start, NoBackup, Restorable, pointer
<1>4. QED
  BY <1>1, <1>2, <1>3

\* A backup runs only in a process that has a database.
LEMMA RunningHasDisk ==
  ASSUME TypeOK, Phases
  PROVE  /\ job.pc # "idle" => Running
         /\ phase # "down" => disk \in Nat
         /\ Running => disk \in Nat
<1>1. job.pc # "idle" => Running
  <2>1. SUFFICES ASSUME ~Running PROVE job.pc = "idle"
    OBVIOUS
  <2>2. job = NoJob
    BY <2>1 DEF Phases
  <2>3. QED
    BY <2>2 DEF NoJob
<1>2. QED
  BY <1>1 DEF TypeOK, Phases, Running

\* Every step keeps the types; a snapshot is taken of a database that is there.
LEMMA StepTypes == Inv /\ [Next]_vars => TypeOK'
<1> SUFFICES ASSUME Inv, [Next]_vars PROVE TypeOK'
  OBVIOUS
<1> USE DEF Inv
<1>0. /\ job.pc # "idle" => disk \in Nat
      /\ phase # "down" => disk \in Nat
      /\ Running => disk \in Nat
  BY RunningHasDisk
<1>1. CASE Commit
  BY <1>1 DEF TypeOK, Commit, Transaction, service
<1>2. CASE MarkDirty
  BY <1>2, <1>0, SyncTypes DEF TypeOK, MarkDirty
<1>3. CASE TimerFires
  <2>1. sync' \in Sync
    BY <1>3 DEF TypeOK, TimerFires, Sync
  <2>2. job' = [pc |-> "locked", by |-> "timer", ver |-> sync.dirty, snap |-> 0, ok |-> FALSE]
    BY <1>3 DEF TimerFires, Locked, NoJob
  <2>3. job' \in Job
    BY <2>2, Fields DEF Job
  <2>4. QED
    BY <1>3, <2>1, <2>3 DEF TypeOK, TimerFires
<1>4. CASE RequestBackup
  BY <1>4 DEF TypeOK, RequestBackup
<1>5. CASE WaiterLocks
  <2>1. sync' \in Sync
    BY <1>5 DEF TypeOK, WaiterLocks, Sync
  <2>2. job' = [pc |-> "locked", by |-> "waiter", ver |-> sync.dirty, snap |-> 0, ok |-> FALSE]
    BY <1>5 DEF WaiterLocks, Locked, NoJob
  <2>3. job' \in Job
    BY <2>2, Fields DEF Job
  <2>4. QED
    BY <1>5, <2>1, <2>3 DEF TypeOK, WaiterLocks
<1>6. CASE TakeSnapshot
  <2>1. job' \in Job
    BY <1>6, <1>0 DEF TypeOK, TakeSnapshot, Job, Fails
  <2>2. QED
    BY <1>6, <2>1 DEF TypeOK, TakeSnapshot
<1>7. CASE CompareHash
  BY <1>7 DEF TypeOK, CompareHash, Job
<1>8. CASE Upload
  BY <1>8 DEF TypeOK, Upload, Stored, After, Fails, Job
<1>9. CASE RecordSuccess
  <2>1. Covered \in Nat
    BY Fields DEF Covered, Larger
  <2>2. sync' \in Sync
    BY <1>9, <2>1, Fields DEF TypeOK, RecordSuccess, Sync
  <2>3. job' \in Job
    BY <1>9 DEF TypeOK, RecordSuccess, Job
  <2>4. QED
    BY <1>9, <2>2, <2>3 DEF TypeOK, RecordSuccess
<1>10. CASE SetViewSynced
  <2>1. sync' \in Sync /\ job' \in Job
    BY <1>10 DEF TypeOK, SetViewSynced, Sync, Job
  <2>2. promised' \in Nat
    BY <1>10 DEF TypeOK, SetViewSynced, Larger
  <2>3. QED
    BY <1>10, <2>1, <2>2 DEF TypeOK, SetViewSynced
<1>11. CASE SetViewFailed
  BY <1>11 DEF TypeOK, SetViewFailed, Sync, Job
<1>12. CASE Settle
  <2>1. sync' \in Sync
    <3>1. (sync.timer \/ (FollowUp /\ ~sync.closed)) \in BOOLEAN
      OBVIOUS
    <3>2. QED
      BY <1>12, <3>1 DEF TypeOK, Settle, Sync
  <2>2. job' \in Job
    BY <1>12 DEF Settle, NoJob, Job
  <2>3. waiter' \in {"idle", "waiting", "holding"}
    BY <1>12 DEF TypeOK, Settle
  <2>4. QED
    BY <1>12, <2>1, <2>2, <2>3 DEF TypeOK, Settle
<1>13. CASE Close
  <2>1. sync' \in Sync
    BY <1>13 DEF TypeOK, Close, Sync
  <2>2. QED
    BY <1>13, <2>1 DEF TypeOK, Close
<1>14. CASE Closed
  <2>1. sync' \in Sync
    BY <1>14 DEF TypeOK, Closed, Sync
  <2>2. QED
    BY <1>14, <2>1 DEF TypeOK, Closed
<1>15. CASE Stop
  <2>1. job' \in Job /\ sync' \in Sync
    BY <1>15, SyncTypes DEF Stop, NoJob, Job
  <2>2. (fresh /\ disk' # None) \in BOOLEAN
    OBVIOUS
  <2>3. QED
    BY <1>15, <2>1, <2>2 DEF TypeOK, Stop
<1>16. CASE Start
  <2>0. disk \in Nat \union {None} /\ run \in Nat
    BY DEF TypeOK
  <2>1. disk' \in Nat \union {None} /\ phase' \in {"restored", "up"} /\ run' \in Nat
    <3>1. run' = run + 1
      BY <1>16, StartCases
    <3>2. phase' \in {"restored", "up"}
      BY <1>16, StartCases
    <3>3. disk' \in {disk, 0, pointer}
      BY <1>16, StartCases
    <3>4. QED
      BY <2>0, <3>1, <3>2, <3>3, Fields
  <2>5. fresh' \in BOOLEAN
    BY <1>16, StartCases DEF TypeOK
  <2>2. sync' \in Sync
    BY <1>16, StartCases, SyncTypes, Fields DEF TypeOK
  <2>3. UNCHANGED <<top, owed, marked, job, waiter, remote, promised>>
    BY <1>16, StartCases
  <2>4. QED
    BY <2>1, <2>2, <2>3, <2>5 DEF TypeOK
<1>17. CASE Reconcile
  <2>1. sync' \in Sync
    BY <1>17, SyncTypes DEF TypeOK, Reconcile
  <2>2. top' \in Nat /\ disk' \in Nat \union {None} /\ marked' \in Nat
    BY <1>17 DEF TypeOK, Reconcile, Transaction
  <2>3. QED
    BY <1>17, <2>1, <2>2 DEF TypeOK, Reconcile
<1>18. CASE ReconcileFails
  <2>1. sync' \in Sync
    BY <1>18, SyncTypes DEF ReconcileFails
  <2>2. top' \in Nat /\ disk' \in Nat \union {None}
    BY <1>18 DEF TypeOK, ReconcileFails, Transaction
  <2>3. QED
    BY <1>18, <2>1, <2>2 DEF TypeOK, ReconcileFails
<1>19. CASE UNCHANGED vars
  BY <1>19 DEF vars, TypeOK
<1>20. QED
  BY <1>1, <1>2, <1>3, <1>4, <1>5, <1>6, <1>7, <1>8, <1>9, <1>10, <1>11, <1>12, <1>13,
     <1>14, <1>15, <1>16, <1>17, <1>18, <1>19 DEF Next, BackupStep

-----------------------------------------------------------------------------
(* The other parts of the invariant.                                        *)

Rest == Phases /\ Contents /\ Uploads /\ Snapshots /\ Backups /\ Promises

\* Every step keeps the pointer behind the disk and the service behind the pointer.
LEMMA StepRest == Inv /\ [Next]_vars => Rest'
<1> SUFFICES ASSUME Inv, [Next]_vars PROVE Rest'
  OBVIOUS
<1> USE DEF Inv, Rest
<1>0. /\ job.pc # "idle" => Running
      /\ phase # "down" => disk \in Nat
      /\ disk \in Nat \union {None} /\ top \in Nat /\ marked \in Nat /\ promised \in Nat
      /\ sync \in Sync /\ job \in Job
  BY RunningHasDisk DEF TypeOK
<1>1. CASE Commit
  BY <1>1, <1>0, Fields DEF Commit, Transaction, service, Phases, Running, Contents,
     Uploads, PointerIsComplete, Snapshots,
      HasSnapshot, Backups, Promises, pointer
<1>2. CASE MarkDirty
  <2>1. CASE sync.closed
    BY <1>2, <1>0, <2>1, Fields DEF MarkDirty, Marked, Phases, Running, Contents, Uploads,
       PointerIsComplete, Snapshots,
      HasSnapshot, Backups, Promises, pointer
  <2>2. CASE ~sync.closed
    <3>1. /\ sync'.dirty = sync.dirty + 1 /\ sync'.backed = sync.backed /\ sync'.last = sync.last
          /\ marked' = disk
      BY <1>2, <1>0, <2>2 DEF MarkDirty, Marked, Sync
    <3>2. QED
      BY <1>2, <1>0, <2>2, <3>1, Fields DEF MarkDirty, Phases, Running, Contents, Uploads,
         PointerIsComplete, Snapshots,
      HasSnapshot, Backups, Promises, pointer
  <2>3. QED
    BY <2>1, <2>2
<1>3. CASE TimerFires
  <2>1. sync'.dirty = sync.dirty /\ sync'.backed = sync.backed /\ sync'.last = sync.last
        /\ job'.pc = "locked" /\ job'.ver = sync.dirty
    BY <1>3, <1>0 DEF TimerFires, Sync, Job, Locked, NoJob
  <2>9. QED
    BY <1>3, <1>0, Fields, <2>1 DEF TimerFires, Phases, Running, Contents, Uploads,
       PointerIsComplete, Snapshots,
      HasSnapshot, Backups, Promises, pointer
<1>4. CASE RequestBackup
  BY <1>4, <1>0 DEF RequestBackup, Phases, Running, Contents, Uploads, PointerIsComplete,
     Snapshots,
      HasSnapshot, Backups, Promises, pointer
<1>5. CASE WaiterLocks
  <2>1. sync'.dirty = sync.dirty /\ sync'.backed = sync.backed /\ sync'.last = sync.last
        /\ job'.pc = "locked" /\ job'.ver = sync.dirty
    BY <1>5, <1>0 DEF WaiterLocks, Sync, Job, Locked, NoJob
  <2>9. QED
    BY <1>5, <1>0, Fields, <2>1 DEF WaiterLocks, Phases, Running, Contents, Uploads,
       PointerIsComplete, Snapshots,
      HasSnapshot, Backups, Promises, pointer
<1>6. CASE TakeSnapshot
  <2>1. /\ job'.ver = job.ver /\ disk \in Nat
        /\ \/ job'.pc = "failed"
           \/ job'.pc = "compare" /\ job'.snap = disk
    BY <1>6, <1>0 DEF TakeSnapshot, Fails, Job, Running
  <2>9. QED
    BY <1>6, <1>0, Fields, <2>1 DEF TakeSnapshot, Phases, Running, Contents, Uploads,
       PointerIsComplete, Snapshots,
      HasSnapshot, Backups, Promises, pointer
<1>7. CASE CompareHash
  <2>1. /\ job'.ver = job.ver /\ job'.snap = job.snap
        /\ \/ job'.pc = "record" /\ job.snap = sync.last
           \/ job'.pc = "body"
    BY <1>7, <1>0 DEF CompareHash, Job
  <2>9. QED
    BY <1>7, <1>0, Fields, <2>1 DEF CompareHash, Phases, Running, Contents, Uploads,
       PointerIsComplete, Snapshots,
      HasSnapshot, Backups, Promises, pointer
<1>8. CASE Upload
  <2>1. /\ job'.ver = job.ver /\ job'.snap = job.snap
        /\ job'.pc = "failed" \/ (job'.pc = After(job.pc) /\ remote' = Stored(job.pc, job.snap))
        /\ remote' \in {remote, Stored(job.pc, job.snap)}
    BY <1>8, <1>0 DEF Upload, Fails, After, Job
  <2>2. CASE job.pc = "body"
    <3>1. /\ Stored("body", job.snap).bodies = remote.bodies \union {job.snap}
          /\ Stored("body", job.snap).metadata = remote.metadata
          /\ Stored("body", job.snap).pointer = remote.pointer
      BY DEF Stored, TypeOK
    <3>2. After("body") = "metadata"
      BY DEF After
    <3>3. QED
      BY <1>8, <1>0, <2>1, <2>2, <3>1, <3>2, Fields DEF Upload, Phases, Running, Contents,
         Uploads, PointerIsComplete, Snapshots,
      HasSnapshot, Backups, Promises, pointer
  <2>3. CASE job.pc = "metadata"
    <3>1. /\ Stored("metadata", job.snap).bodies = remote.bodies
          /\ Stored("metadata", job.snap).metadata = remote.metadata \union {job.snap}
          /\ Stored("metadata", job.snap).pointer = remote.pointer
      BY DEF Stored, TypeOK
    <3>2. After("metadata") = "pointer"
      BY DEF After
    <3>3. QED
      BY <1>8, <1>0, <2>1, <2>3, <3>1, <3>2, Fields DEF Upload, Phases, Running, Contents,
         Uploads, PointerIsComplete, Snapshots,
      HasSnapshot, Backups, Promises, pointer
  <2>4. CASE job.pc = "pointer"
    <3>1. /\ Stored("pointer", job.snap).bodies = remote.bodies
          /\ Stored("pointer", job.snap).metadata = remote.metadata
          /\ Stored("pointer", job.snap).pointer = job.snap
      BY DEF Stored, TypeOK
    <3>2. After("pointer") = "record"
      BY DEF After
    <3>3. QED
      BY <1>8, <1>0, <2>1, <2>4, <3>1, <3>2, Fields DEF Upload, Phases, Running, Contents,
         Uploads, PointerIsComplete, Snapshots,
      HasSnapshot, Backups, Promises, pointer
  <2>5. QED
    BY <1>8, <2>2, <2>3, <2>4 DEF Upload
<1>9. CASE RecordSuccess
  <2>1. /\ job'.pc = "view" /\ job'.ver = job.ver /\ job'.snap = job.snap
        /\ sync'.dirty = sync.dirty /\ sync'.last = job.snap
        /\ sync'.backed \in {sync.backed, job.ver}
    BY <1>9, <1>0 DEF RecordSuccess, Covered, Larger, Sync, Job
  <2>9. QED
    BY <1>9, <1>0, Fields, <2>1 DEF RecordSuccess, Phases, Running, Contents, Uploads,
       PointerIsComplete, Snapshots,
      HasSnapshot, Backups, Promises, pointer
<1>10. CASE SetViewSynced
  <2>1. /\ job'.pc = "settle" /\ job'.ver = job.ver
        /\ sync'.dirty = sync.dirty /\ sync'.backed = sync.backed /\ sync'.last = sync.last
    BY <1>10, <1>0 DEF SetViewSynced, Sync, Job
  <2>2. \/ promised' = promised
        \/ /\ promised' = marked
           /\ sync.backed >= sync.dirty
    BY <1>10, <2>1 DEF SetViewSynced, Clean, Larger
  <2>9. QED
    BY <1>10, <1>0, Fields, <2>1, <2>2 DEF SetViewSynced, Phases, Running, Contents,
       Uploads, PointerIsComplete, Snapshots,
      HasSnapshot, Backups, Promises, pointer
<1>11. CASE SetViewFailed
  <2>1. job'.pc = "settle" /\ job'.ver = job.ver
        /\ sync'.dirty = sync.dirty /\ sync'.backed = sync.backed /\ sync'.last = sync.last
    BY <1>11, <1>0 DEF SetViewFailed, Sync, Job
  <2>9. QED
    BY <1>11, <1>0, Fields, <2>1 DEF SetViewFailed, Phases, Running, Contents, Uploads,
       PointerIsComplete, Snapshots,
      HasSnapshot, Backups, Promises, pointer
<1>12. CASE Settle
  <2>1. job' = NoJob /\ job'.pc = "idle" /\ job'.ver = 0
        /\ sync'.dirty = sync.dirty /\ sync'.backed = sync.backed /\ sync'.last = sync.last
    BY <1>12, <1>0 DEF Settle, Sync, Job, NoJob
  <2>9. QED
    BY <1>12, <1>0, Fields, <2>1 DEF Settle, Phases, Running, Contents, Uploads,
       PointerIsComplete, Snapshots,
      HasSnapshot, Backups, Promises, pointer
<1>13. CASE Close
  <2>1. sync'.dirty = sync.dirty /\ sync'.backed = sync.backed /\ sync'.last = sync.last
    BY <1>13, <1>0 DEF Close, Sync, Job
  <2>9. QED
    BY <1>13, <1>0, Fields, <2>1 DEF Close, Phases, Running, Contents, Uploads,
       PointerIsComplete, Snapshots,
      HasSnapshot, Backups, Promises, pointer
<1>14. CASE Closed
  <2>1. sync'.dirty = sync.dirty /\ sync'.backed = sync.backed /\ sync'.last = sync.last
    BY <1>14, <1>0 DEF Closed, Sync, Job
  <2>9. QED
    BY <1>14, <1>0, Fields, <2>1 DEF Closed, Phases, Running, Contents, Uploads,
       PointerIsComplete, Snapshots,
      HasSnapshot, Backups, Promises, pointer
<1>15. CASE Stop
  <2>1. sync'.dirty = 0 /\ sync'.backed = 0 /\ sync'.last = None /\ ~sync'.closed
        /\ job' = NoJob /\ job'.pc = "idle" /\ job'.ver = 0
    BY <1>15, <1>0 DEF Stop, Sync, Job, NewSync, NoJob
  <2>9. QED
    BY <1>15, <1>0, Fields, <2>1 DEF Stop, Phases, Running, Contents, Uploads,
       PointerIsComplete, Snapshots,
      HasSnapshot, Backups, Promises, pointer
<1>16. CASE Start
  <2>1. /\ job = NoJob /\ job' = NoJob /\ job.pc = "idle" /\ job.ver = 0
        /\ marked = 0 /\ marked' = 0 /\ sync.dirty = 0 /\ ~sync.closed
    <3>1. ~Running /\ job' = job /\ marked' = marked
      BY <1>16, StartCases DEF Running
    <3>2. job = NoJob /\ marked = 0 /\ sync.dirty = 0 /\ ~sync.closed
      BY <3>1 DEF Phases
    <3>3. QED
      BY <3>1, <3>2 DEF NoJob
  <2>2. \/ sync' = sync
        \/ /\ sync'.dirty = 0 /\ sync'.backed = 0 /\ sync'.last = pointer /\ ~sync'.closed
           /\ pointer # None
    <3>1. sync' = sync \/ (pointer # None /\ sync' = NewSync(pointer))
      BY <1>16, StartCases
    <3>2. /\ NewSync(pointer).dirty = 0 /\ NewSync(pointer).backed = 0
          /\ NewSync(pointer).last = pointer /\ ~NewSync(pointer).closed
      BY DEF NewSync
    <3>3. QED
      BY <3>1, <3>2
  <2>3. /\ UNCHANGED <<top, remote, promised>> /\ phase' \in {"up", "restored"}
        /\ \/ disk # None /\ disk' = disk
           \/ disk' = 0 /\ pointer = None
           \/ disk' = pointer /\ pointer # None
    BY <1>16, StartCases
  <2>4. Phases'
    BY <1>0, <2>1, <2>2, <2>3, Fields DEF Phases, Running
  <2>5. Contents' /\ Promises'
    BY <1>0, <2>1, <2>2, <2>3, Fields DEF Contents, Promises, pointer
  <2>6. Uploads' /\ Snapshots'
    BY <1>0, <2>1, <2>3 DEF Uploads, PointerIsComplete, Snapshots, HasSnapshot
  <2>7. Backups'
    BY <1>0, <2>1, <2>2, <2>3, Fields DEF Backups, pointer
  <2>9. QED
    BY <2>4, <2>5, <2>6, <2>7
<1>17. CASE Reconcile
  <2>1. /\ job = NoJob /\ job' = NoJob /\ job.pc = "idle" /\ job.ver = 0
        /\ marked = 0 /\ sync.dirty = 0 /\ ~sync.closed
    BY <1>17, <1>0 DEF Reconcile, Phases, Running, NoJob
  <2>2. CASE UNCHANGED <<disk, top, marked, sync>>
    BY <1>17, <1>0, <2>1, <2>2, Fields DEF Reconcile, Phases, Running, Contents, Uploads,
       PointerIsComplete, Snapshots,
      HasSnapshot, Backups, Promises, pointer
  <2>3. CASE Transaction /\ marked' = disk' /\ sync' = Marked(sync)
    <3>1. /\ disk' = top + 1 /\ top' = top + 1 /\ marked' = top + 1
          /\ sync'.dirty = 1 /\ sync'.backed = sync.backed /\ sync'.last = sync.last
      BY <1>0, <2>1, <2>3 DEF Transaction, Marked, Sync
    <3>2. QED
      BY <1>17, <1>0, <2>1, <3>1, Fields DEF Reconcile, Phases, Running, Contents, Uploads,
         PointerIsComplete, Snapshots,
      HasSnapshot, Backups, Promises, pointer
  <2>4. QED
    BY <1>17, <2>2, <2>3 DEF Reconcile
<1>18. CASE ReconcileFails
  <2>1. /\ job = NoJob /\ job' = NoJob /\ job.pc = "idle" /\ job.ver = 0
        /\ marked = 0 /\ sync.dirty = 0 /\ ~sync.closed
    BY <1>18, <1>0 DEF ReconcileFails, Phases, Running, NoJob
  <2>2. sync'.dirty = 0 /\ sync'.backed = 0 /\ sync'.last = None /\ ~sync'.closed
    BY <1>18 DEF ReconcileFails, NewSync
  <2>9. QED
    BY <1>18, <1>0, Fields, <2>1, <2>2 DEF ReconcileFails, Phases, Running, Contents,
       Uploads, PointerIsComplete, Snapshots,
      HasSnapshot, Backups, Promises, pointer, Transaction
<1>19. CASE UNCHANGED vars
  BY <1>19 DEF vars, Phases, Running, Contents, Uploads, PointerIsComplete, Snapshots,
      HasSnapshot, Backups, Promises, pointer
<1>20. QED
  BY <1>1, <1>2, <1>3, <1>4, <1>5, <1>6, <1>7, <1>8, <1>9, <1>10, <1>11, <1>12, <1>13,
     <1>14, <1>15, <1>16, <1>17, <1>18, <1>19 DEF Next, BackupStep

-----------------------------------------------------------------------------
(* The invariant, and what follows from it.                                 *)

\* The start: nothing is on the disk or on the remote.
LEMMA InitialInv == Init => Inv
<1> SUFFICES ASSUME Init PROVE Inv
  OBVIOUS
<1>1. sync \in Sync /\ job \in Job
  BY SyncTypes DEF Init, NoJob, Job
<1>2. TypeOK
  BY <1>1 DEF Init, TypeOK
<1>3. /\ sync.dirty = 0 /\ sync.backed = 0 /\ sync.last = None /\ ~sync.closed
      /\ job = NoJob /\ job.pc = "idle" /\ job.ver = 0
  BY DEF Init, NewSync, NoJob
<1>4. disk = None /\ pointer = None /\ promised = 0 /\ marked = 0 /\ phase = "down"
  BY DEF Init, pointer
<1>5. Phases
  BY <1>3, <1>4 DEF Phases
<1>6. Contents /\ Uploads /\ Promises
  BY <1>3, <1>4 DEF Contents, Uploads, PointerIsComplete, Promises, pointer
<1>7. Snapshots /\ Backups
  BY <1>3, <1>4 DEF Snapshots, HasSnapshot, Backups
<1>8. QED
  BY <1>2, <1>5, <1>6, <1>7 DEF Inv

\* The invariant is inductive.
LEMMA StepInv == Inv /\ [Next]_vars => Inv'
BY StepTypes, StepRest DEF Inv, Rest

\* It holds in every state.
LEMMA Invariance == Spec => []Inv
BY InitialInv, StepInv, PTL DEF Spec

\* Every reachable state is type-correct.
THEOREM TypeCorrect == Spec => []TypeOK
<1>1. Inv => TypeOK
  BY DEF Inv
<1>2. QED
  BY Invariance, <1>1, PTL

\* latest.json names a complete backup, whatever upload failed or was cut off:
\* _backup_once uploads it after the body and the metadata.
THEOREM PointerComplete == Spec => []PointerIsComplete
<1>1. Inv => PointerIsComplete
  BY DEF Inv, Uploads
<1>2. QED
  BY Invariance, <1>1, PTL

\* A clean state is covered by the backup that latest.json names: _backup_once
\* reads the dirty version before it takes the snapshot.
THEOREM CleanCovered == Spec => []CleanMeansCovered
<1>1. ASSUME Inv, Clean(sync), sync.dirty > 0
      PROVE  pointer # None /\ pointer >= marked
  <2>1. sync.dirty \in Nat /\ sync.backed \in Nat /\ pointer \in Nat \union {None} /\ marked \in Nat
    BY <1>1, Fields DEF Inv, TypeOK
  <2>2. sync.backed <= sync.dirty /\ sync.backed >= sync.dirty
    BY <1>1 DEF Inv, Backups, Clean
  <2>3. sync.backed = sync.dirty
    BY <2>1, <2>2
  <2>4. pointer # None /\ marked <= pointer
    BY <1>1, <2>3 DEF Inv, Backups
  <2>5. QED
    BY <2>1, <2>4
<1>2. Inv => CleanMeansCovered
  BY <1>1 DEF CleanMeansCovered, pointer
<1>3. QED
  BY Invariance, <1>2, PTL

\* What was reported as backed up survives the loss of the disk: restore_if_missing
\* takes the backup of latest.json or does not let the process start.
THEOREM NothingLost == Spec => []NothingConfirmedIsLost
<1>1. ASSUME Inv, phase # "down" PROVE disk >= promised
  <2>1. disk \in Nat /\ promised \in Nat /\ pointer \in Nat \union {None} /\ disk # None
    BY <1>1, RunningHasDisk, Fields, BackupAssumption DEF Inv, TypeOK
  <2>2. promised > 0 => pointer # None /\ promised <= pointer
    BY <1>1 DEF Inv, Promises
  <2>3. pointer # None => pointer <= disk
    BY <1>1, <2>1 DEF Inv, Contents
  <2>4. QED
    BY <2>1, <2>2, <2>3
<1>2. Inv => NothingConfirmedIsLost
  BY <1>1 DEF NothingConfirmedIsLost
<1>3. QED
  BY Invariance, <1>2, PTL
=============================================================================

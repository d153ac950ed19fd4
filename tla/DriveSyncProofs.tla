--------------------------- MODULE DriveSyncProofs ---------------------------
(***************************************************************************)
(* Proofs about DriveSync: a generation has one active job at most, what a *)
(* record counts as copied is on its remote, and a manifest that is called *)
(* synced lists what is synced.                                            *)
(***************************************************************************)
EXTENDS DriveSync, FiniteSetTheorems, WellFoundedInduction, TLAPS

OnJob == {"verify", "start", "copying", "mark", "finish", "fail", "request", "warn"}
OnManifest == {"write", "upload", "msync", "mclear", "mfail", "mwarn"}

WorkerState == [pc : {"off", "idle"} \union OnJob \union OnManifest, job : Nat,
                dest : Remote, todo : SUBSET AllItems, snap : SUBSET Gen]

CallState == [pc : {"idle", "enqueue", "retry", "fail"}, gen : Gen \union {IdleClient.gen},
              plan : Plan, resync : BOOLEAN, job : Nat]

\* Only a remote that has a name gets manifest jobs.
ManifestRow == [dest : Dest, status : Status, owner : Nat, retryable : BOOLEAN]

Typed == /\ config \in Remote /\ record \in [Gen -> RecordState]
         /\ jobs \in Seq(JobState) /\ mjobs \in Seq(ManifestRow)
         /\ published \in [Dest -> SUBSET Gen] /\ \A f \in files : f[1] \in Dest
         /\ w \in WorkerState /\ client \in [Client -> CallState] /\ run \in Nat

\* A generation is worked on by one job, and its record shows it.
Single ==
    /\ \A j, k \in DOMAIN jobs :
          /\ jobs[j].status \in Active /\ jobs[k].status \in Active
          /\ jobs[j].gen = jobs[k].gen
          => j = k
    /\ \A j \in DOMAIN jobs :
          jobs[j].status \in Active =>
             record[jobs[j].gen].status \in {"pending", "syncing", "failed"}

\* What counts as copied to a remote is there.
Copied(d, g, done) == \A item \in done : <<d, g, FileOf(item)>> \in files

OnDrive(g) == /\ Copied(record[g].dest, g, record[g].done)
              /\ record[g].status = "synced" => record[g].done = Items(g) /\ record[g].meta

\* What a caller read is still true when it writes.
Calling(c) ==
    LET p == client[c] IN
    /\ p.pc # "idle" => p.gen \in Gen /\ Copied(p.plan.dest, p.gen, p.plan.done)
    /\ p.pc = "fail" => p.job \in DOMAIN jobs

\* The metadata follow the images, all of them or none.
Shaped(todo) == (\E i, m \in todo : i[1] = "image" /\ m[1] = "metadata") => Meta(1) \in todo

\* As long as the worker holds the lease, nobody replans the record.
InStep == LET j == jobs[w.job]
              r == record[j.gen]
          IN w.dest = r.dest /\ r.meta /\ j.done = r.done

Working ==
    /\ w.pc \in OnJob => w.job \in DOMAIN jobs
    /\ w.pc \in {"start", "copying", "mark"} => w.todo # {} /\ Shaped(w.todo)
    /\ w.pc \in {"copying", "mark", "request", "warn"} => w.dest \in Dest
    /\ w.pc = "mark" => <<w.dest, jobs[w.job].gen, FileOf(NextOf(w.todo))>> \in files
    /\ w.pc \in {"start", "copying", "mark", "finish"} /\ Owned => InStep
    /\ w.pc \in {"request", "warn"} /\ record[jobs[w.job].gen].status = "synced"
          => record[jobs[w.job].gen].dest = w.dest

\* Nothing is synced while the worker publishes a manifest.
ListedIn(d, S) == \A g \in Gen : record[g].status = "synced" /\ record[g].dest = d => g \in S

Publishing ==
    /\ w.pc \in OnManifest \ {"mwarn"} => w.job \in DOMAIN mjobs /\ mjobs[w.job].dest = w.dest
    /\ w.pc \in OnManifest => w.dest \in Dest
    /\ w.pc = "upload" => ListedIn(w.dest, w.snap)
    /\ w.pc \in {"msync", "mclear"} => ListedIn(w.dest, published[w.dest])

\* A manifest job is only followed by another one of its remote when it is over.
InTurn == \A j, k \in DOMAIN mjobs :
             j < k /\ mjobs[j].dest = mjobs[k].dest => mjobs[j].status \notin Active

\* The last manifest job of a remote is not done: nobody relies on its manifest.
Open(d) == \E j \in ManifestJobs(d) :
              mjobs[j].status # "synced" /\ \A k \in ManifestJobs(d) : k <= j

Current(g) ==
    \/ record[g].status # "synced" \/ record[g].warned \/ g \in orphaned
    \/ Open(record[g].dest)
    \/ w.pc \in {"request", "warn"} /\ jobs[w.job].gen = g
    \/ g \in published[record[g].dest]

Inv == /\ Typed /\ Single /\ (\A g \in Gen : OnDrive(g)) /\ (\A c \in Client : Calling(c))
       /\ Working /\ Publishing /\ InTurn /\ (\A g \in Gen : Current(g))

-----------------------------------------------------------------------------
(* What a step makes of the jobs, the records and the manifest jobs.        *)

JobsMove == /\ jobs' \in Seq(JobState) /\ Len(jobs) <= Len(jobs')
            /\ \A j \in DOMAIN jobs :
                  /\ jobs'[j].gen = jobs[j].gen
                  /\ jobs'[j].status \in Active => jobs[j].status \in Active

\* No lease is given and nothing is marked as copied.
Held(j, k) == /\ k.gen = j.gen /\ k.done = j.done /\ k.status \in {j.status, "failed"}
              /\ k.status = "syncing" => k.owner = j.owner

JobsHold == /\ jobs' \in Seq(JobState) /\ Len(jobs) <= Len(jobs')
            /\ \A j \in DOMAIN jobs : Held(jobs[j], jobs'[j])

HeldRecord(r, q) == /\ q.dest = r.dest /\ q.meta = r.meta /\ q.done = r.done
                    /\ q.status \in {r.status, "failed", "syncing"}
                    /\ q.status = "synced" /\ r.warned => q.warned

Unused(g) == \A j \in DOMAIN jobs : jobs[j].gen = g => jobs[j].status \notin Active

Replanned(g, q) == Unused(g) /\ q.status = "pending" /\ Copied(q.dest, g, q.done)

\* A record is only replanned while no job works on it.
RecordsHold == /\ record' \in [Gen -> RecordState]
               /\ \A g \in Gen : HeldRecord(record[g], record'[g]) \/ Replanned(g, record'[g])

ManifestsMove == /\ mjobs' \in Seq(ManifestRow) /\ Len(mjobs) <= Len(mjobs')
                 /\ \A j \in DOMAIN mjobs : mjobs'[j].dest = mjobs[j].dest

ManifestsHold == ManifestsMove /\ InTurn' /\ \A d \in Dest : Open(d) => Open(d)'

MHeld(j, k) == /\ k.dest = j.dest
               /\ k.status \in Active => j.status \in Active
               /\ k.status = "synced" => j.status = "synced"

-----------------------------------------------------------------------------
(* The jobs.                                                                *)

\* Some of what the proofs know of a job is of its generation.
LEMMA JobTypes ==
  ASSUME Typed
  PROVE  /\ Len(jobs) \in Nat /\ DOMAIN jobs = 1 .. Len(jobs)
         /\ \A j \in DOMAIN jobs : /\ jobs[j] \in JobState /\ jobs[j].gen \in Gen
                                   /\ jobs[j].status \in Status /\ jobs[j].done \subseteq AllItems
                                   /\ jobs[j].meta \in BOOLEAN /\ jobs[j].owner \in Nat
<1>1. jobs \in Seq(JobState)
  BY DEF Typed
<1>2. /\ Len(jobs) \in Nat /\ DOMAIN jobs = 1 .. Len(jobs)
      /\ \A j \in DOMAIN jobs : jobs[j] \in JobState
  BY <1>1
<1>3. QED
  BY <1>2 DEF JobState

\* What holds the leases back moves the jobs.
LEMMA HoldMoves ==
  ASSUME JobsHold
  PROVE  JobsMove
BY DEF JobsHold, JobsMove, Held, Active

\* No job is written.
LEMMA SameJobs ==
  ASSUME Typed, jobs' = jobs
  PROVE  JobsHold /\ Len(jobs') = Len(jobs)
BY JobTypes DEF JobsHold, Held, Typed

\* A job is closed.
LEMMA ClosedJob ==
  ASSUME NEW j \in JobState
  PROVE  /\ Closed(j) \in JobState /\ Held(j, Closed(j)) /\ Closed(j).status = "failed"
BY DEF Closed, JobState, Held, Status

\* Some of the jobs are.
LEMMA SomeClosed ==
  ASSUME Typed, NEW S,
         jobs' = [j \in DOMAIN jobs |-> IF j \in S THEN Closed(jobs[j]) ELSE jobs[j]]
  PROVE  /\ JobsHold /\ Len(jobs') = Len(jobs)
<1>1. \A j \in DOMAIN jobs : jobs'[j] \in JobState /\ Held(jobs[j], jobs'[j])
  <2>1. SUFFICES ASSUME NEW j \in DOMAIN jobs
                 PROVE  jobs'[j] \in JobState /\ Held(jobs[j], jobs'[j])
    OBVIOUS
  <2>2. jobs[j] \in JobState /\ Held(jobs[j], jobs[j])
    BY JobTypes DEF Held
  <2>3. jobs'[j] = Closed(jobs[j]) \/ jobs'[j] = jobs[j]
    OBVIOUS
  <2>4. QED
    BY <2>2, <2>3, ClosedJob
<1>2. DOMAIN jobs = 1 .. Len(jobs) /\ Len(jobs) \in Nat
  BY JobTypes
<1>3. jobs' = [j \in 1 .. Len(jobs) |-> jobs'[j]]
  BY <1>2
<1>4. jobs' \in Seq(JobState) /\ Len(jobs') = Len(jobs)
  BY <1>1, <1>2, <1>3
<1>5. QED
  BY <1>1, <1>2, <1>4 DEF JobsHold

\* One entry of a sequence is replaced.
LEMMA OneEntry ==
  ASSUME NEW S, NEW s \in Seq(S), NEW i \in DOMAIN s, NEW e \in S, NEW t,
         t = [s EXCEPT ![i] = e]
  PROVE  /\ t \in Seq(S) /\ Len(t) = Len(s) /\ DOMAIN t = DOMAIN s
         /\ t[i] = e /\ \A j \in DOMAIN s \ {i} : t[j] = s[j]
OBVIOUS

\* One is added.
LEMMA OneMore ==
  ASSUME NEW S, NEW s \in Seq(S), NEW e \in S, NEW t, t = Append(s, e)
  PROVE  /\ t \in Seq(S) /\ Len(t) = Len(s) + 1 /\ DOMAIN t = DOMAIN s \union {Len(s) + 1}
         /\ Len(s) \in Nat /\ Len(s) + 1 \notin DOMAIN s
         /\ t[Len(s) + 1] = e /\ \A j \in DOMAIN s : t[j] = s[j]
<1>1. /\ t \in Seq(S) /\ Len(t) = Len(s) + 1 /\ Len(s) \in Nat
      /\ t[Len(s) + 1] = e /\ \A j \in DOMAIN s : t[j] = s[j]
  OBVIOUS
<1>2. DOMAIN s = 1 .. Len(s) /\ DOMAIN t = 1 .. Len(t)
  BY <1>1
<1>3. QED
  BY <1>1, <1>2

\* A job is added for a generation that has none.
LEMMA MoreJobs ==
  ASSUME Typed, NEW e \in JobState, jobs' = Append(jobs, e)
  PROVE  /\ JobsHold /\ DOMAIN jobs' = DOMAIN jobs \union {Len(jobs) + 1}
         /\ Len(jobs) + 1 \notin DOMAIN jobs /\ jobs'[Len(jobs) + 1] = e
         /\ \A j \in DOMAIN jobs : jobs'[j] = jobs[j]
<1>1. jobs \in Seq(JobState)
  BY DEF Typed
<1>2. /\ jobs' \in Seq(JobState) /\ Len(jobs') = Len(jobs) + 1
      /\ DOMAIN jobs' = DOMAIN jobs \union {Len(jobs) + 1}
      /\ Len(jobs) \in Nat /\ Len(jobs) + 1 \notin DOMAIN jobs
      /\ jobs'[Len(jobs) + 1] = e /\ \A j \in DOMAIN jobs : jobs'[j] = jobs[j]
  BY <1>1, OneMore
<1>3. QED
  BY <1>2 DEF JobsHold, Held

\* The generations stay single as long as no job is added, ...
LEMMA SingleStays ==
  ASSUME Inv, JobsMove, Len(jobs') = Len(jobs),
         \A j \in DOMAIN jobs : jobs'[j].status \in Active =>
            record'[jobs[j].gen].status
               \in {record[jobs[j].gen].status, "pending", "syncing", "failed"}
  PROVE  Single'
<1>1. DOMAIN jobs' = DOMAIN jobs
  BY JobTypes DEF JobsMove, Inv
<1>2. /\ \A j \in DOMAIN jobs : /\ jobs'[j].gen = jobs[j].gen
                                /\ jobs'[j].status \in Active => jobs[j].status \in Active
  BY DEF JobsMove
<1>3. Single
  BY DEF Inv
<1>4. QED
  BY <1>1, <1>2, <1>3 DEF Single

\* ... and as long as it is added where there is none.
LEMMA SingleGrows ==
  ASSUME Inv, NEW e \in JobState, jobs' = Append(jobs, e), Unused(e.gen),
         record'[e.gen].status \in {"pending", "syncing", "failed"},
         \A g \in Gen : record'[g].status
                          \in {record[g].status, "pending", "syncing", "failed"}
  PROVE  Single'
<1>1. /\ DOMAIN jobs' = DOMAIN jobs \union {Len(jobs) + 1}
      /\ Len(jobs) + 1 \notin DOMAIN jobs /\ jobs'[Len(jobs) + 1] = e
      /\ \A j \in DOMAIN jobs : jobs'[j] = jobs[j]
  BY MoreJobs DEF Inv
<1>2. \A j \in DOMAIN jobs : jobs[j].gen \in Gen
  BY JobTypes DEF Inv
<1>3. Single
  BY DEF Inv
<1>4. \A j \in DOMAIN jobs : jobs[j].gen = e.gen => jobs[j].status \notin Active
  BY DEF Unused
<1>5. QED
  BY <1>1, <1>2, <1>3, <1>4 DEF Single

\* ActiveJobs is empty where there is none.
LEMMA UnusedIs ==
  ASSUME NEW g, ActiveJobs(g) = {}
  PROVE  Unused(g)
BY DEF ActiveJobs, Unused

-----------------------------------------------------------------------------
(* The records.                                                             *)

\* A record has its type and its parts have theirs.
LEMMA RecordTypes ==
  ASSUME Typed, NEW g \in Gen
  PROVE  /\ record[g] \in RecordState /\ record[g].done \subseteq AllItems
         /\ record[g].meta \in BOOLEAN /\ record[g].dest \in Remote
         /\ record[g].warned \in BOOLEAN /\ record[g].status \in Status \union {"none"}
<1>1. record[g] \in RecordState
  BY DEF Typed
<1>2. QED
  BY <1>1 DEF RecordState

\* No record is written.
LEMMA SameRecords ==
  ASSUME Typed, record' = record
  PROVE  RecordsHold
BY DEF RecordsHold, HeldRecord, Typed

\* A record is failed or claimed.
LEMMA FailedRecord ==
  ASSUME NEW r \in RecordState, NEW s \in {"failed", "syncing"}
  PROVE  /\ [r EXCEPT !.status = s, !.warned = FALSE] \in RecordState
         /\ HeldRecord(r, [r EXCEPT !.status = s, !.warned = FALSE])
BY DEF RecordState, HeldRecord, Status

\* A synced record gets its warning.
LEMMA WarnedRecord ==
  ASSUME NEW r \in RecordState
  PROVE  /\ [r EXCEPT !.warned = TRUE] \in RecordState
         /\ HeldRecord(r, [r EXCEPT !.warned = TRUE])
BY DEF RecordState, HeldRecord

\* One record is written.
LEMMA OneRecord ==
  ASSUME Typed, NEW g \in Gen, NEW q \in RecordState,
         HeldRecord(record[g], q) \/ Replanned(g, q),
         record' = [record EXCEPT ![g] = q]
  PROVE  RecordsHold /\ record'[g] = q /\ \A h \in Gen \ {g} : record'[h] = record[h]
<1>1. record \in [Gen -> RecordState]
  BY DEF Typed
<1>2. /\ record' \in [Gen -> RecordState] /\ record'[g] = q
      /\ \A h \in Gen \ {g} : record'[h] = record[h]
  BY <1>1
<1>3. \A h \in Gen : HeldRecord(record[h], record[h])
  BY DEF HeldRecord
<1>4. QED
  BY <1>2, <1>3 DEF RecordsHold

\* All of them are.
LEMMA AllRecords ==
  ASSUME Typed, record' = [g \in Gen |-> record'[g]],
         \A g \in Gen : record'[g] \in RecordState /\ HeldRecord(record[g], record'[g])
  PROVE  RecordsHold
BY DEF RecordsHold

\* What counts as copied stays on the remote.
LEMMA StaysOnDrive ==
  ASSUME Inv, RecordsHold, files \subseteq files'
  PROVE  \A g \in Gen : OnDrive(g)'
<1>1. SUFFICES ASSUME NEW g \in Gen PROVE OnDrive(g)'
  OBVIOUS
<1>2. OnDrive(g)
  BY DEF Inv
<1>3. HeldRecord(record[g], record'[g]) \/ Replanned(g, record'[g])
  BY DEF RecordsHold
<1>4. CASE HeldRecord(record[g], record'[g])
  BY <1>2, <1>4 DEF HeldRecord, OnDrive, Copied
<1>5. CASE Replanned(g, record'[g])
  BY <1>5 DEF Replanned, OnDrive, Copied
<1>6. QED
  BY <1>3, <1>4, <1>5

-----------------------------------------------------------------------------
(* The manifest jobs.                                                       *)

\* A manifest job has its type.
LEMMA ManifestTypes ==
  ASSUME Typed
  PROVE  /\ Len(mjobs) \in Nat /\ DOMAIN mjobs = 1 .. Len(mjobs)
         /\ \A j \in DOMAIN mjobs : /\ mjobs[j] \in ManifestRow /\ mjobs[j].dest \in Dest
                                    /\ mjobs[j].status \in Status
<1>1. mjobs \in Seq(ManifestRow)
  BY DEF Typed
<1>2. /\ Len(mjobs) \in Nat /\ DOMAIN mjobs = 1 .. Len(mjobs)
      /\ \A j \in DOMAIN mjobs : mjobs[j] \in ManifestRow
  BY <1>1
<1>3. QED
  BY <1>2 DEF ManifestRow

\* Their states change, none becomes active or synced again.
LEMMA EachManifest ==
  ASSUME Inv, mjobs' \in Seq(ManifestRow), Len(mjobs') = Len(mjobs),
         \A j \in DOMAIN mjobs : MHeld(mjobs[j], mjobs'[j])
  PROVE  ManifestsHold
<1>1. DOMAIN mjobs' = DOMAIN mjobs /\ Len(mjobs) \in Nat
  BY ManifestTypes DEF Inv
<1>2. ManifestsMove
  BY <1>1 DEF ManifestsMove, MHeld
<1>3. InTurn
  BY DEF Inv
<1>4. InTurn'
  BY <1>1, <1>3 DEF InTurn, MHeld
<1>5. ASSUME NEW d \in Dest, Open(d) PROVE Open(d)'
  BY <1>1, <1>5 DEF Open, ManifestJobs, MHeld
<1>6. QED
  BY <1>2, <1>4, <1>5 DEF ManifestsHold

\* None is written.
LEMMA SameManifests ==
  ASSUME Inv, mjobs' = mjobs
  PROVE  ManifestsHold
<1>1. mjobs' \in Seq(ManifestRow)
  BY DEF Inv, Typed
<1>2. QED
  BY <1>1, EachManifest DEF MHeld

\* One is.
LEMMA OneManifest ==
  ASSUME Inv, NEW i \in DOMAIN mjobs, NEW e \in ManifestRow, MHeld(mjobs[i], e),
         mjobs' = [mjobs EXCEPT ![i] = e]
  PROVE  ManifestsHold
<1>1. mjobs \in Seq(ManifestRow)
  BY DEF Inv, Typed
<1>2. /\ mjobs' \in Seq(ManifestRow) /\ Len(mjobs') = Len(mjobs) /\ mjobs'[i] = e
      /\ \A j \in DOMAIN mjobs \ {i} : mjobs'[j] = mjobs[j]
  BY <1>1, OneEntry
<1>3. \A j \in DOMAIN mjobs : MHeld(mjobs[j], mjobs'[j])
  BY <1>2 DEF MHeld
<1>4. QED
  BY <1>2, <1>3, EachManifest

\* All of them are.
LEMMA AllManifests ==
  ASSUME Inv, mjobs' = [j \in DOMAIN mjobs |-> mjobs'[j]],
         \A j \in DOMAIN mjobs : mjobs'[j] \in ManifestRow /\ MHeld(mjobs[j], mjobs'[j])
  PROVE  ManifestsHold
<1>1. DOMAIN mjobs = 1 .. Len(mjobs) /\ Len(mjobs) \in Nat
  BY ManifestTypes DEF Inv
<1>2. mjobs' = [j \in 1 .. Len(mjobs) |-> mjobs'[j]]
  BY <1>1
<1>3. mjobs' \in Seq(ManifestRow) /\ Len(mjobs') = Len(mjobs)
  BY <1>1, <1>2
<1>4. QED
  BY <1>3, EachManifest

\* A closed manifest job.
LEMMA ClosedManifest ==
  ASSUME NEW j \in ManifestRow
  PROVE  /\ Closed(j) \in ManifestRow /\ Closed(j).dest = j.dest /\ Closed(j).status = "failed"
         /\ MHeld(j, Closed(j))
BY DEF Closed, ManifestRow, MHeld, Status, Active

\* A set of numbers has a smallest member: what the CHOOSEs of the model pick.
LEMMA Smallest ==
  ASSUME NEW S \in SUBSET Nat, S # {}
  PROVE  \E x \in S : \A y \in S : x <= y
<1>1. \E x \in S : \A y \in S : ~ (<<y, x>> \in OpToRel(<, Nat))
  BY NatLessThanWellFounded, WFMin
<1>2. PICK x \in S : \A y \in S : ~ (<<y, x>> \in OpToRel(<, Nat))
  BY <1>1
<1>3. ASSUME NEW y \in S PROVE x <= y
  <2>1. <<y, x>> \in Nat \X Nat /\ ~(<<y, x>> \in OpToRel(<, Nat))
    BY <1>2
  <2>2. ~(y < x)
    BY <2>1 DEF OpToRel
  <2>3. QED
    BY <2>2
<1>4. QED
  BY <1>3

\* A bounded one has a largest.
LEMMA Largest ==
  ASSUME NEW n \in Nat, NEW S \in SUBSET (1 .. n), S # {}
  PROVE  \E x \in S : \A y \in S : y <= x
<1> DEFINE T == {n - x : x \in S}
<1>1. T \in SUBSET Nat /\ T # {}
  <2>1. \A x \in S : n - x \in Nat
    OBVIOUS
  <2>2. PICK x \in S : TRUE
    OBVIOUS
  <2>3. n - x \in T
    OBVIOUS
  <2>4. T \subseteq Nat
    BY <2>1
  <2>5. QED
    BY <2>3, <2>4
<1>2. PICK t \in T : \A u \in T : t <= u
  <2> HIDE DEF T
  <2>1. QED
    BY <1>1, Smallest
<1>3. PICK x \in S : t = n - x
  BY <1>2
<1>4. ASSUME NEW y \in S PROVE y <= x
  <2>1. n - y \in T
    OBVIOUS
  <2>2. n - x <= n - y
    BY <1>2, <1>3, <2>1
  <2>3. QED
    BY <2>2
<1>5. QED
  BY <1>4

\* The state of a remote's manifest is that of its last job.
LEMMA LastManifest ==
  ASSUME Inv, NEW d, ManifestJobs(d) # {}
  PROVE  \E j \in ManifestJobs(d) : /\ ManifestOf(d) = mjobs[j].status
                                    /\ \A k \in ManifestJobs(d) : k <= j
<1>1. DOMAIN mjobs = 1 .. Len(mjobs) /\ Len(mjobs) \in Nat
  BY ManifestTypes DEF Inv
<1> DEFINE mine == ManifestJobs(d)
           active == {j \in mine : mjobs[j].status \in Active}
           chosen == IF active # {} THEN active ELSE mine
           last == CHOOSE j \in chosen : \A k \in chosen : k <= j
<1>2. mine \in SUBSET (1 .. Len(mjobs)) /\ chosen \in SUBSET (1 .. Len(mjobs)) /\ chosen # {}
  BY <1>1 DEF ManifestJobs
<1>3. ManifestOf(d) = mjobs[last].status
  BY DEF ManifestOf
<1>4. last \in chosen /\ \A k \in chosen : k <= last
  <2> HIDE DEF chosen
  <2>1. \E j \in chosen : \A k \in chosen : k <= j
    BY <1>1, <1>2, Largest
  <2>2. QED
    BY <2>1
<1> HIDE DEF last
<1>5. last \in mine
  BY <1>4
<1>6. ASSUME NEW k \in mine PROVE k <= last
  <2>1. CASE active = {}
    BY <1>4, <2>1
  <2>2. CASE active # {}
    <3>1. last \in active /\ last \in DOMAIN mjobs /\ k \in DOMAIN mjobs
          /\ mjobs[last].dest = mjobs[k].dest
      BY <1>4, <2>2 DEF ManifestJobs
    <3>2. ~(last < k)
      BY <3>1 DEF Inv, InTurn
    <3>3. QED
      BY <1>1, <3>1, <3>2
  <2>3. QED
    BY <2>1, <2>2
<1>7. QED
  BY <1>3, <1>5, <1>6

\* A remote with a job that is not done is not called synced, ...
LEMMA OpenIs ==
  ASSUME Inv, NEW d, Open(d)
  PROVE  ManifestOf(d) \in {"pending", "syncing", "failed"}
<1>1. PICK i \in ManifestJobs(d) :
         mjobs[i].status # "synced" /\ \A k \in ManifestJobs(d) : k <= i
  BY DEF Open
<1>2. PICK j \in ManifestJobs(d) : /\ ManifestOf(d) = mjobs[j].status
                                   /\ \A k \in ManifestJobs(d) : k <= j
  BY <1>1, LastManifest
<1>3. /\ i \in DOMAIN mjobs /\ DOMAIN mjobs = 1 .. Len(mjobs) /\ Len(mjobs) \in Nat
      /\ j \in DOMAIN mjobs
  BY ManifestTypes DEF Inv, ManifestJobs
<1>4. i <= j /\ j <= i
  BY <1>1, <1>2
<1>5. i = j
  BY <1>3, <1>4
<1>6. mjobs[j].status \in Status
  BY <1>3, ManifestTypes DEF Inv
<1>7. QED
  BY <1>1, <1>2, <1>5, <1>6 DEF Status

\* ... and a request leaves one.
LEMMA Requested ==
  ASSUME Inv, NEW d \in Dest, RequestManifest(d)
  PROVE  ManifestsHold /\ Open(d)'
<1>1. /\ mjobs \in Seq(ManifestRow) /\ DOMAIN mjobs = 1 .. Len(mjobs) /\ Len(mjobs) \in Nat
      /\ InTurn
  BY ManifestTypes DEF Inv, Typed
<1>2. CASE ManifestOf(d) \in Active
  <2>1. mjobs' = mjobs
    BY <1>2 DEF RequestManifest
  <2>2. ManifestJobs(d) # {}
    BY <1>2 DEF ManifestOf, Active
  <2>3. Open(d)
    BY <1>2, <2>2, LastManifest DEF Open, Active
  <2>4. QED
    BY <2>1, <2>3, SameManifests DEF Open, ManifestJobs
<1>3. CASE ManifestOf(d) \notin Active
  <2> DEFINE e == [dest |-> d, status |-> "pending", owner |-> 0, retryable |-> TRUE]
             n == Len(mjobs) + 1
  <2>1. e \in ManifestRow /\ e.dest = d /\ e.status = "pending"
    BY DEF ManifestRow, Status
  <2>2. mjobs' = Append(mjobs, e)
    BY <1>3 DEF RequestManifest
  <2> HIDE DEF e
  <2>3. /\ mjobs' \in Seq(ManifestRow) /\ Len(mjobs') = n
        /\ DOMAIN mjobs' = DOMAIN mjobs \union {n}
        /\ n \notin DOMAIN mjobs /\ n \in Nat
        /\ mjobs'[n] = e /\ \A j \in DOMAIN mjobs : mjobs'[j] = mjobs[j] /\ j < n
    BY <1>1, <2>1, <2>2, OneMore
  <2>4. ManifestsMove
    BY <1>1, <2>3 DEF ManifestsMove
  <2>5. ASSUME NEW j \in DOMAIN mjobs, mjobs[j].dest = d
        PROVE  mjobs[j].status \notin Active
    <3> DEFINE mine == ManifestJobs(d)
               active == {i \in mine : mjobs[i].status \in Active}
    <3>1. SUFFICES ASSUME mjobs[j].status \in Active PROVE FALSE
      OBVIOUS
    <3>2. j \in active /\ active # {} /\ mine # {} /\ active \in SUBSET (1 .. Len(mjobs))
      BY <1>1, <2>5, <3>1 DEF ManifestJobs
    <3>3. ManifestOf(d) = mjobs[CHOOSE i \in active : \A k \in active : k <= i].status
      BY <3>2 DEF ManifestOf
    <3>4. \E i \in active : \A k \in active : k <= i
      <4> HIDE DEF active
      <4>1. QED
        BY <1>1, <3>2, Largest
    <3>5. QED
      BY <1>3, <3>3, <3>4
  <2> HIDE DEF n
  <2>6. InTurn'
    <3>1. SUFFICES ASSUME NEW j \in DOMAIN mjobs', NEW k \in DOMAIN mjobs',
                          j < k, mjobs'[j].dest = mjobs'[k].dest
                   PROVE  mjobs'[j].status \notin Active
      BY DEF InTurn
    <3>2. j \in DOMAIN mjobs /\ j \in Nat
      BY <1>1, <2>3, <3>1
    <3>3. CASE k \in DOMAIN mjobs
      BY <1>1, <2>3, <3>1, <3>2, <3>3 DEF InTurn
    <3>4. CASE k = n
      BY <2>1, <2>3, <2>5, <3>1, <3>2, <3>4
    <3>5. QED
      BY <2>3, <3>3, <3>4
  <2>7. Open(d)'
    <3>1. /\ n \in ManifestJobs(d)' /\ mjobs'[n].status # "synced"
          /\ \A k \in ManifestJobs(d)' : k <= n
      BY <1>1, <2>1, <2>3 DEF ManifestJobs
    <3>2. QED
      BY <3>1 DEF Open
  <2>8. ASSUME NEW c \in Dest, Open(c), c # d PROVE Open(c)'
    <3>1. ManifestJobs(c)' = ManifestJobs(c)
      BY <2>1, <2>3, <2>8 DEF ManifestJobs
    <3>2. QED
      BY <2>3, <2>8, <3>1 DEF Open, ManifestJobs
  <2>9. QED
    BY <2>4, <2>6, <2>7, <2>8 DEF ManifestsHold
<1>4. QED
  BY <1>2, <1>3

-----------------------------------------------------------------------------
(* The callers and the worker.                                              *)

\* A caller that does nothing,
LEMMA SameCaller ==
  ASSUME NEW c, Calling(c), DOMAIN jobs \subseteq DOMAIN jobs', files \subseteq files',
         client'[c] = client[c]
  PROVE  Calling(c)'
BY DEF Calling, Copied

\* or is done.
LEMMA IdleCaller ==
  ASSUME NEW c, client'[c].pc = "idle"
  PROVE  Calling(c)'
BY DEF Calling

\* No job goes away.
LEMMA Domains ==
  ASSUME Typed, JobsMove
  PROVE  DOMAIN jobs \subseteq DOMAIN jobs'
BY JobTypes DEF JobsMove

\* No caller does anything.
LEMMA SameCallers ==
  ASSUME Inv, JobsMove, files \subseteq files', client' = client
  PROVE  client' \in [Client -> CallState] /\ \A c \in Client : Calling(c)'
<1>1. DOMAIN jobs \subseteq DOMAIN jobs'
  BY Domains DEF Inv
<1>2. \A c \in Client : Calling(c)
  BY DEF Inv
<1>3. QED
  BY <1>1, <1>2, SameCaller DEF Inv, Typed

\* One does.
LEMMA OneCaller ==
  ASSUME Inv, JobsMove, files \subseteq files', NEW c \in Client, NEW p \in CallState,
         client' = [client EXCEPT ![c] = p], Calling(c)'
  PROVE  client' \in [Client -> CallState] /\ \A b \in Client : Calling(b)'
<1>1. DOMAIN jobs \subseteq DOMAIN jobs'
  BY Domains DEF Inv
<1>2. client \in [Client -> CallState] /\ \A b \in Client : Calling(b)
  BY DEF Inv, Typed
<1>3. client' \in [Client -> CallState] /\ \A b \in Client \ {c} : client'[b] = client[b]
  BY <1>2
<1>4. \A b \in Client \ {c} : Calling(b)'
  BY <1>1, <1>2, <1>3, SameCaller
<1>5. QED
  BY <1>3, <1>4

\* The worker's job stays with its record as long as nothing of the two is written
\* that it does not write itself.
LEMMA StaysInStep ==
  ASSUME Inv, JobsHold, RecordsHold, w.job \in DOMAIN jobs, w'.job = w.job, w'.dest = w.dest,
         run' = run, Owned => InStep, Owned'
  PROVE  Owned /\ InStep'
<1> DEFINE j == w.job
           g == jobs[j].gen
<1>1. Held(jobs[j], jobs'[j]) /\ g \in Gen
  BY JobTypes DEF JobsHold, Inv
<1>2. jobs'[j].status = "syncing" /\ jobs'[j].owner = run
  BY DEF Owned
<1>3. Owned /\ jobs'[j].gen = g /\ jobs'[j].done = jobs[j].done
  BY <1>1, <1>2 DEF Held, Owned
<1>4. ~ Unused(g)
  BY <1>3 DEF Unused, Owned, Active
<1>5. HeldRecord(record[g], record'[g])
  BY <1>1, <1>4 DEF RecordsHold, Replanned
<1>6. QED
  BY <1>3, <1>5 DEF InStep, HeldRecord

\* A step that leaves the worker alone keeps what is true of its job ...
LEMMA SameWorker ==
  ASSUME Inv, JobsHold, RecordsHold, files \subseteq files', w' = w, run' = run
  PROVE  Working'
<1>1. Working /\ DOMAIN jobs \subseteq DOMAIN jobs'
  BY Domains, HoldMoves DEF Inv
<1>2. \A j \in DOMAIN jobs : jobs'[j].gen = jobs[j].gen /\ jobs[j].gen \in Gen
  BY JobTypes DEF JobsHold, Held, Inv
<1>3. ASSUME w.pc \in {"start", "copying", "mark", "finish"}, Owned' PROVE InStep'
  <2>1. w.job \in DOMAIN jobs /\ (Owned => InStep)
    BY <1>1, <1>3 DEF Working, OnJob
  <2>2. QED
    BY <1>3, <2>1, StaysInStep
<1>4. ASSUME w.pc \in {"request", "warn"}, record'[jobs'[w.job].gen].status = "synced"
      PROVE  record'[jobs'[w.job].gen].dest = w.dest
  <2> DEFINE g == jobs[w.job].gen
  <2>1. w.job \in DOMAIN jobs
    BY <1>1, <1>4 DEF Working, OnJob
  <2>2. jobs'[w.job].gen = g /\ g \in Gen
    BY <1>2, <2>1
  <2>3. HeldRecord(record[g], record'[g])
    BY <1>4, <2>2 DEF RecordsHold, Replanned
  <2>4. record[g].status = "synced" /\ record'[g].dest = record[g].dest
    BY <1>4, <2>2, <2>3 DEF HeldRecord
  <2>5. QED
    BY <1>1, <1>4, <2>2, <2>4 DEF Working
<1>5. w.pc \in OnJob => w.job \in DOMAIN jobs'
  BY <1>1 DEF Working
<1>6. w.pc = "mark" => <<w.dest, jobs'[w.job].gen, FileOf(NextOf(w.todo))>> \in files'
  <2>1. SUFFICES ASSUME w.pc = "mark"
                 PROVE  <<w.dest, jobs'[w.job].gen, FileOf(NextOf(w.todo))>> \in files'
    OBVIOUS
  <2>2. w.job \in DOMAIN jobs /\ <<w.dest, jobs[w.job].gen, FileOf(NextOf(w.todo))>> \in files
    BY <1>1, <2>1 DEF Working, OnJob
  <2>3. QED
    BY <1>2, <2>2
<1>7. QED
  BY <1>1, <1>3, <1>4, <1>5, <1>6 DEF Working

\* A worker that is free is neither.
LEMMA FreeWorker ==
  ASSUME w'.pc \in {"off", "idle"}
  PROVE  Working' /\ Publishing'
BY DEF Working, Publishing, OnJob, OnManifest

\* What is listed stays so while no record becomes synced.
LEMMA StaysListed ==
  ASSUME RecordsHold, NEW d, NEW S, ListedIn(d, S)
  PROVE  \A g \in Gen : record'[g].status = "synced" /\ record'[g].dest = d => g \in S
BY DEF RecordsHold, HeldRecord, Replanned, ListedIn

\* ... and of its manifest.
LEMMA SamePublisher ==
  ASSUME Inv, RecordsHold, ManifestsMove, w' = w, published' = published
  PROVE  Publishing'
<1>1. Publishing /\ DOMAIN mjobs \subseteq DOMAIN mjobs'
  BY ManifestTypes DEF Inv, ManifestsMove
<1>2. \A j \in DOMAIN mjobs : mjobs'[j].dest = mjobs[j].dest
  BY DEF ManifestsMove
<1>3. w.pc = "upload" => ListedIn(w.dest, w.snap)'
  BY <1>1, StaysListed DEF Publishing, ListedIn
<1>4. w.pc \in {"msync", "mclear"} => ListedIn(w.dest, published[w.dest])'
  BY <1>1, StaysListed DEF Publishing, ListedIn
<1>5. QED
  BY <1>1, <1>2, <1>3, <1>4 DEF Publishing

\* What the manifests list stays current, but for the generation the worker is at.
LEMMA StaysCurrent ==
  ASSUME Inv, RecordsHold, ManifestsHold, published' = published, orphaned \subseteq orphaned',
         \A g \in Gen : /\ w.pc \in {"request", "warn"} /\ jobs[w.job].gen = g
                        /\ record'[g].status = "synced"
                        => Current(g)'
  PROVE  \A g \in Gen : Current(g)'
<1>1. SUFFICES ASSUME NEW g \in Gen, record'[g].status = "synced" PROVE Current(g)'
  BY DEF Current
<1>2. HeldRecord(record[g], record'[g])
  BY <1>1 DEF RecordsHold, Replanned
<1>3. /\ record[g].status = "synced" /\ record'[g].dest = record[g].dest
      /\ record[g].warned => record'[g].warned
  BY <1>1, <1>2 DEF HeldRecord
<1>4. Current(g)
  BY DEF Inv
<1>5. CASE Open(record[g].dest)
  <2>1. record[g].dest \in Dest
    <3>1. PICK j \in DOMAIN mjobs : mjobs[j].dest = record[g].dest
      BY <1>5 DEF Open, ManifestJobs
    <3>2. QED
      BY <3>1, ManifestTypes DEF Inv
  <2> DEFINE d == record[g].dest
  <2>2. Open(d)' /\ record'[g].dest = d
    <3>1. \A e \in Dest : Open(e) => Open(e)'
      BY DEF ManifestsHold
    <3>2. PICK e \in Dest : e = record[g].dest
      BY <2>1
    <3>3. Open(e)'
      BY <1>5, <3>1, <3>2
    <3>4. \E j \in DOMAIN mjobs' : /\ mjobs'[j].dest = e /\ mjobs'[j].status # "synced"
                                   /\ \A k \in DOMAIN mjobs' : mjobs'[k].dest = e => k <= j
      BY <3>3 DEF Open, ManifestJobs
    <3>5. \E j \in DOMAIN mjobs' :
             /\ mjobs'[j].dest = record'[g].dest /\ mjobs'[j].status # "synced"
             /\ \A k \in DOMAIN mjobs' : mjobs'[k].dest = record'[g].dest => k <= j
      BY <1>3, <3>2, <3>4
    <3>6. Open(record[g].dest)'
      BY <3>5 DEF Open, ManifestJobs
    <3>7. QED
      BY <1>3, <3>6
  <2>3. QED
    BY <2>2 DEF Current
<1>6. CASE w.pc \in {"request", "warn"} /\ jobs[w.job].gen = g
  BY <1>1, <1>6
<1>7. CASE record[g].warned \/ g \in orphaned \/ g \in published[record[g].dest]
  BY <1>3, <1>7 DEF Current
<1>8. QED
  BY <1>3, <1>4, <1>5, <1>6, <1>7 DEF Current

-----------------------------------------------------------------------------
(* What the steps have in common.                                           *)

\* A generation stays single when no job is added and the records are held.
LEMMA SingleHolds ==
  ASSUME Inv, JobsMove, RecordsHold, Len(jobs') = Len(jobs)
  PROVE  Single'
<1>1. \A g \in Gen : record'[g].status \in {record[g].status, "pending", "syncing", "failed"}
  BY DEF RecordsHold, HeldRecord, Replanned
<1>2. \A j \in DOMAIN jobs : jobs[j].gen \in Gen
  BY JobTypes DEF Inv
<1>3. QED
  BY <1>1, <1>2, SingleStays

\* A step that leaves the worker alone.
LEMMA ByOthers ==
  ASSUME Inv, JobsHold, RecordsHold, ManifestsHold, Single',
         client' \in [Client -> CallState], \A c \in Client : Calling(c)',
         UNCHANGED <<w, run, config, published, files, orphaned>>
  PROVE  Inv'
<1>1. JobsMove /\ ManifestsMove
  BY HoldMoves DEF ManifestsHold
<1>2. Typed'
  BY <1>1 DEF Typed, Inv, JobsMove, RecordsHold, ManifestsMove
<1>3. \A g \in Gen : OnDrive(g)'
  BY StaysOnDrive
<1>4. Working' /\ Publishing'
  BY <1>1, SameWorker, SamePublisher
<1>5. \A g \in Gen : Current(g)'
  <2>1. ASSUME NEW g \in Gen, w.pc \in {"request", "warn"}, jobs[w.job].gen = g
        PROVE  Current(g)'
    <3>1. w.job \in DOMAIN jobs
      BY <2>1 DEF Inv, Working, OnJob
    <3>2. jobs'[w.job].gen = g
      BY <2>1, <3>1 DEF JobsHold, Held
    <3>3. QED
      BY <2>1, <3>2 DEF Current
  <2>2. QED
    BY <2>1, StaysCurrent
<1>6. InTurn'
  BY DEF ManifestsHold
<1>7. QED
  BY <1>2, <1>3, <1>4, <1>5, <1>6 DEF Inv

\* A step of the worker that neither marks nor publishes anything.
LEMMA ByWorker ==
  ASSUME Inv, JobsMove, RecordsHold, ManifestsHold, Single', w' \in WorkerState,
         Working', Publishing', UNCHANGED <<client, run, config, published>>,
         files \subseteq files', \A f \in files' : f[1] \in Dest, orphaned \subseteq orphaned',
         \A g \in Gen : /\ w.pc \in {"request", "warn"} /\ jobs[w.job].gen = g
                        /\ record'[g].status = "synced"
                        => Current(g)'
  PROVE  Inv'
<1>1. Typed'
  BY DEF Typed, Inv, JobsMove, RecordsHold, ManifestsHold, ManifestsMove
<1>2. \A g \in Gen : OnDrive(g)'
  BY StaysOnDrive
<1>3. \A c \in Client : Calling(c)'
  BY SameCallers
<1>4. \A g \in Gen : Current(g)'
  BY StaysCurrent
<1>5. InTurn'
  BY DEF ManifestsHold
<1>6. QED
  BY <1>1, <1>2, <1>3, <1>4, <1>5 DEF Inv

\* The same when only its own state changes.
LEMMA ByWorkerAlone ==
  ASSUME Inv, w' \in WorkerState, Working', Publishing',
         UNCHANGED <<client, run, config, published, files, record, jobs, mjobs>>,
         orphaned \subseteq orphaned',
         \A g \in Gen : /\ w.pc \in {"request", "warn"} /\ jobs[w.job].gen = g
                        /\ record'[g].status = "synced"
                        => Current(g)'
  PROVE  Inv'
<1>1. JobsMove /\ Len(jobs') = Len(jobs) /\ RecordsHold /\ ManifestsHold
  BY SameJobs, HoldMoves, SameRecords, SameManifests DEF Inv
<1>2. Single'
  BY <1>1, SingleHolds
<1>3. \A f \in files' : f[1] \in Dest
  BY DEF Inv, Typed
<1>4. QED
  BY <1>1, <1>2, <1>3, ByWorker

\* The worker's state and its parts.
LEMMA WorkerTypes ==
  ASSUME Typed
  PROVE  /\ w \in WorkerState /\ w.job \in Nat /\ w.dest \in Remote
         /\ w.todo \subseteq AllItems /\ w.snap \subseteq Gen
         /\ Free \in WorkerState /\ Free.pc = "idle" /\ Off \in WorkerState /\ Off.pc = "off"
<1>1. w \in WorkerState /\ NoDest \in Remote
  BY DEF Typed, Remote
<1>2. Off \in WorkerState /\ Off.pc = "off"
  BY <1>1 DEF Off, WorkerState, OnJob, OnManifest
<1>3. Free \in WorkerState /\ Free.pc = "idle"
  BY <1>2 DEF Free, WorkerState, OnJob, OnManifest
<1>4. QED
  BY <1>1, <1>2, <1>3 DEF WorkerState

\* It goes on elsewhere.
LEMMA Goes ==
  ASSUME Typed, NEW pc \in {"off", "idle"} \union OnJob \union OnManifest, To(pc)
  PROVE  /\ w' \in WorkerState /\ w'.pc = pc /\ w'.job = w.job /\ w'.dest = w.dest
         /\ w'.todo = w.todo /\ w'.snap = w.snap
BY WorkerTypes DEF To, WorkerState

-----------------------------------------------------------------------------
(* The transactions.                                                        *)

\* A job is failed, and its record with it.
LEMMA FailsJob ==
  ASSUME Inv, NEW j \in DOMAIN jobs, FailJob(j)
  PROVE  /\ JobsHold /\ Len(jobs') = Len(jobs) /\ RecordsHold
         /\ \A g \in Gen : record'[g].status = "synced" => record'[g] = record[g]
<1>1. /\ jobs \in Seq(JobState) /\ jobs[j] \in JobState /\ jobs[j].gen \in Gen
      /\ record[jobs[j].gen] \in RecordState
  BY JobTypes, RecordTypes DEF Inv, Typed
<1>2. CASE record[jobs[j].gen].status = "synced" \/ jobs[j].status = "synced"
  BY <1>2, SameJobs, SameRecords DEF FailJob, Inv
<1>3. CASE ~(record[jobs[j].gen].status = "synced" \/ jobs[j].status = "synced")
  <2> DEFINE e == Closed(jobs[j])
             q == [record[jobs[j].gen] EXCEPT !.status = "failed", !.warned = FALSE]
  <2>1. jobs' = [jobs EXCEPT ![j] = e] /\ record' = [record EXCEPT ![jobs[j].gen] = q]
    BY <1>3 DEF FailJob
  <2>2. e \in JobState /\ Held(jobs[j], e)
    BY <1>1, ClosedJob
  <2>3. q \in RecordState /\ HeldRecord(record[jobs[j].gen], q) /\ q.status = "failed"
    BY <1>1, FailedRecord DEF RecordState
  <2> HIDE DEF e, q
  <2>4. /\ jobs' \in Seq(JobState) /\ Len(jobs') = Len(jobs) /\ jobs'[j] = e
        /\ \A i \in DOMAIN jobs \ {j} : jobs'[i] = jobs[i]
    BY <1>1, <2>1, <2>2, OneEntry
  <2>5. JobsHold
    <3>1. Len(jobs) <= Len(jobs')
      BY <2>4, JobTypes DEF Inv
    <3>2. QED
      BY <2>2, <2>4, <3>1 DEF JobsHold, Held
  <2>6. /\ RecordsHold /\ record'[jobs[j].gen] = q
        /\ \A h \in Gen \ {jobs[j].gen} : record'[h] = record[h]
    BY <1>1, <2>1, <2>3, OneRecord DEF Inv
  <2>7. QED
    BY <2>3, <2>4, <2>5, <2>6
<1>4. QED
  BY <1>2, <1>3

\* Records are failed, but no synced one.
LEMMA FailsRecords ==
  ASSUME Inv, NEW S, \A g \in S : record[g].status # "synced",
         record' = [g \in Gen |-> IF g \in S
                                  THEN [record[g] EXCEPT !.status = "failed", !.warned = FALSE]
                                  ELSE record[g]]
  PROVE  RecordsHold /\ \A g \in Gen : record'[g].status = "synced" => record'[g] = record[g]
<1>1. ASSUME NEW g \in Gen
      PROVE  /\ record'[g] \in RecordState /\ HeldRecord(record[g], record'[g])
             /\ record'[g].status = "synced" => record'[g] = record[g]
  <2>1. record[g] \in RecordState
    BY RecordTypes DEF Inv
  <2>2. CASE g \in S
    <3> DEFINE q == [record[g] EXCEPT !.status = "failed", !.warned = FALSE]
    <3>1. q \in RecordState /\ HeldRecord(record[g], q) /\ q.status = "failed"
      BY <2>1, FailedRecord DEF RecordState
    <3>2. record'[g] = q
      BY <2>2
    <3>3. QED
      BY <3>1, <3>2
  <2>3. CASE g \notin S
    BY <2>1, <2>3 DEF HeldRecord
  <2>4. QED
    BY <2>2, <2>3
<1>2. RecordsHold
  <2>1. record' = [g \in Gen |-> record'[g]]
    OBVIOUS
  <2>2. \A g \in Gen : record'[g] \in RecordState /\ HeldRecord(record[g], record'[g])
    BY <1>1
  <2>3. QED
    BY <2>1, <2>2, AllRecords DEF Inv
<1>3. QED
  BY <1>1, <1>2

\* Leases that are over, on the same Pod ...
LEMMA Reconciles ==
  ASSUME Inv, NEW expired \in SUBSET Leased(jobs), NEW mexpired \in SUBSET Leased(mjobs),
         Reconcile(expired, mexpired)
  PROVE  JobsHold /\ Len(jobs') = Len(jobs) /\ RecordsHold /\ ManifestsHold
<1> DEFINE open == {j \in expired : record[jobs[j].gen].status # "synced"}
           S == {g \in Gen : \E j \in open : jobs[j].gen = g}
<1>1. jobs' = [j \in DOMAIN jobs |-> IF j \in open THEN Closed(jobs[j]) ELSE jobs[j]]
  BY DEF Reconcile
<1>2. record' = [g \in Gen |-> IF g \in S
                               THEN [record[g] EXCEPT !.status = "failed", !.warned = FALSE]
                               ELSE record[g]]
  BY DEF Reconcile
<1>3. mjobs' = [j \in DOMAIN mjobs |-> IF j \in mexpired THEN Closed(mjobs[j]) ELSE mjobs[j]]
  BY DEF Reconcile
<1>4. \A g \in S : record[g].status # "synced"
  OBVIOUS
<1>5. \A j \in DOMAIN mjobs : mjobs'[j] \in ManifestRow /\ MHeld(mjobs[j], mjobs'[j])
  <2>1. SUFFICES ASSUME NEW j \in DOMAIN mjobs
                 PROVE  mjobs'[j] \in ManifestRow /\ MHeld(mjobs[j], mjobs'[j])
    OBVIOUS
  <2>2. mjobs[j] \in ManifestRow /\ MHeld(mjobs[j], mjobs[j])
    BY ManifestTypes DEF Inv, MHeld
  <2>3. mjobs'[j] = Closed(mjobs[j]) \/ mjobs'[j] = mjobs[j]
    BY <1>3
  <2>4. QED
    BY <2>2, <2>3, ClosedManifest
<1>6. mjobs' = [j \in DOMAIN mjobs |-> mjobs'[j]]
  BY <1>3
<1> HIDE DEF open, S
<1>7. JobsHold /\ Len(jobs') = Len(jobs)
  BY <1>1, SomeClosed DEF Inv
<1>8. RecordsHold
  BY <1>2, <1>4, FailsRecords
<1>9. ManifestsHold
  BY <1>5, <1>6, AllManifests
<1>10. QED
  BY <1>7, <1>8, <1>9

\* ... and all of them on a new one.
LEMMA ReconcilesRestored ==
  ASSUME Inv, ReconcileRestored
  PROVE  JobsHold /\ Len(jobs') = Len(jobs) /\ RecordsHold /\ ManifestsHold
<1> DEFINE open == {j \in DOMAIN jobs : jobs[j].status \in Active}
           S == {g \in Gen : (\E j \in open : jobs[j].gen = g) /\ record[g].status # "synced"}
<1>1. jobs' = [j \in DOMAIN jobs |-> IF j \in open THEN Closed(jobs[j]) ELSE jobs[j]]
  BY DEF ReconcileRestored
<1>2. record' = [g \in Gen |-> IF g \in S
                               THEN [record[g] EXCEPT !.status = "failed", !.warned = FALSE]
                               ELSE record[g]]
  BY DEF ReconcileRestored
<1>3. mjobs' = [j \in DOMAIN mjobs |-> IF mjobs[j].status \in Active
                                       THEN [Closed(mjobs[j]) EXCEPT !.retryable = FALSE]
                                       ELSE mjobs[j]]
  BY DEF ReconcileRestored
<1>4. \A g \in S : record[g].status # "synced"
  OBVIOUS
<1>5. \A j \in DOMAIN mjobs : mjobs'[j] \in ManifestRow /\ MHeld(mjobs[j], mjobs'[j])
  <2>1. SUFFICES ASSUME NEW j \in DOMAIN mjobs
                 PROVE  mjobs'[j] \in ManifestRow /\ MHeld(mjobs[j], mjobs'[j])
    OBVIOUS
  <2>2. mjobs[j] \in ManifestRow /\ MHeld(mjobs[j], mjobs[j])
    BY ManifestTypes DEF Inv, MHeld
  <2> DEFINE k == Closed(mjobs[j])
             e == [k EXCEPT !.retryable = FALSE]
  <2>3. k \in ManifestRow /\ k.dest = mjobs[j].dest /\ k.status = "failed"
    BY <2>2, ClosedManifest
  <2> HIDE DEF k
  <2>4. e \in ManifestRow /\ e.dest = mjobs[j].dest /\ e.status = "failed"
    BY <2>3 DEF ManifestRow
  <2>5. MHeld(mjobs[j], e)
    BY <2>4 DEF MHeld, Active
  <2>6. mjobs'[j] = e \/ mjobs'[j] = mjobs[j]
    BY <1>3 DEF k
  <2>7. QED
    BY <2>2, <2>4, <2>5, <2>6
<1>6. mjobs' = [j \in DOMAIN mjobs |-> mjobs'[j]]
  BY <1>3
<1> HIDE DEF open, S
<1>7. JobsHold /\ Len(jobs') = Len(jobs)
  BY <1>1, SomeClosed DEF Inv
<1>8. RecordsHold
  BY <1>2, <1>4, FailsRecords
<1>9. ManifestsHold
  BY <1>5, <1>6, AllManifests
<1>10. QED
  BY <1>7, <1>8, <1>9

-----------------------------------------------------------------------------
(* The callers' steps.                                                      *)

\* The caller that does nothing.
LEMMA IdleIs == IdleClient \in CallState /\ IdleClient.pc = "idle"
<1>1. [dest |-> NoDest, meta |-> FALSE, done |-> {}] \in Plan
  BY DEF Plan, Remote
<1>2. IdleClient.gen \in Gen \union {IdleClient.gen}
  OBVIOUS
<1>3. /\ IdleClient.pc = "idle" /\ IdleClient.resync = FALSE /\ IdleClient.job = 0
      /\ IdleClient.plan = [dest |-> NoDest, meta |-> FALSE, done |-> {}]
      /\ IdleClient.gen = CHOOSE g \in Gen : TRUE
      /\ IdleClient = [pc |-> "idle", gen |-> CHOOSE g \in Gen : TRUE,
                       plan |-> [dest |-> NoDest, meta |-> FALSE, done |-> {}],
                       resync |-> FALSE, job |-> 0]
  BY DEF IdleClient
<1>4. QED
  BY <1>1, <1>2, <1>3 DEF CallState

\* A caller has its type, and its plan has.
LEMMA CallerTypes ==
  ASSUME Typed, NEW c \in Client
  PROVE  /\ client[c] \in CallState /\ client[c].plan \in Plan /\ client[c].job \in Nat
         /\ client[c].plan.dest \in Remote /\ client[c].plan.meta \in BOOLEAN
         /\ client[c].plan.done \subseteq AllItems
<1>1. client[c] \in CallState
  BY DEF Typed
<1>2. client[c].plan \in Plan /\ client[c].job \in Nat
  BY <1>1 DEF CallState
<1>3. QED
  BY <1>1, <1>2 DEF Plan

\* A caller stops.
LEMMA CallerStops ==
  ASSUME Inv, NEW c \in Client, client' = [client EXCEPT ![c] = IdleClient],
         JobsMove, files \subseteq files'
  PROVE  client' \in [Client -> CallState] /\ \A b \in Client : Calling(b)'
<1>1. IdleClient \in CallState /\ IdleClient.pc = "idle"
  BY IdleIs
<1>2. client'[c] = IdleClient
  BY DEF Inv, Typed
<1>3. Calling(c)'
  BY <1>1, <1>2, IdleCaller
<1>4. QED
  BY <1>1, <1>3, OneCaller

\* A caller that reads a record plans what is true of it.
LEMMA Begins ==
  ASSUME Inv, NEW c \in Client, NEW g \in Gen, NEW pc \in {"enqueue", "retry"},
         NEW resync \in BOOLEAN, Begin(c, g, pc, resync), JobsMove, files' = files
  PROVE  client' \in [Client -> CallState] /\ \A b \in Client : Calling(b)'
<1>1. PICK m \in BOOLEAN :
         client' = [client EXCEPT ![c] = [pc |-> pc, gen |-> g,
                                          plan |-> MakePlan(record[g], m, resync),
                                          resync |-> resync, job |-> 0]]
  BY DEF Begin
<1> DEFINE plan == MakePlan(record[g], m, resync)
           p == [pc |-> pc, gen |-> g, plan |-> plan, resync |-> resync, job |-> 0]
<1>2. record[g].done \subseteq AllItems /\ config \in Remote
  BY RecordTypes DEF Inv, Typed
<1>3. /\ plan.dest = config /\ plan.done \subseteq record[g].done
      /\ plan.done # {} => record[g].dest = config
  BY DEF MakePlan, Resumed
<1>4. plan \in Plan
  BY <1>2, <1>3 DEF MakePlan, Plan
<1>5. Copied(plan.dest, g, plan.done)
  <2>1. Copied(record[g].dest, g, record[g].done)
    BY DEF Inv, OnDrive
  <2>2. QED
    BY <1>3, <2>1 DEF Copied
<1> HIDE DEF plan
<1>6. p \in CallState
  BY <1>4 DEF CallState
<1>7. client' = [client EXCEPT ![c] = p]
  BY <1>1 DEF plan
<1>8. client'[c] = p
  BY <1>7 DEF Inv, Typed
<1>9. Calling(c)'
  BY <1>5, <1>8 DEF Calling, Copied
<1>10. QED
  <2> HIDE DEF p
  <2>1. QED
    BY <1>6, <1>7, <1>9, OneCaller

\* A caller whose request is saved.
LEMMA Saves ==
  ASSUME Inv, NEW c \in Client, NEW j \in Nat, j # 0 => j \in DOMAIN jobs', Saved(c, j),
         client[c].pc # "idle", JobsMove, files' = files
  PROVE  client' \in [Client -> CallState] /\ \A b \in Client : Calling(b)'
<1>1. CASE client' = [client EXCEPT ![c] = IdleClient]
  BY <1>1, CallerStops
<1>2. CASE j # 0 /\ client' = [client EXCEPT ![c] = [@ EXCEPT !.pc = "fail", !.job = j]]
  <2> DEFINE p == [client[c] EXCEPT !.pc = "fail", !.job = j]
  <2>1. client[c] \in CallState
    BY CallerTypes DEF Inv
  <2>2. /\ p \in CallState /\ p.pc = "fail" /\ p.job = j /\ p.gen = client[c].gen
        /\ p.plan = client[c].plan
    BY <2>1 DEF CallState
  <2>3. client' = [client EXCEPT ![c] = p]
    BY <1>2
  <2> HIDE DEF p
  <2>4. client'[c] = p
    BY <2>3 DEF Inv, Typed
  <2>5. client[c].gen \in Gen /\ Copied(client[c].plan.dest, client[c].gen, client[c].plan.done)
    BY DEF Inv, Calling
  <2>6. Calling(c)'
    BY <1>2, <2>2, <2>4, <2>5 DEF Calling, Copied
  <2>7. QED
    BY <2>2, <2>3, <2>6, OneCaller
<1>3. QED
  BY <1>1, <1>2 DEF Saved

\* The record and the job that a plan gives.
LEMMA Plans ==
  ASSUME NEW g \in Gen, NEW p \in Plan
  PROVE  /\ PlannedRecord(p) \in RecordState /\ PlannedRecord(p).status = "pending"
         /\ PlannedRecord(p).dest = p.dest /\ PlannedRecord(p).done = p.done
         /\ NewJob(g, p) \in JobState /\ NewJob(g, p).gen = g
BY DEF PlannedRecord, NewJob, RecordState, JobState, Plan, Status

\* A generation is completed.
LEMMA CompleteStep ==
  ASSUME Inv, NEW g \in Gen, Complete(g)
  PROVE  Inv'
<1>1. UNCHANGED <<config, record, jobs, mjobs, files, published, w, client, orphaned, run>>
  BY DEF Complete, remote, history
<1>2. JobsHold /\ JobsMove /\ Len(jobs') = Len(jobs) /\ RecordsHold /\ ManifestsHold
  BY <1>1, SameJobs, HoldMoves, SameRecords, SameManifests DEF Inv
<1>3. Single' /\ client' \in [Client -> CallState] /\ \A c \in Client : Calling(c)'
  BY <1>1, <1>2, SingleHolds, SameCallers
<1>4. QED
  BY <1>1, <1>2, <1>3, ByOthers

\* A caller reads the record.
LEMMA BeginStep ==
  ASSUME Inv, NEW c \in Client, NEW g \in Gen,
         StartEnqueue(c, g) \/ \E resync \in BOOLEAN : StartRetry(c, g, resync)
  PROVE  Inv'
<1>1. UNCHANGED <<config, record, jobs, mjobs, files, published, w, orphaned, run>>
  BY DEF StartEnqueue, StartRetry, local, remote, history
<1>2. JobsHold /\ JobsMove /\ Len(jobs') = Len(jobs) /\ RecordsHold /\ ManifestsHold
  BY <1>1, SameJobs, HoldMoves, SameRecords, SameManifests DEF Inv
<1>3. PICK pc \in {"enqueue", "retry"}, resync \in BOOLEAN : Begin(c, g, pc, resync)
  BY DEF StartEnqueue, StartRetry
<1>4. client' \in [Client -> CallState] /\ \A b \in Client : Calling(b)'
  BY <1>1, <1>2, <1>3, Begins
<1>5. Single'
  BY <1>2, SingleHolds
<1>6. QED
  BY <1>1, <1>2, <1>4, <1>5, ByOthers

\* enqueue: a job, and a record unless there is one.
LEMMA SaveEnqueueStep ==
  ASSUME Inv, NEW c \in Client, SaveEnqueue(c)
  PROVE  Inv'
<1> DEFINE g == client[c].gen
           p == client[c].plan
<1>1. /\ UNCHANGED <<config, mjobs, files, published, w, orphaned, run>>
      /\ client[c].pc # "idle"
  BY DEF SaveEnqueue, local, remote, history
<1>2. g \in Gen /\ p \in Plan /\ Copied(p.dest, g, p.done)
  BY <1>1, CallerTypes DEF Inv, Calling
<1>3. record[g] \in RecordState /\ record[g].status \in Status \union {"none"}
  BY <1>2, RecordTypes DEF Inv
<1>4. RecordsHold /\ record'[g].status \in {"pending", record[g].status}
      /\ record'[g].status # "none"
  <2>1. CASE record[g].status = "none"
    <3>1. Unused(g)
      BY <2>1 DEF Inv, Single, Unused
    <3>2. PlannedRecord(p) \in RecordState /\ Replanned(g, PlannedRecord(p))
      BY <1>2, <3>1, Plans DEF Replanned
    <3>3. record' = [record EXCEPT ![g] = PlannedRecord(p)]
      BY <2>1 DEF SaveEnqueue
    <3>4. RecordsHold /\ record'[g] = PlannedRecord(p)
      BY <1>2, <3>2, <3>3, OneRecord DEF Inv
    <3>5. QED
      BY <3>2, <3>4 DEF Replanned
  <2>2. CASE record[g].status # "none"
    BY <2>2, SameRecords DEF SaveEnqueue, Inv
  <2>3. QED
    BY <2>1, <2>2
<1>5. ManifestsHold
  BY <1>1, SameManifests
<1>6. CASE jobs' = jobs /\ \E j \in ActiveJobs(g) \union {0} : Saved(c, j)
  <2>1. JobsHold /\ JobsMove /\ Len(jobs') = Len(jobs)
    BY <1>6, SameJobs, HoldMoves DEF Inv
  <2>2. PICK j \in ActiveJobs(g) \union {0} : Saved(c, j)
    BY <1>6
  <2>3. j \in Nat /\ (j # 0 => j \in DOMAIN jobs')
    BY <1>6, JobTypes DEF ActiveJobs, Inv
  <2>4. client' \in [Client -> CallState] /\ \A b \in Client : Calling(b)'
    BY <1>1, <2>1, <2>2, <2>3, Saves
  <2>5. Single'
    BY <1>4, <2>1, SingleHolds
  <2>6. QED
    BY <1>1, <1>4, <1>5, <2>1, <2>4, <2>5, ByOthers
<1>7. CASE /\ ActiveJobs(g) = {} /\ record[g].status # "synced"
           /\ jobs' = Append(jobs, NewJob(g, p)) /\ Saved(c, Len(jobs) + 1)
  <2>1. NewJob(g, p) \in JobState /\ NewJob(g, p).gen = g
    BY <1>2, Plans
  <2>2. JobsHold /\ DOMAIN jobs' = DOMAIN jobs \union {Len(jobs) + 1} /\ Len(jobs) + 1 \in Nat
    BY <1>7, <2>1, MoreJobs, JobTypes DEF Inv
  <2>3. JobsMove
    BY <2>2, HoldMoves
  <2>4. client' \in [Client -> CallState] /\ \A b \in Client : Calling(b)'
    BY <1>1, <1>7, <2>2, <2>3, Saves
  <2>5. \A h \in Gen : record'[h].status \in {record[h].status, "pending", "syncing", "failed"}
    BY <1>4 DEF RecordsHold, HeldRecord, Replanned
  <2>6. record'[g].status \in {"pending", "syncing", "failed"}
    BY <1>3, <1>4, <1>7 DEF Status
  <2>7. Unused(NewJob(g, p).gen)
    BY <1>7, <2>1, UnusedIs
  <2>8. Single'
    <3> DEFINE e == NewJob(g, p)
    <3>1. /\ e \in JobState /\ jobs' = Append(jobs, e) /\ Unused(e.gen)
          /\ record'[e.gen].status \in {"pending", "syncing", "failed"}
      BY <1>7, <2>1, <2>6, <2>7
    <3> HIDE DEF e
    <3>2. QED
      BY <2>5, <3>1, SingleGrows
  <2>9. QED
    BY <1>1, <1>4, <1>5, <2>2, <2>4, <2>8, ByOthers
<1>8. QED
  BY <1>6, <1>7 DEF SaveEnqueue

\* retry: a job and a new plan, unless a job is active.
LEMMA SaveRetryStep ==
  ASSUME Inv, NEW c \in Client, SaveRetry(c)
  PROVE  Inv'
<1> DEFINE g == client[c].gen
           p == client[c].plan
<1>1. /\ UNCHANGED <<config, mjobs, files, published, w, orphaned, run>>
      /\ client[c].pc # "idle"
  BY DEF SaveRetry, local, remote, history
<1>2. g \in Gen /\ p \in Plan /\ Copied(p.dest, g, p.done)
  BY <1>1, CallerTypes DEF Inv, Calling
<1>3. ManifestsHold
  BY <1>1, SameManifests
<1>4. CASE /\ RetryAdmitted(g) /\ record' = [record EXCEPT ![g] = PlannedRecord(p)]
           /\ jobs' = Append(jobs, NewJob(g, p)) /\ Saved(c, Len(jobs) + 1)
  <2>1. Unused(g)
    BY <1>4, UnusedIs DEF RetryAdmitted
  <2>2. PlannedRecord(p) \in RecordState /\ Replanned(g, PlannedRecord(p))
    BY <1>2, <2>1, Plans DEF Replanned
  <2>3. RecordsHold /\ record'[g].status = "pending"
    BY <1>2, <1>4, <2>2, OneRecord DEF Inv, Replanned
  <2>4. NewJob(g, p) \in JobState /\ NewJob(g, p).gen = g
    BY <1>2, Plans
  <2>5. JobsHold /\ DOMAIN jobs' = DOMAIN jobs \union {Len(jobs) + 1} /\ Len(jobs) + 1 \in Nat
    BY <1>4, <2>4, MoreJobs, JobTypes DEF Inv
  <2>6. JobsMove
    BY <2>5, HoldMoves
  <2>7. client' \in [Client -> CallState] /\ \A b \in Client : Calling(b)'
    BY <1>1, <1>4, <2>5, <2>6, Saves
  <2>8. \A h \in Gen : record'[h].status \in {record[h].status, "pending", "syncing", "failed"}
    BY <2>3 DEF RecordsHold, HeldRecord, Replanned
  <2>9. Single'
    <3> DEFINE e == NewJob(g, p)
    <3>1. /\ e \in JobState /\ jobs' = Append(jobs, e) /\ Unused(e.gen)
          /\ record'[e.gen].status \in {"pending", "syncing", "failed"}
      BY <1>4, <2>1, <2>3, <2>4
    <3> HIDE DEF e
    <3>2. QED
      BY <2>8, <3>1, SingleGrows
  <2>10. QED
    BY <1>1, <1>3, <2>3, <2>5, <2>7, <2>9, ByOthers
<1>5. CASE (\E j \in ActiveJobs(g) : Saved(c, j)) /\ UNCHANGED <<record, jobs>>
  <2>1. JobsHold /\ JobsMove /\ Len(jobs') = Len(jobs) /\ RecordsHold
    BY <1>5, SameJobs, HoldMoves, SameRecords DEF Inv
  <2>2. PICK j \in ActiveJobs(g) : Saved(c, j)
    BY <1>5
  <2>3. j \in Nat /\ j \in DOMAIN jobs'
    BY <1>5, JobTypes DEF ActiveJobs, Inv
  <2>4. client' \in [Client -> CallState] /\ \A b \in Client : Calling(b)'
    BY <1>1, <2>1, <2>2, <2>3, Saves
  <2>5. Single'
    BY <2>1, SingleHolds
  <2>6. QED
    BY <1>1, <1>3, <2>1, <2>4, <2>5, ByOthers
<1>6. QED
  BY <1>4, <1>5 DEF SaveRetry

\* A request is refused.
LEMMA RefusedStep ==
  ASSUME Inv, NEW c \in Client, Refused(c)
  PROVE  Inv'
<1>1. /\ UNCHANGED <<config, record, jobs, mjobs, files, published, w, orphaned, run>>
      /\ client' = [client EXCEPT ![c] = IdleClient]
  BY DEF Refused, local, remote, history
<1>2. JobsHold /\ JobsMove /\ Len(jobs') = Len(jobs) /\ RecordsHold /\ ManifestsHold
  BY <1>1, SameJobs, HoldMoves, SameRecords, SameManifests DEF Inv
<1>3. Single' /\ client' \in [Client -> CallState] /\ \A b \in Client : Calling(b)'
  BY <1>1, <1>2, SingleHolds, CallerStops
<1>4. QED
  BY <1>1, <1>2, <1>3, ByOthers

\* A request that cannot be served is failed.
LEMMA FailEnqueuedStep ==
  ASSUME Inv, NEW c \in Client, FailEnqueued(c)
  PROVE  Inv'
<1>1. /\ UNCHANGED <<config, mjobs, files, published, w, orphaned, run>>
      /\ client' = [client EXCEPT ![c] = IdleClient] /\ FailJob(client[c].job)
  BY DEF FailEnqueued, local, remote, history
<1>2. client[c].job \in DOMAIN jobs
  BY DEF FailEnqueued, Inv, Calling
<1>3. JobsHold /\ JobsMove /\ Len(jobs') = Len(jobs) /\ RecordsHold /\ ManifestsHold
  BY <1>1, <1>2, FailsJob, HoldMoves, SameManifests
<1>4. Single' /\ client' \in [Client -> CallState] /\ \A b \in Client : Calling(b)'
  BY <1>1, <1>3, SingleHolds, CallerStops
<1>5. QED
  BY <1>1, <1>3, <1>4, ByOthers

\* A user asks for a manifest.
LEMMA RebuildManifestStep ==
  ASSUME Inv, RebuildManifest
  PROVE  Inv'
<1>1. UNCHANGED <<config, record, jobs, files, published, w, client, orphaned, run>>
  BY DEF RebuildManifest, local, remote, history
<1>2. PICK d \in Dest : RequestManifest(d)
  BY DEF RebuildManifest
<1>3. JobsHold /\ JobsMove /\ Len(jobs') = Len(jobs) /\ RecordsHold /\ ManifestsHold
  BY <1>1, <1>2, SameJobs, HoldMoves, SameRecords, Requested DEF Inv
<1>4. Single' /\ client' \in [Client -> CallState] /\ \A b \in Client : Calling(b)'
  BY <1>1, <1>3, SingleHolds, SameCallers
<1>5. QED
  BY <1>1, <1>3, <1>4, ByOthers

\* The worker closes what has lost its lease.
LEMMA WReconcileStep ==
  ASSUME Inv, WReconcile
  PROVE  Inv'
<1>1. UNCHANGED <<config, files, published, w, client, orphaned, run>>
  BY DEF WReconcile, local, remote, history
<1>2. PICK expired \in SUBSET Leased(jobs), mexpired \in SUBSET Leased(mjobs) :
         Reconcile(expired, mexpired)
  BY DEF WReconcile
<1>3. JobsHold /\ JobsMove /\ Len(jobs') = Len(jobs) /\ RecordsHold /\ ManifestsHold
  BY <1>2, Reconciles, HoldMoves
<1>4. Single' /\ client' \in [Client -> CallState] /\ \A b \in Client : Calling(b)'
  BY <1>1, <1>3, SingleHolds, SameCallers
<1>5. QED
  BY <1>1, <1>3, <1>4, ByOthers

-----------------------------------------------------------------------------
(* What is left to copy.                                                    *)

\* An item is an image or the metadata of one.
LEMMA ItemTypes ==
  ASSUME NEW i \in AllItems
  PROVE  /\ i[1] \in {"image", "metadata"} /\ i[2] \in Nat /\ 1 <= i[2]
         /\ i[1] = "metadata" => i = Meta(i[2])
<1>1. PICK g \in Gen : i \in Items(g)
  BY DEF AllItems
<1>2. PICK n \in 1 .. ImageCount[g] : i = Image(n) \/ i = Meta(n)
  BY <1>1 DEF Items
<1>3. n \in Nat /\ 1 <= n
  BY <1>2, DriveAssumption
<1>4. CASE i = Image(n)
  BY <1>3, <1>4 DEF Image
<1>5. CASE i = Meta(n)
  BY <1>3, <1>5 DEF Meta
<1>6. QED
  BY <1>2, <1>4, <1>5

\* The items of a generation are items, and there is one.
LEMMA ItemsOf ==
  ASSUME NEW g \in Gen
  PROVE  Items(g) \subseteq AllItems /\ Items(g) # {}
<1>1. 1 \in 1 .. ImageCount[g]
  BY DriveAssumption
<1>2. Image(1) \in Items(g)
  BY <1>1 DEF Items
<1>3. QED
  BY <1>2 DEF AllItems

\* The next item is one of them, and when it belongs to the metadata no image is left.
LEMMA NextIs ==
  ASSUME NEW todo \in SUBSET AllItems, todo # {}
  PROVE  /\ NextOf(todo) \in todo
         /\ NextOf(todo)[1] = "metadata" =>
               \A i \in todo : i[1] = "metadata" /\ NextOf(todo)[2] <= i[2]
<1> DEFINE images == {i \in todo : i[1] = "image"}
           due == IF images # {} THEN images ELSE todo
           N == {i[2] : i \in due}
<1>1. due \subseteq todo /\ due # {}
  OBVIOUS
<1>2. NextOf(todo) = CHOOSE i \in due : \A k \in due : i[2] <= k[2]
  BY DEF NextOf
<1>3. \E i \in due : \A k \in due : i[2] <= k[2]
  <2> HIDE DEF due
  <2>1. N \in SUBSET Nat
    BY <1>1, ItemTypes
  <2>2. N # {}
    BY <1>1
  <2>3. PICK n \in N : \A m \in N : n <= m
    <3> HIDE DEF N
    <3>1. QED
      BY <2>1, <2>2, Smallest
  <2>4. QED
    BY <2>3
<1>4. NextOf(todo) \in due /\ \A k \in due : NextOf(todo)[2] <= k[2]
  <2> HIDE DEF due
  <2>1. QED
    BY <1>2, <1>3
<1>5. ASSUME NextOf(todo)[1] = "metadata"
      PROVE  images = {} /\ due = todo
  BY <1>4, <1>5
<1>6. ASSUME NextOf(todo)[1] = "metadata", NEW i \in todo
      PROVE  i[1] = "metadata" /\ NextOf(todo)[2] <= i[2]
  BY <1>4, <1>5, <1>6, ItemTypes
<1>7. QED
  BY <1>1, <1>4, <1>6

\* What is planned to be copied is all of the metadata or none.
LEMMA StepsShaped ==
  ASSUME NEW g \in Gen, NEW done
  PROVE  Steps(g, done) \in SUBSET AllItems /\ Shaped(Steps(g, done))
<1> DEFINE images == {Image(i) : i \in 1 .. ImageCount[g]}
           metas == {Meta(i) : i \in 1 .. ImageCount[g]}
<1>1. Steps(g, done) = (images \ done) \union (IF metas \subseteq done THEN {} ELSE metas)
  BY DEF Steps
<1>2. images \subseteq AllItems /\ metas \subseteq AllItems
  BY DEF AllItems, Items
<1>3. \A i \in images : i[1] = "image"
  BY DEF Image
<1>4. Meta(1) \in metas
  BY DriveAssumption
<1> HIDE DEF images, metas
<1>5. Shaped(Steps(g, done))
  <2>1. SUFFICES ASSUME NEW m \in Steps(g, done), m[1] = "metadata"
                 PROVE  Meta(1) \in Steps(g, done)
    BY DEF Shaped
  <2>2. m \notin images
    BY <1>3, <2>1
  <2>3. ~(metas \subseteq done)
    BY <1>1, <2>1, <2>2
  <2>4. QED
    BY <1>1, <1>4, <2>3
<1>6. QED
  BY <1>1, <1>2, <1>5

\* The metadata are copied once and marked one after the other.
LEMMA RestShaped ==
  ASSUME NEW todo \in SUBSET AllItems, todo # {}, Shaped(todo), NEW rest,
         rest = todo \ {NextOf(todo)}
  PROVE  /\ rest \in SUBSET AllItems /\ Shaped(rest)
         /\ AfterMark(rest) \in {"finish", "start", "mark"}
         /\ AfterMark(rest) # "finish" => rest # {}
         /\ AfterMark(rest) = "mark" => FileOf(NextOf(rest)) = FileOf(NextOf(todo))
<1>1. /\ NextOf(todo) \in todo
      /\ NextOf(todo)[1] = "metadata" =>
            \A i \in todo : i[1] = "metadata" /\ NextOf(todo)[2] <= i[2]
  BY NextIs
<1>2. rest \in SUBSET AllItems
  OBVIOUS
<1>3. ASSUME NextOf(todo)[1] # "metadata", NEW m \in rest, m[1] = "metadata"
      PROVE  Meta(1) \in rest
  <2>1. NextOf(todo)[1] = "image" /\ m \in todo
    BY <1>1, <1>3, ItemTypes
  <2>2. Meta(1) \in todo
    BY <1>1, <1>3, <2>1 DEF Shaped
  <2>3. Meta(1)[1] = "metadata"
    BY DEF Meta
  <2>4. QED
    BY <1>3, <2>2, <2>3
<1>4. Shaped(rest)
  <2>1. SUFFICES ASSUME NEW i \in rest, NEW m \in rest, i[1] = "image", m[1] = "metadata"
                 PROVE  Meta(1) \in rest
    BY DEF Shaped
  <2>2. NextOf(todo)[1] # "metadata"
    BY <1>1, <2>1
  <2>3. QED
    BY <1>3, <2>1, <2>2
<1>5. ASSUME rest # {}, NextOf(rest)[1] = "metadata", NextOf(rest) # Meta(1)
      PROVE  FileOf(NextOf(rest)) = FileOf(NextOf(todo))
  <2> DEFINE n == NextOf(rest)
  <2>1. n \in rest /\ \A i \in rest : n[2] <= i[2]
    BY <1>2, <1>5, NextIs
  <2>2. n[2] \in Nat /\ 1 <= n[2] /\ n = Meta(n[2])
    BY <1>2, <1>5, <2>1, ItemTypes
  <2>3. Meta(1) \notin rest
    <3>1. SUFFICES ASSUME Meta(1) \in rest PROVE FALSE
      OBVIOUS
    <3>2. Meta(1)[2] = 1
      BY DEF Meta
    <3>3. n[2] <= 1
      BY <2>1, <3>1, <3>2
    <3>4. n[2] = 1
      BY <2>2, <3>3
    <3>5. QED
      BY <1>5, <2>2, <3>4
  <2>4. NextOf(todo)[1] = "metadata"
    BY <1>3, <1>5, <2>1, <2>3
  <2>5. QED
    BY <1>5, <2>4 DEF FileOf
<1>6. QED
  BY <1>2, <1>4, <1>5 DEF AfterMark

-----------------------------------------------------------------------------
(* The worker's steps on a job.                                             *)

\* The first of a set of numbers is one of them.
LEMMA FirstIs ==
  ASSUME NEW S \in SUBSET Nat, S # {}
  PROVE  First(S) \in S
BY Smallest DEF First

\* The worker starts.
LEMMA WStartStep ==
  ASSUME Inv, WStart
  PROVE  Inv'
<1>1. /\ UNCHANGED <<config, record, jobs, mjobs, files, published, client, orphaned, run>>
      /\ w.pc = "off" /\ w' = Free
  BY DEF WStart, local, remote, history
<1>2. w' \in WorkerState /\ Working' /\ Publishing'
  BY <1>1, WorkerTypes, FreeWorker DEF Inv
<1>3. QED
  BY <1>1, <1>2, ByWorkerAlone

\* It takes a job.
LEMMA WClaimStep ==
  ASSUME Inv, WClaim
  PROVE  Inv'
<1> DEFINE j == First(Pending)
           g == jobs[j].gen
           e == [jobs[j] EXCEPT !.status = "syncing", !.owner = run]
           q == [record[g] EXCEPT !.status = "syncing", !.warned = FALSE]
<1>1. /\ UNCHANGED <<config, mjobs, files, published, client, orphaned, run>>
      /\ w.pc = "idle" /\ jobs' = [jobs EXCEPT ![j] = e] /\ record' = [record EXCEPT ![g] = q]
      /\ w' = [w EXCEPT !.pc = "verify", !.job = j]
  BY DEF WClaim, local, remote, history
<1>2. Pending \in SUBSET Nat /\ Pending # {}
  BY JobTypes DEF WClaim, Pending, Inv
<1>3. j \in DOMAIN jobs /\ jobs[j].status = "pending"
  BY <1>2, FirstIs DEF Pending
<1>4. /\ jobs \in Seq(JobState) /\ jobs[j] \in JobState /\ g \in Gen /\ run \in Nat /\ j \in Nat
      /\ record[g] \in RecordState
  BY <1>3, JobTypes, RecordTypes DEF Inv, Typed
<1>5. e \in JobState /\ e.gen = g
  BY <1>4 DEF JobState, Status
<1>6. q \in RecordState /\ HeldRecord(record[g], q)
  BY <1>4, FailedRecord
<1>7. w' \in WorkerState /\ w'.pc = "verify" /\ w'.job = j
  BY <1>1, <1>4, WorkerTypes DEF Inv, WorkerState, OnJob, OnManifest
<1> HIDE DEF j, e, q
<1>8. /\ jobs' \in Seq(JobState) /\ Len(jobs') = Len(jobs) /\ jobs'[j] = e
      /\ DOMAIN jobs' = DOMAIN jobs
      /\ \A i \in DOMAIN jobs \ {j} : jobs'[i] = jobs[i]
  BY <1>1, <1>3, <1>4, <1>5, OneEntry
<1>9. JobsMove
  BY <1>3, <1>5, <1>8, JobTypes DEF Inv, JobsMove, Active
<1>10. RecordsHold
  <2> DEFINE h == g
  <2>1. h \in Gen /\ record' = [record EXCEPT ![h] = q] /\ HeldRecord(record[h], q)
    BY <1>1, <1>4, <1>6
  <2> HIDE DEF h
  <2>2. QED
    BY <1>6, <2>1, OneRecord DEF Inv
<1>11. Single' /\ ManifestsHold
  BY <1>1, <1>8, <1>9, <1>10, SingleHolds, SameManifests
<1>12. Working' /\ Publishing'
  BY <1>3, <1>7, <1>8 DEF Working, Publishing, OnJob, OnManifest
<1>13. \A f \in files' : f[1] \in Dest
  BY <1>1 DEF Inv, Typed
<1>14. QED
  BY <1>1, <1>7, <1>9, <1>10, <1>11, <1>12, <1>13, ByWorker

\* It verifies the sources, and reads the plan.
LEMMA WVerifyStep ==
  ASSUME Inv, WVerify
  PROVE  Inv'
<1> DEFINE g == jobs[w.job].gen
           todo == Steps(g, record[g].done)
<1>1. /\ UNCHANGED <<config, record, jobs, mjobs, files, published, client, orphaned, run>>
      /\ w.pc = "verify"
  BY DEF WVerify, local, remote, history
<1>2. w.job \in DOMAIN jobs
  BY <1>1 DEF Inv, Working, OnJob
<1>3. g \in Gen /\ record[g].dest \in Remote
  BY <1>2, JobTypes, RecordTypes DEF Inv
<1>4. CASE To("fail")
  <2>1. w' \in WorkerState /\ w'.pc = "fail" /\ w'.job = w.job
    BY <1>4, Goes DEF Inv, OnJob
  <2>2. Working' /\ Publishing'
    BY <1>1, <1>2, <2>1 DEF Working, Publishing, OnJob, OnManifest
  <2>3. QED
    BY <1>1, <2>1, <2>2, ByWorkerAlone
<1>5. ASSUME NEW m \in BOOLEAN, SourcesVerified(w.job, m),
             w' = [w EXCEPT !.pc = IF todo = {} THEN "finish" ELSE "start",
                            !.dest = record[g].dest, !.todo = todo]
      PROVE  Inv'
  <2>1. todo \in SUBSET AllItems /\ Shaped(todo)
    BY <1>3, StepsShaped
  <2>2. record[g].meta /\ jobs[w.job].done = record[g].done
    BY <1>5 DEF SourcesVerified
  <2> HIDE DEF todo
  <2>3. /\ w' \in WorkerState /\ w'.job = w.job /\ w'.dest = record[g].dest /\ w'.todo = todo
        /\ w'.pc \in {"finish", "start"} /\ (w'.pc = "start" => todo # {})
    BY <1>3, <1>5, <2>1, WorkerTypes DEF Inv, WorkerState, OnJob, OnManifest
  <2>4. InStep'
    BY <1>1, <2>2, <2>3 DEF InStep
  <2>5. Working' /\ Publishing'
    BY <1>1, <1>2, <2>1, <2>3, <2>4 DEF Working, Publishing, OnJob, OnManifest
  <2>6. QED
    BY <1>1, <2>3, <2>5, ByWorkerAlone
<1>6. QED
  BY <1>4, <1>5 DEF WVerify

\* A worker that goes on with its job.
LEMMA GoesOn ==
  ASSUME Inv, NEW pc \in {"copying", "fail", "warn", "mfail"}, To(pc),
         w.pc \in (IF pc = "warn" THEN {"request"} ELSE
                   IF pc = "mfail" THEN OnManifest \ {"mwarn"} ELSE OnJob),
         pc = "copying" => w.pc = "start" /\ w.dest \in Dest,
         UNCHANGED <<run, record, jobs, mjobs>>
  PROVE  w' \in WorkerState /\ Working' /\ Publishing'
<1>1. /\ w' \in WorkerState /\ w'.pc = pc /\ w'.job = w.job /\ w'.dest = w.dest
      /\ w'.todo = w.todo
  BY Goes DEF Inv, OnJob, OnManifest
<1>2. Owned' <=> Owned
  BY <1>1 DEF Owned
<1>3. InStep' <=> InStep
  BY <1>1 DEF InStep
<1>4. Working'
  BY <1>1, <1>2, <1>3 DEF Inv, Working, OnJob, OnManifest
<1>5. Publishing'
  BY <1>1 DEF Inv, Publishing, OnJob, OnManifest
<1>6. QED
  BY <1>1, <1>4, <1>5

\* A copy is started, or stopped.
LEMMA WStartCopyStep ==
  ASSUME Inv, WStartCopy
  PROVE  Inv'
<1>1. /\ UNCHANGED <<config, record, jobs, mjobs, files, published, client, orphaned, run>>
      /\ w.pc = "start"
  BY DEF WStartCopy, local, remote, history
<1>2. \/ To("copying") /\ w.dest \in Dest
      \/ To("fail")
  BY WorkerTypes DEF WStartCopy, Inv, Remote
<1>3. w' \in WorkerState /\ Working' /\ Publishing'
  BY <1>1, <1>2, GoesOn DEF OnJob
<1>4. QED
  BY <1>1, <1>3, ByWorkerAlone

\* A file is copied.
LEMMA WCopyStep ==
  ASSUME Inv, WCopy
  PROVE  Inv'
<1> DEFINE f == <<w.dest, jobs[w.job].gen, FileOf(NextOf(w.todo))>>
<1>1. /\ UNCHANGED <<config, record, jobs, mjobs, published, client, orphaned, run>>
      /\ w.pc = "copying" /\ files' = files \union {f} /\ To("mark")
  BY DEF WCopy, local, remote, history
<1>2. /\ w.dest \in Dest /\ w.job \in DOMAIN jobs /\ w.todo # {} /\ Shaped(w.todo)
      /\ Owned => InStep
  BY <1>1 DEF Inv, Working, OnJob
<1>3. JobsMove /\ Len(jobs') = Len(jobs) /\ RecordsHold /\ ManifestsHold
  BY <1>1, SameJobs, HoldMoves, SameRecords, SameManifests DEF Inv
<1>4. Single'
  BY <1>3, SingleHolds
<1>5. files \subseteq files' /\ \A h \in files' : h[1] \in Dest
  BY <1>1, <1>2 DEF Inv, Typed
<1>6. /\ w' \in WorkerState /\ w'.pc = "mark" /\ w'.job = w.job /\ w'.dest = w.dest
      /\ w'.todo = w.todo
  BY <1>1, Goes DEF Inv, OnJob
<1>7. /\ Owned' <=> Owned
      /\ InStep' <=> InStep
  BY <1>1, <1>6 DEF Owned, InStep
<1>8. <<w'.dest, jobs'[w'.job].gen, FileOf(NextOf(w'.todo))>> \in files'
  BY <1>1, <1>6
<1>9. Working' /\ Publishing'
  BY <1>1, <1>2, <1>6, <1>7, <1>8 DEF Working, Publishing, OnJob, OnManifest
<1>10. QED
  BY <1>1, <1>3, <1>4, <1>5, <1>6, <1>9, ByWorker

\* The state of a manifest that nobody writes.
LEMMA SameCurrent ==
  ASSUME NEW g, Current(g), w.pc \notin {"request", "warn"}, mjobs' = mjobs,
         published' = published, orphaned \subseteq orphaned',
         record'[g].status = record[g].status, record'[g].dest = record[g].dest,
         record'[g].warned = record[g].warned
  PROVE  Current(g)'
<1>1. Open(record[g].dest) => Open(record[g].dest)'
  BY DEF Open, ManifestJobs
<1>2. QED
  BY <1>1 DEF Current

\* An item is marked as copied, by a worker that still has the lease.
LEMMA WMarkStep ==
  ASSUME Inv, WMark
  PROVE  Inv'
<1>1. /\ UNCHANGED <<config, mjobs, files, published, client, orphaned, run>>
      /\ w.pc = "mark"
  BY DEF WMark, local, remote, history
<1>2. CASE To("fail") /\ UNCHANGED <<record, jobs>>
  BY <1>1, <1>2, GoesOn, ByWorkerAlone DEF OnJob
<1> DEFINE j == w.job
           g == jobs[j].gen
           item == NextOf(w.todo)
           rest == w.todo \ {item}
           e == [jobs[j] EXCEPT !.done = jobs[j].done \union {item}]
           q == [record[g] EXCEPT !.done = record[g].done \union {item}]
<1>3. CASE Owned /\ MarkItem(j, item) /\ w' = [w EXCEPT !.todo = rest, !.pc = AfterMark(rest)]
  <2>1. /\ jobs' = [jobs EXCEPT ![j] = e] /\ record' = [record EXCEPT ![g] = q]
    BY <1>3 DEF MarkItem
  <2>2. /\ j \in DOMAIN jobs /\ w.todo # {} /\ Shaped(w.todo) /\ InStep
        /\ <<w.dest, g, FileOf(item)>> \in files
    BY <1>1, <1>3 DEF Inv, Working, OnJob
  <2>3. /\ jobs \in Seq(JobState) /\ jobs[j] \in JobState /\ g \in Gen
        /\ record[g] \in RecordState /\ record \in [Gen -> RecordState]
        /\ w.todo \in SUBSET AllItems
    BY <2>2, JobTypes, RecordTypes, WorkerTypes DEF Inv, Typed
  <2>4. item \in AllItems
    BY <2>2, <2>3, NextIs
  <2>5. /\ rest \in SUBSET AllItems /\ Shaped(rest)
        /\ AfterMark(rest) \in {"finish", "start", "mark"}
        /\ AfterMark(rest) # "finish" => rest # {}
        /\ AfterMark(rest) = "mark" => FileOf(NextOf(rest)) = FileOf(item)
    BY <2>2, <2>3, RestShaped
  <2>6. /\ e \in JobState /\ e.gen = g /\ e.status = jobs[j].status /\ e.owner = jobs[j].owner
        /\ e.done = jobs[j].done \union {item}
    BY <2>3, <2>4 DEF JobState
  <2>7. /\ q \in RecordState /\ q.status = record[g].status /\ q.dest = record[g].dest
        /\ q.warned = record[g].warned /\ q.meta = record[g].meta
        /\ q.done = record[g].done \union {item}
    BY <2>3, <2>4 DEF RecordState
  <2> HIDE DEF item, rest, e, q
  <2>8. /\ w' \in WorkerState /\ w'.job = j /\ w'.dest = w.dest /\ w'.todo = rest
        /\ w'.pc = AfterMark(rest)
    BY <1>3, <2>5, WorkerTypes DEF Inv, WorkerState, OnJob, OnManifest
  <2>9. /\ jobs' \in Seq(JobState) /\ Len(jobs') = Len(jobs) /\ jobs'[j] = e
        /\ DOMAIN jobs' = DOMAIN jobs
        /\ \A i \in DOMAIN jobs \ {j} : jobs'[i] = jobs[i]
    BY <2>1, <2>2, <2>3, <2>6, OneEntry
  <2>10. /\ record' \in [Gen -> RecordState] /\ record'[g] = q
         /\ \A h \in Gen \ {g} : record'[h] = record[h]
    BY <2>1, <2>3, <2>7
  <2>11. JobsMove
    BY <2>6, <2>9, JobTypes DEF Inv, JobsMove
  <2>12. \A h \in Gen : /\ record'[h].status = record[h].status
                        /\ record'[h].dest = record[h].dest
                        /\ record'[h].warned = record[h].warned
    BY <2>7, <2>10
  <2>13. Single'
    <3>1. \A i \in DOMAIN jobs : jobs[i].gen \in Gen
      BY JobTypes DEF Inv
    <3>2. QED
      BY <2>9, <2>11, <2>12, <3>1, SingleStays
  <2>14. ASSUME NEW h \in Gen PROVE OnDrive(h)'
    <3>1. OnDrive(h)
      BY DEF Inv
    <3>2. CASE h # g
      BY <1>1, <2>10, <3>1, <3>2 DEF OnDrive, Copied
    <3>3. CASE h = g
      <4>1. record[g].status # "synced"
        BY <1>3, <2>2 DEF Inv, Single, Owned, Active
      <4>2. w.dest = record[g].dest
        BY <2>2 DEF InStep
      <4>3. \A i \in record[g].done : <<record[g].dest, g, FileOf(i)>> \in files
        BY <3>1, <3>3 DEF OnDrive, Copied
      <4>4. \A i \in q.done : <<q.dest, g, FileOf(i)>> \in files
        BY <2>2, <2>7, <4>2, <4>3
      <4>5. QED
        BY <1>1, <2>7, <2>10, <3>3, <4>1, <4>4 DEF OnDrive, Copied
    <3>4. QED
      BY <3>2, <3>3
  <2>15. \A c \in Client : Calling(c)'
    BY <1>1, <2>11, SameCallers
  <2>16. InStep'
    <3>1. w.dest = record[g].dest /\ record[g].meta /\ jobs[j].done = record[g].done
      BY <2>2 DEF InStep
    <3>2. jobs'[w'.job].gen = g /\ record'[g] = q /\ jobs'[w'.job] = e
      BY <2>6, <2>8, <2>9, <2>10
    <3>3. w'.dest = q.dest /\ q.meta /\ e.done = q.done
      BY <2>6, <2>7, <2>8, <3>1
    <3>4. QED
      BY <3>2, <3>3 DEF InStep
  <2>17. w'.pc = "mark" => <<w'.dest, jobs'[w'.job].gen, FileOf(NextOf(w'.todo))>> \in files'
    BY <1>1, <2>2, <2>5, <2>6, <2>8, <2>9
  <2>18. Working'
    <3>1. /\ w'.pc \in OnJob => w'.job \in DOMAIN jobs'
          /\ w'.pc \in {"start", "copying", "mark"} => w'.todo # {} /\ Shaped(w'.todo)
      BY <2>2, <2>5, <2>8, <2>9
    <3>2. w'.pc \in {"finish", "start", "mark"} /\ w'.dest \in Dest
      BY <1>1, <2>5, <2>8 DEF Inv, Working
    <3>3. QED
      BY <2>16, <2>17, <3>1, <3>2 DEF Working
  <2>19. Publishing'
    BY <2>5, <2>8 DEF Publishing, OnManifest
  <2>20. ASSUME NEW h \in Gen PROVE Current(h)'
    BY <1>1, <2>12, SameCurrent DEF Inv
  <2>21. InTurn'
    BY <1>1 DEF Inv, InTurn
  <2>22. Typed'
    BY <1>1, <2>8, <2>9, <2>10 DEF Inv, Typed
  <2>23. QED
    BY <2>13, <2>14, <2>15, <2>18, <2>19, <2>20, <2>21, <2>22 DEF Inv
<1>4. QED
  BY <1>2, <1>3 DEF WMark

\* The job is synced, and its record with it.
LEMMA WFinishStep ==
  ASSUME Inv, WFinish
  PROVE  Inv'
<1>1. /\ UNCHANGED <<config, mjobs, files, published, client, orphaned, run>>
      /\ w.pc = "finish"
  BY DEF WFinish, local, remote, history
<1>2. CASE To("fail") /\ UNCHANGED <<record, jobs>>
  BY <1>1, <1>2, GoesOn, ByWorkerAlone DEF OnJob
<1> DEFINE j == w.job
           g == jobs[j].gen
           e == [jobs[j] EXCEPT !.status = "synced", !.owner = 0]
           q == [record[g] EXCEPT !.status = "synced", !.done = jobs[j].done, !.warned = FALSE]
<1>3. CASE Owned /\ jobs[j].done = Items(g) /\ CloseJob(j) /\ To("request")
  <2>1. jobs' = [jobs EXCEPT ![j] = e] /\ record' = [record EXCEPT ![g] = q]
    BY <1>3 DEF CloseJob
  <2>2. j \in DOMAIN jobs /\ InStep /\ jobs[j].status \in Active
    BY <1>1, <1>3 DEF Inv, Working, OnJob, Owned, Active
  <2>3. /\ jobs \in Seq(JobState) /\ jobs[j] \in JobState /\ g \in Gen
        /\ record[g] \in RecordState /\ record \in [Gen -> RecordState]
        /\ jobs[j].done \subseteq AllItems
    BY <2>2, JobTypes, RecordTypes DEF Inv, Typed
  <2>4. /\ e \in JobState /\ e.gen = g /\ e.status = "synced"
    BY <2>3 DEF JobState, Status
  <2>5. /\ q \in RecordState /\ q.status = "synced" /\ q.dest = record[g].dest
        /\ q.meta = record[g].meta /\ q.done = jobs[j].done
    BY <2>3 DEF RecordState, Status
  <2>6. w.dest = record[g].dest /\ record[g].meta /\ jobs[j].done = record[g].done
    BY <2>2 DEF InStep
  <2> HIDE DEF e, q
  <2>7. /\ w' \in WorkerState /\ w'.job = j /\ w'.dest = w.dest /\ w'.pc = "request"
    BY <1>3, Goes DEF Inv, OnJob
  <2>8. /\ jobs' \in Seq(JobState) /\ Len(jobs') = Len(jobs) /\ jobs'[j] = e
        /\ DOMAIN jobs' = DOMAIN jobs
        /\ \A i \in DOMAIN jobs \ {j} : jobs'[i] = jobs[i]
    BY <2>1, <2>2, <2>3, <2>4, OneEntry
  <2>9. /\ record' \in [Gen -> RecordState] /\ record'[g] = q
        /\ \A h \in Gen \ {g} : record'[h] = record[h]
    BY <2>1, <2>3, <2>5
  <2>10. JobsMove
    BY <2>4, <2>8, JobTypes DEF Inv, JobsMove, Active
  <2>11. Single'
    <3>1. ASSUME NEW i \in DOMAIN jobs, jobs'[i].status \in Active
          PROVE  record'[jobs[i].gen].status
                    \in {record[jobs[i].gen].status, "pending", "syncing", "failed"}
      <4>1. i # j
        BY <2>4, <2>8, <3>1 DEF Active
      <4>2. jobs[i].status \in Active /\ jobs[i].gen \in Gen
        BY <2>8, <3>1, <4>1, JobTypes DEF Inv
      <4>3. jobs[i].gen # g
        BY <2>2, <4>1, <4>2 DEF Inv, Single
      <4>4. QED
        BY <2>9, <4>2, <4>3
    <3>2. QED
      BY <2>8, <2>10, <3>1, SingleStays
  <2>12. Copied(record[g].dest, g, record[g].done)
    BY <2>3 DEF Inv, OnDrive
  <2>13. ASSUME NEW h \in Gen PROVE OnDrive(h)'
    <3>1. CASE h # g
      BY <1>1, <2>9, <3>1 DEF Inv, OnDrive, Copied
    <3>2. CASE h = g
      BY <1>1, <1>3, <2>5, <2>6, <2>9, <2>12, <3>2 DEF OnDrive, Copied
    <3>3. QED
      BY <3>1, <3>2
  <2>14. w.dest \in Dest
    <3>1. PICK item \in Items(g) : TRUE
      BY <2>3, ItemsOf
    <3>2. <<w.dest, g, FileOf(item)>> \in files
      BY <1>3, <2>6, <2>12, <3>1 DEF Copied
    <3>3. QED
      BY <3>2 DEF Inv, Typed
  <2>15. \A c \in Client : Calling(c)'
    BY <1>1, <2>10, SameCallers
  <2>16. jobs'[w'.job].gen = g
    BY <2>4, <2>7, <2>8
  <2>17. Working' /\ Publishing'
    BY <2>2, <2>5, <2>6, <2>7, <2>8, <2>9, <2>14, <2>16
    DEF Working, Publishing, OnJob, OnManifest
  <2>18. ASSUME NEW h \in Gen PROVE Current(h)'
    <3>1. CASE h # g
      BY <1>1, <2>9, <3>1, SameCurrent DEF Inv
    <3>2. CASE h = g
      BY <2>7, <2>16, <3>2 DEF Current
    <3>3. QED
      BY <3>1, <3>2
  <2>19. InTurn'
    BY <1>1 DEF Inv, InTurn
  <2>20. Typed'
    BY <1>1, <2>7, <2>8, <2>9 DEF Inv, Typed
  <2>21. QED
    BY <2>11, <2>13, <2>15, <2>17, <2>18, <2>19, <2>20 DEF Inv
<1>4. QED
  BY <1>2, <1>3 DEF WFinish

\* A step after which the worker is free.
LEMMA BecomesFree ==
  ASSUME Inv, JobsMove, RecordsHold, ManifestsHold, Len(jobs') = Len(jobs), w' = Free,
         UNCHANGED <<client, run, config, published, files>>, orphaned \subseteq orphaned',
         \A g \in Gen : /\ w.pc \in {"request", "warn"} /\ jobs[w.job].gen = g
                        /\ record'[g].status = "synced"
                        => Current(g)'
  PROVE  Inv'
<1>1. w' \in WorkerState /\ Working' /\ Publishing'
  BY WorkerTypes, FreeWorker DEF Inv
<1>2. Single'
  BY SingleHolds
<1>3. \A f \in files' : f[1] \in Dest
  BY DEF Inv, Typed
<1>4. QED
  BY <1>1, <1>2, <1>3, ByWorker

\* The job is failed.
LEMMA WFailStep ==
  ASSUME Inv, WFail
  PROVE  Inv'
<1>1. /\ UNCHANGED <<config, mjobs, files, published, client, orphaned, run>>
      /\ w.pc = "fail" /\ w' = Free
  BY DEF WFail, local, remote, history
<1>2. w.job \in DOMAIN jobs
  BY <1>1 DEF Inv, Working, OnJob
<1>3. FailJob(w.job) \/ UNCHANGED <<record, jobs>>
  BY DEF WFail
<1>4. JobsMove /\ Len(jobs') = Len(jobs) /\ RecordsHold /\ ManifestsHold
  BY <1>1, <1>2, <1>3, FailsJob, HoldMoves, SameJobs, SameRecords, SameManifests DEF Inv
<1>5. QED
  BY <1>1, <1>4, BecomesFree

\* The manifest is requested ...
LEMMA WRequestStep ==
  ASSUME Inv, WRequest
  PROVE  Inv'
<1>1. /\ UNCHANGED <<config, record, jobs, files, published, client, orphaned, run>>
      /\ w.pc = "request" /\ w' = Free /\ RequestManifest(w.dest)
  BY DEF WRequest, local, remote, history
<1>2. w.dest \in Dest
  BY <1>1 DEF Inv, Working
<1>3. PICK d \in Dest : d = w.dest
  BY <1>2
<1>4. ManifestsHold /\ Open(d)'
  BY <1>1, <1>3, Requested
<1>5. JobsMove /\ Len(jobs') = Len(jobs) /\ RecordsHold
  BY <1>1, HoldMoves, SameJobs, SameRecords DEF Inv
<1>6. ASSUME NEW g \in Gen, jobs[w.job].gen = g, record'[g].status = "synced"
      PROVE  Current(g)'
  <2>1. record'[g].dest = d
    BY <1>1, <1>3, <1>6 DEF Inv, Working
  <2>2. Open(record[g].dest)'
    BY <1>4, <2>1 DEF Open, ManifestJobs
  <2>3. QED
    BY <2>2 DEF Current
<1>7. QED
  BY <1>1, <1>4, <1>5, <1>6, BecomesFree

\* ... or the record is marked with a warning.
LEMMA WWarnStep ==
  ASSUME Inv, WWarn
  PROVE  Inv'
<1> DEFINE g == jobs[w.job].gen
           q == [record[g] EXCEPT !.warned = TRUE]
<1>1. /\ UNCHANGED <<config, jobs, mjobs, files, published, client, orphaned, run>>
      /\ w.pc = "warn" /\ w' = Free
      /\ record' = IF record[g].status = "synced" THEN [record EXCEPT ![g] = q] ELSE record
  BY DEF WWarn, local, remote, history
<1>2. w.job \in DOMAIN jobs /\ g \in Gen
  BY <1>1, JobTypes DEF Inv, Working, OnJob
<1>3. record[g] \in RecordState
  BY <1>2, RecordTypes DEF Inv
<1>4. q \in RecordState /\ HeldRecord(record[g], q) /\ q.warned
  BY <1>3, WarnedRecord DEF RecordState
<1>5. PICK h \in Gen : h = g
  BY <1>2
<1>6. /\ q \in RecordState /\ HeldRecord(record[h], q) /\ q.warned
      /\ record' = IF record[h].status = "synced" THEN [record EXCEPT ![h] = q] ELSE record
  BY <1>1, <1>4, <1>5
<1>7. RecordsHold /\ (record'[h].status = "synced" => record'[h].warned)
  <2> HIDE DEF q, g
  <2>1. CASE record[h].status = "synced"
    BY <1>6, <2>1, OneRecord DEF Inv
  <2>2. CASE record[h].status # "synced"
    BY <1>6, <2>2, SameRecords DEF Inv
  <2>3. QED
    BY <2>1, <2>2
<1>8. JobsMove /\ Len(jobs') = Len(jobs) /\ ManifestsHold
  BY <1>1, HoldMoves, SameJobs, SameManifests DEF Inv
<1>9. ASSUME NEW k \in Gen, jobs[w.job].gen = k, record'[k].status = "synced"
      PROVE  Current(k)'
  BY <1>5, <1>7, <1>9 DEF Current
<1>10. QED
  BY <1>1, <1>7, <1>8, <1>9, BecomesFree

-----------------------------------------------------------------------------
(* The worker's steps on a manifest.                                        *)

\* The worker takes a manifest job.
LEMMA WClaimManifestStep ==
  ASSUME Inv, WClaimManifest
  PROVE  Inv'
<1> DEFINE j == First(MPending)
           e == [mjobs[j] EXCEPT !.status = "syncing", !.owner = run]
<1>1. /\ UNCHANGED <<config, record, jobs, files, published, client, orphaned, run>>
      /\ w.pc = "idle" /\ mjobs' = [mjobs EXCEPT ![j] = e]
      /\ w' = [w EXCEPT !.pc = "write", !.job = j, !.dest = mjobs[j].dest]
  BY DEF WClaimManifest, local, remote, history
<1>2. MPending \in SUBSET Nat /\ MPending # {}
  BY ManifestTypes DEF WClaimManifest, MPending, Inv
<1>3. j \in DOMAIN mjobs /\ mjobs[j].status = "pending"
  BY <1>2, FirstIs DEF MPending
<1>4. /\ mjobs \in Seq(ManifestRow) /\ mjobs[j] \in ManifestRow /\ mjobs[j].dest \in Dest
      /\ run \in Nat /\ j \in Nat
  BY <1>3, ManifestTypes DEF Inv, Typed
<1>5. e \in ManifestRow /\ e.dest = mjobs[j].dest /\ e.status = "syncing"
  BY <1>4 DEF ManifestRow, Status
<1>6. /\ w' \in WorkerState /\ w'.pc = "write" /\ w'.job = j /\ w'.dest = mjobs[j].dest
  BY <1>1, <1>4, WorkerTypes DEF Inv, WorkerState, OnJob, OnManifest, Remote
<1> HIDE DEF j, e
<1>7. MHeld(mjobs[j], e)
  BY <1>3, <1>5 DEF MHeld, Active
<1>8. ManifestsHold /\ mjobs'[j] = e /\ DOMAIN mjobs' = DOMAIN mjobs
  BY <1>1, <1>3, <1>4, <1>5, <1>7, OneManifest, OneEntry
<1>9. Working' /\ Publishing'
  BY <1>3, <1>4, <1>5, <1>6, <1>8 DEF Working, Publishing, OnJob, OnManifest
<1>10. JobsMove /\ Len(jobs') = Len(jobs) /\ RecordsHold
  BY <1>1, HoldMoves, SameJobs, SameRecords DEF Inv
<1>11. Single'
  BY <1>10, SingleHolds
<1>12. \A f \in files' : f[1] \in Dest
  BY <1>1 DEF Inv, Typed
<1>13. QED
  BY <1>1, <1>6, <1>8, <1>9, <1>10, <1>11, <1>12, ByWorker

\* It lists what is synced.
LEMMA WWriteManifestStep ==
  ASSUME Inv, WWriteManifest
  PROVE  Inv'
<1>1. /\ UNCHANGED <<config, record, jobs, mjobs, files, published, client, orphaned, run>>
      /\ w.pc = "write" /\ w' = [w EXCEPT !.pc = "upload", !.snap = Listed(w.dest)]
  BY DEF WWriteManifest, local, remote, history
<1>2. Listed(w.dest) \in SUBSET Gen
  BY DEF Listed
<1>3. /\ w' \in WorkerState /\ w'.pc = "upload" /\ w'.job = w.job /\ w'.dest = w.dest
      /\ w'.snap = Listed(w.dest)
  BY <1>1, <1>2, WorkerTypes DEF Inv, WorkerState, OnJob, OnManifest
<1>4. ListedIn(w.dest, w.snap)'
  <2>1. \A g \in Gen : record[g].status = "synced" => record[g].meta
    BY DEF Inv, OnDrive
  <2>2. \A g \in Gen : record[g].status = "synced" /\ record[g].dest = w.dest
                       => g \in Listed(w.dest)
    BY <2>1 DEF Listed
  <2>3. QED
    BY <1>1, <1>3, <2>2 DEF ListedIn
<1>5. Working' /\ Publishing'
  BY <1>1, <1>3, <1>4 DEF Inv, Working, Publishing, ListedIn, OnJob, OnManifest
<1>6. QED
  BY <1>1, <1>3, <1>5, ByWorkerAlone

\* The list is uploaded.
LEMMA WUploadManifestStep ==
  ASSUME Inv, WUploadManifest
  PROVE  Inv'
<1>1. /\ UNCHANGED <<config, record, jobs, mjobs, files, client, orphaned, run>>
      /\ w.pc = "upload" /\ published' = [published EXCEPT ![w.dest] = w.snap] /\ To("msync")
  BY DEF WUploadManifest, local, remote, history
<1>2. /\ w.dest \in Dest /\ w.job \in DOMAIN mjobs /\ mjobs[w.job].dest = w.dest
      /\ ListedIn(w.dest, w.snap)
  BY <1>1 DEF Inv, Publishing, OnManifest
<1>3. /\ w' \in WorkerState /\ w'.pc = "msync" /\ w'.job = w.job /\ w'.dest = w.dest
  BY <1>1, Goes DEF Inv, OnManifest
<1>4. /\ published' \in [Dest -> SUBSET Gen] /\ published'[w.dest] = w.snap
      /\ \A d \in Dest \ {w.dest} : published'[d] = published[d]
  <2>1. published \in [Dest -> SUBSET Gen] /\ w.snap \in SUBSET Gen
    BY WorkerTypes DEF Inv, Typed
  <2>2. QED
    BY <1>1, <1>2, <2>1
<1>5. Typed' /\ InTurn'
  BY <1>1, <1>3, <1>4 DEF Inv, Typed, InTurn
<1>6. Single' /\ (\A g \in Gen : OnDrive(g)') /\ (\A c \in Client : Calling(c)')
  BY <1>1 DEF Inv, Single, OnDrive, Calling, Copied
<1>7. ListedIn(w.dest, published[w.dest])'
  BY <1>1, <1>2, <1>3, <1>4 DEF ListedIn
<1>8. Working' /\ Publishing'
  BY <1>1, <1>2, <1>3, <1>7 DEF Working, Publishing, OnJob, OnManifest
<1>9. ASSUME NEW g \in Gen PROVE Current(g)'
  <2>1. Current(g)
    BY DEF Inv
  <2>2. Open(record[g].dest) => Open(record[g].dest)'
    BY <1>1 DEF Open, ManifestJobs
  <2>3. CASE g \in published[record[g].dest] /\ record[g].dest # w.dest
    <3>1. published'[record'[g].dest] = published[record[g].dest]
      BY <1>1, <2>3 DEF Inv, Typed
    <3>2. QED
      BY <2>3, <3>1 DEF Current
  <2>4. CASE record[g].status = "synced" /\ record[g].dest = w.dest
    BY <1>1, <1>2, <1>4, <2>4 DEF Current, ListedIn
  <2>5. QED
    BY <1>1, <2>1, <2>2, <2>3, <2>4 DEF Current
<1>10. QED
  BY <1>5, <1>6, <1>8, <1>9 DEF Inv

\* The manifest job is synced.
LEMMA WCloseManifestStep ==
  ASSUME Inv, WCloseManifest
  PROVE  Inv'
<1> DEFINE j == w.job
           e == [mjobs[j] EXCEPT !.status = "synced", !.owner = 0]
<1>1. /\ UNCHANGED <<config, record, jobs, files, published, client, orphaned, run>>
      /\ w.pc = "msync" /\ mjobs' = [mjobs EXCEPT ![j] = e] /\ To("mclear")
  BY DEF WCloseManifest, local, remote, history
<1>2. /\ w.dest \in Dest /\ j \in DOMAIN mjobs /\ mjobs[j].dest = w.dest
      /\ ListedIn(w.dest, published[w.dest])
  BY <1>1 DEF Inv, Publishing, OnManifest
<1>3. mjobs \in Seq(ManifestRow) /\ mjobs[j] \in ManifestRow
  BY <1>2, ManifestTypes DEF Inv, Typed
<1>4. e \in ManifestRow /\ e.dest = w.dest /\ e.status = "synced"
  BY <1>2, <1>3 DEF ManifestRow, Status
<1>5. /\ w' \in WorkerState /\ w'.pc = "mclear" /\ w'.job = j /\ w'.dest = w.dest
  BY <1>1, Goes DEF Inv, OnManifest
<1> HIDE DEF e
<1>6. /\ mjobs' \in Seq(ManifestRow) /\ Len(mjobs') = Len(mjobs) /\ mjobs'[j] = e
      /\ DOMAIN mjobs' = DOMAIN mjobs
      /\ \A i \in DOMAIN mjobs \ {j} : mjobs'[i] = mjobs[i]
  BY <1>1, <1>2, <1>3, <1>4, OneEntry
<1>7. Typed'
  BY <1>1, <1>5, <1>6 DEF Inv, Typed
<1>8. InTurn'
  BY <1>2, <1>4, <1>6 DEF Inv, InTurn, Active
<1>9. Single' /\ (\A g \in Gen : OnDrive(g)') /\ (\A c \in Client : Calling(c)')
  BY <1>1 DEF Inv, Single, OnDrive, Calling, Copied
<1>10. ListedIn(w.dest, published[w.dest])'
  BY <1>1, <1>2, <1>5 DEF ListedIn
<1>11. Working' /\ Publishing'
  BY <1>1, <1>2, <1>4, <1>5, <1>6, <1>10 DEF Working, Publishing, OnJob, OnManifest
<1>12. ASSUME NEW g \in Gen PROVE Current(g)'
  <2>1. Current(g)
    BY DEF Inv
  <2>2. CASE record[g].status = "synced" /\ record[g].dest = w.dest
    BY <1>1, <1>2, <2>2 DEF Current, ListedIn
  <2>3. CASE record[g].dest # w.dest
    <3>1. /\ ManifestJobs(record[g].dest)' = ManifestJobs(record[g].dest)
          /\ j \notin ManifestJobs(record[g].dest)
      BY <1>1, <1>2, <1>4, <1>6, <2>3 DEF ManifestJobs
    <3>2. Open(record[g].dest) => Open(record[g].dest)'
      BY <1>1, <1>2, <1>6, <3>1 DEF Open, ManifestJobs
    <3>3. QED
      BY <1>1, <2>1, <3>2 DEF Current
  <2>4. CASE record[g].status # "synced"
    BY <1>1, <2>4 DEF Current
  <2>5. QED
    BY <2>2, <2>3, <2>4
<1>13. QED
  BY <1>7, <1>8, <1>9, <1>11, <1>12 DEF Inv

\* The warnings of the synced records of a remote.
LEMMA Warns ==
  ASSUME Inv, NEW d, NEW on \in BOOLEAN, Warn(d, on)
  PROVE  /\ record' \in [Gen -> RecordState]
         /\ \A g \in Gen :
               /\ record'[g].status = record[g].status /\ record'[g].dest = record[g].dest
               /\ record'[g].meta = record[g].meta /\ record'[g].done = record[g].done
               /\ record'[g].warned = IF record[g].status = "synced" /\ record[g].dest = d
                                      THEN on ELSE record[g].warned
<1>1. ASSUME NEW g \in Gen
      PROVE  /\ record'[g] \in RecordState
             /\ record'[g].status = record[g].status /\ record'[g].dest = record[g].dest
             /\ record'[g].meta = record[g].meta /\ record'[g].done = record[g].done
             /\ record'[g].warned = IF record[g].status = "synced" /\ record[g].dest = d
                                    THEN on ELSE record[g].warned
  <2>1. record[g] \in RecordState
    BY RecordTypes DEF Inv
  <2>2. record'[g] = IF record[g].status = "synced" /\ record[g].dest = d
                     THEN [record[g] EXCEPT !.warned = on] ELSE record[g]
    BY DEF Warn
  <2>3. QED
    BY <2>1, <2>2 DEF RecordState
<1>2. record' = [g \in Gen |-> record'[g]]
  BY DEF Warn
<1>3. QED
  BY <1>1, <1>2

\* The warnings of what it lists are cleared.
LEMMA WClearWarningStep ==
  ASSUME Inv, WClearWarning
  PROVE  Inv'
<1>1. /\ UNCHANGED <<config, jobs, mjobs, files, published, client, orphaned, run>>
      /\ w.pc = "mclear" /\ w' = Free /\ Warn(w.dest, FALSE)
  BY DEF WClearWarning, local, remote, history
<1>2. /\ record' \in [Gen -> RecordState]
      /\ \A g \in Gen :
            /\ record'[g].status = record[g].status /\ record'[g].dest = record[g].dest
            /\ record'[g].meta = record[g].meta /\ record'[g].done = record[g].done
            /\ record'[g].warned = IF record[g].status = "synced" /\ record[g].dest = w.dest
                                   THEN FALSE ELSE record[g].warned
  BY <1>1, Warns
<1>3. ListedIn(w.dest, published[w.dest])
  BY <1>1 DEF Inv, Publishing
<1>4. Typed' /\ InTurn' /\ Working' /\ Publishing'
  BY <1>1, <1>2, WorkerTypes, FreeWorker DEF Inv, Typed, InTurn
<1>5. Single'
  <2>1. \A j \in DOMAIN jobs : jobs[j].gen \in Gen
    BY JobTypes DEF Inv
  <2>2. QED
    BY <1>1, <1>2, <2>1 DEF Inv, Single
<1>6. (\A g \in Gen : OnDrive(g)') /\ (\A c \in Client : Calling(c)')
  BY <1>1, <1>2 DEF Inv, OnDrive, Calling, Copied
<1>7. ASSUME NEW g \in Gen PROVE Current(g)'
  <2>1. CASE record[g].status = "synced" /\ record[g].dest = w.dest
    BY <1>1, <1>2, <1>3, <2>1 DEF Current, ListedIn
  <2>2. CASE ~(record[g].status = "synced" /\ record[g].dest = w.dest)
    BY <1>1, <1>2, <2>2, SameCurrent DEF Inv
  <2>3. QED
    BY <2>1, <2>2
<1>8. QED
  BY <1>4, <1>5, <1>6, <1>7 DEF Inv

\* The manifest job is failed ...
LEMMA WFailManifestStep ==
  ASSUME Inv, WFailManifest
  PROVE  Inv'
<1> DEFINE j == w.job
           e == IF mjobs[j].status = "synced" THEN mjobs[j] ELSE Closed(mjobs[j])
<1>1. /\ UNCHANGED <<config, record, jobs, files, published, client, orphaned, run>>
      /\ w.pc = "mfail" /\ mjobs' = [mjobs EXCEPT ![j] = e] /\ To("mwarn")
  BY DEF WFailManifest, local, remote, history
<1>2. w.dest \in Dest /\ j \in DOMAIN mjobs
  BY <1>1 DEF Inv, Publishing, OnManifest
<1>3. mjobs[j] \in ManifestRow
  BY <1>2, ManifestTypes DEF Inv
<1>4. e \in ManifestRow /\ MHeld(mjobs[j], e)
  BY <1>3, ClosedManifest DEF MHeld
<1>5. /\ w' \in WorkerState /\ w'.pc = "mwarn" /\ w'.dest = w.dest
  BY <1>1, Goes DEF Inv, OnManifest
<1> HIDE DEF e
<1>6. ManifestsHold
  BY <1>1, <1>2, <1>4, OneManifest
<1>7. JobsMove /\ Len(jobs') = Len(jobs) /\ RecordsHold
  BY <1>1, HoldMoves, SameJobs, SameRecords DEF Inv
<1>8. Single' /\ Working' /\ Publishing' /\ \A f \in files' : f[1] \in Dest
  BY <1>1, <1>2, <1>5, <1>7, SingleHolds
  DEF Inv, Typed, Working, Publishing, OnJob, OnManifest
<1>9. QED
  BY <1>1, <1>5, <1>6, <1>7, <1>8, ByWorker

\* ... and what it should have listed gets a warning.
LEMMA WWarnAllStep ==
  ASSUME Inv, WWarnAll
  PROVE  Inv'
<1>1. /\ UNCHANGED <<config, jobs, mjobs, files, published, client, orphaned, run>>
      /\ w.pc = "mwarn" /\ w' = Free /\ Warn(w.dest, TRUE)
  BY DEF WWarnAll, local, remote, history
<1>2. RecordsHold
  BY <1>1, Warns DEF RecordsHold, HeldRecord
<1>3. JobsMove /\ Len(jobs') = Len(jobs) /\ ManifestsHold
  BY <1>1, HoldMoves, SameJobs, SameManifests DEF Inv
<1>4. QED
  BY <1>1, <1>2, <1>3, BecomesFree

\* A step raises.
LEMMA WBreaksStep ==
  ASSUME Inv, WBreaks
  PROVE  Inv'
<1>1. /\ UNCHANGED <<config, record, jobs, mjobs, files, published, client, run>>
      /\ orphaned \subseteq orphaned'
      /\ w.pc = "warn" => jobs[w.job].gen \in orphaned'
  BY DEF WBreaks, local, remote
<1>2. CASE w.pc \in {"verify", "start", "copying", "mark", "finish"} /\ To("fail")
  BY <1>1, <1>2, GoesOn, ByWorkerAlone DEF OnJob
<1>3. CASE w.pc = "request" /\ To("warn")
  <2>1. w' \in WorkerState /\ Working' /\ Publishing'
    BY <1>1, <1>3, GoesOn
  <2>2. w'.pc = "warn" /\ w'.job = w.job
    BY <1>3, Goes DEF Inv, OnJob
  <2>3. \A g \in Gen : jobs[w.job].gen = g => Current(g)'
    BY <1>1, <2>2 DEF Current
  <2>4. QED
    BY <1>1, <2>1, <2>3, ByWorkerAlone
<1>4. CASE w.pc \in {"write", "upload", "msync", "mclear"} /\ To("mfail")
  BY <1>1, <1>4, GoesOn, ByWorkerAlone DEF OnManifest
<1>5. CASE w.pc \in {"fail", "warn", "mfail", "mwarn"} /\ w' = Free
  <2>1. w' \in WorkerState /\ Working' /\ Publishing'
    BY <1>5, WorkerTypes, FreeWorker DEF Inv
  <2>2. \A g \in Gen : w.pc = "warn" /\ jobs[w.job].gen = g => Current(g)'
    BY <1>1 DEF Current
  <2>3. QED
    BY <1>1, <1>5, <2>1, <2>2, ByWorkerAlone
<1>6. QED
  BY <1>2, <1>3, <1>4, <1>5 DEF WBreaks

-----------------------------------------------------------------------------
(* The process ends, and another starts.                                    *)

\* The process ends, on the same Pod or for good.
LEMMA CrashStep ==
  ASSUME Inv, NEW restored \in BOOLEAN, Crash(restored)
  PROVE  Inv'
<1>1. /\ UNCHANGED <<files, published>>
      /\ run' = run + 1 /\ config' \in Remote /\ w' = Off
      /\ client' = [c \in Client |-> IdleClient]
      /\ orphaned \subseteq orphaned'
      /\ w.pc \in {"request", "warn"} => jobs[w.job].gen \in orphaned'
  BY DEF Crash, remote
<1>2. ReconcileRestored \/ UNCHANGED <<record, jobs, mjobs>>
  BY DEF Crash
<1>3. JobsMove /\ Len(jobs') = Len(jobs) /\ RecordsHold /\ ManifestsHold
  BY <1>2, ReconcilesRestored, HoldMoves, SameJobs, SameRecords, SameManifests DEF Inv
<1>4. Single' /\ \A g \in Gen : OnDrive(g)'
  BY <1>1, <1>3, SingleHolds, StaysOnDrive
<1>5. w' \in WorkerState /\ Working' /\ Publishing'
  BY <1>1, WorkerTypes, FreeWorker DEF Inv
<1>6. ASSUME NEW c \in Client PROVE client'[c] \in CallState /\ Calling(c)'
  <2>1. client'[c] = IdleClient /\ IdleClient \in CallState /\ IdleClient.pc = "idle"
    BY <1>1, IdleIs
  <2>2. QED
    BY <2>1, IdleCaller
<1>7. client' \in [Client -> CallState]
  BY <1>1, <1>6
<1>8. \A g \in Gen : Current(g)'
  <2>1. \A g \in Gen : w.pc \in {"request", "warn"} /\ jobs[w.job].gen = g => Current(g)'
    BY <1>1 DEF Current
  <2>2. QED
    BY <1>1, <1>3, <2>1, StaysCurrent
<1>9. Typed' /\ InTurn'
  BY <1>1, <1>3, <1>5, <1>7
  DEF Inv, Typed, JobsMove, RecordsHold, ManifestsHold, ManifestsMove
<1>10. QED
  BY <1>4, <1>5, <1>6, <1>8, <1>9 DEF Inv

-----------------------------------------------------------------------------
(* The theorems.                                                            *)

\* The invariant holds initially,
LEMMA InitialInv == Init => Inv
<1> SUFFICES ASSUME Init PROVE Inv
  OBVIOUS
<1>1. /\ config \in Dest /\ record = [g \in Gen |-> NoRecord] /\ jobs = <<>> /\ mjobs = <<>>
      /\ files = {} /\ published = [d \in Dest |-> {}] /\ w = Off
      /\ client = [c \in Client |-> IdleClient] /\ run = 1
  BY DEF Init
<1>2. NoRecord \in RecordState /\ NoRecord.status = "none" /\ NoRecord.done = {}
  BY DEF NoRecord, RecordState, Remote
<1>3. w \in WorkerState /\ w.pc = "off"
  <2>1. NoDest \in Remote
    BY DEF Remote
  <2>2. QED
    BY <1>1, <2>1 DEF Off, WorkerState, OnJob, OnManifest
<1>4. IdleClient \in CallState /\ IdleClient.pc = "idle"
  BY IdleIs
<1>5. Typed
  BY <1>1, <1>2, <1>3, <1>4 DEF Typed, Remote
<1>6. Single /\ InTurn
  BY <1>1 DEF Single, InTurn
<1>7. \A g \in Gen : OnDrive(g) /\ Current(g)
  BY <1>1, <1>2 DEF OnDrive, Copied, Current
<1>8. \A c \in Client : Calling(c)
  BY <1>1, <1>4 DEF Calling
<1>9. Working /\ Publishing
  BY <1>3 DEF Working, Publishing, OnJob, OnManifest
<1>10. QED
  BY <1>5, <1>6, <1>7, <1>8, <1>9 DEF Inv

\* every step keeps it,
LEMMA StepInv == Inv /\ [Next]_vars => Inv'
<1> SUFFICES ASSUME Inv, [Next]_vars PROVE Inv'
  OBVIOUS
<1>1. CASE UNCHANGED vars
  <2>1. UNCHANGED <<config, record, jobs, mjobs, files, published, w, client, orphaned, run>>
    BY <1>1 DEF vars
  <2>2. JobsHold /\ JobsMove /\ Len(jobs') = Len(jobs) /\ RecordsHold /\ ManifestsHold
    BY <2>1, SameJobs, HoldMoves, SameRecords, SameManifests DEF Inv
  <2>3. Single' /\ client' \in [Client -> CallState] /\ \A c \in Client : Calling(c)'
    BY <2>1, <2>2, SingleHolds, SameCallers
  <2>4. QED
    BY <2>1, <2>2, <2>3, ByOthers
<1>2. ASSUME NEW c \in Client, ClientStep(c) PROVE Inv'
  BY <1>2, BeginStep, SaveEnqueueStep, SaveRetryStep, RefusedStep, FailEnqueuedStep
     DEF ClientStep
<1>3. CASE WorkerStep
  BY <1>3, WStartStep, WClaimStep, WVerifyStep, WStartCopyStep, WCopyStep, WMarkStep,
     WFinishStep,
     WFailStep, WRequestStep, WWarnStep, WClaimManifestStep, WWriteManifestStep,
     WUploadManifestStep, WCloseManifestStep, WClearWarningStep, WFailManifestStep, WWarnAllStep
  DEF WorkerStep
<1>4. QED
  BY <1>1, <1>2, <1>3, CompleteStep, RebuildManifestStep, WReconcileStep, WBreaksStep,
     CrashStep
  DEF Next

\* and so it holds in every reachable state.
LEMMA Invariance == Spec => []Inv
BY InitialInv, StepInv, PTL DEF Spec

\* What a record counts as copied is on its remote, everything when it is synced,
\* also when the remote was changed or a caller failed the job meanwhile (_resume_plan,
\* mark_artifact_synced, mark_synced).
THEOREM SyncedOnDrive == Spec => []SyncedIsOnDrive
<1>1. Inv => SyncedIsOnDrive
  BY DEF Inv, OnDrive, Copied, SyncedIsOnDrive
<1>2. QED
  BY Invariance, <1>1, PTL

\* A generation has one active job at most, and none when it is synced (enqueue,
\* retry, mark_synced).
THEOREM OneJobActive == Spec => []OneActiveJob
<1>1. Inv => OneActiveJob
  <2>1. SUFFICES ASSUME Inv, NEW g \in Gen
                 PROVE  /\ Cardinality(ActiveJobs(g)) <= 1
                        /\ record[g].status = "synced" => ActiveJobs(g) = {}
    BY DEF OneActiveJob
  <2>2. Single
    BY <2>1 DEF Inv
  <2>3. CASE ActiveJobs(g) = {}
    BY <2>3, FS_EmptySet
  <2>4. CASE ActiveJobs(g) # {}
    <3>1. PICK j \in ActiveJobs(g) : TRUE
      BY <2>4
    <3>2. ActiveJobs(g) = {j}
      BY <2>2, <3>1 DEF Single, ActiveJobs
    <3>3. Cardinality(ActiveJobs(g)) = 1
      BY <3>2, FS_Singleton
    <3>4. record[g].status # "synced"
      BY <2>2, <3>1 DEF Single, ActiveJobs
    <3>5. QED
      BY <3>3, <3>4
  <2>5. QED
    BY <2>3, <2>4
<1>2. QED
  BY Invariance, <1>1, PTL

\* A manifest that is called synced, or was never asked for, lists each synced
\* generation that has no warning, but for the one whose request is being made or was
\* lost (enqueue_manifest, process_manifest_job, mark_manifest_warning).
THEOREM ManifestsCurrent == Spec => []ManifestIsCurrent
<1>1. Inv => ManifestIsCurrent
  <2>1. SUFFICES ASSUME Inv PROVE ManifestIsCurrent
    OBVIOUS
  <2>2. \A g \in Gen : Open(record[g].dest) =>
                          ManifestOf(record[g].dest) \in {"pending", "syncing", "failed"}
    BY <2>1, OpenIs
  <2>3. QED
    BY <2>1, <2>2 DEF Inv, Current, ManifestIsCurrent
<1>2. QED
  BY Invariance, <1>1, PTL
=============================================================================

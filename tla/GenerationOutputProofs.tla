----------------------- MODULE GenerationOutputProofs -----------------------
(***************************************************************************)
(* Proofs about GenerationOutput: a completed generation has each of its   *)
(* images in a whole file, and the row of an optional artifact describes   *)
(* the file that is there.                                                 *)
(***************************************************************************)
EXTENDS GenerationOutput, TLAPS

FinishState == [pc : {"idle", "fetch", "store", "fill", "commit"}, live : BOOLEAN,
                stored : Seq(Nat)]

WriterState == [pc : {"idle", "look", "file", "row"}, todo : SUBSET FileName]

FileState == [order : Order, whole : BOOLEAN]

Typed == /\ status \in {"prompted", "completed", "failed"}
         /\ disk \in Seq(FileState)
         /\ fin \in [Finisher -> FinishState]
         /\ opt \in [Writer -> WriterState]

\* What a finisher has stored so far is on the disk, in order; only the file that it
\* has created last may be torn.
Stored(f) ==
    /\ Len(fin[f].stored) <= Outputs
    /\ \A i \in 1 .. Len(fin[f].stored) :
          /\ fin[f].stored[i] \in DOMAIN disk
          /\ disk[fin[f].stored[i]].order = i
          /\ disk[fin[f].stored[i]].whole \/ (fin[f].pc = "fill" /\ i = Len(fin[f].stored))
    /\ fin[f].pc = "store" => Len(fin[f].stored) < Outputs
    /\ fin[f].pc = "fill" => Len(fin[f].stored) > 0
    /\ fin[f].pc = "commit" => Len(fin[f].stored) = Outputs

\* The rows name whole files from the completion on.
Complete ==
    status = "completed" =>
        /\ Len(images) = Outputs
        /\ \A i \in Order : images[i] \in DOMAIN disk /\ disk[images[i]] = [order |-> i, whole |-> TRUE]

\* Every writer of an optional artifact writes the same content: that of the
\* completed generation.
Right(name) == IF name = 0 THEN <<completed, images[1]>> ELSE <<"thumbnail", images[name]>>

Optional ==
    /\ \A p \in Writer : opt[p].pc # "idle" => status = "completed"
    /\ \A p \in Writer : opt[p].pc = "row" => Next1(p) \in DOMAIN extra
    /\ \A n \in DOMAIN extra : status = "completed" /\ extra[n] = Right(n)
    /\ \A n \in DOMAIN meta : n \in DOMAIN extra /\ meta[n] = Right(n)

Inv == Typed /\ (\A f \in Finisher : Stored(f)) /\ Complete /\ Optional

-----------------------------------------------------------------------------
(* The disk.                                                                *)

\* A canonical file is never removed, renamed or torn again.
Kept == \A p \in DOMAIN disk : /\ p \in DOMAIN disk'
                               /\ disk'[p].order = disk[p].order
                               /\ disk[p].whole => disk'[p].whole

\* FirstFree never meets a file: the numbers in use have no gap.
LEMMA FreeIsNext ==
  ASSUME Typed
  PROVE  FirstFree = Len(disk) + 1
<1>1. Len(disk) \in Nat /\ DOMAIN disk = 1 .. Len(disk)
  BY DEF Typed
<1>2. {p \in 1 .. Len(disk) + 1 : ~Taken(p)} = {Len(disk) + 1}
  BY <1>1 DEF Taken
<1>3. (CHOOSE x \in {Len(disk) + 1} : \A y \in {Len(disk) + 1} : x =< y) = Len(disk) + 1
  BY <1>1
<1>4. QED
  BY <1>2, <1>3 DEF FirstFree, Min

\* What a finisher has stored stays stored while it waits.
LEMMA StoredStays ==
  ASSUME NEW f \in Finisher, Typed, Stored(f), Kept, fin'[f] = fin[f]
  PROVE  Stored(f)'
<1> DEFINE s == fin[f].stored
<1>1. ASSUME NEW i \in 1 .. Len(s)
      PROVE  /\ s[i] \in DOMAIN disk' /\ disk'[s[i]].order = i
             /\ disk'[s[i]].whole \/ (fin[f].pc = "fill" /\ i = Len(s))
  BY DEF Stored, Kept
<1>2. QED
  BY <1>1 DEF Stored

\* A finisher that gives up has nothing stored.
LEMMA NothingStored ==
  ASSUME NEW f \in Finisher, OutputAssumption, fin'[f].stored = <<>>,
         fin'[f].pc \in {"idle", "fetch"}
  PROVE  Stored(f)'
BY DEF Stored, OutputAssumption

\* One more image, stored under a path that was free.
LEMMA OneMore ==
  ASSUME NEW f \in Finisher, NEW w \in BOOLEAN, OutputAssumption, Typed, Stored(f),
         fin[f].pc = "store",
         disk' = Append(disk, [order |-> Len(fin[f].stored) + 1, whole |-> w]),
         fin'[f].stored = Append(fin[f].stored, Len(disk) + 1),
         fin'[f].pc = IF w THEN "fetch" ELSE "fill"
  PROVE  Stored(f)' /\ Kept /\ disk' \in Seq(FileState)
<1> DEFINE s == fin[f].stored
           s2 == fin'[f].stored
<1>1. s \in Seq(Nat) /\ Len(s) < Outputs /\ Outputs \in Nat /\ Len(s) \in Nat
  BY DEF Typed, FinishState, Stored, OutputAssumption
<1>2. disk \in Seq(FileState) /\ Len(disk) \in Nat
  BY DEF Typed
<1>3. [order |-> Len(s) + 1, whole |-> w] \in FileState
  BY <1>1 DEF FileState, Order
<1>4. /\ disk' \in Seq(FileState) /\ Len(disk') = Len(disk) + 1
      /\ \A p \in 1 .. Len(disk) : disk'[p] = disk[p]
      /\ disk'[Len(disk) + 1] = [order |-> Len(s) + 1, whole |-> w]
  BY <1>2, <1>3
<1>5. Kept
  BY <1>2, <1>4 DEF Kept
<1>6. /\ Len(s2) = Len(s) + 1 /\ \A i \in 1 .. Len(s) : s2[i] = s[i]
      /\ s2[Len(s) + 1] = Len(disk) + 1
  BY <1>1, <1>2
<1>7. 1 .. Len(s2) = 1 .. Len(s) \union {Len(s) + 1}
  <2> HIDE DEF s, s2
  <2>1. QED
    BY <1>1, <1>6
<1>8. ASSUME NEW i \in 1 .. Len(s2)
      PROVE  /\ s2[i] \in DOMAIN disk' /\ disk'[s2[i]].order = i
             /\ disk'[s2[i]].whole \/ (fin'[f].pc = "fill" /\ i = Len(s2))
  <2>1. CASE i = Len(s) + 1
    BY <2>1, <1>1, <1>2, <1>4, <1>6
  <2>2. CASE i \in 1 .. Len(s)
    <3>1. s2[i] = s[i] /\ s[i] \in 1 .. Len(disk) /\ disk[s[i]].order = i /\ disk[s[i]].whole
      BY <2>2, <1>2, <1>6 DEF Stored
    <3>2. QED
      BY <3>1, <1>2, <1>4
  <2>3. QED
    BY <2>1, <2>2, <1>7
<1>9. QED
  <2>1. Len(s2) <= Outputs /\ Len(s2) > 0
    <3> HIDE DEF s, s2
    <3>1. QED
      BY <1>1, <1>6
  <2>2. fin'[f].pc \in {"fetch", "fill"}
    OBVIOUS
  <2>3. Stored(f)'
    BY <2>1, <2>2, <1>8 DEF Stored
  <2>4. QED
    BY <2>3, <1>4, <1>5

-----------------------------------------------------------------------------
(* The steps.                                                               *)

\* Storing does not touch the rows of a completed generation.
LEMMA CompleteStays ==
  ASSUME Complete, Kept, Typed, disk' \in Seq(FileState),
         status' = status, images' = images
  PROVE  Complete'
<1> SUFFICES ASSUME status = "completed", NEW i \in Order
             PROVE  images[i] \in DOMAIN disk' /\ disk'[images[i]] = [order |-> i, whole |-> TRUE]
  BY DEF Complete
<1>1. images[i] \in DOMAIN disk /\ disk[images[i]] = [order |-> i, whole |-> TRUE]
  BY DEF Complete
<1>2. images[i] \in DOMAIN disk' /\ disk'[images[i]].order = i /\ disk'[images[i]].whole = TRUE
  BY <1>1 DEF Kept, Typed, FileState
<1>3. disk'[images[i]] \in FileState
  BY <1>2
<1>4. QED
  BY <1>2, <1>3 DEF FileState

\* The optional artifacts depend on the rows only.
LEMMA OptionalStays ==
  ASSUME Optional, status' = status, UNCHANGED <<completed, images, meta, extra, opt>>
  PROVE  Optional'
BY DEF Optional, Right, Next1

\* Giving up may only fail a generation that is not completed.
LEMMA GivingUp ==
  ASSUME NEW f \in Finisher, OutputAssumption, Inv, GivesUp(f),
         UNCHANGED <<completed, images, disk, meta, extra, opt>>
  PROVE  Inv'
<1>1. fin' = [fin EXCEPT ![f] = NoFinish] /\ NoFinish \in FinishState
  BY DEF GivesUp, NoFinish, FinishState
<1>2. status' = status \/ (status = "prompted" /\ status' = "failed")
  BY DEF GivesUp
<1>3. Typed'
  BY <1>1, <1>2 DEF Inv, Typed
<1>4. fin'[f] = NoFinish /\ \A g \in Finisher \ {f} : fin'[g] = fin[g]
  BY <1>1 DEF Inv, Typed
<1>5. Kept
  BY DEF Kept
<1>6. ASSUME NEW g \in Finisher PROVE Stored(g)'
  <2>1. CASE g = f
    BY <2>1, <1>4, NothingStored DEF NoFinish
  <2>2. CASE g # f
    BY <2>2, <1>4, <1>5, StoredStays DEF Inv
  <2>3. QED
    BY <2>1, <2>2
<1>7. Complete'
  BY <1>2 DEF Inv, Complete
<1>8. Optional'
  BY <1>2 DEF Inv, Optional, Right, Next1
<1>9. QED
  BY <1>3, <1>6, <1>7, <1>8 DEF Inv

\* A finisher that moves on without giving up leaves the rows alone.
LEMMA MovingOn ==
  ASSUME NEW f \in Finisher, NEW s \in FinishState, OutputAssumption, Inv,
         fin' = [fin EXCEPT ![f] = s], Stored(f)', Kept, disk' \in Seq(FileState),
         UNCHANGED <<status, completed, images, meta, extra, opt>>
  PROVE  Inv'
<1>1. Typed'
  BY DEF Inv, Typed
<1>2. \A g \in Finisher \ {f} : fin'[g] = fin[g]
  BY DEF Inv, Typed
<1>3. ASSUME NEW g \in Finisher PROVE Stored(g)'
  BY <1>2, StoredStays DEF Inv
<1>4. Complete' /\ Optional'
  BY CompleteStays, OptionalStays DEF Inv
<1>5. QED
  BY <1>1, <1>3, <1>4 DEF Inv

\* A reconcile pass picks up a prompted generation.
LEMMA ReconcilesStep ==
  ASSUME NEW f \in Finisher, OutputAssumption, Inv, Reconciles(f)
  PROVE  Inv'
<1> DEFINE s == [NoFinish EXCEPT !.pc = "fetch"]
<1>1. NoFinish \in FinishState /\ NoFinish.stored = <<>>
  BY DEF NoFinish, FinishState
<1>2. s \in FinishState /\ s.pc = "fetch" /\ s.stored = <<>>
  BY <1>1 DEF FinishState
<1>3. fin' = [fin EXCEPT ![f] = s] /\ UNCHANGED <<status, completed, images, disk, meta, extra, opt>>
  BY DEF Reconciles
<1>4. fin'[f] = s
  BY <1>3 DEF Inv, Typed
<1>5. Stored(f)'
  BY <1>2, <1>4, NothingStored
<1>6. Kept /\ disk' \in Seq(FileState)
  BY <1>3 DEF Kept, Inv, Typed
<1>7. QED
  BY <1>2, <1>3, <1>5, <1>6, MovingOn

\* One answer of ComfyUI: the next image, or the decision to give up.
LEMMA FetchStep ==
  ASSUME NEW f \in Finisher, OutputAssumption, Inv, Fetch(f)
  PROVE  Inv'
<1>1. UNCHANGED <<completed, images, disk, meta, extra, opt>>
  BY DEF Fetch
<1>2. CASE GivesUp(f)
  BY <1>1, <1>2, GivingUp
<1>3. CASE /\ fin' = [fin EXCEPT ![f].pc = IF Len(fin[f].stored) = Outputs
                                          THEN "commit" ELSE "store"]
           /\ UNCHANGED status
  <2> DEFINE s == [fin[f] EXCEPT !.pc = IF Len(fin[f].stored) = Outputs THEN "commit" ELSE "store"]
  <2>1. fin[f] \in FinishState /\ Len(fin[f].stored) \in Nat /\ Len(fin[f].stored) <= Outputs
    BY DEF Inv, Typed, FinishState, Stored
  <2>2. s \in FinishState /\ s.stored = fin[f].stored
        /\ s.pc = IF Len(fin[f].stored) = Outputs THEN "commit" ELSE "store"
    BY <2>1 DEF FinishState
  <2>3. fin' = [fin EXCEPT ![f] = s] /\ fin'[f] = s
    BY <1>3 DEF Inv, Typed
  <2>4. fin[f].pc = "fetch" /\ Stored(f)
    BY DEF Fetch, Inv
  <2>5. Stored(f)'
    BY <1>1, <2>1, <2>2, <2>3, <2>4 DEF Stored, OutputAssumption
  <2>6. Kept /\ disk' \in Seq(FileState)
    BY <1>1 DEF Kept, Inv, Typed
  <2>7. QED
    BY <1>1, <1>3, <2>2, <2>3, <2>5, <2>6, MovingOn
<1>4. QED
  BY <1>2, <1>3 DEF Fetch

\* store_image under a fixed name: the first file only.
LEMMA StoreFixedStep ==
  ASSUME NEW f \in Finisher, OutputAssumption, Inv, StoreFixed(f)
  PROVE  Inv'
<1>1. CASE disk = <<>>
  <2> DEFINE t == fin[f].stored
             s == [fin[f] EXCEPT !.stored = Append(t, 1), !.pc = "fetch"]
  <2>1. fin[f] \in FinishState /\ t \in Seq(Nat) /\ Append(t, 1) \in Seq(Nat)
    BY DEF Inv, Typed, FinishState
  <2>2. s \in FinishState /\ s.stored = Append(t, 1) /\ s.pc = "fetch"
    BY <2>1 DEF FinishState
  <2>3. fin' = [fin EXCEPT ![f] = s] /\ fin'[f] = s
    BY <1>1, <2>1 DEF StoreFixed, Add, Inv, Typed
  <2>4. disk' = Append(disk, [order |-> Len(t) + 1, whole |-> TRUE]) /\ Len(disk) = 0
    BY <1>1 DEF StoreFixed
  <2>5. fin'[f].stored = Append(fin[f].stored, Len(disk) + 1) /\ fin'[f].pc = IF TRUE THEN "fetch" ELSE "fill"
    <3>1. Len(disk) + 1 = 1
      BY <2>4
    <3>2. QED
      BY <2>2, <2>3, <3>1
  <2>6. Stored(f)' /\ Kept /\ disk' \in Seq(FileState)
    BY <2>4, <2>5, OneMore DEF Inv, StoreFixed
  <2>7. UNCHANGED <<status, completed, images, meta, extra, opt>>
    BY <1>1 DEF StoreFixed
  <2>8. QED
    BY <2>2, <2>3, <2>6, <2>7, MovingOn
<1>2. CASE disk # <<>>
  BY <1>2, GivingUp DEF StoreFixed
<1>3. QED
  BY <1>1, <1>2

\* store_image opens the first free name exclusively: OneMore with a torn file.
LEMMA CreateStep ==
  ASSUME NEW f \in Finisher, OutputAssumption, Inv, Create(f)
  PROVE  Inv'
<1> DEFINE t == fin[f].stored
           s == [fin[f] EXCEPT !.pc = "fill", !.stored = Append(t, Len(disk) + 1)]
<1>1. fin[f] \in FinishState /\ t \in Seq(Nat) /\ Len(disk) + 1 \in Nat /\ Append(t, Len(disk) + 1) \in Seq(Nat)
  BY DEF Inv, Typed, FinishState
<1>2. s \in FinishState /\ s.stored = Append(t, Len(disk) + 1) /\ s.pc = "fill"
  BY <1>1 DEF FinishState
<1>3. FirstFree = Len(disk) + 1
  BY FreeIsNext DEF Inv
<1>4. fin' = [fin EXCEPT ![f] = s] /\ fin'[f] = s
  BY <1>1, <1>3 DEF Create, Inv, Typed
<1>5. disk' = Append(disk, [order |-> Len(t) + 1, whole |-> FALSE])
  BY <1>1, <1>3 DEF Create
<1>6. fin'[f].stored = Append(fin[f].stored, Len(disk) + 1) /\ fin'[f].pc = IF FALSE THEN "fetch" ELSE "fill"
  BY <1>2, <1>4
<1>7. Stored(f)' /\ Kept /\ disk' \in Seq(FileState)
  BY <1>5, <1>6, OneMore DEF Inv, Create
<1>8. UNCHANGED <<status, completed, images, meta, extra, opt>>
  BY DEF Create
<1>9. QED
  BY <1>2, <1>4, <1>7, <1>8, MovingOn

\* The created file gets its content.
LEMMA FillStep ==
  ASSUME NEW f \in Finisher, OutputAssumption, Inv, Fill(f)
  PROVE  Inv'
<1> DEFINE t == fin[f].stored
           x == t[Len(t)]
           s == [fin[f] EXCEPT !.pc = "fetch"]
<1>1. fin[f] \in FinishState /\ t \in Seq(Nat) /\ Len(t) \in Nat /\ Len(t) > 0 /\ Stored(f)
  BY DEF Inv, Typed, FinishState, Stored, Fill
<1>2. s \in FinishState /\ s.stored = t /\ s.pc = "fetch"
  BY <1>1 DEF FinishState
<1>3. fin' = [fin EXCEPT ![f] = s] /\ fin'[f] = s
  BY <1>1 DEF Fill, Inv, Typed
<1>4. disk \in Seq(FileState) /\ x \in DOMAIN disk /\ disk[x] \in FileState
  BY <1>1 DEF Inv, Typed, Stored
<1>5. disk' = [disk EXCEPT ![x] = [disk[x] EXCEPT !.whole = TRUE]]
  BY DEF Fill
<1>6. [disk[x] EXCEPT !.whole = TRUE] \in FileState
  BY <1>4 DEF FileState
<1>7. disk' \in Seq(FileState) /\ Len(disk') = Len(disk) /\ DOMAIN disk' = DOMAIN disk
  BY <1>4, <1>5, <1>6
<1>8. /\ disk'[x].order = disk[x].order /\ disk'[x].whole = TRUE
      /\ \A p \in DOMAIN disk \ {x} : disk'[p] = disk[p]
  BY <1>4, <1>5 DEF FileState
<1>9. Kept
  BY <1>7, <1>8 DEF Kept
<1>10. ASSUME NEW i \in 1 .. Len(t)
       PROVE  t[i] \in DOMAIN disk' /\ disk'[t[i]].order = i /\ disk'[t[i]].whole
  <2>1. t[i] \in DOMAIN disk /\ disk[t[i]].order = i /\ (disk[t[i]].whole \/ i = Len(t))
    BY <1>1 DEF Stored
  <2>2. QED
    BY <2>1, <1>7, <1>8
<1>11. Stored(f)'
  BY <1>1, <1>2, <1>3, <1>10 DEF Stored
<1>12. UNCHANGED <<status, completed, images, meta, extra, opt>>
  BY DEF Fill
<1>13. QED
  BY <1>2, <1>3, <1>7, <1>9, <1>11, <1>12, MovingOn

\* The completion takes what the finisher has stored for the rows.
LEMMA CommitStep ==
  ASSUME NEW f \in Finisher, OutputAssumption, Inv, Commit(f)
  PROVE  Inv'
<1>1. CASE GivesUp(f) /\ UNCHANGED <<images, completed, opt>>
  BY <1>1, GivingUp DEF Commit
<1>2. CASE /\ status = "prompted" /\ status' = "completed"
           /\ images' = fin[f].stored /\ completed' = f
           /\ fin' = [fin EXCEPT ![f] = NoFinish]
           /\ opt' = [opt EXCEPT ![f] = [pc |-> "look", todo |-> {}]]
  <2>1. fin[f].pc = "commit" /\ UNCHANGED <<disk, meta, extra>>
    BY DEF Commit
  <2>2. NoFinish \in FinishState /\ [pc |-> "look", todo |-> {}] \in WriterState
    BY DEF NoFinish, FinishState, WriterState
  <2>3. Typed'
    BY <1>2, <2>1, <2>2 DEF Inv, Typed
  <2>4. fin'[f] = NoFinish /\ \A g \in Finisher \ {f} : fin'[g] = fin[g]
    BY <1>2 DEF Inv, Typed
  <2>5. Kept
    BY <2>1 DEF Kept
  <2>6. ASSUME NEW g \in Finisher PROVE Stored(g)'
    <3>1. CASE g = f
      BY <3>1, <2>4, NothingStored DEF NoFinish
    <3>2. CASE g # f
      BY <3>2, <2>4, <2>5, StoredStays DEF Inv
    <3>3. QED
      BY <3>1, <3>2
  <2>7. Complete'
    <3>1. Len(images') = Outputs
      BY <1>2, <2>1 DEF Inv, Stored
    <3>2. ASSUME NEW i \in Order
          PROVE  images'[i] \in DOMAIN disk' /\ disk'[images'[i]] = [order |-> i, whole |-> TRUE]
      <4>1. /\ images'[i] \in DOMAIN disk /\ disk[images'[i]].order = i
            /\ disk[images'[i]].whole /\ disk[images'[i]] \in FileState
        BY <1>2, <2>1 DEF Inv, Stored, Order, Typed
      <4>2. QED
        BY <4>1, <2>1 DEF FileState
    <3>3. QED
      BY <3>1, <3>2 DEF Complete
  <2>8. \A p \in Writer : opt'[p].pc # "row"
    BY <1>2 DEF Inv, Optional, Typed, Writer
  <2>9. DOMAIN extra = {} /\ DOMAIN meta = {}
    BY <1>2 DEF Inv, Optional
  <2>10. Optional'
    BY <1>2, <2>1, <2>8, <2>9 DEF Optional
  <2>11. QED
    BY <2>3, <2>6, <2>7, <2>10 DEF Inv
<1>3. QED
  BY <1>1, <1>2 DEF Commit

-----------------------------------------------------------------------------
(* The optional artifacts.                                                  *)

\* Their writers touch neither the images nor the finishers.
LEMMA Aside ==
  ASSUME Inv, opt' \in [Writer -> WriterState], Optional',
         UNCHANGED <<status, completed, images, disk, fin>>
  PROVE  Inv'
<1>1. Typed'
  BY DEF Inv, Typed
<1>2. \A f \in Finisher : Stored(f)'
  BY DEF Inv, Stored
<1>3. Complete'
  BY DEF Inv, Complete
<1>4. QED
  BY <1>1, <1>2, <1>3 DEF Inv

\* A writer that starts or ends.
LEMMA WriterMoves ==
  ASSUME NEW p \in Writer, NEW s \in WriterState, Inv, opt' = [opt EXCEPT ![p] = s],
         s.pc \in {"idle", "look", "file"}, status = "completed",
         UNCHANGED <<status, completed, images, disk, meta, extra, fin>>
  PROVE  Inv'
<1>1. opt' \in [Writer -> WriterState] /\ opt'[p] = s /\ \A q \in Writer \ {p} : opt'[q] = opt[q]
  BY DEF Inv, Typed
<1>2. ASSUME NEW q \in Writer, opt'[q].pc = "row" PROVE Next1(q)' \in DOMAIN extra'
  <2>1. q # p /\ opt'[q] = opt[q]
    BY <1>1, <1>2
  <2>2. QED
    BY <1>2, <2>1 DEF Inv, Optional, Next1
<1>3. Optional'
  BY <1>2 DEF Inv, Optional, Right
<1>4. QED
  BY <1>1, <1>3, Aside

\* Each step of a writer, one case for each.
LEMMA WritingStep ==
  ASSUME NEW p \in Writer, Inv, Writing(p)
  PROVE  Inv'
<1>1. opt[p] \in WriterState /\ opt[p].todo \subseteq FileName /\ status = "completed"
  BY DEF Inv, Typed, WriterState, Optional, Writing, Look, SaveFile, AddRow, Written
<1>2. NoWriter \in WriterState /\ NoWriter.pc = "idle"
  BY DEF NoWriter, WriterState
<1>3. CASE Look(p)
  <2>1. Missing(p) \subseteq FileName
    BY DEF Missing
  <2> DEFINE s == [pc |-> "file", todo |-> Missing(p)]
  <2>2. s \in WriterState
    BY <2>1 DEF WriterState
  <2>3. opt' = [opt EXCEPT ![p] = s] \/ opt' = [opt EXCEPT ![p] = NoWriter]
    BY <1>1, <1>3 DEF Look, WriterState, Inv, Typed
  <2>4. QED
    BY <1>1, <1>2, <1>3, <2>2, <2>3, WriterMoves DEF Look
<1>4. CASE Written(p)
  BY <1>1, <1>2, <1>4, WriterMoves DEF Written
<1>5. CASE SaveFile(p)
  <2> DEFINE x == Next1(p)
  <2>1. CASE Fails /\ opt' = [opt EXCEPT ![p].todo = @ \ {x}] /\ UNCHANGED extra
    <3> DEFINE s == [opt[p] EXCEPT !.todo = opt[p].todo \ {x}]
    <3>1. s \in WriterState /\ s.pc = "file"
      BY <1>1, <1>5 DEF WriterState, SaveFile
    <3>2. opt' = [opt EXCEPT ![p] = s]
      BY <2>1 DEF Inv, Typed
    <3>3. UNCHANGED <<status, completed, images, disk, meta, extra, fin>>
      BY <1>5, <2>1 DEF SaveFile
    <3> HIDE DEF s
    <3>4. QED
      BY <1>1, <3>1, <3>2, <3>3, WriterMoves
  <2>2. CASE /\ extra' = [n \in DOMAIN extra \union {x} |-> IF n = x THEN Content(p, n) ELSE extra[n]]
             /\ opt' = [opt EXCEPT ![p].pc = "row"]
    <3>1. /\ DOMAIN extra' = DOMAIN extra \union {x}
          /\ \A n \in DOMAIN extra' : extra'[n] = IF n = x THEN Content(p, n) ELSE extra[n]
      BY <2>2
    <3>2. \A n \in DOMAIN extra' : extra'[n] = Right(n)
      BY <3>1 DEF Inv, Optional, Content, Right
    <3>3. UNCHANGED <<status, completed, images, disk, meta, fin>>
      BY <1>5 DEF SaveFile
    <3>4. [opt[p] EXCEPT !.pc = "row"] \in WriterState
      BY <1>1 DEF WriterState
    <3>5. opt' \in [Writer -> WriterState] /\ opt'[p].todo = opt[p].todo
          /\ \A q \in Writer \ {p} : opt'[q] = opt[q]
      BY <1>1, <2>2, <3>4 DEF Inv, Typed, WriterState
    <3>6. ASSUME NEW q \in Writer, opt'[q].pc = "row" PROVE Next1(q)' \in DOMAIN extra'
      <4>1. CASE q = p
        BY <3>1, <3>5, <4>1 DEF Next1
      <4>2. CASE q # p
        BY <3>1, <3>5, <3>6, <4>2 DEF Inv, Optional, Next1
      <4>3. QED
        BY <4>1, <4>2
    <3>7. \A n \in DOMAIN meta' : n \in DOMAIN extra' /\ meta'[n] = Right(n)'
      BY <3>1, <3>3 DEF Inv, Optional, Right
    <3>8. Optional'
      BY <1>1, <3>2, <3>3, <3>6, <3>7 DEF Optional, Right
    <3>9. QED
      BY <3>3, <3>5, <3>8, Aside
  <2>3. QED
    BY <1>5, <2>1, <2>2 DEF SaveFile
<1>6. CASE AddRow(p)
  <2> DEFINE x == Next1(p)
             s == [opt[p] EXCEPT !.pc = "file", !.todo = opt[p].todo \ {x}]
  <2>1. s \in WriterState /\ s.pc = "file"
    BY <1>1 DEF WriterState
  <2>2. opt' = [opt EXCEPT ![p] = s]
    <3>1. opt' = [opt EXCEPT ![p].pc = "file", ![p].todo = @ \ {x}]
      BY <1>6 DEF AddRow
    <3>2. opt \in [Writer -> WriterState]
      BY DEF Inv, Typed
    <3> DEFINE o == [opt EXCEPT ![p].pc = "file"]
    <3> HIDE DEF x
    <3>3. o[p] = [opt[p] EXCEPT !.pc = "file"] /\ o[p].todo = opt[p].todo
      BY <1>1, <3>2 DEF WriterState
    <3>4. opt' = [o EXCEPT ![p].todo = o[p].todo \ {x}]
      BY <3>1
    <3>5. opt' = [o EXCEPT ![p] = [o[p] EXCEPT !.todo = o[p].todo \ {x}]]
      BY <3>4
    <3>6. opt' = [o EXCEPT ![p] = s]
      BY <3>3, <3>5
    <3>7. QED
      BY <3>2, <3>6
  <2>3. opt' \in [Writer -> WriterState] /\ opt'[p] = s /\ \A q \in Writer \ {p} : opt'[q] = opt[q]
    BY <2>1, <2>2 DEF Inv, Typed
  <2>4. UNCHANGED <<status, completed, images, disk, extra, fin>>
    BY <1>6 DEF AddRow
  <2>5. x \in DOMAIN extra
    BY <1>6 DEF AddRow, Inv, Optional
  <2>6. \A n \in DOMAIN meta' : n \in DOMAIN extra /\ meta'[n] = Right(n)
    <3>1. CASE meta' = meta
      BY <3>1 DEF Inv, Optional
    <3>2. CASE meta' = [n \in DOMAIN meta \union {x} |-> IF n = x THEN extra[n] ELSE meta[n]]
      BY <2>5, <3>2 DEF Inv, Optional
    <3>3. QED
      BY <1>6, <3>1, <3>2 DEF AddRow
  <2>7. ASSUME NEW q \in Writer, opt'[q].pc = "row" PROVE Next1(q)' \in DOMAIN extra'
    <3>1. q # p
      BY <2>1, <2>3, <2>7
    <3>2. QED
      BY <2>3, <2>4, <2>7, <3>1 DEF Inv, Optional, Next1
  <2>8. Optional'
    BY <1>1, <2>4, <2>6, <2>7 DEF Inv, Optional, Right
  <2>9. QED
    BY <2>3, <2>4, <2>8, Aside
<1>7. QED
  BY <1>3, <1>4, <1>5, <1>6 DEF Writing

\* A repair pass starts a writer on a completed generation.
LEMMA RepairStep ==
  ASSUME NEW p \in Repairer, OutputAssumption, Inv, Repair(p)
  PROVE  Inv'
<1>1. p \in Writer /\ [pc |-> "look", todo |-> {}] \in WriterState
  BY DEF Writer, WriterState
<1>2. QED
  BY <1>1, WriterMoves DEF Repair

-----------------------------------------------------------------------------
(* The invariant.                                                           *)

\* A restart keeps the disk and the rows.
LEMMA RestartStep ==
  ASSUME OutputAssumption, Inv, RestartOutput
  PROVE  Inv'
<1>1. /\ fin' = [f \in Finisher |-> NoFinish] /\ opt' = [p \in Writer |-> NoWriter]
      /\ UNCHANGED <<status, completed, images, disk, meta, extra>>
  BY DEF RestartOutput
<1>2. NoFinish \in FinishState /\ NoWriter \in WriterState /\ NoWriter.pc = "idle"
  BY DEF NoFinish, FinishState, NoWriter, WriterState
<1>3. Typed'
  BY <1>1, <1>2 DEF Inv, Typed
<1>4. ASSUME NEW f \in Finisher PROVE Stored(f)'
  BY <1>1, NothingStored DEF NoFinish
<1>5. Complete'
  BY <1>1 DEF Inv, Complete
<1>6. Optional'
  BY <1>1, <1>2 DEF Inv, Optional, Right
<1>7. QED
  BY <1>3, <1>4, <1>5, <1>6 DEF Inv

\* The worker has a prompt and nothing is stored.
LEMMA InitialInv ==
  ASSUME OutputAssumption, Init
  PROVE  Inv
<1>1. NoFinish \in FinishState /\ NoWriter \in WriterState /\ NoWriter.pc = "idle"
      /\ NoFinish.stored = <<>>
  BY DEF NoFinish, FinishState, NoWriter, WriterState
<1> DEFINE first == [NoFinish EXCEPT !.pc = "fetch", !.live = TRUE]
<1>2. first \in FinishState /\ first.stored = <<>> /\ first.pc = "fetch"
  BY <1>1 DEF FinishState
<1>3. NoFinish.pc = "idle" /\ fin = [f \in Finisher |-> IF f = "worker" THEN first ELSE NoFinish]
  BY DEF Init, NoFinish
<1>4. ASSUME NEW f \in Finisher
      PROVE  fin[f] \in FinishState /\ fin[f].stored = <<>> /\ fin[f].pc \in {"idle", "fetch"}
  <2> HIDE DEF first
  <2>1. QED
    BY <1>1, <1>2, <1>3
<1>5. Typed
  BY <1>1, <1>4, <1>3 DEF Init, Typed
<1>6. ASSUME NEW f \in Finisher PROVE Stored(f)
  BY <1>4, <1>6 DEF Stored, OutputAssumption
<1>7. Complete
  BY DEF Init, Complete
<1>8. Optional
  BY <1>1 DEF Init, Optional
<1>9. QED
  BY <1>5, <1>6, <1>7, <1>8 DEF Inv

\* Every step keeps the invariant.
LEMMA StepInv ==
  ASSUME OutputAssumption, Inv, [Next]_ovars
  PROVE  Inv'
<1>1. ASSUME NEW f \in Finisher, Finishing(f) PROVE Inv'
  BY <1>1, FetchStep, StoreFixedStep, CreateStep, FillStep, CommitStep DEF Finishing
<1>2. CASE UNCHANGED ovars
  BY <1>2 DEF ovars, Inv, Typed, Stored, Complete, Optional, Right, Next1
<1>3. QED
  BY <1>1, <1>2, ReconcilesStep, RepairStep, WritingStep, RestartStep DEF Next

\* The invariant holds in every reachable state.
LEMMA Invariance ==
  ASSUME OutputAssumption
  PROVE  Spec => []Inv
<1>1. Init => Inv
  BY InitialInv
<1>2. Inv /\ [Next]_ovars => Inv'
  BY StepInv
<1>3. QED
  BY <1>1, <1>2, PTL DEF Spec

\* A completed generation has all its images whole, whoever else was storing them,
\* however often the process died (complete_generation_batch, store_image).
THEOREM CompletedWhole ==
  ASSUME OutputAssumption
  PROVE  Spec => []CompletedIsWhole
<1>1. Inv => CompletedIsWhole
  BY DEF Inv, Complete, CompletedIsWhole
<1>2. QED
  BY Invariance, <1>1, PTL

\* The rows of the sidecar and the thumbnails match their files, although any
\* number of writers replaces the files: all of them write what the completed
\* rows say (write_generation_metadata, GenerationArtifactRepository.add).
THEOREM RowsMatch ==
  ASSUME OutputAssumption
  PROVE  Spec => []RowsMatchFiles
<1>1. Inv => RowsMatchFiles
  BY DEF Inv, Optional, RowsMatchFiles
<1>2. QED
  BY Invariance, <1>1, PTL
=============================================================================

------------------------- MODULE InteractiveRunProofs -------------------------
(***************************************************************************)
(* Proofs about InteractiveRun: the verdict of a run is true of its        *)
(* generations although nobody reads the queue and the row at once, and no *)
(* request of a generate button is queued into an active run.              *)
(***************************************************************************)
EXTENDS InteractiveRun, FiniteSetTheorems, WellFoundedInduction, TLAPS

Status == Ended \union {"pending", "running"}

ReaderState ==
    [pc : {"idle", "look", "drop", "cancel"}, r : Nat, row : RunRow,
     seen : Seq(Status \union {"missing"}), left : SUBSET Member]

\* Who may be about to queue a request on its own.
Handlers == {"idle", "tab", "other"}

Typed == /\ rows \in Seq(RunRow) /\ gens \in Seq([Member -> Generation])
         /\ Len(rows) = Len(gens)
         /\ actor \in [Reader -> ReaderState]
         /\ \A a \in Reader : actor[a].r \in 0 .. Len(rows)
         /\ direct \in Handlers

\* What a reader has seen of the generations that had ended is still so: the rest
\* of what it saw may be old.
Knows(a) ==
    LET p == actor[a] IN
    /\ Len(p.seen) <= Batch
    /\ IF p.pc = "idle" THEN p.seen = <<>> ELSE p.r \in DOMAIN rows
    /\ \A i \in 1 .. Len(p.seen) : p.seen[i] \in Ended => gens[p.r][i].status = p.seen[i]
    /\ p.pc = "drop" => Failed(p)

TrueOf(r) ==
    /\ rows[r].status = "completed" => \A k \in Member : gens[r][k].status = "completed"
    /\ rows[r].status = "cancelled" =>
           \A k \in Member : gens[r][k].status \in {"completed", "cancelled"}
    /\ rows[r].status = "failed" => \E k \in Member : gens[r][k].status = "failed"

\* A request of a generate button has seen that no run is active, and none starts.
Admitted == direct = "tab" => ActiveRuns = {}

Inv == /\ Typed
       /\ \A a \in Reader : Knows(a)
       /\ \A r \in DOMAIN rows : TrueOf(r)
       /\ Admitted

-----------------------------------------------------------------------------
(* Numbers.                                                                 *)
\* A set of numbers has a smallest member: what the CHOOSEs of the model pick.
LEMMA Smallest ==
  ASSUME NEW S \in SUBSET Nat, S # {}
  PROVE  \E x \in S : \A y \in S : x <= y
<1>1. \E x \in S : \A y \in S : ~ (<<y, x>> \in OpToRel(<, Nat))
  BY NatLessThanWellFounded, WFMin
<1>2. PICK x \in S : \A y \in S : ~ (<<y, x>> \in OpToRel(<, Nat))
  BY <1>1
<1>3. ASSUME NEW y \in S PROVE x <= y
  <2>1. <<y, x>> \in Nat \X Nat /\ ~(<<y, x>> \in OpToRel(<, Nat))
    BY <1>2
  <2>2. ~(y < x)
    BY <2>1 DEF OpToRel
  <2>3. QED
    BY <2>2
<1>4. QED
  BY <1>3

\* A bounded one has a largest.
LEMMA Largest ==
  ASSUME NEW n \in Nat, NEW S \in SUBSET (1 .. n), S # {}
  PROVE  \E x \in S : \A y \in S : y <= x
<1> DEFINE T == {n - x : x \in S}
<1>1. T \in SUBSET Nat /\ T # {}
  <2>1. \A x \in S : n - x \in Nat
    OBVIOUS
  <2>2. PICK x \in S : TRUE
    OBVIOUS
  <2>3. n - x \in T
    OBVIOUS
  <2>4. T \subseteq Nat
    BY <2>1
  <2>5. QED
    BY <2>3, <2>4
<1>2. PICK t \in T : \A u \in T : t <= u
  <2> HIDE DEF T
  <2>1. QED
    BY <1>1, Smallest
<1>3. PICK x \in S : t = n - x
  BY <1>2
<1>4. ASSUME NEW y \in S PROVE y <= x
  <2>1. n - y \in T
    OBVIOUS
  <2>2. n - x <= n - y
    BY <1>2, <1>3, <2>1
  <2>3. QED
    BY <2>2
<1>5. QED
  BY <1>4

-----------------------------------------------------------------------------
(* The generations.                                                         *)

\* A generation that has ended stays what it is; none is lost.
Later ==
    /\ gens' \in Seq([Member -> Generation]) /\ Len(gens') >= Len(gens)
    /\ \A r \in DOMAIN gens : \A k \in Member :
          gens[r][k].status \in Ended => gens'[r][k].status = gens[r][k].status

\* One entry of a sequence is replaced.
LEMMA OneEntry ==
  ASSUME NEW S, NEW s \in Seq(S), NEW i \in DOMAIN s, NEW e \in S, NEW t,
         t = [s EXCEPT ![i] = e]
  PROVE  /\ t \in Seq(S) /\ Len(t) = Len(s) /\ DOMAIN t = DOMAIN s
         /\ t[i] = e /\ \A j \in DOMAIN s \ {i} : t[j] = s[j]
OBVIOUS

\* There is nothing to replace.
LEMMA NoEntry ==
  ASSUME NEW S, NEW s \in Seq(S), NEW i, i \notin DOMAIN s, NEW e
  PROVE  [s EXCEPT ![i] = e] = s
<1>1. s = [x \in DOMAIN s |-> s[x]]
  OBVIOUS
<1>2. [s EXCEPT ![i] = e] = [x \in DOMAIN s |-> s[x]]
  OBVIOUS
<1>3. QED
  BY <1>1, <1>2

\* One generation is written, and one that has ended keeps its status.
LEMMA OneGeneration ==
  ASSUME NEW r, NEW k, NEW h, Typed,
         r \in DOMAIN gens /\ k \in Member =>
             /\ h \in Generation
             /\ gens[r][k].status \in Ended => h.status = gens[r][k].status,
         gens' = [gens EXCEPT ![r][k] = h]
  PROVE  Later /\ Len(gens') = Len(gens)
<1>1. gens \in Seq([Member -> Generation])
  BY DEF Typed
<1> DEFINE g == [gens[r] EXCEPT ![k] = h]
<1>2. gens' = [gens EXCEPT ![r] = g]
  OBVIOUS
<1>3. CASE r \in DOMAIN gens
  <2>1. gens[r] \in [Member -> Generation]
    BY <1>1, <1>3
  <2>2. g \in [Member -> Generation]
    BY <1>3, <2>1
  <2>3. \A j \in Member : gens[r][j].status \in Ended => g[j].status = gens[r][j].status
    BY <1>3, <2>1
  <2> HIDE DEF g
  <2>4. gens' \in Seq([Member -> Generation]) /\ Len(gens') = Len(gens)
        /\ gens'[r] = g /\ \A s \in DOMAIN gens \ {r} : gens'[s] = gens[s]
    BY ONLY <1>1, <1>2, <1>3, <2>2, OneEntry
  <2>5. QED
    BY <1>1, <2>3, <2>4 DEF Later
<1>4. CASE r \notin DOMAIN gens
  <2> HIDE DEF g
  <2>1. gens' = gens
    BY ONLY <1>1, <1>2, <1>4, NoEntry
  <2>2. Len(gens) >= Len(gens)
    BY <1>1
  <2>3. QED
    BY ONLY <1>1, <2>1, <2>2 DEF Later
<1>5. QED
  BY <1>3, <1>4

\* What a reader knows survives the others' steps.
LEMMA KnowsStill ==
  ASSUME NEW a \in Reader, Typed, Knows(a), Later, Len(rows') >= Len(rows),
         rows' \in Seq(RunRow), actor'[a].pc = actor[a].pc, actor'[a].r = actor[a].r,
         actor'[a].seen = actor[a].seen
  PROVE  Knows(a)'
<1> DEFINE p == actor[a]
<1>1. p \in ReaderState /\ Len(p.seen) \in Nat /\ Len(rows) \in Nat /\ Batch \in Nat
  BY InteractiveAssumption DEF Typed, ReaderState
<1>2. DOMAIN rows = 1 .. Len(rows) /\ DOMAIN rows' = 1 .. Len(rows') /\ DOMAIN gens = 1 .. Len(rows)
  BY DEF Typed
<1>3. ASSUME NEW i \in 1 .. Len(p.seen), p.seen[i] \in Ended
      PROVE  gens'[p.r][i].status = p.seen[i]
  <2>1. i \in Member /\ p.seen # <<>>
    BY <1>1 DEF Knows, Member
  <2>2. p.r \in DOMAIN rows /\ gens[p.r][i].status = p.seen[i]
    BY <1>3, <2>1 DEF Knows
  <2>3. QED
    BY <1>2, <1>3, <2>1, <2>2 DEF Later
<1>4. IF p.pc = "idle" THEN p.seen = <<>> ELSE p.r \in DOMAIN rows'
  BY <1>1, <1>2 DEF Knows
<1>5. QED
  BY <1>3, <1>4 DEF Knows, Failed, Having

\* A verdict stays true.
LEMMA TrueStill ==
  ASSUME NEW r \in DOMAIN rows, Typed, TrueOf(r), Later, rows'[r].status = rows[r].status
  PROVE  TrueOf(r)'
<1>1. r \in DOMAIN gens
  BY DEF Typed
<1>2. \A k \in Member : gens[r][k].status \in {"completed", "cancelled", "failed"}
                           => gens'[r][k].status = gens[r][k].status
  BY <1>1 DEF Later, Ended
<1>3. QED
  BY <1>2 DEF TrueOf

\* Nothing is added to the active runs.
LEMMA AdmittedStill ==
  ASSUME Admitted, direct' = direct, ActiveRuns' \subseteq ActiveRuns
  PROVE  Admitted'
BY DEF Admitted

-----------------------------------------------------------------------------
(* Readers.                                                                 *)

\* A reader between two readings.
LEMMA IdleReader == Idle \in ReaderState /\ Idle.pc = "idle" /\ Idle.seen = <<>> /\ Idle.r = 0
<1>1. NewRun \in RunRow
  BY InteractiveAssumption DEF NewRun, RunRow, Running, Ended, Member
<1>2. QED
  BY <1>1 DEF Idle, ReaderState

\* A reader that starts to read a run.
LEMMA ReadingRun ==
  ASSUME NEW r \in Nat, NEW row \in RunRow
  PROVE  LET s == [Idle EXCEPT !.pc = "look", !.r = r, !.row = row] IN
         s \in ReaderState /\ s.pc = "look" /\ s.seen = <<>> /\ s.r = r
BY IdleReader DEF ReaderState

\* One reader moves; what it has seen is still what it knew, or nothing.
LEMMA ReaderMoves ==
  ASSUME NEW a \in Reader, NEW s \in ReaderState, Inv, Later,
         rows' \in Seq(RunRow), Len(rows') = Len(gens'), Len(rows') >= Len(rows),
         actor' = [actor EXCEPT ![a] = s], s.r \in 0 .. Len(rows'), Knows(a)',
         \A r \in DOMAIN rows' : TrueOf(r)', Admitted', direct' \in Handlers
  PROVE  Inv'
<1>1. /\ actor' \in [Reader -> ReaderState] /\ actor'[a] = s
      /\ \A b \in Reader \ {a} : actor'[b] = actor[b]
  BY DEF Inv, Typed
<1>2. Len(rows) \in Nat /\ Len(rows') \in Nat
  BY DEF Inv, Typed
<1>3. \A b \in Reader : actor'[b].r \in 0 .. Len(rows')
  BY <1>1, <1>2 DEF Inv, Typed
<1>4. Typed'
  BY <1>1, <1>3 DEF Typed, Later
<1>5. \A b \in Reader : Knows(b)'
  BY <1>1, KnowsStill DEF Inv
<1>6. QED
  BY <1>4, <1>5 DEF Inv

\* The same when neither the rows nor the generations change.
LEMMA OnlyReader ==
  ASSUME NEW a \in Reader, NEW s \in ReaderState, Inv, UNCHANGED <<rows, gens, direct>>,
         actor' = [actor EXCEPT ![a] = s], s.r \in 0 .. Len(rows), Knows(a)'
  PROVE  Inv'
<1>1. Later /\ Len(rows') = Len(gens') /\ Len(rows') >= Len(rows) /\ rows' \in Seq(RunRow)
  <2>1. Len(gens) \in Nat /\ Len(rows) \in Nat
    BY DEF Inv, Typed
  <2>2. QED
    BY <2>1 DEF Later, Inv, Typed
<1>2. \A r \in DOMAIN rows' : TrueOf(r)'
  BY DEF Inv, TrueOf
<1>3. Admitted' /\ direct' \in Handlers
  BY DEF Inv, Typed, Admitted, ActiveRuns
<1>4. QED
  BY <1>1, <1>2, <1>3, ReaderMoves

\* A reader that starts afresh knows nothing yet.
LEMMA KnowsNothing ==
  ASSUME NEW a \in Reader, actor'[a].seen = <<>>, actor'[a].pc # "drop",
         actor'[a].pc # "idle" => actor'[a].r \in DOMAIN rows'
  PROVE  Knows(a)'
BY InteractiveAssumption DEF Knows

\* A reader takes a run and its row.
LEMMA LoadStep ==
  ASSUME NEW a \in Reader, NEW r \in DOMAIN rows, Inv, UNCHANGED <<rows, gens, direct>>,
         actor' = [actor EXCEPT ![a] = Reading(r)]
  PROVE  Inv'
<1>1. r \in Nat /\ r \in 0 .. Len(rows) /\ rows[r] \in RunRow
  BY DEF Inv, Typed
<1> DEFINE s == Reading(r)
<1>2. s \in ReaderState /\ s.pc = "look" /\ s.seen = <<>> /\ s.r = r
  BY <1>1, ReadingRun DEF Reading
<1>3. actor'[a] = s
  BY DEF Inv, Typed
<1>4. Knows(a)'
  BY <1>2, <1>3, KnowsNothing
<1> HIDE DEF s
<1>5. QED
  BY <1>1, <1>2, <1>4, OnlyReader DEF s

\* A reader stops.
LEMMA IdlesStep ==
  ASSUME NEW a \in Reader, Inv, UNCHANGED <<rows, gens, direct>>,
         actor' = [actor EXCEPT ![a] = Idle]
  PROVE  Inv'
<1>1. actor'[a] = Idle /\ Len(rows) \in Nat
  BY DEF Inv, Typed
<1>2. Knows(a)'
  BY <1>1, IdleReader, KnowsNothing
<1>3. Idle \in ReaderState /\ Idle.r \in 0 .. Len(rows)
  BY <1>1, IdleReader
<1>4. QED
  BY <1>2, <1>3, OnlyReader

\* One more generation is looked up, or could not be.
LEMMA LookStep ==
  ASSUME NEW a \in Reader, Inv, Look(a)
  PROVE  Inv'
<1> DEFINE p == actor[a]
           k == Len(p.seen) + 1
<1>1. p \in ReaderState /\ p.seen \in Seq(Status \union {"missing"}) /\ Len(p.seen) \in Nat
  BY DEF Inv, Typed, ReaderState
<1>2. p.pc = "look" /\ Len(p.seen) < Batch /\ p.r \in DOMAIN rows /\ Batch \in Nat
  BY InteractiveAssumption DEF Look, Inv, Knows
<1>3. k \in Member /\ p.r \in DOMAIN gens
  BY <1>1, <1>2 DEF Member, Inv, Typed
<1>4. gens[p.r] \in [Member -> Generation] /\ gens[p.r][k] \in Generation
  BY <1>3 DEF Inv, Typed
<1>5. gens[p.r][k].status \in Status
  BY <1>4 DEF Generation, Status
<1>6. PICK x \in {gens[p.r][k].status, "missing"} : actor' = [actor EXCEPT ![a].seen = Append(@, x)]
  BY DEF Look
<1>7. x \in Status \union {"missing"} /\ Append(p.seen, x) \in Seq(Status \union {"missing"})
  BY <1>1, <1>5
<1> DEFINE s == [p EXCEPT !.seen = Append(p.seen, x)]
<1>8. s \in ReaderState /\ s.pc = "look" /\ s.r = p.r /\ s.seen = Append(p.seen, x)
  BY <1>1, <1>2, <1>7 DEF ReaderState
<1>9. actor' = [actor EXCEPT ![a] = s] /\ actor'[a] = s
  BY <1>6 DEF Inv, Typed
<1>10. UNCHANGED <<rows, gens, direct>>
  BY DEF Look, queue
<1>11. /\ Len(s.seen) = k /\ s.seen[k] = x /\ \A i \in 1 .. Len(p.seen) : s.seen[i] = p.seen[i]
       /\ 1 .. Len(s.seen) = 1 .. Len(p.seen) \union {k}
  <2>1. Len(s.seen) = k /\ s.seen[k] = x /\ \A i \in 1 .. Len(p.seen) : s.seen[i] = p.seen[i]
    BY <1>1, <1>7, <1>8
  <2>2. 1 .. k = 1 .. Len(p.seen) \union {k}
    BY <1>1
  <2>3. QED
    BY <2>1, <2>2
<1>12. ASSUME NEW i \in 1 .. Len(s.seen), s.seen[i] \in Ended
       PROVE  gens[s.r][i].status = s.seen[i]
  <2>1. CASE i = k
    <3>1. x # "missing"
      BY <1>11, <1>12, <2>1 DEF Ended
    <3>2. QED
      BY <1>6, <1>8, <1>11, <2>1, <3>1
  <2>2. CASE i \in 1 .. Len(p.seen)
    BY <1>8, <1>11, <1>12, <2>2 DEF Inv, Knows
  <2>3. QED
    BY <1>11, <2>1, <2>2
<1> HIDE DEF s
<1>13. Knows(a)'
  <2>1. Len(s.seen) <= Batch
    BY <1>1, <1>2, <1>11
  <2>2. QED
    BY <1>2, <1>8, <1>9, <1>10, <1>12, <2>1 DEF Knows
<1>14. s.r \in 0 .. Len(rows)
  BY <1>8 DEF Inv, Typed
<1>15. QED
  BY <1>8, <1>9, <1>10, <1>13, <1>14, OnlyReader

-----------------------------------------------------------------------------
(* What a reader concludes.                                                 *)

\* What it saw of a status is some of the generations.
LEMMA HavingSome ==
  ASSUME NEW a \in Reader, Inv, NEW S
  PROVE  Having(actor[a], S) \subseteq Member
<1> DEFINE p == actor[a]
<1>1. p.seen \in Seq(Status \union {"missing"}) /\ Len(p.seen) <= Batch /\ Len(p.seen) \in Nat
  BY DEF Inv, Typed, ReaderState, Knows
<1>2. DOMAIN p.seen \subseteq Member
  BY <1>1, InteractiveAssumption DEF Member
<1>3. QED
  BY <1>2 DEF Having

\* current_index is one of the generations, or 0.
LEMMA CurrentIn ==
  ASSUME NEW a \in Reader, Inv
  PROVE  Current(actor[a]) \in 0 .. Batch
<1> DEFINE open == Having(actor[a], {"pending", "running"})
<1>1. open \subseteq 1 .. Batch /\ Batch \in Nat
  BY HavingSome, InteractiveAssumption DEF Member
<1>2. CASE open = {}
  BY <1>1, <1>2 DEF Current
<1>3. CASE open # {}
  <2> HIDE DEF open
  <2>1. open \in SUBSET Nat
    BY <1>1
  <2>2. \E k \in open : \A j \in open : k <= j
    BY <1>3, <2>1, Smallest
  <2>3. (CHOOSE k \in open : \A j \in open : k <= j) \in open
    BY <2>2
  <2>4. Current(actor[a]) \in open
    BY <1>3, <2>3 DEF Current, open
  <2> DEFINE x == Current(actor[a])
  <2> HIDE DEF x
  <2>5. x \in 1 .. Batch
    BY <1>1, <2>4 DEF x
  <2>6. x \in 0 .. Batch
    BY <1>1, <2>5
  <2>7. QED
    BY <2>6 DEF x
<1>4. QED
  BY <1>2, <1>3

\* When all have ended, what it saw is what they are.
LEMMA AllSeen ==
  ASSUME NEW a \in Reader, Inv, AllEnded(actor[a]), NEW k \in Member
  PROVE  /\ k \in DOMAIN actor[a].seen /\ actor[a].seen[k] \in Ended
         /\ gens[actor[a].r][k].status = actor[a].seen[k]
<1> DEFINE p == actor[a]
           H == Having(p, Ended)
<1>1. H \subseteq Member /\ Cardinality(H) = Batch /\ Batch \in Nat
  BY HavingSome, InteractiveAssumption DEF AllEnded
<1>2. IsFiniteSet(Member) /\ Cardinality(Member) = Batch
  <2>1. 1 \in Int /\ Batch \in Int /\ (IF 1 > Batch THEN 0 ELSE Batch - 1 + 1) = Batch
    BY InteractiveAssumption
  <2>2. QED
    BY <2>1, FS_Interval DEF Member
<1>3. H = Member
  <2> HIDE DEF H
  <2>1. H \in SUBSET Member
    BY <1>1
  <2>2. QED
    BY <1>1, <1>2, <2>1, FS_Subset
<1>4. k \in DOMAIN p.seen /\ p.seen[k] \in Ended
  BY <1>3 DEF Having
<1>5. DOMAIN p.seen = 1 .. Len(p.seen)
  BY DEF Inv, Typed, ReaderState
<1>6. gens[p.r][k].status = p.seen[k]
  BY <1>4, <1>5 DEF Inv, Knows
<1>7. QED
  BY <1>4, <1>6

\* A verdict is what the generations are.
LEMMA VerdictHolds ==
  ASSUME NEW a \in Reader, Inv, ~Failed(actor[a])
  PROVE  LET p == actor[a] IN
         /\ Verdict(p) \in {"none", "completed", "cancelled"}
         /\ Verdict(p) = "completed" =>
                \A k \in Member : gens[p.r][k].status = "completed"
         /\ Verdict(p) = "cancelled" =>
                \A k \in Member : gens[p.r][k].status \in {"completed", "cancelled"}
<1> DEFINE p == actor[a]
<1>1. Verdict(p) # "none" => AllEnded(p)
  BY DEF Verdict
<1>2. ASSUME Verdict(p) # "none", NEW k \in Member
      PROVE  gens[p.r][k].status \in {"completed", "cancelled"}
  <2>1. k \in DOMAIN p.seen /\ p.seen[k] \in Ended /\ gens[p.r][k].status = p.seen[k]
    BY <1>1, <1>2, AllSeen
  <2>2. p.seen[k] # "failed"
    BY <2>1 DEF Failed, Having
  <2>3. QED
    BY <2>1, <2>2 DEF Ended
<1>3. ASSUME Verdict(p) = "completed", NEW k \in Member
      PROVE  gens[p.r][k].status # "cancelled"
  <2>1. k \in DOMAIN p.seen /\ gens[p.r][k].status = p.seen[k]
    BY <1>1, <1>3, AllSeen
  <2>2. Having(p, {"cancelled"}) = {}
    BY <1>3 DEF Verdict
  <2>3. QED
    BY <2>1, <2>2 DEF Having
<1>4. Verdict(p) \in {"none", "completed", "cancelled"}
  BY DEF Verdict
<1>5. QED
  BY <1>2, <1>3, <1>4

\* A failure that was seen is one.
LEMMA FailureHolds ==
  ASSUME NEW a \in Reader, Inv, Failed(actor[a])
  PROVE  \E k \in Member : gens[actor[a].r][k].status = "failed"
<1> DEFINE p == actor[a]
<1>1. PICK k \in Having(p, {"failed"}) : TRUE
  BY DEF Failed
<1>2. k \in Member /\ k \in DOMAIN p.seen /\ p.seen[k] = "failed"
  BY <1>1, HavingSome DEF Having
<1>3. DOMAIN p.seen = 1 .. Len(p.seen)
  BY DEF Inv, Typed, ReaderState
<1>4. gens[p.r][k].status = "failed"
  BY <1>2, <1>3 DEF Inv, Knows, Ended
<1>5. QED
  BY <1>2, <1>4

\* update_progress changes the fields of the row and nothing else.
LEMMA ProgressRow ==
  ASSUME NEW row \in RunRow, NEW a \in Reader, Inv, NEW current \in 0 .. Batch,
         NEW status \in Ended \union {"none"}
  PROVE  LET new == Progress(row, actor[a], status, current) IN
         new \in RunRow /\ new.status = (IF status = "none" THEN row.status ELSE status)
<1> DEFINE H == Having(actor[a], {"completed"})
           s == IF status = "none" THEN row.status ELSE status
<1>1. H \in SUBSET Member
  BY HavingSome
<1>2. s \in Running \union Ended
  BY DEF RunRow
<1>3. Progress(row, actor[a], status, current) =
          [row EXCEPT !.status = s, !.completed = H, !.current = current]
  BY DEF Progress
<1>4. QED
  <2> HIDE DEF H, s
  <2>1. QED
    BY <1>1, <1>2, <1>3 DEF RunRow, s

-----------------------------------------------------------------------------
(* The rows.                                                                *)

\* A row that is written does not become active, and its verdict is true.
LEMMA RowWritten ==
  ASSUME NEW a \in Reader, NEW s \in ReaderState, NEW r \in DOMAIN rows, NEW row \in RunRow,
         Inv, rows' = [rows EXCEPT ![r] = row], UNCHANGED <<gens, direct>>,
         row.status \in Running => rows[r].status \in Running, TrueOf(r)',
         actor' = [actor EXCEPT ![a] = s], s.seen = <<>>, s.pc # "drop",
         IF s.pc = "idle" THEN s.r = 0 ELSE s.r \in DOMAIN rows
  PROVE  Inv'
<1>1. /\ rows' \in Seq(RunRow) /\ Len(rows') = Len(rows) /\ DOMAIN rows' = DOMAIN rows
      /\ rows'[r] = row /\ \A q \in DOMAIN rows \ {r} : rows'[q] = rows[q]
  BY OneEntry DEF Inv, Typed
<1>2. Later /\ Len(rows') = Len(gens') /\ Len(rows') >= Len(rows)
  <2>1. Len(rows) \in Nat /\ Len(gens) = Len(rows) /\ gens \in Seq([Member -> Generation])
    BY DEF Inv, Typed
  <2>2. QED
    BY <1>1, <2>1 DEF Later
<1>3. \A q \in DOMAIN rows' : TrueOf(q)'
  BY <1>1 DEF Inv, TrueOf
<1>4. Admitted'
  <2>1. ActiveRuns' \subseteq ActiveRuns
    BY <1>1 DEF ActiveRuns
  <2>2. QED
    BY <2>1, AdmittedStill DEF Inv
<1>5. actor'[a] = s /\ s.r \in 0 .. Len(rows')
  BY <1>1 DEF Inv, Typed
<1>6. Knows(a)'
  BY <1>1, <1>5, KnowsNothing
<1>7. direct' \in Handlers
  BY DEF Inv, Typed
<1>8. QED
  BY <1>1, <1>2, <1>3, <1>4, <1>5, <1>6, <1>7, ReaderMoves

\* The verdict is written over whatever the row has become.
LEMMA WriteProgressStep ==
  ASSUME NEW a \in Reader, Inv, WriteProgress(a)
  PROVE  Inv'
<1> DEFINE p == actor[a]
<1>1. p.r \in DOMAIN rows
  BY DEF WriteProgress, Seen, Inv, Knows
<1> PICK r \in DOMAIN rows : r = p.r
  BY <1>1
<1> DEFINE row == Progress(rows[r], p, Verdict(p), Current(p))
<1>2. /\ UNCHANGED <<gens, direct>> /\ actor' = [actor EXCEPT ![a] = Idle]
      /\ ~Failed(p) /\ p.pc = "look"
  BY DEF WriteProgress, queue, Seen
<1>3. r \in DOMAIN rows /\ rows[r] \in RunRow
  BY DEF Inv, Typed
<1>4. CASE rows' = rows
  BY <1>2, <1>4, IdlesStep
<1>5. CASE rows' = [rows EXCEPT ![r] = row]
  <2>1. /\ Verdict(p) \in Ended \union {"none"} /\ Current(p) \in 0 .. Batch
        /\ Verdict(p) \notin {"failed"}
    BY <1>2, VerdictHolds, CurrentIn DEF Ended
  <2>2. row \in RunRow /\ row.status = (IF Verdict(p) = "none" THEN rows[r].status ELSE Verdict(p))
    BY <1>3, <2>1, ProgressRow
  <2>3. row.status \in Running => rows[r].status \in Running
    BY <2>1, <2>2 DEF Running, Ended
  <2> HIDE DEF row
  <2>4. rows'[r] = row
    BY <1>3, <1>5
  <2>5. TrueOf(r)'
    <3>1. CASE Verdict(p) = "none"
      BY <1>2, <1>3, <2>2, <2>4, <3>1 DEF Inv, TrueOf
    <3>2. CASE Verdict(p) # "none"
      BY <1>2, <2>1, <2>2, <2>4, <3>2, VerdictHolds DEF TrueOf
    <3>3. QED
      BY <3>1, <3>2
  <2>6. QED
    BY <1>2, <1>3, <1>5, <2>2, <2>3, <2>5, IdleReader, RowWritten
<1>6. QED
  BY <1>4, <1>5 DEF WriteProgress

\* The failure is written, and the run read once more.
LEMMA WriteFailedStep ==
  ASSUME NEW a \in Reader, Inv, WriteFailed(a)
  PROVE  Inv'
<1> DEFINE p == actor[a]
<1>1. p.r \in DOMAIN rows
  BY DEF WriteFailed, Inv, Knows
<1> PICK r \in DOMAIN rows : r = p.r
  BY <1>1
<1> DEFINE row == Progress(rows[r], p, "failed", 0)
<1>2. UNCHANGED <<gens, direct>> /\ p.pc = "drop"
  BY DEF WriteFailed, queue
<1>3. r \in DOMAIN rows /\ rows[r] \in RunRow /\ Failed(p) /\ r \in Nat
  BY <1>2 DEF Inv, Typed, Knows
<1>4. CASE rows' = rows /\ actor' = [actor EXCEPT ![a] = Idle]
  BY <1>2, <1>4, IdlesStep
<1>5. CASE /\ rows' = [rows EXCEPT ![r] = row]
           /\ actor' = [actor EXCEPT ![a] = [Idle EXCEPT !.pc = "look", !.r = r, !.row = rows'[r]]]
  <2>1. row \in RunRow /\ row.status = "failed"
    BY <1>3, InteractiveAssumption, ProgressRow DEF Ended
  <2> HIDE DEF row
  <2>2. rows'[r] = row
    BY <1>3, <1>5
  <2> DEFINE s == [Idle EXCEPT !.pc = "look", !.r = r, !.row = row]
  <2>3. s \in ReaderState /\ s.pc = "look" /\ s.seen = <<>> /\ s.r = r
    BY ONLY <1>3, <2>1, ReadingRun
  <2>4. actor' = [actor EXCEPT ![a] = s]
    BY <1>5, <2>2
  <2>5. TrueOf(r)'
    BY <1>2, <1>3, <2>1, <2>2, FailureHolds DEF TrueOf
  <2> HIDE DEF s
  <2>6. row.status \notin Running
    BY <2>1 DEF Running
  <2>7. QED
    BY <1>2, <1>3, <1>5, <2>1, <2>3, <2>4, <2>5, <2>6, RowWritten
<1>6. QED
  BY <1>4, <1>5 DEF WriteFailed

\* A reader that saw a failure drops the rest first.
LEMMA SeesFailureStep ==
  ASSUME NEW a \in Reader, Inv, SeesFailure(a)
  PROVE  Inv'
<1> DEFINE p == actor[a]
           s == [p EXCEPT !.pc = "drop", !.left = Remaining(p)]
<1>1. p \in ReaderState /\ p.pc = "look" /\ Failed(p) /\ UNCHANGED <<rows, gens, direct>>
  BY DEF Inv, Typed, SeesFailure, Seen, queue
<1>2. Remaining(p) \in SUBSET Member
  BY DEF Remaining
<1>3. s \in ReaderState /\ s.pc = "drop" /\ s.seen = p.seen /\ s.r = p.r
  <2> DEFINE left == Remaining(p)
  <2> HIDE DEF left
  <2>1. left \in SUBSET Member
    BY <1>2 DEF left
  <2>2. s = [p EXCEPT !.pc = "drop", !.left = left]
    BY DEF left
  <2>3. QED
    BY <1>1, <2>1, <2>2 DEF ReaderState
<1>4. actor' = [actor EXCEPT ![a] = s] /\ actor'[a] = s
  <2>1. actor \in [Reader -> ReaderState]
    BY DEF Inv, Typed
  <2> DEFINE o == [actor EXCEPT ![a].pc = "drop"]
             left == Remaining(p)
  <2> HIDE DEF left
  <2>2. actor' = [o EXCEPT ![a].left = left]
    BY DEF SeesFailure, left
  <2>3. o[a] = [p EXCEPT !.pc = "drop"]
    BY <2>1
  <2>4. actor' = [o EXCEPT ![a] = [o[a] EXCEPT !.left = left]]
    BY <2>2
  <2>5. actor' = [o EXCEPT ![a] = s]
    BY <2>3, <2>4 DEF left
  <2> HIDE DEF s
  <2>6. QED
    BY <2>1, <2>5
<1>5. Knows(a) /\ p.r \in 0 .. Len(rows)
  BY DEF Inv, Typed
<1> HIDE DEF s
<1>6. Knows(a)'
  BY <1>1, <1>3, <1>4, <1>5 DEF Knows, Failed, Having
<1>7. QED
  BY <1>1, <1>3, <1>4, <1>5, <1>6, OnlyReader

-----------------------------------------------------------------------------
(* The generations, the browser's other handlers, and the process.          *)

\* The statuses move on, and at most what a reader has left to do changes.
LEMMA GenerationsMove ==
  ASSUME Inv, Later, Len(gens') = Len(gens), UNCHANGED <<rows, direct>>,
         actor' \in [Reader -> ReaderState],
         \A a \in Reader : /\ actor'[a].pc = actor[a].pc /\ actor'[a].r = actor[a].r
                           /\ actor'[a].seen = actor[a].seen
  PROVE  Inv'
<1>1. Typed'
  BY DEF Inv, Typed, Later
<1>2. ASSUME NEW a \in Reader PROVE Knows(a)'
  <2>1. rows' \in Seq(RunRow) /\ Len(rows') >= Len(rows)
    BY DEF Inv, Typed
  <2>2. QED
    BY <2>1, KnowsStill DEF Inv
<1>3. \A r \in DOMAIN rows' : TrueOf(r)'
  BY TrueStill DEF Inv
<1>4. Admitted'
  BY AdmittedStill DEF Inv, ActiveRuns
<1>5. QED
  BY <1>1, <1>2, <1>3, <1>4 DEF Inv

\* A reader has one generation less to visit.
LEMMA OneLess ==
  ASSUME NEW a \in Reader, NEW k, Inv, actor' = [actor EXCEPT ![a].left = @ \ {k}]
  PROVE  /\ actor' \in [Reader -> ReaderState]
         /\ \A b \in Reader : /\ actor'[b].pc = actor[b].pc /\ actor'[b].r = actor[b].r
                              /\ actor'[b].seen = actor[b].seen
<1> DEFINE p == actor[a]
           s == [p EXCEPT !.left = p.left \ {k}]
<1>1. p \in ReaderState /\ actor \in [Reader -> ReaderState]
  BY DEF Inv, Typed
<1>2. s \in ReaderState /\ s.pc = p.pc /\ s.r = p.r /\ s.seen = p.seen
  BY <1>1 DEF ReaderState
<1>3. actor' = [actor EXCEPT ![a] = s]
  BY <1>1
<1> HIDE DEF s
<1>4. QED
  BY <1>1, <1>2, <1>3

\* A generation that has ended is left alone by a cancellation.
LEMMA DroppedKeeps ==
  ASSUME NEW g \in Generation
  PROVE  /\ Dropped(g) \in Generation
         /\ g.status \in Ended => Dropped(g).status = g.status
         /\ g.status = "running" => [g EXCEPT !.status = "cancelled"] \in Generation
BY DEF Dropped, Generation, Ended

\* What a cancellation writes keeps the generations that have ended.
LEMMA OneCancelled ==
  ASSUME NEW r, NEW k, NEW h, Inv, gens' = [gens EXCEPT ![r][k] = h],
         h = Dropped(gens[r][k]) \/ (/\ gens[r][k].status = "running"
                                     /\ h = [gens[r][k] EXCEPT !.status = "cancelled"])
  PROVE  Later /\ Len(gens') = Len(gens)
<1>1. ASSUME r \in DOMAIN gens, k \in Member
      PROVE  h \in Generation /\ (gens[r][k].status \in Ended => h.status = gens[r][k].status)
  <2>1. gens[r][k] \in Generation
    BY <1>1 DEF Inv, Typed
  <2>2. QED
    BY <2>1, DroppedKeeps DEF Ended
<1>2. QED
  BY <1>1, OneGeneration DEF Inv

\* Nothing happens to the generations.
LEMMA Same ==
  ASSUME Inv, gens' = gens
  PROVE  Later /\ Len(gens') = Len(gens)
BY DEF Inv, Typed, Later

\* A failed run drops its generations one by one.
LEMMA DropOneStep ==
  ASSUME NEW a \in Reader, Inv, DropOne(a)
  PROVE  Inv'
<1> DEFINE r == actor[a].r
           k == CHOOSE j \in actor[a].left : \A i \in actor[a].left : j <= i
<1>1. UNCHANGED <<rows, direct>> /\ actor' = [actor EXCEPT ![a].left = @ \ {k}]
  BY DEF DropOne
<1>2. gens' = [gens EXCEPT ![r][k] = Dropped(gens[r][k])] \/ gens' = gens
  BY DEF DropOne
<1> HIDE DEF r, k
<1>3. Later /\ Len(gens') = Len(gens)
  BY <1>2, OneCancelled, Same
<1>4. QED
  BY <1>1, <1>3, OneLess, GenerationsMove

\* So does a cancelled one, whatever has ended since.
LEMMA CancelOneStep ==
  ASSUME Inv, CancelOne
  PROVE  Inv'
<1> DEFINE r == actor["browser"].r
           k == CHOOSE j \in actor["browser"].left : \A i \in actor["browser"].left : j <= i
<1>1. UNCHANGED <<rows, direct>> /\ actor' = [actor EXCEPT !["browser"].left = @ \ {k}]
  BY DEF CancelOne
<1>2. \/ \E stops \in BOOLEAN :
            gens' = [gens EXCEPT ![r][k] =
                        IF stops /\ gens[r][k].status = "running"
                        THEN [gens[r][k] EXCEPT !.status = "cancelled"]
                        ELSE Dropped(gens[r][k])]
      \/ gens' = gens
  BY DEF CancelOne
<1> HIDE DEF r, k
<1>3. \/ gens' = [gens EXCEPT ![r][k] = Dropped(gens[r][k])]
      \/ /\ gens[r][k].status = "running"
         /\ gens' = [gens EXCEPT ![r][k] = [gens[r][k] EXCEPT !.status = "cancelled"]]
      \/ gens' = gens
  BY <1>2
<1>4. Later /\ Len(gens') = Len(gens)
  BY <1>3, OneCancelled, Same
<1>5. QED
  BY <1>1, <1>4, OneLess, GenerationsMove DEF Reader

\* The worker moves an open generation on.
LEMMA OneServed ==
  ASSUME NEW r, NEW k, NEW status \in Status, Inv, gens[r][k].status \notin Ended,
         gens' = [gens EXCEPT ![r][k].status = status]
  PROVE  Later /\ Len(gens') = Len(gens)
<1> DEFINE h == [gens[r][k] EXCEPT !.status = status]
<1>1. gens' = [gens EXCEPT ![r][k] = h]
  OBVIOUS
<1>2. ASSUME r \in DOMAIN gens, k \in Member PROVE h \in Generation
  <2>1. gens[r][k] \in Generation
    BY <1>2 DEF Inv, Typed
  <2>2. QED
    BY <2>1 DEF Generation, Status
<1> HIDE DEF h
<1>3. r \in DOMAIN gens /\ k \in Member =>
          h \in Generation /\ (gens[r][k].status \in Ended => h.status = gens[r][k].status)
  BY <1>2
<1>4. Typed
  BY DEF Inv
<1>5. QED
  BY ONLY <1>1, <1>3, <1>4, OneGeneration

\* The worker starts the first open generation.
LEMMA ClaimStep ==
  ASSUME Inv, Claim
  PROVE  Inv'
<1> DEFINE r == FirstOpen[1]
           k == FirstOpen[2]
<1>1. /\ gens[r][k].status = "pending" /\ gens' = [gens EXCEPT ![r][k].status = "running"]
      /\ UNCHANGED <<rows, actor, direct>>
  BY DEF Claim
<1> HIDE DEF r, k
<1>2. Later /\ Len(gens') = Len(gens)
  BY <1>1, OneServed DEF Status, Ended
<1>3. actor' \in [Reader -> ReaderState]
  BY <1>1 DEF Inv, Typed
<1>4. QED
  BY <1>1, <1>2, <1>3, GenerationsMove

\* The callback of the worker reads an active run, if there is one.
LEMMA CallbackStep ==
  ASSUME Inv, UNCHANGED <<rows, direct>>, actor' = [actor EXCEPT !["worker"] = Callback],
         Later, Len(gens') = Len(gens)
  PROVE  Inv'
<1>1. /\ Callback \in ReaderState /\ Callback.seen = <<>>
      /\ \/ Callback.pc = "idle" /\ Callback.r = 0
         \/ Callback.pc = "look" /\ Callback.r \in DOMAIN rows
  <2>1. CASE ActiveRuns = {}
    BY <2>1, IdleReader DEF Callback
  <2>2. CASE ActiveRuns # {}
    <3>1. PICK q \in ActiveRuns : Callback = Reading(q)
      BY <2>2 DEF Callback
    <3>2. q \in DOMAIN rows /\ q \in Nat /\ rows[q] \in RunRow
      BY DEF ActiveRuns, Inv, Typed
    <3>3. QED
      BY <3>1, <3>2, ReadingRun DEF Reading
  <2>3. QED
    BY <2>1, <2>2
<1>2. "worker" \in Reader /\ actor'["worker"] = Callback
  BY DEF Reader, Inv, Typed
<1>3. Knows("worker")'
  BY <1>1, <1>2, KnowsNothing
<1>4. rows' \in Seq(RunRow) /\ Len(rows') = Len(gens') /\ Len(rows') >= Len(rows)
      /\ direct' \in Handlers
  BY DEF Inv, Typed
<1>5. \A q \in DOMAIN rows' : TrueOf(q)'
  BY TrueStill DEF Inv
<1>6. Admitted'
  BY AdmittedStill DEF Inv, ActiveRuns
<1>7. Callback.r \in 0 .. Len(rows')
  BY <1>1 DEF Inv, Typed
<1>8. QED
  BY <1>1, <1>2, <1>3, <1>4, <1>5, <1>6, <1>7, ReaderMoves

\* A generation of a run ends.
LEMMA FinishStep ==
  ASSUME Inv, Finish
  PROVE  Inv'
<1> DEFINE r == FirstOpen[1]
           k == FirstOpen[2]
<1>1. PICK status \in Ended :
          gens[r][k].status = "running" /\ gens' = [gens EXCEPT ![r][k].status = status]
  BY DEF Finish
<1>2. UNCHANGED <<rows, direct>> /\ actor' = [actor EXCEPT !["worker"] = Callback]
  BY DEF Finish
<1> HIDE DEF r, k
<1>3. Later /\ Len(gens') = Len(gens)
  BY <1>1, OneServed DEF Status, Ended
<1>4. QED
  BY <1>2, <1>3, CallbackStep

\* A request of its own ends.
LEMMA FinishDirectStep ==
  ASSUME Inv, FinishDirect
  PROVE  Inv'
<1>1. UNCHANGED <<rows, gens, direct>> /\ actor' = [actor EXCEPT !["worker"] = Callback]
  BY DEF FinishDirect
<1>2. Later /\ Len(gens') = Len(gens)
  BY <1>1 DEF Later, Inv, Typed
<1>3. QED
  BY <1>1, <1>2, CallbackStep

\* A run may start while no generation is being admitted on its own.
LEMMA StartStep ==
  ASSUME Inv, Start
  PROVE  Inv'
<1> DEFINE n == Len(rows) + 1
           fresh == [k \in Member |-> [status |-> "pending", cancel |-> FALSE]]
           s == [Idle EXCEPT !.pc = "look", !.r = n]
<1>1. /\ rows' = Append(rows, NewRun) /\ gens' = Append(gens, fresh)
      /\ actor' = [actor EXCEPT !["browser"] = s] /\ direct = "idle" /\ direct' = direct
  BY DEF Start, Admission
<1>2. NewRun \in RunRow /\ NewRun.status = "active" /\ fresh \in [Member -> Generation]
  BY InteractiveAssumption DEF NewRun, RunRow, Running, Ended, Generation, Member
<1>3. /\ rows \in Seq(RunRow) /\ gens \in Seq([Member -> Generation])
      /\ Len(rows) = Len(gens) /\ Len(rows) \in Nat
  BY DEF Inv, Typed
<1>4. /\ rows' \in Seq(RunRow) /\ Len(rows') = n /\ rows'[n] = NewRun
      /\ \A r \in DOMAIN rows : rows'[r] = rows[r]
      /\ DOMAIN rows' = DOMAIN rows \union {n}
  <2> HIDE DEF fresh, s
  <2>1. rows' \in Seq(RunRow) /\ Len(rows') = n /\ rows'[n] = NewRun
        /\ \A r \in DOMAIN rows : rows'[r] = rows[r]
    BY <1>1, <1>2, <1>3
  <2>2. 1 .. n = 1 .. Len(rows) \union {n}
    BY <1>3
  <2>3. QED
    BY <1>3, <2>1, <2>2
<1>5. Later /\ Len(gens') = n
  <2> HIDE DEF fresh, s
  <2>1. gens' \in Seq([Member -> Generation]) /\ Len(gens') = n
        /\ \A r \in DOMAIN gens : gens'[r] = gens[r]
    BY <1>1, <1>2, <1>3
  <2>2. QED
    BY <1>3, <2>1 DEF Later
<1>6. ASSUME NEW r \in DOMAIN rows' PROVE TrueOf(r)'
  <2>1. CASE r = n
    BY <1>2, <1>4, <2>1 DEF TrueOf
  <2>2. CASE r \in DOMAIN rows
    BY <1>4, <1>5, <2>2, TrueStill DEF Inv
  <2>3. QED
    BY <1>4, <2>1, <2>2
<1>7. s \in ReaderState /\ s.pc = "look" /\ s.seen = <<>> /\ s.r = n
  <2>1. n \in Nat
    BY <1>3
  <2> HIDE DEF n
  <2>2. QED
    BY <2>1, IdleReader DEF ReaderState
<1> HIDE DEF s
<1>8. "browser" \in Reader /\ actor'["browser"] = s
  BY <1>1 DEF Reader, Inv, Typed
<1>9. Knows("browser")'
  BY <1>4, <1>7, <1>8, KnowsNothing
<1>10. Admitted' /\ direct' \in Handlers
  BY <1>1 DEF Admitted, Handlers
<1>11. n \in 0 .. Len(rows') /\ Len(rows') >= Len(rows)
  BY <1>3, <1>4
<1>12. QED
  BY <1>1, <1>4, <1>5, <1>6, <1>7, <1>8, <1>9, <1>10, <1>11, ReaderMoves

\* A cancellation changes an active row only.
LEMMA RequestCancelStep ==
  ASSUME NEW r \in DOMAIN rows, Inv, RequestCancel(r)
  PROVE  Inv'
<1> DEFINE status == IF rows[r].status = "active" THEN "cancelling" ELSE rows[r].status
           row == [rows[r] EXCEPT !.status = status]
           s == [Idle EXCEPT !.pc = "cancel", !.r = r, !.left = Member]
<1>1. /\ rows' = [rows EXCEPT ![r] = row] /\ actor' = [actor EXCEPT !["browser"] = s]
      /\ UNCHANGED <<gens, direct>>
  BY DEF RequestCancel, queue
<1>2. rows[r] \in RunRow /\ r \in Nat
  BY DEF Inv, Typed
<1>3. /\ row \in RunRow
      /\ row.status \in Running => rows[r].status \in Running
      /\ row.status = rows[r].status \/ row.status = "cancelling"
  <2>1. status \in Running \union Ended
    BY <1>2 DEF RunRow, Running
  <2>2. row \in RunRow /\ row.status = status
    <3> HIDE DEF status
    <3>1. QED
      BY <1>2, <2>1 DEF RunRow
  <2>3. QED
    BY <2>2 DEF Running
<1>4. s \in ReaderState /\ s.pc = "cancel" /\ s.seen = <<>> /\ s.r = r
  BY <1>2, IdleReader DEF ReaderState
<1> HIDE DEF s, row
<1>5. rows'[r] = row
  BY <1>1
<1>6. TrueOf(r)'
  BY <1>1, <1>3, <1>5 DEF Inv, TrueOf
<1>7. QED
  BY <1>1, <1>3, <1>4, <1>6, RowWritten DEF Reader

\* After a cancellation the run is read.
LEMMA CancelledStep ==
  ASSUME Inv, Cancelled
  PROVE  Inv'
<1>1. "browser" \in Reader /\ actor["browser"].r \in DOMAIN rows
  BY DEF Reader, Cancelled, Inv, Knows
<1>2. QED
  BY <1>1, LoadStep DEF Cancelled, queue

\* The run that the browser asks for exists.
LEMMA PollStep ==
  ASSUME Inv, Poll \/ RefreshSizes
  PROVE  Inv'
<1>1. PICK r \in CurrentRuns \union ({RestoredRun} \ {0}) \union DOMAIN rows : Load("browser", r)
  BY DEF Poll, RefreshSizes
<1>2. Len(rows) \in Nat /\ DOMAIN rows = 1 .. Len(rows)
  BY DEF Inv, Typed
<1>3. CurrentRuns \subseteq DOMAIN rows
  BY <1>2 DEF CurrentRuns, ActiveRuns
<1>4. RestoredRun \in DOMAIN rows \union {0}
  <2> DEFINE from == IF ActiveRuns # {} THEN ActiveRuns
                     ELSE {q \in DOMAIN rows : rows[q].status = "completed"}
  <2>1. from \in SUBSET (1 .. Len(rows))
    BY <1>2 DEF ActiveRuns
  <2>2. RestoredRun = IF from = {} THEN 0 ELSE CHOOSE q \in from : \A u \in from : u <= q
    BY DEF RestoredRun
  <2> HIDE DEF from
  <2>3. from # {} => \E q \in from : \A u \in from : u <= q
    BY <1>2, <2>1, Largest
  <2>4. QED
    BY <1>2, <2>1, <2>2, <2>3
<1>5. r \in DOMAIN rows
  BY <1>3, <1>4
<1>6. QED
  BY <1>1, <1>5, LoadStep DEF Load, queue, Reader

\* A generation queued on its own, in two steps.
LEMMA DirectStep ==
  ASSUME Inv, AdmitDirect \/ AdmitOther \/ EnqueueDirect
  PROVE  Inv'
<1>1. UNCHANGED <<rows, gens, actor>> /\ direct' \in Handlers
      /\ (direct' = "tab" => ActiveRuns = {})
  BY DEF AdmitDirect, AdmitOther, EnqueueDirect, Handlers
<1>2. Typed'
  BY <1>1 DEF Inv, Typed
<1>3. \A a \in Reader : Knows(a)'
  BY <1>1 DEF Inv, Knows, Failed, Having
<1>4. (\A r \in DOMAIN rows' : TrueOf(r)') /\ Admitted'
  BY <1>1 DEF Inv, TrueOf, Admitted, ActiveRuns
<1>5. QED
  BY <1>2, <1>3, <1>4 DEF Inv

\* A restart keeps the rows and the generations.
LEMMA RestartStep ==
  ASSUME Inv, Restart
  PROVE  Inv'
<1>1. /\ UNCHANGED <<rows, gens>> /\ direct' = "idle"
      /\ actor' = [a \in Reader |-> Idle]
  BY DEF Restart
<1>2. Typed'
  BY <1>1, IdleReader DEF Inv, Typed, Handlers
<1>3. \A a \in Reader : Knows(a)'
  BY <1>1, IdleReader, KnowsNothing
<1>4. (\A r \in DOMAIN rows' : TrueOf(r)') /\ Admitted'
  BY <1>1 DEF Inv, TrueOf, Admitted, ActiveRuns
<1>5. QED
  BY <1>2, <1>3, <1>4 DEF Inv

-----------------------------------------------------------------------------
(* The invariant.                                                           *)

\* Nothing has run.
LEMMA InitialInv == Init => Inv
<1> SUFFICES ASSUME Init PROVE Inv
  OBVIOUS
<1>1. rows = <<>> /\ gens = <<>> /\ direct = "idle" /\ actor = [a \in Reader |-> Idle]
  BY DEF Init
<1>2. Typed
  BY <1>1, IdleReader DEF Typed, Handlers
<1>3. \A a \in Reader : Knows(a)
  BY <1>1, IdleReader, InteractiveAssumption DEF Knows
<1>4. (\A r \in DOMAIN rows : TrueOf(r)) /\ Admitted
  BY <1>1 DEF Admitted
<1>5. QED
  BY <1>2, <1>3, <1>4 DEF Inv

\* The steps of a reader, one case for each.
LEMMA ReadStep ==
  ASSUME NEW a \in Reader, Inv, Read(a)
  PROVE  Inv'
<1>1. CASE Leave(a)
  BY <1>1, IdlesStep DEF Leave, queue
<1>2. QED
  BY <1>1, LookStep, WriteProgressStep, SeesFailureStep, DropOneStep, WriteFailedStep
     DEF Read

\* Every step keeps the invariant.
LEMMA StepInv == Inv /\ [Next]_vars => Inv'
<1> SUFFICES ASSUME Inv, [Next]_vars PROVE Inv'
  OBVIOUS
<1>1. CASE UNCHANGED vars
  <2>1. UNCHANGED <<rows, gens, actor, direct>>
    BY <1>1 DEF vars
  <2>2. Typed'
    BY <2>1 DEF Inv, Typed
  <2>3. \A a \in Reader : Knows(a)'
    BY <2>1 DEF Inv, Knows, Failed, Having
  <2>4. (\A r \in DOMAIN rows' : TrueOf(r)') /\ Admitted'
    BY <2>1 DEF Inv, TrueOf, Admitted, ActiveRuns
  <2>5. QED
    BY <2>2, <2>3, <2>4 DEF Inv
<1>2. QED
  BY <1>1, PollStep, StartStep, CancelOneStep, CancelledStep, RequestCancelStep, ReadStep,
     DirectStep, ClaimStep, FinishStep, FinishDirectStep, RestartStep DEF Next

\* The invariant holds in every reachable state.
LEMMA Invariance == Spec => []Inv
BY InitialInv, StepInv, PTL DEF Spec

\* The types of the run's row and of what each reader holds.
THEOREM TypeCorrect == Spec => []TypeOK
<1>1. Inv => TypeOK
  BY DEF Inv, Typed, TypeOK, ReaderState
<1>2. QED
  BY Invariance, <1>1, PTL

\* A run's verdict is true of its generations, however old the reading it was taken
\* from and whoever else has written the row (update_progress expects no status).
THEOREM VerdictTrue == Spec => []VerdictIsTrue
<1>1. Inv => VerdictIsTrue
  <2> SUFFICES ASSUME Inv, NEW r \in DOMAIN rows
               PROVE  LET statuses == {gens[r][k].status : k \in Member}
                      IN /\ rows[r].status = "completed" => statuses = {"completed"}
                         /\ rows[r].status = "cancelled" => statuses \subseteq {"completed", "cancelled"}
                         /\ rows[r].status = "failed"    => "failed" \in statuses
    BY DEF VerdictIsTrue
  <2>1. 1 \in Member
    BY InteractiveAssumption DEF Member
  <2>2. QED
    BY <2>1 DEF Inv, TrueOf
<1>2. QED
  BY Invariance, <1>1, PTL

\* A request of a generate button is queued only while no run is active: the check and the
\* write are apart, and start() stays out between them, as it does while any other request
\* is queued (the admission lock).
THEOREM DirectlyWaits == Spec => DirectWaits
<1>1. Inv /\ [Next]_vars => [direct = "tab" /\ queued' # queued => ActiveRuns = {}]_vars
  BY DEF Inv, Admitted
<1>2. QED
  BY Invariance, <1>1, PTL DEF Spec, DirectWaits
=============================================================================

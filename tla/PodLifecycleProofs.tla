------------------------- MODULE PodLifecycleProofs -------------------------
(***************************************************************************)
(* Proofs about PodLifecycle: at most one DELETE request may ever have     *)
(* reached RunPod, a thread that sends it loses nothing as long as nobody  *)
(* reopened the Pod, and no work starts behind it.                         *)
(***************************************************************************)
EXTENDS PodLifecycle, TLAPS

\* The part of NothingToLose that is not about the backup.
Settled == /\ \A g \in Gen : gen[g] \in {"absent", "synced"}
           /\ ~transfer

\* What any step leaves true behind the closed admission gate.
Guarded == /\ \A g \in Gen : gen[g] = "absent" => gen'[g] = "absent"
           /\ transfer' => transfer
           /\ Settled => Settled'
           /\ Settled /\ ~unsaved => ~unsaved'
           /\ Settled /\ (clean => ~unsaved) => (clean' => ~unsaved')

\* The request is counted, and the session says so until it is answered.
Requests == /\ inDoubt \in 0 .. 1
            /\ inDoubt = 1 => session.status \in {"requesting", "ambiguous"}
            /\ \A t \in Thread :
                  /\ th[t].pc = "delete" => inDoubt = 0 /\ session.status = "requesting"
                  /\ th[t].pc = "answer" => inDoubt = 1 /\ session.status = "requesting"
            /\ \A t, u \in Thread : Deleting(t) /\ Deleting(u) => t = u

AfterBackup == {"backedUp", "last"}

\* What a thread may rely on while the draining that it began lasts: the
\* generations it listed are all there are; after its first check nothing more
\* is under way; after its backup a clean state is a saved one.
Reliable(t) ==
    /\ th[t].ok => th[t].pc = "decide"
    /\ th[t].whole =>
          /\ session.status \in Blocked
          /\ th[t].ok => \A g \in Gen : g \in th[t].seen \/ gen[g] = "absent"
          /\ th[t].pc = "backup" \/ th[t].stage \in AfterBackup => Settled
          /\ th[t].stage \in AfterBackup => (clean => ~unsaved)
          /\ th[t].pc \in {"request", "delete", "answer"} => Settled /\ ~unsaved

Inv == TypeOK /\ Requests /\ \A t \in Thread : Reliable(t)

USE LifecycleAssumption

PC == {"idle", "check", "decide", "begin", "backup", "request", "delete", "answer", "abort"}

-----------------------------------------------------------------------------
(* Steps of one thread.                                                     *)

\* Only the thread t moves, to pc and stage; it keeps no verdict.
Moved(t, pc, stage, whole) ==
    /\ th' \in [Thread -> ThreadState]
    /\ th'[t].pc = pc /\ th'[t].stage = stage /\ ~th'[t].ok /\ (th'[t].whole => whole)
    /\ \A u \in Thread : u # t => th'[u] = th[u]

\* Each thread is a record.
LEMMA Fields ==
  ASSUME TypeOK, NEW t \in Thread
  PROVE  /\ th[t] \in ThreadState /\ th[t].pc \in PC /\ th[t].stage \in Stage
         /\ th[t].seen \subseteq Gen /\ th[t].ok \in BOOLEAN /\ th[t].whole \in BOOLEAN
BY DEF TypeOK, ThreadState, PC

LEMMA GotoMoves ==
  ASSUME TypeOK, NEW t \in Thread, NEW pc \in PC, Goto(t, pc)
  PROVE  Moved(t, pc, th[t].stage, th[t].whole)
<1> DEFINE r == [th[t] EXCEPT !.pc = pc, !.seen = {}, !.ok = FALSE]
<1>1. r \in ThreadState
  BY Fields DEF ThreadState, PC
<1>2. th' = [th EXCEPT ![t] = r]
  BY DEF Goto
<1>3. r.pc = pc /\ r.stage = th[t].stage /\ ~r.ok /\ r.whole = th[t].whole
  BY Fields DEF ThreadState
<1> HIDE DEF r
<1>4. QED
  BY <1>1, <1>2, <1>3 DEF Moved, TypeOK

LEMMA ContinueMoves ==
  ASSUME TypeOK, NEW t \in Thread, NEW pc \in PC, NEW stage \in Stage, Continue(t, pc, stage)
  PROVE  Moved(t, pc, stage, th[t].whole)
<1> DEFINE r == [th[t] EXCEPT !.pc = pc, !.seen = {}, !.ok = FALSE, !.stage = stage]
<1>1. r \in ThreadState
  BY Fields DEF ThreadState, PC
<1>2. th' = [th EXCEPT ![t] = r]
  BY DEF Continue
<1>3. r.pc = pc /\ r.stage = stage /\ ~r.ok /\ r.whole = th[t].whole
  BY Fields DEF ThreadState
<1> HIDE DEF r
<1>4. QED
  BY <1>1, <1>2, <1>3 DEF Moved, TypeOK

LEMMA IdleState == /\ Idle \in ThreadState /\ Idle.pc = "idle" /\ ~Idle.ok /\ ~Idle.whole
                   /\ \A pc \in PC : /\ [Idle EXCEPT !.pc = pc] \in ThreadState
                                     /\ [Idle EXCEPT !.pc = pc].pc = pc
                                     /\ [Idle EXCEPT !.pc = pc].stage = "first"
                                     /\ ~[Idle EXCEPT !.pc = pc].ok
                                     /\ ~[Idle EXCEPT !.pc = pc].whole
BY DEF Idle, ThreadState, PC, Stage

\* A thread that ends a draining takes the others out of it.
LEMMA ReturnMoves ==
  ASSUME TypeOK, NEW t \in Thread, NEW pc \in PC, Return(t, pc)
  PROVE  /\ th' \in [Thread -> ThreadState]
         /\ th'[t].pc = pc /\ ~th'[t].ok /\ ~th'[t].whole
         /\ \A u \in Thread \ {t} :
               /\ th'[u].pc = th[u].pc /\ th'[u].stage = th[u].stage
               /\ th'[u].seen = th[u].seen /\ (th'[u].ok <=> th[u].ok)
               /\ th'[u].whole => th[u].whole /\ session'.status \in Blocked
<1> DEFINE r(u) == [th[u] EXCEPT !.whole = @ /\ session'.status \in Blocked]
<1>1. ASSUME NEW u \in Thread
      PROVE  /\ r(u) \in ThreadState
             /\ r(u).pc = th[u].pc /\ r(u).stage = th[u].stage /\ r(u).seen = th[u].seen
             /\ (r(u).ok <=> th[u].ok)
             /\ (r(u).whole => th[u].whole /\ session'.status \in Blocked)
  <2>1. (th[u].whole /\ session'.status \in Blocked) \in BOOLEAN
    OBVIOUS
  <2>2. QED
    BY <2>1, Fields DEF ThreadState
<1>2. th' = [u \in Thread |-> IF u = t THEN [Idle EXCEPT !.pc = pc] ELSE r(u)]
  BY DEF Return
<1> HIDE DEF r
<1>3. th'[t] = [Idle EXCEPT !.pc = pc] /\ \A u \in Thread \ {t} : th'[u] = r(u)
  BY <1>2
<1>4. th' \in [Thread -> ThreadState]
  BY <1>1, <1>2, IdleState
<1>5. QED
  BY <1>1, <1>3, <1>4, IdleState

SessionState == [status : State, armed : BOOLEAN, enabled : BOOLEAN]

\* A save changes the status alone, or nothing.
LEMMA SaveFields ==
  ASSUME TypeOK, NEW status \in State, NEW raised \in BOOLEAN, Save(status, raised)
  PROVE  /\ session' \in SessionState /\ faults' \in 0 .. MaxFaults
         /\ session'.status \in {session.status, status}
<1>1. [session EXCEPT !.status = status] \in SessionState
  BY DEF TypeOK, SessionState
<1>2. [session EXCEPT !.status = status].status = status
  BY DEF TypeOK, SessionState
<1>3. CASE session' = [session EXCEPT !.status = status] /\ UNCHANGED faults
  BY <1>1, <1>2, <1>3 DEF TypeOK
<1>4. CASE faults < MaxFaults /\ faults' = faults + 1 /\ UNCHANGED session
  BY <1>4 DEF TypeOK, SessionState
<1>5. QED
  BY <1>3, <1>4 DEF Save

\* What every step does to the session: the gate stays closed, but for the answer
\* to the request and for the abort of a draining.
SessionMoves ==
    /\ session' \in SessionState /\ faults' \in 0 .. MaxFaults
    /\ session.status \in {"requesting", "ambiguous"} => session'.status = session.status
    /\ session.status = "draining" => session'.status \in {"draining", "requesting"}

-----------------------------------------------------------------------------
(* Types.                                                                   *)

\* The session and the count of failed saves.
LEMMA StepSession ==
  ASSUME TypeOK, [Next]_vars
  PROVE  session' \in SessionState /\ faults' \in 0 .. MaxFaults
<1> USE DEF SessionState
<1> DEFINE Goal == session' \in SessionState /\ faults' \in 0 .. MaxFaults
<1>0. UNCHANGED <<session, faults>> => Goal
  BY DEF TypeOK
<1> HIDE DEF Goal
<1>1. ASSUME NEW g \in Gen, Enqueue(g) PROVE Goal
  <2>1. ArmedBy(session) \in SessionState
    BY DEF TypeOK, ArmedBy, State
  <2>2. QED
    BY <1>1, <2>1 DEF Enqueue, TypeOK, Goal
<1>2. ASSUME NEW g \in Gen, Work(g) PROVE Goal
  BY <1>2, <1>0 DEF Work
<1>3. ASSUME StartTransfer PROVE Goal
  BY <1>3, <1>0 DEF StartTransfer
<1>4. ASSUME EndTransfer PROVE Goal
  BY <1>4, <1>0 DEF EndTransfer
<1>5. ASSUME MarkDirty PROVE Goal
  BY <1>5, <1>0 DEF MarkDirty
<1>6. ASSUME Backup PROVE Goal
  BY <1>6, <1>0 DEF Backup
<1>7. ASSUME Toggle PROVE Goal
  <2>1. \A on \in BOOLEAN, s \in State :
           [session EXCEPT !.enabled = on, !.status = s] \in SessionState
    BY DEF TypeOK
  <2>2. \E on \in BOOLEAN, s \in State : session' = [session EXCEPT !.enabled = on, !.status = s]
    BY <1>7 DEF Toggle, TypeOK, State
  <2>3. UNCHANGED faults
    BY <1>7 DEF Toggle
  <2>4. QED
    BY <2>1, <2>2, <2>3 DEF Goal, TypeOK
<1>8. ASSUME Coordinate PROVE Goal
  BY <1>8, <1>0 DEF Coordinate
<1>9. ASSUME StandBy PROVE Goal
  BY <1>9, <1>0 DEF StandBy
<1>10. ASSUME Unsafe PROVE Goal
  <2>1. Save("armed", TRUE) \/ UNCHANGED <<session, faults>>
    BY <1>10 DEF Unsafe
  <2>2. QED
    BY <1>0, <2>1, SaveFields DEF Goal, State
<1>11. ASSUME StartGrace PROVE Goal
  <2>1. Save("waiting", TRUE) \/ UNCHANGED <<session, faults>>
    BY <1>11 DEF StartGrace
  <2>2. QED
    BY <1>0, <2>1, SaveFields DEF Goal, State
<1>12. ASSUME KeepGrace PROVE Goal
  <2>1. Save("ready", TRUE) \/ UNCHANGED <<session, faults>>
    BY <1>12 DEF KeepGrace
  <2>2. QED
    BY <1>0, <2>1, SaveFields DEF Goal, State
<1>13. ASSUME EndGrace PROVE Goal
  BY <1>13, <1>0 DEF EndGrace
<1>14. ASSUME NEW t \in Thread, Press(t) PROVE Goal
  BY <1>14, <1>0 DEF Press
<1>15. ASSUME NEW t \in Thread, CheckFirst(t) PROVE Goal
  BY <1>15, <1>0 DEF CheckFirst
<1>16. ASSUME NEW t \in Thread, Pressed(t) PROVE Goal
  BY <1>16, <1>0 DEF Pressed
<1>17. ASSUME NEW t \in Thread, BeginDraining(t) PROVE Goal
  <2>1. [session EXCEPT !.status = "draining"] \in SessionState
    BY DEF TypeOK, State
  <2>2. QED
    BY <1>17, <2>1 DEF BeginDraining, TypeOK, Goal
<1>18. ASSUME NEW t \in Thread, Decide(t) PROVE Goal
  BY <1>18, <1>0 DEF Decide
<1>19. ASSUME NEW t \in Thread, FinalBackup(t) PROVE Goal
  BY <1>19, <1>0 DEF FinalBackup
<1>20. ASSUME NEW t \in Thread, Request(t) PROVE Goal
  <2>1. [session EXCEPT !.status = "requesting"] \in SessionState
    BY DEF TypeOK, State
  <2>2. QED
    BY <1>20, <2>1 DEF Request, TypeOK, Goal
<1>21. ASSUME NEW t \in Thread, SendDelete(t) PROVE Goal
  BY <1>21, <1>0 DEF SendDelete
<1>22. ASSUME NEW t \in Thread, Answer(t) PROVE Goal
  <2>1. \/ \E answer : Save(Outcome(answer), TRUE)
        \/ UNCHANGED <<session, faults>>
    BY <1>22 DEF Answer
  <2>2. \A answer : Outcome(answer) \in State
    BY DEF Outcome, State
  <2>3. QED
    BY <1>0, <2>1, <2>2, SaveFields DEF Goal
<1>23. ASSUME NEW t \in Thread, Abort(t) PROVE Goal
  <2>1. Save(Reopened, TRUE) \/ UNCHANGED <<session, faults>>
    BY <1>23 DEF Abort
  <2>2. Reopened \in State
    BY DEF Reopened, State
  <2>3. QED
    BY <1>0, <2>1, <2>2, SaveFields DEF Goal
<1>24. ASSUME StartupRestored PROVE Goal
  BY <1>24, <1>0 DEF StartupRestored
<1>25. ASSUME Restart PROVE Goal
  BY <1>25, <1>0 DEF Restart
<1>26. ASSUME UNCHANGED vars PROVE Goal
  BY <1>26, <1>0 DEF vars
<1>27. QED
  BY <1>1, <1>2, <1>3, <1>4, <1>5, <1>6, <1>7, <1>8, <1>9, <1>10, <1>11, <1>12, <1>13,
     <1>14, <1>15, <1>16, <1>17, <1>18, <1>19, <1>20, <1>21, <1>22, <1>23, <1>24, <1>25,
     <1>26 DEF Goal, Next, CoordinatorStep, ThreadStep

\* A thread starts a check of its own.
LEMMA CheckMoves ==
  ASSUME TypeOK, NEW t \in Thread, th' = [th EXCEPT ![t] = [Idle EXCEPT !.pc = "check"]]
  PROVE  Moved(t, "check", "first", FALSE)
BY IdleState DEF Moved, TypeOK, PC

\* A verdict is reached on the generations that are listed now.
LEMMA VerdictMoves ==
  ASSUME TypeOK, NEW t \in Thread, CheckFirst(t)
  PROVE  /\ th' \in [Thread -> ThreadState]
         /\ th'[t].pc = "decide" /\ th'[t].stage = th[t].stage /\ (th'[t].whole <=> th[t].whole)
         /\ \/ th'[t].ok <=> th[t].ok
            \/ th'[t].seen = {g \in Gen : gen[g] # "absent"}
         /\ \A u \in Thread : u # t => th'[u] = th[u]
<1> DEFINE seen == {g \in Gen : gen[g] # "absent"}
           r == [th[t] EXCEPT !.pc = "decide"]
           s == [th[t] EXCEPT !.pc = "decide", !.ok = TRUE, !.seen = seen]
<1>1. r \in ThreadState /\ s \in ThreadState
  BY Fields DEF ThreadState, PC
<1>2. th' = [th EXCEPT ![t] = r] \/ th' = [th EXCEPT ![t] = s]
  BY DEF CheckFirst
<1>3. /\ r.pc = "decide" /\ r.stage = th[t].stage /\ (r.whole <=> th[t].whole) /\ (r.ok <=> th[t].ok)
      /\ s.pc = "decide" /\ s.stage = th[t].stage /\ (s.whole <=> th[t].whole) /\ s.seen = seen
  BY Fields DEF ThreadState
<1> HIDE DEF r, s
<1>4. \/ th' \in [Thread -> ThreadState] /\ th'[t] = r /\ \A u \in Thread : u # t => th'[u] = th[u]
      \/ th' \in [Thread -> ThreadState] /\ th'[t] = s /\ \A u \in Thread : u # t => th'[u] = th[u]
  BY <1>1, <1>2 DEF TypeOK
<1>5. QED
  BY <1>3, <1>4

\* A thread begins a draining, or joins one.
LEMMA DrainMoves ==
  ASSUME TypeOK, NEW t \in Thread, ~th[t].ok,
         th' = [th EXCEPT ![t].pc = "check", ![t].stage = "drained", ![t].whole = TRUE]
  PROVE  Moved(t, "check", "drained", TRUE)
<1> DEFINE r == [th[t] EXCEPT !.pc = "check", !.stage = "drained", !.whole = TRUE]
<1>1. r \in ThreadState
  BY Fields DEF ThreadState, PC, Stage
<1>2. r.pc = "check" /\ r.stage = "drained" /\ ~r.ok
  BY Fields DEF ThreadState
<1>3. th' = [th EXCEPT ![t] = r]
  OBVIOUS
<1> HIDE DEF r
<1>4. QED
  BY <1>1, <1>2, <1>3 DEF Moved, TypeOK

\* The final backup, done or not, is followed by a check.
LEMMA BackupMoves ==
  ASSUME TypeOK, NEW t \in Thread, ~th[t].ok,
         th' = [th EXCEPT ![t].pc = "check", ![t].stage = "backedUp"]
  PROVE  Moved(t, "check", "backedUp", th[t].whole)
<1> DEFINE r == [th[t] EXCEPT !.pc = "check", !.stage = "backedUp"]
<1>1. r \in ThreadState
  BY Fields DEF ThreadState, PC, Stage
<1>2. r.pc = "check" /\ r.stage = "backedUp" /\ ~r.ok /\ (r.whole <=> th[t].whole)
  BY Fields DEF ThreadState
<1>3. th' = [th EXCEPT ![t] = r]
  OBVIOUS
<1> HIDE DEF r
<1>4. QED
  BY <1>1, <1>2, <1>3 DEF Moved, TypeOK

\* A check after draining is followed by the next stage or by the abort.
LEMMA DecideContinues ==
  ASSUME NEW t \in Thread, Decide(t)
  PROVE  \E pc \in {"backup", "check", "request", "abort"}, stage \in Stage :
            Continue(t, pc, stage)
<1>1. \A stage \in Stage \ {"first"} : AfterCheck(stage) \in {"backup", "check", "request"}
  BY DEF Stage, AfterCheck
<1>2. "last" \in Stage
  BY DEF Stage
<1>3. QED
  BY <1>1, <1>2 DEF Decide

\* The threads.
LEMMA StepThreads ==
  ASSUME Inv, [Next]_vars
  PROVE  th' \in [Thread -> ThreadState]
<1> DEFINE Goal == th' \in [Thread -> ThreadState]
<1> USE DEF Inv
<1>0. UNCHANGED th => Goal
  BY DEF TypeOK
<1>a. Coordinator \in Thread
  BY DEF Thread
<1>b. PC = {"idle", "check", "decide", "begin", "backup", "request", "delete", "answer", "abort"}
  BY DEF PC
<1>c. ASSUME NEW t \in Thread, NEW pc, NEW stage, NEW whole, Moved(t, pc, stage, whole) PROVE Goal
  BY <1>c DEF Moved
<1> HIDE DEF Goal
<1>1. ASSUME NEW g \in Gen, Enqueue(g) PROVE Goal
  BY <1>1, <1>0 DEF Enqueue
<1>2. ASSUME NEW g \in Gen, Work(g) PROVE Goal
  BY <1>2, <1>0 DEF Work
<1>3. ASSUME StartTransfer PROVE Goal
  BY <1>3, <1>0 DEF StartTransfer
<1>4. ASSUME EndTransfer PROVE Goal
  BY <1>4, <1>0 DEF EndTransfer
<1>5. ASSUME MarkDirty PROVE Goal
  BY <1>5, <1>0 DEF MarkDirty
<1>6. ASSUME Backup PROVE Goal
  BY <1>6, <1>0 DEF Backup
<1>7. ASSUME Toggle PROVE Goal
  BY <1>7, <1>0 DEF Toggle
<1>8. ASSUME Coordinate PROVE Goal
  BY <1>8, <1>a, <1>c, CheckMoves DEF Coordinate
<1>9. ASSUME StandBy PROVE Goal
  BY <1>9, <1>0 DEF StandBy
<1>10. ASSUME Unsafe PROVE Goal
  <2>1. \E pc \in {"idle", "begin"} : Goto(Coordinator, pc)
    BY <1>10 DEF Unsafe
  <2>2. QED
    BY <1>a, <1>b, <1>c, <2>1, GotoMoves
<1>11. ASSUME StartGrace PROVE Goal
  <2>1. \E pc \in {"idle", "begin"} : Goto(Coordinator, pc)
    BY <1>11 DEF StartGrace
  <2>2. QED
    BY <1>a, <1>b, <1>c, <2>1, GotoMoves
<1>12. ASSUME KeepGrace PROVE Goal
  <2>1. \E pc \in {"idle", "begin"} : Goto(Coordinator, pc)
    BY <1>12 DEF KeepGrace
  <2>2. QED
    BY <1>a, <1>b, <1>c, <2>1, GotoMoves
<1>13. ASSUME EndGrace PROVE Goal
  <2>1. \E pc \in {"idle", "begin"} : Goto(Coordinator, pc)
    BY <1>13 DEF EndGrace
  <2>2. QED
    BY <1>a, <1>b, <1>c, <2>1, GotoMoves
<1>14. ASSUME NEW t \in Thread, Press(t) PROVE Goal
  BY <1>14, <1>c, CheckMoves DEF Press
<1>15. ASSUME NEW t \in Thread, CheckFirst(t) PROVE Goal
  BY <1>15, VerdictMoves DEF Goal
<1>16. ASSUME NEW t \in Thread, Pressed(t) PROVE Goal
  <2>1. \E pc \in {"idle", "begin"} : Goto(t, pc)
    BY <1>16 DEF Pressed
  <2>2. QED
    BY <1>a, <1>b, <1>c, <2>1, GotoMoves
<1>17. ASSUME NEW t \in Thread, BeginDraining(t) PROVE Goal
  <2>1. ~th[t].ok
    BY <1>17 DEF BeginDraining, Reliable
  <2>2. \/ th' = [th EXCEPT ![t].pc = "check", ![t].stage = "drained", ![t].whole = TRUE]
        \/ Goto(t, "idle")
    BY <1>17 DEF BeginDraining
  <2>3. QED
    BY <1>b, <1>c, <2>1, <2>2, GotoMoves, DrainMoves
<1>18. ASSUME NEW t \in Thread, Decide(t) PROVE Goal
  <2>1. \E pc \in {"backup", "check", "request", "abort"}, stage \in Stage : Continue(t, pc, stage)
    BY <1>18, DecideContinues
  <2>2. QED
    BY <1>b, <1>c, <2>1, ContinueMoves
<1>19. ASSUME NEW t \in Thread, FinalBackup(t) PROVE Goal
  <2>1. ~th[t].ok
    BY <1>19 DEF FinalBackup, Reliable
  <2>2. QED
    BY <1>19, <1>c, <2>1, BackupMoves DEF FinalBackup
<1>20. ASSUME NEW t \in Thread, Request(t) PROVE Goal
  <2>1. \E pc \in {"delete", "abort"} : Goto(t, pc)
    BY <1>20 DEF Request
  <2>2. QED
    BY <1>a, <1>b, <1>c, <2>1, GotoMoves
<1>21. ASSUME NEW t \in Thread, SendDelete(t) PROVE Goal
  <2>1. \E pc \in {"answer"} : Goto(t, pc)
    BY <1>21 DEF SendDelete
  <2>2. QED
    BY <1>a, <1>b, <1>c, <2>1, GotoMoves
<1>22. ASSUME NEW t \in Thread, Answer(t) PROVE Goal
  <2>1. \E pc \in {"idle", "abort"} : Return(t, pc)
    BY <1>22 DEF Answer
  <2>2. QED
    BY <1>b, <2>1, ReturnMoves DEF Goal
<1>23. ASSUME NEW t \in Thread, Abort(t) PROVE Goal
  <2>1. Return(t, "idle")
    BY <1>23 DEF Abort
  <2>2. QED
    BY <1>b, <2>1, ReturnMoves DEF Goal
<1>24. ASSUME StartupRestored PROVE Goal
  BY <1>24, <1>0 DEF StartupRestored
<1>25. ASSUME Restart PROVE Goal
  BY <1>25, IdleState DEF Restart, Goal
<1>26. ASSUME UNCHANGED vars PROVE Goal
  BY <1>26, <1>0 DEF vars
<1>27. QED
  BY <1>1, <1>2, <1>3, <1>4, <1>5, <1>6, <1>7, <1>8, <1>9, <1>10, <1>11, <1>12, <1>13,
     <1>14, <1>15, <1>16, <1>17, <1>18, <1>19, <1>20, <1>21, <1>22, <1>23, <1>24, <1>25,
     <1>26 DEF Goal, Next, CoordinatorStep, ThreadStep

\* Every step keeps the types.
LEMMA StepTypes ==
  ASSUME Inv, [Next]_vars
  PROVE  TypeOK'
<1> USE DEF Inv, work, backup, process
<1> DEFINE Goal == /\ gen' \in [Gen -> GenState] /\ inDoubt' \in Nat /\ run' \in Nat
                   /\ {transfer', unsaved', owed', clean', waiting', restored'} \subseteq BOOLEAN
<1>0. /\ session' \in SessionState /\ faults' \in 0 .. MaxFaults
      /\ th' \in [Thread -> ThreadState]
  BY StepSession, StepThreads
<1>a. /\ gen \in [Gen -> GenState] /\ inDoubt \in Nat /\ run \in Nat
      /\ {transfer, unsaved, owed, clean, waiting, restored} \subseteq BOOLEAN
  BY DEF TypeOK
<1>b. UNCHANGED <<work, backup, waiting, process, inDoubt>> => Goal
  BY <1>a
<1> HIDE DEF Inv
<1>1. ASSUME NEW g \in Gen, Enqueue(g) PROVE Goal
  BY <1>1, <1>a DEF Enqueue, Marked, GenState
<1>2. ASSUME NEW g \in Gen, Work(g) PROVE Goal
  <2>1. gen' \in [Gen -> GenState]
    BY <1>2, <1>a DEF Work
  <2>2. UNCHANGED <<transfer, waiting, process, inDoubt, clean>> /\ unsaved' = TRUE /\ owed' = TRUE
    BY <1>2 DEF Work, Unmarked
  <2>3. QED
    BY <1>a, <2>1, <2>2
<1>3. ASSUME StartTransfer PROVE Goal
  BY <1>3, <1>a DEF StartTransfer, Marked
<1>4. ASSUME EndTransfer PROVE Goal
  BY <1>4, <1>a DEF EndTransfer, Unmarked
<1>5. ASSUME MarkDirty PROVE Goal
  BY <1>5, <1>a DEF MarkDirty
<1>6. ASSUME Backup PROVE Goal
  BY <1>6, <1>a DEF Backup, BackedUp
<1>7. ASSUME Toggle PROVE Goal
  BY <1>7, <1>b DEF Toggle
<1>8. ASSUME Coordinate PROVE Goal
  BY <1>8, <1>b DEF Coordinate
<1>9. ASSUME StandBy PROVE Goal
  BY <1>9, <1>a DEF StandBy
<1>10. ASSUME Unsafe PROVE Goal
  BY <1>10, <1>a DEF Unsafe
<1>11. ASSUME StartGrace PROVE Goal
  BY <1>11, <1>a DEF StartGrace
<1>12. ASSUME KeepGrace PROVE Goal
  BY <1>12, <1>b DEF KeepGrace
<1>13. ASSUME EndGrace PROVE Goal
  BY <1>13, <1>b DEF EndGrace
<1>14. ASSUME NEW t \in Thread, Press(t) PROVE Goal
  BY <1>14, <1>b DEF Press
<1>15. ASSUME NEW t \in Thread, CheckFirst(t) PROVE Goal
  BY <1>15, <1>b DEF CheckFirst
<1>16. ASSUME NEW t \in Thread, Pressed(t) PROVE Goal
  BY <1>16, <1>b DEF Pressed
<1>17. ASSUME NEW t \in Thread, BeginDraining(t) PROVE Goal
  <2>1. waiting' \in BOOLEAN
    BY <1>17, <1>a DEF BeginDraining, Forget
  <2>2. QED
    BY <1>17, <1>a, <2>1 DEF BeginDraining
<1>18. ASSUME NEW t \in Thread, Decide(t) PROVE Goal
  BY <1>18, <1>b DEF Decide
<1>19. ASSUME NEW t \in Thread, FinalBackup(t) PROVE Goal
  BY <1>19, <1>a DEF FinalBackup, BackedUp
<1>20. ASSUME NEW t \in Thread, Request(t) PROVE Goal
  BY <1>20, <1>b DEF Request
<1>21. ASSUME NEW t \in Thread, SendDelete(t) PROVE Goal
  BY <1>21, <1>a DEF SendDelete
<1>22. ASSUME NEW t \in Thread, Answer(t) PROVE Goal
  <2>1. inDoubt' \in Nat
    <3>1. inDoubt = 1
      BY <1>22 DEF Answer, Inv, Requests
    <3>2. inDoubt' \in {inDoubt, inDoubt - 1}
      BY <1>22 DEF Answer
    <3>3. QED
      BY <3>1, <3>2
  <2>2. QED
    BY <1>22, <1>a, <2>1 DEF Answer
<1>23. ASSUME NEW t \in Thread, Abort(t) PROVE Goal
  <2>1. waiting' \in BOOLEAN
    BY <1>23, <1>a DEF Abort, Forget
  <2>2. QED
    BY <1>23, <1>a, <2>1 DEF Abort
<1>24. ASSUME StartupRestored PROVE Goal
  BY <1>24, <1>a DEF StartupRestored
<1>25. ASSUME Restart PROVE Goal
  <2>1. run' \in Nat
    BY <1>25, <1>a DEF Restart
  <2>2. {transfer', unsaved', owed', clean', waiting', restored'} \subseteq BOOLEAN
    BY <1>25, <1>a, Zenon DEF Restart
  <2>3. UNCHANGED <<gen, inDoubt>>
    BY <1>25 DEF Restart
  <2>4. QED
    BY <1>a, <2>1, <2>2, <2>3
<1>26. ASSUME UNCHANGED vars PROVE Goal
  BY <1>26, <1>b DEF vars
<1>27. Goal
  BY <1>1, <1>2, <1>3, <1>4, <1>5, <1>6, <1>7, <1>8, <1>9, <1>10, <1>11, <1>12, <1>13,
     <1>14, <1>15, <1>16, <1>17, <1>18, <1>19, <1>20, <1>21, <1>22, <1>23, <1>24, <1>25,
     <1>26 DEF Next, CoordinatorStep, ThreadStep
<1>28. QED
  BY <1>0, <1>27 DEF TypeOK, SessionState

-----------------------------------------------------------------------------
(* Behind the closed gate.                                                  *)

\* Neither workers nor callers start anything there, and what is settled and
\* saved stays so.
LEMMA GateHolds ==
  ASSUME TypeOK, [Next]_vars, session.status \in Blocked
  PROVE  Guarded
<1> USE DEF work, backup, process
<1>0. UNCHANGED <<work, backup>> => Guarded
  BY DEF Guarded, Settled
<1>a. ~Admitted
  BY DEF Admitted
<1>b. gen \in [Gen -> GenState]
  BY DEF TypeOK
<1>c. ASSUME UNCHANGED work, \/ BackedUp
                             \/ clean' = FALSE /\ UNCHANGED unsaved
      PROVE  Guarded
  BY <1>c DEF Guarded, Settled, BackedUp
<1>1. ASSUME NEW g \in Gen, Enqueue(g) PROVE Guarded
  BY <1>1, <1>a DEF Enqueue
<1>2. ASSUME NEW g \in Gen, Work(g) PROVE Guarded
  <2>1. gen[g] \in {"active", "completed"}
    BY <1>2 DEF Work, GenMoves
  <2>2. ~Settled
    BY <2>1 DEF Settled
  <2>3. \A h \in Gen : gen[h] = "absent" => gen'[h] = "absent"
    BY <1>2, <1>b, <2>1 DEF Work
  <2>4. UNCHANGED transfer
    BY <1>2 DEF Work
  <2>5. QED
    BY <2>2, <2>3, <2>4 DEF Guarded
<1>3. ASSUME StartTransfer PROVE Guarded
  BY <1>3, <1>a DEF StartTransfer
<1>4. ASSUME EndTransfer PROVE Guarded
  BY <1>4 DEF EndTransfer, Guarded, Settled
<1>5. ASSUME MarkDirty PROVE Guarded
  BY <1>5, <1>c DEF MarkDirty
<1>6. ASSUME Backup PROVE Guarded
  BY <1>6, <1>c DEF Backup
<1>7. ASSUME Toggle PROVE Guarded
  BY <1>7, <1>a DEF Toggle
<1>8. ASSUME Coordinate PROVE Guarded
  BY <1>8, <1>0 DEF Coordinate
<1>9. ASSUME StandBy PROVE Guarded
  BY <1>9, <1>0 DEF StandBy
<1>10. ASSUME Unsafe PROVE Guarded
  BY <1>10, <1>0 DEF Unsafe
<1>11. ASSUME StartGrace PROVE Guarded
  BY <1>11, <1>0 DEF StartGrace
<1>12. ASSUME KeepGrace PROVE Guarded
  BY <1>12, <1>0 DEF KeepGrace
<1>13. ASSUME EndGrace PROVE Guarded
  BY <1>13, <1>0 DEF EndGrace
<1>14. ASSUME NEW t \in Thread, Press(t) PROVE Guarded
  BY <1>14, <1>0 DEF Press
<1>15. ASSUME NEW t \in Thread, CheckFirst(t) PROVE Guarded
  BY <1>15, <1>0 DEF CheckFirst
<1>16. ASSUME NEW t \in Thread, Pressed(t) PROVE Guarded
  BY <1>16, <1>0 DEF Pressed
<1>17. ASSUME NEW t \in Thread, BeginDraining(t) PROVE Guarded
  BY <1>17, <1>0 DEF BeginDraining
<1>18. ASSUME NEW t \in Thread, Decide(t) PROVE Guarded
  BY <1>18, <1>0 DEF Decide
<1>19. ASSUME NEW t \in Thread, FinalBackup(t) PROVE Guarded
  BY <1>19, <1>c DEF FinalBackup
<1>20. ASSUME NEW t \in Thread, Request(t) PROVE Guarded
  BY <1>20, <1>0 DEF Request
<1>21. ASSUME NEW t \in Thread, SendDelete(t) PROVE Guarded
  BY <1>21, <1>0 DEF SendDelete
<1>22. ASSUME NEW t \in Thread, Answer(t) PROVE Guarded
  BY <1>22, <1>0 DEF Answer
<1>23. ASSUME NEW t \in Thread, Abort(t) PROVE Guarded
  BY <1>23, <1>0 DEF Abort
<1>24. ASSUME StartupRestored PROVE Guarded
  BY <1>24, <1>0 DEF StartupRestored
<1>25. ASSUME Restart PROVE Guarded
  BY <1>25, <1>c DEF Restart
<1>26. ASSUME UNCHANGED vars PROVE Guarded
  BY <1>26, <1>0 DEF vars
<1>27. QED
  BY <1>1, <1>2, <1>3, <1>4, <1>5, <1>6, <1>7, <1>8, <1>9, <1>10, <1>11, <1>12, <1>13,
     <1>14, <1>15, <1>16, <1>17, <1>18, <1>19, <1>20, <1>21, <1>22, <1>23, <1>24, <1>25,
     <1>26 DEF Next, CoordinatorStep, ThreadStep

\* The gate stays closed, and a requested termination stays requested.
GateMoves == /\ session.status \in Blocked => session'.status \in Blocked
             /\ session.status \in {"requesting", "ambiguous"} => session'.status = session.status

\* Only an answer or the abort of a draining opens the gate.
LEMMA GateStays ==
  ASSUME TypeOK, [Next]_vars
  PROVE  GateMoves \/ \E t \in Thread : Answer(t) \/ Abort(t)
<1> DEFINE Goal == GateMoves \/ \E t \in Thread : Answer(t) \/ Abort(t)
<1>0. UNCHANGED session => GateMoves
  BY DEF GateMoves
<1>a. Admitted => GateMoves
  BY DEF Admitted, Blocked, GateMoves
<1>b. ASSUME session.status \in State \ Blocked PROVE GateMoves
  BY <1>b DEF Blocked, GateMoves
<1>c. session.status \in State /\ session \in SessionState
  BY DEF TypeOK, SessionState
<1>1. ASSUME NEW g \in Gen, Enqueue(g) PROVE Goal
  BY <1>1, <1>a DEF Enqueue
<1>2. ASSUME NEW g \in Gen, Work(g) PROVE Goal
  BY <1>2, <1>0 DEF Work
<1>3. ASSUME StartTransfer PROVE Goal
  BY <1>3, <1>a DEF StartTransfer
<1>4. ASSUME EndTransfer PROVE Goal
  BY <1>4, <1>0 DEF EndTransfer
<1>5. ASSUME MarkDirty PROVE Goal
  BY <1>5, <1>0 DEF MarkDirty
<1>6. ASSUME Backup PROVE Goal
  BY <1>6, <1>0 DEF Backup
<1>7. ASSUME Toggle PROVE Goal
  BY <1>7, <1>a DEF Toggle
<1>8. ASSUME Coordinate PROVE Goal
  BY <1>8, <1>0 DEF Coordinate
<1>9. ASSUME StandBy PROVE Goal
  BY <1>9, <1>0 DEF StandBy
<1>10. ASSUME Unsafe PROVE Goal
  <2>1. UNCHANGED session \/ session.status \in {"armed", "waiting", "ready"}
    BY <1>10 DEF Unsafe
  <2>2. QED
    BY <1>0, <1>b, <1>c, <2>1 DEF Blocked
<1>11. ASSUME StartGrace PROVE Goal
  <2>1. UNCHANGED session \/ session.status \in {"armed", "waiting", "ready"}
    BY <1>11 DEF StartGrace
  <2>2. QED
    BY <1>0, <1>b, <1>c, <2>1 DEF Blocked
<1>12. ASSUME KeepGrace PROVE Goal
  <2>1. UNCHANGED session \/ session.status \in {"armed", "waiting", "ready"}
    BY <1>12 DEF KeepGrace
  <2>2. QED
    BY <1>0, <1>b, <1>c, <2>1 DEF Blocked
<1>13. ASSUME EndGrace PROVE Goal
  BY <1>13, <1>0 DEF EndGrace
<1>14. ASSUME NEW t \in Thread, Press(t) PROVE Goal
  BY <1>14, <1>0 DEF Press
<1>15. ASSUME NEW t \in Thread, CheckFirst(t) PROVE Goal
  BY <1>15, <1>0 DEF CheckFirst
<1>16. ASSUME NEW t \in Thread, Pressed(t) PROVE Goal
  BY <1>16, <1>0 DEF Pressed
<1>17. ASSUME NEW t \in Thread, BeginDraining(t) PROVE Goal
  <2>1. UNCHANGED session \/ (session.status \in Drainable /\ session' = [session EXCEPT !.status = "draining"])
    BY <1>17 DEF BeginDraining
  <2>2. [session EXCEPT !.status = "draining"].status = "draining"
    BY <1>c DEF SessionState
  <2>3. QED
    BY <1>0, <2>1, <2>2 DEF GateMoves, Blocked, Drainable
<1>18. ASSUME NEW t \in Thread, Decide(t) PROVE Goal
  BY <1>18, <1>0 DEF Decide
<1>19. ASSUME NEW t \in Thread, FinalBackup(t) PROVE Goal
  BY <1>19, <1>0 DEF FinalBackup
<1>20. ASSUME NEW t \in Thread, Request(t) PROVE Goal
  <2>1. UNCHANGED session \/ (session.status = "draining" /\ session' = [session EXCEPT !.status = "requesting"])
    BY <1>20 DEF Request, MayRequest
  <2>2. [session EXCEPT !.status = "requesting"].status = "requesting"
    BY <1>c DEF SessionState
  <2>3. QED
    BY <1>0, <2>1, <2>2 DEF GateMoves, Blocked
<1>21. ASSUME NEW t \in Thread, SendDelete(t) PROVE Goal
  BY <1>21, <1>0 DEF SendDelete
<1>22. ASSUME NEW t \in Thread, Answer(t) PROVE Goal
  BY <1>22
<1>23. ASSUME NEW t \in Thread, Abort(t) PROVE Goal
  BY <1>23
<1>24. ASSUME StartupRestored PROVE Goal
  BY <1>24, <1>0 DEF StartupRestored
<1>25. ASSUME Restart PROVE Goal
  BY <1>25, <1>0 DEF Restart
<1>26. ASSUME UNCHANGED vars PROVE Goal
  BY <1>26, <1>0 DEF vars
<1>27. QED
  BY <1>1, <1>2, <1>3, <1>4, <1>5, <1>6, <1>7, <1>8, <1>9, <1>10, <1>11, <1>12, <1>13,
     <1>14, <1>15, <1>16, <1>17, <1>18, <1>19, <1>20, <1>21, <1>22, <1>23, <1>24, <1>25,
     <1>26 DEF Next, CoordinatorStep, ThreadStep

-----------------------------------------------------------------------------
(* The DELETE request.                                                      *)

\* A step that neither sends nor answers the request.
LEMMA Undisturbed ==
  ASSUME Requests, inDoubt' = inDoubt,
         session.status \in {"requesting", "ambiguous"} => session'.status = session.status,
         \A u \in Thread : th'[u].pc = th[u].pc \/ th'[u].pc \notin {"delete", "answer"}
  PROVE  Requests'
BY DEF Requests, Deleting

\* Every step of one thread to a place that is not behind the request.
LEMMA NotBehind ==
  ASSUME Inv, [Next]_vars, inDoubt' = inDoubt, GateMoves,
         NEW t \in Thread, NEW pc \in PC \ {"delete", "answer"}, NEW stage, NEW whole,
         Moved(t, pc, stage, whole)
  PROVE  Requests'
BY Undisturbed DEF Inv, Moved, GateMoves

\* The answer counts the request as refused, or leaves it in doubt for ever.
LEMMA AnswerRequests ==
  ASSUME Inv, NEW t \in Thread, Answer(t)
  PROVE  Requests'
<1>0. /\ inDoubt = 1 /\ session.status = "requesting"
      /\ \A u \in Thread : u # t => th[u].pc \notin {"delete", "answer"}
  BY DEF Answer, Inv, Requests, Deleting
<1>1. PICK answer \in {"terminated", "refused", "unclear"} :
          /\ inDoubt' = IF answer = "refused" THEN inDoubt - 1 ELSE inDoubt
          /\ IF answer # "terminated" /\ session.status = "requesting"
             THEN Save(Outcome(answer), TRUE)
             ELSE UNCHANGED <<session, faults>>
          /\ Return(t, IF answer = "terminated" THEN "idle" ELSE "abort")
  BY DEF Answer
<1>2. \A u \in Thread : th'[u].pc \notin {"delete", "answer"}
  BY <1>0, <1>1, ReturnMoves DEF Inv, PC
<1>3. CASE answer = "refused"
  BY <1>0, <1>1, <1>2, <1>3 DEF Requests, Deleting
<1>4. CASE answer = "unclear"
  <2>1. Outcome(answer) = "ambiguous" /\ Outcome(answer) \in State
    BY <1>4 DEF Outcome, State
  <2>2. session'.status \in {"requesting", "ambiguous"}
    BY <1>0, <1>1, <1>4, <2>1, SaveFields DEF Inv
  <2>3. QED
    BY <1>0, <1>1, <1>2, <1>4, <2>2 DEF Requests, Deleting
<1>5. CASE answer = "terminated"
  BY <1>0, <1>1, <1>2, <1>5 DEF Requests, Deleting
<1>6. QED
  BY <1>1, <1>3, <1>4, <1>5

\* No request is under way while a draining is aborted.
LEMMA AbortRequests ==
  ASSUME Inv, NEW t \in Thread, Abort(t)
  PROVE  Requests'
<1>1. inDoubt' = inDoubt /\ Return(t, "idle")
  BY DEF Abort
<1>2. \A u \in Thread : th'[u].pc = th[u].pc \/ th'[u].pc \notin {"delete", "answer"}
  BY <1>1, ReturnMoves DEF Inv, PC
<1>3. UNCHANGED session \/ session.status = "draining"
  BY DEF Abort
<1>4. QED
  BY <1>1, <1>2, <1>3, Undisturbed DEF Inv

\* Every step keeps the requests counted.
LEMMA StepRequests ==
  ASSUME Inv, [Next]_vars
  PROVE  Requests'
<1> USE DEF work, backup, process
<1>0. Requests /\ TypeOK
  BY DEF Inv
<1> SUFFICES ASSUME GateMoves PROVE Requests'
  BY <1>0, GateStays, AnswerRequests, AbortRequests
<1>a. Coordinator \in Thread
  BY DEF Thread
<1>b. PC \ {"delete", "answer"} = {"idle", "check", "decide", "begin", "backup", "request", "abort"}
  BY DEF PC
<1>c. UNCHANGED <<th, inDoubt>> => Requests'
  BY <1>0, Undisturbed DEF GateMoves
<1>d. ASSUME NEW t \in Thread, NEW pc \in PC \ {"delete", "answer"}, Goto(t, pc), inDoubt' = inDoubt
      PROVE  Requests'
  BY <1>0, <1>d, GotoMoves, NotBehind
<1>e. \A t \in Thread : th[t].ok => th[t].pc = "decide"
  BY DEF Inv, Reliable
<1>1. ASSUME NEW g \in Gen, Enqueue(g) PROVE Requests'
  BY <1>1, <1>c DEF Enqueue
<1>2. ASSUME NEW g \in Gen, Work(g) PROVE Requests'
  BY <1>2, <1>c DEF Work
<1>3. ASSUME StartTransfer PROVE Requests'
  BY <1>3, <1>c DEF StartTransfer
<1>4. ASSUME EndTransfer PROVE Requests'
  BY <1>4, <1>c DEF EndTransfer
<1>5. ASSUME MarkDirty PROVE Requests'
  BY <1>5, <1>c DEF MarkDirty
<1>6. ASSUME Backup PROVE Requests'
  BY <1>6, <1>c DEF Backup
<1>7. ASSUME Toggle PROVE Requests'
  BY <1>7, <1>c DEF Toggle
<1>8. ASSUME Coordinate PROVE Requests'
  BY <1>8, <1>0, <1>a, <1>b, CheckMoves, NotBehind DEF Coordinate
<1>9. ASSUME StandBy PROVE Requests'
  BY <1>9, <1>c DEF StandBy
<1>10. ASSUME Unsafe PROVE Requests'
  <2>1. inDoubt' = inDoubt /\ \E pc \in {"idle", "begin"} : Goto(Coordinator, pc)
    BY <1>10 DEF Unsafe
  <2>2. QED
    BY <1>a, <1>b, <1>d, <2>1
<1>11. ASSUME StartGrace PROVE Requests'
  <2>1. inDoubt' = inDoubt /\ \E pc \in {"idle", "begin"} : Goto(Coordinator, pc)
    BY <1>11 DEF StartGrace
  <2>2. QED
    BY <1>a, <1>b, <1>d, <2>1
<1>12. ASSUME KeepGrace PROVE Requests'
  <2>1. inDoubt' = inDoubt /\ \E pc \in {"idle", "begin"} : Goto(Coordinator, pc)
    BY <1>12 DEF KeepGrace
  <2>2. QED
    BY <1>a, <1>b, <1>d, <2>1
<1>13. ASSUME EndGrace PROVE Requests'
  <2>1. inDoubt' = inDoubt /\ \E pc \in {"idle", "begin"} : Goto(Coordinator, pc)
    BY <1>13 DEF EndGrace
  <2>2. QED
    BY <1>a, <1>b, <1>d, <2>1
<1>14. ASSUME NEW t \in Thread, Press(t) PROVE Requests'
  BY <1>14, <1>0, <1>b, CheckMoves, NotBehind DEF Press
<1>15. ASSUME NEW t \in Thread, CheckFirst(t) PROVE Requests'
  <2>1. inDoubt' = inDoubt
    BY <1>15 DEF CheckFirst
  <2>2. \A u \in Thread : th'[u].pc = th[u].pc \/ th'[u].pc = "decide"
    BY <1>15, <1>0, VerdictMoves
  <2>3. QED
    BY <1>0, <2>1, <2>2, Undisturbed DEF GateMoves
<1>16. ASSUME NEW t \in Thread, Pressed(t) PROVE Requests'
  <2>1. inDoubt' = inDoubt /\ \E pc \in {"idle", "begin"} : Goto(t, pc)
    BY <1>16 DEF Pressed
  <2>2. QED
    BY <1>b, <1>d, <2>1
<1>17. ASSUME NEW t \in Thread, BeginDraining(t) PROVE Requests'
  <2>1. inDoubt' = inDoubt /\ ~th[t].ok
    BY <1>17, <1>e DEF BeginDraining
  <2>2. \/ th' = [th EXCEPT ![t].pc = "check", ![t].stage = "drained", ![t].whole = TRUE]
        \/ Goto(t, "idle")
    BY <1>17 DEF BeginDraining
  <2>3. QED
    BY <1>0, <1>b, <1>d, <2>1, <2>2, DrainMoves, NotBehind
<1>18. ASSUME NEW t \in Thread, Decide(t) PROVE Requests'
  <2>1. inDoubt' = inDoubt
    BY <1>18 DEF Decide
  <2>2. \E pc \in {"backup", "check", "request", "abort"}, stage \in Stage : Continue(t, pc, stage)
    BY <1>18, DecideContinues
  <2>3. QED
    BY <1>0, <1>b, <2>1, <2>2, ContinueMoves, NotBehind
<1>19. ASSUME NEW t \in Thread, FinalBackup(t) PROVE Requests'
  <2>1. inDoubt' = inDoubt /\ ~th[t].ok
    BY <1>19, <1>e DEF FinalBackup
  <2>2. QED
    BY <1>19, <1>0, <1>b, <2>1, BackupMoves, NotBehind DEF FinalBackup
<1>20. ASSUME NEW t \in Thread, Request(t) PROVE Requests'
  <2>1. CASE Goto(t, "abort")
    BY <1>20, <1>b, <1>d, <2>1 DEF Request
  <2>2. CASE MayRequest /\ session' = [session EXCEPT !.status = "requesting"] /\ Goto(t, "delete")
    <3>1. session.status = "draining" /\ session'.status = "requesting" /\ inDoubt' = inDoubt
      BY <1>20, <1>0, <2>2 DEF Request, MayRequest, TypeOK
    <3>2. inDoubt = 0 /\ \A u \in Thread : th[u].pc \notin {"delete", "answer"}
      BY <1>0, <3>1 DEF Requests
    <3>3. th'[t].pc = "delete" /\ \A u \in Thread : u # t => th'[u] = th[u]
      BY <1>0, <2>2, GotoMoves DEF Moved, PC
    <3>4. QED
      BY <3>1, <3>2, <3>3 DEF Requests, Deleting
  <2>3. QED
    BY <1>20, <2>1, <2>2 DEF Request
<1>21. ASSUME NEW t \in Thread, SendDelete(t) PROVE Requests'
  <2>1. /\ inDoubt = 0 /\ session.status = "requesting"
        /\ \A u \in Thread : u # t => th[u].pc \notin {"delete", "answer"}
    BY <1>21, <1>0 DEF SendDelete, Requests, Deleting
  <2>2. inDoubt' = 1 /\ session' = session /\ Goto(t, "answer")
    BY <1>21, <2>1 DEF SendDelete
  <2>3. th'[t].pc = "answer" /\ \A u \in Thread : u # t => th'[u] = th[u]
    BY <1>0, <2>2, GotoMoves DEF Moved, PC
  <2>4. QED
    BY <2>1, <2>2, <2>3 DEF Requests, Deleting
<1>22. ASSUME NEW t \in Thread, Answer(t) PROVE Requests'
  BY <1>22, AnswerRequests
<1>23. ASSUME NEW t \in Thread, Abort(t) PROVE Requests'
  BY <1>23, AbortRequests
<1>24. ASSUME StartupRestored PROVE Requests'
  BY <1>24, <1>c DEF StartupRestored
<1>25. ASSUME Restart PROVE Requests'
  <2>1. inDoubt' = inDoubt /\ session' = session
    BY <1>25 DEF Restart
  <2>2. \A u \in Thread : th'[u].pc = "idle"
    BY <1>25, IdleState DEF Restart
  <2>3. QED
    BY <1>0, <2>1, <2>2, Undisturbed
<1>26. ASSUME UNCHANGED vars PROVE Requests'
  BY <1>26, <1>c DEF vars
<1>27. QED
  BY <1>1, <1>2, <1>3, <1>4, <1>5, <1>6, <1>7, <1>8, <1>9, <1>10, <1>11, <1>12, <1>13,
     <1>14, <1>15, <1>16, <1>17, <1>18, <1>19, <1>20, <1>21, <1>22, <1>23, <1>24, <1>25,
     <1>26 DEF Next, CoordinatorStep, ThreadStep

-----------------------------------------------------------------------------
(* What a thread relies on.                                                 *)

\* A thread that does not move: the others leave it what it relies on, or take it
\* out of the draining.
LEMMA Others ==
  ASSUME Inv, [Next]_vars, NEW u \in Thread,
         th'[u].pc = th[u].pc, th'[u].stage = th[u].stage, th'[u].seen = th[u].seen,
         th'[u].ok <=> th[u].ok,
         th'[u].whole => th[u].whole /\ session'.status \in Blocked
  PROVE  Reliable(u)'
<1>1. th'[u].ok => th'[u].pc = "decide"
  BY DEF Inv, Reliable
<1>2. CASE ~th'[u].whole
  BY <1>1, <1>2 DEF Reliable
<1>3. CASE th'[u].whole
  <2>1. session.status \in Blocked /\ session'.status \in Blocked /\ th[u].whole
    BY <1>3 DEF Inv, Reliable
  <2>2. Guarded
    BY <2>1, GateHolds DEF Inv
  <2>3. QED
    BY <1>1, <2>1, <2>2 DEF Inv, Reliable, Guarded
<1>4. QED
  BY <1>2, <1>3

\* The same for a thread that goes somewhere else within its stage, without a verdict.
LEMMA Own ==
  ASSUME Inv, [Next]_vars, GateMoves, NEW t \in Thread,
         NEW pc \in PC \ {"backup", "request", "delete", "answer"},
         Moved(t, pc, th[t].stage, th[t].whole)
  PROVE  Reliable(t)'
<1>1. th'[t].pc = pc /\ th'[t].stage = th[t].stage /\ ~th'[t].ok
  BY DEF Moved
<1>2. CASE ~th'[t].whole
  BY <1>1, <1>2 DEF Reliable
<1>3. CASE th'[t].whole
  <2>1. session.status \in Blocked /\ session'.status \in Blocked /\ th[t].whole
    BY <1>3 DEF Inv, Reliable, GateMoves, Moved
  <2>2. Guarded
    BY <2>1, GateHolds DEF Inv
  <2>3. QED
    BY <1>1, <2>1, <2>2 DEF Inv, Reliable, Guarded
<1>4. QED
  BY <1>2, <1>3

\* All threads rely on the same when one of them returns.
LEMMA ReturnReliable ==
  ASSUME Inv, [Next]_vars, NEW t \in Thread, Answer(t) \/ Abort(t)
  PROVE  \A u \in Thread : Reliable(u)'
<1>1. PICK pc \in {"idle", "abort"} : Return(t, pc)
  BY DEF Answer, Abort
<1>2. /\ ~th'[t].ok /\ ~th'[t].whole
      /\ \A u \in Thread \ {t} :
            /\ th'[u].pc = th[u].pc /\ th'[u].stage = th[u].stage
            /\ th'[u].seen = th[u].seen /\ (th'[u].ok <=> th[u].ok)
            /\ th'[u].whole => th[u].whole /\ session'.status \in Blocked
  BY <1>1, ReturnMoves DEF Inv, PC
<1>3. Reliable(t)'
  BY <1>2 DEF Reliable
<1>4. QED
  BY <1>2, <1>3, Others

\* Every step keeps what the threads rely on.
LEMMA StepReliable ==
  ASSUME Inv, [Next]_vars
  PROVE  \A u \in Thread : Reliable(u)'
<1> USE DEF work, backup, process
<1> DEFINE Goal == \A u \in Thread : Reliable(u)'
<1>0. TypeOK
  BY DEF Inv
<1> SUFFICES ASSUME GateMoves PROVE Goal
  BY <1>0, GateStays, ReturnReliable
<1>a. Coordinator \in Thread
  BY DEF Thread
<1>b. PC = {"idle", "check", "decide", "begin", "backup", "request", "delete", "answer", "abort"}
  BY DEF PC
<1>c. ASSUME NEW u \in Thread, th'[u] = th[u] PROVE Reliable(u)'
  BY <1>c, Others DEF Inv, Reliable, GateMoves
<1>d. UNCHANGED th => Goal
  BY <1>c
<1>e. ASSUME NEW t \in Thread, \A u \in Thread : u # t => th'[u] = th[u], Reliable(t)'
      PROVE  Goal
  BY <1>c, <1>e
<1>f. ASSUME NEW t \in Thread, NEW pc \in PC \ {"backup", "request", "delete", "answer"}, Goto(t, pc)
      PROVE  Goal
  BY <1>0, <1>e, <1>f, GotoMoves, Own DEF Moved
<1>g. \A t \in Thread : th[t].ok => th[t].pc = "decide"
  BY DEF Inv, Reliable
<1> HIDE DEF Goal
<1>1. ASSUME NEW g \in Gen, Enqueue(g) PROVE Goal
  BY <1>1, <1>d DEF Enqueue
<1>2. ASSUME NEW g \in Gen, Work(g) PROVE Goal
  BY <1>2, <1>d DEF Work
<1>3. ASSUME StartTransfer PROVE Goal
  BY <1>3, <1>d DEF StartTransfer
<1>4. ASSUME EndTransfer PROVE Goal
  BY <1>4, <1>d DEF EndTransfer
<1>5. ASSUME MarkDirty PROVE Goal
  BY <1>5, <1>d DEF MarkDirty
<1>6. ASSUME Backup PROVE Goal
  BY <1>6, <1>d DEF Backup
<1>7. ASSUME Toggle PROVE Goal
  BY <1>7, <1>d DEF Toggle
<1>8. ASSUME Coordinate PROVE Goal
  <2>1. Moved(Coordinator, "check", "first", FALSE)
    BY <1>8, <1>0, <1>a, CheckMoves DEF Coordinate
  <2>2. Reliable(Coordinator)'
    BY <2>1 DEF Moved, Reliable
  <2>3. QED
    BY <1>a, <1>e, <2>1, <2>2 DEF Moved
<1>9. ASSUME StandBy PROVE Goal
  BY <1>9, <1>d DEF StandBy
<1>10. ASSUME Unsafe PROVE Goal
  <2>1. \E pc \in {"idle", "begin"} : Goto(Coordinator, pc)
    BY <1>10 DEF Unsafe
  <2>2. QED
    BY <1>a, <1>b, <1>f, <2>1
<1>11. ASSUME StartGrace PROVE Goal
  <2>1. \E pc \in {"idle", "begin"} : Goto(Coordinator, pc)
    BY <1>11 DEF StartGrace
  <2>2. QED
    BY <1>a, <1>b, <1>f, <2>1
<1>12. ASSUME KeepGrace PROVE Goal
  <2>1. \E pc \in {"idle", "begin"} : Goto(Coordinator, pc)
    BY <1>12 DEF KeepGrace
  <2>2. QED
    BY <1>a, <1>b, <1>f, <2>1
<1>13. ASSUME EndGrace PROVE Goal
  <2>1. \E pc \in {"idle", "begin"} : Goto(Coordinator, pc)
    BY <1>13 DEF EndGrace
  <2>2. QED
    BY <1>a, <1>b, <1>f, <2>1
<1>14. ASSUME NEW t \in Thread, Press(t) PROVE Goal
  <2>1. Moved(t, "check", "first", FALSE)
    BY <1>14, <1>0, <1>a, CheckMoves DEF Press
  <2>2. Reliable(t)'
    BY <2>1 DEF Moved, Reliable
  <2>3. QED
    BY <1>a, <1>e, <2>1, <2>2 DEF Moved
<1>15. ASSUME NEW t \in Thread, CheckFirst(t) PROVE Goal
  <2>1. /\ th'[t].pc = "decide" /\ th'[t].stage = th[t].stage /\ (th'[t].whole <=> th[t].whole)
        /\ (th'[t].ok <=> th[t].ok) \/ th'[t].seen = {g \in Gen : gen[g] # "absent"}
        /\ \A u \in Thread : u # t => th'[u] = th[u]
    BY <1>15, <1>0, VerdictMoves
  <2>2. ~th[t].ok
    BY <1>15, <1>g DEF CheckFirst
  <2>3. UNCHANGED <<session, gen, transfer, unsaved, clean>>
    BY <1>15 DEF CheckFirst
  <2>4. Reliable(t)'
    BY <2>1, <2>2, <2>3 DEF Inv, Reliable, Settled
  <2>5. QED
    BY <1>e, <2>1, <2>4
<1>16. ASSUME NEW t \in Thread, Pressed(t) PROVE Goal
  <2>1. \E pc \in {"idle", "begin"} : Goto(t, pc)
    BY <1>16 DEF Pressed
  <2>2. QED
    BY <1>b, <1>f, <2>1
<1>17. ASSUME NEW t \in Thread, BeginDraining(t) PROVE Goal
  <2>1. CASE Goto(t, "idle")
    BY <1>b, <1>f, <2>1
  <2>2. CASE /\ session' = [session EXCEPT !.status = "draining"]
             /\ th' = [th EXCEPT ![t].pc = "check", ![t].stage = "drained", ![t].whole = TRUE]
    <3>1. session'.status \in Blocked
      BY <1>0, <2>2 DEF TypeOK, Blocked
    <3>2. ~th[t].ok
      BY <1>17, <1>g DEF BeginDraining
    <3>3. Moved(t, "check", "drained", TRUE)
      BY <1>0, <2>2, <3>2, DrainMoves
    <3>4. Reliable(t)'
      BY <3>1, <3>3 DEF Moved, Reliable, AfterBackup
    <3>5. QED
      BY <1>e, <3>3, <3>4 DEF Moved
  <2>3. QED
    BY <1>17, <2>1, <2>2 DEF BeginDraining
<1>18. ASSUME NEW t \in Thread, Decide(t) PROVE Goal
  <2>0. /\ UNCHANGED <<session, gen, transfer, unsaved, clean>>
        /\ th[t].pc = "decide" /\ th[t].stage \in Stage \ {"first"}
    BY <1>18 DEF Decide, Deciding
  <2>1. CASE Continue(t, "abort", th[t].stage)
    BY <1>0, <1>b, <1>e, <2>0, <2>1, ContinueMoves, Own DEF Moved
  <2>2. CASE Safe(t) /\ th[t].stage = "drained" /\ Continue(t, "backup", "drained")
    <3>1. Moved(t, "backup", "drained", th[t].whole)
      BY <1>0, <1>b, <2>2, ContinueMoves DEF Stage
    <3>2. th[t].whole => Settled
      BY <2>2 DEF Inv, Reliable, Safe, Settled
    <3>3. Reliable(t)'
      BY <2>0, <3>1, <3>2 DEF Inv, Reliable, Moved, Settled, AfterBackup
    <3>4. QED
      BY <1>e, <3>1, <3>3 DEF Moved
  <2>3. CASE Safe(t) /\ th[t].stage = "backedUp" /\ Continue(t, "check", "last")
    <3>1. Moved(t, "check", "last", th[t].whole)
      BY <1>0, <1>b, <2>3, ContinueMoves DEF Stage
    <3>2. Reliable(t)'
      BY <2>0, <2>3, <3>1 DEF Inv, Reliable, Moved, Settled, AfterBackup
    <3>3. QED
      BY <1>e, <3>1, <3>2 DEF Moved
  <2>4. CASE Safe(t) /\ th[t].stage = "last" /\ Continue(t, "request", "last")
    <3>1. Moved(t, "request", "last", th[t].whole)
      BY <1>0, <1>b, <2>4, ContinueMoves DEF Stage
    <3>2. th[t].whole => Settled /\ ~unsaved
      BY <2>4 DEF Inv, Reliable, Safe, AfterBackup
    <3>3. Reliable(t)'
      BY <2>0, <2>4, <3>1, <3>2 DEF Inv, Reliable, Moved, Settled, AfterBackup
    <3>4. QED
      BY <1>e, <3>1, <3>3 DEF Moved
  <2>5. QED
    <3>1. PICK stage \in Stage \ {"first"} :
             /\ Deciding(t, stage)
             /\ IF Safe(t)
                THEN Continue(t, AfterCheck(stage), IF stage = "backedUp" THEN "last" ELSE stage)
                ELSE Continue(t, "abort", stage)
      BY <1>18 DEF Decide
    <3>2. th[t].stage = stage
      BY <3>1 DEF Deciding
    <3>3. stage \in {"drained", "backedUp", "last"}
      BY DEF Stage
    <3>4. /\ AfterCheck("drained") = "backup" /\ AfterCheck("backedUp") = "check"
          /\ AfterCheck("last") = "request"
      BY DEF AfterCheck
    <3>5. QED
      BY <2>1, <2>2, <2>3, <2>4, <3>1, <3>2, <3>3, <3>4
<1>19. ASSUME NEW t \in Thread, FinalBackup(t) PROVE Goal
  <2>1. /\ UNCHANGED <<session, gen, transfer>> /\ ~th[t].ok /\ th[t].pc = "backup"
        /\ clean' => ~unsaved'
    BY <1>19, <1>g DEF FinalBackup, BackedUp
  <2>2. Moved(t, "check", "backedUp", th[t].whole)
    BY <1>19, <1>0, <2>1, BackupMoves DEF FinalBackup
  <2>3. Reliable(t)'
    BY <2>1, <2>2 DEF Inv, Reliable, Moved, Settled
  <2>4. QED
    BY <1>e, <2>2, <2>3 DEF Moved
<1>20. ASSUME NEW t \in Thread, Request(t) PROVE Goal
  <2>1. CASE Goto(t, "abort")
    BY <1>b, <1>f, <2>1
  <2>2. CASE Goto(t, "delete")
    <3>1. Moved(t, "delete", th[t].stage, th[t].whole)
      BY <2>2, <1>0, <1>b, GotoMoves
    <3>2. UNCHANGED <<gen, transfer, unsaved, clean>> /\ th[t].pc = "request"
      BY <1>20 DEF Request
    <3>3. th'[t].whole => session'.status \in Blocked
      BY <3>1 DEF Inv, Reliable, Moved, GateMoves
    <3>4. Reliable(t)'
      BY <3>1, <3>2, <3>3 DEF Inv, Reliable, Moved, Settled
    <3>5. QED
      BY <1>e, <3>1, <3>4 DEF Moved
  <2>3. QED
    BY <1>20, <2>1, <2>2 DEF Request
<1>21. ASSUME NEW t \in Thread, SendDelete(t) PROVE Goal
  <2>1. Goto(t, "answer")
    BY <1>21 DEF SendDelete
  <2>2. QED
    <3>1. Moved(t, "answer", th[t].stage, th[t].whole)
      BY <2>1, <1>0, <1>b, GotoMoves
    <3>2. UNCHANGED <<gen, transfer, unsaved, clean>> /\ th[t].pc = "delete"
      BY <1>21 DEF SendDelete
    <3>3. th'[t].whole => session'.status \in Blocked
      BY <3>1 DEF Inv, Reliable, Moved, GateMoves
    <3>4. Reliable(t)'
      BY <3>1, <3>2, <3>3 DEF Inv, Reliable, Moved, Settled
    <3>5. QED
      BY <1>e, <3>1, <3>4 DEF Moved
<1>22. ASSUME NEW t \in Thread, Answer(t) PROVE Goal
  BY <1>22, ReturnReliable DEF Goal
<1>23. ASSUME NEW t \in Thread, Abort(t) PROVE Goal
  BY <1>23, ReturnReliable DEF Goal
<1>24. ASSUME StartupRestored PROVE Goal
  BY <1>24, <1>d DEF StartupRestored
<1>25. ASSUME Restart PROVE Goal
  <2>1. \A u \in Thread : ~th'[u].ok /\ ~th'[u].whole
    BY <1>25, IdleState DEF Restart
  <2>2. QED
    BY <2>1 DEF Goal, Reliable
<1>26. ASSUME UNCHANGED vars PROVE Goal
  BY <1>26, <1>d DEF vars
<1>27. QED
  BY <1>1, <1>2, <1>3, <1>4, <1>5, <1>6, <1>7, <1>8, <1>9, <1>10, <1>11, <1>12, <1>13,
     <1>14, <1>15, <1>16, <1>17, <1>18, <1>19, <1>20, <1>21, <1>22, <1>23, <1>24, <1>25,
     <1>26 DEF Goal, Next, CoordinatorStep, ThreadStep

-----------------------------------------------------------------------------
(* The invariant, and what follows from it.                                 *)

\* The start: nothing is under way.
LEMMA InitialInv == Init => Inv
<1> SUFFICES ASSUME Init PROVE Inv
  OBVIOUS
<1>1. \A t \in Thread : th[t] = Idle
  BY DEF Init
<1>2. th \in [Thread -> ThreadState] /\ session \in SessionState /\ gen \in [Gen -> GenState]
  BY IdleState DEF Init, SessionState, State, GenState
<1>3. TypeOK
  <2>1. {transfer, unsaved, owed, clean, waiting, restored} \subseteq BOOLEAN
    BY Zenon DEF Init
  <2>2. inDoubt \in Nat /\ run \in Nat /\ faults \in 0 .. MaxFaults
    BY DEF Init
  <2>3. QED
    BY <1>2, <2>1, <2>2 DEF TypeOK, SessionState
<1>4. Requests
  BY <1>1, IdleState DEF Init, Requests, Deleting
<1>5. \A t \in Thread : Reliable(t)
  BY <1>1, IdleState DEF Reliable
<1>6. QED
  BY <1>3, <1>4, <1>5 DEF Inv

\* The invariant is inductive.
LEMMA StepInv == Inv /\ [Next]_vars => Inv'
BY StepTypes, StepRequests, StepReliable DEF Inv

\* It holds in every state.
LEMMA Invariance == Spec => []Inv
BY InitialInv, StepInv, PTL DEF Spec

\* Every reachable state is type-correct.
THEOREM TypeCorrect == Spec => []TypeOK
<1>1. Inv => TypeOK
  BY DEF Inv
<1>2. QED
  BY Invariance, <1>1, PTL

\* At most one DELETE request may ever have reached RunPod, whatever threads and
\* processes ask for it and whatever becomes of the answers.
THEOREM DeleteOnce == Spec => []OneDelete
<1>1. Inv => OneDelete
  BY DEF Inv, Requests, OneDelete
<1>2. QED
  BY Invariance, <1>1, PTL

\* The draining and its three checks lose nothing, unless the Pod was reopened
\* since: for any number of buttons pressed and of generations under way.
THEOREM DeleteSafe == Spec => []DeleteIsSafe
<1>1. ASSUME Inv PROVE DeleteIsSafe
  BY <1>1 DEF Inv, Reliable, DeleteIsSafe, Deleting, NothingToLose, Settled
<1>2. QED
  BY Invariance, <1>1, PTL

\* The admission gate stays closed behind a request that may have been delivered.
THEOREM NothingStarts == Spec => NoWorkAfterDelete
<1> DEFINE Stands == inDoubt > 0 => /\ \A g \in Gen : gen[g] = "absent" => gen'[g] = "absent"
                                    /\ transfer' => transfer
<1>1. ASSUME Inv, [Next]_vars, inDoubt > 0
      PROVE  /\ \A g \in Gen : gen[g] = "absent" => gen'[g] = "absent"
             /\ transfer' => transfer
  <2>1. session.status \in Blocked
    BY <1>1 DEF Inv, Requests, Blocked
  <2>2. QED
    BY <1>1, <2>1, GateHolds DEF Inv, Guarded
<1>2. Inv /\ [Next]_vars => [Stands]_vars
  BY <1>1
<1> HIDE DEF Stands
<1>3. Spec => [][Stands]_vars
  BY Invariance, <1>2, PTL DEF Spec
<1>4. QED
  BY <1>3 DEF Stands, NoWorkAfterDelete
=============================================================================

---------------------------- MODULE PodLifecycle ----------------------------
(***************************************************************************)
(* The end of a Pod: the persisted session of PodLifecycleService, the     *)
(* admission gate in front of new work, the auto-terminate coordinator and *)
(* the users' terminate button, the readiness checks between them, and the *)
(* one DELETE request whose answer may be lost.                            *)
(*                                                                         *)
(* What a readiness check reads is kept as small as its verdict allows: a  *)
(* generation with its Drive record, whether a model transfer is active,   *)
(* and whether the database is backed up.                                  *)
(***************************************************************************)
EXTENDS Integers, FiniteSets

CONSTANTS Gen,          \* generations of this Pod's session
          Coordinator,  \* the thread of AutoTerminateRuntime
          Manual,       \* threads of the terminate button
          MaxRuns,      \* bound: processes started
          MaxFaults     \* bound: saves of the session that fail

ASSUME LifecycleAssumption ==
    /\ IsFiniteSet(Gen) /\ Coordinator \notin Manual
    /\ MaxRuns \in Nat /\ MaxFaults \in Nat

Thread == Manual \union {Coordinator}

VARIABLES
  session,   \* the row of pod_lifecycle_sessions, which the service caches
  gen,       \* each generation, joined with its Drive record and manifest
  transfer,  \* a model transfer is pending or running
  unsaved,   \* the database differs from the last remote backup
  owed,      \* a transaction is committed, its mark_dirty call still to come
  clean,     \* is_clean and has_latest_remote_backup of the state sync
  th,        \* the threads that may terminate the Pod
  waiting,   \* AutoTerminateCoordinator._ready_since is set
  restored,  \* the start-up model restore is over
  inDoubt,   \* history: DELETE requests not known to be refused
  run,       \* processes started so far
  faults     \* failed saves so far

vars == <<session, gen, transfer, unsaved, owed, clean, th, waiting, restored,
          inDoubt, run, faults>>

work == <<gen, transfer>>
backup == <<unsaved, owed, clean>>
process == <<restored, run>>

-----------------------------------------------------------------------------
State == {"idle", "armed", "waiting", "ready", "draining", "requesting",
          "ambiguous", "failed"}

\* "completed" is a finished generation whose Drive record or manifest is missing,
\* in progress or failed.
GenState == {"absent", "active", "completed", "synced", "failed"}

\* Where a check stands in the protocol.
Stage == {"first", "drained", "backedUp", "last"}

ThreadState ==
    [pc    : {"idle", "check", "decide", "begin", "backup", "request",
              "delete", "answer", "abort"},
     stage : Stage,
     seen  : SUBSET Gen,     \* the generations the check listed
     ok    : BOOLEAN,        \* its verdict so far
     whole : BOOLEAN]        \* history: draining has lasted since this thread began it

Idle == [pc |-> "idle", stage |-> "first", seen |-> {}, ok |-> FALSE, whole |-> FALSE]

TypeOK == /\ session \in [status : State, armed : BOOLEAN, enabled : BOOLEAN]
          /\ gen \in [Gen -> GenState]
          /\ {transfer, unsaved, owed, clean, waiting, restored} \subseteq BOOLEAN
          /\ th \in [Thread -> ThreadState]
          /\ inDoubt \in Nat /\ run \in Nat /\ faults \in 0 .. MaxFaults

Init == /\ session \in [status : {"idle"}, armed : {FALSE}, enabled : BOOLEAN]
        /\ gen = [g \in Gen |-> "absent"]
        /\ transfer = FALSE /\ unsaved = FALSE /\ owed = FALSE /\ clean = FALSE
        /\ th = [t \in Thread |-> Idle]
        /\ waiting = FALSE /\ restored = FALSE
        /\ inDoubt = 0 /\ run = 1 /\ faults = 0

-----------------------------------------------------------------------------
(* The admission gate and the work behind it.                               *)

WrongBlocked == {"draining", "requesting"}

Blocked == {"draining", "requesting", "ambiguous"}

Admitted == session.status \notin Blocked

\* A write and its dirty mark under the admission lock.
Marked == unsaved' = TRUE /\ clean' = FALSE /\ UNCHANGED owed

\* A worker's transaction, which marks the state dirty a moment later.
Unmarked == unsaved' = TRUE /\ owed' = TRUE /\ UNCHANGED clean

\* arm_on_generation_enqueue: a refused DELETE is not re-armed by new work.
ArmedBy(s) == IF s.status = "failed" THEN s
              ELSE [s EXCEPT !.status = "armed", !.armed = TRUE]

\* An admitted save of the session; its failure is logged and forgotten.
Enqueue(g) ==
    /\ Admitted /\ gen[g] = "absent"
    /\ gen' = [gen EXCEPT ![g] = "active"]
    /\ \/ session' = ArmedBy(session) /\ UNCHANGED faults
       \/ faults < MaxFaults /\ faults' = faults + 1 /\ UNCHANGED session
    /\ Marked
    /\ UNCHANGED <<transfer, th, waiting, process, inDoubt>>

\* A transfer stands for every other admitted write, too.
StartTransfer ==
    /\ Admitted /\ ~transfer
    /\ transfer' = TRUE
    /\ Marked
    /\ UNCHANGED <<session, gen, th, waiting, process, inDoubt, faults>>

\* The workers: a generation ends, a finished one is uploaded.
GenMoves == {<<"active", "completed">>, <<"active", "failed">>, <<"completed", "synced">>}

Work(g) ==
    /\ \E s \in GenState : <<gen[g], s>> \in GenMoves /\ gen' = [gen EXCEPT ![g] = s]
    /\ Unmarked
    /\ UNCHANGED <<session, transfer, th, waiting, process, inDoubt, faults>>

EndTransfer ==
    /\ transfer /\ transfer' = FALSE
    /\ Unmarked
    /\ UNCHANGED <<session, gen, th, waiting, process, inDoubt, faults>>

MarkDirty ==
    /\ owed /\ owed' = FALSE /\ clean' = FALSE
    /\ UNCHANGED <<session, work, unsaved, th, waiting, process, inDoubt, faults>>

BackedUp == unsaved' = FALSE /\ clean' = TRUE /\ UNCHANGED owed

\* The debounced backup, which every dirty mark asks for, or the button.
Backup ==
    /\ ~clean
    /\ BackedUp
    /\ UNCHANGED <<session, work, th, waiting, process, inDoubt, faults>>

\* set_auto_terminate_enabled from the System tab.
Toggle ==
    /\ Admitted
    /\ LET on == ~session.enabled IN
       session' = [session EXCEPT
                     !.enabled = on,
                     !.status = IF on /\ session.armed THEN "armed"
                                ELSE IF ~on THEN "idle" ELSE session.status]
    /\ UNCHANGED <<work, backup, th, waiting, process, inDoubt, faults>>

-----------------------------------------------------------------------------
(* check_readiness.  The first step reads the session and the generations,   *)
(* and asks ComfyUI: its queue is empty, or it is not, or there is no answer. *)
(* The rest is read when the answer is there, for the generations listed      *)
(* before.                                                                    *)

Goto(t, pc) == th' = [th EXCEPT ![t].pc = pc, ![t].seen = {}, ![t].ok = FALSE]

Continue(t, pc, stage) ==
    th' = [th EXCEPT ![t].pc = pc, ![t].seen = {}, ![t].ok = FALSE, ![t].stage = stage]

CheckFirst(t) ==
    /\ th[t].pc = "check"
    /\ LET seen == {g \in Gen : gen[g] # "absent"}
           good == /\ session.status \notin {"requesting", "ambiguous"}
                   /\ seen # {}
                   /\ \A g \in seen : gen[g] \notin {"active", "failed"}
       IN \/ th' = [th EXCEPT ![t].pc = "decide"]
          \/ good /\ th' = [th EXCEPT ![t].pc = "decide", ![t].ok = TRUE, ![t].seen = seen]
    /\ UNCHANGED <<session, work, backup, waiting, process, inDoubt, faults>>

WrongSafe(t) == /\ th[t].ok
                /\ ~transfer
                /\ \A g \in th[t].seen : gen[g] = "synced"

\* _check_model_transfer, _check_drive_sync, _check_manifest, _check_state_backup.
Safe(t) == /\ th[t].ok
           /\ ~transfer
           /\ \A g \in th[t].seen : gen[g] = "synced"
           /\ clean

Deciding(t, stage) == th[t].pc = "decide" /\ th[t].stage = stage

-----------------------------------------------------------------------------
(* AutoTerminateCoordinator.run_once.                                       *)

Coordinate ==
    /\ th[Coordinator].pc = "idle"
    /\ restored /\ session.enabled /\ session.armed
    /\ session.status \notin Blocked \union {"failed"}
    /\ th' = [th EXCEPT ![Coordinator] = [Idle EXCEPT !.pc = "check"]]
    /\ UNCHANGED <<session, work, backup, waiting, process, inDoubt, faults>>

\* Paused, not armed, or still restoring: the grace period starts anew.
StandBy ==
    /\ th[Coordinator].pc = "idle" /\ waiting
    /\ ~restored \/ ~session.enabled \/ ~session.armed
    /\ waiting' = FALSE
    /\ UNCHANGED <<session, work, backup, th, process, inDoubt, faults>>

\* A save of a new status: it succeeds, or raises PodLifecycleError.
Save(status, raised) ==
    \/ session' = [session EXCEPT !.status = status] /\ UNCHANGED faults
    \/ faults < MaxFaults /\ faults' = faults + 1 /\ UNCHANGED session /\ raised

Unsafe ==
    /\ Deciding(Coordinator, "first") /\ ~Safe(Coordinator)
    /\ waiting' = FALSE
    /\ IF session.status \in {"waiting", "ready"} THEN Save("armed", TRUE)
       ELSE UNCHANGED <<session, faults>>
    /\ Goto(Coordinator, "idle")
    /\ UNCHANGED <<work, backup, process, inDoubt>>

WrongGraceRuns == waiting /\ session.status = "ready"

GraceRuns == waiting /\ session.status # "armed"

StartGrace ==
    /\ Deciding(Coordinator, "first") /\ Safe(Coordinator)
    /\ ~GraceRuns
    /\ IF session.status = "armed"
       THEN waiting' = TRUE /\ Save("waiting", TRUE)
       ELSE waiting' = FALSE /\ UNCHANGED <<session, faults>>
    /\ Goto(Coordinator, "idle")
    /\ UNCHANGED <<work, backup, process, inDoubt>>

KeepGrace ==
    /\ Deciding(Coordinator, "first") /\ Safe(Coordinator)
    /\ GraceRuns
    /\ IF session.status = "waiting" THEN Save("ready", TRUE)
       ELSE UNCHANGED <<session, faults>>
    /\ Goto(Coordinator, "idle")
    /\ UNCHANGED <<work, backup, waiting, process, inDoubt>>

EndGrace ==
    /\ Deciding(Coordinator, "first") /\ Safe(Coordinator)
    /\ GraceRuns
    /\ Goto(Coordinator, "begin")
    /\ UNCHANGED <<session, work, backup, waiting, process, inDoubt, faults>>

-----------------------------------------------------------------------------
(* drain_backup_and_terminate.                                              *)

\* The button checks before it opens the draining.
Press(t) ==
    /\ t \in Manual /\ th[t].pc = "idle"
    /\ th' = [th EXCEPT ![t] = [Idle EXCEPT !.pc = "check"]]
    /\ UNCHANGED <<session, work, backup, waiting, process, inDoubt, faults>>

Pressed(t) ==
    /\ t \in Manual /\ Deciding(t, "first")
    /\ Goto(t, IF Safe(t) THEN "begin" ELSE "idle")
    /\ UNCHANGED <<session, work, backup, waiting, process, inDoubt, faults>>

\* The coordinator forgets its grace period whenever a drain of its own ends in
\* an exception.
Forget(t) == waiting' = (waiting /\ t # Coordinator)

\* begin_draining; a draining that another thread began is joined silently.
Drainable == State \ {"requesting", "ambiguous"}

BeginDraining(t) ==
    /\ th[t].pc = "begin"
    /\ \/ /\ session.status \in Drainable
          /\ session' = [session EXCEPT !.status = "draining"]
          /\ th' = [th EXCEPT ![t].pc = "check", ![t].stage = "drained", ![t].whole = TRUE]
          /\ UNCHANGED <<waiting, faults>>
       \/ /\ session.status \notin Drainable
          /\ Goto(t, "idle") /\ Forget(t)
          /\ UNCHANGED <<session, faults>>
       \/ /\ session.status \in Drainable \ {"draining"}
          /\ faults < MaxFaults /\ faults' = faults + 1
          /\ Goto(t, "idle") /\ Forget(t)
          /\ UNCHANGED session
    /\ UNCHANGED <<work, backup, process, inDoubt>>

AfterCheck(stage) == CASE stage = "drained"  -> "backup"
                       [] stage = "backedUp" -> "check"
                       [] stage = "last"     -> "request"

\* The check after draining, the one after the backup, and the fresh one of
\* request_terminate.
Decide(t) ==
    /\ \E stage \in Stage \ {"first"} :
          /\ Deciding(t, stage)
          /\ IF Safe(t)
             THEN Continue(t, AfterCheck(stage), IF stage = "backedUp" THEN "last" ELSE stage)
             ELSE Continue(t, "abort", stage)
    /\ UNCHANGED <<session, work, backup, waiting, process, inDoubt, faults>>

\* final_state_backup reports a failure only through the next check.
FinalBackup(t) ==
    /\ th[t].pc = "backup"
    /\ \/ BackedUp
       \/ clean' = FALSE /\ UNCHANGED <<unsaved, owed>>
    /\ th' = [th EXCEPT ![t].pc = "check", ![t].stage = "backedUp"]
    /\ UNCHANGED <<session, work, waiting, process, inDoubt, faults>>

\* The status is read again under the admission lock.
MayRequest == session.status = "draining"

Request(t) ==
    /\ th[t].pc = "request"
    /\ \/ /\ MayRequest
          /\ session' = [session EXCEPT !.status = "requesting"]
          /\ Goto(t, "delete") /\ UNCHANGED faults
       \/ /\ ~MayRequest
          /\ Goto(t, "abort") /\ UNCHANGED <<session, faults>>
       \/ /\ MayRequest /\ faults < MaxFaults /\ faults' = faults + 1
          /\ Goto(t, "abort") /\ UNCHANGED session
    /\ UNCHANGED <<work, backup, waiting, process, inDoubt>>

SendDelete(t) ==
    /\ th[t].pc = "delete"
    /\ inDoubt' = inDoubt + 1
    /\ Goto(t, "answer")
    /\ UNCHANGED <<session, work, backup, waiting, process, faults>>

WrongOutcome(answer) == "failed"

\* The status after an exception of terminate_self: only a request that was not
\* delivered, or not authorised, is known to have done nothing.
Outcome(answer) == IF answer = "refused" THEN "failed" ELSE "ambiguous"

\* History: a thread returns, and the Pod may be open again for the others.
Return(t, pc) ==
    th' = [u \in Thread |->
             IF u = t THEN [Idle EXCEPT !.pc = pc]
             ELSE [th[u] EXCEPT !.whole = @ /\ session'.status \in Blocked]]

\* After success this thread does nothing more; the Pod is about to go.
Answer(t) ==
    /\ th[t].pc = "answer"
    /\ \E answer \in {"terminated", "refused", "unclear"} :
          /\ inDoubt' = IF answer = "refused" THEN inDoubt - 1 ELSE inDoubt
          /\ IF answer # "terminated" /\ session.status = "requesting"
             THEN Save(Outcome(answer), TRUE)
             ELSE UNCHANGED <<session, faults>>
          /\ Return(t, IF answer = "terminated" THEN "idle" ELSE "abort")
    /\ UNCHANGED <<work, backup, waiting, process>>

WrongReopened == "draining"

Reopened == IF session.armed THEN "armed" ELSE "idle"

\* abort_draining on the way out of any exception.  It ends a draining that other
\* threads have joined, too.
Abort(t) ==
    /\ th[t].pc = "abort"
    /\ IF session.status = "draining"
       THEN Save(Reopened, TRUE)
       ELSE UNCHANGED <<session, faults>>
    /\ Return(t, "idle")
    /\ Forget(t)
    /\ UNCHANGED <<work, backup, process, inDoubt>>

-----------------------------------------------------------------------------
StartupRestored ==
    /\ ~restored /\ restored' = TRUE
    /\ UNCHANGED <<session, work, backup, th, waiting, run, inDoubt, faults>>

\* The process dies and starts again on the same Pod; the session survives.
Restart ==
    /\ run < MaxRuns /\ run' = run + 1
    /\ th' = [t \in Thread |-> Idle]
    /\ owed' = FALSE /\ clean' = FALSE /\ waiting' = FALSE /\ restored' = FALSE
    /\ UNCHANGED <<session, work, unsaved, inDoubt, faults>>

CoordinatorStep == \/ Coordinate \/ StandBy
                   \/ Unsafe \/ StartGrace \/ KeepGrace \/ EndGrace

ThreadStep(t) == \/ CheckFirst(t) \/ Pressed(t)
                 \/ BeginDraining(t) \/ Decide(t) \/ FinalBackup(t)
                 \/ Request(t) \/ SendDelete(t) \/ Answer(t) \/ Abort(t)

Next == \/ \E g \in Gen : Enqueue(g) \/ Work(g)
        \/ StartTransfer \/ EndTransfer \/ MarkDirty \/ Backup \/ Toggle
        \/ CoordinatorStep
        \/ \E t \in Thread : Press(t) \/ ThreadStep(t)
        \/ StartupRestored \/ Restart

Spec == Init /\ [][Next]_vars

\* Threads run, a dirty mark leads to a backup, and a grace period elapses.
Fairness == /\ WF_vars(CoordinatorStep)
            /\ \A t \in Thread : WF_vars(ThreadStep(t))
            /\ WF_vars(Backup)
            /\ WF_vars(StartupRestored)
            /\ SF_vars(EndGrace)

FairSpec == Spec /\ Fairness

-----------------------------------------------------------------------------
(* Properties.                                                              *)

\* At most one DELETE request is sent that may have reached RunPod, by any thread
\* of any process on this Pod; a further one follows only a confirmed refusal
\* (request_terminate and the states TERMINATION_REQUESTING and _AMBIGUOUS).
OneDelete == inDoubt <= 1

\* Nothing is lost by a DELETE: every generation is finished and uploaded, no
\* model is being transferred and the database is backed up.
NothingToLose == /\ \A g \in Gen : gen[g] \in {"absent", "synced"}
                 /\ ~transfer
                 /\ ~unsaved

Deleting(t) == th[t].pc \in {"delete", "answer"}

\* A thread that asks for the DELETE loses nothing, provided that nobody reopened
\* the Pod since it began to drain (begin_draining, the three checks, the backup).
DeleteIsSafe == \A t \in Thread : Deleting(t) /\ th[t].whole => NothingToLose

\* The same without the proviso, as the comment in request_terminate has it.
DeleteIsAlwaysSafe == \A t \in Thread : Deleting(t) => NothingToLose

\* Once a DELETE may have been delivered, no generation and no transfer is
\* started on this Pod any more, not even after a restart.
NoWorkAfterDelete ==
    [][inDoubt > 0 => /\ \A g \in Gen : gen[g] = "absent" => gen'[g] = "absent"
                      /\ transfer' => transfer]_vars

\* Within a process no draining lasts for ever: it ends in a request or in a
\* reopened Pod, unless a save failed (the except branch of
\* drain_backup_and_terminate).
DrainingEnds == (session.status = "draining")
                   ~> (session.status # "draining" \/ faults > 0 \/ run > 1)

\* When everything is done and backed up, the user leaves the Pod alone and the
\* ComfyUI queue stays empty, a Pod that was armed in this process is terminated.
Quiet == /\ session.enabled /\ session.armed
         /\ NothingToLose /\ clean /\ ~owed
         /\ \A t \in Manual : th[t].pc = "idle"
         /\ faults = 0 /\ run = 1
         /\ \E g \in Gen : gen[g] # "absent"

QuietPodIsTerminated ==
    /\ <>[]Quiet
    /\ <>[][CheckFirst(Coordinator) => th'[Coordinator].ok]_vars
    => <>(inDoubt > 0 \/ session.status = "failed")

=============================================================================

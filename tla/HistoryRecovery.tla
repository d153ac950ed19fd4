-------------------------- MODULE HistoryRecovery --------------------------
(***************************************************************************)
(* The recovery pass that every refresh of the History tab runs, next to   *)
(* the queue and its worker: GenerationRecoveryService.recover lists the   *)
(* unfinished jobs and settles each one from what ComfyUI says about its   *)
(* prompt.  It reads generations and jobs only, never the queue entry, so  *)
(* it does not know which rows the worker holds.                           *)
(***************************************************************************)
EXTENDS DispatchQueue

VARIABLE rec   \* the recovery pass in progress, if any

recVars == <<vars, rec>>

NoJob == [g |-> None, prompt |-> None]

NoRecovery == [pc |-> "idle", job |-> NoJob, todo |-> {}]

RInit == Init /\ rec = NoRecovery

-----------------------------------------------------------------------------
Then(label) == rec' = [rec EXCEPT !.pc = label]

NextJob == rec' = [rec EXCEPT !.pc = "visiting", !.job = NoJob]

\* list_recoverable: the jobs that are not terminal, whatever their generation is.
RList ==
    /\ rec.pc = "idle"
    /\ rec' = [rec EXCEPT !.pc = "visiting",
                          !.todo = {[g |-> g, prompt |-> row[g].jprompt] :
                                      g \in {h \in Gen : Exists(row[h]) /\ row[h].job \in Active}}]
    /\ UNCHANGED vars

\* The generation is read again; the job is the listed one.  A job without a
\* prompt is failed once it is stale_pending_seconds old: time is left open.
RVisit(job) ==
    /\ rec.pc = "visiting"
    /\ job \in rec.todo
    /\ \A other \in rec.todo : row[job.g].seq <= row[other.g].seq
    /\ \E label \in {"visiting", "failing", "looking"} :
        /\ label = "failing" => job.prompt = None /\ row[job.g].gen = "pending"
        /\ label = "looking" <=> job.prompt # None /\ row[job.g].gen \notin Terminal
        /\ rec' = [pc   |-> label,
                   job  |-> IF label = "visiting" THEN NoJob ELSE job,
                   todo |-> rec.todo \ {job}]
    /\ UNCHANGED vars

RDone == /\ rec.pc = "visiting" /\ rec.todo = {}
         /\ rec' = NoRecovery
         /\ UNCHANGED vars

WrongDecisionUnreachable(answer) ==
    IF answer \in {"missing", "unavailable"} THEN {"failing", "visiting"} ELSE {"visiting"}

\* What the pass does about an answer of ComfyUI.  A missing prompt is failed
\* only after its grace period.  The result of a finished one may be out of
\* reach, or be an upscaled image of the wrong dimensions.
Decision(answer) == CASE answer = "done"        -> {"completing", "failing", "visiting"}
                      [] answer = "failed"      -> {"failing"}
                      [] answer = "interrupted" -> {"cancelling"}
                      [] answer = "missing"     -> {"failing", "visiting"}
                      [] OTHER                  -> {"visiting"}

RLook ==
    /\ rec.pc = "looking"
    /\ \E answer \in Answer(rec.job.prompt) : \E label \in Decision(answer) :
          IF label = "visiting" THEN NextJob ELSE Then(label)
    /\ UNCHANGED vars

\* fail_generation, cancel_generation or the completion; an error is logged.
RWrite ==
    LET r == row[rec.job.g] IN
    /\ rec.pc \in {"failing", "cancelling", "completing"}
    /\ Store(rec.job.g,
             CASE rec.pc = "failing"    /\ CanFail(r)             -> Fail(r)
               [] rec.pc = "cancelling" /\ CanCancelGeneration(r) -> CancelGeneration(r)
               [] rec.pc = "completing" /\ CanComplete(r)         -> Complete(r)
               [] OTHER                                           -> r)
    /\ NextJob
    /\ UNCHANGED <<nextSeq, runActive, comfyui, run, w, ui, faults>>

RecoveryStep == \/ RList \/ RDone \/ RLook \/ RWrite
                \/ \E job \in rec.todo : RVisit(job)

RNext == \/ RecoveryStep
         \/ Steps /\ UNCHANGED rec
         \/ Restart /\ rec' = NoRecovery

RSpec == RInit /\ [][RNext]_recVars

-----------------------------------------------------------------------------
(* Properties.                                                              *)

\* A completed or cancelled generation stays so, although the worker, the UI
\* and the recovery pass each finish generations from what they read earlier
\* (fail_generation, cancel_generation and complete_generation_batch re-check).
SettledIsFinal ==
    [][\A g \in Gen : row[g].gen \in {"completed", "cancelled"} => row'[g].gen = row[g].gen]_recVars

\* The recovery pass never ends a generation whose prompt was known when the
\* job was listed and that ComfyUI still has waiting or running: being
\* unreachable is not an answer.
RecoverySparesRunning ==
    [][\A g \in Gen :
         /\ rec.pc \in {"failing", "cancelling", "completing"} /\ rec.job.g = g
         /\ rec.job.prompt # None
         /\ row'[g].gen # row[g].gen
         => remote[rec.job.prompt] \notin {"pending", "running"}]_recVars

\* Only a database failure or a ComfyUI that does not
\* answer can keep a cancel request open, and the recovery pass keeps none open.
CancelIsAnsweredAnyway ==
    [](faults = 0) /\ Fairness /\ ComfyUIAnswers => CancelIsAnswered

\* The message the pass writes on a job it fails without asking ComfyUI: the
\* work before submission stalled.  So some worker had begun that work.
StaleMeansStalled ==
    [][\A g \in Gen :
         /\ rec.pc = "failing" /\ rec.job = [g |-> g, prompt |-> None]
         /\ row[g].gen = "pending" /\ row'[g].gen = "failed"
         => ~(row[g].worker = 0 /\ row[g].sub = "ready")]_recVars
=============================================================================

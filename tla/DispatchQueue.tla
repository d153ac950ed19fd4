--------------------------- MODULE DispatchQueue ---------------------------
(***************************************************************************)
(* The persistent generation queue of the application: the queue rows in   *)
(* SQLite, the single worker thread that claims them and drives ComfyUI,   *)
(* the callers of the cancellation service on the UI threads, the operator *)
(* who resolves ambiguous submissions, ComfyUI itself, and the process     *)
(* that may stop between any two of these steps.                           *)
(*                                                                         *)
(* One action is one repository transaction, one remote call, or one local *)
(* decision of the worker, with the control state it leaves behind.        *)
(***************************************************************************)
EXTENDS QueueRows, FiniteSets, Sequences

CONSTANTS Interactive,   \* the generations of the one interactive run ({}: no run)
          Legacy,        \* rows a migration quarantined before the first start
          PendingLimit,  \* queue_max_pending
          MaxRuns,       \* bound: processes started, restarts included
          Supplied,      \* the prompt ids an operator may paste
          MaxFaults      \* bound: failed worker transactions and ComfyUI restarts

ASSUME BoundAssumption == /\ Interactive \subseteq Gen /\ Legacy \subseteq Gen
                          /\ Interactive \intersect Legacy = {}
                          /\ Supplied \subseteq Prompt
                          /\ PendingLimit \in Nat /\ MaxRuns \in Nat /\ MaxFaults \in Nat

ASSUME FiniteAssumption == IsFiniteSet(Gen)

VARIABLES
  row,        \* [Gen -> Row], the database
  nextSeq,    \* the next autoincremented queue sequence
  runActive,  \* the interactive run is not yet FAILED (database)
  remote,     \* ComfyUI's state of each prompt
  posts,      \* history: POST /prompt requests sent for each generation
  run,        \* number of the running process; names its worker
  w,          \* the worker thread
  ui,         \* the UI thread inside a cancellation, if any
  faults      \* failed worker transactions and ComfyUI restarts so far

vars == <<row, nextSeq, runActive, remote, posts, run, w, ui, faults>>

database == <<row, nextSeq, runActive>>
comfyui  == <<remote, posts>>

-----------------------------------------------------------------------------
Remote == {"none", "pending", "running", "done", "failed", "interrupted", "gone"}

Held == {"claimed", "prepared", "beginning", "posting", "accepted", "quarantine",
         "watching", "storing", "completing", "failing", "releasing"}

WorkerPc == Held \union
            {"start", "top", "listing", "scanning", "claiming",
             "cancelling", "stopping", "looking", "writing",
             "callback", "halted", "dead"}

\* What the worker is about to write, or on whose behalf it is looking.
Act == {"none", "prompt", "cancel", "cancelled", "complete", "fail", "missing", "mismatch"}

Item == [g : Gen, kind : {"cancel", "mismatch", "prompt"}, prompt : Prompt \union {None}]

Worker == [pc   : WorkerPc,
           g    : Gen \union {None},       \* the item in hand
           ask  : Prompt \union {None},    \* the prompt a remote call is about
           act  : Act,
           back : {"scanning", "releasing"},
           todo : SUBSET Item,             \* items of a reconcile pass not yet visited
           then : {"top", "halted", "dead"}]   \* where run_once's finally block leads

Idle == [pc |-> "start", g |-> None, ask |-> None, act |-> "none",
         back |-> "scanning", todo |-> {}, then |-> "top"]

Ui == [pc   : {"idle", "marking", "asking", "polling", "dropping", "requesting"},
       g    : Gen \union {None},
       ask  : Prompt \union {None},    \* the prompt to stop
       left : SUBSET Gen]              \* cancel_pending calls still to make

NoRequest == [pc |-> "idle", g |-> None, ask |-> None, left |-> {}]

TypeOK == /\ row \in [Gen -> Row]
          /\ nextSeq \in Nat \ {0}
          /\ runActive \in BOOLEAN
          /\ remote \in [Prompt -> Remote]
          /\ posts \in [Gen -> Nat]
          /\ run \in Nat \ {0}
          /\ w \in Worker
          /\ ui \in Ui
          /\ faults \in Nat

-----------------------------------------------------------------------------
(* A database upgraded from an old version holds rows the migrations could  *)
(* not classify: prompt ids that differ, or a status nobody can prove.      *)
QuarantinedByMigration(g, seq) ==
    { [Absent EXCEPT !.seq = seq, !.sub = "ambiguous", !.audit = "migration",
                     !.gen = "queued", !.job = "queued",
                     !.gprompt = g, !.jprompt = Alien],
      [Absent EXCEPT !.seq = seq, !.sub = "ambiguous", !.audit = "migration",
                     !.gen = "failed", !.job = "failed"] }

Init == /\ \E order \in [Legacy -> 1..Cardinality(Legacy)] :
              /\ \A g, h \in Legacy : order[g] = order[h] => g = h
              /\ row \in [Gen -> {Absent} \union
                                 UNION {QuarantinedByMigration(g, order[g]) : g \in Legacy}]
              /\ \A g \in Gen : IF g \in Legacy
                                THEN row[g] \in QuarantinedByMigration(g, order[g])
                                ELSE row[g] = Absent
              /\ \A g \in Legacy : \A h \in Legacy \ {g} :
                    row[g].jprompt = None \/ row[g].jprompt # row[h].jprompt
        /\ nextSeq = Cardinality(Legacy) + 1
        /\ runActive = TRUE
        /\ remote \in [Prompt -> {"none", "running"}]
        /\ \A p \in Prompt : remote[p] # "none" =>
                             p \in Legacy \/ (p = Alien /\ (Legacy # {} \/ Alien \in Supplied))
        /\ posts = [g \in Gen |-> 0]
        /\ run = 1
        /\ w = Idle
        /\ ui = NoRequest
        /\ faults = 0

-----------------------------------------------------------------------------
(* Building blocks.                                                         *)

Store(g, r) == row' = [row EXCEPT ![g] = r]

Go(label) == w' = [w EXCEPT !.pc = label]

\* Leave the cancellation or reconciliation of one item.
GoBack == w' = [w EXCEPT !.pc = w.back, !.ask = None, !.act = "none"]

WriteNext(act) == w' = [w EXCEPT !.pc = "writing", !.act = act]

\* What get_remote_prompt_status may answer now.
Answer(p) == {"unavailable", IF remote[p] \in {"none", "gone"} THEN "missing" ELSE remote[p]}

\* cancel_prompt: ask ComfyUI to delete or interrupt p, then observe it.
Stopped(p) == CASE remote[p] = "pending" -> {"gone"}
                [] remote[p] = "running" -> {"interrupted", "gone"}
                [] OTHER                 -> {}

Outcome(state, accepted) ==
    CASE state = "interrupted"            -> "CANCELLED"
      [] state = "done"                   -> "COMPLETED"
      [] state = "failed"                 -> "FAILED"
      [] state \in {"pending", "running"} -> "IN_PROGRESS"
      [] OTHER                            -> IF accepted THEN "CANCELLED" ELSE "NOT_FOUND"

CancelPrompt(p, outcome) ==
    \E accepted \in BOOLEAN, after \in Stopped(p) \union {remote[p]} :
        /\ after # remote[p] => accepted
        /\ accepted => Stopped(p) # {}
        /\ remote' = [remote EXCEPT ![p] = after]
        /\ outcome \in {Outcome(after, accepted), "UNAVAILABLE"}

-----------------------------------------------------------------------------
(* Enqueueing: one generation, or a batch in one transaction.               *)

PendingCount == Cardinality({g \in Gen : Exists(row[g]) /\ row[g].gen = "pending"})

Batches == {order \in UNION {[1..n -> Gen] : n \in 1..Cardinality(Gen)} :
              \A i, j \in DOMAIN order : order[i] = order[j] => i = j}

Members(order) == {order[i] : i \in DOMAIN order}

Enqueue(order) ==
    /\ \A g \in Members(order) : row[g] = Absent
    /\ Members(order) \intersect Interactive # {} => Members(order) = Interactive
    /\ PendingCount + Len(order) <= PendingLimit
    /\ row' = [g \in Gen |->
                 IF g \in Members(order)
                 THEN [Absent EXCEPT
                        !.seq = nextSeq - 1 + (CHOOSE i \in DOMAIN order : order[i] = g)]
                 ELSE row[g]]
    /\ nextSeq' = nextSeq + Len(order)
    /\ UNCHANGED <<runActive, comfyui, run, w, ui, faults>>

-----------------------------------------------------------------------------
(* The worker: reconcile().                                                 *)

\* The loop reconciles when the poll interval has passed, else goes on to claim.
WSkipReconcile == /\ w.pc = "top"
                  /\ Go("claiming")
                  /\ UNCHANGED <<database, comfyui, run, ui, faults>>

WReconcileExpired ==
    /\ w.pc \in {"start", "top"}
    /\ row' = [g \in Gen |-> IF Expired(row[g]) THEN ReconcileExpired(row[g]) ELSE row[g]]
    /\ Go("listing")
    /\ UNCHANGED <<nextSeq, runActive, comfyui, run, ui, faults>>

WrongVisitsByPrompt(g) ==
    LET r == row[g] IN
    IF Over(r) \/ PromptOf(r) = None THEN {}
    ELSE {[g |-> g, kind |-> "prompt", prompt |-> PromptOf(r)]}

\* The kind of visit a listed row gets; a row that needs none is not an item.
Visits(g) ==
    LET r == row[g] IN
    IF ~Exists(r) \/ Over(r) THEN {}
    ELSE IF r.cancel THEN {[g |-> g, kind |-> "cancel", prompt |-> None]}
    ELSE IF Mismatch(r) THEN {[g |-> g, kind |-> "mismatch", prompt |-> None]}
    ELSE IF PromptOf(r) = None THEN {}
    ELSE {[g |-> g, kind |-> "prompt", prompt |-> PromptOf(r)]}

WList == /\ w.pc = "listing"
         /\ w' = [w EXCEPT !.pc = "scanning", !.back = "scanning",
                           !.todo = UNION {Visits(g) : g \in Gen}]
         /\ UNCHANGED <<database, comfyui, run, ui, faults>>

\* Items are visited in queue order, with what was read when they were listed.
WVisit(item) ==
    /\ w.pc = "scanning"
    /\ item \in w.todo
    /\ \A other \in w.todo : row[item.g].seq <= row[other.g].seq
    /\ w' = [w EXCEPT !.g    = item.g,
                      !.todo = w.todo \ {item},
                      !.pc   = CASE item.kind = "cancel"   -> "cancelling"
                                 [] item.kind = "mismatch" -> "writing"
                                 [] item.kind = "prompt"   -> "looking",
                      !.act  = item.kind,
                      !.ask  = item.prompt]
    /\ UNCHANGED <<database, comfyui, run, ui, faults>>

WScanned == /\ w.pc = "scanning" /\ w.todo = {}
            /\ w' = [w EXCEPT !.pc = "claiming", !.g = None]
            /\ UNCHANGED <<database, comfyui, run, ui, faults>>

-----------------------------------------------------------------------------
(* The worker: _cancel_item and _reconcile_item, during a reconcile pass or *)
(* after the execution of the claimed item was cancelled.                   *)

WCancelRead ==
    LET r == row[w.g] IN
    /\ w.pc = "cancelling"
    /\ CASE Mismatch(r)        -> WriteNext("mismatch")
         [] PromptOf(r) # None -> w' = [w EXCEPT !.pc = "stopping", !.ask = PromptOf(r)]
         [] OTHER              -> IF r.sub = "ready" THEN WriteNext("cancelled") ELSE GoBack
    /\ UNCHANGED <<database, comfyui, run, ui, faults>>

\* Whether a missing prompt is past its grace period is left open.
WStopPrompt ==
    /\ w.pc = "stopping"
    /\ \E outcome \in {"CANCELLED", "COMPLETED", "FAILED", "IN_PROGRESS", "NOT_FOUND",
                       "UNAVAILABLE"} :
        /\ CancelPrompt(w.ask, outcome)
        /\ CASE outcome = "CANCELLED"               -> WriteNext("cancelled")
             [] outcome \in {"COMPLETED", "FAILED"} -> Go("looking")
             [] outcome = "NOT_FOUND"               -> WriteNext("missing") \/ GoBack
             [] OTHER                               -> GoBack
    /\ UNCHANGED <<database, posts, run, ui, faults>>

\* reconcile_prompt up to its write.  A finished prompt whose image cannot be
\* fetched or stored leaves the row as it is; an upscaled image of the wrong
\* dimensions fails it.
WLook ==
    /\ w.pc = "looking"
    /\ \E answer \in Answer(w.ask) :
         IF row[w.g].gen \in Terminal THEN GoBack
         ELSE CASE answer = "done"        -> WriteNext("complete") \/ WriteNext("fail") \/ GoBack
                [] answer = "failed"      -> WriteNext("fail")
                [] answer = "interrupted" -> WriteNext("cancelled")
                [] answer = "missing"     -> \/ w.act = "prompt" /\ WriteNext("missing")
                                             \/ GoBack
                [] OTHER                  -> GoBack
    /\ UNCHANGED <<database, comfyui, run, ui, faults>>

WWrite ==
    LET r == row[w.g] IN
    /\ w.pc = "writing"
    /\ Store(w.g, CASE w.act = "cancelled" /\ CanMarkCancelled(r) -> MarkCancelled(r)
                    [] w.act = "complete"  /\ CanComplete(r)      -> Complete(r)
                    [] w.act = "fail"      /\ CanFail(r)          -> Fail(r)
                    [] w.act = "missing"                          -> MarkMissing(r)
                    [] w.act = "mismatch"                         -> MarkMismatch(r)
                    [] OTHER                                      -> r)
    /\ GoBack
    /\ UNCHANGED <<nextSeq, runActive, comfyui, run, ui, faults>>

-----------------------------------------------------------------------------
(* The worker: run_once() and execute_persisted().  A claimed row has no     *)
(* cancel request, no prompt and is "ready", so run_once always executes it. *)

WrongNewestInLine(g) == /\ CanClaim(row[g])
                        /\ \A h \in Gen : CanClaim(row[h]) => row[g].seq >= row[h].seq

WrongOldestInLine(g) ==
    /\ CanClaim(row[g])
    /\ \A h \in Gen : Exists(row[h]) /\ row[h].gen = "pending" => row[g].seq <= row[h].seq

\* claim_next selects the claimable entry of the lowest sequence.
NextInLine(g) == /\ CanClaim(row[g])
                 /\ \A h \in Gen : CanClaim(row[h]) => row[g].seq <= row[h].seq

WClaim(g) ==
    /\ w.pc = "claiming"
    /\ NextInLine(g)
    /\ Store(g, Claim(row[g], run))
    /\ w' = [w EXCEPT !.pc = "claimed", !.g = g, !.back = "releasing"]
    /\ UNCHANGED <<nextSeq, runActive, comfyui, run, ui, faults>>

WNothingToClaim == /\ w.pc = "claiming"
                   /\ \A g \in Gen : ~CanClaim(row[g])
                   /\ Go("top")
                   /\ UNCHANGED <<database, comfyui, run, ui, faults>>

\* execute_persisted returns for a terminal row and raises for a row that is
\* not pending any more; neither writes.
WExecute ==
    LET r == row[w.g] IN
    /\ w.pc = "claimed"
    /\ IF r.gen = "pending" /\ r.job = "pending" /\ NoPrompts(r)
       THEN Go("prepared") ELSE Go("releasing")
    /\ UNCHANGED <<database, comfyui, run, ui, faults>>

\* Capabilities, validation, source image or workflow building fail.
WPrepareFails == /\ w.pc = "prepared"
                 /\ Go("failing")
                 /\ UNCHANGED <<database, comfyui, run, ui, faults>>

WCheckCancel ==
    /\ w.pc = "prepared"
    /\ IF row[w.g].cancel THEN WriteNext("cancelled") ELSE Go("beginning")
    /\ UNCHANGED <<database, comfyui, run, ui, faults>>

\* A refused begin_submission is a failure of the execution like any other.
WBegin ==
    /\ w.pc = "beginning"
    /\ IF CanBegin(row[w.g], run)
       THEN Store(w.g, BeginSubmission(row[w.g])) /\ Go("posting")
       ELSE UNCHANGED row /\ Go("failing")
    /\ UNCHANGED <<nextSeq, runActive, comfyui, run, ui, faults>>

\* POST /prompt.  ComfyUI accepts it and the worker may or may not hear of it,
\* or ComfyUI does not queue it (node errors, connection failure, time-out).
WPost ==
    /\ w.pc = "posting"
    /\ posts' = [posts EXCEPT ![w.g] = @ + 1]
    /\ \/ remote' = [remote EXCEPT ![w.g] = "pending"] /\ Go("accepted")
       \/ remote' = [remote EXCEPT ![w.g] = "pending"] /\ Go("quarantine")
       \/ UNCHANGED remote /\ Go("quarantine")
    /\ UNCHANGED <<database, run, ui, faults>>

WMarkSubmitted ==
    /\ w.pc = "accepted"
    /\ IF CanMarkSubmitted(row[w.g], run) /\ PromptFree(row, w.g, w.g)
       THEN Store(w.g, MarkSubmitted(row[w.g], w.g)) /\ Go("watching")
       ELSE UNCHANGED row /\ Go("quarantine")
    /\ UNCHANGED <<nextSeq, runActive, comfyui, run, ui, faults>>

\* If even the quarantine cannot be written the worker stops, keeping its claim.
Halt == w' = [w EXCEPT !.pc = "callback", !.then = "halted"]

WQuarantine ==
    LET r == row[w.g] IN
    /\ w.pc = "quarantine"
    /\ IF r.worker # run
       THEN UNCHANGED row /\ Halt
       ELSE /\ Store(w.g, IF CanQuarantine(r, run) THEN Quarantine(r) ELSE r)
            /\ Go("releasing")
    /\ UNCHANGED <<nextSeq, runActive, comfyui, run, ui, faults>>

\* A WebSocket event: the cancel request is looked at before the progress is
\* persisted; a refused progress update is only logged.
WProgress ==
    /\ w.pc = "watching"
    /\ remote[w.g] = "running"
    /\ ~row[w.g].cancel
    /\ CanProgress(row[w.g])
    /\ Store(w.g, Progress(row[w.g]))
    /\ UNCHANGED <<nextSeq, runActive, comfyui, run, w, ui, faults>>

WSeesCancel ==
    /\ w.pc \in {"watching", "storing"}
    /\ row[w.g].cancel
    /\ Go("cancelling")
    /\ UNCHANGED <<database, comfyui, run, ui, faults>>

\* The WebSocket ended and no cancel request was seen: poll the history until
\* it shows a result, or the attempts run out.  Waiting for an interrupted
\* prompt runs out too.  The generation timeout may strike at any point.
WHistory ==
    /\ w.pc = "watching"
    /\ \/ remote[w.g] = "done" /\ Go("storing")
       \/ Go("failing")
    /\ UNCHANGED <<database, comfyui, run, ui, faults>>

\* Fetch and store the output images, unless a cancel request is seen first.
WStoreImages ==
    /\ w.pc = "storing"
    /\ ~row[w.g].cancel
    /\ Go("completing") \/ Go("failing")
    /\ UNCHANGED <<database, comfyui, run, ui, faults>>

WComplete ==
    /\ w.pc = "completing"
    /\ IF CanComplete(row[w.g])
       THEN Store(w.g, Complete(row[w.g])) /\ Go("releasing")
       ELSE UNCHANGED row /\ Go("failing")
    /\ UNCHANGED <<nextSeq, runActive, comfyui, run, ui, faults>>

\* _persist_failure; what it raises on a terminal row is logged by run_once.
WFail ==
    /\ w.pc = "failing"
    /\ Store(w.g, IF CanFail(row[w.g]) THEN Fail(row[w.g]) ELSE row[w.g])
    /\ Go("releasing")
    /\ UNCHANGED <<nextSeq, runActive, comfyui, run, ui, faults>>

WRelease ==
    /\ w.pc = "releasing"
    /\ Store(w.g, Release(row[w.g], run))
    /\ Go("callback")
    /\ UNCHANGED <<nextSeq, runActive, comfyui, run, ui, faults>>

\* state_changed_callback: the interactive run notices a failed generation and
\* drops the others.  It runs on the worker thread, so nothing is being claimed.
Remaining == {h \in Interactive : row[h].gen \notin {"completed", "failed"}}
RunFailed == runActive /\ \E g \in Interactive : row[g].gen = "failed"

WrongDropUnstartedOnly(r) == IF CanMarkCancelled(r) /\ Unstarted(r) THEN MarkCancelled(r) ELSE r

Drop(r) == IF r.gen \in Terminal \/ ~Exists(r) THEN r
           ELSE IF Unstarted(r) THEN (IF CanMarkCancelled(r) THEN MarkCancelled(r) ELSE r)
           ELSE RequestCancel(r)

WCallback ==
    /\ w.pc = "callback"
    /\ IF RunFailed
       THEN /\ row' = [h \in Gen |-> IF h \in Remaining THEN Drop(row[h]) ELSE row[h]]
            /\ runActive' = FALSE
       ELSE UNCHANGED <<row, runActive>>
    /\ w' = [w EXCEPT !.pc = w.then, !.g = None]
    /\ UNCHANGED <<nextSeq, comfyui, run, ui, faults>>

\* The heartbeat task, while run_once holds the item.
InHand == \/ w.pc \in Held
          \/ w.back = "releasing" /\ w.pc \in {"cancelling", "stopping", "looking", "writing"}

WHeartbeat ==
    /\ InHand
    /\ CanRenew(row[w.g], run)
    /\ row[w.g].lease = "expired"
    /\ Store(w.g, Renew(row[w.g]))
    /\ UNCHANGED <<nextSeq, runActive, comfyui, run, w, ui, faults>>

-----------------------------------------------------------------------------
(* A worker transaction fails (disk, lock): nothing is written, and the      *)
(* exception takes the worker where its handlers lead.                       *)

Fault(from, to) ==
    /\ w.pc \in from
    /\ w' = [w EXCEPT !.pc = to]

WTransactionFails ==
    /\ faults < MaxFaults
    /\ faults' = faults + 1
    /\ \/ Fault({"start", "top", "listing"}, "claiming")
       \/ Fault({"claiming"}, "top")
       \/ Fault({"claimed", "releasing"}, IF w.pc = "claimed" THEN "releasing" ELSE "callback")
       \/ Fault({"prepared", "beginning", "watching", "storing", "completing"}, "failing")
       \/ Fault({"accepted"}, "quarantine")
       \/ w.pc = "quarantine" /\ Halt
       \/ Fault({"failing"}, "releasing")
       \* In a reconcile pass: the next item; a failed quarantine or
       \* grace-period failure outside a cancellation ends the pass.
       \/ /\ w.back = "scanning"
          /\ w.pc \in {"cancelling", "looking", "writing"}
          /\ \/ GoBack
             \/ /\ w.act \in {"missing", "mismatch"}
                /\ w' = [w EXCEPT !.pc = "scanning", !.ask = None, !.act = "none", !.todo = {}]
       \* In run_once: no handler catches it, the claim is released and the
       \* thread ends; reconcile_prompt alone handles its own errors.
       \/ /\ w.back = "releasing"
          /\ w.pc \in {"cancelling", "writing"}
          /\ w' = [w EXCEPT !.pc = "releasing", !.ask = None, !.act = "none",
                            !.then = IF w.act \in {"complete", "fail"} THEN "top" ELSE "dead"]
       \/ w.back = "releasing" /\ w.pc = "looking" /\ GoBack
    /\ UNCHANGED <<database, comfyui, run, ui>>

WorkerStep ==
    \/ WSkipReconcile \/ WReconcileExpired \/ WList \/ WScanned
    \/ \E item \in w.todo : WVisit(item)
    \/ WCancelRead \/ WStopPrompt \/ WLook \/ WWrite
    \/ \E g \in Gen : WClaim(g)
    \/ WNothingToClaim \/ WExecute \/ WPrepareFails \/ WCheckCancel \/ WBegin
    \/ WPost \/ WMarkSubmitted \/ WQuarantine
    \/ WProgress \/ WSeesCancel \/ WHistory \/ WStoreImages
    \/ WComplete \/ WFail \/ WRelease \/ WCallback

-----------------------------------------------------------------------------
(* The UI threads.  One cancellation call is in progress at a time: either  *)
(* the user's cancel(), or the poll of a failed interactive run, which      *)
(* calls cancel_pending() for each remaining generation.                    *)

UiCancel(g) ==
    LET r == row[g]
        asked == IF CanRequestCancel(r) THEN RequestCancel(r) ELSE r
    IN  /\ ui.pc = "idle"
        /\ Exists(r)
        /\ Store(g, asked)
        /\ ui' = IF r.gen \in Terminal \/ Mismatch(r) THEN NoRequest
                 ELSE IF Unstarted(asked) THEN [NoRequest EXCEPT !.pc = "marking", !.g = g]
                 ELSE IF PromptOf(r) = None THEN NoRequest
                 ELSE [NoRequest EXCEPT !.pc = "asking", !.g = g, !.ask = PromptOf(r)]
        /\ UNCHANGED <<nextSeq, runActive, comfyui, run, w, faults>>

UiStopPrompt ==
    /\ ui.pc = "asking"
    /\ \E outcome \in {"CANCELLED", "COMPLETED", "FAILED", "IN_PROGRESS", "NOT_FOUND",
                       "UNAVAILABLE"} :
        /\ CancelPrompt(ui.ask, outcome)
        /\ ui' = IF outcome = "CANCELLED" THEN [ui EXCEPT !.pc = "marking", !.ask = None]
                ELSE NoRequest
    /\ UNCHANGED <<database, posts, run, w, faults>>

UiMark ==
    /\ ui.pc = "marking"
    /\ Store(ui.g, IF CanMarkCancelled(row[ui.g]) THEN MarkCancelled(row[ui.g]) ELSE row[ui.g])
    /\ ui' = NoRequest
    /\ UNCHANGED <<nextSeq, runActive, comfyui, run, w, faults>>

\* A poll of the run's state sees a failed generation.
UiPoll ==
    /\ ui.pc = "idle"
    /\ RunFailed
    /\ ui' = [NoRequest EXCEPT !.pc = "polling", !.left = Remaining]
    /\ UNCHANGED <<database, comfyui, run, w, faults>>

\* cancel_pending's read: what it does next depends on this snapshot only.
UiDropRead(h) ==
    LET r == row[h] IN
    /\ ui.pc = "polling"
    /\ h \in ui.left
    /\ IF r.gen \notin Terminal /\ Unstarted(r)
       THEN ui' = [ui EXCEPT !.pc = "dropping", !.g = h, !.left = ui.left \ {h}]
       ELSE ui' = [ui EXCEPT !.pc = "requesting", !.g = h, !.left = ui.left \ {h}]
    /\ UNCHANGED <<database, comfyui, run, w, faults>>

UiDrop ==
    LET r == row[ui.g] IN
    /\ ui.pc \in {"dropping", "requesting"}
    /\ Store(ui.g, CASE ui.pc = "dropping" /\ CanMarkCancelled(r)   -> MarkCancelled(r)
                     [] ui.pc = "requesting" /\ CanRequestCancel(r) -> RequestCancel(r)
                     [] OTHER                                       -> r)
    /\ ui' = [ui EXCEPT !.pc = "polling", !.g = None]
    /\ UNCHANGED <<nextSeq, runActive, comfyui, run, w, faults>>

\* The run becomes FAILED.
UiPolled ==
    /\ ui.pc = "polling" /\ ui.left = {}
    /\ runActive' = FALSE
    /\ ui' = NoRequest
    /\ UNCHANGED <<row, nextSeq, comfyui, run, w, faults>>

\* The operator's two resolutions are single BEGIN IMMEDIATE transactions.
LinkAmbiguous(g, p) ==
    /\ CanResolve(row[g])
    /\ PromptFree(row, g, p)
    /\ Store(g, LinkPrompt(row[g], p))
    /\ UNCHANGED <<nextSeq, runActive, comfyui, run, w, ui, faults>>

ResolveAsFailed(g) ==
    /\ CanResolve(row[g])
    /\ Store(g, FailAmbiguous(row[g]))
    /\ UNCHANGED <<nextSeq, runActive, comfyui, run, w, ui, faults>>

Callers == \/ \E order \in Batches : Enqueue(order)
           \/ \E g \in Gen : UiCancel(g)
           \/ UiStopPrompt \/ UiMark \/ UiPoll \/ UiDrop \/ UiPolled
           \/ \E h \in ui.left : UiDropRead(h)
           \/ \E g \in Gen : ResolveAsFailed(g)
           \/ \E g \in Gen, p \in Supplied : LinkAmbiguous(g, p)

-----------------------------------------------------------------------------
(* ComfyUI, time and the process.                                           *)

\* A queued prompt starts, or somebody else deletes it; a running one ends, or
\* somebody else interrupts it.
RemoteMoves(p) ==
    /\ \/ /\ remote[p] = "pending"
          /\ \E s \in {"running", "gone"} : remote' = [remote EXCEPT ![p] = s]
       \/ /\ remote[p] = "running"
          /\ \E s \in {"done", "failed", "interrupted"} : remote' = [remote EXCEPT ![p] = s]
    /\ UNCHANGED <<database, posts, run, w, ui, faults>>

\* ComfyUI keeps its queue and its history in memory.
RemoteRestarts ==
    /\ faults < MaxFaults
    /\ faults' = faults + 1
    /\ remote' = [p \in Prompt |-> IF remote[p] = "none" THEN "none" ELSE "gone"]
    /\ UNCHANGED <<database, posts, run, w, ui>>

LeaseExpires(g) ==
    /\ row[g].lease = "live"
    /\ Store(g, [row[g] EXCEPT !.lease = "expired"])
    /\ UNCHANGED <<nextSeq, runActive, comfyui, run, w, ui, faults>>

\* The process stops anywhere and a new one starts on the same database, with
\* a new worker id.  Nothing else survives.
Restart ==
    /\ run < MaxRuns
    /\ run' = run + 1
    /\ w' = Idle
    /\ ui' = NoRequest
    /\ UNCHANGED <<database, comfyui, faults>>

World == \/ \E p \in Prompt : RemoteMoves(p)
         \/ \E g \in Gen : LeaseExpires(g)
         \/ RemoteRestarts

Steps == WorkerStep \/ WHeartbeat \/ WTransactionFails \/ Callers \/ World

Next == Steps \/ Restart

Spec == Init /\ [][Next]_vars

\* The worker thread keeps running and its poll interval keeps elapsing, and
\* time passes for leases.  Nothing is assumed of users or of ComfyUI.
Fairness == /\ WF_vars(WorkerStep)
            /\ SF_vars(WReconcileExpired)
            /\ \A g \in Gen : WF_vars(LeaseExpires(g))

\* ComfyUI does not stay unreachable, or unwilling to stop a prompt or to hand
\* out a result, for ever; grace periods end.
ComfyUIAnswers == /\ SF_vars(WStopPrompt /\ w'.pc # w.back)
                  /\ SF_vars(WLook /\ w'.pc = "writing")

FairSpec == Spec /\ Fairness
-----------------------------------------------------------------------------
(* Properties.                                                              *)

\* POST /prompt is sent at most once for a generation, whatever crashes,
\* failed transactions, lost answers and cancellations happen around it
\* (begin_submission, reconcile_expired_claims, quarantine).
AtMostOnePost == \A g \in Gen : posts[g] <= 1

\* FIFO: when a request is sent, no earlier row was left behind free and ready.
PostInOrder ==
    [][\A g, h \in Gen :
         posts'[g] > posts[g] /\ row[h].seq < row[g].seq =>
             ~(CanClaim(row[h]) /\ row[h].lease = "none")]_vars

\* An unfinished row that a worker claimed, or was submitting, and that the
\* running worker does not have in hand, still has a lease: its expiry is what
\* brings the row back to reconcile_expired_claims after a crash.
ClaimsAreRecoverable ==
    \A g \in Gen :
        LET r == row[g] IN
        /\ r.worker # 0 \/ r.sub = "submitting"
        /\ ~Over(r)
        /\ ~(InHand /\ w.g = g)
        => r.lease # "none"

\* The prompt ComfyUI would be running for a row: the recorded one, or the one
\* the generation's own request created.
WorkOf(g) == IF PromptOf(row[g]) = None THEN g ELSE PromptOf(row[g])

\* A cancelled generation is not waiting or running in ComfyUI.
CancelledMeansStopped ==
    \A g \in Gen : row[g].gen = "cancelled" => remote[WorkOf(g)] \notin {"pending", "running"}

\* A terminal status is final, except that the operator may requeue a row that
\* a migration marked failed.
TerminalIsFinal ==
    [][\A g \in Gen : row[g].gen \in Terminal =>
          \/ row'[g].gen = row[g].gen
          \/ row[g].audit = "migration" /\ row[g].gen = "failed"]_vars

\* An unfinished submission in doubt carries the audit code without which the
\* operator's two resolutions are refused.
AmbiguousIsResolvable ==
    \A g \in Gen : row[g].sub = "ambiguous" /\ ~Over(row[g]) => CanResolve(row[g])

\* A row that a migration quarantined is never sent by this application.
LegacyIsNeverSent == \A g \in Legacy : posts[g] = 0

\* A failed generation is not still waiting or running in ComfyUI, unless the
\* operator declared its prompt absent.
FailedMeansStopped ==
    \A g \in Gen : row[g].gen = "failed" /\ row[g].sub = "submitted" =>
                      remote[WorkOf(g)] \notin {"pending", "running"}

\* A generation whose prompt ComfyUI reports as interrupted does not end failed.
InterruptedIsNotFailed ==
    \A g \in Gen : row[g].gen = "failed" /\ row[g].sub = "submitted" =>
                      remote[WorkOf(g)] # "interrupted"

\* Once an interactive run has failed, none of its generations is left to run
\* unasked: each is finished or has been asked to stop.
FailedRunStops ==
    ~runActive => \A g \in Interactive : row[g].gen \in Terminal \/ row[g].cancel

\* Every enqueued generation is eventually sent, finished or put in doubt; it
\* does not wait behind other rows, or for a dead claim, for ever.
EveryRowIsServed ==
    \A g \in Gen : Exists(row[g]) ~> (row[g].sub # "ready" \/ Over(row[g]))

\* A cancel request is eventually answered by a terminal status, unless the
\* submission is in doubt and waits for the operator.
CancelIsAnswered ==
    \A g \in Gen : row[g].cancel ~> (Over(row[g]) \/ row[g].sub = "ambiguous")

\* The refinement mapping to SubmitOnce.
Phase(sub) == CASE sub = "ready"      -> "waiting"
                [] sub = "submitting" -> "sending"
                [] sub = "submitted"  -> "sent"
                [] sub = "ambiguous"  -> "doubt"

Promise == INSTANCE SubmitOnce WITH
    state <- [g \in Gen |-> Phase(row[g].sub)],
    sends <- posts

\* The queue keeps the promise of SubmitOnce.
KeepsPromise == Promise!Spec
=============================================================================

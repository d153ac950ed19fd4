--------------------------- MODULE InteractiveRun ---------------------------
(***************************************************************************)
(* The interactive session: InteractiveGenerationService and its           *)
(* repository.  A run queues Batch generations at once; nobody is told     *)
(* when one of them ends, every reader recomputes the run's progress from  *)
(* the queue and saves what it computed, whatever the row has become       *)
(* since.  The readers are the user's browser, one handler at a time, and  *)
(* the worker's callback.                                                  *)
(*                                                                         *)
(* The queue is the one DispatchQueue describes, reduced to what a reader  *)
(* of it sees: statuses, served in order by one worker.                    *)
(***************************************************************************)
EXTENDS Integers, FiniteSets, Sequences, SequencesExt

CONSTANTS Batch,       \* generations of a run
          MaxStarted,  \* bound: runs started
          MaxDirect,   \* bound: requests queued on their own
          MaxRuns,     \* bound: processes started
          MaxFaults    \* bound: failed reads, transactions and requests

ASSUME InteractiveAssumption ==
    /\ Batch \in Nat \ {0} /\ MaxStarted \in Nat /\ MaxDirect \in Nat
    /\ MaxRuns \in Nat /\ MaxFaults \in Nat

VARIABLES
  rows,     \* interactive_generation_runs, oldest first
  gens,     \* the generations of each run
  actor,    \* the readers, and what each knows
  direct,   \* the handler that queues on its own: of the generate tab, or another
  queued,   \* history: requests queued on their own
  served,   \* how many of them have ended
  run, faults

vars == <<rows, gens, actor, direct, queued, served, run, faults>>

queue == <<gens, direct, queued, served>>
counts == <<run, faults>>

Member == 1 .. Batch

-----------------------------------------------------------------------------
(* Runs and generations.                                                    *)

Ended == {"completed", "failed", "cancelled"}

Running == {"active", "cancelling"}

Generation == [status : Ended \union {"pending", "running"}, cancel : BOOLEAN]

RunRow == [status : Running \union Ended, completed : SUBSET Member, current : 0 .. Batch]

\* create_active_with_batch
NewRun == [status |-> "active", completed |-> {}, current |-> 1]

ActiveRuns == {r \in DOMAIN rows : rows[r].status \in Running}

\* get_active, else get_latest_completed: the row restore() reads, 0 for none.
RestoredRun ==
    LET done == {r \in DOMAIN rows : rows[r].status = "completed"}
        from == IF ActiveRuns # {} THEN ActiveRuns ELSE done
    IN IF from = {} THEN 0 ELSE CHOOSE r \in from : \A s \in from : s <= r

\* is_current_run: the poll of a browser that shows an older run changes nothing.
CurrentRuns == IF ActiveRuns # {} THEN ActiveRuns ELSE {Len(rows)} \ {0}

-----------------------------------------------------------------------------
(* What a reader computes from what it saw.                                 *)

\* A status is "missing" when the queue could not be read.
Having(p, statuses) == {k \in DOMAIN p.seen : p.seen[k] \in statuses}

WrongAllEnded(p) == Having(p, {"pending", "running"}) = {}

AllEnded(p) == Cardinality(Having(p, Ended)) = Batch

Failed(p) == Having(p, {"failed"}) # {}

\* Once cancelled, the run is left to the cancel handler.
WrongVerdict(p) ==
    IF ~AllEnded(p) \/ p.row.status # "active" THEN "none"
    ELSE IF Having(p, {"cancelled"}) # {} THEN "cancelled" ELSE "completed"

\* The verdict of a run none of whose generations failed; "none" to leave it.
Verdict(p) ==
    IF ~AllEnded(p) \/ p.row.status \in Ended THEN "none"
    ELSE IF p.row.status = "cancelling" \/ Having(p, {"cancelled"}) # {} THEN "cancelled"
    ELSE "completed"

\* One past the last generation when all have ended.
Current(p) ==
    LET open == Having(p, {"pending", "running"})
    IN IF open = {} THEN 0 ELSE CHOOSE k \in open : \A j \in open : k <= j

\* A run that has ended is not written again.
WrongChanged(p) ==
    /\ p.row.status \notin Ended
    /\ \/ Having(p, {"completed"}) # p.row.completed
       \/ Current(p) # p.row.current \/ Verdict(p) # "none"

Changed(p) == \/ Having(p, {"completed"}) # p.row.completed
              \/ Current(p) # p.row.current
              \/ Verdict(p) # "none"

\* What a failed run drops: everything else that did not complete.
Remaining(p) ==
    LET failed == Having(p, {"failed"})
    IN Member \ (Having(p, {"completed"}) \union {CHOOSE k \in failed : \A j \in failed : k <= j})

\* update_progress: no status is expected of the row.
Progress(row, p, status, current) ==
    [row EXCEPT !.status = IF status = "none" THEN @ ELSE status,
                !.completed = Having(p, {"completed"}), !.current = current]

-----------------------------------------------------------------------------
(* The readers.                                                             *)

Reader == {"browser", "worker"}

Idle == [pc |-> "idle", r |-> 0, row |-> NewRun, seen |-> <<>>, left |-> {}]

Fault == faults < MaxFaults /\ faults' = faults + 1

Reading(r) == [Idle EXCEPT !.pc = "look", !.r = r, !.row = rows[r]]

Load(a, r) ==
    /\ actor[a].pc = "idle"
    /\ actor' = [actor EXCEPT ![a] = Reading(r)]
    /\ UNCHANGED <<rows, queue, counts>>

\* A poll with the run's identifier, or a page load without one.
Poll == \E r \in CurrentRuns \union ({RestoredRun} \ {0}) : Load("browser", r)

\* The refresh of the custom sizes asks for the run it was given, current or not.
RefreshSizes == \E r \in DOMAIN rows : Load("browser", r)

\* Each generation is looked up on its own.
Look(a) ==
    LET p == actor[a] IN
    /\ p.pc = "look" /\ Len(p.seen) < Batch
    /\ \/ /\ actor' = [actor EXCEPT ![a].seen = Append(@, gens[p.r][Len(p.seen) + 1].status)]
          /\ UNCHANGED faults
       \/ Fault /\ actor' = [actor EXCEPT ![a].seen = Append(@, "missing")]
    /\ UNCHANGED <<rows, queue, run>>

Seen(a) == actor[a].pc = "look" /\ Len(actor[a].seen) = Batch

\* Nothing to save, or a failed run that is known to be one.
Leave(a) ==
    /\ Seen(a)
    /\ IF Failed(actor[a]) THEN actor[a].row.status = "failed" ELSE ~Changed(actor[a])
    /\ actor' = [actor EXCEPT ![a] = Idle]
    /\ UNCHANGED <<rows, queue, counts>>

WriteProgress(a) ==
    LET p == actor[a] IN
    /\ Seen(a) /\ ~Failed(p) /\ Changed(p)
    /\ \/ rows' = [rows EXCEPT ![p.r] = Progress(@, p, Verdict(p), Current(p))] /\ UNCHANGED faults
       \/ Fault /\ UNCHANGED rows
    /\ actor' = [actor EXCEPT ![a] = Idle]
    /\ UNCHANGED <<queue, run>>

SeesFailure(a) ==
    /\ Seen(a) /\ Failed(actor[a]) /\ actor[a].row.status # "failed"
    /\ actor' = [actor EXCEPT ![a].pc = "drop", ![a].left = Remaining(actor[a])]
    /\ UNCHANGED <<rows, queue, counts>>

\* cancel_pending: an unstarted generation ends, a started one is asked to stop.
Dropped(g) == IF g.status = "pending" THEN [g EXCEPT !.status = "cancelled"]
              ELSE IF g.status = "running" THEN [g EXCEPT !.cancel = TRUE] ELSE g

DropOne(a) ==
    LET p == actor[a]
        k == CHOOSE j \in p.left : \A i \in p.left : j <= i
    IN
    /\ p.pc = "drop" /\ p.left # {}
    /\ \/ gens' = [gens EXCEPT ![p.r][k] = Dropped(@)] /\ UNCHANGED faults
       \/ Fault /\ UNCHANGED gens
    /\ actor' = [actor EXCEPT ![a].left = @ \ {k}]
    /\ UNCHANGED <<rows, direct, queued, served, run>>

\* The run fails, and is read once more.
WriteFailed(a) ==
    LET p == actor[a] IN
    /\ p.pc = "drop" /\ p.left = {}
    /\ \/ /\ rows' = [rows EXCEPT ![p.r] = Progress(@, p, "failed", 0)]
          /\ actor' = [actor EXCEPT ![a] = [Idle EXCEPT !.pc = "look", !.r = p.r, !.row = rows'[p.r]]]
          /\ UNCHANGED faults
       \/ Fault /\ actor' = [actor EXCEPT ![a] = Idle] /\ UNCHANGED rows
    /\ UNCHANGED <<queue, run>>

-----------------------------------------------------------------------------
(* The browser's other handlers.                                            *)

\* The admission lock: start() and a generation queued on its own hold it.
WrongAdmission == TRUE

Admission == direct = "idle"

\* The unique index on active runs refuses a second one.
Start ==
    /\ actor["browser"].pc = "idle" /\ Admission
    /\ Len(rows) < MaxStarted /\ ActiveRuns = {}
    /\ rows' = Append(rows, NewRun)
    /\ gens' = Append(gens, [k \in Member |-> [status |-> "pending", cancel |-> FALSE]])
    /\ actor' = [actor EXCEPT !["browser"] = [Idle EXCEPT !.pc = "look", !.r = Len(rows) + 1]]
    /\ UNCHANGED <<direct, queued, served, counts>>

\* request_cancel changes an active run only; the generations are visited all the same.
RequestCancel(r) ==
    /\ actor["browser"].pc = "idle"
    /\ rows' = [rows EXCEPT ![r].status = IF @ = "active" THEN "cancelling" ELSE @]
    /\ actor' = [actor EXCEPT !["browser"] = [Idle EXCEPT !.pc = "cancel", !.r = r, !.left = Member]]
    /\ UNCHANGED <<queue, counts>>

\* queue_service.cancel: a started generation is asked to stop, and may stop at once.
CancelOne ==
    LET p == actor["browser"]
        k == CHOOSE j \in p.left : \A i \in p.left : j <= i
    IN
    /\ p.pc = "cancel" /\ p.left # {}
    /\ \/ /\ \E stops \in BOOLEAN :
                gens' = [gens EXCEPT ![p.r][k] =
                    IF stops /\ @.status = "running" THEN [@ EXCEPT !.status = "cancelled"]
                    ELSE Dropped(@)]
          /\ UNCHANGED faults
       \/ Fault /\ UNCHANGED gens
    /\ actor' = [actor EXCEPT !["browser"].left = @ \ {k}]
    /\ UNCHANGED <<rows, direct, queued, served, run>>

Cancelled ==
    /\ actor["browser"].pc = "cancel" /\ actor["browser"].left = {}
    /\ actor' = [actor EXCEPT !["browser"] = Reading(actor["browser"].r)]
    /\ UNCHANGED <<rows, queue, counts>>

\* A generate button: enqueue() with ensure_no_active_run as its admission check.
AdmitDirect ==
    /\ direct = "idle" /\ queued < MaxDirect /\ ActiveRuns = {}
    /\ direct' = "tab"
    /\ UNCHANGED <<rows, gens, actor, queued, served, counts>>

\* A batch, a retry of a job or of a batch's failed ones, and an upscale take the same
\* lock and ask for no run.
AdmitOther ==
    /\ direct = "idle" /\ queued < MaxDirect
    /\ direct' = "other"
    /\ UNCHANGED <<rows, gens, actor, queued, served, counts>>

EnqueueDirect ==
    /\ direct # "idle" /\ direct' = "idle"
    /\ queued' = queued + 1
    /\ UNCHANGED <<rows, gens, actor, served, counts>>

-----------------------------------------------------------------------------
(* The queue and its worker, and the process.                               *)

Open == {t \in (DOMAIN gens) \X Member : gens[t[1]][t[2]].status \notin Ended}

FirstOpen == CHOOSE t \in Open : \A u \in Open : t[1] < u[1] \/ (t[1] = u[1] /\ t[2] <= u[2])

Claim ==
    /\ actor["worker"].pc = "idle" /\ Open # {}
    /\ gens[FirstOpen[1]][FirstOpen[2]].status = "pending"
    /\ gens' = [gens EXCEPT ![FirstOpen[1]][FirstOpen[2]].status = "running"]
    /\ UNCHANGED <<rows, actor, direct, queued, served, counts>>

\* The generation ends and the callback follows: reconcile_after_queue_change.
Callback == IF ActiveRuns = {} THEN Idle ELSE Reading(CHOOSE s \in ActiveRuns : TRUE)

Finish ==
    /\ actor["worker"].pc = "idle" /\ Open # {}
    /\ gens[FirstOpen[1]][FirstOpen[2]].status = "running"
    /\ \E status \in Ended :
          /\ status = "cancelled" => gens[FirstOpen[1]][FirstOpen[2]].cancel
          /\ gens' = [gens EXCEPT ![FirstOpen[1]][FirstOpen[2]].status = status]
    /\ actor' = [actor EXCEPT !["worker"] = Callback]
    /\ UNCHANGED <<rows, direct, queued, served, counts>>

\* A request of its own ends, and the callback reads the run that is active by then.
FinishDirect ==
    /\ actor["worker"].pc = "idle" /\ served < queued
    /\ \A t \in Open : gens[t[1]][t[2]].status = "pending"
    /\ served' = served + 1
    /\ actor' = [actor EXCEPT !["worker"] = Callback]
    /\ UNCHANGED <<rows, gens, direct, queued, counts>>

Restart ==
    /\ run < MaxRuns /\ run' = run + 1
    /\ actor' = [a \in Reader |-> Idle] /\ direct' = "idle"
    /\ UNCHANGED <<rows, gens, queued, served, faults>>

Init ==
    /\ rows = <<>> /\ gens = <<>>
    /\ actor = [a \in Reader |-> Idle] /\ direct = "idle"
    /\ queued = 0 /\ served = 0
    /\ run = 1 /\ faults = 0

Read(a) == Look(a) \/ Leave(a) \/ WriteProgress(a) \/ SeesFailure(a) \/ DropOne(a) \/ WriteFailed(a)

Next ==
    \/ Poll \/ RefreshSizes \/ Start \/ CancelOne \/ Cancelled
    \/ \E r \in DOMAIN rows : RequestCancel(r)
    \/ \E a \in Reader : Read(a)
    \/ AdmitDirect \/ AdmitOther \/ EnqueueDirect
    \/ Claim \/ Finish \/ FinishDirect \/ Restart

Spec == Init /\ [][Next]_vars

\* The browser's timer polls, handlers and the worker go on.
Fairness ==
    /\ WF_vars(Poll) /\ WF_vars(Claim) /\ WF_vars(Finish)
    /\ WF_vars(CancelOne \/ Cancelled) /\ \A a \in Reader : WF_vars(Read(a))

FairSpec == Spec /\ Fairness

-----------------------------------------------------------------------------
(* Properties.                                                              *)

TypeOK ==
    /\ rows \in Seq(RunRow) /\ gens \in Seq([Member -> Generation])
    /\ DOMAIN rows = DOMAIN gens
    /\ \A a \in Reader : actor[a].left \subseteq Member /\ actor[a].r \in 0 .. Len(rows)

\* The verdict of a run is true of its generations, however old the reading it
\* was taken from.
VerdictIsTrue ==
    \A r \in DOMAIN rows :
        LET statuses == {gens[r][k].status : k \in Member}
        IN /\ rows[r].status = "completed" => statuses = {"completed"}
           /\ rows[r].status = "cancelled" => statuses \subseteq {"completed", "cancelled"}
           /\ rows[r].status = "failed"    => "failed" \in statuses

\* A request of a generate button is not queued into an active run: what it asked for
\* before it queued still holds when it does.
DirectWaits == [][direct = "tab" /\ queued' # queued => ActiveRuns = {}]_vars

\* A claim of ensure_no_active_run: while a run is active it owns the queue, and nothing
\* else is queued.
OwnsTheQueue == [][queued' # queued => ActiveRuns = {}]_vars

\* A run ends, whoever reads it and whatever is cancelled: its row does not stay active.
RunEnds == \A r \in 1 .. MaxStarted : (r \in ActiveRuns) ~> (r \notin ActiveRuns)

\* What the newest run's row says of its results is in the end what the queue says,
\* also when an old reading was saved last (a failed run is not read again).
ProgressSettles ==
    \A r \in 1 .. MaxStarted :
        <>[](r = Len(rows) /\ rows[r].status # "failed" =>
                rows[r].completed = {k \in Member : gens[r][k].status = "completed"})
=============================================================================

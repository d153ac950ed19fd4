----------------------------- MODULE QueueRows -----------------------------
(***************************************************************************)
(* The database row of one queued generation, and the repository           *)
(* operations on it.  A row joins the three tables that are always read    *)
(* together: generations, generation_jobs and generation_queue_entries.    *)
(*                                                                         *)
(* Every operation Op is a pair: CanOp, the guard under which it writes,   *)
(* and Op, the row it commits.  Outside its guard an operation changes     *)
(* nothing; whether it then returns the unchanged row or raises is decided *)
(* by the caller's module, where the difference matters.                   *)
(*                                                                         *)
(* An operator named Wrong... is a deliberately faulty variant of the one  *)
(* it precedes.  No specification uses it; it is substituted for the right *)
(* one to see that a property notices.                                     *)
(***************************************************************************)
EXTENDS Naturals

CONSTANTS Gen,    \* generations; g also names the prompt ComfyUI creates for g
          Alien,  \* a prompt identifier that no generation of Gen owns
          None    \* NULL

Prompt == Gen \union {Alien}

ASSUME PromptAssumption == Alien \notin Gen /\ None \notin Prompt

-----------------------------------------------------------------------------
(* The column domains.                                                      *)

Active   == {"pending", "queued", "running"}
Terminal == {"completed", "failed", "cancelled"}
Status   == Active \union Terminal

SubmissionState == {"ready", "submitting", "submitted", "ambiguous"}

\* lease_expires_at against the clock: NULL, in the future, or passed.
Lease == {"none", "live", "expired"}

\* error_code: none, the code of an ambiguous submission, a migration
\* quarantine code, or any other code.
Audit == {"none", "ambiguous", "migration", "other"}

Row == [seq     : Nat,               \* 0 while the generation does not exist
        gen     : Status,            \* generations.status
        job     : Status,            \* generation_jobs.status
        gprompt : Prompt \union {None},
        jprompt : Prompt \union {None},
        sub     : SubmissionState,
        worker  : Nat,               \* worker_id: the run that holds it, 0 if NULL
        lease   : Lease,
        cancel  : BOOLEAN,           \* cancel_requested_at IS NOT NULL
        audit   : Audit]

Absent == [seq |-> 0, gen |-> "pending", job |-> "pending",
           gprompt |-> None, jprompt |-> None, sub |-> "ready",
           worker |-> 0, lease |-> "none", cancel |-> FALSE, audit |-> "none"]

Exists(r) == r.seq > 0

\* domain.generation.is_valid_status_transition
ValidTransition(s, t) ==
    \/ s = t
    \/ s = "pending" /\ t \in {"queued", "completed", "failed", "cancelled"}
    \/ s = "queued"  /\ t \in {"running", "completed", "failed", "cancelled"}
    \/ s = "running" /\ t \in {"completed", "failed", "cancelled"}

Over(r) == r.gen \in Terminal \/ r.job \in Terminal

Mismatch(r) == r.gprompt # None /\ r.jprompt # None /\ r.gprompt # r.jprompt

\* The prompt a row can be reconciled or cancelled by.
PromptOf(r) == IF Mismatch(r) THEN None
               ELSE IF r.jprompt # None THEN r.jprompt ELSE r.gprompt

NoPrompts(r) == r.gprompt = None /\ r.jprompt = None

Unclaimed(r) == [r EXCEPT !.worker = 0, !.lease = "none"]

Both(r, status) == [r EXCEPT !.gen = status, !.job = status]

-----------------------------------------------------------------------------
(* Claiming and submitting: the worker's half.                              *)

CanClaim(r) == /\ Exists(r)
               /\ r.gen = "pending" /\ r.job = "pending"
               /\ ~r.cancel
               /\ r.sub = "ready"
               /\ NoPrompts(r)
               /\ r.lease # "live"

WrongClaimNoLease(r, w) == [r EXCEPT !.worker = w]

Claim(r, w) == [r EXCEPT !.worker = w, !.lease = "live"]

CanRenew(r, w) == r.worker = w
Renew(r) == [r EXCEPT !.lease = "live"]

\* release_claim returns silently when another worker, or none, holds the row.
Release(r, w) == IF r.worker = w THEN Unclaimed(r) ELSE r

CanBegin(r, w) == /\ r.worker = w
                  /\ r.sub = "ready"
                  /\ ~r.cancel
                  /\ r.gen = "pending" /\ r.job = "pending"

BeginSubmission(r) == [r EXCEPT !.sub = "submitting"]

\* The statuses are not looked at.  A worker that holds a row in "submitting"
\* is the one that began it, so the token it presents is the row's.
CanMarkSubmitted(r, w) == r.worker = w /\ r.sub = "submitting"

MarkSubmitted(r, p) ==
    [Both(r, "queued") EXCEPT !.gprompt = p, !.jprompt = p, !.sub = "submitted"]

CanQuarantine(r, w) == r.worker = w /\ r.sub # "submitted"

WrongQuarantineNoAudit(r) == [Unclaimed(r) EXCEPT !.sub = "ambiguous"]

Quarantine(r) == [Unclaimed(r) EXCEPT !.sub = "ambiguous", !.audit = "ambiguous"]

-----------------------------------------------------------------------------
(* Cancelling.                                                              *)

CanRequestCancel(r) == Exists(r) /\ r.gen \notin Terminal
RequestCancel(r) == [r EXCEPT !.cancel = TRUE]

WrongCanMarkCancelledAlways(r) == Exists(r)

CanMarkCancelled(r) == /\ Exists(r)
                       /\ r.gen \notin Terminal
                       /\ r.job \notin {"completed", "failed"}

MarkCancelled(r) == [Unclaimed(Both(r, "cancelled")) EXCEPT !.cancel = TRUE]

WrongUnstartedByStatus(r) == r.gen = "pending"

\* The service's test, on a row it has read, for cancelling without ComfyUI.
Unstarted(r) == r.gen = "pending" /\ r.worker = 0 /\ r.sub = "ready"

-----------------------------------------------------------------------------
(* Finishing.                                                               *)

CanComplete(r) == /\ ValidTransition(r.gen, "completed")
                  /\ ValidTransition(r.job, "completed")
Complete(r) == Both(r, "completed")

WrongCanFailAlways(r) == r.gen = r.job

CanFail(r) == r.gen = r.job /\ r.gen \in Active
Fail(r) == [Both(r, "failed") EXCEPT !.audit = "other"]

\* generation_repository.cancel_generation leaves the queue entry as it is.
CanCancelGeneration(r) == /\ {"completed", "failed"} \intersect {r.gen, r.job} = {}
                          /\ {r.gen, r.job} # {"cancelled"}
CancelGeneration(r) == [Both(r, "cancelled") EXCEPT !.audit = "other"]

CanProgress(r) == r.gen = r.job /\ r.gen \in {"queued", "running"}
Progress(r) == Both(r, "running")

-----------------------------------------------------------------------------
(* Reconciliation.                                                          *)

Expired(r) == Exists(r) /\ (r.lease = "expired" \/ (r.cancel /\ r.sub = "ready"))

WrongReconcileExpiredRetries(r) ==
    [Unclaimed(r) EXCEPT !.sub = IF r.sub = "submitting" THEN "ready" ELSE r.sub]

\* reconcile_expired_claims on one selected row.
ReconcileExpired(r) ==
    LET dropped == r.cancel /\ r.sub = "ready" /\ NoPrompts(r)
                     /\ r.gen = "pending" /\ r.job = "pending"
        q == IF dropped THEN Both(r, "cancelled") ELSE r
    IN  [Unclaimed(q) EXCEPT
            !.sub = IF r.sub = "submitting" THEN "ambiguous" ELSE r.sub]

\* mark_reconciliation_failed: each of the two statuses on its own.
MarkMissing(r) ==
    [Unclaimed(r) EXCEPT
        !.gen   = IF r.gen \in Terminal THEN r.gen ELSE "failed",
        !.job   = IF r.job \in Terminal THEN r.job ELSE "failed",
        !.audit = IF r.gen \in Terminal /\ r.job \in Terminal THEN r.audit ELSE "other"]

MarkMismatch(r) == [Unclaimed(r) EXCEPT !.sub = "ambiguous", !.audit = "migration"]

-----------------------------------------------------------------------------
(* The operator's resolution of an ambiguous submission.                    *)

CanResolve(r) == /\ Exists(r)
                 /\ r.sub = "ambiguous"
                 /\ r.audit \in {"ambiguous", "migration"}
                 /\ {"completed", "cancelled"} \intersect {r.gen, r.job} = {}
                 /\ "failed" \in {r.gen, r.job} => r.audit = "migration"

LinkPrompt(r, p) ==
    [Unclaimed(Both(r, "queued")) EXCEPT
        !.gprompt = p, !.jprompt = p, !.sub = "submitted", !.audit = "other"]

FailAmbiguous(r) == [Unclaimed(Both(r, "failed")) EXCEPT !.audit = "other"]

\* comfy_prompt_id is UNIQUE in generations and in generation_jobs.
PromptFree(rows, g, p) == \A h \in Gen \ {g} : p \notin {rows[h].gprompt, rows[h].jprompt}
=============================================================================

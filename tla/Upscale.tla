------------------------------- MODULE Upscale -------------------------------
(***************************************************************************)
(* Upscaling: the upscale tab, UpscaleEnqueueService, and the part of the  *)
(* generation service that runs an upscale.  The tab is filled by choosers *)
(* whose answers arrive later; a click captures the form, waits for the    *)
(* preflight, verifies the source and saves a snapshot of the request; the *)
(* worker verifies the source again, since the file may have changed, and  *)
(* reads it a second time for the upload; the result is kept only with the *)
(* dimensions that were planned.                                           *)
(*                                                                         *)
(* A source is a completed generation's first image or an imported image.  *)
(* Its registered content is "own"; the file may be changed or be gone.    *)
(* Bytes are "slipped" when they are other than the registered ones and    *)
(* the file changed after the worker verified it.                          *)
(***************************************************************************)
EXTENDS Integers, FiniteSets, Sequences, FiniteSetsExt

CONSTANTS Parent,       \* completed generations with an image
          Imported,     \* imported images
          Described,    \* the imports whose metadata is ready for a latent upscale
          NoSource,
          Upscaler,     \* upscale models
          NoModel,
          Sizing,       \* the sizes a user asks for
          SourceSize,   \* width and height of every source
          Limit,        \* max_width, max_height, max_pixels, max_upscale_factor
          MaxPending,   \* queue_max_pending_jobs
          MaxJobs,      \* bound: jobs saved
          MaxChoices,   \* bound: choices and edits of the form
          MaxRuns,      \* bound: processes started
          MaxFaults     \* bound: changes of a source file

UpscaleSource == Parent \union Imported

UpscaleAssumption ==
    /\ NoSource \notin UpscaleSource /\ NoModel \notin Upscaler
    /\ Parent \cap Imported = {} /\ Described \subseteq Imported
    /\ Sizing \subseteq [mode : {"factor"}, factor : Nat] \union
                         [mode : {"dimensions"}, w : Nat, h : Nat]
    /\ SourceSize \in [UpscaleSource -> [w : Nat, h : Nat]]
    /\ Limit \in [w : Nat, h : Nat, pixels : Nat, factor : Nat]
    /\ MaxPending \in Nat /\ MaxJobs \in Nat /\ MaxChoices \in Nat
    /\ MaxRuns \in Nat /\ MaxFaults \in Nat

VARIABLES
  tab,        \* the upscale tab of the browser
  answers,    \* selections a chooser has asked for
  clears,     \* choosers whose clearing of the import id is due
  request,    \* the form a click captured: none or one
  jobs,       \* the upscale generations, oldest first, with their snapshots
  work,       \* the worker
  file,       \* what is at each source's path
  installed,  \* upscale models on the Pod
  choices, starts, changes

uvars == <<tab, answers, clears, request, jobs, work, file, installed, choices, starts, changes>>

ui == <<tab, answers, clears, request, choices>>
world == <<file, installed, changes>>

-----------------------------------------------------------------------------
(* Sizes: aligned to 64, never below the source, within the limits.         *)

AlignUp(n) == ((n + 63) \div 64) * 64

\* A factor is in hundredths, and exact here: the code multiplies floats, which may
\* carry a product just past a multiple of 64 one step further up.
Resolved(size, from) ==
    LET to == IF size.mode = "factor"
              THEN [w |-> AlignUp((from.w * size.factor + 99) \div 100),
                    h |-> AlignUp((from.h * size.factor + 99) \div 100)]
              ELSE [w |-> size.w, h |-> size.h]
    IN IF /\ size.mode = "factor" => size.factor <= Limit.factor
          /\ size.mode = "dimensions" =>
                /\ to.w % 64 = 0 /\ to.h % 64 = 0
                /\ 100 * to.w <= Limit.factor * from.w /\ 100 * to.h <= Limit.factor * from.h
          /\ to.w >= from.w /\ to.h >= from.h
          /\ to.w <= Limit.w /\ to.h <= Limit.h /\ to.w * to.h <= Limit.pixels
       THEN {to} ELSE {}

-----------------------------------------------------------------------------
(* The tab.                                                                 *)

Chooser == {"latest", "history", "result"}

Method == {"image", "latent"}

EmptyTab == [parent |-> NoSource, import |-> NoSource, shown |-> NoSource,
             method |-> "image", model |-> NoModel]

Chooses == choices < MaxChoices /\ choices' = choices + 1

\* A selection of the gallery also clears the import id, as an event of its own.
Choose(ch, g) ==
    /\ answers[ch] = NoSource /\ Chooses
    /\ answers' = [answers EXCEPT ![ch] = g]
    /\ clears' = IF ch = "history" THEN clears \union {ch} ELSE clears
    /\ UNCHANGED <<tab, request, jobs, work, world, starts>>

\* select_parent verifies the image; its answer fills the parent and the preview, and
\* the button for the latest image then has the import id cleared.
Answer(ch) ==
    /\ answers[ch] # NoSource
    /\ LET g == IF file[answers[ch]] = "own" THEN answers[ch] ELSE NoSource
       IN tab' = [tab EXCEPT !.parent = g, !.shown = g]
    /\ answers' = [answers EXCEPT ![ch] = NoSource]
    /\ clears' = IF ch = "latest" THEN clears \union {ch} ELSE clears
    /\ UNCHANGED <<request, jobs, work, world, choices, starts>>

Clear(ch) ==
    /\ ch \in clears
    /\ clears' = clears \ {ch} /\ tab' = [tab EXCEPT !.import = NoSource]
    /\ UNCHANGED <<answers, request, jobs, work, world, choices, starts>>

ApplyImport(i) ==
    /\ Chooses
    /\ LET s == IF file[i] = "own" THEN i ELSE NoSource
       IN tab' = [tab EXCEPT !.import = s, !.parent = NoSource, !.shown = s]
    /\ UNCHANGED <<answers, clears, request, jobs, work, world, starts>>

\* The method hides the field of the model and leaves its value.
EditTab(method, model) ==
    /\ <<method, model>> # <<tab.method, tab.model>> /\ Chooses
    /\ model \in installed \union {NoModel, tab.model}
    /\ tab' = [tab EXCEPT !.method = method, !.model = model]
    /\ UNCHANGED <<answers, clears, request, jobs, work, world, starts>>

RefreshChoices ==
    /\ tab.model \notin installed \union {NoModel}
    /\ tab' = [tab EXCEPT !.model = NoModel]
    /\ UNCHANGED <<answers, clears, request, jobs, work, world, choices, starts>>

-----------------------------------------------------------------------------
(* A request: the form of the click, checked again after the preflight.     *)

\* An import id in the form goes before the parent.
Effective(t) == IF t.import # NoSource THEN t.import ELSE t.parent

\* UpscaleSettings refuses a latent upscale with a model, and an image one without.
Consistent(t) == (t.method = "image") <=> (t.model # NoModel)

Click(size) ==
    /\ request = {} /\ Len(jobs) < MaxJobs
    /\ request' = {[tab |-> tab, size |-> size]}
    /\ UNCHANGED <<tab, answers, clears, choices, jobs, work, world, starts>>

\* The limit counts the generations whose status is pending, before their prompt.
Room == Cardinality({i \in DOMAIN jobs : jobs[i].status \in {"queued", "running"}}) < MaxPending

NewJob(s, t, target) ==
    [src |-> s, method |-> t.method, model |-> t.model, target |-> target,
     status |-> "queued", retried |-> FALSE, sent |-> "none", stored |-> {}]

Accepted(r) ==
    LET s == Effective(r.tab)
    IN /\ Consistent(r.tab) /\ s # NoSource
       /\ file[s] = "own"
       /\ r.tab.method = "image" => r.tab.model \in installed
       /\ r.tab.method = "latent" /\ s \in Imported => s \in Described
       /\ Resolved(r.size, SourceSize[s]) # {}
       /\ Room

\* The preflight answered: the job is saved with its snapshot, or the request is
\* refused: by these checks, the preflight, the gate of the Pod or the database.
Enqueue ==
    \E r \in request :
        /\ request' = {}
        /\ \/ /\ Accepted(r)
              /\ \E target \in Resolved(r.size, SourceSize[Effective(r.tab)]) :
                     jobs' = Append(jobs, NewJob(Effective(r.tab), r.tab, target))
           \/ UNCHANGED jobs
        /\ UNCHANGED <<tab, answers, clears, choices, work, world, starts>>

\* The queue tab: a copy of the snapshot in a new generation, one per failed one.
Retry(i) ==
    /\ jobs[i].status = "failed" /\ ~jobs[i].retried /\ Len(jobs) < MaxJobs /\ Room
    /\ jobs' = Append([jobs EXCEPT ![i].retried = TRUE],
                      [jobs[i] EXCEPT !.status = "queued", !.sent = "none"])
    /\ UNCHANGED <<ui, work, world, starts>>

-----------------------------------------------------------------------------
(* The worker.                                                              *)

\* late: the source changed since the worker verified it, and it is still to be read.
Idle == [pc |-> "idle", job |-> 0, bytes |-> "none", late |-> FALSE]

Ends(i, status) == jobs' = [jobs EXCEPT ![i].status = status]

\* verify_source_artifact, or ImportedImageStorage.verify for an import: the file is
\* there and its content is the one the row registers.
WrongVerified(s) == file[s] # "gone"

Verified(s) == file[s] = "own"

Start ==
    /\ work.pc = "idle"
    /\ \E i \in DOMAIN jobs :
        /\ jobs[i].status = "queued" /\ \A k \in 1 .. i - 1 : jobs[k].status # "queued"
        /\ IF Verified(jobs[i].src)
           THEN Ends(i, "running") /\ work' = [Idle EXCEPT !.pc = "read", !.job = i]
           ELSE Ends(i, "failed") /\ UNCHANGED work
    /\ UNCHANGED <<ui, world, starts>>

\* The verified bytes are not kept: the file is read again, and nothing compares what
\* this reading returns.
ReadSource ==
    /\ work.pc = "read"
    /\ LET found == file[jobs[work.job].src]
       IN IF found = "gone"
          THEN work' = Idle /\ Ends(work.job, "failed")
          ELSE /\ work' = [work EXCEPT !.pc = "preflight", !.late = FALSE,
                              !.bytes = IF found # "own" /\ work.late THEN "slipped" ELSE found]
               /\ UNCHANGED jobs
    /\ UNCHANGED <<ui, world, starts>>

\* ComfyUI and the models as they are now; what fails here fails the job.
Preflight ==
    /\ work.pc = "preflight"
    /\ \/ /\ jobs[work.job].method = "image" => jobs[work.job].model \in installed
          /\ work' = [work EXCEPT !.pc = "upload"] /\ UNCHANGED jobs
       \/ work' = Idle /\ Ends(work.job, "failed")
    /\ UNCHANGED <<ui, world, starts>>

Upload ==
    /\ work.pc = "upload"
    /\ \/ /\ jobs' = [jobs EXCEPT ![work.job].sent = work.bytes]
          /\ work' = [work EXCEPT !.pc = "prompt"]
       \/ work' = Idle /\ Ends(work.job, "failed")
    /\ UNCHANGED <<ui, world, starts>>

Prompt ==
    /\ work.pc = "prompt"
    /\ \/ Ends(work.job, "prompted") /\ work' = [work EXCEPT !.pc = "watch"]
       \/ work' = Idle /\ Ends(work.job, "failed")
    /\ UNCHANGED <<ui, world, starts>>

\* What ComfyUI may return: the planned size, or another.
Output(j) == {j.target, [w |-> j.target.w + 64, h |-> j.target.h]}

\* validate_upscale_output compares with the saved target before anything is stored.
Fits(j, size) == size = j.target

Received(i) ==
    \/ \E size \in Output(jobs[i]) :
           jobs' = [jobs EXCEPT ![i].stored = IF Fits(jobs[i], size) THEN {size} ELSE {},
                                ![i].status = IF Fits(jobs[i], size)
                                              THEN "completed" ELSE "failed"]
    \/ Ends(i, "failed")

Finish ==
    /\ work.pc = "watch" /\ Received(work.job) /\ work' = Idle
    /\ UNCHANGED <<ui, world, starts>>

\* A job of a dead process that ComfyUI has: reconcile_prompt applies the same check.
Reconcile ==
    /\ work.pc = "idle"
    /\ \E i \in DOMAIN jobs : jobs[i].status = "prompted" /\ Received(i)
    /\ UNCHANGED <<ui, work, world, starts>>

-----------------------------------------------------------------------------
(* Around it.                                                               *)

FileChanges(s, content) ==
    /\ changes < MaxFaults /\ changes' = changes + 1
    /\ file[s] # content /\ file' = [file EXCEPT ![s] = content]
    /\ work' = IF work.pc = "read" /\ jobs[work.job].src = s
               THEN [work EXCEPT !.late = TRUE] ELSE work
    /\ UNCHANGED <<ui, jobs, installed, starts>>

SetInstalled(models) ==
    /\ models # installed /\ changes < MaxFaults /\ changes' = changes + 1
    /\ installed' = models
    /\ UNCHANGED <<ui, jobs, work, file, starts>>

\* A claim without a prompt returns to the queue; the page is loaded again.
RestartUpscale ==
    /\ starts < MaxRuns /\ starts' = starts + 1
    /\ work' = Idle
    /\ jobs' = [i \in DOMAIN jobs |->
                   IF jobs[i].status = "running" THEN [jobs[i] EXCEPT !.status = "queued"]
                   ELSE jobs[i]]
    /\ tab' = EmptyTab /\ answers' = [ch \in Chooser |-> NoSource]
    /\ clears' = {} /\ request' = {}
    /\ UNCHANGED <<world, choices>>

Init ==
    /\ tab = EmptyTab /\ answers = [ch \in Chooser |-> NoSource] /\ clears = {}
    /\ request = {} /\ jobs = <<>> /\ work = Idle
    /\ file = [s \in UpscaleSource |-> "own"] /\ installed = Upscaler
    /\ choices = 0 /\ starts = 1 /\ changes = 0

Next ==
    \/ \E ch \in Chooser, g \in Parent : Choose(ch, g)
    \/ \E ch \in Chooser : Answer(ch) \/ Clear(ch)
    \/ \E i \in Imported : ApplyImport(i)
    \/ \E m \in Method, u \in Upscaler \union {NoModel} : EditTab(m, u)
    \/ RefreshChoices
    \/ \E size \in Sizing : Click(size)
    \/ Enqueue
    \/ \E i \in DOMAIN jobs : Retry(i)
    \/ Start \/ ReadSource \/ Preflight \/ Upload \/ Prompt \/ Finish \/ Reconcile
    \/ \E s \in UpscaleSource, c \in {"changed", "gone"} : FileChanges(s, c)
    \/ \E models \in SUBSET Upscaler : SetInstalled(models)
    \/ RestartUpscale

Spec == Init /\ [][Next]_uvars

-----------------------------------------------------------------------------
(* Properties.                                                              *)

\* What is upscaled is what was chosen and what is kept is what was planned: the
\* bytes ComfyUI got are the registered ones of the job's source, unless the file
\* changed between the worker's verification and the reading right behind it; a change
\* at any other time, of a job that waits, is retried or is claimed again after a
\* restart, is noticed.  A completed upscale was uploaded, and has the planned size,
\* within the limits.
UpscaledAsPlanned ==
    \A i \in DOMAIN jobs :
        /\ jobs[i].sent \in {"none", "own", "slipped"}
        /\ jobs[i].status = "completed" =>
               /\ jobs[i].stored = {jobs[i].target} /\ jobs[i].sent # "none"
               /\ \A size \in jobs[i].stored :
                      /\ size.w % 64 = 0 /\ size.h % 64 = 0
                      /\ size.w * size.h <= Limit.pixels

\* A claim of the README: a source that changed is not uploaded.
UploadsRegistered == \A i \in DOMAIN jobs : jobs[i].sent \in {"none", "own"}

\* A claim of the tab: the image it shows as the parent is the one upscaled.
PreviewIsUpscaled ==
    (\A ch \in Chooser : answers[ch] = NoSource) /\ clears = {} /\ tab.shown # NoSource
        => Effective(tab) = tab.shown
=============================================================================

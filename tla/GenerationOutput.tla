-------------------------- MODULE GenerationOutput --------------------------
(***************************************************************************)
(* The files and artifact rows of one finished prompt.  Whoever finishes   *)
(* it stores every image of ComfyUI, completes the rows in one transaction *)
(* and then writes the optional artifacts: a sidecar and one thumbnail per *)
(* image.  The history's maintenance and the Drive worker repair what is   *)
(* missing, in threads of their own.                                       *)
(*                                                                         *)
(* A file of the canonical images is named by a free number of its day, or *)
(* by the time and the id of its generation when no date of the browser    *)
(* came with the request.  The content of a sidecar or a thumbnail is what *)
(* it was made of.                                                         *)
(***************************************************************************)
EXTENDS Integers, FiniteSets, Sequences, FiniteSetsExt

CONSTANTS Outputs,     \* images of the prompt
          Naming,      \* how the images may be named: "sequence", "fixed"
          Repairer,    \* "maintenance": one repair at a time; "drive": its worker
          MaxTroubles  \* bound: restarts, failed transactions, unanswered requests

OutputAssumption ==
    /\ Outputs \in Nat \ {0} /\ MaxTroubles \in Nat
    /\ Naming \subseteq {"sequence", "fixed"} /\ Repairer \subseteq {"maintenance", "drive"}

Order == 1 .. Outputs

\* The worker first runs the prompt itself; later it reconciles, as the recovery does.
Finisher == {"worker", "recovery"}

Writer == Finisher \union Repairer

VARIABLES
  naming,     \* how this generation's images are named
  status,     \* the generation and its job
  completed,  \* who completed it: stands for completed_at
  images,     \* the rows of the images: order -> path
  disk,       \* the image files: path -> order and whether it is whole
  meta,       \* the rows of the sidecar and the thumbnails: name -> content
  extra,      \* their files: name -> content
  fin,        \* the finishers
  opt,        \* who writes optional artifacts
  troubles

ovars == <<naming, status, completed, images, disk, meta, extra, fin, opt, troubles>>

-----------------------------------------------------------------------------
(* Finishing: fetch and store each image, then complete.                    *)

NoFinish == [pc |-> "idle", live |-> FALSE, stored |-> <<>>]

Fails == troubles < MaxTroubles /\ troubles' = troubles + 1

\* reconcile_prompt reads the rows once, at the start.
Reconciles(f) ==
    /\ fin[f].pc = "idle" /\ status = "prompted"
    /\ fin' = [fin EXCEPT ![f] = [NoFinish EXCEPT !.pc = "fetch"]]
    /\ UNCHANGED <<naming, status, completed, images, disk, meta, extra, opt, troubles>>

\* A pass gives up: a live run fails its rows, unless they are final or that fails too.
GivesUp(f) ==
    /\ fin' = [fin EXCEPT ![f] = NoFinish]
    /\ \/ status' = IF fin[f].live /\ status = "prompted" THEN "failed" ELSE status
       \/ fin[f].live /\ UNCHANGED status

\* get_output_image
Fetch(f) ==
    /\ fin[f].pc = "fetch"
    /\ \/ /\ fin' = [fin EXCEPT ![f].pc = IF Len(fin[f].stored) = Outputs
                                          THEN "commit" ELSE "store"]
          /\ UNCHANGED <<status, troubles>>
       \/ Fails /\ GivesUp(f)
    /\ UNCHANGED <<naming, completed, images, disk, meta, extra, opt>>

Add(f, path) == fin' = [fin EXCEPT ![f].stored = Append(@, path), ![f].pc = "fetch"]

\* One name for the generation: linked to its place whole, or refused.
StoreFixed(f) ==
    /\ naming = "fixed" /\ fin[f].pc = "store"
    /\ IF disk = <<>>
       THEN /\ disk' = <<[order |-> Len(fin[f].stored) + 1, whole |-> TRUE]>>
            /\ Add(f, 1) /\ UNCHANGED status
       ELSE GivesUp(f) /\ UNCHANGED disk
    /\ UNCHANGED <<naming, completed, images, meta, extra, opt, troubles>>

\* The first number that is free: the file is created by that, and filled after.
WrongTaken(path) == path \in DOMAIN disk /\ disk[path].whole

Taken(path) == path \in DOMAIN disk

FirstFree == Min({p \in 1 .. Len(disk) + 1 : ~Taken(p)})

Create(f) ==
    /\ naming = "sequence" /\ fin[f].pc = "store"
    /\ LET torn == [order |-> Len(fin[f].stored) + 1, whole |-> FALSE]
       IN disk' = IF FirstFree > Len(disk) THEN Append(disk, torn)
                  ELSE [disk EXCEPT ![FirstFree] = torn]
    /\ fin' = [fin EXCEPT ![f].pc = "fill", ![f].stored = Append(@, FirstFree)]
    /\ UNCHANGED <<naming, status, completed, images, meta, extra, opt, troubles>>

Fill(f) ==
    /\ fin[f].pc = "fill"
    /\ disk' = [disk EXCEPT ![fin[f].stored[Len(fin[f].stored)]].whole = TRUE]
    /\ fin' = [fin EXCEPT ![f].pc = "fetch"]
    /\ UNCHANGED <<naming, status, completed, images, meta, extra, opt, troubles>>

\* complete_generation_batch: rows of another finisher have other paths and refuse
\* the transaction, as a final status does.
Commit(f) ==
    /\ fin[f].pc = "commit"
    /\ \/ /\ status = "prompted" /\ images \in {<<>>, fin[f].stored}
          /\ status' = "completed" /\ images' = fin[f].stored /\ completed' = f
          /\ fin' = [fin EXCEPT ![f] = NoFinish]
          /\ opt' = [opt EXCEPT ![f] = [pc |-> "look", todo |-> {}]]
          /\ UNCHANGED troubles
       \/ /\ \/ Fails
             \/ (status # "prompted" \/ images \notin {<<>>, fin[f].stored}) /\ UNCHANGED troubles
          /\ GivesUp(f) /\ UNCHANGED <<images, completed, opt>>
    /\ UNCHANGED <<naming, disk, meta, extra>>

-----------------------------------------------------------------------------
(* The optional artifacts: names are 0 for the sidecar, the order for a     *)
(* thumbnail.                                                               *)

FileName == 0 .. Outputs

NoWriter == [pc |-> "idle", todo |-> {}]

\* A repair is for a completed generation whose sidecar or thumbnails are missing.
Repair(p) ==
    /\ opt[p].pc = "idle" /\ status = "completed"
    /\ \/ p = "drive" /\ 0 \notin DOMAIN meta
       \/ p = "maintenance" /\ (0 \notin DOMAIN meta \/ DOMAIN meta \cap Order = {})
    /\ opt' = [opt EXCEPT ![p] = [pc |-> "look", todo |-> {}]]
    /\ UNCHANGED <<naming, status, completed, images, disk, meta, extra, fin, troubles>>

\* What is missing: a repair leaves a generation alone that has the sidecar and some
\* thumbnail, also when other thumbnails are missing.
Missing(p) ==
    IF p \in Repairer /\ 0 \in DOMAIN meta /\ DOMAIN meta \cap Order # {} THEN {}
    ELSE FileName \ DOMAIN meta

\* list_by_generation, once, before the writes.
Look(p) ==
    /\ opt[p].pc = "look"
    /\ \/ /\ opt' = [opt EXCEPT ![p].pc = "file", ![p].todo = Missing(p)]
          /\ UNCHANGED troubles
       \/ Fails /\ opt' = [opt EXCEPT ![p] = NoWriter]
    /\ UNCHANGED <<naming, status, completed, images, disk, meta, extra, fin>>

\* The sidecar says when the generation was completed, a thumbnail what it shows.
WrongContent(p, name) == IF name = 0 THEN <<p, images[1]>> ELSE <<"thumbnail", images[name]>>

Content(p, name) ==
    IF name = 0 THEN <<completed, images[1]>> ELSE <<"thumbnail", images[name]>>

Next1(p) == Min(opt[p].todo)

\* The file replaces what is there under its name, also a file of another writer.
SaveFile(p) ==
    /\ opt[p].pc = "file" /\ opt[p].todo # {}
    /\ \/ /\ extra' = [n \in DOMAIN extra \union {Next1(p)} |->
                          IF n = Next1(p) THEN Content(p, n) ELSE extra[n]]
          /\ opt' = [opt EXCEPT ![p].pc = "row"] /\ UNCHANGED troubles
       \/ Fails /\ opt' = [opt EXCEPT ![p].todo = @ \ {Next1(p)}] /\ UNCHANGED extra
    /\ UNCHANGED <<naming, status, completed, images, disk, meta, fin>>

\* GenerationArtifactRepository.add hashes the file as it is by then; a row that is
\* there stays as it is.
AddRow(p) ==
    /\ opt[p].pc = "row"
    /\ opt' = [opt EXCEPT ![p].pc = "file", ![p].todo = @ \ {Next1(p)}]
    /\ \/ /\ meta' = (IF Next1(p) \in DOMAIN meta THEN meta
                      ELSE [n \in DOMAIN meta \union {Next1(p)} |->
                               IF n = Next1(p) THEN extra[n] ELSE meta[n]])
          /\ UNCHANGED troubles
       \/ Fails /\ UNCHANGED meta
    /\ UNCHANGED <<naming, status, completed, images, disk, extra, fin>>

Written(p) ==
    /\ opt[p].pc = "file" /\ opt[p].todo = {}
    /\ opt' = [opt EXCEPT ![p] = NoWriter]
    /\ UNCHANGED <<naming, status, completed, images, disk, meta, extra, fin, troubles>>

-----------------------------------------------------------------------------

\* The process ends between any two steps: what is on disk and in rows stays.
RestartOutput ==
    /\ Fails
    /\ fin' = [f \in Finisher |-> NoFinish] /\ opt' = [p \in Writer |-> NoWriter]
    /\ UNCHANGED <<naming, status, completed, images, disk, meta, extra>>

Init ==
    /\ naming \in Naming /\ status = "prompted" /\ completed = "none"
    /\ images = <<>> /\ disk = <<>> /\ meta = <<>> /\ extra = <<>>
    /\ fin = [f \in Finisher |->
                 IF f = "worker" THEN [NoFinish EXCEPT !.pc = "fetch", !.live = TRUE]
                 ELSE NoFinish]
    /\ opt = [p \in Writer |-> NoWriter] /\ troubles = 0

Finishing(f) == Fetch(f) \/ StoreFixed(f) \/ Create(f) \/ Fill(f) \/ Commit(f)

Writing(p) == Look(p) \/ SaveFile(p) \/ AddRow(p) \/ Written(p)

Next ==
    \/ \E f \in Finisher : Reconciles(f) \/ Finishing(f)
    \/ \E p \in Repairer : Repair(p)
    \/ \E p \in Writer : Writing(p)
    \/ RestartOutput

Spec == Init /\ [][Next]_ovars

\* The worker reconciles the prompts it finds, and what began goes on.
FairSpec ==
    /\ Spec
    /\ WF_ovars(Reconciles("worker"))
    /\ \A f \in Finisher : WF_ovars(Finishing(f))
    /\ \A p \in Writer : WF_ovars(Writing(p))

-----------------------------------------------------------------------------
(* Properties.                                                              *)

\* A completed generation has all its images, in their order, each in a whole file
\* of its own, whoever else was storing them and whatever was left by a crash.
CompletedIsWhole ==
    status = "completed" =>
        /\ Len(images) = Outputs
        /\ \A i \in Order : disk[images[i]] = [order |-> i, whole |-> TRUE]

\* The row of a sidecar or a thumbnail has the hash of the file that is there,
\* although several writers replace the file and only one adds the row.
RowsMatchFiles == \A n \in DOMAIN meta : n \in DOMAIN extra /\ extra[n] = meta[n]

\* A claim of the README: completing a finished prompt again is idempotent, so an
\* image that is already stored does not keep its generation open.
FinishedIsSettled == status = "prompted" ~> status \in {"completed", "failed"}
=============================================================================

--------------------------- MODULE MetadataImport ---------------------------
(***************************************************************************)
(* External images with metadata: MetadataImportService, its repository    *)
(* and the storage of the canonical images.  An import stores the file     *)
(* first and the row second; a user then chooses between the prompt of the *)
(* image and a sidecar, maps models, and applies the result to the form.   *)
(*                                                                         *)
(* What a source says is one model name, and whether every other field of  *)
(* it is resolved.  Warnings are a set: they decide what may be used.      *)
(***************************************************************************)
EXTENDS Integers, FiniteSets, Sequences, SequencesExt

CONSTANTS Image,        \* images a user has
          Sidecar,      \* sidecar files a user has
          NoSidecar,
          Name,         \* models
          Catalogue,    \* what ComfyUI may report as installed
          Editor,       \* handlers that change a row
          MaxImports,   \* bound: files stored
          MaxEdits,     \* bound: selections and mappings begun
          MaxFaults     \* bound: restarts and failed transactions

ImportAssumption ==
    /\ Image # {} /\ Name # {}
    /\ NoSidecar \notin Sidecar /\ Catalogue \subseteq SUBSET Name
    /\ MaxImports \in Nat /\ MaxEdits \in Nat /\ MaxFaults \in Nat

VARIABLES
  prompt,    \* what each image's prompt chunk is
  side,      \* what each sidecar is, and whether it names this image's hash
  rows,      \* metadata_imports by id, oldest first
  files,     \* ids with a canonical image on disk
  lost,      \* history: ids whose image stayed on an older Pod
  imp,       \* the import that holds the lock
  edit,      \* the other handlers
  caps,      \* the service's capabilities
  form,      \* the last settings applied to the generation form
  edits, faults

vars == <<prompt, side, rows, files, lost, imp, edit, caps, form, edits, faults>>

inputs == <<prompt, side>>
disk == <<files, lost>>
-----------------------------------------------------------------------------
(* Sources and warnings.                                                    *)

\* No chunk, every field resolved, some field missing, or not parsed at all.
Kind == {"none", "ok", "part", "bad"}

SidecarState == [kind : Kind \ {"none"}, match : BOOLEAN, model : Name]

PromptState == [kind : Kind, model : Name]

Source == {"prompt", "sidecar"}

Candidate == [from : Source, model : Name, complete : BOOLEAN, warnings : SUBSET {"mismatch", "unresolved"}]

InvalidOf == [prompt |-> "prompt_invalid", sidecar |-> "sidecar_invalid"]

Invalid == {"prompt_invalid", "sidecar_invalid"}
IgnoredOf == [prompt |-> "prompt_ignored", sidecar |-> "sidecar_ignored"]
Ignored == {"prompt_ignored", "sidecar_ignored"}
ModelWarning == {"missing", "nocatalog"}
Blocking == {"mismatch", "ambiguous", "unresolved"} \union ModelWarning \union Invalid
Warning == Blocking \union Ignored \union {"mismatch_confirmed", "mismatch_ignored"}

Other(s) == IF s = "prompt" THEN "sidecar" ELSE "prompt"

\* parse_png_metadata and parse_comfyui_prompt_metadata
FromPrompt(p) ==
    IF p.kind \in {"none", "bad"} THEN {}
    ELSE {[from |-> "prompt", model |-> p.model, complete |-> p.kind = "ok", warnings |-> {}]}

\* parse_sidecar_metadata: a hash that does not match is a warning of the candidate too.
FromSidecar(s) ==
    IF s.kind = "bad" THEN {}
    ELSE {[from |-> "sidecar", model |-> s.model, complete |-> s.kind = "ok",
           warnings |-> (IF s.match THEN {} ELSE {"mismatch"})
                            \union (IF s.kind = "part" THEN {"unresolved"} ELSE {})]}

\* The service's capabilities: none, or one catalogue.
NoCaps == {}

Capabilities == {NoCaps} \union {{names} : names \in Catalogue}

CheckModels(c) == IF caps = NoCaps THEN {"nocatalog"}
                  ELSE IF c.model \in UNION caps THEN {} ELSE {"missing"}

Status == {"ready", "needs_mapping", "metadata_missing", "invalid_metadata"}

StatusFor(cs, warnings) ==
    IF warnings \cap Invalid # {} THEN "invalid_metadata"
    ELSE IF cs = {} THEN IF "ambiguous" \in warnings THEN "needs_mapping" ELSE "metadata_missing"
    ELSE IF (\A c \in cs : c.complete) /\ warnings \cap Blocking = {} THEN "ready"
    ELSE "needs_mapping"

-----------------------------------------------------------------------------
(* The rows.  candidate is a set of none or one, candidates of up to two.   *)

Row == [image : Image, sidecar : Sidecar \union {NoSidecar}, candidates : SUBSET Candidate,
        candidate : SUBSET Candidate, selected : Source \union {"none"},
        status : Status \union {"unsaved"}, warnings : SUBSET Warning, confirmed : BOOLEAN]

NoRow == [image |-> CHOOSE i \in Image : TRUE, sidecar |-> NoSidecar, candidates |-> {},
          candidate |-> {}, selected |-> "none", status |-> "unsaved", warnings |-> {},
          confirmed |-> FALSE]

\* Two candidates that differ leave the choice to the user; else the prompt wins.
SelectCandidate(cs) ==
    IF \E c, d \in cs : c.model # d.model \/ c.complete # d.complete THEN {}
    ELSE IF \E c \in cs : c.from = "prompt" THEN {c \in cs : c.from = "prompt"} ELSE cs

ImportedRow(image, sidecar) ==
    LET cs == FromPrompt(prompt[image])
                \union (IF sidecar = NoSidecar THEN {} ELSE FromSidecar(side[sidecar]))
        chosen == SelectCandidate(cs)
        warnings == (UNION {c.warnings : c \in {d \in cs : d.from = "sidecar"}})
            \union (IF prompt[image].kind = "bad" THEN {"prompt_invalid"} ELSE {})
            \union (IF sidecar # NoSidecar /\ side[sidecar].kind = "bad"
                    THEN {"sidecar_invalid"} ELSE {})
            \union (IF cs # {} /\ chosen = {} THEN {"ambiguous"} ELSE {})
            \union UNION {CheckModels(c) : c \in chosen}
    IN [image |-> image, sidecar |-> sidecar, candidates |-> cs, candidate |-> chosen,
        selected |-> IF chosen = {} \/ warnings \cap (Invalid \union {"mismatch"}) # {}
                     THEN "none" ELSE (CHOOSE c \in chosen : TRUE).from,
        status |-> StatusFor(chosen, warnings), warnings |-> warnings, confirmed |-> FALSE]

Stripped(c) == [c EXCEPT !.warnings = @ \ {"mismatch"}]

Replace(cs, c) == {IF d.from = c.from THEN c ELSE d : d \in cs}

\* The warnings a selection drops, and what it leaves in their place.
Retained(row, s) ==
    (row.warnings \ ({"ambiguous", "mismatch", "mismatch_confirmed", "mismatch_ignored",
                      InvalidOf[Other(s)]} \union ModelWarning \union Ignored))
    \union (IF InvalidOf[Other(s)] \in row.warnings THEN {IgnoredOf[Other(s)]} ELSE {})
    \union (IF "mismatch" \notin row.warnings THEN {}
            ELSE IF s = "sidecar" THEN {"mismatch_confirmed"} ELSE {"mismatch_ignored"})

Selected(row, s, confirm) ==
    LET c == Stripped(CHOOSE d \in row.candidates : d.from = s)
        warnings == Retained(row, s) \union CheckModels(c) \union c.warnings
    IN [row EXCEPT !.candidate = {c}, !.candidates = Replace(@, c), !.selected = s,
                   !.warnings = warnings, !.status = StatusFor({c}, warnings),
                   !.confirmed = IF s = "sidecar" /\ "mismatch" \in row.warnings
                                 THEN confirm ELSE @]

\* with_mappings: an explicit replacement of the model.
WrongMapped(row, target) ==
    LET c == Stripped([(CHOOSE d \in row.candidate : TRUE) EXCEPT !.model = target])
        warnings == (row.warnings \ (ModelWarning \union Invalid)) \union CheckModels(c) \union c.warnings
    IN [row EXCEPT !.candidate = {c}, !.candidates = Replace(@, c), !.warnings = warnings,
                   !.status = StatusFor({c}, warnings)]

Mapped(row, target) ==
    LET c == Stripped([(CHOOSE d \in row.candidate : TRUE) EXCEPT !.model = target])
        warnings == (row.warnings \ ModelWarning) \union CheckModels(c) \union c.warnings
    IN [row EXCEPT !.candidate = {c}, !.candidates = Replace(@, c), !.warnings = warnings,
                   !.status = StatusFor({c}, warnings)]

\* What keeps a row's settings from the form, with the capabilities of now.
Blocked(row) ==
    \E c \in row.candidate :
        \/ ((row.warnings \ ModelWarning) \union c.warnings) \cap Blocking # {}
        \/ CheckModels(c) # {} \/ ~c.complete

-----------------------------------------------------------------------------
(* Imports: one at a time, under the service's lock.                        *)

NoImport == [pc |-> "idle", id |-> 0, image |-> CHOOSE i \in Image : TRUE, sidecar |-> NoSidecar]

Fault == faults < MaxFaults /\ faults' = faults + 1

Saved == {i \in DOMAIN rows : rows[i].status # "unsaved"}

SameImage(image) == {i \in Saved : rows[i].image = image}

\* The newest row of the same image, when the sidecar is the same and its file verifies.
Existing(image, sidecar) ==
    {i \in SameImage(image) : /\ \A k \in SameImage(image) : k <= i
                              /\ rows[i].sidecar = sidecar /\ i \in files}

Import(image, sidecar) ==
    /\ imp.pc = "idle" /\ Existing(image, sidecar) = {}
    /\ Len(rows) < MaxImports
    /\ rows' = Append(rows, NoRow)
    /\ imp' = [pc |-> "store", id |-> Len(rows) + 1, image |-> image, sidecar |-> sidecar]
    /\ UNCHANGED <<inputs, disk, edit, caps, form, edits, faults>>

\* The canonical file is linked to its place; a refusal of the gate comes before.
Store ==
    /\ imp.pc = "store"
    /\ \/ files' = files \union {imp.id} /\ imp' = [imp EXCEPT !.pc = "create"]
          /\ UNCHANGED faults
       \/ Fault /\ imp' = NoImport /\ UNCHANGED files
    /\ UNCHANGED <<inputs, rows, lost, edit, caps, form, edits>>

\* The row is saved, or it is not, or the commit fails after it took effect.
Create ==
    /\ imp.pc = "create"
    /\ \/ /\ rows' = [rows EXCEPT ![imp.id] = ImportedRow(imp.image, imp.sidecar)]
          /\ \/ imp' = NoImport /\ UNCHANGED faults
             \/ Fault /\ imp' = [imp EXCEPT !.pc = "cleanup"]
       \/ Fault /\ imp' = [imp EXCEPT !.pc = "cleanup"] /\ UNCHANGED rows
    /\ UNCHANGED <<inputs, disk, edit, caps, form, edits>>

\* Only a file whose row is known to be absent is removed.
WrongKept(id) == FALSE

Kept(id) == id \in Saved

Cleanup ==
    /\ imp.pc = "cleanup" /\ imp' = NoImport
    /\ \/ files' = (IF Kept(imp.id) THEN files ELSE files \ {imp.id}) /\ UNCHANGED faults
       \/ Fault /\ UNCHANGED files
    /\ UNCHANGED <<inputs, rows, lost, edit, caps, form, edits>>

-----------------------------------------------------------------------------
(* Selections and mappings read a row, decide, and save it whole.           *)

NoEdit == [pc |-> "idle", id |-> 0, row |-> NoRow]

Begin(e, id, row) ==
    /\ edits < MaxEdits /\ edits' = edits + 1
    /\ edit[e].pc = "idle"
    /\ edit' = [edit EXCEPT ![e] = [pc |-> "save", id |-> id, row |-> row]]
    /\ UNCHANGED <<inputs, rows, disk, imp, caps, form, faults>>

SelectSource(e, id, s, confirm) ==
    /\ \E c \in rows[id].candidates : c.from = s
    /\ s = "sidecar" /\ "mismatch" \in rows[id].warnings => confirm
    /\ Begin(e, id, Selected(rows[id], s, confirm))

ApplyMapping(e, id, target) ==
    /\ rows[id].candidate # {}
    /\ Begin(e, id, Mapped(rows[id], target))

Save(e) ==
    /\ edit[e].pc = "save" /\ edit' = [edit EXCEPT ![e] = NoEdit]
    /\ \/ rows' = [rows EXCEPT ![edit[e].id] = edit[e].row] /\ UNCHANGED faults
       \/ Fault /\ UNCHANGED rows
    /\ UNCHANGED <<inputs, disk, imp, caps, form, edits>>

\* build_generation_settings, and the handler that fills the form.
ApplyToForm(id) ==
    /\ rows[id].candidate # {} /\ ~Blocked(rows[id])
    /\ form' = [id |-> id, from |-> (CHOOSE c \in rows[id].candidate : TRUE).from,
                model |-> (CHOOSE c \in rows[id].candidate : TRUE).model]
    /\ UNCHANGED <<inputs, rows, disk, imp, edit, caps, edits, faults>>

-----------------------------------------------------------------------------
(* Around it.                                                               *)

SetCapabilities(c) ==
    /\ caps' = c /\ c # caps
    /\ UNCHANGED <<inputs, rows, disk, imp, edit, form, edits, faults>>

\* The next process, on this Pod or on a new one that has the rows and no images.
Restart(newPod) ==
    /\ Fault
    /\ imp' = NoImport /\ edit' = [e \in Editor |-> NoEdit] /\ caps' = NoCaps
    /\ files' = IF newPod THEN {} ELSE files
    /\ lost' = IF newPod THEN lost \union Saved ELSE lost
    /\ form' = [id |-> 0, from |-> "none", model |-> CHOOSE n \in Name : TRUE]
    /\ UNCHANGED <<inputs, rows, edits>>

Init ==
    /\ prompt \in [Image -> PromptState] /\ side \in [Sidecar -> SidecarState]
    /\ \A i \in Image : prompt[i].model = CHOOSE n \in Name : TRUE
    /\ rows = <<>> /\ files = {} /\ lost = {} /\ imp = NoImport
    /\ edit = [e \in Editor |-> NoEdit] /\ caps = NoCaps
    /\ form = [id |-> 0, from |-> "none", model |-> CHOOSE n \in Name : TRUE]
    /\ edits = 0 /\ faults = 0

Next ==
    \/ \E i \in Image, s \in Sidecar \union {NoSidecar} : Import(i, s)
    \/ Store \/ Create \/ Cleanup
    \/ \E e \in Editor, id \in Saved :
          \/ \E s \in Source, confirm \in BOOLEAN : SelectSource(e, id, s, confirm)
          \/ \E n \in Name : ApplyMapping(e, id, n)
    \/ \E e \in Editor : Save(e)
    \/ \E id \in Saved : ApplyToForm(id)
    \/ \E c \in Capabilities : SetCapabilities(c)
    \/ \E newPod \in BOOLEAN : Restart(newPod)

Spec == Init /\ [][Next]_vars

-----------------------------------------------------------------------------
(* Properties.                                                              *)

TypeOK ==
    /\ rows \in Seq(Row) /\ files \union lost \subseteq DOMAIN rows
    /\ \A e \in Editor : edit[e].row \in Row
    /\ caps \in Capabilities /\ faults \in 0 .. MaxFaults

\* A saved row has its image, whatever became of the commit that saved it: only a
\* new Pod loses the images.
RowHasFile == \A id \in Saved : id \in files \/ id \in lost

\* What the user has to decide: one of the files could not be parsed, or the two say
\* different things.
Unclear(row) ==
    \/ prompt[row.image].kind = "bad"
    \/ /\ row.sidecar # NoSidecar
       /\ \/ side[row.sidecar].kind = "bad"
          \/ \E c \in FromPrompt(prompt[row.image]), d \in FromSidecar(side[row.sidecar]) :
                 c.model # d.model \/ c.complete # d.complete

ChosenStep ==
    form' # form /\ form'.id # 0 /\ Unclear(rows[form'.id])
        => form'.from = rows[form'.id].selected

\* Whatever selections and mappings were made meanwhile, by whom, and with whichever
\* capabilities: an import whose sources leave a choice reaches the form only in the
\* source that was selected for it.  A mapping, a model that is installed again, or a
\* row saved whole over a newer one takes no decision in the user's place.
UnclearIsChosen == [][ChosenStep]_vars

\* A claim of the README: a sidecar whose image hash does not match is not used
\* for an execution without an explicit confirmation.
MismatchNeedsConfirmation ==
    form.from = "sidecar" =>
        side[rows[form.id].sidecar].match \/ rows[form.id].confirmed
=============================================================================

--------------------------- MODULE LibraryProofs ---------------------------
(***************************************************************************)
(* Proofs about the components that keep a library: imported images        *)
(* (MetadataImport), upscales (Upscale), presets (PresetLibrary) and, by   *)
(* the theorems of GenerationOutputProofs, the outputs of a generation.    *)
(* They share no state: each theorem is first about the specification of   *)
(* one of them and then about Library.                                     *)
(***************************************************************************)
EXTENDS Library, TLAPS

OutputProofs == INSTANCE GenerationOutputProofs

-----------------------------------------------------------------------------
(* Imported images.                                                         *)

ImportState == [pc : {"idle", "store", "create", "cleanup"}, id : Nat, image : Image,
                sidecar : Sidecar \union {NoSidecar}]

EditState == [pc : {"idle", "save"}, id : Nat, row : Imports!Row]

ImportsTyped ==
    /\ prompt \in [Image -> Imports!PromptState]
    /\ side \in [Sidecar -> Imports!SidecarState]
    /\ rows \in Seq(Imports!Row)
    /\ imp \in ImportState
    /\ edit \in [Editor -> EditState]

\* The import in progress has its number, and its file before its row; a handler
\* that is about to save a row has read a saved one.
InProgress ==
    /\ imp.pc # "idle" => imp.id \in DOMAIN rows
    /\ imp.pc = "create" => imp.id \in files
    /\ \A e \in Editor : edit[e].pc = "save" =>
          edit[e].id \in Imports!Saved /\ edit[e].row.status # "unsaved"

ImportsInv == ImportsTyped /\ InProgress /\ Imports!RowHasFile

\* A new row is one, and counts as not saved.
LEMMA NoRowType ==
    ASSUME Imports!ImportAssumption
    PROVE  Imports!NoRow \in Imports!Row /\ Imports!NoRow.status = "unsaved"
<1>1. (CHOOSE i \in Image : TRUE) \in Image
  BY DEF Imports!ImportAssumption
<1> DEFINE image == CHOOSE i \in Image : TRUE
<1>2. Imports!NoRow = [image |-> image, sidecar |-> NoSidecar, candidates |-> {},
                       candidate |-> {}, selected |-> "none", status |-> "unsaved",
                       warnings |-> {}, confirmed |-> FALSE]
  BY DEF Imports!NoRow
<1> HIDE DEF image
<1>3. image \in Image
  BY <1>1 DEF image
<1> QED
  BY <1>2, <1>3 DEF Imports!Row

\* Every row that is saved says so.
LEMMA SavedStatus ==
    ASSUME NEW cs, NEW warnings
    PROVE  /\ Imports!StatusFor(cs, warnings) \in Imports!Status
           /\ Imports!StatusFor(cs, warnings) # "unsaved"
  BY DEF Imports!StatusFor, Imports!Status

\* What the catalogue says of a model is a warning.
LEMMA CheckType ==
    ASSUME NEW c
    PROVE  Imports!CheckModels(c) \subseteq Imports!Warning
  BY DEF Imports!CheckModels, Imports!Warning, Imports!Blocking, Imports!ModelWarning

\* What an import makes of its two sources.
LEMMA ImportedType ==
    ASSUME ImportsTyped, NEW image \in Image, NEW s \in Sidecar \union {NoSidecar}
    PROVE  /\ Imports!ImportedRow(image, s) \in Imports!Row
           /\ Imports!ImportedRow(image, s).status # "unsaved"
<1> DEFINE cs == Imports!FromPrompt(prompt[image])
                   \union (IF s = NoSidecar THEN {} ELSE Imports!FromSidecar(side[s]))
           chosen == Imports!SelectCandidate(cs)
           warnings == (UNION {c.warnings : c \in {d \in cs : d.from = "sidecar"}})
             \union (IF prompt[image].kind = "bad" THEN {"prompt_invalid"} ELSE {})
             \union (IF s # NoSidecar /\ side[s].kind = "bad"
                     THEN {"sidecar_invalid"} ELSE {})
             \union (IF cs # {} /\ chosen = {} THEN {"ambiguous"} ELSE {})
             \union UNION {Imports!CheckModels(c) : c \in chosen}
           source == IF chosen = {} \/ warnings \cap (Imports!Invalid \union {"mismatch"}) # {}
                     THEN "none" ELSE (CHOOSE c \in chosen : TRUE).from
           state == Imports!StatusFor(chosen, warnings)
<1>1. Imports!FromPrompt(prompt[image]) \subseteq Imports!Candidate
  <2> DEFINE p == prompt[image]
  <2>1. p \in Imports!PromptState
    BY DEF ImportsTyped
  <2>2. [from |-> "prompt", model |-> p.model, complete |-> p.kind = "ok", warnings |-> {}]
          \in Imports!Candidate
    BY <2>1 DEF Imports!PromptState, Imports!Candidate, Imports!Source
  <2> HIDE DEF p
  <2>3. Imports!FromPrompt(p) \subseteq Imports!Candidate
    BY <2>2 DEF Imports!FromPrompt
  <2> QED
    BY <2>3 DEF p
<1>2. s # NoSidecar => Imports!FromSidecar(side[s]) \subseteq Imports!Candidate
  <2> DEFINE p == side[s]
  <2> SUFFICES ASSUME s # NoSidecar PROVE Imports!FromSidecar(p) \subseteq Imports!Candidate
    OBVIOUS
  <2> DEFINE complete == p.kind = "ok"
             warned == (IF p.match THEN {} ELSE {"mismatch"})
                         \union (IF p.kind = "part" THEN {"unresolved"} ELSE {})
  <2>1. p \in Imports!SidecarState
    BY DEF ImportsTyped
  <2>2. p.model \in Name /\ complete \in BOOLEAN /\ warned \subseteq {"mismatch", "unresolved"}
    BY <2>1 DEF Imports!SidecarState
  <2>3. Imports!FromSidecar(p) =
          IF p.kind = "bad" THEN {}
          ELSE {[from |-> "sidecar", model |-> p.model, complete |-> complete,
                 warnings |-> warned]}
    BY DEF Imports!FromSidecar
  <2> HIDE DEF p, complete, warned
  <2>4. [from |-> "sidecar", model |-> p.model, complete |-> complete, warnings |-> warned]
          \in Imports!Candidate
    BY <2>2 DEF Imports!Candidate, Imports!Source
  <2> QED
    BY <2>3, <2>4
<1>3. cs \subseteq Imports!Candidate
  BY <1>1, <1>2
<1>4. chosen \subseteq cs
  BY DEF Imports!SelectCandidate
<1>5. warnings \subseteq Imports!Warning
  <2>1. UNION {c.warnings : c \in {d \in cs : d.from = "sidecar"}} \subseteq Imports!Warning
    BY <1>3 DEF Imports!Candidate, Imports!Warning, Imports!Blocking
  <2>2. UNION {Imports!CheckModels(c) : c \in chosen} \subseteq Imports!Warning
    BY CheckType
  <2>3. {"prompt_invalid", "sidecar_invalid", "ambiguous"} \subseteq Imports!Warning
    BY DEF Imports!Warning, Imports!Blocking, Imports!Invalid
  <2> HIDE DEF cs, chosen
  <2> QED
    BY <2>1, <2>2, <2>3
<1>6. source \in Imports!Source \union {"none"}
  <2> HIDE DEF cs, chosen, warnings
  <2>1. chosen # {} => (CHOOSE c \in chosen : TRUE) \in Imports!Candidate
    BY <1>3, <1>4
  <2> QED
    BY <2>1 DEF Imports!Candidate
<1>7. state \in Imports!Status /\ state # "unsaved"
  BY SavedStatus
<1>8. Imports!ImportedRow(image, s) =
        [image |-> image, sidecar |-> s, candidates |-> cs, candidate |-> chosen,
         selected |-> source, status |-> state, warnings |-> warnings, confirmed |-> FALSE]
  BY DEF Imports!ImportedRow
<1> HIDE DEF cs, chosen, warnings, source, state
<1> QED
  BY <1>3, <1>4, <1>5, <1>6, <1>7, <1>8 DEF Imports!Row

\* Taking the hash's warning off a candidate leaves a candidate.
LEMMA StrippedType ==
    ASSUME NEW c \in Imports!Candidate
    PROVE  Imports!Stripped(c) \in Imports!Candidate
  BY DEF Imports!Stripped, Imports!Candidate

\* Replacing the candidate of a source leaves candidates.
LEMMA ReplaceType ==
    ASSUME NEW cs \in SUBSET Imports!Candidate, NEW c \in Imports!Candidate
    PROVE  Imports!Replace(cs, c) \in SUBSET Imports!Candidate
  BY DEF Imports!Replace

\* A candidate's own warnings are warnings.
LEMMA OwnWarnings ==
    ASSUME NEW c \in Imports!Candidate
    PROVE  c.warnings \subseteq Imports!Warning
  BY DEF Imports!Candidate, Imports!Warning, Imports!Blocking

\* A row once its candidate is decided, by a selection or a mapping.
Decided(row, c, s, warnings, confirmed) ==
    [row EXCEPT !.candidate = {c}, !.candidates = Imports!Replace(row.candidates, c),
                !.selected = s, !.warnings = warnings,
                !.status = Imports!StatusFor({c}, warnings), !.confirmed = confirmed]

\* Such a row is a row, and a saved one.
LEMMA DecidedType ==
    ASSUME NEW row \in Imports!Row, NEW c \in Imports!Candidate,
           NEW s \in Imports!Source \union {"none"},
           NEW warnings \in SUBSET Imports!Warning, NEW confirmed \in BOOLEAN
    PROVE  /\ Decided(row, c, s, warnings, confirmed) \in Imports!Row
           /\ Decided(row, c, s, warnings, confirmed).status # "unsaved"
<1> DEFINE state == Imports!StatusFor({c}, warnings)
           cs == Imports!Replace(row.candidates, c)
<1>1. row.candidates \in SUBSET Imports!Candidate
  BY DEF Imports!Row
<1>2. cs \in SUBSET Imports!Candidate
  BY <1>1, ReplaceType
<1>3. state \in Imports!Status /\ state # "unsaved"
  BY SavedStatus
<1>4. Decided(row, c, s, warnings, confirmed) =
        [row EXCEPT !.candidate = {c}, !.candidates = cs, !.selected = s, !.warnings = warnings,
                    !.status = state, !.confirmed = confirmed]
  BY DEF Decided
<1> DEFINE one == {c}
<1>5. one \in SUBSET Imports!Candidate
  OBVIOUS
<1> HIDE DEF state, cs, one
<1>6. Decided(row, c, s, warnings, confirmed) =
        [image |-> row.image, sidecar |-> row.sidecar, candidates |-> cs, candidate |-> one,
         selected |-> s, status |-> state, warnings |-> warnings, confirmed |-> confirmed]
  BY <1>4 DEF Imports!Row, one
<1> QED
  BY <1>2, <1>3, <1>5, <1>6 DEF Imports!Row

\* A selection of a source the row has a candidate of.
LEMMA SelectedType ==
    ASSUME NEW row \in Imports!Row, NEW s \in Imports!Source, NEW confirm \in BOOLEAN,
           \E c \in row.candidates : c.from = s
    PROVE  /\ Imports!Selected(row, s, confirm) \in Imports!Row
           /\ Imports!Selected(row, s, confirm).status # "unsaved"
<1> DEFINE picked == CHOOSE d \in row.candidates : d.from = s
           c == Imports!Stripped(picked)
           warnings == Imports!Retained(row, s) \union Imports!CheckModels(c) \union c.warnings
           confirmed == IF s = "sidecar" /\ "mismatch" \in row.warnings
                        THEN confirm ELSE row.confirmed
<1>1. picked \in row.candidates
  OBVIOUS
<1>2. c \in Imports!Candidate
  BY <1>1, StrippedType DEF Imports!Row
<1>3. row.warnings \subseteq Imports!Warning /\ row.confirmed \in BOOLEAN
  BY DEF Imports!Row
<1>4. Imports!Retained(row, s) \subseteq Imports!Warning
  <2>1. Imports!Other(s) \in Imports!Source
    BY DEF Imports!Other, Imports!Source
  <2>2. Imports!IgnoredOf[Imports!Other(s)] \in Imports!Warning
    BY <2>1 DEF Imports!IgnoredOf, Imports!Source, Imports!Ignored, Imports!Warning
  <2>3. {"mismatch_confirmed", "mismatch_ignored"} \subseteq Imports!Warning
    BY DEF Imports!Warning
  <2> QED
    BY <1>3, <2>2, <2>3 DEF Imports!Retained
<1>5. warnings \in SUBSET Imports!Warning
  BY <1>2, <1>4, CheckType, OwnWarnings
<1>6. confirmed \in BOOLEAN
  BY <1>3
<1>7. Imports!Selected(row, s, confirm) = Decided(row, c, s, warnings, confirmed)
  BY DEF Imports!Selected, Decided
<1> HIDE DEF picked, c, warnings, confirmed
<1> QED
  BY <1>2, <1>5, <1>6, <1>7, DecidedType

\* A mapping of the model of a row that has its candidate.
LEMMA MappedType ==
    ASSUME NEW row \in Imports!Row, NEW target \in Name, row.candidate # {}
    PROVE  /\ Imports!Mapped(row, target) \in Imports!Row
           /\ Imports!Mapped(row, target).status # "unsaved"
<1> DEFINE picked == CHOOSE d \in row.candidate : TRUE
           moved == [picked EXCEPT !.model = target]
           c == Imports!Stripped(moved)
           warnings == (row.warnings \ Imports!ModelWarning) \union Imports!CheckModels(c)
                         \union c.warnings
<1>1. picked \in Imports!Candidate
  BY DEF Imports!Row
<1>2. moved \in Imports!Candidate
  <2> HIDE DEF picked
  <2> QED
    BY <1>1 DEF Imports!Candidate
<1>3. c \in Imports!Candidate
  BY <1>2, StrippedType
<1>4. /\ row.warnings \subseteq Imports!Warning /\ row.confirmed \in BOOLEAN
      /\ row.selected \in Imports!Source \union {"none"}
  BY DEF Imports!Row
<1>5. warnings \in SUBSET Imports!Warning
  BY <1>3, <1>4, CheckType, OwnWarnings
<1>6. Imports!Mapped(row, target) =
        [row EXCEPT !.candidate = {c}, !.candidates = Imports!Replace(row.candidates, c),
                    !.warnings = warnings, !.status = Imports!StatusFor({c}, warnings)]
  BY DEF Imports!Mapped
<1> HIDE DEF picked, moved, c, warnings
<1>7. Imports!Mapped(row, target) = Decided(row, c, row.selected, warnings, row.confirmed)
  BY <1>6 DEF Imports!Row, Decided
<1> QED
  BY <1>3, <1>4, <1>5, <1>7, DecidedType

\* The initial state.
LEMMA ImportsInit ==
    ASSUME Imports!ImportAssumption, Imports!Init
    PROVE  ImportsInv
<1>1. Imports!NoRow \in Imports!Row
  BY NoRowType
<1>2. Imports!NoImport \in ImportState /\ Imports!NoImport.pc = "idle"
  BY DEF Imports!ImportAssumption, Imports!NoImport, ImportState
<1>3. Imports!NoEdit \in EditState /\ Imports!NoEdit.pc = "idle"
  BY <1>1 DEF Imports!NoEdit, EditState
<1>4. rows \in Seq(Imports!Row) /\ Imports!Saved = {}
  BY DEF Imports!Init, Imports!Saved
<1>5. ImportsTyped
  BY <1>2, <1>3, <1>4 DEF Imports!Init, ImportsTyped
<1>6. InProgress
  BY <1>2, <1>3 DEF Imports!Init, InProgress
<1> QED
  BY <1>4, <1>5, <1>6 DEF ImportsInv, Imports!RowHasFile

\* A handler that begins keeps the invariant: what it will save is a saved row.
LEMMA BeginKeeps ==
    ASSUME ImportsInv, NEW e \in Editor, NEW id \in Imports!Saved, NEW row \in Imports!Row,
           row.status # "unsaved", Imports!Begin(e, id, row)
    PROVE  ImportsInv'
<1> USE DEF ImportsInv
<1>1. /\ UNCHANGED <<prompt, side, rows, files, lost, imp>>
      /\ edit' = [edit EXCEPT ![e] = [pc |-> "save", id |-> id, row |-> row]]
  BY DEF Imports!Begin, Imports!inputs, Imports!disk
<1>2. Imports!Saved' = Imports!Saved
  BY <1>1 DEF Imports!Saved
<1>3. id \in Nat
  BY DEF Imports!Saved, ImportsTyped
<1>4. [pc |-> "save", id |-> id, row |-> row] \in EditState
  BY <1>3 DEF EditState
<1>5. ImportsTyped'
  BY <1>1, <1>4 DEF ImportsTyped
<1>6. InProgress'
  BY <1>1, <1>2 DEF ImportsTyped, InProgress
<1> QED
  BY <1>1, <1>2, <1>5, <1>6 DEF Imports!RowHasFile

\* Every step keeps the invariant.
LEMMA ImportsStep ==
    ASSUME Imports!ImportAssumption, ImportsInv, [Imports!Next]_(Imports!vars)
    PROVE  ImportsInv'
<1> USE DEF ImportsInv
<1> USE DEF Imports!inputs, Imports!disk
<1>a. Imports!NoImport \in ImportState /\ Imports!NoImport.pc = "idle"
  BY DEF Imports!ImportAssumption, Imports!NoImport, ImportState
<1>b. Imports!NoEdit \in EditState /\ Imports!NoEdit.pc = "idle"
  BY NoRowType DEF Imports!NoEdit, EditState
<1>c. Imports!Saved \subseteq DOMAIN rows /\ DOMAIN rows \subseteq Nat
  BY DEF Imports!Saved, ImportsTyped
<1>1. CASE UNCHANGED Imports!vars
  <2>1. UNCHANGED <<prompt, side, rows, files, lost, imp, edit>>
    BY <1>1 DEF Imports!vars
  <2> QED
    BY <2>1 DEF ImportsTyped, InProgress, Imports!RowHasFile, Imports!Saved
<1>2. ASSUME NEW i \in Image, NEW s \in Sidecar \union {NoSidecar}, Imports!Import(i, s)
      PROVE  ImportsInv'
  <2> DEFINE id == Len(rows) + 1
  <2>1. /\ UNCHANGED <<prompt, side, files, lost, edit>> /\ imp.pc = "idle"
        /\ rows' = Append(rows, Imports!NoRow)
        /\ imp' = [pc |-> "store", id |-> id, image |-> i, sidecar |-> s]
    BY <1>2 DEF Imports!Import
  <2>2. rows' \in Seq(Imports!Row) /\ id \in DOMAIN rows'
    BY <2>1, NoRowType DEF ImportsTyped
  <2>3. Imports!Saved' = Imports!Saved
    <3>1. /\ DOMAIN rows' = DOMAIN rows \union {id} /\ rows'[id] = Imports!NoRow
          /\ \A k \in DOMAIN rows : rows'[k] = rows[k]
      BY <2>1 DEF ImportsTyped
    <3> HIDE DEF id
    <3> QED
      BY <3>1, NoRowType DEF Imports!Saved
  <2>4. id \in Nat
    BY DEF ImportsTyped
  <2>5. ImportsTyped'
    BY <2>1, <2>2, <2>4 DEF ImportsTyped, ImportState
  <2>6. InProgress'
    BY <2>1, <2>2, <2>3 DEF InProgress
  <2> QED
    BY <2>1, <2>3, <2>5, <2>6 DEF Imports!RowHasFile
<1>3. CASE Imports!Store
  <2>1. /\ UNCHANGED <<prompt, side, rows, lost, edit>> /\ imp.pc = "store"
        /\ \/ files' = files \union {imp.id} /\ imp' = [imp EXCEPT !.pc = "create"]
           \/ imp' = Imports!NoImport /\ UNCHANGED files
    BY <1>3 DEF Imports!Store
  <2>2. Imports!Saved' = Imports!Saved
    BY <2>1 DEF Imports!Saved
  <2>3. ImportsTyped'
    BY <1>a, <2>1 DEF ImportsTyped, ImportState
  <2>4. InProgress'
    BY <1>a, <2>1, <2>2 DEF InProgress, ImportsTyped, ImportState
  <2> QED
    BY <2>1, <2>2, <2>3, <2>4 DEF Imports!RowHasFile
<1>4. CASE Imports!Create
  <2> DEFINE row == Imports!ImportedRow(imp.image, imp.sidecar)
  <2>1. /\ UNCHANGED <<prompt, side, files, lost, edit>> /\ imp.pc = "create"
        /\ imp' = Imports!NoImport \/ imp' = [imp EXCEPT !.pc = "cleanup"]
        /\ rows' = [rows EXCEPT ![imp.id] = row] \/ rows' = rows
    BY <1>4 DEF Imports!Create
  <2>2. row \in Imports!Row /\ row.status # "unsaved"
    BY ImportedType DEF ImportsTyped, ImportState
  <2>3. imp.id \in DOMAIN rows /\ imp.id \in files
    BY <2>1 DEF InProgress
  <2> HIDE DEF row
  <2>4. rows' \in Seq(Imports!Row) /\ DOMAIN rows' = DOMAIN rows
    BY <2>1, <2>2, <2>3 DEF ImportsTyped
  <2>5. /\ Imports!Saved \subseteq Imports!Saved'
        /\ Imports!Saved' \subseteq Imports!Saved \union {imp.id}
    BY <2>1, <2>2, <2>3, <2>4 DEF Imports!Saved, ImportsTyped
  <2>6. ImportsTyped'
    BY <1>a, <2>1, <2>4 DEF ImportsTyped, ImportState
  <2>7. InProgress'
    BY <1>a, <2>1, <2>3, <2>4, <2>5 DEF InProgress, ImportsTyped, ImportState
  <2> QED
    BY <2>1, <2>3, <2>5, <2>6, <2>7 DEF Imports!RowHasFile
<1>5. CASE Imports!Cleanup
  <2>1. /\ UNCHANGED <<prompt, side, rows, lost, edit>> /\ imp' = Imports!NoImport
        /\ \/ files' = files
           \/ imp.id \notin Imports!Saved /\ files' = files \ {imp.id}
    BY <1>5 DEF Imports!Cleanup, Imports!Kept
  <2>2. Imports!Saved' = Imports!Saved
    BY <2>1 DEF Imports!Saved
  <2>3. ImportsTyped' /\ InProgress'
    BY <1>a, <2>1, <2>2 DEF ImportsTyped, InProgress
  <2>4. \A id \in Imports!Saved : id \in files => id \in files'
    BY <2>1
  <2> QED
    BY <2>1, <2>2, <2>3, <2>4 DEF Imports!RowHasFile
<1>6. ASSUME NEW e \in Editor, NEW id \in Imports!Saved, NEW s \in Imports!Source,
             NEW confirm \in BOOLEAN, Imports!SelectSource(e, id, s, confirm)
      PROVE  ImportsInv'
  <2>1. rows[id] \in Imports!Row
    BY <1>c DEF ImportsTyped
  <2>2. /\ \E c \in rows[id].candidates : c.from = s
        /\ Imports!Begin(e, id, Imports!Selected(rows[id], s, confirm))
    BY <1>6 DEF Imports!SelectSource
  <2> DEFINE row == Imports!Selected(rows[id], s, confirm)
  <2>3. row \in Imports!Row /\ row.status # "unsaved"
    BY <2>1, <2>2, SelectedType
  <2> HIDE DEF row
  <2> QED
    BY <2>2, <2>3, BeginKeeps DEF row
<1>7. ASSUME NEW e \in Editor, NEW id \in Imports!Saved, NEW n \in Name,
             Imports!ApplyMapping(e, id, n)
      PROVE  ImportsInv'
  <2>1. rows[id] \in Imports!Row
    BY <1>c DEF ImportsTyped
  <2>2. rows[id].candidate # {} /\ Imports!Begin(e, id, Imports!Mapped(rows[id], n))
    BY <1>7 DEF Imports!ApplyMapping
  <2> DEFINE row == Imports!Mapped(rows[id], n)
  <2>3. row \in Imports!Row /\ row.status # "unsaved"
    BY <2>1, <2>2, MappedType
  <2> HIDE DEF row
  <2> QED
    BY <2>2, <2>3, BeginKeeps DEF row
<1>8. ASSUME NEW e \in Editor, Imports!Save(e)
      PROVE  ImportsInv'
  <2> DEFINE id == edit[e].id
             row == edit[e].row
  <2>1. /\ UNCHANGED <<prompt, side, files, lost, imp>> /\ edit[e].pc = "save"
        /\ edit' = [edit EXCEPT ![e] = Imports!NoEdit]
        /\ rows' = [rows EXCEPT ![id] = row] \/ rows' = rows
    BY <1>8 DEF Imports!Save
  <2>2. id \in Imports!Saved /\ row \in Imports!Row /\ row.status # "unsaved"
    BY <2>1 DEF InProgress, ImportsTyped, EditState
  <2> HIDE DEF id, row
  <2>3. rows' \in Seq(Imports!Row) /\ DOMAIN rows' = DOMAIN rows
    BY <1>c, <2>1, <2>2 DEF ImportsTyped
  <2>4. Imports!Saved' = Imports!Saved
    BY <1>c, <2>1, <2>2, <2>3 DEF Imports!Saved, ImportsTyped
  <2>5. ImportsTyped'
    BY <1>b, <2>1, <2>3 DEF ImportsTyped
  <2>6. InProgress'
    BY <1>b, <2>1, <2>3, <2>4 DEF InProgress, ImportsTyped
  <2> QED
    BY <2>1, <2>4, <2>5, <2>6 DEF Imports!RowHasFile
<1>9. ASSUME UNCHANGED <<prompt, side, rows, files, lost, imp, edit>>
      PROVE  ImportsInv'
  BY <1>9 DEF ImportsTyped, InProgress, Imports!RowHasFile, Imports!Saved
<1>10. ASSUME NEW newPod \in BOOLEAN, Imports!Restart(newPod)
       PROVE  ImportsInv'
  <2>1. /\ UNCHANGED <<prompt, side, rows>> /\ imp' = Imports!NoImport
        /\ edit' = [e \in Editor |-> Imports!NoEdit]
        /\ \/ UNCHANGED <<files, lost>>
           \/ files' = {} /\ lost' = lost \union Imports!Saved
    BY <1>10 DEF Imports!Restart
  <2>2. Imports!Saved' = Imports!Saved
    BY <2>1 DEF Imports!Saved
  <2>3. ImportsTyped' /\ InProgress'
    BY <1>a, <1>b, <2>1 DEF ImportsTyped, InProgress
  <2> QED
    BY <2>1, <2>2, <2>3 DEF Imports!RowHasFile
<1>11. ASSUME NEW id, Imports!ApplyToForm(id)
       PROVE  ImportsInv'
  BY <1>9, <1>11 DEF Imports!ApplyToForm
<1>12. ASSUME NEW c, Imports!SetCapabilities(c)
       PROVE  ImportsInv'
  BY <1>9, <1>12 DEF Imports!SetCapabilities
<1> QED
  BY <1>1, <1>2, <1>3, <1>4, <1>5, <1>6, <1>7, <1>8, <1>10, <1>11, <1>12 DEF Imports!Next

\* A saved row of an imported image has its file, unless a new Pod lost it: the file is
\* stored before its row, and removed only when the row is known to be absent.
THEOREM ImportsHaveFiles ==
    ASSUME Imports!ImportAssumption
    PROVE  Imports!Spec => []Imports!RowHasFile
<1>1. Imports!Init => ImportsInv
  BY ImportsInit
<1>2. ImportsInv /\ [Imports!Next]_(Imports!vars) => ImportsInv'
  BY ImportsStep
<1>3. ImportsInv => Imports!RowHasFile
  BY DEF ImportsInv
<1> QED
  BY <1>1, <1>2, <1>3, PTL DEF Imports!Spec

\* A row is never further than its warnings say: a selection is of the candidate the
\* row has, and where the choice is the user's and nothing is selected yet, the row
\* still says that a file is invalid.
Decides(row) ==
    \A d \in row.candidate :
        /\ row.selected # "none" => d.from = row.selected
        /\ row.selected = "none" /\ Imports!Unclear(row) => row.warnings \cap Imports!Invalid # {}

\* Of the rows, and of the ones a handler is about to save over them.
Decisive ==
    /\ \A id \in DOMAIN rows : Decides(rows[id])
    /\ \A e \in Editor : Decides(edit[e].row)

\* A new row: two candidates that differ leave it without one, and a file that could not
\* be parsed is a warning.
LEMMA ImportedDecides ==
    ASSUME ImportsTyped, NEW image \in Image, NEW s \in Sidecar \union {NoSidecar}
    PROVE  Decides(Imports!ImportedRow(image, s))
<1> DEFINE p == prompt[image]
           q == side[s]
           said == Imports!FromPrompt(p)
           beside == IF s = NoSidecar THEN {} ELSE Imports!FromSidecar(q)
           cs == said \union beside
           chosen == Imports!SelectCandidate(cs)
           row == Imports!ImportedRow(image, s)
           source == (CHOOSE c \in chosen : TRUE).from
<1>1. /\ row.image = image /\ row.sidecar = s /\ row.candidate = chosen
      /\ p.kind = "bad" => "prompt_invalid" \in row.warnings
      /\ s # NoSidecar /\ q.kind = "bad" => "sidecar_invalid" \in row.warnings
      /\ row.selected = "none" \/ (chosen # {} /\ row.selected = source)
  BY DEF Imports!ImportedRow
<1>2. /\ \A c, d \in said : c = d /\ c.from = "prompt"
      /\ \A c, d \in beside : c = d /\ c.from = "sidecar"
  BY DEF Imports!FromPrompt, Imports!FromSidecar
<1>3. /\ chosen \subseteq cs /\ \A c, d \in chosen : c = d
      /\ chosen # {} => \A c, d \in cs : c.model = d.model /\ c.complete = d.complete
  <2> HIDE DEF p, q, said, beside
  <2> QED
    BY <1>2 DEF Imports!SelectCandidate
<1>4. chosen # {} => (CHOOSE c \in chosen : TRUE) \in chosen
  <2> HIDE DEF chosen
  <2> QED
    OBVIOUS
<1>5. chosen # {} /\ Imports!Unclear(row)
        => p.kind = "bad" \/ (s # NoSidecar /\ q.kind = "bad")
  <2> SUFFICES ASSUME chosen # {}, Imports!Unclear(row), s # NoSidecar,
                      NEW c \in said, NEW d \in beside,
                      c.model # d.model \/ c.complete # d.complete
               PROVE  FALSE
    <3> HIDE DEF chosen, row
    <3> QED
      BY <1>1 DEF Imports!Unclear
  <2> HIDE DEF chosen, row, said, beside
  <2> QED
    BY <1>3
<1> HIDE DEF p, q, said, beside, chosen, row
<1>6. \A d \in chosen : chosen # {} => d.from = source
  BY <1>3, <1>4
<1>7. SUFFICES Decides(row)
  BY DEF row
<1>8. \A d \in row.candidate : row.selected # "none" => d.from = row.selected
  BY <1>1, <1>6
<1>9. \A d \in row.candidate : Imports!Unclear(row) => row.warnings \cap Imports!Invalid # {}
  BY <1>1, <1>5 DEF Imports!Invalid
<1> QED
  BY <1>8, <1>9 DEF Decides

\* A selection makes the candidate the one of the selected source.
LEMMA SelectedDecides ==
    ASSUME NEW row \in Imports!Row, NEW s \in Imports!Source, NEW confirm \in BOOLEAN,
           \E c \in row.candidates : c.from = s
    PROVE  Decides(Imports!Selected(row, s, confirm))
<1> DEFINE picked == CHOOSE d \in row.candidates : d.from = s
           c == Imports!Stripped(picked)
           new == Imports!Selected(row, s, confirm)
<1>1. picked \in Imports!Candidate /\ picked.from = s
  BY DEF Imports!Row
<1>2. c.from = s
  <2> HIDE DEF picked
  <2> QED
    BY <1>1 DEF Imports!Stripped, Imports!Candidate
<1>3. new.candidate = {c} /\ new.selected = s
  BY DEF Imports!Selected, Imports!Row
<1>4. s # "none"
  BY DEF Imports!Source
<1> HIDE DEF c, new
<1>5. Decides(new)
  BY <1>2, <1>3, <1>4 DEF Decides
<1> QED
  BY <1>5 DEF new

\* A mapping replaces a model: neither the selection nor the warning of a file goes.
LEMMA MappedDecides ==
    ASSUME NEW row \in Imports!Row, NEW target \in Name, row.candidate # {}, Decides(row)
    PROVE  Decides(Imports!Mapped(row, target))
<1> DEFINE picked == CHOOSE d \in row.candidate : TRUE
           moved == [picked EXCEPT !.model = target]
           c == Imports!Stripped(moved)
           new == Imports!Mapped(row, target)
<1>1. picked \in row.candidate /\ picked \in Imports!Candidate
  BY DEF Imports!Row
<1>2. c.from = picked.from
  <2> HIDE DEF picked
  <2> QED
    BY <1>1 DEF Imports!Stripped, Imports!Candidate
<1>3. /\ new.candidate = {c} /\ new.selected = row.selected
      /\ new.image = row.image /\ new.sidecar = row.sidecar
      /\ row.warnings \ Imports!ModelWarning \subseteq new.warnings
  BY DEF Imports!Mapped, Imports!Row
<1>4. Imports!Invalid \cap Imports!ModelWarning = {}
  BY DEF Imports!Invalid, Imports!ModelWarning
<1> HIDE DEF picked, c, new
<1>5. Imports!Unclear(new) <=> Imports!Unclear(row)
  BY <1>3 DEF Imports!Unclear
<1>6. Decides(new)
  BY <1>1, <1>2, <1>3, <1>4, <1>5 DEF Decides
<1> QED
  BY <1>6 DEF new

\* An empty row decides nothing.
LEMMA EmptyDecides == Decides(Imports!NoRow) /\ Decides(Imports!NoEdit.row)
  BY DEF Decides, Imports!NoRow, Imports!NoEdit

\* Every step leaves the rows decisive.
LEMMA DecisiveStep ==
    ASSUME ImportsInv, Decisive, [Imports!Next]_(Imports!vars)
    PROVE  Decisive'
<1> USE DEF Imports!inputs, Imports!disk
<1>1. /\ rows \in Seq(Imports!Row) /\ edit \in [Editor -> EditState]
      /\ Imports!Saved \subseteq DOMAIN rows
  BY DEF ImportsInv, ImportsTyped, Imports!Saved
<1>2. prompt' = prompt /\ side' = side
  <2>1. ASSUME NEW e, NEW id, NEW row, Imports!Begin(e, id, row)
        PROVE  prompt' = prompt /\ side' = side
    BY <2>1 DEF Imports!Begin
  <2> QED
    BY <2>1 DEF Imports!vars, Imports!Next, Imports!Import, Imports!Store, Imports!Create,
      Imports!Cleanup, Imports!SelectSource, Imports!ApplyMapping, Imports!Save,
      Imports!ApplyToForm, Imports!SetCapabilities, Imports!Restart
<1>3. ASSUME UNCHANGED <<rows, edit>> PROVE Decisive'
  BY <1>2, <1>3 DEF Decisive, Decides, Imports!Unclear
<1>4. ASSUME NEW id \in Imports!Saved, NEW e \in Editor, NEW row \in Imports!Row, Decides(row),
             Imports!Begin(e, id, row)
      PROVE  Decisive'
  <2>1. rows' = rows /\ edit' = [edit EXCEPT ![e] = [pc |-> "save", id |-> id, row |-> row]]
    BY <1>4 DEF Imports!Begin
  <2>2. \A f \in Editor : edit'[f].row = edit[f].row \/ edit'[f].row = row
    BY <1>1, <2>1
  <2> QED
    BY <1>2, <1>4, <2>1, <2>2 DEF Decisive, Decides, Imports!Unclear
<1>5. ASSUME NEW i \in Image, NEW s \in Sidecar \union {NoSidecar}, Imports!Import(i, s)
      PROVE  Decisive'
  <2>1. rows' = Append(rows, Imports!NoRow) /\ edit' = edit
    BY <1>5 DEF Imports!Import
  <2>2. \A id \in DOMAIN rows' : rows'[id] = Imports!NoRow
                                  \/ (id \in DOMAIN rows /\ rows'[id] = rows[id])
    BY <1>1, <2>1
  <2> QED
    BY <1>2, <2>1, <2>2, EmptyDecides DEF Decisive, Decides, Imports!Unclear
<1>6. ASSUME NEW k \in DOMAIN rows, NEW row \in Imports!Row, Decides(row),
             rows' = [rows EXCEPT ![k] = row],
             \A e \in Editor : edit'[e].row = edit[e].row \/ edit'[e].row = Imports!NoEdit.row
      PROVE  Decisive'
  <2>1. \A id \in DOMAIN rows' : id \in DOMAIN rows
                                  /\ (rows'[id] = row \/ rows'[id] = rows[id])
    BY <1>1, <1>6
  <2> QED
    BY <1>2, <1>6, <2>1, EmptyDecides DEF Decisive, Decides, Imports!Unclear
<1>7. CASE Imports!Create
  <2> DEFINE row == Imports!ImportedRow(imp.image, imp.sidecar)
  <2>1. imp.pc = "create" /\ edit' = edit
        /\ (rows' = [rows EXCEPT ![imp.id] = row] \/ rows' = rows)
    BY <1>7 DEF Imports!Create
  <2>2. row \in Imports!Row /\ Decides(row)
    BY ImportedType, ImportedDecides DEF ImportsInv, ImportsTyped, ImportState
  <2>3. imp.id \in DOMAIN rows
    BY <2>1 DEF ImportsInv, InProgress
  <2> HIDE DEF row
  <2> QED
    BY <1>3, <1>6, <2>1, <2>2, <2>3
<1>8. ASSUME NEW e \in Editor, Imports!Save(e)
      PROVE  Decisive'
  <2>1. /\ edit[e].pc = "save" /\ edit' = [edit EXCEPT ![e] = Imports!NoEdit]
        /\ rows' = [rows EXCEPT ![edit[e].id] = edit[e].row] \/ rows' = rows
    BY <1>8 DEF Imports!Save
  <2>2. \A f \in Editor : edit'[f].row = edit[f].row \/ edit'[f].row = Imports!NoEdit.row
    BY <1>1, <2>1
  <2>3. edit[e].id \in DOMAIN rows /\ edit[e].row \in Imports!Row
    BY <1>1, <2>1 DEF ImportsInv, InProgress, EditState
  <2>4. Decides(edit[e].row)
    BY DEF Decisive
  <2>5. CASE rows' = rows
    BY <1>2, <2>2, <2>5, EmptyDecides DEF Decisive, Decides, Imports!Unclear
  <2> QED
    BY <1>6, <2>1, <2>2, <2>3, <2>4, <2>5
<1>9. ASSUME NEW e \in Editor, NEW id \in Imports!Saved, NEW s \in Imports!Source,
             NEW confirm \in BOOLEAN, Imports!SelectSource(e, id, s, confirm)
      PROVE  Decisive'
  <2> DEFINE row == Imports!Selected(rows[id], s, confirm)
  <2>1. rows[id] \in Imports!Row /\ \E c \in rows[id].candidates : c.from = s
    BY <1>1, <1>9 DEF Imports!SelectSource
  <2>2. row \in Imports!Row /\ Decides(row) /\ Imports!Begin(e, id, row)
    BY <1>9, <2>1, SelectedType, SelectedDecides DEF Imports!SelectSource
  <2> HIDE DEF row
  <2> QED
    BY <1>4, <2>2
<1>10. ASSUME NEW e \in Editor, NEW id \in Imports!Saved, NEW n \in Name,
              Imports!ApplyMapping(e, id, n)
       PROVE  Decisive'
  <2> DEFINE row == Imports!Mapped(rows[id], n)
  <2>1. rows[id] \in Imports!Row /\ rows[id].candidate # {} /\ Decides(rows[id])
    BY <1>1, <1>10 DEF Imports!ApplyMapping, Decisive
  <2>2. row \in Imports!Row /\ Decides(row) /\ Imports!Begin(e, id, row)
    BY <1>10, <2>1, MappedType, MappedDecides DEF Imports!ApplyMapping
  <2> HIDE DEF row
  <2> QED
    BY <1>4, <2>2
<1>11. ASSUME NEW newPod \in BOOLEAN, Imports!Restart(newPod)
       PROVE  Decisive'
  <2>1. rows' = rows /\ edit' = [e \in Editor |-> Imports!NoEdit]
    BY <1>11 DEF Imports!Restart
  <2>2. \A e \in Editor : edit'[e].row = Imports!NoEdit.row
    BY <2>1
  <2> QED
    BY <1>2, <2>1, <2>2, EmptyDecides DEF Decisive, Decides, Imports!Unclear
<1>12. CASE Imports!Store \/ Imports!Cleanup
  BY <1>3, <1>12 DEF Imports!Store, Imports!Cleanup
<1>13. ASSUME NEW id, Imports!ApplyToForm(id)
       PROVE  Decisive'
  BY <1>3, <1>13 DEF Imports!ApplyToForm
<1>14. ASSUME NEW c, Imports!SetCapabilities(c)
       PROVE  Decisive'
  BY <1>3, <1>14 DEF Imports!SetCapabilities
<1>15. CASE UNCHANGED Imports!vars
  BY <1>3, <1>15 DEF Imports!vars
<1> QED
  BY <1>5, <1>7, <1>8, <1>9, <1>10, <1>11, <1>12, <1>13, <1>14, <1>15 DEF Imports!Next

\* With decisive rows, what a step applies to the form is what the user chose.
LEMMA ChosenByUser ==
    ASSUME ImportsInv, Decisive, [Imports!Next]_(Imports!vars)
    PROVE  [Imports!ChosenStep]_(Imports!vars)
<1> USE DEF Imports!ChosenStep
<1>1. CASE form' = form
  BY <1>1
<1>2. ASSUME NEW id \in Imports!Saved, Imports!ApplyToForm(id), Imports!Unclear(rows[id])
      PROVE  form'.id = id /\ form'.from = rows[id].selected
  <2> DEFINE c == CHOOSE d \in rows[id].candidate : TRUE
  <2>1. /\ rows[id].candidate # {} /\ ~Imports!Blocked(rows[id])
        /\ form'.id = id /\ form'.from = c.from
    BY <1>2 DEF Imports!ApplyToForm
  <2>2. c \in rows[id].candidate
    BY <2>1
  <2> HIDE DEF c
  <2>3. rows[id].warnings \cap Imports!Invalid = {}
    BY <2>1, <2>2 DEF Imports!Blocked, Imports!Blocking, Imports!Invalid, Imports!ModelWarning
  <2>4. Decides(rows[id])
    BY DEF Decisive, Imports!Saved
  <2> QED
    BY <1>2, <2>1, <2>2, <2>3, <2>4 DEF Decides
<1>3. ASSUME NEW id, Imports!ApplyToForm(id)
      PROVE  form'.id = id
  BY <1>3 DEF Imports!ApplyToForm
<1>4. ASSUME NEW newPod, Imports!Restart(newPod)
      PROVE  form'.id = 0
  BY <1>4 DEF Imports!Restart
<1>5. CASE Imports!Next /\ form' # form
  <2>1. ASSUME NEW e, NEW id, NEW row, Imports!Begin(e, id, row)
        PROVE  form' = form
    BY <2>1 DEF Imports!Begin
  <2>2. (\E id \in Imports!Saved : Imports!ApplyToForm(id))
          \/ \E newPod \in BOOLEAN : Imports!Restart(newPod)
    BY <1>5, <2>1
    DEF Imports!Next, Imports!Import, Imports!Store, Imports!Create, Imports!Cleanup,
        Imports!SelectSource, Imports!ApplyMapping, Imports!Save, Imports!SetCapabilities
  <2> QED
    BY <1>2, <1>3, <1>4, <2>2
<1>6. CASE UNCHANGED Imports!vars
  BY <1>6
<1> QED
  BY <1>1, <1>5, <1>6

\* An import whose sources leave a choice reaches the form only in the source that was
\* selected: a candidate is kept with its selection by every selection and mapping, so
\* also by the one that saves a row another handler has changed, and without a selection
\* the warning that blocks it stays.
THEOREM ImportsChosen ==
    ASSUME Imports!ImportAssumption
    PROVE  Imports!Spec => Imports!UnclearIsChosen
<1>1. Imports!Init => ImportsInv /\ Decisive
  <2> SUFFICES ASSUME Imports!Init PROVE ImportsInv /\ Decisive
    OBVIOUS
  <2>1. rows = <<>> /\ edit = [e \in Editor |-> Imports!NoEdit]
    BY DEF Imports!Init
  <2>2. DOMAIN rows = {} /\ \A e \in Editor : edit[e].row = Imports!NoEdit.row
    BY <2>1
  <2> QED
    BY <2>2, ImportsInit, EmptyDecides DEF Decisive, Decides, Imports!Unclear
<1>2. ImportsInv /\ Decisive /\ [Imports!Next]_(Imports!vars) => (ImportsInv /\ Decisive)'
  BY ImportsStep, DecisiveStep
<1>3. ImportsInv /\ Decisive /\ [Imports!Next]_(Imports!vars)
        => [Imports!ChosenStep]_(Imports!vars)
  BY ChosenByUser
<1> QED
  BY <1>1, <1>2, <1>3, PTL DEF Imports!Spec, Imports!UnclearIsChosen

-----------------------------------------------------------------------------
(* Upscales.                                                                *)

Size == [w : Nat, h : Nat]

\* What an upscale may be planned for.
Planned == {t \in Size : t.w % 64 = 0 /\ t.h % 64 = 0 /\ t.w * t.h <= Limit.pixels}

\* What ComfyUI may have got of a source: its registered bytes, or others that the file
\* took on after it was verified.
Bytes == {"own", "slipped"}

JobRow == [src : Upscales!UpscaleSource, method : Upscales!Method,
           model : Upscaler \union {NoModel}, target : Planned,
           status : {"queued", "running", "prompted", "completed", "failed"},
           retried : BOOLEAN, sent : {"none"} \union Bytes, stored : SUBSET Size]

\* ComfyUI has a prompt only of a job whose source it got, and a completed job has
\* stored what was planned.
Sound(j) ==
    /\ j.status \in {"prompted", "completed"} => j.sent \in Bytes
    /\ j.status = "completed" => j.stored = {j.target}

SoundRow == {j \in JobRow : Sound(j)}

TabState == [parent : Parent \union {NoSource}, import : Imported \union {NoSource},
             shown : Upscales!UpscaleSource \union {NoSource}, method : Upscales!Method,
             model : Upscaler \union {NoModel}]

TabTyped ==
    /\ tab \in TabState
    /\ answers \in [Upscales!Chooser -> Parent \union {NoSource}]
    /\ request \subseteq [tab : TabState, size : Sizing]

\* The source of the job in hand is the registered one until it is read, unless it changed
\* since it was verified; it has been read before it is uploaded, and uploaded before it
\* is a prompt.
Working ==
    /\ file \in [Upscales!UpscaleSource -> {"own", "changed", "gone"}]
    /\ work \in [pc : {"idle", "read", "preflight", "upload", "prompt", "watch"}, job : Nat,
                 bytes : {"none"} \union Bytes, late : BOOLEAN]
    /\ work.pc # "idle" => work.job \in DOMAIN jobs
    /\ work.pc = "read" /\ ~work.late => file[jobs[work.job].src] = "own"
    /\ work.pc \in {"preflight", "upload"} => work.bytes \in Bytes
    /\ work.pc \in {"prompt", "watch"} => jobs[work.job].sent \in Bytes

UpscalesInv == TabTyped /\ jobs \in Seq(SoundRow) /\ Working

\* Sizes are rounded to multiples of 64.
LEMMA Aligned ==
    ASSUME NEW n \in Nat
    PROVE  Upscales!AlignUp(n) \in Nat /\ Upscales!AlignUp(n) % 64 = 0
<1> DEFINE k == (n + 63) \div 64
<1>1. k \in Nat
  OBVIOUS
<1>2. Upscales!AlignUp(n) = k * 64
  BY DEF Upscales!AlignUp
<1> HIDE DEF k
<1> QED
  BY <1>1, <1>2

\* A size the service accepts can be planned.
LEMMA ResolvedPlanned ==
    ASSUME Upscales!UpscaleAssumption, NEW size \in Sizing, NEW from \in Size,
           NEW t \in Upscales!Resolved(size, from)
    PROVE  t \in Planned
<1>1. t.w * t.h <= Limit.pixels
  BY DEF Upscales!Resolved
<1>2. CASE size.mode = "factor"
  <2>1. size.factor \in Nat
    BY <1>2 DEF Upscales!UpscaleAssumption
  <2> DEFINE w == (from.w * size.factor + 99) \div 100
             h == (from.h * size.factor + 99) \div 100
  <2>2. from.w * size.factor \in Nat /\ from.h * size.factor \in Nat
    BY <2>1 DEF Size
  <2>3. w \in Nat /\ h \in Nat
    <3> DEFINE a == from.w * size.factor
               b == from.h * size.factor
    <3>1. a \in Nat /\ b \in Nat
      BY <2>2
    <3> HIDE DEF a, b
    <3>2. (a + 99) \div 100 \in Nat /\ (b + 99) \div 100 \in Nat
      BY <3>1
    <3> QED
      BY <3>2 DEF a, b
  <2>4. t = [w |-> Upscales!AlignUp(w), h |-> Upscales!AlignUp(h)]
    BY <1>2 DEF Upscales!Resolved
  <2> HIDE DEF w, h
  <2>5. t \in Size /\ t.w % 64 = 0 /\ t.h % 64 = 0
    BY <2>3, <2>4, Aligned DEF Size
  <2> QED
    BY <1>1, <2>5 DEF Planned
<1>3. CASE size.mode # "factor"
  <2>1. size.mode = "dimensions" /\ size.w \in Nat /\ size.h \in Nat
    BY <1>3 DEF Upscales!UpscaleAssumption
  <2>2. t = [w |-> size.w, h |-> size.h] /\ t.w % 64 = 0 /\ t.h % 64 = 0
    BY <1>3, <2>1 DEF Upscales!Resolved
  <2> QED
    BY <1>1, <2>1, <2>2 DEF Planned, Size
<1> QED
  BY <1>2, <1>3

\* A change of one job that leaves it sound leaves them all sound.
LEMMA JobChanged ==
    ASSUME jobs \in Seq(SoundRow), NEW i \in DOMAIN jobs, NEW j \in SoundRow,
           jobs' = [jobs EXCEPT ![i] = j]
    PROVE  /\ jobs' \in Seq(SoundRow) /\ DOMAIN jobs' = DOMAIN jobs /\ jobs'[i] = j
           /\ \A k \in DOMAIN jobs : k # i => jobs'[k] = jobs[k]
  OBVIOUS

\* A job that ends, or moves on, without new files.
LEMMA EndsSound ==
    ASSUME jobs \in Seq(SoundRow), NEW i \in DOMAIN jobs,
           NEW outcome \in {"running", "prompted", "failed"}, Upscales!Ends(i, outcome),
           outcome = "prompted" => jobs[i].sent \in Bytes
    PROVE  /\ jobs' \in Seq(SoundRow) /\ DOMAIN jobs' = DOMAIN jobs
           /\ \A k \in DOMAIN jobs : jobs'[k].sent = jobs[k].sent
<1> DEFINE j == [jobs[i] EXCEPT !.status = outcome]
<1>1. jobs[i] \in SoundRow
  OBVIOUS
<1>2. j \in SoundRow /\ j.sent = jobs[i].sent
  BY <1>1 DEF SoundRow, JobRow, Sound
<1>3. jobs' = [jobs EXCEPT ![i] = j]
  BY DEF Upscales!Ends
<1> HIDE DEF j
<1> QED
  BY <1>2, <1>3, JobChanged

\* What comes back from ComfyUI for a job that it got the source of.
LEMMA ReceivedSound ==
    ASSUME jobs \in Seq(SoundRow), NEW i \in DOMAIN jobs, jobs[i].sent \in Bytes,
           Upscales!Received(i)
    PROVE  jobs' \in Seq(SoundRow) /\ DOMAIN jobs' = DOMAIN jobs
<1>1. CASE Upscales!Ends(i, "failed")
  BY <1>1, EndsSound
<1>2. CASE ~Upscales!Ends(i, "failed")
  <2>1. PICK size \in Upscales!Output(jobs[i]) :
            jobs' = [jobs EXCEPT
                       ![i].stored = IF Upscales!Fits(jobs[i], size) THEN {size} ELSE {},
                       ![i].status = IF Upscales!Fits(jobs[i], size) THEN "completed" ELSE "failed"]
    BY <1>2 DEF Upscales!Received
  <2> DEFINE stored == IF Upscales!Fits(jobs[i], size) THEN {size} ELSE {}
             outcome == IF Upscales!Fits(jobs[i], size) THEN "completed" ELSE "failed"
             j == [jobs[i] EXCEPT !.stored = stored, !.status = outcome]
  <2>2. jobs[i] \in JobRow /\ jobs[i].target \in Size
    BY DEF SoundRow, JobRow, Planned
  <2>3. /\ stored \in SUBSET Size /\ outcome \in {"completed", "failed"}
        /\ outcome = "completed" => stored = {jobs[i].target}
    BY <2>2 DEF Upscales!Fits
  <2>4. jobs' = [jobs EXCEPT ![i] = j]
    BY <2>1, <2>2 DEF JobRow
  <2> HIDE DEF stored, outcome
  <2>5. j \in SoundRow
    BY <2>2, <2>3 DEF SoundRow, JobRow, Sound
  <2> HIDE DEF j
  <2> QED
    BY <2>4, <2>5, JobChanged
<1> QED
  BY <1>1, <1>2

\* The initial state.
LEMMA UpscalesInit ==
    ASSUME Upscales!Init
    PROVE  UpscalesInv
<1>1. Upscales!EmptyTab \in TabState
  BY DEF Upscales!EmptyTab, TabState, Upscales!Method
<1>2. TabTyped
  BY <1>1 DEF Upscales!Init, TabTyped
<1>3. jobs \in Seq(SoundRow) /\ Working
  BY DEF Upscales!Init, Upscales!Idle, Working
<1> QED
  BY <1>2, <1>3 DEF UpscalesInv

\* A click's request that is accepted is for a source there is, of a size that can be
\* planned.
LEMMA RequestPlanned ==
    ASSUME Upscales!UpscaleAssumption, TabTyped, NEW r \in request, Upscales!Accepted(r),
           NEW target \in Upscales!Resolved(r.size, SourceSize[Upscales!Effective(r.tab)])
    PROVE  Upscales!NewJob(Upscales!Effective(r.tab), r.tab, target) \in SoundRow
<1> DEFINE s == Upscales!Effective(r.tab)
<1>1. r.tab \in TabState /\ r.size \in Sizing
  BY DEF TabTyped
<1>2. s # NoSource
  BY DEF Upscales!Accepted
<1>3. s \in Upscales!UpscaleSource
  BY <1>1, <1>2 DEF Upscales!Effective, TabState, Upscales!UpscaleSource
<1>4. SourceSize[s] \in Size
  BY <1>3 DEF Upscales!UpscaleAssumption, Size
<1>5. target \in Planned
  BY <1>1, <1>4, ResolvedPlanned
<1> HIDE DEF s
<1>6. r.tab.method \in Upscales!Method /\ r.tab.model \in Upscaler \union {NoModel}
  BY <1>1 DEF TabState
<1>7. Upscales!NewJob(s, r.tab, target) \in SoundRow
  BY <1>3, <1>5, <1>6 DEF Upscales!NewJob, SoundRow, JobRow, Sound
<1> QED
  BY <1>7 DEF s

\* What the tab does leaves the jobs alone, and stays typed.
LEMMA TabSteps ==
    ASSUME TabTyped,
           \/ \E ch \in Upscales!Chooser, g \in Parent : Upscales!Choose(ch, g)
           \/ \E ch \in Upscales!Chooser : Upscales!Answer(ch) \/ Upscales!Clear(ch)
           \/ \E i \in Imported : Upscales!ApplyImport(i)
           \/ \E m \in Upscales!Method, u \in Upscaler \union {NoModel} : Upscales!EditTab(m, u)
           \/ Upscales!RefreshChoices
           \/ \E size \in Sizing : Upscales!Click(size)
    PROVE  TabTyped' /\ UNCHANGED <<jobs, work, file>>
<1> USE DEF TabTyped, Upscales!world
<1>1. ASSUME NEW ch \in Upscales!Chooser, NEW g \in Parent, Upscales!Choose(ch, g)
      PROVE  TabTyped' /\ UNCHANGED <<jobs, work, file>>
  BY <1>1 DEF Upscales!Choose
<1>2. ASSUME NEW ch \in Upscales!Chooser, Upscales!Answer(ch)
      PROVE  TabTyped' /\ UNCHANGED <<jobs, work, file>>
  <2> DEFINE g == IF file[answers[ch]] = "own" THEN answers[ch] ELSE NoSource
  <2>1. /\ tab' = [tab EXCEPT !.parent = g, !.shown = g] /\ UNCHANGED <<request, jobs, work, file>>
        /\ answers' = [answers EXCEPT ![ch] = NoSource]
    BY <1>2 DEF Upscales!Answer
  <2>2. g \in Parent \union {NoSource}
    OBVIOUS
  <2> HIDE DEF g
  <2>3. tab' \in TabState
    BY <2>1, <2>2 DEF TabState, Upscales!UpscaleSource
  <2> QED
    BY <2>1, <2>3
<1>3. ASSUME NEW ch \in Upscales!Chooser, Upscales!Clear(ch)
      PROVE  TabTyped' /\ UNCHANGED <<jobs, work, file>>
  BY <1>3 DEF Upscales!Clear, TabState
<1>4. ASSUME NEW i \in Imported, Upscales!ApplyImport(i)
      PROVE  TabTyped' /\ UNCHANGED <<jobs, work, file>>
  <2> DEFINE s == IF file[i] = "own" THEN i ELSE NoSource
  <2>1. /\ tab' = [tab EXCEPT !.import = s, !.parent = NoSource, !.shown = s]
        /\ UNCHANGED <<answers, request, jobs, work, file>>
    BY <1>4 DEF Upscales!ApplyImport
  <2>2. s \in Imported \union {NoSource}
    OBVIOUS
  <2> HIDE DEF s
  <2>3. tab' \in TabState
    BY <2>1, <2>2 DEF TabState, Upscales!UpscaleSource
  <2> QED
    BY <2>1, <2>3
<1>5. ASSUME NEW m \in Upscales!Method, NEW u \in Upscaler \union {NoModel},
             Upscales!EditTab(m, u)
      PROVE  TabTyped' /\ UNCHANGED <<jobs, work, file>>
  <2>1. tab' = [tab EXCEPT !.method = m, !.model = u] /\ UNCHANGED <<answers, request, jobs, work, file>>
    BY <1>5 DEF Upscales!EditTab
  <2>2. tab' \in TabState
    BY <2>1 DEF TabState
  <2> QED
    BY <2>1, <2>2
<1>6. CASE Upscales!RefreshChoices
  BY <1>6 DEF Upscales!RefreshChoices, TabState
<1>7. ASSUME NEW size \in Sizing, Upscales!Click(size)
      PROVE  TabTyped' /\ UNCHANGED <<jobs, work, file>>
  BY <1>7 DEF Upscales!Click
<1> QED
  BY <1>1, <1>2, <1>3, <1>4, <1>5, <1>6, <1>7

\* Every step keeps the invariant.
LEMMA UpscalesStep ==
    ASSUME Upscales!UpscaleAssumption, UpscalesInv, [Upscales!Next]_(Upscales!uvars)
    PROVE  UpscalesInv'
<1> USE DEF UpscalesInv
<1> USE DEF Upscales!ui, Upscales!world
<1>1. ASSUME UNCHANGED <<jobs, work, file>>, TabTyped'
      PROVE  UpscalesInv'
  BY <1>1 DEF Working
<1>2. ASSUME UNCHANGED <<tab, answers, request>>
      PROVE  TabTyped'
  BY <1>2 DEF TabTyped
<1>3. CASE UNCHANGED Upscales!uvars
  BY <1>1, <1>2, <1>3 DEF Upscales!uvars
<1>4. CASE Upscales!Enqueue
  <2>1. PICK r \in request : /\ request' = {} /\ UNCHANGED <<tab, answers, work, file>>
                             /\ \/ /\ Upscales!Accepted(r)
                                   /\ \E target \in Upscales!Resolved(r.size,
                                                       SourceSize[Upscales!Effective(r.tab)]) :
                                        jobs' = Append(jobs, Upscales!NewJob(
                                                               Upscales!Effective(r.tab), r.tab, target))
                                \/ UNCHANGED jobs
    BY <1>4 DEF Upscales!Enqueue
  <2>2. TabTyped'
    BY <2>1 DEF TabTyped
  <2>3. ASSUME NEW j \in SoundRow, jobs' = Append(jobs, j)
        PROVE  UpscalesInv'
    <3>1. /\ jobs' \in Seq(SoundRow) /\ DOMAIN jobs \subseteq DOMAIN jobs'
          /\ \A k \in DOMAIN jobs : jobs'[k] = jobs[k]
      BY <2>3
    <3> QED
      BY <2>1, <2>2, <3>1 DEF Working
  <2> QED
    BY <1>1, <2>1, <2>2, <2>3, RequestPlanned
<1>5. ASSUME NEW i \in DOMAIN jobs, Upscales!Retry(i)
      PROVE  UpscalesInv'
  <2> DEFINE old == [jobs[i] EXCEPT !.retried = TRUE]
             new == [jobs[i] EXCEPT !.status = "queued", !.sent = "none"]
             marked == [jobs EXCEPT ![i] = old]
  <2>1. jobs' = Append(marked, new) /\ UNCHANGED <<tab, answers, request, work, file>>
    BY <1>5 DEF Upscales!Retry
  <2>2. jobs[i] \in SoundRow
    OBVIOUS
  <2>3. old \in SoundRow /\ new \in SoundRow /\ old.sent = jobs[i].sent /\ old.src = jobs[i].src
    BY <2>2 DEF SoundRow, JobRow, Sound
  <2> HIDE DEF old, new
  <2>4. /\ marked \in Seq(SoundRow) /\ DOMAIN marked = DOMAIN jobs
        /\ \A k \in DOMAIN jobs : marked[k].sent = jobs[k].sent /\ marked[k].src = jobs[k].src
    BY <2>3
  <2> HIDE DEF marked
  <2>5. /\ jobs' \in Seq(SoundRow) /\ DOMAIN jobs \subseteq DOMAIN jobs'
        /\ \A k \in DOMAIN jobs : jobs'[k].sent = jobs[k].sent /\ jobs'[k].src = jobs[k].src
    BY <2>1, <2>3, <2>4
  <2> QED
    BY <1>2, <2>1, <2>5 DEF Working
<1>6. ASSUME NEW i \in DOMAIN jobs, NEW outcome \in {"running", "failed"},
             Upscales!Ends(i, outcome), UNCHANGED <<tab, answers, request, file>>,
             work' = Upscales!Idle \/ (work.pc = "idle" /\ UNCHANGED work)
      PROVE  UpscalesInv'
  <2>1. jobs' \in Seq(SoundRow) /\ DOMAIN jobs' = DOMAIN jobs
    BY <1>6, EndsSound
  <2>2. CASE work' = Upscales!Idle
    BY <1>2, <1>6, <2>1, <2>2 DEF Working, Upscales!Idle, Bytes
  <2>3. CASE work.pc = "idle" /\ UNCHANGED work
    BY <1>2, <1>6, <2>1, <2>3 DEF Working
  <2> QED
    BY <1>6, <2>2, <2>3
<1>7. CASE Upscales!Start
  <2>1. PICK i \in DOMAIN jobs :
           IF Upscales!Verified(jobs[i].src)
           THEN /\ Upscales!Ends(i, "running")
                /\ work' = [Upscales!Idle EXCEPT !.pc = "read", !.job = i]
           ELSE Upscales!Ends(i, "failed") /\ UNCHANGED work
    BY <1>7 DEF Upscales!Start
  <2>2. work.pc = "idle" /\ UNCHANGED <<tab, answers, request, file>>
    BY <1>7 DEF Upscales!Start
  <2>3. CASE Upscales!Verified(jobs[i].src)
    <3>1. /\ work' = [pc |-> "read", job |-> i, bytes |-> "none", late |-> FALSE]
          /\ Upscales!Ends(i, "running") /\ file[jobs[i].src] = "own"
      BY <2>1, <2>3 DEF Upscales!Verified, Upscales!Idle
    <3>2. jobs' \in Seq(SoundRow) /\ DOMAIN jobs' = DOMAIN jobs
      BY <3>1, EndsSound
    <3>3. jobs'[i].src = jobs[i].src
      <4>1. jobs[i] \in JobRow
        BY DEF SoundRow
      <4> QED
        BY <3>1, <4>1 DEF Upscales!Ends, JobRow
    <3> QED
      BY <1>2, <2>2, <3>1, <3>2, <3>3 DEF Working
  <2> QED
    BY <1>6, <2>1, <2>2, <2>3
<1>17. CASE Upscales!ReadSource
  <2> DEFINE found == file[jobs[work.job].src]
  <2>1. work.pc = "read" /\ UNCHANGED <<tab, answers, request, file>> /\ work.job \in DOMAIN jobs
    BY <1>17 DEF Upscales!ReadSource, Working
  <2>2. found \in {"own", "changed", "gone"} /\ (~work.late => found = "own")
    <3>1. jobs[work.job] \in JobRow
      BY <2>1 DEF SoundRow
    <3> QED
      BY <2>1, <3>1 DEF Working, JobRow
  <2>3. CASE found = "gone"
    BY <1>6, <1>17, <2>1, <2>3 DEF Upscales!ReadSource
  <2>4. CASE found # "gone"
    <3> DEFINE bytes == IF found # "own" /\ work.late THEN "slipped" ELSE found
    <3>1. /\ work' = [work EXCEPT !.pc = "preflight", !.late = FALSE, !.bytes = bytes]
          /\ UNCHANGED jobs
      BY <1>17, <2>4 DEF Upscales!ReadSource
    <3>2. bytes \in Bytes
      BY <2>2, <2>4 DEF Bytes
    <3> HIDE DEF found, bytes
    <3> QED
      BY <1>2, <2>1, <3>1, <3>2 DEF Working
  <2> QED
    BY <2>3, <2>4
<1>8. CASE Upscales!Preflight
  <2>1. work.pc = "preflight" /\ UNCHANGED <<tab, answers, request, file>> /\ work.job \in DOMAIN jobs
    BY <1>8 DEF Upscales!Preflight, Working
  <2>2. CASE work' = [work EXCEPT !.pc = "upload"] /\ UNCHANGED jobs
    BY <1>2, <2>1, <2>2 DEF Working
  <2> QED
    BY <1>6, <1>8, <2>1, <2>2 DEF Upscales!Preflight
<1>9. CASE Upscales!Upload
  <2>1. work.pc = "upload" /\ UNCHANGED <<tab, answers, request, file>> /\ work.job \in DOMAIN jobs
    BY <1>9 DEF Upscales!Upload, Working
  <2>2. CASE /\ jobs' = [jobs EXCEPT ![work.job].sent = work.bytes]
             /\ work' = [work EXCEPT !.pc = "prompt"]
    <3> DEFINE i == work.job
               j == [jobs[i] EXCEPT !.sent = work.bytes]
    <3>1. jobs' = [jobs EXCEPT ![i] = j]
      BY <2>1, <2>2 DEF Working
    <3>2. jobs[i] \in SoundRow
      BY <2>1
    <3>5. work.bytes \in Bytes
      BY <2>1 DEF Working
    <3>3. j \in SoundRow /\ j.sent \in Bytes
      BY <3>2, <3>5 DEF SoundRow, JobRow, Sound
    <3> HIDE DEF j
    <3>4. jobs' \in Seq(SoundRow) /\ DOMAIN jobs' = DOMAIN jobs /\ jobs'[i].sent \in Bytes
      BY <2>1, <3>1, <3>3, JobChanged
    <3> QED
      BY <1>2, <2>1, <2>2, <3>4 DEF Working
  <2> QED
    BY <1>6, <1>9, <2>1, <2>2 DEF Upscales!Upload
<1>10. CASE Upscales!Prompt
  <2>1. /\ work.pc = "prompt" /\ UNCHANGED <<tab, answers, request, file>> /\ work.job \in DOMAIN jobs
        /\ jobs[work.job].sent \in Bytes
    BY <1>10 DEF Upscales!Prompt, Working
  <2>2. CASE Upscales!Ends(work.job, "prompted") /\ work' = [work EXCEPT !.pc = "watch"]
    <3>1. /\ jobs' \in Seq(SoundRow) /\ DOMAIN jobs' = DOMAIN jobs
          /\ jobs'[work.job].sent \in Bytes
      BY <2>1, <2>2, EndsSound
    <3> QED
      BY <1>2, <2>1, <2>2, <3>1 DEF Working
  <2> QED
    BY <1>6, <1>10, <2>1, <2>2 DEF Upscales!Prompt
<1>11. CASE Upscales!Finish
  <2>1. /\ work.pc = "watch" /\ Upscales!Received(work.job) /\ work' = Upscales!Idle
        /\ UNCHANGED <<tab, answers, request, file>>
    BY <1>11 DEF Upscales!Finish
  <2>2. work.job \in DOMAIN jobs /\ jobs[work.job].sent \in Bytes
    BY <2>1 DEF Working
  <2> QED
    BY <1>2, <2>1, <2>2, ReceivedSound DEF Working, Upscales!Idle
<1>12. CASE Upscales!Reconcile
  <2>1. PICK i \in DOMAIN jobs : jobs[i].status = "prompted" /\ Upscales!Received(i)
    BY <1>12 DEF Upscales!Reconcile
  <2>2. work.pc = "idle" /\ UNCHANGED <<tab, answers, request, work, file>>
    BY <1>12 DEF Upscales!Reconcile
  <2>3. jobs[i].sent \in Bytes
    <3>1. jobs[i] \in SoundRow
      OBVIOUS
    <3> QED
      BY <2>1, <3>1 DEF SoundRow, Sound
  <2> QED
    BY <1>2, <2>1, <2>2, <2>3, ReceivedSound DEF Working
<1>13. CASE Upscales!RestartUpscale
  <2>1. /\ work' = Upscales!Idle /\ tab' = Upscales!EmptyTab /\ request' = {} /\ file' = file
        /\ answers' = [ch \in Upscales!Chooser |-> NoSource]
        /\ jobs' = [i \in DOMAIN jobs |->
                      IF jobs[i].status = "running" THEN [jobs[i] EXCEPT !.status = "queued"]
                      ELSE jobs[i]]
    BY <1>13 DEF Upscales!RestartUpscale
  <2>2. TabTyped'
    BY <2>1 DEF TabTyped, TabState, Upscales!EmptyTab, Upscales!Method
  <2>3. \A i \in DOMAIN jobs : jobs'[i] \in SoundRow
    <3> SUFFICES ASSUME NEW i \in DOMAIN jobs PROVE jobs'[i] \in SoundRow
      OBVIOUS
    <3>1. jobs[i] \in SoundRow
      OBVIOUS
    <3>2. [jobs[i] EXCEPT !.status = "queued"] \in SoundRow
      BY <3>1 DEF SoundRow, JobRow, Sound
    <3> QED
      BY <2>1, <3>1, <3>2
  <2>4. jobs' \in Seq(SoundRow)
    <3>1. Len(jobs) \in Nat /\ DOMAIN jobs = 1 .. Len(jobs)
      OBVIOUS
    <3>2. jobs' \in [1 .. Len(jobs) -> SoundRow]
      BY <2>1, <2>3, <3>1
    <3> QED
      BY <3>1, <3>2
  <2> QED
    BY <2>1, <2>2, <2>4 DEF Working, Upscales!Idle
<1>14. ASSUME NEW s \in Upscales!UpscaleSource, NEW c \in {"changed", "gone"},
              Upscales!FileChanges(s, c)
       PROVE  UpscalesInv'
  <2>1. /\ file' = [file EXCEPT ![s] = c] /\ UNCHANGED <<tab, answers, request, jobs>>
        /\ work' = IF work.pc = "read" /\ jobs[work.job].src = s
                   THEN [work EXCEPT !.late = TRUE] ELSE work
    BY <1>14 DEF Upscales!FileChanges
  <2>2. file' \in [Upscales!UpscaleSource -> {"own", "changed", "gone"}]
    BY <2>1 DEF Working
  <2>3. work.pc = "read" /\ jobs[work.job].src # s
          => file'[jobs[work.job].src] = file[jobs[work.job].src]
    <3> SUFFICES ASSUME work.pc = "read" PROVE jobs[work.job].src \in Upscales!UpscaleSource
      BY <2>1 DEF Working
    <3>1. jobs[work.job] \in SoundRow
      BY DEF Working
    <3> QED
      BY <3>1 DEF SoundRow, JobRow
  <2> QED
    BY <1>2, <2>1, <2>2, <2>3 DEF Working
<1>15. ASSUME NEW models, Upscales!SetInstalled(models)
       PROVE  UpscalesInv'
  BY <1>1, <1>2, <1>15 DEF Upscales!SetInstalled
<1>16. ASSUME \/ \E ch \in Upscales!Chooser, g \in Parent : Upscales!Choose(ch, g)
              \/ \E ch \in Upscales!Chooser : Upscales!Answer(ch) \/ Upscales!Clear(ch)
              \/ \E i \in Imported : Upscales!ApplyImport(i)
              \/ \E m \in Upscales!Method, u \in Upscaler \union {NoModel} : Upscales!EditTab(m, u)
              \/ Upscales!RefreshChoices
              \/ \E size \in Sizing : Upscales!Click(size)
       PROVE  UpscalesInv'
  BY <1>1, <1>16, TabSteps
<1> QED
  BY <1>3, <1>4, <1>5, <1>7, <1>8, <1>9, <1>10, <1>11, <1>12, <1>13, <1>14, <1>15, <1>16, <1>17
  DEF Upscales!Next

\* What is upscaled is what was chosen and what is kept is what was planned, for all sizes,
\* limits, sources and schedules: the bytes ComfyUI got are the registered ones unless the
\* file changed between the worker's verification and its reading, and a completed upscale
\* has the planned size.
THEOREM UpscalesPlanned ==
    ASSUME Upscales!UpscaleAssumption
    PROVE  Upscales!Spec => []Upscales!UpscaledAsPlanned
<1>1. Upscales!Init => UpscalesInv
  BY UpscalesInit
<1>2. UpscalesInv /\ [Upscales!Next]_(Upscales!uvars) => UpscalesInv'
  BY UpscalesStep
<1>3. UpscalesInv => Upscales!UpscaledAsPlanned
  <2> SUFFICES ASSUME UpscalesInv, NEW i \in DOMAIN jobs
               PROVE  /\ jobs[i].sent \in {"none", "own", "slipped"}
                      /\ jobs[i].status = "completed" =>
                            /\ jobs[i].stored = {jobs[i].target} /\ jobs[i].sent # "none"
                            /\ \A size \in jobs[i].stored :
                                  /\ size.w % 64 = 0 /\ size.h % 64 = 0
                                  /\ size.w * size.h <= Limit.pixels
    BY DEF Upscales!UpscaledAsPlanned
  <2>1. jobs[i] \in SoundRow
    BY DEF UpscalesInv
  <2>2. jobs[i].target \in Planned
    BY <2>1 DEF SoundRow, JobRow
  <2> QED
    BY <2>1, <2>2 DEF SoundRow, JobRow, Sound, Bytes, Planned
<1> QED
  BY <1>1, <1>2, <1>3, PTL DEF Upscales!Spec

-----------------------------------------------------------------------------
(* Presets.                                                                 *)

FormState == [words : SUBSET Word, loras : SUBSET Lora, fixed : BOOLEAN, seed : Presets!SeedMode]

PresetTab == [selected : Preset \union {NoPreset}, kind : Presets!Kind, title : Title \union {""},
              favorite : BOOLEAN, confirmed : BOOLEAN, append : BOOLEAN]

PayloadState == [words : SUBSET Word, loras : SUBSET Lora, fixed : BOOLEAN,
                 seed : Presets!SeedMode, append : BOOLEAN]

PresetRow == [kind : Presets!Kind, title : Title, uses : Nat, favorite : BOOLEAN,
              payload : PayloadState]

Op == {"save", "update", "duplicate", "delete", "apply", "select", "favorite"}

CallState == [op : Op \union {"none"}, pc : {"idle", "read", "write", "answer"},
              tab : PresetTab, form : FormState, got : SUBSET PresetRow]

\* The table has rows, and history remembers them all.
TableTyped ==
    /\ presets \in [DOMAIN presets -> PresetRow]
    /\ DOMAIN presets \subseteq spent /\ spent \subseteq Preset

\* What the tab, the form and the handlers work with are values of theirs: what a handler
\* has read is rows, with a count of uses.
HandlersTyped ==
    /\ ptab \in PresetTab /\ gform \in FormState
    /\ calls \in [Handler -> CallState]

PresetsInv == TableTyped /\ HandlersTyped

\* What a preset keeps of a form.
LEMMA PayloadType ==
    ASSUME NEW kind, NEW f \in FormState, NEW append \in BOOLEAN
    PROVE  Presets!Payload(kind, f, append) \in PayloadState
<1> DEFINE fixed == kind = "generation" /\ Presets!Seeded(f)
           words == IF kind = "lora" THEN {} ELSE f.words
           loras == IF kind = "prompt" THEN {} ELSE f.loras
           seed == IF kind = "generation" THEN f.seed ELSE "random"
           appends == kind = "prompt" /\ append
<1>1. fixed \in BOOLEAN /\ appends \in BOOLEAN
  OBVIOUS
<1>2. words \in SUBSET Word /\ loras \in SUBSET Lora /\ seed \in Presets!SeedMode
  BY DEF FormState, Presets!SeedMode
<1>3. Presets!Payload(kind, f, append) = [words |-> words, loras |-> loras, fixed |-> fixed,
                                          seed |-> seed, append |-> appends]
  BY DEF Presets!Payload
<1> HIDE DEF fixed, words, loras, seed, appends
<1> QED
  BY <1>1, <1>2, <1>3 DEF PayloadState

\* What a form becomes when a preset is applied to it.
LEMMA AppliedType ==
    ASSUME NEW row \in PresetRow, NEW f \in FormState, NEW append \in BOOLEAN
    PROVE  Presets!Applied(row, f, append) \in FormState
<1> DEFINE pay == row.payload
           words == pay.words \union (IF row.kind = "lora" \/ append THEN f.words ELSE {})
           loras == pay.loras \union (IF row.kind = "prompt" \/ append THEN f.loras ELSE {})
           fixed == pay.seed # "random"
           kept == Presets!Seeded(f)
           seed == IF kept THEN "fixed" ELSE "random"
<1>1. pay \in PayloadState
  BY DEF PresetRow
<1>2. fixed \in BOOLEAN /\ seed \in Presets!SeedMode /\ pay.seed \in Presets!SeedMode
  BY <1>1 DEF Presets!SeedMode, PayloadState
<1>3. words \in SUBSET Word /\ loras \in SUBSET Lora /\ pay.words \in SUBSET Word
      /\ pay.loras \in SUBSET Lora
  BY <1>1 DEF PayloadState, FormState
<1>4. kept \in BOOLEAN
  BY DEF Presets!Seeded
<1>5. Presets!Applied(row, f, append) =
        IF row.kind = "generation"
        THEN [words |-> pay.words, loras |-> pay.loras, fixed |-> fixed, seed |-> pay.seed]
        ELSE [words |-> words, loras |-> loras, fixed |-> kept, seed |-> seed]
  BY DEF Presets!Applied
<1> HIDE DEF pay, words, loras, fixed, kept, seed
<1> QED
  BY <1>2, <1>3, <1>4, <1>5 DEF FormState

\* The forms and tabs nobody has filled yet, and a handler that is not running.
LEMMA EmptyTypes ==
    /\ Presets!EmptyForm \in FormState /\ Presets!EmptyTab \in PresetTab
    /\ Presets!NoCall \in CallState
<1>1. Presets!EmptyForm \in FormState
  BY DEF Presets!EmptyForm, FormState, Presets!SeedMode
<1>2. Presets!EmptyTab \in PresetTab
  BY DEF Presets!EmptyTab, PresetTab, Presets!Kind
<1> QED
  BY <1>1, <1>2 DEF Presets!NoCall, CallState

\* The initial state.
LEMMA PresetsInit ==
    ASSUME Presets!PresetAssumption, Presets!Init
    PROVE  PresetsInv
<1> DEFINE id == CHOOSE p \in Preset : TRUE
           t == CHOOSE x \in Title : TRUE
<1>1. id \in Preset /\ t \in Title
  BY DEF Presets!PresetAssumption
<1>2. PICK k \in Presets!Kind :
          /\ presets = [p \in {id} |-> [kind |-> k, title |-> t, favorite |-> FALSE, uses |-> 0,
                                        payload |-> Presets!Payload(k, Presets!EmptyForm, FALSE)]]
          /\ spent = {id}
  BY DEF Presets!Init
<1> HIDE DEF id, t
<1> DEFINE pay == Presets!Payload(k, Presets!EmptyForm, FALSE)
<1>3. pay \in PayloadState
  BY EmptyTypes, PayloadType
<1> HIDE DEF pay
<1>4. [kind |-> k, title |-> t, favorite |-> FALSE, uses |-> 0, payload |-> pay] \in PresetRow
  BY <1>1, <1>3 DEF PresetRow
<1>5. TableTyped
  BY <1>1, <1>2, <1>4 DEF TableTyped, pay
<1>6. HandlersTyped
  BY EmptyTypes DEF Presets!Init, HandlersTyped
<1> QED
  BY <1>5, <1>6 DEF PresetsInv

\* The relation of a step that keeps the table or only adds to its history and its counts.
TableKept == PresetsInv' /\ Presets!UndoesNothing

\* A step that leaves the table alone undoes nothing.
LEMMA TableUntouched ==
    ASSUME TableTyped, UNCHANGED <<presets, spent>>, HandlersTyped'
    PROVE  TableKept
  BY DEF TableKept, PresetsInv, TableTyped, Presets!UndoesNothing, PresetRow

\* A row changed with its count kept, or counted up, undoes nothing.
LEMMA RowChanged ==
    ASSUME TableTyped, NEW id \in DOMAIN presets, NEW row \in PresetRow,
           row.uses >= presets[id].uses, presets' = [presets EXCEPT ![id] = row],
           UNCHANGED spent, HandlersTyped'
    PROVE  TableKept
<1>1. DOMAIN presets' = DOMAIN presets /\ presets' \in [DOMAIN presets' -> PresetRow]
  BY DEF TableTyped
<1>2. \A p \in DOMAIN presets : presets'[p].uses >= presets[p].uses
  BY DEF TableTyped, PresetRow
<1> QED
  BY <1>1, <1>2 DEF TableKept, PresetsInv, TableTyped, Presets!UndoesNothing

\* A handler that returns, or goes on with rows it has.
LEMMA CallGoesOn ==
    ASSUME HandlersTyped, NEW h \in Handler, NEW c \in CallState,
           calls' = [calls EXCEPT ![h] = c], UNCHANGED <<ptab, gform>>
    PROVE  HandlersTyped'
  BY DEF HandlersTyped

\* An insert takes an id no preset had before.
LEMMA InsertKeeps ==
    ASSUME PresetsInv, NEW h \in Handler, NEW kind \in Presets!Kind, NEW title,
           NEW favorite \in BOOLEAN, NEW pay \in PayloadState,
           Presets!Insert(h, kind, title, favorite, pay), UNCHANGED <<ptab, gform>>
    PROVE  TableKept
<1> USE DEF PresetsInv
<1> DEFINE id == CHOOSE p \in Presets!Fresh : TRUE
           row == [kind |-> kind, title |-> title, uses |-> 0, favorite |-> favorite,
                   payload |-> pay]
<1>1. CASE Presets!Returns(h) /\ UNCHANGED <<presets, spent>>
  BY <1>1, EmptyTypes, CallGoesOn, TableUntouched DEF Presets!Returns
<1>2. CASE ~(Presets!Returns(h) /\ UNCHANGED <<presets, spent>>)
  <2>1. /\ Presets!Fresh # {} /\ title \in Title
        /\ presets' = [p \in DOMAIN presets \union {id} |-> IF p = id THEN row ELSE presets[p]]
        /\ spent' = spent \union {id}
        /\ calls' = [calls EXCEPT ![h].pc = "answer", ![h].got = {presets'[id]},
                                  ![h].tab.selected = id]
    BY <1>2 DEF Presets!Insert, Presets!Named
  <2>2. id \in Preset /\ id \notin spent
    BY <2>1 DEF Presets!Fresh
  <2>3. row \in PresetRow
    BY <2>1 DEF PresetRow
  <2> HIDE DEF id, row
  <2>4. TableTyped' /\ presets'[id] = row
    BY <2>1, <2>2, <2>3 DEF TableTyped
  <2>5. /\ (spent \ DOMAIN presets) \cap DOMAIN presets' = {}
        /\ \A p \in DOMAIN presets \cap DOMAIN presets' : presets'[p] = presets[p]
    BY <2>1, <2>2 DEF TableTyped
  <2>6. Presets!UndoesNothing
    BY <2>5 DEF TableTyped, PresetRow, Presets!UndoesNothing
  <2> DEFINE old == calls[h]
             chosen == [old.tab EXCEPT !.selected = id]
             new == [old EXCEPT !.pc = "answer", !.got = {row}, !.tab = chosen]
  <2>7. old \in CallState
    BY DEF HandlersTyped
  <2>8. chosen \in PresetTab
    BY <2>2, <2>7 DEF CallState, PresetTab
  <2>9. calls' = [calls EXCEPT ![h] = new]
    BY <2>1, <2>4, <2>7 DEF HandlersTyped, CallState
  <2> HIDE DEF chosen, old
  <2>10. new \in CallState
    BY <2>3, <2>7, <2>8 DEF CallState
  <2> HIDE DEF new
  <2>11. HandlersTyped'
    BY <2>9, <2>10, CallGoesOn
  <2> QED
    BY <2>4, <2>6, <2>11 DEF TableKept
<1> QED
  BY <1>1, <1>2

\* Every step keeps the invariant and undoes nothing.
LEMMA PresetsStep ==
    ASSUME Presets!PresetAssumption, PresetsInv, [Presets!Next]_(Presets!pvars)
    PROVE  TableKept
<1> USE DEF PresetsInv
<1>1. ASSUME UNCHANGED <<presets, spent>>, ptab' \in PresetTab, gform' \in FormState,
             UNCHANGED calls
      PROVE  TableKept
  BY <1>1, TableUntouched DEF HandlersTyped
<1>2. ptab \in PresetTab /\ gform \in FormState /\ \A h \in Handler : calls[h] \in CallState
  BY DEF HandlersTyped
<1>3. CASE UNCHANGED Presets!pvars
  BY <1>1, <1>2, <1>3 DEF Presets!pvars
<1>4. ASSUME NEW id \in Preset, Presets!ChoosePreset(id)
      PROVE  TableKept
  <2>1. ptab' = [ptab EXCEPT !.selected = id] /\ UNCHANGED <<presets, spent, gform, calls>>
    BY <1>4 DEF Presets!ChoosePreset, Presets!Shows
  <2> QED
    BY <1>1, <1>2, <2>1 DEF PresetTab
<1>5. CASE Presets!EditPresetTab
  <2>1. /\ UNCHANGED <<presets, spent, gform, calls>>
        /\ \/ \E t \in Title : ptab' = [ptab EXCEPT !.title = t]
           \/ \E k \in Presets!Kind : ptab' = [ptab EXCEPT !.kind = k]
           \/ ptab' = [ptab EXCEPT !.favorite = ~@]
           \/ ptab' = [ptab EXCEPT !.append = ~@]
    BY <1>5 DEF Presets!EditPresetTab, Presets!Shows
  <2>2. ptab' \in PresetTab
    BY <1>2, <2>1 DEF PresetTab
  <2> QED
    BY <1>1, <1>2, <2>1, <2>2
<1>6. CASE Presets!Confirm
  <2>1. ptab' = [ptab EXCEPT !.confirmed = ~@] /\ UNCHANGED <<presets, spent, gform, calls>>
    BY <1>6 DEF Presets!Confirm, Presets!Shows
  <2> QED
    BY <1>1, <1>2, <2>1 DEF PresetTab
<1>7. CASE Presets!EditForm
  <2>1. /\ UNCHANGED <<presets, spent, ptab, calls>>
        /\ \/ \E w \in SUBSET Word : gform' = [gform EXCEPT !.words = w]
           \/ \E l \in SUBSET Lora : gform' = [gform EXCEPT !.loras = l]
           \/ \E m \in Presets!SeedMode : gform' = [gform EXCEPT !.seed = m]
           \/ gform' = [gform EXCEPT !.fixed = ~@]
    BY <1>7 DEF Presets!EditForm
  <2>2. gform' \in FormState
    BY <1>2, <2>1 DEF FormState
  <2> QED
    BY <1>1, <1>2, <2>1, <2>2
<1>8. CASE Presets!ClearTab
  <2>1. ptab' = Presets!Cleared /\ UNCHANGED <<presets, spent, gform, calls>>
    BY <1>8 DEF Presets!ClearTab, Presets!Shows
  <2>2. Presets!Cleared \in PresetTab
    BY <1>2, EmptyTypes DEF Presets!Cleared, PresetTab
  <2> QED
    BY <1>1, <1>2, <2>1, <2>2
<1>9. CASE Presets!RestartPresets
  <2>1. /\ ptab' = Presets!EmptyTab /\ gform' = Presets!EmptyForm
        /\ calls' = [h \in Handler |-> Presets!NoCall] /\ UNCHANGED <<presets, spent>>
    BY <1>9 DEF Presets!RestartPresets
  <2> QED
    BY <2>1, EmptyTypes, TableUntouched DEF HandlersTyped
<1>10. ASSUME NEW h \in Handler, NEW op \in Op, Presets!Begins(h, op),
              UNCHANGED <<presets, spent, ptab, gform>>
       PROVE  TableKept
  <2> DEFINE c == [Presets!NoCall EXCEPT !.op = op, !.pc = "read", !.tab = ptab, !.form = gform]
  <2>1. c \in CallState
    BY <1>2, EmptyTypes DEF CallState
  <2>2. calls' = [calls EXCEPT ![h] = c]
    BY <1>10 DEF Presets!Begins
  <2> HIDE DEF c
  <2> QED
    BY <1>10, <2>1, <2>2, CallGoesOn, TableUntouched
<1>11. ASSUME NEW h \in Handler, NEW op \in {"save", "update", "duplicate", "delete", "apply"},
              Presets!ClickPreset(h, op)
       PROVE  TableKept
  BY <1>10, <1>11 DEF Presets!ClickPreset, Op
<1>12. ASSUME NEW h \in Handler, NEW op \in {"select", "favorite"}, Presets!Changed(h, op)
       PROVE  TableKept
  <2>1. CASE ptab.selected = NoPreset
    BY <1>1, <1>2, <1>12, <2>1 DEF Presets!Changed
  <2>2. CASE ptab.selected # NoPreset
    BY <1>10, <1>12, <2>2 DEF Presets!Changed, Op
  <2> QED
    BY <2>1, <2>2
<1>13. ASSUME NEW h \in Handler, Presets!Returns(h), UNCHANGED <<presets, spent, ptab, gform>>
       PROVE  TableKept
  BY <1>13, EmptyTypes, CallGoesOn, TableUntouched DEF Presets!Returns
<1>14. ASSUME NEW h \in Handler, Presets!ReadPreset(h)
       PROVE  TableKept
  <2> DEFINE id == calls[h].tab.selected
             next == IF calls[h].op = "select" THEN "answer" ELSE "write"
             c == [calls[h] EXCEPT !.pc = next, !.got = {presets[id]}]
  <2>1. UNCHANGED <<presets, spent, ptab, gform>>
    BY <1>14 DEF Presets!ReadPreset
  <2>2. CASE Presets!Returns(h)
    BY <1>13, <2>1, <2>2
  <2>3. CASE id \in DOMAIN presets
    <3>1. calls' = [calls EXCEPT ![h].pc = next, ![h].got = {presets[id]}]
      BY <1>14, <2>3 DEF Presets!ReadPreset
    <3>2. presets[id] \in PresetRow
      BY <2>3 DEF TableTyped
    <3>3. next \in {"answer", "write"}
      OBVIOUS
    <3> HIDE DEF id, next
    <3>4. c \in CallState /\ calls' = [calls EXCEPT ![h] = c]
      BY <1>2, <3>1, <3>2, <3>3 DEF CallState, HandlersTyped
    <3> HIDE DEF c
    <3> QED
      BY <2>1, <3>4, CallGoesOn, TableUntouched
  <2> QED
    BY <1>14, <2>2, <2>3 DEF Presets!ReadPreset
<1>15. ASSUME NEW h \in Handler, Presets!SavePreset(h)
       PROVE  TableKept
  <2> DEFINE t == calls[h].tab
             pay == Presets!Payload(t.kind, calls[h].form, t.append)
  <2>1. UNCHANGED <<ptab, gform>>
    BY <1>15 DEF Presets!SavePreset
  <2>2. CASE Presets!Returns(h) /\ UNCHANGED <<presets, spent>>
    BY <1>13, <2>1, <2>2
  <2>3. CASE Presets!Insert(h, t.kind, t.title, t.favorite, pay)
    <3>1. t \in PresetTab /\ calls[h].form \in FormState
      BY <1>2 DEF CallState
    <3>2. t.kind \in Presets!Kind /\ t.favorite \in BOOLEAN /\ t.append \in BOOLEAN
      BY <3>1 DEF PresetTab
    <3>3. pay \in PayloadState
      BY <3>1, <3>2, PayloadType
    <3> HIDE DEF t, pay
    <3> QED
      BY <2>1, <2>3, <3>2, <3>3, InsertKeeps
  <2> QED
    BY <1>15, <2>2, <2>3 DEF Presets!SavePreset
<1>16. ASSUME NEW h \in Handler, Presets!DuplicatePreset(h)
       PROVE  TableKept
  <2>1. PICK r \in calls[h].got, title \in Title :
            Presets!Insert(h, r.kind, title, r.favorite, r.payload)
    BY <1>16 DEF Presets!DuplicatePreset
  <2>2. UNCHANGED <<ptab, gform>>
    BY <1>16 DEF Presets!DuplicatePreset
  <2>3. r \in PresetRow
    BY <1>2 DEF CallState
  <2>4. r.kind \in Presets!Kind /\ r.favorite \in BOOLEAN /\ r.payload \in PayloadState
    BY <2>3 DEF PresetRow
  <2> QED
    BY <2>1, <2>2, <2>4, InsertKeeps
<1>17. ASSUME NEW h \in Handler, Presets!UpdatePreset(h)
       PROVE  TableKept
  <2> DEFINE t == calls[h].tab
  <2>1. PICK r \in calls[h].got :
          \/ /\ Presets!Named(r.kind, t.title, t.selected)
             /\ presets' \in Presets!Updated(t.selected,
                               [r EXCEPT !.title = t.title, !.favorite = t.favorite,
                                         !.payload = Presets!Payload(r.kind, calls[h].form, t.append)])
             /\ calls' = [calls EXCEPT ![h].pc = "answer",
                            ![h].got = {[r EXCEPT !.title = t.title, !.favorite = t.favorite,
                                         !.payload = Presets!Payload(r.kind, calls[h].form, t.append)]}]
          \/ Presets!Returns(h) /\ UNCHANGED presets
    BY <1>17 DEF Presets!UpdatePreset
  <2>2. UNCHANGED <<spent, ptab, gform>>
    BY <1>17 DEF Presets!UpdatePreset
  <2>3. CASE Presets!Returns(h) /\ UNCHANGED presets
    BY <1>13, <2>2, <2>3
  <2>4. CASE ~(Presets!Returns(h) /\ UNCHANGED presets)
    <3> DEFINE pay == Presets!Payload(r.kind, calls[h].form, t.append)
               row == [r EXCEPT !.title = t.title, !.favorite = t.favorite, !.payload = pay]
               id == t.selected
    <3>1. /\ Presets!Named(r.kind, t.title, id) /\ presets' \in Presets!Updated(id, row)
          /\ calls' = [calls EXCEPT ![h].pc = "answer", ![h].got = {row}]
      BY <2>1, <2>4
    <3>2. r \in PresetRow /\ t \in PresetTab /\ calls[h].form \in FormState
      BY <1>2 DEF CallState
    <3>3. t.title \in Title /\ t.favorite \in BOOLEAN /\ t.append \in BOOLEAN
      BY <3>1, <3>2 DEF Presets!Named, PresetTab
    <3>4. pay \in PayloadState
      BY <3>2, <3>3, PayloadType
    <3> HIDE DEF pay
    <3>5. row \in PresetRow
      BY <3>2, <3>3, <3>4 DEF PresetRow
    <3> HIDE DEF row, t
    <3> DEFINE kept == [row EXCEPT !.uses = presets[id].uses]
    <3>6. id \in DOMAIN presets /\ presets' = [presets EXCEPT ![id] = kept]
      BY <3>1 DEF Presets!Updated
    <3>7. presets[id].uses \in Nat
      BY <3>6 DEF TableTyped, PresetRow
    <3>8. kept \in PresetRow /\ kept.uses = presets[id].uses
      BY <3>5, <3>7 DEF PresetRow
    <3>a. kept.uses >= presets[id].uses
      BY <3>7, <3>8
    <3> HIDE DEF kept, id
    <3> DEFINE c == [calls[h] EXCEPT !.pc = "answer", !.got = {row}]
    <3>9. c \in CallState /\ calls' = [calls EXCEPT ![h] = c]
      BY <1>2, <3>1, <3>5 DEF CallState, HandlersTyped
    <3> HIDE DEF c
    <3>10. HandlersTyped'
      BY <2>2, <3>9, CallGoesOn
    <3> QED
      BY <2>2, <3>6, <3>8, <3>a, <3>10, RowChanged
  <2> QED
    BY <2>3, <2>4
<1>18. ASSUME NEW h \in Handler, calls' = [calls EXCEPT ![h].pc = "answer"],
              UNCHANGED <<ptab, gform>>
       PROVE  HandlersTyped'
  <2> DEFINE c == [calls[h] EXCEPT !.pc = "answer"]
  <2>1. c \in CallState /\ calls' = [calls EXCEPT ![h] = c]
    BY <1>2, <1>18 DEF CallState, HandlersTyped
  <2> HIDE DEF c
  <2> QED
    BY <1>18, <2>1, CallGoesOn
<1>19. ASSUME NEW h \in Handler, Presets!DeletePreset(h)
       PROVE  TableKept
  <2>1. UNCHANGED <<spent, ptab, gform>>
    BY <1>19 DEF Presets!DeletePreset
  <2>2. CASE Presets!Returns(h) /\ UNCHANGED presets
    BY <1>13, <2>1, <2>2
  <2>3. CASE /\ presets' = [p \in DOMAIN presets \ {calls[h].tab.selected} |-> presets[p]]
             /\ calls' = [calls EXCEPT ![h].pc = "answer"]
    <3>1. HandlersTyped'
      BY <1>18, <2>1, <2>3
    <3>2. TableTyped'
      BY <2>1, <2>3 DEF TableTyped
    <3>3. Presets!UndoesNothing
      BY <2>3 DEF TableTyped, PresetRow, Presets!UndoesNothing
    <3> QED
      BY <3>1, <3>2, <3>3 DEF TableKept
  <2> QED
    BY <1>19, <2>2, <2>3 DEF Presets!DeletePreset
<1>20. ASSUME NEW h \in Handler, Presets!SaveFavorite(h)
       PROVE  TableKept
  <2>1. UNCHANGED <<spent, ptab, gform>>
    BY <1>20 DEF Presets!SaveFavorite
  <2>2. CASE Presets!Returns(h) /\ UNCHANGED presets
    BY <1>13, <2>1, <2>2
  <2>3. CASE ~(Presets!Returns(h) /\ UNCHANGED presets)
    <3> DEFINE id == calls[h].tab.selected
               row == [presets[id] EXCEPT !.favorite = calls[h].tab.favorite]
    <3>1. /\ id \in DOMAIN presets /\ calls' = [calls EXCEPT ![h].pc = "answer"]
          /\ presets' = [presets EXCEPT ![id].favorite = calls[h].tab.favorite]
      BY <1>20, <2>3 DEF Presets!SaveFavorite
    <3>2. presets[id] \in PresetRow /\ calls[h].tab.favorite \in BOOLEAN
      BY <1>2, <3>1 DEF TableTyped, CallState, PresetTab
    <3>3. presets' = [presets EXCEPT ![id] = row]
      BY <3>1
    <3>4. row \in PresetRow /\ row.uses = presets[id].uses /\ row.uses \in Nat
      BY <3>2 DEF PresetRow
    <3>5. row.uses >= presets[id].uses
      BY <3>4
    <3>6. HandlersTyped'
      BY <1>18, <2>1, <3>1
    <3> HIDE DEF id, row
    <3> QED
      BY <2>1, <3>1, <3>3, <3>4, <3>5, <3>6, RowChanged
  <2> QED
    BY <2>2, <2>3
<1>21. ASSUME NEW h \in Handler, Presets!UsePreset(h)
       PROVE  TableKept
  <2> DEFINE id == calls[h].tab.selected
  <2>1. UNCHANGED <<spent, ptab, gform>>
    BY <1>21 DEF Presets!UsePreset
  <2>2. CASE Presets!Returns(h) /\ UNCHANGED presets
    BY <1>13, <2>1, <2>2
  <2>3. CASE ~(Presets!Returns(h) /\ UNCHANGED presets)
    <3>1. /\ calls' = [calls EXCEPT ![h].pc = "answer"]
          /\ presets' = IF id \in DOMAIN presets THEN [presets EXCEPT ![id].uses = @ + 1]
                        ELSE presets
      BY <1>21, <2>3 DEF Presets!UsePreset
    <3>2. HandlersTyped'
      BY <1>18, <2>1, <3>1
    <3>3. CASE id \notin DOMAIN presets
      BY <2>1, <3>1, <3>2, <3>3, TableUntouched
    <3>4. CASE id \in DOMAIN presets
      <4> DEFINE count == presets[id].uses + 1
                 row == [presets[id] EXCEPT !.uses = count]
      <4>1. presets[id] \in PresetRow
        BY <3>4 DEF TableTyped
      <4>2. presets' = [presets EXCEPT ![id] = row]
        BY <3>1, <3>4
      <4>3. count \in Nat /\ count >= presets[id].uses
        BY <4>1 DEF PresetRow
      <4> HIDE DEF count
      <4>4. row \in PresetRow /\ row.uses = count
        BY <4>1, <4>3 DEF PresetRow
      <4> HIDE DEF id, row
      <4> QED
        BY <2>1, <3>2, <3>4, <4>2, <4>3, <4>4, RowChanged
    <3> QED
      BY <3>3, <3>4
  <2> QED
    BY <2>2, <2>3
<1>22. ASSUME NEW h \in Handler, Presets!AnswerPreset(h)
       PROVE  TableKept
  <2>1. UNCHANGED <<presets, spent>> /\ Presets!Returns(h)
    BY <1>22 DEF Presets!AnswerPreset
  <2>2. ASSUME ptab' \in PresetTab, gform' \in FormState
        PROVE  TableKept
    BY <2>1, <2>2, EmptyTypes, TableUntouched DEF Presets!Returns, HandlersTyped
  <2>3. calls[h] \in CallState /\ calls[h].tab \in PresetTab /\ calls[h].form \in FormState
    BY <1>2 DEF CallState
  <2>4. CASE /\ \E r \in calls[h].got :
                   gform' = Presets!Applied(r, calls[h].form, calls[h].tab.append)
             /\ UNCHANGED ptab
    <3>1. PICK r \in calls[h].got : gform' = Presets!Applied(r, calls[h].form, calls[h].tab.append)
      BY <2>4
    <3>2. r \in PresetRow /\ calls[h].tab.append \in BOOLEAN
      BY <2>3 DEF CallState, PresetTab
    <3>3. gform' \in FormState
      BY <2>3, <3>1, <3>2, AppliedType
    <3> QED
      BY <1>2, <2>2, <2>4, <3>3
  <2>5. CASE Presets!Shows(Presets!Cleared) /\ UNCHANGED gform
    <3>1. Presets!Cleared \in PresetTab
      BY <1>2, EmptyTypes DEF Presets!Cleared, PresetTab
    <3> QED
      BY <1>2, <2>2, <2>5, <3>1 DEF Presets!Shows
  <2>6. CASE /\ Presets!Shows([ptab EXCEPT !.favorite = calls[h].tab.favorite])
             /\ UNCHANGED gform
    <3>1. [ptab EXCEPT !.favorite = calls[h].tab.favorite] \in PresetTab
      BY <1>2, <2>3 DEF PresetTab
    <3> QED
      BY <1>2, <2>2, <2>6, <3>1 DEF Presets!Shows
  <2>7. CASE /\ \E r \in calls[h].got :
                   Presets!Shows([selected |-> IF calls[h].op = "select" THEN ptab.selected
                                               ELSE calls[h].tab.selected,
                                  kind |-> r.kind, title |-> r.title, favorite |-> r.favorite,
                                  confirmed |-> ptab.confirmed, append |-> r.payload.append])
             /\ UNCHANGED gform
    <3> DEFINE id == IF calls[h].op = "select" THEN ptab.selected ELSE calls[h].tab.selected
    <3>1. PICK r \in calls[h].got :
              ptab' = [selected |-> id, kind |-> r.kind, title |-> r.title,
                       favorite |-> r.favorite, confirmed |-> ptab.confirmed,
                       append |-> r.payload.append]
      BY <2>7 DEF Presets!Shows
    <3>2. id \in Preset \union {NoPreset} /\ ptab.confirmed \in BOOLEAN
      BY <1>2, <2>3 DEF PresetTab
    <3>3. r \in PresetRow /\ r.payload \in PayloadState
      BY <2>3 DEF CallState, PresetRow
    <3>4. r.payload.append \in BOOLEAN
      BY <3>3 DEF PayloadState
    <3> HIDE DEF id
    <3>5. ptab' \in PresetTab
      BY <3>1, <3>2, <3>3, <3>4 DEF PresetTab, PresetRow
    <3> QED
      BY <1>2, <2>2, <2>7, <3>5
  <2> QED
    BY <1>22, <2>4, <2>5, <2>6, <2>7 DEF Presets!AnswerPreset
<1> QED
  BY <1>3, <1>4, <1>5, <1>6, <1>7, <1>8, <1>9, <1>11, <1>12, <1>14, <1>15, <1>16, <1>17,
     <1>19,
     <1>20, <1>21, <1>22
  DEF Presets!Next

\* A handler that read a preset before another one changed it undoes nothing of that, for
\* any number of handlers, presets and processes: no deleted preset comes back, and no use
\* is uncounted.
THEOREM PresetsUndoNothing ==
    ASSUME Presets!PresetAssumption
    PROVE  Presets!Spec => Presets!EditsUndoNothing
<1>1. Presets!Init => PresetsInv
  BY PresetsInit
<1>2. PresetsInv /\ [Presets!Next]_(Presets!pvars) => PresetsInv'
  BY PresetsStep DEF TableKept
<1>3. PresetsInv /\ [Presets!Next]_(Presets!pvars) => [Presets!UndoesNothing]_(Presets!pvars)
  BY PresetsStep DEF TableKept
<1> QED
  BY <1>1, <1>2, <1>3, PTL DEF Presets!Spec, Presets!EditsUndoNothing

-----------------------------------------------------------------------------
(* The library.                                                             *)

\* The state of the library.
allvars == <<part, ivars, uvars, avars, pvars>>

\* The component that a behaviour is about.
In(p) == part = p

\* A behaviour of the library is a behaviour of one component.
LEMMA OneComponent ==
    ASSUME [Next]_allvars
    PROVE  /\ part' = part
           /\ part = "imports" => [Imports!Next]_(Imports!vars)
           /\ part = "upscales" => [Upscales!Next]_(Upscales!uvars)
           /\ part = "artifacts" => [Artifacts!Next]_(Artifacts!ovars)
           /\ part = "presets" => [Presets!Next]_(Presets!pvars)
<1> USE DEF allvars, ivars, uvars, avars, pvars, Imports!vars, Upscales!uvars, Artifacts!ovars,
            Presets!pvars
<1>1. CASE UNCHANGED allvars
  BY <1>1
<1>2. CASE ImportStep
  BY <1>2 DEF ImportStep
<1>3. CASE UpscaleStep
  BY <1>3 DEF UpscaleStep
<1>4. CASE ArtifactStep
  BY <1>4 DEF ArtifactStep
<1>5. CASE PresetStep
  BY <1>5 DEF PresetStep
<1> QED
  BY <1>1, <1>2, <1>3, <1>4, <1>5 DEF Next

\* In a library a saved row of an imported image has its file, unless a new Pod lost it
\* (import_metadata: the file is stored before its row).
THEOREM RowsHaveFiles == Spec => []RowHasFile
<1>1. Init /\ In("imports") => Imports!Init
  BY DEF Init, In
<1>2. [Next]_allvars => /\ In("imports") => In("imports")' /\ [Imports!Next]_(Imports!vars)
                        /\ ~In("imports") => ~In("imports")'
  BY OneComponent DEF In
<1>3. Imports!Spec => []Imports!RowHasFile
  BY ImportsHaveFiles, LibraryAssumption
<1>4. (In("imports") => Imports!RowHasFile) => RowHasFile
  BY DEF In, RowHasFile
<1> QED
  BY <1>1, <1>2, <1>3, <1>4, PTL DEF Spec, allvars, Imports!Spec

\* In a library an import whose sources leave a choice reaches the form only in the source
\* that was selected for it.
THEOREM ChosenOnly == Spec => UnclearIsChosen
<1>1. Init /\ In("imports") => Imports!Init
  BY DEF Init, In
<1>2. [Next]_allvars => /\ In("imports") => In("imports")' /\ [Imports!Next]_(Imports!vars)
                        /\ ~In("imports") => ~In("imports")'
  BY OneComponent DEF In
<1>3. Imports!Spec => [][Imports!ChosenStep]_(Imports!vars)
  BY ImportsChosen, LibraryAssumption DEF Imports!UnclearIsChosen
<1>4. [Next]_allvars /\ (In("imports") => [Imports!ChosenStep]_(Imports!vars))
        => [part = "imports" => Imports!ChosenStep]_<<part, ivars>>
  BY OneComponent DEF In, ivars, Imports!vars
<1> QED
  BY <1>1, <1>2, <1>3, <1>4, PTL DEF Spec, allvars, UnclearIsChosen, Imports!Spec

\* In a library what is upscaled is the chosen source, and what is kept has the planned
\* size.
THEOREM AsPlanned == Spec => []UpscaledAsPlanned
<1>1. Init /\ In("upscales") => Upscales!Init
  BY DEF Init, In
<1>2. [Next]_allvars => /\ In("upscales") => In("upscales")' /\ [Upscales!Next]_(Upscales!uvars)
                        /\ ~In("upscales") => ~In("upscales")'
  BY OneComponent DEF In
<1>3. Upscales!Spec => []Upscales!UpscaledAsPlanned
  BY UpscalesPlanned, LibraryAssumption
<1>4. (In("upscales") => Upscales!UpscaledAsPlanned) => UpscaledAsPlanned
  BY DEF In, UpscaledAsPlanned
<1> QED
  BY <1>1, <1>2, <1>3, <1>4, PTL DEF Spec, allvars, Upscales!Spec

\* The two instances of GenerationOutput are one.
LEMMA SameOutputs ==
    /\ Artifacts!OutputAssumption => OutputProofs!OutputAssumption
    /\ Artifacts!Init => OutputProofs!Init
    /\ [Artifacts!Next]_(Artifacts!ovars) => [OutputProofs!Next]_(OutputProofs!ovars)
    /\ OutputProofs!CompletedIsWhole => Artifacts!CompletedIsWhole
    /\ OutputProofs!RowsMatchFiles => Artifacts!RowsMatchFiles
<1>1. Artifacts!OutputAssumption => OutputProofs!OutputAssumption
  BY DEF Artifacts!OutputAssumption, OutputProofs!OutputAssumption
<1>2. Artifacts!Init => OutputProofs!Init
  BY DEF Artifacts!Init, OutputProofs!Init, Artifacts!Finisher, OutputProofs!Finisher,
      Artifacts!Writer, OutputProofs!Writer, Artifacts!NoFinish, OutputProofs!NoFinish,
      Artifacts!NoWriter, OutputProofs!NoWriter
<1>3. [Artifacts!Next]_(Artifacts!ovars) => [OutputProofs!Next]_(OutputProofs!ovars)
  <2>1. \A p : Artifacts!Reconciles(p) => OutputProofs!Reconciles(p)
    BY DEF Artifacts!Reconciles, OutputProofs!Reconciles, Artifacts!NoFinish,
        OutputProofs!NoFinish
  <2>2. \A p : Artifacts!Fetch(p) => OutputProofs!Fetch(p)
    BY DEF Artifacts!Fetch, OutputProofs!Fetch, Artifacts!GivesUp, OutputProofs!GivesUp,
        Artifacts!Fails, OutputProofs!Fails, Artifacts!NoFinish, OutputProofs!NoFinish
  <2>3. \A p : Artifacts!StoreFixed(p) => OutputProofs!StoreFixed(p)
    BY DEF Artifacts!StoreFixed, OutputProofs!StoreFixed, Artifacts!Add, OutputProofs!Add,
        Artifacts!GivesUp, OutputProofs!GivesUp, Artifacts!Fails, OutputProofs!Fails,
        Artifacts!NoFinish, OutputProofs!NoFinish
  <2>4. \A p : Artifacts!Create(p) => OutputProofs!Create(p)
    BY DEF Artifacts!Create, OutputProofs!Create, Artifacts!Taken, OutputProofs!Taken,
        Artifacts!FirstFree, OutputProofs!FirstFree, Artifacts!Min, OutputProofs!Min
  <2>5. \A p : Artifacts!Fill(p) => OutputProofs!Fill(p)
    BY DEF Artifacts!Fill, OutputProofs!Fill
  <2>6. \A p : Artifacts!Commit(p) => OutputProofs!Commit(p)
    BY DEF Artifacts!Commit, OutputProofs!Commit, Artifacts!GivesUp, OutputProofs!GivesUp,
        Artifacts!Fails, OutputProofs!Fails, Artifacts!NoFinish, OutputProofs!NoFinish
  <2>7. \A p : Artifacts!Repair(p) => OutputProofs!Repair(p)
    BY DEF Artifacts!Repair, OutputProofs!Repair, Artifacts!Order, OutputProofs!Order
  <2>8. \A p : Artifacts!Look(p) => OutputProofs!Look(p)
    BY DEF Artifacts!Look, OutputProofs!Look, Artifacts!Missing, OutputProofs!Missing,
        Artifacts!FileName, OutputProofs!FileName, Artifacts!Order, OutputProofs!Order,
        Artifacts!NoWriter, OutputProofs!NoWriter, Artifacts!Fails, OutputProofs!Fails
  <2>9. \A p : Artifacts!SaveFile(p) => OutputProofs!SaveFile(p)
    BY DEF Artifacts!SaveFile, OutputProofs!SaveFile, Artifacts!Content,
        OutputProofs!Content, Artifacts!Next1, OutputProofs!Next1, Artifacts!Min,
        OutputProofs!Min, Artifacts!Fails, OutputProofs!Fails
  <2>10. \A p : Artifacts!AddRow(p) => OutputProofs!AddRow(p)
    BY DEF Artifacts!AddRow, OutputProofs!AddRow, Artifacts!Next1, OutputProofs!Next1,
        Artifacts!Min, OutputProofs!Min, Artifacts!Fails, OutputProofs!Fails
  <2>11. \A p : Artifacts!Written(p) => OutputProofs!Written(p)
    BY DEF Artifacts!Written, OutputProofs!Written, Artifacts!NoWriter,
        OutputProofs!NoWriter
  <2>12. Artifacts!RestartOutput => OutputProofs!RestartOutput
    BY DEF Artifacts!RestartOutput, OutputProofs!RestartOutput, Artifacts!Finisher,
        OutputProofs!Finisher, Artifacts!Writer, OutputProofs!Writer, Artifacts!NoFinish,
        OutputProofs!NoFinish, Artifacts!NoWriter, OutputProofs!NoWriter, Artifacts!Fails,
        OutputProofs!Fails
  <2> QED
    BY <2>1, <2>2, <2>3, <2>4, <2>5, <2>6, <2>7, <2>8, <2>9, <2>10, <2>11, <2>12
    DEF Artifacts!Next, OutputProofs!Next, Artifacts!Finishing, OutputProofs!Finishing,
        Artifacts!Writing, OutputProofs!Writing, Artifacts!Finisher, OutputProofs!Finisher,
        Artifacts!Writer, OutputProofs!Writer, Artifacts!ovars, OutputProofs!ovars
<1>4. OutputProofs!CompletedIsWhole => Artifacts!CompletedIsWhole
  BY DEF Artifacts!CompletedIsWhole, OutputProofs!CompletedIsWhole, Artifacts!Order,
      OutputProofs!Order
<1>5. OutputProofs!RowsMatchFiles => Artifacts!RowsMatchFiles
  BY DEF Artifacts!RowsMatchFiles, OutputProofs!RowsMatchFiles
<1> QED
  BY <1>1, <1>2, <1>3, <1>4, <1>5

\* In a library a completed generation has all its images, whole.
THEOREM CompletedWhole == Spec => []CompletedIsWhole
<1>1. Init /\ In("artifacts") => Artifacts!Init
  BY DEF Init, In
<1>2. [Next]_allvars => /\ In("artifacts") => In("artifacts")' /\ [Artifacts!Next]_(Artifacts!ovars)
                        /\ ~In("artifacts") => ~In("artifacts")'
  BY OneComponent DEF In
<1>3. Artifacts!Spec => []Artifacts!CompletedIsWhole
  <2>1. OutputProofs!Spec => []OutputProofs!CompletedIsWhole
    BY OutputProofs!CompletedWhole, LibraryAssumption, SameOutputs
  <2> QED
    BY <2>1, SameOutputs, PTL DEF Artifacts!Spec, OutputProofs!Spec
<1>4. (In("artifacts") => Artifacts!CompletedIsWhole) => CompletedIsWhole
  BY DEF In, CompletedIsWhole
<1> QED
  BY <1>1, <1>2, <1>3, <1>4, PTL DEF Spec, allvars, Artifacts!Spec

\* In a library the row of a sidecar or a thumbnail matches its file.
THEOREM RowsMatch == Spec => []RowsMatchFiles
<1>1. Init /\ In("artifacts") => Artifacts!Init
  BY DEF Init, In
<1>2. [Next]_allvars => /\ In("artifacts") => In("artifacts")' /\ [Artifacts!Next]_(Artifacts!ovars)
                        /\ ~In("artifacts") => ~In("artifacts")'
  BY OneComponent DEF In
<1>3. Artifacts!Spec => []Artifacts!RowsMatchFiles
  <2>1. OutputProofs!Spec => []OutputProofs!RowsMatchFiles
    BY OutputProofs!RowsMatch, LibraryAssumption, SameOutputs
  <2> QED
    BY <2>1, SameOutputs, PTL DEF Artifacts!Spec, OutputProofs!Spec
<1>4. (In("artifacts") => Artifacts!RowsMatchFiles) => RowsMatchFiles
  BY DEF In, RowsMatchFiles
<1> QED
  BY <1>1, <1>2, <1>3, <1>4, PTL DEF Spec, allvars, Artifacts!Spec

\* In a library a handler of the preset tab undoes nothing that another one did.
THEOREM NothingUndone == Spec => EditsUndoNothing
<1>1. Init /\ In("presets") => Presets!Init
  BY DEF Init, In
<1>2. [Next]_allvars => /\ In("presets") => In("presets")' /\ [Presets!Next]_(Presets!pvars)
                        /\ ~In("presets") => ~In("presets")'
  BY OneComponent DEF In
<1>3. Presets!Spec => [][Presets!UndoesNothing]_(Presets!pvars)
  BY PresetsUndoNothing, LibraryAssumption DEF Presets!EditsUndoNothing
<1>4. [Next]_allvars /\ (In("presets") => [Presets!UndoesNothing]_(Presets!pvars))
        => [part = "presets" => Presets!UndoesNothing]_<<part, pvars>>
  BY OneComponent DEF In, pvars, Presets!pvars
<1> QED
  BY <1>1, <1>2, <1>3, <1>4, PTL DEF Spec, allvars, EditsUndoNothing, Presets!Spec
=============================================================================

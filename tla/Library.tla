------------------------------- MODULE Library -------------------------------
(* The components that work on files and their rows: imported images, upscales,   *)
(* the outputs of a generation, presets.  They share no state, so a behaviour is  *)
(* one of the four, and the variables of the others are off.                      *)
EXTENDS Integers, FiniteSets, Sequences

CONSTANTS Image, Sidecar, NoSidecar, Name, Catalogue, Editor, MaxImports, MaxEdits,
          MaxRuns, MaxFaults
CONSTANTS Parent, Imported, Described, NoSource, Upscaler, NoModel, Sizing, SourceSize,
          Limit, MaxPending, MaxJobs, MaxChoices
CONSTANTS Outputs, Naming, Repairer, MaxTroubles
CONSTANTS Preset, NoPreset, Title, Word, Lora, Limits, Handler, MaxClicks, MaxProcesses

VARIABLES part
VARIABLES prompt, side, rows, files, lost, imp, edit, caps, form, edits, faults
VARIABLES tab, answers, clears, request, jobs, work, file, installed, choices, starts, changes
VARIABLES naming, status, completed, images, disk, meta, extra, fin, opt, troubles
VARIABLES presets, spent, ptab, gform, due, calls, limit, clicks, processes

Imports == INSTANCE MetadataImport
Upscales == INSTANCE Upscale
Artifacts == INSTANCE GenerationOutput
Presets == INSTANCE PresetLibrary WITH form <- gform

ASSUME LibraryAssumption ==
    /\ Imports!ImportAssumption /\ Upscales!UpscaleAssumption
    /\ Artifacts!OutputAssumption /\ Presets!PresetAssumption

Off == "off"

NoImports ==
    /\ prompt = Off /\ side = Off /\ rows = Off /\ files = Off /\ lost = Off /\ imp = Off
    /\ edit = Off /\ caps = Off /\ form = Off /\ edits = Off /\ faults = Off

NoUpscales ==
    /\ tab = Off /\ answers = Off /\ clears = Off /\ request = Off /\ jobs = Off /\ work = Off
    /\ file = Off /\ installed = Off /\ choices = Off /\ starts = Off /\ changes = Off

NoArtifacts ==
    /\ naming = Off /\ status = Off /\ completed = Off /\ images = Off /\ disk = Off
    /\ meta = Off /\ extra = Off /\ fin = Off /\ opt = Off /\ troubles = Off

NoPresets ==
    /\ presets = Off /\ spent = Off /\ ptab = Off /\ gform = Off /\ due = Off /\ calls = Off
    /\ limit = Off /\ clicks = Off /\ processes = Off

Init ==
    \/ part = "imports" /\ Imports!Init /\ NoUpscales /\ NoArtifacts /\ NoPresets
    \/ part = "upscales" /\ Upscales!Init /\ NoImports /\ NoArtifacts /\ NoPresets
    \/ part = "artifacts" /\ Artifacts!Init /\ NoImports /\ NoUpscales /\ NoPresets
    \/ part = "presets" /\ Presets!Init /\ NoImports /\ NoUpscales /\ NoArtifacts

ivars == <<prompt, side, rows, files, lost, imp, edit, caps, form, edits, faults>>
uvars == <<tab, answers, clears, request, jobs, work, file, installed, choices, starts, changes>>
avars == <<naming, status, completed, images, disk, meta, extra, fin, opt, troubles>>
pvars == <<presets, spent, ptab, gform, due, calls, limit, clicks, processes>>

ImportStep == part = "imports" /\ Imports!Next /\ UNCHANGED <<part, uvars, avars, pvars>>

UpscaleStep == part = "upscales" /\ Upscales!Next /\ UNCHANGED <<part, ivars, avars, pvars>>

ArtifactStep == part = "artifacts" /\ Artifacts!Next /\ UNCHANGED <<part, ivars, uvars, pvars>>

PresetStep == part = "presets" /\ Presets!Next /\ UNCHANGED <<part, ivars, uvars, avars>>

Next == ImportStep \/ UpscaleStep \/ ArtifactStep \/ PresetStep

Spec == Init /\ [][Next]_<<part, ivars, uvars, avars, pvars>>

-----------------------------------------------------------------------------

\* No row of an imported image without its file: MetadataImport says it in full.
RowHasFile == part = "imports" => Imports!RowHasFile

\* What is unclear reaches the form only as the user chose, see MetadataImport.
UnclearIsChosen == [][part = "imports" => Imports!ChosenStep]_<<part, ivars>>

\* What is upscaled is the chosen source, what is kept is what was planned, see Upscale.
UpscaledAsPlanned == part = "upscales" => Upscales!UpscaledAsPlanned

\* A completed generation has all its images, whole, see GenerationOutput.
CompletedIsWhole == part = "artifacts" => Artifacts!CompletedIsWhole

\* The row of a sidecar or thumbnail has the hash of the file, see GenerationOutput.
RowsMatchFiles == part = "artifacts" => Artifacts!RowsMatchFiles

\* A handler of the preset tab undoes nothing of another one, see PresetLibrary.
EditsUndoNothing == [][part = "presets" => Presets!UndoesNothing]_<<part, pvars>>
=============================================================================

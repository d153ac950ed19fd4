CONSTANTS
  Image = {x}
  Sidecar = {s}
  NoSidecar = none
  Name = {a, b}
  Catalogue = {{a}, {b}}
  Editor = {e1, e2}
  MaxImports = 1
  MaxEdits = 2
  MaxRuns = 2
  MaxFaults = 1
  Parent = {g1}
  Imported = {i1}
  Described = {}
  NoSource = none
  Upscaler = {u1}
  NoModel = nomodel
  Sizing <- MCSizing
  SourceSize <- MCSourceSize
  Limit <- MCLimit
  MaxPending = 1
  MaxJobs = 2
  MaxChoices = 3
  Outputs = 2
  Naming = {"sequence", "fixed"}
  Repairer = {"drive"}
  MaxTroubles = 1
  Preset = {p1, p2}
  NoPreset = none
  Title = {t1}
  Word = {}
  Lora = {l1}
  Limits = {1}
  Handler = {h1, h2}
  MaxClicks = 3
  MaxProcesses = 2
SPECIFICATION Spec
INVARIANTS RowHasFile UpscaledAsPlanned CompletedIsWhole RowsMatchFiles
PROPERTIES UnclearIsChosen EditsUndoNothing
CHECK_DEADLOCK FALSE

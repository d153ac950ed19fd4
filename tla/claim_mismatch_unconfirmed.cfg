CONSTANTS
  Image = {x}
  Sidecar = {s}
  NoSidecar = none
  Name = {a, b}
  Catalogue = {{a}, {b}}
  Editor = {e1}
  MaxImports = 2
  MaxEdits = 2
  MaxFaults = 1
SPECIFICATION Spec
INVARIANT MismatchNeedsConfirmation
CHECK_DEADLOCK FALSE

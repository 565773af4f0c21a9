SPECIFICATION Spec
CONSTANTS
  Tab = {t1, t2}
  Text = {x1, x2}
  NoText = NoText
  NoSave = NoSave
  NoAnswer = NoAnswer
  MaxOpens = 3
  MaxSaves = 3
  MaxFaults = 2
SYMMETRY Symmetry
CHECK_DEADLOCK FALSE
PROPERTY
  NoBlindOverwrite

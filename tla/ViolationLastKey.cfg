SPECIFICATION LoginSpec
CONSTANTS
  a = a
  b = b
  RootKeys = {a, b}
  LineForms = {"plain", "options", "commented"}
  MaxKeyTasks = 2
  MaxHardenings = 0
  MaxRootEdits = 1
  MaxLoginTroubles = 0
PROPERTY LastKeyRemains
CHECK_DEADLOCK FALSE

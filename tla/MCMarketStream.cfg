SPECIFICATION Spec
CONSTANTS
  Symbols = {sx, sy}
  Updaters = {screening, quant}
  MaxBreaks = 2
INVARIANTS
  TypeOK
  InStep
  StopIsFinal
PROPERTY ComesBack
CHECK_DEADLOCK FALSE

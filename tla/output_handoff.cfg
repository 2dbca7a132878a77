SPECIFICATION Spec
CONSTANTS
  Outputs = {calc, log, image}
  Typed = {calc, image}
  Json = {calc, log}
  Calc = calc
  None = None
INVARIANTS InputsComplete FanOutFindsBlocks
CHECK_DEADLOCK FALSE

CONSTANTS
  Widths = {2, 3}
  Operations = {"ADD", "SUB", "MUL", "DIV", "MOD"}
  Strategies = {"WRAPPING", "SATURATING"}
  CastStrategies = {"THROWING", "WRAPPING", "SATURATING"}
  OtherSizes = {1, 3, 6}
  MinOverMinusOne = FALSE
  FlagMayDiffer = FALSE
SPECIFICATION Spec
INVARIANTS Sound AnswersSound JoinPrecise

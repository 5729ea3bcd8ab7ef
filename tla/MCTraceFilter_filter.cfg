SPECIFICATION FilterSpec
CONSTANTS
  Options <- AllOptions
  ClassNames <- Names
  MethodNames <- Names
  MAX_TOKEN_LENGTH = 3
  MAX_METHOD_NAME_LENGTH = 4
INVARIANTS FilterTypeOK OptionsHonoured NamedIsTraced
PROPERTY ParseEnds
CHECK_DEADLOCK FALSE

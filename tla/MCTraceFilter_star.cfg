SPECIFICATION FilterSpec
CONSTANTS
  Options <- ItemOptions
  ClassNames <- Names
  MethodNames <- Names
  MAX_TOKEN_LENGTH = 3
  MAX_METHOD_NAME_LENGTH = 5
INVARIANT AnyClassAllowed
CHECK_DEADLOCK FALSE

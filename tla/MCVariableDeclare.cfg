SPECIFICATION Spec
CONSTANTS
  x = x
  y = y
  Name = {x, y}
  Text <- MCText
  Empty = ""
  Kind <- MCKind
  Printed <- MCPrinted
  Default <- MCDefault
  Uppercase <- MCUpper
  Lowercase <- MCLower
  Overflowing = {"9223372036854775808"}
  Refused = {"{1}"}
  Leftover = "7"
  INITIAL_TABLE_SIZE = 1
  NotSet = "not set"
  Session <- OneSession
PROPERTIES DeclaredIsReadonly
SYMMETRY Names
CHECK_DEADLOCK FALSE

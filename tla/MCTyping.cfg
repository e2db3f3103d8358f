SPECIFICATION Spec
CONSTANTS
    Printable <- MCPrintable
    Lower <- MCLower
    Eighth <- MCEighth
    TerminalNames <- MCTerminalNames
    Special <- MCSpecial
    Homes <- MCHomes
    MaxRan = 40
INVARIANT LongestBindingRuns
PROPERTY KeysAreRead
CHECK_DEADLOCK FALSE

SPECIFICATION Spec
CONSTANTS
    IRs <- MCIRs
    Results <- MCResults
    Strings <- MCStrings
    Scalars <- MCScalars
    Size <- MCSize
    NameSize = 1
    MaxValue = 2
    MaxTotal = 4
    MaxVisits = 4
PROPERTY HumanGate
CHECK_DEADLOCK FALSE

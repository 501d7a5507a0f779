SPECIFICATION Spec
CONSTANTS
    Offset = {a, b, c}
    End = End
    Separator = {slash, dot}
    NoSeparator = NoSeparator
    MaxReads = 3
INVARIANTS
    TypeOK
    TailsAreChains
    PythonAnswersMeaning
    ParsersAgree
\* The bound on reads is reached.
CHECK_DEADLOCK FALSE

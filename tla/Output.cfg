CONSTANTS
    Texts <- MCTexts
    Blank = {" ", "TAB"}
    Unsafe = {"!"}
    LineFeed = "LF"
    Tab = "TAB"
    Colon = ":"
    Hash = "#"
    Openers = {"["}
    BufferBytes = 3
SPECIFICATION Spec
INVARIANTS
    ReportIsExact
    ReportIsInert

CONSTANTS
    Documents <- MCDocuments
    Root = "document"
    Texts <- MCTexts
    Immutable <- MCImmutable
    MaxDepth = 6
    MaxNodes = 23
    MaxReferences = 3
    c1 = c1
    c2 = c2
    Names <- MCNames
    Commits = {c1, c2}
    Pins <- MCPins
    MaxLines = 4
SPECIFICATION WorkflowsSpec
INVARIANTS
    ExpansionIsUnfolding
    ReferencesAreComplete
    TagsAreListed
    VerdictIsExact

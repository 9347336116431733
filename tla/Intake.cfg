SPECIFICATION IntakeSpec
CHECK_DEADLOCK FALSE
CONSTANTS
    MaxFile = 2
    MaxBody = 4
    MaxChunk = 2
    Overhead = 1
    UserFile <- MCFile
    Label <- MCLabel
    FieldLists <- MCFieldLists
    TextBytes <- MCTextBytes
    MaxSelections = 2
    NoFile = NoFile
INVARIANTS
    IntakeTypeOK
    ParsedIsExecutable
    PageSubmitsChecked

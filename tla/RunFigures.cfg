\* Two runs of three kinds over two days of two ticks: a document expires after
\* three ticks, its buckets end after one, two and three. A page lists one run.
CONSTANTS
    r1 = r1
    r2 = r2
    Run = {r1, r2}
    Submission <- MCSubmission
    Result <- MCResult
    Cutoff = {2}
    Hour = 1
    SixHours = 2
    Retention = 3
    Day = 2
    Month = 4
    RunLimit = 1
    MaxClock = 4
SYMMETRY RunSymmetry
SPECIFICATION FiguresSpec
INVARIANTS
    SameFigures
    FiguresAddUp
PROPERTIES
    FiguresOnlyGrow
CHECK_DEADLOCK FALSE

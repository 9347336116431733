------------------------------- MODULE MCIntake -------------------------------
(* Files and labels for Intake: files at the limits and beside them, and labels *)
(* that are the same to the page, to the server or to neither.                  *)
EXTENDS Intake

AFile(size, format, type, pages) ==
    [size |-> size, format |-> format, type |-> type, pages |-> pages]

MCFile ==
    {AFile(0, "none", "pdf", 0), AFile(MaxFile, "pdf", "pdf", MaxPages),
     AFile(MaxFile, "pdf", "pdf", MaxPages + 1), AFile(1, "pdf", "pdf", Unreadable),
     AFile(MaxFile + 1, "png", "png", 0), AFile(1, "png", "jpeg", 0)}

ALabel(typed, clean, key) == [typed |-> typed, clean |-> clean, key |-> key]

\* "Total", "Total!", "Total" with a wide letter, "<>", "Date", nothing, and a
\* text that fills the body.
Total == ALabel("total", "total", "total")
Loud == ALabel("total!", "total!", "total")
Wide == ALabel("wide", "total", "total")
Stripped == ALabel("<>", BlankLabel, "requested_field")
Date == ALabel("date", "date", "date")
Nothing == ALabel(BlankLabel, BlankLabel, "requested_field")
Long == ALabel("long", "long", "long")

MCLabel == {Total, Loud, Wide, Stripped, Date, Nothing, Long}
MCFieldLists == {<<Total, Date>>, <<Total, Date, Loud>>, <<Total, Wide>>,
                 <<Total, Date, Stripped>>, <<Total, Date, Nothing>>, <<Total>>, <<Total, Long>>}
MCTextBytes == [f \in MCFieldLists |-> IF f = <<Total, Long>> THEN 2 ELSE 0]

===============================================================================

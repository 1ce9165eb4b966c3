-------------------------- MODULE MCPageFunctions --------------------------
EXTENDS PageFunctions

Line(quotes, kind, indent) ==
    [at |-> 0, quotes |-> quotes, kind |-> kind, indent |-> indent, level |-> 0, decisions |-> FALSE]
Heading(level, decisions) == [Line(0, "heading", 0) EXCEPT !.level = level, !.decisions = decisions]

SmallSource ==
    {Line(0, "blank", 0), Line(0, "text", 0), Line(0, "text", 3), Line(0, "open", 0), Line(0, "fence", 0),
     Line(0, "rule", 0), Line(0, "bullet", 0), Line(0, "bullet", 2), Line(0, "number", 2),
     Line(0, "bullet", 4), Line(1, "text", 0), Line(2, "bullet", 0), Line(2, "bullet", 2),
     Line(3, "bullet", 0),
     Heading(1, FALSE), Heading(2, TRUE), Heading(2, FALSE)}
=============================================================================

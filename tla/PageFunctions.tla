--------------------------- MODULE PageFunctions ---------------------------
(***************************************************************************)
(* The functions the pages compute with, over every small input. An input  *)
(* grows a line at a time: two texts compared, the hunks of a file, or a   *)
(* markdown text.                                                          *)
(***************************************************************************)
EXTENDS LineDiff, DiffRows, Markdown

CONSTANTS
    TextLines,      \* the lines of the texts compared
    SourceLines,    \* the lines of a markdown text, without their place
    MaxTextLines, MaxHunkLines, MaxHunks, MaxSourceLines    \* bounds

ASSUME PageFunctionsAssumption ==
    {MaxTextLines, MaxHunkLines, MaxHunks, MaxSourceLines} \subseteq Nat

VARIABLES original, modified, hunks, source

vars == <<original, modified, hunks, source>>

Init == original = <<>> /\ modified = <<>> /\ hunks = <<>> /\ source = <<>>

OriginalGrows ==
    /\ hunks = <<>> /\ source = <<>> /\ Len(original) < MaxTextLines
    /\ \E line \in TextLines : original' = Append(original, line)
    /\ UNCHANGED <<modified, hunks, source>>

ModifiedGrows ==
    /\ hunks = <<>> /\ source = <<>> /\ Len(modified) < MaxTextLines
    /\ \E line \in TextLines : modified' = Append(modified, line)
    /\ UNCHANGED <<original, hunks, source>>

\* A first hunk of a file changed, added (nothing in the base) or deleted.
FirstHunks == {[oldStart |-> 1, newStart |-> 1], [oldStart |-> 0, newStart |-> 1],
               [oldStart |-> 1, newStart |-> 0]}

Counted(h) == FoldLeft(LAMBDA n, k : n + Len(h[k].lines), 0, [k \in 1..Len(h) |-> k])

HunkLine(kind, cr) == [kind |-> kind, cr |-> cr]

Fits(hunk, line) ==
    /\ hunk.oldStart = 0 => line.kind \in {"added", Marker}
    /\ hunk.newStart = 0 => line.kind \in {"removed", Marker}

\* The next hunk starts a line further down, in both.
NextHunk(hunk) == [oldStart |-> hunk.oldStart + OldLines(hunk.lines) + 1,
                   newStart |-> hunk.newStart + NewLines(hunk.lines) + 1, lines |-> <<>>]

HunkStarts ==
    /\ original = <<>> /\ modified = <<>> /\ source = <<>>
    /\ \/ /\ hunks = <<>>
          /\ \E start \in FirstHunks :
               hunks' = <<[oldStart |-> start.oldStart, newStart |-> start.newStart, lines |-> <<>>]>>
       \/ /\ hunks # <<>> /\ Len(hunks) < MaxHunks /\ Last(hunks).lines # <<>>
          /\ Last(hunks).oldStart # 0 /\ Last(hunks).newStart # 0
          /\ hunks' = Append(hunks, NextHunk(Last(hunks)))
    /\ UNCHANGED <<original, modified, source>>

HunkGrows ==
    /\ hunks # <<>> /\ Counted(hunks) < MaxHunkLines
    /\ \E kind \in Kinds \cup {Marker}, cr \in BOOLEAN :
         /\ kind = Marker => ~cr
         /\ Fits(Last(hunks), HunkLine(kind, cr))
         /\ hunks' = [hunks EXCEPT ![Len(hunks)].lines = Append(@, HunkLine(kind, cr))]
    /\ UNCHANGED <<original, modified, source>>

SourceGrows ==
    /\ original = <<>> /\ modified = <<>> /\ hunks = <<>>
    /\ Len(source) < MaxSourceLines
    /\ \E line \in SourceLines :
         source' = Append(source, [line EXCEPT !.at = Len(source) + 1])
    /\ UNCHANGED <<original, modified, hunks>>

Next == OriginalGrows \/ ModifiedGrows \/ HunkStarts \/ HunkGrows \/ SourceGrows

Spec == Init /\ [][Next]_vars

----------------------------------------------------------------------------
(* Properties.                                                             *)

\* Without the lines the Monaco diff colors, both texts are the same; no line is
\* colored twice, and no smaller diff does, but for texts whose table is not filled
\* (bridge.js lineDiffOps, mergeLineOps).
DiffIsRight ==
    LET ops == LineDiffOps(original, modified)
        deleted == LinesOf(ops, "delete")
        inserted == LinesOf(ops, "insert")
    IN /\ IsDiff(deleted, inserted, original, modified)
       /\ LinesCounted(ops) = Cardinality(deleted) + Cardinality(inserted)
       /\ FillsTable(original, modified) => IsSmallest(deleted, inserted, original, modified)

\* The line a marker follows is the last of the base's side, or of the other.
IsLastOfSide(lines, i) ==
    \A k \in (i + 1)..Len(lines) :
        ~({lines[i].kind, lines[k].kind} \subseteq {"context", "removed"}
            \/ {lines[i].kind, lines[k].kind} \subseteq {"context", "added"})

\* The patch keeps the "no newline" markers git can have written and no other: each
\* follows the last line of its side. One after an added line that removed lines follow
\* is none of git's, which removes first (pierre-diff-entry.js patchText).
MarkersAreGits ==
    \A h \in 1..Len(hunks) :
        LET lines == hunks[h].lines
            body == PatchBody(lines)
            gits == {i \in 2..Len(lines) :
                       /\ lines[i].kind = Marker /\ lines[i - 1].kind # Marker
                       /\ IsLastOfSide(lines, i - 1)
                       /\ lines[i - 1].kind = "added" =>
                            \A k \in i..Len(lines) : lines[k].kind # "removed"}
        IN /\ \A i \in 1..Len(body) : body[i].kind = Marker => i > 1 /\ IsLastOfSide(body, i - 1)
           /\ Cardinality({i \in 1..Len(body) : body[i].kind = Marker}) = Cardinality(gits)

\* Every row the page counts is a line pierre shows, an unchanged one under both its
\* numbers, and every line shown is a row: a comment taken on a row is drawn under it
\* (review-page.js commentRows, pierre-diff-entry.js diffLines, shownLine).
RowsAreShown ==
    LET rows == CommentRows(hunks)
        lines == DiffLines(ReviewFileDiff(hunks))
    IN /\ \A i \in 1..Len(rows) :
            /\ ShownLine(lines, rows[i].side, rows[i].line) = Position(rows[i])
            /\ rows[i].kind = "context" => ShownLine(lines, "deletions", rows[i].old) = Position(rows[i])
       /\ \A line \in lines.shown : FindRow(rows, line[1], line[2]) # 0

\* A drag over lines shown gives the same comment whichever end it began at: on the rows
\* of one hunk, top first, no more of them than are taken (review-page.js commentRange).
RangesEitherWay ==
    LET rows == CommentRows(hunks)
        shown == DiffLines(ReviewFileDiff(hunks)).shown
        dragged(from, to) == CommentRange(hunks, [side |-> from[1], start |-> from[2],
                                                  endSide |-> to[1], end |-> to[2]])
    IN \A from \in shown, to \in shown :
         LET range == dragged(from, to) IN
         /\ range = dragged(to, from)
         /\ "problem" \in DOMAIN range => range.problem # "gone"
         /\ "problem" \notin DOMAIN range =>
              LET top == FindRow(rows, range.start[1], range.start[2])
                  bottom == FindRow(rows, range.end[1], range.end[2])
              IN /\ rows[top].hunk = rows[bottom].hunk
                 /\ range.count = bottom - top + 1
                 /\ range.count \in 1..MaxCommentRows

\* Every line of a markdown text is read once: in a block of the body or in the
\* decisions shown apart, however quotes, lists and code nest and end. Only blank lines
\* and the fences of code read as nothing (review-page.js parseMarkdown, splitDecisions).
ReadsEachLineOnce ==
    LET split == SplitDecisions(ParseMarkdown(source))
        places == PlacesInBlocks(split.blocks) \o split.title \o PlacesInBlocks(split.decisions)
    IN /\ \A i, j \in 1..Len(places) : places[i] = places[j] => i = j
       /\ \A i \in 1..Len(source) :
            source[i].kind \notin {"blank", "fence", "open"} => Contains(places, i)
=============================================================================

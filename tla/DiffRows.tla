------------------------------ MODULE DiffRows ------------------------------
(***************************************************************************)
(* The lines of a file's diff in the Branch Review page, as two parts of   *)
(* it count them.                                                          *)
(*                                                                         *)
(* Web/pierre-diff/pierre-diff-entry.js writes a file's hunks as a patch   *)
(* for pierre to parse, and from what pierre made of it knows which lines  *)
(* it shows: annotations and selections go only there. review-page.js      *)
(* counts the same hunks' rows, and takes a comment on a range of them.    *)
(* What one names the other must show.                                     *)
(*                                                                         *)
(* A hunk's line is its kind; of its text only whether it ends with a      *)
(* carriage return is kept. Line numbers stay below what a number can      *)
(* hold. Pierre's parser is external: it groups the lines of a patch into  *)
(* unchanged ones and changes.                                             *)
(***************************************************************************)
EXTENDS Naturals, Sequences, FiniteSets, SequencesExt

CONSTANT MaxCommentRows    \* 100 in the code

ASSUME MaxCommentRowsAssumption == MaxCommentRows \in Nat \ {0}

Kinds == {"context", "added", "removed"}
Marker == "noNewlineMarker"

OldLines(lines) == Len(SelectSeq(lines, LAMBDA l : l.kind \in {"context", "removed"}))
NewLines(lines) == Len(SelectSeq(lines, LAMBDA l : l.kind \in {"context", "added"}))

----------------------------------------------------------------------------
(* The patch.                                                              *)

OnlyAddedFrom(lines, i) == \A k \in i..Len(lines) : lines[k].kind \in {"added", Marker}
LastLine(lines) == SelectLastInSeq(lines, LAMBDA l : l.kind # Marker)

\* A change of line ending shows, but where the last line's is missing.
ShowsLineEnding(lines) ==
    LET ended == {i \in 1..Len(lines) :
                    lines[i].kind # Marker /\ ~(i < Len(lines) /\ lines[i + 1].kind = Marker)}
    IN (\E i \in ended : lines[i].cr) /\ (\E i \in ended : ~lines[i].cr)

\* Where git writes a "no newline" marker: at the hunk's end, or after the last removed
\* line when only added ones follow.
\* Bug: after any removed line.
EndsSideAnywhere(lines, i, previous) == i > LastLine(lines) \/ previous = "removed"

EndsSide(lines, i, previous) ==
    i > LastLine(lines) \/ (previous = "removed" /\ OnlyAddedFrom(lines, i + 1))

PatchBody(lines) ==
    LET shows == ShowsLineEnding(lines)
        add(acc, i) ==
            LET line == lines[i]
                previous == IF acc = <<>> THEN "none" ELSE Last(acc).kind
            IN IF line.kind # Marker THEN Append(acc, [kind |-> line.kind, showsCR |-> shows /\ line.cr])
               ELSE IF previous \notin {"none", Marker} /\ EndsSide(lines, i, previous)
                 THEN Append(acc, [kind |-> Marker, showsCR |-> FALSE])
                 ELSE acc
    IN FoldLeft(add, <<>>, [i \in 1..Len(lines) |-> i])

PatchHunk(hunk) == [oldStart |-> hunk.oldStart, oldCount |-> OldLines(hunk.lines),
                    newStart |-> hunk.newStart, newCount |-> NewLines(hunk.lines),
                    body |-> PatchBody(hunk.lines)]

PatchText(hunks) == [h \in 1..Len(hunks) |-> PatchHunk(hunks[h])]

\* External: pierre's parser.
Content(kind) ==
    [type |-> IF kind = "context" THEN "context" ELSE "change",
     deletions |-> IF kind = "added" THEN 0 ELSE 1,
     additions |-> IF kind = "removed" THEN 0 ELSE 1]

ProcessHunk(patch) ==
    LET take(acc, line) ==
            LET next == Content(line.kind) IN
            IF line.kind = Marker THEN acc
            ELSE IF acc # <<>> /\ Last(acc).type = next.type
              THEN [acc EXCEPT ![Len(acc)].deletions = @ + next.deletions,
                               ![Len(acc)].additions = @ + next.additions]
              ELSE Append(acc, next)
    IN [deletionStart |-> patch.oldStart, additionStart |-> patch.newStart,
        hunkContent |-> FoldLeft(take, <<>>, patch.body)]

ReviewFileDiff(hunks) == LET patch == PatchText(hunks) IN [h \in 1..Len(patch) |-> ProcessHunk(patch[h])]

----------------------------------------------------------------------------
(* The lines pierre shows.                                                 *)

\* Bug: an unchanged block's lines are taken for removed ones: its working tree
\* numbers go on counting from the block's start.
CountsRemovedOnly(fileDiffHunk) ==
    FoldLeft(LAMBDA acc, c :
        [deletion |-> acc.deletion + c.deletions,
         addition |-> IF c.type = "context" THEN acc.addition ELSE acc.addition + c.additions,
         shown |-> acc.shown
            \cup {<<"deletions", n>> : n \in acc.deletion..(acc.deletion + c.deletions - 1)}
            \cup {<<"additions", n>> : n \in acc.addition..(acc.addition + c.additions - 1)},
         unchanged |-> IF c.type # "context" THEN acc.unchanged
                       ELSE acc.unchanged \cup {<<acc.deletion + k, acc.addition + k>> : k \in 0..(c.deletions - 1)}],
        [deletion |-> fileDiffHunk.deletionStart, addition |-> fileDiffHunk.additionStart,
         shown |-> {}, unchanged |-> {}], fileDiffHunk.hunkContent)

HunkLines(fileDiffHunk) ==
    FoldLeft(LAMBDA acc, c :
        [deletion |-> acc.deletion + c.deletions,
         addition |-> acc.addition + c.additions,
         shown |-> acc.shown
            \cup {<<"deletions", n>> : n \in acc.deletion..(acc.deletion + c.deletions - 1)}
            \cup {<<"additions", n>> : n \in acc.addition..(acc.addition + c.additions - 1)},
         unchanged |-> IF c.type # "context" THEN acc.unchanged
                       ELSE acc.unchanged \cup {<<acc.deletion + k, acc.addition + k>> : k \in 0..(c.deletions - 1)}],
        [deletion |-> fileDiffHunk.deletionStart, addition |-> fileDiffHunk.additionStart,
         shown |-> {}, unchanged |-> {}], fileDiffHunk.hunkContent)

DiffLines(fileDiff) ==
    [shown |-> UNION {HunkLines(fileDiff[h]).shown : h \in 1..Len(fileDiff)},
     unchanged |-> UNION {HunkLines(fileDiff[h]).unchanged : h \in 1..Len(fileDiff)}]

NoLine == <<"none", 0>>

\* An unchanged line given by its number in the base goes on the working tree's side.
ShownLine(lines, side, number) ==
    LET named == {pair \in lines.unchanged : side = "deletions" /\ pair[1] = number}
        line == IF named = {} THEN <<side, number>>
                ELSE <<"additions", (CHOOSE pair \in named : TRUE)[2]>>
    IN IF line \in lines.shown THEN line ELSE NoLine

\* The annotations pierre gets, [side, lineNumber, key]: those on lines shown.
LineAnnotations(annotations, lines) ==
    LET placed == [i \in 1..Len(annotations) |->
            LET a == annotations[i] IN
            [line |-> ShownLine(lines, a.side, a.lineNumber), key |-> a.key]]
    IN SelectSeq(placed, LAMBDA a : a.line # NoLine)

----------------------------------------------------------------------------
(* The rows the page counts (review-page.js).                              *)

HunkRows(hunk, index) ==
    FoldLeft(LAMBDA acc, l :
        CASE l.kind = "removed" ->
               [acc EXCEPT !.old = @ + 1,
                    !.rows = Append(@, [hunk |-> index, side |-> "deletions", line |-> acc.old,
                                        kind |-> l.kind, old |-> acc.old])]
          [] l.kind = "added" ->
               [acc EXCEPT !.line = @ + 1,
                    !.rows = Append(@, [hunk |-> index, side |-> "additions", line |-> acc.line,
                                        kind |-> l.kind, old |-> 0])]
          [] l.kind = "context" ->
               [acc EXCEPT !.old = @ + 1, !.line = @ + 1,
                    !.rows = Append(@, [hunk |-> index, side |-> "additions", line |-> acc.line,
                                        kind |-> l.kind, old |-> acc.old])]
          [] OTHER -> acc,
        [old |-> hunk.oldStart, line |-> hunk.newStart, rows |-> <<>>], hunk.lines).rows

CommentRows(hunks) == FlattenSeq([h \in 1..Len(hunks) |-> HunkRows(hunks[h], h)])

\* The first row that is the line, named by its side's number; 0 for none.
FindRow(rows, side, number) ==
    SelectInSeq(rows, LAMBDA r :
        \/ r.side = side /\ r.line = number
        \/ side = "deletions" /\ r.kind = "context" /\ r.old = number)

Position(row) == <<row.side, row.line>>

\* Where a comment on a range goes, from where a drag began: either way up.
\* Bug: a drag that went up keeps its way.
RangeAsDragged(hunks, range) ==
    LET rows == CommentRows(hunks)
        top == FindRow(rows, range.side, range.start)
        bottom == FindRow(rows, range.endSide, range.end)
    IN IF top = 0 \/ bottom = 0 THEN [problem |-> "gone"]
       ELSE IF rows[top].hunk # rows[bottom].hunk THEN [problem |-> "hunks"]
       ELSE IF bottom + 1 > top + MaxCommentRows THEN [problem |-> "long"]
       ELSE [start |-> Position(rows[top]), end |-> Position(rows[bottom]), count |-> bottom + 1 - top]

CommentRange(hunks, range) ==
    LET rows == CommentRows(hunks)
        first == FindRow(rows, range.side, range.start)
        last == FindRow(rows, range.endSide, range.end)
        top == IF first <= last THEN first ELSE last
        bottom == IF first <= last THEN last ELSE first
    IN IF first = 0 \/ last = 0 THEN [problem |-> "gone"]
       ELSE IF rows[top].hunk # rows[bottom].hunk THEN [problem |-> "hunks"]
       ELSE IF bottom - top + 1 > MaxCommentRows THEN [problem |-> "long"]
       ELSE [start |-> Position(rows[top]), end |-> Position(rows[bottom]), count |-> bottom - top + 1]
=============================================================================

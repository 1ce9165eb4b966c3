------------------------------ MODULE Markdown ------------------------------
(***************************************************************************)
(* The markdown of pull requests and handovers in the Branch Review page   *)
(* (EditorAssets/review-page.js parseMarkdown): lines become blocks, never *)
(* HTML, quotes and lists nest only so deep, and the section of decisions  *)
(* is shown apart.                                                         *)
(*                                                                         *)
(* A line is what its parser tells of it: how many ">" it starts with, its *)
(* indentation, and its kind: blank, text, heading (with its level, and    *)
(* whether it starts with "Decisions"), rule ("---"), bullet, number, open *)
(* ("```js", which opens a block of code) or fence ("```", which closes it *)
(* too). Its text is its place in the source, "at". Spans inside a line    *)
(* are left out.                                                           *)
(***************************************************************************)
EXTENDS Naturals, Sequences, FiniteSets, SequencesExt

CONSTANT MaxDepth    \* 8 in the code

ASSUME MaxDepthAssumption == MaxDepth \in Nat \ {0}

KindOf(line) == IF line.quotes > 0 THEN "quote" ELSE line.kind
IndentOf(line) == IF line.quotes > 0 THEN 0 ELSE line.indent
IsBlank(line) == KindOf(line) = "blank"
IsListItem(line) == KindOf(line) \in {"bullet", "number"}
IsOrdered(line) == line.kind = "number"
IsFence(line) == KindOf(line) \in {"open", "fence"}
GoesOnInParagraph(line) == KindOf(line) \in {"text", "rule"}
Unquoted(line) == [line EXCEPT !.quotes = @ - 1]

\* How many lines from the first on pass the test, and what follows them.
RunLength(lines, Test(_)) ==
    LET ends == {i \in 1..Len(lines) : ~Test(lines[i])}
    IN IF ends = {} THEN Len(lines) ELSE Min(ends) - 1
After(lines, n) == SubSeq(lines, n + 1, Len(lines))
Places(lines) == [i \in 1..Len(lines) |-> lines[i].at]

\* The first item of a list, or one at its indentation, goes with it; another kind of
\* list at that indentation does not.
SameIndent(line, first) == IndentOf(line) = IndentOf(first)
OtherList(line, first) == SameIndent(line, first) /\ IsOrdered(line) # IsOrdered(first)

\* A blank line ends the list unless an item of it, or under it, follows.
ListGoesOn(lines, first) ==
    LET blanks == RunLength(lines, IsBlank)
    IN /\ blanks < Len(lines)
       /\ LET next == lines[blanks + 1] IN
            IsListItem(next) /\ IndentOf(next) >= IndentOf(first) /\ ~OtherList(next, first)

StaysLevel(line, first, depth) ==
    \/ SameIndent(line, first)
    \/ IndentOf(line) > IndentOf(first) /\ depth + 1 >= MaxDepth

RECURSIVE ListFrom(_, _, _, _)

\* A list's items from the lines on, nested by indentation: [items, rest].
ListFrom(lines, first, depth, items) ==
    LET ends == [items |-> items, rest |-> lines] IN
    IF lines = <<>> THEN ends
    ELSE LET line == Head(lines) IN
      IF IsBlank(line) THEN
        IF ListGoesOn(lines, first)
          THEN ListFrom(After(lines, RunLength(lines, IsBlank)), first, depth, items)
          ELSE ends
      ELSE IF IsListItem(line) /\ StaysLevel(line, first, depth) THEN
        IF OtherList(line, first) THEN ends
        ELSE ListFrom(Tail(lines), first, depth, Append(items, [text |-> <<line.at>>, lists |-> <<>>]))
      ELSE IF IsListItem(line) /\ IndentOf(line) > IndentOf(first) THEN
        LET nested == ListFrom(lines, line, depth + 1, <<>>) IN
        ListFrom(nested.rest, first, depth,
                 [items EXCEPT ![Len(items)].lists = Append(@, nested.items)])
      ELSE IF ~IsListItem(line) /\ IndentOf(line) > IndentOf(first) THEN
        ListFrom(Tail(lines), first, depth, [items EXCEPT ![Len(items)].text = Append(@, line.at)])
      ELSE ends

RECURSIVE ParseLines(_, _)

ParseLines(lines, depth) ==
    IF lines = <<>> THEN <<>>
    ELSE LET line == Head(lines)
             rest == Tail(lines)
             kind == KindOf(line) IN
      CASE kind = "blank" -> ParseLines(rest, depth)
        [] IsFence(line) ->
             LET body == RunLength(rest, LAMBDA l : KindOf(l) # "fence") IN
             <<[type |-> "code", lines |-> Places(SubSeq(rest, 1, body))]>>
                \o ParseLines(After(rest, body + 1), depth)
        [] kind = "heading" ->
             <<[type |-> "heading", lines |-> <<line.at>>, level |-> line.level,
                decisions |-> line.decisions]>> \o ParseLines(rest, depth)
        [] kind = "rule" -> <<[type |-> "rule", lines |-> <<line.at>>]>> \o ParseLines(rest, depth)
        [] kind = "quote" /\ depth < MaxDepth ->
             LET n == RunLength(lines, LAMBDA l : KindOf(l) = "quote")
                 quoted == [i \in 1..n |-> Unquoted(lines[i])] IN
             <<[type |-> "quote", blocks |-> ParseLines(quoted, depth + 1)]>>
                \o ParseLines(After(lines, n), depth)
        [] IsListItem(line) ->
             LET list == ListFrom(lines, line, depth, <<>>) IN
             <<[type |-> "list", items |-> list.items]>> \o ParseLines(list.rest, depth)
        [] OTHER ->
             LET n == RunLength(rest, GoesOnInParagraph) IN
             <<[type |-> "paragraph", lines |-> <<line.at>> \o Places(SubSeq(rest, 1, n))]>>
                \o ParseLines(After(rest, n), depth)

ParseMarkdown(lines) == ParseLines(lines, 0)

\* From a heading of decisions up to the next heading of its level or above.
\* Bug: the heading of decisions ends its own section.
EndsItself(blocks, start) ==
    {i \in start..Len(blocks) : blocks[i].type = "heading" /\ blocks[i].level <= blocks[start].level}

SectionEnds(blocks, start) ==
    {i \in (start + 1)..Len(blocks) : blocks[i].type = "heading" /\ blocks[i].level <= blocks[start].level}

SplitDecisions(blocks) ==
    LET start == SelectInSeq(blocks, LAMBDA b : b.type = "heading" /\ b.decisions)
        ends == SectionEnds(blocks, start)
        end == IF ends = {} THEN Len(blocks) + 1 ELSE Min(ends)
    IN IF start = 0 THEN [blocks |-> blocks, title |-> <<>>, decisions |-> <<>>]
       ELSE [blocks |-> SubSeq(blocks, 1, start - 1) \o SubSeq(blocks, end, Len(blocks)),
             title |-> blocks[start].lines,
             decisions |-> SubSeq(blocks, start + 1, end - 1)]

----------------------------------------------------------------------------
(* What is read of the source.                                             *)

RECURSIVE PlacesInItems(_), PlacesInBlocks(_)

PlacesInItems(items) ==
    FlattenSeq([i \in 1..Len(items) |->
        items[i].text \o FlattenSeq([k \in 1..Len(items[i].lists) |-> PlacesInItems(items[i].lists[k])])])

PlacesInBlocks(blocks) ==
    FlattenSeq([i \in 1..Len(blocks) |->
        CASE blocks[i].type = "quote" -> PlacesInBlocks(blocks[i].blocks)
          [] blocks[i].type = "list" -> PlacesInItems(blocks[i].items)
          [] OTHER -> blocks[i].lines])
=============================================================================

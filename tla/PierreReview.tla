---------------------------- MODULE PierreReview ----------------------------
(***************************************************************************)
(* The diffs of the Branch Review page as its wrapper of pierre draws them *)
(* (Web/pierre-diff/pierre-diff-entry.js createReview): the elements of    *)
(* comments and notes kept under their lines, the heights measured with    *)
(* them, and which selections of lines the page hears of.                  *)
(*                                                                         *)
(* The page (review.js) gives lists of annotations, lines to show selected *)
(* and answers to gutter clicks; any it can give are taken. Pierre is      *)
(* external: it draws a file on screen or leaves a placeholder, measures   *)
(* the rows it drew, and reports the lines a click or a drag ended on. A   *)
(* page keeps one review: the one before is destroyed as it is created.    *)
(* Scroll positions are left out.                                          *)
(***************************************************************************)
EXTENDS DiffRows

CONSTANTS
    Files,      \* the containers of the page's diffs
    Hunks,      \* the hunks they show
    Keys,       \* of comments, editors and notes
    Drawable,   \* those the page has an element for (a note let go has none)
    Places,     \* the lines each may be given on, shown or not
    Ranges,     \* the lines that may be selected, from where to where
    MaxListed   \* bound: annotations in a list

Sides == {"additions", "deletions"}

ASSUME PierreReviewAssumption ==
    /\ Drawable \subseteq Keys
    /\ Places \in [Keys -> SUBSET (Sides \X Nat)]
    /\ Ranges \subseteq (Sides \X Nat) \X (Sides \X Nat)
    /\ MaxListed \in Nat

VARIABLES
    views,      \* each container's ReviewFileDiff, or NoView
    focused,    \* the element that holds the focus, with its container
    heard,      \* the lines the page last heard selected in a container
    chosen      \* the lines the user last selected there by their numbers

vars == <<views, focused, heard, chosen>>

NoView == [shown |-> FALSE]
NoLines == <<>>
Nowhere == <<>>

\* The diff's lines, and those of them an annotation or a selection can be on.
Lines == DiffLines(ReviewFileDiff(Hunks))
Slots == Lines.shown \ {<<"deletions", pair[1]>> : pair \in Lines.unchanged}

\* The page's lists: a key comes once, a line more often.
Lists == LET keyed == UNION {{[side |-> l[1], lineNumber |-> l[2], key |-> k] : l \in Places[k]} : k \in Keys}
         IN {list \in UNION {[1..n -> keyed] : n \in 0..MaxListed} :
               \A i, j \in 1..Len(list) : i # j => list[i].key # list[j].key}

NewView(annotations) ==
    [shown |-> TRUE, annotations |-> annotations, children |-> <<>>,
     heights |-> [l \in Slots |-> <<>>], visible |-> FALSE, selected |-> NoLines,
     clickedGutter |-> FALSE]

KeysOn(list, line) ==
    LET on == SelectSeq(list, LAMBDA a : a.line = line) IN [i \in 1..Len(on) |-> on[i].key]

----------------------------------------------------------------------------
(* Drawing the annotations: renderAnnotations.                             *)

PutAfter(children, last, element) ==
    LET i == SelectInSeq(children, LAMBDA c : c = last) IN InsertAt(children, i + 1, element)

\* Bug: a line's first goes after what the container holds.
PutLast(children, element) == Append(children, element)

\* A line's first goes before those the line has.
PutFirst(children, element) ==
    LET i == SelectInSeq(children, LAMBDA c : c.line = element.line)
    IN IF i = 0 THEN Append(children, element) ELSE InsertAt(children, i, element)

Precedes(children, a, b) ==
    SelectInSeq(children, LAMBDA c : c = a) < SelectInSeq(children, LAMBDA c : c = b)

\* Bug: an element that is there stays where it is.
DrawOneInPlace(acc, a) ==
    LET last == acc.last[a.line] IN
    IF a.key \notin Drawable THEN acc
    ELSE [acc EXCEPT !.kept = @ \cup {a}, !.last[a.line] = a,
            !.children = IF Contains(@, a) THEN @
                         ELSE IF last = Nowhere THEN PutFirst(@, a) ELSE PutAfter(@, last, a)]

\* The next annotation of the list: its element is made, or moved after the one before
\* it on its line, or stays.
DrawOne(acc, a) ==
    LET last == acc.last[a.line]
        draws == a.key \in Drawable
        made == ~Contains(acc.children, a)
        children ==
            IF made /\ last = Nowhere THEN PutFirst(acc.children, a)
            ELSE IF made THEN PutAfter(acc.children, last, a)
            ELSE IF last # Nowhere /\ Precedes(acc.children, a, last)
              THEN PutAfter(Remove(acc.children, a), last, a)
            ELSE acc.children
    IN IF ~draws THEN acc
       ELSE [children |-> children,
             kept |-> acc.kept \cup {a},
             last |-> [acc.last EXCEPT ![a.line] = a],
             moved |-> IF ~made /\ children # acc.children THEN acc.moved \cup {a} ELSE acc.moved]

\* The elements in place, and those an earlier draw made that moved (they lose the focus).
RenderAnnotations(view) ==
    LET drawn == FoldLeft(DrawOne,
                          [children |-> view.children, kept |-> {}, moved |-> {},
                           last |-> [l \in Slots |-> Nowhere]],
                          view.annotations)
    IN [children |-> SelectSeq(drawn.children, LAMBDA c : c \in drawn.kept), moved |-> drawn.moved]

\* External: the rows drawn are measured, unless the file has no annotation.
ReconcileHeights(view, rows) ==
    IF ~view.visible \/ view.annotations = <<>> THEN view
    ELSE [view EXCEPT !.heights = [l \in Slots |->
            IF l \in rows THEN KeysOn(view.children, l) ELSE view.heights[l]]]

\* A file on screen draws its annotations; off screen it is a placeholder.
Drawn(view) ==
    IF view.visible THEN [view EXCEPT !.children = RenderAnnotations(view).children] ELSE view

KeepsFocus(f, before, after) ==
    focused = Nowhere \/ focused[1] # f
    \/ /\ after.visible
       /\ Contains(after.children, focused[2])
       /\ focused[2] \notin RenderAnnotations([before EXCEPT !.annotations = after.annotations]).moved

FocusAfter(f, before, after) == IF KeepsFocus(f, before, after) THEN focused ELSE Nowhere

----------------------------------------------------------------------------
(* What the page asks.                                                     *)

\* createReview: the page's earlier review is destroyed with its diffs.
CreateReview ==
    /\ views' = [f \in Files |-> NoView]
    /\ focused' = Nowhere
    /\ heard' = [f \in Files |-> NoLines]
    /\ chosen' = [f \in Files |-> NoLines]

RenderFile(f, list) ==
    /\ views' = [views EXCEPT ![f] = NewView(LineAnnotations(list, Lines))]
    /\ focused' = IF focused # Nowhere /\ focused[1] = f THEN Nowhere ELSE focused
    /\ heard' = [heard EXCEPT ![f] = NoLines]
    /\ chosen' = [chosen EXCEPT ![f] = NoLines]

RemoveFile(f) ==
    /\ views[f].shown
    /\ views' = [views EXCEPT ![f] = NoView]
    /\ focused' = IF focused # Nowhere /\ focused[1] = f THEN Nowhere ELSE focused
    /\ heard' = [heard EXCEPT ![f] = NoLines]
    /\ chosen' = [chosen EXCEPT ![f] = NoLines]

\* The lines whose annotations change lose the height measured with them.
\* Bug: only those of the lines that have annotations now.
DropsWhereSome(view, next) ==
    [l \in Slots |-> IF KeysOn(next, l) # <<>> /\ KeysOn(view.annotations, l) # KeysOn(next, l)
                       THEN <<>> ELSE view.heights[l]]

DropsHeights(view, next) ==
    [l \in Slots |-> IF KeysOn(view.annotations, l) # KeysOn(next, l) THEN <<>> ELSE view.heights[l]]

Changes(view, next) == \E l \in Slots : KeysOn(view.annotations, l) # KeysOn(next, l)

\* The same annotations again, line by line, render nothing.
WithAnnotations(view, list, rows) ==
    LET next == LineAnnotations(list, Lines)
        dropped == [view EXCEPT !.heights = DropsHeights(view, next), !.annotations = next]
    IN IF Changes(view, next) THEN ReconcileHeights(Drawn(dropped), rows) ELSE view

SetAnnotations(f, list, rows) ==
    /\ views[f].shown
    /\ views' = [views EXCEPT ![f] = WithAnnotations(views[f], list, rows)]
    /\ focused' = FocusAfter(f, views[f], views'[f])
    /\ UNCHANGED <<heard, chosen>>

\* The lines of a range both of whose ends the diff shows.
Selection(range) ==
    IF range = NoLines THEN NoLines
    ELSE LET first == ShownLine(Lines, range[1][1], range[1][2])
             last == ShownLine(Lines, range[2][1], range[2][2])
         IN IF NoLine \in {first, last} THEN NoLines ELSE <<first, last>>

\* onLineSelected: what pierre reports of a view's lines, as the page hears it.
\* Bug: what the page sets is reported too.
ReportsAll(view, was, range, selecting) ==
    IF view.clickedGutter THEN [view |-> [view EXCEPT !.clickedGutter = FALSE], heard |-> was]
    ELSE [view |-> view, heard |-> range]

Reported(view, was, range, selecting) ==
    IF selecting THEN [view |-> view, heard |-> was]
    ELSE IF view.clickedGutter THEN [view |-> [view EXCEPT !.clickedGutter = FALSE], heard |-> was]
    ELSE [view |-> view, heard |-> range]

\* External: pierre reports a selection set only when it changes.
WithSelection(view, was, range) ==
    IF view.selected = range THEN [view |-> view, heard |-> was]
    ELSE Reported([view EXCEPT !.selected = range], was, range, TRUE)

SetSelection(f, range) ==
    /\ views[f].shown
    /\ LET set == WithSelection(views[f], heard[f], Selection(range)) IN
         /\ views' = [views EXCEPT ![f] = set.view]
         /\ heard' = [heard EXCEPT ![f] = set.heard]
    /\ UNCHANGED <<focused, chosen>>

----------------------------------------------------------------------------
(* What the user does.                                                     *)

\* Lines are selected by their numbers, or unselected: pierre's own lines.
SelectLines(f, range) ==
    /\ views[f].shown /\ views[f].visible
    /\ LET told == Reported([views[f] EXCEPT !.selected = range], heard[f], range, FALSE) IN
         /\ views' = [views EXCEPT ![f] = told.view]
         /\ heard' = [heard EXCEPT ![f] = told.heard]
    /\ chosen' = [chosen EXCEPT ![f] = range]
    /\ UNCHANGED focused

\* The page's list with a new editor under the last of the lines.
WithEditor(annotations, range, key) ==
    Append([i \in 1..Len(annotations) |->
               [side |-> annotations[i].line[1], lineNumber |-> annotations[i].line[2], key |-> annotations[i].key]],
           [side |-> range[2][1], lineNumber |-> range[2][2], key |-> key])

\* The gutter's button, clicked by a line or dragged: the page opens an editor there,
\* lets lines go, or says why not; then pierre reports the same lines as a selection.
GutterClick(f, range, answer, key, rows) ==
    /\ views[f].shown /\ views[f].visible
    /\ \A i \in 1..Len(views[f].annotations) : views[f].annotations[i].key # key
    /\ LET clicked == [views[f] EXCEPT !.selected = range, !.clickedGutter = TRUE]
           answered ==
               CASE answer = "editor" ->
                      [view |-> WithAnnotations(clicked, WithEditor(clicked.annotations, range, key), rows),
                       heard |-> heard[f]]
                 [] answer = "clears" -> WithSelection(clicked, heard[f], NoLines)
                 [] answer = "notice" -> [view |-> clicked, heard |-> heard[f]]
           told == Reported(answered.view, answered.heard, answered.view.selected, FALSE)
       IN /\ views' = [views EXCEPT ![f] = told.view]
          /\ heard' = [heard EXCEPT ![f] = told.heard]
    /\ focused' = FocusAfter(f, views[f], views'[f])
    /\ UNCHANGED chosen

ScrollIntoView(f, rows) ==
    /\ views[f].shown /\ ~views[f].visible
    /\ views' = [views EXCEPT ![f] = ReconcileHeights(Drawn([views[f] EXCEPT !.visible = TRUE]), rows)]
    /\ UNCHANGED <<focused, heard, chosen>>

\* The elements stay, and show in no slot.
ScrollAway(f) ==
    /\ views[f].shown /\ views[f].visible
    /\ views' = [views EXCEPT ![f].visible = FALSE]
    /\ focused' = IF focused # Nowhere /\ focused[1] = f THEN Nowhere ELSE focused
    /\ UNCHANGED <<heard, chosen>>

Focus(f, element) ==
    /\ views[f].shown /\ views[f].visible /\ Contains(views[f].children, element)
    /\ focused' = <<f, element>>
    /\ UNCHANGED <<views, heard, chosen>>

\* What pierre selects: lines it shows.
Selectable == {range \in Ranges : range[1] \in Slots /\ range[2] \in Slots}

Init ==
    /\ views = [f \in Files |-> NoView]
    /\ focused = Nowhere
    /\ heard = [f \in Files |-> NoLines]
    /\ chosen = [f \in Files |-> NoLines]

Next ==
    \/ CreateReview
    \/ \E f \in Files :
         \/ \E list \in Lists : RenderFile(f, list)
         \/ RemoveFile(f)
         \/ \E list \in Lists, rows \in SUBSET Slots : SetAnnotations(f, list, rows)
         \/ \E range \in Ranges \cup {NoLines} : SetSelection(f, range)
         \/ \E range \in Selectable \cup {NoLines} : SelectLines(f, range)
         \/ \E range \in Selectable, answer \in {"editor", "clears", "notice"}, key \in Keys,
               rows \in SUBSET Slots : GutterClick(f, range, answer, key, rows)
         \/ \E rows \in SUBSET Slots : ScrollIntoView(f, rows)
         \/ ScrollAway(f)
         \/ views[f].shown /\ \E i \in 1..Len(views[f].children) : Focus(f, views[f].children[i])

Spec == Init /\ [][Next]_vars

----------------------------------------------------------------------------
(* Properties.                                                             *)

\* A file on screen shows, under each of its lines, the elements of the annotations
\* there, in the list's order, and no other: whatever lists it was given before, on
\* screen or off it (renderAnnotations).
ListedInOrder ==
    \A f \in Files : views[f].shown /\ views[f].visible =>
        \A l \in Slots :
            KeysOn(views[f].children, l)
              = SelectSeq(KeysOn(views[f].annotations, l), LAMBDA k : k \in Drawable)

\* The height kept for a line is one measured with what shows under it now: a file off
\* screen is as high as it will be (setAnnotations).
HeightsAreCurrent ==
    \A f \in Files : views[f].shown =>
        \A l \in Slots :
            views[f].heights[l] # <<>> =>
                views[f].heights[l]
                  = SelectSeq(KeysOn(views[f].annotations, l), LAMBDA k : k \in Drawable)

\* The page hears of the lines the user selected by their numbers, and of no others:
\* neither of those it set nor of a gutter click's, which pierre reports twice.
HearsTheUser == heard = chosen

\* In which of two lists the same keys come in the same order.
SameOrder(a, b) ==
    LET both == {a[i] : i \in 1..Len(a)} \cap {b[i] : i \in 1..Len(b)}
    IN SelectSeq(a, LAMBDA k : k \in both) = SelectSeq(b, LAMBDA k : k \in both)

\* An element keeps the focus whatever is added before it or removed: it loses it when it
\* goes, when its file does or leaves the screen, or when the order of its line changes
\* (renderAnnotations).
FocusStays ==
    [][focused # Nowhere =>
        LET f == focused[1]
            element == focused[2]
        IN \/ focused' # Nowhere
           \/ ~views'[f].shown \/ ~views'[f].visible
           \/ ~Contains(views'[f].annotations, element)
           \/ ~SameOrder(KeysOn(views[f].annotations, element.line),
                         KeysOn(views'[f].annotations, element.line))]_vars
=============================================================================

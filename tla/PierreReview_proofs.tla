------------------------ MODULE PierreReview_proofs ------------------------
(***************************************************************************)
(* Proofs about the review page's diffs, for every set of containers,      *)
(* hunks, annotations and ranges.                                          *)
(*                                                                         *)
(* What the page hears of a view depends on the flag a gutter click sets   *)
(* and pierre's second report clears. Between steps the flag is never set: *)
(* that is the strengthening that makes HearsTheUser inductive.            *)
(***************************************************************************)
EXTENDS PierreReview, TLAPS

Fields == {"shown", "annotations", "children", "heights", "visible", "selected", "clickedGutter"}

\* A record of a view's fields.
IsView(v) == v = [field \in Fields |-> v[field]]

NoClickWaits ==
    \A f \in Files : views[f].shown => IsView(views[f]) /\ views[f].clickedGutter = FALSE

ByFile(function) == function = [f \in Files |-> function[f]]

Heard == HearsTheUser /\ NoClickWaits /\ ByFile(views) /\ ByFile(heard)

----------------------------------------------------------------------------
(* What drawing, measuring and selecting leave alone.                      *)

\* Measuring touches the heights only (pierre's FileDiff).
LEMMA MeasuringKeeps ==
    ASSUME NEW v, IsView(v), NEW rows
    PROVE  LET after == ReconcileHeights(v, rows)
           IN IsView(after) /\ after.clickedGutter = v.clickedGutter /\ after.shown = v.shown
              /\ after.selected = v.selected
  BY DEF ReconcileHeights, IsView, Fields

\* Drawing touches the elements only (renderAnnotations).
LEMMA DrawingKeeps ==
    ASSUME NEW v, IsView(v)
    PROVE  LET after == Drawn(v)
           IN IsView(after) /\ after.clickedGutter = v.clickedGutter /\ after.shown = v.shown
              /\ after.selected = v.selected
<1> DEFINE elements == RenderAnnotations(v).children
<1> HIDE DEF elements
<1>1. Drawn(v) = IF v.visible THEN [v EXCEPT !.children = elements] ELSE v
  BY DEF Drawn, elements
<1> QED
  BY <1>1 DEF IsView, Fields

\* A new list of annotations leaves the selection and the gutter's flag (setAnnotations).
LEMMA AnnotationsKeep ==
    ASSUME NEW v, IsView(v), NEW list, NEW rows
    PROVE  LET after == WithAnnotations(v, list, rows)
           IN IsView(after) /\ after.clickedGutter = v.clickedGutter /\ after.shown = v.shown
              /\ after.selected = v.selected
<1> DEFINE next == LineAnnotations(list, Lines)
           heights == DropsHeights(v, next)
           dropped == [v EXCEPT !.heights = heights, !.annotations = next]
           drawn == Drawn(dropped)
           measured == ReconcileHeights(drawn, rows)
<1> HIDE DEF next, heights
<1>1. IsView(dropped) /\ dropped.clickedGutter = v.clickedGutter /\ dropped.shown = v.shown
      /\ dropped.selected = v.selected
  BY DEF IsView, Fields
<1> HIDE DEF dropped
<1>2. IsView(drawn) /\ drawn.clickedGutter = v.clickedGutter /\ drawn.shown = v.shown
      /\ drawn.selected = v.selected
  BY <1>1, DrawingKeeps
<1> HIDE DEF drawn
<1>3. IsView(measured) /\ measured.clickedGutter = v.clickedGutter /\ measured.shown = v.shown
      /\ measured.selected = v.selected
  BY <1>2, MeasuringKeeps
<1>4. WithAnnotations(v, list, rows) = IF Changes(v, next) THEN measured ELSE v
  BY DEF WithAnnotations, measured, drawn, dropped, heights, next
<1> HIDE DEF measured
<1> QED
  BY <1>3, <1>4

\* Lines set by the page are not heard of (onLineSelected while selecting).
LEMMA SettingIsSilent ==
    ASSUME NEW v, IsView(v), NEW was, NEW range
    PROVE  LET after == WithSelection(v, was, range)
           IN IsView(after.view) /\ after.view.clickedGutter = v.clickedGutter
              /\ after.view.shown = v.shown /\ after.heard = was
  BY DEF WithSelection, Reported, IsView, Fields

----------------------------------------------------------------------------
(* The steps.                                                              *)

\* A step that changes one file's view to a good one, and what was heard and chosen there
\* to the same lines, keeps the invariant.
LEMMA OneFileChanges ==
    ASSUME Heard, NEW f \in Files, NEW v, NEW lines,
           v.shown => IsView(v) /\ v.clickedGutter = FALSE,
           views' = [views EXCEPT ![f] = v],
           heard' = [heard EXCEPT ![f] = lines],
           chosen' = [chosen EXCEPT ![f] = lines]
    PROVE  Heard'
<1>1. HearsTheUser'
  BY DEF Heard, HearsTheUser
<1>2. ByFile(heard)' /\ ByFile(views)'
  BY DEF Heard, ByFile
<1>3. \A g \in Files : views'[g] = IF g = f THEN v ELSE views[g]
  BY DEF Heard, ByFile
<1>4. NoClickWaits'
  BY <1>3 DEF Heard, NoClickWaits
<1> QED
  BY <1>1, <1>2, <1>4 DEF Heard

\* As before, of a step that leaves what was heard and chosen.
LEMMA OneViewChanges ==
    ASSUME Heard, NEW f \in Files, NEW v,
           v.shown => IsView(v) /\ v.clickedGutter = FALSE,
           views' = [views EXCEPT ![f] = v],
           heard' = heard, chosen' = chosen
    PROVE  Heard'
<1>1. /\ heard' = [heard EXCEPT ![f] = heard[f]]
      /\ chosen' = [chosen EXCEPT ![f] = heard[f]]
  BY DEF Heard, HearsTheUser, ByFile
<1> QED
  BY <1>1, OneFileChanges

\* A gutter click is heard of once pierre reports it, and then left alone, whatever the
\* page answered (interactions).
LEMMA ClickKeeps ==
    ASSUME Heard, NEW f \in Files, NEW range, NEW answer \in {"editor", "clears", "notice"},
           NEW key, NEW rows, GutterClick(f, range, answer, key, rows)
    PROVE  Heard'
<1> DEFINE clicked == [views[f] EXCEPT !.selected = range, !.clickedGutter = TRUE]
           edited == WithAnnotations(clicked, WithEditor(clicked.annotations, range, key), rows)
           cleared == WithSelection(clicked, heard[f], NoLines)
           answered ==
               CASE answer = "editor" -> [view |-> edited, heard |-> heard[f]]
                 [] answer = "clears" -> cleared
                 [] answer = "notice" -> [view |-> clicked, heard |-> heard[f]]
           told == Reported(answered.view, answered.heard, answered.view.selected, FALSE)
<1>1. IsView(views[f])
  BY DEF Heard, NoClickWaits, GutterClick
<1>2. /\ views' = [views EXCEPT ![f] = told.view]
      /\ heard' = [heard EXCEPT ![f] = told.heard]
      /\ chosen' = chosen
  BY DEF GutterClick
<1>3. IsView(clicked) /\ clicked.clickedGutter = TRUE
  BY <1>1 DEF IsView, Fields
<1> HIDE DEF clicked
<1>4. IsView(edited) /\ edited.clickedGutter = TRUE
  BY <1>3, AnnotationsKeep
<1> HIDE DEF edited
<1>5. IsView(cleared.view) /\ cleared.view.clickedGutter = TRUE /\ cleared.heard = heard[f]
  BY <1>3, SettingIsSilent
<1> HIDE DEF cleared
<1>6. IsView(answered.view) /\ answered.view.clickedGutter = TRUE /\ answered.heard = heard[f]
  BY <1>3, <1>4, <1>5
<1> HIDE DEF answered
<1>7. /\ told.heard = heard[f]
      /\ IsView(told.view) /\ told.view.clickedGutter = FALSE
  BY <1>6 DEF Reported, IsView, Fields
<1> HIDE DEF told
<1>8. heard' = heard
  BY <1>2, <1>7 DEF Heard, ByFile
<1> QED
  BY <1>2, <1>7, <1>8, OneViewChanges

LEMMA HeardInit == Init => Heard
  BY DEF Init, Heard, HearsTheUser, NoClickWaits, ByFile, NoView

LEMMA HeardNext == Heard /\ [Next]_vars => Heard'
<1> SUFFICES ASSUME Heard, [Next]_vars PROVE Heard'
  OBVIOUS
<1>1. CASE UNCHANGED vars
  BY <1>1 DEF vars, Heard, HearsTheUser, NoClickWaits, ByFile
<1>2. CASE CreateReview
  BY <1>2 DEF CreateReview, Heard, HearsTheUser, NoClickWaits, ByFile, NoView
<1>3. ASSUME NEW f \in Files, NEW list \in Lists, RenderFile(f, list) PROVE Heard'
  <2> DEFINE v == NewView(LineAnnotations(list, Lines))
  <2>1. IsView(v) /\ v.clickedGutter = FALSE
    BY DEF NewView, IsView, Fields
  <2>2. /\ views' = [views EXCEPT ![f] = v]
        /\ heard' = [heard EXCEPT ![f] = NoLines]
        /\ chosen' = [chosen EXCEPT ![f] = NoLines]
    BY <1>3 DEF RenderFile
  <2> HIDE DEF v
  <2> QED
    BY <2>1, <2>2, OneFileChanges
<1>4. ASSUME NEW f \in Files, RemoveFile(f) PROVE Heard'
  <2>1. NoView.shown = FALSE
    BY DEF NoView
  <2> QED
    BY <1>4, <2>1, OneFileChanges DEF RemoveFile
<1>5. ASSUME NEW f \in Files, NEW list \in Lists, NEW rows \in SUBSET Slots,
             SetAnnotations(f, list, rows)
      PROVE  Heard'
  <2>1. IsView(views[f]) /\ views[f].clickedGutter = FALSE
    BY <1>5 DEF SetAnnotations, Heard, NoClickWaits
  <2> DEFINE v == WithAnnotations(views[f], list, rows)
  <2>2. IsView(v) /\ v.clickedGutter = FALSE
    BY <2>1, AnnotationsKeep
  <2>3. views' = [views EXCEPT ![f] = v] /\ heard' = heard /\ chosen' = chosen
    BY <1>5 DEF SetAnnotations
  <2> HIDE DEF v
  <2> QED
    BY <2>2, <2>3, OneViewChanges
<1>6. ASSUME NEW f \in Files, NEW range \in Ranges \cup {NoLines}, SetSelection(f, range)
      PROVE  Heard'
  <2>1. IsView(views[f]) /\ views[f].clickedGutter = FALSE
    BY <1>6 DEF SetSelection, Heard, NoClickWaits
  <2> DEFINE set == WithSelection(views[f], heard[f], Selection(range))
  <2>2. IsView(set.view) /\ set.view.clickedGutter = FALSE /\ set.heard = heard[f]
    BY <2>1, SettingIsSilent
  <2>3. /\ views' = [views EXCEPT ![f] = set.view]
        /\ heard' = [heard EXCEPT ![f] = set.heard]
        /\ chosen' = chosen
    BY <1>6 DEF SetSelection
  <2> HIDE DEF set
  <2>4. heard' = heard
    BY <2>2, <2>3 DEF Heard, ByFile
  <2> QED
    BY <2>2, <2>3, <2>4, OneViewChanges
<1>7. ASSUME NEW f \in Files, NEW range \in Selectable \cup {NoLines}, SelectLines(f, range)
      PROVE  Heard'
  <2>1. IsView(views[f]) /\ views[f].clickedGutter = FALSE
    BY <1>7 DEF SelectLines, Heard, NoClickWaits
  <2> DEFINE told == Reported([views[f] EXCEPT !.selected = range], heard[f], range, FALSE)
  <2>2. IsView(told.view) /\ told.view.clickedGutter = FALSE /\ told.heard = range
    BY <2>1 DEF Reported, IsView, Fields
  <2>3. /\ views' = [views EXCEPT ![f] = told.view]
        /\ heard' = [heard EXCEPT ![f] = told.heard]
        /\ chosen' = [chosen EXCEPT ![f] = range]
    BY <1>7 DEF SelectLines
  <2> HIDE DEF told
  <2> QED
    BY <2>2, <2>3, OneFileChanges
<1>8. ASSUME NEW f \in Files, NEW range \in Selectable, NEW answer \in {"editor", "clears", "notice"},
             NEW key \in Keys, NEW rows \in SUBSET Slots, GutterClick(f, range, answer, key, rows)
      PROVE  Heard'
  BY <1>8, ClickKeeps
<1>9. ASSUME NEW f \in Files, NEW rows \in SUBSET Slots, ScrollIntoView(f, rows) PROVE Heard'
  <2>1. IsView(views[f]) /\ views[f].clickedGutter = FALSE
    BY <1>9 DEF ScrollIntoView, Heard, NoClickWaits
  <2> DEFINE back == [views[f] EXCEPT !.visible = TRUE]
             drawn == Drawn(back)
             v == ReconcileHeights(drawn, rows)
  <2>2. IsView(back) /\ back.clickedGutter = FALSE
    BY <2>1 DEF IsView, Fields
  <2> HIDE DEF back
  <2>3. IsView(drawn) /\ drawn.clickedGutter = FALSE
    BY <2>2, DrawingKeeps
  <2> HIDE DEF drawn
  <2>4. IsView(v) /\ v.clickedGutter = FALSE
    BY <2>3, MeasuringKeeps
  <2>5. views' = [views EXCEPT ![f] = v] /\ heard' = heard /\ chosen' = chosen
    BY <1>9 DEF ScrollIntoView, v, drawn, back
  <2> HIDE DEF v
  <2> QED
    BY <2>4, <2>5, OneViewChanges
<1>10. ASSUME NEW f \in Files, ScrollAway(f) PROVE Heard'
  <2>1. IsView(views[f]) /\ views[f].clickedGutter = FALSE
    BY <1>10 DEF ScrollAway, Heard, NoClickWaits
  <2> DEFINE v == [views[f] EXCEPT !.visible = FALSE]
  <2>2. IsView(v) /\ v.clickedGutter = FALSE
    BY <2>1 DEF IsView, Fields
  <2>3. views' = [views EXCEPT ![f] = v] /\ heard' = heard /\ chosen' = chosen
    BY <1>10 DEF ScrollAway
  <2> HIDE DEF v
  <2> QED
    BY <2>2, <2>3, OneViewChanges
<1>11. ASSUME NEW f \in Files, NEW element, Focus(f, element) PROVE Heard'
  BY <1>11 DEF Focus, Heard, HearsTheUser, NoClickWaits, ByFile
<1> QED
  BY <1>1, <1>2, <1>3, <1>4, <1>5, <1>6, <1>7, <1>8, <1>9, <1>10, <1>11 DEF Next

\* Whatever lists, lines and answers the page gives, in whatever order, it hears only of
\* the lines the user selected by their numbers (pierre-diff-entry.js interactions,
\* setSelection).
THEOREM UserIsHeard == Spec => []HearsTheUser
<1>1. Heard => HearsTheUser
  BY DEF Heard
<1> QED
  BY HeardInit, HeardNext, <1>1, PTL DEF Spec
=============================================================================

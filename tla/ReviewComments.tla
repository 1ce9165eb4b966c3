--------------------------- MODULE ReviewComments ---------------------------
(***************************************************************************)
(* The comments of the Branch Review page.                                 *)
(*                                                                         *)
(* The page (EditorAssets/review.js) holds an editor per comment being     *)
(* written. It saves what is typed as a draft, a moment after the last     *)
(* key, and turns a draft into a comment when the user asks. Each request  *)
(* carries the number of its click. The column                             *)
(* (Views/BranchReviewController+Comments.swift) writes the requests in    *)
(* order to the review file, on a queue of its own, several at once when   *)
(* they wait, and sends the page the review again with the last click it   *)
(* answered and the clicks it refused. The page then closes, keeps, re-    *)
(* keys or reopens its editors (takeComments).                             *)
(*                                                                         *)
(* Other columns write the same file; a comment may go to the agent at any *)
(* time; a write may fail; the review may turn read-only or be read again; *)
(* the page's process may die. Both channels keep their order.             *)
(*                                                                         *)
(* Texts are numbers: 0 is blank, and every text typed is a new one, so    *)
(* that a text names the typing it comes from. One file takes all the      *)
(* comments; inDiff says whether the page's diff has it. Left out: where   *)
(* under the lines a comment is (DiffRows), limits on the size of a        *)
(* review, and other branches.                                             *)
(***************************************************************************)
EXTENDS Naturals, Sequences, FiniteSets, SequencesExt

CONSTANTS
    MaxIds,        \* bound: comments and drafts
    MaxEvents,     \* bound: texts typed, clicks, failed writes and reads, new
                   \* pages, changes by other columns and the agent, and
                   \* deaths of the page, all together
    EarlierPages   \* earlierPages: the pages whose lines still take a comment

ASSUME BoundsAssumption ==
    {MaxIds, MaxEvents, EarlierPages} \subseteq Nat

None == 0      \* no id, no text, no request, no page
Never == 0     \* dismissed while nothing could be written: Infinity

\* The page: review.js's state.
VARIABLES
    gen, inDiff,               \* state.page: its generation, whether it has the file
    stored,                    \* state.stored: Swift's last answer
    editors,                   \* by key: a draft's id, or the comment an edit is of
    dismissed, deleting,       \* by id: the click to be answered
    cardProblems,              \* comments whose Delete was refused
    wasWritable, hadProblem,   \* of Swift's answer before
    clickCount, nextId,
    focus                      \* the editor whose text has the focus

\* The column: BranchReviewController, and BranchReviewFile on its queue.
VARIABLES
    snapshotCount, fileIn,     \* the page's generation, whether it has the file
    review,                    \* the main thread's BranchReviewState
    pending,                   \* changes asked for, not taken by a write
    file,                      \* the queue's BranchReviewState
    disk,                      \* the review file
    results,                   \* what the queue returns to the main thread
    opening,                   \* pages whose openReview waits on the queue
    writeCompletions,          \* clicks whose write has not come back
    waiting,                   \* acknowledgmentWaiting
    acknowledged,              \* reviewAcknowledged
    commentProblems            \* clicks refused

VARIABLES
    toSwift, toPage,           \* messages under way
    isPageReady,
    events, written

pageVars == <<gen, inDiff, stored, editors, dismissed, deleting, cardProblems,
              wasWritable, hadProblem, clickCount, nextId, focus>>
columnVars == <<snapshotCount, fileIn, review, pending, file, disk, results, opening,
                writeCompletions, waiting, acknowledged, commentProblems>>
vars == <<pageVars, columnVars, toSwift, toPage, isPageReady, events, written>>

----------------------------------------------------------------------------
(* The record of a review: comments and drafts by id.                      *)

Empty == [x \in {} |-> x]
EmptyRecord == [comments |-> Empty, drafts |-> Empty]

Without(f, S) == [x \in DOMAIN f \ S |-> f[x]]
With(f, k, v) == [x \in DOMAIN f \cup {k} |-> IF x = k THEN v ELSE f[x]]

HasComment(r, id) == id \in DOMAIN r.comments
Unsent(r, id) == HasComment(r, id) /\ ~r.comments[id].sent
Sent(r, id) == HasComment(r, id) /\ r.comments[id].sent

\* Drafts that edit comment id.
EditsOf(r, id) == {d \in DOMAIN r.drafts : r.drafts[d].editing = id}

\* The draft of a new comment, not of an edit.
NewDrafts(r) == {d \in DOMAIN r.drafts : r.drafts[d].editing = None}

\* The edit the page gets with an unsent comment: the latest.
Edit(r, id) ==
    IF Unsent(r, id) /\ EditsOf(r, id) # {}
      THEN CHOOSE d \in EditsOf(r, id) : \A other \in EditsOf(r, id) : other <= d
      ELSE None

RemoveDraft(r, id) == [r EXCEPT !.drafts = Without(@, {id})]
DeleteComment(r, id) ==
    [comments |-> Without(r.comments, {id}), drafts |-> Without(r.drafts, EditsOf(r, id))]

\* What BranchReview.Record takes of a request.
Accepts(r, c) ==
    CASE c.type = "saveDraft" ->
           \/ c.text = None
           \/ /\ ~HasComment(r, c.id)
              /\ c.editing # None => Unsent(r, c.editing)
              /\ IF c.id \in DOMAIN r.drafts
                   THEN r.drafts[c.id].editing = c.editing
                   ELSE c.editing # None \/ c.anchored
      [] c.type = "addComment" ->
           /\ c.text # None
           /\ ~HasComment(r, c.id)
           /\ IF c.id \in DOMAIN r.drafts THEN c.id \in NewDrafts(r) ELSE c.anchored
      [] c.type = "editComment" -> c.text # None /\ Unsent(r, c.id)
      [] c.type = "markSent" -> Unsent(r, c.id) /\ r.comments[c.id].text = c.text
      [] OTHER -> TRUE

\* Bug: an edit under way goes on as one of a comment that went.
MarkSentOnly(r, id) == [r EXCEPT !.comments[id].sent = TRUE]

\* An edit of a comment that went becomes a new comment's draft.
MarkSent(r, id) ==
    LET same == {d \in EditsOf(r, id) : r.drafts[d].text = r.comments[id].text}
    IN  [comments |-> [r.comments EXCEPT ![id].sent = TRUE],
         drafts |-> [d \in DOMAIN r.drafts \ same |->
                       IF d \in EditsOf(r, id) THEN [r.drafts[d] EXCEPT !.editing = None] ELSE r.drafts[d]]]

Change(r, c) ==
    CASE ~Accepts(r, c) -> r
      [] c.type = "saveDraft" /\ c.text # None ->
           [r EXCEPT !.drafts = With(@, c.id, [text |-> c.text, editing |-> c.editing])]
      [] c.type = "addComment" ->
           RemoveDraft([r EXCEPT !.comments = With(@, c.id, [text |-> c.text, sent |-> FALSE])], c.id)
      [] c.type = "editComment" ->
           [comments |-> [r.comments EXCEPT ![c.id].text = c.text],
            drafts |-> Without(r.drafts, EditsOf(r, c.id))]
      [] c.type = "deleteComment" -> DeleteComment(r, c.id)
      [] c.type = "markSent" -> MarkSent(r, c.id)
      [] OTHER -> RemoveDraft(r, c.id)

----------------------------------------------------------------------------
(* The page.                                                               *)

\* What the page lists: nothing of a review that was not read.
Comments(s) == IF s.known THEN s.record ELSE EmptyRecord
CanComment == stored.canWrite
HasPage == gen # None

NewEditor(id, editing, text, saved) ==
    [id |-> id, editing |-> editing, text |-> text, saved |-> saved, request |-> None, submitted |-> FALSE,
     unsaved |-> FALSE, problem |-> FALSE, timer |-> "none", chosen |-> None]

\* Where a request says the comment goes: the page its lines were chosen in.
Place(e) ==
    IF e.editing # None THEN None
    ELSE IF e.chosen # None THEN e.chosen
    ELSE IF inDiff THEN gen ELSE None

Request(type, id, text, click, editing, place) ==
    [type |-> type, id |-> id, text |-> text, click |-> click, editing |-> editing, place |-> place]

Post(m) == toSwift' = Append(toSwift, m)

NextClick == clickCount + 1

\* One more of the events the bound counts; a text typed is new.
Happens == events < MaxEvents /\ events' = events + 1
NewText == events + 3

OpenEditor(onLines) ==
    /\ HasPage /\ inDiff /\ CanComment
    /\ nextId <= MaxIds
    /\ editors' = With(editors, nextId, [NewEditor(nextId, None, None, FALSE)
                                           EXCEPT !.chosen = IF onLines THEN gen ELSE None])
    /\ nextId' = nextId + 1
    /\ focus' = nextId
    /\ UNCHANGED <<gen, inDiff, stored, dismissed, deleting, cardProblems, wasWritable, hadProblem, clickCount>>
    /\ UNCHANGED <<columnVars, toSwift, toPage, isPageReady, events, written>>

\* A key, which sets the timer again; the text may end up blank.
Type(k, blank) ==
    /\ k \in DOMAIN editors
    /\ ~editors[k].submitted
    /\ blank => editors[k].text # None
    /\ Happens
    /\ editors' = [editors EXCEPT ![k].text = IF blank THEN None ELSE NewText, ![k].timer = "running"]
    /\ focus' = k
    /\ UNCHANGED <<gen, inDiff, stored, dismissed, deleting, cardProblems, wasWritable, hadProblem, clickCount, nextId>>
    /\ UNCHANGED <<columnVars, toSwift, toPage, isPageReady, written>>

LooksAway ==
    /\ focus # None
    /\ focus' = None
    /\ UNCHANGED <<gen, inDiff, stored, editors, dismissed, deleting, cardProblems, wasWritable, hadProblem, clickCount, nextId>>
    /\ UNCHANGED <<columnVars, toSwift, toPage, isPageReady, events, written>>

\* saveDraft, once the timer fires: nothing while nothing can be written.
SaveDraft(k) ==
    /\ k \in DOMAIN editors
    /\ editors[k].timer = "running"
    /\ LET e == editors[k] IN
         IF HasPage /\ CanComment /\ ~e.submitted
           THEN /\ editors' = [editors EXCEPT ![k].timer = "none", ![k].request = NextClick, ![k].saved = TRUE]
                /\ clickCount' = NextClick
                /\ Post(Request("saveDraft", e.id, e.text, NextClick, e.editing, Place(e)))
           ELSE /\ editors' = [editors EXCEPT ![k].timer = "none"]
                /\ UNCHANGED <<clickCount, toSwift>>
    /\ UNCHANGED <<gen, inDiff, stored, dismissed, deleting, cardProblems, wasWritable, hadProblem, nextId, focus>>
    /\ UNCHANGED <<columnVars, toPage, isPageReady, events, written>>

\* The save still waiting is dropped: its text goes with the request.
\* editor.timer keeps the number of the timer cleared.
Submit(k) ==
    /\ k \in DOMAIN editors
    /\ HasPage /\ CanComment /\ ~editors[k].submitted /\ editors[k].text # None
    /\ Happens
    /\ LET e == editors[k] IN
         /\ editors' = [editors EXCEPT ![k].request = NextClick, ![k].submitted = TRUE, ![k].problem = FALSE,
                                       ![k].timer = IF @ = "none" THEN "none" ELSE "cleared"]
         /\ Post(IF e.editing # None
                   THEN Request("editComment", e.editing, e.text, NextClick, None, None)
                   ELSE Request("addComment", e.id, e.text, NextClick, None, Place(e)))
    /\ clickCount' = NextClick
    /\ UNCHANGED <<gen, inDiff, stored, dismissed, deleting, cardProblems, wasWritable, hadProblem, nextId, focus>>
    /\ UNCHANGED <<columnVars, toPage, isPageReady, written>>

\* Its draft waits for Swift's answer, unseen.
CloseEditor(k) ==
    /\ k \in DOMAIN editors
    /\ Happens
    /\ LET e == editors[k] IN
         /\ editors' = Without(editors, {k})
         /\ focus' = IF focus = k THEN None ELSE focus
         /\ IF ~e.saved
              THEN UNCHANGED <<dismissed, clickCount, toSwift>>
              ELSE IF CanComment
                THEN /\ dismissed' = With(dismissed, e.id, NextClick)
                     /\ clickCount' = NextClick
                     /\ Post(Request("removeDraft", e.id, None, NextClick, None, None))
                ELSE /\ dismissed' = With(dismissed, e.id, Never)
                     /\ UNCHANGED <<clickCount, toSwift>>
    /\ UNCHANGED <<gen, inDiff, stored, deleting, cardProblems, wasWritable, hadProblem, nextId>>
    /\ UNCHANGED <<columnVars, toPage, isPageReady, written>>

\* A comment's card, with its buttons.
Card(id) == HasPage /\ HasComment(Comments(stored), id) /\ id \notin DOMAIN editors /\ id \notin DOMAIN deleting /\ CanComment

EditComment(id) ==
    /\ Card(id) /\ Unsent(Comments(stored), id)
    /\ nextId <= MaxIds
    /\ LET r == Comments(stored)
           d == Edit(r, id)
       IN  /\ editors' = With(editors, id,
                 IF d # None THEN NewEditor(d, id, r.drafts[d].text, TRUE)
                             ELSE NewEditor(nextId, id, r.comments[id].text, FALSE))
           /\ nextId' = IF d # None THEN nextId ELSE nextId + 1
    /\ focus' = id
    /\ UNCHANGED <<gen, inDiff, stored, dismissed, deleting, cardProblems, wasWritable, hadProblem, clickCount>>
    /\ UNCHANGED <<columnVars, toSwift, toPage, isPageReady, events, written>>

AskDelete(id) ==
    /\ Card(id)
    /\ Happens
    /\ cardProblems' = cardProblems \ {id}
    /\ deleting' = With(deleting, id, NextClick)
    /\ clickCount' = NextClick
    /\ Post(Request("deleteComment", id, None, NextClick, None, None))
    /\ UNCHANGED <<gen, inDiff, stored, editors, dismissed, wasWritable, hadProblem, nextId, focus>>
    /\ UNCHANGED <<columnVars, toPage, isPageReady, written>>

----------------------------------------------------------------------------
(* takeComments: Swift's answer, and what becomes of each editor.          *)

\* Writable again, or its problem gone.
Recovered(s) == s.canWrite /\ (~wasWritable \/ (hadProblem /\ ~s.problem))

\* The drafts closed meanwhile, which go now.
Again(s) == IF Recovered(s) THEN {id \in DOMAIN dismissed : dismissed[id] = Never} ELSE {}

\* The click that asks again for id's removal: in order, after clickCount.
ClickAgain(s, id) == clickCount + Cardinality({other \in Again(s) : other <= id})

RemovalsAgain(s) ==
    [i \in 1..Cardinality(Again(s)) |->
       Request("removeDraft", SetToSortSeq(Again(s), <)[i], None, clickCount + i, None, None)]

\* Bug: the click Swift answers up to is left out.
AnswersBefore(s, click) == click # None /\ click < s.acknowledged

Answers(s, click) == click # None /\ click <= s.acknowledged

\* Bug: a draft closed is forgotten once answered, removed or not.
DismissedOnce(s) ==
    LET asked == [id \in DOMAIN dismissed |-> IF id \in Again(s) THEN ClickAgain(s, id) ELSE dismissed[id]]
    IN  Without(asked, {id \in DOMAIN asked : Answers(s, asked[id])})

\* A draft closed whose removal was refused stays closed.
Dismissed(s) ==
    LET asked == [id \in DOMAIN dismissed |-> IF id \in Again(s) THEN ClickAgain(s, id) ELSE dismissed[id]]
        gone == {id \in DOMAIN asked : Answers(s, asked[id]) /\ asked[id] \notin s.problems}
    IN  [id \in DOMAIN asked \ gone |-> IF Answers(s, asked[id]) THEN Never ELSE asked[id]]

\* An edit whose comment was deleted elsewhere.
Deleted(s, e) == s.known /\ e.editing # None /\ ~HasComment(Comments(s), e.editing) /\ ~e.submitted

\* An edit whose comment went to the agent: it goes on as Swift's draft, or
\* as a new comment, or goes when nothing changed.
WentToAgent(s, e) == e.editing # None /\ Sent(Comments(s), e.editing)

\* Bug: every edit with another text becomes a new comment.
AdoptsNone(s, e) == FALSE

Adopted(s, e) == WentToAgent(s, e) /\ e.id \in NewDrafts(Comments(s))
Converted(s, e) ==
    \/ Deleted(s, e)
    \/ WentToAgent(s, e) /\ ~Adopted(s, e) /\ e.text # Comments(s).comments[e.editing].text
Unchanged(s, e) == WentToAgent(s, e) /\ ~Adopted(s, e) /\ ~Converted(s, e)

\* Made a comment, or its edit saved or cancelled, in another column.
\* Bug: an editor in use, or whose save was refused, passes for idle.
IdleOnceAnswered(k) == editors[k].request = None

Idle(k) == editors[k].request = None /\ editors[k].timer = "none" /\ ~editors[k].unsaved /\ focus # k
DoneElsewhere(s, k) ==
    LET e == editors[k] IN
    /\ Idle(k) /\ e.saved
    /\ IF e.editing = None
         THEN HasComment(Comments(s), e.id)
         ELSE s.known /\ HasComment(Comments(s), e.editing) /\ Edit(Comments(s), e.editing) # e.id

\* Its Comment or Save was answered, and its comment shows.
Shows(s, e) ==
    IF e.editing = None THEN HasComment(Comments(s), e.id)
    ELSE HasComment(Comments(s), e.editing) /\ Edit(Comments(s), e.editing) = None
Finished(s, e) == Answers(s, e.request) /\ e.submitted /\ e.request \notin s.problems /\ Shows(s, e)

Goes(s, k) ==
    LET e == editors[k] IN
    \/ Unchanged(s, e)
    \/ ~Converted(s, e) /\ ~Adopted(s, e) /\ (DoneElsewhere(s, k) \/ Finished(s, e))

\* Where an edit's comment shows, in this page.
Placed(s, e, page, has) ==
    IF e.editing # None /\ HasComment(Comments(s), e.editing) THEN (IF has THEN page ELSE None)
    ELSE IF e.editing = None /\ e.id \in NewDrafts(Comments(s)) THEN None
    ELSE e.chosen

\* An editor that stays, after this answer.
Stays(s, e, page, has) ==
    LET again == Recovered(s) /\ e.unsaved /\ e.request = None
        refused == e.request \in s.problems
        placed == [e EXCEPT !.chosen = Placed(s, e, page, has)]
    IN  CASE again -> [placed EXCEPT !.unsaved = FALSE, !.problem = FALSE, !.timer = "running"]
          [] Answers(s, e.request) ->
               [placed EXCEPT !.request = None, !.submitted = FALSE, !.unsaved = refused /\ ~e.submitted,
                              !.problem = refused \/ (e.submitted /\ ~Shows(s, e))]
          [] OTHER -> placed

\* It goes on as the draft Swift made of it.
AdoptDraft(s, e) ==
    [e EXCEPT !.editing = None, !.saved = TRUE, !.chosen = None, !.request = None, !.submitted = FALSE, !.problem = TRUE,
              !.timer = IF Comments(s).drafts[e.id].text # e.text THEN "running" ELSE @]

\* It becomes a new comment's editor, under an id of its own.
ConvertEditor(e, id) ==
    [e EXCEPT !.editing = None, !.id = id, !.saved = FALSE, !.request = None, !.submitted = FALSE, !.problem = TRUE]

ToConvert(s) == {k \in DOMAIN editors : Converted(s, editors[k])}
NewKey(s, k) ==
    CASE Converted(s, editors[k]) -> nextId + Cardinality({other \in ToConvert(s) : other < k})
      [] Adopted(s, editors[k]) -> editors[k].id
      [] OTHER -> k

\* The editors after answer s, shown in page, before restoreEditors.
EditorsLeft(s, page, has) ==
    LET left == {k \in DOMAIN editors : ~Goes(s, k)}
        keys == {NewKey(s, k) : k \in left}
        of(key) == CHOOSE k \in left : NewKey(s, k) = key
    IN  [key \in keys |->
           LET e == editors[of(key)] IN
           CASE Converted(s, e) -> ConvertEditor(e, key)
             [] Adopted(s, e) -> AdoptDraft(s, e)
             [] OTHER -> Stays(s, e, page, has)]

\* restoreEditors: a draft Swift holds that no editor shows, but not one the
\* user just closed.
Restored(s, left, closed) ==
    LET r == Comments(s)
        drafts == {d \in NewDrafts(r) : d \notin DOMAIN left /\ d \notin closed}
        edits == {c \in DOMAIN r.comments : /\ Edit(r, c) # None
                                            /\ c \notin DOMAIN left
                                            /\ Edit(r, c) \notin closed}
    IN  [k \in DOMAIN left \cup drafts \cup edits |->
           CASE k \in DOMAIN left -> left[k]
             [] k \in drafts -> NewEditor(k, None, r.drafts[k].text, TRUE)
             [] OTHER -> NewEditor(Edit(r, k), k, r.drafts[Edit(r, k)].text, TRUE)]

\* takeReview: the answer s, shown in page (has: with the file).
TakeReview(s, page, has) ==
    LET refused == {id \in DOMAIN deleting : Answers(s, deleting[id]) /\ deleting[id] \in s.problems}
    IN  /\ stored' = s
        /\ wasWritable' = s.canWrite
        /\ hadProblem' = s.problem
        /\ dismissed' = Dismissed(s)
        /\ deleting' = Without(deleting, {id \in DOMAIN deleting : Answers(s, deleting[id])})
        /\ cardProblems' = (IF Recovered(s) THEN {} ELSE cardProblems) \cup refused
        /\ editors' = Restored(s, EditorsLeft(s, page, has), DOMAIN Dismissed(s))
        /\ clickCount' = clickCount + Cardinality(Again(s))
        /\ nextId' = nextId + Cardinality(ToConvert(s))
        /\ focus' = IF focus \in DOMAIN editors /\ ~Goes(s, focus) THEN NewKey(s, focus) ELSE None
        /\ toSwift' = toSwift \o RemovalsAgain(s)

\* render, and showReview for this page's generation only.
TakeMessage ==
    /\ toPage # <<>>
    /\ toPage' = Tail(toPage)
    /\ LET m == Head(toPage) IN
         CASE m.kind = "page" ->
                /\ gen' = m.gen /\ inDiff' = m.inDiff
                /\ TakeReview(m.stored, m.gen, m.inDiff)
           [] m.kind = "review" /\ m.gen = gen ->
                /\ UNCHANGED <<gen, inDiff>>
                /\ TakeReview(m.stored, gen, inDiff)
           [] OTHER -> UNCHANGED <<pageVars, toSwift>>
    /\ UNCHANGED <<columnVars, isPageReady, events, written>>

----------------------------------------------------------------------------
(* The column.                                                             *)

\* pageReview: the review as the page shows it.
PageReview(state, answered, refused) ==
    [record |-> state.record, known |-> state.known, canWrite |-> state.canWrite, problem |-> state.problem,
     acknowledged |-> answered, problems |-> refused]

NotOpened == [record |-> EmptyRecord, known |-> FALSE, canWrite |-> FALSE, problem |-> FALSE]

PageMessage(page, has, s) == [kind |-> "page", gen |-> page, inDiff |-> has, stored |-> s]
ReviewMessage(s) == [kind |-> "review", gen |-> snapshotCount, inDiff |-> FALSE, stored |-> s]

\* newAnchor: none once the draft exists, or without a place, or when the
\* page the lines were chosen in is too old.
Anchored(m) ==
    /\ ~(review.known /\ m.id \in DOMAIN review.record.drafts)
    /\ m.place # None
    /\ snapshotCount - m.place <= EarlierPages

\* comment(_:sequence:): the change is asked for.
Receive ==
    /\ toSwift # <<>>
    /\ LET m == Head(toSwift) IN
         /\ pending' = Append(pending, [type |-> m.type, id |-> m.id, text |-> m.text, editing |-> m.editing,
                                        anchored |-> Anchored(m), click |-> m.click])
         /\ writeCompletions' = writeCompletions \cup {m.click}
    /\ toSwift' = Tail(toSwift)
    /\ UNCHANGED <<pageVars, toPage, isPageReady, events, written>>
    /\ UNCHANGED <<snapshotCount, fileIn, review, file, disk, results, opening, waiting, acknowledged, commentProblems>>

Clicks(batch) == {batch[i].click : i \in DOMAIN batch} \ {None}

\* The changes in order, and the clicks whose change was refused.
AllChanged(batch, r) ==
    FoldLeft(LAMBDA acc, c : [record |-> Change(acc.record, c),
                              refused |-> acc.refused \cup (IF Accepts(acc.record, c) THEN {} ELSE {c.click})],
             [record |-> r, refused |-> {}], batch)

\* Bug: what a failed write left out is not told.
RefusedByRecord(batch, changed, fails) == changed.refused \ {None}

\* Each click whose change the record did not take, or all when nothing was
\* written.
Refused(batch, changed, fails) == IF fails THEN Clicks(batch) ELSE changed.refused \ {None}

\* write(through:): everything asked for, in one locked write, which may
\* fail (the lock, git), for good (a file turned read-only).
Write(outcome) ==
    /\ pending # <<>>
    /\ pending' = <<>>
    /\ LET changed == AllChanged(pending, disk)
           fails == ~file.canWrite \/ outcome # "written"
           state == CASE ~file.canWrite -> [file EXCEPT !.problem = TRUE]
                      [] outcome = "written" -> [record |-> changed.record, known |-> TRUE, canWrite |-> TRUE, problem |-> FALSE]
                      [] outcome = "failed" -> [file EXCEPT !.problem = TRUE]
                      [] outcome = "readOnly" -> [file EXCEPT !.problem = TRUE, !.canWrite = FALSE]
       IN  /\ IF outcome = "written" THEN UNCHANGED events ELSE file.canWrite /\ Happens
           /\ written' = IF fails THEN written ELSE written \cup (Clicks(pending) \ changed.refused)
           /\ disk' = IF fails THEN disk ELSE changed.record
           /\ file' = state
           /\ results' = Append(results, [page |-> None, state |-> state, clicks |-> Clicks(pending),
                                          refused |-> Refused(pending, changed, fails)])
    /\ UNCHANGED <<pageVars, toSwift, toPage, isPageReady>>
    /\ UNCHANGED <<snapshotCount, fileIn, review, opening, writeCompletions, waiting, acknowledged, commentProblems>>

\* openReview's turn on the queue: read again, or not read (the lock, git).
Open(isRead) ==
    /\ opening # <<>>
    /\ opening' = Tail(opening)
    /\ IF isRead THEN UNCHANGED events ELSE Happens
    /\ file' = IF isRead THEN [record |-> disk, known |-> TRUE, canWrite |-> TRUE, problem |-> FALSE]
                         ELSE [record |-> EmptyRecord, known |-> FALSE, canWrite |-> FALSE, problem |-> TRUE]
    /\ results' = Append(results, [page |-> Head(opening), state |-> file', clicks |-> {}, refused |-> {}])
    /\ UNCHANGED <<pageVars, toSwift, toPage, isPageReady, written>>
    /\ UNCHANGED <<snapshotCount, fileIn, review, pending, disk, writeCompletions, waiting, acknowledged, commentProblems>>

Latest(S) == CHOOSE x \in S : \A y \in S : y <= x

\* A message for the page, once it loaded.
Tell(messages) == toPage' = IF isPageReady THEN toPage \o messages ELSE toPage

\* The main thread takes a result: it applies the state and sends it when
\* it is another, notes what was refused, then answers the clicks, all at
\* once when no write is still under way.
TakeResult ==
    /\ results # <<>>
    /\ results' = Tail(results)
    /\ LET result == Head(results)
           state == IF result.page \in {None, snapshotCount} THEN result.state ELSE review
           left == writeCompletions \ result.clicks
           asked == Latest(result.clicks \cup {waiting})
           answers == left = {} /\ asked # None
           refused == commentProblems \cup result.refused
           answered == IF answers THEN Latest({asked, acknowledged}) ELSE acknowledged
       IN  /\ review' = state
           /\ writeCompletions' = left
           /\ commentProblems' = refused
           /\ waiting' = IF answers THEN None ELSE asked
           /\ acknowledged' = answered
           /\ Tell((IF state # review THEN <<ReviewMessage(PageReview(state, acknowledged, commentProblems))>> ELSE <<>>)
                   \o (IF answers THEN <<ReviewMessage(PageReview(state, answered, refused))>> ELSE <<>>))
    /\ UNCHANGED <<pageVars, toSwift, isPageReady, events, written>>
    /\ UNCHANGED <<snapshotCount, fileIn, pending, file, disk, opening>>

\* show(_:): a new read of the branch, and the review opened again.
NewPage(has) ==
    /\ Happens
    /\ snapshotCount' = snapshotCount + 1
    /\ fileIn' = has
    /\ opening' = Append(opening, snapshotCount + 1)
    /\ Tell(<<PageMessage(snapshotCount + 1, has, PageReview(review, acknowledged, commentProblems))>>)
    /\ UNCHANGED <<pageVars, toSwift, isPageReady, written>>
    /\ UNCHANGED <<review, pending, file, disk, results, writeCompletions, waiting, acknowledged, commentProblems>>

\* pasteSettled: Claude took the prompt the comment was pasted into.
AgentTakes(id) ==
    /\ Happens
    /\ review.known /\ Unsent(review.record, id)
    /\ pending' = Append(pending, [type |-> "markSent", id |-> id, text |-> review.record.comments[id].text,
                                   editing |-> None, anchored |-> FALSE, click |-> None])
    /\ UNCHANGED <<pageVars, toSwift, toPage, isPageReady, written>>
    /\ UNCHANGED <<snapshotCount, fileIn, review, file, disk, results, opening, writeCompletions, waiting, acknowledged,
                   commentProblems>>

\* What another column, or another Nirux, does with what the file holds.
OtherWrites(c) ==
    /\ Happens
    /\ Change(disk, c) # disk
    /\ disk' = Change(disk, c)
    /\ UNCHANGED <<pageVars, toSwift, toPage, isPageReady, written>>
    /\ UNCHANGED <<snapshotCount, fileIn, review, pending, file, results, opening, writeCompletions, waiting, acknowledged,
                   commentProblems>>

Other(type, id, text) ==
    OtherWrites([type |-> type, id |-> id, text |-> text, editing |-> None, anchored |-> FALSE, click |-> None])
OtherComments(id) == id \in NewDrafts(disk) /\ Other("addComment", id, disk.drafts[id].text)
OtherSaves(id) == Edit(disk, id) # None /\ Other("editComment", id, disk.drafts[Edit(disk, id)].text)
OtherDeletes(id) == Other("deleteComment", id, None)

\* The page's process dies: its state is lost, and messages under way may
\* be. Its clicks count on from the clock.
PageDies ==
    /\ isPageReady
    /\ Happens
    /\ isPageReady' = FALSE
    /\ toPage' = <<>>
    /\ \E n \in 0..Len(toSwift) : toSwift' = SubSeq(toSwift, 1, n)
    /\ gen' = None /\ inDiff' = FALSE
    /\ stored' = PageReview(NotOpened, None, {})
    /\ editors' = Empty /\ dismissed' = Empty /\ deleting' = Empty
    /\ cardProblems' = {}
    /\ wasWritable' = FALSE /\ hadProblem' = FALSE
    /\ focus' = None
    /\ UNCHANGED <<clickCount, nextId, columnVars, written>>

\* It says ready, after what it said before: the column shows the page.
PageLoads ==
    /\ ~isPageReady
    /\ toSwift = <<>>
    /\ isPageReady' = TRUE
    /\ toPage' = <<PageMessage(snapshotCount, fileIn, PageReview(review, acknowledged, commentProblems))>>
    /\ UNCHANGED <<pageVars, columnVars, toSwift, events, written>>

----------------------------------------------------------------------------

\* A page that shows a review of one comment, and maybe an edit of it begun
\* before, with nothing under way.
FirstState(drafts) ==
    [record |-> [comments |-> With(Empty, 1, [text |-> 1, sent |-> FALSE]), drafts |-> drafts],
     known |-> TRUE, canWrite |-> TRUE, problem |-> FALSE]

Init ==
    /\ gen = 1 /\ inDiff = TRUE /\ snapshotCount = 1 /\ fileIn = TRUE
    /\ \E drafts \in {Empty, With(Empty, 2, [text |-> 2, editing |-> 1])} :
         /\ stored = PageReview(FirstState(drafts), None, {})
         /\ review = FirstState(drafts) /\ file = review /\ disk = review.record
    /\ editors = Restored(stored, Empty, {})
    /\ dismissed = Empty /\ deleting = Empty /\ cardProblems = {}
    /\ wasWritable = TRUE /\ hadProblem = FALSE
    /\ clickCount = 0 /\ nextId = 3 /\ focus = None
    /\ pending = <<>> /\ results = <<>> /\ opening = <<>>
    /\ writeCompletions = {} /\ waiting = None /\ acknowledged = None /\ commentProblems = {}
    /\ toSwift = <<>> /\ toPage = <<>> /\ isPageReady = TRUE
    /\ events = 0 /\ written = {}

\* Those the user makes, and those of editors converted.
Keys == 1..2 * MaxIds

User ==
    \/ \E onLines \in BOOLEAN : OpenEditor(onLines)
    \/ \E k \in Keys, blank \in BOOLEAN : Type(k, blank)
    \/ \E k \in Keys : Submit(k) \/ CloseEditor(k) \/ EditComment(k) \/ AskDelete(k)
    \/ LooksAway

Page == TakeMessage \/ \E k \in Keys : SaveDraft(k)

Column == Receive \/ Write("written") \/ Open(TRUE) \/ TakeResult \/ PageLoads

Environment ==
    \/ Write("failed") \/ Write("readOnly") \/ Open(FALSE)
    \/ \E has \in BOOLEAN : NewPage(has)
    \/ \E id \in Keys : AgentTakes(id) \/ OtherComments(id) \/ OtherSaves(id) \/ OtherDeletes(id)
    \/ PageDies

Next == User \/ Page \/ Column \/ Environment

Spec == Init /\ [][Next]_vars

----------------------------------------------------------------------------
(* Properties.                                                             *)

\* The record, the editors and what waits have their types; a draft edits a
\* comment that is there and was not sent, and no id is both.
Texts == 1..MaxEvents + 2
IsRecord(r) ==
    /\ DOMAIN r.comments \cup DOMAIN r.drafts \subseteq Keys
    /\ DOMAIN r.comments \cap DOMAIN r.drafts = {}
    /\ \A c \in DOMAIN r.comments : r.comments[c].text \in Texts
    /\ \A d \in DOMAIN r.drafts : r.drafts[d].text \in Texts /\ (r.drafts[d].editing # None => Unsent(r, r.drafts[d].editing))
TypeOK ==
    /\ \A r \in {disk, file.record, review.record, stored.record} : IsRecord(r)
    /\ DOMAIN editors \subseteq Keys
    /\ \A k \in DOMAIN editors :
         /\ editors[k].id \in Keys /\ editors[k].text \in Texts \cup {None}
         /\ editors[k].editing \in {None, k}
         /\ editors[k].editing = None => editors[k].id = k
         /\ editors[k].submitted => editors[k].request # None
         /\ editors[k].timer \in {"none", "running", "cleared"}
    /\ focus \in DOMAIN editors \cup {None}
    /\ DOMAIN deleting \cup DOMAIN dismissed \cup cardProblems \subseteq Keys
    /\ acknowledged \in 0..clickCount /\ waiting \in 0..clickCount /\ writeCompletions \subseteq 1..clickCount
    /\ gen \in 0..snapshotCount

\* What an editor shows is still in hand: a save waits for its timer or its
\* answer, or was refused, or the user types in it.
InHand(k) ==
    LET e == editors[k] IN
    e.text # None /\ (e.request # None \/ e.timer = "running" \/ e.unsaved \/ focus = k)

TakesMessage == isPageReady' /\ Len(toPage') < Len(toPage)

\* The text is in an editor, or in the review the page was just given.
TextStays(text) ==
    \/ \E k \in DOMAIN editors' : editors'[k].text = text
    \/ \E c \in DOMAIN stored'.record.comments : stored'.record.comments[c].text = text
    \/ \E d \in DOMAIN stored'.record.drafts : stored'.record.drafts[d].text = text

\* Whatever Swift answers - saved, refused, deleted, sent to the agent, made
\* a comment in another column, another page - takeComments never loses a
\* text the user has in hand.
NothingInHandIsLost ==
    [][TakesMessage => \A k \in DOMAIN editors : InHand(k) => TextStays(editors[k].text)]_vars

\* One text typed is never two comments, nor a comment and the draft of
\* another: what converting an edit, adopting its draft, saving again and
\* restoring could double.
Twice(text) ==
    LET ids == {c \in DOMAIN disk.comments : disk.comments[c].text = text}
               \cup {d \in NewDrafts(disk) : disk.drafts[d].text = text}
    IN  Cardinality(ids) > 1
NoTwin == \A text \in Texts : ~Twice(text)

\* No answer brings back an editor the user closed, whether its draft's
\* removal waits, was made or was refused.
ClosedStaysClosed ==
    [][\A k \in DOMAIN editors' :
         TakesMessage /\ editors'[k].id \in DOMAIN dismissed
            => \E other \in DOMAIN editors : editors[other].id = editors'[k].id]_vars

\* What the page takes as done - a draft saved, a comment made, changed or
\* deleted, a draft removed - was written to the file: the answer is about
\* all the writes under way, some of which may have failed.
ClicksAwaited ==
    {editors[k].request : k \in DOMAIN editors} \cup {dismissed[id] : id \in DOMAIN dismissed}
    \cup {deleting[id] : id \in DOMAIN deleting}
DoneWasWritten ==
    [][TakesMessage =>
         \A click \in ClicksAwaited : Answers(stored', click) /\ click \notin stored'.problems => click \in written]_vars

Quiet == toPage = <<>> /\ toSwift = <<>> /\ pending = <<>> /\ results = <<>> /\ opening = <<>> /\ isPageReady

\* Once nothing is under way, every click was answered: no editor, closed
\* draft or deleted comment waits for ever.
AllAnswered ==
    Quiet => /\ \A k \in DOMAIN editors : editors[k].request = None
             /\ \A id \in DOMAIN dismissed : dismissed[id] = Never
             /\ deleting = Empty

\* Once nothing is under way and the review can be written, no save and no
\* removal that was refused is left undone.
RefusedIsMadeAgain ==
    Quiet /\ stored.canWrite /\ ~stored.problem
      => /\ \A k \in DOMAIN editors : ~editors[k].unsaved
         /\ \A id \in DOMAIN dismissed : dismissed[id] # Never
=============================================================================

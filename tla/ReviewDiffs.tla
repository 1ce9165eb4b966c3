---------------------------- MODULE ReviewDiffs ----------------------------
(***************************************************************************)
(* The diffs of the Branch Review page.                                    *)
(*                                                                         *)
(* The page (EditorAssets/review.js) shows a row per file of a snapshot of *)
(* the branch. A row opened asks the column for its diff, by the file's    *)
(* place in the snapshot and the snapshot's generation, and shows the one  *)
(* it drew before, dimmed, until the answer comes. A new page keeps the    *)
(* diffs that are still the file's. A click on Reviewed, or on "Mark       *)
(* wrong" of a note of Claude's, shows at once, until the column answers.  *)
(*                                                                         *)
(* The column (Views/BranchReviewController.swift) reads the branch again  *)
(* when the user asks and when its files change; what a watched read finds *)
(* waits while the page has a selection, and behind a banner when the head *)
(* moved. Hunks the snapshot left out are read on a queue, review writes   *)
(* go to another, and both come back to the main thread in order.          *)
(*                                                                         *)
(* A file's version stands for its lines: 0 when it does not differ from   *)
(* the base. One branch, one explanation with one note, and one death of   *)
(* the page's process. Comments are ReviewComments, the rows of a diff are *)
(* DiffRows; how files are grouped and labelled is left out.               *)
(***************************************************************************)
EXTENDS Naturals, Sequences, FiniteSets, SequencesExt

CONSTANTS
    Files,       \* the paths, in order
    Long,        \* those whose hunks the snapshot leaves out (.onDemand)
    Noted,       \* the file Claude's note is on
    Opened,      \* those whose rows are open at first
    MaxVersion,  \* bound: versions of a file
    MaxEvents    \* bound: edits, commits, clicks on rows and marks, selections, Explain's ends,
                 \* failures and deaths, all together

ASSUME FilesAssumption ==
    /\ IsFiniteSet(Files) /\ Files \subseteq Nat \ {0}
    /\ Long \subseteq Files /\ Noted \in Files /\ Opened \subseteq Files
    /\ MaxVersion \in Nat \ {0} /\ MaxEvents \in Nat

None == 0
Empty == [x \in {} |-> x]

\* The worktree and the review file.
VARIABLES
    tree, head,        \* each file's version; the branch's head
    disk               \* marks and explanation as the review file holds them

\* The column.
VARIABLES
    snapshot,          \* what the page shows: the head and its files
    snapshotCount,     \* its generation
    status,            \* a message shows instead of the page
    banner,            \* "none", "moved" or "failed"
    pending, held,     \* reads behind the banner, behind a selection
    readFiles,         \* hunks read for this snapshot
    opening,           \* the generation openReview is under way for
    explanation, explanationVersion, pageNotesVersion, explanationWaits,
    pageHasSelection,
    reading,           \* the read under way
    readAfterRead, changed,
    patchQueue, patchResults,
    review,            \* BranchReviewState
    asked,             \* changes the review's queue has not taken
    reviewQueue, reviewResults,
    acknowledged, waiting

\* The page.
VARIABLES
    page, hidden, pageBanner,
    stored,            \* state.stored: the review Swift sent
    open,              \* state.openFiles
    node,              \* what each row holds, and state.diffs
    note,              \* the note drawn in the row of Noted
    clicks, clickCount,
    holding            \* a selection, or a comment being typed

VARIABLES
    toSwift, toPage, isPageReady, hasDied, events,
    markedUnseen       \* a mark was written while no page was shown

worktreeVars == <<tree, head>>
readVars == <<reading, readAfterRead, changed>>
shownVars == <<snapshot, snapshotCount, status, banner, pending, held, readFiles, opening,
               explanation, explanationVersion, pageNotesVersion, explanationWaits>>
writeVars == <<review, asked, reviewQueue, reviewResults, acknowledged, waiting>>
columnVars == <<shownVars, pageHasSelection, readVars, patchQueue, patchResults, writeVars>>
pageVars == <<page, hidden, pageBanner, stored, open, node, note, clicks, clickCount, holding>>
vars == <<worktreeVars, disk, columnVars, pageVars, toSwift, toPage, isPageReady, hasDied, events, markedUnseen>>

Happens == events < MaxEvents /\ events' = events + 1

----------------------------------------------------------------------------
(* Files, their places and their states.                                   *)

Present(t) == [p \in {q \in Files : t[q] # None} |-> t[p]]

\* p's place among paths, and the path at one.
PlaceIn(paths, p) == Cardinality({q \in paths : q <= p})
PathAt(paths, id) == CHOOSE p \in paths : PlaceIn(paths, p) = id
IdOf(files, p) == PlaceIn(DOMAIN files, p)

\* A file's patch hash: of its hunks as read since, else of the snapshot.
PatchHash(files, read, p) == IF p \in DOMAIN read THEN read[p] ELSE files[p]

ReviewedState(mark, hash) ==
    CASE mark = None -> "none"
      [] mark = hash -> "reviewed"
      [] OTHER -> "changed"

----------------------------------------------------------------------------
(* The page.                                                               *)

NoPage == [gen |-> 0, files |-> Empty, notesVersion |-> 0]
NoNode == [kind |-> "none", ver |-> None, notesVersion |-> 0, stale |-> FALSE]
Loading == [NoNode EXCEPT !.kind = "loading"]
NoNote == [id |-> None, isWrong |-> FALSE, settled |-> FALSE, inFlight |-> 0]

Shows == page.gen # 0 /\ ~hidden

\* A row opened: a diff that is still its file's is kept, another's is dimmed
\* until it is read again. Of a long file no key tells: it is not kept.
\* Bug: a diff is kept by its path alone.
KeptByPath(n, p, pg) ==
    IF n.kind = "diff" THEN [n EXCEPT !.stale = FALSE]
    ELSE Loading

Reopened(n, p, pg) ==
    IF n.kind # "diff" \/ p \in Long THEN Loading
    ELSE [n EXCEPT !.stale = n.ver # pg.files[p] \/ n.notesVersion # pg.notesVersion]

\* Bug: a dimmed diff is not asked for again.
AsksOnce(n) == n.kind = "loading"

Asks(n) == n.kind = "loading" \/ n.stale
LoadFile(p, pg) == [type |-> "loadFile", id |-> IdOf(pg.files, p), gen |-> pg.gen]

ToggleFile(p) ==
    /\ Shows /\ p \in DOMAIN page.files
    /\ Happens
    /\ IF p \in open
         THEN open' = open \ {p} /\ UNCHANGED <<node, toSwift>>
         ELSE /\ open' = open \cup {p}
              /\ IF node[p].kind = "none"
                   THEN /\ node' = [node EXCEPT ![p] = Loading]
                        /\ toSwift' = Append(toSwift, LoadFile(p, page))
                   ELSE UNCHANGED <<node, toSwift>>
    /\ UNCHANGED <<page, hidden, pageBanner, stored, note, clicks, clickCount, holding>>
    /\ UNCHANGED <<worktreeVars, disk, columnVars, toPage, isPageReady, hasDied, markedUnseen>>

\* Each file's state: Swift's, under the clicks it has not answered.
ReviewStates ==
    [p \in DOMAIN stored.states |->
       IF p \notin DOMAIN clicks THEN stored.states[p]
       ELSE IF clicks[p].reviewed THEN "reviewed" ELSE "none"]

\* What the user has before them of p: kept beside the mark, for MarksWhatWasSeen.
Seen(p) ==
    IF p \notin Long THEN page.files[p]
    ELSE IF node[p].kind = "diff" THEN node[p].ver ELSE None

SetReviewed(paths, reviewed) ==
    /\ clickCount' = clickCount + 1
    /\ clicks' = [p \in DOMAIN clicks \cup paths |->
                    IF p \in paths THEN [reviewed |-> reviewed, sequence |-> clickCount + 1] ELSE clicks[p]]
    /\ open' = IF reviewed THEN open \ paths ELSE open
    /\ toSwift' = Append(toSwift, [type |-> "reviewed", ids |-> {IdOf(page.files, p) : p \in paths},
                                   reviewed |-> reviewed, gen |-> page.gen, sequence |-> clickCount + 1,
                                   seen |-> [p \in paths |-> Seen(p)]])
    /\ UNCHANGED <<page, hidden, pageBanner, stored, node, note, holding>>
    /\ UNCHANGED <<worktreeVars, disk, columnVars, toPage, isPageReady, hasDied, markedUnseen>>

ToggleReviewed(p) ==
    /\ Shows /\ p \in DOMAIN page.files
    /\ Happens
    /\ SetReviewed({p}, ReviewStates[p] # "reviewed")

\* A group of every file: cleared once all are marked.
ToggleGroupReviewed ==
    /\ Shows
    /\ Happens
    /\ LET unmarked == {p \in DOMAIN page.files : ReviewStates[p] # "reviewed"} IN
         /\ Cardinality(DOMAIN page.files) > 1
         /\ SetReviewed(IF unmarked = {} THEN DOMAIN page.files ELSE unmarked, unmarked # {})

\* "Mark wrong", or Undo.
MarkWrong ==
    /\ Shows /\ Noted \in open /\ note.id # None
    /\ Happens
    /\ note' = [note EXCEPT !.isWrong = ~@, !.inFlight = @ + 1]
    /\ toSwift' = Append(toSwift, [type |-> "markWrong", id |-> note.id, wrong |-> ~note.isWrong])
    /\ UNCHANGED <<page, hidden, pageBanner, stored, open, node, clicks, clickCount, holding>>
    /\ UNCHANGED <<worktreeVars, disk, columnVars, toPage, isPageReady, hasDied, markedUnseen>>

Holds(active) ==
    /\ Shows /\ holding # active
    /\ IF active THEN Happens ELSE UNCHANGED events
    /\ holding' = active
    /\ toSwift' = Append(toSwift, [type |-> "selection", active |-> active])
    /\ UNCHANGED <<page, hidden, pageBanner, stored, open, node, note, clicks, clickCount>>
    /\ UNCHANGED <<worktreeVars, disk, columnVars, toPage, isPageReady, hasDied, markedUnseen>>

\* The banner's button.
Reload ==
    /\ Shows /\ pageBanner
    /\ Happens
    /\ toSwift' = Append(toSwift, [type |-> "reload"])
    /\ UNCHANGED <<worktreeVars, disk, columnVars, pageVars, toPage, isPageReady, hasDied, markedUnseen>>

----------------------------------------------------------------------------
(* What Swift tells the page.                                              *)

TakeReview(s) ==
    /\ stored' = s
    /\ clicks' = [p \in {q \in DOMAIN clicks : clicks[q].sequence > s.acknowledged} |-> clicks[p]]

\* Bug: the note of a diff let go stays.
NoteStays(built) == note

NoteLeft(built) == IF built[Noted].kind = "diff" THEN note ELSE NoNote

\* A new page: the rows open are built again, and ask for what they lack.
Render(m) ==
    LET rows == open \cap DOMAIN m.page.files
        built == [p \in Files |-> IF p \in rows THEN Reopened(node[p], p, m.page) ELSE NoNode]
        asks == {p \in rows : Asks(built[p])}
    IN  /\ page' = m.page
        /\ TakeReview(m.review)
        /\ node' = built
        /\ note' = NoteLeft(built)
        /\ toSwift' = toSwift \o [i \in 1..Cardinality(asks) |-> LoadFile(PathAt(asks, i), m.page)]
        /\ hidden' = FALSE /\ pageBanner' = FALSE
        /\ UNCHANGED <<open, clickCount, holding>>

\* Read for this page, whose row this is.
IsForPage(d) ==
    /\ d.gen = page.gen
    /\ d.path \in DOMAIN page.files
    /\ d.id = IdOf(page.files, d.path)

ShowDiff(d) ==
    /\ IF ~IsForPage(d)
         THEN UNCHANGED <<node, note>>
         ELSE /\ node' = [node EXCEPT ![d.path] =
                   [kind |-> IF d.ver = None THEN "message" ELSE "diff",
                    ver |-> d.ver, notesVersion |-> d.notesVersion, stale |-> FALSE]]
              /\ note' = IF d.path # Noted THEN note
                         ELSE IF d.ver = None THEN NoNote
                         ELSE [id |-> d.note.id, isWrong |-> d.note.wrong, settled |-> d.note.wrong, inFlight |-> 0]
    /\ UNCHANGED <<page, hidden, pageBanner, stored, open, clicks, clickCount, holding, toSwift>>

\* Shown once every click is answered. "kept": the click was not taken.
Answered(n, wrong) ==
    LET left == IF n.inFlight = 0 THEN 0 ELSE n.inFlight - 1
        settled == IF wrong = "kept" THEN n.settled ELSE wrong = "wrong"
    IN  [n EXCEPT !.inFlight = left, !.settled = settled, !.isWrong = IF left = 0 THEN settled ELSE @]

\* When only marks changed, the diffs drawn stay current.
MarkNote(m) ==
    /\ note' = IF note.id = m.id THEN Answered(note, m.wrong) ELSE note
    /\ IF m.versions # <<>> /\ page.gen # 0 /\ page.notesVersion = m.versions[1]
         THEN /\ page' = [page EXCEPT !.notesVersion = m.versions[2]]
              /\ node' = [p \in Files |-> IF node[p].notesVersion = m.versions[1] /\ node[p].kind = "diff"
                                            THEN [node[p] EXCEPT !.notesVersion = m.versions[2]] ELSE node[p]]
         ELSE UNCHANGED <<page, node>>
    /\ UNCHANGED <<hidden, pageBanner, stored, open, clicks, clickCount, holding, toSwift>>

ShowReview(s) ==
    /\ IF s.gen # page.gen THEN UNCHANGED <<stored, clicks>> ELSE TakeReview(s)
    /\ UNCHANGED <<page, hidden, pageBanner, open, node, note, clickCount, holding, toSwift>>

ShowBanner(up) ==
    /\ pageBanner' = up
    /\ UNCHANGED <<page, hidden, stored, open, node, note, clicks, clickCount, holding, toSwift>>

ShowStatus ==
    /\ hidden' = TRUE /\ pageBanner' = FALSE
    /\ UNCHANGED <<page, stored, open, node, note, clicks, clickCount, holding, toSwift>>

PageReceives ==
    /\ toPage # <<>>
    /\ toPage' = Tail(toPage)
    /\ LET m == Head(toPage) IN
         \/ m.type = "show" /\ Render(m)
         \/ m.type = "showDiff" /\ ShowDiff(m)
         \/ m.type = "markNote" /\ MarkNote(m)
         \/ m.type = "showReview" /\ ShowReview(m.review)
         \/ m.type = "showReload" /\ ShowBanner(TRUE)
         \/ m.type = "hideReload" /\ ShowBanner(FALSE)
         \/ m.type = "showStatus" /\ ShowStatus
    /\ UNCHANGED <<worktreeVars, disk, columnVars, isPageReady, hasDied, markedUnseen, events>>

----------------------------------------------------------------------------
(* The column: what it shows.                                              *)

NoRead == [head |-> 0, files |-> Empty, expl |-> [run |-> None, wrong |-> FALSE]]
HasSnapshot == snapshot.head # 0

\* pageReview: the marks as the review file holds them, under the hashes known.
PageReview(files, read, gen, marks, ack) ==
    [gen |-> gen, acknowledged |-> ack,
     states |-> [p \in DOMAIN files |->
                   ReviewedState(marks[p].ver, PatchHash(files, read, p))]]

ShowPage(files, read, gen, version, marks) ==
    [type |-> "show",
     page |-> [gen |-> gen, files |-> files, notesVersion |-> version],
     review |-> PageReview(files, read, gen, marks, acknowledged)]

ReviewMessage(read, marks, ack) ==
    IF status THEN <<>>
    ELSE <<[type |-> "showReview", review |-> PageReview(snapshot.files, read, snapshotCount, marks, ack)]>>

Sends(messages) == toPage' = IF isPageReady THEN toPage \o messages ELSE toPage

\* Counts the notes as they changed (explanation's didSet).
VersionOf(e) == IF e = explanation THEN explanationVersion ELSE explanationVersion + 1

\* A read becomes what the page shows.
Show(r) ==
    /\ snapshot' = [head |-> r.head, files |-> r.files]
    /\ snapshotCount' = snapshotCount + 1
    /\ status' = FALSE /\ banner' = "none"
    /\ pending' = NoRead /\ held' = NoRead
    /\ readFiles' = Empty
    /\ opening' = snapshotCount + 1
    /\ explanation' = r.expl
    /\ explanationVersion' = VersionOf(r.expl)
    /\ pageNotesVersion' = VersionOf(r.expl)
    /\ explanationWaits' = FALSE

Shown(r) == <<ShowPage(r.files, Empty, snapshotCount + 1, VersionOf(r.expl), review.marks)>>

\* showCurrent: the page at a version of the notes, or why there is none.
Current(version, marks) ==
    IF ~HasSnapshot THEN <<[type |-> "showStatus"]>>
    ELSE <<ShowPage(snapshot.files, readFiles, snapshotCount, version, marks)>>
         \o IF banner = "none" THEN <<>> ELSE <<[type |-> "showReload"]>>

\* showInstead, for a read that failed.
ShowInstead ==
    /\ snapshot' = [head |-> 0, files |-> Empty]
    /\ snapshotCount' = IF HasSnapshot THEN snapshotCount + 1 ELSE snapshotCount
    /\ status' = TRUE
    /\ pending' = NoRead /\ held' = NoRead
    /\ readFiles' = IF HasSnapshot THEN Empty ELSE readFiles
    /\ UNCHANGED <<banner, opening, explanation, explanationVersion, pageNotesVersion, explanationWaits>>

Banner(kind, r) ==
    /\ held' = NoRead
    /\ banner' = kind /\ pending' = r
    /\ UNCHANGED <<snapshot, snapshotCount, status, readFiles, opening, explanation, explanationVersion,
                   pageNotesVersion, explanationWaits>>

----------------------------------------------------------------------------
(* Reads of the branch.                                                    *)

NotReading == [reason |-> "none", found |-> "no", read |-> NoRead, newer |-> FALSE]
ReadFor(reason) == [NotReading EXCEPT !.reason = reason]
IsReading == reading.reason # "none"

\* The user's Refresh; one asked for during a read comes after it.
Refresh ==
    /\ Happens
    /\ IF IsReading
         THEN readAfterRead' = TRUE /\ UNCHANGED reading
         ELSE reading' = ReadFor("user") /\ UNCHANGED readAfterRead
    /\ UNCHANGED <<worktreeVars, disk, shownVars, pageHasSelection, changed, patchQueue, patchResults, writeVars>>
    /\ UNCHANGED <<pageVars, toSwift, toPage, isPageReady, hasDied, markedUnseen>>

\* The files changed a moment ago.
ReadWatched ==
    /\ changed /\ ~IsReading
    /\ changed' = FALSE
    /\ reading' = ReadFor("watcher")
    /\ UNCHANGED <<worktreeVars, disk, shownVars, pageHasSelection, readAfterRead, patchQueue, patchResults, writeVars>>
    /\ UNCHANGED <<pageVars, toSwift, toPage, isPageReady, hasDied, markedUnseen, events>>

\* In the background: the worktree, then the review file's explanation.
ReadBranch(fails) ==
    /\ IsReading /\ reading.found = "no"
    /\ IF fails THEN Happens ELSE UNCHANGED events
    /\ reading' = IF fails THEN [reading EXCEPT !.found = "failed"]
                  ELSE [reading EXCEPT !.found = "read",
                                       !.read = [head |-> head, files |-> Present(tree), expl |-> disk.expl]]
    /\ UNCHANGED <<worktreeVars, disk, shownVars, pageHasSelection, readAfterRead, changed, patchQueue, patchResults>>
    /\ UNCHANGED <<writeVars, pageVars, toSwift, toPage, isPageReady, hasDied, markedUnseen>>

\* Bug: what the read found, though an answer since is newer.
FoundAnyway == reading.read

\* An explanation that came during the read is newer than what it found.
Found == IF reading.newer THEN [reading.read EXCEPT !.expl = explanation] ELSE reading.read

SameAsShown(r) == r.files = snapshot.files /\ r.expl = explanation

\* apply: a watched read never moves the page under the user.
ApplyRead ==
    /\ reading.found # "no"
    /\ LET r == Found
           quietly == reading.reason = "watcher" /\ ~status
       IN  IF reading.found = "failed"
             THEN IF quietly
                    THEN Banner("failed", NoRead) /\ Sends(IF banner = "failed" THEN <<>> ELSE <<[type |-> "showReload"]>>)
                    ELSE ShowInstead /\ Sends(<<[type |-> "showStatus"]>>)
           ELSE IF quietly /\ r.head # snapshot.head
             THEN Banner("moved", r) /\ Sends(IF pending = r THEN <<>> ELSE <<[type |-> "showReload"]>>)
           ELSE IF quietly /\ (SameAsShown(r) \/ pageHasSelection)
             THEN /\ held' = IF SameAsShown(r) THEN NoRead ELSE r
                  /\ banner' = "none"
                  /\ pending' = IF banner = "none" THEN pending ELSE NoRead
                  /\ Sends(IF banner = "none" THEN <<>> ELSE <<[type |-> "hideReload"]>>)
                  /\ UNCHANGED <<snapshot, snapshotCount, status, readFiles, opening, explanation, explanationVersion,
                                 pageNotesVersion, explanationWaits>>
           ELSE Show(r) /\ Sends(Shown(r))
    /\ reading' = IF readAfterRead THEN ReadFor("user") ELSE NotReading
    /\ readAfterRead' = FALSE
    /\ UNCHANGED <<worktreeVars, disk, pageHasSelection, changed, patchQueue, patchResults, writeVars>>
    /\ UNCHANGED <<pageVars, toSwift, isPageReady, hasDied, markedUnseen, events>>

----------------------------------------------------------------------------
(* What the page asks.                                                     *)

\* A diff with the note as the column has it; ver None is a message instead.
DiffMessage(p, ver) ==
    [type |-> "showDiff", id |-> IdOf(snapshot.files, p), gen |-> snapshotCount, path |-> p, ver |-> ver,
     notesVersion |-> explanationVersion, note |-> [id |-> explanation.run, wrong |-> explanation.wrong]]

\* A row of a page another is about to replace asks again.
AsksOfThisPage(m) == m.gen = snapshotCount

LoadsFile(m) ==
    /\ IF ~AsksOfThisPage(m) THEN UNCHANGED <<patchQueue, toPage>>
       ELSE LET p == PathAt(DOMAIN snapshot.files, m.id) IN
            IF p \in Long
              THEN patchQueue' = Append(patchQueue, [path |-> p, gen |-> m.gen]) /\ UNCHANGED toPage
              ELSE Sends(<<DiffMessage(p, snapshot.files[p])>>) /\ UNCHANGED patchQueue
    /\ UNCHANGED <<shownVars, pageHasSelection, readVars, patchResults, writeVars>>

\* On the queue: one hunk read at a time, none for a page replaced since.
ReadPatch(fails) ==
    /\ patchQueue # <<>>
    /\ LET m == Head(patchQueue) IN
         IF m.gen # snapshotCount
           THEN ~fails /\ UNCHANGED <<patchResults, events>>
           ELSE /\ patchResults' = Append(patchResults, [path |-> m.path, gen |-> m.gen,
                                                         ver |-> IF fails THEN None ELSE tree[m.path]])
                /\ IF fails THEN Happens ELSE UNCHANGED events
    /\ patchQueue' = Tail(patchQueue)
    /\ UNCHANGED <<worktreeVars, disk, shownVars, pageHasSelection, readVars, writeVars>>
    /\ UNCHANGED <<pageVars, toSwift, toPage, isPageReady, hasDied, markedUnseen>>

\* Its hash for the Reviewed checkbox, then its lines.
PatchIsRead ==
    /\ patchResults # <<>>
    /\ patchResults' = Tail(patchResults)
    /\ LET m == Head(patchResults)
           read == [p \in DOMAIN readFiles \cup {m.path} |-> IF p = m.path THEN m.ver ELSE readFiles[p]]
       IN  IF m.gen # snapshotCount THEN UNCHANGED <<readFiles, toPage>>
           ELSE IF m.ver = None THEN Sends(<<DiffMessage(m.path, None)>>) /\ UNCHANGED readFiles
           ELSE /\ readFiles' = read
                /\ Sends(ReviewMessage(read, review.marks, acknowledged) \o <<DiffMessage(m.path, m.ver)>>)
    /\ UNCHANGED <<worktreeVars, disk, snapshot, snapshotCount, status, banner, pending, held, opening, explanation,
                   explanationVersion, pageNotesVersion, explanationWaits, pageHasSelection, readVars, patchQueue>>
    /\ UNCHANGED <<writeVars, pageVars, toSwift, isPageReady, hasDied, markedUnseen, events>>

\* selectionChanged: once the selection goes, what waited for it shows.
SelectionChanged(m) ==
    /\ pageHasSelection' = m.active
    /\ CASE ~m.active /\ held # NoRead -> Show(held) /\ Sends(Shown(held))
         [] ~m.active /\ held = NoRead /\ explanationWaits ->
              /\ explanationWaits' = FALSE
              /\ pageNotesVersion' = IF HasSnapshot THEN explanationVersion ELSE pageNotesVersion
              /\ Sends(Current(explanationVersion, review.marks))
              /\ UNCHANGED <<snapshot, snapshotCount, status, banner, pending, held, readFiles, opening,
                             explanation, explanationVersion>>
         [] OTHER -> UNCHANGED <<shownVars, toPage>>
    /\ UNCHANGED <<readVars, patchQueue, patchResults, writeVars>>

\* bannerClicked: the read that waits, or a new one.
BannerClicked ==
    /\ IF pending # NoRead
         THEN Show(pending) /\ Sends(Shown(pending)) /\ UNCHANGED <<reading, readAfterRead>>
         ELSE /\ UNCHANGED <<shownVars, toPage>>
              /\ IF IsReading THEN readAfterRead' = TRUE /\ UNCHANGED reading
                              ELSE reading' = ReadFor("user") /\ UNCHANGED readAfterRead
    /\ UNCHANGED <<changed, pageHasSelection, patchQueue, patchResults, writeVars>>

----------------------------------------------------------------------------
(* Writes of the review file.                                              *)

Writing == asked # <<>> \/ \E i \in DOMAIN reviewResults : reviewResults[i].changes # <<>>

Enqueue(change) ==
    /\ asked' = Append(asked, change)
    /\ reviewQueue' = Append(reviewQueue, "write")
    /\ UNCHANGED <<review, reviewResults, acknowledged, waiting, toPage>>

\* Bug: a click answered while a write is under way is forgotten.
AnswersOnlyNow(sequence) ==
    /\ IF Writing
         THEN UNCHANGED <<waiting, acknowledged, toPage>>
         ELSE /\ acknowledged' = sequence
              /\ waiting' = 0
              /\ Sends(IF HasSnapshot THEN ReviewMessage(readFiles, review.marks, sequence) ELSE <<>>)
    /\ UNCHANGED <<review, asked, reviewQueue, reviewResults>>

\* acknowledge: the last write under way answers for the clicks before it.
Acknowledge(sequence) ==
    /\ IF Writing
         THEN waiting' = Max({waiting, sequence}) /\ UNCHANGED <<acknowledged, toPage>>
         ELSE /\ acknowledged' = Max({acknowledged, sequence, waiting})
              /\ waiting' = 0
              /\ Sends(IF HasSnapshot THEN ReviewMessage(readFiles, review.marks, acknowledged') ELSE <<>>)
    /\ UNCHANGED <<review, asked, reviewQueue, reviewResults>>

\* Bug: the ids of the page before mark files of this one.
ClickedOn(m) == {p \in DOMAIN snapshot.files : IdOf(snapshot.files, p) \in m.ids}

\* The files of a click on the page shown; a page before is only answered.
Clicked(m) == IF m.gen = snapshotCount THEN {p \in DOMAIN snapshot.files : IdOf(snapshot.files, p) \in m.ids} ELSE {}

MarksReviewed(m) ==
    /\ IF Clicked(m) = {} THEN Acknowledge(m.sequence)
       ELSE Enqueue([type |-> "reviewed", reviewed |-> m.reviewed, sequence |-> m.sequence,
                     marks |-> [p \in Clicked(m) |->
                                  [ver |-> PatchHash(snapshot.files, readFiles, p), seen |-> IF p \in DOMAIN m.seen THEN m.seen[p] ELSE None]]])
    /\ UNCHANGED <<shownVars, pageHasSelection, readVars, patchQueue, patchResults>>

NoteAnswer(id, wrong, versions) ==
    [type |-> "markNote", id |-> id, wrong |-> wrong, versions |-> versions]

MarksWrong(m) ==
    /\ IF ~HasSnapshot \/ explanation.run # m.id
         THEN Sends(<<NoteAnswer(m.id, "kept", <<>>)>>) /\ UNCHANGED writeVars
         ELSE Enqueue([type |-> "markWrong", id |-> m.id, wrong |-> m.wrong, sequence |-> 0])
    /\ UNCHANGED <<shownVars, pageHasSelection, readVars, patchQueue, patchResults>>

\* A change as the record takes it.
Changed(d, c) ==
    IF c.type = "markWrong"
      THEN IF d.expl.run = c.id THEN [d EXCEPT !.expl.wrong = c.wrong] ELSE d
      ELSE [d EXCEPT !.marks = [p \in Files |->
              IF p \notin DOMAIN c.marks THEN @[p]
              ELSE IF ~c.reviewed THEN [ver |-> None, seen |-> None]
              ELSE c.marks[p]]]

\* The queue's next task: what was asked is written together, or not at all;
\* a reload reads what Explain wrote.
RunReviewTask(fails) ==
    /\ reviewQueue # <<>>
    /\ LET written == IF fails THEN disk ELSE FoldLeft(Changed, disk, asked)
           writes == Head(reviewQueue) = "write"
       IN  /\ fails => writes /\ asked # <<>>
           /\ disk' = IF writes THEN written ELSE disk
           /\ reviewResults' = IF writes /\ asked = <<>> THEN reviewResults
                               ELSE Append(reviewResults, [kind |-> Head(reviewQueue), state |-> disk',
                                                           changes |-> IF writes THEN asked ELSE <<>>])
           /\ asked' = IF writes THEN <<>> ELSE asked
    /\ reviewQueue' = Tail(reviewQueue)
    /\ IF fails THEN Happens ELSE UNCHANGED events
    /\ UNCHANGED <<worktreeVars, shownVars, pageHasSelection, readVars, patchQueue, patchResults, review, acknowledged, waiting>>
    /\ UNCHANGED <<pageVars, toSwift, toPage, isPageReady, hasDied, markedUnseen>>

\* The review of the page shown, read again.
OpenReview ==
    /\ opening # 0
    /\ opening' = 0
    /\ reviewResults' = Append(reviewResults, [kind |-> "open", gen |-> opening, state |-> disk, changes |-> <<>>])
    /\ UNCHANGED <<worktreeVars, disk, snapshot, snapshotCount, status, banner, pending, held, readFiles, explanation,
                   explanationVersion, pageNotesVersion, explanationWaits, pageHasSelection, readVars, patchQueue>>
    /\ UNCHANGED <<patchResults, review, asked, reviewQueue, acknowledged, waiting>>
    /\ UNCHANGED <<pageVars, toSwift, toPage, isPageReady, hasDied, markedUnseen, events>>

\* Explain wrote its notes; the column reads them after its own writes.
ExplainEnds ==
    /\ Happens
    /\ disk' = [disk EXCEPT !.expl = [run |-> @.run + 1, wrong |-> FALSE]]
    /\ reviewQueue' = Append(reviewQueue, "reload")
    /\ UNCHANGED <<worktreeVars, shownVars, pageHasSelection, readVars, patchQueue, patchResults, review, asked>>
    /\ UNCHANGED <<reviewResults, acknowledged, waiting, pageVars, toSwift, toPage, isPageReady, hasDied, markedUnseen>>

\* The column's notes, as its answers change them: what waits behind a banner
\* or a selection, read before, takes them too.
Notes == [expl |-> explanation, version |-> explanationVersion, pageVersion |-> pageNotesVersion,
          waits |-> explanationWaits, pending |-> pending, held |-> held, out |-> <<>>]

\* Bug: a read that waits keeps the mark it found.
LeftUnmarked(r, id, wrong) == r

WithMark(r, id, wrong) == IF r.expl.run = id THEN [r EXCEPT !.expl.wrong = wrong] ELSE r

\* Drawn again with s's notes, once no selection is in the way.
DrawnAgain(s, state) ==
    IF pageHasSelection THEN [s EXCEPT !.waits = TRUE]
    ELSE IF ~HasSnapshot THEN s
    ELSE [s EXCEPT !.pageVersion = s.version, !.out = @ \o Current(s.version, state.marks)]

\* marked: a click on a note, written or not.
Marked(s, c, state) ==
    LET e == IF HasSnapshot THEN state.expl ELSE s.expl
        version == IF e = s.expl THEN s.version ELSE s.version + 1
        wrong == IF e.run = c.id /\ e.wrong THEN "wrong" ELSE "right"
        current == e.run = s.expl.run /\ s.pageVersion = s.version
        waitsMarked(r) == IF HasSnapshot /\ state.expl.run = c.id THEN WithMark(r, c.id, state.expl.wrong) ELSE r
        next == [s EXCEPT !.expl = e, !.version = version,
                          !.pending = waitsMarked(@), !.held = waitsMarked(@),
                          !.out = Append(@, NoteAnswer(c.id, wrong, IF current THEN <<s.version, version>> ELSE <<>>))]
    IN  IF c.type # "markWrong" THEN s
        ELSE IF current THEN [next EXCEPT !.pageVersion = version]
        ELSE DrawnAgain(next, state)

\* adopt: what an Explain left.
Adopted(s, state) ==
    LET e == state.expl
        next == [s EXCEPT !.expl = e, !.version = IF e = s.expl THEN @ ELSE @ + 1,
                          !.pending = IF @ = NoRead THEN @ ELSE [@ EXCEPT !.expl = e],
                          !.held = IF @ = NoRead THEN @ ELSE [@ EXCEPT !.expl = e]]
    IN  IF e = s.expl THEN next
        ELSE IF HasSnapshot /\ ~pageHasSelection THEN DrawnAgain(next, state)
        ELSE [next EXCEPT !.waits = pageHasSelection]

\* The queue's answer on the main thread: the review, then each change's own.
TakeReviewResult ==
    /\ reviewResults # <<>>
    /\ LET m == Head(reviewResults)
           applies == IF m.kind = "open" THEN m.gen = snapshotCount ELSE HasSnapshot
           s == IF m.kind = "reload" THEN Adopted(Notes, m.state)
                ELSE FoldLeft(LAMBDA t, c : Marked(t, c, m.state), Notes, m.changes)
           last == Max({waiting} \cup {m.changes[i].sequence : i \in DOMAIN m.changes})
           answered == Max({acknowledged, last})
           done == asked = <<>> /\ \A i \in 2..Len(reviewResults) : reviewResults[i].changes = <<>>
           answers == m.kind = "write" /\ done /\ last > 0
           sent == IF applies /\ m.state # review
                     THEN ReviewMessage(readFiles, m.state.marks, acknowledged) ELSE <<>>
       IN  /\ review' = IF applies THEN m.state ELSE review
           /\ explanation' = s.expl /\ explanationVersion' = s.version
           /\ pageNotesVersion' = s.pageVersion /\ explanationWaits' = s.waits
           /\ pending' = s.pending /\ held' = s.held
           /\ reading' = [reading EXCEPT !.newer = @ \/ (IsReading /\ (m.kind = "reload"
                            \/ (HasSnapshot /\ \E i \in DOMAIN m.changes : m.changes[i].type = "markWrong")))]
           /\ markedUnseen' = (markedUnseen \/ (~HasSnapshot /\ \E i \in DOMAIN m.changes : m.changes[i].type = "markWrong"))
           /\ acknowledged' = IF answers THEN answered ELSE acknowledged
           /\ waiting' = IF answers THEN 0 ELSE last
           /\ Sends(sent \o s.out \o IF answers /\ HasSnapshot THEN ReviewMessage(readFiles, review'.marks, answered) ELSE <<>>)
    /\ reviewResults' = Tail(reviewResults)
    /\ UNCHANGED <<worktreeVars, disk, snapshot, snapshotCount, status, banner, readFiles, opening, pageHasSelection>>
    /\ UNCHANGED <<readAfterRead, changed, patchQueue, patchResults, asked, reviewQueue>>
    /\ UNCHANGED <<pageVars, toSwift, isPageReady, hasDied, events>>

SwiftReceives ==
    /\ toSwift # <<>>
    /\ toSwift' = Tail(toSwift)
    /\ LET m == Head(toSwift) IN
         \/ m.type = "loadFile" /\ LoadsFile(m)
         \/ m.type = "selection" /\ SelectionChanged(m)
         \/ m.type = "reload" /\ BannerClicked
         \/ m.type = "reviewed" /\ MarksReviewed(m)
         \/ m.type = "markWrong" /\ MarksWrong(m)
    /\ UNCHANGED <<worktreeVars, disk, pageVars, isPageReady, hasDied, markedUnseen, events>>

----------------------------------------------------------------------------
(* The worktree, and the page's process.                                   *)

Edits(p, v) ==
    /\ v # tree[p]
    /\ Happens
    /\ tree' = [tree EXCEPT ![p] = v]
    /\ changed' = TRUE
    /\ UNCHANGED <<head, disk, shownVars, pageHasSelection, reading, readAfterRead, patchQueue, patchResults>>
    /\ UNCHANGED <<writeVars, pageVars, toSwift, toPage, isPageReady, hasDied, markedUnseen>>

Commits ==
    /\ Happens
    /\ head' = head + 1
    /\ changed' = TRUE
    /\ UNCHANGED <<tree, disk, shownVars, pageHasSelection, reading, readAfterRead, patchQueue, patchResults>>
    /\ UNCHANGED <<writeVars, pageVars, toSwift, toPage, isPageReady, hasDied, markedUnseen>>

\* Some of what the page said may still arrive; all it knew is gone but the
\* clock its clicks are counted from.
PageDies ==
    /\ isPageReady /\ ~hasDied
    /\ Happens
    /\ hasDied' = TRUE /\ isPageReady' = FALSE /\ UNCHANGED markedUnseen
    /\ toPage' = <<>>
    /\ \E n \in 0..Len(toSwift) : toSwift' = SubSeq(toSwift, 1, n)
    /\ page' = NoPage /\ hidden' = TRUE /\ pageBanner' = FALSE
    /\ stored' = PageReview(Empty, Empty, 0, review.marks, 0)
    /\ open' = {} /\ node' = [p \in Files |-> NoNode] /\ note' = NoNote
    /\ clicks' = Empty /\ holding' = FALSE
    /\ UNCHANGED <<clickCount, worktreeVars, disk, columnVars>>

\* The page says ready: the column shows what it shows, or what it held.
PageLoads ==
    /\ ~isPageReady /\ toSwift = <<>>
    /\ isPageReady' = TRUE
    /\ pageHasSelection' = FALSE
    /\ IF held # NoRead
         THEN Show(held) /\ toPage' = Shown(held)
         ELSE /\ pageNotesVersion' = IF HasSnapshot THEN explanationVersion ELSE pageNotesVersion
              /\ toPage' = Current(explanationVersion, review.marks)
              /\ UNCHANGED <<snapshot, snapshotCount, status, banner, pending, held, readFiles, opening, explanation,
                             explanationVersion, explanationWaits>>
    /\ UNCHANGED <<worktreeVars, disk, readVars, patchQueue, patchResults, writeVars, pageVars, toSwift, hasDied, markedUnseen, events>>

----------------------------------------------------------------------------

\* A page that shows the branch, each file at its first version; the rows
\* open show their diffs.
Init ==
    LET files == [p \in Files |-> 1]
        note0 == [run |-> 1, wrong |-> FALSE]
        unmarked == [p \in Files |-> [ver |-> None, seen |-> None]]
    IN  /\ open = Opened
        /\ tree = files /\ head = 1
        /\ disk = [marks |-> unmarked, expl |-> note0]
        /\ snapshot = [head |-> 1, files |-> files] /\ snapshotCount = 1
        /\ status = FALSE /\ banner = "none"
        /\ pending = NoRead /\ held = NoRead
        /\ opening = 0
        /\ readFiles = [p \in open \cap Long |-> 1]
        /\ explanation = note0
        /\ explanationVersion = 1 /\ pageNotesVersion = 1 /\ explanationWaits = FALSE
        /\ pageHasSelection = FALSE
        /\ reading = NotReading /\ readAfterRead = FALSE /\ changed = FALSE
        /\ patchQueue = <<>> /\ patchResults = <<>>
        /\ review = disk /\ asked = <<>> /\ reviewQueue = <<>> /\ reviewResults = <<>>
        /\ acknowledged = 0 /\ waiting = 0
        /\ page = [gen |-> 1, files |-> files, notesVersion |-> 1]
        /\ hidden = FALSE /\ pageBanner = FALSE
        /\ stored = PageReview(files, Empty, 1, unmarked, 0)
        /\ node = [p \in Files |-> IF p \in open THEN [kind |-> "diff", ver |-> 1, notesVersion |-> 1, stale |-> FALSE]
                                                ELSE NoNode]
        /\ note = IF Noted \in open THEN [NoNote EXCEPT !.id = 1] ELSE NoNote
        /\ clicks = Empty /\ clickCount = 0 /\ holding = FALSE
        /\ toSwift = <<>> /\ toPage = <<>>
        /\ isPageReady = TRUE /\ hasDied = FALSE /\ events = 0 /\ markedUnseen = FALSE

User ==
    \/ \E p \in Files : ToggleFile(p) \/ ToggleReviewed(p)
    \/ ToggleGroupReviewed \/ MarkWrong \/ Reload \/ Refresh
    \/ \E active \in BOOLEAN : Holds(active)

Column ==
    \/ SwiftReceives
    \/ ReadWatched \/ ReadBranch(FALSE) \/ ApplyRead
    \/ ReadPatch(FALSE) \/ PatchIsRead
    \/ RunReviewTask(FALSE) \/ OpenReview \/ TakeReviewResult
    \/ PageLoads

Environment ==
    \/ \E p \in Files, v \in 0..MaxVersion : Edits(p, v)
    \/ Commits \/ ExplainEnds
    \/ ReadBranch(TRUE) \/ ReadPatch(TRUE) \/ RunReviewTask(TRUE)
    \/ PageDies

Next == User \/ PageReceives \/ Column \/ Environment

Spec == Init /\ [][Next]_vars

----------------------------------------------------------------------------
(* Properties.                                                             *)

\* What the page draws and what it shows of the review have their types, the
\* note drawn is the row's, and the clicks waiting are numbered.
TypeOK ==
    /\ open \subseteq Files
    /\ DOMAIN clicks \subseteq Files /\ \A p \in DOMAIN clicks : clicks[p].sequence \in 1..clickCount
    /\ \A p \in Files : node[p].kind \in {"none", "loading", "message", "diff"} /\ node[p].ver \in 0..MaxVersion
    /\ note.id # None => node[Noted].kind = "diff"
    /\ DOMAIN stored.states \subseteq Files /\ \A p \in DOMAIN stored.states :
         stored.states[p] \in {"none", "reviewed", "changed"}
    /\ DOMAIN readFiles \subseteq Long
    /\ acknowledged <= clickCount

\* A diff not dimmed shows the lines its page is of: no answer read for another
\* page, or another row, is ever drawn as this one's (showDiff, toggleFile).
NeverAnothersLines ==
    \A p \in DOMAIN page.files \ Long :
      node[p].kind = "diff" /\ ~node[p].stale => node[p].ver = page.files[p]

\* A mark of Reviewed in the file is of the lines the user had before them
\* (setReviewed, markReviewed), for files the snapshot read.
MarksWhatWasSeen ==
    \A p \in Files \ Long : disk.marks[p].ver = disk.marks[p].seen

\* Nothing under way, and no selection.
Quiet ==
    /\ isPageReady /\ toSwift = <<>> /\ toPage = <<>>
    /\ ~IsReading /\ ~changed
    /\ patchQueue = <<>> /\ patchResults = <<>>
    /\ reviewQueue = <<>> /\ reviewResults = <<>> /\ opening = 0
    /\ ~holding

\* Once all is quiet the page shows the worktree, or says by its banner or its
\* status that it does not, and each open row shows its file's diff: the lines
\* its Reviewed checkbox stands for.
OpenRowsCurrent ==
    Quiet =>
      /\ hidden = status /\ (~status => pageBanner = (banner # "none"))
      /\ ~status /\ banner = "none" => page.files = Present(tree)
      /\ ~status /\ banner = "moved" => pending.files = Present(tree)
      /\ ~status => \A p \in open \cap DOMAIN page.files :
           \/ node[p].kind = "message"
           \/ /\ node[p].kind = "diff" /\ ~node[p].stale
              /\ node[p].ver = PatchHash(snapshot.files, readFiles, p)

\* A note's mark ends as the review file holds it, on the page and in what
\* waits to be shown (markNote, marked, adopt).
MarkAsWritten ==
    Quiet /\ ~status =>
      /\ explanation = disk.expl
      /\ held = NoRead
      /\ pending # NoRead => pending.expl = disk.expl
      /\ note.id # None /\ Noted \in open => note.id = disk.expl.run /\ note.isWrong = disk.expl.wrong

\* So it does, unless it was written while no page was shown (MarkAsWritten
\* breaks then: marked leaves it to a read that may have begun before).
MarkSettles == ~markedUnseen => MarkAsWritten

\* Every click of Reviewed is answered, and the page then shows the review
\* file's marks: a click whose write failed is undone.
ClicksAnswered ==
    Quiet /\ ~status =>
      /\ clicks = Empty
      /\ stored.states = PageReview(snapshot.files, readFiles, snapshotCount, disk.marks, 0).states

============================================================================

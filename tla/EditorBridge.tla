---------------------------- MODULE EditorBridge ----------------------------
(***************************************************************************)
(* The editor column and its page.                                         *)
(*                                                                         *)
(* The column (Views/EditorColumn.swift) keeps the tabs, which one is      *)
(* active, which are dirty or changed on disk, and whose diff shows; it    *)
(* reads and writes the files. The page (EditorAssets/bridge.js) keeps a   *)
(* model of each open file, with the text it takes to be on disk, the file *)
(* it shows and the diff over it. Each tells the other what happened by    *)
(* messages, in order, that the other applies when they come: the user     *)
(* types in the page and clicks in the column meanwhile, files change on   *)
(* disk, and the diff's originals are read from git on a queue.            *)
(*                                                                         *)
(* A text is a number. Files exist and can be read; writes may fail. The   *)
(* tab of a mode's collection of diffs is named by the mode. Left out: the *)
(* caret, selections' lines, focus and view options; encodings and sizes;  *)
(* messages that change nothing ("ready", "error").                        *)
(***************************************************************************)
EXTENDS Naturals, Sequences, FiniteSets, SequencesExt, FiniteSetsExt

CONSTANTS
    Files,       \* the paths
    Modes,       \* .head and .branch: what a diff compares with
    Restored,    \* the tabs a restored session opens at launch, in order
    MaxText,     \* bound: texts a file may hold
    MaxEvents    \* bound: what the user does and other programs write, failures and deaths

None == "none"

ASSUME EditorAssumption ==
    /\ IsFiniteSet(Files) /\ IsFiniteSet(Modes)
    /\ Files \cap Modes = {} /\ None \notin Files \cup Modes
    /\ Restored \in Seq(Files) /\ IsInjective(Restored)
    /\ MaxText \in Nat \ {0} /\ MaxEvents \in Nat

Texts == 1..MaxText
Paths == Files \cup Modes
IsGroup(path) == path \in Modes

VARIABLES
    disk,       \* each file's text
    moved,      \* open files whose time on disk is later than mtimeByPath's
    column,     \* the column's state, below
    monacoReady, pendingOps,
    selectionRequests,
    page,       \* the page's state, below
    isUp,       \* the page's process lives and Monaco is loaded
    toPage, toSwift,
    events,
    hasDied,
    leftGroup,  \* the page left a collection the column takes it to show: Pierre threw, or StrayExit
    apart,      \* files the code may let differ from a clean buffer: see CleanIsOnDisk
    handed      \* the last selection handed over: the tab it was asked of, and whose it is

vars == <<disk, moved, column, monacoReady, pendingOps, selectionRequests, page, isUp,
          toPage, toSwift, events, hasDied, leftGroup, apart, handed>>

Happens == events < MaxEvents /\ events' = events + 1

Without(f, x) == [y \in DOMAIN f \ {x} |-> f[y]]
With(f, x, v) == [y \in DOMAIN f \cup {x} |-> IF y = x THEN v ELSE f[y]]
Empty == [x \in {} |-> x]

----------------------------------------------------------------------------
(* The page. Each operator takes its state and returns the one after; what *)
(* it posts is added to "out".                                             *)

NoDiff == [path |-> None]

NoPage == [models |-> Empty, currentPath |-> None, diffMode |-> None,
           original |-> NoDiff, drawn |-> NoDiff, redraws |-> FALSE,
           pendingSaves |-> Empty, out |-> <<>>]

Post(js, m) == [js EXCEPT !.out = Append(@, m)]
IsDirty(entry) == entry.value # entry.cleanValue

ReportDirtyFor(js, path) ==
    IF path \notin DOMAIN js.models THEN js
    ELSE Post(js, [type |-> "dirty", path |-> path, isDirty |-> IsDirty(js.models[path])])

ShowsDiff(js) == js.diffMode \in {"monaco", "pierre"}

\* A model's text changes: its listener reports it, and has a diff of it drawn again.
SetValue(js, path, text) ==
    LET reported == ReportDirtyFor([js EXCEPT !.models[path].value = text], path) IN
    IF ShowsDiff(js) /\ js.currentPath = path
      THEN [reported EXCEPT !.redraws = TRUE]
      ELSE reported

\* What is drawn of a diff: whose text, against which original.
Drawing(js) == [path |-> js.currentPath, original |-> js.original,
                text |-> js.models[js.currentPath].value]

CanDraw(js) == js.currentPath \in DOMAIN js.models

ExitDiff(js) ==
    [js EXCEPT !.diffMode = None, !.original = NoDiff, !.drawn = NoDiff, !.redraws = FALSE]

SwitchToPath(js, path) ==
    IF path \notin DOMAIN js.models THEN js
    ELSE LET left == IF js.diffMode # None THEN ExitDiff(js) ELSE js
         IN ReportDirtyFor([left EXCEPT !.currentPath = path], path)

\* Adopts a reloaded text as the clean one only after the listener compared it with
\* the one before.
ApplyOpen(js, m) ==
    LET entry == [value |-> m.content, cleanValue |-> m.content]
        known == m.path \in DOMAIN js.models
        opened == IF known
                    THEN [SetValue(js, m.path, m.content) EXCEPT !.models[m.path] = entry]
                    ELSE [js EXCEPT !.models = With(@, m.path, entry)]
    IN IF m.activate THEN SwitchToPath(opened, m.path) ELSE opened

\* Bug: the page still takes a closed file for the one it shows.
ClosedStaysCurrent(js, path) ==
    [js EXCEPT !.models = Without(@, path), !.pendingSaves = Without(@, path)]

CloseTab(js, path) ==
    IF path \notin DOMAIN js.models THEN js
    ELSE [js EXCEPT !.models = Without(@, path), !.pendingSaves = Without(@, path),
                    !.currentPath = IF @ = path THEN None ELSE @]

OneSaveLess(pending, path) ==
    IF pending[path].count = 1 THEN Without(pending, path)
    ELSE [pending EXCEPT ![path].count = @ - 1]

\* Bug: whatever the buffer holds when the answer comes is taken for written.
BlessesBuffer(js, path) ==
    IF path \notin DOMAIN js.models THEN js
    ELSE ReportDirtyFor([js EXCEPT !.models[path].cleanValue = js.models[path].value,
                                   !.pendingSaves = Without(@, path)], path)

\* Bug: the buffer is not compared again with what was written.
SavedUnreported(js, path) ==
    IF path \notin DOMAIN js.models THEN js
    ELSE IF path \in DOMAIN js.pendingSaves
      THEN [js EXCEPT !.models[path].cleanValue = js.pendingSaves[path].content,
                      !.pendingSaves = OneSaveLess(@, path)]
      ELSE [js EXCEPT !.models[path].cleanValue = js.models[path].value]

MarkSaved(js, path) ==
    IF path \notin DOMAIN js.models THEN js
    ELSE ReportDirtyFor(
        IF path \in DOMAIN js.pendingSaves
          THEN [js EXCEPT !.models[path].cleanValue = js.pendingSaves[path].content,
                          !.pendingSaves = OneSaveLess(@, path)]
          ELSE [js EXCEPT !.models[path].cleanValue = js.models[path].value], path)

PostSave(js, path) ==
    LET content == js.models[path].value
        count == IF path \in DOMAIN js.pendingSaves THEN js.pendingSaves[path].count ELSE 0
    IN Post([js EXCEPT !.pendingSaves = With(@, path, [content |-> content, count |-> count + 1])],
            [type |-> "save", path |-> path, content |-> content])

SaveAllDirty(js, skipPaths) ==
    LET saved == {p \in DOMAIN js.models \ skipPaths : IsDirty(js.models[p])}
    IN FoldSet(LAMBDA p, acc : PostSave(acc, p), js, saved)

\* The diff of a file, drawn by Pierre or, when that fails, by Monaco. Pierre draws
\* the file shown, Monaco its model; the original is whichever was sent.
RenderDiff(js) == IF CanDraw(js) THEN [js EXCEPT !.drawn = Drawing(js)] ELSE js

EnterPierreDiff(js, m) ==
    IF m.path \notin DOMAIN js.models THEN js
    ELSE RenderDiff([js EXCEPT !.diffMode = "pierre", !.original = m.original,
                               !.drawn = NoDiff, !.redraws = FALSE])

EnterMonacoDiff(js, m) ==
    IF m.path \notin DOMAIN js.models THEN js
    ELSE [js EXCEPT !.diffMode = "monaco", !.original = m.original,
                    !.drawn = NoDiff, !.redraws = TRUE]

EnterPierreDiffGroup(js, m) ==
    [js EXCEPT !.diffMode = "pierre-group", !.original = NoDiff, !.redraws = FALSE,
               !.drawn = [path |-> m.path, loading |-> m.loading]]

\* The editor hidden under Pierre keeps its selection: it is not handed over.
\* Bug: it is.
HandsHidden(js, isEmpty) ==
    Post(js, [type |-> "selection",
              path |-> IF isEmpty THEN None ELSE js.currentPath])

ReportSelection(js, isEmpty) ==
    Post(js, [type |-> "selection",
              path |-> IF isEmpty \/ js.diffMode \in {"pierre", "pierre-group"} THEN None
                       ELSE js.currentPath])

HandleMessage(js, m, isEmpty) ==
    CASE m.type = "openFile" -> ApplyOpen(js, m)
      [] m.type = "switchTab" -> SwitchToPath(js, m.path)
      [] m.type = "closeTab" -> CloseTab(js, m.path)
      [] m.type = "markSaved" -> MarkSaved(js, m.path)
      [] m.type = "goToLine" -> IF js.currentPath # m.path THEN SwitchToPath(js, m.path) ELSE js
      [] m.type = "enterDiff" -> EnterPierreDiff(js, m)
      [] m.type = "enterDiffGroup" -> EnterPierreDiffGroup(js, m)
      [] m.type = "exitDiff" -> ExitDiff(js)
      [] m.type = "saveAll" -> SaveAllDirty(js, m.skipPaths)
      [] m.type = "getSelection" -> ReportSelection(js, isEmpty)

PageBecomes(js) ==
    /\ page' = [js EXCEPT !.out = <<>>]
    /\ toSwift' = toSwift \o js.out

columnSide == <<disk, moved, column, monacoReady, pendingOps, selectionRequests, apart, handed>>

PageReceives ==
    /\ isUp /\ toPage # <<>>
    /\ \E isEmpty \in BOOLEAN : PageBecomes(HandleMessage(page, Head(toPage), isEmpty))
    /\ toPage' = Tail(toPage)
    /\ UNCHANGED <<columnSide, isUp, events, hasDied, leftGroup>>

\* Pierre throws as it draws: Monaco shows the file's diff, and of a collection the
\* editor comes back.
DrawFails ==
    /\ isUp /\ toPage # <<>> /\ Head(toPage).type \in {"enterDiff", "enterDiffGroup"}
    /\ Happens
    /\ LET m == Head(toPage) IN
         IF m.type = "enterDiff"
           THEN PageBecomes(EnterMonacoDiff(page, m)) /\ UNCHANGED leftGroup
           ELSE /\ ~m.loading
                /\ PageBecomes(ExitDiff(page))
                /\ leftGroup' = TRUE
    /\ toPage' = Tail(toPage)
    /\ UNCHANGED <<columnSide, isUp, hasDied>>

\* The timer of a diff whose text changed.
Redraw ==
    /\ isUp /\ page.redraws
    /\ PageBecomes(RenderDiff([page EXCEPT !.redraws = FALSE]))
    /\ UNCHANGED <<columnSide, isUp, toPage, events, hasDied, leftGroup>>

EditorHasKeyboard ==
    isUp /\ page.currentPath # None /\ page.diffMode \in {None, "monaco"}

Type(text) ==
    /\ EditorHasKeyboard /\ page.models[page.currentPath].value # text
    /\ Happens
    /\ PageBecomes(SetValue(page, page.currentPath, text))
    /\ UNCHANGED <<columnSide, isUp, toPage, hasDied, leftGroup>>

RequestSave ==
    /\ EditorHasKeyboard
    /\ Happens
    /\ PageBecomes(PostSave(page, page.currentPath))
    /\ UNCHANGED <<columnSide, isUp, toPage, hasDied, leftGroup>>

----------------------------------------------------------------------------
(* The column. As above: "out" is what it sends.                           *)
(*                                                                         *)
(* Of the git reads under way only the one of the last diffLoadGeneration  *)
(* is kept: the answer of an earlier one changes nothing.                  *)

NoLoad == [kind |-> "none"]

NoColumn == [tabPaths |-> <<>>, activePath |-> None,
             dirtyByPath |-> {}, diskModifiedWhileDirty |-> {},
             diffActivePath |-> None, diffActiveMode |-> None,
             diffModeByPath |-> Empty,
             diffGroupTabs |-> Empty,
             load |-> NoLoad, out |-> <<>>]

Say(c, m) == [c EXCEPT !.out = Append(@, m)]
IsOpen(c, path) == Contains(c.tabPaths, path)
OpenPaths(c) == {p \in Files : IsOpen(c, p)}

SendDiffGroup(c, path) ==
    Say(c, [type |-> "enterDiffGroup", path |-> path, loading |-> c.diffGroupTabs[path] = "loading"])

EnterDiff(c, path, mode) == [c EXCEPT !.load = [kind |-> "file", path |-> path, mode |-> mode]]

\* A tab came to the front: its collection, or its file and the diff it had.
ShowTab(c, path) ==
    IF IsGroup(path) THEN SendDiffGroup(c, path)
    ELSE LET shown == Say(c, [type |-> "switchTab", path |-> path])
         IN IF path \in DOMAIN c.diffModeByPath
              THEN EnterDiff(shown, path, c.diffModeByPath[path])
              ELSE shown

ForgetDiff(c) ==
    IF c.diffActivePath = None THEN c
    ELSE [c EXCEPT !.diffActivePath = None, !.diffActiveMode = None, !.load = NoLoad]

SwitchTo(c, path) ==
    IF ~IsOpen(c, path) \/ c.activePath = path THEN c
    ELSE ShowTab([ForgetDiff(c) EXCEPT !.activePath = path], path)

OpenBuffer(c, path) ==
    Say([c EXCEPT !.tabPaths = Append(@, path), !.dirtyByPath = @ \ {path},
                  !.diskModifiedWhileDirty = @ \ {path}, !.activePath = path],
        [type |-> "openFile", path |-> path, content |-> disk[path], activate |-> TRUE])

StopDiff(c) ==
    Say([c EXCEPT !.load = NoLoad, !.diffActivePath = None, !.diffActiveMode = None],
        [type |-> "exitDiff"])

\* The tab that takes the place of the closed one, else the one before it.
Neighbour(tabs, i) ==
    IF i <= Len(tabs) THEN tabs[i] ELSE IF tabs # <<>> THEN tabs[Len(tabs)] ELSE None

Closed(c, path) ==
    LET i == CHOOSE k \in 1..Len(c.tabPaths) : c.tabPaths[k] = path
        wasActive == c.activePath = path
        removed == [c EXCEPT
            !.tabPaths = RemoveAt(@, i),
            !.load = IF IsGroup(path) THEN NoLoad ELSE @,
            !.dirtyByPath = @ \ {path}, !.diskModifiedWhileDirty = @ \ {path},
            !.diffModeByPath = Without(@, path), !.diffGroupTabs = Without(@, path)]
        outOfDiff == IF c.diffActivePath = path THEN StopDiff(removed) ELSE removed
        told == IF ~IsGroup(path) THEN Say(outOfDiff, [type |-> "closeTab", path |-> path])
                ELSE IF wasActive THEN Say(outOfDiff, [type |-> "exitDiff"])
                ELSE outOfDiff
        next == Neighbour(removed.tabPaths, i)
        there == [told EXCEPT !.activePath = next]
    IN IF ~wasActive THEN told
       ELSE IF next = None THEN there
       ELSE ShowTab(there, next)

\* Bug: a reload brings its tab to the front of the page.
ReloadActivates(c, path) ==
    Say([c EXCEPT !.diskModifiedWhileDirty = @ \ {path}],
        [type |-> "openFile", path |-> path, content |-> disk[path], activate |-> TRUE])

ReloadFromDisk(c, path) ==
    Say([c EXCEPT !.diskModifiedWhileDirty = @ \ {path}],
        [type |-> "openFile", path |-> path, content |-> disk[path],
         activate |-> path = c.activePath])

ColumnBecomes(c) ==
    /\ column' = [c EXCEPT !.out = <<>>]
    /\ IF monacoReady THEN toPage' = toPage \o c.out /\ UNCHANGED pendingOps
       ELSE pendingOps' = pendingOps \o c.out /\ UNCHANGED toPage

pageSide == <<page, isUp, toSwift, hasDied, leftGroup>>
noFiles == <<disk, moved, apart>>
noTalk == <<monacoReady, selectionRequests, handed>>

\* Another program writes the file. Its time says so, unless it does it between the
\* column's read (or write) of the file and its look at the time.
Changed(path, text) ==
    /\ disk[path] # text
    /\ disk' = [disk EXCEPT ![path] = text]

OthersWrite(path, text) ==
    /\ Happens
    /\ Changed(path, text)
    /\ moved' = IF IsOpen(column, path) THEN moved \cup {path} ELSE moved
    /\ UNCHANGED <<column, noTalk, pendingOps, pageSide, toPage, apart>>

UnderWay(messages, type, path) ==
    \E i \in 1..Len(messages) : messages[i].type = type /\ messages[i].path = path

\* The tab was closed and opens again before the page heard of the first or its saves came.
Reopens(path) ==
    \/ UnderWay(toSwift, "save", path)
    \/ UnderWay(toPage \o pendingOps, "closeTab", path)

\* The column looks at the time of the file it just read.
LooksAtTime(path) ==
    /\ moved' = moved \ {path}
    /\ \/ /\ apart' = IF Reopens(path) THEN apart \cup {path} ELSE apart
          /\ UNCHANGED disk
       \/ /\ \E text \in Texts : Changed(path, text)
          /\ apart' = apart \cup {path}

Open(path) ==
    /\ Happens
    /\ IF IsOpen(column, path)
         THEN /\ ColumnBecomes(Say(SwitchTo(column, path), [type |-> "goToLine", path |-> path]))
              /\ UNCHANGED noFiles
         ELSE /\ ColumnBecomes(OpenBuffer(column, path))
              /\ LooksAtTime(path)
    /\ UNCHANGED <<noTalk, pageSide>>

ClickTab(path) ==
    /\ IsOpen(column, path) /\ column.activePath # path
    /\ Happens
    /\ ColumnBecomes(SwitchTo(column, path))
    /\ UNCHANGED <<noFiles, noTalk, pageSide>>

\* The diff still noted is of a tab that was left when another file opened (openBuffer
\* does not forget it): closing that tab takes down the collection shown by now.
StrayExit(path) ==
    column.diffActivePath = path /\ column.activePath # path /\ IsGroup(column.activePath)

Close(path) ==
    /\ IsOpen(column, path)
    /\ Happens
    /\ ColumnBecomes(Closed(column, path))
    /\ moved' = moved \ {path}
    /\ leftGroup' = (leftGroup \/ StrayExit(path))
    /\ UNCHANGED <<disk, apart, noTalk, page, isUp, toSwift, hasDied>>

ToggleDiff(mode) ==
    /\ column.activePath # None
    /\ Happens
    /\ LET path == column.activePath
           shown == column.diffActivePath = path /\ column.diffActiveMode = mode
           asked == [column EXCEPT !.diffModeByPath = With(@, path, mode)]
       IN ColumnBecomes(IF shown
                          THEN StopDiff([column EXCEPT !.diffModeByPath = Without(@, path)])
                          ELSE EnterDiff(asked, path, mode))
    /\ UNCHANGED <<noFiles, noTalk, pageSide>>

ShowDiff(path, mode) ==
    /\ Happens
    /\ LET asked == [column EXCEPT !.diffModeByPath = With(@, path, mode)]
           there == IF IsOpen(column, path) THEN SwitchTo(asked, path) ELSE OpenBuffer(asked, path)
           shown == there.diffActivePath = path /\ there.diffActiveMode = mode
       IN ColumnBecomes(IF shown THEN there ELSE EnterDiff(there, path, mode))
    /\ IF IsOpen(column, path) THEN UNCHANGED noFiles ELSE LooksAtTime(path)
    /\ UNCHANGED <<noTalk, pageSide>>

ShowDiffCollection(mode) ==
    /\ Happens
    /\ ColumnBecomes(SendDiffGroup(
         [column EXCEPT !.diffGroupTabs = With(@, mode, "loading"),
                        !.tabPaths = IF IsOpen(column, mode) THEN @ ELSE Append(@, mode),
                        !.activePath = mode,
                        !.diffActivePath = None, !.diffActiveMode = mode,
                        !.load = [kind |-> "group", path |-> mode, mode |-> mode]], mode))
    /\ UNCHANGED <<noFiles, noTalk, pageSide>>

\* A diff that failed is forgotten, but the one still on screen.
ForgetFailedDiffMode(c, path) ==
    IF c.diffActivePath = path /\ c.diffActiveMode # None
      THEN [c EXCEPT !.diffModeByPath = With(@, path, c.diffActiveMode)]
      ELSE [c EXCEPT !.diffModeByPath = Without(@, path)]

\* Bug: the answer is taken whichever tab is active.
AnyTabTakes(c, found) ==
    LET asked == c.load
        done == [c EXCEPT !.load = NoLoad]
    IN IF ~found THEN ForgetFailedDiffMode(done, asked.path)
       ELSE Say([done EXCEPT !.diffActivePath = asked.path, !.diffActiveMode = asked.mode],
                [type |-> "enterDiff", path |-> asked.path,
                 original |-> [path |-> asked.path, mode |-> asked.mode]])

TakeDiff(c, found) ==
    LET asked == c.load
        done == [c EXCEPT !.load = NoLoad]
    IN IF c.activePath # asked.path THEN done
       ELSE IF ~found THEN ForgetFailedDiffMode(done, asked.path)
       ELSE Say([done EXCEPT !.diffActivePath = asked.path, !.diffActiveMode = asked.mode],
                [type |-> "enterDiff", path |-> asked.path,
                 original |-> [path |-> asked.path, mode |-> asked.mode]])

TakeGroup(c, found) ==
    LET path == c.load.path
        done == [c EXCEPT !.load = NoLoad]
        filled == [done EXCEPT !.diffGroupTabs[path] = "shown",
                               !.diffActivePath = None, !.diffActiveMode = path]
    IN IF path \notin DOMAIN c.diffGroupTabs THEN done
       ELSE IF ~found THEN Closed(done, path)
       ELSE IF c.activePath = path THEN SendDiffGroup(filled, path)
       ELSE filled

\* Git answers. It never has the original of a tab that is no file.
LoadAnswered ==
    /\ column.load # NoLoad
    /\ \E found \in BOOLEAN :
         /\ IF found
              THEN UNCHANGED events /\ (column.load.kind = "file" => ~IsGroup(column.load.path))
              ELSE IF IsGroup(column.load.path) /\ column.load.kind = "file"
                THEN UNCHANGED events ELSE Happens
         /\ ColumnBecomes(IF column.load.kind = "file" THEN TakeDiff(column, found)
                          ELSE TakeGroup(column, found))
    /\ UNCHANGED <<noFiles, noTalk, pageSide>>

SaveAll ==
    /\ Happens
    /\ ColumnBecomes(Say(column, [type |-> "saveAll", skipPaths |-> column.diskModifiedWhileDirty]))
    /\ UNCHANGED <<noFiles, noTalk, pageSide>>

RequestSelection ==
    /\ Happens
    /\ selectionRequests' = Append(selectionRequests, column.activePath)
    /\ ColumnBecomes(Say(column, [type |-> "getSelection"]))
    /\ UNCHANGED <<noFiles, monacoReady, handed, pageSide>>

\* The watcher's tick. A file seen changed while dirty is looked at again only once
\* it is clean.
SeesConflict(path) ==
    path \in column.dirtyByPath /\ path \notin column.diskModifiedWhileDirty
SeesReload(path) == path \notin column.dirtyByPath

CheckDisk ==
    LET late == moved \cap OpenPaths(column)
        conflicts == {p \in late : SeesConflict(p)}
        reloads == {p \in late : SeesReload(p)}
        flagged == [column EXCEPT !.diskModifiedWhileDirty = @ \cup conflicts]
    IN /\ conflicts \cup reloads # {}
       /\ ColumnBecomes(FoldLeft(LAMBDA c, p : IF p \in reloads THEN ReloadFromDisk(c, p) ELSE c,
                                 flagged, column.tabPaths))
       /\ moved' = moved \ (conflicts \cup reloads)
       /\ UNCHANGED <<disk, apart, events, noTalk, pageSide>>

\* "Reload from Disk" and "Keep My Changes" of the banner.
ResolveConflict(reload) ==
    LET path == column.activePath IN
    /\ path \in column.diskModifiedWhileDirty
    /\ Happens
    /\ IF reload
         THEN ColumnBecomes(ReloadFromDisk(column, path)) /\ LooksAtTime(path)
         ELSE /\ ColumnBecomes([column EXCEPT !.diskModifiedWhileDirty = @ \ {path}])
              /\ moved' = moved \ {path}
              /\ apart' = apart \cup {path}
              /\ UNCHANGED disk
    /\ UNCHANGED <<noTalk, pageSide>>

----------------------------------------------------------------------------
(* What the page posts.                                                    *)

Received(type) ==
    /\ toSwift # <<>> /\ Head(toSwift).type = type
    /\ toSwift' = Tail(toSwift)

\* The page draws nothing of what it was sent before it was ready: it is sent now.
MonacoReady ==
    /\ Received("monacoReady")
    /\ monacoReady' = TRUE
    /\ toPage' = toPage \o pendingOps
    /\ pendingOps' = <<>>
    /\ UNCHANGED <<noFiles, column, selectionRequests, handed, page, isUp, events, hasDied, leftGroup>>

TakeDirty ==
    /\ Received("dirty")
    /\ LET m == Head(toSwift) IN
         column' = [column EXCEPT !.dirtyByPath = IF m.isDirty THEN @ \cup {m.path} ELSE @ \ {m.path}]
    /\ UNCHANGED <<noFiles, noTalk, pendingOps, toPage, page, isUp, events, hasDied, leftGroup>>

HandleSave ==
    /\ Received("save")
    /\ LET m == Head(toSwift)
           saved == Say([column EXCEPT !.diskModifiedWhileDirty = @ \ {m.path}],
                        [type |-> "markSaved", path |-> m.path])
       IN \/ /\ ~IsOpen(column, m.path)
             /\ UNCHANGED <<noFiles, column, toPage, pendingOps, events>>
          \/ /\ IsOpen(column, m.path)
             /\ disk' = [disk EXCEPT ![m.path] = m.content]
             /\ moved' = moved \ {m.path}
             /\ ColumnBecomes(saved)
             /\ UNCHANGED <<apart, events>>
          \/ /\ IsOpen(column, m.path)          \* another writes before the column looks at the time
             /\ Happens
             /\ \E text \in Texts : disk' = [disk EXCEPT ![m.path] = text]
             /\ moved' = moved \ {m.path}
             /\ apart' = apart \cup {m.path}
             /\ ColumnBecomes(saved)
          \/ /\ IsOpen(column, m.path)          \* the write fails
             /\ Happens
             /\ apart' = apart \cup {m.path}
             /\ UNCHANGED <<disk, moved, column, toPage, pendingOps>>
    /\ UNCHANGED <<noTalk, page, isUp, hasDied, leftGroup>>

TakeSelection ==
    /\ Received("selection")
    /\ IF selectionRequests = <<>> THEN UNCHANGED <<selectionRequests, handed>>
       ELSE /\ handed' = [asked |-> Head(selectionRequests), got |-> Head(toSwift).path]
            /\ selectionRequests' = Tail(selectionRequests)
    /\ UNCHANGED <<noFiles, column, monacoReady, pendingOps, toPage, page, isUp, events, hasDied, leftGroup>>

\* The page's process dies: its models are gone, and the column keeps its tabs.
PageDies ==
    /\ isUp
    /\ Happens
    /\ isUp' = FALSE /\ page' = NoPage
    /\ monacoReady' = FALSE /\ pendingOps' = <<>>
    /\ selectionRequests' = <<>> /\ toPage' = <<>> /\ toSwift' = <<>>
    /\ hasDied' = TRUE
    /\ UNCHANGED <<noFiles, column, leftGroup, handed>>

PageLoads ==
    /\ ~isUp
    /\ isUp' = TRUE
    /\ toSwift' = <<[type |-> "monacoReady"]>>
    /\ UNCHANGED <<columnSide, page, toPage, events, hasDied, leftGroup>>

----------------------------------------------------------------------------
Init ==
    /\ disk = [p \in Files |-> 1] /\ moved = {}
    /\ LET restored == FoldLeft(OpenBuffer, NoColumn, Restored) IN
         column = [restored EXCEPT !.out = <<>>] /\ pendingOps = restored.out
    /\ monacoReady = FALSE /\ selectionRequests = <<>>
    /\ page = NoPage /\ isUp = FALSE
    /\ toPage = <<>> /\ toSwift = <<>>
    /\ events = 0 /\ hasDied = FALSE /\ leftGroup = FALSE
    /\ apart = {} /\ handed = [asked |-> None, got |-> None]

UserAsks ==
    \/ \E p \in Files : Open(p)
    \/ \E p \in Paths : ClickTab(p) \/ Close(p)
    \/ \E m \in Modes : ToggleDiff(m) \/ ShowDiffCollection(m) \/ \E p \in Files : ShowDiff(p, m)
    \/ SaveAll \/ RequestSelection
    \/ \E reload \in BOOLEAN : ResolveConflict(reload)

Next ==
    \/ UserAsks
    \/ \E t \in Texts : Type(t) \/ \E p \in Files : OthersWrite(p, t)
    \/ RequestSave
    \/ PageReceives \/ DrawFails \/ Redraw
    \/ LoadAnswered \/ CheckDisk
    \/ MonacoReady \/ TakeDirty \/ HandleSave \/ TakeSelection
    \/ PageDies \/ PageLoads

Spec == Init /\ [][Next]_vars

----------------------------------------------------------------------------
(* Properties.                                                             *)

PageType ==
    /\ DOMAIN page.models \subseteq Files
    /\ \A p \in DOMAIN page.models :
         page.models[p].value \in Texts /\ page.models[p].cleanValue \in Texts
    /\ page.currentPath \in DOMAIN page.models \cup {None}
    /\ page.diffMode \in {None, "monaco", "pierre", "pierre-group"}
    /\ DOMAIN page.pendingSaves \subseteq DOMAIN page.models
    /\ \A p \in DOMAIN page.pendingSaves : page.pendingSaves[p].count > 0
    /\ page.redraws => ShowsDiff(page)

ColumnType ==
    /\ \A i, j \in 1..Len(column.tabPaths) :
         column.tabPaths[i] = column.tabPaths[j] => i = j
    /\ ToSet(column.tabPaths) \subseteq Paths
    /\ DOMAIN column.diffGroupTabs = {m \in Modes : IsOpen(column, m)}
    /\ IF column.tabPaths = <<>> THEN column.activePath = None
       ELSE IsOpen(column, column.activePath)
    /\ column.diffActivePath \in OpenPaths(column) \cup {None}
    /\ column.diskModifiedWhileDirty \cup moved \subseteq OpenPaths(column)

\* Both sides' states are of their types: a page shows a file it has, waits for
\* saves of files it has, and a column's active tab, diff and conflicts are of its
\* tabs (bridge.js models, EditorColumn tabPaths).
TypeOK ==
    /\ disk \in [Files -> Texts] /\ apart \subseteq Files
    /\ events \in 0..MaxEvents
    /\ PageType /\ ColumnType
    /\ monacoReady => isUp

Quiet ==
    /\ monacoReady /\ toPage = <<>> /\ toSwift = <<>>
    /\ column.load = NoLoad /\ ~page.redraws

\* Once everything was delivered the page shows what the column's active tab is:
\* that file's model, or that collection of diffs; and it has the models of the open
\* files, no other (EditorColumn switchTo, close, reloadFromDisk; bridge.js
\* switchToPath, closeTab). What the user types next goes to the file the tab names.
\* Not of a page that died, whose models are gone, or that left a collection.
SameTab ==
    Quiet /\ ~hasDied /\ ~leftGroup =>
        /\ DOMAIN page.models = OpenPaths(column)
        /\ LET path == column.activePath IN
             /\ path \in Files \cup {None} => page.currentPath = path /\ page.diffMode # "pierre-group"
             /\ IsGroup(path) =>
                  /\ page.diffMode = "pierre-group"
                  /\ page.drawn = [path |-> path, loading |-> column.diffGroupTabs[path] = "loading"]

\* A diff on screen compares the shown file with its own original, however answers
\* and switches crossed (a page that died may be told to close the one shown, and then
\* shows the diff over no file); and once everything was delivered it is the diff the column
\* takes to show, of the text the buffer holds (EditorColumn enterDiff, bridge.js
\* renderPierreDiff, which draws the file shown whatever path it was sent).
DiffIsOfItsFile ==
    ShowsDiff(page) =>
        /\ page.currentPath = page.original.path \/ (hasDied /\ page.currentPath = None)
        /\ page.drawn # NoDiff => page.drawn.path = page.original.path
        /\ Quiet /\ ~hasDied =>
                    /\ column.diffActivePath = page.currentPath
                    /\ column.diffActiveMode = page.original.mode
                    /\ page.drawn.text = page.models[page.currentPath].value

\* No unsaved text is unknown to the column: a buffer that differs from what the page
\* takes to be on disk is dirty to it once everything was delivered, whatever saves,
\* answers and reloads crossed (bridge.js reportDirtyFor; EditorColumn unsavedPaths,
\* which clean-ups and closing ask).
UnsavedIsKnown ==
    Quiet => \A p \in DOMAIN page.models : IsDirty(page.models[p]) => p \in column.dirtyByPath

\* A buffer that shows clean holds what is on disk, once everything was delivered and
\* the watcher looked: saves answered late, typed over, or crossing a reload are no
\* exception. Files in "apart" are: a write of theirs failed, another program wrote
\* between a read and the look at the time, the user kept changes over the disk's, or
\* the tab was opened again as a save of its was under way (bridge.js markSaved, EditorColumn handleSave).
CleanIsOnDisk ==
    Quiet => \A p \in (DOMAIN page.models \cap OpenPaths(column)) \ apart :
        \/ IsDirty(page.models[p])
        \/ p \in moved \cup column.diskModifiedWhileDirty
        \/ page.models[p].value = disk[p]

\* A selection handed to an agent is of the file whose tab was active when it was
\* asked for, never of the editor hidden under a collection's diffs (bridge.js
\* reportSelection, EditorColumn requestSelection). As in SameTab, of a page that has
\* neither died nor left a collection by itself.
HandedIsActive ==
    hasDied \/ leftGroup \/ handed.got \in {None, handed.asked}

\* The column lists as unsaved only files with unsaved text, or changed on disk while
\* they had some (EditorColumn.swift unsavedPaths: "Every open file with unsaved
\* changes, in any tab.").
UnsavedIsUnsaved ==
    Quiet /\ ~hasDied => \A p \in column.dirtyByPath \cap OpenPaths(column) : IsDirty(page.models[p])
=============================================================================

------------------------------- MODULE Missions -------------------------------
(***************************************************************************)
(* Missions: a parent agent and the child it started talk through the app. *)
(*                                                                         *)
(* Commands in the two agents' terminals (Model/MissionEventCLI.swift)     *)
(* append events to one queue file and read the ledger the app saves. The  *)
(* app (Model/MissionEventCenter.swift, Model/Mission.swift) moves the     *)
(* queue aside, applies its lines to the ledger one at a time, shows each  *)
(* in Activity, and types the parent's instructions into the child's       *)
(* prompt (Views/NiruxShellView+MissionWorkspaces.swift). Commands can be  *)
(* killed between any two of their steps, and so can the app; a save of    *)
(* the ledger can fail.                                                    *)
(*                                                                         *)
(* One mission, whose terminals carry its identity. The ledger is both the *)
(* file and the store's copy: commit replaces the file atomically and only *)
(* then the copy, and launching reads the file. An app that cannot read    *)
(* the ledger does nothing with it, as if it were down.                    *)
(*                                                                         *)
(* An event is [id, at]: at is its timestamp, the order of creation. Its   *)
(* id is [kind, of, n]: of is the text of a question or an instruction and *)
(* n that text's generation, of which the code derives the id; of is what  *)
(* a response answers or an acknowledgement names, and n makes it unique.  *)
(* Time only makes a consumed event, or an instruction, old.               *)
(*                                                                         *)
(* Left out: an event whose identity is not the mission's, an unreadable   *)
(* ledger in a command, timestamps of equal value, a queue line written in *)
(* part, and Codex children.                                               *)
(***************************************************************************)
EXTENDS Naturals, Sequences, FiniteSets

CONSTANTS
    Child,         \* commands of the child's terminal, as many as run at once
    Parent,        \* commands of the parent's terminal
    Asked,         \* what the child may ask
    Told,          \* what the parent may tell
    Nothing,       \* no text, no event
    MaxMade,       \* bound: events made
    MaxTurns,      \* bound: turns of the child that end
    MaxCrashes,    \* bound: the app's crashes
    MaxFailures,   \* bound: failed saves, reads and removals
    MaxToggles,    \* bound: changes of the setting
    MaxBack        \* bound: times the clock is moved back

ASSUME BoundsAssumption ==
    {MaxMade, MaxTurns, MaxCrashes, MaxFailures, MaxToggles, MaxBack} \subseteq Nat

\* A terminal's commands are of the child or of the parent.
ASSUME TerminalsAssumption == Child \cap Parent = {}

Command == Child \cup Parent

VARIABLES
    status,        \* the mission's: active or completed
    ledger,        \* the events recorded
    delivered,     \* ids marked deliveredAt
    consumed,      \* ids marked consumed by whom they are for
    old,           \* ids past answerReplayWindow or instructionLifetime
    queue,         \* mission-events.jsonl: Nothing, or its lines
    aside,         \* mission-events.processing
    app,           \* what the app's main thread does
    leftover,      \* the file it applies is one found at the drain's start
    read, line,    \* the lines it read, and the next of them
    failed,        \* a line was not saved
    todo,          \* events to deliver, or to type
    half,          \* the oldest of todo: shown not marked, or marked not typed
    typeAfter,     \* the drain is the one of typeMissionInstructions
    wake,          \* typeMissionInstructions is posted
    free,          \* the child's prompt is free
    since,         \* the child's claude runs since this time
    enabled,       \* missionHandoffsEnabled
    command,       \* what each command does
    made,          \* events made so far
    turns, crashes, failures, toggles, back

\* What no code keeps: what the user and the agents saw.
VARIABLES
    shown,         \* ids in Activity
    heard,         \* ids a command printed
    sent,          \* instructions typed, in order
    refused,       \* ids the store rejected
    promised       \* responses said to be queued, not to be sent again

book == <<status, ledger, delivered, consumed>>
drain == <<app, leftover, read, line, failed, todo, half, typeAfter>>
files == <<queue, aside>>
prompt == <<wake, free, since>>
seen == <<shown, heard, sent, refused, promised>>
bounds == <<turns, crashes, failures, toggles, back>>
vars == <<book, drain, files, prompt, seen, bounds, old, enabled, command, made>>

-----------------------------------------------------------------------------
Id(kind, of, n) == [kind |-> kind, of |-> of, n |-> n]

\* What the child asks and reports and the parent tells; answers; receipts.
Message == [kind: {"question", "completed", "instruction"},
            of: Asked \cup Told \cup {Nothing}, n: Nat]
Answer == [kind: {"response"}, of: Message, n: Nat]
Receipt == [kind: {"acknowledged"}, of: Message \cup Answer, n: Nat]

Kept == [id: Message \cup Answer, at: Nat]
Event == [id: Message \cup Answer \cup Receipt, at: Nat]

Recorded == {e.id : e \in ledger}
OfKind(kind) == {id \in Recorded : id.kind = kind}
Time(id) == (CHOOSE e \in ledger : e.id = id).at

\* Nothing is no text, no event and no file.
ASSUME NothingAssumption == Nothing \notin Asked \cup Told \cup Event \cup Seq(Event)

Idle == [pc |-> "idle", event |-> Nothing, file |-> "none"]

TypeOK ==
    /\ status \in {"active", "completed"}
    /\ ledger \subseteq Kept
    /\ delivered \cup consumed \cup old \cup todo \subseteq Recorded
    /\ queue \in Seq(Event) \cup {Nothing} /\ aside \in Seq(Event) \cup {Nothing}
    /\ app \in {"down", "idle", "moved", "lines", "removed", "pending", "typing"}
    /\ app \in {"moved", "lines"} => aside # Nothing
    /\ {leftover, failed, half, typeAfter, wake, free, enabled} \subseteq BOOLEAN
    /\ {read, line, since, made} \subseteq Nat
    /\ command \in [Command -> [pc: {"idle", "open", "write", "wait"},
                                event: Event \cup {Nothing},
                                file: {"none", "queue", "aside", "gone"}]]
    /\ \A c \in Command : /\ command[c].pc # "idle" => command[c].event # Nothing
                          /\ command[c].file = "queue" => queue # Nothing
                          /\ command[c].file = "aside" => aside # Nothing
    /\ shown \cup heard \cup refused \subseteq Message \cup Answer \cup Receipt
    /\ promised \subseteq Answer
    /\ sent \in Seq(Message)

\* A question whose answer the child received a while ago; an instruction that
\* was typed a while ago, or that it is too late to type.
Settled(id) ==
    \/ id.kind = "instruction" /\ id \in old
    \/ \E r \in OfKind("response") : r.of = id /\ r \in consumed \cap old

\* Bug: a later generation does not close an earlier one.
OpenGeneration(kind, text) ==
    LET Last(n) == ~(Id(kind, text, n) \in Recorded /\ Settled(Id(kind, text, n)))
    IN  CHOOSE n \in 0..MaxMade : Last(n) /\ \A m \in 0..n-1 : ~Last(m)

\* questionID and instructionID: the text's generation to use now.
Generation(kind, text) ==
    LET Is(n) == Id(kind, text, n) \in Recorded
        Last(n) == ~(Is(n) /\ (Settled(Id(kind, text, n)) \/ Is(n + 1)))
    IN  CHOOSE n \in 0..MaxMade : Last(n) /\ \A m \in 0..n-1 : ~Last(m)

\* The events of a set that came first: one, if any.
Oldest(ids) == {id \in ids : \A other \in ids : Time(id) <= Time(other)}

-----------------------------------------------------------------------------
(* The store.                                                              *)

\* Bug: a response is taken whatever was answered before.
TakesAny(id) ==
    CASE id.kind = "acknowledged" -> id.of \in Recorded
      [] id.kind = "instruction" -> TRUE
      [] OTHER -> status = "active"

\* What process asks of an event it does not know.
Takes(id) ==
    CASE id.kind \in {"question", "completed"} -> status = "active"
      [] id.kind = "response" ->
            /\ status = "active"
            /\ id.of \in OfKind("question")
            /\ \A r \in OfKind("response") : r.of # id.of
      [] id.kind = "acknowledged" -> id.of \in Recorded \ OfKind("instruction")
      [] OTHER -> TRUE

\* Bug: a completion leaves the questions for the parent to answer.
ConsumesOne(id) ==
    IF id.kind \in {"response", "acknowledged"} THEN {id.of} ELSE {}

\* What an event that is taken marks as consumed: the question answered, the
\* event acknowledged, or every question once the child completed.
Consumes(id) ==
    CASE id.kind \in {"response", "acknowledged"} -> {id.of}
      [] id.kind = "completed" -> OfKind("question")
      [] OTHER -> {}

\* Bug: acknowledgements are retained.
RecordAll(e) ==
    /\ ledger' = ledger \cup {e}
    /\ consumed' = consumed \cup Consumes(e.id)
    /\ status' = IF e.id.kind = "completed" THEN "completed" ELSE status
    /\ UNCHANGED delivered

\* The store records an event it takes, but for acknowledgements.
Record(e) ==
    /\ ledger' = IF e.id.kind = "acknowledged" THEN ledger ELSE ledger \cup {e}
    /\ consumed' = consumed \cup Consumes(e.id)
    /\ status' = IF e.id.kind = "completed" THEN "completed" ELSE status
    /\ UNCHANGED delivered

\* pendingEvents.
Undelivered == Recorded \ delivered

\* Bug: an instruction has no lifetime.
UntypedEver == OfKind("instruction") \ consumed

\* pendingInstructions.
Untyped == OfKind("instruction") \ (consumed \cup old)

\* Known, and an acknowledgement that says nothing new: process changes nothing.
Known(id) ==
    \/ id \in Recorded
    \/ id.kind = "acknowledged" /\ id.of \in Recorded \cap consumed

\* A save, a read or a removal fails.
Fails == failures < MaxFailures /\ failures' = failures + 1
Works == UNCHANGED failures

-----------------------------------------------------------------------------
(* The app drains the queue; its main thread does nothing else meanwhile.  *)

\* The queue's file is moved aside, with those that have it open.
MoveAside ==
    /\ aside' = queue /\ queue' = Nothing
    /\ command' = [c \in Command |->
          IF command[c].file = "queue" THEN [command[c] EXCEPT !.file = "aside"]
          ELSE command[c]]
    /\ app' = "moved" /\ leftover' = FALSE
    /\ UNCHANGED todo

\* deliverPendingEvents.
DeliverPending ==
    /\ app' = "pending"
    /\ todo' = IF enabled THEN Undelivered ELSE {}
    /\ leftover' = FALSE
    /\ UNCHANGED <<files, command>>

\* A file that was left first, then the queue, then what awaits delivery.
Drain ==
    \/ /\ aside # Nothing
       /\ app' = "moved" /\ leftover' = TRUE
       /\ UNCHANGED <<files, command, todo>>
    \/ aside = Nothing /\ queue # Nothing /\ MoveAside
    \/ aside = Nothing /\ queue = Nothing /\ DeliverPending

\* The watchers, a retry or a launch drain.
DrainBegins ==
    /\ app = "idle"
    /\ queue # Nothing \/ aside # Nothing \/ Undelivered # {}
    /\ Drain
    /\ UNCHANGED <<book, prompt, seen, bounds, old, enabled, made, read, line, failed, half,
                   typeAfter>>

\* The ids in both files.
QueuedIds == UNION {{file[k].id : k \in DOMAIN file} : file \in {queue, aside} \ {Nothing}}

\* typeMissionInstructions drains first, if it has anything to type.
TypingBegins ==
    /\ app = "idle" /\ wake
    /\ wake' = FALSE
    /\ IF enabled /\ Untyped # {}
       THEN Drain /\ typeAfter' = TRUE
       ELSE UNCHANGED <<files, command, app, leftover, todo, typeAfter>>
    /\ UNCHANGED <<book, shown, heard, sent, refused, promised, bounds, old, enabled, made, free,
                   since, read, line, failed, half>>

\* What the pass over a file kept is gone with it.
Forget == leftover' = FALSE /\ read' = 0 /\ line' = 0 /\ failed' = FALSE

\* The drain is over, or gives up until a retry: typeMissionInstructions goes
\* on either way.
Return ==
    /\ Forget
    /\ app' = IF typeAfter THEN "typing" ELSE "idle"
    /\ todo' = IF typeAfter THEN Untyped ELSE {}
    /\ typeAfter' = FALSE

\* The file is read, once.
Reads ==
    /\ app = "moved"
    /\ \/ /\ Works
          /\ app' = "lines" /\ read' = Len(aside) /\ line' = 1
          /\ UNCHANGED <<leftover, failed, todo, typeAfter>>
       \/ Fails /\ Return
    /\ UNCHANGED <<book, files, prompt, seen, turns, crashes, toggles, back, old, enabled, command,
                   made, half>>

\* Bug: only the last line's failure keeps the file.
LastFailure(now) == failed' = now

\* A line that is not saved keeps the file for a retry.
Failure(now) == failed' = (failed \/ now)

\* process, for the next line.
Processes ==
    /\ app = "lines" /\ todo = {} /\ line <= read
    /\ line' = line + 1
    /\ LET e == aside[line]
           taken == enabled /\ (Known(e.id) \/ Takes(e.id))
       IN  \/ /\ ~taken
              /\ refused' = refused \cup {e.id}
              /\ Works /\ Failure(FALSE) /\ UNCHANGED <<book, todo>>
           \/ /\ taken /\ Known(e.id)
              /\ todo' = ({e.id} \cap Recorded) \ delivered
              /\ Works /\ Failure(FALSE) /\ UNCHANGED <<book, refused>>
           \/ /\ taken /\ ~Known(e.id)
              /\ Record(e)
              /\ todo' = {e.id} \cap Recorded'
              /\ Works /\ Failure(FALSE) /\ UNCHANGED refused
           \/ /\ taken /\ ~Known(e.id)
              /\ Fails /\ Failure(TRUE) /\ UNCHANGED <<book, todo, refused>>
    /\ UNCHANGED <<app, leftover, read, half, typeAfter, files, prompt, shown, heard, sent,
                   promised, turns, crashes, toggles, back, old, enabled, command, made>>

\* Bug: an instruction waits for a turn to end even at a free prompt.
WakesAtTurnEnd(ids) == UNCHANGED wake

\* An instruction that shows in Activity asks to be typed.
Wakes(ids) == wake' = (wake \/ \E id \in ids : id.kind = "instruction")

\* Bug: what is marked delivered is not in Activity yet.
MarksFirst(ids) == UNCHANGED shown

\* recordMissionActivity writes Activity before it returns.
Records(ids) == shown' = shown \cup ids

\* deliver: the event shows in Activity.
Shows ==
    /\ app \in {"lines", "pending"} /\ todo # {} /\ ~half
    /\ half' = TRUE
    /\ Records(Oldest(todo))
    /\ Wakes(Oldest(todo))
    /\ UNCHANGED <<book, app, leftover, read, line, failed, todo, typeAfter, files, free, since,
                   heard, sent, refused, promised, bounds, old, enabled, command, made>>

\* And is marked delivered, or is left for a later drain.
Marks ==
    /\ app \in {"lines", "pending"} /\ half
    /\ half' = FALSE
    /\ todo' = todo \ Oldest(todo)
    /\ \/ Works /\ delivered' = delivered \cup Oldest(todo)
       \/ Fails /\ UNCHANGED delivered
    /\ UNCHANGED <<status, ledger, consumed, app, leftover, read, line, failed, typeAfter, files,
                   prompt, seen, turns, crashes, toggles, back, old, enabled, command, made>>

\* The file goes, and what was written to it since the app read it.
Removes ==
    /\ app = "lines" /\ todo = {} /\ line > read
    /\ \/ /\ ~failed /\ Works
          /\ aside' = Nothing
          /\ command' = [c \in Command |->
                IF command[c].file = "aside" THEN [command[c] EXCEPT !.file = "gone"]
                ELSE command[c]]
          /\ app' = "removed"
          /\ read' = 0 /\ line' = 0
          /\ UNCHANGED <<queue, todo, typeAfter, leftover, failed>>
       \/ /\ (failed /\ Works) \/ (~failed /\ Fails)
          /\ Return
          /\ UNCHANGED <<files, command>>
    /\ UNCHANGED <<book, half, prompt, seen,
                   turns, crashes, toggles, back, old, enabled, made>>

\* The queue follows a leftover file; what awaits delivery comes last.
GoesOn ==
    /\ app = "removed"
    /\ IF leftover /\ queue # Nothing THEN MoveAside ELSE DeliverPending
    /\ UNCHANGED <<book, read, line, failed, half, typeAfter, prompt, seen, bounds, old, enabled, made>>

\* Nothing awaits delivery any more.
DrainEnds ==
    /\ app = "pending" /\ todo = {}
    /\ Return
    /\ UNCHANGED <<book, half, files, prompt, seen, bounds, old,
                   enabled, command, made>>

-----------------------------------------------------------------------------
(* The app types instructions, oldest first.                               *)

\* isPromptFree, for each of ids: nothing is under way at the prompt of a
\* claude that ran already when the message was sent.
PromptFree(ids) == free /\ \A id \in ids : since <= Time(id)

\* Bug: what could not be marked is typed all the same.
TypesAnyway == Fails /\ half' = TRUE /\ UNCHANGED <<status, consumed, todo>>

\* An instruction that could not be marked is not typed.
NotMarked == Fails /\ todo' = todo \ Oldest(todo) /\ UNCHANGED <<status, consumed, half>>

\* markInstructionTyped, at a free prompt.
MarksTyped ==
    /\ app = "typing" /\ todo # {} /\ ~half
    /\ PromptFree(Oldest(todo))
    /\ \/ /\ Works
          /\ consumed' = consumed \cup Oldest(todo)
          /\ status' = "active"
          /\ half' = TRUE
          /\ UNCHANGED todo
       \/ NotMarked
    /\ UNCHANGED <<ledger, delivered, app, leftover, read, line, failed, typeAfter, files, prompt,
                   seen, turns, crashes, toggles, back, old, enabled, command, made>>

\* The prompt is not free: the instruction waits for a turn to end.
LeavesForLater ==
    /\ app = "typing" /\ todo # {} /\ ~half
    /\ ~PromptFree(Oldest(todo))
    /\ todo' = todo \ Oldest(todo)
    /\ UNCHANGED <<book, app, leftover, read, line, failed, half, typeAfter, files, prompt, seen,
                   bounds, old, enabled, command, made>>

\* sendRaw.
Sends ==
    /\ app = "typing" /\ half
    /\ half' = FALSE
    /\ \E id \in Oldest(todo) : sent' = Append(sent, id)
    /\ todo' = todo \ Oldest(todo)
    /\ free' = FALSE
    /\ UNCHANGED <<book, app, leftover, read, line, failed, typeAfter, files, wake, since, shown, heard,
                   refused, promised, bounds, old, enabled, command, made>>

TypingEnds ==
    /\ app = "typing" /\ todo = {}
    /\ app' = "idle"
    /\ UNCHANGED <<book, leftover, read, line, failed, todo, half, typeAfter, files, prompt,
                   shown, heard, sent, refused, promised, bounds, old, enabled, command, made>>

-----------------------------------------------------------------------------
(* What else the app does.                                                 *)

\* respond: the user answers a question from its row in Activity.
Respond ==
    /\ app = "idle" /\ enabled /\ made < MaxMade
    /\ \E q \in shown :
          LET e == [id |-> Id("response", q, made + 1), at |-> made + 1]
          IN  /\ q.kind = "question" /\ Takes(e.id)
              /\ Record(e)
              /\ app' = "pending" /\ todo' = {e.id}
    /\ made' = made + 1
    /\ UNCHANGED <<leftover, read, line, failed, half, typeAfter, files, prompt, seen, bounds, old,
                   enabled, command>>

\* settingsMissionHandoffsChanged.
Toggles ==
    /\ app = "idle" /\ toggles < MaxToggles
    /\ toggles' = toggles + 1
    /\ enabled' = ~enabled
    /\ IF enabled THEN UNCHANGED <<app, todo>>
       ELSE app' = "pending" /\ todo' = Undelivered
    /\ UNCHANGED <<book, leftover, read, line, failed, half, typeAfter, files, prompt, seen,
                   turns, crashes, failures, back, old, command, made>>

\* The app dies, and the child's claude with it.
Crashes ==
    /\ app # "down" /\ crashes < MaxCrashes
    /\ crashes' = crashes + 1
    /\ app' = "down" /\ todo' = {}
    /\ half' = FALSE /\ typeAfter' = FALSE /\ Forget
    /\ wake' = FALSE /\ free' = FALSE
    /\ UNCHANGED <<book, files, since, shown, heard, sent, refused, promised, turns, failures, toggles, back, old, enabled, command, made>>

\* It starts again, and claude in it; it drains at once.
Starts ==
    /\ app = "down"
    /\ Drain
    /\ since' = made + 1
    /\ UNCHANGED <<book, read, line, failed, half, typeAfter, wake, free, seen, bounds, old, enabled,
                   made>>

\* The child's turn ends at an empty prompt.
TurnEnds ==
    /\ app = "idle" /\ ~free /\ turns < MaxTurns
    /\ turns' = turns + 1
    /\ free' = TRUE /\ wake' = TRUE
    /\ UNCHANGED <<book, drain, files, since, seen, crashes, failures, toggles, back, old, enabled, command, made>>

\* Someone types at the prompt, or a dialog opens.
PromptTaken ==
    /\ app = "idle" /\ free
    /\ free' = FALSE
    /\ UNCHANGED <<book, drain, files, wake, since, seen, bounds, old, enabled, command, made>>

\* Time passes: 60 s since an answer was received or an instruction typed, an
\* hour since the oldest instruction was told. A typing pass takes none.
Ages ==
    /\ app # "typing"
    /\ \E id \in (((OfKind("response") \cup OfKind("instruction")) \cap consumed) \ old)
                    \cup Oldest(Untyped) :
          old' = old \cup {id}
    /\ UNCHANGED <<book, drain, files, prompt, seen, bounds, enabled, command, made>>

\* The clock is moved back, before all of it.
ClockBack ==
    /\ app # "typing" /\ old # {} /\ back < MaxBack
    /\ back' = back + 1
    /\ old' = {}
    /\ UNCHANGED <<book, drain, files, prompt, seen, turns, crashes, failures, toggles, enabled, command, made>>

-----------------------------------------------------------------------------
(* Commands. Each reads the ledger's file at once.                         *)

Do(c, pc, event, file) ==
    command' = [command EXCEPT ![c] = [pc |-> pc, event |-> event, file |-> file]]

\* append, of a new event: it opens the queue next.
Appends(c, id) ==
    /\ made < MaxMade
    /\ made' = made + 1
    /\ Do(c, "open", [id |-> id, at |-> made + 1], "none")

\* An event that the ledger has already is not appended again.
Resumes(c, id) ==
    IF id \in Recorded THEN Do(c, "wait", [id |-> id, at |-> Time(id)], "none") /\ UNCHANGED made
    ELSE Appends(c, id)

CommandOnly == UNCHANGED <<book, drain, prompt, bounds, old, enabled, shown, sent, refused>>

Ask(c, text) ==
    /\ command[c].pc = "idle" /\ enabled /\ status = "active"
    /\ Resumes(c, Id("question", text, Generation("question", text)))
    /\ CommandOnly /\ UNCHANGED <<files, heard, promised>>

Completed(c) ==
    /\ command[c].pc = "idle" /\ enabled /\ status = "active"
    /\ Appends(c, Id("completed", Nothing, made + 1))
    /\ CommandOnly /\ UNCHANGED <<files, heard, promised>>

Tell(c, text) ==
    /\ command[c].pc = "idle" /\ enabled
    /\ Resumes(c, Id("instruction", text, Generation("instruction", text)))
    /\ CommandOnly /\ UNCHANGED <<files, heard, promised>>

\* The parent answers a question it received.
Reply(c) ==
    /\ command[c].pc = "idle" /\ enabled
    /\ \E q \in OfKind("question") \cap heard :
          /\ Takes(Id("response", q, made + 1))
          /\ Appends(c, Id("response", q, made + 1))
    /\ CommandOnly /\ UNCHANGED <<files, heard, promised>>

\* Bug: the receipt leaves before the event is printed.
PrintsLater(id) == UNCHANGED heard

Prints(id) == heard' = heard \cup {id}

\* What receive has for the parent, the oldest first.
Inbox == Oldest((OfKind("question") \cup OfKind("completed")) \ consumed)

Receive(c) ==
    /\ command[c].pc = "idle" /\ enabled
    /\ \E id \in Inbox :
          /\ Prints(id)
          /\ IF id.kind = "completed"
             THEN Appends(c, Id("acknowledged", id, made + 1))
             ELSE UNCHANGED <<command, made>>
    /\ CommandOnly /\ UNCHANGED <<files, promised>>

Opens(c) ==
    /\ command[c].pc = "open"
    /\ Do(c, "write", command[c].event, "queue")
    /\ queue' = IF queue = Nothing THEN <<>> ELSE queue
    /\ CommandOnly /\ UNCHANGED <<aside, heard, promised, made>>

\* The write goes where the file is now. ask, reply and tell then wait.
Writes(c) ==
    /\ command[c].pc = "write"
    /\ LET e == command[c].event
           file == command[c].file
       IN  /\ queue' = IF file = "queue" THEN Append(queue, e) ELSE queue
           /\ aside' = IF file = "aside" THEN Append(aside, e) ELSE aside
           /\ IF e.id.kind \in {"question", "response", "instruction"}
              THEN Do(c, "wait", e, "none")
              ELSE command' = [command EXCEPT ![c] = Idle]
    /\ CommandOnly /\ UNCHANGED <<heard, promised, made>>

\* ask prints its answer, then sends a receipt.
Answered(c) ==
    /\ command[c].pc = "wait"
    /\ \E r \in OfKind("response") :
          /\ r.of = command[c].event.id
          /\ Prints(r)
          /\ Appends(c, Id("acknowledged", r, made + 1))
    /\ CommandOnly /\ UNCHANGED <<files, promised>>

\* reply has waited 5 s: the answer is queued, do not send it again.
NotConfirmed(c) ==
    /\ command[c].pc = "wait" /\ command[c].event.id.kind = "response"
    /\ command[c].event.id \notin Recorded
    /\ promised' = promised \cup {command[c].event.id}
    /\ command' = [command EXCEPT ![c] = Idle]
    /\ CommandOnly /\ UNCHANGED <<files, heard, made>>

\* A command ends: it waited long enough, its event was recorded or typed, its
\* mission completed, or it is killed.
Ends(c) ==
    /\ command[c].pc # "idle"
    /\ command' = [command EXCEPT ![c] = Idle]
    /\ CommandOnly /\ UNCHANGED <<files, heard, promised, made>>

-----------------------------------------------------------------------------
Init ==
    /\ status = "active" /\ ledger = {} /\ delivered = {} /\ consumed = {} /\ old = {}
    /\ queue = Nothing /\ aside = Nothing
    /\ app = "idle" /\ todo = {} /\ read = 0 /\ line = 0
    /\ leftover = FALSE /\ failed = FALSE /\ half = FALSE /\ typeAfter = FALSE
    /\ wake = FALSE /\ free = FALSE /\ since = 0 /\ enabled = TRUE
    /\ command = [c \in Command |-> Idle] /\ made = 0
    /\ turns = 0 /\ crashes = 0 /\ failures = 0 /\ toggles = 0 /\ back = 0
    /\ shown = {} /\ heard = {} /\ sent = <<>> /\ refused = {} /\ promised = {}

App == \/ DrainBegins \/ TypingBegins \/ Reads \/ Processes \/ Shows \/ Marks \/ Removes
       \/ GoesOn \/ DrainEnds \/ MarksTyped \/ LeavesForLater \/ Sends \/ TypingEnds

Runs(c) == Opens(c) \/ Writes(c) \/ NotConfirmed(c) \/ Ends(c)

Next ==
    \/ App \/ Starts
    \/ Respond \/ Toggles \/ Crashes \/ TurnEnds \/ PromptTaken \/ Ages \/ ClockBack
    \/ \E c \in Child : Completed(c) \/ Answered(c) \/ Runs(c) \/ \E t \in Asked : Ask(c, t)
    \/ \E c \in Parent : Reply(c) \/ Receive(c) \/ Runs(c) \/ \E t \in Told : Tell(c, t)

Spec == Init /\ [][Next]_vars

\* The main thread goes on, and the user starts the app again.
FairSpec == Spec /\ WF_vars(App) /\ WF_vars(Starts)

-----------------------------------------------------------------------------
\* A question has one answer, whoever gives it: the parent's agent, twice at
\* once, or the user from Activity.
AnsweredOnce ==
    \A r, s \in OfKind("response") : r.of = s.of => r = s

\* A completed mission leaves its parent no question to answer: the store would
\* reject the answer.
ClosedAsksNothing ==
    status = "completed" => OfKind("question") \subseteq consumed

\* An instruction is typed at most once, whatever fails or dies between its
\* mark and the typing.
TypedOnce ==
    \A j, k \in DOMAIN sent : sent[j] = sent[k] => j = k

\* What is marked as received was printed in the terminal it was for, even if
\* the command was killed.
ReceiptsTrue ==
    (OfKind("response") \cup OfKind("completed")) \cap consumed \subseteq heard

\* The app removes a file only once each line it read of it is in the ledger,
\* or was rejected.
NoneSkipped ==
    [][aside # Nothing /\ aside' = Nothing =>
        \A k \in 1..read : Known(aside[k].id) \/ aside[k].id \in refused]_vars

\* Once a text was asked again as a new question, no ask goes back to an
\* earlier one and its answer, even if the clock is moved back.
NeverReopened ==
    [][\A c \in Child :
        command[c].pc = "idle" /\ command'[c].pc # "idle" =>
            \A q \in OfKind("question") :
                q.of = command'[c].event.id.of => q.n <= command'[c].event.id.n]_vars

\* A text told again as a new message is not also typed as the earlier one.
NotTwice ==
    [][\A id \in OfKind("instruction") :
        sent' = Append(sent, id) =>
            \A later \in OfKind("instruction") : later.of = id.of => later.n <= id.n]_vars

\* What reply says: an answer not confirmed yet is queued.
StillQueued == promised \subseteq Recorded \cup refused \cup QueuedIds

\* Whatever crashed or failed, in the end the queue is applied and Activity
\* shows all of the ledger.
ComesUp == <>[](queue = Nothing /\ aside = Nothing /\ Recorded \subseteq shown \cap delivered)

\* A child whose prompt stays free is told, if the saves go through: no
\* instruction sent to its claude waits.
IdleIsTold == <>[]free /\ [](failures = 0) => <>[](\A id \in Untyped : Time(id) < since)
=============================================================================

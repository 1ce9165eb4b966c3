---------------------------- MODULE Missions_proofs ----------------------------
(***************************************************************************)
(* Proofs about Missions, for any commands, texts and bounds: a question   *)
(* has one answer, no ask goes back to an earlier question, an instruction *)
(* is typed once, and the app removes nothing it did not apply.            *)
(***************************************************************************)
EXTENDS Missions, SequenceTheorems, WellFoundedInduction, TLAPS

-----------------------------------------------------------------------------
(* The inductive invariant                                                 *)

\* The events of a file, and those the commands hold.
InFile(file) == IF file = Nothing THEN {} ELSE {file[k] : k \in DOMAIN file}
InHand == {command[c].event : c \in {d \in Command : command[d].pc # "idle"}}

\* Events on their way to the ledger.
Flying == InFile(queue) \cup InFile(aside) \cup InHand

Texted == {"question", "instruction"}

\* The generations of its text before an event's.
Earlier(id) == {Id(id.kind, id.of, m) : m \in 0..(id.n - 1)}

\* What holds of an event wherever it is. Its generation is below its time, as each
\* generation was made after the one before was recorded; an instruction's earlier
\* generations are past their lifetime, as long as the clock was not moved back; a
\* receipt is of what was printed.
Sound(e) ==
    /\ e.at \in 1..made
    /\ e.id.kind \in Texted => e.id.n < e.at /\ Earlier(e.id) \subseteq Recorded
    /\ e.id.kind = "question" => e.id.of # Nothing
    /\ e.id.kind = "instruction" /\ back = 0 => Earlier(e.id) \subseteq old
    /\ e.id.kind = "acknowledged" => e.id.of \in heard

OnceRecorded == \A e, f \in ledger : e.id = f.id => e = f
AnswersQuestions == \A r \in OfKind("response") : r.of \in OfKind("question")

\* The ledger and what flies to it.
Log ==
    /\ made <= MaxMade /\ back \in Nat
    /\ OnceRecorded /\ AnswersQuestions
    /\ \A e \in ledger \cup Flying : Sound(e)
    /\ AnsweredOnce /\ ClosedAsksNothing /\ ReceiptsTrue

Typed == {sent[k] : k \in DOMAIN sent}

\* What a typing pass has before it: instructions neither typed nor marked, but for
\* the one between its mark and the typing, and none that is too old.
ToType ==
    app = "typing" =>
        /\ todo \subseteq OfKind("instruction") \ old
        /\ todo \cap Typed = {}
        /\ todo \cap consumed = IF half THEN Oldest(todo) ELSE {}

\* The lines applied so far are in the ledger or were rejected, unless one failed.
Applied ==
    app = "lines" =>
        /\ read <= Len(aside) /\ line \in 1..(read + 1)
        /\ ~failed => \A k \in 1..(line - 1) : Known(aside[k].id) \/ aside[k].id \in refused

\* The app's pass over a file, or over what it delivers or types.
Pass ==
    /\ half => app \in {"lines", "pending", "typing"} /\ todo # {}
    /\ ToType /\ Applied
    /\ Typed \subseteq consumed /\ TypedOnce

IInv == TypeOK /\ Log /\ Pass

-----------------------------------------------------------------------------
(* Types of events                                                         *)

\* An event's kind tells what it is of.
LEMMA Kinds ==
  ASSUME NEW id \in Message \cup Answer \cup Receipt
  PROVE  /\ id.kind \in {"question", "completed", "instruction"} => id \in Message
         /\ id.kind = "response" => id \in Answer
         /\ id.kind = "acknowledged" => id \in Receipt
         /\ id.kind \in {"question", "completed", "instruction", "response", "acknowledged"}
         /\ id.n \in Nat
  BY DEF Message, Answer, Receipt

LEMMA RecordedTyped ==
  ASSUME TypeOK
  PROVE  /\ Recorded \subseteq Message \cup Answer
         /\ \A id \in Recorded : \E e \in ledger : e.id = id
         /\ ledger \subseteq Event
         /\ Message \cup Answer \subseteq Message \cup Answer \cup Receipt
  BY DEF TypeOK, Recorded, Kept, Event

\* What is recorded is recorded with its time.
LEMMA TimeIsEvents ==
  ASSUME TypeOK, NEW id \in Recorded
  PROVE  /\ Time(id) \in Nat
         /\ [id |-> id, at |-> Time(id)] \in ledger
  <1>1. PICK e \in ledger : e.id = id
    BY DEF Recorded
  <1> DEFINE f == CHOOSE g \in ledger : g.id = id
  <1>2. f \in ledger /\ f.id = id
    BY <1>1
  <1>3. f \in Kept
    BY <1>2 DEF TypeOK
  <1>4. Time(id) = f.at
    BY DEF Time
  <1> HIDE DEF f
  <1>5. f = [id |-> id, at |-> f.at] /\ f.at \in Nat
    BY <1>2, <1>3 DEF Kept
  <1> QED BY <1>2, <1>4, <1>5

\* A recorded event is the one of its time.
LEMMA TimeOfEvent ==
  ASSUME OnceRecorded, NEW e \in ledger
  PROVE  Time(e.id) = e.at
  <1> DEFINE f == CHOOSE g \in ledger : g.id = e.id
  <1>1. f \in ledger /\ f.id = e.id
    OBVIOUS
  <1>2. f = e
    BY <1>1 DEF OnceRecorded
  <1> QED BY <1>2 DEF Time

\* What flies is an event.
LEMMA FlyingTyped ==
  ASSUME TypeOK
  PROVE  Flying \subseteq Event
  <1>1. ASSUME NEW file \in Seq(Event) \cup {Nothing} PROVE InFile(file) \subseteq Event
    BY ElementOfSeq, LenProperties DEF InFile
  <1>2. InHand \subseteq Event
    BY DEF InHand, TypeOK
  <1> QED BY <1>1, <1>2 DEF Flying, TypeOK

\* A write adds its event to a file.
LEMMA FileAppended ==
  ASSUME NEW file \in Seq(Event), NEW e \in Event
  PROVE  /\ Append(file, e) \in Seq(Event)
         /\ InFile(Append(file, e)) \subseteq InFile(file) \cup {e}
         /\ Len(Append(file, e)) = Len(file) + 1
         /\ \A k \in 1..Len(file) : Append(file, e)[k] = file[k]
  <1>1. file # Nothing
    BY NothingAssumption
  <1>2. \A k \in DOMAIN Append(file, e) : Append(file, e)[k] \in InFile(file) \cup {e}
    BY <1>1 DEF InFile
  <1> QED BY <1>2 DEF InFile

\* A command's new event is all that is new in their hands.
LEMMA HandHolds ==
  ASSUME TypeOK, NEW c \in Command, NEW r,
         command' = [command EXCEPT ![c] = r]
  PROVE  InHand' \subseteq InHand \cup (IF r.pc = "idle" THEN {} ELSE {r.event})
  BY DEF TypeOK, InHand

\* Moving the queue aside makes no event.
LEMMA AsideFlies ==
  ASSUME TypeOK, MoveAside
  PROVE  Flying' \subseteq Flying
  <1>1. InFile(aside') = InFile(queue) /\ InFile(queue') = {}
    BY DEF MoveAside, InFile
  <1>2. \A c \in Command : command'[c].pc = command[c].pc /\ command'[c].event = command[c].event
    BY DEF MoveAside, TypeOK
  <1>3. InHand' = InHand
    BY <1>2 DEF InHand
  <1> QED BY <1>1, <1>3 DEF Flying

-----------------------------------------------------------------------------
(* Generations                                                             *)

Is(kind, text, n) == Id(kind, text, n) \in Recorded
Last(kind, text, n) ==
    ~(Is(kind, text, n) /\ (Settled(Id(kind, text, n)) \/ Is(kind, text, n + 1)))

\* The least number of a set.
LEMMA LeastNumber ==
  ASSUME NEW T \in SUBSET Nat, T # {}
  PROVE  \E n \in T : \A m \in T : n <= m
  <1>1. PICK n \in T : \A m \in T : ~(<<m, n>> \in OpToRel(<, Nat))
    BY NatLessThanWellFounded, WFMin
  <1>2. \A m \in T : ~(m < n)
    BY <1>1 DEF OpToRel
  <1> QED BY <1>2

\* A generation is always found: each recorded one is below its time.
LEMMA GenerationFound ==
  ASSUME TypeOK, Log, NEW kind \in Texted, NEW text
  PROVE  LET n == Generation(kind, text)
         IN  /\ n \in 0..MaxMade /\ Last(kind, text, n)
             /\ \A m \in 0..(n - 1) : ~Last(kind, text, m)
  <1>0. MaxMade \in Nat /\ made \in Nat /\ made <= MaxMade
    BY BoundsAssumption DEF TypeOK, Log
  <1>1. ~Is(kind, text, MaxMade)
    <2> SUFFICES ASSUME Is(kind, text, MaxMade) PROVE FALSE
      OBVIOUS
    <2>1. PICK e \in ledger : e.id = Id(kind, text, MaxMade)
      BY RecordedTyped DEF Is
    <2>2. e.id.kind = kind /\ e.id.n = MaxMade
      BY <2>1 DEF Id
    <2>3. e.id.n < e.at /\ e.at \in 1..made
      BY <2>2 DEF Log, Sound
    <2> QED BY <1>0, <2>2, <2>3
  <1>2. PICK n \in 0..MaxMade : /\ Last(kind, text, n)
                                /\ \A m \in 0..(n - 1) : ~Last(kind, text, m)
    <2> DEFINE T == {n \in 0..MaxMade : Last(kind, text, n)}
    <2>1. T \in SUBSET Nat /\ T # {}
      BY <1>0, <1>1 DEF Last
    <2>2. PICK n \in T : \A m \in T : n <= m
      <3> HIDE DEF T
      <3> QED BY <2>1, LeastNumber
    <2>3. \A m \in 0..(n - 1) : ~Last(kind, text, m)
      BY <2>2, <1>0
    <2> QED BY <2>2, <2>3
  <1>3. Generation(kind, text) =
          CHOOSE k \in 0..MaxMade : Last(kind, text, k) /\ \A m \in 0..(k - 1) : ~Last(kind, text, m)
    BY DEF Generation, Last, Is
  <1> QED BY <1>2, <1>3

\* The generations of a text that are recorded are none after the one to use now,
\* and all before it.
LEMMA GenerationIsLast ==
  ASSUME TypeOK, Log, NEW kind \in Texted, NEW text
  PROVE  LET id == Id(kind, text, Generation(kind, text))
         IN  /\ id.kind = kind /\ id.of = text /\ id.n \in Nat
             /\ Earlier(id) \subseteq Recorded
             /\ \A q \in OfKind(kind) : q.of = text => q.n <= id.n
             /\ kind = "instruction" /\ back = 0 => Earlier(id) \subseteq old
             /\ id.n < made + 1
  <1> DEFINE n == Generation(kind, text)
             id == Id(kind, text, n)
  <1>0. /\ n \in 0..MaxMade /\ Last(kind, text, n)
        /\ \A m \in 0..(n - 1) : ~Last(kind, text, m)
        /\ MaxMade \in Nat /\ made \in Nat
    BY GenerationFound, BoundsAssumption DEF TypeOK
  <1>1. id.kind = kind /\ id.of = text /\ id.n = n
    BY DEF Id
  <1> HIDE DEF n
  <1>2. \A m \in 0..(n - 1) : Id(kind, text, m) \in Recorded
    BY <1>0 DEF Last, Is
  <1>3. Earlier(id) \subseteq Recorded
    BY <1>1, <1>2 DEF Earlier
  <1>4. ASSUME NEW q \in OfKind(kind), q.of = text
        PROVE  q.n <= n
    <2> SUFFICES ASSUME ~(q.n <= n) PROVE FALSE
      OBVIOUS
    <2>1. PICK e \in ledger : e.id = q
      BY RecordedTyped DEF OfKind
    <2>2. q.kind = kind /\ q \in Message /\ q \in Recorded
      BY RecordedTyped, Kinds DEF OfKind, Texted
    <2>3. q.n \in Nat /\ q = Id(kind, text, q.n)
      BY <1>4, <2>2 DEF Message, Id
    <2>4. Earlier(q) \subseteq Recorded
      BY <2>1, <2>2 DEF Log, Sound
    <2>5. \A m \in 0..(q.n - 1) : Is(kind, text, m)
      BY <1>4, <2>2, <2>4 DEF Earlier, Is
    <2>6. Is(kind, text, q.n)
      BY <2>2, <2>3 DEF Is
    <2>7. Is(kind, text, n) /\ Is(kind, text, n + 1)
      BY <1>0, <2>3, <2>5, <2>6
    <2> QED BY <1>0, <2>7 DEF Last
  <1>5. ASSUME kind = "instruction", back = 0, NEW m \in 0..(n - 1)
        PROVE  Id(kind, text, m) \in old
    <2>1. CASE Is(kind, text, m + 1)
      <3>1. PICK e \in ledger : e.id = Id(kind, text, m + 1)
        BY <2>1, RecordedTyped DEF Is
      <3>2. Earlier(e.id) \subseteq old /\ e.id.kind = kind /\ e.id.of = text /\ e.id.n = m + 1
        BY <1>5, <3>1 DEF Log, Sound, Id
      <3>3. m \in 0..(e.id.n - 1)
        BY <1>0, <3>2
      <3> QED BY <3>2, <3>3 DEF Earlier
    <2>2. CASE ~Is(kind, text, m + 1)
      <3>1. Settled(Id(kind, text, m))
        BY <1>0, <2>2 DEF Last
      <3>2. Id(kind, text, m) \notin OfKind("question")
        BY <1>5 DEF OfKind, Id
      <3> QED BY <3>1, <3>2 DEF Settled, Log, AnswersQuestions
    <2> QED BY <2>1, <2>2
  <1>6. kind = "instruction" /\ back = 0 => Earlier(id) \subseteq old
    BY <1>1, <1>5 DEF Earlier
  <1>7. n < made + 1
    <2>1. CASE n = 0
      BY <1>0, <2>1
    <2>2. CASE n # 0
      <3>1. n - 1 \in 0..(n - 1)
        BY <1>0, <2>2
      <3>2. PICK e \in ledger : e.id = Id(kind, text, n - 1)
        BY <1>2, <3>1, RecordedTyped
      <3>3. e.id.n = n - 1 /\ e.id.kind = kind
        BY <3>2 DEF Id
      <3>4. e.id.n < e.at /\ e.at \in 1..made
        BY <3>3 DEF Log, Sound
      <3> QED BY <1>0, <3>3, <3>4
    <2> QED BY <2>1, <2>2
  <1>8. n \in Nat
    BY <1>0
  <1> QED BY <1>1, <1>3, <1>4, <1>6, <1>7, <1>8 DEF n

-----------------------------------------------------------------------------
(* What keeps the ledger's part of the invariant                           *)

\* Nothing is recorded: what flies is what flew, what is recorded and new events.
LEMMA LogKept ==
  ASSUME TypeOK, Log, NEW new, \A e \in new : Sound(e)',
         Flying' \subseteq Flying \cup ledger \cup new,
         ledger' = ledger,
         made' \in Nat, made <= made', made' <= MaxMade,
         back' \in Nat, back <= back', back' = 0 => old \subseteq old',
         heard \subseteq heard', consumed \subseteq consumed',
         consumed' \subseteq consumed \cup OfKind("instruction"),
         status' \in {status, "active"}
  PROVE  Log'
  <1>1. Recorded' = Recorded /\ \A kind : OfKind(kind)' = OfKind(kind)
    BY DEF Recorded, OfKind
  <1>2. ASSUME NEW e, Sound(e) PROVE Sound(e)'
    <2>1. e.at \in 1..made'
      BY <1>2 DEF Sound, TypeOK
    <2>2. back' = 0 => back = 0
      BY DEF Log
    <2> QED BY <1>1, <1>2, <2>1, <2>2 DEF Sound, Earlier
  <1>3. \A e \in (ledger \cup Flying)' : Sound(e)'
    BY <1>2 DEF Log
  <1>4. OnceRecorded' /\ AnswersQuestions' /\ AnsweredOnce'
    BY <1>1 DEF Log, OnceRecorded, AnswersQuestions, AnsweredOnce
  <1>5. ClosedAsksNothing'
    BY <1>1 DEF Log, ClosedAsksNothing
  <1>6. ReceiptsTrue'
    BY <1>1 DEF Log, ReceiptsTrue, OfKind
  <1> QED BY <1>3, <1>4, <1>5, <1>6 DEF Log

\* An event that the store takes, and did not know, is recorded.
LEMMA LogRecorded ==
  ASSUME TypeOK, Log, NEW e \in Event, Record(e), Takes(e.id), e.id \notin Recorded, Sound(e)',
         Flying' \subseteq Flying,
         made' \in Nat, made <= made', made' <= MaxMade,
         UNCHANGED <<back, old, heard>>
  PROVE  Log'
  <1> DEFINE id == e.id
  <1>0. /\ id \in Message \cup Answer \cup Receipt
        /\ id.kind \in {"question", "completed", "instruction", "response", "acknowledged"}
    BY Kinds DEF Event
  <1>1. /\ id.kind = "acknowledged" => ledger' = ledger
        /\ id.kind # "acknowledged" => ledger' = ledger \cup {e}
        /\ consumed' = consumed \cup Consumes(id)
        /\ status' = IF id.kind = "completed" THEN "completed" ELSE status
    BY DEF Record
  <1>2. /\ id.kind = "acknowledged" => Recorded' = Recorded
        /\ id.kind # "acknowledged" => Recorded' = Recorded \cup {id}
    BY <1>1 DEF Recorded
  <1> HIDE DEF id
  <1>3. ASSUME NEW f, Sound(f) PROVE Sound(f)'
    <2>1. f.at \in 1..made'
      BY <1>3 DEF Sound, TypeOK
    <2> QED BY <1>2, <1>3, <2>1 DEF Sound, Earlier
  <1>4. \A f \in (ledger \cup Flying)' : Sound(f)'
    BY <1>1, <1>3 DEF Log
  <1>5. OnceRecorded'
    BY <1>1 DEF Log, OnceRecorded, Recorded, id
  <1>6. id.kind = "response" => /\ id.of \in OfKind("question")
                                /\ \A r \in OfKind("response") : r.of # id.of
    BY DEF Takes, id
  <1>7. AnswersQuestions' /\ AnsweredOnce'
    BY <1>2, <1>6 DEF Log, AnswersQuestions, AnsweredOnce, OfKind
  <1>8. ClosedAsksNothing'
    <2>1. CASE id.kind = "completed"
      <3>1. Consumes(id) = OfKind("question") /\ OfKind("question")' = OfKind("question")
        BY <1>2, <2>1 DEF Consumes, OfKind
      <3> QED BY <1>1, <3>1 DEF ClosedAsksNothing
    <2>2. CASE id.kind = "question"
      <3>1. status' = "active"
        BY <1>1, <2>2 DEF Takes, id
      <3> QED BY <3>1 DEF ClosedAsksNothing
    <2>3. CASE id.kind \notin {"question", "completed"}
      <3>1. OfKind("question")' = OfKind("question") /\ status' = status
        BY <1>1, <1>2, <2>3 DEF OfKind
      <3> QED BY <1>1, <3>1 DEF ClosedAsksNothing, Log
    <2> QED BY <2>1, <2>2, <2>3
  <1>9. ReceiptsTrue'
    <2> SUFFICES ASSUME NEW r \in Recorded', r.kind \in {"response", "completed"}, r \in consumed'
                 PROVE  r \in heard
      BY DEF ReceiptsTrue, OfKind
    <2>1. CASE r \in consumed
      <3>1. r \in Recorded
        BY <2>1 DEF TypeOK
      <3> QED BY <2>1, <3>1 DEF Log, ReceiptsTrue, OfKind
    <2>2. CASE r \in Consumes(id)
      <3>1. CASE id.kind = "acknowledged"
        BY <2>2, <3>1 DEF Consumes, Sound, id
      <3>2. CASE id.kind = "response"
        BY <2>2, <3>2, <1>6 DEF Consumes, OfKind
      <3>3. CASE id.kind = "completed"
        BY <2>2, <3>3 DEF Consumes, OfKind
      <3>4. CASE id.kind \notin {"acknowledged", "response", "completed"}
        BY <2>2, <3>4 DEF Consumes
      <3> QED BY <3>1, <3>2, <3>3, <3>4
    <2> QED BY <1>1, <2>1, <2>2
  <1> QED BY <1>4, <1>5, <1>7, <1>8, <1>9 DEF Log

-----------------------------------------------------------------------------
(* The commands keep the invariant                                         *)

Hand == [pc: {"idle", "open", "write", "wait"}, event: Event \cup {Nothing},
         file: {"none", "queue", "aside", "gone"}]

\* What a command keeps fits the files.
Fits(r) ==
    /\ r \in Hand
    /\ r.pc # "idle" => r.event # Nothing
    /\ r.file = "queue" => queue # Nothing
    /\ r.file = "aside" => aside # Nothing

BookTyped ==
    /\ status \in {"active", "completed"} /\ ledger \subseteq Kept
    /\ delivered \subseteq Recorded /\ consumed \subseteq Recorded
    /\ old \subseteq Recorded /\ todo \subseteq Recorded

FilesTyped ==
    queue \in Seq(Event) \cup {Nothing} /\ aside \in Seq(Event) \cup {Nothing}

DrainTyped ==
    /\ app \in {"down", "idle", "moved", "lines", "removed", "pending", "typing"}
    /\ app \in {"moved", "lines"} => aside # Nothing
    /\ leftover \in BOOLEAN /\ failed \in BOOLEAN /\ half \in BOOLEAN /\ typeAfter \in BOOLEAN
    /\ read \in Nat /\ line \in Nat

RestTyped ==
    /\ wake \in BOOLEAN /\ free \in BOOLEAN /\ enabled \in BOOLEAN
    /\ since \in Nat /\ made \in Nat

HandsTyped ==
    command \in [Command -> Hand] /\ \A c \in Command : Fits(command[c])

SeenTyped ==
    /\ shown \subseteq Message \cup Answer \cup Receipt
    /\ heard \subseteq Message \cup Answer \cup Receipt
    /\ refused \subseteq Message \cup Answer \cup Receipt
    /\ promised \subseteq Answer /\ sent \in Seq(Message)

\* TypeOK, part by part.
LEMMA TypeParts ==
  TypeOK <=> BookTyped /\ FilesTyped /\ DrainTyped /\ RestTyped /\ HandsTyped /\ SeenTyped
  <1>1. TypeOK => BookTyped /\ FilesTyped /\ DrainTyped /\ RestTyped /\ SeenTyped
    BY DEF TypeOK, BookTyped, FilesTyped, DrainTyped, RestTyped, SeenTyped
  <1>2. TypeOK => HandsTyped
    BY DEF TypeOK, HandsTyped, Fits, Hand
  <1>3. BookTyped /\ FilesTyped /\ DrainTyped /\ RestTyped /\ HandsTyped /\ SeenTyped => TypeOK
    <2> SUFFICES ASSUME BookTyped, FilesTyped, DrainTyped, RestTyped, HandsTyped, SeenTyped
                 PROVE  TypeOK
      OBVIOUS
    <2>1. delivered \cup consumed \cup old \cup todo \subseteq Recorded
      BY DEF BookTyped
    <2>2. /\ {leftover, failed, half, typeAfter, wake, free, enabled} \subseteq BOOLEAN
          /\ {read, line, since, made} \subseteq Nat
      BY DEF DrainTyped, RestTyped
    <2>3. shown \cup heard \cup refused \subseteq Message \cup Answer \cup Receipt
      BY DEF SeenTyped
    <2>4. /\ command \in [Command -> [pc: {"idle", "open", "write", "wait"},
                                event: Event \cup {Nothing},
                                file: {"none", "queue", "aside", "gone"}]]
          /\ \A c \in Command : /\ command[c].pc # "idle" => command[c].event # Nothing
                                /\ command[c].file = "queue" => queue # Nothing
                                /\ command[c].file = "aside" => aside # Nothing
      BY DEF HandsTyped, Fits, Hand
    <2>5. status \in {"active", "completed"} /\ ledger \subseteq Kept
      BY DEF BookTyped
    <2>6. /\ app \in {"down", "idle", "moved", "lines", "removed", "pending", "typing"}
          /\ app \in {"moved", "lines"} => aside # Nothing
      BY DEF DrainTyped
    <2>7. promised \subseteq Answer /\ sent \in Seq(Message)
      BY DEF SeenTyped
    <2> QED BY <2>1, <2>2, <2>3, <2>4, <2>5, <2>6, <2>7 DEF TypeOK, FilesTyped
  <1> QED BY <1>1, <1>2, <1>3

\* A command's step leaves the app alone, but for what it appends to a file.
LEMMA CommandPass ==
  ASSUME TypeOK, Pass, CommandOnly,
         \/ aside' = aside
         \/ aside \in Seq(Event) /\ \E e \in Event : aside' = Append(aside, e)
  PROVE  Pass'
  <1>1. /\ UNCHANGED <<status, ledger, delivered, consumed>>
        /\ UNCHANGED <<app, leftover, read, line, failed, todo, half, typeAfter>>
        /\ UNCHANGED <<old, sent, refused>>
    BY DEF CommandOnly, book, drain
  <1>2. Recorded' = Recorded /\ \A id : Known(id)' = Known(id)
    BY <1>1 DEF Recorded, Known
  <1>3. ToType' /\ Typed' = Typed /\ TypedOnce'
    BY <1>1 DEF Pass, ToType, Typed, TypedOnce, OfKind, Recorded, Oldest, Time
  <1>4. Applied'
    <2>1. ASSUME app = "lines"
          PROVE  read <= Len(aside') /\ \A k \in 1..(line - 1) : aside'[k] = aside[k]
      <3>1. CASE aside' = aside
        BY <2>1, <3>1 DEF Pass, Applied
      <3>2. ASSUME aside \in Seq(Event), NEW e \in Event, aside' = Append(aside, e)
            PROVE  read <= Len(aside') /\ \A k \in 1..(line - 1) : aside'[k] = aside[k]
        <4>1. /\ Len(aside') = Len(aside) + 1 /\ Len(aside) \in Nat
              /\ \A k \in 1..Len(aside) : aside'[k] = aside[k]
          BY <3>2, FileAppended, LenProperties
        <4>2. read <= Len(aside) /\ line \in 1..(read + 1) /\ read \in Nat
          BY <2>1 DEF Pass, Applied, TypeOK
        <4> QED BY <4>1, <4>2
      <3> QED BY <3>1, <3>2
    <2> QED BY <1>1, <1>2, <2>1 DEF Pass, Applied
  <1> QED BY <1>1, <1>3, <1>4 DEF Pass

\* What a command does is well typed: its own record, what it prints and promises.
LEMMA CommandTyped ==
  ASSUME TypeOK, CommandOnly, NEW c \in Command, NEW r \in Hand,
         command' = [command EXCEPT ![c] = r],
         Fits(r)', queue' \in Seq(Event) \cup {Nothing}, aside' \in Seq(Event) \cup {Nothing},
         queue # Nothing => queue' # Nothing, aside # Nothing => aside' # Nothing,
         heard' \subseteq Message \cup Answer \cup Receipt, promised' \subseteq Answer,
         made' \in Nat
  PROVE  TypeOK'
  <1>1. /\ UNCHANGED <<status, ledger, delivered, consumed>>
        /\ UNCHANGED <<app, leftover, read, line, failed, todo, half, typeAfter>>
        /\ UNCHANGED <<old, sent, refused, shown, enabled, wake, free, since>>
    BY DEF CommandOnly, book, drain, prompt
  <1>2. BookTyped'
    <2>1. Recorded' = Recorded
      BY <1>1 DEF Recorded
    <2> QED BY <1>1, <2>1, TypeParts DEF BookTyped
  <1>3. FilesTyped' /\ DrainTyped' /\ RestTyped' /\ SeenTyped'
    BY <1>1, TypeParts DEF FilesTyped, DrainTyped, RestTyped, SeenTyped
  <1>4. HandsTyped'
    BY TypeParts DEF HandsTyped, Fits
  <1>5. TypeOK' <=> (BookTyped /\ FilesTyped /\ DrainTyped /\ RestTyped /\ HandsTyped /\ SeenTyped)'
    BY TypeParts, PTL
  <1> QED BY <1>2, <1>3, <1>4, <1>5

\* A new event goes to the queue's file: its time is the latest.
LEMMA AppendsKeep ==
  ASSUME IInv, NEW c \in Command, NEW id \in Message \cup Answer \cup Receipt, Appends(c, id),
         UNCHANGED <<queue, aside, promised>>, CommandOnly, heard \subseteq heard',
         heard' \subseteq Message \cup Answer \cup Receipt,
         id.kind \in Texted => id.n < made + 1 /\ Earlier(id) \subseteq Recorded,
         id.kind = "question" => id.of # Nothing,
         id.kind = "instruction" /\ back = 0 => Earlier(id) \subseteq old,
         id.kind = "acknowledged" => id.of \in heard'
  PROVE  IInv'
  <1> PICK e : e = [id |-> id, at |-> made + 1]
    OBVIOUS
  <1> PICK r : r = [pc |-> "open", event |-> e, file |-> "none"]
    OBVIOUS
  <1>1. /\ made < MaxMade /\ made' = made + 1 /\ made \in Nat /\ MaxMade \in Nat
        /\ command' = [command EXCEPT ![c] = r]
    BY BoundsAssumption DEF Appends, Do, IInv, TypeOK
  <1>2. /\ UNCHANGED <<status, ledger, consumed, old, back>>
    BY DEF CommandOnly, book, bounds
  <1>3. e \in Event /\ e # Nothing /\ e.id = id /\ e.at = made'
    BY <1>1, NothingAssumption DEF Event
  <1>4. TypeOK'
    <2>1. r \in Hand /\ Fits(r)'
      BY <1>3 DEF Hand, Fits
    <2>2. FilesTyped /\ made' \in Nat /\ promised' \subseteq Answer
      BY <1>1, TypeParts DEF IInv, SeenTyped
    <2> QED BY <1>1, <2>1, <2>2, CommandTyped DEF IInv, FilesTyped
  <1>5. Sound(e)'
    <2>1. Recorded' = Recorded
      BY <1>2 DEF Recorded
    <2>2. e.at \in 1..made'
      BY <1>1, <1>3
    <2> QED BY <1>1, <1>2, <1>3, <2>1, <2>2 DEF Sound, Earlier
  <1>6. Flying' \subseteq Flying \cup {e}
    <2>1. InHand' \subseteq InHand \cup {e}
      <3>1. r.event = e /\ r.pc # "idle"
        OBVIOUS
      <3> QED BY <1>1, <3>1, HandHolds DEF IInv
    <2> QED BY <2>1 DEF Flying
  <1>7. Log'
    <2>0. /\ made' \in Nat /\ made <= made' /\ made' <= MaxMade
          /\ back' \in Nat /\ back <= back'
      BY <1>1, <1>2 DEF IInv, Log
    <2> DEFINE new == {e}
    <2>1. \A f \in new : Sound(f)'
      BY <1>5
    <2>2. Flying' \subseteq Flying \cup ledger \cup new
      BY <1>6
    <2> HIDE DEF new
    <2> QED BY <1>2, <2>0, <2>1, <2>2, LogKept DEF IInv
  <1>8. Pass'
    BY CommandPass DEF IInv
  <1> QED BY <1>4, <1>7, <1>8 DEF IInv

\* A command's step that makes no event: it holds one that flies or is recorded, or
\* none.
LEMMA StepsKeep ==
  ASSUME IInv, NEW c \in Command, NEW r \in Hand, command' = [command EXCEPT ![c] = r],
         CommandOnly, UNCHANGED <<heard, made>>, Fits(r)',
         r.pc # "idle" => r.event \in ledger \cup Flying,
         queue' \in Seq(Event) \cup {Nothing}, aside' \in Seq(Event) \cup {Nothing},
         queue # Nothing => queue' # Nothing,
         InFile(queue') \subseteq ledger \cup Flying,
         InFile(aside') \subseteq ledger \cup Flying,
         \/ aside' = aside
         \/ aside \in Seq(Event) /\ \E e \in Event : aside' = Append(aside, e),
         promised' \subseteq Answer
  PROVE  IInv'
  <1>0. aside # Nothing => aside' # Nothing
    BY FileAppended, NothingAssumption
  <1>1. TypeOK'
    <2>1. heard' \subseteq Message \cup Answer \cup Receipt /\ made' \in Nat
      BY DEF IInv, TypeOK
    <2> QED BY <1>0, <2>1, CommandTyped DEF IInv
  <1>2. Flying' \subseteq ledger \cup Flying
    <2>1. InHand' \subseteq InHand \cup (IF r.pc = "idle" THEN {} ELSE {r.event})
      BY HandHolds DEF IInv
    <2> QED BY <2>1 DEF Flying
  <1>3. Log'
    <2>1. UNCHANGED <<status, ledger, consumed, old, back>>
      BY DEF CommandOnly, book, bounds
    <2>2. /\ made' \in Nat /\ made <= made' /\ made' <= MaxMade
          /\ back' \in Nat /\ back <= back'
      BY <2>1 DEF IInv, Log, TypeOK
    <2> DEFINE new == {}
    <2>3. \A f \in new : Sound(f)'
      OBVIOUS
    <2>4. Flying' \subseteq Flying \cup ledger \cup new
      BY <1>2
    <2> HIDE DEF new
    <2> QED BY <2>1, <2>2, <2>3, <2>4, LogKept DEF IInv
  <1>4. Pass'
    BY CommandPass DEF IInv
  <1> QED BY <1>1, <1>3, <1>4 DEF IInv

\* A question or an instruction: the one whose answer is not old yet, or its next
\* generation.
LEMMA ResumesKeep ==
  ASSUME IInv, NEW c \in Command, NEW kind \in Texted, NEW text,
         kind = "question" => text \in Asked, kind = "instruction" => text \in Told,
         Resumes(c, Id(kind, text, Generation(kind, text))),
         CommandOnly, UNCHANGED <<files, heard, promised>>
  PROVE  IInv'
  <1> DEFINE id == Id(kind, text, Generation(kind, text))
  <1>1. /\ id.kind = kind /\ id.of = text /\ id.n \in Nat /\ id.n < made + 1
        /\ Earlier(id) \subseteq Recorded
        /\ kind = "instruction" /\ back = 0 => Earlier(id) \subseteq old
    BY GenerationIsLast DEF IInv
  <1>2. id \in Message /\ text # Nothing
    <2>1. id = [kind |-> kind, of |-> text, n |-> id.n]
      BY DEF Id
    <2> HIDE DEF id
    <2> QED BY <1>1, <2>1, NothingAssumption DEF Message, Texted
  <1>3. UNCHANGED <<queue, aside>>
    BY DEF files
  <1>4. Resumes(c, id)
    OBVIOUS
  <1> HIDE DEF id
  <1>5. CASE id \in Recorded
    <2> PICK e : e = [id |-> id, at |-> Time(id)]
      OBVIOUS
    <2> PICK r : r = [pc |-> "wait", event |-> e, file |-> "none"]
      OBVIOUS
    <2>1. command' = [command EXCEPT ![c] = r] /\ UNCHANGED made
      BY <1>4, <1>5 DEF Resumes, Do
    <2>2. e \in ledger /\ e \in Event /\ e # Nothing
      BY <1>5, TimeIsEvents, RecordedTyped, NothingAssumption DEF IInv
    <2>3. r \in Hand /\ Fits(r)' /\ r.event = e
      BY <2>2 DEF Hand, Fits
    <2>4. InFile(queue') \subseteq ledger \cup Flying /\ InFile(aside') \subseteq ledger \cup Flying
      BY <1>3 DEF Flying
    <2>5. FilesTyped /\ promised' \subseteq Answer
      BY TypeParts DEF IInv, SeenTyped
    <2> QED BY <1>3, <2>1, <2>2, <2>3, <2>4, <2>5, StepsKeep DEF FilesTyped
  <1>6. CASE id \notin Recorded
    <2>1. Appends(c, id)
      BY <1>4, <1>6 DEF Resumes
    <2>2. heard' \subseteq Message \cup Answer \cup Receipt
      BY DEF IInv, TypeOK
    <2> QED BY <1>1, <1>2, <1>3, <2>1, <2>2, AppendsKeep DEF Texted
  <1> QED BY <1>5, <1>6

\* Asking, telling, completing, answering and receiving.
LEMMA BeginsKeep ==
  ASSUME IInv, NEW c \in Command,
         \/ \E t \in Asked : Ask(c, t)
         \/ \E t \in Told : Tell(c, t)
         \/ Completed(c) \/ Reply(c) \/ Receive(c) \/ Answered(c)
  PROVE  IInv'
  <1>0. /\ TypeOK /\ made \in Nat /\ heard \subseteq Message \cup Answer \cup Receipt
        /\ Recorded \subseteq Message \cup Answer
    BY TypeParts, RecordedTyped DEF IInv, RestTyped, SeenTyped
  <1>1. ASSUME NEW t \in Asked, Ask(c, t) PROVE IInv'
    BY <1>1, ResumesKeep DEF Ask, Texted
  <1>2. ASSUME NEW t \in Told, Tell(c, t) PROVE IInv'
    BY <1>2, ResumesKeep DEF Tell, Texted
  <1>3. CASE Completed(c)
    <2> PICK id : id = Id("completed", Nothing, made + 1)
      OBVIOUS
    <2>1. id \in Message /\ id.kind = "completed"
      BY <1>0 DEF Id, Message
    <2>2. Appends(c, id) /\ CommandOnly /\ UNCHANGED <<queue, aside, heard, promised>>
      BY <1>3 DEF Completed, files
    <2> QED BY <1>0, <2>1, <2>2, AppendsKeep DEF Texted
  <1>4. CASE Reply(c)
    <2>1. PICK q \in OfKind("question") : Appends(c, Id("response", q, made + 1))
      BY <1>4 DEF Reply
    <2> PICK id : id = Id("response", q, made + 1)
      OBVIOUS
    <2>2. id \in Answer /\ id.kind = "response"
      <3>1. q \in Message
        BY <1>0, Kinds DEF OfKind
      <3> QED BY <1>0, <3>1 DEF Id, Answer
    <2>3. Appends(c, id) /\ CommandOnly /\ UNCHANGED <<queue, aside, heard, promised>>
      BY <1>4, <2>1 DEF Reply, files
    <2> QED BY <1>0, <2>2, <2>3, AppendsKeep DEF Texted
  <1>5. ASSUME NEW m \in Recorded, CommandOnly, UNCHANGED <<files, promised>>, Prints(m),
               Appends(c, Id("acknowledged", m, made + 1))
        PROVE  IInv'
    <2> PICK id : id = Id("acknowledged", m, made + 1)
      OBVIOUS
    <2>1. id \in Receipt /\ id.kind = "acknowledged" /\ id.of = m
      BY <1>0 DEF Id, Receipt
    <2>2. Appends(c, id) /\ heard' = heard \cup {m} /\ UNCHANGED <<queue, aside>>
      BY <1>5 DEF Prints, files
    <2>3. heard' \subseteq Message \cup Answer \cup Receipt
      BY <1>0, <2>2
    <2> QED BY <1>0, <1>5, <2>1, <2>2, <2>3, AppendsKeep DEF Texted
  <1>6. CASE Receive(c)
    <2>1. PICK m \in Inbox : /\ Prints(m)
                             /\ IF m.kind = "completed"
                                THEN Appends(c, Id("acknowledged", m, made + 1))
                                ELSE UNCHANGED <<command, made>>
      BY <1>6 DEF Receive
    <2>2. m \in Recorded /\ CommandOnly /\ UNCHANGED <<files, promised>>
      BY <1>6 DEF Receive, Inbox, Oldest, OfKind
    <2>3. CASE m.kind # "completed"
      <3>1. UNCHANGED <<command, made, queue, aside, promised>> /\ heard' = heard \cup {m}
        BY <2>1, <2>2, <2>3 DEF Prints, files
      <3>2. UNCHANGED <<status, ledger, delivered, consumed, old, todo, back,
                        app, leftover, failed, half, typeAfter, read, line, wake, free, enabled,
                        since, shown, refused, sent>>
        BY <2>2 DEF CommandOnly, book, drain, prompt, bounds
      <3>3. TypeOK'
        <4>1. Recorded' = Recorded /\ heard' \subseteq Message \cup Answer \cup Receipt
          BY <1>0, <2>2, <3>1, <3>2 DEF Recorded
        <4>2. (BookTyped /\ FilesTyped /\ DrainTyped /\ RestTyped /\ HandsTyped)'
          BY <1>0, <3>1, <3>2, <4>1, TypeParts
             DEF BookTyped, FilesTyped, DrainTyped, RestTyped, HandsTyped, Fits
        <4>3. SeenTyped'
          BY <1>0, <3>1, <3>2, <4>1, TypeParts DEF SeenTyped
        <4>4. TypeOK' <=> (BookTyped /\ FilesTyped /\ DrainTyped /\ RestTyped /\ HandsTyped
                           /\ SeenTyped)'
          BY TypeParts, PTL
        <4> QED BY <4>2, <4>3, <4>4
      <3>4. Log'
        <4> DEFINE new == {}
        <4>1. \A e \in new : Sound(e)'
          OBVIOUS
        <4>2. Flying' \subseteq Flying \cup ledger \cup new
          BY <3>1 DEF Flying, InHand
        <4>3. made' \in Nat /\ made <= made' /\ made' <= MaxMade /\ back' \in Nat /\ back <= back'
          BY <1>0, <3>1, <3>2 DEF IInv, Log
        <4> HIDE DEF new
        <4> QED BY <1>0, <3>1, <3>2, <4>1, <4>2, <4>3, LogKept DEF IInv
      <3>5. Pass'
        BY <2>2, <3>1, CommandPass DEF IInv
      <3> QED BY <3>3, <3>4, <3>5 DEF IInv
    <2> QED BY <1>5, <2>1, <2>2, <2>3
  <1>7. CASE Answered(c)
    <2>1. PICK m \in OfKind("response") : Prints(m) /\ Appends(c, Id("acknowledged", m, made + 1))
      BY <1>7 DEF Answered
    <2>2. m \in Recorded /\ CommandOnly /\ UNCHANGED <<files, promised>>
      BY <1>7 DEF Answered, OfKind
    <2> QED BY <1>5, <2>1, <2>2
  <1> QED BY <1>1, <1>2, <1>3, <1>4, <1>6, <1>7

\* A command opens the queue, writes where its file is now, and ends.
LEMMA RunsKeep ==
  ASSUME IInv, NEW c \in Command, Runs(c)
  PROVE  IInv'
  <1>0. /\ TypeOK /\ FilesTyped /\ promised \subseteq Answer
        /\ command[c] \in Hand /\ Fits(command[c])
    BY TypeParts DEF IInv, HandsTyped, SeenTyped
  <1>1. command[c].pc # "idle" => command[c].event \in Event /\ command[c].event \in Flying
    BY <1>0 DEF Hand, Fits, Flying, InHand
  <1>2. InFile(queue) \subseteq ledger \cup Flying /\ InFile(aside) \subseteq ledger \cup Flying
    BY DEF Flying
  <1>3. CASE Opens(c)
    <2> PICK r : r = [pc |-> "write", event |-> command[c].event, file |-> "queue"]
      OBVIOUS
    <2>1. /\ command' = [command EXCEPT ![c] = r] /\ command[c].pc = "open"
          /\ queue' = IF queue = Nothing THEN <<>> ELSE queue
          /\ CommandOnly /\ UNCHANGED <<aside, heard, promised, made>>
      BY <1>3 DEF Opens, Do
    <2>2. <<>> \in Seq(Event) /\ <<>> # Nothing /\ InFile(<<>>) = {}
      <3>1. <<>> \in Seq(Event) /\ DOMAIN <<>> = {}
        OBVIOUS
      <3> QED BY <3>1, NothingAssumption DEF InFile
    <2>3. /\ queue' \in Seq(Event) \cup {Nothing} /\ queue' # Nothing
          /\ InFile(queue') \subseteq ledger \cup Flying
          /\ aside' \in Seq(Event) \cup {Nothing} /\ InFile(aside') \subseteq ledger \cup Flying
      BY <1>0, <1>2, <2>1, <2>2 DEF FilesTyped
    <2>4. command[c].event # Nothing
      BY <1>0, <2>1 DEF Fits
    <2>5. r \in Hand /\ Fits(r)' /\ r.event \in ledger \cup Flying
      BY <1>1, <2>1, <2>3, <2>4 DEF Hand, Fits
    <2> QED BY <1>0, <2>1, <2>3, <2>5, StepsKeep
  <1>4. ASSUME CommandOnly, UNCHANGED <<queue, aside, heard, made>>, promised' \subseteq Answer,
               command' = [command EXCEPT ![c] = Idle]
        PROVE  IInv'
    <2>1. Idle \in Hand /\ Fits(Idle)' /\ Idle.pc = "idle"
      BY DEF Idle, Hand, Fits
    <2>2. /\ queue' \in Seq(Event) \cup {Nothing} /\ aside' \in Seq(Event) \cup {Nothing}
          /\ InFile(queue') \subseteq ledger \cup Flying /\ InFile(aside') \subseteq ledger \cup Flying
      BY <1>0, <1>2, <1>4 DEF FilesTyped
    <2> HIDE DEF Idle
    <2> QED BY <1>4, <2>1, <2>2, StepsKeep
  <1>5. CASE NotConfirmed(c)
    <2>1. command[c].event.id \in Answer
      <3>1. command[c].pc = "wait" /\ command[c].event.id.kind = "response"
        BY <1>5 DEF NotConfirmed
      <3>2. command[c].event.id \in Message \cup Answer \cup Receipt
        BY <1>1, <3>1 DEF Event
      <3> QED BY <3>1, <3>2, Kinds
    <2> QED BY <1>0, <1>4, <1>5, <2>1 DEF NotConfirmed, files
  <1>6. CASE Ends(c)
    BY <1>0, <1>4, <1>6 DEF Ends, files
  <1>7. CASE Writes(c)
    <2> DEFINE file == command[c].file
    <2> PICK e : e = command[c].event
      OBVIOUS
    <2>1. /\ command[c].pc = "write" /\ e \in Event /\ e \in Flying
          /\ CommandOnly /\ UNCHANGED <<heard, promised, made>>
          /\ queue' = IF file = "queue" THEN Append(queue, e) ELSE queue
          /\ aside' = IF file = "aside" THEN Append(aside, e) ELSE aside
          /\ IF e.id.kind \in {"question", "response", "instruction"}
             THEN Do(c, "wait", e, "none")
             ELSE command' = [command EXCEPT ![c] = Idle]
      BY <1>1, <1>7 DEF Writes
    <2>2. /\ queue' \in Seq(Event) \cup {Nothing} /\ (queue # Nothing => queue' # Nothing)
          /\ InFile(queue') \subseteq ledger \cup Flying
      <3>1. CASE file = "queue"
        <4>1. queue \in Seq(Event)
          BY <1>0, <3>1 DEF Fits, FilesTyped
        <4> HIDE DEF file
        <4> QED BY <1>2, <2>1, <3>1, <4>1, FileAppended, NothingAssumption
      <3>2. CASE file # "queue"
        <4> HIDE DEF file
        <4> QED BY <1>0, <1>2, <2>1, <3>2 DEF FilesTyped
      <3> QED BY <3>1, <3>2
    <2>3. /\ aside' \in Seq(Event) \cup {Nothing} /\ (aside # Nothing => aside' # Nothing)
          /\ InFile(aside') \subseteq ledger \cup Flying
          /\ \/ aside' = aside
             \/ aside \in Seq(Event) /\ \E f \in Event : aside' = Append(aside, f)
      <3>1. CASE file = "aside"
        <4>1. aside \in Seq(Event)
          BY <1>0, <3>1 DEF Fits, FilesTyped
        <4> HIDE DEF file
        <4> QED BY <1>2, <2>1, <3>1, <4>1, FileAppended, NothingAssumption
      <3>2. CASE file # "aside"
        <4> HIDE DEF file
        <4> QED BY <1>0, <1>2, <2>1, <3>2 DEF FilesTyped
      <3> QED BY <3>1, <3>2
    <2>4. PICK r \in {[pc |-> "wait", event |-> e, file |-> "none"], Idle} :
             command' = [command EXCEPT ![c] = r]
      BY <2>1 DEF Do
    <2>5. /\ r \in Hand /\ Fits(r)'
          /\ r.pc # "idle" => r.event \in ledger \cup Flying
      <3>1. e # Nothing
        BY <2>1, NothingAssumption
      <3>2. CASE r = [pc |-> "wait", event |-> e, file |-> "none"]
        BY <2>1, <3>1, <3>2 DEF Hand, Fits
      <3>3. CASE r = Idle
        BY <3>3 DEF Hand, Fits, Idle
      <3> QED BY <2>4, <3>2, <3>3
    <2> QED BY <1>0, <2>1, <2>2, <2>3, <2>4, <2>5, StepsKeep
  <1> QED BY <1>3, <1>5, <1>6, <1>7 DEF Runs

-----------------------------------------------------------------------------
(* The app's steps keep the invariant                                      *)

LEMMA TypedNext ==
  ASSUME BookTyped', FilesTyped', DrainTyped', RestTyped', HandsTyped', SeenTyped'
  PROVE  TypeOK'
  <1>1. TypeOK' <=> (BookTyped /\ FilesTyped /\ DrainTyped /\ RestTyped /\ HandsTyped /\ SeenTyped)'
    BY TypeParts, PTL
  <1> QED BY <1>1

\* A step that records nothing and makes no event.
LEMMA LogStays ==
  ASSUME TypeOK, Log, Flying' \subseteq Flying, UNCHANGED <<ledger, made, heard>>,
         back' \in Nat, back <= back', back' = 0 => old \subseteq old',
         consumed \subseteq consumed', consumed' \subseteq consumed \cup OfKind("instruction"),
         status' \in {status, "active"}
  PROVE  Log'
  <1> DEFINE new == {}
  <1>1. \A e \in new : Sound(e)'
    OBVIOUS
  <1>2. Flying' \subseteq Flying \cup ledger \cup new
    OBVIOUS
  <1>3. made' \in Nat /\ made <= made' /\ made' <= MaxMade
    BY TypeParts DEF RestTyped, Log
  <1> HIDE DEF new
  <1> QED BY <1>1, <1>2, <1>3, LogKept

\* A step that leaves files, commands and the ledger alone.
LEMMA QuietLog ==
  ASSUME TypeOK, Log, UNCHANGED <<book, files, command, made, heard, back, old>>
  PROVE  Log'
  <1>1. Flying' \subseteq Flying /\ back' \in Nat /\ back <= back' /\ consumed' = consumed
    BY DEF Flying, InHand, files, Log, book
  <1> QED BY <1>1, LogStays DEF book

\* A drain goes over the file left aside, moves the queue aside, or delivers.
LEMMA DrainSteps ==
  ASSUME TypeOK, Drain \/ (queue # Nothing /\ MoveAside) \/ DeliverPending
  PROVE  /\ FilesTyped' /\ HandsTyped' /\ Flying' \subseteq Flying
         /\ app' \in {"moved", "pending"} /\ leftover' \in BOOLEAN
         /\ app' = "moved" => aside' # Nothing
         /\ todo' \subseteq Recorded
  <1>0. FilesTyped /\ HandsTyped /\ BookTyped
    BY TypeParts
  <1>1. CASE aside # Nothing /\ app' = "moved" /\ leftover' = TRUE
              /\ UNCHANGED <<files, command, todo>>
    BY <1>0, <1>1 DEF FilesTyped, HandsTyped, BookTyped, Fits, files, Flying, InHand
  <1>2. CASE queue # Nothing /\ MoveAside
    <2>1. HandsTyped'
      BY <1>0, <1>2 DEF HandsTyped, MoveAside, Fits, Hand
    <2> QED BY <1>0, <1>2, <2>1, AsideFlies DEF FilesTyped, BookTyped, MoveAside
  <1>3. CASE DeliverPending
    BY <1>0, <1>3
       DEF FilesTyped, HandsTyped, BookTyped, Fits, files, Flying, InHand, DeliverPending, Undelivered
  <1> QED BY <1>1, <1>2, <1>3 DEF Drain

\* A pass that is neither over a file's lines nor types has nothing half done.
LEMMA PassElsewhere ==
  ASSUME Pass, ~half', app' \notin {"lines", "typing"}, UNCHANGED <<consumed, sent>>
  PROVE  Pass'
  BY DEF Pass, ToType, Applied, Typed, TypedOnce

LEMMA DrainsKeep ==
  ASSUME IInv, DrainBegins \/ GoesOn \/ Starts
  PROVE  IInv'
  <1>1. /\ Drain \/ (queue # Nothing /\ MoveAside) \/ DeliverPending
        /\ UNCHANGED <<book, seen, bounds, old, enabled, made, read, line, failed, half, typeAfter,
                       wake, free>>
        /\ app \in {"idle", "removed", "down"} /\ since' \in {since, made + 1}
    BY DEF DrainBegins, GoesOn, Starts, prompt
  <1>2. /\ BookTyped /\ FilesTyped /\ DrainTyped /\ RestTyped /\ HandsTyped /\ SeenTyped /\ TypeOK
    BY TypeParts DEF IInv
  <1>3. /\ FilesTyped' /\ HandsTyped' /\ Flying' \subseteq Flying
        /\ app' \in {"moved", "pending"} /\ leftover' \in BOOLEAN
        /\ app' = "moved" => aside' # Nothing
        /\ todo' \subseteq Recorded
    BY <1>1, <1>2, DrainSteps
  <1>4. TypeOK'
    <2>1. Recorded' = Recorded
      BY <1>1 DEF book, Recorded
    <2>2. BookTyped' /\ DrainTyped' /\ RestTyped' /\ SeenTyped'
      BY <1>1, <1>2, <1>3, <2>1 DEF BookTyped, DrainTyped, RestTyped, SeenTyped, book, seen
    <2> QED BY <1>3, <2>2, TypedNext
  <1>5. Log'
    BY <1>1, <1>2, <1>3, LogStays DEF IInv, book, bounds, seen, Log
  <1>6. Pass'
    BY <1>1, <1>3, PassElsewhere DEF IInv, book, seen, Pass
  <1> QED BY <1>4, <1>5, <1>6 DEF IInv

LEMMA TypingBeginsKeeps ==
  ASSUME IInv, TypingBegins
  PROVE  IInv'
  <1>1. /\ UNCHANGED <<book, seen, bounds, old, enabled, made, read, line, failed, half, free, since>>
        /\ app = "idle" /\ wake' = FALSE
    BY DEF TypingBegins, seen
  <1>2. /\ BookTyped /\ FilesTyped /\ DrainTyped /\ RestTyped /\ HandsTyped /\ SeenTyped /\ TypeOK
    BY TypeParts DEF IInv
  <1>3. /\ FilesTyped' /\ HandsTyped' /\ Flying' \subseteq Flying
        /\ app' \in {"moved", "pending", "idle"} /\ leftover' \in BOOLEAN /\ typeAfter' \in BOOLEAN
        /\ app' = "moved" => aside' # Nothing
        /\ todo' \subseteq Recorded
    <2>1. CASE Drain /\ typeAfter' = TRUE
      BY <1>2, <2>1, DrainSteps
    <2>2. CASE UNCHANGED <<files, command, app, leftover, todo, typeAfter>>
      BY <1>1, <1>2, <2>2
         DEF FilesTyped, HandsTyped, BookTyped, DrainTyped, Fits, files, Flying, InHand
    <2> QED BY <2>1, <2>2 DEF TypingBegins
  <1>4. TypeOK'
    <2>1. Recorded' = Recorded
      BY <1>1 DEF book, Recorded
    <2>2. BookTyped' /\ DrainTyped' /\ RestTyped' /\ SeenTyped'
      BY <1>1, <1>2, <1>3, <2>1 DEF BookTyped, DrainTyped, RestTyped, SeenTyped, book, seen
    <2> QED BY <1>3, <2>2, TypedNext
  <1>5. Log'
    BY <1>1, <1>2, <1>3, LogStays DEF IInv, book, bounds, seen, Log
  <1>6. Pass'
    BY <1>1, <1>3, PassElsewhere DEF IInv, book, seen, Pass
  <1> QED BY <1>4, <1>5, <1>6 DEF IInv

\* The drain is over: what is typed after it is neither marked nor too old.
LEMMA ReturnPass ==
  ASSUME IInv, Return, ~half', UNCHANGED <<book, old, sent>>
  PROVE  Pass' /\ todo' \subseteq Recorded /\ app' \in {"idle", "typing"}
  <1>1. /\ app' \in {"idle", "typing"} /\ todo' \in {Untyped, {}}
        /\ UNCHANGED <<ledger, consumed>>
    BY DEF Return, book
  <1>2. OfKind("instruction")' = OfKind("instruction") /\ Typed' = Typed /\ Typed \subseteq consumed
    BY <1>1 DEF OfKind, Recorded, Typed, IInv, Pass
  <1>3. ToType'
    <2>1. /\ todo' \subseteq OfKind("instruction") \ old /\ todo' \cap consumed = {}
      BY <1>1 DEF Untyped
    <2> QED BY <1>1, <1>2, <2>1 DEF ToType
  <1>4. Applied' /\ TypedOnce'
    BY <1>1 DEF Applied, TypedOnce, IInv, Pass
  <1> QED BY <1>1, <1>2, <1>3, <1>4 DEF Pass, Untyped, OfKind

LEMMA ReadsKeeps ==
  ASSUME IInv, Reads
  PROVE  IInv'
  <1>1. /\ UNCHANGED <<book, files, prompt, seen, turns, crashes, toggles, back, old, enabled, command,
                       made, half>>
        /\ app = "moved"
    BY DEF Reads
  <1>2. /\ BookTyped /\ FilesTyped /\ DrainTyped /\ RestTyped /\ HandsTyped /\ SeenTyped /\ TypeOK
    BY TypeParts DEF IInv
  <1>3. aside \in Seq(Event) /\ aside # Nothing
    BY <1>1, <1>2 DEF DrainTyped, FilesTyped
  <1>4. ~half
    BY <1>1 DEF IInv, Pass
  <1>5. CASE /\ app' = "lines" /\ read' = Len(aside) /\ line' = 1
             /\ UNCHANGED <<leftover, failed, todo, typeAfter>>
    <2>1. Recorded' = Recorded
      BY <1>1 DEF book, Recorded
    <2>2. Len(aside) \in Nat
      BY <1>3, LenProperties
    <2>3. BookTyped' /\ DrainTyped' /\ RestTyped' /\ SeenTyped' /\ FilesTyped' /\ HandsTyped'
      BY <1>1, <1>2, <1>3, <1>5, <2>1, <2>2
         DEF BookTyped, DrainTyped, RestTyped, SeenTyped, FilesTyped, HandsTyped, Fits, book, seen,
             files, prompt
    <2>4. Pass'
      BY <1>1, <1>4, <1>5, <2>2 DEF IInv, Pass, ToType, Applied, Typed, TypedOnce, book, files, seen
    <2>5. Log'
      BY <1>1, <1>2, QuietLog DEF IInv, seen
    <2> QED BY <2>3, <2>4, <2>5, TypedNext DEF IInv
  <1>6. CASE Return
    <2>1. Recorded' = Recorded
      BY <1>1 DEF book, Recorded
    <2>2. Pass' /\ todo' \subseteq Recorded /\ app' \in {"idle", "typing"}
      BY <1>1, <1>4, <1>6, ReturnPass DEF seen
    <2>3. /\ leftover' = FALSE /\ read' = 0 /\ line' = 0 /\ failed' = FALSE /\ typeAfter' = FALSE
      BY <1>6 DEF Return, Forget
    <2>4. BookTyped' /\ DrainTyped' /\ RestTyped' /\ SeenTyped' /\ FilesTyped' /\ HandsTyped'
      BY <1>1, <1>2, <2>1, <2>2, <2>3
         DEF BookTyped, DrainTyped, RestTyped, SeenTyped, FilesTyped, HandsTyped, Fits, book, seen,
             files, prompt
    <2>5. Log'
      BY <1>1, <1>2, QuietLog DEF IInv, seen
    <2> QED BY <2>2, <2>4, <2>5, TypedNext DEF IInv
  <1> QED BY <1>5, <1>6 DEF Reads

\* What the store records of an event it takes is well typed, and what was known
\* stays known.
LEMMA RecordTyped ==
  ASSUME BookTyped, NEW e \in Event, Record(e), Takes(e.id)
  PROVE  /\ status' \in {"active", "completed"} /\ ledger' \subseteq Kept
         /\ delivered' \subseteq Recorded' /\ consumed' \subseteq Recorded'
         /\ Recorded \subseteq Recorded' /\ consumed \subseteq consumed'
         /\ e.id.kind # "acknowledged" => e.id \in Recorded'
         /\ \A id : Known(id) => Known(id)'
         /\ Known(e.id)'
  <1>0. /\ e.id \in Message \cup Answer \cup Receipt /\ e.at \in Nat
        /\ e = [id |-> e.id, at |-> e.at]
    BY DEF Event
  <1>1. e.id.kind # "acknowledged" => e \in Kept
    BY <1>0 DEF Kept, Receipt
  <1>2. Consumes(e.id) \subseteq Recorded
    <2>1. CASE e.id.kind = "response"
      BY <2>1 DEF Takes, Consumes, OfKind
    <2>2. CASE e.id.kind = "acknowledged"
      BY <2>2 DEF Takes, Consumes, OfKind
    <2>3. CASE e.id.kind \notin {"response", "acknowledged"}
      BY <2>3 DEF Consumes, OfKind
    <2> QED BY <2>1, <2>2, <2>3
  <1>3. /\ ledger' = IF e.id.kind = "acknowledged" THEN ledger ELSE ledger \cup {e}
        /\ consumed' = consumed \cup Consumes(e.id) /\ delivered' = delivered
        /\ status' = IF e.id.kind = "completed" THEN "completed" ELSE status
    BY DEF Record
  <1>4. /\ Recorded \subseteq Recorded'
        /\ e.id.kind # "acknowledged" => e.id \in Recorded'
    BY <1>3 DEF Recorded
  <1>5. Known(e.id)'
    <2>1. CASE e.id.kind = "acknowledged"
      <3>1. e.id.of \in Recorded /\ e.id.of \in consumed'
        BY <1>3, <2>1 DEF Takes, Consumes
      <3> QED BY <1>4, <2>1, <3>1 DEF Known
    <2>2. CASE e.id.kind # "acknowledged"
      BY <1>4, <2>2 DEF Known
    <2> QED BY <2>1, <2>2
  <1>6. \A id : Known(id) => Known(id)'
    BY <1>3, <1>4 DEF Known
  <1> QED BY <1>1, <1>2, <1>3, <1>4, <1>5, <1>6 DEF BookTyped

\* A line that is applied, or not saved: every line before the next was known,
\* taken or rejected, unless one failed.
LEMMA ProcessesKeeps ==
  ASSUME IInv, Processes
  PROVE  IInv'
  <1> PICK e : e = aside[line]
    OBVIOUS
  <1> DEFINE taken == enabled /\ (Known(e.id) \/ Takes(e.id))
  <1>1. /\ app = "lines" /\ todo = {} /\ line <= read /\ line' = line + 1
        /\ UNCHANGED <<app, leftover, read, half, typeAfter, queue, aside, wake, free, since, shown,
                       heard, sent, promised, turns, crashes, toggles, back, old, enabled, command,
                       made>>
    BY DEF Processes, files, prompt
  <1>2. /\ BookTyped /\ FilesTyped /\ DrainTyped /\ RestTyped /\ HandsTyped /\ SeenTyped /\ TypeOK
    BY TypeParts DEF IInv
  <1>3. aside \in Seq(Event) /\ aside # Nothing
    BY <1>1, <1>2 DEF DrainTyped, FilesTyped
  <1>4. ~half /\ read <= Len(aside) /\ line \in 1..(read + 1) /\ read \in Nat /\ Len(aside) \in Nat
    BY <1>1, <1>2, <1>3, LenProperties DEF IInv, Pass, Applied, DrainTyped
  <1>5. e \in Event /\ e \in Flying /\ e.id \in Message \cup Answer \cup Receipt
    <2>1. line \in 1..Len(aside)
      BY <1>1, <1>4
    <2>2. e \in Event
      BY <1>3, <2>1, ElementOfSeq
    <2>3. e \in InFile(aside)
      BY <1>3, <2>1, LenProperties DEF InFile
    <2> QED BY <2>2, <2>3 DEF Flying, Event
  <1>6. Sound(e) /\ Flying' = Flying
    BY <1>1, <1>5 DEF IInv, Log, Flying, InHand
  \* What is left to show of each outcome.
  <1>7. ASSUME Log', BookTyped', refused' \subseteq refused \cup {e.id}, refused \subseteq refused',
               \A id : Known(id) => Known(id)', consumed \subseteq consumed', failed' \in BOOLEAN,
               ~failed' => ~failed /\ (Known(e.id)' \/ e.id \in refused')
        PROVE  IInv'
    <2>1. TypeOK'
      <3>1. FilesTyped' /\ DrainTyped' /\ RestTyped' /\ HandsTyped' /\ SeenTyped'
        BY <1>1, <1>2, <1>4, <1>5, <1>7
           DEF FilesTyped, DrainTyped, RestTyped, HandsTyped, Fits, SeenTyped
      <3> QED BY <1>7, <3>1, TypedNext
    <2>2. Applied'
      <3>1. read' <= Len(aside') /\ line' \in 1..(read' + 1)
        BY <1>1, <1>4
      <3>2. ASSUME ~failed', NEW k \in 1..(line' - 1), NEW id, id = aside[k].id
            PROVE  Known(id)' \/ id \in refused'
        <4>1. CASE k = line
          BY <1>7, <3>2, <4>1
        <4>2. CASE k # line
          <5>1. k \in 1..(line - 1)
            BY <1>1, <1>4, <4>2
          <5>2. Known(id) \/ id \in refused
            BY <1>1, <1>7, <3>2, <5>1 DEF IInv, Pass, Applied
          <5> QED BY <1>7, <5>2
        <4> QED BY <4>1, <4>2
      <3>3. \A k \in 1..(line' - 1) : aside'[k] = aside[k]
        BY <1>1
      <3>4. ASSUME ~failed', NEW k \in 1..(line' - 1)
            PROVE  (Known(aside[k].id) \/ aside[k].id \in refused)'
        <4> PICK id : id = aside[k].id
          OBVIOUS
        <4>1. Known(id)' \/ id \in refused'
          BY <3>2, <3>4
        <4>2. aside'[k].id = id
          BY <1>1
        <4> QED BY <4>1, <4>2 DEF Known
      <3> QED BY <3>1, <3>4 DEF Applied
    <2>3. Pass'
      BY <1>1, <1>4, <1>7, <2>2 DEF IInv, Pass, ToType, Typed, TypedOnce
    <2> QED BY <1>7, <2>1, <2>3 DEF IInv
  <1>8. ASSUME UNCHANGED book
        PROVE  /\ Log' /\ Recorded' = Recorded
               /\ \A id : Known(id) => Known(id)'
    BY <1>1, <1>2, <1>8, QuietLog DEF IInv, files, Recorded, Known, book
  <1>9. CASE ~taken /\ refused' = refused \cup {e.id} /\ Failure(FALSE) /\ UNCHANGED <<book, todo>>
    <2>1. BookTyped'
      BY <1>1, <1>2, <1>8, <1>9 DEF BookTyped, book
    <2> QED BY <1>2, <1>7, <1>8, <1>9, <2>1 DEF book, Failure, DrainTyped
  <1>10. CASE /\ taken /\ Known(e.id) /\ todo' = ({e.id} \cap Recorded) \ delivered
              /\ Failure(FALSE) /\ UNCHANGED <<book, refused>>
    <2>1. BookTyped'
      BY <1>1, <1>2, <1>8, <1>10 DEF BookTyped, book
    <2> QED BY <1>2, <1>7, <1>8, <1>10, <2>1 DEF book, Failure, DrainTyped
  <1>11. CASE /\ taken /\ ~Known(e.id) /\ Record(e) /\ todo' = {e.id} \cap Recorded'
              /\ Failure(FALSE) /\ UNCHANGED refused
    <2>1. Takes(e.id) /\ e.id \notin Recorded
      BY <1>11 DEF Known
    <2>2. /\ status' \in {"active", "completed"} /\ ledger' \subseteq Kept
          /\ delivered' \subseteq Recorded' /\ consumed' \subseteq Recorded'
          /\ Recorded \subseteq Recorded' /\ consumed \subseteq consumed'
          /\ \A id : Known(id) => Known(id)'
          /\ Known(e.id)'
      BY <1>2, <1>5, <1>11, <2>1, RecordTyped
    <2>3. BookTyped'
      BY <1>1, <1>2, <1>11, <2>2 DEF BookTyped
    <2>4. Sound(e)'
      BY <1>1, <1>6, <2>2 DEF Sound, Earlier
    <2>5. Log'
      <3>1. made' \in Nat /\ made <= made' /\ made' <= MaxMade
        BY <1>1, <1>2 DEF RestTyped, IInv, Log
      <3> QED BY <1>1, <1>2, <1>5, <1>6, <1>11, <2>1, <2>4, <3>1, LogRecorded DEF IInv
    <2> QED BY <1>2, <1>7, <1>11, <2>2, <2>3, <2>5 DEF Failure, DrainTyped
  <1>12. CASE taken /\ ~Known(e.id) /\ Failure(TRUE) /\ UNCHANGED <<book, todo, refused>>
    <2>1. BookTyped'
      BY <1>1, <1>2, <1>8, <1>12 DEF BookTyped, book
    <2> QED BY <1>2, <1>7, <1>8, <1>12, <2>1 DEF book, Failure
  <1> QED BY <1>9, <1>10, <1>11, <1>12 DEF Processes

\* An event shows in Activity, and is marked, or left for a later drain.
LEMMA ShowsKeeps ==
  ASSUME IInv, Shows \/ Marks
  PROVE  IInv'
  <1>1. /\ app \in {"lines", "pending"} /\ todo' \subseteq todo /\ (half' => todo' # {})
        /\ half' \in BOOLEAN
        /\ shown' \in {shown, shown \cup Oldest(todo)}
        /\ delivered' \in {delivered, delivered \cup Oldest(todo)}
        /\ wake' \in {wake, (wake \/ \E id \in Oldest(todo) : id.kind = "instruction")}
        /\ UNCHANGED <<status, ledger, consumed, app, leftover, read, line, failed, typeAfter, queue,
                       aside, free, since, heard, sent, refused, promised, back, old, enabled,
                       command, made>>
    BY DEF Shows, Marks, Records, Wakes, files, prompt, seen, book, bounds, Oldest
  <1>2. /\ BookTyped /\ FilesTyped /\ DrainTyped /\ RestTyped /\ HandsTyped /\ SeenTyped /\ TypeOK
    BY TypeParts DEF IInv
  <1>3. Oldest(todo) \subseteq Recorded /\ Oldest(todo) \subseteq Message \cup Answer \cup Receipt
    BY <1>2, RecordedTyped DEF Oldest, BookTyped
  <1>4. TypeOK'
    <2>1. Recorded' = Recorded
      BY <1>1 DEF Recorded
    <2>2. wake' \in BOOLEAN
      BY <1>1, <1>2 DEF RestTyped
    <2>3. BookTyped' /\ DrainTyped' /\ SeenTyped' /\ FilesTyped' /\ HandsTyped'
      BY <1>1, <1>2, <1>3, <2>1
         DEF BookTyped, DrainTyped, SeenTyped, FilesTyped, HandsTyped, Fits
    <2>4. RestTyped'
      BY <1>1, <1>2, <2>2 DEF RestTyped
    <2> QED BY <2>3, <2>4, TypedNext
  <1>5. Log'
    <2>1. Flying' \subseteq Flying /\ back' \in Nat /\ back <= back'
      BY <1>1 DEF Flying, InHand, IInv, Log
    <2> QED BY <1>1, <1>2, <2>1, LogStays DEF IInv
  <1>6. Pass'
    <2>1. \A id : Known(id)' = Known(id)
      BY <1>1 DEF Known, Recorded
    <2> QED BY <1>1, <2>1 DEF IInv, Pass, ToType, Applied, Typed, TypedOnce
  <1> QED BY <1>4, <1>5, <1>6 DEF IInv

\* The file goes once its lines are applied, or stays for a retry; the drain ends.
LEMMA RemovesKeeps ==
  ASSUME IInv, Removes \/ DrainEnds
  PROVE  IInv'
  <1>1. /\ todo = {}
        /\ UNCHANGED <<book, half, queue, wake, free, since, seen, back, old, enabled, made>>
    BY DEF Removes, DrainEnds, prompt, bounds, files, Return
  <1>2. /\ BookTyped /\ FilesTyped /\ DrainTyped /\ RestTyped /\ HandsTyped /\ SeenTyped /\ TypeOK
    BY TypeParts DEF IInv
  <1>3. ~half /\ Recorded' = Recorded
    BY <1>1 DEF IInv, Pass, Recorded, book
  <1>4. CASE /\ aside' = Nothing /\ app' = "removed" /\ read' = 0 /\ line' = 0
             /\ command' = [c \in Command |->
                   IF command[c].file = "aside" THEN [command[c] EXCEPT !.file = "gone"]
                   ELSE command[c]]
             /\ UNCHANGED <<todo, typeAfter, leftover, failed>>
    <2>1. HandsTyped'
      BY <1>1, <1>2, <1>4 DEF HandsTyped, Fits, Hand
    <2>2. BookTyped' /\ DrainTyped' /\ RestTyped' /\ SeenTyped' /\ FilesTyped'
      BY <1>1, <1>2, <1>3, <1>4 DEF BookTyped, DrainTyped, RestTyped, SeenTyped, FilesTyped, book, seen
    <2>3. Flying' \subseteq Flying
      <3>1. \A c \in Command : command'[c].pc = command[c].pc /\ command'[c].event = command[c].event
        BY <1>2, <1>4 DEF HandsTyped, Hand
      <3>2. InHand' = InHand
        BY <3>1 DEF InHand
      <3> QED BY <1>1, <1>4, <3>2 DEF Flying, InFile
    <2>4. Log'
      BY <1>1, <1>2, <2>3, LogStays DEF IInv, Log, book, seen
    <2>5. Pass'
      BY <1>1, <1>3, <1>4, PassElsewhere DEF IInv, book, seen
    <2> QED BY <2>1, <2>2, <2>4, <2>5, TypedNext DEF IInv
  <1>5. CASE Return /\ UNCHANGED <<files, command>>
    <2>1. Pass' /\ todo' \subseteq Recorded /\ app' \in {"idle", "typing"}
      BY <1>1, <1>3, <1>5, ReturnPass DEF seen
    <2>2. /\ leftover' = FALSE /\ read' = 0 /\ line' = 0 /\ failed' = FALSE /\ typeAfter' = FALSE
      BY <1>5 DEF Return, Forget
    <2>3. BookTyped' /\ DrainTyped' /\ RestTyped' /\ SeenTyped' /\ FilesTyped' /\ HandsTyped'
      BY <1>1, <1>2, <1>3, <1>5, <2>1, <2>2
         DEF BookTyped, DrainTyped, RestTyped, SeenTyped, FilesTyped, HandsTyped, Fits, book, seen,
             files
    <2>4. Log'
      BY <1>1, <1>2, <1>5, QuietLog DEF IInv, seen
    <2> QED BY <2>1, <2>3, <2>4, TypedNext DEF IInv
  <1> QED BY <1>4, <1>5 DEF Removes, DrainEnds

\* An instruction is marked typed, then typed, or left for later: each once.
LEMMA TypesKeep ==
  ASSUME IInv, MarksTyped \/ LeavesForLater \/ Sends \/ TypingEnds
  PROVE  IInv'
  <1>0. BookTyped /\ DrainTyped /\ RestTyped
    BY TypeParts DEF IInv
  <1>1. /\ app = "typing" /\ app' \in {"typing", "idle"} /\ half' \in BOOLEAN
        /\ todo' \in {todo, todo \ Oldest(todo)}
        /\ status' \in {status, "active"} /\ consumed' \in {consumed, consumed \cup Oldest(todo)}
        /\ sent' = sent \/ \E id \in Oldest(todo) : sent' = Append(sent, id)
        /\ free' \in {free, FALSE}
        /\ UNCHANGED <<ledger, delivered, leftover, read, line, failed, typeAfter, queue, aside, wake,
                       since, shown, heard, refused, promised, back, old, enabled, command, made>>
    <2>1. CASE MarksTyped
      BY <1>0, <2>1 DEF MarksTyped, NotMarked, files, prompt, seen, DrainTyped
    <2>2. CASE LeavesForLater
      BY <1>0, <2>2 DEF LeavesForLater, files, prompt, seen, book, bounds, DrainTyped
    <2>3. CASE Sends
      BY <1>0, <2>3 DEF Sends, files, book, bounds
    <2>4. CASE TypingEnds
      BY <1>0, <2>4 DEF TypingEnds, files, prompt, book, bounds, DrainTyped
    <2> QED BY <2>1, <2>2, <2>3, <2>4
  <1>2. /\ BookTyped /\ FilesTyped /\ DrainTyped /\ RestTyped /\ HandsTyped /\ SeenTyped /\ TypeOK
    BY TypeParts DEF IInv
  <1>3. /\ todo \subseteq OfKind("instruction") \ old /\ todo \cap Typed = {}
        /\ todo \cap consumed = IF half THEN Oldest(todo) ELSE {}
        /\ Typed \subseteq consumed
    BY <1>1 DEF IInv, Pass, ToType
  <1>4. Oldest(todo) \subseteq todo /\ Oldest(todo) \subseteq OfKind("instruction")
    BY <1>3 DEF Oldest
  <1>5. OfKind("instruction") \subseteq Recorded /\ OfKind("instruction") \subseteq Message
    BY <1>2, RecordedTyped, Kinds DEF OfKind
  <1>6. TypeOK'
    <2>1. Recorded' = Recorded
      BY <1>1 DEF Recorded
    <2>2. BookTyped'
      BY <1>1, <1>2, <1>4, <1>5, <2>1 DEF BookTyped
    <2>3. DrainTyped'
      BY <1>1, <1>2 DEF DrainTyped
    <2>4. RestTyped'
      BY <1>1, <1>2 DEF RestTyped
    <2>5. FilesTyped' /\ HandsTyped'
      BY <1>1, <1>2 DEF FilesTyped, HandsTyped, Fits
    <2>6. SeenTyped'
      <3>1. sent' \in Seq(Message)
        <4>1. sent \in Seq(Message)
          BY <1>2 DEF SeenTyped
        <4>2. CASE sent' = sent
          BY <4>1, <4>2
        <4>3. ASSUME NEW id \in Oldest(todo), sent' = Append(sent, id)
              PROVE  sent' \in Seq(Message)
          <5>1. id \in Message
            BY <1>4, <1>5, <4>3
          <5> QED BY <4>1, <4>3, <5>1
        <4> QED BY <1>1, <4>2, <4>3
      <3> QED BY <1>1, <1>2, <3>1 DEF SeenTyped
    <2> QED BY <2>2, <2>3, <2>4, <2>5, <2>6, TypedNext
  <1>7. Log'
    <2>1. Flying' \subseteq Flying /\ back' \in Nat /\ back <= back'
      BY <1>1 DEF Flying, InHand, IInv, Log
    <2> QED BY <1>1, <1>2, <1>4, <2>1, LogStays DEF IInv
  <1>8. /\ OfKind("instruction")' = OfKind("instruction")
        /\ \A ids : Oldest(ids)' = Oldest(ids)
    BY <1>1 DEF OfKind, Recorded, Oldest, Time
  <1>9. Applied'
    BY <1>1 DEF Applied
  <1>10. CASE MarksTyped
    <2>1. ~half /\ todo # {} /\ app' = app /\ sent' = sent
      BY <1>10 DEF MarksTyped, seen
    <2>2. \/ consumed' = consumed \cup Oldest(todo) /\ half' = TRUE /\ todo' = todo
          \/ consumed' = consumed /\ half' = half /\ todo' \subseteq todo
      BY <1>10 DEF MarksTyped, NotMarked
    <2>3. Typed' = Typed /\ TypedOnce'
      BY <2>1 DEF Typed, TypedOnce, IInv, Pass
    <2>4. ToType'
      <3>1. CASE consumed' = consumed \cup Oldest(todo) /\ half' = TRUE /\ todo' = todo
        <4>1. todo' \cap consumed' = Oldest(todo)' /\ Oldest(todo') = Oldest(todo)
          BY <1>1, <1>3, <1>4, <1>8, <2>1, <3>1 DEF Oldest, Time
        <4> QED BY <1>1, <1>3, <1>8, <2>3, <3>1, <4>1 DEF ToType
      <3>2. CASE consumed' = consumed /\ half' = half /\ todo' \subseteq todo
        BY <1>1, <1>3, <1>8, <2>1, <2>3, <3>2 DEF ToType
      <3> QED BY <2>2, <3>1, <3>2
    <2> QED BY <1>1, <1>3, <1>6, <1>7, <1>9, <2>1, <2>2, <2>3, <2>4 DEF IInv, Pass
  <1>11. CASE LeavesForLater \/ TypingEnds
    <2>1. ~half /\ half' = half /\ todo' \subseteq todo /\ sent' = sent /\ consumed' = consumed
      BY <1>11 DEF LeavesForLater, TypingEnds, IInv, Pass, seen, book
    <2>2. Typed' = Typed /\ TypedOnce'
      BY <2>1 DEF Typed, TypedOnce, IInv, Pass
    <2>3. ToType'
      BY <1>1, <1>3, <1>8, <2>1, <2>2 DEF ToType
    <2> QED BY <1>3, <1>6, <1>7, <1>9, <2>1, <2>2, <2>3 DEF IInv, Pass
  <1>12. CASE Sends
    <2>1. /\ half /\ half' = FALSE /\ todo' = todo \ Oldest(todo) /\ consumed' = consumed
          /\ app' = app
      BY <1>12 DEF Sends, book
    <2>2. PICK id \in Oldest(todo) : sent' = Append(sent, id)
      BY <1>12 DEF Sends
    <2>3. /\ sent \in Seq(Message) /\ id \in Message /\ id \in consumed /\ id \notin Typed
      BY <1>2, <1>3, <1>4, <1>5, <2>1, <2>2 DEF SeenTyped
    <2>4. /\ Len(sent) \in Nat /\ Len(sent') = Len(sent) + 1 /\ DOMAIN sent = 1..Len(sent)
          /\ DOMAIN sent' = 1..(Len(sent) + 1)
          /\ \A k \in 1..Len(sent) : sent'[k] = sent[k]
          /\ sent'[Len(sent) + 1] = id
      BY <2>2, <2>3
    <2>5. Typed' = Typed \cup {id}
      <3>1. \A k \in DOMAIN sent' : sent'[k] \in Typed \cup {id}
        BY <2>4 DEF Typed
      <3>2. \A k \in DOMAIN sent : k \in DOMAIN sent' /\ sent'[k] = sent[k]
        BY <2>4
      <3>3. Len(sent) + 1 \in DOMAIN sent'
        BY <2>4
      <3> QED BY <2>4, <3>1, <3>2, <3>3 DEF Typed
    <2>6. TypedOnce'
      <3>1. TypedOnce /\ \A k \in 1..Len(sent) : sent[k] # id
        BY <2>3, <2>4 DEF IInv, Pass, Typed
      <3> SUFFICES ASSUME NEW j \in DOMAIN sent', NEW k \in DOMAIN sent', sent'[j] = sent'[k]
                   PROVE  j = k
        BY DEF TypedOnce
      <3>2. CASE j = Len(sent) + 1 \/ k = Len(sent) + 1
        BY <2>4, <3>1, <3>2
      <3>3. CASE j \in 1..Len(sent) /\ k \in 1..Len(sent)
        BY <2>4, <3>1, <3>3 DEF TypedOnce
      <3> QED BY <2>4, <3>2, <3>3
    <2>7. ToType'
      BY <1>1, <1>3, <1>8, <2>1, <2>2, <2>5 DEF ToType
    <2> QED BY <1>3, <1>6, <1>7, <1>9, <2>1, <2>3, <2>5, <2>6, <2>7 DEF IInv, Pass
  <1> QED BY <1>10, <1>11, <1>12

\* The user's answer from Activity.
LEMMA RespondKeeps ==
  ASSUME IInv, Respond
  PROVE  IInv'
  <1>1. PICK q \in shown :
          LET e == [id |-> Id("response", q, made + 1), at |-> made + 1]
          IN  /\ q.kind = "question" /\ Takes(e.id) /\ Record(e)
              /\ app' = "pending" /\ todo' = {e.id}
    BY DEF Respond
  <1> PICK e : e = [id |-> Id("response", q, made + 1), at |-> made + 1]
    OBVIOUS
  <1>2. /\ app = "idle" /\ made < MaxMade /\ made' = made + 1 /\ Takes(e.id) /\ Record(e)
        /\ app' = "pending" /\ todo' = {e.id}
        /\ UNCHANGED <<leftover, read, line, failed, half, typeAfter, files, prompt, seen, bounds, old,
                   enabled, command>>
    BY <1>1 DEF Respond
  <1>3. /\ BookTyped /\ FilesTyped /\ DrainTyped /\ RestTyped /\ HandsTyped /\ SeenTyped /\ TypeOK
        /\ made \in Nat /\ MaxMade \in Nat
    BY TypeParts, BoundsAssumption DEF IInv, RestTyped
  <1>4. e.id.kind = "response" /\ e.id.of = q /\ e.at = made' /\ e.id = Id("response", q, made + 1)
    BY <1>2 DEF Id
  <1>5. q \in OfKind("question") /\ e.id \notin Recorded
    BY <1>2, <1>4 DEF Takes, OfKind
  <1>6. e \in Event
    <2>1. q \in Message
      BY <1>3, <1>5, RecordedTyped, Kinds DEF OfKind
    <2>2. e.id \in Answer
      BY <1>3, <1>4, <2>1 DEF Id, Answer
    <2> QED BY <1>3, <2>2 DEF Event
  <1>7. /\ status' \in {"active", "completed"} /\ ledger' \subseteq Kept
        /\ delivered' \subseteq Recorded' /\ consumed' \subseteq Recorded'
        /\ Recorded \subseteq Recorded' /\ consumed \subseteq consumed'
        /\ e.id \in Recorded'
    BY <1>2, <1>3, <1>4, <1>6, RecordTyped
  <1>8. ~half
    BY <1>2 DEF IInv, Pass
  <1>9. TypeOK'
    <2>1. BookTyped' /\ FilesTyped' /\ DrainTyped' /\ RestTyped' /\ HandsTyped' /\ SeenTyped'
      BY <1>2, <1>3, <1>7
         DEF BookTyped, FilesTyped, DrainTyped, RestTyped, HandsTyped, SeenTyped, Fits, files,
             prompt, seen
    <2> QED BY <2>1, TypedNext
  <1>10. Log'
    <2>1. Sound(e)'
      BY <1>2, <1>3, <1>4 DEF Sound, Texted
    <2>2. Flying' = Flying
      BY <1>2 DEF Flying, InHand, files
    <2>3. made' \in Nat /\ made <= made' /\ made' <= MaxMade
      BY <1>2, <1>3
    <2> QED BY <1>2, <1>3, <1>5, <1>6, <2>1, <2>2, <2>3, LogRecorded DEF IInv, bounds, seen
  <1>11. Pass'
    BY <1>2, <1>7, <1>8 DEF IInv, Pass, ToType, Applied, Typed, TypedOnce, seen
  <1> QED BY <1>9, <1>10, <1>11 DEF IInv

\* The setting, a crash, the child's prompt and time.
LEMMA RestKeeps ==
  ASSUME IInv, Toggles \/ Crashes \/ TurnEnds \/ PromptTaken \/ Ages \/ ClockBack
  PROVE  IInv'
  <1>1. /\ UNCHANGED <<book, queue, aside, since, shown, heard, sent, refused, promised, command, made>>
        /\ wake' \in BOOLEAN /\ free' \in BOOLEAN /\ enabled' \in BOOLEAN
        /\ leftover' \in BOOLEAN /\ failed' \in BOOLEAN /\ half' \in BOOLEAN /\ typeAfter' \in BOOLEAN
        /\ read' \in Nat /\ line' \in Nat
        /\ todo' \subseteq Recorded
        /\ app' \in {app, "pending", "down"}
        /\ half' => half /\ app' = app /\ todo' = todo
        /\ \/ app' \notin {"typing", "lines"}
           \/ UNCHANGED <<app, todo, half, read, line, failed>> /\ (app = "typing" => UNCHANGED old)
        /\ back' \in Nat /\ back <= back' /\ (back' = 0 => old \subseteq old') /\ old' \subseteq Recorded
    <2>0. /\ DrainTyped /\ RestTyped /\ BookTyped /\ back \in Nat
          /\ app = "idle" => ~half
      BY TypeParts DEF IInv, Log, Pass
    <2>1. CASE Toggles
      BY <2>0, <2>1 DEF Toggles, files, prompt, seen, Undelivered, DrainTyped, RestTyped, BookTyped
    <2>2. CASE Crashes
      <3>1. UNCHANGED <<book, queue, aside, since, shown, heard, sent, refused, promised, command, made,
                        back, old, enabled>>
        BY <2>2 DEF Crashes, files
      <3>2. /\ app' = "down" /\ todo' = {} /\ half' = FALSE /\ typeAfter' = FALSE /\ wake' = FALSE
            /\ free' = FALSE /\ leftover' = FALSE /\ read' = 0 /\ line' = 0 /\ failed' = FALSE
        BY <2>2 DEF Crashes, Forget
      <3>3. enabled' \in BOOLEAN /\ old' \subseteq Recorded
        BY <2>0, <3>1 DEF RestTyped, BookTyped
      <3>4. read' \in Nat /\ line' \in Nat
        BY <3>2
      <3>5. back' \in Nat /\ back <= back'
        BY <2>0, <3>1
      <3> QED BY <3>1, <3>2, <3>3, <3>4, <3>5
    <2>3. CASE TurnEnds \/ PromptTaken
      <3>1. UNCHANGED <<book, drain, files, since, seen, back, old, enabled, command, made>>
        BY <2>3 DEF TurnEnds, PromptTaken, bounds
      <3>2. wake' \in BOOLEAN /\ free' \in BOOLEAN
        BY <2>0, <2>3 DEF TurnEnds, PromptTaken, RestTyped
      <3> QED BY <2>0, <3>1, <3>2 DEF drain, files, seen, DrainTyped, RestTyped, BookTyped
    <2>4. CASE Ages
      BY <2>0, <2>4 DEF Ages, drain, files, prompt, seen, bounds, DrainTyped, RestTyped, BookTyped,
                        OfKind, Oldest, Untyped
    <2>5. CASE ClockBack
      BY <2>0, <2>5 DEF ClockBack, drain, files, prompt, seen, DrainTyped, RestTyped, BookTyped
    <2> QED BY <2>1, <2>2, <2>3, <2>4, <2>5
  <1>2. /\ BookTyped /\ FilesTyped /\ DrainTyped /\ RestTyped /\ HandsTyped /\ SeenTyped /\ TypeOK
    BY TypeParts DEF IInv
  <1>3. TypeOK'
    <2>1. Recorded' = Recorded
      BY <1>1 DEF book, Recorded
    <2>2. app' \in {"moved", "lines"} => aside' # Nothing
      BY <1>1, <1>2 DEF DrainTyped
    <2>3. app' \in {"down", "idle", "moved", "lines", "removed", "pending", "typing"}
      BY <1>1, <1>2 DEF DrainTyped
    <2>4. BookTyped' /\ DrainTyped' /\ RestTyped'
      BY <1>1, <1>2, <2>1, <2>2, <2>3 DEF BookTyped, DrainTyped, RestTyped, book
    <2>5. FilesTyped' /\ SeenTyped' /\ HandsTyped'
      BY <1>1, <1>2 DEF FilesTyped, SeenTyped, HandsTyped, Fits
    <2> QED BY <2>4, <2>5, TypedNext
  <1>4. Log'
    <2>1. Flying' \subseteq Flying
      BY <1>1 DEF Flying, InHand
    <2> QED BY <1>1, <1>2, <2>1, LogStays DEF IInv, book
  <1>5. Pass'
    <2>1. /\ OfKind("instruction")' = OfKind("instruction") /\ Typed' = Typed /\ TypedOnce'
          /\ consumed' = consumed /\ Oldest(todo)' = Oldest(todo')
          /\ \A id : Known(id)' = Known(id)
      BY <1>1 DEF OfKind, Recorded, Typed, TypedOnce, Oldest, Time, Known, book, IInv, Pass
    <2>2. CASE app' \notin {"typing", "lines"}
      BY <1>1, <2>1, <2>2 DEF IInv, Pass, ToType, Applied
    <2>3. CASE UNCHANGED <<app, todo, half, read, line, failed>> /\ (app = "typing" => UNCHANGED old)
      <3>1. ToType'
        BY <2>1, <2>3 DEF IInv, Pass, ToType
      <3>2. Applied'
        BY <1>1, <2>1, <2>3 DEF IInv, Pass, Applied
      <3> QED BY <2>1, <2>3, <3>1, <3>2 DEF IInv, Pass
    <2> QED BY <1>1, <2>2, <2>3
  <1> QED BY <1>3, <1>4, <1>5 DEF IInv

-----------------------------------------------------------------------------
(* The specification keeps the invariant                                   *)

LEMMA InitInvariant == Init => IInv
  <1> SUFFICES ASSUME Init PROVE IInv
    OBVIOUS
  <1>1. Recorded = {} /\ Flying = {} /\ DOMAIN sent = {}
    BY DEF Init, Recorded, Flying, InFile, InHand, Idle
  <1>2. BookTyped /\ FilesTyped /\ DrainTyped /\ RestTyped /\ SeenTyped
    <2>1. BookTyped
      BY <1>1 DEF Init, BookTyped
    <2>2. FilesTyped /\ DrainTyped /\ RestTyped
      BY DEF Init, FilesTyped, DrainTyped, RestTyped
    <2>3. SeenTyped
      <3>1. sent = <<>> /\ shown = {} /\ heard = {} /\ refused = {} /\ promised = {}
        BY DEF Init
      <3>2. sent \in Seq(Message)
        BY <3>1
      <3> QED BY <3>1, <3>2 DEF SeenTyped
    <2> QED BY <2>1, <2>2, <2>3
  <1>3. HandsTyped
    BY DEF Init, HandsTyped, Fits, Hand, Idle
  <1>4. TypeOK
    BY <1>2, <1>3, TypeParts
  <1>5. Log
    <2>1. 0 <= MaxMade
      BY BoundsAssumption
    <2> QED BY <1>1, <2>1 DEF Init, Log, OnceRecorded, AnswersQuestions, AnsweredOnce,
                             ClosedAsksNothing, ReceiptsTrue, OfKind
  <1>6. Pass
    BY <1>1 DEF Init, Pass, ToType, Applied, Typed, TypedOnce
  <1> QED BY <1>4, <1>5, <1>6 DEF IInv

LEMMA NextInvariant == IInv /\ [Next]_vars => IInv'
  <1> SUFFICES ASSUME IInv, [Next]_vars PROVE IInv'
    OBVIOUS
  <1>1. CASE App
    <2>1. CASE DrainBegins \/ GoesOn
      BY <2>1, DrainsKeep
    <2>2. CASE TypingBegins
      BY <2>2, TypingBeginsKeeps
    <2>3. CASE Reads
      BY <2>3, ReadsKeeps
    <2>4. CASE Processes
      BY <2>4, ProcessesKeeps
    <2>5. CASE Shows \/ Marks
      BY <2>5, ShowsKeeps
    <2>6. CASE Removes \/ DrainEnds
      BY <2>6, RemovesKeeps
    <2>7. CASE MarksTyped \/ LeavesForLater \/ Sends \/ TypingEnds
      BY <2>7, TypesKeep
    <2> QED BY <1>1, <2>1, <2>2, <2>3, <2>4, <2>5, <2>6, <2>7 DEF App
  <1>2. CASE Starts
    BY <1>2, DrainsKeep
  <1>3. CASE Respond
    BY <1>3, RespondKeeps
  <1>4. CASE Toggles \/ Crashes \/ TurnEnds \/ PromptTaken \/ Ages \/ ClockBack
    BY <1>4, RestKeeps
  <1>5. ASSUME NEW c \in Child,
               Completed(c) \/ Answered(c) \/ Runs(c) \/ \E t \in Asked : Ask(c, t)
        PROVE  IInv'
    BY <1>5, BeginsKeep, RunsKeep DEF Command
  <1>6. ASSUME NEW c \in Parent,
               Reply(c) \/ Receive(c) \/ Runs(c) \/ \E t \in Told : Tell(c, t)
        PROVE  IInv'
    BY <1>6, BeginsKeep, RunsKeep DEF Command
  <1>7. CASE UNCHANGED vars
    <2>1. UNCHANGED <<book, drain, files, prompt, seen, bounds, old, enabled, command, made>>
      BY <1>7 DEF vars
    <2>2. TypeOK'
      BY <2>1 DEF IInv, TypeOK, Recorded, book, drain, files, prompt, seen
    <2>3. Log'
      BY <2>1, QuietLog DEF IInv, seen, bounds
    <2>4. Pass'
      BY <2>1 DEF IInv, Pass, ToType, Applied, Typed, TypedOnce, OfKind, Recorded, Known, Oldest,
                  Time, book, drain, files, seen
    <2> QED BY <2>2, <2>3, <2>4 DEF IInv
  <1> QED BY <1>1, <1>2, <1>3, <1>4, <1>5, <1>6, <1>7 DEF Next

\* The invariant that the rest stands on.
THEOREM Invariant == Spec => []IInv
  BY InitInvariant, NextInvariant, PTL DEF Spec

\* Every variable keeps its type: what is delivered, received, old or under way is
\* in the ledger.
THEOREM TypeCorrect == Spec => []TypeOK
  <1>1. IInv => TypeOK
    BY DEF IInv
  <1> QED BY <1>1, Invariant, PTL

\* A question has one answer, whoever gives it.
THEOREM OneAnswer == Spec => []AnsweredOnce
  <1>1. IInv => AnsweredOnce
    BY DEF IInv, Log
  <1> QED BY <1>1, Invariant, PTL

\* A completed mission leaves its parent no question to answer.
THEOREM CompletionCloses == Spec => []ClosedAsksNothing
  <1>1. IInv => ClosedAsksNothing
    BY DEF IInv, Log
  <1> QED BY <1>1, Invariant, PTL

\* What is marked as received was printed in the terminal it was for, even if the
\* command was killed.
THEOREM ReceivedWasPrinted == Spec => []ReceiptsTrue
  <1>1. IInv => ReceiptsTrue
    BY DEF IInv, Log
  <1> QED BY <1>1, Invariant, PTL

\* An instruction is typed at most once, whatever fails or dies between its mark and
\* the typing.
THEOREM NeverTypedAgain == Spec => []TypedOnce
  <1>1. IInv => TypedOnce
    BY DEF IInv, Pass
  <1> QED BY <1>1, Invariant, PTL

-----------------------------------------------------------------------------
(* What no step does                                                       *)

\* The app's steps leave each command where it is.
LEMMA HandsMoved ==
  ASSUME TypeOK, MoveAside, NEW c \in Command
  PROVE  command'[c].pc = command[c].pc
  BY DEF MoveAside, TypeOK

\* A file goes by Removes alone; only the child's ask and report, of its commands,
\* leave idle; the clock and what was typed change by one action each.
LEMMA OneActionEach ==
  ASSUME IInv, [Next]_vars
  PROVE  /\ sent' = sent \/ Sends
         /\ back' = back \/ ClockBack
         /\ aside # Nothing /\ aside' = Nothing => Removes
         /\ \A c \in Child : command[c].pc = "idle" /\ command'[c].pc # "idle" =>
                Completed(c) \/ \E t \in Asked : Ask(c, t)
  <1> DEFINE Still == \A c \in Command : command'[c].pc = command[c].pc
             Goal == /\ sent' = sent \/ Sends
                     /\ back' = back \/ ClockBack
                     /\ aside # Nothing /\ aside' = Nothing => Removes
                     /\ \A c \in Child : command[c].pc = "idle" /\ command'[c].pc # "idle" =>
                            Completed(c) \/ \E t \in Asked : Ask(c, t)
  <1>0. FilesTyped /\ HandsTyped /\ TypeOK
    BY TypeParts DEF IInv
  <1>1. ASSUME Still, sent' = sent, back' = back, aside # Nothing => aside' # Nothing
        PROVE  Goal
    BY <1>1 DEF Command
  <1>2. ASSUME Drain \/ (queue # Nothing /\ MoveAside) \/ DeliverPending
        PROVE  Still /\ (aside # Nothing => aside' # Nothing)
    BY <1>0, <1>2, HandsMoved DEF Drain, MoveAside, DeliverPending, files
  <1>3. CASE App \/ Starts
    <2>1. CASE DrainBegins \/ GoesOn \/ Starts
      <3>1. /\ Drain \/ (queue # Nothing /\ MoveAside) \/ DeliverPending
            /\ UNCHANGED <<seen, bounds>>
        BY <2>1 DEF DrainBegins, GoesOn, Starts
      <3> QED BY <1>1, <1>2, <3>1 DEF seen, bounds
    <2>2. CASE TypingBegins
      <3>1. /\ Drain \/ UNCHANGED <<files, command>>
            /\ UNCHANGED <<sent, bounds>>
        BY <2>2 DEF TypingBegins
      <3> QED BY <1>1, <1>2, <3>1 DEF bounds, files
    <2>3. CASE Reads \/ Processes \/ Shows \/ Marks \/ DrainEnds
      <3>1. UNCHANGED <<aside, command, sent, back>>
        BY <2>3 DEF Reads, Processes, Shows, Marks, DrainEnds, files, seen, bounds
      <3> QED BY <1>1, <3>1
    <2>4. CASE MarksTyped \/ LeavesForLater \/ TypingEnds
      <3>1. UNCHANGED <<aside, command, sent, back>>
        BY <2>4 DEF MarksTyped, LeavesForLater, TypingEnds, files, seen, bounds
      <3> QED BY <1>1, <3>1
    <2>5. CASE Sends
      <3>1. UNCHANGED <<aside, command, back>>
        BY <2>5 DEF Sends, files, bounds
      <3> QED BY <2>5, <3>1 DEF Command
    <2>6. CASE Removes
      <3>1. UNCHANGED <<sent, back>>
        BY <2>6 DEF Removes, seen
      <3>2. Still
        BY <1>0, <2>6 DEF Removes, HandsTyped, Hand
      <3> QED BY <2>6, <3>1, <3>2 DEF Command
    <2> QED BY <1>3, <2>1, <2>2, <2>3, <2>4, <2>5, <2>6 DEF App
  <1>4. CASE Respond \/ Toggles \/ Crashes \/ TurnEnds \/ PromptTaken \/ Ages
    <2>1. UNCHANGED <<aside, command, sent, back>>
      BY <1>4 DEF Respond, Toggles, Crashes, TurnEnds, PromptTaken, Ages, files, seen, bounds
    <2> QED BY <1>1, <2>1
  <1>5. CASE ClockBack
    <2>1. UNCHANGED <<aside, command, sent>>
      BY <1>5 DEF ClockBack, files, seen
    <2> QED BY <1>5, <2>1
  \* A command's step: another's stand.
  <1>6. ASSUME NEW d \in Command, CommandOnly,
               \A c \in Command \ {d} : command'[c] = command[c],
               aside # Nothing => aside' # Nothing,
               d \in Child /\ command[d].pc = "idle" => Completed(d) \/ \E t \in Asked : Ask(d, t)
        PROVE  Goal
    BY <1>6 DEF CommandOnly, bounds, Command
  <1>7. ASSUME NEW d \in Command, NEW id, Appends(d, id) \/ Resumes(d, id)
        PROVE  \A c \in Command \ {d} : command'[c] = command[c]
    BY <1>0, <1>7 DEF Appends, Resumes, Do, HandsTyped
  <1>8. ASSUME NEW d \in Command, Runs(d)
        PROVE  /\ \A c \in Command \ {d} : command'[c] = command[c]
               /\ aside # Nothing => aside' # Nothing
               /\ command[d].pc # "idle" /\ CommandOnly
    <2>1. CASE Writes(d)
      <3>1. command[d].event \in Event
        BY <1>0, <2>1 DEF Writes, HandsTyped, Fits, Hand
      <3>2. aside # Nothing => aside' # Nothing
        <4>1. CASE command[d].file = "aside"
          <5>1. aside \in Seq(Event) /\ aside' = Append(aside, command[d].event)
            BY <1>0, <2>1, <4>1 DEF Writes, HandsTyped, Fits, FilesTyped
          <5>2. aside' \in Seq(Event)
            BY <3>1, <5>1
          <5> QED BY <5>2, NothingAssumption
        <4>2. CASE command[d].file # "aside"
          BY <2>1, <4>2 DEF Writes
        <4> QED BY <4>1, <4>2
      <3> QED BY <1>0, <2>1, <3>2 DEF Writes, Do, HandsTyped
    <2>2. CASE Opens(d)
      BY <1>0, <2>2 DEF Opens, Do, HandsTyped
    <2>3. CASE NotConfirmed(d) \/ Ends(d)
      BY <1>0, <2>3 DEF NotConfirmed, Ends, files, HandsTyped
    <2> QED BY <1>8, <2>1, <2>2, <2>3 DEF Runs
  <1>9. ASSUME NEW d \in Child,
               Completed(d) \/ Answered(d) \/ Runs(d) \/ \E t \in Asked : Ask(d, t)
        PROVE  Goal
    <2>0. d \in Command
      BY DEF Command
    <2>1. CASE Completed(d) \/ \E t \in Asked : Ask(d, t)
      <3>1. CommandOnly /\ UNCHANGED files
            /\ \E id : Appends(d, id) \/ Resumes(d, id)
        BY <2>1 DEF Completed, Ask
      <3> QED BY <1>6, <1>7, <2>0, <2>1, <3>1 DEF files
    <2>2. CASE Answered(d)
      <3>1. CommandOnly /\ UNCHANGED files /\ command[d].pc # "idle"
            /\ \E id : Appends(d, id) \/ Resumes(d, id)
        BY <2>2 DEF Answered
      <3> QED BY <1>6, <1>7, <2>0, <3>1 DEF files
    <2>3. CASE Runs(d)
      BY <1>6, <1>8, <2>0, <2>3
    <2> QED BY <1>9, <2>1, <2>2, <2>3
  <1>10. ASSUME NEW d \in Parent,
                Reply(d) \/ Receive(d) \/ Runs(d) \/ \E t \in Told : Tell(d, t)
         PROVE  Goal
    <2>0. d \in Command /\ d \notin Child
      BY TerminalsAssumption DEF Command
    <2>1. CASE Reply(d) \/ \E t \in Told : Tell(d, t)
      <3>1. CommandOnly /\ UNCHANGED files
            /\ \E id : Appends(d, id) \/ Resumes(d, id)
        BY <2>1 DEF Reply, Tell
      <3> QED BY <1>6, <1>7, <2>0, <3>1 DEF files
    <2>2. CASE Receive(d)
      <3>1. CommandOnly /\ UNCHANGED files
            /\ (UNCHANGED command \/ \E id : Appends(d, id) \/ Resumes(d, id))
        BY <2>2 DEF Receive
      <3> QED BY <1>6, <1>7, <2>0, <3>1 DEF files
    <2>3. CASE Runs(d)
      BY <1>6, <1>8, <2>0, <2>3
    <2> QED BY <1>10, <2>1, <2>2, <2>3
  <1>11. CASE UNCHANGED vars
    BY <1>1, <1>11 DEF vars, files, seen, bounds
  <1> QED BY <1>3, <1>4, <1>5, <1>9, <1>10, <1>11 DEF Next

\* The app removes a file only once each line it read of it is in the ledger, or was
\* rejected.
THEOREM NothingSkipped == Spec => NoneSkipped
  <1>1. ASSUME IInv, [Next]_vars, aside # Nothing, aside' = Nothing, NEW k \in 1..read
        PROVE  Known(aside[k].id) \/ aside[k].id \in refused
    <2>1. app = "lines" /\ line > read /\ ~failed
      BY <1>1, OneActionEach DEF Removes, Return, files
    <2>2. line \in 1..(read + 1) /\ read \in Nat
      BY <1>1, <2>1 DEF IInv, Pass, Applied, TypeOK
    <2>3. k \in 1..(line - 1)
      BY <2>1, <2>2
    <2> QED BY <1>1, <2>1, <2>3 DEF IInv, Pass, Applied
  <1>2. IInv /\ [Next]_vars =>
          [aside # Nothing /\ aside' = Nothing =>
              \A k \in 1..read : Known(aside[k].id) \/ aside[k].id \in refused]_vars
    BY <1>1
  <1> QED BY <1>2, Invariant, PTL DEF Spec, NoneSkipped

\* Once a text was asked again as a new question, no ask goes back to an earlier one
\* and its answer, even if the clock is moved back.
THEOREM NoEarlierQuestion == Spec => NeverReopened
  <1>1. ASSUME IInv, [Next]_vars, NEW c \in Child, command[c].pc = "idle", command'[c].pc # "idle",
               NEW q \in OfKind("question"), q.of = command'[c].event.id.of
        PROVE  q.n <= command'[c].event.id.n
    <2>0. c \in Command /\ command \in [Command -> Hand] /\ TypeOK /\ Log
      BY <1>1, TypeParts DEF Command, IInv, HandsTyped
    <2>1. CASE Completed(c)
      <3>1. command'[c].event.id = Id("completed", Nothing, made + 1)
        BY <2>0, <2>1 DEF Completed, Appends, Do
      <3>2. q.of = Nothing
        BY <1>1, <3>1 DEF Id
      <3>3. PICK e \in ledger : e.id = q
        BY <1>1, <2>0, RecordedTyped DEF OfKind
      <3>4. q.of # Nothing
        BY <1>1, <2>0, <3>3 DEF Log, Sound, OfKind
      <3> QED BY <3>2, <3>4
    <2>2. ASSUME NEW t \in Asked, Ask(c, t)
          PROVE  q.n <= command'[c].event.id.n
      <3> PICK id : id = Id("question", t, Generation("question", t))
        OBVIOUS
      <3>1. Resumes(c, id)
        BY <2>2 DEF Ask
      <3>2. command'[c].event.id = id
        BY <2>0, <3>1 DEF Resumes, Appends, Do
      <3>3. id.of = t /\ \A p \in OfKind("question") : p.of = t => p.n <= id.n
        BY <2>0, GenerationIsLast DEF Texted
      <3> QED BY <1>1, <3>2, <3>3
    <2> QED BY <1>1, <2>1, <2>2, OneActionEach
  <1>2. IInv /\ [Next]_vars =>
          [\A c \in Child :
              command[c].pc = "idle" /\ command'[c].pc # "idle" =>
                  \A q \in OfKind("question") :
                      q.of = command'[c].event.id.of => q.n <= command'[c].event.id.n]_vars
    BY <1>1
  <1> QED BY <1>2, Invariant, PTL DEF Spec, NeverReopened

\* As long as the clock is not moved back, a text told again as a new message is not
\* also typed as the earlier one.
THEOREM NewestIsTyped == MaxBack = 0 => (Spec => NotTwice)
  <1> SUFFICES ASSUME MaxBack = 0 PROVE Spec => NotTwice
    OBVIOUS
  <1>1. Init => back = 0
    BY DEF Init
  <1>2. IInv /\ back = 0 /\ [Next]_vars => (back = 0)'
    BY OneActionEach DEF ClockBack
  <1>3. Spec => [](back = 0)
    BY <1>1, <1>2, Invariant, PTL DEF Spec
  <1>4. ASSUME IInv, back = 0, [Next]_vars, NEW id \in OfKind("instruction"),
               sent' = Append(sent, id), NEW later \in OfKind("instruction"), later.of = id.of
        PROVE  later.n <= id.n
    <2>0. /\ TypeOK /\ Log /\ Pass /\ sent \in Seq(Message)
          /\ OfKind("instruction") \subseteq Message
      BY <1>4, RecordedTyped, Kinds DEF IInv, TypeOK, OfKind
    <2>1. sent' # sent
      BY <1>4, <2>0
    <2>2. Sends
      BY <1>4, <2>1, OneActionEach
    <2>3. PICK sending \in Oldest(todo) : sent' = Append(sent, sending)
      BY <2>2 DEF Sends
    <2>4. app = "typing" /\ sending \in todo /\ todo \subseteq OfKind("instruction") \ old
      BY <2>0, <2>2, <2>3 DEF Sends, Pass, ToType, Oldest
    <2>5. sending = id
      <3>1. sending \in Message /\ id \in Message
        BY <1>4, <2>0, <2>4
      <3>2. /\ Append(sent, id)[Len(sent) + 1] = id
            /\ Append(sent, sending)[Len(sent) + 1] = sending
        BY <2>0, <3>1, AppendProperties
      <3> QED BY <1>4, <2>3, <3>2
    <2> SUFFICES ASSUME ~(later.n <= id.n) PROVE FALSE
      OBVIOUS
    <2>6. /\ later \in Message /\ id \in Message /\ later.kind = "instruction"
          /\ id.kind = "instruction" /\ later.n \in Nat /\ id.n \in Nat
      BY <1>4, <2>0 DEF OfKind, Message
    <2>7. id = Id("instruction", later.of, id.n) /\ id.n \in 0..(later.n - 1)
      BY <1>4, <2>6 DEF Id, Message
    <2>8. PICK e \in ledger : e.id = later
      BY <1>4, <2>0, RecordedTyped DEF OfKind
    <2>9. Earlier(later) \subseteq old
      BY <1>4, <2>0, <2>6, <2>8 DEF Log, Sound
    <2>10. id \in old
      BY <2>6, <2>7, <2>9 DEF Earlier
    <2> QED BY <2>4, <2>5, <2>10
  <1>5. IInv /\ back = 0 /\ [Next]_vars =>
          [\A id \in OfKind("instruction") :
              sent' = Append(sent, id) =>
                  \A later \in OfKind("instruction") : later.of = id.of => later.n <= id.n]_vars
    BY <1>4
  <1> QED BY <1>3, <1>5, Invariant, PTL DEF Spec, NotTwice
=============================================================================

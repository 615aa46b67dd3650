------------------------------ MODULE Keyboard ------------------------------
(***************************************************************************)
(* The keyboard at the desk: a viewer's keysyms through the terminal's     *)
(* input queue (src/terminal/mod.rs), the mapping and the keyboard         *)
(* (src/terminal/keyboard.rs), and the 24-bit words it sends into the I/O  *)
(* board's one register, QUUX's FIFO or down the serial cable of the       *)
(* netlist board (src/ioboard.rs, src/quux_input.rs,                       *)
(* src/terminal/cable.rs).                                                 *)
(*                                                                         *)
(* The keyboard sends positions and the machine does the shifting; a       *)
(* viewer sends characters with the shift already applied.  A position is  *)
(* an index into Table, a word is what it says: a key down, a key up or a  *)
(* boot.                                                                   *)
(***************************************************************************)
EXTENDS Integers, Sequences, SequencesExt, FiniteSets

CONSTANTS
    InputBacklog,    \* INPUT_BACKLOG, 256 key events in the program
    Backlog,         \* BACKLOG, 256 words in the program
    FifoWords,       \* FIFO_WORDS, 64 in the program
    WordBits,        \* the 24 bits of a word on the cable
    MaxKeys          \* bound on the key events of a behavior

ASSUME KeyboardAssumption ==
    /\ {InputBacklog, Backlog, FifoWords, WordBits} \subseteq Nat \ {0}
    /\ MaxKeys \in Nat

VARIABLES
    kScene,          \* the keysyms this behavior types, and its mapping
    kTyped,          \* key events so far
    kPressed,        \* the keysyms the viewers hold
    kInput,          \* Input::keys, each <<keysym, down>>
    kb,              \* the Keyboard
    kCable,          \* cable::OnCable: its queue and where it is in a word
    kBoard,          \* the words the board or FIFO holds, KBD READY and the boot request
    kHeld            \* the positions the software takes to be held, from what it has read

keyboardVars == <<kScene, kTyped, kPressed, kInput, kb, kCable, kBoard, kHeld>>

-----------------------------------------------------------------------------
(* The table of positions and the mapping. *)

Char(plain, up) == [kind |-> "char", plain |-> plain, up |-> up]
ShiftKey(s) == [kind |-> "shift", name |-> s]
Named(n) == [kind |-> "named", name |-> n]

\* One of each kind the table has: a letter, the parenthesis that two
\* positions give in different planes, a character alike in both planes, the
\* two positions of a shifting key, and the keys of the boot sequence.
Table == <<Char("a", "A"), ShiftKey("Shift"), ShiftKey("Shift"), Named("Rubout"),
           ShiftKey("Control"), ShiftKey("Greek"), ShiftKey("Meta"), Char("9", "("),
           Char("(", "["), Named("Return"), Char("}", "}")>>

Positions == DOMAIN Table

\* Each position a shifting key is on, in the order of the table.
Shifting ==
    [s \in {"Shift", "Control", "Greek", "Meta"} |->
        SetToSortSeq({p \in Positions : Table[p] = ShiftKey(s)}, <)]

PositionNamed(n) == CHOOSE p \in Positions : Table[p] = Named(n)
Rubout == PositionNamed("Rubout")
Return == PositionNamed("Return")

\* Every position and plane that gives a character, in the table's order.
Characters == UNION {{Table[p].plain, Table[p].up} : p \in {q \in Positions : Table[q].kind = "char"}}

CharacterPositions ==
    LET gives(c, p, shifted) ==
            /\ Table[p].kind = "char"
            /\ c = IF shifted THEN Table[p].up ELSE Table[p].plain
            /\ shifted => Table[p].plain # c
    IN  [c \in Characters |->
            SetToSortSeq({f \in Positions \X BOOLEAN : gives(c, f[1], f[2])},
                         LAMBDA a, b : a[1] < b[1] \/ (a[1] = b[1] /\ ~a[2] /\ b[2]))]

\* A key's name as a mapping file writes it: one of Named, of a shifting key
\* by its side, a character, or a position by its number.
KeyName(p, shifted) ==
    LET k == Table[p]
    IN  CASE k.kind = "named" -> <<"named", k.name>>
          [] k.kind = "shift" ->
                 <<"shift", k.name, CHOOSE i \in DOMAIN Shifting[k.name] : Shifting[k.name][i] = p>>
          [] k.kind = "char" -> <<"char", IF shifted THEN k.up ELSE k.plain>>

KeyOf(name) ==
    CASE name[1] = "named" -> <<PositionNamed(name[2]), FALSE>>
      [] name[1] = "position" -> <<name[2], name[3]>>
      [] name[1] = "shift" -> <<Shifting[name[2]][name[3]], FALSE>>
      [] name[1] = "char" -> CharacterPositions[name[2]][1]

\* The name where it reads back as the same position and plane, else the
\* position itself.
KeyWritten(p, shifted) ==
    LET back == KeyOf(KeyName(p, shifted))
    IN  IF back = <<p, shifted>> THEN KeyName(p, shifted) ELSE <<"position", p, shifted>>

Bind(f, x, v) == [y \in DOMAIN f \cup {x} |-> IF y = x THEN v ELSE f[y]]
NoMapping == [key |-> <<>>, after |-> <<>>]

\* A mapping file's lines over a mapping, each <<"key", keysym, name>> or
\* <<"prefix", keysym, keysym, name>>.
ReadInto(m, lines) ==
    FoldLeft(LAMBDA acc, l :
                IF l[1] = "key" THEN [acc EXCEPT !.key = Bind(@, l[2], KeyOf(l[3]))]
                ELSE [acc EXCEPT !.after = Bind(@, <<l[2], l[3]>>, KeyOf(l[4]))],
            m, lines)

BuiltIn == ReadInto(NoMapping,
    << <<"key", "Shift_L", <<"shift", "Shift", 1>>>>, <<"key", "Shift_R", <<"shift", "Shift", 2>>>>,
       <<"key", "Control_L", <<"shift", "Control", 1>>>>, <<"key", "Alt_L", <<"shift", "Meta", 1>>>>,
       <<"key", "BackSpace", <<"named", "Rubout">>>>, <<"key", "Return", <<"named", "Return">>>>,
       <<"prefix", "Scroll_Lock", "g", <<"shift", "Greek", 1>>>>,
       <<"prefix", "Scroll_Lock", "p", <<"named", "Rubout">>>> >>)

\* What dump writes of a mapping, read back: "an edited copy of this file
\* says the same thing with the edit in it".
Dump(m) ==
    SetToSeq({<<"key", s, KeyWritten(m.key[s][1], m.key[s][2])>> : s \in DOMAIN m.key})
      \o SetToSeq({<<"prefix", p[1], p[2], KeyWritten(m.after[p][1], m.after[p][2])>> :
                      p \in DOMAIN m.after})

PositionsOf(m, sym) ==
    IF sym \in DOMAIN m.key THEN <<m.key[sym]>>
    ELSE IF sym \in Characters THEN CharacterPositions[sym] ELSE <<>>

IsPrefixSym(m, sym) == \E pair \in DOMAIN m.after : pair[1] = sym

\* The shifting key a keysym is bound to, or 0.
Modifier(m, sym) ==
    IF sym \in DOMAIN m.key /\ Table[m.key[sym][1]].kind = "shift" THEN m.key[sym][1] ELSE 0

-----------------------------------------------------------------------------
(* The keyboard: operators from one state of it to the next. *)

Word(p, up) == [kind |-> IF up THEN "up" ELSE "down", at |-> p]
BootWord(cold) == [kind |-> "boot", at |-> IF cold THEN Rubout ELSE Return]

NewKeyboard ==
    [queue |-> <<>>, down |-> {}, prefix |-> "", latched |-> <<>>, tapped |-> <<>>,
     hold_back |-> FALSE, refused |-> 0]

Full(k) == Len(k.queue) >= Backlog

QueueDown(k, p) ==
    [k EXCEPT !.queue = Append(@, Word(p, FALSE)), !.hold_back = FALSE]

\* "If booting, don't send key-up codes."
QueueUp(k, p) ==
    IF k.hold_back THEN k ELSE [k EXCEPT !.queue = Append(@, Word(p, TRUE))]

Holding(k, s) == {p \in k.down : Table[p] = ShiftKey(s)}

\* The firmware's check-boot, with --keyboard-boot ctrl,meta: Rubout is
\* tested before Return, and bootflag holds the key-ups back.
CheckBoot(k) ==
    IF Holding(k, "Control") = {} \/ Holding(k, "Meta") = {} \/ k.down \cap {Rubout, Return} = {}
    THEN k
    ELSE [k EXCEPT !.queue = Append(@, BootWord(Rubout \in k.down)), !.hold_back = TRUE]

\* Whether position p would be down for the machine after a press of it.
Goes(k, p) == p \in k.down \/ ~Full(k)

Press(k, p) ==
    IF p \in k.down THEN k
    ELSE IF Full(k) THEN [k EXCEPT !.refused = @ + 1]
    ELSE CheckBoot(QueueDown([k EXCEPT !.down = @ \cup {p}], p))

Release_mut(k, p) ==
    IF p \notin k.down THEN k
    ELSE IF Full(k) THEN [k EXCEPT !.down = @ \ {p}]
    ELSE QueueUp([k EXCEPT !.down = @ \ {p}], p)

Release(k, p) ==
    IF p \in k.down THEN QueueUp([k EXCEPT !.down = @ \ {p}], p) ELSE k

Stroke(k, p) == QueueUp(QueueDown(k, p), p)

\* The key pressed and released at once, the shift worked around it where
\* the plane it wants is not the one held.
Tap(k, p, wants) ==
    LET shift == Shifting["Shift"][1]
        held == SelectSeq(Shifting["Shift"], LAMBDA q : q \in k.down)
        Each(op(_, _), start) == FoldLeft(op, start, held)
    IN  CASE Full(k) -> [k EXCEPT !.refused = @ + 1]
          [] wants /\ held = <<>> /\ ~Full(k) ->
                 QueueUp(Stroke(QueueDown(k, shift), p), shift)
          [] ~wants /\ held # <<>> /\ ~Full(k) ->
                 Each(QueueDown, Stroke(Each(QueueUp, k), p))
          [] OTHER -> Stroke(k, p)

\* A shifting key behind a prefix is held for the one key after it, anything
\* else is tapped.
BehindPrefix(k, p, wants) ==
    IF Table[p].kind = "shift"
    THEN [Press(k, p) EXCEPT !.latched = IF Goes(k, p) THEN Append(@, p) ELSE @]
    ELSE Tap(k, p, wants)

\* Keyboard::resolve, a branch to each of its returns.
Resolve(m, k, sym, down) ==
    LET found == PositionsOf(m, sym)
        shifted == Holding(k, "Shift") # {}
        fits == SelectSeq(found, LAMBDA f : f[2] = shifted)
        best == IF fits # <<>> THEN fits[1] ELSE found[1]
        unlatched(j) == FoldLeft(Release, [j EXCEPT !.latched = <<>>], j.latched)
    IN  CASE ~down /\ Contains(k.tapped, sym) ->
                 [k EXCEPT !.tapped = RemoveFirst(@, sym)]
          [] k.prefix # "" /\ IsPrefixSym(m, sym) ->
                 IF down THEN [k EXCEPT !.prefix = ""] ELSE k
          [] k.prefix # "" /\ ~IsPrefixSym(m, sym) /\ ~down /\ ~Contains(k.tapped, sym) -> k
          [] k.prefix # "" /\ ~IsPrefixSym(m, sym) /\ down ->
                 LET j == [k EXCEPT !.prefix = "", !.tapped = Append(@, sym)]
                     pair == <<k.prefix, sym>>
                 IN  IF pair \in DOMAIN m.after
                     THEN BehindPrefix(j, m.after[pair][1], m.after[pair][2]) ELSE j
          [] k.prefix = "" /\ IsPrefixSym(m, sym) ->
                 IF down THEN [k EXCEPT !.prefix = sym] ELSE k
          [] k.prefix = "" /\ Modifier(m, sym) # 0 ->
                 IF down THEN Press(k, Modifier(m, sym)) ELSE Release(k, Modifier(m, sym))
          [] k.prefix = "" /\ ~IsPrefixSym(m, sym) /\ found = <<>> -> k
          [] k.prefix = "" /\ found # <<>> /\ Modifier(m, sym) = 0 /\ k.latched # <<>> ->
                 IF down THEN unlatched(Tap([k EXCEPT !.tapped = Append(@, sym)], best[1], best[2]))
                 ELSE k
          [] OTHER ->
                 IF ~down THEN Release(k, best[1])
                 ELSE IF fits # <<>> THEN Press(k, best[1]) ELSE Tap(k, best[1], best[2])

-----------------------------------------------------------------------------
(* The way in: the viewers, and the terminal's input queue. *)

\* A full queue loses its oldest keystroke whole, the key-down and the key-up
\* queued for it; with key-ups alone in it a key-down arriving goes instead,
\* and a key-up displaces the oldest.
InputKey(q, item) ==
    LET downs == {i \in DOMAIN q : q[i][2]}
        first == CHOOSE i \in downs : \A j \in downs : i <= j
        ups == {i \in DOMAIN q : i > first /\ q[i] = <<q[first][1], FALSE>>}
        up == CHOOSE i \in ups : \A j \in ups : i <= j
        dropped == IF ups = {} THEN RemoveAt(q, first) ELSE RemoveAt(RemoveAt(q, up), first)
    IN  IF Len(q) < InputBacklog THEN Append(q, item)
        ELSE IF downs # {} THEN Append(dropped, item)
        ELSE IF item[2] THEN q ELSE Append(Tail(q), item)

\* A key event of a viewer, read off its socket in a poll: a key the viewers
\* do not hold goes down, and one they hold comes up.
TypeKey(sym) ==
    LET down == sym \notin kPressed
    IN  /\ kTyped < MaxKeys
        /\ kTyped' = kTyped + 1
        /\ kPressed' = IF down THEN kPressed \cup {sym} ELSE kPressed \ {sym}
        /\ kInput' = InputKey(kInput, <<sym, down>>)
        /\ UNCHANGED <<kScene, kb, kCable, kBoard, kHeld>>

\* The engine's look at the terminal: take_keys hands out the whole queue,
\* and each event goes to the keyboard.
TakeKeys ==
    /\ kInput # <<>>
    /\ kb' = FoldLeft(LAMBDA acc, e : Resolve(kScene.map, acc, e[1], e[2]), kb, kInput)
    /\ kInput' = <<>>
    /\ UNCHANGED <<kScene, kTyped, kPressed, kCable, kBoard, kHeld>>

-----------------------------------------------------------------------------
(* The way out: the board's register, QUUX's FIFO, the cable. *)

\* What the three routes hold.  The I/O board's one register takes a word
\* over the last; the FIFO drops one it has no room for.
BoardPress(b, w) ==
    LET boot == b.boot \/ w.kind = "boot"
    IN  IF kScene.route # "fifo" THEN [b EXCEPT !.words = <<w>>, !.boot = boot]
        ELSE IF Len(b.words) < FifoWords
             THEN [b EXCEPT !.words = Append(@, w), !.boot = boot]
             ELSE [b EXCEPT !.overflowed = TRUE, !.boot = boot]

TakesKey ==
    IF kScene.route = "fifo" THEN Len(kBoard.words) < FifoWords ELSE kBoard.words = <<>>

\* keyboard.deliver, one word a turn, and the engine's keyboard_boot after
\* it: the boot presses the processor's boot and is taken once.
Deliver ==
    /\ kScene.route # "cable"
    /\ kb.queue # <<>> /\ TakesKey
    /\ kBoard' = [BoardPress(kBoard, Head(kb.queue)) EXCEPT !.boot = FALSE]
    /\ kb' = [kb EXCEPT !.queue = Tail(@)]
    /\ UNCHANGED <<kScene, kTyped, kPressed, kInput, kCable, kHeld>>

\* The netlist board's cable takes the word if it has room.
DeliverCable ==
    /\ kScene.route = "cable"
    /\ kb.queue # <<>> /\ Len(kCable.queue) < Backlog
    /\ kCable' = [kCable EXCEPT !.queue = Append(@, Head(kb.queue))]
    /\ kb' = [kb EXCEPT !.queue = Tail(@)]
    /\ UNCHANGED <<kScene, kTyped, kPressed, kInput, kBoard, kHeld>>

\* cable::OnCable::apply.  Idle, with the line high, a word's request pulls
\* it low; each falling edge of KB CLK^ puts the next bit on it; after the
\* last bit an edge, or a clock that has stopped, lets it go, and by then the
\* board has the word.
CableApply(falling, stopped) ==
    LET s == kCable.bit
        idle == s = -2
    IN  /\ kScene.route = "cable"
        /\ \/ /\ idle /\ kCable.high /\ kCable.queue # <<>>
              /\ kCable' = [kCable EXCEPT !.queue = Tail(@), !.word = Head(kCable.queue),
                                          !.bit = -1, !.high = FALSE]
              /\ UNCHANGED kBoard
           \/ /\ ~idle /\ falling /\ s + 1 < WordBits
              /\ kCable' = [kCable EXCEPT !.bit = s + 1]
              /\ kBoard' = IF s + 1 = WordBits - 1 THEN BoardPress(kBoard, kCable.word) ELSE kBoard
           \/ /\ s = WordBits - 1 /\ (falling \/ stopped)
              /\ kCable' = [kCable EXCEPT !.bit = -2, !.high = TRUE]
              /\ UNCHANGED kBoard
        /\ UNCHANGED <<kScene, kTyped, kPressed, kInput, kb, kHeld>>

\* The software reads a word: the low half's read clears KBD READY, KBD_DATA
\* takes the FIFO's oldest.  What it takes to be held is what the words say;
\* a boot starts it over.
Heard(held, w) ==
    CASE w.kind = "down" -> held \cup {w.at}
      [] w.kind = "up" -> held \ {w.at}
      [] w.kind = "boot" -> {}

ReadKeyboard ==
    /\ kBoard.words # <<>>
    /\ kHeld' = Heard(kHeld, Head(kBoard.words))
    /\ kBoard' = [kBoard EXCEPT !.words = Tail(@), !.boot = FALSE]
    /\ UNCHANGED <<kScene, kTyped, kPressed, kInput, kb, kCable>>

-----------------------------------------------------------------------------

\* Typing with the shift, with the boot sequence's keys and behind a prefix,
\* by each route.
Scenes ==
    {[syms |-> s, route |-> r, map |-> BuiltIn] :
        s \in {{"Shift_L", "A", "("}, {"Shift_R", "}", "("},
               {"Control_L", "Alt_L", "BackSpace"}, {"Scroll_Lock", "g", "a"},
               {"Scroll_Lock", "Shift_L", "p"}},
        r \in {"register", "fifo"}}
    \cup {[syms |-> {"Return", "a"}, route |-> "cable", map |-> BuiltIn]}

KeyboardInit ==
    /\ kScene \in Scenes
    /\ kTyped = 0 /\ kPressed = {} /\ kInput = <<>> /\ kb = NewKeyboard
    /\ kCable = [queue |-> <<>>, word |-> Word(1, TRUE), bit |-> -2, high |-> TRUE]
    /\ kBoard = [words |-> <<>>, boot |-> FALSE, overflowed |-> FALSE]
    /\ kHeld = {}

KeyboardNext ==
    \/ \E sym \in kScene.syms : TypeKey(sym)
    \/ TakeKeys \/ Deliver \/ DeliverCable \/ ReadKeyboard
    \/ \E falling, stopped \in BOOLEAN : CableApply(falling, stopped)

-----------------------------------------------------------------------------

\* A key the software takes to be held, once it has read every word on its
\* way to it, is one the keyboard has down (src/terminal/keyboard.rs, "a
\* key-down it has read whose key-up never follows is a key held for the rest
\* of the run"): a press refused by a full queue is refused whole, a tap
\* leaves nothing down, and the boot sequence's held-back key-ups are of keys
\* the boot has already made the software forget.
HeldIsDown ==
    kScene.route # "cable" =>
        /\ FoldLeft(Heard, kHeld, kBoard.words \o kb.queue) \subseteq kb.down
        /\ ~kBoard.overflowed

\* A mapping written out is read back as itself, every key of the table with
\* either plane (src/terminal/keyboard.rs, key_written and dump).
DumpReadsBack ==
    kTyped = 0 =>
        /\ \A p \in Positions, s \in BOOLEAN : KeyOf(KeyWritten(p, s)) = <<p, s>>
        /\ ReadInto(NoMapping, Dump(kScene.map)) = kScene.map
=============================================================================

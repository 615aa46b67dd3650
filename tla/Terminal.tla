------------------------------ MODULE Terminal ------------------------------
(***************************************************************************)
(* The terminal's viewers (src/terminal/mod.rs, src/terminal/rfb.rs): the  *)
(* RFB handshake, the messages a viewer sends, and the updates it is       *)
(* answered with, a screen's changed rows at a time.                       *)
(*                                                                         *)
(* A screen is rows of one word.  The stream from a viewer is a sequence   *)
(* of items, an item being what rfb::parse tells apart; a cut text's body  *)
(* follows it as items "text".  What a viewer has been sent and has taken  *)
(* is its picture.                                                         *)
(***************************************************************************)
EXTENDS Integers, Sequences, SequencesExt, FiniteSets

CONSTANTS
    TermRows,        \* the screen's lines
    TermWords,       \* what a line may hold
    TermMaps,        \* the color maps the screen may have
    Asked,           \* the rectangles a viewer asks for: sets of rows
    MaxViewers,      \* MAX_VIEWERS, 8 in the program
    MaxStream,       \* bound on the items on their way from a viewer
    MaxSent,         \* bound on the messages a viewer sends once it runs
    MaxDrawn,        \* bound on the changes to the screen
    MaxTermCalls     \* bound on the viewers that connect

ASSUME TerminalAssumption ==
    /\ {TermRows, MaxViewers} \subseteq Nat \ {0}
    /\ {MaxStream, MaxSent, MaxDrawn, MaxTermCalls} \subseteq Nat
    /\ \A a \in Asked : a \subseteq 1..TermRows

VARIABLES
    tScreen,         \* the Frame: rows, how many, black on white, the color map
    tDrawn,          \* changes made to it
    tCallers,        \* the viewers' own side, by number: what they sent, their pictures
    tWaiting,        \* who waits at the listener
    tViewers,        \* Terminal::viewers
    tInput,          \* events handed to the keyboard and mouse
    tBell,           \* Terminal::bell
    tMisread         \* whether a viewer was dropped over a message it did not send

termVars == <<tScreen, tDrawn, tCallers, tWaiting, tViewers, tInput, tBell, tMisread>>

NoMap == -1

-----------------------------------------------------------------------------
(* Pixels.  In true color a pixel is the color itself; by index it is the    *)
(* word, and the viewer's own map says what it shows.                        *)

Rows(s) == 1..s.height

\* Frame::shows_white and Pixels::put_row: a bit lit against the reversal, or a
\* word through the color map.
Pixel(s, format, row) ==
    IF s.map = NoMap THEN <<"mono", (s.words[row] # 0) # s.bow>>
    ELSE IF format = "true" THEN <<"rgb", s.map, s.words[row]>>
    ELSE <<"index", s.words[row]>>

\* What a viewer shows for a pixel: an index goes through the map it was sent.
Seen(pixel, map) == IF pixel[1] = "index" THEN <<"rgb", map, pixel[2]>> ELSE pixel

-----------------------------------------------------------------------------
(* A viewer: Viewer::new, step, answer. *)

NewViewer(id, s) ==
    [id |-> id, late |-> FALSE, inbox |-> <<>>, outbox |-> <<[k |-> "version"]>>,
     stage |-> "version", version |-> 0, format |-> "true", told |-> 0,
     was |-> [r \in Rows(s) |-> 0], missed |-> {}, seen |-> FALSE, wasBow |-> <<>>, ofMap |-> NoMap,
     request |-> <<>>, recent |-> FALSE, skip |-> 0, dropped |-> FALSE]

Say(v, item) == [v EXCEPT !.outbox = Append(@, item)]
Next1(v) == [v EXCEPT !.inbox = Tail(@)]

\* The handshake, a stage at a time.
Handshake(v, s) ==
    LET item == Head(v.inbox)
        w    == Next1(v)
    IN  CASE v.stage = "version" ->
               [Say(w, [k |-> "offer"]) EXCEPT !.version = item.v,
                                               !.stage = IF item.v = 3 THEN "init" ELSE "security"]
          [] v.stage = "security" ->
               LET told == IF v.version = 8 THEN Say(w, [k |-> "result"]) ELSE w
               IN  [told EXCEPT !.stage = "init", !.dropped = item.v # 1]
          [] v.stage = "init" ->
               [Say(w, [k |-> "init"]) EXCEPT !.told = s.height, !.stage = "running"]

\* The map Pixels::colors holds, which a viewer by index is sent.
Colors(v, s) == IF s.map = NoMap THEN v ELSE [v EXCEPT !.ofMap = s.map]

Receives(v, s) ==
    LET item == Head(v.inbox)
        w    == Next1(v)
    IN  CASE item.k = "format" ->
               LET f == [w EXCEPT !.format = item.f, !.seen = FALSE, !.ofMap = NoMap]
               IN  IF item.f = "true" THEN f
                   ELSE Say(Colors(f, s), [k |-> "map", map |-> s.map])
          [] item.k = "encodings" -> w
          [] item.k = "cut" -> [w EXCEPT !.skip = item.len]
          [] item.k = "request" -> [w EXCEPT !.request = <<[inc |-> item.inc, rows |-> item.rows]>>]
          [] item.k \in {"key", "pointer"} -> w
          [] OTHER -> [w EXCEPT !.dropped = TRUE]

\* Viewer::step: every item that is in, a cut text's body thrown away as it
\* comes.
RECURSIVE StepViewer(_, _)
StepViewer(v, s) ==
    CASE v.dropped \/ v.inbox = <<>> -> v
      [] v.inbox # <<>> /\ ~v.dropped /\ v.stage # "running" -> StepViewer(Handshake(v, s), s)
      [] v.inbox # <<>> /\ ~v.dropped /\ v.stage = "running" /\ v.skip > 0 ->
           StepViewer([Next1(v) EXCEPT !.skip = @ - 1], s)
      [] OTHER -> StepViewer(Receives(v, s), s)

\* Events the step hands on, in order: none to a terminal that is pixels only.
Events(v) == SelectSeq(v.inbox, LAMBDA i : v.stage = "running" /\ i.k \in {"key", "pointer"})

\* Viewer::answer before the request is looked at: a map or a reversal that
\* changed makes the whole screen new.
Remapped(v, s) ==
    IF s.map = NoMap \/ v.ofMap = s.map THEN v
    ELSE IF v.format = "true" THEN [v EXCEPT !.ofMap = s.map, !.seen = FALSE]
    ELSE [Say(v, [k |-> "map", map |-> s.map]) EXCEPT !.ofMap = s.map, !.seen = FALSE]

Repainted_mut(v, s) == [Remapped(v, s) EXCEPT !.wasBow = <<s.bow>>]

Repainted(v, s) ==
    [Remapped(v, s) EXCEPT !.wasBow = <<s.bow>>, !.seen = @ /\ v.wasBow = <<s.bow>>]

Resized(v, s) ==
    IF DOMAIN v.was = Rows(s) THEN v
    ELSE [v EXCEPT !.was = [r \in Rows(s) |-> 0], !.seen = FALSE]

\* An update of the rows asked for that changed, or of all of them, once the
\* last is out; a whole one no sooner than a frame after the last.
Whole(v) == ~(v.request[1].inc /\ v.seen)

NewRows(v, s) ==
    {r \in v.request[1].rows : /\ r <= s.height /\ r <= v.told
                               /\ Whole(v) \/ s.words[r] # v.was[r]}

\* The rows the viewer's copy of the screen has and the viewer does not: the
\* copy takes every row, whichever were asked for and sent.
Changed(v, s) == IF Whole(v) THEN Rows(s) ELSE {r \in Rows(s) : s.words[r] # v.was[r]}
Missed(v, s, new) == (v.missed \union Changed(v, s)) \ new

Updated(v, s, new) ==
    IF (Whole(v) /\ v.recent) \/ (new = {} /\ v.request[1].inc) THEN v
    ELSE IF new = {} THEN [Say(v, [k |-> "update", rows |-> <<>>]) EXCEPT !.request = <<>>]
    ELSE [Say(v, [k |-> "update", rows |-> [r \in new |-> Pixel(s, v.format, r)]])
            EXCEPT !.recent = @ \/ Whole(v), !.seen = TRUE, !.request = <<>>,
                   !.missed = Missed(v, s, new),
                   !.was = [r \in Rows(s) |-> s.words[r]]]

UpdateOf(v, s) == Updated(v, s, NewRows(v, s))

AnswerRequest(v, s) == IF v.request = <<>> THEN v ELSE UpdateOf(Resized(v, s), s)

Answer(v, s) ==
    IF v.stage # "running" \/ v.outbox # <<>> THEN v ELSE AnswerRequest(Repainted(v, s), s)

-----------------------------------------------------------------------------
(* A viewer's own side: what it shows once it has taken an item. *)

Takes(c, item) ==
    CASE item.k = "map" -> [c EXCEPT !.map = item.map]
      [] item.k = "update" -> [c EXCEPT !.picture =
                                 [r \in DOMAIN @ |-> IF r \in DOMAIN item.rows THEN item.rows[r] ELSE @[r]]]
      [] OTHER -> c

\* Which items the viewer may send next; running, it owes a cut text's body
\* before anything else.
May(c) ==
    CASE c.at = "version" -> {[k |-> "version", v |-> n] : n \in {3, 7, 8}}
      [] c.at = "security" -> {[k |-> "choice", v |-> n] : n \in {1, 2}}
      [] c.at = "init" -> {[k |-> "init"]}
      [] c.at = "running" /\ c.owes > 0 -> {[k |-> "text"]}
      [] OTHER -> {[k |-> "format", f |-> f] : f \in {"true", "index"}}
                  \union {[k |-> "request", inc |-> i, rows |-> a] : i \in BOOLEAN, a \in Asked}
                  \union {[k |-> "cut", len |-> 2]}
                  \union {[k |-> x] : x \in {"encodings", "key", "pointer"}}

ViewerSends ==
    \E id \in DOMAIN tCallers :
    LET c == tCallers[id]
    IN  /\ ~c.hung /\ (c.sent < MaxSent \/ c.owes > 0) /\ Len(c.stream) < MaxStream
        /\ \E item \in May(c) :
             tCallers' = [tCallers EXCEPT ![id] =
               [c EXCEPT !.stream = Append(@, item),
                         !.at = CASE c.at = "version" -> IF item.v = 3 THEN "init" ELSE "security"
                                  [] c.at = "security" -> "init"
                                  [] OTHER -> "running",
                         !.owes = CASE item.k = "text" -> @ - 1 [] item.k = "cut" -> item.len [] OTHER -> @,
                         !.sent = IF c.at = "running" /\ item.k # "text" THEN @ + 1 ELSE @]]
    /\ UNCHANGED <<tScreen, tDrawn, tWaiting, tViewers, tInput, tBell, tMisread>>

ViewerHangsUp ==
    \E id \in DOMAIN tCallers :
      /\ ~tCallers[id].hung
      /\ tCallers' = [tCallers EXCEPT ![id].hung = TRUE]
      /\ UNCHANGED <<tScreen, tDrawn, tWaiting, tViewers, tInput, tBell, tMisread>>

NewCaller == [at |-> "version", stream |-> <<>>, owes |-> 0, sent |-> 0, hung |-> FALSE,
              map |-> NoMap, picture |-> [r \in 1..TermRows |-> <<"blank">>]]

\* One who calls later only shakes hands.
ViewerCalls ==
    /\ Len(tCallers) < MaxTermCalls
    /\ tCallers' = Append(tCallers, [NewCaller EXCEPT !.sent = MaxSent])
    /\ tWaiting' = Append(tWaiting, Len(tCallers) + 1)
    /\ UNCHANGED <<tScreen, tDrawn, tViewers, tInput, tBell, tMisread>>

-----------------------------------------------------------------------------
(* The machine's side: the screen drawn on, the bell, time. *)

Draw ==
    /\ tDrawn < MaxDrawn
    /\ \/ \E r \in Rows(tScreen), w \in TermWords :
            tScreen' = [tScreen EXCEPT !.words[r] = w]
       \/ tScreen' = [tScreen EXCEPT !.bow = ~@]
       \/ tScreen.map = NoMap /\ \E h \in 1..TermRows : tScreen' = [tScreen EXCEPT !.height = h]
       \/ tScreen.map # NoMap /\ \E m \in TermMaps : tScreen' = [tScreen EXCEPT !.map = m]
    /\ tScreen' # tScreen
    /\ tDrawn' = tDrawn + 1
    /\ UNCHANGED <<tCallers, tWaiting, tViewers, tInput, tBell, tMisread>>

Ring ==
    /\ ~tBell /\ tBell' = TRUE
    /\ tDrawn < MaxDrawn /\ tDrawn' = tDrawn + 1
    /\ UNCHANGED <<tScreen, tCallers, tWaiting, tViewers, tInput, tMisread>>

\* A frame's time passes, or the time a handshake has.
FramePasses ==
    /\ \E i \in DOMAIN tViewers :
         \/ tViewers[i].recent /\ tViewers' = [tViewers EXCEPT ![i].recent = FALSE]
         \/ ~tViewers[i].late /\ tViewers[i].stage # "running"
            /\ tViewers' = [tViewers EXCEPT ![i].late = TRUE]
    /\ UNCHANGED <<tScreen, tDrawn, tCallers, tWaiting, tInput, tBell, tMisread>>

-----------------------------------------------------------------------------
(* Terminal::poll: whoever waits is accepted while there is room and turned   *)
(* away after; then each viewer is read, stepped, answered, rung and drained. *)

Accepted ==
    LET room == MaxViewers - Len(tViewers)
        n    == IF Len(tWaiting) < room THEN Len(tWaiting) ELSE room
    IN  tViewers \o [i \in 1..n |-> NewViewer(tWaiting[i], tScreen)]

\* A viewer's turn, its client's stream read whole and taken items of its outbox
\* drained: what it is after, and whether it stays.
Rung(v) == IF tBell /\ v.stage = "running" THEN Say(v, [k |-> "bell"]) ELSE v

TurnEnds(c, open, v, events, out) ==
    [stays  |-> open /\ ~v.dropped,
     v      |-> [v EXCEPT !.outbox = SubSeq(@, out + 1, Len(@))],
     c      |-> [FoldLeft(Takes, c, SubSeq(v.outbox, 1, out)) EXCEPT !.stream = <<>>],
     events |-> IF open THEN events ELSE <<>>,
     wrong  |-> open /\ v.dropped /\ v.stage = "running"]

TurnDrains(c, open, v, events, taken) ==
    TurnEnds(c, open, v, events, IF Len(v.outbox) < taken THEN Len(v.outbox) ELSE taken)

TurnOver(c, open, full, taken) ==
    TurnDrains(c, open, Rung(Answer(StepViewer(full, tScreen), tScreen)), Events(full), taken)

Turn(v, taken) ==
    LET c == tCallers[v.id]
    IN  TurnOver(c, ~(v.stage # "running" /\ v.late) /\ ~c.hung, [v EXCEPT !.inbox = @ \o c.stream], taken)

\* The turns of a poll, by viewer, and those who stay.
Polled(turns, stay) ==
    /\ tViewers' = [i \in DOMAIN stay |-> turns[stay[i]].v]
    /\ tCallers' = [id \in DOMAIN tCallers |->
                      IF \E i \in DOMAIN turns : turns[i].v.id = id
                      THEN LET i == CHOOSE j \in DOMAIN turns : turns[j].v.id = id
                           IN  [turns[i].c EXCEPT !.hung = @ \/ ~turns[i].stays]
                      ELSE [tCallers[id] EXCEPT !.hung = TRUE]]
    /\ tMisread' = (tMisread \/ \E i \in DOMAIN turns : turns[i].wrong)
    /\ \/ tInput' = tInput
       \/ tInput' = tInput + FoldLeft(LAMBDA n, t : n + Len(t.events), 0, turns)

PollTurns(turns) ==
    Polled(turns, SelectSeq([i \in DOMAIN turns |-> i], LAMBDA i : turns[i].stays))

Turns(vs, taken) == [i \in DOMAIN vs |-> Turn(vs[i], taken[i])]

PollTerminal ==
    /\ tWaiting # <<>> \/ tViewers # <<>>
    /\ \E taken \in [1..MaxViewers -> {0, 1, 99}] : PollTurns(Turns(Accepted, taken))
    /\ tWaiting' = <<>> /\ tBell' = FALSE
    /\ UNCHANGED <<tScreen, tDrawn>>

-----------------------------------------------------------------------------
Greeting == <<[k |-> "version", v |-> 8], [k |-> "choice", v |-> 1], [k |-> "init"]>>

\* A viewer that has shaken hands and taken all it was sent.
Running(s) ==
    [StepViewer([NewViewer(1, s) EXCEPT !.inbox = Greeting], s) EXCEPT !.outbox = <<>>]

\* Either nobody has called and the screen stays as it is, or the first viewer
\* runs and the others have come and gone.
TermInit ==
    /\ tScreen \in [words : {[r \in 1..TermRows |-> 0]}, height : {TermRows}, bow : {FALSE},
                    map : {NoMap} \union TermMaps]
    /\ tWaiting = <<>>
    /\ \/ tDrawn = MaxDrawn /\ tCallers = <<>> /\ tViewers = <<>>
       \/ /\ tDrawn = 0
          /\ tCallers = [i \in 1..MaxTermCalls |->
                          [NewCaller EXCEPT !.at = "running", !.hung = i > 1]]
          /\ tViewers = <<Running(tScreen)>>
    /\ tInput = 0 /\ tBell = FALSE /\ tMisread = FALSE

TermNext ==
    \/ ViewerCalls \/ ViewerSends \/ ViewerHangsUp
    \/ Draw \/ Ring \/ FramePasses \/ PollTerminal

-----------------------------------------------------------------------------
(* Properties. *)

\* What a viewer shows for a row it was told of is the row of its copy.
ShowsRow(v, r) ==
  LET c    == tCallers[v.id]
      then == [words |-> v.was, bow |-> v.wasBow[1], map |-> v.ofMap]
  IN  Seen(c.picture[r], c.map) = Seen(Pixel(then, v.format, r), v.ofMap)
Told(v) == DOMAIN v.was \intersect 1..v.told

\* What a viewer that has taken all it was sent shows is the screen it was last
\* sent, but for the rows an update of a part passed over: no other row that
\* changed, no reversal and no color map is missed by an update that says only
\* what changed (Viewer::answer).
ShowsTheScreen ==
    \A i \in DOMAIN tViewers :
      LET v == tViewers[i]
      IN  (v.seen /\ v.outbox = <<>>) => \A r \in Told(v) \ v.missed : ShowsRow(v, r)

\* A viewer that has shown a row and asks for what changed of it is told, now
\* or when it changes: "The screen as this viewer last had it" (Viewer::was),
\* and a viewer "normally asks for the whole screen, and is entitled not to"
\* (Viewer::answer).  It fails: an update of a part takes the whole frame into
\* the copy, and a row that changed outside the part is never sent.
PartsAreTold ==
    \A i \in DOMAIN tViewers :
      LET v == tViewers[i]
      IN  (v.seen /\ v.outbox = <<>> /\ v.request # <<>> /\ v.request[1].inc) =>
            \A r \in Told(v) \intersect v.request[1].rows :
              tCallers[v.id].picture[r] # <<"blank">> => ShowsRow(v, r)

\* A viewer is never sent a second update before it has taken the first, and
\* nothing it sends within the protocol is taken for another message: a cut
\* text's body is thrown away however it is split (Viewer::answer, step).
ViewerInStep ==
    /\ ~tMisread
    /\ \A i \in DOMAIN tViewers :
         Cardinality({k \in DOMAIN tViewers[i].outbox : tViewers[i].outbox[k].k = "update"}) <= 1
=============================================================================

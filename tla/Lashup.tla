------------------------------- MODULE Lashup -------------------------------
(***************************************************************************)
(* Two machines and the debug cable between them, from src/src/lashup.rs:  *)
(* in one process with a cable each way (Lashup::step), and over a stream  *)
(* with the debuggee behind a Connector (Remote, Connector), where the     *)
(* debugger may go away at any time and another may come.                  *)
(*                                                                         *)
(* Nothing waits for simulated time here: each end may run only as far as  *)
(* the other has promised to put nothing on the cable.  A side is its      *)
(* machine, what it runs, and what it asks of the other over DBGOUT.  A    *)
(* turn whose messages do not fit in the other end's inbox waits before it *)
(* begins; the code waits inside the write.                                *)
(***************************************************************************)
EXTENDS MemoryCycle, Sequences

CONSTANTS
    Cases,             \* a debuggee, and the debuggers that come to it in turn
    InboxFrames,       \* the frames an end holds for its machine
    Alone,             \* how far the debuggee may run before the first
    Attended           \* the last instant of the debuggee's a debugger comes

ASSUME LashupAssumption == InboxFrames \in Nat /\ InboxFrames >= 3

VARIABLES
    mode,                   \* "alone", then "process", then "stream"
    debugger, debuggee,     \* the sides
    pair,                   \* the two in one process
    link,                   \* over a stream: the two Remotes
    wire,                   \* the frames on their way to each
    peer,                   \* the debugger's program: absent, on, gone
    cabled,                 \* the connector has a debugger on it
    waiting,                \* the debuggers still to come
    changed                 \* a debugger has come after the first

lashupVars == <<mode, debugger, debuggee, pair, link, wire, peer, cabled, waiting, changed>>

-----------------------------------------------------------------------------
(* A side.                                                                  *)

Side(c, instructions, requests, until) ==
    [m |-> c, program |-> instructions, script |-> requests, until |-> until]

AttachDebugCable(s) == [s EXCEPT !.m.bus.cable = TRUE]

StepUntil(s, limit) ==
    [s EXCEPT !.m = Step(s.m, limit, IF s.program = <<>> THEN Plain("plain", FALSE)
                                     ELSE Head(s.program)),
              !.program = IF Executes(s.m) /\ @ # <<>> THEN Tail(@) ELSE @]

\* The event DBGOUT has put on the cable: the direction is the cycle's, the
\* strobe and the word the next of the script's.
DebugOutEvent(s) ==
    IF s.m.bus.out.k = "request"
    THEN [k |-> "request", at |-> s.m.bus.out.at,
          req |-> [strobe |-> Head(s.script).strobe, dbd |-> Head(s.script).dbd,
                   write |-> s.m.wrcyc, hold |-> UnibusStrobeNs]]
    ELSE s.m.bus.out

DebugOutTake(s) ==
    [s EXCEPT !.m.bus.out = Quiet,
              !.script = IF s.m.bus.out.k = "request" THEN Tail(@) ELSE @]

HasEvent(s) == s.m.bus.out.k # "idle"

Answered(s) == s.m.answer # Never

TakesRequest(s, at) == Recent(s.m, at) /\ CableIdle(s.m, Latest(at, s.m.ns))

\* An event the end cannot take leaves it as it was.
TakeEvent(s, e) ==
    IF e.k = "release"
    THEN IF Recent(s.m, e.at) THEN [s EXCEPT !.m = TryDebugRelease(@, e.at)] ELSE s
    ELSE IF TakesRequest(s, e.at)
    THEN [s EXCEPT !.m = TryDebugRequest(@, e.at, e.req,
                            DebugAdvance(@.bus, Latest(e.at, @.ns)).address)] ELSE s

Takes(s, e) == IF e.k = "release" THEN Recent(s.m, e.at) ELSE TakesRequest(s, e.at)

AnswerOf(s, at) == [s EXCEPT !.m.bus = DebugOutAnswer(@, at)]

Shift(ns, from, to) == IF ns = Never THEN Never ELSE ns - from + to

-----------------------------------------------------------------------------
(* In one process.  l is the two sides, "a" the debugger's, with the two    *)
(* cables' state and the clocks at which they were plugged in.              *)

Pair(a, b) ==
    [s |-> [a |-> AttachDebugCable(a), b |-> AttachDebugCable(b)],
     carried |-> [a |-> TRUE, b |-> TRUE], origin |-> [a |-> a.m.ns, b |-> b.m.ns],
     refused |-> FALSE]

Other(x) == IF x = "a" THEN "b" ELSE "a"

\* What the other end promises x, on the other's clock: nothing of the
\* answer x waits for before back, and no request of its own before its
\* DBGOUT's promise.  carried[x]: x has the answer to its last request.
PairPromise(l, x) ==
    LET o    == l.s[Other(x)].m
        back == IF l.carried[x] THEN Never ELSE IF o.answer # Never THEN o.answer
                ELSE DebugInPromise(o.bus, o.ns)
    IN  Earliest({back, DebugOutPromise(o.bus, o.ns)})

CarryOut(l, x) ==
    IF ~HasEvent(l.s[x]) THEN l ELSE
    LET e  == DebugOutEvent(l.s[x])
        at == [e EXCEPT !.at = Shift(@, l.origin[x], l.origin[Other(x)])]
    IN  [l EXCEPT !.s = [@ EXCEPT ![x] = DebugOutTake(@),
                                  ![Other(x)] = TakeEvent(@, at)],
                  !.carried[x] = IF e.k = "request" THEN FALSE ELSE @,
                  !.refused = @ \/ ~Takes(l.s[Other(x)], at)]

CarryBack(l, x) ==
    LET o == Other(x)
    IN  IF l.carried[x] \/ ~Answered(l.s[o]) THEN l
        ELSE [l EXCEPT !.carried[x] = TRUE,
                       !.s[x] = AnswerOf(@, Shift(l.s[o].m.answer, l.origin[o], l.origin[x]))]

PairMoves(l, x, may, to) ==
    LET limit == IF may[x] THEN to[x] - SlackNs ELSE to[x]
    IN  CarryBack(CarryBack(CarryOut([l EXCEPT !.s[x] = StepUntil(@, limit)], x), "a"), "b")

\* The end that may step steps, the one behind first; when neither may, the
\* one behind as far as it was promised.
PairFrom(l, may, to) ==
    LET since == [x \in {"a", "b"} |-> l.s[x].m.ns - l.origin[x]]
        first == IF since.a <= since.b THEN "a" ELSE "b"
    IN  PairMoves(l, IF may.a /\ (first = "a" \/ ~may.b) THEN "a" ELSE IF may.b THEN "b" ELSE first,
                  may, to)

PairUpTo(l, to) == PairFrom(l, [x \in {"a", "b"} |-> l.s[x].m.ns + SlackNs < to[x]], to)

PairStep(l) ==
    PairUpTo(l, [x \in {"a", "b"} |-> Shift(PairPromise(l, x), l.origin[Other(x)], l.origin[x])])

PairDone(l) == \A x \in {"a", "b"} : l.s[x].m.ns >= l.s[x].until

-----------------------------------------------------------------------------
(* Over a stream: one end.                                                  *)

RemoteNew(side, ns) ==
    [other |-> IF side = "a" THEN Never ELSE 0, told |-> -1, carried |-> TRUE,
     otherDone |-> FALSE, sent |-> 0, seen |-> 0, origin |-> ns, finished |-> FALSE]

OnTheWire(r, ns) == IF ns = Never THEN Never ELSE ns - r.origin

OffTheWire(r, ns) == IF ns = Never THEN Never ELSE ns + r.origin

\* A debuggee that waits to be told holds a promise of nothing.
MyPromise(side, r, m) ==
    IF side = "a" THEN DebugOutPromise(m.bus, m.ns)
    ELSE IF r.carried THEN Never
    ELSE IF m.answer # Never THEN m.answer ELSE DebugInPromise(m.bus, m.ns)

PromiseFrame(r, until) ==
    [k |-> "promise", until |-> OnTheWire(r, until), seen |-> r.seen]

DoneFrame == [k |-> "done"]

\* A Remote, its side and the frames it sends, as one step leaves them.
Promise(side, t) ==
    LET mine == MyPromise(side, t.r, t.s.m)
    IN  IF t.r.told = mine THEN t
        ELSE [t EXCEPT !.out = Append(@, PromiseFrame(t.r, mine)), !.r.told = mine]

AfterStep(side, t) ==
    IF side = "a"
    THEN IF ~HasEvent(t.s) THEN t ELSE
         LET e == DebugOutEvent(t.s)
             f == [e EXCEPT !.at = OnTheWire(t.r, @)]
         IN  Promise(side, [t EXCEPT !.s = DebugOutTake(@), !.out = Append(@, f),
                                     !.r = IF e.k # "request" THEN @
                                           ELSE [@ EXCEPT !.sent = @ + 1, !.other = e.at]])
    ELSE IF t.r.carried \/ ~Answered(t.s) THEN t
         ELSE Promise(side,
                [t EXCEPT !.out = Append(@, [k |-> "ack", at |-> OnTheWire(t.r, t.s.m.answer)]),
                          !.r = [@ EXCEPT !.sent = @ + 1, !.carried = TRUE, !.other = 0]])

MayStep(r, s) == s.m.ns + SlackNs < r.other

\* step(), the drain apart: the promise, and a step if the other's allows.
RemoteStep(side, r, s) ==
    LET t == Promise(side, [r |-> r, s |-> s, out |-> <<>>])
    IN  IF ~MayStep(r, s) THEN t
        ELSE AfterStep(side, [t EXCEPT !.s = StepUntil(@, r.other - SlackNs)])

Apply_mut(r, s, f) ==
    CASE f.k = "ack" ->
           [r |-> [r EXCEPT !.seen = @ + 1, !.other = Never],
            s |-> AnswerOf(s, OffTheWire(r, f.at))]
      [] f.k = "request" ->
           [r |-> [r EXCEPT !.seen = @ + 1, !.carried = FALSE],
            s |-> TakeEvent(s, [f EXCEPT !.at = OffTheWire(r, @)])]
      [] f.k = "release" ->
           [r |-> r, s |-> TakeEvent(s, [f EXCEPT !.at = OffTheWire(r, @)])]
      [] f.k = "promise" ->
           [r |-> [r EXCEPT !.other = OffTheWire(r, f.until)], s |-> s]
      [] f.k = "done" -> [r |-> [r EXCEPT !.otherDone = TRUE, !.other = Never], s |-> s]

\* One frame off the stream; a promise made before the other had this end's
\* latest event is stale and is ignored.
Apply(r, s, f) ==
    CASE f.k = "ack" ->
           [r |-> [r EXCEPT !.seen = @ + 1, !.other = Never],
            s |-> AnswerOf(s, OffTheWire(r, f.at))]
      [] f.k = "request" ->
           [r |-> [r EXCEPT !.seen = @ + 1, !.carried = FALSE],
            s |-> TakeEvent(s, [f EXCEPT !.at = OffTheWire(r, @)])]
      [] f.k = "release" ->
           [r |-> r, s |-> TakeEvent(s, [f EXCEPT !.at = OffTheWire(r, @)])]
      [] f.k = "promise" ->
           [r |-> [r EXCEPT !.other = IF f.seen = r.sent THEN OffTheWire(r, f.until) ELSE @],
            s |-> s]
      [] f.k = "done" -> [r |-> [r EXCEPT !.otherDone = TRUE, !.other = Never], s |-> s]

\* hang_up: the other end told, whatever the debugger had on DBGIN lifted.
HangUp(r) == <<PromiseFrame(r, Never), DoneFrame>>

DebugUnplug(s) == [s EXCEPT !.m = TryDebugRelease(@, @.ns)]

-----------------------------------------------------------------------------

LashupInit ==
    /\ mode = "alone"
    /\ \E c \in Cases :
          /\ debugger = AttachDebugCable(Head(c.debuggers))
          /\ debuggee = c.debuggee
          /\ waiting = c.debuggers
    /\ pair = Pair(debugger, debuggee)
    /\ link = [a |-> RemoteNew("a", 0), b |-> RemoteNew("b", 0)]
    /\ wire = [a |-> <<>>, b |-> <<>>]
    /\ peer = "absent"
    /\ cabled = FALSE
    /\ changed = FALSE

\* The debuggee's machine on its own, no debugger on the cable.
FreeStep ==
    /\ ~cabled
    /\ \/ mode = "alone" /\ debuggee.m.ns < Alone
       \/ mode = "stream" /\ debuggee.m.ns < debuggee.until
    /\ debuggee' = StepUntil(debuggee, Never)
    /\ UNCHANGED <<mode, debugger, pair, link, wire, peer, cabled, waiting, changed>>

\* Lashup::new.  The two are run in one process first, from the same state
\* as over the stream after.
PlugIn ==
    /\ mode = "alone"
    /\ pair' = Pair(debugger, debuggee)
    /\ mode' = "process"
    /\ UNCHANGED <<debugger, debuggee, link, wire, peer, cabled, waiting, changed>>

\* Lashup::step.
ProcessStep ==
    /\ mode = "process" /\ ~PairDone(pair)
    /\ pair' = PairStep(pair)
    /\ UNCHANGED <<mode, debugger, debuggee, link, wire, peer, cabled, waiting, changed>>

\* Connector::attend: a debugger connecting is plugged in, the cable's clock
\* from here.
Attend ==
    /\ mode = "stream" \/ (mode = "process" /\ PairDone(pair))
    /\ mode' = "stream"
    /\ ~cabled /\ peer = "absent" /\ waiting # <<>> /\ debuggee.m.ns <= Attended
    /\ debugger' = AttachDebugCable(Head(waiting))
    /\ waiting' = Tail(waiting)
    /\ changed' = (mode = "stream")
    /\ link' = [a |-> RemoteNew("a", debugger'.m.ns), b |-> RemoteNew("b", debuggee.m.ns)]
    /\ wire' = [a |-> <<>>, b |-> <<>>]
    /\ peer' = "on" /\ cabled' = TRUE
    /\ UNCHANGED <<debuggee, pair>>

Room(x) == Len(wire[x]) + 3 <= InboxFrames

\* A turn of an end that has something to say or may step.  What is sent to
\* a debugger that has gone goes nowhere.
Turned(x, t, may) ==
    /\ may \/ t.out # <<>>
    /\ link' = [link EXCEPT ![x] = t.r]
    /\ wire' = [wire EXCEPT ![Other(x)] = IF peer = "on" THEN @ \o t.out ELSE @]
    /\ IF x = "a" THEN debugger' = t.s /\ UNCHANGED debuggee
                  ELSE debuggee' = t.s /\ UNCHANGED debugger
    /\ UNCHANGED <<mode, pair, peer, cabled, waiting, changed>>

TurnOf(x, s) ==
    /\ ~link[x].finished /\ s.m.ns < s.until /\ Room(Other(x))
    /\ Turned(x, RemoteStep(x, link[x], s), MayStep(link[x], s))

DebuggerTurn == peer = "on" /\ TurnOf("a", debugger)

StepCabled == cabled /\ ~link.b.otherDone /\ TurnOf("b", debuggee)

\* run_until's end: finish() says so and then waits for the other's.
FinishOf(x, s) ==
    /\ s.m.ns >= s.until /\ ~link[x].finished /\ Room(Other(x))
    /\ wire' = [wire EXCEPT ![Other(x)] = IF peer = "on" THEN @ \o HangUp(link[x]) ELSE @]
    /\ link' = [link EXCEPT ![x].finished = TRUE]
    /\ UNCHANGED <<mode, debugger, debuggee, pair, peer, cabled, waiting, changed>>

DebuggerFinish == peer = "on" /\ FinishOf("a", debugger)

ConnectorFinish == cabled /\ ~link.b.otherDone /\ FinishOf("b", debuggee)

\* drain and wait_one: a frame taken.
Deliver(x) ==
    LET t == Apply(link[x], IF x = "a" THEN debugger ELSE debuggee, Head(wire[x]))
    IN  /\ wire[x] # <<>> /\ IF x = "a" THEN peer = "on" ELSE cabled
        /\ wire' = [wire EXCEPT ![x] = Tail(@)]
        /\ link' = [link EXCEPT ![x] = t.r]
        /\ IF x = "a" THEN debugger' = t.s /\ UNCHANGED debuggee
                      ELSE debuggee' = t.s /\ UNCHANGED debugger
        /\ UNCHANGED <<mode, pair, peer, cabled, waiting, changed>>

\* The debugger's program ends, or its stream goes, at any time.
GoAway ==
    /\ peer = "on" /\ waiting # <<>>
    /\ peer' = IF cabled THEN "gone" ELSE "absent"
    /\ wire' = [wire EXCEPT !.a = <<>>]
    /\ UNCHANGED <<mode, debugger, debuggee, pair, link, cabled, waiting, changed>>

\* step_cabled's unplug: the debugger said it is done, or its stream went
\* --- the frames before that may or may not have been taken.
Unplug ==
    /\ cabled /\ ~link.b.finished
    /\ link.b.otherDone \/ peer = "gone"
    /\ debuggee' = DebugUnplug(debuggee)
    /\ wire' = [a |-> IF peer = "on" THEN wire.a \o HangUp(link.b) ELSE <<>>, b |-> <<>>]
    /\ cabled' = FALSE
    /\ peer' = IF peer = "gone" THEN "absent" ELSE peer
    /\ UNCHANGED <<mode, debugger, pair, link, waiting, changed>>

\* The debugger has the other's end too, and closes its stream.
DebuggerEnds ==
    /\ peer = "on" /\ link.a.finished /\ link.a.otherDone
    /\ peer' = "absent"
    /\ UNCHANGED <<mode, debugger, debuggee, pair, link, wire, cabled, waiting, changed>>

Ended ==
    /\ mode = "stream" /\ debuggee.m.ns >= debuggee.until
    /\ \/ peer = "absent" /\ ~cabled
       \/ peer = "absent" /\ link.b.finished
       \/ link.b.finished /\ peer = "gone"

Stay == Ended /\ UNCHANGED lashupVars

LashupNext ==
    \/ FreeStep \/ PlugIn \/ ProcessStep
    \/ Attend \/ DebuggerTurn \/ StepCabled \/ DebuggerFinish \/ ConnectorFinish
    \/ \E x \in {"a", "b"} : Deliver(x)
    \/ GoAway \/ Unplug \/ DebuggerEnds \/ Stay

-----------------------------------------------------------------------------

LashupTypeOK ==
    /\ mode \in {"alone", "process", "stream"}
    /\ \A x \in {"a", "b"} : Len(wire[x]) <= InboxFrames + 2
    /\ peer \in {"absent", "on", "gone"}
    /\ cabled \in BOOLEAN
    /\ changed \in BOOLEAN
    /\ \A x \in {"a", "b"} : link[x].sent \in Nat /\ link[x].seen \in Nat

Events == {"request", "release"}

\* No event on its way down the stream is in the past of the machine it goes
\* to: neither end runs past what the other has promised, whatever order
\* the frames, the steps and the two programs fall in.  An answer the
\* debugger has timed out on is nothing to it.
NotPassed ==
    /\ \A i \in 1..Len(wire.b) : cabled /\ wire.b[i].k \in Events
          => OffTheWire(link.b, wire.b[i].at) >= debuggee.m.ns
    /\ \A i \in 1..Len(wire.a) :
          /\ peer = "on" /\ wire.a[i].k = "ack"
          /\ DebugOutTaken(debugger.m.bus, OffTheWire(link.a, wire.a[i].at))
          => OffTheWire(link.a, wire.a[i].at) >= debugger.m.ns

\* A request finds the connector free: the debuggee has lifted the last one
\* by the instant the next is on the cable, a debugger that went away with
\* one out included, over a stream and in one process with a cable each way.
NotRefused ==
    /\ cabled /\ wire.b # <<>> /\ Head(wire.b).k \in Events
          => Takes(debuggee, [Head(wire.b) EXCEPT !.at = OffTheWire(link.b, @)])
    /\ ~pair.refused

\* What the debugger reads over a stream, and what it does to the other
\* machine, are what they are with both in one process: a frame's delay
\* shows nowhere in simulated time.
StreamIsProcess ==
    mode = "stream" /\ peer = "absent" /\ link.a.finished
    /\ ~changed /\ waiting = <<>>
        => /\ debugger.m.md = pair.s.a.m.md
           /\ debugger.m.started = pair.s.a.m.started
           /\ \A f \in {"address", "modifier"} : debuggee.m.bus[f] = pair.s.b.m.bus[f]

\* An end with nothing to do until a frame comes.
Awaits(x, s) ==
    IF link[x].finished THEN ~link[x].otherDone
    ELSE s.m.ns < s.until /\ ~MayStep(link[x], s)
         /\ link[x].told = MyPromise(x, link[x], s.m)

\* Neither end waits on the other while the other waits on it.
NotBothWait ==
    cabled /\ peer = "on" /\ wire.a = <<>> /\ wire.b = <<>>
        => ~(Awaits("a", debugger) /\ Awaits("b", debuggee))

\* peer_done: the other end has said it is done, and this end may run as it
\* likes.
FreedEndRuns ==
    peer = "on" /\ link.a.otherDone /\ debugger.m.ns < debugger.until
        => MayStep(link.a, debugger)
=============================================================================

------------------------------ MODULE IoBoard ------------------------------
(***************************************************************************)
(* The I/O board's own registers (src/ioboard.rs): the mouse interface and *)
(* the mouse on it (src/terminal/mouse.rs), the status register and its    *)
(* interrupt requests, the clocks and the speaker; with the terminal's     *)
(* pointer queue above it (src/terminal/mod.rs), QUUX's mouse register in  *)
(* its place (src/quux_input.rs) and the netlist board's mouse cable       *)
(* (src/terminal/cable.rs).                                                *)
(*                                                                         *)
(* Time is counted in periods of KB CLK^.  The board is brought up to a    *)
(* time when the engine advances it or a register is read, so the time of  *)
(* the last edge sampled lags the machine's.                               *)
(***************************************************************************)
EXTENDS Integers, Sequences, SequencesExt, FiniteSets

CONSTANTS
    CountMod,        \* the mouse counters' modulus, 4096 on the board
    PointerBacklog,  \* INPUT_BACKLOG, 256 in the program
    Places,          \* where a viewer may put the pointer, on each axis
    StepTicks,       \* MOUSE_STEP_NS in periods of KB CLK^: 2
    HalfMod,         \* the microsecond counter's half, 2^16 on the board
    QuietTicks,      \* AUDIO_QUIET_NS
    IntervalTicks,   \* a count of the interval timer
    MaxMoves,        \* bound on the pointer events of a behavior
    MaxTicks         \* bound on its time

ASSUME IoBoardAssumption ==
    /\ {CountMod, PointerBacklog, StepTicks, HalfMod, IntervalTicks} \subseteq Nat \ {0}
    /\ {QuietTicks, MaxMoves, MaxTicks} \subseteq Nat /\ Places \subseteq Nat

VARIABLES
    iRoute,          \* "board", "quux" or "cable": where the mouse is plugged
    iNow,            \* the machine's time
    iMoves,          \* pointer events so far
    iViewer,         \* where the viewer last put the pointer, and its buttons
    iPointers,       \* Input::pointers
    iMouse,          \* terminal::mouse::Mouse: last position, motion not delivered, buttons
    iEncoders,       \* mouse::Encoders
    iIface,          \* MouseInterface: switches, the latches, the counters, the last edge
    iCsr,            \* the enables and the readies of the status register
    iClock,          \* the latched microseconds, and the interval timer
    iAudio,          \* the speaker's flip-flop
    iRead,           \* what the software has read: microseconds, mouse
    iOrigin          \* the first position Mouse was given

ioVars == <<iRoute, iNow, iMoves, iViewer, iPointers, iMouse, iEncoders, iIface, iCsr,
            iClock, iAudio, iRead, iOrigin>>

Axes == {"x", "y"}
Nowhere == [a \in Axes |-> -1]
Zero == [a \in Axes |-> 0]
Sign(n) == IF n > 0 THEN 1 ELSE IF n < 0 THEN -1 ELSE 0

-----------------------------------------------------------------------------
(* The mouse: encoders stepping a phase at a time, the board's sampling. *)

Busy(e) == e.left # Zero
NewEncoders == [left |-> Zero, phase |-> [a \in Axes |-> 2], next |-> 0]

\* One phase on each axis that has motion left.
StepEncoders(e, at) ==
    [left |-> [a \in Axes |-> e.left[a] - Sign(e.left[a])],
     phase |-> [a \in Axes |-> (e.phase[a] + Sign(e.left[a])) % 4],
     next |-> at + StepTicks]

\* A phase's two lines as the board's inverting triggers give them: the Gray
\* code of the phase.
Lines(e) == [a \in Axes |-> <<e.phase[a] < 2, e.phase[a] \in {0, 3}>>]

Latched(e, switches) == [lines |-> Lines(e), switches |-> switches]

\* IOBMS2's direction and enable: one line of the pair moving between two
\* clocks is a count, both or neither is none.
Count_mut(q, old, new) ==
    IF old = new THEN q
    ELSE (IF old[1] # new[2] THEN q + 1 ELSE q - 1) % (CountMod - 1)

Count(q, old, new) ==
    IF (old[1] # new[1]) = (old[2] # new[2]) THEN q
    ELSE (IF old[1] # new[2] THEN q + 1 ELSE q - 1) % CountMod

NewIface ==
    [switches |-> 0, new |-> Latched(NewEncoders, 0), old |-> Latched(NewEncoders, 0),
     count |-> Zero, sampled |-> 0, changed |-> FALSE]

\* One rising edge of KB CLK^: OLD takes NEW, NEW the lines, after the step
\* the mouse is due.
Edge(s) ==
    LET edge == s.iface.sampled + 1
        due == IF s.enc.next > s.iface.sampled THEN s.enc.next ELSE s.iface.sampled
        enc == IF Busy(s.enc) /\ due <= edge THEN StepEncoders(s.enc, due) ELSE s.enc
        new == Latched(enc, s.iface.switches)
        old == s.iface.new
    IN  [enc |-> enc,
         iface |-> [s.iface EXCEPT
                       !.old = old, !.new = new, !.sampled = edge,
                       !.changed = @ \/ new # old,
                       !.count = [a \in Axes |-> Count(@[a], old.lines[a], new.lines[a])]]]

\* Every edge up to now.  Once settled, the rest latch what is already held.
Settled(s) ==
    /\ ~Busy(s.enc) /\ s.iface.new = s.iface.old
    /\ s.iface.new = Latched(s.enc, s.iface.switches)

AfterEdges[n \in 0..MaxTicks] ==
    IF n = 0 THEN [enc |-> iEncoders, iface |-> [iIface EXCEPT !.changed = FALSE]]
    ELSE IF Settled(AfterEdges[n - 1]) THEN [AfterEdges[n - 1] EXCEPT !.iface.sampled = iNow]
    ELSE Edge(AfterEdges[n - 1])

Sample == AfterEdges[iNow - iIface.sampled]

\* sample_mouse: and MOUSE READY on a change.
Sampled(csr) ==
    LET s == Sample
    IN  /\ iEncoders' = s.enc
        /\ iIface' = s.iface
        /\ iCsr' = [csr EXCEPT !.mouse = @ \/ s.iface.changed]

-----------------------------------------------------------------------------
(* The way in: a viewer's pointer, the queue, the mouse on the desk. *)

\* A full queue loses its oldest event: the newest position is the one that
\* matters.
InputPointer(q, item) ==
    Append(IF Len(q) >= PointerBacklog THEN Tail(q) ELSE q, item)

Point(item) ==
    /\ iMoves < MaxMoves
    /\ iMoves' = iMoves + 1
    /\ iViewer' = item
    /\ iPointers' = InputPointer(iPointers, item)
    /\ UNCHANGED <<iRoute, iNow, iMouse, iEncoders, iIface, iCsr, iClock, iAudio, iRead, iOrigin>>

\* Mouse::pointer: the difference from the last position; the first gives
\* none.
Pointer(m, item) ==
    [last |-> item.at, buttons |-> item.buttons,
     moved |-> IF m.last = Nowhere THEN m.moved
               ELSE [a \in Axes |-> m.moved[a] + item.at[a] - m.last[a]]]

\* What the first n of the queue make of the mouse.
AfterPointers[n \in 0..Len(iPointers)] ==
    IF n = 0 THEN iMouse ELSE Pointer(AfterPointers[n - 1], iPointers[n])

TakePointers ==
    /\ iPointers # <<>>
    /\ iMouse' = AfterPointers[Len(iPointers)]
    /\ iOrigin' = IF iOrigin = Nowhere THEN Head(iPointers).at ELSE iOrigin
    /\ iPointers' = <<>>
    /\ UNCHANGED <<iRoute, iNow, iMoves, iViewer, iEncoders, iIface, iCsr, iClock, iAudio, iRead>>

\* What the mouse has, to the machine: the encoders of the board or of the
\* cable, which step it out, or QUUX's register at once.
DeliverMouse ==
    /\ iMouse.moved # Zero \/ iMouse.buttons # iIface.switches
    /\ iMouse' = [iMouse EXCEPT !.moved = Zero]
    /\ IF iRoute = "quux"
       THEN /\ iIface' = [iIface EXCEPT
                             !.switches = iMouse.buttons,
                             !.count = [a \in Axes |-> (@[a] + iMouse.moved[a]) % CountMod]]
            /\ iCsr' = [iCsr EXCEPT !.mouse = TRUE]
            /\ UNCHANGED iEncoders
       ELSE /\ iEncoders' = [iEncoders EXCEPT
                                !.left = [a \in Axes |-> @[a] + iMouse.moved[a]]]
            /\ iIface' = [iIface EXCEPT !.switches = iMouse.buttons]
            /\ UNCHANGED iCsr
    /\ UNCHANGED <<iRoute, iNow, iMoves, iViewer, iPointers, iClock, iAudio, iRead, iOrigin>>

-----------------------------------------------------------------------------
(* The machine's side: time, and the registers. *)

Pass ==
    /\ iNow < MaxTicks
    /\ iNow' = iNow + 1
    /\ UNCHANGED <<iRoute, iMoves, iViewer, iPointers, iMouse, iEncoders, iIface, iCsr,
                   iClock, iAudio, iRead, iOrigin>>

\* IoBoard::advance.  On the cable the mouse steps as it is due and the
\* netlist board samples every edge.
Advance ==
    /\ iRoute # "quux" /\ iIface.sampled < iNow
    /\ Sampled(iCsr)
    /\ UNCHANGED <<iRoute, iNow, iMoves, iViewer, iPointers, iMouse, iClock, iAudio, iRead, iOrigin>>

\* The read of mouse Y, or of QUUX's MOUSE: the readies go down, and the
\* software has the counts as they stand.
ReadMouse ==
    /\ IF iRoute = "quux"
       THEN iCsr' = [iCsr EXCEPT !.mouse = FALSE] /\ UNCHANGED <<iEncoders, iIface>>
       ELSE LET s == Sample
            IN  /\ iEncoders' = s.enc /\ iIface' = s.iface
                /\ iCsr' = [iCsr EXCEPT !.mouse = FALSE]
    /\ iRead' = [iRead EXCEPT !.mouse = iIface'.count]
    /\ UNCHANGED <<iRoute, iNow, iMoves, iViewer, iPointers, iMouse, iClock, iAudio, iOrigin>>

\* CLOCK READY: up before any load and again when the loaded interval has
\* run out.
ClockReady(now) ==
    iClock.loaded_at = -1 \/ now - iClock.loaded_at >= iClock.interval * IntervalTicks

\* The vector of the interrupt the board requests, the clock's before the
\* keyboard and mouse's; the Chaosnet's and the serial port's are their own
\* modules'.
InterruptRequest(now) ==
    CASE iCsr.clock_enable /\ ClockReady(now) -> "clock"
      [] ~(iCsr.clock_enable /\ ClockReady(now)) /\ iCsr.mouse /\ iCsr.mouse_enable -> "mouse"
      [] OTHER -> "none"

\* An interrupt reaches the software, which loads the interval again or
\* reads the mouse.
Interrupt ==
    /\ InterruptRequest(iNow) = "clock"
    /\ iClock' = [iClock EXCEPT !.loaded_at = iNow, !.interval = 1]
    /\ UNCHANGED <<iRoute, iNow, iMoves, iViewer, iPointers, iMouse, iEncoders, iIface, iCsr,
                   iAudio, iRead, iOrigin>>

WriteCsr(mouse, clock) ==
    /\ iCsr' = [iCsr EXCEPT !.mouse_enable = mouse, !.clock_enable = clock]
    /\ iCsr' # iCsr
    /\ UNCHANGED <<iRoute, iNow, iMoves, iViewer, iPointers, iMouse, iEncoders, iIface,
                   iClock, iAudio, iRead, iOrigin>>

\* -UB INIT clears the enables and nothing else of these.
UnibusInit ==
    /\ iCsr.mouse_enable \/ iCsr.clock_enable
    /\ iCsr' = [iCsr EXCEPT !.mouse_enable = FALSE, !.clock_enable = FALSE]
    /\ UNCHANGED <<iRoute, iNow, iMoves, iViewer, iPointers, iMouse, iEncoders, iIface,
                   iClock, iAudio, iRead, iOrigin>>

\* The low half's read latches the whole count, and the high half's is of
\* what was latched.
ReadUsecLow ==
    /\ iClock' = [iClock EXCEPT !.usec = iNow]
    /\ iRead' = [iRead EXCEPT !.low = iNow % HalfMod, !.low_at = iNow, !.high = -1]
    /\ UNCHANGED <<iRoute, iNow, iMoves, iViewer, iPointers, iMouse, iEncoders, iIface, iCsr,
                   iAudio, iOrigin>>

UsecHigh == iClock.usec \div HalfMod

ReadUsecHigh ==
    /\ iRead.low_at # -1 /\ iRead.high = -1
    /\ iRead' = [iRead EXCEPT !.high = UsecHigh]
    /\ UNCHANGED <<iRoute, iNow, iMoves, iViewer, iPointers, iMouse, iEncoders, iIface, iCsr,
                   iClock, iAudio, iOrigin>>

\* A reference to BEEP, read or written: an edge, and a beep started if the
\* speaker has been quiet.
ClickAudio ==
    /\ iAudio' = [level |-> ~iAudio.level, at |-> iNow,
                  started |-> \/ iAudio.started
                              \/ iAudio.at = -1 \/ iNow - iAudio.at >= QuietTicks]
    /\ UNCHANGED <<iRoute, iNow, iMoves, iViewer, iPointers, iMouse, iEncoders, iIface, iCsr,
                   iClock, iRead, iOrigin>>

TakeBeep ==
    /\ iAudio.started
    /\ iAudio' = [iAudio EXCEPT !.started = FALSE]
    /\ UNCHANGED <<iRoute, iNow, iMoves, iViewer, iPointers, iMouse, iEncoders, iIface, iCsr,
                   iClock, iRead, iOrigin>>

-----------------------------------------------------------------------------

IoInit ==
    /\ iRoute \in {"board", "quux", "cable", "clock"}
    /\ iNow = 0 /\ iMoves = 0
    /\ iViewer = [at |-> Nowhere, buttons |-> 0]
    /\ iPointers = <<>>
    /\ iMouse = [last |-> Nowhere, moved |-> Zero, buttons |-> 0]
    /\ iEncoders = NewEncoders
    /\ iIface = NewIface
    /\ iCsr = [mouse |-> FALSE, mouse_enable |-> FALSE, clock_enable |-> FALSE]
    /\ iClock = [usec |-> 0, interval |-> 0, loaded_at |-> -1]
    /\ iAudio = [level |-> FALSE, at |-> -1, started |-> FALSE]
    /\ iRead = [low |-> 0, low_at |-> -1, high |-> -1, mouse |-> Zero]
    /\ iOrigin = Nowhere

\* The clocks and the speaker are of the same board; the route "clock" moves
\* them and leaves the mouse at rest.
IoNext ==
    \/ Pass
    \/ /\ iRoute # "clock"
       /\ \/ \E at \in [Axes -> Places], b \in {0, 1} : Point([at |-> at, buttons |-> b])
          \/ TakePointers \/ DeliverMouse \/ Advance \/ ReadMouse
    \/ /\ iRoute = "clock"
       /\ \/ ReadUsecLow \/ ReadUsecHigh \/ ClickAudio \/ TakeBeep \/ Interrupt \/ UnibusInit
          \/ \E m, c \in BOOLEAN : WriteCsr(m, c)

IoSpec == IoInit /\ [][IoNext]_ioVars

-----------------------------------------------------------------------------

\* "The pointer ends up where the viewer put it" (src/terminal/mod.rs:895):
\* what the counters show, with the motion still in the encoders and in the
\* mouse, is where Mouse last saw the pointer, modulo the counters; and what
\* it will see last is where the viewer put it, whatever the full queue lost
\* and however late the edges are sampled.  A change since the software's
\* last read of the mouse has MOUSE READY up.
PointerIsPut ==
    /\ iOrigin # Nowhere =>
          \A a \in Axes :
              (iIface.count[a] + iEncoders.left[a] + iMouse.moved[a]) % CountMod
                  = (iMouse.last[a] - iOrigin[a]) % CountMod
    /\ (IF iPointers # <<>> THEN Last(iPointers).at ELSE iMouse.last) = iViewer.at
    /\ iIface.count # iRead.mouse => iCsr.mouse

\* "Hardware synchronizes if you read this one first" (src/ioboard.rs): the
\* two halves of the microsecond count are of one instant, the low half's.
UsecOfOneInstant ==
    iRead.high # -1 => iRead.high * HalfMod + iRead.low = iRead.low_at

\* The pointer ends where the viewer put it, and the microsecond clock's two
\* halves are of one instant (src/ioboard.rs).
MouseKept == PointerIsPut /\ UsecOfOneInstant
=============================================================================

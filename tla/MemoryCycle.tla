---------------------------- MODULE MemoryCycle ----------------------------
(***************************************************************************)
(* A CADR's processor at its bus interface, from src/src/rtl.rs: a memory  *)
(* start, -MEMRQ, the two ways the bus stops the clock (-WAIT and -HANG),  *)
(* what -MEMACK does to MD, MBUSY and READ IN PROGRESS, and the debug      *)
(* master's cycles on the same machine, its reset of the machine included. *)
(*                                                                         *)
(* A machine is a record with its Busint in the field bus.  An instruction *)
(* is what it does to memory: it starts a read or a write at a responder,  *)
(* uses MD, loads MD, or none of them.  A word is the number of the cycle  *)
(* that brought it.  One turn of the stall loop of step_body is one Step:  *)
(* a caller with a bound gets the machine back after any of them.          *)
(*                                                                         *)
(* Left out: page faults, the speed synchronizer, the mode register's two  *)
(* pulses, single stepping, and QUUX's divider and held start.             *)
(***************************************************************************)
EXTENDS Busint

CONSTANTS
    CycleNs, LongNs,   \* a generator cycle, and one with ILONG
    RdFinishNs,        \* -MEMACK to the fall of READ IN PROGRESS
    SlackNs            \* the slowest generator cycle

ASSUME MemoryAssumption == {CycleNs, LongNs, RdFinishNs, SlackNs} \subseteq Nat

Start(op, at, long) == [op |-> op, at |-> at, long |-> long]

Plain(op, long) == [op |-> op, at |-> "none", long |-> long]

Length(c) == IF c.ir.long THEN LongNs ELSE CycleNs

memop(c) == c.ir.op \in {"read", "write"}

destmem(c) == c.ir.op \in {"read", "write", "loadMd"}

use_md(c) == c.ir.op = "useMd"

MachineNew(first) ==
    [ns |-> 0, bus |-> BusintNew, ir |-> first, memstart |-> FALSE, rdcyc |-> FALSE,
     wrcyc |-> FALSE, vma |-> "none", mbusy |-> FALSE, mbusySync |-> FALSE,
     reading |-> FALSE, responder |-> "noUnibus", started |-> 0, written |-> FALSE,
     acked |-> FALSE, loadmdAt |-> Never, finishAt |-> Never, clearAt |-> Never,
     md |-> 0, word |-> 0, pulsed |-> FALSE, held |-> FALSE, debugReset |-> FALSE,
     debugSampled |-> FALSE, debugWritten |-> FALSE, answer |-> Never,
     run |-> TRUE, srun |-> TRUE]

-----------------------------------------------------------------------------
(* What the bus does to the machine up to an instant.                       *)

ClockReset(c) ==
    [c EXCEPT !.memstart = FALSE, !.mbusySync = FALSE, !.rdcyc = FALSE,
              !.wrcyc = FALSE, !.mbusy = FALSE, !.run = FALSE, !.srun = FALSE]

\* The modifier register's reset bit, at its edges.
DebugResetEdge(c, now) ==
    LET on == Reset \in c.bus.modifier
    IN  IF on = c.debugReset THEN c
        ELSE [(IF on THEN ClockReset(c) ELSE c)
                EXCEPT !.debugReset = on, !.held = on, !.bus = UnibusReset(@, now, on)]

\* The word of the debug master's cycle: landed or sampled when the slave
\* answers.  A write of the interface's clock control starts or stops the
\* machine.
DebugWord(c, now) ==
    LET req == c.bus.request
    IN  IF req.strobe # "cycle" \/ now < c.bus.debugAnswered THEN c
        ELSE IF req.write /\ ~c.debugWritten
        THEN [c EXCEPT !.debugWritten = TRUE,
                       !.run = IF c.bus.responder # "interface" THEN @
                               ELSE CASE req.dbd = "run" -> TRUE
                                      [] req.dbd = "stop" -> FALSE
                                      [] OTHER -> @]
        ELSE [c EXCEPT !.debugSampled = @ \/ ~req.write]

DebugAnswer(c, now) ==
    [c EXCEPT !.answer = IF @ = Never /\ now >= c.bus.debugAck THEN c.bus.debugAck ELSE @]

DebugCycle(c, now) ==
    DebugAnswer(DebugWord(DebugResetEdge([c EXCEPT !.bus = DebugAdvance(@, now)], now), now), now)

LandWrite_mut(c, now) ==
    [c EXCEPT !.written = @ \/ (c.wrcyc /\ MemGrant(c.bus) /\ now >= c.bus.state.answered + CycleNs)]

LandWrite(c, now) ==
    [c EXCEPT !.written = @ \/ (/\ c.wrcyc /\ MemGrant(c.bus)
                                /\ now >= c.bus.state.answered)]

\* -MEMACK, once: b is the interface after the look.
Memack(c, b) ==
    LET f == b.state.ack + RdFinishNs
    IN  IF ~Acked(b) THEN [c EXCEPT !.bus = b]
        ELSE [c EXCEPT !.acked = TRUE,
                       !.bus = Released(b, b.state.ack + MfinishdNs),
                       !.word = IF c.wrcyc THEN @ ELSE c.started,
                       !.loadmdAt = IF c.wrcyc THEN @ ELSE b.state.loadmd,
                       !.finishAt = IF c.reading THEN Earliest({@, f}) ELSE f,
                       !.clearAt = b.state.ack + MfinishdNs]

PollCycle(c, now) == IF c.acked THEN c ELSE Memack(c, Poll(c.bus, now))

BusCycle(c, now) == PollCycle(DebugCycle(LandWrite(c, now), now), now)

AfterMemack(c, now) ==
    LET load == now >= c.loadmdAt
        free == now >= c.clearAt
    IN  [c EXCEPT !.md = IF load THEN c.word ELSE @,
                  !.loadmdAt = IF load THEN Never ELSE @,
                  !.reading = @ /\ now < c.finishAt,
                  !.mbusy = @ /\ ~free,
                  !.clearAt = IF free THEN Never ELSE @,
                  !.bus = IF free THEN Finish(@) ELSE @,
                  !.acked = @ /\ ~free]

Carried(c, now) == AfterMemack(BusCycle(c, now), now)

-----------------------------------------------------------------------------
(* The edges.                                                               *)

\* A start taken at a master clock edge.  With MBUSY up it asks for nothing
\* more: a start right after a start is one cycle, and the first is lost.
StartBusCycle(c, wrcyc) ==
    IF ~c.memstart THEN c
    ELSE IF c.mbusy
    THEN [c EXCEPT !.reading = @ \/ c.rdcyc,
                   !.finishAt = IF c.rdcyc /\ ~c.acked THEN Never ELSE @]
    ELSE [c EXCEPT !.mbusy = TRUE, !.responder = c.vma,
                   !.bus = RequestAt(@, wrcyc), !.started = @ + 1, !.written = FALSE,
                   !.reading = @ \/ c.rdcyc,
                   !.finishAt = IF c.rdcyc THEN Never ELSE @]

\* MBUSY.SYNC, the run synchronizer and the bus interface at an edge; b is
\* c with its start taken.
MasterEdge(c, b, now) ==
    [b EXCEPT !.ns = now, !.bus = MclkEdge(@, now, b.responder),
              !.mbusySync = c.memstart \/ b.mbusy,
              !.srun = c.run]

MasterClockEdge(c, now) ==
    [MasterEdge(c, StartBusCycle(c, c.wrcyc), now) EXCEPT !.memstart = FALSE]

MasterClockCycle(c) == MasterClockEdge(Carried(c, c.ns + Length(c)), c.ns + Length(c))

ClockEdge(c, next) ==
    LET a == [c EXCEPT !.md = IF c.ir.op = "loadMd" THEN 0 ELSE @]
        b == StartBusCycle(a, IF memop(c) THEN c.ir.op = "write" ELSE c.wrcyc)
    IN  [MasterEdge(c, b, c.ns + Length(c)) EXCEPT
            !.memstart = memop(c), !.pulsed = FALSE, !.ir = next,
            !.wrcyc = IF memop(c) THEN c.ir.op = "write" ELSE @,
            !.rdcyc = IF memop(c) THEN c.ir.op = "read" ELSE @,
            !.vma   = IF memop(c) THEN c.ir.at ELSE @]

Microcycle(c, next) == ClockEdge(Carried(c, c.ns + Length(c)), next)

-----------------------------------------------------------------------------
(* The two ways the bus stops the clock.                                    *)

Wait(c) ==
    \/ destmem(c) /\ c.mbusySync
    \/ use_md(c) /\ c.mbusy /\ ~MemGrant(c.bus)

Hang(c) == ~Wait(c) /\ use_md(c) /\ c.reading

\* The pending write pulse runs its course inside the hung cycle, once.
Pulsed(c) ==
    IF c.pulsed THEN c ELSE [Carried(c, c.ns + Length(c)) EXCEPT !.pulsed = TRUE]

HangEnds(c) == IF MemGrant(c.bus) THEN Later(c.bus.state.ack, RdFinishNs) ELSE c.finishAt

\* A hang: with no end in sight one generator cycle passes; one that ends
\* past the caller's bound is carried to the bound; else to its end.
HangStop(c, finish, limit) ==
    LET cycle == Length(c)
        open  == c.ns + cycle
        bound == Latest(limit, c.ns)
    IN  CASE finish = Never -> [ns |-> open, to |-> open]
          [] finish # Never /\ finish - cycle > limit -> [ns |-> bound, to |-> bound]
          [] OTHER -> [ns |-> Latest(finish, open) - cycle, to |-> Latest(finish, open)]

HangTo(c, stop) == IF stop.to = c.ns THEN c ELSE Carried([c EXCEPT !.ns = stop.ns], stop.to)

HangOver(c, limit) == HangTo(c, HangStop(c, HangEnds(c), limit))

HangFor(c, limit) == HangOver(Pulsed(c), limit)

-----------------------------------------------------------------------------
(* One turn of step_body.                                                   *)

StrobeUntil(c) == IF c.bus.debug.k = "strobe" THEN c.bus.debug.until ELSE Never

\* The ring held by the debug cable's reset: time passes.
HeldStep(c, limit) ==
    LET lift == StrobeUntil(c)
        to   == Earliest({c.ns + CycleNs, Latest(limit, c.ns)}
                           \cup {t \in {lift} : t > c.ns})
    IN  DebugCycle([c EXCEPT !.ns = to], to)

\* A modifier strobe with the reset bit lifts inside the cycle about to run
\* and clears the ring then.
ResetCuts(c) ==
    /\ StrobeUntil(c) > c.ns /\ StrobeUntil(c) < c.ns + CycleNs
    /\ c.bus.request.strobe = "modifier" /\ Reset \in c.bus.request.dbd

Step(c, limit, next) ==
    CASE c.held -> HeldStep(c, limit)
      [] ~c.held /\ ResetCuts(c) ->
           DebugCycle([c EXCEPT !.ns = StrobeUntil(c)], StrobeUntil(c))
      [] ~c.held /\ ~ResetCuts(c) /\ (~c.srun \/ Wait(c)) -> MasterClockCycle(c)
      [] ~c.held /\ ~ResetCuts(c) /\ c.srun /\ Hang(c) -> HangFor(c, limit)
      [] OTHER -> Microcycle(c, next)

\* The step above runs the instruction in IR.
Executes(c) == ~c.held /\ ~ResetCuts(c) /\ c.srun /\ ~Wait(c) /\ ~Hang(c)

-----------------------------------------------------------------------------
(* The cable.                                                               *)

\* Less than a cycle late is taken as of now; more is refused.
Recent(c, at) == at + SlackNs >= c.ns

CableIdle(c, at) == DebugAdvance(c.bus, at).debug.k = "idle"

TryDebugRequest(c, at, req, responder) ==
    LET t == Latest(at, c.ns)
    IN  [c EXCEPT !.bus = DebugRequest(@, t, req, responder),
                  !.debugSampled = FALSE, !.debugWritten = FALSE,
                  !.answer = IF req.strobe = "cycle" THEN Never ELSE t]

TryDebugRelease(c, at) == [c EXCEPT !.bus = DebugRelease(@, Latest(at, c.ns))]
=============================================================================

------------------------------- MODULE Serial -------------------------------
(***************************************************************************)
(* The serial port (src/serial.rs): the 2651's transmitter and receiver,   *)
(* each with a holding and a shift register, the cable on it, and the TCP  *)
(* endpoint that is the cable's far end.                                   *)
(*                                                                         *)
(* The 2651 does nothing of itself: a register access or the engine's poll *)
(* brings it up to the time, however late.  The model runs the port twice, *)
(* serPort brought up only when something asks and serFine every tick.     *)
(***************************************************************************)
EXTENDS Integers, Sequences, SequencesExt, FiniteSets

CONSTANTS
    DataBits,        \* the shortest character, 5 bits in the program
    ClockTicks,      \* the 16X clock's period, in crystal edges
    ClocksPerBit,    \* 16 in the program
    Framings,        \* what mode register 1 is written with
    Commands,        \* what the command register is written with
    SerialBacklog,   \* BACKLOG, 256 in the program
    SerialOps,       \* bound on register accesses
    SerialCalls,     \* bound on devices that connect
    SerialTypes,     \* bound on characters typed at them
    SerialCalling,   \* bound on when they connect and are typed at
    SerialTime       \* bound on the time

ASSUME SerialAssumption ==
    /\ {DataBits, ClockTicks, ClocksPerBit, SerialBacklog} \subseteq Nat \ {0}
    /\ {SerialOps, SerialCalls, SerialTypes, SerialCalling, SerialTime} \subseteq Nat

VARIABLES
    serNow,          \* the machine's time
    serPort,         \* Pci, brought up to the time when something asks
    serFine,         \* the same Pci brought up to the time at every tick
    serEnd,          \* Endpoint: the device on the cable, its outbox
    serWorld,        \* the devices: how many have called, what the current one typed
    serGot,          \* the characters each device was given, with the device they were sent to
    serOps           \* register accesses so far

serialVars == <<serNow, serPort, serFine, serEnd, serWorld, serGot, serOps>>

None == -1
MaxOf(a, b) == IF a > b THEN a ELSE b

-----------------------------------------------------------------------------
(* Framing: bits, parity, stop halves; and the times they make. *)

BitTicks == ClockTicks * ClocksPerBit
HalfBits(f) == 2 + 2 * f.bits + (IF f.parity THEN 2 ELSE 0) + f.stop
FrameTicks(f) == (HalfBits(f) * BitTicks) \div 2
Mask(f, byte) == byte % 2^f.bits

\* The middle of the stop bit, when the character is in the holding register,
\* and the end of its frame.
RxTimes(f, start) ==
    [done |-> start + (1 + f.bits + (IF f.parity THEN 1 ELSE 0)) * BitTicks + BitTicks \div 2,
     ends |-> start + FrameTicks(f)]

-----------------------------------------------------------------------------
(* The chip. A character in a register is a sequence of at most one. *)

NewCable == [plugged |-> None, inbound |-> <<>>, outbound |-> <<>>]

PowerOn(cable) ==
    [mode1 |-> [bits |-> DataBits, parity |-> FALSE, stop |-> 2, sync |-> TRUE],
     internal |-> FALSE,
     cmd |-> [tx |-> FALSE, rx |-> FALSE, dtr |-> FALSE, rts |-> FALSE, mode |-> "normal"],
     overrun |-> FALSE, second |-> FALSE, syn |-> 0, gen |-> None,
     thr |-> <<>>, shifting |-> <<>>, txFrom |-> 0, txEmpty |-> FALSE,
     rhr |-> 0, rxReady |-> FALSE, assembling |-> <<>>, rxFrom |-> 0,
     dschg |-> FALSE, dsrWas |-> FALSE, dcdWas |-> FALSE, cable |-> cable]

Looped(p) == p.cmd.mode = "local"
Dsr(p) == p.cable.plugged # None
Dcd(p) == IF Looped(p) THEN p.cmd.dtr ELSE Dsr(p)
Cts(p) == IF Looped(p) THEN p.cmd.rts ELSE Dsr(p)

\* UNIBUS INIT^: everything but the cable.
SerialReset(p) ==
    LET fresh == PowerOn(p.cable) IN [fresh EXCEPT !.dsrWas = Dsr(fresh), !.dcdWas = Dcd(fresh)]

Clocked(p) == ~p.mode1.sync /\ p.internal
TxOn(p) == p.cmd.tx /\ Clocked(p) /\ p.cmd.mode \in {"normal", "local"}
RxOn(p) == (p.cmd.rx \/ Looped(p)) /\ Clocked(p)
RxRuns(p) == RxOn(p) /\ Dcd(p)
GeneratorOn(p) == TxOn(p) \/ RxOn(p)

\* The generator's first clock at or after t, counted from when it started.
ClockAtOrAfter(p, t) ==
    LET from == IF p.gen = None THEN t ELSE p.gen
        k    == MaxOf(1, (t + 1 - from + ClockTicks - 1) \div ClockTicks)
    IN  from + k * ClockTicks - 1

NoteEnables(was, p, now) ==
    [p EXCEPT !.gen = IF GeneratorOn(was) = GeneratorOn(p) THEN @
                      ELSE IF GeneratorOn(p) THEN now ELSE None,
              !.txFrom = IF ~TxOn(was) /\ TxOn(p) THEN MaxOf(@, now) ELSE @,
              !.rxFrom = IF ~RxOn(was) /\ RxOn(p) THEN MaxOf(@, now) ELSE @]

ThrStart(p) == ClockAtOrAfter(p, MaxOf(p.thr[1].at, p.txFrom))
ThrStarts(p, now) == p.thr # <<>> /\ TxOn(p) /\ Cts(p) /\ ThrStart(p) <= now

LoadRhr(p, byte) ==
    [p EXCEPT !.overrun = @ \/ p.rxReady, !.rhr = byte, !.rxReady = TRUE]

PutOut(p, byte, at) == [p EXCEPT !.cable.outbound = Append(@, [at |-> at, byte |-> byte])]

DeliverOut(p, byte, at) ==
    IF Looped(p) THEN LoadRhr(p, Mask(p.mode1, byte)) ELSE PutOut(p, Mask(p.mode1, byte), at)

\* The transmitter up to now: what the shift register finished is delivered
\* and the holding register follows it in without a gap.
RECURSIVE Transmit_mut(_, _)
Transmit_mut(p, now) ==
    IF p.shifting # <<>>
    THEN IF p.shifting[1].done > now THEN p
         ELSE Transmit_mut([DeliverOut(p, p.shifting[1].byte, p.shifting[1].done)
                              EXCEPT !.shifting = <<>>, !.txEmpty = p.thr = <<>> /\ TxOn(p)], now)
    ELSE IF p.thr # <<>> /\ TxOn(p) /\ Cts(p)
         THEN Transmit_mut([p EXCEPT !.thr = <<>>,
                                     !.shifting = <<[byte |-> p.thr[1].byte,
                                                     done |-> now + FrameTicks(p.mode1)]>>], now)
         ELSE p

RECURSIVE Transmit(_, _)
Transmit(p, now) ==
    LET frame == FrameTicks(p.mode1)
        held(at) == <<[byte |-> p.thr[1].byte, done |-> at + frame]>>
    IN  CASE p.shifting # <<>> /\ p.shifting[1].done > now -> p
          [] p.shifting # <<>> /\ p.shifting[1].done <= now ->
               LET done == p.shifting[1].done
                   q    == DeliverOut(p, p.shifting[1].byte, done)
               IN  Transmit(IF p.thr = <<>> THEN [q EXCEPT !.shifting = <<>>, !.txEmpty = TxOn(p)]
                            ELSE IF TxOn(p) /\ Cts(p)
                            THEN [q EXCEPT !.thr = <<>>, !.shifting = held(done)]
                            ELSE [q EXCEPT !.shifting = <<>>], now)
          [] p.shifting = <<>> /\ ThrStarts(p, now) ->
               Transmit([p EXCEPT !.thr = <<>>, !.shifting = held(ThrStart(p))], now)
          [] OTHER -> p

\* The receiver up to now: the far end's characters a frame at a time.
RECURSIVE Receive(_, _)
Receive(p, now) ==
    LET a    == p.assembling
        head == p.cable.inbound[1]
        from == MaxOf(head.at, p.rxFrom)
        got  == [p EXCEPT !.assembling = <<>>, !.rxFrom = a[1].ends]
    IN  IF ~RxRuns(p) THEN p
        ELSE CASE a # <<>> /\ a[1].done <= now ->
               Receive(CASE p.cmd.mode = "remote" -> PutOut(got, a[1].byte, a[1].ends)
                         [] p.cmd.mode = "echo" -> LoadRhr(PutOut(got, a[1].byte, a[1].ends), a[1].byte)
                         [] OTHER -> LoadRhr(got, a[1].byte), now)
               [] a = <<>> /\ p.cable.inbound # <<>> /\ from <= now ->
               LET t == RxTimes(p.mode1, from)
               IN  Receive([p EXCEPT !.cable.inbound = Tail(@),
                                     !.assembling = <<[byte |-> Mask(p.mode1, head.byte),
                                                       done |-> t.done, ends |-> t.ends]>>], now)
               [] OTHER -> p

\* A port with neither half in flight is left alone.
AdvanceSerial(p, now) ==
    LET moved == Dsr(p) # p.dsrWas \/ Dcd(p) # p.dcdWas
        from  == p.cable.plugged
        seen  == [p EXCEPT !.dschg = TRUE, !.dsrWas = Dsr(p), !.dcdWas = Dcd(p),
                           !.rxFrom = MaxOf(@, from), !.txFrom = MaxOf(@, from)]
    IN  IF p.shifting = <<>> /\ p.thr = <<>> /\ p.assembling = <<>>
           /\ p.cable.inbound = <<>> /\ ~moved
        THEN p
        ELSE Receive(Transmit(IF moved THEN seen ELSE p, now), now)

Status(p) ==
    [txReady |-> TxOn(p) /\ p.thr = <<>>, rxReady |-> p.rxReady,
     empty |-> (p.cmd.tx /\ p.txEmpty) \/ p.dschg, overrun |-> p.overrun,
     dcd |-> Dcd(p), dsr |-> Dsr(p)]

\* SR0 and SR1 as they will stand at now, without moving anything.
TxReadyAt(p, now) ==
    /\ TxOn(p)
    /\ \/ p.thr = <<>>
       \/ p.shifting = <<>> /\ ThrStarts(p, now)
       \/ p.shifting # <<>> /\ Cts(p) /\ p.shifting[1].done <= now

NextArrival(p) ==
    IF p.assembling # <<>> THEN p.assembling[1].done
    ELSE RxTimes(p.mode1, MaxOf(p.cable.inbound[1].at, p.rxFrom)).done

RxReadyAt(p, now) ==
    \/ p.rxReady
    \/ /\ RxRuns(p) /\ (p.assembling # <<>> \/ p.cable.inbound # <<>>)
       /\ NextArrival(p) <= now

-----------------------------------------------------------------------------
(* The four registers. *)

ReadSerial(p0, r, now) ==
    LET p == AdvanceSerial(p0, now)
    IN  CASE r = "data" -> [p EXCEPT !.rxReady = FALSE]
          [] r = "status" -> [p EXCEPT !.dschg = FALSE]
          [] r = "mode" -> [p EXCEPT !.second = ~@]
          [] r = "command" -> [p EXCEPT !.second = FALSE, !.syn = 0]

WriteCommand(p, c) ==
    LET q == [p EXCEPT !.cmd = [f \in DOMAIN @ |-> c[f]], !.overrun = @ /\ ~c.reset]
        r == IF RxOn(q) THEN q ELSE [q EXCEPT !.assembling = <<>>, !.rxReady = FALSE]
    IN  IF c.tx THEN r ELSE [r EXCEPT !.txEmpty = FALSE]

WriteSerial(p0, r, v, now) ==
    LET p == AdvanceSerial(p0, now)
        q == CASE r = "data" -> [p EXCEPT !.thr = <<[byte |-> v, at |-> now]>>, !.txEmpty = FALSE]
               [] r = "syn" -> [p EXCEPT !.syn = (@ + 1) % 3]
               [] r = "mode" -> IF p.second THEN [p EXCEPT !.internal = v, !.second = FALSE]
                                ELSE [p EXCEPT !.mode1 = v, !.second = TRUE]
               [] r = "command" -> WriteCommand(p, v)
    IN  Receive(Transmit(NoteEnables(p, q, now), now), now)

\* A checkpoint keeps the chip and not the cable: the run that resumes it
\* starts with nothing plugged in.
ResumeSerial(p) == [p EXCEPT !.cable = NewCable]

-----------------------------------------------------------------------------
(* The registers' accesses, at both grains. *)

Both(f(_)) == /\ serPort' = f(serPort) /\ serFine' = f(serFine)
              /\ serOps' = serOps + 1

SerialAccess ==
    /\ serOps < SerialOps
    /\ \/ \E r \in {"data", "status", "mode", "command"} :
            Both(LAMBDA p : ReadSerial(p, r, serNow))
       \/ Both(LAMBDA p : WriteSerial(p, "data", 2^DataBits + 1, serNow))
       \/ Both(LAMBDA p : WriteSerial(p, "syn", 0, serNow))
       \/ IF serPort.second
          THEN \E v \in BOOLEAN : Both(LAMBDA p : WriteSerial(p, "mode", v, serNow))
          ELSE \E v \in Framings : Both(LAMBDA p : WriteSerial(p, "mode", v, serNow))
       \/ \E v \in Commands : Both(LAMBDA p : WriteSerial(p, "command", v, serNow))
       \/ Both(LAMBDA p : SerialReset(AdvanceSerial(p, serNow)))
    /\ UNCHANGED <<serNow, serEnd, serWorld, serGot>>

SerialTick ==
    /\ serNow < SerialTime
    /\ serNow' = serNow + 1
    /\ serFine' = AdvanceSerial(serFine, serNow + 1)
    /\ UNCHANGED <<serPort, serEnd, serWorld, serGot, serOps>>

\* A run that ends in a checkpoint, and the one that resumes it with a new
\* endpoint.
SerialResume ==
    /\ serOps < SerialOps /\ serPort # ResumeSerial(serPort)
    /\ Both(LAMBDA p : ResumeSerial(AdvanceSerial(p, serNow)))
    /\ serEnd' = [device |-> None, outbox |-> <<>>]
    /\ serWorld' = [serWorld EXCEPT !.typed = <<>>, !.up = FALSE]
    /\ UNCHANGED <<serNow, serGot>>

-----------------------------------------------------------------------------
(* The endpoint.  A device is a number, in order of connection; typed holds *)
(* what the device on the cable has typed and the endpoint has not read.    *)

\* What the devices may have done by the endpoint's next turn, the only time
\* anything looks: some called, the one on the cable typed and hung up.
Since(w) ==
    LET there == serEnd.device # None /\ w.up
        early == serNow <= SerialCalling
    IN  {[w EXCEPT !.calls = @ + c, !.left = @ - t, !.typed = @ \o [i \in 1..t |-> 1], !.up = u] :
            c \in IF early THEN 0..(SerialCalls - w.calls) ELSE {0},
            t \in IF early /\ there THEN 0..w.left ELSE {0},
            u \in {w.up} \union (IF there THEN {FALSE} ELSE {})}
Waiting(w) == [i \in 1..(w.calls - serWorld.calls) |-> serWorld.calls + i]

\* Endpoint::service after Endpoint::poll_cable has taken what the port sent:
\* the device there is served first, its outbox written (taken of it, none when
\* the window is full or the write fails) and as many typed characters read as
\* there is room for; a failed write, or a read that finds the device hung up,
\* ends it and its outbox goes with it.  Then the first of those waiting is
\* accepted if there is no device, and every other one is turned away.
Service(w, box, took, room) ==
    LET there == serEnd.device # None
        fails == there /\ ~w.up /\ took < Len(box)
        n     == IF ~there \/ fails THEN 0
                 ELSE IF Len(w.typed) < room THEN Len(w.typed) ELSE room
        gone  == there /\ ~w.up /\ (fails \/ n < room)
        stays == IF gone THEN None ELSE serEnd.device
        next  == IF stays = None /\ Waiting(w) # <<>> THEN Head(Waiting(w)) ELSE stays
    IN  [device |-> next,
         outbox |-> IF gone THEN <<>> ELSE SubSeq(box, took + 1, Len(box)),
         typed  |-> n,
         change |-> CASE ~there /\ next # None -> "plugged"
                      [] there /\ next = None -> "hung up"
                      [] OTHER -> "none",
         new    |-> next # stays]

Outgoing(p) == [i \in DOMAIN p.cable.outbound |-> [byte |-> p.cable.outbound[i].byte,
                                                   at |-> p.cable.outbound[i].at,
                                                   to |-> serWorld.last]]

CableAfter(p, w, s) ==
    [p EXCEPT !.cable.outbound = <<>>,
              !.cable.plugged = CASE s.change = "plugged" -> serNow
                                  [] s.change = "hung up" -> None
                                  [] OTHER -> @,
              !.cable.inbound = @ \o [i \in 1..s.typed |-> [at |-> serNow, byte |-> w.typed[i]]]]

\* The engines poll the port before a turn of the endpoint, so the cable moves
\* under a port that is up to the time.
SerialAttend ==
    \E whole \in BOOLEAN, w \in Since(serWorld) :
    LET p    == AdvanceSerial(serPort, serNow)
        box  == serEnd.outbox \o Outgoing(p)
        took == IF serEnd.device # None /\ whole THEN Len(box) ELSE 0
        pend == Len(p.cable.inbound)
        s    == Service(w, box, took, IF pend < SerialBacklog THEN SerialBacklog - pend ELSE 0)
    IN  /\ serPort' = CableAfter(p, w, s)
        /\ serFine' = CableAfter(AdvanceSerial(serFine, serNow), w, s)
        /\ serEnd' = [device |-> s.device, outbox |-> s.outbox]
        /\ serGot' = IF ~w.up THEN serGot
                     ELSE serGot \o [i \in 1..took |-> [dev |-> serEnd.device, sent |-> box[i].to]]
        /\ serWorld' = [w EXCEPT !.up = @ \/ s.new, !.last = IF s.new THEN s.device ELSE @,
                                 !.typed = IF s.device # serEnd.device THEN <<>>
                                           ELSE SubSeq(@, s.typed + 1, Len(@))]
        /\ UNCHANGED <<serNow, serOps>>

-----------------------------------------------------------------------------
\* The port as the driver sets it up at time 0: both mode registers, then a
\* command that resets the error flags.
SetUp(f, c) ==
    WriteSerial(WriteSerial(WriteSerial(PowerOn(NewCable), "mode", f, 0), "mode", TRUE, 0),
                "command", c, 0)

SerialInit ==
    /\ serNow = 0 /\ serOps = 0
    /\ serPort \in {PowerOn(NewCable)} \union
                      {SetUp(f, c) : f \in Framings, c \in {x \in Commands : x.reset}}
    /\ serFine = serPort
    /\ serEnd = [device |-> None, outbox |-> <<>>]
    /\ serWorld = [calls |-> 0, last |-> 0, up |-> FALSE, typed |-> <<>>, left |-> SerialTypes]
    /\ serGot = <<>>

SerialNext ==
    \/ SerialAccess \/ SerialTick \/ SerialResume \/ SerialAttend

-----------------------------------------------------------------------------
(* Properties. *)

ModemSeen(p) == Dsr(p) = p.dsrWas /\ Dcd(p) = p.dcdWas
InTime(q) == SortSeq(q, LAMBDA x, y : x.at < y.at \/ (x.at = y.at /\ x.byte < y.byte))
Chip(p) == [p EXCEPT !.cable.outbound = <<>>]
\* A port brought up to the time late stands where one brought up at every
\* tick does, and the readiness it foresees without moving is the readiness it
\* then has: "That the skipping changes nothing is held by ... a port at two
\* grains" (Pci::advance, tx_ready_at, rx_ready_at).
GrainsAgree ==
    LET late == AdvanceSerial(serPort, serNow)
        fine == AdvanceSerial(serFine, serNow)
    IN  /\ Chip(late) = Chip(fine)
        /\ InTime(late.cable.outbound) = InTime(fine.cable.outbound)
        /\ ModemSeen(serPort) =>
             LET s == Status(late)
             IN  /\ TxReadyAt(serPort, serNow) = s.txReady
                 /\ Looped(serPort) \/ RxReadyAt(serPort, serNow) = s.rxReady

\* No character sent to one device reaches a later one: "What the port sent and
\* the device never took goes with it" (Endpoint::service).
NotForTheNext == \A i \in DOMAIN serGot : serGot[i].sent \in {0, serGot[i].dev}
=============================================================================

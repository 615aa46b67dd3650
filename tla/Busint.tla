------------------------------- MODULE Busint -------------------------------
(***************************************************************************)
(* The bus interface of src/src/busint.rs: when the processor's -MEMRQ is  *)
(* granted and acknowledged, on the Xbus or through the arbitration of the *)
(* Unibus, against the debug master of the DBGIN connector; the refresh of *)
(* the memory boards; and DBGOUT, this machine's end of the debug cable as *)
(* the debugger.                                                           *)
(*                                                                         *)
(* The interface is a record, as it is a struct in the source, so that a   *)
(* module can hold one machine's or two.  An operator that is a &mut self  *)
(* method takes the record and gives the record it leaves.  Instants are   *)
(* those of the machine's clock; Never is u64::MAX.                        *)
(*                                                                         *)
(* Left out: the memory cache and the flat memory timing that a            *)
(* measurement may fit in front of a CADR's boards (MemoryPort has them    *)
(* for QUUX), and the 10 ns grid of the fpga timing model.                 *)
(***************************************************************************)
EXTENDS Integers, FiniteSets, FiniteSetsExt

CONSTANTS
    Boards,            \* the memory boards, model values
    SetupNs, XbusAckNs, UnibusSelectNs, UnibusAddressNs, UnibusAckNs,
    UnibusStrobeNs, DiagnosticNs, RegisterStrobeNs, UbXbusRequestNs,
    UbXbusReadAckNs, UbMdAckNs, MfinishdNs, GrantWithdrawNs, DebugSelectNs,
    DebugMsynNs, DebugReleaseNs, DebugOutRequestNs, IdleOutPromiseNs,
    FastCycleNs,       \* the shortest microcycle
    HalfVcoNs,         \* half the interval of the timeout's oscillator
    NxmIntervals,      \* intervals to NXM TIMEOUT, 5 on the board
    DebugIntervals,    \* the same referencing the other processor, 13
    CrystalNs,         \* the interval of a memory board's crystal
    CycleStages, BusyStages, TriggerStages, ReleaseStages, PowerOnEdge,
    RefreshNs,         \* the refresh one-shot
    FirstUsecNs, UsecNs, StraightNs, UsecLowNs   \* the I/O board's clocks

\* Every instant and interval is a count of nanoseconds; the oscillator and
\* the clocks have a period, and the debug master's SACK takes its time.  A
\* machine has memory.
ASSUME BusintAssumption ==
    /\ {SetupNs, XbusAckNs, UnibusSelectNs, UnibusAddressNs, UnibusAckNs,
        UnibusStrobeNs, DiagnosticNs, RegisterStrobeNs, UbXbusRequestNs,
        UbXbusReadAckNs, UbMdAckNs, MfinishdNs, GrantWithdrawNs, DebugMsynNs,
        DebugReleaseNs, DebugOutRequestNs, IdleOutPromiseNs, FastCycleNs,
        NxmIntervals, DebugIntervals, CycleStages, BusyStages, TriggerStages,
        ReleaseStages, PowerOnEdge, RefreshNs, FirstUsecNs, StraightNs,
        UsecLowNs} \subseteq Nat
    /\ Boards # {} /\ Boards \cap {"none", "noXbus", "device"} = {}
    /\ {DebugSelectNs, HalfVcoNs, CrystalNs, UsecNs} \subseteq Nat \ {0}

Never == 10000

Later(t, d) == IF t = Never THEN Never ELSE t + d

Earliest(S) == IF S = {} THEN Never ELSE Min(S)

Latest(a, b) == IF a < b THEN b ELSE a

-----------------------------------------------------------------------------
(* The oscillator of the timeout counter: high at zero, a toggle every half *)
(* interval, its output following it from the first fall after the enable.  *)

Toggle(t) == (t \div HalfVcoNs) + 1

FirstFall(t) == Toggle(t) + ((Toggle(t) + 1) % 2)

GatedRise(t) == (FirstFall(t) + 1) * HalfVcoNs

GatedRiseAfter(enabled, t) ==
    2 * HalfVcoNs * ((Latest(Toggle(t), FirstFall(enabled) + 1) + 1) \div 2)

TimeoutNs == NxmIntervals * 2 * HalfVcoNs

NxmTimeoutAt(granted) == GatedRise(granted) + TimeoutNs

DebugTimeoutAt(granted) == GatedRise(granted) + DebugIntervals * 2 * HalfVcoNs

-----------------------------------------------------------------------------
(* A memory board's twin.                                                   *)

Edge(j) == j * CrystalNs

EdgeAfter(t) == (t \div CrystalNs) + 1

PowerOnBoard ==
    LET off == Edge(PowerOnEdge + TriggerStages)
    IN  [idle |-> Edge(PowerOnEdge + BusyStages), release |-> 0,
         time |-> off + RefreshNs, stage |-> 0, rq |-> 0, reset |-> FALSE]

\* The edge that takes the refresh the synchronizer has asked for.
RefreshTaken(m) == EdgeAfter(Latest(m.rq, Latest(m.idle, m.release)))

RefreshDue(m, before) ==
    /\ m.stage = 2 /\ ~m.reset /\ m.release # Never
    /\ Edge(RefreshTaken(m)) < before

RefreshBefore(m, before) ==
    IF ~RefreshDue(m, before) THEN m ELSE
    LET taken == RefreshTaken(m)
    IN  [m EXCEPT !.idle  = Edge(taken + BusyStages),
                  !.time  = Edge(taken + TriggerStages) + RefreshNs,
                  !.stage = 0]

ShiftStage(m, now) ==
    LET shift == m.stage < 2 /\ now > m.time
    IN  [m EXCEPT !.stage = IF shift THEN @ + 1 ELSE @,
                  !.rq = IF shift /\ m.stage = 1 THEN now ELSE @]

XbusClock(m, now) ==
    ShiftStage(RefreshBefore(m, now), now)

BoardReset(m, now, on) ==
    IF on THEN [m EXCEPT !.reset = TRUE]
    ELSE IF m.stage # 2 THEN [m EXCEPT !.reset = FALSE]
    ELSE [m EXCEPT !.reset = FALSE, !.stage = 0, !.time = now + RefreshNs,
                   !.idle = Edge(EdgeAfter(now) + ReleaseStages)]

NextChange(m) ==
    IF m.stage < 2 THEN m.time + 1
    ELSE IF m.reset \/ m.release = Never THEN Never
    ELSE Edge(RefreshTaken(m)) + 1

RequestTaken(m, rq) ==
    LET taken == EdgeAfter(Latest(rq, m.idle))
    IN  [twin |-> [m EXCEPT !.idle = Edge(taken + BusyStages), !.release = Never],
         at |-> Edge(taken + CycleStages)]

\* A request at rq.  At most one refresh goes first: the synchronizer needs
\* two edges of the Xbus clock for the next.
BoardRequest(m, rq) ==
    RequestTaken(RefreshBefore(m, Edge(EdgeAfter(Latest(rq, m.idle))) + 1), rq)

-----------------------------------------------------------------------------
(* The I/O board's answer: a register that answers straight off, one that   *)
(* waits for two edges of the microsecond clock, and the counter's low half.*)

IoRegisters == {"clock", "keyboard", "usecLow"}

UsecEdgeAfter(t) ==
    IF t < FirstUsecNs THEN FirstUsecNs
    ELSE FirstUsecNs + (((t - FirstUsecNs) \div UsecNs) + 1) * UsecNs

IoAnswer(u, msyn) ==
    CASE u = "usecLow"  -> UsecEdgeAfter(msyn) + UsecLowNs
      [] u = "clock"    -> msyn + StraightNs
      [] u = "keyboard" -> UsecEdgeAfter(msyn) + UsecNs + StraightNs

\* ioboard::answers: the counter's halves take no write.
IoTakes(u, write) == ~(write /\ u = "usecLow")

-----------------------------------------------------------------------------
(* What answers: a memory board, or a name.                                 *)

XbusResponders == Boards \cup {"device", "noXbus"}

UnibusResponders == {"interface", "debug", "noUnibus"} \cup IoRegisters

MapResponders == {"mapBuffer", "mapXbus", "mapRefused", "mapMd"}

OnUnibus(r) == r \in UnibusResponders \cup MapResponders

Idle == [k |-> "idle"]

Requested == [k |-> "requested"]

Arbitrating(stage, sack) == [k |-> "arbitrating", stage |-> stage, sack |-> sack]

Granted(ack, loadmd, answered, out) ==
    [k |-> "granted", ack |-> ack, loadmd |-> loadmd, answered |-> answered,
     timedOut |-> out]

Quiet == [k |-> "idle"]

NoRequest == [strobe |-> "none", write |-> FALSE, dbd |-> "none", hold |-> 0]

\* The modifier register's bits: the timeout inhibit and the reset.
Inhibit == "inhibit"

Reset == "reset"

BusintNew ==
    [state |-> Idle, write |-> FALSE, memory |-> [k \in Boards |-> PowerOnBoard],
     board |-> "none", unibusMaster |-> FALSE, memrqUp |-> Never,
     debugSack |-> Never, msynDown |-> FALSE, needUb |-> FALSE, hold |-> 0,
     debug |-> Quiet, request |-> NoRequest, requestedAt |-> 0, grantedAt |-> 0,
     responder |-> "noUnibus", address |-> "noUnibus", modifier |-> {},
     freedAt |-> 0, debugAck |-> Never, debugAnswered |-> Never,
     cable |-> FALSE, out |-> Quiet, outPending |-> FALSE, outTimeout |-> Never,
     memoryNext |-> NextChange(PowerOnBoard)]

TwinsNext(memory) == Earliest({NextChange(memory[k]) : k \in Boards})

-----------------------------------------------------------------------------
(* The processor's requests.                                                *)

RequestAt(b, write) ==
    [b EXCEPT !.state = Requested, !.write = write, !.board = "none"]

WithTwins(b, memory) == [b EXCEPT !.memory = memory, !.memoryNext = TwinsNext(memory)]

UnibusReset(b, now, on) ==
    WithTwins(b, [k \in Boards |-> BoardReset(b.memory[k], now, on)])

WithTwin(b, k, twin) ==
    [b EXCEPT !.memory[k] = twin, !.memoryNext = Earliest({@, NextChange(twin)})]

Released(b, at) ==
    IF b.board = "none" THEN b
    ELSE WithTwin(b, b.board, [b.memory[b.board] EXCEPT !.release = at])

NxmTimeout(b, now) == IF Inhibit \in b.modifier THEN Never ELSE NxmTimeoutAt(now)

SackOff(b, now, at) == [b EXCEPT !.hold = IF at < now THEN 1 ELSE 2]

\* An Xbus cycle, granted at the edge that samples the request.
XbusAnswered(b, answered) ==
    LET ack == IF b.write THEN answered ELSE answered + XbusAckNs
    IN  [b EXCEPT !.state = Granted(ack, ack, answered, FALSE)]

BoardGrant(b, r, asked) == XbusAnswered([WithTwin(b, r, asked.twin) EXCEPT !.board = r], asked.at)

XbusGrant(b, now, r) ==
    LET rq  == now + SetupNs
        nxm == NxmTimeout(b, now)
    IN  CASE r = "noXbus" -> [b EXCEPT !.board = "none", !.grantedAt = now,
                                       !.state = Granted(nxm, nxm, rq, TRUE)]
          [] r \in Boards -> BoardGrant(b, r, BoardRequest(b.memory[r], rq))
          [] OTHER -> XbusAnswered([b EXCEPT !.board = "none"], rq)

\* LMUB GRANT: the address goes out and the slave answers -UB MSYN.
UnibusGrant(b, now, r) ==
    LET msyn == now + UnibusAddressNs
        nxm  == NxmTimeout(b, now)
        Answer(ssyn, answered, out) ==
            Granted(Later(ssyn, UnibusAckNs), Later(ssyn, UnibusStrobeNs), answered, out)
    IN  CASE r = "interface" ->
               [b EXCEPT !.state = Answer(msyn + DiagnosticNs,
                    msyn + (IF b.write THEN RegisterStrobeNs ELSE DiagnosticNs), FALSE)]
          [] r \in IoRegisters /\ IoTakes(r, b.write) ->
               LET ssyn == IoAnswer(r, msyn)
               IN  [b EXCEPT !.state =
                       Answer(ssyn, IF r = "usecLow" THEN msyn ELSE ssyn, FALSE)]
          [] r = "debug" /\ b.cable ->
               [b EXCEPT !.state = Answer(Never, Never, FALSE),
                         !.out = [k |-> "request", at |-> msyn + DebugOutRequestNs],
                         !.outPending = TRUE, !.outTimeout = DebugTimeoutAt(now)]
          [] r = "debug" /\ ~b.cable ->
               [b EXCEPT !.state = Answer(msyn, msyn, FALSE)]
          [] OTHER ->
               [b EXCEPT !.state = Answer(nxm, nxm, TRUE), !.grantedAt = now]

-----------------------------------------------------------------------------
(* What each end of the arbitration sees of the other.                      *)

DebugSackUp(b, now) ==
    \/ b.debug.k = "granted" /\ now >= b.debug.sack
    \/ b.debug.k = "selected"

DebugGrantOut(b) == b.debug.k \in {"granted", "selected"}

LmGrantOut(b) == b.state.k = "arbitrating" /\ b.state.stage \in {3, 7}

DebugHoldsBbsy_mut(b, now) == b.debug.k = "releasing" /\ now < b.debug.until

DebugHoldsBbsy(b, now) ==
    \/ b.debug.k = "master"
    \/ b.debug.k = "releasing" /\ now < b.debug.until

\* The processor's place in the arbitration, at an edge.  Stage 7 is
\* selected and waiting for the debug master to let go of -UB BBSY.
ArbitrationEdge(b, now, r) ==
    LET stage == b.state.stage
        sack  == b.state.sack
        At(n) == [b EXCEPT !.state = Arbitrating(n, sack)]
        freed == b.freedAt
    IN  CASE stage = 1 -> At(2)
          [] stage = 2 -> IF b.hold = 0 /\ ~DebugGrantOut(b) /\ b.debug.k # "nprd"
                          THEN [b EXCEPT !.state = Arbitrating(3, now + UnibusSelectNs)]
                          ELSE b
          [] stage = 3 -> IF now <= sack THEN b
                          ELSE IF DebugHoldsBbsy(b, now) THEN At(7)
                          ELSE [SackOff(At(4), now, now) EXCEPT !.unibusMaster = TRUE]
          [] stage = 4 -> At(5)
          [] stage = 7 -> IF DebugHoldsBbsy(b, now) THEN b
                          ELSE [SackOff(At(IF freed < now THEN 5 ELSE 4), now, freed)
                                  EXCEPT !.unibusMaster = TRUE]
          [] stage = 5 -> UnibusGrant(b, now, r)

-----------------------------------------------------------------------------
(* The debug master on DBGIN.                                               *)

\* A strobe's trailing edge loads its latch.  Lifting the inhibit lets the
\* counter of a cycle already given up on count from there.
TimesOutAt(nxm) == Granted(nxm + UnibusAckNs, nxm + UnibusStrobeNs, nxm, TRUE)

DebugLatch(b) ==
    LET req == b.request
    IN  CASE req.strobe = "address" -> [b EXCEPT !.address = req.dbd]
          [] req.strobe = "modifier" ->
               [b EXCEPT !.modifier = req.dbd,
                         !.state = IF /\ Inhibit \in b.modifier /\ Inhibit \notin req.dbd
                                      /\ @.k = "granted" /\ @.timedOut /\ @.ack = Never
                                   THEN TimesOutAt(TimeoutNs + GatedRiseAfter(b.grantedAt,
                                          Latest(b.requestedAt + req.hold, b.grantedAt)))
                                   ELSE @]
          [] req.strobe \in {"status", "cycle"} -> b

\* DBUB MASTER sets: the address out, -UB MSYN, and the slave's answer or
\* none, since no timeout runs for this master.
DebugAckAt(r, write, msyn) ==
    CASE r \in {"interface", "mapBuffer"} -> msyn + DiagnosticNs
      [] r \in IoRegisters /\ IoTakes(r, write) -> IoAnswer(r, msyn)
      [] OTHER -> Never

DebugAnsweredAt(r, write, msyn, ack) ==
    CASE r \in {"interface", "mapBuffer"} -> msyn + (IF write THEN RegisterStrobeNs ELSE DiagnosticNs)
      [] r \in IoRegisters /\ IoTakes(r, write) -> IF r = "usecLow" THEN msyn ELSE ack
      [] r = "mapRefused" -> msyn + UbXbusRequestNs
      [] OTHER -> Never

MasterUntil(b, now, ack, answered) ==
    [SackOff(b, now, now) EXCEPT
        !.debug = [k |-> "master", msyn |-> now + DebugMsynNs, ack |-> ack, answered |-> answered,
                   until |-> Later(ack, b.request.hold), xbus |-> 0],
        !.debugAck = ack, !.debugAnswered = answered]

MasterFrom(b, now, ack) ==
    MasterUntil(b, now, ack, DebugAnsweredAt(b.responder, b.request.write, now + DebugMsynNs, ack))

DebugSetMaster(b, now) ==
    MasterFrom(b, now, DebugAckAt(b.responder, b.request.write, now + DebugMsynNs))

\* The processor's cycle ending under the debug master's SACK gives it the
\* Unibus between two edges.
DebugTakes(b, now) ==
    IF /\ b.unibusMaster /\ b.memrqUp # Never
       /\ b.memrqUp >= b.debugSack /\ now >= b.memrqUp
       /\ DebugGrantOut(b)
    THEN DebugSetMaster([b EXCEPT !.unibusMaster = FALSE, !.needUb = FALSE,
                                  !.memrqUp = Never],
                        b.memrqUp + (IF b.debug.k = "granted" THEN GrantWithdrawNs ELSE 0))
    ELSE b

LiftStrobe(b, now) ==
    IF b.debug.k = "strobe" /\ now >= b.debug.until
    THEN [DebugLatch(b) EXCEPT !.debug = Quiet] ELSE b

LiftMaster(b, now) ==
    IF b.debug.k = "master" /\ now >= b.debug.until
    THEN [b EXCEPT !.freedAt = b.debug.until + DebugReleaseNs,
                   !.debug = [k |-> "releasing", until |-> b.debug.until + DebugReleaseNs]]
    ELSE b

FreeMaster(b, now) ==
    IF b.debug.k = "releasing" /\ now >= b.debug.until THEN [b EXCEPT !.debug = Quiet] ELSE b

DebugAdvance(b, now) ==
    IF b.debug.k = "idle" THEN b
    ELSE FreeMaster(LiftMaster(LiftStrobe(DebugTakes(b, now), now), now), now)

\* The Xbus half of a mapped access, or its load of MD.  The mapped page
\* is memory, on the first board or the last: any of them.
DebugXbusMaster(b, ack, answered) ==
    [b EXCEPT !.debugAck = ack, !.debugAnswered = answered, !.debug.ack = ack,
              !.debug.answered = answered, !.debug.xbus = 2, !.debug.until = Later(ack, b.request.hold)]

DebugXbusRelease(b, k, twin, ack) ==
    WithTwin(b, k, [twin EXCEPT !.release = ack + UnibusStrobeNs])

DebugXbusCycle(b, k, asked) ==
    LET ack == IF b.request.write THEN asked.at ELSE asked.at + XbusAckNs + UbXbusReadAckNs
    IN  DebugXbusRelease(DebugXbusMaster(WithTwin(b, k, asked.twin), ack, asked.at), k, asked.twin, ack)

DebugXbusEdge(b, now) ==
    LET d    == b.debug
        free == b.state.k \notin {"granted", "acked"}
    IN  CASE b.responder \notin {"mapXbus", "mapMd"} -> b
          [] b.responder \in {"mapXbus", "mapMd"} /\ d.xbus = 0 ->
               IF now > d.msyn + UbXbusRequestNs
               THEN [b EXCEPT !.debug.xbus = 1, !.debug.ack = Never, !.debug.answered = Never]
               ELSE b
          [] b.responder = "mapMd" /\ d.xbus = 1 /\ free ->
               DebugXbusMaster(b, now + UbMdAckNs, now)
          [] b.responder = "mapXbus" /\ d.xbus = 1 /\ free ->
               LET k == CHOOSE j \in Boards : TRUE
               IN  DebugXbusCycle(b, k, BoardRequest(b.memory[k], now + SetupNs))
          [] OTHER -> b

\* The debug master's synchronous steps.  A grant on its way to the
\* processor, its SACK not yet made, is the debug master's: it is first on
\* the chain.
DebugEdge(b, now) ==
    LET Select(c) == [c EXCEPT !.debugSack = now + DebugSelectNs,
                               !.debug = [k |-> "granted", sack |-> now + DebugSelectNs]]
    IN  CASE b.debug.k = "needUb" /\ now > b.requestedAt ->
               IF b.state.k = "arbitrating" /\ b.state.stage = 3 /\ now <= b.state.sack
               THEN Select([b EXCEPT !.state = Arbitrating(2, Never)])
               ELSE [b EXCEPT !.debug = [k |-> "nprd"]]
          [] b.debug.k = "nprd" /\ b.hold = 0 /\ ~LmGrantOut(b) -> Select(b)
          [] b.debug.k = "granted" /\ now > b.debug.sack /\ ~b.msynDown ->
               IF b.unibusMaster THEN [b EXCEPT !.debug = [k |-> "selected"]]
               ELSE DebugSetMaster(b, now)
          [] b.debug.k = "selected" /\ ~b.unibusMaster -> DebugSetMaster(b, now)
          [] b.debug.k = "master" -> DebugXbusEdge(b, now)
          [] OTHER -> b

\* A request on the cable at an instant that is not in the past; the caller
\* has found the cable idle.
DebugRequest(b, at, req, responder) ==
    LET c == DebugAdvance(b, at)
    IN  [c EXCEPT !.request = req, !.requestedAt = at, !.responder = responder,
                  !.debugAnswered = Never,
                  !.debugAck = IF req.strobe = "cycle" THEN Never ELSE at,
                  !.debug = IF req.strobe = "cycle" THEN [k |-> "needUb"]
                            ELSE [k |-> "strobe", until |-> at + req.hold]]

\* The request lifted with no acknowledgement had.
DebugRelease(b, at) ==
    CASE b.debug.k \in {"idle", "releasing"} -> b
      [] b.debug.k = "strobe" -> [DebugLatch(b) EXCEPT !.debug = Quiet]
      [] b.debug.k = "master" ->
           [b EXCEPT !.debugAck = IF at < b.debug.ack THEN Never ELSE @,
                     !.debugAnswered = IF at < b.debug.answered THEN Never ELSE @,
                     !.freedAt = at + DebugReleaseNs,
                     !.debug = [k |-> "releasing", until |-> at + DebugReleaseNs]]
      [] OTHER -> [b EXCEPT !.debug = Quiet]

DebugInPromise_mut(b, now) ==
    CASE b.debug.k \in {"needUb", "nprd", "granted", "selected"} ->
           Latest(now, b.requestedAt) + 3 * FastCycleNs + DebugMsynNs + DiagnosticNs
      [] b.debug.k = "master" -> b.debug.ack
      [] OTHER -> Never

\* What the debuggee promises: no DEBUG ACK before this instant.
DebugInPromise(b, now) ==
    CASE b.debug.k \in {"needUb", "nprd", "granted", "selected"} ->
           Latest(now, b.requestedAt) + DebugMsynNs + DiagnosticNs
      [] b.debug.k = "master" ->
           IF b.debug.ack = Never /\ b.debug.xbus < 2 /\ b.responder \in {"mapXbus", "mapMd"}
           THEN now + Earliest({SetupNs, UbMdAckNs}) ELSE b.debug.ack
      [] OTHER -> Never

-----------------------------------------------------------------------------
(* The master clock edge, whole.                                            *)

ClockTwins(b, now) ==
    IF now < b.memoryNext THEN b ELSE
    WithTwins(b, [k \in Boards |-> XbusClock(b.memory[k], now)])

\* LM NEED UB registered, and LMUB MASTER cleared by the other's SACK.
NeedUb(b, now) ==
    LET need == b.state.k \notin {"idle", "requested"}
    IN  [b EXCEPT !.hold = IF @ = 0 THEN 0 ELSE @ - 1, !.needUb = need,
                  !.unibusMaster = @ /\ (need \/ ~DebugSackUp(b, now))]

CycleEdge(b, now, r) ==
    CASE b.state.k = "requested" /\ OnUnibus(r) ->
           [b EXCEPT !.state = Arbitrating(IF b.unibusMaster THEN 4 ELSE 1, Never)]
      [] b.state.k = "requested" /\ ~OnUnibus(r) -> XbusGrant(b, now, r)
      [] b.state.k = "arbitrating" -> ArbitrationEdge(b, now, r)
      [] OTHER -> b

MclkEdge(b, now, r) ==
    LET down == [b EXCEPT !.msynDown = b.state.k \in {"granted", "acked"}]
    IN  DebugEdge(CycleEdge(NeedUb(DebugAdvance(ClockTwins(down, now), now), now), now, r), now)

-----------------------------------------------------------------------------
(* DBGOUT, and the end of a cycle.                                          *)

\* The other machine's DEBUG ACK: taken, or too late for this timeout.
DebugOutTaken(b, at) ==
    b.outPending /\ at < b.outTimeout /\ b.state.k = "granted" /\ b.state.ack = Never

DebugOutAnswer(b, at) ==
    IF ~DebugOutTaken(b, at) THEN b
    ELSE [b EXCEPT !.outPending = FALSE,
                   !.state = Granted(at + UnibusAckNs, at + UnibusStrobeNs, at, FALSE)]

\* What the debugger promises: no request and no release before this instant.
DebugOutPromise(b, now) ==
    IF b.outPending THEN Later(b.outTimeout, UnibusStrobeNs)
    ELSE IF b.state.k \in {"idle", "requested"} THEN now + IdleOutPromiseNs
    ELSE now + FastCycleNs + UnibusAddressNs + DebugOutRequestNs

\* The debugger's own NXM TIMEOUT on a cycle the other has not answered,
\* and -MEMACK, at the caller's look.
Poll(b, now) ==
    LET t == b.outTimeout
        a == IF b.outPending /\ now >= t
             THEN [b EXCEPT !.outPending = FALSE,
                            !.out = [k |-> "release", at |-> t + UnibusStrobeNs],
                            !.state = Granted(t + UnibusAckNs, t + UnibusStrobeNs, t, TRUE)]
             ELSE b
    IN  IF a.state.k = "granted" /\ now >= a.state.ack
        THEN [a EXCEPT !.state.k = "acked"] ELSE a

Acked(b) == b.state.k = "acked"

MemGrant(b) == b.state.k \in {"granted", "acked"}

Finish(b) ==
    [b EXCEPT !.state = Idle,
              !.memrqUp = IF b.state.k = "acked" THEN b.state.ack + MfinishdNs ELSE @]
=============================================================================

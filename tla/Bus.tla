-------------------------------- MODULE Bus --------------------------------
(***************************************************************************)
(* One CADR on rtl with a debugger on its DBGIN connector: the processor   *)
(* runs any instructions over its bus interface while the debugger puts    *)
(* strobes and cycles on the cable at any instant, gives up on them, and   *)
(* resets, stops and starts the machine.                                   *)
(***************************************************************************)
EXTENDS MemoryCycle, Sequences

CONSTANTS
    Programs,          \* the microcode: sequences of instructions
    Scripts,           \* what the debugger asks: sequences of requests
    Addresses,         \* what its address latch holds to begin with
    Ahead,             \* how far ahead of the machine a request may come
    Mapped,            \* the responders the Unibus map may give
    Horizon            \* the bound on the clock

Instructions ==
    [op : {"read", "write", "useMd", "loadMd", "plain"},
     at : XbusResponders \cup UnibusResponders \cup {"none"}, long : BOOLEAN]

IsRequest(q) ==
    /\ q = [strobe |-> q.strobe, write |-> q.write, dbd |-> q.dbd, hold |-> q.hold]
    /\ q.strobe \in {"modifier", "address", "status", "cycle"}
    /\ q.write \in BOOLEAN
    /\ q.hold \in Nat

ASSUME BusAssumption ==
    /\ Programs \subseteq Seq(Instructions)
    /\ \A s \in Scripts : s \in Seq({s[i] : i \in DOMAIN s})
    /\ \A s \in Scripts : \A i \in DOMAIN s : IsRequest(s[i])
    /\ Ahead \subseteq Nat

VARIABLES
    machine,
    program,           \* the instructions to come
    script,            \* the requests to come
    promised,          \* the latest promise made about the request's ack
    expect,            \* the word MD is to have: the last read's, or a load's
    cut                \* the debugger has reset the machine

busVars == <<machine, program, script, promised, expect, cut>>

BusInit ==
    /\ program \in Programs
    /\ \E a \in Addresses, m \in SUBSET {Inhibit} :
          machine = [MachineNew(Plain("plain", FALSE))
                        EXCEPT !.bus.address = a, !.bus.modifier = m]
    /\ script \in Scripts
    /\ promised = 0
    /\ expect = 0
    /\ cut = FALSE

\* A cycle went out as a read: MD is to be its word.  A load of MD in the
\* microcycle that starts it comes first.
Expected(c, d) ==
    IF d.started > c.started /\ ~d.bus.write THEN d.started
    ELSE IF Executes(c) /\ c.ir.op = "loadMd" THEN 0 ELSE expect

Promised(p) == IF p = Never THEN promised ELSE Latest(promised, p)

\* After its program the machine runs instructions that leave memory alone.
RunStep(limit) ==
    /\ machine.ns < Horizon
    /\ machine' = Step(machine, limit,
                       IF program = <<>> THEN Plain("plain", FALSE) ELSE Head(program))
    /\ program' = IF Executes(machine) /\ program # <<>> THEN Tail(program) ELSE program
    /\ promised' = Promised(DebugInPromise(machine'.bus, machine'.ns))
    /\ expect' = Expected(machine, machine')
    /\ cut' = (cut \/ machine'.debugReset)
    /\ UNCHANGED script

CableRequest(at, responder) ==
    /\ CableIdle(machine, at)
    /\ machine' = TryDebugRequest(machine, at, Head(script), responder)
    /\ script' = Tail(script)
    /\ promised' = 0
    /\ UNCHANGED <<program, expect, cut>>

CableRelease(at) ==
    /\ machine.bus.debug.k \notin {"idle", "releasing"}
    /\ machine.answer = Never
    /\ machine' = TryDebugRelease(machine, at)
    /\ UNCHANGED <<program, script, promised, expect, cut>>

\* What answers the address the latches hold: through the map, any entry.
Answers(req) ==
    IF machine.bus.address = "map"
    THEN {r \in Mapped : r = "mapMd" => req.write} ELSE {machine.bus.address}

Done == machine.ns >= Horizon /\ UNCHANGED busVars

BusNext ==
    \/ RunStep(Never)
    \/ (machine.held \/ Hang(machine)) /\ RunStep(machine.ns + 1)
    \/ /\ script # <<>>
       /\ \E ahead \in Ahead, r \in Answers(Head(script)) :
             CableRequest(machine.ns + ahead, r)
    \/ CableRelease(machine.ns)
    \/ Done

BusSpec == BusInit /\ [][BusNext]_busVars

-----------------------------------------------------------------------------
(* The bus in a checkpoint: Busint::save and Rtl::save write their fields   *)
(* in one order, an enum as a tag and its fields, and the loads take them   *)
(* back by position into a machine built afresh.  A component's stream is   *)
(* one element of the stream that holds it.  The fields are those of        *)
(* MemoryCycle.                                                             *)

BoardSave(m) == <<m.idle, m.release, m.time, m.stage, m.rq, m.reset>>

BoardLoad(s) ==
    [idle |-> s[1], release |-> s[2], time |-> s[3], stage |-> s[4], rq |-> s[5],
     reset |-> s[6]]

StateSave(s) ==
    CASE s.k = "idle"        -> <<0>>
      [] s.k = "requested"   -> <<1>>
      [] s.k = "arbitrating" -> <<2, s.stage, s.sack>>
      [] s.k = "granted"     -> <<3, s.ack, s.loadmd, s.answered, s.timedOut>>
      [] s.k = "acked"       -> <<4, s.ack, s.loadmd, s.answered, s.timedOut>>

StateLoad(s) ==
    CASE s[1] = 0 -> Idle
      [] s[1] = 1 -> Requested
      [] s[1] = 2 -> Arbitrating(s[2], s[3])
      [] s[1] = 3 -> Granted(s[2], s[3], s[4], s[5])
      [] s[1] = 4 -> [Granted(s[2], s[3], s[4], s[5]) EXCEPT !.k = "acked"]

DebugKinds == <<"idle", "strobe", "needUb", "nprd", "granted", "selected", "master",
                "releasing">>

DebugSave(d) ==
    CASE d.k = "idle"      -> <<1>>
      [] d.k = "strobe"    -> <<2, d.until>>
      [] d.k = "needUb"    -> <<3>>
      [] d.k = "nprd"      -> <<4>>
      [] d.k = "granted"   -> <<5, d.sack>>
      [] d.k = "selected"  -> <<6>>
      [] d.k = "master"    -> <<7, d.msyn, d.ack, d.answered, d.until, d.xbus>>
      [] d.k = "releasing" -> <<8, d.until>>

DebugLoad(s) ==
    LET k == DebugKinds[s[1]]
    IN  CASE k \in {"idle", "needUb", "nprd", "selected"} -> [k |-> k]
          [] k \in {"strobe", "releasing"} -> [k |-> k, until |-> s[2]]
          [] k = "granted" -> [k |-> k, sack |-> s[2]]
          [] k = "master" -> [k |-> k, msyn |-> s[2], ack |-> s[3], answered |-> s[4],
                              until |-> s[5], xbus |-> s[6]]

RequestSave(r) == <<r.strobe, r.write, r.dbd, r.hold>>

RequestLoad(s) == [strobe |-> s[1], write |-> s[2], dbd |-> s[3], hold |-> s[4]]

OutSave(o) == IF o.k = "idle" THEN <<>> ELSE <<o.k, o.at>>

OutLoad(s) == IF s = <<>> THEN Quiet ELSE [k |-> s[1], at |-> s[2]]

BusintSave(b) ==
    <<StateSave(b.state), b.write, [k \in Boards |-> BoardSave(b.memory[k])], b.board,
      b.unibusMaster, b.memrqUp, b.debugSack, b.msynDown, b.needUb, b.hold,
      DebugSave(b.debug), RequestSave(b.request), b.requestedAt, b.grantedAt,
      b.responder, b.address, b.modifier, b.freedAt, b.debugAck, b.debugAnswered,
      b.cable, OutSave(b.out), b.outPending, b.outTimeout, b.memoryNext>>

BusintLoad(s) ==
    [state |-> StateLoad(s[1]), write |-> s[2],
     memory |-> [k \in Boards |-> BoardLoad(s[3][k])], board |-> s[4],
     unibusMaster |-> s[5], memrqUp |-> s[6], debugSack |-> s[7], msynDown |-> s[8],
     needUb |-> s[9], hold |-> s[10], debug |-> DebugLoad(s[11]),
     request |-> RequestLoad(s[12]), requestedAt |-> s[13], grantedAt |-> s[14],
     responder |-> s[15], address |-> s[16], modifier |-> s[17], freedAt |-> s[18],
     debugAck |-> s[19], debugAnswered |-> s[20], cable |-> s[21],
     out |-> OutLoad(s[22]), outPending |-> s[23], outTimeout |-> s[24],
     memoryNext |-> s[25]]

RtlSave(c) ==
    <<c.md, c.run, c.vma, c.ir, c.srun, c.pulsed, c.memstart, c.mbusy, c.rdcyc, c.wrcyc,
      BusintSave(c.bus), c.mbusySync, c.written, c.responder, c.reading, c.finishAt,
      c.clearAt, c.acked, c.debugSampled, c.debugWritten, c.answer, c.debugReset,
      c.held, c.started, c.ns, c.word, c.loadmdAt>>

RtlLoad_mut(s) ==
    [md |-> s[1], run |-> s[2], vma |-> s[3], ir |-> s[4], srun |-> s[5],
     pulsed |-> s[6], memstart |-> s[7], mbusy |-> s[8], rdcyc |-> s[10], wrcyc |-> s[9],
     bus |-> BusintLoad(s[11]), mbusySync |-> s[12], written |-> s[13],
     responder |-> s[14], reading |-> s[15], finishAt |-> s[16], clearAt |-> s[17],
     acked |-> s[18], debugSampled |-> s[19], debugWritten |-> s[20],
     answer |-> s[21], debugReset |-> s[22], held |-> s[23], started |-> s[24],
     ns |-> s[25], word |-> s[26], loadmdAt |-> s[27]]

RtlLoad(s) ==
    [md |-> s[1], run |-> s[2], vma |-> s[3], ir |-> s[4], srun |-> s[5],
     pulsed |-> s[6], memstart |-> s[7], mbusy |-> s[8], rdcyc |-> s[9], wrcyc |-> s[10],
     bus |-> BusintLoad(s[11]), mbusySync |-> s[12], written |-> s[13],
     responder |-> s[14], reading |-> s[15], finishAt |-> s[16], clearAt |-> s[17],
     acked |-> s[18], debugSampled |-> s[19], debugWritten |-> s[20],
     answer |-> s[21], debugReset |-> s[22], held |-> s[23], started |-> s[24],
     ns |-> s[25], word |-> s[26], loadmdAt |-> s[27]]

-----------------------------------------------------------------------------

BusTypeOK ==
    /\ machine.ns \in Nat
    /\ machine.bus.state.k \in {"idle", "requested", "arbitrating", "granted", "acked"}
    /\ machine.bus.debug.k \in {"idle", "strobe", "needUb", "nprd", "granted",
                                "selected", "master", "releasing"}
    /\ machine.bus.hold \in 0..2
    /\ machine.responder \in XbusResponders \cup UnibusResponders
    /\ \A k \in Boards : machine.bus.memory[k].stage \in 0..2
    /\ promised \in 0..Never
    /\ expect \in 0..machine.started

\* The processor is on the Unibus, its address out, from LMUB GRANT until
\* its -MEMRQ goes up.
ProcessorOnUnibus ==
    machine.bus.state.k = "granted" /\ OnUnibus(machine.responder) /\ machine.mbusy

\* The processor and the debug master are never both driving the Unibus:
\* UBMAST gives it to one at a time, however the SACKs, the BBSY and the
\* end of a cycle fall between the edges.
OneUnibusMaster ==
    ~(machine.bus.debug.k = "master" /\ ProcessorOnUnibus)

\* An instruction that uses MD gets the word of the last read that went
\* out, or what was loaded over it: -WAIT and -HANG hold it long enough,
\* whatever answers, times out or is arbitrated meanwhile.  The microcycle
\* right after a start is before the cycle: it reads the MD of before it.
MdIsItsRead ==
    Executes(machine) /\ use_md(machine) /\ ~machine.memstart /\ ~cut
        => Carried(machine, machine.ns).md = expect

\* A write has reached its slave by the time the processor has its bus
\* back: MBUSY never falls on a word still to land.
WriteLandsFirst ==
    machine.bus.write /\ ~machine.mbusy /\ ~cut => machine.written

\* No twin of a memory board changes before the instant the interface has
\* put by to look at the boards again.
TwinsNotMissed == machine.bus.memoryNext <= TwinsNext(machine.bus.memory)

\* DEBUG ACK never rises before the instant the debuggee has promised.
PromiseKept == machine.answer # Never => machine.answer >= promised

\* A memory board keeps its refresh waiting only while a cycle is on it:
\* once the cycle is over, reset or not, the board has its release.
RefreshNotHeld ==
    \A k \in Boards : machine.bus.memory[k].release = Never
        => machine.bus.board = k /\ MemGrant(machine.bus)

\* A cycle has no end in sight only while the debugger inhibits its timeout:
\* lifting the inhibit starts the count of a cycle it had stopped.
InhibitIsLifted ==
    machine.bus.state.k = "granted" /\ machine.bus.state.ack = Never
        => Inhibit \in machine.bus.modifier

\* A checkpoint taken between any two steps resumes to the same machine:
\* the loads take back every field the cycle in progress, the debug master
\* and the boards' timers depend on, in the order the saves wrote them.
ResumesTheSame == RtlLoad(RtlSave(machine)) = machine
=============================================================================

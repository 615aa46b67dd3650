------------------------------ MODULE BusProofs ------------------------------
(***************************************************************************)
(* Theorems of Bus, for any programs, scripts, boards and instants: the    *)
(* Unibus has one master, no twin of a memory board is missed, and a       *)
(* checkpoint resumes to the same machine.                                 *)
(*                                                                         *)
(* The invariant is BusSafe: the interface is one of Busints, and BusInv   *)
(* holds of it and of the responder of the processor's cycle.  UBMAST is   *)
(* the processor's from its SACK to the end of its cycle (Selected), and   *)
(* never while the debug master has it (Apart); one grant is out at a time *)
(* (GrantsApart).  The debug master takes the bus between two edges only   *)
(* when the processor's cycle ended under its SACK (Taken), which is when  *)
(* there is no cycle (Free); the look at an edge comes after -MEMRQ went   *)
(* up (Timed), so no edge finds the bus still to be taken.  The lemmas     *)
(* follow the code: one per operation of the interface, then one per       *)
(* operation of the machine.                                               *)
(***************************************************************************)
EXTENDS Bus, WellFoundedInduction, NaturalsInduction, TLAPS

-----------------------------------------------------------------------------
(* What the records hold. *)

Twins == [idle : Nat, release : Nat, time : Nat, stage : {0, 1, 2}, rq : Nat,
          reset : BOOLEAN]

Cycles == [k : {"granted", "acked"}, ack : Nat, loadmd : Nat, answered : Nat,
           timedOut : BOOLEAN]

Arbitrations == [k : {"arbitrating"}, stage : {1, 2, 3, 4, 5, 7}, sack : Nat]

States == {Idle, Requested} \cup Arbitrations \cup Cycles

Masters == [k : {"master"}, msyn : Nat, ack : Nat, answered : Nat, until : Nat,
            xbus : {0, 1, 2}]

Debugs == [k : {"idle", "needUb", "nprd", "selected"}] \cup [k : {"granted"}, sack : Nat]
            \cup [k : {"strobe", "releasing"}, until : Nat] \cup Masters

Data == {q.dbd : q \in UNION {{s[i] : i \in DOMAIN s} : s \in Scripts}}
          \cup Addresses \cup {"none", "noUnibus"} \cup (SUBSET {Inhibit})

Requests == [strobe : {"none", "modifier", "address", "status", "cycle"},
             write : BOOLEAN, dbd : Data, hold : Nat]

Busints ==
  [state : States, write : BOOLEAN, memory : [Boards -> Twins],
   board : Boards \cup {"none"}, unibusMaster : BOOLEAN, memrqUp : Nat,
   debugSack : Nat, msynDown : BOOLEAN, needUb : BOOLEAN, hold : {0, 1, 2},
   debug : Debugs, request : Requests, requestedAt : Nat, grantedAt : Nat,
   responder : Data \cup Mapped, address : Data, modifier : Data, freedAt : Nat,
   debugAck : Nat, debugAnswered : Nat, cable : {FALSE}, out : {Quiet},
   outPending : {FALSE}, outTimeout : Nat, memoryNext : Nat]

-----------------------------------------------------------------------------
(* Instants. *)

LEMMA Constants ==
  /\ SetupNs \in Nat /\ XbusAckNs \in Nat /\ UnibusSelectNs \in Nat
  /\ UnibusAddressNs \in Nat /\ UnibusAckNs \in Nat /\ UnibusStrobeNs \in Nat
  /\ DiagnosticNs \in Nat /\ RegisterStrobeNs \in Nat /\ UbXbusRequestNs \in Nat
  /\ UbXbusReadAckNs \in Nat /\ UbMdAckNs \in Nat /\ MfinishdNs \in Nat
  /\ GrantWithdrawNs \in Nat /\ DebugMsynNs \in Nat /\ DebugReleaseNs \in Nat
  /\ DebugOutRequestNs \in Nat /\ NxmIntervals \in Nat /\ DebugIntervals \in Nat
  /\ CycleStages \in Nat /\ BusyStages \in Nat /\ TriggerStages \in Nat
  /\ ReleaseStages \in Nat /\ PowerOnEdge \in Nat /\ RefreshNs \in Nat
  /\ FirstUsecNs \in Nat /\ StraightNs \in Nat /\ UsecLowNs \in Nat
  /\ DebugSelectNs \in Nat /\ DebugSelectNs > 0 /\ HalfVcoNs \in Nat /\ HalfVcoNs > 0
  /\ CrystalNs \in Nat /\ CrystalNs > 0 /\ UsecNs \in Nat /\ UsecNs > 0
  /\ CycleNs \in Nat /\ LongNs \in Nat /\ RdFinishNs \in Nat
  /\ Never \in Nat
  BY BusintAssumption, MemoryAssumption DEF Never

LEMMA Arithmetic ==
  /\ \A a, b \in Nat : a + b \in Nat /\ a * b \in Nat /\ a % 2 \in Nat
  /\ \A a, d \in Nat : d > 0 => a \div d \in Nat
  /\ \A a, b \in Nat : Later(a, b) \in Nat /\ Latest(a, b) \in Nat
                       /\ Latest(a, b) >= a /\ Latest(a, b) >= b
<1>1. \A a, b \in Nat : a + b \in Nat /\ a * b \in Nat /\ a % 2 \in Nat
  OBVIOUS
<1>2. \A a, d \in Nat : d > 0 => a \div d \in Nat
  OBVIOUS
<1>3. QED BY <1>1, <1>2 DEF Later, Latest, Never

LEMMA Half == \A a \in Nat : (a + 1) \div 2 \in Nat
  OBVIOUS

LEMMA Times ==
  \A t \in Nat :
    /\ Toggle(t) \in Nat /\ FirstFall(t) \in Nat /\ GatedRise(t) \in Nat
    /\ NxmTimeoutAt(t) \in Nat /\ DebugTimeoutAt(t) \in Nat /\ TimeoutNs \in Nat
    /\ Edge(t) \in Nat /\ EdgeAfter(t) \in Nat /\ UsecEdgeAfter(t) \in Nat
    /\ \A e \in Nat : GatedRiseAfter(e, t) \in Nat
<1> SUFFICES ASSUME NEW t \in Nat
             PROVE  /\ Toggle(t) \in Nat /\ FirstFall(t) \in Nat /\ GatedRise(t) \in Nat
                    /\ NxmTimeoutAt(t) \in Nat /\ DebugTimeoutAt(t) \in Nat /\ TimeoutNs \in Nat
                    /\ Edge(t) \in Nat /\ EdgeAfter(t) \in Nat /\ UsecEdgeAfter(t) \in Nat
                    /\ \A e \in Nat : GatedRiseAfter(e, t) \in Nat
  OBVIOUS
<1>1. \A x \in Nat : Toggle(x) \in Nat
  BY Constants, Arithmetic DEF Toggle
<1>2. \A x \in Nat : FirstFall(x) \in Nat
  BY <1>1, Arithmetic DEF FirstFall
<1>3. GatedRise(t) \in Nat
  BY <1>2, Constants, Arithmetic DEF GatedRise
<1>4. TimeoutNs \in Nat /\ DebugIntervals * 2 * HalfVcoNs \in Nat
  <2>1. NxmIntervals * 2 \in Nat /\ DebugIntervals * 2 \in Nat
    BY Constants
  <2>2. QED BY <2>1, Constants, Arithmetic DEF TimeoutNs
<1>5. NxmTimeoutAt(t) \in Nat /\ DebugTimeoutAt(t) \in Nat
  BY <1>3, <1>4, Arithmetic DEF NxmTimeoutAt, DebugTimeoutAt
<1>6. Edge(t) \in Nat /\ EdgeAfter(t) \in Nat
  BY Constants, Arithmetic DEF Edge, EdgeAfter
<1>7. UsecEdgeAfter(t) \in Nat
  <2>1. CASE t < FirstUsecNs
    BY <2>1, Constants DEF UsecEdgeAfter
  <2>2. CASE ~(t < FirstUsecNs)
    <3>1. t - FirstUsecNs \in Nat
      BY <2>2, Constants
    <3>2. ((t - FirstUsecNs) \div UsecNs) + 1 \in Nat
      BY <3>1, Constants, Arithmetic
    <3>3. (((t - FirstUsecNs) \div UsecNs) + 1) * UsecNs \in Nat
      BY <3>2, Constants, Arithmetic
    <3>4. QED BY <2>2, <3>3, Constants, Arithmetic DEF UsecEdgeAfter
  <2>3. QED BY <2>1, <2>2
<1>8. ASSUME NEW e \in Nat PROVE GatedRiseAfter(e, t) \in Nat
  <2> DEFINE x == Latest(Toggle(t), FirstFall(e) + 1)
  <2>1. x \in Nat BY <1>1, <1>2, Arithmetic
  <2>2. GatedRiseAfter(e, t) = 2 * HalfVcoNs * ((x + 1) \div 2)
    BY DEF GatedRiseAfter
  <2> HIDE DEF x
  <2>3. 2 * HalfVcoNs \in Nat /\ (x + 1) \div 2 \in Nat
    BY <2>1, Half, Constants
  <2>4. QED BY <2>2, <2>3, Arithmetic
<1>9. QED BY <1>1, <1>2, <1>3, <1>4, <1>5, <1>6, <1>7, <1>8

LEMMA IoAnswers == \A u \in IoRegisters, t \in Nat : IoAnswer(u, t) \in Nat
<1> SUFFICES ASSUME NEW u \in IoRegisters, NEW t \in Nat PROVE IoAnswer(u, t) \in Nat
  OBVIOUS
<1>1. UsecEdgeAfter(t) \in Nat BY Times
<1>2. QED BY <1>1, Constants, Arithmetic DEF IoRegisters, IoAnswer

LEMMA Smallest ==
  ASSUME NEW X, X \subseteq Nat, X # {}
  PROVE  \E x \in X : \A y \in X : x <= y
<1>1. \A x, y \in Nat : x < y => <<x, y>> \in OpToRel(<, Nat)
  BY DEF OpToRel
<1>2. PICK R : IsWellFoundedOn(R, Nat) /\ \A x, y \in Nat : x < y => <<x, y>> \in R
  BY <1>1, NatLessThanWellFounded
<1>3. IsWellFoundedOn(R, Nat)
  BY <1>2
<1>4. PICK x \in X : \A y \in X : ~(<<y, x>> \in R)
  BY <1>3, WFMin
<1>5. \A y \in X : x <= y
  <2> SUFFICES ASSUME NEW y \in X PROVE x <= y
    OBVIOUS
  <2>1. x \in Nat /\ y \in Nat
    OBVIOUS
  <2>2. ~(y < x)
    BY <1>2, <1>4, <2>1
  <2>3. QED BY <2>1, <2>2
<1>6. QED BY <1>5

\* What Earliest gives: none of the instants comes before it.
LEMMA Least ==
  ASSUME NEW S \in SUBSET Nat
  PROVE  /\ Earliest(S) \in Nat
         /\ S # {} => Earliest(S) \in S /\ \A x \in S : Earliest(S) <= x
<1>1. CASE S = {}
  BY <1>1, Constants DEF Earliest
<1>2. CASE S # {}
  <2>1. \E x \in S : \A y \in S : x <= y
    BY <1>2, Smallest
  <2>2. Min(S) \in S /\ \A y \in S : Min(S) <= y
    BY <2>1 DEF Min
  <2>3. QED BY <1>2, <2>2 DEF Earliest
<1>3. QED BY <1>1, <1>2
-----------------------------------------------------------------------------
(* The memory boards. *)

LEMMA TwinFields ==
  \A m \in Twins :
    /\ m.idle \in Nat /\ m.release \in Nat /\ m.time \in Nat
    /\ m.stage \in {0, 1, 2} /\ m.rq \in Nat /\ m.reset \in BOOLEAN
  BY DEF Twins

LEMMA TwinsPowerOn == PowerOnBoard \in Twins
<1>1. /\ Edge(PowerOnEdge + TriggerStages) + RefreshNs \in Nat
      /\ Edge(PowerOnEdge + BusyStages) \in Nat
  BY Times, Constants, Arithmetic
<1>2. QED BY <1>1 DEF PowerOnBoard, Twins

LEMMA TwinTimes ==
  \A m \in Twins : RefreshTaken(m) \in Nat /\ NextChange(m) \in Nat
<1> SUFFICES ASSUME NEW m \in Twins PROVE RefreshTaken(m) \in Nat /\ NextChange(m) \in Nat
  OBVIOUS
<1>1. RefreshTaken(m) \in Nat
  BY TwinFields, Times, Arithmetic DEF RefreshTaken
<1>2. NextChange(m) \in Nat
  BY <1>1, TwinFields, Times, Constants, Arithmetic DEF NextChange
<1>3. QED BY <1>1, <1>2

LEMMA TwinRefresh == \A m \in Twins, t \in Nat : RefreshBefore(m, t) \in Twins
<1> SUFFICES ASSUME NEW m \in Twins, NEW t \in Nat PROVE RefreshBefore(m, t) \in Twins
  OBVIOUS
<1> DEFINE taken == RefreshTaken(m)
<1>1. taken \in Nat BY TwinTimes
<1> HIDE DEF taken
<1>2. /\ Edge(taken + BusyStages) \in Nat
      /\ Edge(taken + TriggerStages) + RefreshNs \in Nat
  BY <1>1, Times, Constants, Arithmetic
<1>3. [m EXCEPT !.idle = Edge(taken + BusyStages),
                !.time = Edge(taken + TriggerStages) + RefreshNs,
                !.stage = 0] \in Twins
  BY <1>2 DEF Twins
<1>4. QED BY <1>3 DEF RefreshBefore, taken

LEMMA TwinClock == \A m \in Twins, t \in Nat : XbusClock(m, t) \in Twins
<1> SUFFICES ASSUME NEW m \in Twins, NEW t \in Nat PROVE XbusClock(m, t) \in Twins
  OBVIOUS
<1>1. \A n \in Twins : ShiftStage(n, t) \in Twins
  <2> SUFFICES ASSUME NEW n \in Twins PROVE ShiftStage(n, t) \in Twins
    OBVIOUS
  <2> DEFINE shift == n.stage < 2 /\ t > n.time
             stage == IF shift THEN n.stage + 1 ELSE n.stage
             rq == IF shift /\ n.stage = 1 THEN t ELSE n.rq
  <2>1. stage \in {0, 1, 2} /\ rq \in Nat
    BY TwinFields
  <2>2. ShiftStage(n, t) = [n EXCEPT !.stage = stage, !.rq = rq]
    BY DEF ShiftStage
  <2> HIDE DEF stage, rq
  <2>3. QED BY <2>1, <2>2 DEF Twins
<1>2. QED BY <1>1, TwinRefresh DEF XbusClock

LEMMA TwinReset ==
  \A m \in Twins, t \in Nat, on \in BOOLEAN : BoardReset(m, t, on) \in Twins
<1> SUFFICES ASSUME NEW m \in Twins, NEW t \in Nat, NEW on \in BOOLEAN
             PROVE  BoardReset(m, t, on) \in Twins
  OBVIOUS
<1>1. t + RefreshNs \in Nat /\ Edge(EdgeAfter(t) + ReleaseStages) \in Nat
  BY Times, Constants, Arithmetic
<1>2. QED BY <1>1 DEF BoardReset, Twins

LEMMA TwinRequest ==
  \A m \in Twins, t \in Nat :
    BoardRequest(m, t).twin \in Twins /\ BoardRequest(m, t).at \in Nat
<1> SUFFICES ASSUME NEW m \in Twins, NEW t \in Nat
             PROVE  BoardRequest(m, t).twin \in Twins /\ BoardRequest(m, t).at \in Nat
  OBVIOUS
<1> DEFINE n == RefreshBefore(m, Edge(EdgeAfter(Latest(t, m.idle))) + 1)
<1>1. n \in Twins
  BY TwinFields, TwinRefresh, Times, Arithmetic
<1> DEFINE taken == EdgeAfter(Latest(t, n.idle))
<1>2. taken \in Nat BY <1>1, TwinFields, Times, Arithmetic
<1>3. /\ BoardRequest(m, t).at = Edge(taken + CycleStages)
      /\ BoardRequest(m, t).twin = [n EXCEPT !.idle = Edge(taken + BusyStages), !.release = Never]
  BY DEF BoardRequest, RequestTaken
<1> HIDE DEF n, taken
<1>4. Edge(taken + CycleStages) \in Nat /\ Edge(taken + BusyStages) \in Nat
  BY <1>2, Times, Constants, Arithmetic
<1>5. [n EXCEPT !.idle = Edge(taken + BusyStages), !.release = Never] \in Twins
  BY <1>1, <1>4, Constants DEF Twins
<1>6. QED BY <1>3, <1>4, <1>5
-----------------------------------------------------------------------------
(* The interface's record: what its fields are, and that it stays one when  *)
(* a field is replaced.                                                     *)

LEMMA BusintFields ==
  \A b \in Busints :
    /\ b.state \in States /\ b.memory \in [Boards -> Twins]
    /\ b.board \in Boards \cup {"none"} /\ b.hold \in {0, 1, 2}
    /\ b.debug \in Debugs /\ b.request \in Requests
    /\ b.responder \in Data \cup Mapped /\ b.address \in Data /\ b.modifier \in Data
    /\ b.memrqUp \in Nat /\ b.debugSack \in Nat /\ b.requestedAt \in Nat
    /\ b.grantedAt \in Nat /\ b.freedAt \in Nat /\ b.debugAck \in Nat
    /\ b.debugAnswered \in Nat /\ b.outTimeout \in Nat /\ b.memoryNext \in Nat
    /\ b.write \in BOOLEAN /\ b.unibusMaster \in BOOLEAN
    /\ b.msynDown \in BOOLEAN /\ b.needUb \in BOOLEAN
    /\ b.cable = FALSE /\ b.outPending = FALSE /\ b.out = Quiet
  BY DEF Busints

LEMMA StateSet == \A b \in Busints : \A x \in States : [b EXCEPT !.state = x] \in Busints
  BY Zenon DEF Busints

LEMMA WriteSet == \A b \in Busints : \A x \in BOOLEAN : [b EXCEPT !.write = x] \in Busints
  BY Zenon DEF Busints

LEMMA MemorySet == \A b \in Busints : \A x \in [Boards -> Twins] : [b EXCEPT !.memory = x] \in Busints
  BY Zenon DEF Busints

LEMMA BoardSet == \A b \in Busints : \A x \in Boards \cup {"none"} : [b EXCEPT !.board = x] \in Busints
  BY Zenon DEF Busints

LEMMA UnibusMasterSet == \A b \in Busints : \A x \in BOOLEAN : [b EXCEPT !.unibusMaster = x] \in Busints
  BY Zenon DEF Busints

LEMMA MemrqUpSet == \A b \in Busints : \A x \in Nat : [b EXCEPT !.memrqUp = x] \in Busints
  BY Zenon DEF Busints

LEMMA DebugSackSet == \A b \in Busints : \A x \in Nat : [b EXCEPT !.debugSack = x] \in Busints
  BY Zenon DEF Busints

LEMMA MsynDownSet == \A b \in Busints : \A x \in BOOLEAN : [b EXCEPT !.msynDown = x] \in Busints
  BY Zenon DEF Busints

LEMMA NeedUbSet == \A b \in Busints : \A x \in BOOLEAN : [b EXCEPT !.needUb = x] \in Busints
  BY Zenon DEF Busints

LEMMA HoldSet == \A b \in Busints : \A x \in {0, 1, 2} : [b EXCEPT !.hold = x] \in Busints
  BY Zenon DEF Busints

LEMMA DebugSet == \A b \in Busints : \A x \in Debugs : [b EXCEPT !.debug = x] \in Busints
  BY Zenon DEF Busints

LEMMA RequestSet == \A b \in Busints : \A x \in Requests : [b EXCEPT !.request = x] \in Busints
  BY Zenon DEF Busints

LEMMA RequestedAtSet == \A b \in Busints : \A x \in Nat : [b EXCEPT !.requestedAt = x] \in Busints
  BY Zenon DEF Busints

LEMMA GrantedAtSet == \A b \in Busints : \A x \in Nat : [b EXCEPT !.grantedAt = x] \in Busints
  BY Zenon DEF Busints

LEMMA ResponderSet == \A b \in Busints : \A x \in Data \cup Mapped : [b EXCEPT !.responder = x] \in Busints
  BY Zenon DEF Busints

LEMMA AddressSet == \A b \in Busints : \A x \in Data : [b EXCEPT !.address = x] \in Busints
  BY Zenon DEF Busints

LEMMA ModifierSet == \A b \in Busints : \A x \in Data : [b EXCEPT !.modifier = x] \in Busints
  BY Zenon DEF Busints

LEMMA FreedAtSet == \A b \in Busints : \A x \in Nat : [b EXCEPT !.freedAt = x] \in Busints
  BY Zenon DEF Busints

LEMMA DebugAckSet == \A b \in Busints : \A x \in Nat : [b EXCEPT !.debugAck = x] \in Busints
  BY Zenon DEF Busints

LEMMA DebugAnsweredSet == \A b \in Busints : \A x \in Nat : [b EXCEPT !.debugAnswered = x] \in Busints
  BY Zenon DEF Busints

LEMMA MemoryNextSet == \A b \in Busints : \A x \in Nat : [b EXCEPT !.memoryNext = x] \in Busints
  BY Zenon DEF Busints

-----------------------------------------------------------------------------
(* The two state machines of the interface. *)

LEMMA StateFields ==
  \A s \in States :
    /\ s.k \in {"idle", "requested", "arbitrating", "granted", "acked"}
    /\ s.k = "arbitrating" => s.stage \in {1, 2, 3, 4, 5, 7} /\ s.sack \in Nat
    /\ s.k \in {"granted", "acked"} =>
         s.ack \in Nat /\ s.loadmd \in Nat /\ s.answered \in Nat /\ s.timedOut \in BOOLEAN
  BY DEF States, Idle, Requested, Arbitrations, Cycles

LEMMA StatesMade ==
  /\ Idle \in States /\ Requested \in States
  /\ \A n \in {1, 2, 3, 4, 5, 7}, t \in Nat : Arbitrating(n, t) \in States
  /\ \A a, l, n \in Nat, o \in BOOLEAN : Granted(a, l, n, o) \in States
  /\ \A s \in States : s.k \in {"granted", "acked"} => [s EXCEPT !.k = "acked"] \in States
<1>1. Idle \in States /\ Requested \in States
  BY DEF States
<1>2. \A n \in {1, 2, 3, 4, 5, 7}, t \in Nat : Arbitrating(n, t) \in States
  BY DEF States, Arbitrations, Arbitrating
<1>3. \A a, l, n \in Nat, o \in BOOLEAN : Granted(a, l, n, o) \in States
  BY DEF States, Cycles, Granted
<1>4. \A s \in States : s.k \in {"granted", "acked"} => [s EXCEPT !.k = "acked"] \in States
  <2> SUFFICES ASSUME NEW s \in States, s.k \in {"granted", "acked"}
               PROVE  [s EXCEPT !.k = "acked"] \in States
    OBVIOUS
  <2>1. s \in Cycles
    BY DEF States, Arbitrations, Idle, Requested
  <2>2. [s EXCEPT !.k = "acked"] \in Cycles
    BY <2>1 DEF Cycles
  <2>3. QED BY <2>2 DEF States
<1>5. QED BY <1>1, <1>2, <1>3, <1>4

LEMMA DebugFields ==
  \A d \in Debugs :
    /\ d.k \in {"idle", "strobe", "needUb", "nprd", "granted", "selected", "master", "releasing"}
    /\ d.k = "granted" => d.sack \in Nat
    /\ d.k \in {"strobe", "releasing", "master"} => d.until \in Nat
    /\ d.k = "master" => /\ d \in Masters /\ d.msyn \in Nat /\ d.ack \in Nat
                         /\ d.answered \in Nat /\ d.xbus \in {0, 1, 2}
  BY DEF Debugs, Masters

LEMMA DebugsMade ==
  /\ Quiet \in Debugs /\ Masters \subseteq Debugs
  /\ \A k \in {"needUb", "nprd", "selected"} : [k |-> k] \in Debugs
  /\ \A t \in Nat : /\ [k |-> "granted", sack |-> t] \in Debugs
                    /\ [k |-> "strobe", until |-> t] \in Debugs
                    /\ [k |-> "releasing", until |-> t] \in Debugs
  /\ \A m, a, n, u \in Nat, x \in {0, 1, 2} :
       [k |-> "master", msyn |-> m, ack |-> a, answered |-> n, until |-> u, xbus |-> x] \in Masters
  BY DEF Debugs, Masters, Quiet

LEMMA RequestFields ==
  \A q \in Requests :
    /\ q.strobe \in {"none", "modifier", "address", "status", "cycle"}
    /\ q.write \in BOOLEAN /\ q.dbd \in Data /\ q.hold \in Nat
  BY DEF Requests
-----------------------------------------------------------------------------
(* The invariant of an interface whose processor's cycle is at r. *)

\* The processor has UBMAST, or the debug master has: not both.
Apart(b) == b.unibusMaster => b.debug.k # "master"

\* The processor has it from its SACK to the end of its cycle.
Selected(b, r) ==
  /\ b.state.k = "arbitrating" /\ b.state.stage \in {4, 5} => b.unibusMaster
  /\ b.state.k \in {"granted", "acked"} /\ OnUnibus(r) => b.unibusMaster

\* One grant is out at a time, and only to a cycle of the Unibus.
GrantsApart(b) == LmGrantOut(b) => ~DebugGrantOut(b)

OnItsBus(b, r) == b.state.k = "arbitrating" => OnUnibus(r)

\* The debug master's grant is out and the processor's cycle has ended under
\* its SACK: the bus is the debug master's at the next look.
Taken(b) ==
  /\ b.unibusMaster /\ DebugGrantOut(b)
  /\ b.memrqUp # Never /\ b.memrqUp >= b.debugSack

Free(b) == b.state.k \in {"idle", "requested"}

TwinsSeen(b) == \A k \in Boards : b.memoryNext <= NextChange(b.memory[k])

\* A strobe on the cable is one of the latches'.
Strobed(b) == b.debug.k = "strobe" => b.request.strobe # "none"

BusInv(b, r) ==
  /\ b \in Busints /\ TwinsSeen(b) /\ Strobed(b)
  /\ Apart(b) /\ Selected(b, r) /\ GrantsApart(b) /\ OnItsBus(b, r)

\* What every step of the interface but a cycle's acknowledgement and its end
\* leaves: the instant -MEMRQ went up, and a cycle acknowledged.
Keeps(b, c) ==
  /\ c.memrqUp = b.memrqUp \/ c.memrqUp = Never
  /\ c.state.k = "acked" => c.state = b.state

\* A step that leaves the arbitration alone.
Aside(b, c) ==
  /\ c.state = b.state /\ c.debug = b.debug /\ c.memrqUp = b.memrqUp
  /\ c.unibusMaster = b.unibusMaster /\ c.debugSack = b.debugSack
  /\ c.request = b.request

LEMMA AsideKeeps ==
  \A b, c, r :
    /\ BusInv(b, r) /\ c \in Busints /\ TwinsSeen(c) /\ Aside(b, c)
    => /\ BusInv(c, r) /\ Keeps(b, c)
       /\ Taken(c) <=> Taken(b)
       /\ Free(c) <=> Free(b)
  BY DEF BusInv, Aside, Keeps, Taken, Free, Apart, Selected, GrantsApart, OnItsBus,
         Strobed, LmGrantOut, DebugGrantOut

LEMMA KeepsOn == \A b, c, d : Keeps(b, c) /\ Keeps(c, d) => Keeps(b, d)
  BY DEF Keeps
-----------------------------------------------------------------------------
(* One field replaced. *)

\* A step that replaces the state of the processor's cycle.
SameButState(b, c) ==
  /\ c.debug = b.debug /\ c.memrqUp = b.memrqUp
  /\ c.unibusMaster = b.unibusMaster /\ c.debugSack = b.debugSack
  /\ c.request = b.request

LEMMA StateTo ==
  ASSUME NEW b, NEW r, BusInv(b, r), NEW s \in States,
         s.k = "arbitrating" => OnUnibus(r),
         s.k = "arbitrating" /\ s.stage \in {4, 5} => b.unibusMaster,
         s.k \in {"granted", "acked"} /\ OnUnibus(r) => b.unibusMaster,
         s.k = "arbitrating" /\ s.stage \in {3, 7} => ~DebugGrantOut(b)
  PROVE  /\ BusInv([b EXCEPT !.state = s], r)
         /\ [b EXCEPT !.state = s].state = s
         /\ SameButState(b, [b EXCEPT !.state = s])
<1> DEFINE c == [b EXCEPT !.state = s]
<1>1. c \in Busints
  BY StateSet DEF BusInv
<1>2. /\ c.state = s /\ SameButState(b, c)
      /\ c.memory = b.memory /\ c.memoryNext = b.memoryNext
  BY DEF BusInv, Busints, SameButState
<1> HIDE DEF c
<1>3. TwinsSeen(c)
  BY <1>2 DEF BusInv, TwinsSeen
<1>4. Apart(c) /\ Selected(c, r) /\ GrantsApart(c) /\ OnItsBus(c, r) /\ Strobed(c)
  BY <1>2 DEF BusInv, Strobed, SameButState, Apart, Selected, GrantsApart, OnItsBus, LmGrantOut, DebugGrantOut
<1>5. BusInv(c, r)
  BY <1>1, <1>3, <1>4 DEF BusInv
<1>6. QED BY <1>2, <1>5 DEF c

\* One that replaces the debug master's.
SameButDebug(b, c) ==
  /\ c.state = b.state /\ c.memrqUp = b.memrqUp
  /\ c.unibusMaster = b.unibusMaster /\ c.debugSack = b.debugSack
  /\ c.request = b.request

LEMMA DebugTo ==
  ASSUME NEW b, NEW r, BusInv(b, r), NEW d \in Debugs,
         d.k = "master" => ~b.unibusMaster,
         d.k \in {"granted", "selected"} => ~LmGrantOut(b),
         d.k = "strobe" => b.request.strobe # "none"
  PROVE  /\ BusInv([b EXCEPT !.debug = d], r)
         /\ [b EXCEPT !.debug = d].debug = d
         /\ SameButDebug(b, [b EXCEPT !.debug = d])
<1> DEFINE c == [b EXCEPT !.debug = d]
<1>1. c \in Busints
  BY DebugSet DEF BusInv
<1>2. /\ c.debug = d /\ SameButDebug(b, c)
      /\ c.memory = b.memory /\ c.memoryNext = b.memoryNext
  BY DEF BusInv, Busints, SameButDebug
<1> HIDE DEF c
<1>3. TwinsSeen(c)
  BY <1>2 DEF BusInv, TwinsSeen
<1>4. Apart(c) /\ Selected(c, r) /\ GrantsApart(c) /\ OnItsBus(c, r) /\ Strobed(c)
  BY <1>2 DEF BusInv, Strobed, SameButDebug, Apart, Selected, GrantsApart, OnItsBus, LmGrantOut, DebugGrantOut
<1>5. BusInv(c, r)
  BY <1>1, <1>3, <1>4 DEF BusInv
<1>6. QED BY <1>2, <1>5 DEF c

\* One that replaces what neither of them looks at.
Other(b, c) == Aside(b, c) /\ c.memory = b.memory /\ c.memoryNext = b.memoryNext

LEMMA OtherIs ==
  \A b, c, r : BusInv(b, r) /\ c \in Busints /\ Other(b, c)
               => BusInv(c, r) /\ Aside(b, c)
  BY AsideKeeps DEF Other, BusInv, TwinsSeen

LEMMA OthersSet ==
  \A b \in Busints :
    /\ \A x \in {0, 1, 2} : Other(b, [b EXCEPT !.hold = x])
    /\ \A x \in BOOLEAN : Other(b, [b EXCEPT !.write = x])
    /\ \A x \in BOOLEAN : Other(b, [b EXCEPT !.msynDown = x])
    /\ \A x \in BOOLEAN : Other(b, [b EXCEPT !.needUb = x])
    /\ \A x \in Boards \cup {"none"} : Other(b, [b EXCEPT !.board = x])
    /\ \A x \in Nat : Other(b, [b EXCEPT !.requestedAt = x])
    /\ \A x \in Nat : Other(b, [b EXCEPT !.grantedAt = x])
    /\ \A x \in Nat : Other(b, [b EXCEPT !.freedAt = x])
    /\ \A x \in Nat : Other(b, [b EXCEPT !.debugAck = x])
    /\ \A x \in Nat : Other(b, [b EXCEPT !.debugAnswered = x])
    /\ \A x \in Data \cup Mapped : Other(b, [b EXCEPT !.responder = x])
    /\ \A x \in Data : Other(b, [b EXCEPT !.address = x])
    /\ \A x \in Data : Other(b, [b EXCEPT !.modifier = x])
  BY DEF Busints, Other, Aside
-----------------------------------------------------------------------------
(* The boards' twins. *)

LEMMA WithTwinsIs ==
  \A b \in Busints, memory \in [Boards -> Twins] :
    LET c == WithTwins(b, memory)
    IN  c \in Busints /\ TwinsSeen(c) /\ Aside(b, c)
<1> SUFFICES ASSUME NEW b \in Busints, NEW memory \in [Boards -> Twins]
             PROVE  LET c == WithTwins(b, memory)
                    IN  c \in Busints /\ TwinsSeen(c) /\ Aside(b, c)
  OBVIOUS
<1> DEFINE S == {NextChange(memory[k]) : k \in Boards}
           e == [b EXCEPT !.memory = memory]
           next == TwinsNext(memory)
           c == WithTwins(b, memory)
<1>1. S \in SUBSET Nat /\ S # {}
  BY TwinTimes, BusintAssumption
<1>2. next = Earliest(S)
  BY DEF TwinsNext
<1>3. next \in Nat /\ \A k \in Boards : next <= NextChange(memory[k])
  <2> HIDE DEF next, S
  <2>1. next \in Nat /\ \A x \in S : next <= x
    BY <1>1, <1>2, Least
  <2>2. QED BY <2>1 DEF S
<1>4. e \in Busints
  BY MemorySet
<1>5. c = [e EXCEPT !.memoryNext = next]
  BY DEF WithTwins
<1> HIDE DEF next, c
<1>6. c \in Busints
  <2> HIDE DEF e
  <2>1. QED BY <1>3, <1>4, <1>5, MemoryNextSet
<1>7. Aside(b, c) /\ c.memory = memory /\ c.memoryNext = next
  BY <1>5 DEF Aside, Busints
<1>8. TwinsSeen(c)
  BY <1>3, <1>7 DEF TwinsSeen
<1>9. QED BY <1>6, <1>7, <1>8 DEF c

LEMMA WithTwinIs ==
  \A b \in Busints, k \in Boards, twin \in Twins :
    TwinsSeen(b) => LET c == WithTwin(b, k, twin)
                    IN  c \in Busints /\ TwinsSeen(c) /\ Aside(b, c)
<1> SUFFICES ASSUME NEW b \in Busints, NEW k \in Boards, NEW twin \in Twins, TwinsSeen(b)
             PROVE  LET c == WithTwin(b, k, twin)
                    IN  c \in Busints /\ TwinsSeen(c) /\ Aside(b, c)
  OBVIOUS
<1> DEFINE S == {b.memoryNext, NextChange(twin)}
           memory == [b.memory EXCEPT ![k] = twin]
           e == [b EXCEPT !.memory = memory]
           next == Earliest({b.memoryNext, NextChange(twin)})
           c == WithTwin(b, k, twin)
<1>1. S \in SUBSET Nat /\ S # {}
  BY TwinTimes, BusintFields
<1>2. next \in Nat /\ next <= b.memoryNext /\ next <= NextChange(twin)
  <2>1. next = Earliest(S)
    OBVIOUS
  <2> HIDE DEF next, S
  <2>2. next \in Nat /\ \A x \in S : next <= x
    BY <1>1, <2>1, Least
  <2>3. QED BY <2>2 DEF S
<1>3. memory \in [Boards -> Twins] /\ \A j \in Boards : memory[j] = IF j = k THEN twin ELSE b.memory[j]
  BY BusintFields
<1>4. e \in Busints
  BY <1>3, MemorySet
<1>5. c = [e EXCEPT !.memoryNext = next]
  <2>1. e.memoryNext = b.memoryNext
    BY DEF Busints
  <2>2. QED BY <2>1 DEF WithTwin
<1> HIDE DEF next, c, memory
<1>6. c \in Busints
  <2> HIDE DEF e
  <2>1. QED BY <1>2, <1>4, <1>5, MemoryNextSet
<1>7. Aside(b, c) /\ c.memory = memory /\ c.memoryNext = next
  BY <1>5 DEF Aside, Busints
<1>8. TwinsSeen(c)
  <2> SUFFICES ASSUME NEW j \in Boards PROVE next <= NextChange(memory[j])
    BY <1>7 DEF TwinsSeen
  <2>1. CASE j = k BY <1>2, <1>3, <2>1
  <2>2. CASE j # k
    <3>1. /\ memory[j] = b.memory[j] /\ b.memoryNext <= NextChange(b.memory[j])
          /\ b.memoryNext \in Nat /\ NextChange(b.memory[j]) \in Nat
      BY <1>3, <2>2, BusintFields, TwinTimes DEF TwinsSeen
    <3>2. QED BY <1>2, <3>1
  <2>3. QED BY <2>1, <2>2
<1>9. QED BY <1>6, <1>7, <1>8 DEF c

LEMMA ReleasedIs ==
  ASSUME NEW b, NEW r, BusInv(b, r), NEW at \in Nat
  PROVE  BusInv(Released(b, at), r) /\ Aside(b, Released(b, at))
<1>0. b \in Busints /\ TwinsSeen(b) BY DEF BusInv
<1>1. CASE b.board = "none"
  BY <1>1 DEF Released, Aside
<1>2. CASE b.board # "none"
  <2> DEFINE twin == [b.memory[b.board] EXCEPT !.release = at]
  <2>1. b.board \in Boards /\ b.memory[b.board] \in Twins
    BY <1>0, <1>2, BusintFields
  <2>2. twin \in Twins
    BY <2>1 DEF Twins
  <2>3. Released(b, at) = WithTwin(b, b.board, twin)
    BY <1>2 DEF Released
  <2> HIDE DEF twin
  <2>4. QED BY <1>0, <2>1, <2>2, <2>3, WithTwinIs, AsideKeeps
<1>3. QED BY <1>1, <1>2

LEMMA UnibusResetIs ==
  ASSUME NEW b, NEW r, BusInv(b, r), NEW t \in Nat, NEW on \in BOOLEAN
  PROVE  BusInv(UnibusReset(b, t, on), r) /\ Aside(b, UnibusReset(b, t, on))
<1> DEFINE memory == [k \in Boards |-> BoardReset(b.memory[k], t, on)]
<1>1. b \in Busints BY DEF BusInv
<1>2. memory \in [Boards -> Twins]
  BY <1>1, BusintFields, TwinReset
<1>3. UnibusReset(b, t, on) = WithTwins(b, memory)
  BY DEF UnibusReset
<1> HIDE DEF memory
<1>4. QED BY <1>1, <1>2, <1>3, WithTwinsIs, AsideKeeps

LEMMA ClockTwinsIs ==
  ASSUME NEW b, NEW r, BusInv(b, r), NEW t \in Nat
  PROVE  BusInv(ClockTwins(b, t), r) /\ Aside(b, ClockTwins(b, t))
<1> DEFINE memory == [k \in Boards |-> XbusClock(b.memory[k], t)]
<1>1. b \in Busints BY DEF BusInv
<1>2. memory \in [Boards -> Twins]
  BY <1>1, BusintFields, TwinClock
<1>3. ClockTwins(b, t) = IF t < b.memoryNext THEN b ELSE WithTwins(b, memory)
  BY DEF ClockTwins
<1> HIDE DEF memory
<1>4. CASE t < b.memoryNext
  BY <1>3, <1>4 DEF Aside
<1>5. CASE ~(t < b.memoryNext)
  BY <1>1, <1>2, <1>3, <1>5, WithTwinsIs, AsideKeeps
<1>6. QED BY <1>4, <1>5
-----------------------------------------------------------------------------
(* The debug master, between two edges. *)

\* What the advance of the debug master, and all it is made of, does to an
\* interface.
Steps(b, c, r) ==
  /\ BusInv(c, r) /\ Keeps(b, c)
  /\ Taken(c) => Taken(b)
  /\ Free(c) <=> Free(b)

LEMMA StepsOn == \A b, c, d, r : Steps(b, c, r) /\ Steps(c, d, r) => Steps(b, d, r)
  BY KeepsOn DEF Steps

LEMMA StepsNot == \A b, r : BusInv(b, r) => Steps(b, b, r)
  BY DEF Steps, Keeps

LEMMA DebugLatchIs ==
  ASSUME NEW b, NEW r, BusInv(b, r), b.request.strobe # "none"
  PROVE  /\ Steps(b, DebugLatch(b), r)
         /\ DebugLatch(b).debug = b.debug /\ DebugLatch(b).request = b.request
         /\ LmGrantOut(DebugLatch(b)) <=> LmGrantOut(b)
         /\ DebugLatch(b).unibusMaster = b.unibusMaster
<1> DEFINE q == b.request
           e == [b EXCEPT !.modifier = q.dbd]
           t == TimeoutNs + GatedRiseAfter(b.grantedAt,
                              Latest(b.requestedAt + q.hold, b.grantedAt))
           lifts == /\ Inhibit \in b.modifier /\ Inhibit \notin q.dbd
                    /\ b.state.k = "granted" /\ b.state.timedOut /\ b.state.ack = Never
           c == DebugLatch(b)
<1>1. /\ b \in Busints /\ q \in Requests /\ q.dbd \in Data
      /\ q.strobe \in {"address", "modifier", "status", "cycle"}
  BY BusintFields, RequestFields DEF BusInv
<1>2. CASE q.strobe = "address"
  <2>1. c = [b EXCEPT !.address = q.dbd]
    BY <1>2 DEF DebugLatch
  <2>2. c \in Busints /\ Other(b, c)
    BY <1>1, <2>1, AddressSet, OthersSet
  <2> HIDE DEF c
  <2>3. BusInv(c, r) /\ Aside(b, c)
    BY <2>2, OtherIs
  <2>4. QED BY <2>3, AsideKeeps DEF Steps, Aside, LmGrantOut, BusInv, c
<1>3. CASE q.strobe = "modifier"
  <2>1. /\ e \in Busints /\ BusInv(e, r) /\ Aside(b, e)
    <3>1. e \in Busints /\ Other(b, e)
      BY <1>1, ModifierSet, OthersSet
    <3> HIDE DEF e
    <3>2. QED BY <3>1, OtherIs
  <2>2. c = [e EXCEPT !.state = IF lifts THEN TimesOutAt(t) ELSE e.state]
    <3>1. e.state = b.state BY <2>1 DEF Aside
    <3>2. c = [b EXCEPT !.modifier = q.dbd, !.state = IF lifts THEN TimesOutAt(t) ELSE b.state]
      BY <1>3 DEF DebugLatch
    <3>3. QED BY <3>1, <3>2
  <2>3. t \in Nat
    BY <1>1, BusintFields, RequestFields, Times, Arithmetic
  <2>4. TimesOutAt(t) \in States /\ TimesOutAt(t).k = "granted"
    <3> HIDE DEF t
    <3>1. t + UnibusAckNs \in Nat /\ t + UnibusStrobeNs \in Nat
      BY <2>3, Constants, Arithmetic
    <3>2. QED BY <2>3, <3>1, StatesMade DEF TimesOutAt, Granted
  <2>5. e.state \in States
    BY <2>1, BusintFields
  <2> DEFINE s == IF lifts THEN TimesOutAt(t) ELSE e.state
  <2>6. /\ s \in States /\ s.k = e.state.k /\ (s.k # "granted" => s = e.state)
        /\ s.k = "arbitrating" => s.stage = e.state.stage
    BY <2>1, <2>4, <2>5 DEF Aside
  <2>7. c = [e EXCEPT !.state = s]
    BY <2>2
  <2> HIDE DEF s, e, lifts, t, c
  <2>8. BusInv(c, r) /\ c.state = s /\ SameButState(e, c)
    <3>1. /\ s.k = "arbitrating" => OnUnibus(r)
          /\ s.k = "arbitrating" /\ s.stage \in {4, 5} => e.unibusMaster
          /\ s.k \in {"granted", "acked"} /\ OnUnibus(r) => e.unibusMaster
          /\ s.k = "arbitrating" /\ s.stage \in {3, 7} => ~DebugGrantOut(e)
      BY <2>1, <2>6 DEF BusInv, Selected, GrantsApart, LmGrantOut, OnItsBus
    <3>2. QED BY <2>1, <2>6, <2>7, <3>1, StateTo
  <2>9. QED
    BY <2>1, <2>6, <2>8 DEF Steps, Keeps, Taken, Free, Aside, SameButState, DebugGrantOut, LmGrantOut, c
<1>4. CASE q.strobe \in {"status", "cycle"}
  BY <1>4, StepsNot DEF DebugLatch
<1>5. QED BY <1>1, <1>2, <1>3, <1>4


LEMMA DebugAnswers ==
  \A u, w : \A t, a \in Nat : DebugAckAt(u, w, t) \in Nat /\ DebugAnsweredAt(u, w, t, a) \in Nat
<1> SUFFICES ASSUME NEW u, NEW w, NEW t \in Nat, NEW a \in Nat
             PROVE  DebugAckAt(u, w, t) \in Nat /\ DebugAnsweredAt(u, w, t, a) \in Nat
  OBVIOUS
<1>1. t + DiagnosticNs \in Nat /\ t + RegisterStrobeNs \in Nat /\ t + UbXbusRequestNs \in Nat
  BY Constants, Arithmetic
<1>2. u \in IoRegisters => IoAnswer(u, t) \in Nat
  BY IoAnswers
<1>3. DebugAckAt(u, w, t) \in Nat
  BY <1>1, <1>2, Constants DEF DebugAckAt, IoRegisters
<1>4. DebugAnsweredAt(u, w, t, a) \in Nat
  BY <1>1, <1>2, Constants DEF DebugAnsweredAt, IoRegisters
<1>5. QED BY <1>3, <1>4

\* The debug master takes UBMAST when the processor has not got it.
LEMMA DebugSetMasterIs ==
  ASSUME NEW b, NEW r, BusInv(b, r), ~b.unibusMaster, NEW now \in Nat
  PROVE  Steps(b, DebugSetMaster(b, now), r) /\ ~Taken(DebugSetMaster(b, now))
<1> DEFINE msyn == now + DebugMsynNs
           ack == DebugAckAt(b.responder, b.request.write, msyn)
           answered == DebugAnsweredAt(b.responder, b.request.write, msyn, ack)
           d == [k |-> "master", msyn |-> msyn, ack |-> ack, answered |-> answered,
                 until |-> Later(ack, b.request.hold), xbus |-> 0]
           c1 == SackOff(b, now, now)
           c2 == [c1 EXCEPT !.debug = d]
           c3 == [c2 EXCEPT !.debugAck = ack]
           c == [c3 EXCEPT !.debugAnswered = answered]
<1>1. b \in Busints /\ b.request.hold \in Nat
  BY BusintFields, RequestFields DEF BusInv
<1>2. msyn \in Nat /\ ack \in Nat /\ answered \in Nat
  BY Constants, Arithmetic, DebugAnswers
<1>3. DebugSetMaster(b, now) = c
  BY DEF DebugSetMaster, MasterFrom, MasterUntil
<1> HIDE DEF msyn, ack, answered
<1>4. d \in Debugs /\ d.k = "master"
  BY <1>1, <1>2, Arithmetic, DebugsMade
<1> HIDE DEF d
<1>5. BusInv(c1, r) /\ Aside(b, c1)
  <2>1. c1 = [b EXCEPT !.hold = 2]
    BY DEF SackOff
  <2> HIDE DEF c1
  <2>2. QED BY <1>1, <2>1, HoldSet, OthersSet, OtherIs
<1> HIDE DEF c1
<1>6. BusInv(c2, r) /\ c2.debug = d /\ SameButDebug(c1, c2)
  BY <1>4, <1>5, DebugTo DEF Aside
<1> HIDE DEF c2
<1>7. BusInv(c3, r) /\ Aside(c2, c3)
  BY <1>2, <1>6, DebugAckSet, OthersSet, OtherIs DEF BusInv
<1> HIDE DEF c3
<1>8. BusInv(c, r) /\ Aside(c3, c)
  BY <1>2, <1>7, DebugAnsweredSet, OthersSet, OtherIs DEF BusInv
<1> HIDE DEF c
<1>9. c.state = b.state /\ c.memrqUp = b.memrqUp /\ c.unibusMaster = b.unibusMaster
  BY <1>5, <1>6, <1>7, <1>8 DEF Aside, SameButDebug
<1>10. QED BY <1>3, <1>8, <1>9 DEF Steps, Keeps, Taken, Free

\* The processor's cycle over, the debug master has the Unibus: the look that
\* is not before -MEMRQ went up leaves nothing taken.
LEMMA DebugTakesIs ==
  ASSUME NEW b, NEW r, BusInv(b, r), Taken(b) => Free(b), NEW now \in Nat
  PROVE  /\ Steps(b, DebugTakes(b, now), r)
         /\ b.memrqUp = Never \/ b.memrqUp <= now => ~Taken(DebugTakes(b, now))
         /\ DebugTakes(b, now).state = b.state
<1> DEFINE takes == /\ b.unibusMaster /\ b.memrqUp # Never
                    /\ b.memrqUp >= b.debugSack /\ now >= b.memrqUp
                    /\ DebugGrantOut(b)
           at == b.memrqUp + (IF b.debug.k = "granted" THEN GrantWithdrawNs ELSE 0)
           c1 == [b EXCEPT !.unibusMaster = FALSE]
           c2 == [c1 EXCEPT !.needUb = FALSE]
           e == [c2 EXCEPT !.memrqUp = Never]
<1>1. b \in Busints /\ b.memrqUp \in Nat /\ b.debugSack \in Nat /\ at \in Nat
  BY BusintFields, Constants, Arithmetic DEF BusInv
<1>2. DebugTakes(b, now) = IF takes THEN DebugSetMaster(e, at) ELSE b
  BY DEF DebugTakes
<1>3. CASE takes
  <2>1. Taken(b) /\ Free(b)
    BY <1>3 DEF Taken
  <2>2. e \in Busints
    <3>1. c1 \in Busints BY <1>1, UnibusMasterSet
    <3> HIDE DEF c1
    <3>2. c2 \in Busints BY <3>1, NeedUbSet
    <3> HIDE DEF c2
    <3>3. QED BY <3>2, MemrqUpSet, Constants
  <2>3. /\ e.state = b.state /\ e.debug = b.debug /\ ~e.unibusMaster /\ e.memrqUp = Never
        /\ e.request = b.request /\ e.memory = b.memory /\ e.memoryNext = b.memoryNext
    BY <1>1 DEF Busints
  <2> HIDE DEF e, at, takes
  <2>4. TwinsSeen(e) /\ Strobed(e) /\ Apart(e) /\ GrantsApart(e) /\ OnItsBus(e, r)
    BY <2>3 DEF BusInv, TwinsSeen, Strobed, Apart, GrantsApart, OnItsBus, LmGrantOut, DebugGrantOut
  <2>5. Selected(e, r)
    BY <2>1, <2>3 DEF Free, Selected
  <2>6. BusInv(e, r)
    BY <2>2, <2>4, <2>5 DEF BusInv
  <2>7. Steps(e, DebugSetMaster(e, at), r) /\ ~Taken(DebugSetMaster(e, at))
    BY <1>1, <2>3, <2>6, DebugSetMasterIs
  <2>8. Keeps(b, e) /\ (Free(e) <=> Free(b))
    BY <2>3 DEF Keeps, Free
  <2>9. DebugSetMaster(e, at).state = e.state
    BY DEF DebugSetMaster, MasterFrom, MasterUntil, SackOff
  <2>10. QED BY <1>2, <1>3, <2>1, <2>3, <2>7, <2>8, <2>9, KeepsOn DEF Steps
<1>4. CASE ~takes
  BY <1>1, <1>2, <1>4, StepsNot DEF Taken
<1>5. QED BY <1>3, <1>4

\* A strobe, a mastership or a release that has run its time.
LEMMA LiftStrobeIs ==
  ASSUME NEW b, NEW r, BusInv(b, r), NEW now \in Nat
  PROVE  Steps(b, LiftStrobe(b, now), r)
<1> DEFINE e == DebugLatch(b)
           c == [e EXCEPT !.debug = Quiet]
           lifts == b.debug.k = "strobe" /\ now >= b.debug.until
<1>1. LiftStrobe(b, now) = IF lifts THEN c ELSE b
  BY DEF LiftStrobe
<1>2. CASE lifts
  <2>1. b.request.strobe # "none"
    BY <1>2 DEF BusInv, Strobed
  <2>2. Steps(b, e, r)
    BY <2>1, DebugLatchIs
  <2> HIDE DEF e
  <2>3. BusInv(e, r) BY <2>2 DEF Steps
  <2>4. Quiet \in Debugs /\ Quiet.k = "idle"
    BY DebugsMade DEF Quiet
  <2>5. BusInv(c, r) /\ c.debug = Quiet /\ SameButDebug(e, c)
    BY <2>3, <2>4, DebugTo
  <2> HIDE DEF c
  <2>6. Steps(e, c, r)
    BY <2>4, <2>5 DEF Steps, Keeps, SameButDebug, Taken, Free, DebugGrantOut
  <2>7. QED BY <1>1, <1>2, <2>2, <2>6, StepsOn
<1>3. CASE ~lifts
  BY <1>1, <1>3, StepsNot
<1>4. QED BY <1>2, <1>3

\* -UB BBSY let go at an instant.
LEMMA Releases ==
  ASSUME NEW b, NEW r, BusInv(b, r), NEW t \in Nat
  PROVE  LET c == [b EXCEPT !.freedAt = t, !.debug = [k |-> "releasing", until |-> t]]
         IN  Steps(b, c, r)
<1> DEFINE e == [b EXCEPT !.freedAt = t]
           d == [k |-> "releasing", until |-> t]
           c == [e EXCEPT !.debug = d]
<1>1. b \in Busints BY DEF BusInv
<1>2. BusInv(e, r) /\ Aside(b, e)
  <2>1. e \in Busints /\ Other(b, e)
    BY <1>1, FreedAtSet, OthersSet
  <2> HIDE DEF e
  <2>2. QED BY <2>1, OtherIs
<1>3. d \in Debugs /\ d.k = "releasing"
  BY DebugsMade
<1> HIDE DEF e, d
<1>4. BusInv(c, r) /\ c.debug = d /\ SameButDebug(e, c)
  BY <1>2, <1>3, DebugTo
<1> HIDE DEF c
<1>5. Steps(b, c, r)
  BY <1>2, <1>3, <1>4 DEF Steps, Keeps, SameButDebug, Aside, Taken, Free, DebugGrantOut
<1>6. QED BY <1>5 DEF c, d, e

LEMMA LiftMasterIs ==
  ASSUME NEW b, NEW r, BusInv(b, r), NEW now \in Nat
  PROVE  Steps(b, LiftMaster(b, now), r)
<1>1. CASE b.debug.k = "master"
  <2>1. b.debug.until + DebugReleaseNs \in Nat
    BY <1>1, BusintFields, DebugFields, Constants, Arithmetic DEF BusInv
  <2>2. QED BY <2>1, Releases, StepsNot DEF LiftMaster
<1>2. QED BY <1>1, StepsNot DEF LiftMaster

LEMMA FreeMasterIs ==
  ASSUME NEW b, NEW r, BusInv(b, r), NEW now \in Nat
  PROVE  Steps(b, FreeMaster(b, now), r)
<1> DEFINE c == [b EXCEPT !.debug = Quiet]
<1>1. Quiet \in Debugs /\ Quiet.k = "idle"
  BY DebugsMade DEF Quiet
<1>2. BusInv(c, r) /\ c.debug = Quiet /\ SameButDebug(b, c)
  BY <1>1, DebugTo
<1>3. FreeMaster(b, now) = c \/ FreeMaster(b, now) = b
  BY DEF FreeMaster
<1> HIDE DEF c
<1>4. Steps(b, c, r)
  BY <1>1, <1>2 DEF Steps, Keeps, SameButDebug, Taken, Free, DebugGrantOut
<1>5. QED BY <1>3, <1>4, StepsNot

LEMMA DebugAdvanceIs ==
  ASSUME NEW b, NEW r, BusInv(b, r), Taken(b) => Free(b), NEW now \in Nat
  PROVE  /\ Steps(b, DebugAdvance(b, now), r)
         /\ b.memrqUp = Never \/ b.memrqUp <= now => ~Taken(DebugAdvance(b, now))
<1> DEFINE c1 == DebugTakes(b, now)
           c2 == LiftStrobe(c1, now)
           c3 == LiftMaster(c2, now)
           c4 == FreeMaster(c3, now)
<1>1. CASE b.debug.k = "idle"
  BY <1>1, StepsNot DEF DebugAdvance, Taken, DebugGrantOut
<1>2. CASE b.debug.k # "idle"
  <2>1. /\ Steps(b, c1, r)
        /\ b.memrqUp = Never \/ b.memrqUp <= now => ~Taken(c1)
    BY DebugTakesIs
  <2> HIDE DEF c1
  <2>2. Steps(c1, c2, r)
    BY <2>1, LiftStrobeIs DEF Steps
  <2> HIDE DEF c2
  <2>3. Steps(c2, c3, r)
    BY <2>2, LiftMasterIs DEF Steps
  <2> HIDE DEF c3
  <2>4. Steps(c3, c4, r)
    BY <2>3, FreeMasterIs DEF Steps
  <2> HIDE DEF c4
  <2>5. DebugAdvance(b, now) = c4
    BY <1>2 DEF DebugAdvance, c1, c2, c3, c4
  <2>6. Steps(b, c4, r)
    BY <2>1, <2>2, <2>3, <2>4, StepsOn
  <2>7. Taken(c4) => Taken(c1)
    BY <2>2, <2>3, <2>4 DEF Steps
  <2>8. QED BY <2>1, <2>5, <2>6, <2>7
<1>3. QED BY <1>1, <1>2
-----------------------------------------------------------------------------
(* The master clock edge. *)

\* What an edge does: nothing is left for the debug master to take.
Goes(b, c, r) == BusInv(c, r) /\ Keeps(b, c) /\ ~Taken(c)

LEMMA GoesOn ==
  \A b, c, d, r : /\ Steps(b, c, r) /\ ~Taken(c) /\ Goes(c, d, r) => Goes(b, d, r)
                  /\ Goes(b, c, r) /\ Steps(c, d, r) => Goes(b, d, r)
                  /\ Goes(b, c, r) /\ Goes(c, d, r) => Goes(b, d, r)
                  /\ BusInv(b, r) /\ ~Taken(b) => Goes(b, b, r)
  BY KeepsOn, StepsNot DEF Goes, Steps

LEMMA OtherGoes ==
  \A b, c, r : BusInv(b, r) /\ ~Taken(b) /\ c \in Busints /\ Other(b, c)
               => /\ Goes(b, c, r) /\ Aside(b, c)
                  /\ c.cable = b.cable \/ TRUE
  BY OtherIs, AsideKeeps DEF Goes, BusInv

\* A cycle granted.
LEMMA GrantIs ==
  ASSUME NEW b, NEW r, BusInv(b, r), ~Taken(b), OnUnibus(r) => b.unibusMaster,
         NEW s \in States, s.k = "granted", Free(b) \/ b.state.k = "arbitrating"
  PROVE  Goes(b, [b EXCEPT !.state = s], r)
<1> DEFINE c == [b EXCEPT !.state = s]
<1>1. BusInv(c, r) /\ c.state = s /\ SameButState(b, c)
  BY StateTo
<1> HIDE DEF c
<1>2. Goes(b, c, r)
  BY <1>1 DEF Goes, Keeps, SameButState, Taken, DebugGrantOut
<1>3. QED BY <1>2 DEF c

LEMMA GrantedIs ==
  \A a, l, n \in Nat, o \in BOOLEAN :
    Granted(a, l, n, o) \in States /\ Granted(a, l, n, o).k = "granted"
  BY StatesMade DEF Granted

LEMMA NxmTimeouts == \A b : \A t \in Nat : NxmTimeout(b, t) \in Nat
  BY Times, Constants DEF NxmTimeout

LEMMA XbusAnsweredIs ==
  ASSUME NEW b, NEW r, BusInv(b, r), ~Taken(b), Free(b), ~OnUnibus(r), NEW t \in Nat
  PROVE  Goes(b, XbusAnswered(b, t), r)
<1> DEFINE ack == IF b.write THEN t ELSE t + XbusAckNs
<1>1. ack \in Nat
  BY Constants, Arithmetic
<1>2. XbusAnswered(b, t) = [b EXCEPT !.state = Granted(ack, ack, t, FALSE)]
  BY DEF XbusAnswered
<1> HIDE DEF ack
<1>3. Granted(ack, ack, t, FALSE) \in States /\ Granted(ack, ack, t, FALSE).k = "granted"
  BY <1>1, GrantedIs
<1>4. QED BY <1>2, <1>3, GrantIs

LEMMA XbusGrantIs ==
  ASSUME NEW b, NEW r, BusInv(b, r), ~Taken(b), Free(b), ~OnUnibus(r), NEW now \in Nat
  PROVE  Goes(b, XbusGrant(b, now, r), r)
<1> DEFINE rq  == now + SetupNs
           nxm == NxmTimeout(b, now)
<1>1. b \in Busints /\ rq \in Nat /\ nxm \in Nat
  BY Constants, Arithmetic, NxmTimeouts DEF BusInv
<1>2. CASE r = "noXbus"
  <2> DEFINE c1 == [b EXCEPT !.board = "none"]
             c2 == [c1 EXCEPT !.grantedAt = now]
             s  == Granted(nxm, nxm, rq, TRUE)
  <2>1. XbusGrant(b, now, r) = [c2 EXCEPT !.state = s]
    BY <1>2, BusintAssumption DEF XbusGrant
  <2>2. s \in States /\ s.k = "granted"
    <3> HIDE DEF rq, nxm
    <3>1. QED BY <1>1, GrantedIs
  <2> HIDE DEF s
  <2>3. Goes(b, c1, r) /\ Aside(b, c1)
    <3>1. c1 \in Busints /\ Other(b, c1)
      BY <1>1, BoardSet, OthersSet
    <3> HIDE DEF c1
    <3>2. QED BY <3>1, OtherGoes
  <2> HIDE DEF c1
  <2>4. Goes(c1, c2, r) /\ Aside(c1, c2)
    <3>1. c2 \in Busints /\ Other(c1, c2)
      BY <2>3, GrantedAtSet, OthersSet DEF Goes, BusInv
    <3> HIDE DEF c2
    <3>2. QED BY <2>3, <3>1, OtherGoes DEF Goes
  <2> HIDE DEF c2
  <2>5. Free(c2)
    BY <2>3, <2>4 DEF Aside, Free
  <2>6. Goes(c2, [c2 EXCEPT !.state = s], r)
    BY <2>2, <2>4, <2>5, GrantIs DEF Goes
  <2>7. QED BY <2>1, <2>3, <2>4, <2>6, GoesOn
<1>3. CASE r \in Boards /\ r # "noXbus"
  <2> DEFINE asked == BoardRequest(b.memory[r], rq)
             c1 == WithTwin(b, r, asked.twin)
             c2 == [c1 EXCEPT !.board = r]
  <2>1. XbusGrant(b, now, r) = XbusAnswered(c2, asked.at)
    BY <1>3 DEF XbusGrant, BoardGrant
  <2>2. asked.twin \in Twins /\ asked.at \in Nat
    BY <1>1, <1>3, BusintFields, TwinRequest
  <2> HIDE DEF asked
  <2>3. Goes(b, c1, r) /\ Aside(b, c1)
    <3>1. c1 \in Busints /\ TwinsSeen(c1) /\ Aside(b, c1)
      BY <1>1, <1>3, <2>2, WithTwinIs DEF BusInv
    <3> HIDE DEF c1
    <3>2. QED BY <3>1, AsideKeeps DEF Goes
  <2> HIDE DEF c1
  <2>4. Goes(c1, c2, r) /\ Aside(c1, c2)
    <3>1. c2 \in Busints /\ Other(c1, c2)
      BY <1>3, <2>3, BoardSet, OthersSet DEF Goes, BusInv
    <3> HIDE DEF c2
    <3>2. QED BY <2>3, <3>1, OtherGoes DEF Goes
  <2> HIDE DEF c2
  <2>5. Free(c2)
    BY <2>3, <2>4 DEF Aside, Free
  <2>6. Goes(c2, XbusAnswered(c2, asked.at), r)
    BY <2>2, <2>4, <2>5, XbusAnsweredIs DEF Goes
  <2>7. QED BY <2>1, <2>3, <2>4, <2>6, GoesOn
<1>4. CASE r \notin Boards /\ r # "noXbus"
  <2> DEFINE c1 == [b EXCEPT !.board = "none"]
  <2>1. XbusGrant(b, now, r) = XbusAnswered(c1, rq)
    BY <1>4 DEF XbusGrant
  <2>2. Goes(b, c1, r) /\ Aside(b, c1)
    <3>1. c1 \in Busints /\ Other(b, c1)
      BY <1>1, BoardSet, OthersSet
    <3> HIDE DEF c1
    <3>2. QED BY <3>1, OtherGoes
  <2> HIDE DEF c1, rq
  <2>3. Free(c1)
    BY <2>2 DEF Aside, Free
  <2>4. Goes(c1, XbusAnswered(c1, rq), r)
    BY <1>1, <2>2, <2>3, XbusAnsweredIs DEF Goes
  <2>5. QED BY <2>1, <2>2, <2>4, GoesOn
<1>5. QED BY <1>2, <1>3, <1>4

LEMMA UnibusGrantIs ==
  ASSUME NEW b, NEW r, BusInv(b, r), ~Taken(b), b.unibusMaster,
         b.state.k = "arbitrating", NEW now \in Nat
  PROVE  Goes(b, UnibusGrant(b, now, r), r)
<1> DEFINE msyn == now + UnibusAddressNs
           nxm == NxmTimeout(b, now)
           Answer(ssyn, answered, out) ==
             Granted(Later(ssyn, UnibusAckNs), Later(ssyn, UnibusStrobeNs), answered, out)
<1>1. b \in Busints /\ msyn \in Nat /\ nxm \in Nat /\ b.cable = FALSE
  BY Constants, Arithmetic, NxmTimeouts, BusintFields DEF BusInv
<1>2. \A ssyn, answered \in Nat, out \in BOOLEAN :
        Answer(ssyn, answered, out) \in States /\ Answer(ssyn, answered, out).k = "granted"
  BY Constants, Arithmetic, GrantedIs
<1>3. \A ssyn, answered \in Nat, out \in BOOLEAN :
        Goes(b, [b EXCEPT !.state = Answer(ssyn, answered, out)], r)
  <2> SUFFICES ASSUME NEW ssyn \in Nat, NEW answered \in Nat, NEW out \in BOOLEAN
               PROVE  Goes(b, [b EXCEPT !.state = Answer(ssyn, answered, out)], r)
    OBVIOUS
  <2> DEFINE s == Answer(ssyn, answered, out)
  <2>1. s \in States /\ s.k = "granted"
    BY <1>2
  <2> HIDE DEF s
  <2>2. QED BY <2>1, GrantIs DEF s
<1>4. CASE r = "interface"
  <2> DEFINE ssyn == msyn + DiagnosticNs
             answered == msyn + (IF b.write THEN RegisterStrobeNs ELSE DiagnosticNs)
  <2>1. UnibusGrant(b, now, r) = [b EXCEPT !.state = Answer(ssyn, answered, FALSE)]
    BY <1>4 DEF UnibusGrant, IoRegisters
  <2>2. ssyn \in Nat /\ answered \in Nat
    BY <1>1, Constants, Arithmetic
  <2> HIDE DEF ssyn, answered, Answer
  <2>3. QED BY <1>3, <2>1, <2>2
<1>5. CASE r \in IoRegisters /\ IoTakes(r, b.write)
  <2> DEFINE ssyn == IoAnswer(r, msyn)
             answered == IF r = "usecLow" THEN msyn ELSE ssyn
  <2>1. UnibusGrant(b, now, r) = [b EXCEPT !.state = Answer(ssyn, answered, FALSE)]
    BY <1>5 DEF UnibusGrant, IoRegisters
  <2>2. ssyn \in Nat /\ answered \in Nat
    BY <1>1, <1>5, IoAnswers
  <2> HIDE DEF ssyn, answered, Answer
  <2>3. QED BY <1>3, <2>1, <2>2
<1>6. CASE r = "debug"
  <2>1. UnibusGrant(b, now, r) = [b EXCEPT !.state = Answer(msyn, msyn, FALSE)]
    BY <1>1, <1>6 DEF UnibusGrant, IoRegisters
  <2> HIDE DEF msyn, Answer
  <2>2. QED BY <1>1, <1>3, <2>1
<1>7. CASE r \notin {"interface", "debug"} /\ ~(r \in IoRegisters /\ IoTakes(r, b.write))
  <2> DEFINE e == [b EXCEPT !.state = Answer(nxm, nxm, TRUE)]
             c == [e EXCEPT !.grantedAt = now]
  <2>1. UnibusGrant(b, now, r) = c
    BY <1>7 DEF UnibusGrant
  <2>2. Goes(b, e, r)
    <3> HIDE DEF nxm, Answer
    <3>1. QED BY <1>1, <1>3
  <2> HIDE DEF e
  <2>3. c \in Busints /\ Other(e, c)
    BY <2>2, GrantedAtSet, OthersSet DEF Goes, BusInv
  <2> HIDE DEF c
  <2>4. QED BY <2>1, <2>2, <2>3, OtherGoes, GoesOn DEF Goes
<1>8. QED BY <1>4, <1>5, <1>6, <1>7

\* The processor's SACK made, with no debug master holding the bus.
Sacked(b, n, h) ==
  [b EXCEPT !.state = Arbitrating(n, b.state.sack), !.hold = h, !.unibusMaster = TRUE]

LEMMA SackOffIs == \A b : \A now \in Nat : SackOff(b, now, now) = [b EXCEPT !.hold = 2]
  BY DEF SackOff

LEMMA SackIs ==
  ASSUME NEW b, NEW r, BusInv(b, r), LmGrantOut(b), b.debug.k # "master",
         NEW n \in {4, 5}, NEW h \in {0, 1, 2}
  PROVE  Goes(b, Sacked(b, n, h), r)
<1> DEFINE s == Arbitrating(n, b.state.sack)
           c1 == [b EXCEPT !.state = s]
           c2 == [c1 EXCEPT !.hold = h]
           c == [c2 EXCEPT !.unibusMaster = TRUE]
<1>0. Sacked(b, n, h) = c BY DEF Sacked
<1>1. b \in Busints /\ b.state.sack \in Nat
  BY BusintFields, StateFields DEF BusInv, LmGrantOut
<1>2. s \in States /\ s.k = "arbitrating" /\ s.stage \in {4, 5}
  BY <1>1, StatesMade DEF Arbitrating
<1> HIDE DEF s
<1>3. c \in Busints
  <2>1. c1 \in Busints BY <1>1, <1>2, StateSet
  <2> HIDE DEF c1
  <2>2. c2 \in Busints BY <2>1, HoldSet
  <2> HIDE DEF c2
  <2>3. QED BY <2>2, UnibusMasterSet
<1>4. /\ c.state = s /\ c.debug = b.debug /\ c.unibusMaster /\ c.memrqUp = b.memrqUp
      /\ c.request = b.request /\ c.memory = b.memory /\ c.memoryNext = b.memoryNext
  BY <1>1 DEF Busints
<1>5. ~DebugGrantOut(c)
  BY <1>4 DEF BusInv, GrantsApart, DebugGrantOut
<1>6. TwinsSeen(c) /\ Strobed(c) /\ Apart(c) /\ Selected(c, r) /\ GrantsApart(c)
  BY <1>2, <1>4 DEF BusInv, TwinsSeen, Strobed, Apart, Selected, GrantsApart, LmGrantOut
<1>7. OnItsBus(c, r)
  BY <1>4 DEF BusInv, OnItsBus, LmGrantOut
<1> HIDE DEF c
<1>8. Goes(b, c, r)
  BY <1>2, <1>3, <1>4, <1>5, <1>6, <1>7 DEF Goes, BusInv, Keeps, Taken
<1>9. QED BY <1>0, <1>8

LEMMA StageIs ==
  ASSUME NEW b, NEW r, BusInv(b, r), ~Taken(b), OnUnibus(r),
         NEW n \in {1, 2, 3, 4, 5, 7}, NEW t \in Nat,
         n \in {4, 5} => b.unibusMaster, n \in {3, 7} => ~DebugGrantOut(b)
  PROVE  /\ Goes(b, [b EXCEPT !.state = Arbitrating(n, t)], r)
         /\ SameButState(b, [b EXCEPT !.state = Arbitrating(n, t)])
<1> DEFINE s == Arbitrating(n, t)
           c == [b EXCEPT !.state = s]
<1>1. s \in States /\ s.k = "arbitrating" /\ s.stage = n
  BY StatesMade DEF Arbitrating
<1> HIDE DEF s
<1>2. BusInv(c, r) /\ c.state = s /\ SameButState(b, c)
  BY <1>1, StateTo
<1> HIDE DEF c
<1>3. Goes(b, c, r) /\ SameButState(b, c)
  BY <1>1, <1>2 DEF Goes, Keeps, SameButState, Taken, DebugGrantOut
<1>4. QED BY <1>3 DEF c, s

LEMMA ArbitrationEdgeIs ==
  ASSUME NEW b, NEW r, BusInv(b, r), ~Taken(b), b.state.k = "arbitrating", NEW now \in Nat
  PROVE  Goes(b, ArbitrationEdge(b, now, r), r)
<1> DEFINE sack == b.state.sack
           At(n) == [b EXCEPT !.state = Arbitrating(n, sack)]
           c == ArbitrationEdge(b, now, r)
<1>1. /\ b \in Busints /\ sack \in Nat /\ b.state.stage \in {1, 2, 3, 4, 5, 7}
      /\ OnUnibus(r) /\ Goes(b, b, r)
  BY BusintFields, StateFields, GoesOn DEF BusInv, OnItsBus
<1>2. CASE b.state.stage = 1
  <2>1. c = At(2) BY <1>2 DEF ArbitrationEdge
  <2>2. QED BY <1>1, <2>1, StageIs
<1>3. CASE b.state.stage = 2
  <2>1. \/ c = b
        \/ c = [b EXCEPT !.state = Arbitrating(3, now + UnibusSelectNs)] /\ ~DebugGrantOut(b)
    BY <1>3 DEF ArbitrationEdge
  <2>2. now + UnibusSelectNs \in Nat
    BY Constants, Arithmetic
  <2>3. QED BY <1>1, <2>1, <2>2, StageIs
<1>4. CASE b.state.stage = 3
  <2>1. LmGrantOut(b) /\ ~DebugGrantOut(b)
    BY <1>4 DEF LmGrantOut, BusInv, GrantsApart
  <2>2. CASE now <= sack
    BY <1>1, <1>4, <2>2 DEF ArbitrationEdge
  <2>3. CASE ~(now <= sack) /\ DebugHoldsBbsy(b, now)
    <3>1. c = At(7) BY <1>4, <2>3 DEF ArbitrationEdge
    <3>2. QED BY <1>1, <2>1, <3>1, StageIs
  <2>4. CASE ~(now <= sack) /\ ~DebugHoldsBbsy(b, now)
    <3>1. c = Sacked(b, 4, 2)
      <4>1. c = [SackOff(At(4), now, now) EXCEPT !.unibusMaster = TRUE]
        BY <1>4, <2>4 DEF ArbitrationEdge
      <4>2. SackOff(At(4), now, now) = [At(4) EXCEPT !.hold = 2]
        BY SackOffIs
      <4>3. QED BY <4>1, <4>2 DEF Sacked
    <3>2. b.debug.k # "master"
      BY <2>4 DEF DebugHoldsBbsy
    <3>3. 4 \in {4, 5} /\ 2 \in {0, 1, 2}
      OBVIOUS
    <3>4. QED BY <2>1, <3>1, <3>2, <3>3, SackIs
  <2>5. QED BY <2>2, <2>3, <2>4
<1>5. CASE b.state.stage = 4
  <2>1. c = At(5) BY <1>5 DEF ArbitrationEdge
  <2>2. b.unibusMaster
    BY <1>5 DEF BusInv, Selected
  <2>3. QED BY <1>1, <2>1, <2>2, StageIs
<1>6. CASE b.state.stage = 7
  <2>1. LmGrantOut(b)
    BY <1>6 DEF LmGrantOut
  <2>2. CASE DebugHoldsBbsy(b, now)
    BY <1>1, <1>6, <2>2 DEF ArbitrationEdge
  <2>3. CASE ~DebugHoldsBbsy(b, now)
    <3> DEFINE n == IF b.freedAt < now THEN 5 ELSE 4
               h == IF b.freedAt < now THEN 1 ELSE 2
    <3>1. c = Sacked(b, n, h)
      BY <1>6, <2>3 DEF ArbitrationEdge, SackOff, Sacked
    <3>2. n \in {4, 5} /\ h \in {0, 1, 2}
      OBVIOUS
    <3>3. b.debug.k # "master"
      BY <2>3 DEF DebugHoldsBbsy
    <3> HIDE DEF n, h
    <3>4. QED BY <2>1, <3>1, <3>2, <3>3, SackIs
  <2>4. QED BY <2>2, <2>3
<1>7. CASE b.state.stage = 5
  <2>1. c = UnibusGrant(b, now, r) BY <1>7 DEF ArbitrationEdge
  <2>2. b.unibusMaster
    BY <1>7 DEF BusInv, Selected
  <2>3. QED BY <2>1, <2>2, UnibusGrantIs
<1>8. QED BY <1>1, <1>2, <1>3, <1>4, <1>5, <1>6, <1>7

LEMMA CycleEdgeIs ==
  ASSUME NEW b, NEW r, BusInv(b, r), ~Taken(b), NEW now \in Nat
  PROVE  Goes(b, CycleEdge(b, now, r), r)
<1>1. CASE b.state.k = "requested" /\ OnUnibus(r)
  <2> DEFINE n == IF b.unibusMaster THEN 4 ELSE 1
  <2>1. CycleEdge(b, now, r) = [b EXCEPT !.state = Arbitrating(n, Never)]
    BY <1>1 DEF CycleEdge
  <2>2. n \in {1, 2, 3, 4, 5, 7} /\ (n \in {4, 5} => b.unibusMaster) /\ n \notin {3, 7}
    OBVIOUS
  <2> HIDE DEF n
  <2>3. QED BY <1>1, <2>1, <2>2, StageIs, Constants
<1>2. CASE b.state.k = "requested" /\ ~OnUnibus(r)
  BY <1>2, XbusGrantIs DEF CycleEdge, Free
<1>3. CASE b.state.k = "arbitrating"
  BY <1>3, ArbitrationEdgeIs DEF CycleEdge
<1>4. CASE b.state.k \notin {"requested", "arbitrating"}
  BY <1>4, GoesOn DEF CycleEdge
<1>5. QED BY <1>1, <1>2, <1>3, <1>4

LEMMA NeedUbIs ==
  ASSUME NEW b, NEW r, BusInv(b, r), NEW now \in Nat
  PROVE  Steps(b, NeedUb(b, now), r)
<1> DEFINE h == IF b.hold = 0 THEN 0 ELSE b.hold - 1
           need == b.state.k \notin {"idle", "requested"}
           master == b.unibusMaster /\ (need \/ ~DebugSackUp(b, now))
           c1 == [b EXCEPT !.hold = h]
           c2 == [c1 EXCEPT !.needUb = need]
           c == [c2 EXCEPT !.unibusMaster = master]
<1>1. b \in Busints /\ h \in {0, 1, 2}
  BY BusintFields DEF BusInv
<1>2. NeedUb(b, now) = c
  BY DEF NeedUb
<1>3. need \in BOOLEAN /\ master \in BOOLEAN
  BY Zenon
<1>4. need <=> b.state.k \notin {"idle", "requested"}
  BY Zenon
<1>5. (master => b.unibusMaster) /\ (need /\ b.unibusMaster => master)
  BY Zenon
<1> HIDE DEF h, need, master
<1>6. c \in Busints
  <2>1. c1 \in Busints BY <1>1, HoldSet
  <2> HIDE DEF c1
  <2>2. c2 \in Busints BY <1>3, <2>1, NeedUbSet
  <2> HIDE DEF c2
  <2>3. QED BY <1>3, <2>2, UnibusMasterSet
<1>7. /\ c.state = b.state /\ c.debug = b.debug /\ c.unibusMaster = master
      /\ c.memrqUp = b.memrqUp /\ c.debugSack = b.debugSack
      /\ c.request = b.request /\ c.memory = b.memory /\ c.memoryNext = b.memoryNext
  BY <1>1 DEF Busints
<1> HIDE DEF c
<1>8. Selected(c, r)
  BY <1>4, <1>5, <1>7 DEF BusInv, Selected
<1>9. TwinsSeen(c) /\ Strobed(c) /\ Apart(c) /\ GrantsApart(c) /\ OnItsBus(c, r)
  BY <1>5, <1>7 DEF BusInv, TwinsSeen, Strobed, Apart, GrantsApart, OnItsBus, LmGrantOut, DebugGrantOut
<1>10. Taken(c) => Taken(b)
  BY <1>5, <1>7 DEF Taken, DebugGrantOut
<1>11. QED BY <1>2, <1>6, <1>7, <1>8, <1>9, <1>10 DEF Steps, BusInv, Keeps, Free

\* The debug master's half on the Xbus: it stays the master.
LEMMA MasterTo ==
  ASSUME NEW b, NEW r, BusInv(b, r), ~Taken(b), b.debug.k = "master", NEW d \in Masters
  PROVE  /\ Goes(b, [b EXCEPT !.debug = d], r)
         /\ [b EXCEPT !.debug = d].debug = d
<1> DEFINE c == [b EXCEPT !.debug = d]
<1>1. d \in Debugs /\ d.k = "master"
  BY DebugsMade DEF Masters
<1>2. ~b.unibusMaster
  BY DEF BusInv, Apart
<1>3. BusInv(c, r) /\ c.debug = d /\ SameButDebug(b, c)
  BY <1>1, <1>2, DebugTo
<1> HIDE DEF c
<1>4. Goes(b, c, r)
  BY <1>2, <1>3 DEF Goes, Keeps, SameButDebug, Taken
<1>5. QED BY <1>3, <1>4 DEF c

LEMMA MasterFields ==
  \A d \in Masters :
    /\ \A x \in Nat : [d EXCEPT !.ack = x] \in Masters /\ [d EXCEPT !.answered = x] \in Masters
                      /\ [d EXCEPT !.until = x] \in Masters
    /\ \A x \in {0, 1, 2} : [d EXCEPT !.xbus = x] \in Masters
  BY DEF Masters

\* The master of an interface, one field of its state replaced.
ToAck(b, x) == [b EXCEPT !.debug = [b.debug EXCEPT !.ack = x]]
ToAnswered(b, x) == [b EXCEPT !.debug = [b.debug EXCEPT !.answered = x]]
ToUntil(b, x) == [b EXCEPT !.debug = [b.debug EXCEPT !.until = x]]
ToXbus(b, x) == [b EXCEPT !.debug = [b.debug EXCEPT !.xbus = x]]

IsMaster(b, r) == BusInv(b, r) /\ ~Taken(b) /\ b.debug.k = "master"

LEMMA MasterSteps ==
  ASSUME NEW b, NEW r, IsMaster(b, r)
  PROVE  /\ \A x \in Nat : /\ Goes(b, ToAck(b, x), r) /\ IsMaster(ToAck(b, x), r)
                           /\ Goes(b, ToAnswered(b, x), r) /\ IsMaster(ToAnswered(b, x), r)
                           /\ Goes(b, ToUntil(b, x), r) /\ IsMaster(ToUntil(b, x), r)
         /\ \A x \in {0, 1, 2} : Goes(b, ToXbus(b, x), r) /\ IsMaster(ToXbus(b, x), r)
<1>1. b.debug \in Masters
  BY BusintFields, DebugFields DEF IsMaster, BusInv
<1>2. \A d \in Masters : d.k = "master"
  BY DEF Masters
<1>3. \A d \in Masters : Goes(b, [b EXCEPT !.debug = d], r) /\ IsMaster([b EXCEPT !.debug = d], r)
  <2> SUFFICES ASSUME NEW d \in Masters
               PROVE  Goes(b, [b EXCEPT !.debug = d], r) /\ IsMaster([b EXCEPT !.debug = d], r)
    OBVIOUS
  <2> DEFINE c == [b EXCEPT !.debug = d]
  <2>1. Goes(b, c, r) /\ c.debug = d
    BY MasterTo DEF IsMaster
  <2> HIDE DEF c
  <2>2. Goes(b, c, r) /\ IsMaster(c, r)
    BY <1>2, <2>1 DEF Goes, IsMaster
  <2>3. QED BY <2>2 DEF c
<1>4. \A x \in Nat : /\ Goes(b, ToAck(b, x), r) /\ IsMaster(ToAck(b, x), r)
                     /\ Goes(b, ToAnswered(b, x), r) /\ IsMaster(ToAnswered(b, x), r)
                     /\ Goes(b, ToUntil(b, x), r) /\ IsMaster(ToUntil(b, x), r)
  BY <1>1, <1>3, MasterFields, Zenon DEF ToAck, ToAnswered, ToUntil
<1>5. \A x \in {0, 1, 2} : Goes(b, ToXbus(b, x), r) /\ IsMaster(ToXbus(b, x), r)
  BY <1>1, <1>3, MasterFields, Zenon DEF ToXbus
<1>6. QED BY <1>4, <1>5

LEMMA OtherMaster ==
  \A b, c, r : IsMaster(b, r) /\ c \in Busints /\ Other(b, c) => Goes(b, c, r) /\ IsMaster(c, r)
  BY OtherGoes DEF IsMaster, Goes, Aside

LEMMA DebugXbusMasterIs ==
  ASSUME NEW b, NEW r, IsMaster(b, r), NEW ack \in Nat, NEW answered \in Nat
  PROVE  /\ Goes(b, DebugXbusMaster(b, ack, answered), r)
         /\ IsMaster(DebugXbusMaster(b, ack, answered), r)
<1> DEFINE until == Later(ack, b.request.hold)
           c1 == [b EXCEPT !.debugAck = ack]
           c2 == [c1 EXCEPT !.debugAnswered = answered]
           c3 == ToAck(c2, ack)
           c4 == ToAnswered(c3, answered)
           c5 == ToXbus(c4, 2)
           c6 == ToUntil(c5, until)
<1>1. b \in Busints /\ until \in Nat
  BY BusintFields, RequestFields, Arithmetic DEF IsMaster, BusInv
<1>2. DebugXbusMaster(b, ack, answered) = c6
  BY <1>1 DEF DebugXbusMaster, Busints, ToAck, ToAnswered, ToXbus, ToUntil
<1> HIDE DEF until
<1>3. Goes(b, c1, r) /\ IsMaster(c1, r)
  <2>1. c1 \in Busints /\ Other(b, c1)
    BY <1>1, DebugAckSet, OthersSet
  <2> HIDE DEF c1
  <2>2. QED BY <2>1, OtherMaster
<1> HIDE DEF c1
<1>4. Goes(c1, c2, r) /\ IsMaster(c2, r)
  <2>1. c2 \in Busints /\ Other(c1, c2)
    BY <1>3, DebugAnsweredSet, OthersSet DEF Goes, BusInv
  <2> HIDE DEF c2
  <2>2. QED BY <1>3, <2>1, OtherMaster
<1> HIDE DEF c2
<1>5. Goes(c2, c3, r) /\ IsMaster(c3, r)
  BY <1>4, MasterSteps
<1> HIDE DEF c3
<1>6. Goes(c3, c4, r) /\ IsMaster(c4, r)
  BY <1>5, MasterSteps
<1> HIDE DEF c4
<1>7. Goes(c4, c5, r) /\ IsMaster(c5, r)
  BY <1>6, MasterSteps
<1> HIDE DEF c5
<1>8. Goes(c5, c6, r) /\ IsMaster(c6, r)
  BY <1>1, <1>7, MasterSteps
<1> HIDE DEF c6
<1>9. Goes(b, c3, r)
  BY <1>3, <1>4, <1>5, GoesOn
<1>10. Goes(b, c6, r)
  BY <1>6, <1>7, <1>8, <1>9, GoesOn
<1>11. QED BY <1>2, <1>8, <1>10

LEMMA TwinMaster ==
  ASSUME NEW b, NEW r, IsMaster(b, r), NEW k \in Boards, NEW twin \in Twins
  PROVE  Goes(b, WithTwin(b, k, twin), r) /\ IsMaster(WithTwin(b, k, twin), r)
<1> DEFINE c == WithTwin(b, k, twin)
<1>1. c \in Busints /\ TwinsSeen(c) /\ Aside(b, c)
  BY WithTwinIs DEF IsMaster, BusInv
<1> HIDE DEF c
<1>2. BusInv(c, r) /\ Keeps(b, c) /\ (Taken(c) <=> Taken(b))
  BY <1>1, AsideKeeps DEF IsMaster
<1>3. QED BY <1>1, <1>2 DEF Goes, IsMaster, Aside, c

LEMMA DebugXbusCycleIs ==
  ASSUME NEW b, NEW r, IsMaster(b, r), NEW k \in Boards, NEW t \in Nat
  PROVE  Goes(b, DebugXbusCycle(b, k, BoardRequest(b.memory[k], t)), r)
<1> DEFINE asked == BoardRequest(b.memory[k], t)
           ack == IF b.request.write THEN asked.at ELSE asked.at + XbusAckNs + UbXbusReadAckNs
           free == [asked.twin EXCEPT !.release = ack + UnibusStrobeNs]
           c1 == WithTwin(b, k, asked.twin)
           c2 == DebugXbusMaster(c1, ack, asked.at)
           c3 == WithTwin(c2, k, free)
<1>1. asked.twin \in Twins /\ asked.at \in Nat
  BY BusintFields, TwinRequest DEF IsMaster, BusInv
<1>2. DebugXbusCycle(b, k, asked) = c3
  BY DEF DebugXbusCycle, DebugXbusRelease
<1> HIDE DEF asked
<1>3. ack \in Nat /\ ack + UnibusStrobeNs \in Nat
  BY <1>1, Constants, Arithmetic
<1> HIDE DEF ack
<1>4. free \in Twins
  BY <1>1, <1>3 DEF Twins
<1> HIDE DEF free
<1>5. Goes(b, c1, r) /\ IsMaster(c1, r)
  BY <1>1, TwinMaster
<1> HIDE DEF c1
<1>6. Goes(c1, c2, r) /\ IsMaster(c2, r)
  BY <1>1, <1>3, <1>5, DebugXbusMasterIs
<1> HIDE DEF c2
<1>7. Goes(c2, c3, r)
  BY <1>4, <1>6, TwinMaster
<1> HIDE DEF c3
<1>8. Goes(b, c3, r)
  BY <1>5, <1>6, <1>7, GoesOn
<1>9. QED BY <1>2, <1>8 DEF asked

LEMMA DebugXbusEdgeIs ==
  ASSUME NEW b, NEW r, IsMaster(b, r), NEW now \in Nat
  PROVE  Goes(b, DebugXbusEdge(b, now), r)
<1> DEFINE free == b.state.k \notin {"granted", "acked"}
           mapped == b.responder \in {"mapXbus", "mapMd"}
<1>0. /\ b \in Busints /\ b.debug.xbus \in {0, 1, 2} /\ b.debug.msyn \in Nat
      /\ BusInv(b, r) /\ ~Taken(b)
  BY BusintFields, DebugFields DEF IsMaster, BusInv
<1>1. Goes(b, b, r)
  BY <1>0, GoesOn
<1>2. CASE mapped /\ b.debug.xbus = 0 /\ now > b.debug.msyn + UbXbusRequestNs
  <2> DEFINE c1 == ToXbus(b, 1)
             c2 == ToAck(c1, Never)
             c3 == ToAnswered(c2, Never)
  <2>1. DebugXbusEdge(b, now) = c3
    BY <1>0, <1>2 DEF DebugXbusEdge, Busints, ToXbus, ToAck, ToAnswered
  <2>2. Goes(b, c1, r) /\ IsMaster(c1, r)
    BY MasterSteps
  <2> HIDE DEF c1
  <2>3. Goes(c1, c2, r) /\ IsMaster(c2, r)
    BY <2>2, MasterSteps, Constants
  <2> HIDE DEF c2
  <2>4. Goes(c2, c3, r)
    BY <2>3, MasterSteps, Constants
  <2> HIDE DEF c3
  <2>5. QED BY <2>1, <2>2, <2>3, <2>4, GoesOn
<1>3. CASE b.responder = "mapMd" /\ b.debug.xbus = 1 /\ free
  <2>1. DebugXbusEdge(b, now) = DebugXbusMaster(b, now + UbMdAckNs, now)
    BY <1>3 DEF DebugXbusEdge
  <2>2. now + UbMdAckNs \in Nat
    BY Constants, Arithmetic
  <2>3. QED BY <2>1, <2>2, DebugXbusMasterIs
<1>4. CASE b.responder = "mapXbus" /\ b.debug.xbus = 1 /\ free
  <2> DEFINE k == CHOOSE j \in Boards : TRUE
  <2>1. DebugXbusEdge(b, now) = DebugXbusCycle(b, k, BoardRequest(b.memory[k], now + SetupNs))
    BY <1>4 DEF DebugXbusEdge
  <2>2. k \in Boards
    BY BusintAssumption
  <2> HIDE DEF k
  <2>3. now + SetupNs \in Nat
    BY Constants, Arithmetic
  <2>4. QED BY <2>1, <2>2, <2>3, DebugXbusCycleIs
<1>5. CASE /\ ~(mapped /\ b.debug.xbus = 0 /\ now > b.debug.msyn + UbXbusRequestNs)
           /\ ~(mapped /\ b.debug.xbus = 1 /\ free)
  <2>1. DebugXbusEdge(b, now) = b
    BY <1>5 DEF DebugXbusEdge
  <2>2. QED BY <1>1, <2>1
<1>6. QED BY <1>2, <1>3, <1>4, <1>5

\* The grant to the debug master, while none is out to the processor.
SelectAt(c, t) == [c EXCEPT !.debugSack = t, !.debug = [k |-> "granted", sack |-> t]]

LEMMA SelectIs ==
  ASSUME NEW b, NEW r, BusInv(b, r), ~LmGrantOut(b), NEW now \in Nat,
         b.memrqUp = Never \/ b.memrqUp <= now
  PROVE  Goes(b, SelectAt(b, now + DebugSelectNs), r)
<1> DEFINE t == now + DebugSelectNs
           d == [k |-> "granted", sack |-> t]
           e == [b EXCEPT !.debugSack = t]
           c == [e EXCEPT !.debug = d]
<1>1. b \in Busints /\ b.memrqUp \in Nat /\ t \in Nat /\ t > now
  BY BusintFields, Constants, Arithmetic DEF BusInv
<1>2. SelectAt(b, t) = c
  BY DEF SelectAt
<1> HIDE DEF t
<1>3. d \in Debugs /\ d.k = "granted"
  BY <1>1, DebugsMade
<1> HIDE DEF d
<1>4. /\ e \in Busints /\ e.debugSack = t /\ e.state = b.state /\ e.debug = b.debug
      /\ e.memrqUp = b.memrqUp /\ e.unibusMaster = b.unibusMaster /\ e.request = b.request
      /\ e.memory = b.memory /\ e.memoryNext = b.memoryNext
  <2>1. e \in Busints BY <1>1, DebugSackSet
  <2>2. QED BY <1>1, <2>1 DEF Busints
<1> HIDE DEF e
<1>5. BusInv(e, r) /\ ~LmGrantOut(e)
  BY <1>4 DEF BusInv, TwinsSeen, Strobed, Apart, Selected, GrantsApart, OnItsBus, LmGrantOut, DebugGrantOut
<1>6. BusInv(c, r) /\ c.debug = d /\ SameButDebug(e, c)
  BY <1>3, <1>5, DebugTo
<1> HIDE DEF c
<1>7. ~(c.memrqUp # Never /\ c.memrqUp >= c.debugSack)
  BY <1>1, <1>4, <1>6 DEF SameButDebug
<1>8. Goes(b, c, r)
  BY <1>4, <1>6, <1>7 DEF Goes, Keeps, SameButDebug, Taken
<1>9. QED BY <1>2, <1>8 DEF t

LEMMA DebugKindTo ==
  ASSUME NEW b, NEW r, BusInv(b, r), ~Taken(b),
         NEW k \in {"nprd", "selected"}, k = "selected" => b.debug.k = "granted"
  PROVE  Goes(b, [b EXCEPT !.debug = [k |-> k]], r)
<1> DEFINE d == [k |-> k]
           c == [b EXCEPT !.debug = d]
<1>1. d \in Debugs /\ d.k = k
  BY DebugsMade
<1> HIDE DEF d
<1>2. d.k \in {"granted", "selected"} => ~LmGrantOut(b)
  BY <1>1 DEF BusInv, GrantsApart, DebugGrantOut
<1>3. BusInv(c, r) /\ c.debug = d /\ SameButDebug(b, c)
  BY <1>1, <1>2, DebugTo
<1> HIDE DEF c
<1>4. Goes(b, c, r)
  BY <1>1, <1>3 DEF Goes, Keeps, SameButDebug, Taken, DebugGrantOut
<1>5. QED BY <1>4 DEF c, d

LEMMA DebugEdgeIs ==
  ASSUME NEW b, NEW r, BusInv(b, r), ~Taken(b), NEW now \in Nat,
         b.memrqUp = Never \/ b.memrqUp <= now
  PROVE  Goes(b, DebugEdge(b, now), r)
<1> DEFINE t == now + DebugSelectNs
           c == DebugEdge(b, now)
<1>1. b \in Busints /\ Goes(b, b, r)
  BY GoesOn DEF BusInv
<1>2. CASE b.debug.k = "needUb" /\ now > b.requestedAt
  <2>1. CASE b.state.k = "arbitrating" /\ b.state.stage = 3 /\ now <= b.state.sack
    <3> DEFINE e == [b EXCEPT !.state = Arbitrating(2, Never)]
    <3>1. c = SelectAt(e, t)
      BY <1>2, <2>1 DEF DebugEdge, SelectAt
    <3>2. OnUnibus(r)
      BY <2>1 DEF BusInv, OnItsBus
    <3>3. Goes(b, e, r) /\ SameButState(b, e)
      BY <3>2, StageIs, Constants
    <3>4. e.state = Arbitrating(2, Never)
      BY <1>1 DEF Busints
    <3> HIDE DEF e
    <3>5. ~LmGrantOut(e) /\ e.memrqUp = b.memrqUp
      BY <3>3, <3>4 DEF LmGrantOut, Arbitrating, SameButState
    <3>6. Goes(e, SelectAt(e, t), r)
      BY <3>3, <3>5, SelectIs DEF Goes
    <3>7. QED BY <3>1, <3>3, <3>6, GoesOn
  <2>2. CASE ~(b.state.k = "arbitrating" /\ b.state.stage = 3 /\ now <= b.state.sack)
    <3>1. c = [b EXCEPT !.debug = [k |-> "nprd"]]
      BY <1>2, <2>2 DEF DebugEdge
    <3>2. QED BY <3>1, DebugKindTo
  <2>3. QED BY <2>1, <2>2
<1>3. CASE b.debug.k = "nprd" /\ b.hold = 0 /\ ~LmGrantOut(b)
  <2>1. c = SelectAt(b, t)
    BY <1>3 DEF DebugEdge, SelectAt
  <2>2. QED BY <1>3, <2>1, SelectIs
<1>4. CASE b.debug.k = "granted" /\ now > b.debug.sack /\ ~b.msynDown
  <2>1. CASE b.unibusMaster
    <3>1. c = [b EXCEPT !.debug = [k |-> "selected"]]
      BY <1>4, <2>1 DEF DebugEdge
    <3>2. QED BY <1>4, <3>1, DebugKindTo
  <2>2. CASE ~b.unibusMaster
    <3>1. c = DebugSetMaster(b, now)
      BY <1>4, <2>2 DEF DebugEdge
    <3>2. QED BY <2>2, <3>1, DebugSetMasterIs DEF Goes, Steps
  <2>3. QED BY <2>1, <2>2
<1>5. CASE b.debug.k = "selected" /\ ~b.unibusMaster
  <2>1. c = DebugSetMaster(b, now)
    BY <1>5 DEF DebugEdge
  <2>2. QED BY <1>5, <2>1, DebugSetMasterIs DEF Goes, Steps
<1>6. CASE b.debug.k = "master"
  <2>1. c = DebugXbusEdge(b, now)
    BY <1>6 DEF DebugEdge
  <2>2. QED BY <1>6, <2>1, DebugXbusEdgeIs DEF IsMaster
<1>7. CASE /\ ~(b.debug.k = "needUb" /\ now > b.requestedAt)
           /\ ~(b.debug.k = "nprd" /\ b.hold = 0 /\ ~LmGrantOut(b))
           /\ ~(b.debug.k = "granted" /\ now > b.debug.sack /\ ~b.msynDown)
           /\ ~(b.debug.k = "selected" /\ ~b.unibusMaster)
           /\ b.debug.k # "master"
  <2>1. c = b
    BY <1>7 DEF DebugEdge
  <2>2. QED BY <1>1, <2>1
<1>8. QED BY <1>2, <1>3, <1>4, <1>5, <1>6, <1>7

\* The edge whole, at an instant not before -MEMRQ went up.
LEMMA MclkEdgeIs ==
  ASSUME NEW b, NEW r, BusInv(b, r), Taken(b) => Free(b), NEW now \in Nat,
         b.memrqUp = Never \/ b.memrqUp <= now
  PROVE  Goes(b, MclkEdge(b, now, r), r)
<1> DEFINE down == b.state.k \in {"granted", "acked"}
           c1 == [b EXCEPT !.msynDown = down]
           c2 == ClockTwins(c1, now)
           c3 == DebugAdvance(c2, now)
           c4 == NeedUb(c3, now)
           c5 == CycleEdge(c4, now, r)
           c6 == DebugEdge(c5, now)
<1>1. MclkEdge(b, now, r) = c6
  BY DEF MclkEdge
<1>2. Steps(b, c1, r)
  <2>1. down \in BOOLEAN
    OBVIOUS
  <2> HIDE DEF down
  <2>2. c1 \in Busints /\ Other(b, c1)
    BY <2>1, MsynDownSet, OthersSet DEF BusInv
  <2> HIDE DEF c1
  <2>3. BusInv(c1, r) /\ Aside(b, c1)
    BY <2>2, OtherIs
  <2>4. QED BY <2>2, <2>3, AsideKeeps DEF Steps, BusInv
<1> HIDE DEF c1
<1>3. Steps(c1, c2, r)
  <2>1. BusInv(c1, r) BY <1>2 DEF Steps
  <2>2. BusInv(c2, r) /\ Aside(c1, c2)
    BY <2>1, ClockTwinsIs
  <2> HIDE DEF c2
  <2>3. QED BY <2>1, <2>2, AsideKeeps DEF Steps, BusInv
<1> HIDE DEF c2
<1>4. Steps(b, c2, r)
  BY <1>2, <1>3, StepsOn
<1>5. c2.memrqUp = Never \/ c2.memrqUp <= now
  BY <1>4 DEF Steps, Keeps
<1>6. Steps(c2, c3, r) /\ ~Taken(c3)
  BY <1>4, <1>5, DebugAdvanceIs DEF Steps
<1> HIDE DEF c3
<1>7. Steps(c3, c4, r)
  BY <1>6, NeedUbIs DEF Steps
<1> HIDE DEF c4
<1>8. Steps(b, c4, r) /\ ~Taken(c4)
  BY <1>4, <1>6, <1>7, StepsOn DEF Steps
<1>9. Goes(c4, c5, r)
  BY <1>8, CycleEdgeIs DEF Steps
<1> HIDE DEF c5
<1>10. Goes(b, c5, r)
  BY <1>8, <1>9, GoesOn
<1>11. c5.memrqUp = Never \/ c5.memrqUp <= now
  BY <1>10 DEF Goes, Keeps
<1>12. Goes(c5, c6, r)
  BY <1>10, <1>11, DebugEdgeIs DEF Goes
<1> HIDE DEF c6
<1>13. QED BY <1>1, <1>10, <1>12, GoesOn
-----------------------------------------------------------------------------
(* What the machine asks of its interface. *)

\* A debug master put back to nothing.
LEMMA QuietIs ==
  ASSUME NEW b, NEW r, BusInv(b, r)
  PROVE  Steps(b, [b EXCEPT !.debug = Quiet], r)
<1> DEFINE c == [b EXCEPT !.debug = Quiet]
<1>1. Quiet \in Debugs /\ Quiet.k = "idle"
  BY DebugsMade DEF Quiet
<1>2. BusInv(c, r) /\ c.debug = Quiet /\ SameButDebug(b, c)
  BY <1>1, DebugTo
<1> HIDE DEF c
<1>3. Steps(b, c, r)
  BY <1>1, <1>2 DEF Steps, Keeps, SameButDebug, Taken, Free, DebugGrantOut
<1>4. QED BY <1>3 DEF c

LEMMA DebugReleaseIs ==
  ASSUME NEW b, NEW r, BusInv(b, r), NEW at \in Nat
  PROVE  Steps(b, DebugRelease(b, at), r)
<1> DEFINE c == DebugRelease(b, at)
<1>0. /\ b \in Busints /\ b.debugAck \in Nat /\ b.debugAnswered \in Nat
      /\ at + DebugReleaseNs \in Nat
  BY BusintFields, Constants, Arithmetic DEF BusInv
<1>1. CASE b.debug.k \in {"idle", "releasing"}
  BY <1>1, StepsNot DEF DebugRelease
<1>2. CASE b.debug.k = "strobe"
  <2> DEFINE e == DebugLatch(b)
  <2>1. c = [e EXCEPT !.debug = Quiet]
    BY <1>2 DEF DebugRelease
  <2>2. Steps(b, e, r)
    BY <1>2, DebugLatchIs DEF BusInv, Strobed
  <2> HIDE DEF c, e
  <2>3. Steps(e, c, r)
    BY <2>1, <2>2, QuietIs DEF Steps
  <2>4. QED BY <2>2, <2>3, StepsOn DEF c
<1>3. CASE b.debug.k = "master"
  <2> DEFINE ack == IF at < b.debug.ack THEN Never ELSE b.debugAck
             answered == IF at < b.debug.answered THEN Never ELSE b.debugAnswered
             t == at + DebugReleaseNs
             c1 == [b EXCEPT !.debugAck = ack]
             c2 == [c1 EXCEPT !.debugAnswered = answered]
             c3 == [c2 EXCEPT !.freedAt = t, !.debug = [k |-> "releasing", until |-> t]]
  <2>1. c = c3
    BY <1>3 DEF DebugRelease
  <2>2. ack \in Nat /\ answered \in Nat
    BY <1>0, Constants
  <2> HIDE DEF ack, answered, c
  <2>3. BusInv(c1, r) /\ Aside(b, c1)
    BY <1>0, <2>2, DebugAckSet, OthersSet, OtherIs
  <2> HIDE DEF c1
  <2>4. BusInv(c2, r) /\ Aside(c1, c2)
    BY <2>2, <2>3, DebugAnsweredSet, OthersSet, OtherIs DEF BusInv
  <2> HIDE DEF c2
  <2>5. Steps(b, c1, r) /\ Steps(c1, c2, r)
    BY <2>3, <2>4, AsideKeeps DEF Steps, BusInv
  <2>6. Steps(c2, c3, r)
    BY <1>0, <2>4, Releases
  <2>7. QED BY <2>1, <2>5, <2>6, StepsOn DEF c
<1>4. CASE b.debug.k \notin {"idle", "releasing", "strobe", "master"}
  <2>1. c = [b EXCEPT !.debug = Quiet]
    BY <1>4 DEF DebugRelease
  <2>2. QED BY <2>1, QuietIs
<1>5. QED BY <1>1, <1>2, <1>3, <1>4

\* The caller has found the cable idle.
LEMMA DebugRequestIs ==
  ASSUME NEW b, NEW r, BusInv(b, r), Taken(b) => Free(b), NEW at \in Nat,
         DebugAdvance(b, at).debug.k = "idle",
         NEW req \in Requests, req.strobe # "none", NEW u \in Data \cup Mapped
  PROVE  Steps(b, DebugRequest(b, at, req, u), r)
<1> DEFINE c0 == DebugAdvance(b, at)
           ack == IF req.strobe = "cycle" THEN Never ELSE at
           d == IF req.strobe = "cycle" THEN [k |-> "needUb"]
                ELSE [k |-> "strobe", until |-> at + req.hold]
           c1 == [c0 EXCEPT !.request = req]
           c2 == [c1 EXCEPT !.requestedAt = at]
           c3 == [c2 EXCEPT !.responder = u]
           c4 == [c3 EXCEPT !.debugAnswered = Never]
           c5 == [c4 EXCEPT !.debugAck = ack]
           c6 == [c5 EXCEPT !.debug = d]
<1>1. DebugRequest(b, at, req, u) = c6
  BY DEF DebugRequest
<1>2. Steps(b, c0, r) /\ c0.debug.k = "idle"
  BY DebugAdvanceIs
<1>3. ack \in Nat /\ Never \in Nat
  BY Constants
<1>4. d \in Debugs /\ d.k \in {"needUb", "strobe"}
  <2>1. at + req.hold \in Nat
    BY RequestFields, Arithmetic
  <2>2. QED BY <2>1, DebugsMade
<1> HIDE DEF c0, ack, d
<1>5. c1 \in Busints
  BY <1>2, RequestSet DEF Steps, BusInv
<1>6. /\ c1.request = req /\ c1.state = c0.state /\ c1.debug = c0.debug
      /\ c1.memrqUp = c0.memrqUp /\ c1.unibusMaster = c0.unibusMaster
      /\ c1.memory = c0.memory /\ c1.memoryNext = c0.memoryNext
  BY <1>2 DEF Steps, BusInv, Busints
<1> HIDE DEF c1
<1>7. BusInv(c1, r)
  BY <1>2, <1>5, <1>6 DEF Steps, BusInv, TwinsSeen, Strobed, Apart, Selected, GrantsApart,
                          OnItsBus, LmGrantOut, DebugGrantOut
<1>8. BusInv(c2, r) /\ Aside(c1, c2)
  BY <1>7, RequestedAtSet, OthersSet, OtherIs DEF BusInv
<1> HIDE DEF c2
<1>9. BusInv(c3, r) /\ Aside(c2, c3)
  BY <1>8, ResponderSet, OthersSet, OtherIs DEF BusInv
<1> HIDE DEF c3
<1>10. BusInv(c4, r) /\ Aside(c3, c4)
  BY <1>3, <1>9, DebugAnsweredSet, OthersSet, OtherIs DEF BusInv
<1> HIDE DEF c4
<1>11. BusInv(c5, r) /\ Aside(c4, c5)
  BY <1>3, <1>10, DebugAckSet, OthersSet, OtherIs DEF BusInv
<1> HIDE DEF c5
<1>12. /\ c5.request = req /\ c5.state = c0.state /\ c5.memrqUp = c0.memrqUp
  BY <1>6, <1>8, <1>9, <1>10, <1>11 DEF Aside
<1>13. BusInv(c6, r) /\ c6.debug = d /\ SameButDebug(c5, c6)
  BY <1>4, <1>11, <1>12, DebugTo
<1> HIDE DEF c6
<1>14. Steps(c0, c6, r)
  BY <1>4, <1>12, <1>13 DEF Steps, Keeps, SameButDebug, Taken, Free, DebugGrantOut
<1>15. QED BY <1>1, <1>2, <1>14, StepsOn

\* -MEMACK looked for: a cycle granted is acknowledged, or nothing changes.
LEMMA PollIs ==
  ASSUME NEW b, NEW r, BusInv(b, r), Taken(b) => Free(b), NEW now \in Nat
  PROVE  /\ BusInv(Poll(b, now), r)
         /\ Taken(Poll(b, now)) => Free(Poll(b, now))
         /\ Poll(b, now).memrqUp = b.memrqUp
         /\ Poll(b, now).state.k = "acked" \/ Poll(b, now) = b
<1> DEFINE e == [b.state EXCEPT !.k = "acked"]
           c == [b EXCEPT !.state = e]
           acks == b.state.k = "granted" /\ now >= b.state.ack
<1>1. b \in Busints /\ b.state \in States /\ b.outPending = FALSE
  BY BusintFields DEF BusInv
<1>2. Poll(b, now) = IF acks THEN c ELSE b
  BY <1>1 DEF Poll
<1>3. CASE acks
  <2>1. e \in States /\ e.k = "acked"
    BY <1>1, <1>3, StateFields, StatesMade DEF States, Arbitrations, Cycles
  <2>2. OnUnibus(r) => b.unibusMaster
    BY <1>3 DEF BusInv, Selected
  <2>3. Poll(b, now) = c
    BY <1>2, <1>3
  <2> HIDE DEF e
  <2>4. BusInv(c, r) /\ c.state = e /\ SameButState(b, c)
    BY <2>1, <2>2, StateTo
  <2> HIDE DEF c
  <2>5. ~Taken(c)
    BY <1>3, <2>4 DEF Taken, Free, SameButState, DebugGrantOut
  <2>6. QED BY <2>1, <2>3, <2>4, <2>5 DEF SameButState
<1>4. CASE ~acks
  BY <1>2, <1>4
<1>5. QED BY <1>3, <1>4

\* A request, of any responder: the cycle before it is over.
LEMMA RequestAtIs ==
  ASSUME NEW b, NEW r, BusInv(b, r), NEW write \in BOOLEAN, NEW u
  PROVE  /\ BusInv(RequestAt(b, write), u) /\ Free(RequestAt(b, write))
         /\ RequestAt(b, write).memrqUp = b.memrqUp
<1> DEFINE c1 == [b EXCEPT !.state = Requested]
           c2 == [c1 EXCEPT !.write = write]
           c3 == [c2 EXCEPT !.board = "none"]
<1>1. RequestAt(b, write) = c3
  BY DEF RequestAt
<1>2. Requested \in States /\ Requested.k = "requested"
  BY StatesMade DEF Requested
<1>3. BusInv(c1, r) /\ c1.state = Requested /\ SameButState(b, c1)
  BY <1>2, StateTo
<1> HIDE DEF c1
<1>4. BusInv(c2, r) /\ Aside(c1, c2)
  BY <1>3, WriteSet, OthersSet, OtherIs DEF BusInv
<1> HIDE DEF c2
<1>5. BusInv(c3, r) /\ Aside(c2, c3)
  BY <1>4, BoardSet, OthersSet, OtherIs DEF BusInv
<1> HIDE DEF c3
<1>6. c3.state.k = "requested" /\ c3.memrqUp = b.memrqUp
  BY <1>2, <1>3, <1>4, <1>5 DEF Aside, SameButState
<1>7. BusInv(c3, u)
  BY <1>5, <1>6 DEF BusInv, Selected, OnItsBus
<1>8. QED BY <1>1, <1>6, <1>7 DEF Free

LEMMA FinishIs ==
  ASSUME NEW b, NEW r, BusInv(b, r), NEW t \in Nat, t = b.state.ack + MfinishdNs \/ b.state.k # "acked"
  PROVE  /\ BusInv(Finish(b), r) /\ Free(Finish(b)) /\ Finish(b).state = Idle
         /\ Finish(b).memrqUp \in {b.memrqUp, t}
<1> DEFINE up == IF b.state.k = "acked" THEN b.state.ack + MfinishdNs ELSE b.memrqUp
           c1 == [b EXCEPT !.state = Idle]
           c == [c1 EXCEPT !.memrqUp = up]
<1>1. Finish(b) = c /\ b \in Busints
  BY DEF Finish, BusInv, Busints
<1>2. up \in Nat /\ up \in {b.memrqUp, t}
  BY <1>1, BusintFields
<1>3. Idle \in States /\ Idle.k = "idle"
  BY StatesMade DEF Idle
<1>4. BusInv(c1, r) /\ c1.state = Idle
  BY <1>3, StateTo
<1> HIDE DEF c1, up
<1>5. c \in Busints
  BY <1>2, <1>4, MemrqUpSet DEF BusInv
<1>6. /\ c.memrqUp = up /\ c.state = c1.state /\ c.debug = c1.debug
      /\ c.unibusMaster = c1.unibusMaster /\ c.request = c1.request
      /\ c.memory = c1.memory /\ c.memoryNext = c1.memoryNext
  BY <1>4 DEF BusInv, Busints
<1> HIDE DEF c
<1>7. BusInv(c, r)
  BY <1>4, <1>5, <1>6 DEF BusInv, TwinsSeen, Strobed, Apart, Selected, GrantsApart,
                          OnItsBus, LmGrantOut, DebugGrantOut
<1>8. QED BY <1>1, <1>2, <1>3, <1>4, <1>6, <1>7 DEF Free
-----------------------------------------------------------------------------
(* The machine: its record, and one field of it replaced. *)

Places == XbusResponders \cup UnibusResponders \cup {"none"}

Machines ==
  [ns : Nat, bus : Busints, ir : Instructions, memstart : BOOLEAN, rdcyc : BOOLEAN,
   wrcyc : BOOLEAN, vma : Places, mbusy : BOOLEAN, mbusySync : BOOLEAN,
   reading : BOOLEAN, responder : Places, started : Nat, written : BOOLEAN,
   acked : BOOLEAN, loadmdAt : Nat, finishAt : Nat, clearAt : Nat, md : Nat,
   word : Nat, pulsed : BOOLEAN, held : BOOLEAN, debugReset : BOOLEAN,
   debugSampled : BOOLEAN, debugWritten : BOOLEAN, answer : Nat, run : BOOLEAN,
   srun : BOOLEAN]

LEMMA MachineFields ==
  \A c \in Machines :
    /\ c.ns \in Nat /\ c.bus \in Busints /\ c.ir \in Instructions
    /\ c.vma \in Places /\ c.responder \in Places /\ c.started \in Nat
    /\ c.loadmdAt \in Nat /\ c.finishAt \in Nat /\ c.clearAt \in Nat
    /\ c.md \in Nat /\ c.word \in Nat /\ c.answer \in Nat
    /\ c.memstart \in BOOLEAN /\ c.rdcyc \in BOOLEAN /\ c.wrcyc \in BOOLEAN
    /\ c.mbusy \in BOOLEAN /\ c.mbusySync \in BOOLEAN /\ c.reading \in BOOLEAN
    /\ c.written \in BOOLEAN /\ c.acked \in BOOLEAN /\ c.pulsed \in BOOLEAN
    /\ c.held \in BOOLEAN /\ c.debugReset \in BOOLEAN /\ c.debugSampled \in BOOLEAN
    /\ c.debugWritten \in BOOLEAN /\ c.run \in BOOLEAN /\ c.srun \in BOOLEAN
  BY DEF Machines

\* The fields the bus's invariant is about.
SameBus(c, d) ==
  /\ d.bus = c.bus /\ d.responder = c.responder /\ d.clearAt = c.clearAt
  /\ d.ns = c.ns /\ d.ir = c.ir

\* A step that leaves them.
Beside(c, d) == d \in Machines /\ SameBus(c, d)

LEMMA BesideOn == \A c, d, e : Beside(c, d) /\ Beside(d, e) => Beside(c, e)
  BY DEF Beside, SameBus

LEMMA MMemstart == \A c \in Machines : \A x \in BOOLEAN : Beside(c, [c EXCEPT !.memstart = x])
<1>1. \A c \in Machines : \A x \in BOOLEAN : [c EXCEPT !.memstart = x] \in Machines
  BY Zenon DEF Machines
<1>2. \A c \in Machines : \A x \in BOOLEAN : SameBus(c, [c EXCEPT !.memstart = x])
  BY DEF Machines, SameBus
<1>3. QED BY <1>1, <1>2 DEF Beside

LEMMA MRdcyc == \A c \in Machines : \A x \in BOOLEAN : Beside(c, [c EXCEPT !.rdcyc = x])
<1>1. \A c \in Machines : \A x \in BOOLEAN : [c EXCEPT !.rdcyc = x] \in Machines
  BY Zenon DEF Machines
<1>2. \A c \in Machines : \A x \in BOOLEAN : SameBus(c, [c EXCEPT !.rdcyc = x])
  BY DEF Machines, SameBus
<1>3. QED BY <1>1, <1>2 DEF Beside

LEMMA MWrcyc == \A c \in Machines : \A x \in BOOLEAN : Beside(c, [c EXCEPT !.wrcyc = x])
<1>1. \A c \in Machines : \A x \in BOOLEAN : [c EXCEPT !.wrcyc = x] \in Machines
  BY Zenon DEF Machines
<1>2. \A c \in Machines : \A x \in BOOLEAN : SameBus(c, [c EXCEPT !.wrcyc = x])
  BY DEF Machines, SameBus
<1>3. QED BY <1>1, <1>2 DEF Beside

LEMMA MMbusy == \A c \in Machines : \A x \in BOOLEAN : Beside(c, [c EXCEPT !.mbusy = x])
<1>1. \A c \in Machines : \A x \in BOOLEAN : [c EXCEPT !.mbusy = x] \in Machines
  BY Zenon DEF Machines
<1>2. \A c \in Machines : \A x \in BOOLEAN : SameBus(c, [c EXCEPT !.mbusy = x])
  BY DEF Machines, SameBus
<1>3. QED BY <1>1, <1>2 DEF Beside

LEMMA MMbusySync == \A c \in Machines : \A x \in BOOLEAN : Beside(c, [c EXCEPT !.mbusySync = x])
<1>1. \A c \in Machines : \A x \in BOOLEAN : [c EXCEPT !.mbusySync = x] \in Machines
  BY Zenon DEF Machines
<1>2. \A c \in Machines : \A x \in BOOLEAN : SameBus(c, [c EXCEPT !.mbusySync = x])
  BY DEF Machines, SameBus
<1>3. QED BY <1>1, <1>2 DEF Beside

LEMMA MReading == \A c \in Machines : \A x \in BOOLEAN : Beside(c, [c EXCEPT !.reading = x])
<1>1. \A c \in Machines : \A x \in BOOLEAN : [c EXCEPT !.reading = x] \in Machines
  BY Zenon DEF Machines
<1>2. \A c \in Machines : \A x \in BOOLEAN : SameBus(c, [c EXCEPT !.reading = x])
  BY DEF Machines, SameBus
<1>3. QED BY <1>1, <1>2 DEF Beside

LEMMA MWritten == \A c \in Machines : \A x \in BOOLEAN : Beside(c, [c EXCEPT !.written = x])
<1>1. \A c \in Machines : \A x \in BOOLEAN : [c EXCEPT !.written = x] \in Machines
  BY Zenon DEF Machines
<1>2. \A c \in Machines : \A x \in BOOLEAN : SameBus(c, [c EXCEPT !.written = x])
  BY DEF Machines, SameBus
<1>3. QED BY <1>1, <1>2 DEF Beside

LEMMA MAcked == \A c \in Machines : \A x \in BOOLEAN : Beside(c, [c EXCEPT !.acked = x])
<1>1. \A c \in Machines : \A x \in BOOLEAN : [c EXCEPT !.acked = x] \in Machines
  BY Zenon DEF Machines
<1>2. \A c \in Machines : \A x \in BOOLEAN : SameBus(c, [c EXCEPT !.acked = x])
  BY DEF Machines, SameBus
<1>3. QED BY <1>1, <1>2 DEF Beside

LEMMA MPulsed == \A c \in Machines : \A x \in BOOLEAN : Beside(c, [c EXCEPT !.pulsed = x])
<1>1. \A c \in Machines : \A x \in BOOLEAN : [c EXCEPT !.pulsed = x] \in Machines
  BY Zenon DEF Machines
<1>2. \A c \in Machines : \A x \in BOOLEAN : SameBus(c, [c EXCEPT !.pulsed = x])
  BY DEF Machines, SameBus
<1>3. QED BY <1>1, <1>2 DEF Beside

LEMMA MHeld == \A c \in Machines : \A x \in BOOLEAN : Beside(c, [c EXCEPT !.held = x])
<1>1. \A c \in Machines : \A x \in BOOLEAN : [c EXCEPT !.held = x] \in Machines
  BY Zenon DEF Machines
<1>2. \A c \in Machines : \A x \in BOOLEAN : SameBus(c, [c EXCEPT !.held = x])
  BY DEF Machines, SameBus
<1>3. QED BY <1>1, <1>2 DEF Beside

LEMMA MDebugReset == \A c \in Machines : \A x \in BOOLEAN : Beside(c, [c EXCEPT !.debugReset = x])
<1>1. \A c \in Machines : \A x \in BOOLEAN : [c EXCEPT !.debugReset = x] \in Machines
  BY Zenon DEF Machines
<1>2. \A c \in Machines : \A x \in BOOLEAN : SameBus(c, [c EXCEPT !.debugReset = x])
  BY DEF Machines, SameBus
<1>3. QED BY <1>1, <1>2 DEF Beside

LEMMA MDebugSampled == \A c \in Machines : \A x \in BOOLEAN : Beside(c, [c EXCEPT !.debugSampled = x])
<1>1. \A c \in Machines : \A x \in BOOLEAN : [c EXCEPT !.debugSampled = x] \in Machines
  BY Zenon DEF Machines
<1>2. \A c \in Machines : \A x \in BOOLEAN : SameBus(c, [c EXCEPT !.debugSampled = x])
  BY DEF Machines, SameBus
<1>3. QED BY <1>1, <1>2 DEF Beside

LEMMA MDebugWritten == \A c \in Machines : \A x \in BOOLEAN : Beside(c, [c EXCEPT !.debugWritten = x])
<1>1. \A c \in Machines : \A x \in BOOLEAN : [c EXCEPT !.debugWritten = x] \in Machines
  BY Zenon DEF Machines
<1>2. \A c \in Machines : \A x \in BOOLEAN : SameBus(c, [c EXCEPT !.debugWritten = x])
  BY DEF Machines, SameBus
<1>3. QED BY <1>1, <1>2 DEF Beside

LEMMA MRun == \A c \in Machines : \A x \in BOOLEAN : Beside(c, [c EXCEPT !.run = x])
<1>1. \A c \in Machines : \A x \in BOOLEAN : [c EXCEPT !.run = x] \in Machines
  BY Zenon DEF Machines
<1>2. \A c \in Machines : \A x \in BOOLEAN : SameBus(c, [c EXCEPT !.run = x])
  BY DEF Machines, SameBus
<1>3. QED BY <1>1, <1>2 DEF Beside

LEMMA MSrun == \A c \in Machines : \A x \in BOOLEAN : Beside(c, [c EXCEPT !.srun = x])
<1>1. \A c \in Machines : \A x \in BOOLEAN : [c EXCEPT !.srun = x] \in Machines
  BY Zenon DEF Machines
<1>2. \A c \in Machines : \A x \in BOOLEAN : SameBus(c, [c EXCEPT !.srun = x])
  BY DEF Machines, SameBus
<1>3. QED BY <1>1, <1>2 DEF Beside

LEMMA MStarted == \A c \in Machines : \A x \in Nat : Beside(c, [c EXCEPT !.started = x])
<1>1. \A c \in Machines : \A x \in Nat : [c EXCEPT !.started = x] \in Machines
  BY Zenon DEF Machines
<1>2. \A c \in Machines : \A x \in Nat : SameBus(c, [c EXCEPT !.started = x])
  BY DEF Machines, SameBus
<1>3. QED BY <1>1, <1>2 DEF Beside

LEMMA MLoadmdAt == \A c \in Machines : \A x \in Nat : Beside(c, [c EXCEPT !.loadmdAt = x])
<1>1. \A c \in Machines : \A x \in Nat : [c EXCEPT !.loadmdAt = x] \in Machines
  BY Zenon DEF Machines
<1>2. \A c \in Machines : \A x \in Nat : SameBus(c, [c EXCEPT !.loadmdAt = x])
  BY DEF Machines, SameBus
<1>3. QED BY <1>1, <1>2 DEF Beside

LEMMA MFinishAt == \A c \in Machines : \A x \in Nat : Beside(c, [c EXCEPT !.finishAt = x])
<1>1. \A c \in Machines : \A x \in Nat : [c EXCEPT !.finishAt = x] \in Machines
  BY Zenon DEF Machines
<1>2. \A c \in Machines : \A x \in Nat : SameBus(c, [c EXCEPT !.finishAt = x])
  BY DEF Machines, SameBus
<1>3. QED BY <1>1, <1>2 DEF Beside

LEMMA MMd == \A c \in Machines : \A x \in Nat : Beside(c, [c EXCEPT !.md = x])
<1>1. \A c \in Machines : \A x \in Nat : [c EXCEPT !.md = x] \in Machines
  BY Zenon DEF Machines
<1>2. \A c \in Machines : \A x \in Nat : SameBus(c, [c EXCEPT !.md = x])
  BY DEF Machines, SameBus
<1>3. QED BY <1>1, <1>2 DEF Beside

LEMMA MWord == \A c \in Machines : \A x \in Nat : Beside(c, [c EXCEPT !.word = x])
<1>1. \A c \in Machines : \A x \in Nat : [c EXCEPT !.word = x] \in Machines
  BY Zenon DEF Machines
<1>2. \A c \in Machines : \A x \in Nat : SameBus(c, [c EXCEPT !.word = x])
  BY DEF Machines, SameBus
<1>3. QED BY <1>1, <1>2 DEF Beside

LEMMA MAnswer == \A c \in Machines : \A x \in Nat : Beside(c, [c EXCEPT !.answer = x])
<1>1. \A c \in Machines : \A x \in Nat : [c EXCEPT !.answer = x] \in Machines
  BY Zenon DEF Machines
<1>2. \A c \in Machines : \A x \in Nat : SameBus(c, [c EXCEPT !.answer = x])
  BY DEF Machines, SameBus
<1>3. QED BY <1>1, <1>2 DEF Beside

LEMMA MVma == \A c \in Machines : \A x \in Places : Beside(c, [c EXCEPT !.vma = x])
<1>1. \A c \in Machines : \A x \in Places : [c EXCEPT !.vma = x] \in Machines
  BY Zenon DEF Machines
<1>2. \A c \in Machines : \A x \in Places : SameBus(c, [c EXCEPT !.vma = x])
  BY DEF Machines, SameBus
<1>3. QED BY <1>1, <1>2 DEF Beside

LEMMA MNs ==
  \A c \in Machines : \A x \in Nat :
    LET d == [c EXCEPT !.ns = x]
    IN  d \in Machines /\ d.ns = x /\ d.bus = c.bus /\ d.ir = c.ir /\ d.responder = c.responder /\ d.clearAt = c.clearAt
<1>1. \A c \in Machines : \A x \in Nat : [c EXCEPT !.ns = x] \in Machines
  BY Zenon DEF Machines
<1>2. QED BY <1>1 DEF Machines

LEMMA MBus ==
  \A c \in Machines : \A x \in Busints :
    LET d == [c EXCEPT !.bus = x]
    IN  d \in Machines /\ d.bus = x /\ d.ns = c.ns /\ d.ir = c.ir /\ d.responder = c.responder /\ d.clearAt = c.clearAt
<1>1. \A c \in Machines : \A x \in Busints : [c EXCEPT !.bus = x] \in Machines
  BY Zenon DEF Machines
<1>2. QED BY <1>1 DEF Machines

LEMMA MIr ==
  \A c \in Machines : \A x \in Instructions :
    LET d == [c EXCEPT !.ir = x]
    IN  d \in Machines /\ d.ir = x /\ d.ns = c.ns /\ d.bus = c.bus /\ d.responder = c.responder /\ d.clearAt = c.clearAt
<1>1. \A c \in Machines : \A x \in Instructions : [c EXCEPT !.ir = x] \in Machines
  BY Zenon DEF Machines
<1>2. QED BY <1>1 DEF Machines

LEMMA MResponder ==
  \A c \in Machines : \A x \in Places :
    LET d == [c EXCEPT !.responder = x]
    IN  d \in Machines /\ d.responder = x /\ d.ns = c.ns /\ d.bus = c.bus /\ d.ir = c.ir /\ d.clearAt = c.clearAt
<1>1. \A c \in Machines : \A x \in Places : [c EXCEPT !.responder = x] \in Machines
  BY Zenon DEF Machines
<1>2. QED BY <1>1 DEF Machines

LEMMA MClearAt ==
  \A c \in Machines : \A x \in Nat :
    LET d == [c EXCEPT !.clearAt = x]
    IN  d \in Machines /\ d.clearAt = x /\ d.ns = c.ns /\ d.bus = c.bus /\ d.ir = c.ir /\ d.responder = c.responder
<1>1. \A c \in Machines : \A x \in Nat : [c EXCEPT !.clearAt = x] \in Machines
  BY Zenon DEF Machines
<1>2. QED BY <1>1 DEF Machines
-----------------------------------------------------------------------------
(* The machine's invariant, t being the latest instant of its clock that a  *)
(* step has looked at.                                                      *)

Timed(c, t) ==
  /\ c.bus.memrqUp = Never \/ c.bus.memrqUp <= t
  /\ c.bus.state.k = "acked" => c.clearAt = c.bus.state.ack + MfinishdNs

Machine(c, t) ==
  /\ c \in Machines
  /\ BusInv(c.bus, c.responder)
  /\ Taken(c.bus) => Free(c.bus)
  /\ Timed(c, t)

\* What a step between two edges does.
Carries(c, d, t) == Machine(d, t) /\ d.ns = c.ns /\ d.ir = c.ir

LEMMA BesideIs ==
  \A c, d : \A t : Machine(c, t) /\ Beside(c, d) => Carries(c, d, t)
  BY DEF Machine, Beside, SameBus, Carries, Timed

LEMMA LaterIs ==
  \A c : \A t, u \in Nat : Machine(c, t) /\ t <= u => Machine(c, u)
<1> SUFFICES ASSUME NEW c, NEW t \in Nat, NEW u \in Nat, Machine(c, t), t <= u
             PROVE  Machine(c, u)
  OBVIOUS
<1>1. c.bus.memrqUp \in Nat
  BY BusintFields DEF Machine, BusInv
<1>2. QED BY <1>1 DEF Machine, Timed

LEMMA CarriesOn ==
  \A c, d, e, t : Carries(c, d, t) /\ Carries(d, e, t) => Carries(c, e, t)
  BY DEF Carries

LEMMA Stays == \A c, t : Machine(c, t) => Carries(c, c, t)
  BY DEF Carries

LEMMA BusTo ==
  ASSUME NEW c, NEW t, Machine(c, t), NEW b, Steps(c.bus, b, c.responder)
  PROVE  Carries(c, [c EXCEPT !.bus = b], t)
<1> DEFINE d == [c EXCEPT !.bus = b]
<1>1. /\ d \in Machines /\ d.bus = b /\ d.ns = c.ns /\ d.ir = c.ir
      /\ d.responder = c.responder /\ d.clearAt = c.clearAt
  BY MBus DEF Machine, Steps, BusInv
<1> HIDE DEF d
<1>2. Timed(d, t)
  BY <1>1 DEF Machine, Steps, Keeps, Timed
<1>3. Machine(d, t)
  BY <1>1, <1>2 DEF Machine, Steps
<1>4. QED BY <1>1, <1>3 DEF Carries, d

LEMMA NsTo ==
  ASSUME NEW c, NEW t, Machine(c, t), NEW n \in Nat
  PROVE  Machine([c EXCEPT !.ns = n], t) /\ [c EXCEPT !.ns = n].ns = n
         /\ [c EXCEPT !.ns = n].ir = c.ir
<1> DEFINE d == [c EXCEPT !.ns = n]
<1>1. /\ d \in Machines /\ d.bus = c.bus /\ d.ns = n /\ d.ir = c.ir
      /\ d.responder = c.responder /\ d.clearAt = c.clearAt
  BY MNs DEF Machine
<1> HIDE DEF d
<1>2. Machine(d, t)
  BY <1>1 DEF Machine, Timed
<1>3. QED BY <1>1, <1>2 DEF d

LEMMA ClockResetIs ==
  ASSUME NEW c \in Machines
  PROVE  Beside(c, ClockReset(c))
<1> DEFINE c1 == [c EXCEPT !.memstart = FALSE]
           c2 == [c1 EXCEPT !.mbusySync = FALSE]
           c3 == [c2 EXCEPT !.rdcyc = FALSE]
           c4 == [c3 EXCEPT !.wrcyc = FALSE]
           c5 == [c4 EXCEPT !.mbusy = FALSE]
           c6 == [c5 EXCEPT !.run = FALSE]
           c7 == [c6 EXCEPT !.srun = FALSE]
<1>1. ClockReset(c) = c7
  BY DEF ClockReset
<1>2. Beside(c, c1)
  BY MMemstart
<1> HIDE DEF c1
<1>3. Beside(c1, c2)
  BY <1>2, MMbusySync DEF Beside
<1> HIDE DEF c2
<1>4. Beside(c2, c3)
  BY <1>3, MRdcyc DEF Beside
<1> HIDE DEF c3
<1>5. Beside(c3, c4)
  BY <1>4, MWrcyc DEF Beside
<1> HIDE DEF c4
<1>6. Beside(c4, c5)
  BY <1>5, MMbusy DEF Beside
<1> HIDE DEF c5
<1>7. Beside(c5, c6)
  BY <1>6, MRun DEF Beside
<1> HIDE DEF c6
<1>8. Beside(c6, c7)
  BY <1>7, MSrun DEF Beside
<1> HIDE DEF c7
<1>9. Beside(c, c4) /\ Beside(c4, c7)
  BY <1>2, <1>3, <1>4, <1>5, <1>6, <1>7, <1>8, BesideOn
<1>10. QED BY <1>1, <1>9, BesideOn

LEMMA DebugResetEdgeIs ==
  ASSUME NEW c, NEW t, Machine(c, t), NEW now \in Nat
  PROVE  Carries(c, DebugResetEdge(c, now), t)
<1> DEFINE on == Reset \in c.bus.modifier
           c1 == IF on THEN ClockReset(c) ELSE c
           c2 == [c1 EXCEPT !.debugReset = on]
           c3 == [c2 EXCEPT !.held = on]
           c4 == [c3 EXCEPT !.bus = UnibusReset(c3.bus, now, on)]
<1>1. c \in Machines /\ on \in BOOLEAN
  BY DEF Machine
<1>2. Beside(c, c1)
  BY <1>1, ClockResetIs DEF Beside, SameBus
<1>3. DebugResetEdge(c, now) = IF on = c.debugReset THEN c ELSE c4
  BY <1>1, <1>2 DEF DebugResetEdge, Beside, Machines
<1> HIDE DEF on, c1
<1>4. Beside(c1, c2)
  BY <1>1, <1>2, MDebugReset DEF Beside
<1> HIDE DEF c2
<1>5. Beside(c2, c3)
  BY <1>1, <1>4, MHeld DEF Beside
<1> HIDE DEF c3
<1>6. Carries(c, c3, t)
  BY <1>2, <1>4, <1>5, BesideOn, BesideIs
<1>7. Steps(c3.bus, UnibusReset(c3.bus, now, on), c3.responder)
  <2>1. BusInv(c3.bus, c3.responder)
    BY <1>6 DEF Carries, Machine
  <2> DEFINE e == UnibusReset(c3.bus, now, on)
  <2>2. BusInv(e, c3.responder) /\ Aside(c3.bus, e)
    BY <1>1, <2>1, UnibusResetIs
  <2> HIDE DEF e
  <2>3. Steps(c3.bus, e, c3.responder)
    BY <2>1, <2>2, AsideKeeps DEF Steps, BusInv
  <2>4. QED BY <2>3 DEF e
<1>8. Carries(c3, c4, t)
  BY <1>6, <1>7, BusTo DEF Carries
<1> HIDE DEF c4
<1>9. Carries(c, c4, t) /\ Carries(c, c, t)
  BY <1>6, <1>8, CarriesOn, Stays
<1>10. QED BY <1>3, <1>9

LEMMA DebugWordIs ==
  ASSUME NEW c \in Machines, NEW now \in Nat
  PROVE  Beside(c, DebugWord(c, now))
<1> DEFINE req == c.bus.request
           run == IF c.bus.responder # "interface" THEN c.run
                  ELSE CASE req.dbd = "run" -> TRUE
                         [] req.dbd = "stop" -> FALSE
                         [] OTHER -> c.run
           c1 == [c EXCEPT !.debugWritten = TRUE]
           c2 == [c1 EXCEPT !.run = run]
           sampled == c.debugSampled \/ ~req.write
           c3 == [c EXCEPT !.debugSampled = sampled]
<1>1. c.run \in BOOLEAN
  BY MachineFields
<1>2. run \in BOOLEAN /\ sampled \in BOOLEAN
  BY <1>1
<1>3. Beside(c, c1)
  BY MDebugWritten
<1>4. Beside(c, c3)
  <2> HIDE DEF sampled
  <2>1. QED BY <1>2, MDebugSampled
<1>5. c1.run = c.run
  BY DEF Machines
<1>6. Beside(c, c)
  BY DEF Beside, SameBus
<1>7. \/ DebugWord(c, now) = c \/ DebugWord(c, now) = c2 \/ DebugWord(c, now) = c3
  BY <1>5 DEF DebugWord
<1> HIDE DEF c1, c3, run
<1>8. Beside(c1, c2)
  BY <1>2, <1>3, MRun DEF Beside
<1> HIDE DEF c2
<1>9. QED BY <1>3, <1>4, <1>6, <1>7, <1>8, BesideOn

LEMMA DebugAnswerIs ==
  ASSUME NEW c \in Machines, NEW now \in Nat
  PROVE  Beside(c, DebugAnswer(c, now))
<1> DEFINE x == IF c.answer = Never /\ now >= c.bus.debugAck THEN c.bus.debugAck ELSE c.answer
<1>1. x \in Nat
  BY MachineFields, BusintFields
<1>2. DebugAnswer(c, now) = [c EXCEPT !.answer = x]
  BY DEF DebugAnswer
<1> HIDE DEF x
<1>3. QED BY <1>1, <1>2, MAnswer

LEMMA DebugCycleIs ==
  ASSUME NEW c, NEW t, Machine(c, t), NEW now \in Nat
  PROVE  Carries(c, DebugCycle(c, now), t)
<1> DEFINE c1 == [c EXCEPT !.bus = DebugAdvance(c.bus, now)]
           c2 == DebugResetEdge(c1, now)
           c3 == DebugWord(c2, now)
           c4 == DebugAnswer(c3, now)
<1>1. DebugCycle(c, now) = c4
  BY DEF DebugCycle
<1>2. Carries(c, c1, t)
  <2>1. Steps(c.bus, DebugAdvance(c.bus, now), c.responder)
    BY DebugAdvanceIs DEF Machine
  <2>2. QED BY <2>1, BusTo
<1> HIDE DEF c1
<1>3. Carries(c1, c2, t)
  BY <1>2, DebugResetEdgeIs DEF Carries
<1> HIDE DEF c2
<1>4. Beside(c2, c3)
  BY <1>3, DebugWordIs DEF Carries, Machine
<1> HIDE DEF c3
<1>5. Beside(c3, c4)
  BY <1>4, DebugAnswerIs DEF Beside
<1> HIDE DEF c4
<1>6. Carries(c2, c4, t)
  BY <1>3, <1>4, <1>5, BesideOn, BesideIs DEF Carries
<1>7. QED BY <1>1, <1>2, <1>3, <1>6, CarriesOn
-----------------------------------------------------------------------------
(* A machine carried to an instant. *)

\* The interface and the instant MBUSY falls replaced together.
LEMMA ClearTo ==
  ASSUME NEW c, NEW t, Machine(c, t), NEW x \in Nat, NEW b,
         BusInv(b, c.responder), Taken(b) => Free(b),
         b.memrqUp = Never \/ b.memrqUp <= t,
         b.state.k = "acked" => x = b.state.ack + MfinishdNs
  PROVE  Carries(c, [c EXCEPT !.clearAt = x, !.bus = b], t)
<1> DEFINE c1 == [c EXCEPT !.clearAt = x]
           d == [c1 EXCEPT !.bus = b]
<1>1. /\ c1 \in Machines /\ c1.ns = c.ns /\ c1.ir = c.ir
      /\ c1.responder = c.responder /\ c1.clearAt = x
  BY MClearAt DEF Machine
<1> HIDE DEF c1
<1>2. /\ d \in Machines /\ d.bus = b /\ d.ns = c.ns /\ d.ir = c.ir
      /\ d.responder = c.responder /\ d.clearAt = x
  BY <1>1, MBus DEF BusInv
<1> HIDE DEF d
<1>3. Machine(d, t)
  BY <1>2 DEF Machine, Timed
<1>4. QED BY <1>2, <1>3 DEF Carries, d, c1

LEMMA LandWriteIs ==
  ASSUME NEW c \in Machines, NEW now
  PROVE  Beside(c, LandWrite(c, now))
<1> DEFINE x == c.written \/ (c.wrcyc /\ MemGrant(c.bus) /\ now >= c.bus.state.answered)
<1>1. x \in BOOLEAN
  OBVIOUS
<1>2. LandWrite(c, now) = [c EXCEPT !.written = x]
  BY DEF LandWrite
<1> HIDE DEF x
<1>3. QED BY <1>1, <1>2, MWritten

LEMMA MemackIs ==
  ASSUME NEW c, NEW t, Machine(c, t), NEW b,
         BusInv(b, c.responder), Taken(b) => Free(b), b.memrqUp = c.bus.memrqUp,
         b.state.k = "acked" \/ b = c.bus
  PROVE  Carries(c, Memack(c, b), t)
<1> DEFINE f == b.state.ack + RdFinishNs
           x == b.state.ack + MfinishdNs
           word == IF c.wrcyc THEN c.word ELSE c.started
           load == IF c.wrcyc THEN c.loadmdAt ELSE b.state.loadmd
           fin == IF c.reading THEN Earliest({c.finishAt, f}) ELSE f
           e == Released(b, x)
           c1 == [c EXCEPT !.acked = TRUE]
           c2 == [c1 EXCEPT !.word = word]
           c3 == [c2 EXCEPT !.loadmdAt = load]
           c4 == [c3 EXCEPT !.finishAt = fin]
           c5 == [c4 EXCEPT !.clearAt = x, !.bus = e]
<1>1. CASE b.state.k = "acked"
  <2>1. b.state.ack \in Nat /\ b.state.loadmd \in Nat
    BY <1>1, BusintFields, StateFields DEF BusInv
  <2>2. /\ c \in Machines /\ c.word \in Nat /\ c.started \in Nat
        /\ c.loadmdAt \in Nat /\ c.finishAt \in Nat
    BY MachineFields DEF Machine
  <2>3. word \in Nat /\ load \in Nat /\ f \in Nat /\ x \in Nat
    BY <2>1, <2>2, Constants, Arithmetic
  <2>4. fin \in Nat
    <3> HIDE DEF f
    <3>1. {c.finishAt, f} \in SUBSET Nat
      BY <2>2, <2>3
    <3>2. QED BY <2>3, <3>1, Least
  <2>5. BusInv(e, c.responder) /\ Aside(b, e)
    BY <2>3, ReleasedIs
  <2>6. Memack(c, b) = [c EXCEPT !.acked = TRUE, !.word = word, !.loadmdAt = load,
                                 !.finishAt = fin, !.clearAt = x, !.bus = e]
    BY <1>1, <2>2 DEF Memack, Acked, Machines
  <2>7. Memack(c, b) = c5
    <3> HIDE DEF word, load, fin, x, e
    <3>1. QED BY <2>2, <2>6 DEF Machines
  <2>8. e.state = b.state /\ e.memrqUp = c.bus.memrqUp /\ (Taken(e) => Free(e))
    BY <2>5, AsideKeeps DEF Aside, BusInv
  <2>9. x = e.state.ack + MfinishdNs
    BY <2>8
  <2> HIDE DEF word, load, fin, x, e, f
  <2>10. Beside(c, c1)
    BY <2>2, MAcked
  <2> HIDE DEF c1
  <2>11. Beside(c1, c2)
    BY <2>3, <2>10, MWord DEF Beside
  <2> HIDE DEF c2
  <2>12. Beside(c2, c3)
    BY <2>3, <2>11, MLoadmdAt DEF Beside
  <2> HIDE DEF c3
  <2>13. Beside(c3, c4)
    BY <2>4, <2>12, MFinishAt DEF Beside
  <2> HIDE DEF c4
  <2>14. Beside(c, c4)
    BY <2>10, <2>11, <2>12, <2>13, BesideOn
  <2>15. Carries(c, c4, t)
    BY <2>14, BesideIs
  <2>16. Carries(c4, c5, t)
    <3>1. /\ Machine(c4, t) /\ BusInv(e, c4.responder)
          /\ e.memrqUp = Never \/ e.memrqUp <= t
      BY <2>5, <2>8, <2>14, <2>15 DEF Carries, Machine, Timed, Beside, SameBus
    <3>2. QED BY <2>3, <2>8, <2>9, <3>1, ClearTo
  <2> HIDE DEF c5
  <2>17. QED BY <2>7, <2>15, <2>16, CarriesOn
<1>2. CASE b.state.k # "acked"
  <2>1. Memack(c, b) = [c EXCEPT !.bus = b] /\ b = c.bus
    BY <1>2 DEF Memack, Acked
  <2>2. Steps(c.bus, b, c.responder)
    BY <2>1, StepsNot DEF Machine
  <2>3. QED BY <2>1, <2>2, BusTo
<1>3. QED BY <1>1, <1>2

LEMMA PollCycleIs ==
  ASSUME NEW c, NEW t, Machine(c, t), NEW now \in Nat
  PROVE  Carries(c, PollCycle(c, now), t)
<1>1. CASE c.acked
  BY <1>1, Stays DEF PollCycle
<1>2. CASE ~c.acked
  <2> DEFINE b == Poll(c.bus, now)
  <2>1. PollCycle(c, now) = Memack(c, b)
    BY <1>2 DEF PollCycle
  <2>2. /\ BusInv(b, c.responder) /\ (Taken(b) => Free(b))
        /\ b.memrqUp = c.bus.memrqUp /\ (b.state.k = "acked" \/ b = c.bus)
    BY PollIs DEF Machine
  <2> HIDE DEF b
  <2>3. QED BY <2>1, <2>2, MemackIs
<1>3. QED BY <1>1, <1>2

LEMMA AfterMemackIs ==
  ASSUME NEW c, NEW t \in Nat, Machine(c, t), NEW now \in Nat, now <= t
  PROVE  Carries(c, AfterMemack(c, now), t)
<1> DEFINE load == now >= c.loadmdAt
           free == now >= c.clearAt
           md == IF load THEN c.word ELSE c.md
           at == IF load THEN Never ELSE c.loadmdAt
           reading == c.reading /\ now < c.finishAt
           mbusy == c.mbusy /\ ~free
           acked == c.acked /\ ~free
           x == IF free THEN Never ELSE c.clearAt
           b == IF free THEN Finish(c.bus) ELSE c.bus
           c1 == [c EXCEPT !.md = md]
           c2 == [c1 EXCEPT !.loadmdAt = at]
           c3 == [c2 EXCEPT !.reading = reading]
           c4 == [c3 EXCEPT !.mbusy = mbusy]
           c5 == [c4 EXCEPT !.clearAt = x, !.bus = b]
           c6 == [c5 EXCEPT !.acked = acked]
<1>1. /\ c \in Machines /\ c.md \in Nat /\ c.word \in Nat /\ c.loadmdAt \in Nat
      /\ c.clearAt \in Nat
  BY MachineFields DEF Machine
<1>2. AfterMemack(c, now) =
        [c EXCEPT !.md = md, !.loadmdAt = at, !.reading = reading, !.mbusy = mbusy,
                  !.clearAt = x, !.bus = b, !.acked = acked]
  BY <1>1 DEF AfterMemack, Machines
<1>3. AfterMemack(c, now) = c6
  <2> HIDE DEF md, at, reading, mbusy, x, b, acked
  <2>1. QED BY <1>1, <1>2 DEF Machines
<1>4. /\ md \in Nat /\ at \in Nat /\ x \in Nat
  BY <1>1, Constants
<1>5. reading \in BOOLEAN /\ mbusy \in BOOLEAN /\ acked \in BOOLEAN
  OBVIOUS
<1>6. /\ BusInv(b, c.responder) /\ (Taken(b) => Free(b))
      /\ b.memrqUp = Never \/ b.memrqUp <= t
      /\ b.state.k = "acked" => x = b.state.ack + MfinishdNs
  <2>1. CASE free
    <3>1. /\ BusInv(Finish(c.bus), c.responder) /\ Free(Finish(c.bus))
          /\ Finish(c.bus).state = Idle
          /\ Finish(c.bus).memrqUp \in {c.bus.memrqUp, c.clearAt}
      BY <1>1, FinishIs DEF Machine, Timed
    <3>2. b = Finish(c.bus) /\ c.clearAt <= t
      BY <1>1, <2>1
    <3> HIDE DEF b
    <3>3. b.state.k = "idle"
      BY <3>1, <3>2 DEF Idle
    <3>4. QED BY <3>1, <3>2, <3>3 DEF Machine, Timed
  <2>2. CASE ~free
    BY <2>2 DEF Machine, Timed
  <2>3. QED BY <2>1, <2>2
<1> HIDE DEF md, at, reading, mbusy, x, b, acked
<1>7. Beside(c, c1)
  BY <1>1, <1>4, MMd
<1> HIDE DEF c1
<1>8. Beside(c1, c2)
  BY <1>4, <1>7, MLoadmdAt DEF Beside
<1> HIDE DEF c2
<1>9. Beside(c2, c3)
  BY <1>5, <1>8, MReading DEF Beside
<1> HIDE DEF c3
<1>10. Beside(c3, c4)
  BY <1>5, <1>9, MMbusy DEF Beside
<1> HIDE DEF c4
<1>11. Beside(c, c4)
  BY <1>7, <1>8, <1>9, <1>10, BesideOn
<1>12. Carries(c, c4, t)
  BY <1>11, BesideIs
<1>13. Carries(c4, c5, t)
  <2>1. Machine(c4, t) /\ BusInv(b, c4.responder)
    BY <1>6, <1>11, <1>12 DEF Carries, Beside, SameBus
  <2>2. QED BY <1>4, <1>6, <2>1, ClearTo
<1> HIDE DEF c5
<1>14. Beside(c5, c6)
  BY <1>5, <1>13, MAcked DEF Carries, Machine
<1> HIDE DEF c6
<1>15. Carries(c5, c6, t)
  BY <1>13, <1>14, BesideIs DEF Carries
<1>16. Carries(c, c5, t)
  BY <1>12, <1>13, CarriesOn
<1>17. QED BY <1>3, <1>15, <1>16, CarriesOn

LEMMA CarriedIs ==
  ASSUME NEW c, NEW t \in Nat, Machine(c, t), NEW now \in Nat, now <= t
  PROVE  Carries(c, Carried(c, now), t)
<1> DEFINE c1 == LandWrite(c, now)
           c2 == DebugCycle(c1, now)
           c3 == PollCycle(c2, now)
           c4 == AfterMemack(c3, now)
<1>1. Carried(c, now) = c4
  BY DEF Carried, BusCycle
<1>2. Carries(c, c1, t)
  BY LandWriteIs, BesideIs DEF Machine
<1> HIDE DEF c1
<1>3. Carries(c1, c2, t)
  BY <1>2, DebugCycleIs DEF Carries
<1> HIDE DEF c2
<1>4. Carries(c2, c3, t)
  BY <1>3, PollCycleIs DEF Carries
<1> HIDE DEF c3
<1>5. Carries(c3, c4, t)
  BY <1>4, AfterMemackIs DEF Carries
<1> HIDE DEF c4
<1>6. Carries(c, c3, t)
  BY <1>2, <1>3, <1>4, CarriesOn
<1>7. QED BY <1>1, <1>5, <1>6, CarriesOn
-----------------------------------------------------------------------------
(* The edges of the machine's clocks. *)

LEMMA Lengths == \A c \in Machines : Length(c) \in Nat
  BY Constants DEF Length

LEMMA IrFields ==
  \A i \in Instructions :
    /\ i.op \in {"read", "write", "useMd", "loadMd", "plain"}
    /\ i.at \in Places /\ i.long \in BOOLEAN
  BY DEF Instructions, Places

\* A request put on the interface, with its responder.
LEMMA AskTo ==
  ASSUME NEW c, NEW t, Machine(c, t), NEW u \in Places, NEW write \in BOOLEAN
  PROVE  Carries(c, [c EXCEPT !.responder = u, !.bus = RequestAt(c.bus, write)], t)
<1> DEFINE b == RequestAt(c.bus, write)
           c1 == [c EXCEPT !.responder = u]
           d == [c1 EXCEPT !.bus = b]
<1>1. BusInv(b, u) /\ Free(b) /\ b.memrqUp = c.bus.memrqUp
  BY RequestAtIs DEF Machine
<1> HIDE DEF b
<1>2. /\ c1 \in Machines /\ c1.ns = c.ns /\ c1.ir = c.ir /\ c1.responder = u
      /\ c1.clearAt = c.clearAt
  BY MResponder DEF Machine
<1> HIDE DEF c1
<1>3. /\ d \in Machines /\ d.bus = b /\ d.ns = c.ns /\ d.ir = c.ir /\ d.responder = u
  BY <1>1, <1>2, MBus DEF BusInv
<1> HIDE DEF d
<1>4. Machine(d, t)
  BY <1>1, <1>3 DEF Machine, Timed, Free
<1>5. QED BY <1>3, <1>4 DEF Carries, d, c1, b

LEMMA StartBusCycleIs ==
  ASSUME NEW c, NEW t, Machine(c, t), NEW wrcyc \in BOOLEAN
  PROVE  Carries(c, StartBusCycle(c, wrcyc), t)
<1> DEFINE reading == c.reading \/ c.rdcyc
           again == IF c.rdcyc /\ ~c.acked THEN Never ELSE c.finishAt
           anew == IF c.rdcyc THEN Never ELSE c.finishAt
<1>0. /\ c \in Machines /\ c.vma \in Places /\ c.started + 1 \in Nat
      /\ again \in Nat /\ anew \in Nat /\ reading \in BOOLEAN
  BY MachineFields, Constants DEF Machine
<1>1. CASE ~c.memstart
  BY <1>1, Stays DEF StartBusCycle
<1>2. CASE c.memstart /\ c.mbusy
  <2> DEFINE c1 == [c EXCEPT !.reading = reading]
             c2 == [c1 EXCEPT !.finishAt = again]
  <2>1. StartBusCycle(c, wrcyc) = c2
    BY <1>0, <1>2 DEF StartBusCycle, Machines
  <2> HIDE DEF reading, again
  <2>2. Beside(c, c1)
    BY <1>0, MReading
  <2> HIDE DEF c1
  <2>3. Beside(c1, c2)
    BY <1>0, <2>2, MFinishAt DEF Beside
  <2> HIDE DEF c2
  <2>4. QED BY <2>1, <2>2, <2>3, BesideOn, BesideIs
<1>3. CASE c.memstart /\ ~c.mbusy
  <2> DEFINE c1 == [c EXCEPT !.mbusy = TRUE]
             c2 == [c1 EXCEPT !.responder = c1.vma, !.bus = RequestAt(c1.bus, wrcyc)]
             c3 == [c2 EXCEPT !.started = c.started + 1]
             c4 == [c3 EXCEPT !.written = FALSE]
             c5 == [c4 EXCEPT !.reading = reading]
             c6 == [c5 EXCEPT !.finishAt = anew]
  <2>1. c1.vma = c.vma /\ c1.bus = c.bus
    BY <1>0 DEF Machines
  <2>2. StartBusCycle(c, wrcyc) =
          [c EXCEPT !.mbusy = TRUE, !.responder = c1.vma, !.bus = RequestAt(c1.bus, wrcyc),
                    !.started = c.started + 1, !.written = FALSE, !.reading = reading,
                    !.finishAt = anew]
    BY <1>0, <1>3, <2>1 DEF StartBusCycle, Machines
  <2>3. StartBusCycle(c, wrcyc) = c6
    BY <2>2
  <2> HIDE DEF reading, anew
  <2>4. Beside(c, c1)
    BY <1>0, MMbusy
  <2>5. c1.vma \in Places
    BY <1>0, <2>1
  <2> HIDE DEF c1
  <2>6. Carries(c, c1, t)
    BY <2>4, BesideIs
  <2>7. Carries(c1, c2, t)
    BY <2>5, <2>6, AskTo DEF Carries
  <2> HIDE DEF c2
  <2>8. Beside(c2, c3)
    BY <1>0, <2>7, MStarted DEF Carries, Machine
  <2> HIDE DEF c3
  <2>9. Beside(c3, c4)
    BY <2>8, MWritten DEF Beside
  <2> HIDE DEF c4
  <2>10. Beside(c4, c5)
    BY <1>0, <2>9, MReading DEF Beside
  <2> HIDE DEF c5
  <2>11. Beside(c5, c6)
    BY <1>0, <2>10, MFinishAt DEF Beside
  <2> HIDE DEF c6
  <2>12. Beside(c2, c6)
    BY <2>8, <2>9, <2>10, <2>11, BesideOn
  <2>13. Carries(c2, c6, t)
    BY <2>7, <2>12, BesideIs DEF Carries
  <2>14. QED BY <2>3, <2>6, <2>7, <2>13, CarriesOn
<1>4. QED BY <1>1, <1>2, <1>3

\* What an edge at now leaves.
Edged(d, now) == Machine(d, now) /\ d.ns = now

LEMMA EdgedOn == \A d, e, now : Edged(d, now) /\ Beside(d, e) => Edged(e, now)
  BY BesideIs DEF Edged, Carries

LEMMA MasterEdgeIs ==
  ASSUME NEW c \in Machines, NEW b, NEW now \in Nat, Machine(b, now)
  PROVE  Edged(MasterEdge(c, b, now), now)
<1> DEFINE e == MclkEdge(b.bus, now, b.responder)
           sync == c.memstart \/ b.mbusy
           c1 == [b EXCEPT !.ns = now]
           c2 == [c1 EXCEPT !.bus = e]
           c3 == [c2 EXCEPT !.mbusySync = sync]
           c4 == [c3 EXCEPT !.srun = c.run]
<1>1. sync \in BOOLEAN /\ c.run \in BOOLEAN /\ b \in Machines
  BY MachineFields DEF Machine
<1>2. MasterEdge(c, b, now) = c4
  BY DEF MasterEdge
<1>3. Goes(b.bus, e, b.responder)
  BY MclkEdgeIs DEF Machine, Timed
<1>4. e \in Busints /\ BusInv(e, b.responder)
  BY <1>3 DEF Goes, BusInv
<1> HIDE DEF e, sync
<1>5. /\ c1 \in Machines /\ c1.ns = now /\ c1.bus = b.bus /\ c1.responder = b.responder
      /\ c1.clearAt = b.clearAt
  BY <1>1, MNs
<1> HIDE DEF c1
<1>6. /\ c2 \in Machines /\ c2.ns = now /\ c2.bus = e /\ c2.responder = b.responder
      /\ c2.clearAt = b.clearAt
  BY <1>4, <1>5, MBus
<1> HIDE DEF c2
<1>7. Machine(c2, now)
  BY <1>3, <1>4, <1>6 DEF Machine, Timed, Goes, Keeps
<1>8. Beside(c2, c3)
  BY <1>1, <1>6, MMbusySync
<1> HIDE DEF c3
<1>9. Beside(c3, c4)
  BY <1>1, <1>8, MSrun DEF Beside
<1> HIDE DEF c4
<1>10. QED BY <1>2, <1>6, <1>7, <1>8, <1>9, BesideOn, EdgedOn DEF Edged

LEMMA MasterClockEdgeIs ==
  ASSUME NEW c, NEW now \in Nat, Machine(c, now)
  PROVE  Edged(MasterClockEdge(c, now), now)
<1> DEFINE b == StartBusCycle(c, c.wrcyc)
           d == MasterEdge(c, b, now)
           e == [d EXCEPT !.memstart = FALSE]
<1>1. MasterClockEdge(c, now) = e
  BY DEF MasterClockEdge
<1>2. c \in Machines /\ c.wrcyc \in BOOLEAN
  BY MachineFields DEF Machine
<1>3. Machine(b, now)
  BY <1>2, StartBusCycleIs DEF Carries
<1> HIDE DEF b
<1>4. Edged(d, now)
  BY <1>2, <1>3, MasterEdgeIs
<1> HIDE DEF d
<1>5. Beside(d, e)
  BY <1>4, MMemstart DEF Edged, Machine
<1>6. QED BY <1>1, <1>4, <1>5, EdgedOn

LEMMA ClockEdgeIs ==
  ASSUME NEW c, NEW next \in Instructions, Machine(c, c.ns + Length(c))
  PROVE  Edged(ClockEdge(c, next), c.ns + Length(c))
<1> DEFINE now == c.ns + Length(c)
           md == IF c.ir.op = "loadMd" THEN 0 ELSE c.md
           op == memop(c)
           starts == IF memop(c) THEN c.ir.op = "write" ELSE c.wrcyc
           a == [c EXCEPT !.md = md]
           b == StartBusCycle(a, starts)
           d == MasterEdge(c, b, now)
           write == IF memop(c) THEN c.ir.op = "write" ELSE d.wrcyc
           read == IF memop(c) THEN c.ir.op = "read" ELSE d.rdcyc
           at == IF memop(c) THEN c.ir.at ELSE d.vma
           d1 == [d EXCEPT !.memstart = op]
           d2 == [d1 EXCEPT !.pulsed = FALSE]
           d3 == [d2 EXCEPT !.ir = next]
           d4 == [d3 EXCEPT !.wrcyc = write]
           d5 == [d4 EXCEPT !.rdcyc = read]
           d6 == [d5 EXCEPT !.vma = at]
<1>1. /\ c \in Machines /\ now \in Nat /\ c.ir \in Instructions /\ c.wrcyc \in BOOLEAN
      /\ c.md \in Nat
  BY Lengths, MachineFields, Arithmetic DEF Machine
<1>2. md \in Nat /\ starts \in BOOLEAN /\ op \in BOOLEAN /\ c.ir.at \in Places
  <2>1. md \in Nat
    BY <1>1
  <2>2. c.ir.at \in Places
    BY <1>1, IrFields
  <2>3. op \in BOOLEAN
    BY DEF memop
  <2>4. (c.ir.op = "write") \in BOOLEAN
    OBVIOUS
  <2>5. starts \in BOOLEAN
    BY <1>1, <2>4, Zenon
  <2>6. QED BY <2>1, <2>2, <2>3, <2>5
<1>3. Beside(c, a)
  <2> HIDE DEF md
  <2>1. QED BY <1>1, <1>2, MMd
<1> HIDE DEF a
<1>4. Machine(a, now)
  BY <1>3, BesideIs DEF Carries
<1>5. Machine(b, now)
  BY <1>2, <1>4, StartBusCycleIs DEF Carries
<1>6. ClockEdge(c, next) =
        [d EXCEPT !.memstart = op, !.pulsed = FALSE, !.ir = next, !.wrcyc = write,
                  !.rdcyc = read, !.vma = at]
  <2>1. ClockEdge(c, next) =
          [d EXCEPT !.memstart = memop(c), !.pulsed = FALSE, !.ir = next,
                    !.wrcyc = IF memop(c) THEN c.ir.op = "write" ELSE @,
                    !.rdcyc = IF memop(c) THEN c.ir.op = "read" ELSE @,
                    !.vma   = IF memop(c) THEN c.ir.at ELSE @]
    BY DEF ClockEdge, a
  <2> HIDE DEF now, starts, b, d
  <2>2. QED BY <2>1
<1> HIDE DEF b
<1>7. Edged(d, now)
  BY <1>1, <1>5, MasterEdgeIs
<1> HIDE DEF now, d
<1>8. ClockEdge(c, next) = d6
  BY <1>6
<1>9. d \in Machines /\ d.vma \in Places
  BY <1>7, MachineFields DEF Edged, Machine
<1>10. write \in BOOLEAN /\ read \in BOOLEAN /\ at \in Places
  BY <1>2, <1>9, MachineFields
<1> HIDE DEF write, read, at, op
<1>11. Beside(d, d1)
  BY <1>2, <1>9, MMemstart
<1> HIDE DEF d1
<1>12. Beside(d1, d2)
  BY <1>11, MPulsed DEF Beside
<1> HIDE DEF d2
<1>13. Edged(d2, now)
  BY <1>7, <1>11, <1>12, BesideOn, EdgedOn
<1>14. /\ d3 \in Machines /\ d3.ns = d2.ns /\ d3.bus = d2.bus
       /\ d3.responder = d2.responder /\ d3.clearAt = d2.clearAt
  BY <1>12, MIr DEF Beside
<1> HIDE DEF d3
<1>15. Edged(d3, now)
  BY <1>13, <1>14 DEF Edged, Machine, Timed
<1>16. Beside(d3, d4)
  BY <1>10, <1>14, MWrcyc
<1> HIDE DEF d4
<1>17. Beside(d4, d5)
  BY <1>10, <1>16, MRdcyc DEF Beside
<1> HIDE DEF d5
<1>18. Beside(d5, d6)
  BY <1>10, <1>17, MVma DEF Beside
<1> HIDE DEF d6
<1>19. Edged(d6, now)
  BY <1>15, <1>16, <1>17, <1>18, BesideOn, EdgedOn
<1>20. QED BY <1>8, <1>19 DEF now
-----------------------------------------------------------------------------
(* A turn of step_body. *)

\* Between two turns: the next look is not before anything seen so far.
Safe(c) == Machine(c, c.ns + Length(c))

LEMMA SafeFrom ==
  \A d : \A t \in Nat : Machine(d, t) /\ t <= d.ns + Length(d) => Safe(d)
<1> SUFFICES ASSUME NEW d, NEW t \in Nat, Machine(d, t), t <= d.ns + Length(d)
             PROVE  Safe(d)
  OBVIOUS
<1>1. d.ns + Length(d) \in Nat
  BY MachineFields, Lengths, Arithmetic DEF Machine
<1>2. QED BY <1>1, LaterIs DEF Safe

LEMMA EdgedSafe == \A d : \A now \in Nat : Edged(d, now) => Safe(d)
<1> SUFFICES ASSUME NEW d, NEW now \in Nat, Edged(d, now)
             PROVE  Safe(d)
  OBVIOUS
<1>1. Length(d) \in Nat
  BY Lengths DEF Edged, Machine
<1>2. QED BY <1>1, SafeFrom DEF Edged

LEMMA SafeFields ==
  \A c : Safe(c) => /\ c \in Machines /\ c.ns \in Nat /\ Length(c) \in Nat
                    /\ c.ns + Length(c) \in Nat /\ c.bus \in Busints
  BY MachineFields, Lengths DEF Safe, Machine

LEMMA CarriedSafe ==
  ASSUME NEW c, Safe(c)
  PROVE  /\ Safe(Carried(c, c.ns + Length(c)))
         /\ Carried(c, c.ns + Length(c)).ns = c.ns
         /\ Carried(c, c.ns + Length(c)).ir = c.ir
<1> DEFINE t == c.ns + Length(c)
           d == Carried(c, t)
<1>1. t \in Nat
  BY SafeFields
<1>2. Carries(c, d, t)
  BY <1>1, CarriedIs DEF Safe
<1>3. t = d.ns + Length(d)
  BY <1>2 DEF Carries, Length
<1> HIDE DEF d, t
<1>4. Safe(d) /\ d.ns = c.ns /\ d.ir = c.ir
  BY <1>2, <1>3 DEF Carries, Safe
<1>5. QED BY <1>4 DEF d, t

\* Time let pass, with the debug cycle looked at.
LEMMA PassIs ==
  ASSUME NEW c, Safe(c), NEW to \in Nat, c.ns <= to
  PROVE  Safe(DebugCycle([c EXCEPT !.ns = to], to))
<1> DEFINE t == c.ns + Length(c)
           c1 == [c EXCEPT !.ns = to]
           d == DebugCycle(c1, to)
<1>1. Machine(c1, t) /\ c1.ns = to /\ c1.ir = c.ir
  BY NsTo DEF Safe
<1> HIDE DEF c1
<1>2. Carries(c1, d, t)
  BY <1>1, DebugCycleIs
<1> HIDE DEF d
<1>3. t \in Nat /\ t <= d.ns + Length(d)
  <2>1. Length(d) = Length(c) /\ d.ns = to
    BY <1>1, <1>2 DEF Carries, Length
  <2>2. QED BY <2>1, SafeFields
<1> HIDE DEF t
<1>4. Safe(d)
  BY <1>2, <1>3, SafeFrom DEF Carries
<1>5. QED BY <1>4 DEF d, c1

LEMMA MicrocycleIs ==
  ASSUME NEW c, Safe(c), NEW next \in Instructions
  PROVE  Safe(Microcycle(c, next)) /\ Safe(MasterClockCycle(c))
<1> DEFINE d == Carried(c, c.ns + Length(c))
<1>1. Safe(d) /\ d.ns = c.ns /\ Length(d) = Length(c)
  BY CarriedSafe DEF Length
<1>2. d.ns + Length(d) \in Nat
  BY <1>1, SafeFields
<1>3. /\ Microcycle(c, next) = ClockEdge(d, next)
      /\ MasterClockCycle(c) = MasterClockEdge(d, d.ns + Length(d))
  BY <1>1 DEF Microcycle, MasterClockCycle
<1> HIDE DEF d
<1>4. Edged(ClockEdge(d, next), d.ns + Length(d))
  BY <1>1, ClockEdgeIs DEF Safe
<1>5. Edged(MasterClockEdge(d, d.ns + Length(d)), d.ns + Length(d))
  BY <1>1, <1>2, MasterClockEdgeIs DEF Safe
<1>6. QED BY <1>2, <1>3, <1>4, <1>5, EdgedSafe

LEMMA PulsedIs ==
  ASSUME NEW c, Safe(c)
  PROVE  Safe(Pulsed(c))
<1>1. CASE c.pulsed
  BY <1>1 DEF Pulsed
<1>2. CASE ~c.pulsed
  <2> DEFINE d == Carried(c, c.ns + Length(c))
             e == [d EXCEPT !.pulsed = TRUE]
  <2>1. Pulsed(c) = e
    BY <1>2 DEF Pulsed
  <2>2. Safe(d)
    BY CarriedSafe
  <2> HIDE DEF d
  <2>3. Beside(d, e)
    BY <2>2, MPulsed DEF Safe, Machine
  <2> HIDE DEF e
  <2>4. Carries(d, e, d.ns + Length(d))
    BY <2>2, <2>3, BesideIs DEF Safe
  <2>5. QED BY <2>1, <2>4 DEF Carries, Safe, Length
<1>3. QED BY <1>1, <1>2

LEMMA HangOverIs ==
  ASSUME NEW c, Safe(c), NEW limit \in Nat
  PROVE  Safe(HangOver(c, limit))
<1> DEFINE finish == HangEnds(c)
           cycle == Length(c)
           stop == HangStop(c, finish, limit)
           c1 == [c EXCEPT !.ns = stop.ns]
           d == Carried(c1, stop.to)
<1>1. c.ns \in Nat /\ cycle \in Nat /\ c.bus \in Busints /\ c \in Machines
  BY SafeFields
<1>2. finish \in Nat
  <2>1. c.finishAt \in Nat
    BY <1>1, MachineFields
  <2>2. MemGrant(c.bus) => c.bus.state.ack \in Nat
    BY <1>1, BusintFields, StateFields DEF MemGrant
  <2>3. QED BY <2>1, <2>2, Constants, Arithmetic DEF HangEnds
<1> HIDE DEF finish
<1>3. /\ stop.ns \in Nat /\ stop.to \in Nat /\ c.ns <= stop.ns /\ stop.to <= stop.ns + cycle
  <2>1. CASE finish = Never
    BY <1>1, <2>1 DEF HangStop
  <2>2. CASE finish # Never /\ finish - cycle > limit
    <3>1. stop = [ns |-> Latest(limit, c.ns), to |-> Latest(limit, c.ns)]
      BY <2>2 DEF HangStop
    <3>2. Latest(limit, c.ns) \in Nat /\ Latest(limit, c.ns) >= c.ns
      BY <1>1, Arithmetic
    <3>3. QED BY <1>1, <3>1, <3>2
  <2>3. CASE finish # Never /\ ~(finish - cycle > limit)
    <3> DEFINE x == Latest(finish, c.ns + cycle)
    <3>1. stop = [ns |-> x - cycle, to |-> x]
      BY <2>3 DEF HangStop
    <3>2. x \in Nat /\ x >= c.ns + cycle
      BY <1>1, <1>2, Arithmetic
    <3> HIDE DEF x
    <3>3. x - cycle \in Nat /\ x - cycle >= c.ns
      BY <1>1, <3>2
    <3>4. QED BY <1>1, <3>1, <3>2, <3>3
  <2>4. QED BY <2>1, <2>2, <2>3
<1>4. HangOver(c, limit) = IF stop.to = c.ns THEN c ELSE d
  BY DEF HangOver, HangTo, finish
<1> HIDE DEF stop
<1>5. CASE stop.to # c.ns
  <2> DEFINE t == stop.ns + cycle
  <2>1. t \in Nat /\ c.ns + cycle \in Nat /\ c.ns + cycle <= t /\ stop.to <= t
    BY <1>1, <1>3
  <2>2. Machine(c1, c.ns + cycle) /\ c1.ns = stop.ns /\ c1.ir = c.ir
    BY <1>3, NsTo DEF Safe
  <2> HIDE DEF c1
  <2>3. Machine(c1, t)
    <3> HIDE DEF cycle, t
    <3>1. QED BY <2>1, <2>2, LaterIs
  <2>4. Carries(c1, d, t)
    <3> HIDE DEF t
    <3>1. QED BY <1>3, <2>1, <2>3, CarriedIs
  <2> HIDE DEF d
  <2>5. Length(d) = cycle /\ d.ns = stop.ns
    BY <2>2, <2>4 DEF Carries, Length
  <2>6. Safe(d)
    BY <2>4, <2>5 DEF Carries, Safe
  <2>7. QED BY <1>4, <1>5, <2>6
<1>6. CASE stop.to = c.ns
  BY <1>4, <1>6
<1>7. QED BY <1>5, <1>6

LEMMA HeldStepIs ==
  ASSUME NEW c, Safe(c), NEW limit \in Nat
  PROVE  Safe(HeldStep(c, limit))
<1> DEFINE lift == StrobeUntil(c)
           X == {c.ns + CycleNs, Latest(limit, c.ns)} \cup {t \in {lift} : t > c.ns}
           to == Earliest(X)
<1>1. c.ns \in Nat /\ c.bus \in Busints
  BY SafeFields
<1>2. lift \in Nat
  BY <1>1, BusintFields, DebugFields, Constants DEF StrobeUntil
<1>3. /\ c.ns + CycleNs \in Nat /\ c.ns + CycleNs >= c.ns
      /\ Latest(limit, c.ns) \in Nat /\ Latest(limit, c.ns) >= c.ns
  <2>1. Latest(limit, c.ns) \in Nat /\ Latest(limit, c.ns) >= c.ns
    BY <1>1, Arithmetic
  <2>2. CycleNs \in Nat
    BY Constants
  <2>3. QED BY <1>1, <2>1, <2>2
<1>4. HeldStep(c, limit) = DebugCycle([c EXCEPT !.ns = to], to)
  BY DEF HeldStep
<1> HIDE DEF lift
<1>5. X \in SUBSET Nat /\ X # {} /\ \A x \in X : x >= c.ns
  BY <1>1, <1>2, <1>3
<1> HIDE DEF X
<1>6. to \in X
  BY <1>5, Least
<1> HIDE DEF to
<1>7. to \in Nat /\ c.ns <= to
  BY <1>1, <1>5, <1>6
<1>8. QED BY <1>4, <1>7, PassIs

LEMMA StepIs ==
  ASSUME NEW c, Safe(c), NEW limit \in Nat, NEW next \in Instructions
  PROVE  Safe(Step(c, limit, next))
<1>0. /\ c \in Machines /\ c.held \in BOOLEAN /\ c.srun \in BOOLEAN /\ c.ns \in Nat
      /\ StrobeUntil(c) \in Nat
  BY SafeFields, MachineFields, BusintFields, DebugFields, Constants DEF StrobeUntil
<1>1. CASE c.held
  BY <1>1, HeldStepIs DEF Step
<1>2. CASE ~c.held /\ ResetCuts(c)
  <2>1. Step(c, limit, next) = DebugCycle([c EXCEPT !.ns = StrobeUntil(c)], StrobeUntil(c))
    BY <1>2 DEF Step
  <2>2. c.ns <= StrobeUntil(c)
    BY <1>0, <1>2 DEF ResetCuts
  <2>3. QED BY <1>0, <2>1, <2>2, PassIs
<1>3. CASE ~c.held /\ ~ResetCuts(c) /\ (~c.srun \/ Wait(c))
  <2>1. Step(c, limit, next) = MasterClockCycle(c)
    BY <1>3 DEF Step, Hang
  <2>2. QED BY <2>1, MicrocycleIs
<1>4. CASE ~c.held /\ ~ResetCuts(c) /\ c.srun /\ Hang(c)
  <2>1. Step(c, limit, next) = HangOver(Pulsed(c), limit)
    BY <1>4 DEF Step, Hang, HangFor
  <2>2. QED BY <2>1, PulsedIs, HangOverIs
<1>5. CASE ~c.held /\ ~ResetCuts(c) /\ c.srun /\ ~Wait(c) /\ ~Hang(c)
  <2>1. Step(c, limit, next) = Microcycle(c, next)
    BY <1>5 DEF Step
  <2>2. QED BY <2>1, MicrocycleIs
<1>6. QED BY <1>1, <1>2, <1>3, <1>4, <1>5
-----------------------------------------------------------------------------
(* The specification. *)

\* What a debugger may ask: a request of one of the scripts.
Asked == UNION {{s[i] : i \in DOMAIN s} : s \in Scripts}

LEMMA AskedAre == \A q \in Asked : q \in Requests /\ q.strobe # "none"
<1> SUFFICES ASSUME NEW q \in Asked PROVE q \in Requests /\ q.strobe # "none"
  OBVIOUS
<1>1. IsRequest(q)
  BY BusAssumption DEF Asked
<1>2. q.dbd \in Data
  BY DEF Data, Asked
<1>3. /\ q = [strobe |-> q.strobe, write |-> q.write, dbd |-> q.dbd, hold |-> q.hold]
      /\ q.strobe \in {"modifier", "address", "status", "cycle"}
      /\ q.write \in BOOLEAN /\ q.hold \in Nat
  BY <1>1 DEF IsRequest
<1>4. [strobe |-> q.strobe, write |-> q.write, dbd |-> q.dbd, hold |-> q.hold] \in Requests
  BY <1>2, <1>3 DEF Requests
<1>5. QED BY <1>3, <1>4

BusSafe ==
  /\ Safe(machine)
  /\ program \in Seq(Instructions)
  /\ script \in Seq(Asked)

LEMMA PlainIs == Plain("plain", FALSE) \in Instructions
  BY DEF Plain, Instructions

LEMMA BusintNewIs == BusintNew \in Busints
<1>1. PowerOnBoard \in Twins /\ NextChange(PowerOnBoard) \in Nat
  BY TwinsPowerOn, TwinTimes
<1>2. [k \in Boards |-> PowerOnBoard] \in [Boards -> Twins]
  BY <1>1
<1>3. Idle \in States /\ Quiet \in Debugs /\ Never \in Nat
  BY StatesMade, DebugsMade, Constants
<1>4. "none" \in Data /\ "noUnibus" \in Data /\ {} \in Data
  BY DEF Data
<1>5. NoRequest \in Requests
  BY <1>4 DEF NoRequest, Requests
<1> DEFINE memory == [k \in Boards |-> PowerOnBoard]
           next == NextChange(PowerOnBoard)
<1>6. BusintNew =
        [state |-> Idle, write |-> FALSE, memory |-> memory,
         board |-> "none", unibusMaster |-> FALSE, memrqUp |-> Never,
         debugSack |-> Never, msynDown |-> FALSE, needUb |-> FALSE, hold |-> 0,
         debug |-> Quiet, request |-> NoRequest, requestedAt |-> 0, grantedAt |-> 0,
         responder |-> "noUnibus", address |-> "noUnibus", modifier |-> {},
         freedAt |-> 0, debugAck |-> Never, debugAnswered |-> Never,
         cable |-> FALSE, out |-> Quiet, outPending |-> FALSE, outTimeout |-> Never,
         memoryNext |-> next]
  BY DEF BusintNew
<1>7. memory \in [Boards -> Twins] /\ next \in Nat
  BY <1>1, <1>2
<1> HIDE DEF memory, next
<1>8. QED BY <1>3, <1>4, <1>5, <1>6, <1>7 DEF Busints

LEMMA InitSafe == BusInit => BusSafe
<1> SUFFICES ASSUME BusInit PROVE BusSafe
  OBVIOUS
<1>1. PICK a \in Addresses, m \in SUBSET {Inhibit} :
        machine = [MachineNew(Plain("plain", FALSE))
                     EXCEPT !.bus.address = a, !.bus.modifier = m]
  BY DEF BusInit
<1> DEFINE b == BusintNew
           b1 == [b EXCEPT !.address = a]
           b2 == [b1 EXCEPT !.modifier = m]
           c == MachineNew(Plain("plain", FALSE))
           d == [c EXCEPT !.bus = b2]
<1>2. b \in Busints
  BY BusintNewIs
<1>3. c.bus = b
  BY DEF MachineNew
<1>4. c \in Machines
  <2>1. "none" \in Places /\ "noUnibus" \in Places
    BY DEF Places, UnibusResponders
  <2>2. Never \in Nat /\ 0 \in Nat
    BY Constants
  <2> HIDE DEF b
  <2>3. QED BY <1>2, <2>1, <2>2, PlainIs DEF MachineNew, Machines, b
<1>5. /\ TwinsSeen(b) /\ b.state = Idle /\ b.debug = Quiet /\ b.unibusMaster = FALSE
      /\ b.memrqUp = Never
  <2>1. \A k \in Boards : b.memory[k] = PowerOnBoard
    BY DEF BusintNew
  <2>2. b.memoryNext = NextChange(PowerOnBoard) /\ NextChange(PowerOnBoard) \in Nat
    BY TwinsPowerOn, TwinTimes DEF BusintNew
  <2>3. TwinsSeen(b)
    <3> HIDE DEF b
    <3>1. QED BY <2>1, <2>2 DEF TwinsSeen
  <2>4. QED BY <2>3 DEF BusintNew
<1>6. a \in Data /\ m \in Data
  BY DEF Data
<1>7. machine = d
  <2> HIDE DEF b
  <2>1. machine = [c EXCEPT !.bus.address = a, !.bus.modifier = m]
    BY <1>1
  <2>2. c.bus = b
    BY <1>3
  <2> HIDE DEF c
  <2>3. QED BY <1>2, <1>4, <2>1, <2>2 DEF Machines, Busints
<1> HIDE DEF b, c
<1>8. BusInv(b, "noUnibus")
  BY <1>2, <1>5 DEF BusInv, Strobed, Apart, Selected, GrantsApart, OnItsBus,
                    LmGrantOut, DebugGrantOut, Idle, Quiet
<1>9. BusInv(b1, "noUnibus") /\ Aside(b, b1)
  <2>1. b1 \in Busints /\ Other(b, b1)
    BY <1>2, <1>6, AddressSet, OthersSet
  <2> HIDE DEF b1
  <2>2. QED BY <1>8, <2>1, OtherIs
<1> HIDE DEF b1
<1>10. BusInv(b2, "noUnibus") /\ Aside(b1, b2)
  <2>1. b2 \in Busints /\ Other(b1, b2)
    BY <1>6, <1>9, ModifierSet, OthersSet DEF BusInv
  <2> HIDE DEF b2
  <2>2. QED BY <1>9, <2>1, OtherIs
<1>11. b2.state.k = "idle" /\ b2.unibusMaster = FALSE /\ b2.memrqUp = Never
  BY <1>5, <1>9, <1>10 DEF Aside, Idle
<1>12. d \in Machines /\ d.bus = b2
  BY <1>4, <1>10, MBus DEF BusInv
<1> HIDE DEF b2, d
<1>13. BusInv(d.bus, d.responder)
  BY <1>10, <1>11, <1>12 DEF BusInv, Selected, OnItsBus
<1>14. Safe(d)
  BY <1>11, <1>12, <1>13 DEF Safe, Machine, Timed, Taken
<1>15. program \in Seq(Instructions)
  BY BusAssumption DEF BusInit
<1>16. script \in Seq(Asked)
  <2>1. script \in Scripts /\ script \in Seq({script[i] : i \in DOMAIN script})
    BY BusAssumption DEF BusInit
  <2>2. {script[i] : i \in DOMAIN script} \subseteq Asked
    BY <2>1 DEF Asked
  <2>3. QED BY <2>1, <2>2
<1>17. QED BY <1>7, <1>14, <1>15, <1>16 DEF BusSafe

LEMMA RunSafe ==
  ASSUME BusSafe, NEW limit \in Nat, RunStep(limit)
  PROVE  BusSafe'
<1> DEFINE next == IF program = <<>> THEN Plain("plain", FALSE) ELSE Head(program)
<1>1. program \in Seq(Instructions) /\ Safe(machine)
  BY DEF BusSafe
<1>2. next \in Instructions
  <2>1. CASE program = <<>>
    BY <2>1, PlainIs
  <2>2. CASE program # <<>>
    BY <1>1, <2>2
  <2>3. QED BY <2>1, <2>2
<1>3. machine' = Step(machine, limit, next)
  BY DEF RunStep
<1> HIDE DEF next
<1>4. Safe(Step(machine, limit, next))
  BY <1>1, <1>2, StepIs
<1>5. Safe(machine')
  BY <1>3, <1>4
<1>6. program' \in Seq(Instructions)
  BY <1>1 DEF RunStep
<1>7. script' \in Seq(Asked)
  BY DEF BusSafe, RunStep
<1>8. QED BY <1>5, <1>6, <1>7 DEF BusSafe

\* The cable's operations: the interface moves a step, then the fields of the
\* word.
LEMMA TryDebugRequestIs ==
  ASSUME NEW c, Safe(c), NEW at \in Nat, c.ns <= at, CableIdle(c, at),
         NEW req \in Asked, NEW u \in Data \cup Mapped
  PROVE  Safe(TryDebugRequest(c, at, req, u))
<1> DEFINE t == c.ns + Length(c)
           b == DebugRequest(c.bus, at, req, u)
           answer == IF req.strobe = "cycle" THEN Never ELSE at
           c1 == [c EXCEPT !.bus = b]
           c2 == [c1 EXCEPT !.debugSampled = FALSE]
           c3 == [c2 EXCEPT !.debugWritten = FALSE]
           c4 == [c3 EXCEPT !.answer = answer]
<1>1. Latest(at, c.ns) = at
  <2>1. c.ns \in Nat
    BY SafeFields
  <2>2. QED BY <2>1 DEF Latest
<1>2. TryDebugRequest(c, at, req, u) = c4
  BY <1>1 DEF TryDebugRequest
<1>3. Steps(c.bus, b, c.responder)
  <2>1. DebugAdvance(c.bus, at).debug.k = "idle"
    BY DEF CableIdle
  <2>2. QED BY <2>1, AskedAre, DebugRequestIs DEF Safe, Machine
<1>4. answer \in Nat
  BY Constants
<1> HIDE DEF b, answer
<1>5. Carries(c, c1, t)
  BY <1>3, BusTo DEF Safe
<1> HIDE DEF c1
<1>6. Beside(c1, c2)
  BY <1>5, MDebugSampled DEF Carries, Machine
<1> HIDE DEF c2
<1>7. Beside(c2, c3)
  BY <1>6, MDebugWritten DEF Beside
<1> HIDE DEF c3
<1>8. Beside(c3, c4)
  BY <1>4, <1>7, MAnswer DEF Beside
<1> HIDE DEF c4
<1>9. Carries(c1, c4, t)
  BY <1>5, <1>6, <1>7, <1>8, BesideOn, BesideIs DEF Carries
<1>10. Carries(c, c4, t)
  BY <1>5, <1>9, CarriesOn
<1>11. QED BY <1>2, <1>10 DEF Carries, Safe, Length

LEMMA TryDebugReleaseIs ==
  ASSUME NEW c, Safe(c), NEW at \in Nat
  PROVE  Safe(TryDebugRelease(c, at))
<1> DEFINE b == DebugRelease(c.bus, Latest(at, c.ns))
           c1 == [c EXCEPT !.bus = b]
<1>1. Latest(at, c.ns) \in Nat
  BY SafeFields, Arithmetic
<1>2. Steps(c.bus, b, c.responder)
  BY <1>1, DebugReleaseIs DEF Safe, Machine
<1>3. TryDebugRelease(c, at) = c1
  BY DEF TryDebugRelease
<1> HIDE DEF b
<1>4. Carries(c, c1, c.ns + Length(c))
  BY <1>2, BusTo DEF Safe
<1> HIDE DEF c1
<1>5. QED BY <1>3, <1>4 DEF Carries, Safe, Length

LEMMA NextSafe == BusSafe /\ [BusNext]_busVars => BusSafe'
<1> SUFFICES ASSUME BusSafe, [BusNext]_busVars PROVE BusSafe'
  OBVIOUS
<1>0. Safe(machine) /\ machine.ns \in Nat /\ machine.bus \in Busints /\ machine \in Machines
  BY SafeFields DEF BusSafe
<1>1. CASE RunStep(Never)
  BY <1>1, RunSafe, Constants
<1>2. CASE RunStep(machine.ns + 1)
  <2>1. machine.ns + 1 \in Nat
    BY <1>0
  <2>2. QED BY <1>2, <2>1, RunSafe
<1>3. ASSUME script # <<>>, NEW ahead \in Ahead, NEW r \in Answers(Head(script)),
             CableRequest(machine.ns + ahead, r)
      PROVE  BusSafe'
  <2> DEFINE at == machine.ns + ahead
             d == TryDebugRequest(machine, at, Head(script), r)
  <2>1. at \in Nat /\ machine.ns <= at
    BY <1>0, BusAssumption
  <2>2. script \in Seq(Asked) /\ Head(script) \in Asked
    BY <1>3 DEF BusSafe
  <2>3. r \in Data \cup Mapped
    BY <1>0, BusintFields DEF Answers
  <2>4. /\ CableIdle(machine, at) /\ machine' = d /\ script' = Tail(script)
        /\ program' = program
    BY <1>3 DEF CableRequest
  <2> HIDE DEF at
  <2>5. Safe(d)
    BY <1>0, <2>1, <2>2, <2>3, <2>4, TryDebugRequestIs
  <2> HIDE DEF d
  <2>6. Safe(machine')
    BY <2>4, <2>5
  <2>7. script' \in Seq(Asked) /\ program' \in Seq(Instructions)
    BY <1>3, <2>2, <2>4 DEF BusSafe
  <2>8. QED BY <2>6, <2>7 DEF BusSafe
<1>4. CASE CableRelease(machine.ns)
  <2>1. /\ machine' = TryDebugRelease(machine, machine.ns) /\ script' = script
        /\ program' = program
    BY <1>4 DEF CableRelease
  <2>2. Safe(TryDebugRelease(machine, machine.ns))
    BY <1>0, TryDebugReleaseIs
  <2>3. Safe(machine')
    BY <2>1, <2>2
  <2>4. QED BY <2>1, <2>3 DEF BusSafe
<1>5. CASE UNCHANGED busVars
  BY <1>5 DEF BusSafe, busVars, Safe, Length, Machine, Timed
<1>6. QED BY <1>1, <1>2, <1>3, <1>4, <1>5 DEF BusNext, Done

\* The invariant holds: every turn of step_body and every operation of the
\* debug cable, at whatever instant, leaves the interface's arbitration whole.
THEOREM BusIsSafe == BusSpec => []BusSafe
<1>1. QED BY InitSafe, NextSafe, PTL DEF BusSpec

LEMMA OneMaster == BusSafe => OneUnibusMaster
<1> SUFFICES ASSUME BusSafe PROVE OneUnibusMaster
  OBVIOUS
<1>1. Apart(machine.bus) /\ Selected(machine.bus, machine.responder)
  BY DEF BusSafe, Safe, Machine, BusInv
<1>2. QED BY <1>1 DEF OneUnibusMaster, ProcessorOnUnibus, Apart, Selected

\* UBMAST gives the Unibus to the processor or to the debug master, never to
\* both, whatever the debugger asks and whenever (DebugTakes, ArbitrationEdge).
THEOREM UnibusIsApart == BusSpec => []OneUnibusMaster
<1>1. QED BY BusIsSafe, OneMaster, PTL

LEMMA TwinsMissed == BusSafe => TwinsNotMissed
<1> SUFFICES ASSUME BusSafe PROVE TwinsNotMissed
  OBVIOUS
<1> DEFINE b == machine.bus
           X == {NextChange(b.memory[k]) : k \in Boards}
<1>1. b \in Busints /\ TwinsSeen(b)
  BY DEF BusSafe, Safe, Machine, BusInv
<1>2. X \in SUBSET Nat /\ X # {}
  BY <1>1, BusintFields, TwinTimes, BusintAssumption
<1>3. \A x \in X : b.memoryNext <= x
  BY <1>1 DEF TwinsSeen
<1>4. TwinsNotMissed <=> b.memoryNext <= Earliest(X)
  BY DEF TwinsNotMissed, TwinsNext
<1> HIDE DEF X, b
<1>5. Earliest(X) \in X
  BY <1>2, Least
<1>6. QED BY <1>3, <1>4, <1>5

\* ClockTwins passes over the boards only while none of them has anything to
\* do: the instant it has put by is never past the next change of a twin.
THEOREM TwinsAreSeen == BusSpec => []TwinsNotMissed
<1>1. QED BY BusIsSafe, TwinsMissed, PTL
-----------------------------------------------------------------------------
(* A checkpoint of a machine. *)

LEMMA StateResumes == \A s \in States : StateLoad(StateSave(s)) = s
<1> SUFFICES ASSUME NEW s \in States PROVE StateLoad(StateSave(s)) = s
  OBVIOUS
<1>1. CASE s \in {Idle, Requested}
  BY <1>1 DEF StateSave, StateLoad, Idle, Requested
<1>2. CASE s \in Arbitrations
  <2>1. StateSave(s) = <<2, s.stage, s.sack>>
    BY <1>2 DEF StateSave, Arbitrations
  <2>2. StateLoad(<<2, s.stage, s.sack>>) = Arbitrating(s.stage, s.sack)
    BY DEF StateLoad
  <2>3. QED BY <1>2, <2>1, <2>2 DEF Arbitrating, Arbitrations
<1>3. CASE s \in Cycles
  <2>1. CASE s.k = "granted"
    <3>1. StateSave(s) = <<3, s.ack, s.loadmd, s.answered, s.timedOut>>
      BY <2>1 DEF StateSave
    <3>2. StateLoad(<<3, s.ack, s.loadmd, s.answered, s.timedOut>>)
            = Granted(s.ack, s.loadmd, s.answered, s.timedOut)
      BY DEF StateLoad
    <3>3. QED BY <1>3, <2>1, <3>1, <3>2 DEF Granted, Cycles
  <2>2. CASE s.k = "acked"
    <3>1. StateSave(s) = <<4, s.ack, s.loadmd, s.answered, s.timedOut>>
      BY <2>2 DEF StateSave
    <3>2. StateLoad(<<4, s.ack, s.loadmd, s.answered, s.timedOut>>)
            = [Granted(s.ack, s.loadmd, s.answered, s.timedOut) EXCEPT !.k = "acked"]
      BY DEF StateLoad
    <3>3. QED BY <1>3, <2>2, <3>1, <3>2 DEF Granted, Cycles
  <2>3. QED BY <1>3, <2>1, <2>2 DEF Cycles
<1>4. QED BY <1>1, <1>2, <1>3 DEF States

LEMMA DebugResumes == \A d \in Debugs : DebugLoad(DebugSave(d)) = d
<1> SUFFICES ASSUME NEW d \in Debugs PROVE DebugLoad(DebugSave(d)) = d
  OBVIOUS
<1>1. CASE d \in [k : {"idle", "needUb", "nprd", "selected"}]
  BY <1>1 DEF DebugSave, DebugLoad, DebugKinds
<1>2. CASE d \in [k : {"granted"}, sack : Nat]
  BY <1>2 DEF DebugSave, DebugLoad, DebugKinds
<1>3. CASE d \in [k : {"strobe", "releasing"}, until : Nat]
  BY <1>3 DEF DebugSave, DebugLoad, DebugKinds
<1>4. CASE d \in Masters
  BY <1>4 DEF DebugSave, DebugLoad, DebugKinds, Masters
<1>5. QED BY <1>1, <1>2, <1>3, <1>4 DEF Debugs

LEMMA TwinResumes == \A m \in Twins : BoardLoad(BoardSave(m)) = m
  BY DEF BoardLoad, BoardSave, Twins

LEMMA RequestResumes == \A q \in Requests : RequestLoad(RequestSave(q)) = q
  BY DEF RequestLoad, RequestSave, Requests

LEMMA BusintResumes == \A b \in Busints : BusintLoad(BusintSave(b)) = b
<1> SUFFICES ASSUME NEW b \in Busints PROVE BusintLoad(BusintSave(b)) = b
  OBVIOUS
<1> DEFINE s == BusintSave(b)
           d == BusintLoad(s)
<1>1. /\ b.state \in States /\ b.debug \in Debugs /\ b.request \in Requests
      /\ b.memory \in [Boards -> Twins] /\ b.out = Quiet
  BY BusintFields
<1>2. /\ s[1] = StateSave(b.state) /\ s[11] = DebugSave(b.debug)
      /\ s[12] = RequestSave(b.request) /\ s[22] = OutSave(b.out)
      /\ s[3] = [k \in Boards |-> BoardSave(b.memory[k])]
  BY DEF BusintSave
<1>3. /\ s[2] = b.write /\ s[4] = b.board /\ s[5] = b.unibusMaster
      /\ s[6] = b.memrqUp /\ s[7] = b.debugSack /\ s[8] = b.msynDown
      /\ s[9] = b.needUb /\ s[10] = b.hold /\ s[13] = b.requestedAt
      /\ s[14] = b.grantedAt /\ s[15] = b.responder /\ s[16] = b.address
      /\ s[17] = b.modifier /\ s[18] = b.freedAt /\ s[19] = b.debugAck
      /\ s[20] = b.debugAnswered /\ s[21] = b.cable /\ s[23] = b.outPending
      /\ s[24] = b.outTimeout /\ s[25] = b.memoryNext
  BY DEF BusintSave
<1> HIDE DEF s
<1>4. /\ StateLoad(s[1]) = b.state /\ DebugLoad(s[11]) = b.debug
      /\ RequestLoad(s[12]) = b.request
  BY <1>1, <1>2, StateResumes, DebugResumes, RequestResumes
<1>5. OutLoad(s[22]) = b.out
  BY <1>1, <1>2 DEF OutSave, OutLoad, Quiet
<1>6. [k \in Boards |-> BoardLoad(s[3][k])] = b.memory
  BY <1>1, <1>2, TwinResumes
<1> DEFINE memory == [k \in Boards |-> BoardLoad(s[3][k])]
<1>7. d = [state |-> b.state, write |-> b.write, memory |-> b.memory, board |-> b.board,
     unibusMaster |-> b.unibusMaster, memrqUp |-> b.memrqUp, debugSack |-> b.debugSack,
     msynDown |-> b.msynDown, needUb |-> b.needUb, hold |-> b.hold, debug |-> b.debug,
     request |-> b.request, requestedAt |-> b.requestedAt, grantedAt |-> b.grantedAt,
     responder |-> b.responder, address |-> b.address, modifier |-> b.modifier,
     freedAt |-> b.freedAt, debugAck |-> b.debugAck, debugAnswered |-> b.debugAnswered,
     cable |-> b.cable, out |-> b.out, outPending |-> b.outPending,
     outTimeout |-> b.outTimeout, memoryNext |-> b.memoryNext]
  BY <1>3, <1>4, <1>5, <1>6, Zenon DEF BusintLoad
<1> HIDE DEF d
<1>8. d = b
  BY <1>7, Zenon DEF Busints
<1>9. QED BY <1>8 DEF d, s

LEMMA Resumes == BusSafe => ResumesTheSame
<1> SUFFICES ASSUME BusSafe PROVE ResumesTheSame
  OBVIOUS
<1> DEFINE c == machine
           s == RtlSave(c)
           d == RtlLoad(s)
<1>1. c \in Machines /\ c.bus \in Busints
  BY SafeFields DEF BusSafe
<1>2. s[11] = BusintSave(c.bus)
  BY DEF RtlSave
<1>3. /\ s[1] = c.md /\ s[2] = c.run /\ s[3] = c.vma /\ s[4] = c.ir /\ s[5] = c.srun
      /\ s[6] = c.pulsed /\ s[7] = c.memstart /\ s[8] = c.mbusy /\ s[9] = c.rdcyc
      /\ s[10] = c.wrcyc /\ s[12] = c.mbusySync /\ s[13] = c.written
      /\ s[14] = c.responder /\ s[15] = c.reading /\ s[16] = c.finishAt
      /\ s[17] = c.clearAt /\ s[18] = c.acked /\ s[19] = c.debugSampled
      /\ s[20] = c.debugWritten /\ s[21] = c.answer /\ s[22] = c.debugReset
      /\ s[23] = c.held /\ s[24] = c.started /\ s[25] = c.ns /\ s[26] = c.word
      /\ s[27] = c.loadmdAt
  BY DEF RtlSave
<1> HIDE DEF s
<1>4. BusintLoad(s[11]) = c.bus
  BY <1>1, <1>2, BusintResumes
<1>5. d = [md |-> c.md, run |-> c.run, vma |-> c.vma, ir |-> c.ir, srun |-> c.srun,
     pulsed |-> c.pulsed, memstart |-> c.memstart, mbusy |-> c.mbusy, rdcyc |-> c.rdcyc,
     wrcyc |-> c.wrcyc, bus |-> c.bus, mbusySync |-> c.mbusySync, written |-> c.written,
     responder |-> c.responder, reading |-> c.reading, finishAt |-> c.finishAt,
     clearAt |-> c.clearAt, acked |-> c.acked, debugSampled |-> c.debugSampled,
     debugWritten |-> c.debugWritten, answer |-> c.answer, debugReset |-> c.debugReset,
     held |-> c.held, started |-> c.started, ns |-> c.ns, word |-> c.word,
     loadmdAt |-> c.loadmdAt]
  BY <1>3, <1>4, Zenon DEF RtlLoad
<1> HIDE DEF d, c
<1>6. d = c
  BY <1>1, <1>5, Zenon DEF Machines
<1>7. RtlLoad(RtlSave(machine)) = machine
  BY <1>6 DEF d, s, c
<1>8. QED BY <1>7 DEF ResumesTheSame

\* What Busint::save and Rtl::save wrote between any two steps, the loads take
\* back: the machine that resumes is the machine that was saved.
THEOREM CheckpointResumes == BusSpec => []ResumesTheSame
<1>1. QED BY BusIsSafe, Resumes, PTL
=============================================================================

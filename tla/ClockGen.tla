------------------------------ MODULE ClockGen ------------------------------
(***************************************************************************)
(* The clock generator of the chip engine (src/clock.rs) as the far end    *)
(* steps it (src/cable.rs, tick_with): a list of transitions to come, the  *)
(* tap that ends the read phase chosen in mid-cycle, -HANG that holds the  *)
(* next cycle off and RESET that clears the ring.  A unit is 5 ns.         *)
(***************************************************************************)
EXTENDS Integers, Sequences, FiniteSets, SequencesExt

CONSTANTS ClkCycles,     \* bound: cycles begun
          ClkHold        \* bound: units a held generator is passed over at once

ASSUME ClkAssumption == {ClkCycles, ClkHold} \subseteq Nat \ {0}

VARIABLES clk,        \* the generator: [time, start, read, out, pending]
          clkIn,      \* what it sees of the board: [hang, ilong, speed, reset]
          clkSeen,    \* the transitions taken in this cycle
          clkHeld,    \* how long this cycle has been held
          clkChosen,  \* the inputs as the tap was chosen
          clkStarts,  \* when cycles began
          clkPhase, microcycles   \* DebugIn's count, and the phase it last saw

clkVars == <<clk, clkIn, clkSeen, clkHeld, clkChosen, clkStarts, clkPhase, microcycles>>

Speeds == {"ExtraSlow", "Slow", "Normal", "Fast"}
ClockInputs == [hang : BOOLEAN, ilong : BOOLEAN, speed : Speeds, reset : BOOLEAN]

ReadPhaseNs(speed, ilong) ==
  CASE speed = "Fast" -> IF ilong THEN 23 ELSE 15
    [] speed = "Normal" -> IF ilong THEN 25 ELSE 17
    [] speed = "Slow" -> IF ilong THEN 28 ELSE 20
    [] speed = "ExtraSlow" -> 32

TseOffNs == 1
TseOnNs == 5
WpOnNs == 6
WpOffNs == 14
WpIramOffNs == 9
RestartAfterRead == 12
TprPulseNs == 8
Tpr60Ns == 12
SelectNs == 13

\* The grid of the fabric, two units to a tick, and the cycle on it.
GridNs == 2
Triggered(model, ns) == IF model = "cadr" THEN ns ELSE ((ns + GridNs - 1) \div GridNs) * GridNs
CycleNs(model, speed, ilong) == Triggered(model, ReadPhaseNs(speed, ilong)) + Triggered(model, RestartAfterRead)

-----------------------------------------------------------------------------
(* The list of transitions.                                                    *)

\* Behind what is to come as soon.
Schedule(pending, at, ev) ==
  [k \in 1 .. Len(pending) + 1 |->
     IF k <= Len(pending) /\ pending[k].at <= at THEN pending[k]
     ELSE IF k = 1 \/ pending[k - 1].at <= at THEN [at |-> at, ev |-> ev] ELSE pending[k - 1]]

StartCycle(c) ==
  LET a == Schedule(c.pending, c.time + TseOffNs, "TseOff")
      b == Schedule(a, c.time + TseOnNs, "TseOn")
      d == Schedule(b, c.time + Tpr60Ns, "TprOn")
      e == Schedule(d, c.time + SelectNs, "Select")
  IN  [c EXCEPT !.start = c.time, !.pending = Schedule(e, c.time + Tpr60Ns + TprPulseNs, "TprOff")]

\* The rest of the cycle, the write pulse closing `off' after the read phase:
\* scheduled before the restart, so that at the same instant it comes first.
RestOfCycle(c, r, off) ==
  LET end == c.start + r
      a == Schedule(c.pending, end, "ReadEnd")
      b == Schedule(a, end + WpIramOffNs, "WpIramOff")
      d == Schedule(b, end + WpOnNs, "WpOn")
      e == Schedule(d, end + off, "WpOff")
  IN  [c EXCEPT !.read = r, !.pending = Schedule(e, end + RestartAfterRead, "CycleStart")]
PickTap_mut(c, in) == RestOfCycle(c, ReadPhaseNs(in.speed, in.ilong), WpOffNs)
PickTap(c, in) ==
  RestOfCycle(c, ReadPhaseNs(in.speed, in.ilong),
              IF WpOffNs < RestartAfterRead THEN WpOffNs ELSE RestartAfterRead)

Cleared2(c) == [c EXCEPT !.out = {}, !.pending = <<[at |-> c.time, ev |-> "CycleStart"]>>]
Waits(c, in) == in.hang /\ c.pending[1].ev = "CycleStart"
NextAt(c, in) == IF in.reset \/ c.pending = <<>> \/ Waits(c, in) THEN {} ELSE {c.pending[1].at}

\* The rest of the cycle is scheduled already.
Picked(c) == \E k \in DOMAIN c.pending : c.pending[k].ev = "ReadEnd"

\* The transition at the head of the list is taken.
Take(c, in) ==
  LET ev == c.pending[1].ev
      t == [c EXCEPT !.time = c.pending[1].at, !.pending = Tail(@)]
      up(o) == [t EXCEPT !.out = @ \cup {o}]
      down(o) == [t EXCEPT !.out = @ \ {o}]
  IN  CASE ev = "CycleStart" -> StartCycle(up("tpclk"))
        [] ev = "TseOn" -> up("tptse")
        [] ev = "TseOff" -> down("tptse")
        [] ev \in {"TprOn", "TprOff"} -> t
        [] ev = "Select" -> IF Picked(t) THEN t ELSE PickTap(t, in)
        [] ev = "ReadEnd" -> [t EXCEPT !.out = (@ \ {"tpclk"}) \cup {"tpwpiram"}]
        [] ev = "WpIramOff" -> down("tpwpiram")
        [] ev = "WpOn" -> up("tpwp")
        [] ev = "WpOff" -> down("tpwp")

\* Time passes with no transition: a held generator's move with it.
Later(pending, by) == [k \in DOMAIN pending |-> [pending[k] EXCEPT !.at = @ + by]]
PassTo(c, until, held) ==
  [c EXCEPT !.time = until, !.pending = IF held THEN Later(@, until - c.time) ELSE @]
PhaseNs(c) == c.time - c.start

-----------------------------------------------------------------------------
(* The far end's step: the board's inputs then stand as it settles.            *)

ClkInit ==
  /\ clk = [time |-> 0, start |-> 0, read |-> 0, out |-> {}, pending |-> <<[at |-> 0, ev |-> "CycleStart"]>>]
  /\ clkIn = [hang |-> FALSE, ilong |-> FALSE, speed |-> "Normal", reset |-> FALSE]
  /\ clkSeen = <<>> /\ clkHeld = 0 /\ clkChosen = {} /\ clkStarts = {} /\ clkPhase = 0 /\ microcycles = 0

\* The processor's IR and -HANG move with the clock, the speed with SPEEDCLK,
\* and RESET at any time.
Settles(ev) ==
  /\ clkIn' \in ClockInputs
  /\ clkIn'.ilong # clkIn.ilong => ev = "CycleStart"
  /\ clkIn'.speed # clkIn.speed => ev = "TprOn"
Counted2(c) ==
  /\ clkPhase' = PhaseNs(c)
  /\ microcycles' = IF PhaseNs(c) < clkPhase THEN microcycles + 1 ELSE microcycles

ClkTick ==
  /\ NextAt(clk, clkIn) # {} /\ Cardinality(clkStarts) <= ClkCycles
  /\ LET ev == clk.pending[1].ev
         c == Take(clk, clkIn)
     IN  /\ clk' = c
         /\ clkSeen' = IF ev = "CycleStart" THEN <<>> ELSE Append(clkSeen, ev)
         /\ clkHeld' = IF ev = "CycleStart" THEN 0 ELSE clkHeld
         /\ clkChosen' = CASE ev = "Select" /\ ~Picked(clk) -> {<<clkIn.speed, clkIn.ilong>>}
                           [] ev = "CycleStart" -> {}
                           [] OTHER -> clkChosen
         /\ clkStarts' = IF ev = "CycleStart" THEN clkStarts \cup {c.time} ELSE clkStarts
         /\ Counted2(c) /\ Settles(ev)

\* Another board's event comes first, or is what ends the wait; RESET, up
\* between transitions, clears the ring on the way.
ClkPassed ==
  /\ Cardinality(clkStarts) <= ClkCycles
  /\ LET c == IF clkIn.reset THEN Cleared2(clk) ELSE clk
         held == NextAt(c, clkIn) = {}
     IN  \E e \in c.time .. (IF held THEN c.time + ClkHold ELSE c.pending[1].at) :
           /\ ~held => e < c.pending[1].at
           /\ held => clkHeld + (e - c.time) <= ClkHold
           /\ clk' = PassTo(c, e, held)
           /\ clkSeen' = IF clkIn.reset THEN <<"reset">> ELSE clkSeen
           /\ clkHeld' = IF held THEN clkHeld + (e - c.time) ELSE clkHeld
           /\ Counted2(PassTo(c, e, held)) /\ Settles("none")
  /\ UNCHANGED <<clkChosen, clkStarts>>

\* A clock resumed from a file written when the tap was chosen as the cycle
\* began: the rest of its cycle is scheduled already.
ClkOldFile ==
  /\ clkSeen = <<>> /\ clk.pending[1].ev = "TseOff" /\ Cardinality(clkStarts) = 1 /\ ~Picked(clk)
  /\ clk' = PickTap(clk, clkIn)
  /\ clkChosen' = {<<clkIn.speed, clkIn.ilong>>}
  /\ UNCHANGED <<clkIn, clkSeen, clkHeld, clkStarts, clkPhase, microcycles>>

ClkNext == ClkTick \/ ClkPassed \/ ClkOldFile

ClkSpec == ClkInit /\ [][ClkNext]_clkVars

-----------------------------------------------------------------------------
(* Properties.                                                                 *)

Transitions == {"TseOff", "TseOn", "TprOn", "Select", "TprOff", "ReadEnd", "WpIramOff", "WpOn", "WpOff"}
Begins == clk.pending # <<>> /\ clk.pending[1].ev = "CycleStart" /\ clkStarts # {} /\ "reset" \notin ToSet(clkSeen)

\* A cycle no reset cut short takes each of its transitions once before the next
\* begins, SPEEDCLK before the tap is chosen, and lasts what the speed and ILONG
\* of the moment it was chosen say and what it was held; nothing is scheduled in
\* the past (Behavioral::advance, pick_tap, pass).
CycleWhole ==
  /\ \A k \in DOMAIN clk.pending : clk.pending[k].at >= clk.time
  /\ Begins =>
       /\ ToSet(clkSeen) = Transitions /\ Len(clkSeen) = Cardinality(Transitions)
       /\ \E i, j \in DOMAIN clkSeen : i < j /\ clkSeen[i] = "TprOn" /\ clkSeen[j] = "Select"
       /\ \A ch \in clkChosen : clk.pending[1].at - clk.start = CycleNs("cadr", ch[1], ch[2]) + clkHeld

\* A write pulse is over when a read phase begins, and the buses are let go only
\* as one begins (WP_OFF_NS, TSE_OFF_NS).
PulsesApart ==
  /\ "tpclk" \in clk.out => clk.out \cap {"tpwp", "tpwpiram"} = {}
  /\ ("tptse" \notin clk.out /\ "reset" \notin ToSet(clkSeen)) => PhaseNs(clk) <= TseOnNs

\* The debug connector's count of microcycles, kept from the phase alone, is of
\* the cycles that began (DebugIn::tick).
MicrocyclesCounted == clkStarts # {} => microcycles = Cardinality(clkStarts) - 1

\* On the grid a cycle is never shorter than the board's and at most two ticks
\* longer, and a clock that runs freely never drifts from its own edges.
GridKeeps ==
  /\ \A s \in Speeds, l \in BOOLEAN :
       LET more == CycleNs("fpga", s, l) - CycleNs("cadr", s, l)
       IN  more \in 0 .. 2 * (GridNs - 1) /\ CycleNs("fpga", s, l) % GridNs = 0
  /\ \A period \in 1 .. 9, k \in 0 .. 9 : Triggered("fpga", k * period) - (k * period) \in 0 .. GridNs - 1

\* The clock of a machine that is held, reset, stepped and resumed at any moment.
CycleKept == CycleWhole /\ PulsesApart /\ MicrocyclesCounted /\ GridKeeps
=============================================================================

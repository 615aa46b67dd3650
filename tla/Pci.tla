--------------------------------- MODULE Pci --------------------------------
(***************************************************************************)
(* The 2651 of the I/O board, bit by bit (src/part.rs, pci_update): two of *)
(* them at the ends of a null-modem cable, or one looped back on itself,   *)
(* and the software at each.  A character is PciBits bits, a bit PciOver   *)
(* clocks; -CE's rise ends an access, and BRCLK's rise moves both ends.    *)
(***************************************************************************)
EXTENDS Integers, Sequences, FiniteSets, SequencesExt

CONSTANTS PciBits,       \* 5 to 8 in the part
          PciOver,       \* 16 in the part
          PciDivisor,    \* counts of BRCLK in a clock
          PciStops,      \* half bits of stop, 2 to 4
          PciParities,   \* which of "none", "odd", "even" are tried
          PciSends, PciTurns   \* bounds: characters sent, and command writes

ASSUME PciAssumption == PciOver % 2 = 0 /\ {PciBits, PciOver, PciDivisor, PciStops} \subseteq Nat \ {0}

VARIABLES chip,      \* the two chips, 1 sending and 2 receiving; 1 alone in local loop back
          pciSent,   \* what the software gave chip 1 to send
          pciGot,    \* what the software read at the receiving chip
          pciLost,   \* characters an overrun took
          pciTurns

pciVars == <<chip, pciSent, pciGot, pciLost, pciTurns>>

Characters == SUBSET (0 .. PciBits - 1)

-----------------------------------------------------------------------------
(* What a chip holds shows.                                                    *)

PciReset(dsr, dcd) ==
  [mr1 |-> "reset", mr2 |-> "external", ptr |-> 0,
   cr |-> [mode |-> "normal", tx |-> FALSE, rx |-> FALSE, dtr |-> FALSE, rts |-> FALSE, brk |-> FALSE],
   thr |-> {}, full |-> FALSE, rhr |-> {}, ready |-> FALSE, empty |-> FALSE, dschg |-> FALSE,
   overrun |-> FALSE, parity |-> FALSE, framing |-> FALSE,
   ta |-> FALSE, tsr |-> {}, tt |-> 0, ra |-> FALSE, high |-> FALSE, rsr |-> {}, rt |-> 0, rpar |-> FALSE,
   div |-> 0, dsr |-> dsr, dcd |-> dcd]

LocalLoop(c) == c.cr.mode = "local"
TxOn(c) == c.cr.tx /\ c.cr.mode \in {"normal", "local"} /\ c.mr2 = "internal" /\ c.mr1 # "synchronous"
RxOn(c) == (c.cr.rx \/ LocalLoop(c)) /\ c.mr2 = "internal" /\ c.mr1 # "synchronous"
TxReady(c) == TxOn(c) /\ ~c.full
Sr2(c) == (c.cr.tx /\ c.empty) \/ c.dschg
Status(c) == [tx |-> TxReady(c), rx |-> c.ready, sr2 |-> Sr2(c), pe |-> c.parity, oe |-> c.overrun, fe |-> c.framing,
              dcd |-> IF LocalLoop(c) THEN c.cr.dtr ELSE c.dcd, dsr |-> c.dsr]

HasParity(c) == IF c.mr1 \in {"odd", "even"} THEN 1 ELSE 0
ParityBit(c, byte) == (Cardinality(byte) % 2 = 1) # (c.mr1 = "odd")
FrameClocks(c) == PciOver * (1 + PciBits + HasParity(c)) + (PciOver \div 2) * PciStops
\* The level at clock t of a frame that carries `byte'.
TxBit(c, byte, t) ==
  LET k == t \div PciOver IN
  CASE k = 0 -> FALSE
    [] k \in 1 .. PciBits -> k - 1 \in byte
    [] k > PciBits /\ k <= PciBits + HasParity(c) -> ParityBit(c, byte)
    [] k > PciBits + HasParity(c) -> TRUE
TxLevel(c) == ~c.cr.brk /\ (c.ta => TxBit(c, c.tsr, c.tt))
TxdPin(c, rxd) == CASE c.cr.mode \in {"echo", "remote"} -> rxd [] LocalLoop(c) -> TRUE [] OTHER -> TxLevel(c)
DtrPin(c) == c.cr.dtr /\ ~LocalLoop(c)
RtsPin(c) == c.cr.rts /\ ~LocalLoop(c)

-----------------------------------------------------------------------------
(* The end of a bus access.                                                    *)

WriteThr(c, d) == [c EXCEPT !.thr = d, !.full = TRUE, !.empty = FALSE]
ReadRhr(c) == [c EXCEPT !.ready = FALSE]
ReadStatus(c) == [c EXCEPT !.dschg = FALSE]
WriteMode(c, d) == IF c.ptr = 1 THEN [c EXCEPT !.mr2 = d, !.ptr = 0] ELSE [c EXCEPT !.mr1 = d, !.ptr = 1]
ReadCommand(c) == [c EXCEPT !.ptr = 0]
WriteCommand(c, cr, resetError) ==
  LET cleared == IF resetError THEN [c EXCEPT !.overrun = FALSE, !.parity = FALSE, !.framing = FALSE] ELSE c
      set == [cleared EXCEPT !.cr = cr]
      quiet == IF RxOn(set) THEN set ELSE [set EXCEPT !.ra = FALSE, !.ready = FALSE]
  IN  IF cr.tx THEN quiet ELSE [quiet EXCEPT !.empty = FALSE]

-----------------------------------------------------------------------------
(* A clock.                                                                    *)

Loaded(c) == [c EXCEPT !.tsr = c.thr, !.full = FALSE, !.ta = TRUE, !.tt = 0]
Transmit(c, cts) ==
  LET next == TxOn(c) /\ c.full /\ cts
      over == c.tt + 1 >= FrameClocks(c)
  IN  CASE c.ta /\ ~over -> [c EXCEPT !.tt = @ + 1]
        [] (~c.ta \/ over) /\ next -> Loaded(c)
        [] c.ta /\ over /\ ~next -> [c EXCEPT !.ta = FALSE, !.tt = 0, !.empty = @ \/ (TxOn(c) /\ ~c.full)]
        [] ~c.ta /\ ~next -> c

Hunt(c, rxd) ==
  CASE c.high -> [c EXCEPT !.high = ~rxd]
    [] ~c.high /\ ~rxd -> [c EXCEPT !.ra = TRUE, !.rt = 0, !.rsr = {}]
    [] ~c.high /\ rxd -> c
StopBit(c, rxd) ==
  LET bad == HasParity(c) = 1 /\ ParityBit(c, c.rsr) # c.rpar
      ended == [c EXCEPT !.ra = FALSE, !.framing = @ \/ ~rxd, !.high = @ \/ ~rxd, !.parity = @ \/ bad]
  IN  IF c.cr.mode = "remote" THEN ended
      ELSE [ended EXCEPT !.overrun = @ \/ c.ready, !.rhr = c.rsr, !.ready = TRUE]
Sample(c, rxd) ==
  LET k == c.rt \div PciOver IN
  CASE k = 0 -> [c EXCEPT !.ra = ~rxd]
    [] k \in 1 .. PciBits -> [c EXCEPT !.rsr = IF rxd THEN @ \cup {k - 1} ELSE @]
    [] k > PciBits /\ k <= PciBits + HasParity(c) -> [c EXCEPT !.rpar = rxd]
    [] k > PciBits + HasParity(c) -> StopBit(c, rxd)
Receive(c, rxd) ==
  IF ~c.ra THEN Hunt(c, rxd)
  ELSE LET timed == [c EXCEPT !.rt = @ + 1]
       IN  IF timed.rt % PciOver = PciOver \div 2 THEN Sample(timed, rxd) ELSE timed

\* The modem lines are looked at on every update; the generator counts on
\* BRCLK's rise while anything runs.
SawLines(c, dsr, dcd) ==
  [c EXCEPT !.dschg = @ \/ dsr # c.dsr \/ dcd # c.dcd, !.dsr = dsr, !.dcd = dcd]
Idle(c) == ~(TxOn(c) \/ RxOn(c) \/ c.ta)
Clock(c, rxd, cts) ==
  LET carrier == IF LocalLoop(c) THEN c.cr.dtr ELSE c.dcd
      sent == Transmit(c, IF LocalLoop(c) THEN c.cr.rts ELSE cts)
  IN  CASE Idle(c) -> [c EXCEPT !.div = 0]
        [] ~Idle(c) /\ c.div + 1 < PciDivisor -> [c EXCEPT !.div = @ + 1]
        [] ~Idle(c) /\ c.div + 1 >= PciDivisor ->
             LET now == [sent EXCEPT !.div = 0]
             IN  IF RxOn(c) /\ carrier THEN Receive(now, IF LocalLoop(c) THEN TxLevel(sent) ELSE rxd) ELSE now

-----------------------------------------------------------------------------
(* The cable, and the software at its ends.                                    *)

\* An access at one end, and what both ends then see of the lines.
Settled(ends) ==
  [e \in 1 .. 2 |-> LET far == ends[3 - e] IN SawLines(ends[e], DtrPin(far), DtrPin(far))]
At(e, c) == chip' = Settled([chip EXCEPT ![e] = c])
Receiving == IF LocalLoop(chip[1]) THEN 1 ELSE 2

PciInit ==
  /\ \E ptr \in 0 .. 1 : chip = [e \in 1 .. 2 |-> [PciReset(FALSE, FALSE) EXCEPT !.ptr = ptr]]
  /\ pciSent = <<>> /\ pciGot = <<>> /\ pciLost = 0 /\ pciTurns = 0

Others == <<pciSent, pciGot, pciLost, pciTurns>>
\* The software's way of programming a chip: a read of the command register to
\* start the mode registers over, the two of them, and the command.
PciProgram ==
  /\ \A e \in 1 .. 2 : chip[e].mr1 = "reset"
  /\ \E p \in PciParities, local \in BOOLEAN :
       LET modes(c) == WriteMode(WriteMode(ReadCommand(c), p), "internal")
           on(c, tx, loop) == WriteCommand(modes(c), [c.cr EXCEPT !.tx = tx, !.rx = ~tx, !.dtr = TRUE, !.rts = TRUE,
                                                                  !.mode = IF loop THEN "local" ELSE "normal"], FALSE)
       IN  chip' = Settled(<<on(chip[1], TRUE, local), on(chip[2], FALSE, FALSE)>>)
  /\ UNCHANGED Others
PciSend ==
  /\ Status(chip[1]).tx /\ Len(pciSent) < PciSends
  /\ \E d \in Characters : At(1, WriteThr(chip[1], d)) /\ pciSent' = Append(pciSent, d)
  /\ UNCHANGED <<pciGot, pciLost, pciTurns>>
PciRead ==
  /\ Status(chip[Receiving]).rx
  /\ pciGot' = Append(pciGot, chip[Receiving].rhr)
  /\ At(Receiving, ReadRhr(chip[Receiving]))
  /\ UNCHANGED <<pciSent, pciLost, pciTurns>>
PciLook ==
  /\ \E e \in 1 .. 2 : chip[e].dschg /\ At(e, ReadStatus(chip[e]))
  /\ UNCHANGED Others
\* The sender is turned off or on, or the receiver holds it off by its lines.
PciTurn ==
  /\ chip[1].mr1 # "reset" /\ pciTurns < PciTurns
  /\ \/ At(1, WriteCommand(chip[1], [chip[1].cr EXCEPT !.tx = ~@], FALSE))
     \/ At(2, WriteCommand(chip[2], [chip[2].cr EXCEPT !.rts = ~@], FALSE))
  /\ pciTurns' = pciTurns + 1
  /\ UNCHANGED <<pciSent, pciGot, pciLost>>
PciTick ==
  /\ \E e \in 1 .. 2 : ~Idle(chip[e])
  /\ LET levels == [e \in 1 .. 2 |-> TxdPin(chip[e], TRUE)]
         ticked == [e \in 1 .. 2 |-> Clock(chip[e], levels[3 - e], RtsPin(chip[3 - e]))]
         r == Receiving
     IN  /\ chip' = Settled(ticked)
         /\ pciLost' = IF chip[r].ready /\ ticked[r].ra # chip[r].ra /\ chip[r].ra /\ ~ticked[r].ra
                          /\ chip[r].rt > PciOver THEN pciLost + 1 ELSE pciLost
  /\ UNCHANGED <<pciSent, pciGot, pciTurns>>

PciNext == PciProgram \/ PciSend \/ PciRead \/ PciLook \/ PciTurn \/ PciTick

-----------------------------------------------------------------------------
(* Properties.                                                                 *)

\* What is read is what was sent, in order, when nothing was overrun: a sender
\* turned off finishes the character it is sending and keeps the one it holds.
CharactersArrive ==
  LET r == chip[Receiving]
      seen == IF r.ready THEN Append(pciGot, r.rhr) ELSE pciGot
  IN  pciLost = 0 => IsPrefix(seen, pciSent)

\* No character is lost without the overrun flag, or found in error that was not.
ErrorsAreReal ==
  LET r == chip[Receiving] IN
  /\ (pciLost > 0) = r.overrun
  /\ ~r.parity /\ ~r.framing

\* Every character given to the sender is held, on its way, or at the receiver.
NoneMissing ==
  LET s == chip[1]
      r == chip[Receiving]
      coming == s.ta \/ r.ra
  IN  Len(pciSent) <= Len(pciGot) + pciLost + (IF r.ready THEN 1 ELSE 0) + (IF s.full THEN 1 ELSE 0)
                        + (IF coming THEN 1 ELSE 0)

\* The transmitter says it ran out only when it did.
EmptyIsEmpty == \A e \in 1 .. 2 : chip[e].empty => ~chip[e].ta /\ ~chip[e].full

\* The characters given to the 2651 of one end reach the software at the other,
\* once and in order, through a sender turned off and on, a receiver that holds
\* it off and the local loop back; what is lost is told.
CharactersKept == CharactersArrive /\ ErrorsAreReal /\ NoneMissing /\ EmptyIsEmpty
=============================================================================

------------------------------ MODULE Microcode ------------------------------
(* What the two engines share: control store addresses, the words of the SPC *)
(* stack, the location counter, and the microinstruction as the sequencing   *)
(* hardware (pages CONTRL, SPC, LC and LCC) sees it.  The ALU, the memories   *)
(* and the bus are data here: an instruction carries the outcome they have,   *)
(* a jump condition, a dispatch entry, a word for the output bus.             *)
EXTENDS Integers

CONSTANTS
  Addrs,      \* control store words, 2^14 on the machine
  Depth,      \* SPC stack words, 2^5
  LcSize      \* values of the location counter, 2^26, four bytes to a word

ASSUME AddrsAssumption == Addrs \in Nat /\ Addrs > 0 /\ Addrs % 4 = 0
ASSUME DepthAssumption == Depth \in Nat /\ Depth > 1
ASSUME LcAssumption == LcSize \in Nat /\ LcSize > 0 /\ LcSize % 4 = 0

Addr == 0 .. Addrs - 1
Slot == 0 .. Depth - 1
Count == 0 .. LcSize - 1

Succ(a) == IF a = Addrs - 1 THEN 0 ELSE a + 1
Pred(a) == IF a = 0 THEN Addrs - 1 ELSE a - 1
Up(p) == IF p = Depth - 1 THEN 0 ELSE p + 1
Down(p) == IF p = 0 THEN Depth - 1 ELSE p - 1

\* A stack word: the address in <13:0> and the instruction-stream bit <14>.
Word == [pc : Addr, f : BOOLEAN]
Plain(a) == [pc |-> a, f |-> FALSE]

\* Where a pop of w goes: SPCMUNG forces bit 1 of the address when bit 14 is
\* up and no fetch is needed, which skips the main loop's fetch.
Bit1(a) == IF a % 4 < 2 THEN a + 2 ELSE a
ReturnTo(w, needfetch) == IF w.f /\ ~needfetch THEN Bit1(w.pc) ELSE w.pc

\* LAST BYTE IN WORD, and the step of the counter.
LastByte(c, byte) == c % 4 = 0 \/ (c % 4 = 1 /\ ~byte)
Stepped(c, byte) == (c + (IF byte THEN 1 ELSE 2)) % LcSize
Halfword(c) == c - (c % 2)

Sources == {"m", "dc", "spc", "pop", "lc", "md"}
Dests == {"m", "spc", "lc", "intctl"}

\* A microinstruction.  R, P, N and target are the jump's own fields or the
\* dispatch entry's; cond is JCOND; wr a dispatch memory write (misc 2), whose
\* entry is the word written; lpc is IR<25> and adv IR<24> of a dispatch;
\* cst is IR<41:32>; word, cnt and byte what an ALU or BYTE instruction puts
\* on the output bus for the destination it names.
Instr == [op : {"alu", "jump", "dispatch"}, popj : BOOLEAN, src : Sources,
          dest : Dests, R : BOOLEAN, P : BOOLEAN, N : BOOLEAN, inv : BOOLEAN,
          cond : BOOLEAN, target : Addr, wr : BOOLEAN, lpc : BOOLEAN,
          adv : BOOLEAN, cst : Count, word : Word, cnt : Count, byte : BOOLEAN]

\* What the M bus carries to an instruction, for the sources the two engines
\* keep in registers of their own.
BusOf(s, at, w, up) == [src |-> s, at |-> at, word |-> w, up |-> up]
===============================================================================

------------------------------ MODULE RtlEngine -------------------------------
(* The sequencing half of the `rtl` engine (src/rtl.rs): the registers of     *)
(* pages CONTRL, SPC, SPCW, LC and LCC, the nets the read phase computes from  *)
(* them and from IR, the write phase's stack write and the clock edge.         *)
EXTENDS Microcode

VARIABLES
  pc, lpc,       \* PC, and LPC: the address of the instruction in IR
  inop,          \* INOP, the registered N
  iwrited,       \* IWRITED, a control store write in the microcycle before
  bootTrap,      \* BOOT.TRAP
  rspc, rptr,    \* the SPC stack and SPCPTR
  spushd,        \* SPUSHD, a push in the microcycle before
  destspcd,      \* DESTSPCD: that push was of L and not of RETA
  l, reta,       \* L as far as the stack takes it, and RETA
  rlc, rbyte,    \* LC<25:0>, LC BYTE MODE
  newlc,         \* NEWLC
  rnextInstrd,   \* NEXT.INSTRD
  rdc, rvma,     \* the dispatch constant; VMA of the last instruction fetch
  pulsed         \* the write pulse has run in a hung microcycle

rtlVars == <<pc, lpc, inop, iwrited, bootTrap, rspc, rptr, spushd, destspcd, l,
             reta, rlc, rbyte, newlc, rnextInstrd, rdc, rvma, pulsed>>

RtlInit ==
  /\ pc = 0 /\ lpc = 0 /\ inop = FALSE /\ iwrited = FALSE /\ bootTrap = TRUE
  /\ rspc = [p \in Slot |-> Plain(0)] /\ rptr = 0
  /\ spushd = FALSE /\ destspcd = FALSE /\ l = Plain(0) /\ reta = 0
  /\ rlc = 0 /\ rbyte = FALSE /\ newlc = FALSE /\ rnextInstrd = FALSE
  /\ rdc = 0 /\ rvma = 0 /\ pulsed = FALSE

-------------------------------------------------------------------------------
(* The read phase: nets, named as in the code.  An instruction nopped decodes  *)
(* to none of the classes.                                                     *)
nop == inop \/ bootTrap

irjump(i) == ~nop /\ i.op = "jump"
irdisp(i) == ~nop /\ i.op = "dispatch"
dest(i, d) == ~nop /\ i.op = "alu" /\ i.dest = d
destlc(i) == dest(i, "lc")
destspc(i) == dest(i, "spc")
destintctl(i) == dest(i, "intctl")

haveWrongWord(i) == newlc \/ destlc(i)
needfetch(i) == haveWrongWord(i) \/ LastByte(rlc, rbyte)

\* Mutant: the counter's armed step waits out a nopped microcycle.
lcincNopped(i) == ~nop /\ (rnextInstrd \/ (irdisp(i) /\ i.adv))
lcinc(i) == rnextInstrd \/ (irdisp(i) /\ i.adv)

\* The SPC bus takes the word about to be written; the M bus does not.
spcw == IF destspcd THEN l ELSE Plain(reta)
spcBus == IF spushd THEN spcw ELSE rspc[rptr]

dispenb(i) == irdisp(i) /\ ~i.wr
ignpopj(i) == irdisp(i) /\ ~i.R
taken(i) == irjump(i) /\ i.cond # i.inv
iwrite(i) == irjump(i) /\ i.P /\ i.R
popj(i) == (i.popj /\ ~nop) \/ iwrited
srcspcpopreal(i) == i.src = "pop" /\ ~nop
jreturn(i) == taken(i) /\ i.R /\ ~i.P

spop(i) == \/ (srcspcpopreal(i) \/ popj(i)) /\ ~ignpopj(i)
           \/ dispenb(i) /\ i.R /\ ~i.P
           \/ jreturn(i)
spush(i) == \/ destspc(i)
            \/ dispenb(i) /\ i.P /\ ~i.R
            \/ taken(i) /\ i.P
nextInstr(i) == spop(i) /\ ~srcspcpopreal(i) /\ spcBus.f

\* N, and the next-address select.
n(i) == bootTrap \/ iwrited \/ (dispenb(i) /\ i.N) \/ (taken(i) /\ i.N)
pcs1(i) == ~ \/ popj(i) /\ ~ignpopj(i)
             \/ taken(i)
             \/ dispenb(i) /\ i.R /\ ~i.P
pcs0(i) == ~ \/ popj(i)
             \/ dispenb(i) /\ ~(i.R /\ i.P)
             \/ jreturn(i)
wpc(i) == IF irdisp(i) /\ i.lpc THEN lpc ELSE pc
NPC(i) ==
  CASE bootTrap               -> 0
    [] ~bootTrap /\ ~pcs1(i) /\ ~pcs0(i) -> ReturnTo(spcBus, needfetch(i))
    [] ~bootTrap /\ ~pcs1(i) /\ pcs0(i)  -> i.target
    [] ~bootTrap /\ pcs1(i) /\ ~pcs0(i)  -> i.target
    [] ~bootTrap /\ pcs1(i) /\ pcs0(i)   -> Succ(pc)

\* The M bus.
MF(i) ==
  CASE i.src \in {"spc", "pop"} -> BusOf(i.src, rptr, rspc[rptr], FALSE)
    [] i.src = "lc" -> BusOf("lc", IF rbyte THEN rlc ELSE Halfword(rlc), Plain(0), needfetch(i))
    [] i.src = "dc" -> BusOf("dc", rdc, Plain(0), FALSE)
    [] OTHER        -> BusOf(i.src, 0, Plain(0), FALSE)

-------------------------------------------------------------------------------
\* write_phase: the stack written from SPCW at the pointer as it stands.
WritePhase == IF spushd THEN [rspc EXCEPT ![rptr] = spcw] ELSE rspc

\* clock_edge, with i the instruction in IR.
ClockEdge(i) ==
  /\ pc' = NPC(i) /\ lpc' = pc
  /\ inop' = n(i) /\ iwrited' = iwrite(i)
  /\ rptr' = IF spush(i) THEN Up(rptr) ELSE IF spop(i) THEN Down(rptr) ELSE rptr
  /\ spushd' = spush(i) /\ destspcd' = destspc(i)
  /\ l' = i.word /\ reta' = IF n(i) THEN wpc(i) ELSE Succ(pc)
  /\ rlc' = IF destlc(i) THEN i.cnt ELSE IF lcinc(i) THEN Stepped(rlc, rbyte) ELSE rlc
  /\ rbyte' = IF destintctl(i) THEN i.byte ELSE rbyte
  /\ newlc' = (haveWrongWord(i) /\ ~lcinc(i))
  /\ rnextInstrd' = nextInstr(i)
  /\ rdc' = IF irdisp(i) THEN i.cst ELSE rdc
  /\ rvma' = IF needfetch(i) /\ lcinc(i) THEN rlc \div 4 ELSE rvma

\* One microcycle, the boot trap clocked away with it.  A hung one has had
\* its write pulse, and only an instruction that reads MD hangs.
Microcycle(i) ==
  /\ pulsed => i.src = "md"
  /\ ClockEdge(i)
  /\ bootTrap' = FALSE /\ pulsed' = FALSE
  /\ rspc' = IF pulsed THEN rspc ELSE WritePhase

RtlExecute(i) == ~nop /\ Microcycle(i)
RtlInhibited(i) == nop /\ Microcycle(i)

\* -HANG holds the microcycle's end off and not its write pulse.
Hang ==
  /\ ~nop /\ ~pulsed
  /\ rspc' = WritePhase /\ pulsed' = TRUE
  /\ UNCHANGED <<pc, lpc, inop, iwrited, bootTrap, rptr, spushd, destspcd, l, reta,
                 rlc, rbyte, newlc, rnextInstrd, rdc, rvma>>

RtlTypeOK ==
  /\ pc \in Addr /\ lpc \in Addr /\ reta \in Addr
  /\ {inop, iwrited, bootTrap, spushd, destspcd, rbyte, newlc, rnextInstrd, pulsed}
       \subseteq BOOLEAN
  /\ rspc \in [Slot -> Word] /\ rptr \in Slot /\ l \in Word
  /\ rlc \in Count /\ rdc \in Count /\ rvma \in Count
===============================================================================

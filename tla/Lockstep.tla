------------------------------- MODULE Lockstep -------------------------------
(* `micro` against `rtl`, microinstruction by microinstruction, as             *)
(* tests/cosim.rs runs them: both are booted, both execute the same            *)
(* instructions, and what is compared is what stands when both are about to    *)
(* execute one.  Nopped microcycles run where each engine has them; `rtl`      *)
(* spends one more on the boot and two on a control store write, where `micro` *)
(* only charges its clock.  The control store is the environment's: any        *)
(* instruction of its kind of microcode may be next, subject to the Rules the  *)
(* microcode keeps.                                                            *)
EXTENDS MicroEngine, RtlEngine

CONSTANTS
  Codes,      \* kinds of microcode: the instructions the control store may give
  Rules       \* the names of the rules the microcode keeps

ASSUME CodeAssumption == Codes # {} /\ \A c \in Codes : c \subseteq Instr /\ c # {}

VARIABLES
  code,       \* the kind of microcode in the control store
  lcSet       \* history: the location counter has been written

vars == <<microVars, rtlVars, code, lcSet>>

Rule(r, holds) == r \in Rules => holds

(* The rules outside which the two engines part.                               *)
\* A control store write is a taken call without POPJ, and the instruction in
\* its slot leaves the stack and the next address alone.
IMemIsACall(i) ==
  /\ i.op = "jump" /\ i.P /\ i.R => i.cond /\ ~i.inv /\ ~i.popj
  /\ iwrited => i.op = "alu" /\ ~i.popj /\ i.src \notin {"spc", "pop"} /\ i.dest # "spc"
Writes(i, d) == i.op = "alu" /\ i.dest = d
\* The microcycle a return armed to step the counter holds no dispatch that
\* steps it too, and writes neither the counter nor its mode.
OneStep(i) == nextInstrd => ~(i.op = "dispatch" /\ i.adv)
WriteApart(i) == nextInstrd => ~Writes(i, "lc") /\ ~Writes(i, "intctl")
\* A dispatch that steps the counter does not return.
AdvanceReturnsNot(i) == i.op = "dispatch" /\ i.adv => ~i.R
\* An instruction that writes the counter does not read it.
LcReadApart(i) == Writes(i, "lc") => i.src # "lc"
\* Byte mode changes at a halfword.
ModeAtHalfword(i) == Writes(i, "intctl") /\ i.byte # byteMode => rlc % 2 = 0
\* A dispatch with IR<25> is not in a jump's slot.
LpcInLine(i) == i.op = "dispatch" /\ i.lpc => npc = Succ(p1pc)
\* A dispatch memory write names neither the counter nor a new constant.
WriteIsQuiet(i) == i.op = "dispatch" /\ i.wr => ~i.adv /\ i.cst = dc
\* The stream is used only after the counter has been written once.
LcFirst(i) ==
  ~lcSet => ~ \/ Writes(i, "spc") /\ i.word.f
              \/ i.src = "lc"
              \/ i.op = "dispatch" /\ i.adv

AllRules ==
  {"imem", "onestep", "lcwrite", "advance", "lcread", "mode", "lpc", "dwrite", "lcfirst"}

Disciplined(i) ==
  /\ Rule("imem", IMemIsACall(i))
  /\ Rule("onestep", OneStep(i))
  /\ Rule("lcwrite", WriteApart(i))
  /\ Rule("advance", AdvanceReturnsNot(i))
  /\ Rule("lcread", LcReadApart(i))
  /\ Rule("mode", ModeAtHalfword(i))
  /\ Rule("lpc", LpcInLine(i))
  /\ Rule("dwrite", WriteIsQuiet(i))
  /\ Rule("lcfirst", LcFirst(i))

-------------------------------------------------------------------------------
Init == MicroInit /\ RtlInit /\ code \in Codes /\ lcSet = FALSE

\* Both execute the instruction.
Execute(i) ==
  /\ ~inhibit /\ ~nop /\ Disciplined(i)
  /\ RtlExecute(i) /\ MicroExecute(i)
  /\ lcSet' = (lcSet \/ Writes(i, "lc"))

\* A microcycle inhibited on both: a jump's N, and the boot.
Inhibited(i) == MicroInhibited /\ RtlInhibited(i) /\ UNCHANGED lcSet

\* A nopped microcycle `micro` does not spend.
CatchUp(i) == ~inhibit /\ RtlInhibited(i) /\ UNCHANGED <<microVars, lcSet>>

\* `rtl` hung on a read of MD.
HangOne == ~inhibit /\ Hang /\ UNCHANGED <<microVars, lcSet>>

Next ==
  /\ UNCHANGED code
  /\ \/ \E i \in code : Execute(i) \/ Inhibited(i) \/ CatchUp(i)
     \/ HangOne

Spec == Init /\ [][Next]_vars

-------------------------------------------------------------------------------
TypeOK == MicroTypeOK /\ RtlTypeOK /\ lcSet \in BOOLEAN

\* Both are about to execute an instruction; and not in the slot after a
\* control store write, where `rtl` has pushed and `micro` has popped already.
Executing == ~inhibit /\ ~nop
Ready == Executing /\ ~iwrited

\* The two execute the same instruction, and have fetched the same one behind
\* it: micro's jump, dispatch and popj against rtl's next-address select.
SameInstruction ==
  /\ Executing => p1pc = lpc
  /\ Ready => npc = pc

\* The instruction reads the same SPC word, location counter and dispatch
\* constant on both, the word that was there before the push right behind it.
SameRead ==
  Executing => \A i \in code : MBus(i) = MF(i) \/ ~Disciplined(i) \/ (pulsed /\ i.src # "md")

\* The same stack and pointer, with the push still to be written: micro's
\* spc_write against rtl's SPUSHD and SPCW.
SameStack == Ready => spcptr = rptr /\ Landed = WritePhase

\* The same location counter, need of a fetch, armed step and fetch address:
\* micro's LC<31> and its order of steps against rtl's gates and registers.
SameStream ==
  /\ lc = (IF rbyte THEN rlc ELSE Halfword(rlc)) /\ byteMode = rbyte
  /\ lcSet => need = (newlc \/ LastByte(rlc, rbyte))
  /\ nextInstrd = rnextInstrd /\ vma = rvma
===============================================================================

----------------------------- MODULE MicroEngine ------------------------------
(* The sequencing half of the `micro` engine (src/micro.rs): one step per     *)
(* microinstruction, the SPC stack, the location counter and the fetch a      *)
(* return arms.  A step works on a copy `e` of the registers an instruction   *)
(* moves, in the order the code does, and writes them back at its end.        *)
EXTENDS Microcode

VARIABLES
  p1pc,         \* address of the instruction already fetched
  npc,          \* address fetched next
  inhibit,      \* the instruction fetched is to be nopped
  nextInstrd,   \* a return armed a step of the location counter
  spc, spcptr,  \* the SPC stack and its pointer
  spcWrite,     \* the push waiting for the next write phase
  lc, need,     \* the location counter, and NEEDFETCH kept as LC<31>
  byteMode,     \* INTERRUPT-CONTROL<29>
  dc,           \* the dispatch constant
  vma           \* word address of the last instruction fetch

microVars == <<p1pc, npc, inhibit, nextInstrd, spc, spcptr, spcWrite, lc, need,
               byteMode, dc, vma>>

NoWrite == [on |-> FALSE, ptr |-> 0, word |-> Plain(0)]
Write(p, w) == [on |-> TRUE, ptr |-> p, word |-> w]

MicroInit ==
  /\ p1pc = 0 /\ npc = 0 /\ inhibit = TRUE          \* the boot's trap
  /\ nextInstrd = FALSE
  /\ spc = [p \in Slot |-> Plain(0)] /\ spcptr = 0 /\ spcWrite = NoWrite
  /\ lc = 0 /\ need = FALSE /\ byteMode = FALSE
  /\ dc = 0 /\ vma = 0

\* land_writes: the stack after this microcycle's write phase.
Landed == IF spcWrite.on THEN [spc EXCEPT ![spcWrite.ptr] = spcWrite.word] ELSE spc

-------------------------------------------------------------------------------
(* The registers a step moves, as advance_pipeline and read_functional leave  *)
(* them: source 14 has popped already.                                        *)
Entered(i) ==
  [npc |-> Succ(npc), inhibit |-> FALSE, popj |-> i.popj, nextInstr |-> FALSE,
   ptr |-> IF i.src = "pop" THEN Down(spcptr) ELSE spcptr,
   pushed |-> FALSE, popped |-> i.src = "pop", write |-> NoWrite,
   lc |-> lc, need |-> need, byte |-> byteMode, dc |-> dc, vma |-> vma]

\* Mutant: the pop source's count is not taken back.
PushFromPopped(e, w) ==
  [e EXCEPT !.pushed = TRUE, !.ptr = Up(e.ptr), !.write = Write(Up(e.ptr), w)]

\* push_spc: the pointer counts once a microcycle, up when there is a push.
PushSpc(e, w) ==
  LET p == Up(IF e.popped THEN Up(e.ptr) ELSE e.ptr)
  IN  [e EXCEPT !.pushed = TRUE, !.ptr = p, !.write = Write(p, w)]

\* Mutant: a pop takes the word pushed in its own microinstruction.
SpcTopNew(e) ==
  IF e.write.on THEN e.write.word
  ELSE IF e.popped THEN Landed[Up(e.ptr)] ELSE Landed[e.ptr]

\* pop_spc: the word it gives ...
SpcTop(e) ==
  IF e.pushed THEN Landed[Down(e.ptr)]
  ELSE IF e.popped THEN Landed[Up(e.ptr)]
  ELSE IF e.write.on /\ e.write.ptr = e.ptr THEN e.write.word
  ELSE Landed[e.ptr]

\* ... and what it leaves.
PopSpc(e) ==
  [e EXCEPT !.popped = TRUE,
            !.ptr = IF e.pushed \/ e.popped THEN e.ptr ELSE Down(e.ptr)]

\* Mutant: SPCMUNG whether a fetch is needed or not.
\* A pop for the next address, pop_asks_for_a_fetch with it.
Return(e, i) ==
  [PopSpc(e) EXCEPT !.npc = ReturnTo(SpcTop(e), e.need),
                    !.nextInstr = e.nextInstr \/ (SpcTop(e).f /\ i.src # "pop")]

\* Mutant: the fetch does not clear LC<31>.
StepLc(e) ==
  LET c == Stepped(e.lc, e.byte)
  IN  [e EXCEPT !.lc = c, !.need = LastByte(c, e.byte),
                !.vma = IF e.need THEN e.lc \div 4 ELSE e.vma]

\* write_functional, for the destinations kept here.
Alu(e, i) ==
  CASE i.dest = "spc"    -> PushSpc(e, i.word)
    [] i.dest = "lc"     -> [e EXCEPT !.need = TRUE,
                               !.lc = IF e.byte THEN i.cnt ELSE Halfword(i.cnt)]
    [] i.dest = "intctl" -> [e EXCEPT !.byte = i.byte]
    [] OTHER             -> e

\* The address a call saves.
Saved(e, i) == Plain(IF i.N THEN Pred(e.npc) ELSE e.npc)

\* P and R together write the control store: a push and, for the next
\* microcycle, its pop.
WriteIMem(e, i) ==
  IF i.cond /\ ~i.inv
  THEN PopSpc([PushSpc(e, Saved(e, i)) EXCEPT !.pushed = FALSE, !.popped = FALSE])
  ELSE e

Jump(e, i) ==
  IF i.P /\ i.R THEN WriteIMem(e, i)
  ELSE IF i.cond = i.inv THEN e
  ELSE LET g == [e EXCEPT !.inhibit = i.N]
       IN  IF i.R THEN [Return(g, i) EXCEPT !.popj = FALSE]
           ELSE [(IF i.P THEN PushSpc(g, Saved(e, i)) ELSE g) EXCEPT !.npc = i.target]

\* A dispatch entry without R gives back the pop source 14 took.
IgnPopj(e, i) ==
  IF ~i.R /\ e.popped THEN [e EXCEPT !.ptr = Up(e.ptr), !.popped = FALSE] ELSE e

WriteDMem(e, i) ==
  IF e.popj /\ ~i.R
  THEN [IgnPopj(e, i) EXCEPT !.npc = i.target, !.popj = FALSE]
  ELSE IgnPopj(e, i)

\* With IR<25> a call that inhibits saves the address one further back.
SavedByDispatch(e, i) ==
  Plain(IF ~i.N THEN e.npc ELSE IF i.lpc THEN Pred(Pred(e.npc)) ELSE Pred(e.npc))

Dispatch(e, i) ==
  IF i.wr THEN WriteDMem(e, i)
  ELSE LET f == [IgnPopj(e, i) EXCEPT !.dc = i.cst, !.inhibit = i.N]
           g == IF i.adv THEN StepLc(f) ELSE f
       IN  IF i.P /\ i.R THEN g
           ELSE IF i.R THEN [Return(g, i) EXCEPT !.popj = FALSE]
           ELSE [(IF i.P THEN PushSpc(g, SavedByDispatch(e, i)) ELSE g)
                   EXCEPT !.npc = i.target, !.popj = FALSE]

Performed(i) ==
  LET e == Entered(i)
      f == CASE i.op = "alu"      -> Alu(e, i)
             [] i.op = "jump"     -> Jump(e, i)
             [] i.op = "dispatch" -> Dispatch(e, i)
  IN  IF f.popj THEN Return(f, i) ELSE f

\* fetch_and_clock: the step of the counter the microcycle before armed.
Clocked(e) == IF nextInstrd THEN StepLc(e) ELSE e

\* Mutant: the M bus takes the word about to be written.
MBusPassed(i) ==
  CASE i.src \in {"spc", "pop"} -> BusOf(i.src, spcptr, Landed[spcptr], FALSE)
    [] i.src = "lc" -> BusOf("lc", IF byteMode THEN lc ELSE Halfword(lc), Plain(0), need)
    [] i.src = "dc" -> BusOf("dc", dc, Plain(0), FALSE)
    [] OTHER        -> BusOf(i.src, 0, Plain(0), FALSE)

\* read_functional: the M bus as the instruction reads it, before the write
\* phase lands anything.
MBus(i) ==
  CASE i.src \in {"spc", "pop"} -> BusOf(i.src, spcptr, spc[spcptr], FALSE)
    [] i.src = "lc" -> BusOf("lc", IF byteMode THEN lc ELSE Halfword(lc), Plain(0), need)
    [] i.src = "dc" -> BusOf("dc", dc, Plain(0), FALSE)
    [] OTHER        -> BusOf(i.src, 0, Plain(0), FALSE)

\* One step that executes the instruction fetched, the one at p1pc.
MicroExecute(i) ==
  LET e == Clocked(Performed(i))
  IN  /\ ~inhibit
      /\ p1pc' = npc /\ npc' = e.npc /\ inhibit' = e.inhibit
      /\ nextInstrd' = e.nextInstr
      /\ spc' = Landed /\ spcptr' = e.ptr /\ spcWrite' = e.write
      /\ lc' = e.lc /\ need' = e.need /\ byteMode' = e.byte
      /\ dc' = e.dc /\ vma' = e.vma

\* One step that is nopped: the pipeline moves, the writes land and an armed
\* fetch still happens.
MicroInhibited ==
  LET c == Stepped(lc, byteMode)
  IN  /\ inhibit
      /\ p1pc' = npc /\ npc' = Succ(npc) /\ inhibit' = FALSE
      /\ nextInstrd' = FALSE
      /\ spc' = Landed /\ spcWrite' = NoWrite
      /\ lc' = IF nextInstrd THEN c ELSE lc
      /\ need' = IF nextInstrd THEN LastByte(c, byteMode) ELSE need
      /\ vma' = IF nextInstrd /\ need THEN lc \div 4 ELSE vma
      /\ UNCHANGED <<spcptr, byteMode, dc>>

MicroTypeOK ==
  /\ p1pc \in Addr /\ npc \in Addr /\ inhibit \in BOOLEAN /\ nextInstrd \in BOOLEAN
  /\ spc \in [Slot -> Word] /\ spcptr \in Slot
  /\ spcWrite \in [on : BOOLEAN, ptr : Slot, word : Word]
  /\ lc \in Count /\ need \in BOOLEAN /\ byteMode \in BOOLEAN
  /\ dc \in Count /\ vma \in Count
===============================================================================

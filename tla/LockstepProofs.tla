--------------------------- MODULE LockstepProofs ----------------------------
(* That `micro` and `rtl` agree, for every size of control store, stack and   *)
(* location counter and every microcode that keeps the rules: what            *)
(* tests/cosim.rs compares instruction by instruction holds of them all.      *)
(*                                                                            *)
(* The invariant, LockInv, says how far each engine is at every microcycle:   *)
(* in line with the other, nopping with it, a control store write ahead of    *)
(* it, or with rtl a nopped microcycle behind.  What an instruction does on   *)
(* micro is put together from what each call it makes does to the registers   *)
(* of a step (PushIs, ReturnIs, DispatchIs, ...), and is then matched with    *)
(* the nets of rtl (MatchAlu, MatchJump, MatchDispatch, MatchWrite).          *)
EXTENDS Lockstep, TLAPS

(* The invariant. *)

\* The stacks are the same once both have written what they have pushed, and a
\* microcycle that hangs has written it.
Stacks ==
  /\ Landed = WritePhase
  /\ pulsed => ~nop /\ rspc = WritePhase

\* Before the counter is written no word of the stack has the stream's bit.
Unset == ~lcSet => ~nextInstrd /\ \A p \in Slot : ~Landed[p].f

\* Both are at the boot's trap.
Booting ==
  bootTrap => /\ inhibit /\ ~inop /\ ~iwrited /\ ~nextInstrd
              /\ p1pc = 0 /\ npc = 0 /\ pc = 0 /\ lpc = 0
              /\ spcptr = rptr

\* A jump's N: both nop the instruction fetched.
Nopping ==
  ~bootTrap /\ inhibit =>
    inop /\ ~iwrited /\ p1pc = lpc /\ npc = pc /\ spcptr = rptr

\* In line: the word a read of the stack takes is the one before the push
\* behind it on both.
Aligned ==
  Ready => /\ p1pc = lpc /\ npc = pc /\ spcptr = rptr
           /\ ~pulsed => spc[spcptr] = rspc[rptr]

\* rtl has a nopped microcycle to go; micro has fetched past it.
Behind ==
  ~inhibit /\ inop /\ ~iwrited =>
    /\ pc = p1pc /\ npc = Succ(p1pc) /\ spcptr = rptr /\ ~nextInstrd
    /\ spcWrite.on => spcWrite.ptr # spcptr

\* A control store write: rtl has pushed and is to pop, micro has done both.
Writing ==
  iwrited => /\ ~inhibit /\ ~bootTrap /\ ~nextInstrd
             /\ spushd /\ ~destspcd /\ rptr = Up(spcptr)
             /\ spcWrite.on /\ spcWrite.ptr = rptr
             /\ npc = Succ(p1pc) /\ reta = (IF inop THEN p1pc ELSE npc)
             /\ ~inop => p1pc = lpc

LockInv ==
  /\ TypeOK /\ code \in Codes /\ SameStream /\ dc = rdc
  /\ Stacks /\ Unset /\ Booting /\ Nopping /\ Aligned /\ Behind /\ Writing
-------------------------------------------------------------------------------
(* Addresses, pointers and the registers of a step. *)

LEMMA Pointers ==
  \A p \in Slot : /\ Up(p) \in Slot /\ Down(p) \in Slot
                  /\ Up(Down(p)) = p /\ Down(Up(p)) = p /\ Up(p) # p
  BY DepthAssumption DEF Slot, Up, Down

LEMMA Addresses ==
  /\ 0 \in Addr
  /\ \A a \in Addr : /\ Succ(a) \in Addr /\ Pred(a) \in Addr /\ Bit1(a) \in Addr
                     /\ Pred(Succ(a)) = a
  BY AddrsAssumption DEF Addr, Succ, Pred, Bit1

LEMMA Returns == \A w \in Word, b \in BOOLEAN : ReturnTo(w, b) \in Addr
  BY Addresses DEF Word, ReturnTo

\* The registers of a step, and what two of them have in common.
Pending == [on : BOOLEAN, ptr : Slot, word : Word]
Regs == [npc : Addr, inhibit : BOOLEAN, popj : BOOLEAN, nextInstr : BOOLEAN,
         ptr : Slot, pushed : BOOLEAN, popped : BOOLEAN, write : Pending,
         lc : Count, need : BOOLEAN, byte : BOOLEAN, dc : Count, vma : Count]

SameFlow(r, e) ==
  r.npc = e.npc /\ (r.inhibit <=> e.inhibit) /\ (r.popj <=> e.popj) /\ (r.nextInstr <=> e.nextInstr)
SameSpc(r, e) ==
  r.ptr = e.ptr /\ (r.pushed <=> e.pushed) /\ (r.popped <=> e.popped) /\ r.write = e.write
SameLc(r, e) ==
  r.lc = e.lc /\ r.need = e.need /\ r.byte = e.byte /\ r.vma = e.vma

\* The stack pointer counts once a microcycle, up when there is a push.
Once(e) ==
  /\ e.ptr = IF e.pushed THEN Up(spcptr) ELSE IF e.popped THEN Down(spcptr) ELSE spcptr
  /\ ~e.pushed => ~e.write.on
  /\ e.pushed => e.write.on /\ e.write.ptr = Up(spcptr)

LEMMA WriteTypes ==
  /\ NoWrite \in Pending /\ ~NoWrite.on
  /\ \A p \in Slot, w \in Word : /\ Write(p, w) \in Pending /\ Write(p, w).on
                                 /\ Write(p, w).ptr = p /\ Write(p, w).word = w
  BY DepthAssumption, Addresses DEF NoWrite, Write, Pending, Plain, Word, Slot

\* What each call of a step does to its registers.
LEMMA EnteredIs ==
  ASSUME TypeOK, NEW i \in Instr
  PROVE  LET e == Entered(i)
         IN  /\ e \in Regs /\ Once(e)
             /\ e.npc = Succ(npc) /\ ~e.inhibit /\ (e.popj <=> i.popj) /\ ~e.nextInstr
             /\ ~e.pushed /\ (e.popped <=> (i.src = "pop"))
             /\ e.lc = lc /\ e.need = need /\ e.byte = byteMode /\ e.dc = dc /\ e.vma = vma
  BY Pointers, Addresses, WriteTypes DEF TypeOK, MicroTypeOK, Entered, Regs, Once, Instr

LEMMA PushIs ==
  ASSUME TypeOK, NEW e \in Regs, Once(e), ~e.pushed, NEW w \in Word
  PROVE  LET r == PushSpc(e, w)
         IN  /\ r \in Regs /\ Once(r) /\ SameFlow(r, e) /\ SameLc(r, e) /\ r.dc = e.dc
             /\ r.pushed /\ (r.popped <=> e.popped) /\ r.write = Write(Up(spcptr), w)
<1> DEFINE p == Up(spcptr)
           x == Write(p, w)
<1>1. p \in Slot /\ x \in Pending /\ x.on /\ x.ptr = p
  BY Pointers, WriteTypes DEF TypeOK, MicroTypeOK
<1>2. PushSpc(e, w) = [e EXCEPT !.pushed = TRUE, !.ptr = p, !.write = x]
  BY Pointers DEF TypeOK, MicroTypeOK, PushSpc, Once, Regs
<1> HIDE DEF x
<1>3. [e EXCEPT !.pushed = TRUE, !.ptr = p, !.write = x] \in Regs
  BY <1>1 DEF Regs
<1>4. QED
  BY <1>1, <1>2, <1>3 DEF Regs, Once, SameFlow, SameLc, x

\* However many pops and pushes a microinstruction makes, each pop takes the
\* word that was on top as it began.
LEMMA TopIs ==
  ASSUME TypeOK, NEW e \in Regs, Once(e)
  PROVE  SpcTop(e) = Landed[spcptr]
  BY Pointers DEF TypeOK, MicroTypeOK, SpcTop, Regs, Once

LEMMA PopIs ==
  ASSUME TypeOK, NEW e \in Regs, Once(e)
  PROVE  LET r == PopSpc(e)
         IN  /\ r \in Regs /\ Once(r) /\ SameFlow(r, e) /\ SameLc(r, e) /\ r.dc = e.dc
             /\ (r.pushed <=> e.pushed) /\ r.popped /\ r.write = e.write
  BY Pointers DEF TypeOK, MicroTypeOK, PopSpc, Regs, Once, SameFlow, SameLc

LEMMA LandedType == TypeOK => Landed \in [Slot -> Word]
  BY DEF TypeOK, MicroTypeOK, Landed

LEMMA ReturnIs ==
  ASSUME TypeOK, NEW i \in Instr, NEW e \in Regs, Once(e)
  PROVE  LET r == Return(e, i)
         IN  /\ r \in Regs /\ Once(r) /\ SameLc(r, e) /\ r.dc = e.dc
             /\ (r.pushed <=> e.pushed) /\ r.popped /\ r.write = e.write
             /\ (r.inhibit <=> e.inhibit) /\ (r.popj <=> e.popj)
             /\ r.npc = ReturnTo(Landed[spcptr], e.need)
             /\ (r.nextInstr <=> (e.nextInstr \/ (Landed[spcptr].f /\ i.src # "pop")))
<1> DEFINE q == PopSpc(e)
           a == ReturnTo(Landed[spcptr], e.need)
           b == e.nextInstr \/ (Landed[spcptr].f /\ i.src # "pop")
<1>1. /\ q \in Regs /\ Once(q) /\ SameFlow(q, e) /\ SameLc(q, e) /\ q.dc = e.dc
      /\ (q.pushed <=> e.pushed) /\ q.popped /\ q.write = e.write
  BY PopIs
<1>2. Landed[spcptr] \in Word /\ a \in Addr /\ b \in BOOLEAN
  BY LandedType, Returns DEF TypeOK, MicroTypeOK, Regs, Word
<1>3. Return(e, i) = [q EXCEPT !.npc = a, !.nextInstr = b]
  BY TopIs DEF Return
<1> HIDE DEF q, a, b
<1>4. [q EXCEPT !.npc = a, !.nextInstr = b] \in Regs
  BY <1>1, <1>2 DEF Regs
<1>5. SameSpc(Return(e, i), q) /\ SameLc(Return(e, i), q) /\ Return(e, i).dc = q.dc
  BY <1>1, <1>3 DEF Regs, SameSpc, SameLc
<1>6. /\ (Return(e, i).inhibit <=> q.inhibit) /\ (Return(e, i).popj <=> q.popj)
      /\ Return(e, i).npc = a /\ (Return(e, i).nextInstr <=> b)
  BY <1>1, <1>3 DEF Regs
<1>7. QED
  BY <1>1, <1>2, <1>3, <1>4, <1>5, <1>6 DEF Regs, Once, SameFlow, SameLc, SameSpc, a, b

SameBut(r, e) == SameSpc(r, e) /\ SameLc(r, e) /\ r.dc = e.dc

LEMMA SetPopj ==
  \A e \in Regs, b \in BOOLEAN :
    LET r == [e EXCEPT !.popj = b]
    IN  /\ r \in Regs /\ SameBut(r, e) /\ (r.popj <=> b)
        /\ r.npc = e.npc /\ (r.inhibit <=> e.inhibit) /\ (r.nextInstr <=> e.nextInstr)
  BY DEF Regs, SameSpc, SameLc, SameBut

LEMMA SetInhibit ==
  \A e \in Regs, b \in BOOLEAN :
    LET r == [e EXCEPT !.inhibit = b]
    IN  /\ r \in Regs /\ SameBut(r, e) /\ (r.inhibit <=> b)
        /\ r.npc = e.npc /\ (r.popj <=> e.popj) /\ (r.nextInstr <=> e.nextInstr)
  BY DEF Regs, SameSpc, SameLc, SameBut

LEMMA SetNpc ==
  \A e \in Regs, a \in Addr :
    LET r == [e EXCEPT !.npc = a]
    IN  /\ r \in Regs /\ SameBut(r, e) /\ r.npc = a
        /\ (r.inhibit <=> e.inhibit) /\ (r.popj <=> e.popj) /\ (r.nextInstr <=> e.nextInstr)
  BY DEF Regs, SameSpc, SameLc, SameBut

LEMMA SetJump ==
  \A e \in Regs, a \in Addr :
    LET r == [e EXCEPT !.npc = a, !.popj = FALSE]
    IN  /\ r \in Regs /\ SameBut(r, e) /\ r.npc = a /\ ~r.popj
        /\ (r.inhibit <=> e.inhibit) /\ (r.nextInstr <=> e.nextInstr)
  BY DEF Regs, SameSpc, SameLc, SameBut

LEMMA OnceSame ==
  ASSUME NEW e, NEW r, Once(e), SameSpc(r, e)
  PROVE  Once(r)
  BY DEF Once, SameSpc

\* A taken jump, P and R not together.
\* A taken jump, P and R not together.
LEMMA JumpIs ==
  ASSUME TypeOK, NEW i \in Instr, NEW e \in Regs, Once(e), ~e.pushed, e.npc = Succ(npc),
         ~(i.P /\ i.R), i.cond # i.inv
  PROVE  LET f == Jump(e, i)
         IN  /\ f \in Regs /\ Once(f) /\ SameLc(f, e) /\ f.dc = e.dc
             /\ (f.inhibit <=> i.N) /\ (f.pushed <=> i.P) /\ (f.popped <=> e.popped \/ i.R)
             /\ (f.popj <=> e.popj /\ ~i.R)
             /\ f.npc = IF i.R THEN ReturnTo(Landed[spcptr], e.need) ELSE i.target
             /\ (f.nextInstr <=> e.nextInstr \/ (i.R /\ Landed[spcptr].f /\ i.src # "pop"))
             /\ i.P => f.write.word = Plain(IF i.N THEN npc ELSE Succ(npc))
<1> DEFINE g == [e EXCEPT !.inhibit = i.N]
<1>0. i.N \in BOOLEAN /\ i.target \in Addr
  BY DEF Instr
<1>1. /\ g \in Regs /\ SameBut(g, e) /\ (g.inhibit <=> i.N)
      /\ g.npc = e.npc /\ (g.popj <=> e.popj) /\ (g.nextInstr <=> e.nextInstr)
  BY SetInhibit, <1>0
<1>2. Jump(e, i) = IF i.R THEN [Return(g, i) EXCEPT !.popj = FALSE]
                   ELSE [(IF i.P THEN PushSpc(g, Saved(e, i)) ELSE g) EXCEPT !.npc = i.target]
  BY DEF Jump
<1> HIDE DEF g
<1>3. Once(g) /\ ~g.pushed /\ (g.popped <=> e.popped) /\ SameLc(g, e)
  BY <1>1, OnceSame DEF SameSpc, SameBut
<1>4. CASE i.R
  <2> DEFINE q == Return(g, i)
  <2>1. /\ q \in Regs /\ Once(q) /\ SameLc(q, g) /\ q.dc = g.dc
        /\ (q.pushed <=> g.pushed) /\ q.popped /\ q.write = g.write
        /\ (q.inhibit <=> g.inhibit) /\ (q.popj <=> g.popj)
        /\ q.npc = ReturnTo(Landed[spcptr], g.need)
        /\ (q.nextInstr <=> (g.nextInstr \/ (Landed[spcptr].f /\ i.src # "pop")))
    BY <1>1, <1>3, ReturnIs
  <2>2. Jump(e, i) = [q EXCEPT !.popj = FALSE]
    BY <1>2, <1>4
  <2> HIDE DEF q
  <2>3. LET r == [q EXCEPT !.popj = FALSE]
        IN  /\ r \in Regs /\ SameBut(r, q) /\ (r.popj <=> FALSE)
            /\ r.npc = q.npc /\ (r.inhibit <=> q.inhibit) /\ (r.nextInstr <=> q.nextInstr)
    BY <2>1, SetPopj
  <2>4. Once(Jump(e, i))
    BY <2>1, <2>2, <2>3, OnceSame DEF SameBut
  <2>5. QED
    BY <1>1, <1>3, <1>4, <2>1, <2>2, <2>3, <2>4 DEF SameBut, SameSpc, SameLc
<1>5. CASE ~i.R
  <2> DEFINE q == IF i.P THEN PushSpc(g, Saved(e, i)) ELSE g
  <2>1. Saved(e, i) = Plain(IF i.N THEN npc ELSE Succ(npc)) /\ Saved(e, i) \in Word
    BY Addresses DEF Saved, TypeOK, MicroTypeOK, Plain, Word
  <2>2. /\ q \in Regs /\ Once(q) /\ SameFlow(q, g) /\ SameLc(q, g) /\ q.dc = g.dc
        /\ (q.pushed <=> i.P) /\ (q.popped <=> g.popped) /\ (i.P => q.write.word = Saved(e, i))
    <3>1. CASE i.P
      <4>1. Up(spcptr) \in Slot
        BY Pointers DEF TypeOK, MicroTypeOK
      <4>2. q = PushSpc(g, Saved(e, i))
        BY <3>1
      <4>3. LET r == PushSpc(g, Saved(e, i))
            IN  /\ r \in Regs /\ Once(r) /\ SameFlow(r, g) /\ SameLc(r, g) /\ r.dc = g.dc
                /\ r.pushed /\ (r.popped <=> g.popped) /\ r.write = Write(Up(spcptr), Saved(e, i))
        BY <1>1, <1>3, <2>1, PushIs
      <4>4. Write(Up(spcptr), Saved(e, i)).word = Saved(e, i)
        BY <2>1, <4>1, WriteTypes
      <4>5. QED
        BY <3>1, <4>2, <4>3, <4>4
    <3>2. CASE ~i.P
      BY <1>1, <1>3, <3>2 DEF SameFlow, SameLc
    <3>3. QED
      BY <3>1, <3>2
  <2>3. Jump(e, i) = [q EXCEPT !.npc = i.target]
    BY <1>2, <1>5
  <2> HIDE DEF q
  <2>4. LET r == [q EXCEPT !.npc = i.target]
        IN  /\ r \in Regs /\ SameBut(r, q) /\ r.npc = i.target
            /\ (r.inhibit <=> q.inhibit) /\ (r.popj <=> q.popj) /\ (r.nextInstr <=> q.nextInstr)
    BY <2>2, SetNpc, <1>0
  <2>5. Once(Jump(e, i))
    BY <2>2, <2>3, <2>4, OnceSame DEF SameBut
  <2>6. QED
    BY <1>1, <1>3, <1>5, <2>1, <2>2, <2>3, <2>4, <2>5 DEF SameBut, SameSpc, SameLc, SameFlow
<1>6. QED
  BY <1>4, <1>5

-------------------------------------------------------------------------------
(* The location counter. *)

LEMMA Wraps ==
  \A c \in Count : /\ (c + 1) % LcSize = IF c + 1 < LcSize THEN c + 1 ELSE c + 1 - LcSize
                   /\ (c + 2) % LcSize = IF c + 2 < LcSize THEN c + 2 ELSE c + 2 - LcSize
<1> SUFFICES ASSUME NEW c \in Count
             PROVE  /\ (c + 1) % LcSize = IF c + 1 < LcSize THEN c + 1 ELSE c + 1 - LcSize
                    /\ (c + 2) % LcSize = IF c + 2 < LcSize THEN c + 2 ELSE c + 2 - LcSize
  OBVIOUS
<1>1. c \in Nat /\ LcSize \in Nat /\ c < LcSize /\ LcSize >= 4
  BY LcAssumption DEF Count
<1>2. ASSUME NEW k \in 1 .. 2 PROVE (c + k) % LcSize = IF c + k < LcSize THEN c + k ELSE c + k - LcSize
  BY <1>1
<1>3. QED
  BY <1>2

LEMMA Counts ==
  /\ 0 \in Count
  /\ \A c \in Count : /\ \A b \in BOOLEAN : Stepped(c, b) \in Count /\ LastByte(c, b) \in BOOLEAN
                      /\ Halfword(c) \in Count /\ c \div 4 \in Count /\ Halfword(c) \div 4 = c \div 4
                      /\ Halfword(Stepped(c, FALSE)) = Stepped(Halfword(c), FALSE)
                      /\ LastByte(Halfword(c), FALSE) <=> LastByte(c, FALSE)
                      /\ c % 2 = 0 => /\ Halfword(c) = c
                                      /\ LastByte(c, TRUE) <=> LastByte(c, FALSE)
<1>1. 0 \in Count
  BY LcAssumption DEF Count
<1> SUFFICES ASSUME NEW c \in Count
             PROVE  /\ \A b \in BOOLEAN : Stepped(c, b) \in Count /\ LastByte(c, b) \in BOOLEAN
                    /\ Halfword(c) \in Count /\ c \div 4 \in Count /\ Halfword(c) \div 4 = c \div 4
                    /\ Halfword(Stepped(c, FALSE)) = Stepped(Halfword(c), FALSE)
                    /\ LastByte(Halfword(c), FALSE) <=> LastByte(c, FALSE)
                    /\ c % 2 = 0 => /\ Halfword(c) = c
                                    /\ LastByte(c, TRUE) <=> LastByte(c, FALSE)
  BY <1>1
<1>2. c \in Nat /\ c < LcSize /\ LcSize \in Nat /\ LcSize >= 4 /\ LcSize % 4 = 0
  BY LcAssumption DEF Count
<1>3. \A b \in BOOLEAN : Stepped(c, b) \in Count /\ LastByte(c, b) \in BOOLEAN
  BY <1>2, Wraps DEF Count, Stepped, LastByte
<1>4. Halfword(c) \in Count /\ c \div 4 \in Count /\ Halfword(c) \div 4 = c \div 4
  BY <1>2 DEF Count, Halfword
<1>5. Halfword(Stepped(c, FALSE)) = Stepped(Halfword(c), FALSE)
  <2>1. Stepped(c, FALSE) = IF c + 2 < LcSize THEN c + 2 ELSE c + 2 - LcSize
    BY Wraps DEF Stepped
  <2>2. Stepped(Halfword(c), FALSE)
          = IF Halfword(c) + 2 < LcSize THEN Halfword(c) + 2 ELSE Halfword(c) + 2 - LcSize
    BY <1>4, Wraps DEF Stepped
  <2>3. \A x, z \in Nat : x < z /\ z % 4 = 0 =>
          LET y == IF x + 2 < z THEN x + 2 ELSE x + 2 - z
              h == x - (x % 2)
          IN  y - (y % 2) = IF h + 2 < z THEN h + 2 ELSE h + 2 - z
    OBVIOUS
  <2>4. QED
    BY <1>2, <2>1, <2>2, <2>3 DEF Halfword
<1>6. LastByte(Halfword(c), FALSE) <=> LastByte(c, FALSE)
  BY <1>2 DEF Halfword, LastByte
<1>7. c % 2 = 0 => Halfword(c) = c /\ (LastByte(c, TRUE) <=> LastByte(c, FALSE))
  BY <1>2 DEF Halfword, LastByte
<1>8. QED
  BY <1>3, <1>4, <1>5, <1>6, <1>7

LEMMA StepLcIs ==
  ASSUME NEW e \in Regs
  PROVE  LET r == StepLc(e)
         IN  /\ r \in Regs /\ SameFlow(r, e) /\ SameSpc(r, e) /\ r.dc = e.dc
             /\ r.lc = Stepped(e.lc, e.byte) /\ (r.need <=> LastByte(r.lc, e.byte))
             /\ r.byte = e.byte /\ r.vma = IF e.need THEN e.lc \div 4 ELSE e.vma
<1> DEFINE c == Stepped(e.lc, e.byte)
           nd == LastByte(c, e.byte)
           v == IF e.need THEN e.lc \div 4 ELSE e.vma
<1>1. c \in Count /\ nd \in BOOLEAN /\ v \in Count
  BY Counts DEF Regs
<1>2. StepLc(e) = [e EXCEPT !.lc = c, !.need = nd, !.vma = v]
  BY DEF StepLc
<1> HIDE DEF c, nd, v
<1>3. [e EXCEPT !.lc = c, !.need = nd, !.vma = v] \in Regs
  BY <1>1 DEF Regs
<1>4. QED
  BY <1>1, <1>2, <1>3 DEF Regs, SameFlow, SameSpc, c, nd, v

-------------------------------------------------------------------------------

(* What an instruction does to the registers of a step on micro, by its kind. *)

LEMMA AluIs ==
  ASSUME TypeOK, NEW i \in Instr, NEW e \in Regs, Once(e), ~e.pushed
  PROVE  LET f == Alu(e, i)
         IN  /\ f \in Regs /\ Once(f) /\ SameFlow(f, e) /\ f.dc = e.dc
             /\ (f.pushed <=> i.dest = "spc") /\ (f.popped <=> e.popped)
             /\ i.dest = "spc" => f.write.word = i.word
             /\ f.lc = IF i.dest = "lc" THEN IF e.byte THEN i.cnt ELSE Halfword(i.cnt) ELSE e.lc
             /\ (f.need <=> i.dest = "lc" \/ e.need)
             /\ f.byte = IF i.dest = "intctl" THEN i.byte ELSE e.byte
             /\ f.vma = e.vma
<1>0. i.dest \in Dests /\ i.word \in Word /\ i.cnt \in Count /\ i.byte \in BOOLEAN
  BY DEF Instr
<1>1. CASE i.dest = "spc"
  <2>1. Alu(e, i) = PushSpc(e, i.word)
    BY <1>1 DEF Alu
  <2>2. LET r == PushSpc(e, i.word)
        IN  /\ r \in Regs /\ Once(r) /\ SameFlow(r, e) /\ SameLc(r, e) /\ r.dc = e.dc
            /\ r.pushed /\ (r.popped <=> e.popped) /\ r.write = Write(Up(spcptr), i.word)
    BY <1>0, PushIs
  <2>3. Write(Up(spcptr), i.word).word = i.word
    BY <1>0, WriteTypes, Pointers DEF TypeOK, MicroTypeOK
  <2>4. QED
    BY <1>1, <2>1, <2>2, <2>3 DEF SameLc
<1>2. CASE i.dest = "lc"
  <2> DEFINE c == IF e.byte THEN i.cnt ELSE Halfword(i.cnt)
  <2>1. c \in Count
    BY <1>0, Counts
  <2>2. Alu(e, i) = [e EXCEPT !.need = TRUE, !.lc = c]
    BY <1>2 DEF Alu
  <2> HIDE DEF c
  <2>3. [e EXCEPT !.need = TRUE, !.lc = c] \in Regs
    BY <2>1 DEF Regs
  <2>4. SameSpc(Alu(e, i), e) /\ SameFlow(Alu(e, i), e)
    BY <2>2 DEF Regs, SameSpc, SameFlow
  <2>5. Once(Alu(e, i))
    BY <2>4, OnceSame
  <2>6. QED
    BY <1>2, <2>2, <2>3, <2>4, <2>5 DEF Regs, c, SameSpc
<1>3. CASE i.dest = "intctl"
  <2>1. Alu(e, i) = [e EXCEPT !.byte = i.byte]
    BY <1>3 DEF Alu
  <2>2. [e EXCEPT !.byte = i.byte] \in Regs
    BY <1>0 DEF Regs
  <2>3. SameSpc(Alu(e, i), e) /\ SameFlow(Alu(e, i), e)
    BY <2>1 DEF Regs, SameSpc, SameFlow
  <2>4. Once(Alu(e, i))
    BY <2>3, OnceSame
  <2>5. QED
    BY <1>3, <2>1, <2>2, <2>3, <2>4 DEF Regs, SameSpc
<1>4. CASE i.dest = "m"
  <2>1. Alu(e, i) = e
    BY <1>4 DEF Alu
  <2>2. QED
    BY <1>4, <2>1 DEF SameFlow
<1>5. QED
  BY <1>0, <1>1, <1>2, <1>3, <1>4 DEF Dests

LEMMA IgnIs ==
  ASSUME TypeOK, NEW i \in Instr, NEW e \in Regs, Once(e), ~e.pushed
  PROVE  LET r == IgnPopj(e, i)
         IN  /\ r \in Regs /\ Once(r) /\ SameFlow(r, e) /\ SameLc(r, e) /\ r.dc = e.dc
             /\ ~r.pushed /\ (r.popped <=> e.popped /\ i.R)
<1>1. CASE ~i.R /\ e.popped
  <2>1. e.ptr = Down(spcptr) /\ Up(e.ptr) = spcptr /\ spcptr \in Slot
    BY <1>1, Pointers DEF Once, TypeOK, MicroTypeOK
  <2>2. IgnPopj(e, i) = [e EXCEPT !.ptr = spcptr, !.popped = FALSE]
    BY <1>1, <2>1 DEF IgnPopj
  <2>3. [e EXCEPT !.ptr = spcptr, !.popped = FALSE] \in Regs
    BY <2>1 DEF Regs
  <2>4. QED
    BY <1>1, <2>1, <2>2, <2>3 DEF Regs, Once, SameFlow, SameLc
<1>2. CASE ~(~i.R /\ e.popped)
  <2>1. IgnPopj(e, i) = e
    BY <1>2 DEF IgnPopj
  <2>2. QED
    BY <1>2, <2>1 DEF SameFlow, SameLc
<1>3. QED
  BY <1>1, <1>2

\* A dispatch memory write.
LEMMA WriteDMemIs ==
  ASSUME TypeOK, NEW i \in Instr, i.wr, NEW e \in Regs, Once(e), ~e.pushed
  PROVE  LET f == Dispatch(e, i)
         IN  /\ f \in Regs /\ Once(f) /\ SameLc(f, e) /\ f.dc = e.dc
             /\ (f.inhibit <=> e.inhibit) /\ ~f.pushed /\ (f.popped <=> e.popped /\ i.R)
             /\ (f.popj <=> e.popj /\ i.R) /\ (f.nextInstr <=> e.nextInstr)
             /\ f.npc = IF e.popj /\ ~i.R THEN i.target ELSE e.npc
<1> DEFINE g == IgnPopj(e, i)
<1>1. /\ g \in Regs /\ Once(g) /\ SameFlow(g, e) /\ SameLc(g, e) /\ g.dc = e.dc
      /\ ~g.pushed /\ (g.popped <=> e.popped /\ i.R)
  BY IgnIs
<1>2. Dispatch(e, i) = IF e.popj /\ ~i.R THEN [g EXCEPT !.npc = i.target, !.popj = FALSE] ELSE g
  BY DEF Dispatch, WriteDMem
<1> HIDE DEF g
<1>3. CASE e.popj /\ ~i.R
  <2>1. i.target \in Addr
    BY DEF Instr
  <2>2. LET r == [g EXCEPT !.npc = i.target, !.popj = FALSE]
        IN  /\ r \in Regs /\ SameBut(r, g) /\ r.npc = i.target /\ ~r.popj
            /\ (r.inhibit <=> g.inhibit) /\ (r.nextInstr <=> g.nextInstr)
    BY <1>1, <2>1, SetJump
  <2>3. Once(Dispatch(e, i))
    BY <1>1, <1>2, <1>3, <2>2, OnceSame DEF SameBut
  <2>4. QED
    BY <1>1, <1>2, <1>3, <2>2, <2>3 DEF SameBut, SameSpc, SameLc, SameFlow
<1>4. CASE ~(e.popj /\ ~i.R)
  BY <1>1, <1>2, <1>4 DEF SameFlow
<1>5. QED
  BY <1>3, <1>4

WithConstant(r, e, k, b) ==
  /\ r \in Regs /\ SameSpc(r, e) /\ SameLc(r, e) /\ r.dc = k /\ (r.inhibit <=> b)
  /\ r.npc = e.npc /\ (r.popj <=> e.popj) /\ (r.nextInstr <=> e.nextInstr)

LEMMA SetConstant ==
  \A e \in Regs, k \in Count, b \in BOOLEAN :
    WithConstant([e EXCEPT !.dc = k, !.inhibit = b], e, k, b)
<1> SUFFICES ASSUME NEW e \in Regs, NEW k \in Count, NEW b \in BOOLEAN
             PROVE  WithConstant([e EXCEPT !.dc = k, !.inhibit = b], e, k, b)
  OBVIOUS
<1>1. [e EXCEPT !.dc = k, !.inhibit = b] \in Regs
  BY DEF Regs
<1>2. QED
  BY <1>1 DEF Regs, SameSpc, SameLc, WithConstant

\* A dispatch, whose entry may return, call, jump or fall through.
LEMMA DispatchIs ==
  ASSUME TypeOK, NEW i \in Instr, ~i.wr, i.adv => ~i.R, NEW e \in Regs, Once(e), ~e.pushed,
         e.npc = Succ(npc)
  PROVE  LET f == Dispatch(e, i)
         IN  /\ f \in Regs /\ Once(f) /\ f.dc = i.cst
             /\ SameLc(f, IF i.adv THEN StepLc(e) ELSE e)
             /\ (f.inhibit <=> i.N) /\ (f.pushed <=> i.P /\ ~i.R)
             /\ (f.popped <=> i.R /\ (e.popped \/ ~i.P))
             /\ (f.popj <=> e.popj /\ i.R /\ i.P)
             /\ (f.nextInstr <=> e.nextInstr
                                   \/ (i.R /\ ~i.P /\ Landed[spcptr].f /\ i.src # "pop"))
             /\ f.npc = IF i.P /\ i.R THEN e.npc
                        ELSE IF i.R THEN ReturnTo(Landed[spcptr], e.need) ELSE i.target
             /\ i.P /\ ~i.R =>
                  f.write.word = Plain(IF ~i.N THEN Succ(npc) ELSE IF i.lpc THEN Pred(npc) ELSE npc)
<1> DEFINE q == IgnPopj(e, i)
           h == [q EXCEPT !.dc = i.cst, !.inhibit = i.N]
           g == IF i.adv THEN StepLc(h) ELSE h
<1>0. i.N \in BOOLEAN /\ i.target \in Addr /\ i.cst \in Count
  BY DEF Instr
<1>1. /\ q \in Regs /\ Once(q) /\ SameFlow(q, e) /\ SameLc(q, e) /\ q.dc = e.dc
      /\ ~q.pushed /\ (q.popped <=> e.popped /\ i.R)
  BY IgnIs
<1>3. Dispatch(e, i)
        = IF i.P /\ i.R THEN g
          ELSE IF i.R THEN [Return(g, i) EXCEPT !.popj = FALSE]
          ELSE [(IF i.P THEN PushSpc(g, SavedByDispatch(e, i)) ELSE g)
                  EXCEPT !.npc = i.target, !.popj = FALSE]
  BY DEF Dispatch
<1>4. g = IF i.adv THEN StepLc(h) ELSE h
  OBVIOUS
<1>a. h = [q EXCEPT !.dc = i.cst, !.inhibit = i.N]
  OBVIOUS
<1> HIDE DEF q, h, g
<1>b. WithConstant(h, q, i.cst, i.N)
  BY <1>a, <1>0, <1>1, SetConstant
<1>2. /\ h \in Regs /\ SameSpc(h, q) /\ SameLc(h, q) /\ h.dc = i.cst /\ (h.inhibit <=> i.N)
      /\ h.npc = q.npc /\ (h.popj <=> q.popj) /\ (h.nextInstr <=> q.nextInstr)
  BY <1>b DEF WithConstant
<1>5. Once(h) /\ ~h.pushed /\ SameLc(h, e)
  BY <1>1, <1>2, OnceSame DEF SameSpc, SameLc
<1>6. /\ g \in Regs /\ SameSpc(g, h) /\ g.dc = i.cst
      /\ SameLc(g, IF i.adv THEN StepLc(e) ELSE e)
      /\ g.npc = e.npc /\ (g.inhibit <=> i.N) /\ (g.popj <=> e.popj)
      /\ (g.nextInstr <=> e.nextInstr)
  <2>1. CASE i.adv
    <3>1. LET r == StepLc(h)
          IN  /\ r \in Regs /\ SameFlow(r, h) /\ SameSpc(r, h) /\ r.dc = h.dc
              /\ r.lc = Stepped(h.lc, h.byte) /\ (r.need <=> LastByte(r.lc, h.byte))
              /\ r.byte = h.byte /\ r.vma = IF h.need THEN h.lc \div 4 ELSE h.vma
      BY <1>2, StepLcIs
    <3>2. LET r == StepLc(e)
          IN  /\ r \in Regs
              /\ r.lc = Stepped(e.lc, e.byte) /\ (r.need <=> LastByte(r.lc, e.byte))
              /\ r.byte = e.byte /\ r.vma = IF e.need THEN e.lc \div 4 ELSE e.vma
      BY StepLcIs
    <3>3. StepLc(h).need = StepLc(e).need
      BY <1>5, <3>1, <3>2 DEF Regs, SameLc
    <3>4. QED
      BY <1>1, <1>2, <1>4, <1>5, <2>1, <3>1, <3>2, <3>3 DEF SameLc, SameFlow
  <2>2. CASE ~i.adv
    BY <1>1, <1>2, <1>4, <1>5, <2>2 DEF SameFlow, SameSpc
  <2>3. QED
    BY <2>1, <2>2
<1>7. Once(g) /\ ~g.pushed /\ (g.popped <=> e.popped /\ i.R)
  BY <1>1, <1>2, <1>5, <1>6, OnceSame DEF SameSpc
<1>8. CASE i.P /\ i.R
  BY <1>3, <1>6, <1>7, <1>8
<1>9. CASE i.R /\ ~i.P
  <2> DEFINE x == Return(g, i)
  <2>1. /\ x \in Regs /\ Once(x) /\ SameLc(x, g) /\ x.dc = g.dc
        /\ (x.pushed <=> g.pushed) /\ x.popped /\ x.write = g.write
        /\ (x.inhibit <=> g.inhibit) /\ (x.popj <=> g.popj)
        /\ x.npc = ReturnTo(Landed[spcptr], g.need)
        /\ (x.nextInstr <=> (g.nextInstr \/ (Landed[spcptr].f /\ i.src # "pop")))
    BY <1>6, <1>7, ReturnIs
  <2>2. Dispatch(e, i) = [x EXCEPT !.popj = FALSE]
    BY <1>3, <1>9
  <2> HIDE DEF x
  <2>3. LET r == [x EXCEPT !.popj = FALSE]
        IN  /\ r \in Regs /\ SameBut(r, x) /\ (r.popj <=> FALSE)
            /\ r.npc = x.npc /\ (r.inhibit <=> x.inhibit) /\ (r.nextInstr <=> x.nextInstr)
    BY <2>1, SetPopj
  <2>4. Once(Dispatch(e, i))
    BY <2>1, <2>2, <2>3, OnceSame DEF SameBut
  <2>5. g.need = e.need
    BY <1>6, <1>9 DEF SameLc
  <2>6. QED
    BY <1>6, <1>7, <1>9, <2>1, <2>2, <2>3, <2>4, <2>5 DEF SameBut, SameSpc, SameLc
<1>10. CASE ~i.R
  <2> DEFINE x == IF i.P THEN PushSpc(g, SavedByDispatch(e, i)) ELSE g
  <2>1. /\ SavedByDispatch(e, i)
             = Plain(IF ~i.N THEN Succ(npc) ELSE IF i.lpc THEN Pred(npc) ELSE npc)
        /\ SavedByDispatch(e, i) \in Word
    BY Addresses DEF SavedByDispatch, TypeOK, MicroTypeOK, Plain, Word
  <2>2. /\ x \in Regs /\ Once(x) /\ SameFlow(x, g) /\ SameLc(x, g) /\ x.dc = g.dc
        /\ (x.pushed <=> i.P) /\ (x.popped <=> g.popped)
        /\ (i.P => x.write.word = SavedByDispatch(e, i))
    <3>1. CASE i.P
      <4>1. x = PushSpc(g, SavedByDispatch(e, i))
        BY <3>1
      <4>2. LET r == PushSpc(g, SavedByDispatch(e, i))
            IN  /\ r \in Regs /\ Once(r) /\ SameFlow(r, g) /\ SameLc(r, g) /\ r.dc = g.dc
                /\ r.pushed /\ (r.popped <=> g.popped)
                /\ r.write = Write(Up(spcptr), SavedByDispatch(e, i))
        BY <1>6, <1>7, <2>1, PushIs
      <4>3. Write(Up(spcptr), SavedByDispatch(e, i)).word = SavedByDispatch(e, i)
        BY <2>1, WriteTypes, Pointers DEF TypeOK, MicroTypeOK
      <4>4. QED
        BY <3>1, <4>1, <4>2, <4>3
    <3>2. CASE ~i.P
      BY <1>6, <1>7, <3>2 DEF SameFlow, SameLc
    <3>3. QED
      BY <3>1, <3>2
  <2>3. Dispatch(e, i) = [x EXCEPT !.npc = i.target, !.popj = FALSE]
    BY <1>3, <1>10
  <2> HIDE DEF x
  <2>4. LET r == [x EXCEPT !.npc = i.target, !.popj = FALSE]
        IN  /\ r \in Regs /\ SameBut(r, x) /\ r.npc = i.target /\ ~r.popj
            /\ (r.inhibit <=> x.inhibit) /\ (r.nextInstr <=> x.nextInstr)
    BY <1>0, <2>2, SetJump
  <2>5. Once(Dispatch(e, i))
    BY <2>2, <2>3, <2>4, OnceSame DEF SameBut
  <2>6. QED
    BY <1>6, <1>7, <1>10, <2>1, <2>2, <2>3, <2>4, <2>5 DEF SameBut, SameSpc, SameLc, SameFlow
<1>11. QED
  BY <1>8, <1>9, <1>10

\* The last of a step: a POPJ still to be done.
LEMMA PerformedIs ==
  ASSUME TypeOK, NEW i \in Instr, NEW f \in Regs, Once(f)
  PROVE  LET r == IF f.popj THEN Return(f, i) ELSE f
         IN  /\ r \in Regs /\ Once(r) /\ SameLc(r, f) /\ r.dc = f.dc
             /\ (r.pushed <=> f.pushed) /\ (r.popped <=> f.popped \/ f.popj) /\ r.write = f.write
             /\ (r.inhibit <=> f.inhibit)
             /\ r.npc = IF f.popj THEN ReturnTo(Landed[spcptr], f.need) ELSE f.npc
             /\ (r.nextInstr <=> f.nextInstr \/ (f.popj /\ Landed[spcptr].f /\ i.src # "pop"))
<1>1. CASE f.popj
  BY <1>1, ReturnIs
<1>2. CASE ~f.popj
  BY <1>2 DEF SameLc
<1>3. QED
  BY <1>1, <1>2

-------------------------------------------------------------------------------
(* The two engines on one instruction. *)

LEMMA RulesHold ==
  ASSUME AllRules \subseteq Rules, NEW i \in Instr, Disciplined(i)
  PROVE  /\ IMemIsACall(i) /\ OneStep(i) /\ WriteApart(i) /\ AdvanceReturnsNot(i)
         /\ LcReadApart(i) /\ ModeAtHalfword(i) /\ LpcInLine(i) /\ WriteIsQuiet(i) /\ LcFirst(i)
  BY DEF AllRules, Disciplined, Rule

LEMMA SpcBusIs ==
  ASSUME TypeOK
  PROVE  spcBus = WritePhase[rptr]
  BY DEF TypeOK, RtlTypeOK, spcBus, WritePhase

LEMMA Goes ==
  ASSUME NEW w \in Word, NEW a \in BOOLEAN, NEW b \in BOOLEAN, w.f => (a <=> b)
  PROVE  ReturnTo(w, a) = ReturnTo(w, b)
  BY DEF ReturnTo, Word

\* What LockInv says of two engines about to execute the same instruction.
LEMMA InLine ==
  ASSUME LockInv, Ready
  PROVE  /\ TypeOK /\ p1pc = lpc /\ npc = pc /\ spcptr = rptr /\ ~nop /\ ~bootTrap /\ ~iwrited
         /\ spcBus = Landed[spcptr] /\ Landed[spcptr] \in Word
         /\ Landed[spcptr].f => (need <=> newlc \/ LastByte(rlc, rbyte))
         /\ need \in BOOLEAN
<1>1. TypeOK /\ p1pc = lpc /\ npc = pc /\ spcptr = rptr /\ ~nop /\ ~bootTrap /\ ~iwrited
  BY DEF LockInv, Aligned, Ready, Executing, nop
<1>2. spcBus = Landed[spcptr]
  BY <1>1, SpcBusIs DEF LockInv, Stacks
<1>3. Landed[spcptr] \in Word /\ spcptr \in Slot
  BY <1>1, LandedType DEF TypeOK, MicroTypeOK
<1>4. Landed[spcptr].f => lcSet
  BY <1>3 DEF LockInv, Unset
<1>5. need \in BOOLEAN
  BY <1>1 DEF TypeOK, MicroTypeOK
<1>6. QED
  BY <1>1, <1>2, <1>3, <1>4, <1>5 DEF LockInv, SameStream

LEMMA Selects ==
  ASSUME NEW i, ~bootTrap
  PROVE  NPC(i) = IF pcs1(i) /\ pcs0(i) THEN Succ(pc)
                  ELSE IF ~pcs1(i) /\ ~pcs0(i) THEN ReturnTo(spcBus, needfetch(i))
                  ELSE i.target
  BY DEF NPC

\* micro's registers after instruction i are what rtl's nets say.
Matches(e, i) ==
  /\ e \in Regs /\ Once(e) /\ e.npc = NPC(i) /\ (e.inhibit <=> n(i))
  /\ (e.pushed <=> spush(i)) /\ (~e.pushed => (e.popped <=> spop(i)))
  /\ (e.nextInstr <=> nextInstr(i))
  /\ e.pushed => e.write.word = (IF destspc(i) THEN i.word
                                 ELSE Plain(IF n(i) THEN wpc(i) ELSE Succ(pc)))
  /\ e.dc = IF irdisp(i) THEN i.cst ELSE rdc

\* An ALU or BYTE instruction, a jump and a dispatch do on micro what the nets
\* of rtl's read phase say.
LEMMA MatchAlu ==
  ASSUME LockInv, Ready, NEW i \in Instr, i.op = "alu"
  PROVE  /\ Matches(Performed(i), i)
         /\ SameLc(Performed(i), Alu(Entered(i), i))
<1> DEFINE e == Entered(i)
           f == Alu(e, i)
           r == Performed(i)
<1>1. /\ TypeOK /\ p1pc = lpc /\ npc = pc /\ spcptr = rptr /\ ~nop /\ ~bootTrap /\ ~iwrited
      /\ spcBus = Landed[spcptr] /\ Landed[spcptr] \in Word
      /\ Landed[spcptr].f => (need <=> newlc \/ LastByte(rlc, rbyte))
      /\ need \in BOOLEAN
  BY InLine
<1>2. /\ e \in Regs /\ Once(e)
      /\ e.npc = Succ(npc) /\ ~e.inhibit /\ (e.popj <=> i.popj) /\ ~e.nextInstr
      /\ ~e.pushed /\ (e.popped <=> (i.src = "pop"))
      /\ e.lc = lc /\ e.need = need /\ e.byte = byteMode /\ e.dc = dc /\ e.vma = vma
  BY <1>1, EnteredIs
<1>3. r = IF f.popj THEN Return(f, i) ELSE f
  BY DEF Performed
<1> HIDE DEF e
<1>4. /\ f \in Regs /\ Once(f) /\ SameFlow(f, e) /\ f.dc = e.dc
      /\ (f.pushed <=> i.dest = "spc") /\ (f.popped <=> e.popped)
      /\ i.dest = "spc" => f.write.word = i.word
      /\ (f.need <=> i.dest = "lc" \/ e.need)
  BY <1>1, <1>2, AluIs
<1> HIDE DEF f, r
<1>5. /\ r \in Regs /\ Once(r) /\ SameLc(r, f) /\ r.dc = f.dc
      /\ (r.pushed <=> f.pushed) /\ (r.popped <=> f.popped \/ f.popj) /\ r.write = f.write
      /\ (r.inhibit <=> f.inhibit)
      /\ r.npc = IF f.popj THEN ReturnTo(Landed[spcptr], f.need) ELSE f.npc
      /\ (r.nextInstr <=> f.nextInstr \/ (f.popj /\ Landed[spcptr].f /\ i.src # "pop"))
  BY <1>1, <1>3, <1>4, PerformedIs
<1>6. /\ ~irjump(i) /\ ~irdisp(i) /\ ~taken(i) /\ ~dispenb(i) /\ ~ignpopj(i) /\ ~jreturn(i)
      /\ (destspc(i) <=> i.dest = "spc") /\ (destlc(i) <=> i.dest = "lc")
      /\ (popj(i) <=> i.popj) /\ (srcspcpopreal(i) <=> i.src = "pop")
  BY <1>1 DEF irjump, irdisp, taken, dispenb, ignpopj, jreturn, destspc, destlc, dest, popj,
              srcspcpopreal
<1>7. /\ ~n(i) /\ (spush(i) <=> i.dest = "spc") /\ (spop(i) <=> i.src = "pop" \/ i.popj)
      /\ (pcs1(i) <=> ~i.popj) /\ (pcs0(i) <=> ~i.popj)
      /\ (nextInstr(i) <=> i.popj /\ i.src # "pop" /\ Landed[spcptr].f)
      /\ (needfetch(i) <=> newlc \/ i.dest = "lc" \/ LastByte(rlc, rbyte))
      /\ needfetch(i) \in BOOLEAN
  BY <1>1, <1>6 DEF n, spush, spop, pcs1, pcs0, nextInstr, needfetch, haveWrongWord
<1>8. i.popj => ReturnTo(Landed[spcptr], f.need) = ReturnTo(spcBus, needfetch(i))
  <2>1. f.need \in BOOLEAN
    BY <1>4 DEF Regs
  <2>2. Landed[spcptr].f => (f.need <=> needfetch(i))
    BY <1>1, <1>2, <1>4, <1>7
  <2>3. QED
    BY <1>1, <1>7, <2>1, <2>2, Goes
<1>9. r.npc = NPC(i)
  BY <1>1, <1>2, <1>4, <1>5, <1>7, <1>8, Selects DEF SameFlow
<1>10. r.dc = rdc
  BY <1>2, <1>4, <1>5 DEF LockInv
<1>11. Matches(r, i)
  BY <1>2, <1>4, <1>5, <1>6, <1>7, <1>9, <1>10 DEF Matches, SameFlow
<1>12. QED
  BY <1>5, <1>11 DEF r, f, e

LEMMA MatchJump ==
  ASSUME LockInv, Ready, NEW i \in Instr, i.op = "jump", ~(i.P /\ i.R)
  PROVE  Matches(Performed(i), i) /\ SameLc(Performed(i), Entered(i))
<1> DEFINE e == Entered(i)
           f == Jump(e, i)
           r == Performed(i)
           tk == i.cond # i.inv
<1>1. /\ TypeOK /\ p1pc = lpc /\ npc = pc /\ spcptr = rptr /\ ~nop /\ ~bootTrap /\ ~iwrited
      /\ spcBus = Landed[spcptr] /\ Landed[spcptr] \in Word
      /\ Landed[spcptr].f => (need <=> newlc \/ LastByte(rlc, rbyte))
      /\ need \in BOOLEAN
  BY InLine
<1>2. /\ e \in Regs /\ Once(e)
      /\ e.npc = Succ(npc) /\ ~e.inhibit /\ (e.popj <=> i.popj) /\ ~e.nextInstr
      /\ ~e.pushed /\ (e.popped <=> (i.src = "pop"))
      /\ e.lc = lc /\ e.need = need /\ e.byte = byteMode /\ e.dc = dc /\ e.vma = vma
  BY <1>1, EnteredIs
<1>3. r = IF f.popj THEN Return(f, i) ELSE f
  BY DEF Performed
<1> HIDE DEF e
<1>4. /\ f \in Regs /\ Once(f) /\ SameLc(f, e) /\ f.dc = e.dc
      /\ (f.inhibit <=> tk /\ i.N) /\ (f.pushed <=> tk /\ i.P)
      /\ (f.popped <=> e.popped \/ (tk /\ i.R)) /\ (f.popj <=> e.popj /\ ~(tk /\ i.R))
      /\ f.npc = (IF ~tk THEN e.npc
                  ELSE IF i.R THEN ReturnTo(Landed[spcptr], need) ELSE i.target)
      /\ (f.nextInstr <=> tk /\ i.R /\ Landed[spcptr].f /\ i.src # "pop")
      /\ tk /\ i.P => f.write.word = Plain(IF i.N THEN npc ELSE Succ(npc))
  <2>1. CASE tk
    BY <1>1, <1>2, <2>1, JumpIs
  <2>2. CASE ~tk
    <3>1. f = e
      BY <2>2 DEF Jump
    <3>2. QED
      BY <1>2, <2>2, <3>1 DEF SameLc
  <2>3. QED
    BY <2>1, <2>2
<1> HIDE DEF f, r
<1>5. /\ r \in Regs /\ Once(r) /\ SameLc(r, f) /\ r.dc = f.dc
      /\ (r.pushed <=> f.pushed) /\ (r.popped <=> f.popped \/ f.popj) /\ r.write = f.write
      /\ (r.inhibit <=> f.inhibit)
      /\ r.npc = IF f.popj THEN ReturnTo(Landed[spcptr], f.need) ELSE f.npc
      /\ (r.nextInstr <=> f.nextInstr \/ (f.popj /\ Landed[spcptr].f /\ i.src # "pop"))
  BY <1>1, <1>3, <1>4, PerformedIs
<1>6. /\ irjump(i) /\ ~irdisp(i) /\ (taken(i) <=> tk) /\ ~dispenb(i) /\ ~ignpopj(i)
      /\ (jreturn(i) <=> tk /\ i.R) /\ ~destspc(i) /\ ~destlc(i)
      /\ (popj(i) <=> i.popj) /\ (srcspcpopreal(i) <=> i.src = "pop")
  BY <1>1 DEF irjump, irdisp, taken, dispenb, ignpopj, jreturn, destspc, destlc, dest, popj,
              srcspcpopreal
<1> HIDE DEF tk
<1>7. /\ (n(i) <=> tk /\ i.N) /\ (spush(i) <=> tk /\ i.P)
      /\ (spop(i) <=> i.src = "pop" \/ i.popj \/ (tk /\ i.R))
      /\ (pcs1(i) <=> ~i.popj /\ ~tk) /\ (pcs0(i) <=> ~i.popj /\ ~(tk /\ i.R))
      /\ (nextInstr(i) <=> (i.popj \/ (tk /\ i.R)) /\ i.src # "pop" /\ Landed[spcptr].f)
      /\ (needfetch(i) <=> newlc \/ LastByte(rlc, rbyte)) /\ needfetch(i) \in BOOLEAN
      /\ wpc(i) = pc
  BY <1>1, <1>6 DEF n, spush, spop, pcs1, pcs0, nextInstr, needfetch, haveWrongWord, wpc
<1>8. ReturnTo(Landed[spcptr], need) = ReturnTo(spcBus, needfetch(i))
  BY <1>1, <1>7, Goes
<1>9. r.npc = NPC(i)
  BY <1>1, <1>2, <1>4, <1>5, <1>7, <1>8, Selects DEF SameLc
<1>10. r.dc = rdc
  BY <1>2, <1>4, <1>5 DEF LockInv
<1>11. Matches(r, i)
  BY <1>1, <1>2, <1>4, <1>5, <1>6, <1>7, <1>9, <1>10 DEF Matches
<1>12. QED
  BY <1>4, <1>5, <1>11 DEF r, e, SameLc

LEMMA MatchDispatch ==
  ASSUME LockInv, Ready, NEW i \in Instr, i.op = "dispatch",
         AdvanceReturnsNot(i), LpcInLine(i), WriteIsQuiet(i)
  PROVE  /\ Matches(Performed(i), i)
         /\ SameLc(Performed(i), IF i.adv THEN StepLc(Entered(i)) ELSE Entered(i))
<1> DEFINE e == Entered(i)
           f == Dispatch(e, i)
           r == Performed(i)
           st == IF i.adv THEN StepLc(e) ELSE e
<1>1. /\ TypeOK /\ p1pc = lpc /\ npc = pc /\ spcptr = rptr /\ ~nop /\ ~bootTrap /\ ~iwrited
      /\ spcBus = Landed[spcptr] /\ Landed[spcptr] \in Word
      /\ Landed[spcptr].f => (need <=> newlc \/ LastByte(rlc, rbyte))
      /\ need \in BOOLEAN
  BY InLine
<1>2. /\ e \in Regs /\ Once(e)
      /\ e.npc = Succ(npc) /\ ~e.inhibit /\ (e.popj <=> i.popj) /\ ~e.nextInstr
      /\ ~e.pushed /\ (e.popped <=> (i.src = "pop"))
      /\ e.lc = lc /\ e.need = need /\ e.byte = byteMode /\ e.dc = dc /\ e.vma = vma
  BY <1>1, EnteredIs
<1>3. r = IF f.popj THEN Return(f, i) ELSE f
  BY DEF Performed
<1> HIDE DEF e
<1>0. /\ (i.adv => ~i.R) /\ (i.wr => ~i.adv /\ i.cst = dc) /\ (i.lpc => Pred(npc) = p1pc)
  BY <1>1, Addresses DEF AdvanceReturnsNot, LpcInLine, WriteIsQuiet, TypeOK, MicroTypeOK
<1> HIDE DEF r
<1>4. /\ f \in Regs /\ Once(f) /\ f.dc = i.cst /\ SameLc(f, st)
      /\ (f.inhibit <=> ~i.wr /\ i.N) /\ (f.pushed <=> ~i.wr /\ i.P /\ ~i.R)
      /\ (f.popped <=> i.R /\ (e.popped \/ (~i.wr /\ ~i.P)))
      /\ (f.popj <=> e.popj /\ i.R /\ (i.wr \/ i.P))
      /\ f.npc = (IF i.wr THEN IF i.popj /\ ~i.R THEN i.target ELSE e.npc
                  ELSE IF i.P /\ i.R THEN e.npc
                  ELSE IF i.R THEN ReturnTo(Landed[spcptr], need) ELSE i.target)
      /\ (f.nextInstr <=> ~i.wr /\ i.R /\ ~i.P /\ Landed[spcptr].f /\ i.src # "pop")
      /\ f.pushed =>
           f.write.word = Plain(IF ~i.N THEN Succ(npc) ELSE IF i.lpc THEN p1pc ELSE npc)
  <2>1. CASE i.wr
    BY <1>0, <1>1, <1>2, <2>1, WriteDMemIs DEF SameLc
  <2>2. CASE ~i.wr
    BY <1>0, <1>1, <1>2, <2>2, DispatchIs
  <2>3. QED
    BY <2>1, <2>2
<1> HIDE DEF f, st
<1>5. /\ r \in Regs /\ Once(r) /\ SameLc(r, f) /\ r.dc = f.dc
      /\ (r.pushed <=> f.pushed) /\ (r.popped <=> f.popped \/ f.popj) /\ r.write = f.write
      /\ (r.inhibit <=> f.inhibit)
      /\ r.npc = IF f.popj THEN ReturnTo(Landed[spcptr], f.need) ELSE f.npc
      /\ (r.nextInstr <=> f.nextInstr \/ (f.popj /\ Landed[spcptr].f /\ i.src # "pop"))
  BY <1>1, <1>3, <1>4, PerformedIs
<1>6. /\ ~irjump(i) /\ irdisp(i) /\ ~taken(i) /\ (dispenb(i) <=> ~i.wr) /\ (ignpopj(i) <=> ~i.R)
      /\ ~jreturn(i) /\ ~destspc(i) /\ ~destlc(i)
      /\ (popj(i) <=> i.popj) /\ (srcspcpopreal(i) <=> i.src = "pop")
  BY <1>1 DEF irjump, irdisp, taken, dispenb, ignpopj, jreturn, destspc, destlc, dest, popj,
              srcspcpopreal
<1>7. /\ (n(i) <=> ~i.wr /\ i.N) /\ (spush(i) <=> ~i.wr /\ i.P /\ ~i.R)
      /\ (spop(i) <=> i.R /\ (i.src = "pop" \/ i.popj \/ (~i.wr /\ ~i.P)))
      /\ (pcs1(i) <=> ~(i.popj /\ i.R) /\ ~(~i.wr /\ i.R /\ ~i.P))
      /\ (pcs0(i) <=> ~i.popj /\ ~(~i.wr /\ ~(i.R /\ i.P)))
      /\ (needfetch(i) <=> newlc \/ LastByte(rlc, rbyte)) /\ needfetch(i) \in BOOLEAN
      /\ wpc(i) = IF i.lpc THEN lpc ELSE pc
  BY <1>1, <1>6 DEF n, spush, spop, pcs1, pcs0, needfetch, haveWrongWord, wpc
<1>a. nextInstr(i) <=> spop(i) /\ i.src # "pop" /\ Landed[spcptr].f
  BY <1>1, <1>6 DEF nextInstr
<1>8. ReturnTo(Landed[spcptr], need) = ReturnTo(spcBus, needfetch(i))
  BY <1>1, <1>7, Goes
<1>b. f.popj => f.need = need
  BY <1>0, <1>2, <1>4 DEF SameLc, st
<1>9. r.npc = NPC(i)
  BY <1>1, <1>2, <1>4, <1>5, <1>7, <1>8, <1>b, Selects
<1>11. Matches(r, i)
  BY <1>0, <1>1, <1>2, <1>4, <1>5, <1>6, <1>7, <1>9, <1>a DEF Matches
<1>12. QED
  BY <1>4, <1>5, <1>11 DEF r, e, st, SameLc

\* A control store write does its push and its pop at once on micro.
LEMMA MatchWrite ==
  ASSUME LockInv, Ready, NEW i \in Instr, i.op = "jump", i.P, i.R, IMemIsACall(i)
  PROVE  LET r == Performed(i)
         IN  /\ r \in Regs /\ SameLc(r, Entered(i)) /\ r.dc = rdc
             /\ r.npc = Succ(npc) /\ ~r.inhibit /\ ~r.nextInstr /\ r.ptr = spcptr
             /\ r.write = Write(Up(spcptr), Plain(IF i.N THEN npc ELSE Succ(npc)))
             /\ (n(i) <=> i.N) /\ spush(i) /\ ~destspc(i) /\ ~destlc(i) /\ ~irdisp(i)
             /\ iwrite(i) /\ ~nextInstr(i) /\ wpc(i) = pc
<1> DEFINE e == Entered(i)
           w == Plain(IF i.N THEN npc ELSE Succ(npc))
           p == PushSpc(e, w)
           q == [p EXCEPT !.pushed = FALSE, !.popped = FALSE]
           r == Performed(i)
<1>1. /\ TypeOK /\ p1pc = lpc /\ npc = pc /\ spcptr = rptr /\ ~nop /\ ~bootTrap /\ ~iwrited
  BY InLine
<1>2. /\ e \in Regs /\ Once(e)
      /\ e.npc = Succ(npc) /\ ~e.inhibit /\ (e.popj <=> i.popj) /\ ~e.nextInstr
      /\ ~e.pushed /\ e.dc = dc
  BY <1>1, EnteredIs
<1>3. w \in Word /\ Saved(e, i) = w
  BY <1>1, <1>2, Addresses DEF Saved, Plain, Word, TypeOK, MicroTypeOK
<1>4. i.cond /\ ~i.inv /\ ~i.popj /\ i.cond # i.inv
  BY DEF IMemIsACall, Instr
<1>5. Jump(e, i) = PopSpc(q)
  BY <1>3, <1>4 DEF Jump, WriteIMem
<1>6. r = IF Jump(e, i).popj THEN Return(Jump(e, i), i) ELSE Jump(e, i)
  BY DEF Performed
<1> HIDE DEF e, w
<1>7. /\ p \in Regs /\ Once(p) /\ SameFlow(p, e) /\ SameLc(p, e) /\ p.dc = e.dc
      /\ p.pushed /\ p.write = Write(Up(spcptr), w)
  BY <1>1, <1>2, <1>3, PushIs
<1>8. p.ptr = Up(spcptr) /\ Down(p.ptr) = spcptr /\ spcptr \in Slot
  BY <1>1, <1>7, Pointers DEF Once, TypeOK, MicroTypeOK
<1> HIDE DEF p
<1>9. PopSpc(q) = [p EXCEPT !.pushed = FALSE, !.popped = TRUE, !.ptr = spcptr]
  BY <1>7, <1>8 DEF PopSpc, Regs
<1> HIDE DEF q
<1>10. [p EXCEPT !.pushed = FALSE, !.popped = TRUE, !.ptr = spcptr] \in Regs
  BY <1>7, <1>8 DEF Regs
<1>11. /\ Jump(e, i) \in Regs /\ SameFlow(Jump(e, i), p) /\ SameLc(Jump(e, i), p)
       /\ Jump(e, i).ptr = spcptr /\ Jump(e, i).dc = p.dc /\ Jump(e, i).write = p.write
  BY <1>5, <1>7, <1>9, <1>10 DEF Regs, SameFlow, SameLc
<1>12. r = Jump(e, i)
  BY <1>2, <1>4, <1>6, <1>7, <1>11 DEF SameFlow
<1> HIDE DEF r
<1>13. /\ r \in Regs /\ SameLc(r, e) /\ r.dc = rdc
       /\ r.npc = Succ(npc) /\ ~r.inhibit /\ ~r.nextInstr /\ r.ptr = spcptr
       /\ r.write = Write(Up(spcptr), w)
  <2>1. r.dc = rdc
    BY <1>2, <1>7, <1>11, <1>12 DEF LockInv
  <2>2. QED
    BY <1>2, <1>7, <1>11, <1>12, <2>1 DEF SameFlow, SameLc
<1>14. /\ taken(i) /\ ~irdisp(i) /\ ~destspc(i) /\ ~destlc(i) /\ ~jreturn(i) /\ ~dispenb(i)
       /\ ~popj(i) /\ iwrite(i)
  BY <1>1, <1>4 DEF irjump, irdisp, taken, dispenb, jreturn, destspc, destlc, dest, popj, iwrite
<1>15. (n(i) <=> i.N) /\ spush(i) /\ ~nextInstr(i) /\ wpc(i) = pc
  BY <1>1, <1>14 DEF n, spush, spop, nextInstr, wpc
<1>16. QED
  BY <1>13, <1>14, <1>15 DEF r, e, w

-------------------------------------------------------------------------------
(* The stream: the location counter after an instruction. *)

InCount(x, c, b) == x = IF b THEN c ELSE Halfword(c)

\* micro's counter is rtl's without the low bit of a halfword: both step alike.
LEMMA StepsTogether ==
  ASSUME NEW c \in Count, NEW b \in BOOLEAN, NEW x, InCount(x, c, b)
  PROVE  /\ InCount(Stepped(x, b), Stepped(c, b), b)
         /\ LastByte(Stepped(x, b), b) <=> LastByte(Stepped(c, b), b)
         /\ x \div 4 = c \div 4
<1>1. CASE b
  BY <1>1, Counts DEF InCount
<1>2. CASE ~b
  <2>1. x = Halfword(c) /\ b = FALSE
    BY <1>2 DEF InCount
  <2>2. Stepped(c, FALSE) \in Count
    BY Counts
  <2>3. Stepped(x, b) = Halfword(Stepped(c, b)) /\ x \div 4 = c \div 4
    BY <2>1, Counts
  <2>4. LastByte(Halfword(Stepped(c, b)), b) <=> LastByte(Stepped(c, b), b)
    BY <2>1, <2>2, Counts
  <2>5. QED
    BY <1>2, <2>3, <2>4 DEF InCount
<1>3. QED
  BY <1>1, <1>2

\* What the counter is to be after the microcycle, on `micro`.
StreamAfter(e, i) ==
  /\ InCount(e.lc, rlc', rbyte') /\ e.byte = rbyte' /\ e.vma = rvma'
  /\ lcSet \/ Writes(i, "lc") => (e.need <=> newlc' \/ LastByte(rlc', rbyte'))

LEMMA StreamSame ==
  ASSUME NEW e, NEW r, NEW i, StreamAfter(e, i), SameLc(r, e)
  PROVE  StreamAfter(r, i)
  BY DEF StreamAfter, SameLc

\* One step of the counter on both: armed by the microcycle before or asked
\* for by a dispatch.
LEMMA StreamSteps ==
  ASSUME LockInv, NEW i \in Instr, NEW e \in Regs,
         e.lc = lc, e.need = need, e.byte = byteMode, e.vma = vma,
         ~destlc(i), ~destintctl(i), lcinc(i), lcSet, ClockEdge(i)
  PROVE  StreamAfter(StepLc(e), i)
<1> DEFINE r == StepLc(e)
<1>1. /\ r.lc = Stepped(e.lc, e.byte) /\ (r.need <=> LastByte(r.lc, e.byte))
      /\ r.byte = e.byte /\ r.vma = IF e.need THEN e.lc \div 4 ELSE e.vma
  BY StepLcIs
<1> HIDE DEF r
<1>2. /\ rlc' = Stepped(rlc, rbyte) /\ rbyte' = rbyte /\ ~newlc'
      /\ rvma' = IF newlc \/ LastByte(rlc, rbyte) THEN rlc \div 4 ELSE rvma
  BY DEF ClockEdge, needfetch, haveWrongWord
<1>3. /\ InCount(lc, rlc, rbyte) /\ byteMode = rbyte /\ vma = rvma
      /\ (need <=> newlc \/ LastByte(rlc, rbyte))
  BY DEF LockInv, SameStream, InCount
<1>4. rlc \in Count /\ rbyte \in BOOLEAN
  BY DEF LockInv, TypeOK, RtlTypeOK
<1>5. /\ InCount(Stepped(lc, rbyte), Stepped(rlc, rbyte), rbyte)
      /\ LastByte(Stepped(lc, rbyte), rbyte) <=> LastByte(Stepped(rlc, rbyte), rbyte)
      /\ lc \div 4 = rlc \div 4
  BY <1>3, <1>4, StepsTogether
<1>6. StreamAfter(r, i)
  BY <1>1, <1>2, <1>3, <1>5 DEF StreamAfter
<1>7. QED
  BY <1>6 DEF r

\* No step: the counter stands.
LEMMA StreamStands ==
  ASSUME LockInv, NEW i \in Instr, NEW e \in Regs,
         e.lc = lc, e.need = need, e.byte = byteMode, e.vma = vma,
         ~destlc(i), ~destintctl(i), ~lcinc(i), ClockEdge(i), ~Writes(i, "lc")
  PROVE  StreamAfter(e, i)
<1>1. rlc' = rlc /\ rbyte' = rbyte /\ rvma' = rvma /\ (newlc' <=> newlc)
  BY DEF ClockEdge, haveWrongWord
<1>2. /\ InCount(lc, rlc, rbyte) /\ byteMode = rbyte /\ vma = rvma
      /\ lcSet => (need <=> newlc \/ LastByte(rlc, rbyte))
  BY DEF LockInv, SameStream, InCount
<1>3. QED
  BY <1>1, <1>2 DEF StreamAfter

\* The counter or its mode is written, in no microcycle a return armed.
LEMMA StreamWritten ==
  ASSUME LockInv, ~nop, NEW i \in Instr, i.op = "alu", i.dest \in {"lc", "intctl"},
         WriteApart(i), ModeAtHalfword(i), ClockEdge(i),
         NEW e \in Regs, e.lc = lc, e.need = need, e.byte = byteMode, e.vma = vma,
         Once(e), ~e.pushed
  PROVE  ~nextInstrd /\ StreamAfter(Alu(e, i), i)
<1> DEFINE r == Alu(e, i)
<1>0. TypeOK /\ i.cnt \in Count /\ i.byte \in BOOLEAN
  BY DEF LockInv, Instr
<1>1. /\ r.lc = IF i.dest = "lc" THEN IF e.byte THEN i.cnt ELSE Halfword(i.cnt) ELSE e.lc
      /\ (r.need <=> i.dest = "lc" \/ e.need)
      /\ r.byte = (IF i.dest = "intctl" THEN i.byte ELSE e.byte) /\ r.vma = e.vma
  BY <1>0, AluIs
<1> HIDE DEF r
<1>2. ~nextInstrd /\ ~rnextInstrd
  BY DEF WriteApart, Writes, LockInv, SameStream
<1>3. ~irdisp(i) /\ ~lcinc(i) /\ (destlc(i) <=> i.dest = "lc") /\ (destintctl(i) <=> i.dest = "intctl")
  BY <1>2 DEF irdisp, lcinc, destlc, destintctl, dest
<1>4. /\ rlc' = (IF i.dest = "lc" THEN i.cnt ELSE rlc)
      /\ rbyte' = (IF i.dest = "intctl" THEN i.byte ELSE rbyte)
      /\ (newlc' <=> newlc \/ i.dest = "lc") /\ rvma' = rvma
  BY <1>3 DEF ClockEdge, haveWrongWord
<1>5. /\ InCount(lc, rlc, rbyte) /\ byteMode = rbyte /\ vma = rvma
      /\ lcSet => (need <=> newlc \/ LastByte(rlc, rbyte))
      /\ rlc \in Count /\ rbyte \in BOOLEAN
  BY DEF LockInv, SameStream, InCount, TypeOK, RtlTypeOK
<1>6. CASE i.dest = "lc"
  BY <1>1, <1>2, <1>4, <1>5, <1>6 DEF StreamAfter, InCount, r
<1>7. CASE i.dest = "intctl"
  <2>1. CASE i.byte = rbyte
    BY <1>1, <1>2, <1>4, <1>5, <1>7, <2>1 DEF StreamAfter, InCount, Writes, r
  <2>2. CASE i.byte # rbyte
    <3>1. Halfword(rlc) = rlc /\ (LastByte(rlc, TRUE) <=> LastByte(rlc, FALSE))
      BY <1>5, <1>7, <2>2, Counts DEF ModeAtHalfword, Writes
    <3>2. lc = rlc /\ InCount(rlc, rlc, i.byte)
      BY <1>5, <3>1 DEF InCount
    <3>3. LastByte(rlc, i.byte) <=> LastByte(rlc, rbyte)
      BY <1>0, <1>5, <3>1
    <3>4. QED
      BY <1>1, <1>2, <1>4, <1>5, <1>7, <3>2, <3>3 DEF StreamAfter, Writes, r
  <2>3. QED
    BY <2>1, <2>2
<1>8. QED
  BY <1>6, <1>7

\* What an instruction leaves of the counter before fetch_and_clock.
Worked(i) ==
  IF i.op = "alu" THEN Alu(Entered(i), i)
  ELSE IF i.op = "dispatch" /\ i.adv THEN StepLc(Entered(i)) ELSE Entered(i)

LEMMA ClockedIs ==
  ASSUME NEW e \in Regs
  PROVE  LET r == Clocked(e)
         IN  r \in Regs /\ SameFlow(r, e) /\ SameSpc(r, e) /\ r.dc = e.dc
<1>1. CASE nextInstrd
  BY <1>1, StepLcIs DEF Clocked
<1>2. CASE ~nextInstrd
  BY <1>2 DEF Clocked, SameFlow, SameSpc
<1>3. QED
  BY <1>1, <1>2

LEMMA StreamExecuted ==
  ASSUME LockInv, ~nop, NEW i \in Instr, OneStep(i), WriteApart(i), ModeAtHalfword(i), LcFirst(i),
         ClockEdge(i), NEW r \in Regs, SameLc(r, Worked(i))
  PROVE  StreamAfter(Clocked(r), i)
<1> DEFINE e == Entered(i)
<1>0. TypeOK /\ i.op \in {"alu", "jump", "dispatch"} /\ i.dest \in Dests
  BY DEF LockInv, Instr
<1>1. /\ e \in Regs /\ Once(e) /\ ~e.pushed
      /\ e.lc = lc /\ e.need = need /\ e.byte = byteMode /\ e.vma = vma
  BY <1>0, EnteredIs
<1>2. rnextInstrd = nextInstrd /\ (nextInstrd => lcSet)
  BY DEF LockInv, SameStream, Unset
<1>3. CASE i.op = "alu" /\ i.dest \in {"lc", "intctl"}
  <2>1. ~nextInstrd /\ StreamAfter(Alu(e, i), i)
    BY <1>1, <1>3, StreamWritten
  <2>2. SameLc(r, Alu(e, i)) /\ Clocked(r) = r
    BY <1>3, <2>1 DEF Worked, Clocked
  <2>3. QED
    BY <2>1, <2>2, StreamSame
<1>4. CASE i.op = "dispatch" /\ i.adv
  <2>1. ~nextInstrd /\ lcSet
    BY <1>4 DEF OneStep, LcFirst
  <2>2. ~destlc(i) /\ ~destintctl(i) /\ lcinc(i)
    BY <1>4 DEF destlc, destintctl, dest, lcinc, irdisp
  <2>3. StreamAfter(StepLc(e), i)
    BY <1>1, <2>1, <2>2, StreamSteps
  <2>4. SameLc(r, StepLc(e)) /\ Clocked(r) = r
    BY <1>4, <2>1 DEF Worked, Clocked
  <2>5. QED
    BY <2>3, <2>4, StreamSame
<1>5. CASE /\ ~(i.op = "alu" /\ i.dest \in {"lc", "intctl"})
           /\ ~(i.op = "dispatch" /\ i.adv)
  <2>1. r.lc = lc /\ r.need = need /\ r.byte = byteMode /\ r.vma = vma
    <3>1. CASE i.op = "alu"
      <4>1. SameLc(r, Alu(e, i)) /\ i.dest \in {"m", "spc"}
        BY <1>0, <1>5, <3>1 DEF Worked, Dests
      <4>2. LET f == Alu(e, i)
            IN  f \in Regs /\ f.lc = e.lc /\ (f.need <=> e.need) /\ f.byte = e.byte /\ f.vma = e.vma
        BY <1>0, <1>1, <4>1, AluIs
      <4>3. Alu(e, i).need = e.need
        BY <1>1, <4>2 DEF Regs
      <4>4. QED
        BY <1>1, <4>1, <4>2, <4>3 DEF SameLc
    <3>2. CASE i.op # "alu"
      BY <1>1, <1>5, <3>2 DEF Worked, SameLc
    <3>3. QED
      BY <3>1, <3>2
  <2>2. ~destlc(i) /\ ~destintctl(i) /\ (lcinc(i) <=> nextInstrd) /\ ~Writes(i, "lc")
    BY <1>2, <1>5 DEF destlc, destintctl, dest, lcinc, irdisp, Writes
  <2>3. CASE nextInstrd
    <3>1. Clocked(r) = StepLc(r) /\ lcSet
      BY <1>2, <2>3 DEF Clocked
    <3>2. QED
      BY <2>1, <2>2, <2>3, <3>1, StreamSteps
  <2>4. CASE ~nextInstrd
    <3>1. Clocked(r) = r
      BY <2>4 DEF Clocked
    <3>2. QED
      BY <2>1, <2>2, <2>4, <3>1, StreamStands
  <2>5. QED
    BY <2>3, <2>4
<1>6. QED
  BY <1>0, <1>3, <1>4, <1>5

-------------------------------------------------------------------------------
(* The invariant is kept. *)

LEMMA RtlTypes ==
  ASSUME TypeOK, NEW i \in Instr, Microcycle(i)
  PROVE  RtlTypeOK'
<1>1. WritePhase \in [Slot -> Word]
  BY Addresses DEF TypeOK, RtlTypeOK, WritePhase, spcw, Plain, Word
<1>2. rspc' \in [Slot -> Word]
  BY <1>1 DEF Microcycle, TypeOK, RtlTypeOK
<1>3. spcBus \in Word
  BY <1>1, SpcBusIs DEF TypeOK, RtlTypeOK
<1>4. needfetch(i) \in BOOLEAN /\ haveWrongWord(i) \in BOOLEAN /\ lcinc(i) \in BOOLEAN
  BY DEF needfetch, haveWrongWord, lcinc, TypeOK, RtlTypeOK, destlc, dest, LastByte
<1>5. /\ i.target \in Addr /\ i.word \in Word /\ i.cnt \in Count /\ i.byte \in BOOLEAN
      /\ i.cst \in Count
  BY DEF Instr
<1>6. pc' \in Addr
  <2>1. pc' = NPC(i) /\ pc \in Addr /\ bootTrap \in BOOLEAN
    BY DEF Microcycle, ClockEdge, TypeOK, RtlTypeOK
  <2>2. CASE bootTrap
    BY <2>1, <2>2, Addresses DEF NPC
  <2>3. CASE ~bootTrap
    BY <1>3, <1>4, <1>5, <2>1, <2>3, Addresses, Returns, Selects
  <2>4. QED
    BY <2>2, <2>3
<1>7. lpc' \in Addr /\ reta' \in Addr
  BY Addresses DEF Microcycle, ClockEdge, TypeOK, RtlTypeOK, wpc
<1>8. rptr' \in Slot /\ l' \in Word
  BY <1>5, Pointers DEF Microcycle, ClockEdge, TypeOK, RtlTypeOK
<1>9. rlc' \in Count /\ rdc' \in Count /\ rvma' \in Count
  BY <1>5, Counts DEF Microcycle, ClockEdge, TypeOK, RtlTypeOK
<1>10. /\ inop' \in BOOLEAN /\ iwrited' \in BOOLEAN /\ bootTrap' \in BOOLEAN
       /\ spushd' \in BOOLEAN /\ destspcd' \in BOOLEAN /\ pulsed' \in BOOLEAN
  BY DEF Microcycle, ClockEdge, n, iwrite, spush, destspc, dest
<1>11. rbyte' \in BOOLEAN /\ newlc' \in BOOLEAN /\ rnextInstrd' \in BOOLEAN
  BY <1>4, <1>5 DEF Microcycle, ClockEdge, nextInstr, TypeOK, RtlTypeOK
<1>12. QED
  BY <1>2, <1>6, <1>7, <1>8, <1>9, <1>10, <1>11 DEF RtlTypeOK

\* SameStream after a step, but for the armed fetch.
StreamKept ==
  /\ lc' = (IF rbyte' THEN rlc' ELSE Halfword(rlc')) /\ byteMode' = rbyte'
  /\ lcSet' => need' = (newlc' \/ LastByte(rlc', rbyte'))
  /\ vma' = rvma'

\* The write phase leaves on rtl what micro has after its writes land.
LEMMA Lands ==
  ASSUME LockInv, NEW i, Microcycle(i)
  PROVE  rspc' = Landed /\ ~pulsed' /\ ~bootTrap'
  BY DEF LockInv, Stacks, Microcycle

\* What executing any instruction changes on the two engines.
LEMMA Executed ==
  ASSUME LockInv, NEW i \in Instr, OneStep(i), WriteApart(i), ModeAtHalfword(i), LcFirst(i),
         MicroExecute(i), RtlExecute(i), lcSet' = (lcSet \/ Writes(i, "lc")),
         Performed(i) \in Regs, SameLc(Performed(i), Worked(i))
  PROVE  LET r == Performed(i)
         IN  /\ MicroTypeOK' /\ RtlTypeOK' /\ lcSet' \in BOOLEAN /\ StreamKept
             /\ spc' = Landed /\ rspc' = Landed /\ ~pulsed' /\ ~bootTrap'
             /\ p1pc' = npc /\ npc' = r.npc /\ (inhibit' <=> r.inhibit)
             /\ (nextInstrd' <=> r.nextInstr) /\ spcptr' = r.ptr /\ spcWrite' = r.write
             /\ dc' = r.dc
<1> DEFINE r == Performed(i)
           e == Clocked(r)
<1>1. ~nop /\ Microcycle(i) /\ ClockEdge(i) /\ TypeOK
  BY DEF RtlExecute, Microcycle, LockInv
<1>2. /\ p1pc' = npc /\ npc' = e.npc /\ inhibit' = e.inhibit
      /\ nextInstrd' = e.nextInstr
      /\ spc' = Landed /\ spcptr' = e.ptr /\ spcWrite' = e.write
      /\ lc' = e.lc /\ need' = e.need /\ byteMode' = e.byte
      /\ dc' = e.dc /\ vma' = e.vma
  BY DEF MicroExecute
<1> HIDE DEF r
<1>3. e \in Regs /\ SameFlow(e, r) /\ SameSpc(e, r) /\ e.dc = r.dc
  BY ClockedIs DEF r
<1>4. StreamAfter(e, i)
  BY <1>1, StreamExecuted DEF r
<1> HIDE DEF e
<1>5. MicroTypeOK'
  BY <1>1, <1>2, <1>3, LandedType DEF TypeOK, MicroTypeOK, Regs, Pending
<1>6. RtlTypeOK'
  BY <1>1, RtlTypes
<1>7. lcSet' \in BOOLEAN
  BY DEF LockInv, TypeOK, Writes
<1>8. StreamKept
  <2>1. need' \in BOOLEAN /\ newlc' \in BOOLEAN
    BY <1>5, <1>6 DEF MicroTypeOK, RtlTypeOK
  <2>2. lcSet' => (need' <=> newlc' \/ LastByte(rlc', rbyte'))
    BY <1>2, <1>4 DEF StreamAfter
  <2>3. LastByte(rlc', rbyte') \in BOOLEAN
    BY DEF LastByte
  <2>4. QED
    BY <1>2, <1>4, <2>1, <2>2, <2>3 DEF StreamKept, StreamAfter, InCount
<1>9. rspc' = Landed /\ ~pulsed' /\ ~bootTrap'
  BY <1>1, Lands
<1>10. QED
  BY <1>2, <1>3, <1>5, <1>6, <1>7, <1>8, <1>9 DEF SameFlow, SameSpc, r

\* The two stacks after a step, spelled out.
LEMMA PrimedStacks ==
  /\ Landed' = IF spcWrite'.on THEN [spc' EXCEPT ![spcWrite'.ptr] = spcWrite'.word] ELSE spc'
  /\ WritePhase' = IF spushd' THEN [rspc' EXCEPT ![rptr'] = spcw'] ELSE rspc'
  /\ spcw' = IF destspcd' THEN l' ELSE Plain(reta')
  BY DEF Landed, WritePhase, spcw

\* An instruction other than a control store write, executed in line.
LEMMA ExecuteInLine ==
  ASSUME LockInv, Ready, AllRules \subseteq Rules, NEW i \in code, code' = code, Execute(i),
         ~(i.op = "jump" /\ i.P /\ i.R)
  PROVE  LockInv'
<1> DEFINE r == Performed(i)
<1>1. i \in Instr /\ code' \in Codes
  BY CodeAssumption DEF LockInv
<1>2. /\ IMemIsACall(i) /\ OneStep(i) /\ WriteApart(i) /\ AdvanceReturnsNot(i)
      /\ LcReadApart(i) /\ ModeAtHalfword(i) /\ LpcInLine(i) /\ WriteIsQuiet(i) /\ LcFirst(i)
  BY <1>1, RulesHold DEF Execute
<1>3. /\ TypeOK /\ p1pc = lpc /\ npc = pc /\ spcptr = rptr /\ ~nop /\ ~bootTrap /\ ~iwrited
      /\ spcBus = Landed[spcptr] /\ Landed[spcptr] \in Word
  BY InLine
<1>4. Matches(r, i) /\ SameLc(r, Worked(i))
  <2>0. i.op \in {"alu", "jump", "dispatch"}
    BY <1>1 DEF Instr
  <2>1. CASE i.op = "alu"
    BY <1>1, <2>1, MatchAlu DEF Worked
  <2>2. CASE i.op = "jump"
    BY <1>1, <2>2, MatchJump DEF Worked
  <2>3. CASE i.op = "dispatch"
    BY <1>1, <1>2, <2>3, MatchDispatch DEF Worked
  <2>4. QED
    BY <2>0, <2>1, <2>2, <2>3
<1>5. /\ r \in Regs /\ Once(r) /\ r.npc = NPC(i) /\ (r.inhibit <=> n(i))
      /\ (r.pushed <=> spush(i)) /\ (~r.pushed => (r.popped <=> spop(i)))
      /\ (r.nextInstr <=> nextInstr(i))
      /\ r.pushed => r.write.word = (IF destspc(i) THEN i.word
                                     ELSE Plain(IF n(i) THEN wpc(i) ELSE Succ(pc)))
      /\ r.dc = IF irdisp(i) THEN i.cst ELSE rdc
  BY <1>4 DEF Matches
<1>6. /\ MicroTypeOK' /\ RtlTypeOK' /\ lcSet' \in BOOLEAN /\ StreamKept
      /\ spc' = Landed /\ rspc' = Landed /\ ~pulsed' /\ ~bootTrap'
      /\ p1pc' = npc /\ npc' = r.npc /\ (inhibit' <=> r.inhibit)
      /\ (nextInstrd' <=> r.nextInstr) /\ spcptr' = r.ptr /\ spcWrite' = r.write
      /\ dc' = r.dc
  BY <1>1, <1>2, <1>4, <1>5, Executed DEF Execute
<1>7. /\ pc' = NPC(i) /\ lpc' = pc /\ inop' = n(i) /\ iwrited' = iwrite(i)
      /\ rptr' = (IF spush(i) THEN Up(rptr) ELSE IF spop(i) THEN Down(rptr) ELSE rptr)
      /\ spushd' = spush(i) /\ destspcd' = destspc(i)
      /\ l' = i.word /\ reta' = (IF n(i) THEN wpc(i) ELSE Succ(pc))
      /\ rnextInstrd' = nextInstr(i)
      /\ rdc' = IF irdisp(i) THEN i.cst ELSE rdc
  BY DEF Execute, RtlExecute, Microcycle, ClockEdge
<1> HIDE DEF r
<1>8. ~iwrited'
  BY <1>7 DEF iwrite, irjump
<1>9. rptr' = spcptr'
  BY <1>3, <1>5, <1>6, <1>7 DEF Once
<1>10. /\ (spcWrite'.on <=> spushd')
       /\ spushd' => spcWrite'.ptr = rptr' /\ spcWrite'.word = spcw'
  BY <1>3, <1>5, <1>6, <1>7, PrimedStacks DEF Once
<1>11. Landed' = WritePhase'
  BY <1>6, <1>10, PrimedStacks
<1>12. nextInstrd' = rnextInstrd'
  BY <1>5, <1>6, <1>7 DEF MicroTypeOK, RtlTypeOK
<1>13. Unset'
  <2>1. SUFFICES ASSUME ~lcSet' PROVE ~nextInstrd' /\ \A p \in Slot : ~Landed'[p].f
    BY DEF Unset
  <2>2. ~lcSet
    BY <2>1 DEF Execute
  <2>3. \A p \in Slot : ~Landed[p].f
    BY <2>2 DEF LockInv, Unset
  <2>4. ~nextInstrd'
    BY <1>3, <1>5, <1>6, <2>3 DEF nextInstr, TypeOK, MicroTypeOK
  <2>5. spushd' => ~spcWrite'.word.f
    <3>1. CASE spushd' /\ destspc(i)
      <4>1. Writes(i, "spc") /\ spcWrite'.word = i.word
        BY <1>5, <1>6, <1>7, <3>1 DEF destspc, dest, Writes
      <4>2. QED
        BY <1>2, <2>2, <4>1 DEF LcFirst
    <3>2. CASE spushd' /\ ~destspc(i)
      BY <1>5, <1>6, <1>7, <3>2 DEF Plain
    <3>3. QED
      BY <3>1, <3>2
  <2>6. Landed \in [Slot -> Word]
    BY <1>3, LandedType
  <2>7. QED
    BY <1>6, <1>10, <2>3, <2>4, <2>5, <2>6, PrimedStacks
<1>14. Stacks'
  BY <1>6, <1>11 DEF Stacks
<1>15. Booting' /\ Writing'
  BY <1>6, <1>8 DEF Booting, Writing
<1>16. inhibit' <=> inop'
  BY <1>5, <1>6, <1>7
<1>17. p1pc' = lpc' /\ npc' = pc'
  BY <1>3, <1>5, <1>6, <1>7
<1>18. Nopping' /\ Behind'
  BY <1>8, <1>9, <1>16, <1>17 DEF Nopping, Behind
<1>19. Aligned'
  BY <1>6, <1>9, <1>17 DEF Aligned
<1>20. dc' = rdc' /\ SameStream'
  BY <1>5, <1>6, <1>7, <1>12 DEF StreamKept, SameStream
<1>21. QED
  BY <1>1, <1>6, <1>13, <1>14, <1>15, <1>18, <1>19, <1>20 DEF LockInv, TypeOK

\* A control store write: `rtl` pushes, and pops in the microcycle after.
LEMMA ExecuteWrite ==
  ASSUME LockInv, Ready, AllRules \subseteq Rules, NEW i \in code, code' = code, Execute(i),
         i.op = "jump", i.P, i.R
  PROVE  LockInv'
<1> DEFINE r == Performed(i)
           w == Plain(IF i.N THEN npc ELSE Succ(npc))
<1>1. i \in Instr /\ code' \in Codes
  BY CodeAssumption DEF LockInv
<1>2. /\ IMemIsACall(i) /\ OneStep(i) /\ WriteApart(i) /\ ModeAtHalfword(i) /\ LcFirst(i)
  BY <1>1, RulesHold DEF Execute
<1>3. /\ TypeOK /\ p1pc = lpc /\ npc = pc /\ spcptr = rptr /\ ~nop /\ ~bootTrap /\ ~iwrited
  BY InLine
<1>4. /\ r \in Regs /\ SameLc(r, Entered(i)) /\ r.dc = rdc
      /\ r.npc = Succ(npc) /\ ~r.inhibit /\ ~r.nextInstr /\ r.ptr = spcptr
      /\ r.write = Write(Up(spcptr), w)
      /\ (n(i) <=> i.N) /\ spush(i) /\ ~destspc(i) /\ ~destlc(i) /\ ~irdisp(i)
      /\ iwrite(i) /\ ~nextInstr(i) /\ wpc(i) = pc
  BY <1>1, <1>2, MatchWrite
<1>5. SameLc(r, Worked(i))
  BY <1>4 DEF Worked
<1>6. /\ MicroTypeOK' /\ RtlTypeOK' /\ lcSet' \in BOOLEAN /\ StreamKept
      /\ spc' = Landed /\ rspc' = Landed /\ ~pulsed' /\ ~bootTrap'
      /\ p1pc' = npc /\ npc' = r.npc /\ (inhibit' <=> r.inhibit)
      /\ (nextInstrd' <=> r.nextInstr) /\ spcptr' = r.ptr /\ spcWrite' = r.write
      /\ dc' = r.dc
  BY <1>1, <1>2, <1>4, <1>5, Executed DEF Execute
<1>7. /\ lpc' = pc /\ inop' = n(i) /\ iwrited' = iwrite(i)
      /\ rptr' = (IF spush(i) THEN Up(rptr) ELSE IF spop(i) THEN Down(rptr) ELSE rptr)
      /\ spushd' = spush(i) /\ destspcd' = destspc(i)
      /\ reta' = (IF n(i) THEN wpc(i) ELSE Succ(pc))
      /\ rnextInstrd' = nextInstr(i)
      /\ rdc' = IF irdisp(i) THEN i.cst ELSE rdc
  BY DEF Execute, RtlExecute, Microcycle, ClockEdge
<1>8. w \in Word /\ ~w.f /\ Up(spcptr) \in Slot
  BY <1>3, Addresses, Pointers DEF Plain, Word, TypeOK, MicroTypeOK
<1>9. w = Plain(reta')
  BY <1>3, <1>4, <1>7
<1> HIDE DEF r, w
<1>10. spcWrite'.on /\ spcWrite'.ptr = Up(spcptr) /\ spcWrite'.word = w
  BY <1>4, <1>6, <1>8, WriteTypes
<1>11. Landed' = WritePhase'
  BY <1>3, <1>4, <1>6, <1>7, <1>9, <1>10, PrimedStacks
<1>12. nextInstrd' = rnextInstrd' /\ ~nextInstrd'
  BY <1>4, <1>6, <1>7 DEF MicroTypeOK, RtlTypeOK
<1>13. Unset'
  <2>1. SUFFICES ASSUME ~lcSet' PROVE \A p \in Slot : ~Landed'[p].f
    BY <1>12 DEF Unset
  <2>2. \A p \in Slot : ~Landed[p].f
    BY <2>1 DEF Execute, LockInv, Unset
  <2>3. Landed \in [Slot -> Word]
    BY <1>3, LandedType
  <2>4. QED
    BY <1>6, <1>8, <1>10, <2>2, <2>3, PrimedStacks
<1>14. Stacks'
  BY <1>6, <1>11 DEF Stacks
<1>15. ~inhibit' /\ iwrited'
  BY <1>4, <1>6, <1>7
<1>16. Booting' /\ Nopping' /\ Aligned' /\ Behind'
  BY <1>6, <1>15 DEF Booting, Nopping, Aligned, Behind, Ready, Executing
<1>17. Writing'
  <2>1. spushd' /\ ~destspcd' /\ rptr' = Up(spcptr') /\ spcWrite'.ptr = rptr'
    BY <1>3, <1>4, <1>6, <1>7, <1>10
  <2>2. npc' = Succ(p1pc') /\ reta' = (IF inop' THEN p1pc' ELSE npc') /\ p1pc' = lpc'
    BY <1>3, <1>4, <1>6, <1>7
  <2>3. QED
    BY <1>6, <1>10, <1>12, <1>15, <2>1, <2>2 DEF Writing
<1>18. dc' = rdc' /\ SameStream'
  BY <1>4, <1>6, <1>7, <1>12 DEF StreamKept, SameStream
<1>19. QED
  BY <1>1, <1>6, <1>13, <1>14, <1>16, <1>17, <1>18 DEF LockInv, TypeOK

\* The instruction in the slot of a control store write, `rtl`'s pop with it.
LEMMA ExecuteSlot ==
  ASSUME LockInv, Executing, iwrited, AllRules \subseteq Rules, NEW i \in code, code' = code,
         Execute(i)
  PROVE  LockInv'
<1> DEFINE e == Entered(i)
           r == Performed(i)
<1>1. i \in Instr /\ code' \in Codes
  BY CodeAssumption DEF LockInv
<1>2. /\ IMemIsACall(i) /\ OneStep(i) /\ WriteApart(i) /\ ModeAtHalfword(i) /\ LcFirst(i)
  BY <1>1, RulesHold DEF Execute
<1>3. /\ TypeOK /\ ~nop /\ ~bootTrap /\ ~inop /\ ~inhibit /\ ~nextInstrd /\ spushd /\ ~destspcd
      /\ rptr = Up(spcptr) /\ npc = Succ(p1pc) /\ reta = npc /\ rnextInstrd = nextInstrd
  BY DEF LockInv, Executing, Writing, nop, SameStream
<1>4. /\ i.op = "alu" /\ ~i.popj /\ i.src # "pop" /\ i.dest # "spc"
  BY <1>2 DEF IMemIsACall
<1>5. /\ e \in Regs /\ Once(e)
      /\ e.npc = Succ(npc) /\ ~e.inhibit /\ (e.popj <=> i.popj) /\ ~e.nextInstr
      /\ ~e.pushed /\ (e.popped <=> (i.src = "pop")) /\ e.dc = dc
  BY <1>1, <1>3, EnteredIs
<1>6. LET f == Alu(e, i)
      IN  /\ f \in Regs /\ Once(f) /\ SameFlow(f, e) /\ f.dc = e.dc
          /\ (f.pushed <=> i.dest = "spc") /\ (f.popped <=> e.popped)
  BY <1>1, <1>3, <1>5, AluIs
<1>7. r = Alu(e, i)
  <2>1. r = IF Alu(e, i).popj THEN Return(Alu(e, i), i) ELSE Alu(e, i)
    BY <1>4 DEF Performed
  <2>2. ~Alu(e, i).popj
    BY <1>4, <1>5, <1>6 DEF SameFlow
  <2>3. QED
    BY <2>1, <2>2
<1>8. r \in Regs /\ SameLc(r, Worked(i))
  BY <1>4, <1>6, <1>7 DEF Worked, SameLc
<1> HIDE DEF e, r
<1>9. /\ r.npc = Succ(npc) /\ ~r.inhibit /\ ~r.nextInstr /\ r.ptr = spcptr /\ ~r.write.on
      /\ r.dc = dc
  BY <1>4, <1>5, <1>6, <1>7 DEF SameFlow, Once
<1>10. /\ MicroTypeOK' /\ RtlTypeOK' /\ lcSet' \in BOOLEAN /\ StreamKept
       /\ spc' = Landed /\ rspc' = Landed /\ ~pulsed' /\ ~bootTrap'
       /\ p1pc' = npc /\ npc' = r.npc /\ (inhibit' <=> r.inhibit)
       /\ (nextInstrd' <=> r.nextInstr) /\ spcptr' = r.ptr /\ spcWrite' = r.write
       /\ dc' = r.dc
  BY <1>1, <1>2, <1>8, Executed DEF Execute, r
<1>11. /\ ~irjump(i) /\ ~irdisp(i) /\ ~taken(i) /\ ~dispenb(i) /\ ~ignpopj(i) /\ ~jreturn(i)
       /\ ~destspc(i) /\ popj(i) /\ ~srcspcpopreal(i)
  BY <1>3, <1>4 DEF irjump, irdisp, taken, dispenb, ignpopj, jreturn, destspc, dest, popj,
                    srcspcpopreal
<1>12. n(i) /\ ~spush(i) /\ spop(i) /\ ~pcs1(i) /\ ~pcs0(i) /\ ~iwrite(i)
  BY <1>3, <1>11 DEF n, spush, spop, pcs1, pcs0, iwrite
<1>13. spcBus = Plain(reta) /\ ~spcBus.f /\ spcBus.pc = reta
  BY <1>3 DEF spcBus, spcw, Plain
<1>14. ~nextInstr(i)
  BY <1>13 DEF nextInstr
<1>15. NPC(i) = reta
  BY <1>3, <1>12, <1>13, Selects DEF ReturnTo
<1>16. /\ pc' = NPC(i) /\ lpc' = pc /\ inop' = n(i) /\ iwrited' = iwrite(i)
       /\ rptr' = (IF spush(i) THEN Up(rptr) ELSE IF spop(i) THEN Down(rptr) ELSE rptr)
       /\ spushd' = spush(i) /\ rnextInstrd' = nextInstr(i)
       /\ rdc' = IF irdisp(i) THEN i.cst ELSE rdc
  BY DEF Execute, RtlExecute, Microcycle, ClockEdge
<1>17. rptr' = spcptr'
  BY <1>3, <1>9, <1>10, <1>12, <1>16, Pointers DEF TypeOK, MicroTypeOK
<1>18. Landed' = Landed /\ WritePhase' = Landed
  BY <1>9, <1>10, <1>12, <1>16, PrimedStacks
<1>19. nextInstrd' = rnextInstrd' /\ ~nextInstrd'
  BY <1>9, <1>10, <1>14, <1>16 DEF MicroTypeOK, RtlTypeOK
<1>20. Stacks'
  BY <1>10, <1>18 DEF Stacks
<1>21. Unset'
  <2>1. ~lcSet' => ~lcSet
    BY DEF Execute
  <2>2. QED
    BY <1>18, <1>19, <2>1 DEF Unset, LockInv
<1>22. Booting' /\ Nopping' /\ Aligned' /\ Writing'
  BY <1>9, <1>10, <1>12, <1>16 DEF Booting, Nopping, Aligned, Writing, Ready, Executing, nop
<1>23. Behind'
  BY <1>3, <1>9, <1>10, <1>15, <1>16, <1>17, <1>19 DEF Behind
<1>24. dc' = rdc' /\ SameStream'
  <2>1. dc' = rdc'
    BY <1>9, <1>10, <1>11, <1>16 DEF LockInv
  <2>2. QED
    BY <1>10, <1>19, <2>1 DEF StreamKept, SameStream
<1>25. QED
  BY <1>1, <1>10, <1>20, <1>21, <1>22, <1>23, <1>24 DEF LockInv, TypeOK

-------------------------------------------------------------------------------
(* Nopped microcycles. *)

\* A nopped microcycle of rtl: nothing but an armed step and a control store
\* write's pop.
LEMMA Nopped ==
  ASSUME TypeOK, nop, NEW i \in Instr, Microcycle(i)
  PROVE  /\ lpc' = pc /\ ~iwrited' /\ ~spushd' /\ (inop' <=> bootTrap \/ iwrited)
         /\ rptr' = (IF iwrited THEN Down(rptr) ELSE rptr) /\ rdc' = rdc
         /\ (rnextInstrd' <=> iwrited /\ spcBus.f)
         /\ ~bootTrap => pc' = (IF iwrited THEN ReturnTo(spcBus, needfetch(i)) ELSE Succ(pc))
         /\ bootTrap => pc' = 0
         /\ ~destlc(i) /\ ~destintctl(i) /\ (lcinc(i) <=> rnextInstrd) /\ ClockEdge(i)
<1>1. /\ ~irjump(i) /\ ~irdisp(i) /\ ~destlc(i) /\ ~destspc(i) /\ ~destintctl(i)
      /\ ~srcspcpopreal(i) /\ (popj(i) <=> iwrited)
  BY DEF irjump, irdisp, destlc, destspc, destintctl, dest, srcspcpopreal, popj
<1>2. /\ ~dispenb(i) /\ ~ignpopj(i) /\ ~taken(i) /\ ~iwrite(i) /\ ~jreturn(i)
      /\ (lcinc(i) <=> rnextInstrd)
  BY <1>1 DEF dispenb, ignpopj, taken, iwrite, jreturn, lcinc
<1>3. /\ (spop(i) <=> iwrited) /\ ~spush(i) /\ (n(i) <=> bootTrap \/ iwrited)
      /\ (pcs1(i) <=> ~iwrited) /\ (pcs0(i) <=> ~iwrited)
  BY <1>1, <1>2 DEF spop, spush, n, pcs1, pcs0
<1>4. nextInstr(i) <=> iwrited /\ spcBus.f
  BY <1>1, <1>3 DEF nextInstr
<1>5. ClockEdge(i)
  BY DEF Microcycle
<1>6. ~bootTrap => pc' = (IF iwrited THEN ReturnTo(spcBus, needfetch(i)) ELSE Succ(pc))
  BY <1>3, <1>5, Selects DEF ClockEdge
<1>7. bootTrap => pc' = 0
  BY <1>5 DEF ClockEdge, NPC
<1>8. QED
  BY <1>1, <1>2, <1>3, <1>4, <1>5, <1>6, <1>7 DEF ClockEdge

LEMMA StreamNopped ==
  ASSUME LockInv, nop, NEW i \in Instr, Microcycle(i), lcSet' = lcSet,
         byteMode' = byteMode,
         lc' = (IF nextInstrd THEN Stepped(lc, byteMode) ELSE lc),
         need' = (IF nextInstrd THEN LastByte(Stepped(lc, byteMode), byteMode) ELSE need),
         vma' = (IF nextInstrd /\ need THEN lc \div 4 ELSE vma)
  PROVE  StreamKept
<1>1. /\ ~destlc(i) /\ ~destintctl(i) /\ (lcinc(i) <=> rnextInstrd) /\ ClockEdge(i) /\ TypeOK
  BY Nopped DEF LockInv
<1>2. /\ rnextInstrd = nextInstrd /\ (nextInstrd => lcSet)
      /\ InCount(lc, rlc, rbyte) /\ byteMode = rbyte /\ vma = rvma
      /\ lcSet => need = (newlc \/ LastByte(rlc, rbyte))
  BY DEF LockInv, SameStream, Unset, InCount
<1>3. rlc \in Count /\ rbyte \in BOOLEAN /\ newlc \in BOOLEAN
  BY <1>1 DEF TypeOK, RtlTypeOK
<1>4. CASE nextInstrd
  <2>1. /\ rlc' = Stepped(rlc, rbyte) /\ rbyte' = rbyte /\ newlc' = FALSE
        /\ rvma' = IF newlc \/ LastByte(rlc, rbyte) THEN rlc \div 4 ELSE rvma
    BY <1>1, <1>2, <1>4 DEF ClockEdge, needfetch, haveWrongWord
  <2>2. /\ InCount(Stepped(lc, rbyte), Stepped(rlc, rbyte), rbyte)
        /\ LastByte(Stepped(lc, rbyte), rbyte) <=> LastByte(Stepped(rlc, rbyte), rbyte)
        /\ lc \div 4 = rlc \div 4
    BY <1>2, <1>3, StepsTogether
  <2>3. LastByte(Stepped(lc, rbyte), rbyte) = (FALSE \/ LastByte(Stepped(rlc, rbyte), rbyte))
    BY <2>2 DEF LastByte
  <2>4. QED
    BY <1>2, <1>4, <2>1, <2>2, <2>3 DEF StreamKept, InCount
<1>5. CASE ~nextInstrd
  <2>1. rlc' = rlc /\ rbyte' = rbyte /\ rvma' = rvma /\ newlc' = newlc
    BY <1>1, <1>2, <1>3, <1>5 DEF ClockEdge, haveWrongWord
  <2>2. QED
    BY <1>2, <1>5, <2>1 DEF StreamKept, InCount
<1>6. QED
  BY <1>4, <1>5

\* Nopped on both, by a jump or by the boot.
LEMMA InhibitedKeeps ==
  ASSUME LockInv, NEW i \in code, code' = code, Inhibited(i)
  PROVE  LockInv'
<1>1. i \in Instr /\ code' \in Codes /\ TypeOK
  BY CodeAssumption DEF LockInv
<1>2. /\ nop /\ Microcycle(i) /\ inhibit /\ lcSet' = lcSet
      /\ p1pc' = npc /\ npc' = Succ(npc) /\ ~inhibit' /\ ~nextInstrd'
      /\ spc' = Landed /\ spcWrite' = NoWrite /\ spcptr' = spcptr /\ dc' = dc
      /\ inhibit' = FALSE /\ nextInstrd' = FALSE /\ byteMode' = byteMode
      /\ lc' = (IF nextInstrd THEN Stepped(lc, byteMode) ELSE lc)
      /\ need' = (IF nextInstrd THEN LastByte(Stepped(lc, byteMode), byteMode) ELSE need)
      /\ vma' = (IF nextInstrd /\ need THEN lc \div 4 ELSE vma)
  BY DEF Inhibited, MicroInhibited, RtlInhibited
<1>3. ~iwrited /\ spcptr = rptr /\ npc = pc /\ (bootTrap => npc = 0) /\ (~bootTrap => p1pc = lpc)
  BY <1>2 DEF LockInv, Booting, Nopping, nop
<1>4. /\ lpc' = pc /\ ~iwrited' /\ ~spushd' /\ (inop' <=> bootTrap) /\ rptr' = rptr /\ rdc' = rdc
      /\ ~rnextInstrd' /\ (~bootTrap => pc' = Succ(pc)) /\ (bootTrap => pc' = 0)
  BY <1>1, <1>2, <1>3, Nopped
<1>5. rspc' = Landed /\ ~pulsed' /\ ~bootTrap'
  BY <1>2, Lands
<1>6. StreamKept
  BY <1>1, <1>2, StreamNopped
<1>7. RtlTypeOK'
  BY <1>1, <1>2, RtlTypes
<1>8. MicroTypeOK'
  <2>1. lc' \in Count /\ vma' \in Count /\ need' \in BOOLEAN
    BY <1>1, <1>2, Counts DEF TypeOK, MicroTypeOK
  <2>2. npc' \in Addr /\ p1pc' \in Addr /\ spc' \in [Slot -> Word] /\ spcptr' \in Slot
    BY <1>1, <1>2, LandedType, Addresses DEF TypeOK, MicroTypeOK
  <2>3. spcWrite' \in [on : BOOLEAN, ptr : Slot, word : Word]
    BY <1>2, WriteTypes DEF Pending
  <2>4. QED
    BY <1>1, <1>2, <2>1, <2>2, <2>3 DEF TypeOK, MicroTypeOK
<1>9. Landed' = Landed /\ WritePhase' = Landed /\ ~spcWrite'.on
  BY <1>2, <1>4, <1>5, WriteTypes, PrimedStacks
<1>10. Stacks'
  BY <1>5, <1>9 DEF Stacks
<1>11. Unset'
  BY <1>2, <1>9 DEF Unset, LockInv
<1>12. Booting' /\ Nopping' /\ Writing'
  BY <1>2, <1>4, <1>5 DEF Booting, Nopping, Writing
<1>13. Behind'
  BY <1>2, <1>3, <1>4, <1>9 DEF Behind
<1>14. Aligned'
  BY <1>2, <1>3, <1>4, <1>5 DEF Aligned, Ready, Executing, nop
<1>15. dc' = rdc' /\ SameStream'
  <2>1. dc' = rdc'
    BY <1>2, <1>4 DEF LockInv
  <2>2. nextInstrd' = rnextInstrd'
    BY <1>2, <1>4, <1>7 DEF RtlTypeOK
  <2>3. QED
    BY <1>6, <2>1, <2>2 DEF StreamKept, SameStream
<1>16. lcSet' \in BOOLEAN
  BY <1>1, <1>2 DEF TypeOK
<1>17. QED
  BY <1>1, <1>7, <1>8, <1>10, <1>11, <1>12, <1>13, <1>14, <1>15, <1>16 DEF LockInv, TypeOK

\* Nopped on rtl alone.
LEMMA CatchUpKeeps ==
  ASSUME LockInv, NEW i \in code, code' = code, CatchUp(i)
  PROVE  LockInv'
<1>1. i \in Instr /\ code' \in Codes /\ TypeOK
  BY CodeAssumption DEF LockInv
<1>2. /\ nop /\ Microcycle(i) /\ ~inhibit /\ lcSet' = lcSet /\ UNCHANGED microVars
  BY DEF CatchUp, RtlInhibited
<1>3. /\ p1pc' = p1pc /\ npc' = npc /\ inhibit' = inhibit /\ nextInstrd' = nextInstrd
      /\ spc' = spc /\ spcptr' = spcptr /\ spcWrite' = spcWrite /\ lc' = lc /\ need' = need
      /\ byteMode' = byteMode /\ dc' = dc /\ vma' = vma
  BY <1>2 DEF microVars
<1>4. ~bootTrap /\ inop /\ ~nextInstrd /\ npc = Succ(p1pc)
  BY <1>2 DEF LockInv, Booting, Behind, Writing, nop
<1>5. /\ lpc' = pc /\ ~iwrited' /\ ~spushd' /\ (inop' <=> iwrited)
      /\ rptr' = (IF iwrited THEN Down(rptr) ELSE rptr) /\ rdc' = rdc
      /\ (rnextInstrd' <=> iwrited /\ spcBus.f)
      /\ pc' = (IF iwrited THEN ReturnTo(spcBus, needfetch(i)) ELSE Succ(pc))
  BY <1>1, <1>2, <1>4, Nopped
<1>6. rspc' = Landed /\ ~pulsed' /\ ~bootTrap'
  BY <1>2, Lands
<1>7. StreamKept
  BY <1>1, <1>2, <1>3, <1>4, StreamNopped
<1>8. RtlTypeOK'
  BY <1>1, <1>2, RtlTypes
<1>9. MicroTypeOK'
  BY <1>1, <1>3 DEF TypeOK, MicroTypeOK
<1>10. Landed' = Landed /\ WritePhase' = Landed
  BY <1>3, <1>5, <1>6, PrimedStacks DEF Landed
<1>11. iwrited => /\ spcBus = Plain(reta) /\ reta = p1pc /\ rptr = Up(spcptr)
                  /\ spcWrite.on /\ spcWrite.ptr = rptr
  BY <1>4 DEF LockInv, Writing, spcBus, spcw
<1>12. ~rnextInstrd' /\ (iwrited => pc' = p1pc)
  BY <1>5, <1>11 DEF Plain, ReturnTo
<1>13. ~iwrited => /\ pc = p1pc /\ spcptr = rptr /\ (spcWrite.on => spcWrite.ptr # spcptr)
  BY <1>2, <1>4 DEF LockInv, Behind
<1>14. spcptr' = rptr'
  BY <1>1, <1>3, <1>5, <1>11, <1>13, Pointers DEF TypeOK, MicroTypeOK
<1>15. spcWrite.on => spcWrite.ptr # spcptr
  BY <1>1, <1>11, <1>13, Pointers DEF TypeOK, MicroTypeOK
<1>16. spc[spcptr] = Landed[spcptr]
  BY <1>1, <1>15 DEF Landed, TypeOK, MicroTypeOK
<1>17. Stacks'
  BY <1>6, <1>10 DEF Stacks
<1>18. Unset'
  BY <1>2, <1>3, <1>10 DEF Unset, LockInv
<1>19. Booting' /\ Nopping' /\ Writing'
  BY <1>2, <1>3, <1>5, <1>6 DEF Booting, Nopping, Writing
<1>20. Behind'
  BY <1>3, <1>4, <1>5, <1>12, <1>14, <1>15 DEF Behind
<1>21. Aligned'
  <2>1. SUFFICES ASSUME Ready' PROVE p1pc' = lpc' /\ npc' = pc' /\ spc'[spcptr'] = rspc'[rptr']
    BY <1>14 DEF Aligned
  <2>2. ~iwrited
    BY <1>5, <2>1 DEF Ready, Executing, nop
  <2>3. QED
    BY <1>3, <1>4, <1>5, <1>6, <1>13, <1>14, <1>16, <2>2
<1>22. dc' = rdc' /\ SameStream'
  <2>1. dc' = rdc'
    BY <1>3, <1>5 DEF LockInv
  <2>2. nextInstrd' = rnextInstrd'
    BY <1>3, <1>4, <1>8, <1>9, <1>12 DEF RtlTypeOK, MicroTypeOK
  <2>3. QED
    BY <1>7, <2>1, <2>2 DEF StreamKept, SameStream
<1>23. lcSet' \in BOOLEAN
  BY <1>1, <1>2 DEF TypeOK
<1>24. QED
  BY <1>1, <1>8, <1>9, <1>17, <1>18, <1>19, <1>20, <1>21, <1>22, <1>23 DEF LockInv, TypeOK

\* The write pulse of a microcycle that hangs.
LEMMA HangKeeps ==
  ASSUME LockInv, code' = code, HangOne
  PROVE  LockInv'
<1>1. /\ rspc' = WritePhase /\ pulsed' = TRUE /\ ~nop
      /\ UNCHANGED <<pc, lpc, inop, iwrited, bootTrap, rptr, spushd, destspcd, l, reta,
                     rlc, rbyte, newlc, rnextInstrd, rdc, rvma>>
      /\ UNCHANGED <<microVars, lcSet>>
  BY DEF HangOne, Hang
<1>2. TypeOK /\ WritePhase \in [Slot -> Word]
  BY Addresses DEF LockInv, TypeOK, RtlTypeOK, WritePhase, spcw, Plain, Word
<1>3. TypeOK'
  BY <1>1, <1>2 DEF TypeOK, RtlTypeOK, MicroTypeOK, microVars
<1>4. Landed' = Landed /\ spcw' = spcw
  BY <1>1 DEF Landed, microVars, spcw
<1>5. WritePhase' = WritePhase
  BY <1>1, <1>2, <1>4, PrimedStacks DEF WritePhase, TypeOK, RtlTypeOK
<1>6. nop' = nop /\ rspc' = WritePhase' /\ pulsed'
  BY <1>1, <1>5 DEF nop
<1>7. Stacks'
  BY <1>1, <1>4, <1>5, <1>6 DEF Stacks, LockInv
<1>8. Unset' /\ SameStream' /\ dc' = rdc'
  BY <1>1, <1>4 DEF LockInv, Unset, SameStream, microVars
<1>9. Booting' /\ Nopping' /\ Behind' /\ Writing'
  BY <1>1 DEF LockInv, Booting, Nopping, Behind, Writing, microVars
<1>10. Aligned'
  BY <1>1, <1>6 DEF LockInv, Aligned, Ready, Executing, nop, microVars
<1>11. QED
  BY <1>3, <1>7, <1>8, <1>9, <1>10 DEF LockInv

-------------------------------------------------------------------------------

LEMMA BootsInStep == Init => LockInv
<1> SUFFICES ASSUME Init PROVE LockInv
  OBVIOUS
<1>1. /\ p1pc = 0 /\ npc = 0 /\ inhibit = TRUE /\ nextInstrd = FALSE
      /\ spc = [p \in Slot |-> Plain(0)] /\ spcptr = 0 /\ spcWrite = NoWrite
      /\ lc = 0 /\ need = FALSE /\ byteMode = FALSE /\ dc = 0 /\ vma = 0
      /\ pc = 0 /\ lpc = 0 /\ inop = FALSE /\ iwrited = FALSE /\ bootTrap = TRUE
      /\ rspc = [p \in Slot |-> Plain(0)] /\ rptr = 0
      /\ spushd = FALSE /\ destspcd = FALSE /\ l = Plain(0) /\ reta = 0
      /\ rlc = 0 /\ rbyte = FALSE /\ newlc = FALSE /\ rnextInstrd = FALSE
      /\ rdc = 0 /\ rvma = 0 /\ pulsed = FALSE /\ code \in Codes /\ lcSet = FALSE
  BY DEF Init, MicroInit, RtlInit
<1>2. 0 \in Slot /\ 0 \in Count /\ 0 \in Addr /\ Plain(0) \in Word /\ ~Plain(0).f /\ Halfword(0) = 0
  BY DepthAssumption, Counts, Addresses DEF Slot, Plain, Word, Halfword
<1>3. spcWrite \in [on : BOOLEAN, ptr : Slot, word : Word] /\ ~spcWrite.on
  BY <1>1, WriteTypes DEF Pending
<1>4. TypeOK
  BY <1>1, <1>2, <1>3 DEF TypeOK, MicroTypeOK, RtlTypeOK
<1>5. Stacks /\ Unset
  BY <1>1, <1>2, <1>3 DEF Stacks, Unset, Landed, WritePhase
<1>6. Booting /\ Nopping /\ Aligned /\ Behind /\ Writing
  BY <1>1 DEF Booting, Nopping, Aligned, Behind, Writing, Ready, Executing
<1>7. SameStream
  BY <1>1, <1>2 DEF SameStream
<1>8. QED
  BY <1>1, <1>4, <1>5, <1>6, <1>7 DEF LockInv

\* Every step keeps the invariant.
LEMMA StaysInStep ==
  ASSUME AllRules \subseteq Rules, LockInv, [Next]_vars
  PROVE  LockInv'
<1>1. CASE Next
  <2>1. code' = code
    BY <1>1 DEF Next
  <2>2. ASSUME NEW i \in code, Execute(i) PROVE LockInv'
    <3>1. Executing
      BY <2>2 DEF Execute, MicroExecute, RtlExecute, Executing
    <3>2. CASE iwrited
      BY <2>1, <2>2, <3>1, <3>2, ExecuteSlot
    <3>3. CASE ~iwrited
      <4>1. Ready
        BY <3>1, <3>3 DEF Ready
      <4>2. CASE i.op = "jump" /\ i.P /\ i.R
        BY <2>1, <2>2, <4>1, <4>2, ExecuteWrite
      <4>3. CASE ~(i.op = "jump" /\ i.P /\ i.R)
        BY <2>1, <2>2, <4>1, <4>3, ExecuteInLine
      <4>4. QED
        BY <4>2, <4>3
    <3>4. QED
      BY <3>2, <3>3
  <2>3. ASSUME NEW i \in code, Inhibited(i) PROVE LockInv'
    BY <2>1, <2>3, InhibitedKeeps
  <2>4. ASSUME NEW i \in code, CatchUp(i) PROVE LockInv'
    BY <2>1, <2>4, CatchUpKeeps
  <2>5. CASE HangOne
    BY <2>1, <2>5, HangKeeps
  <2>6. QED
    BY <1>1, <2>2, <2>3, <2>4, <2>5 DEF Next
<1>2. CASE UNCHANGED vars
  BY <1>2 DEF vars, microVars, rtlVars, LockInv, TypeOK, MicroTypeOK, RtlTypeOK, SameStream, Stacks,
              Unset, Booting, Nopping, Aligned, Behind, Writing, Ready, Executing, nop, Landed,
              WritePhase, spcw
<1>3. QED
  BY <1>1, <1>2

\* `micro` and `rtl`, booted together and given the same microcode, are at every
\* microcycle as far along it as LockInv says, for every control store, stack
\* and counter (micro's step and rtl's write_phase and clock_edge).
THEOREM EnginesInStep ==
  ASSUME AllRules \subseteq Rules
  PROVE  Spec => []LockInv
<1>1. LockInv /\ [Next]_vars => LockInv'
  BY StaysInStep
<1>2. QED
  BY <1>1, BootsInStep, PTL DEF Spec

\* They execute the same instructions: every jump, call, return, dispatch and
\* control store write goes to the same place on micro as by rtl's next-address
\* select, whatever is nopped on the way.
THEOREM InstructionsAgree ==
  ASSUME AllRules \subseteq Rules
  PROVE  Spec => []SameInstruction
<1>1. LockInv => SameInstruction
  BY DEF LockInv, Aligned, Writing, SameInstruction, Ready, Executing, nop
<1>2. QED
  BY <1>1, EnginesInStep, PTL

\* They have the same stack and pointer: micro's pushes and pops, made in the
\* order of its code, are rtl's one count a microcycle and one write behind it.
THEOREM StacksAgree ==
  ASSUME AllRules \subseteq Rules
  PROVE  Spec => []SameStack
<1>1. LockInv => SameStack
  BY DEF LockInv, Aligned, Stacks, SameStack
<1>2. QED
  BY <1>1, EnginesInStep, PTL

\* They have the same location counter and fetch the same words of the stream:
\* micro's LC<31>, and the step it takes after its instruction, against rtl's
\* NEEDFETCH, NEWLC and NEXT.INSTRD.
THEOREM StreamsAgree ==
  ASSUME AllRules \subseteq Rules
  PROVE  Spec => []SameStream
<1>1. LockInv => SameStream
  BY DEF LockInv
<1>2. QED
  BY <1>1, EnginesInStep, PTL

\* An instruction reads the same stack word, counter and dispatch constant on
\* both, a push still to land or not.
THEOREM ReadsAgree ==
  ASSUME AllRules \subseteq Rules
  PROVE  Spec => []SameRead
<1>1. ASSUME LockInv PROVE SameRead
  <2>1. SUFFICES ASSUME Executing, NEW i \in code, Disciplined(i), ~(pulsed /\ i.src # "md")
                 PROVE  MBus(i) = MF(i)
    BY DEF SameRead
  <2>2. i \in Instr
    BY CodeAssumption, <1>1 DEF LockInv
  <2>3. IMemIsACall(i) /\ LcReadApart(i) /\ LcFirst(i)
    BY <2>1, <2>2, RulesHold
  <2>4. i.src \in Sources
    BY <2>2 DEF Instr
  <2>5. CASE i.src \in {"spc", "pop"}
    <3>1. Ready /\ ~pulsed
      BY <2>1, <2>3, <2>5 DEF IMemIsACall, Ready
    <3>2. spcptr = rptr /\ spc[spcptr] = rspc[rptr]
      BY <1>1, <3>1 DEF LockInv, Aligned
    <3>3. MBus(i) = BusOf(i.src, spcptr, spc[spcptr], FALSE)
      BY <2>5 DEF MBus
    <3>4. MF(i) = BusOf(i.src, rptr, rspc[rptr], FALSE)
      BY <2>5 DEF MF
    <3>5. QED
      BY <3>2, <3>3, <3>4
  <2>6. CASE i.src = "lc"
    <3>1. lcSet /\ ~Writes(i, "lc")
      BY <2>3, <2>6 DEF LcFirst, LcReadApart
    <3>2. ~destlc(i)
      BY <3>1 DEF destlc, dest, Writes
    <3>3. need = (newlc \/ LastByte(rlc, rbyte)) /\ byteMode = rbyte
          /\ lc = (IF rbyte THEN rlc ELSE Halfword(rlc))
      BY <1>1, <3>1 DEF LockInv, SameStream
    <3>4. needfetch(i) = (newlc \/ LastByte(rlc, rbyte))
      BY <3>2 DEF needfetch, haveWrongWord
    <3>5. Halfword(Halfword(rlc)) = Halfword(rlc)
      BY <1>1 DEF LockInv, TypeOK, RtlTypeOK, Halfword, Count
    <3>6. (IF byteMode THEN lc ELSE Halfword(lc)) = (IF rbyte THEN rlc ELSE Halfword(rlc))
      BY <3>3, <3>5
    <3>7. MBus(i) = BusOf("lc", IF byteMode THEN lc ELSE Halfword(lc), Plain(0), need)
      BY <2>6 DEF MBus
    <3>8. MF(i) = BusOf("lc", IF rbyte THEN rlc ELSE Halfword(rlc), Plain(0), needfetch(i))
      BY <2>6 DEF MF
    <3>9. QED
      BY <3>3, <3>4, <3>6, <3>7, <3>8
  <2>7. CASE i.src = "dc"
    <3>1. MBus(i) = BusOf("dc", dc, Plain(0), FALSE)
      BY <2>7 DEF MBus
    <3>2. MF(i) = BusOf("dc", rdc, Plain(0), FALSE)
      BY <2>7 DEF MF
    <3>3. QED
      BY <1>1, <3>1, <3>2 DEF LockInv
  <2>8. CASE i.src \notin {"spc", "pop", "lc", "dc"}
    <3>1. MBus(i) = BusOf(i.src, 0, Plain(0), FALSE)
      BY <2>8 DEF MBus
    <3>2. MF(i) = BusOf(i.src, 0, Plain(0), FALSE)
      BY <2>8 DEF MF
    <3>3. QED
      BY <3>1, <3>2
  <2>9. QED
    BY <2>4, <2>5, <2>6, <2>7, <2>8
<1>2. QED
  BY <1>1, EnginesInStep, PTL
=============================================================================

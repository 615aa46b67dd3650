--------------------------------- MODULE Alu --------------------------------
(***************************************************************************)
(* The arithmetic of a microinstruction: the ALU array as a table          *)
(* (src/ttl.rs) and as gates (src/part.rs), QUUX's multiply and divide     *)
(* (src/muldiv.rs), and what each engine makes of an ALU, a BYTE and a     *)
(* JUMP instruction (src/micro.rs, src/rtl.rs).                            *)
(*                                                                         *)
(* A word is the set of its bits that are up.  A byte is ByteBits bits, a  *)
(* word four bytes and QUUX's word five, the fifth its tag.  The fields of *)
(* an instruction overlap in the machine's word and are independent here.  *)
(***************************************************************************)
EXTENDS Integers, Sequences, FiniteSets, FiniteSetsExt, SequencesExt

CONSTANTS ByteBits,   \* 8 in the machine
          Operands    \* the words the two engines are given

ASSUME AluAssumption == ByteBits \in {1, 2, 4} /\ Operands # {}

VARIABLE aluTest      \* what is tried: a way to slice the array, or an instruction

aluVars == <<aluTest>>

Word == 4 * ByteBits
Ring == 5 * ByteBits
Top == Word - 1
WordBits == 0 .. Top
ArrayBits == 0 .. Word
RingBits == 0 .. Ring - 1

Unsigned == [w \in SUBSET ArrayBits |-> MapThenSumSet(LAMBDA b : 2 ^ b, w)]
ToBits(n) == {b \in ArrayBits : (n \div 2 ^ b) % 2 = 1}
SignedOf(w) == IF Top \in w THEN Unsigned[w \cap WordBits] - 2 ^ Word ELSE Unsigned[w \cap WordBits]
LowBits(w) == w \cap WordBits
TagBits(w) == w \ WordBits
ShiftedUp(w, in) == {b + 1 : b \in w \ {Top}} \cup (IF in THEN {0} ELSE {})
ShiftedDown(w, in) == {b - 1 : b \in w \ {0}} \cup (IF in THEN {Top} ELSE {})

-----------------------------------------------------------------------------
(* The array as the datasheet's table: x is M and y is A, both extended with  *)
(* their signs to one bit more than a word.                                   *)

Extended(w) == LowBits(w) \cup (IF Top \in w THEN {Word} ELSE {})
Complement(w) == ArrayBits \ w
Xored(x, y) == (x \ y) \cup (y \ x)

LogicTable(x, y) ==
  << Complement(x), Complement(x \cup y), y \ x, {},
     Complement(x \cap y), Complement(y), Xored(x, y), x \ y,
     Complement(x) \cup y, Complement(Xored(x, y)), y, x \cap y,
     ArrayBits, x \cup Complement(y), x \cup y, x >>
SumTable(x, y) ==
  LET yn == Complement(y) IN
  << <<x, {}>>, <<x \cup y, {}>>, <<x \cup yn, {}>>, <<ArrayBits, {}>>,
     <<x, x \ y>>, <<x \cup y, x \ y>>, <<x, yn>>, <<x \ y, ArrayBits>>,
     <<x, x \cap y>>, <<x, y>>, <<x \cup yn, x \cap y>>, <<x \cap y, ArrayBits>>,
     <<x, x>>, <<x \cup y, x>>, <<x \cup yn, x>>, <<x, ArrayBits>> >>

One(cond) == IF cond THEN 1 ELSE 0
AluArray(m, a, f, mode, cin) ==
  LET x == Extended(m)
      y == Extended(a)
      sum == SumTable(x, y)[f + 1]
  IN  IF mode THEN LogicTable(x, y)[f + 1]
      ELSE ToBits((Unsigned[sum[1]] + Unsigned[sum[2]] + One(cin)) % 2 ^ (Word + 1))
Aeqm(out) == WordBits \subseteq out

\* The tag of a wide word: a logical function acts on it, an arithmetic one
\* leaves M's.  A tag is shorter than the array it is looked up in.
AluTag(m, a, f, mode) ==
  LET down(w) == {b - Word : b \in TagBits(w)}
  IN  IF mode THEN {b + Word : b \in LogicTable(down(m), down(a))[f + 1] \cap 0 .. ByteBits - 1}
      ELSE TagBits(m)

\* Page ALUC4: from the function, Q's low bit and A's sign to the array's pins.
Mus == {5}
Dvs == {5, 0}
Dvs1 == {5, 3, 0}
Dvrem == {5, 2, 0}
AluControl(func, carry, q0, a31, iralu, irjump) ==
  LET special == 5 \in func /\ iralu
      mul == special /\ 1 \notin func /\ 0 \notin func
      div == special /\ 1 \notin func /\ 0 \in func
      divpos == q0 \/ 3 \in func
      divsub == div /\ divpos
      divadd == div /\ (2 \in func \/ ~divpos)
      add == (divadd /\ ~a31) \/ (divsub /\ a31) \/ mul
      sub == (mul /\ ~q0) \/ (divsub /\ ~a31) \/ (divadd /\ a31) \/ irjump
  IN  CASE ~sub /\ ~add -> [f |-> 8 * One(0 \in func) + 4 * One(1 \in func) + 2 * One(3 \notin func) + One(2 \notin func),
                            mode |-> 4 \notin func, cin |-> carry]
        [] ~sub /\ add -> [f |-> 9, mode |-> FALSE, cin |-> FALSE]
        [] sub /\ ~add -> [f |-> 6, mode |-> FALSE, cin |-> ~irjump]
        [] sub /\ add -> [f |-> 15, mode |-> TRUE, cin |-> TRUE]
ComputedBy(c, m, a) == [c |-> c, out |-> AluArray(m, a, c.f, c.mode, c.cin)]
Computed(func, carry, m, a, q, iralu, irjump) ==
  ComputedBy(AluControl(func, carry, 0 \in q, Top \in a, iralu, irjump), m, a)

-----------------------------------------------------------------------------
(* The array as gates: 74S181s of n bits each, and the 74S182s that look ahead *)
(* for them.  cnb is the carry in, low when there is one.                      *)

S181(n, a, b, s, mode, cnb) ==
  LET p(i) == ~((i \in a /\ i \in b /\ 3 \in s) \/ (i \in a /\ i \notin b /\ 2 \in s))
      g(i) == ~(i \in a \/ (i \notin b /\ 1 \in s) \/ (i \in b /\ 0 \in s))
      generated(i) == \E j \in 0 .. i - 1 : g(j) /\ \A k \in j + 1 .. i - 1 : p(k)
      propagated(i) == \A k \in 0 .. i - 1 : p(k)
      c(i) == ~(generated(i) \/ (cnb /\ propagated(i)))
      f == {i \in 0 .. n - 1 : (p(i) # g(i)) # (c(i) \/ mode)}
      y == ~generated(n)
  IN  [f |-> f, aeb |-> f = 0 .. n - 1, x |-> ~propagated(n), y |-> y,
       cn |-> ~(y /\ ~(propagated(n) /\ cnb))]

\* The carries into the second slice and on, and the group's own x and y.
S182(x, y, cn) ==
  LET N == Len(x)
      t[i \in 1 .. N] == x[i] \/ (IF i = 1 THEN ~cn ELSE y[i - 1] /\ t[i - 1])
  IN  [cn |-> [i \in 1 .. N |-> ~(y[i] /\ t[i])],
       x |-> \E i \in 1 .. N : x[i],
       y |-> \A i \in 1 .. N : y[i] \/ \E j \in i + 1 .. N : x[j]]

\* Slices of n bits, one group of them, and the slice above for the sign.
Sliced(n, m, a, f, mode, cin) ==
  LET count == Word \div n
      s == ToBits(f)
      part(w, i) == {b - (i - 1) * n : b \in w \cap (i - 1) * n .. (i * n) - 1}
      free == [i \in 1 .. count |-> S181(n, part(m, i), part(a, i), s, FALSE, TRUE)]
      ahead == S182([i \in 1 .. count |-> free[i].x], [i \in 1 .. count |-> free[i].y], ~cin)
      slice == [i \in 1 .. count |->
                  S181(n, part(m, i), part(a, i), s, mode, IF i = 1 THEN ~cin ELSE ahead.cn[i - 1])]
      sign(w) == IF Top \in w THEN {0} ELSE {}
      top == S181(1, sign(m), sign(a), s, mode, S182(<<ahead.x>>, <<ahead.y>>, ~cin).cn[1])
  IN  [out |-> UNION {{b + (i - 1) * n : b \in slice[i].f} : i \in 1 .. count}
                 \cup {b + Word : b \in top.f},
       aeqm |-> \A i \in 1 .. count : slice[i].aeb,
       ripple |-> \A i \in 2 .. count : slice[i - 1].cn = ahead.cn[i - 1]]

\* The 74S283 adder, and a row of 25S10s, each taking the three bits below its
\* own four: it rotates by none to three.
S283(a, b, c) == ToBits(Unsigned[a] + Unsigned[b] + One(c))
S10(in, n, shift) == in[6 + n - shift]
Shifted(w, shift) ==
  {b \in WordBits : S10([i \in 3 .. 9 |-> ((b - (b % 4)) + (i - 6)) % Word \in w], b % 4, shift)}

-----------------------------------------------------------------------------
(* QUUX's multiply and divide: the steps, run at once.                         *)

MulDivOp(class, func) ==
  IF class = "ALU" /\ 5 \in func /\ 1 \in func THEN (IF 0 \in func THEN "DIV" ELSE "MUL") ELSE "none"
StepOut(func, m, a, q) == Computed(func, FALSE, m, a, q, TRUE, FALSE).out
PairDown(out, sign, q) == [m |-> ShiftedDown(out \ {Word}, sign), q |-> ShiftedDown(q, 0 \in out)]
PairUp(out, q) == [m |-> ShiftedUp(out, Top \in q), q |-> ShiftedUp(q, Top \notin out)]
SignedDown(out, q) == PairDown(out, Word \in out, q)
MulStep_mut(w, a) == PairDown(StepOut(Mus, w.m, a, w.q), FALSE, w.q)
MulStep(w, a) == SignedDown(StepOut(Mus, w.m, a, w.q), w.q)
DivStep(func, w, a) == PairUp(LowBits(StepOut(func, w.m, a, w.q)), w.q)
MulDivRun(op, m, a, q) ==
  LET first == [m |-> m, q |-> q]
      again(step(_), w, n) == FoldLeft(LAMBDA acc, i : step(acc), w, [i \in 1 .. n |-> i])
  IN  IF op = "MUL" THEN again(LAMBDA w : MulStep(w, a), first, Word)
      ELSE again(LAMBDA w : DivStep(Dvs, w, a), DivStep(Dvs1, first, a), Word - 1)

-----------------------------------------------------------------------------
(* Rotating and masking.                                                       *)

Rol(w, n, size) == {(b + n) % size : b \in w}
Rol40(w, n) == Rol(w, n, Ring)
Mask40(right, n) == IF right + n > Ring - 1 THEN {} ELSE right .. right + n
MaskNarrow(right, n) == right .. ((right + n) % Word)

\* The rotate under the location counter's byte modes.  A half is two bytes.
Half == 2 * ByteBits
AddFor(lc, bytes) == (IF bytes THEN <<2, 0, 4, 3>>[lc + 1] ELSE IF lc \div 2 = 1 THEN 0 ELSE 3) * ByteBits
LcRotation(lc, bytes, rotate, wide) ==
  LET ir4 == rotate \div Half
      ir3 == (rotate \div ByteBits) % 2
      lc1 == lc \div 2
      lc0 == lc % 2
  IN  CASE wide -> (rotate + AddFor(lc, bytes)) % Ring
        [] ~wide /\ bytes -> (rotate % ByteBits) + ((ir4 + lc1 + lc0 + 1) % 2) * Half + ((ir3 + lc0 + 1) % 2) * ByteBits
        [] ~wide /\ ~bytes -> (rotate % Half) + ((ir4 + lc1 + 1) % 2) * Half

-----------------------------------------------------------------------------
(* The micro engine.  An instruction is [class, func, carry, qc, ob, rotate,   *)
(* width, lcMode, cond, wide]; `in' is [m, a, q, lc, bytes, overflow, vmaok,   *)
(* pending, sb].                                                               *)

MicroQ(i, in, aluOut) ==
  CASE i.qc = 0 -> in.q
    [] i.qc = 1 -> TagBits(in.q) \cup ShiftedUp(LowBits(in.q), Top \notin aluOut)
    [] i.qc = 2 -> TagBits(in.q) \cup ShiftedDown(LowBits(in.q), 0 \in aluOut)
    [] i.qc = 3 -> aluOut
MicroAluFrom(i, in, alu, op, run) ==
  LET tag == IF i.wide THEN AluTag(in.m, in.a, alu.c.f, alu.c.mode) ELSE {}
      aluOut == LowBits(alu.out) \cup tag
      rotate == IF ~i.wide /\ i.lcMode THEN LcRotation(in.lc, in.bytes, i.rotate, FALSE) ELSE i.rotate
      mask == IF i.wide THEN Mask40(rotate, i.width) ELSE MaskNarrow(rotate, i.width)
      over == {4} = i.func \cap {4, 5} /\ (Word \in alu.out) # (Top \in alu.out)
  IN  [over |-> IF i.wide THEN over ELSE in.overflow,
       q    |-> IF op # "none" THEN TagBits(in.q) \cup run.q ELSE MicroQ(i, in, aluOut),
       ob   |-> CASE op # "none" -> TagBits(in.m) \cup run.m
                  [] op = "none" /\ i.ob = 0 ->
                       (Rol(in.m, rotate, IF i.wide THEN Ring ELSE Word) \cap mask) \cup (in.a \ mask)
                  [] op = "none" /\ i.ob = 1 -> aluOut
                  [] op = "none" /\ i.ob = 2 ->
                       TagBits(in.m) \cup ShiftedDown(LowBits(alu.out), Word \in alu.out)
                  [] op = "none" /\ i.ob = 3 -> TagBits(in.m) \cup ShiftedUp(LowBits(aluOut), Top \in in.q)]
WideOp(i) == IF i.wide THEN MulDivOp(i.class, i.func) ELSE "none"
WideRun(i, in) == MulDivRun(WideOp(i), LowBits(in.m), LowBits(in.a), LowBits(in.q))
MicroAlu(i, in) ==
  MicroAluFrom(i, in, Computed(i.func, i.carry, in.m, in.a, in.q, TRUE, FALSE), WideOp(i), WideRun(i, in))

MicroByte(i, in) ==
  LET byte13 == i.wide
      pos == CASE byte13 /\ ~(i.ob = 1 /\ i.lcMode) -> i.rotate
               [] byte13 /\ i.ob = 1 /\ i.lcMode -> LcRotation(in.lc, in.bytes, i.rotate, TRUE)
               [] ~byte13 /\ i.lcMode -> LcRotation(in.lc, in.bytes, i.rotate, FALSE)
               [] ~byte13 /\ ~i.lcMode -> i.rotate
      right == IF i.ob \in {2, 3} THEN (IF byte13 THEN i.rotate ELSE pos) ELSE 0
      mask == IF byte13 THEN Mask40(right, i.width) ELSE MaskNarrow(right, i.width)
      m == IF i.ob \in {1, 3} THEN Rol(in.m, pos, IF byte13 THEN Ring ELSE Word) ELSE in.m
  IN  [ob |-> (m \cap mask) \cup (in.a \ mask), q |-> in.q, over |-> in.overflow]

MicroConditionFrom(i, in, alu) ==
  LET rotate == IF i.lcMode THEN LcRotation(in.lc, in.bytes, i.rotate, i.wide) ELSE i.rotate
      r == Rol(in.m, rotate, IF i.wide THEN Ring ELSE Word)
      code == IF i.wide THEN i.cond ELSE i.cond % 8
  IN  <<0 \in r, ~Aeqm(alu) /\ Word \in alu, Word \in alu,
        Aeqm(alu) /\ (i.wide => TagBits(in.m) = TagBits(in.a)),
        ~in.vmaok, ~in.vmaok \/ in.pending, ~in.vmaok \/ in.pending \/ in.sb, TRUE,
        in.overflow, Unsigned[LowBits(in.m)] < Unsigned[LowBits(in.a)]>>[(IF i.internal THEN code ELSE 0) + 1]
MicroCondition(i, in) ==
  MicroConditionFrom(i, in, Computed(i.func, i.carry, in.m, in.a, in.q, FALSE, TRUE).out)

-----------------------------------------------------------------------------
(* The rtl engine, net by net.                                                 *)

RtlShift(i, in) ==
  LET lc1 == in.lc \div 2 = 1
      lc0 == in.lc % 2 = 1
      left_half == ~((lc1 # (lc0 /\ in.bytes)) \/ ~i.lcMode)
      quarter == ~(lc0 \/ ~i.lcMode) /\ in.bytes
      sh4 == ~(left_half # ~(i.rotate \div Half = 1))
      sh3 == ~(~((i.rotate \div ByteBits) % 2 = 1) # quarter)
      bits == One(sh4) * Half + One(sh3) * ByteBits + (i.rotate % ByteBits)
      mr == i.class # "BYTE" \/ i.ob \in {2, 3}
      sr == i.class # "BYTE" \/ i.ob \in {1, 3}
      mskr == IF mr THEN bits ELSE 0
      mskl == (mskr + i.width) % Word
  IN  [r |-> Rol(in.m, IF sr THEN bits ELSE 0, Word), msk |-> mskr .. mskl]
RotateAndMask13(i, in) ==
  LET byte == i.class = "BYTE"
      lc_mode == CASE byte -> i.ob = 1 /\ i.lcMode
                   [] i.class = "JUMP" -> i.lcMode
                   [] i.class = "ALU" -> FALSE
      lc_rotation == (i.rotate + ByteBits * CASE in.bytes -> <<2, 0, 4, 3>>[in.lc + 1]
                                              [] ~in.bytes -> IF in.lc \div 2 = 1 THEN 0 ELSE 3) % Ring
      shift == IF lc_mode THEN lc_rotation ELSE i.rotate
      right == IF ~byte \/ i.ob \in {2, 3} THEN i.rotate ELSE 0
  IN  [r |-> IF ~byte \/ i.ob \in {1, 3} THEN Rol40(in.m, shift) ELSE in.m,
       msk |-> Mask40(right, i.width)]
ReadPhaseFrom(i, in, sh, alu, op, run) ==
  LET iralu == i.class = "ALU"
      tag == IF i.wide THEN AluTag(in.m, in.a, alu.c.f, alu.c.mode) ELSE {}
      osel == IF iralu THEN i.ob ELSE 0
      conds == CASE ~i.internal -> 0
                 [] i.internal /\ i.wide /\ i.cond \in {8, 9} -> i.cond
                 [] i.internal /\ ~(i.wide /\ i.cond \in {8, 9}) -> i.cond % 8
      ok == in.vmaok
  IN  [ob |-> CASE op # "none" -> TagBits(in.m) \cup run.m
                [] op = "none" /\ osel = 0 -> (sh.msk \cap sh.r) \cup (in.a \ sh.msk)
                [] op = "none" /\ osel = 1 -> LowBits(alu.out) \cup tag
                [] op = "none" /\ osel = 2 -> TagBits(in.m) \cup ShiftedDown(alu.out \ {Word}, Word \in alu.out)
                [] op = "none" /\ osel = 3 -> TagBits(in.m) \cup ShiftedUp(LowBits(alu.out), Top \in in.q),
       over |-> IF i.wide /\ iralu
                THEN i.func \cap {4, 5} = {4} /\ (Word \in alu.out) # (Top \in alu.out) ELSE in.overflow,
       jcond |-> <<0 \in sh.r, ~Aeqm(alu.out) /\ Word \in alu.out, Word \in alu.out,
                   Aeqm(alu.out) /\ (~i.wide \/ TagBits(in.m) = TagBits(in.a)),
                   ~ok, ~ok \/ in.pending, ~ok \/ in.pending \/ in.sb, TRUE, in.overflow,
                   Unsigned[LowBits(in.m)] < Unsigned[LowBits(in.a)]>>[conds + 1],
       q |-> CASE op # "none" -> TagBits(in.q) \cup run.q
               [] op = "none" /\ ~(iralu /\ i.qc # 0) -> in.q
               [] op = "none" /\ iralu /\ i.qc = 1 -> TagBits(in.q) \cup ShiftedUp(LowBits(in.q), Top \notin alu.out)
               [] op = "none" /\ iralu /\ i.qc = 2 -> TagBits(in.q) \cup ShiftedDown(LowBits(in.q), 0 \in alu.out)
               [] op = "none" /\ iralu /\ i.qc = 3 -> LowBits(alu.out) \cup tag]
ReadPhase(i, in) ==
  ReadPhaseFrom(i, in, IF i.wide THEN RotateAndMask13(i, in) ELSE RtlShift(i, in),
                Computed(i.func, i.carry, in.m, in.a, in.q, i.class = "ALU", i.class = "JUMP"),
                WideOp(i), WideRun(i, in))

-----------------------------------------------------------------------------
(* What is tried.                                                              *)

Functions64 == SUBSET (0 .. 5)
RotatesOf(wide) == 0 .. (IF wide THEN 2 * Word ELSE Word) - 1
Instruction(class, wide) ==
  [class |-> class, wide |-> wide, func |-> {}, carry |-> FALSE, qc |-> 0, ob |-> 1, rotate |-> 0,
   width |-> 0, lcMode |-> FALSE, internal |-> TRUE, cond |-> 0]

TryArray == \E n \in {b \in {1, 2, 4} : Word % b = 0}, f \in 0 .. 15, mode, cin \in BOOLEAN :
  aluTest' = [what |-> "array", n |-> n, f |-> f, mode |-> mode, cin |-> cin]
TryAdder == aluTest' = [what |-> "adder"]
TrySteps == \E op \in {"MUL", "DIV"}, a \in SUBSET WordBits :
  aluTest' = [what |-> op, a |-> a]
TryAlu == \E wide \in BOOLEAN, func \in Functions64, carry \in BOOLEAN :
  aluTest' = [what |-> "instruction",
              i |-> [Instruction("ALU", wide) EXCEPT !.func = func, !.carry = carry]]
TryShift == \E wide, lcMode \in BOOLEAN, class \in {"ALU", "BYTE"}, ob \in 0 .. 3 :
  /\ class = "ALU" => ob = 0
  /\ \E rotate \in RotatesOf(wide),
        width \in 0 .. (IF ~wide THEN Word ELSE IF class = "ALU" THEN Half ELSE 2 * Word) - 1 :
       aluTest' = [what |-> "instruction",
                   i |-> [Instruction(class, wide) EXCEPT !.ob = ob, !.rotate = rotate, !.width = width,
                                                           !.lcMode = lcMode]]
TryJump == \E wide, lcMode, internal \in BOOLEAN, cond \in 0 .. 9 :
  \E rotate \in RotatesOf(wide) :
    aluTest' = [what |-> "instruction",
                i |-> [Instruction("JUMP", wide) EXCEPT !.internal = internal, !.cond = cond,
                                                        !.rotate = rotate, !.lcMode = lcMode]]

AluInit == aluTest = [what |-> "none"]
AluNext == /\ aluTest = [what |-> "none"]
           /\ TryArray \/ TryAdder \/ TrySteps \/ TryAlu \/ TryShift \/ TryJump

-----------------------------------------------------------------------------
(* Properties.                                                                 *)

\* The gates of the 74S181s and 74S182s compute the table (ttl.rs), however a
\* word is cut into slices, and the carries looked ahead are those that ripple.
GatesAreTheTable ==
  aluTest.what = "array" =>
    \A m, a \in SUBSET WordBits :
      LET got == Sliced(aluTest.n, m, a, aluTest.f, aluTest.mode, aluTest.cin)
          want == AluArray(m, a, aluTest.f, aluTest.mode, aluTest.cin)
      IN  got.out = want /\ got.aeqm = Aeqm(want) /\ got.ripple

\* The adder adds and the row of shifters rotates.
AddersAdd ==
  aluTest.what = "adder" =>
    /\ \A a, b \in SUBSET WordBits, c \in BOOLEAN : Unsigned[S283(a, b, c)] = Unsigned[a] + Unsigned[b] + One(c)
    /\ Word % 4 = 0 => \A w \in SUBSET WordBits, n \in 0 .. 3 : Shifted(w, n) = Rol(w, n, Word)

\* Steps of the multiply and the divide as microinstructions.
TheAlu(func, ob, qc) == [Instruction("ALU", FALSE) EXCEPT !.func = func, !.ob = ob, !.qc = qc]
MandQ(r) == [m |-> r.ob, q |-> r.q]
Stepped(w, a, i) ==
  MandQ(MicroAlu(i, [m |-> w.m, a |-> a, q |-> w.q, lc |-> 0, bytes |-> FALSE, overflow |-> FALSE]))
SteppedFor(w, a, i, times) == FoldLeft(LAMBDA acc, n : Stepped(acc, a, i), w, [n \in 1 .. times |-> n])
Product(end, m, a, q) ==
  Unsigned[end.m] * 2 ^ Word + Unsigned[end.q] = (SignedOf(m) + SignedOf(a) * Unsigned[q]) % 2 ^ (2 * Word)
\* A word of multiply steps leaves M + A * Q, A signed and Q not, over two words,
\* and QUUX's one instruction is the steps.
StepsMultiply ==
  aluTest.what = "MUL" =>
    \A m, q \in SUBSET WordBits :
      /\ Product(MulDivRun("MUL", m, aluTest.a, q), m, aluTest.a, q)
      /\ SteppedFor([m |-> m, q |-> q], aluTest.a, TheAlu(Mus, 2, 2), Word) = MulDivRun("MUL", m, aluTest.a, q)

Magnitude(a) == IF Top \in a THEN 0 - SignedOf(a) ELSE SignedOf(a)
Remainder(last, a) == Stepped(last, a, TheAlu(Dvrem, 1, 0)).m
Quotient(last, rest, m, a, q) ==
  LET dividend == Unsigned[m] * 2 ^ Word + Unsigned[q]
  IN  Unsigned[last.q] = dividend \div Magnitude(a) /\ Unsigned[rest] = dividend % Magnitude(a)
QuotientAfter(last, m, a, q) == Quotient(last, Remainder(last, a), m, a, q)
Divided(first, shifted, m, a, q) ==
  LET over == Unsigned[m] >= Magnitude(a)
  IN  /\ shifted = MulDivRun("DIV", m, a, q)
      /\ Top \notin m /\ a # {} =>
           /\ over <=> 0 \in first.q
           /\ over <=> Top \in shifted.q
           /\ ~over => QuotientAfter(Stepped(shifted, a, TheAlu(Dvs, 1, 1)), m, a, q)
DividedFrom(first, m, a, q) ==
  Divided(first, SteppedFor(first, a, TheAlu(Dvs, 3, 1), Word - 1), m, a, q)
\* A word of divide steps, a last one and the remainder step leave the quotient
\* and the remainder of the double word by A's magnitude, the first step says
\* whether the quotient is too big, and QUUX's one instruction is the steps.
StepsDivide ==
  aluTest.what = "DIV" =>
    \A m, q \in SUBSET WordBits :
      DividedFrom(Stepped([m |-> m, q |-> q], aluTest.a, TheAlu(Dvs1, 3, 1)), m, aluTest.a, q)

Quiet0 == [q |-> {}, lc |-> 0, bytes |-> FALSE, overflow |-> FALSE, vmaok |-> TRUE, pending |-> FALSE, sb |-> FALSE]
Inputs(i, words) ==
  LET fit(w) == IF i.wide THEN w ELSE LowBits(w)
  IN  {[m |-> fit(m), a |-> fit(a)] @@ Quiet0 : m \in words, a \in words}

\* The two engines make the same of every instruction: the output bus, Q, the
\* overflow flag and whether a jump is taken.
SameParts(one, other) == one.ob = other.ob /\ one.q = other.q /\ one.over = other.over
SameOf(i, in) ==
  IF i.class = "JUMP" THEN ReadPhase(i, in).jcond = MicroCondition(i, in)
  ELSE SameParts(ReadPhase(i, in), IF i.class = "ALU" THEN MicroAlu(i, in) ELSE MicroByte(i, in))
EnginesAgree ==
  aluTest.what = "instruction" =>
    LET i == aluTest.i IN
    \A in \in Inputs(i, Operands) :
      IF i.class = "ALU" /\ i.ob = 1
      THEN \A q \in {{}, {0}, {Top}, WordBits}, n \in 1 .. 3 :
             /\ SameOf([i EXCEPT !.qc = n], [in EXCEPT !.q = q])
             /\ SameOf([i EXCEPT !.ob = n], [in EXCEPT !.q = q])
      ELSE /\ \A lc \in 0 .. 3, bytes \in BOOLEAN : SameOf(i, [in EXCEPT !.lc = lc, !.bytes = bytes])
           /\ i.class = "JUMP" => \A ok, pending, sb, over \in BOOLEAN :
                SameOf(i, [in EXCEPT !.vmaok = ok, !.pending = pending, !.sb = sb, !.overflow = over])

\* LDB brings the field down over A, DPB puts M's low bits into A's field and a
\* selective deposit copies the field; a field past the word's end is empty.
FieldsMove ==
  (aluTest.what = "instruction" /\ aluTest.i.class = "BYTE" /\ ~aluTest.i.lcMode /\ aluTest.i.ob # 0) =>
    LET i == aluTest.i
        size == IF i.wide THEN Ring ELSE Word
        at == i.rotate % size
        fits == (IF i.ob = 1 THEN 0 ELSE i.rotate) + i.width < size
        into == IF ~fits THEN {} ELSE IF i.ob = 1 THEN 0 .. i.width ELSE at .. at + i.width
        from(b) == IF i.ob = 2 THEN b ELSE (b + size - at) % size
    IN  \A m, a \in SUBSET (0 .. size - 1) :
          MicroByte(i, [m |-> m, a |-> a] @@ Quiet0).ob
            = {b \in into : from(b) \in m} \cup (a \ into)

\* The location counter's four bytes are four different ones, whatever the
\* rotate, and QUUX's are those of the stream in order, its halves likewise.
StreamInOrder ==
  (aluTest.what = "instruction" /\ aluTest.i.class = "BYTE" /\ aluTest.i.lcMode /\ aluTest.i.ob = 1) =>
    LET i == aluTest.i
        of(lc, bytes, m) == MicroByte(i, [Quiet0 EXCEPT !.lc = lc, !.bytes = bytes] @@ [m |-> m, a |-> {}]).ob
    IN  /\ (i.width < ByteBits /\ ~i.wide) =>
             \A b \in WordBits : Cardinality({lc \in 0 .. 3 : of(lc, TRUE, {b}) # {}}) <= 1
        /\ (i.wide /\ i.rotate = 0 /\ i.width = ByteBits - 1) => \A lc \in 0 .. 3, m \in SUBSET RingBits :
             of(lc, TRUE, m) = {b \in 0 .. ByteBits - 1 : b + ((lc + 3) % 4) * ByteBits \in m}
        /\ (i.wide /\ i.rotate = 0 /\ i.width = Half - 1) => \A lc \in 0 .. 3, m \in SUBSET RingBits :
             of(lc, FALSE, m) = {b \in 0 .. Half - 1 : b + (1 - (lc \div 2)) * Half \in m}

\* The jump conditions on the ALU's subtraction compare M with A, signed; QUUX's
\* equality is of the whole words.
JumpsCompare ==
  (aluTest.what = "instruction" /\ aluTest.i.class = "JUMP" /\ aluTest.i.internal /\ aluTest.i.cond \in {1, 2, 3}) =>
    LET i == aluTest.i IN
    \A in \in Inputs(i, SUBSET RingBits) :
      MicroCondition(i, in) <=>
        CASE i.cond = 1 -> SignedOf(in.m) < SignedOf(in.a)
          [] i.cond = 2 -> SignedOf(in.m) <= SignedOf(in.a)
          [] i.cond = 3 -> in.m = in.a

\* QUUX's overflow flag after M + A and M - A - 1, and the carry in, says that
\* the result does not fit in a word.
OverflowIsSigned ==
  (aluTest.what = "instruction" /\ aluTest.i.class = "ALU" /\ aluTest.i.wide
     /\ aluTest.i.ob = 1 /\ aluTest.i.func \in {{4, 3, 0}, {4, 2, 1}}) =>
    LET i == aluTest.i IN
    \A in \in Inputs(i, SUBSET WordBits) :
      LET true == One(i.carry) + (IF i.func = {4, 3, 0} THEN SignedOf(in.m) + SignedOf(in.a)
                                  ELSE SignedOf(in.m) - SignedOf(in.a) - 1)
      IN  MicroAlu(i, in).over <=> (true < 0 - 2 ^ Top \/ true >= 2 ^ Top)

\* The arithmetic is the arithmetic, in gates, in the table and in both engines.
ArithmeticKept ==
  /\ GatesAreTheTable /\ AddersAdd /\ StepsMultiply /\ StepsDivide
  /\ EnginesAgree /\ FieldsMove /\ StreamInOrder /\ JumpsCompare /\ OverflowIsSigned
=============================================================================

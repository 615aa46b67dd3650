-------------------------------- MODULE Bench -------------------------------
(***************************************************************************)
(* The memories, the queue, the check register and the selectors of        *)
(* src/part.rs, each on a bench of its own: its pins are moved the way its *)
(* sheet allows, several at once, and it is updated from what they carry   *)
(* and what they carried, as the chip engine does (Part's `now' and        *)
(* `prev').  Beside a part stands what was asked of it.                    *)
(***************************************************************************)
EXTENDS Part

CONSTANTS FifoDepth,     \* 64 in the part
          MaxWords,      \* words shifted in
          MaxMessage,    \* bits of a message checked
          Polynomials    \* of a check register: sets of exponents and their degree

ASSUME BenchAssumption == {FifoDepth, MaxWords, MaxMessage} \subseteq Nat \ {0}

VARIABLE bench

-----------------------------------------------------------------------------
(* Selectors and decoders: the level of output n over the inputs i, in the     *)
(* order the part's table lists them.                                          *)

Sel(i, at, width) == WordOf(SubSeq(i, at, at + width - 1))

S138(i, n) == Lv(~(i[6] /\ ~i[5] /\ ~i[4] /\ Sel(i, 1, 3) = n))
S139(i, n) == Lv(~(~i[1] /\ Sel(i, 2, 2) = n))
Decode4(i, n) == Enabled(i, Lv((~i[2] /\ Sel(i, 4, 2) = n) # i[3]))
Decode8(i, n) ==
  IF i[1] \/ i[2] THEN "Z"
  ELSE Lv((~i[3] /\ ~i[4] /\ i[5] /\ i[6] /\ Sel(i, 8, 3) = n) # i[7])
Decode2536(i, n, sel, pol) == IF i[3] THEN "Z" ELSE Lv(~((~i[1] /\ i[2]) /\ sel = n) # pol)

S151(i) == ~i[1] /\ i[5 + Sel(i, 2, 3)]
S153(i) == Lv(~i[1] /\ i[4 + Sel(i, 2, 2)])
S157(i) == Lv(~i[2] /\ i[IF i[1] THEN 4 ELSE 3])
S158(i) == Lv(i[2] \/ ~i[IF i[1] THEN 4 ELSE 3])
S251(i, invert) == Enabled(i, Lv(i[5 + Sel(i, 2, 3)] # invert))
S253(i) == Enabled(i, Lv(i[4 + Sel(i, 2, 2)]))
S257(i) == IF i[2] THEN "Z" ELSE Lv(i[IF i[1] THEN 4 ELSE 3])
S258(i) == IF i[2] THEN "Z" ELSE Lv(~i[IF i[1] THEN 4 ELSE 3])
Mux2(i) == Enabled(i, Lv(i[IF i[2] THEN 4 ELSE 3]))

\* Line drivers and receivers, in pairs.
Ls31(i, invert) == IF ~(i[1] \/ ~i[2]) THEN "Z" ELSE Lv(i[3] # invert)
Ls33(i) == IF ~(i[1] \/ ~i[2]) THEN "Z" ELSE IF i[3] = i[4] THEN "X" ELSE Lv(i[3])
R75107(i) == IF (i[1] /\ ~i[2]) \/ ~(i[3] /\ i[4]) THEN "H" ELSE IF ~i[1] /\ i[2] THEN "L" ELSE "X"
Y75110(i) == Lv(~(i[3] /\ i[4] /\ ~(i[1] /\ i[2])))
Z75110(i) == Lv(~(i[1] /\ i[2] /\ i[3] /\ i[4]))
Dy75118(i) == IF i[1] THEN Lv(i[2] /\ i[3]) ELSE "Z"
Dz75118(i) == IF i[1] THEN Lv(~(i[2] /\ i[3])) ELSE "Z"
Ry75118(i) == IF i[1] THEN Lv(i[2] /\ ~i[3]) ELSE "Z"

\* Parity and comparison.
Parity280(i, odd) == Lv(OddOf(i) = odd)
Equal93S46(i) == Lv(i[1] /\ \A n \in 1 .. (Len(i) - 1) \div 2 : i[2 * n] = i[2 * n + 1])
Equal2521(i) == Lv(~(~i[1] /\ \A n \in 1 .. (Len(i) - 1) \div 2 : i[2 * n] = i[2 * n + 1]))

\* The gate of a kind: how many inputs it has, and its outputs' functions.
Decoders == "74S138" :> [ins |-> 6, outs |-> 8] @@ "74S139" :> [ins |-> 3, outs |-> 4]
  @@ "25LS2539" :> [ins |-> 5, outs |-> 4] @@ "25LS2538" :> [ins |-> 10, outs |-> 8]
DecoderFn(k, i, n) ==
  CASE k = "74S138" -> S138(i, n) [] k = "74S139" -> S139(i, n)
    [] k = "25LS2539" -> Decode4(i, n) [] k = "25LS2538" -> Decode8(i, n)

\* A selector's strobe and select inputs, in the order its function takes them,
\* its data inputs, and whether it inverts.
Mux(on, select, data, inverts) == [on |-> on, select |-> select, data |-> data, inverts |-> inverts]
Muxes == "74S151" :> Mux(1, <<2, 3, 4>>, 8, FALSE) @@ "74S251" :> Mux(1, <<2, 3, 4>>, 8, FALSE)
  @@ "74S251-W" :> Mux(1, <<2, 3, 4>>, 8, TRUE) @@ "74S153" :> Mux(1, <<2, 3>>, 4, FALSE)
  @@ "74S253" :> Mux(1, <<2, 3>>, 4, FALSE) @@ "74S157" :> Mux(2, <<1>>, 2, FALSE)
  @@ "74S158" :> Mux(2, <<1>>, 2, TRUE) @@ "74S257" :> Mux(2, <<1>>, 2, FALSE)
  @@ "74S258" :> Mux(2, <<1>>, 2, TRUE) @@ "25LS14" :> Mux(1, <<2>>, 2, FALSE)
MuxFn(k, i) ==
  CASE k = "74S151" -> Lv(S151(i)) [] k = "74S251" -> S251(i, FALSE) [] k = "74S251-W" -> S251(i, TRUE)
    [] k = "74S153" -> S153(i) [] k = "74S253" -> S253(i) [] k = "74S157" -> S157(i)
    [] k = "74S158" -> S158(i) [] k = "74S257" -> S257(i) [] k = "74S258" -> S258(i) [] k = "25LS14" -> Mux2(i)

\* The drivers of a pair of wires, and the receiver at the other end.
Pairs == {"26LS31", "75110", "75118"}
Sent(k, on, d) ==
  CASE k = "26LS31" -> <<Ls31(<<on, TRUE, d>>, FALSE), Ls31(<<on, TRUE, d>>, TRUE)>>
    [] k = "75110" -> <<Z75110(<<d, TRUE, on, TRUE>>), Y75110(<<d, TRUE, on, TRUE>>)>>
    [] k = "75118" -> <<Dy75118(<<on, d, TRUE>>), Dz75118(<<on, d, TRUE>>)>>
Received(k, a, b) ==
  CASE k = "26LS31" -> Ls33(<<TRUE, FALSE, a, b>>)
    [] k = "75110" -> R75107(<<b, a, TRUE, TRUE>>)
    [] k = "75118" -> Ry75118(<<TRUE, a, b>>)

-----------------------------------------------------------------------------
(* Memories.  A pin record is [sel, we, a, d, lat]: selected, the bits whose    *)
(* write pin is low, the address, the data, and the 82S21's latch pin.          *)

Rams == "29701" :> {0, 1} @@ "2147" :> {0} @@ "82S21" :> {0, 1}     \* their bits
RamAddresses == {0, 1}
RamPins(k) == [sel : BOOLEAN, we : IF k = "82S21" THEN SUBSET Rams[k] ELSE {{}, Rams[k]},
               a : RamAddresses, d : SUBSET Rams[k], lat : IF k = "82S21" THEN BOOLEAN ELSE {TRUE}]
Writing(p) == IF p.sel THEN p.we ELSE {}
RamOut(k, p, st) ==
  CASE k # "82S21" -> IF ~p.sel \/ p.we # {} THEN <<"Z">> ELSE <<"word", st.cells[p.a]>>
    [] k = "82S21" -> IF ~p.sel THEN <<"Z">> ELSE <<"word", IF p.lat THEN st.cells[p.a] ELSE st.bits>>
RamUpdate_mut(k, now, prev, st) ==
  LET ended == Writing(prev) \ Writing(now)
  IN  [bits |-> IF k = "82S21" /\ prev.lat /\ ~now.lat THEN st.cells[prev.a] ELSE st.bits,
       cells |-> [st.cells EXCEPT ![now.a] = (@ \ ended) \cup (prev.d \cap ended)]]
RamUpdate(k, now, prev, st) ==
  LET ended == Writing(prev) \ Writing(now)
  IN  [bits |-> IF k = "82S21" /\ prev.lat /\ ~now.lat THEN st.cells[prev.a] ELSE st.bits,
       cells |-> [st.cells EXCEPT ![prev.a] = (@ \ ended) \cup (prev.d \cap ended)]]

\* The 4116: the strobes take the row and the column, and a write is early.
DramOut(p, st) == IF p.cas \/ ~st.open THEN <<"Z">> ELSE <<"bit", st.cells[<<st.row, st.col>>]>>
DramUpdate(now, prev, st) ==
  LET rowed == IF prev.ras /\ ~now.ras THEN [st EXCEPT !.row = prev.a] ELSE st
      cased == IF prev.cas /\ ~now.cas /\ ~now.ras
               THEN LET at == <<rowed.row, prev.a>> IN
                    [rowed EXCEPT !.col = prev.a, !.open = prev.w,
                                  !.cells = IF prev.w THEN @ ELSE [@ EXCEPT ![at] = prev.d]]
               ELSE rowed
  IN  [cased EXCEPT !.open = @ /\ ~now.cas]

\* The 67401: a queue, its front at the first cell, how many are in it, and the
\* word its output keeps when the last has left.
FifoFront(st) == IF st.count > 0 THEN st.cells[1] ELSE st.kept
FifoUpdate(now, prev, st) ==
  LET popped == IF prev.so /\ ~now.so /\ st.count > 0
                THEN [cells |-> [n \in 1 .. FifoDepth |-> IF n < st.count THEN st.cells[n + 1] ELSE st.cells[n]],
                      kept |-> st.cells[1], count |-> st.count - 1]
                ELSE st
  IN  IF ~now.mr THEN [st EXCEPT !.count = 0, !.kept = 0]
      ELSE IF ~prev.si /\ now.si /\ popped.count < FifoDepth
           THEN [popped EXCEPT !.cells[popped.count + 1] = prev.d, !.count = @ + 1]
           ELSE popped
InputReady(p, st) == p.mr /\ ~p.si /\ st.count < FifoDepth
OutputReady(p, st) == p.mr /\ ~p.so /\ st.count > 0

\* The 9401: the top `degree' stages of a register, fed back through the taps of
\* a polynomial while check word enable (cwe) is up.
CrcActive(poly) == 1 .. poly.degree
CrcUpdate(poly, bits, p) ==
  LET fb == p.cwe /\ (p.d # (poly.degree \in bits))
      from(n) == IF n = 1 THEN fb ELSE n - 1 \in bits
      tap(n) == fb /\ n # 1 /\ n - 1 \in poly.taps
  IN  CASE p.mr -> {}
        [] ~p.mr /\ p.preset -> CrcActive(poly)
        [] ~p.mr /\ ~p.preset -> {n \in CrcActive(poly) : from(n) # tap(n)}

\* The comparator that holds its answer, and the decoder with storage.
Equal8136(strobe, pairs, held) == IF strobe THEN held ELSE \A k \in DOMAIN pairs : pairs[k][1] = pairs[k][2]
Stored2536(now, prev, st) ==
  CASE ~now.clr -> [sel |-> 0, pol |-> FALSE]
    [] now.clr /\ ~prev.cp /\ now.cp /\ ~prev.ce -> [sel |-> prev.sel, pol |-> prev.pol]
    [] now.clr /\ (prev.cp \/ ~now.cp \/ prev.ce) -> st

-----------------------------------------------------------------------------
(* The bench.                                                                  *)

AtRest == [part |-> "none"]
BenchInit == bench = AtRest

SetOut == /\ bench = AtRest
          /\ \/ \E k \in DOMAIN Decoders \cup DOMAIN Muxes \cup Pairs \cup {"gates"} : bench' = [part |-> k]
             \/ \E k \in DOMAIN Rams : bench' =
                  [part |-> "ram", kind |-> k, p |-> [sel |-> FALSE, we |-> {}, a |-> 0, d |-> {}, lat |-> TRUE],
                   st |-> [bits |-> {}, cells |-> [a \in RamAddresses |-> {}]],
                   asked |-> [a \in RamAddresses |-> {}], latched |-> {}]
             \/ bench' = [part |-> "dram", phase |-> "idle",
                  p |-> [ras |-> TRUE, cas |-> TRUE, w |-> TRUE, a |-> 0, d |-> FALSE],
                  st |-> [row |-> 0, col |-> 0, open |-> FALSE, cells |-> [x \in {0, 1} \X {0, 1} |-> FALSE]],
                  asked |-> [x \in {0, 1} \X {0, 1} |-> FALSE], at |-> <<0, 0>>]
             \/ bench' = [part |-> "fifo", p |-> [si |-> FALSE, so |-> FALSE, mr |-> TRUE, d |-> 1],
                  st |-> [count |-> 0, kept |-> 0, cells |-> [n \in 1 .. FifoDepth |-> 0]], asked |-> <<>>, words |-> 0]
             \/ \E k \in DOMAIN Polynomials :
                  bench' = [part |-> "crc", poly |-> Polynomials[k], bits |-> {}, sent |-> <<>>, phase |-> "data", left |-> 0]
             \/ bench' = [part |-> "2536", p |-> [clr |-> TRUE, cp |-> FALSE, ce |-> TRUE, sel |-> 0, pol |-> FALSE],
                  st |-> [sel |-> 0, pol |-> FALSE]]

\* A memory's pins move, the address and the data of a write standing until the
\* step that ends it; the pulse asks for the write as it begins.  The latch
\* closes between writes.
MoveRam ==
  /\ bench.part = "ram"
  /\ \E now \in RamPins(bench.kind) :
       LET begun == Writing(now) \ Writing(bench.p)
           going == Writing(bench.p) \cap Writing(now)
       IN  /\ going # {} => now.a = bench.p.a /\ now.d = bench.p.d
           /\ (Writing(bench.p) # {} /\ begun # {}) => now.a = bench.p.a
           /\ (bench.p.lat /\ ~now.lat) => Writing(bench.p) = {}
           /\ bench' = [bench EXCEPT !.p = now, !.st = RamUpdate(bench.kind, now, bench.p, @),
                !.asked[now.a] = (@ \ begun) \cup (now.d \cap begun),
                !.latched = IF bench.p.lat /\ ~now.lat THEN bench.asked[bench.p.a] ELSE @]

\* A cycle of the dynamic memory: the row, its strobe as the column comes, the
\* column's strobe, and the end; a row strobe alone is a refresh.
DramRow == /\ bench.part = "dram" /\ bench.phase = "idle"
           /\ \E row \in {0, 1}, w, d \in BOOLEAN :
                bench' = [bench EXCEPT !.phase = "row", !.p.a = row, !.p.w = w, !.p.d = d, !.at[1] = row]
DramMove(now, phase) ==
  bench' = [bench EXCEPT !.p = now, !.phase = phase, !.st = DramUpdate(now, bench.p, @)]
DramRas == /\ bench.part = "dram" /\ bench.phase = "row"
           /\ \E col \in {0, 1} :
                bench' = [bench EXCEPT !.p = [@ EXCEPT !.ras = FALSE, !.a = col], !.phase = "column", !.at[2] = col,
                            !.st = DramUpdate([bench.p EXCEPT !.ras = FALSE, !.a = col], bench.p, @)]
DramCas == /\ bench.part = "dram" /\ bench.phase = "column"
           /\ \E a \in {0, 1}, w, d \in BOOLEAN :
                LET now == [bench.p EXCEPT !.cas = FALSE, !.a = a, !.w = w, !.d = d]
                IN  bench' = [bench EXCEPT !.p = now, !.phase = IF bench.p.w THEN "read" ELSE "written",
                                !.st = DramUpdate(now, bench.p, @),
                                !.asked[bench.at] = IF bench.p.w THEN @ ELSE bench.p.d]
DramEnd == /\ bench.part = "dram" /\ bench.phase \in {"column", "read", "written"}
           /\ DramMove([bench.p EXCEPT !.ras = TRUE, !.cas = TRUE], "idle")

\* Words go in and out of the queue, at once too.
MoveFifo ==
  /\ bench.part = "fifo"
  /\ \E si, so, mr \in BOOLEAN, d \in {1, 2} :
       LET now == [si |-> si, so |-> so, mr |-> mr, d |-> d]
           out == bench.p.so /\ ~so /\ bench.asked # <<>>
           rest == IF out THEN Tail(bench.asked) ELSE bench.asked
           in == ~bench.p.si /\ si /\ Len(rest) < FifoDepth
       IN  /\ in => bench.words < MaxWords
           /\ bench' = [bench EXCEPT !.p = now, !.st = FifoUpdate(now, bench.p, @),
                !.words = IF in /\ mr THEN @ + 1 ELSE @,
                !.asked = CASE ~mr -> <<>> [] mr /\ in -> Append(rest, bench.p.d) [] mr /\ ~in -> rest]

\* A message into the check register, then its check bits out, each fed on.
CrcData == /\ bench.part = "crc" /\ bench.phase = "data" /\ Len(bench.sent) < MaxMessage
           /\ \E d \in BOOLEAN :
                bench' = [bench EXCEPT !.sent = Append(@, d),
                            !.bits = CrcUpdate(bench.poly, @, [cwe |-> TRUE, d |-> d, mr |-> FALSE, preset |-> FALSE])]
CrcCheck == /\ bench.part = "crc" /\ bench.phase = "data" /\ bench.sent # <<>>
            /\ bench' = [bench EXCEPT !.phase = "check", !.left = bench.poly.degree]
CrcShiftOut == /\ bench.part = "crc" /\ bench.phase = "check" /\ bench.left > 0
               /\ bench' = [bench EXCEPT !.sent = Append(@, bench.poly.degree \in bench.bits), !.left = @ - 1,
                              !.bits = CrcUpdate(bench.poly, @, [cwe |-> FALSE, d |-> FALSE, mr |-> FALSE, preset |-> FALSE])]

\* The decoder's register: loaded by the clock's rise while enabled.
Move2536 ==
  /\ bench.part = "2536"
  /\ \E clr, cp, ce, pol \in BOOLEAN, sel \in 0 .. 1 :
       LET now == [clr |-> clr, cp |-> cp, ce |-> ce, sel |-> sel, pol |-> pol]
       IN  bench' = [bench EXCEPT !.p = now, !.st = Stored2536(now, bench.p, @)]

BenchNext == \/ SetOut \/ MoveRam \/ DramRow \/ DramRas \/ DramCas \/ DramEnd
             \/ MoveFifo \/ CrcData \/ CrcCheck \/ CrcShiftOut \/ Move2536

-----------------------------------------------------------------------------
(* Properties.                                                                 *)

\* A memory between writes reads what the last pulse at the address asked for,
\* wherever the address went as the pulse ended; the 82S21's latch keeps what
\* was read as it closed.
MemoriesKeep ==
  /\ (bench.part = "ram" /\ Writing(bench.p) = {}) =>
       /\ bench.st.cells = bench.asked
       /\ (bench.kind = "82S21" /\ bench.p.sel /\ ~bench.p.lat) =>
            RamOut(bench.kind, bench.p, bench.st) = <<"word", bench.latched>>
  /\ (bench.part = "dram" /\ bench.phase = "read") =>
       DramOut(bench.p, bench.st) = <<"bit", bench.asked[bench.at]>>
  /\ (bench.part = "dram" /\ bench.phase # "read") => DramOut(bench.p, bench.st) = <<"Z">>

\* The words come out of the 67401 in the order they went in, none lost while it
\* says it is ready and none made up.
QueueInOrder ==
  bench.part = "fifo" =>
    /\ bench.st.count = Len(bench.asked)
    /\ bench.asked # <<>> => FifoFront(bench.st) = Head(bench.asked)
    /\ InputReady(bench.p, bench.st) => Len(bench.asked) < FifoDepth
    /\ OutputReady(bench.p, bench.st) => bench.asked # <<>>

\* The check bits are the remainder of the message: a receiver that is sent the
\* message and them ends with none left, and with one bit of them wrong it does not.
CheckedAlike(poly, sent) ==
  FoldLeft(LAMBDA bits, d : CrcUpdate(poly, bits, [cwe |-> TRUE, d |-> d, mr |-> FALSE, preset |-> FALSE]), {}, sent)
ChecksOut ==
  (bench.part = "crc" /\ bench.phase = "check" /\ bench.left = 0) =>
    /\ CheckedAlike(bench.poly, bench.sent) = {}
    /\ \A k \in DOMAIN bench.sent : CheckedAlike(bench.poly, [bench.sent EXCEPT ![k] = ~@]) # {}

\* A decoder answers at one output at most, at the one its select names when it
\* is enabled, and its outputs are let go all together.
DecodersPickOne ==
  /\ bench.part \in DOMAIN Decoders =>
       LET k == bench.part IN
       \A i \in [1 .. Decoders[k].ins -> BOOLEAN] :
         LET outs == {DecoderFn(k, i, n) : n \in 0 .. Decoders[k].outs - 1}
             low == {n \in 0 .. Decoders[k].outs - 1 : DecoderFn(k, i, n) = "L"}
             high == {n \in 0 .. Decoders[k].outs - 1 : DecoderFn(k, i, n) = "H"}
         IN  \/ outs = {"Z"}
             \/ "Z" \notin outs /\ (Cardinality(low) <= 1 \/ Cardinality(high) <= 1)
  /\ bench.part = "2536" =>
       \A g1, g2 \in BOOLEAN :
         LET at(n) == Decode2536(<<g1, g2, FALSE>>, n, bench.st.sel, bench.st.pol)
         IN  {n \in 0 .. 7 : at(n) # Lv(~bench.st.pol)} = IF ~g1 /\ g2 THEN {bench.st.sel} ELSE {}

\* A selector answers by the input its select names whatever the others are,
\* unknown too, as long as a gate tries the unknown ones (Part's Eval); a strobed
\* one by none.
Answers(k, i, unknown) ==
  {MuxFn(k, [n \in DOMAIN i |-> IF n \in unknown THEN way[n] ELSE i[n]]) : way \in [unknown -> BOOLEAN]}
SelectorsLookAway ==
  bench.part \in DOMAIN Muxes =>
    LET k == bench.part
        mux == Muxes[k]
        first == 1 + Len(mux.select)
        N == first + mux.data
    IN  \A sel \in 0 .. mux.data - 1, off, d \in BOOLEAN :
          LET i == [n \in 1 .. N |->
                      CASE n = mux.on -> off
                        [] n # mux.on /\ n <= first ->
                             BitsOf(sel, Len(mux.select))[CHOOSE b \in DOMAIN mux.select : mux.select[b] = n]
                        [] n > first -> d]
              others == (first + 1 .. N) \ {first + 1 + sel}
          IN  \A unknown \in {u \in SUBSET others : Cardinality(u) <= MaxUnknown} :
                /\ Cardinality(Answers(k, i, unknown)) = 1
                /\ ~off => Answers(k, i, unknown) = {Lv(d # mux.inverts)}

\* What a driver puts on a pair of wires the receiver reads, and a driver that is
\* off leaves no level to read.
PairsCarry ==
  bench.part \in Pairs =>
    \A d \in BOOLEAN :
      LET sent == Sent(bench.part, TRUE, d) IN
      /\ Received(bench.part, sent[1] = "H", sent[2] = "H") = Lv(d)
      /\ LET idle == Sent(bench.part, FALSE, d) IN
         idle[1] = idle[2] /\ (bench.part = "75110" => Received("75110", idle[1] = "H", idle[2] = "H") = "X")

\* The two parity outputs are opposite, a word and its parity are even, and the
\* comparators tell any difference.
WordsCompare ==
  bench.part = "gates" =>
    /\ \A i \in [1 .. 9 -> BOOLEAN] :
         /\ Parity280(i, TRUE) # Parity280(i, FALSE)
         /\ Parity280(Append(i, Parity280(i, TRUE) = "H"), FALSE) = "H"
    /\ \A a, b \in [1 .. 3 -> BOOLEAN] :
         LET pairs == [n \in 1 .. 6 |-> IF n % 2 = 1 THEN a[(n + 1) \div 2] ELSE b[n \div 2]]
         IN  /\ Equal93S46(<<TRUE>> \o pairs) = Lv(a = b)
             /\ Equal2521(<<FALSE>> \o pairs) = Lv(a # b)
             /\ \A held \in BOOLEAN : Equal8136(FALSE, [n \in 1 .. 3 |-> <<a[n], b[n]>>], held) = (a = b)

\* Each part on the bench does what it is for, whatever order its pins move in.
PartsKept ==
  /\ MemoriesKeep /\ QueueInOrder /\ ChecksOut
  /\ DecodersPickOne /\ SelectorsLookAway /\ PairsCarry /\ WordsCompare
=============================================================================

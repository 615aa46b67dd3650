------------------------------- MODULE MCGates ------------------------------
(***************************************************************************)
(* Small boards for the chip engine: every kind of register in a chain and *)
(* of counter in a cascade, a latch of two gates, buses, and a board with  *)
(* its own clock.  An open pin reads high, so what must be low is tied.    *)
(* Beside them the arithmetic, the parts on a bench, two 2651s, the clock  *)
(* generator and the checkpoint's file, each tried with the others at      *)
(* rest.                                                                   *)
(***************************************************************************)
EXTENDS Chip, Alu, Bench, Pci, ClockGen, Checkpoint

VARIABLE tried    \* what is looked at, the others at rest

Chip1(k, on) == [kind |-> k, on |-> on]
Plain == [rails |-> [GND |-> "L", VCC |-> "H"], lines |-> <<>>, shots |-> <<>>, oscs |-> <<>>,
          levels |-> {"L", "H"}, pulled |-> {}, reacts |-> FALSE]
NoSpec == [is |-> "none", has |-> {}, edge |-> "H", on |-> "L", parts |-> <<>>, bits |-> 1]
Tied(pin) == pin :> "GND"
Wired(a, b, c, d) == a :> b @@ c :> d

\* Two of a kind, the second after the first; `same' are the pins both have
\* wired alike, p1 and p2 those of each, and `more' the other parts.
Pair(k, same, p1, p2, more, spec, ins) ==
  [parts |-> <<Chip1(k, p1 @@ same), Chip1(k, p2 @@ same)>> \o more,
   wires |-> SetToSeq(ins) \o <<"q2">>, ins |-> ins, spec |-> spec] @@ Plain
Shift(has, edge, on, bits) ==
  [is |-> "shift", has |-> has, edge |-> edge, on |-> on, parts |-> <<1, 2>>, bits |-> bits]
Count(has, edge, on) ==
  [is |-> "count", has |-> has, edge |-> edge, on |-> on, parts |-> <<1, 2>>, bits |-> Width]

Ck == "clk" :> "ck"
D1 == Wired("d", "d", "q", "q1")
D2 == Wired("d", "q1", "q", "q2")
Clr == "clr" :> "c"
En == "en" :> "e"
JK1(k) == Wired("j", "d", k, "d") @@ "q" :> "q1"
JK2(k) == Wired("j", "q1", k, "q1") @@ "q" :> "q2"
Not(a, y) == Chip1("74S04", Wired("a", a, "y", y))
Low == "L"
High == "H"

Registers ==
     "74S74"    :> Pair("74S74", Ck @@ Clr, D1, D2, <<>>, Shift({"clear"}, High, Low, 1), {"d", "c"})
  @@ "74LS109"  :> Pair("74LS109", Ck @@ Clr, JK1("kn"), JK2("kn"), <<>>, Shift({"clear"}, High, Low, 1), {"d", "c"})
  @@ "74S112"   :> Pair("74S112", Ck @@ Clr, Wired("j", "d", "k", "nd") @@ Wired("q", "q1", "qn", "n1"),
                        Wired("j", "q1", "k", "n1") @@ "q" :> "q2", <<Not("d", "nd")>>,
                        Shift({"clear"}, Low, Low, 1), {"d", "c"})
  @@ "74276"    :> Pair("74276", Ck @@ Clr, JK1("kn"), JK2("kn"), <<>>, Shift({"clear"}, Low, Low, 1), {"d", "c"})
  @@ "74LS273"  :> Pair("74LS273", Ck @@ Clr, D1, D2, <<>>, Shift({"clear"}, High, Low, 1), {"d", "c"})
  @@ "74S174"   :> Pair("74S174", Ck @@ Clr, D1, D2, <<>>, Shift({"clear"}, High, Low, 1), {"d", "c"})
  @@ "74S175"   :> Pair("74S175", Ck @@ Clr, D1, D2, <<>>, Shift({"clear"}, High, Low, 1), {"d", "c"})
  @@ "74S374"   :> Pair("74S374", Ck @@ Tied("oe"), D1, D2, <<>>, Shift({}, High, Low, 1), {"d"})
  @@ "74LS377"  :> Pair("74LS377", Ck @@ En, D1, D2, <<>>, Shift({"enable"}, High, Low, 1), {"d", "e"})
  @@ "25S07"    :> Pair("25S07", Ck @@ En, D1, D2, <<>>, Shift({"enable"}, High, Low, 1), {"d", "e"})
  @@ "25S09"    :> Pair("25S09", Ck @@ "sel" :> "e", D1 @@ "d1" :> "q1", D2 @@ "d1" :> "q2", <<>>,
                        Shift({"enable"}, High, Low, 1), {"d", "e"})
  @@ "25LS2519" :> Pair("25LS2519", Ck @@ Clr @@ En @@ Tied("oe") @@ Tied("pol"), D1, D2, <<>>,
                        Shift({"clear", "enable"}, High, Low, 1), {"d", "c", "e"})

Shifters ==
     "74S194"   :> Pair("74S194", Ck @@ Clr @@ "s0" :> "e" @@ Tied("s1"), D1, D2, <<>>,
                        Shift({"clear", "enable"}, High, High, Width), {"d", "c", "e"})
  @@ "74S299"   :> Pair("74S299", Ck @@ Clr @@ "s0" :> "e" @@ Tied("s1"), D1, D2, <<>>,
                        Shift({"clear", "enable"}, High, High, Width), {"d", "c", "e"})
  @@ "10141"    :> Pair("10141", Ck @@ "s0" :> "e" @@ "s1" :> "VCC", D1, D2, <<>>,
                        Shift({"enable"}, High, Low, Width), {"d", "e"})
  @@ "74LS164"  :> Pair("74LS164", Ck @@ Clr, D1, D2, <<>>, Shift({"clear"}, High, Low, Width), {"d", "c"})
  @@ "74165"    :> Pair("74165", Ck @@ "inh" :> "e", D1, D2, <<>>, Shift({"enable"}, High, Low, Width), {"d", "e"})
  @@ "9328"     :> Pair("9328", Ck @@ Clr @@ Tied("ck9") @@ Tied("sel"), D1, D2, <<>>,
                        Shift({"clear"}, High, Low, Width), {"d", "c"})

Carry(pin) == [one |-> "co" :> "co1" @@ "q" :> "q1", two |-> pin :> "co1" @@ "q" :> "q2"]
UpDownPair(k, more, has, ins) ==
  Pair(k, Ck @@ Wired("p", "e", "up", "u") @@ more, Carry("t").one @@ Tied("t"), Carry("t").two, <<>>,
       Count({"enable", "down"} \cup has, High, Low), {"e", "u"} \cup ins)
Counters ==
     "74LS161"  :> Pair("74LS161", Ck @@ Clr @@ "p" :> "e", Carry("t").one, Carry("t").two, <<>>,
                        Count({"clear", "enable"}, High, High), {"c", "e"})
  @@ "74LS163"  :> Pair("74LS163", Ck @@ Clr, Carry("t").one, Carry("t").two, <<>>,
                        Count({"clocked clear"}, High, High), {"c"})
  @@ "74S169"   :> UpDownPair("74S169", <<>>, {}, {})
  @@ "74LS569"  :> UpDownPair("74LS569", "aclr" :> "c", {"clear"}, {"c"})
  @@ "74LS193"  :> Pair("74LS193", Tied("clr"), Carry("cu").one @@ "cu" :> "ck", Carry("cu").two, <<>>,
                        Count({}, High, Low), {"d"})
  @@ "74LS193 down" :> Pair("74LS193", Tied("clr"), Wired("cd", "ck", "bo", "bo1"), Wired("cd", "bo1", "q", "q2"), <<>>,
                        Count({"down"}, High, Low), {"d"})
  @@ "74393"    :> Pair("74393", Tied("clr"), Carry("clk").one @@ Ck, Wired("clk", "co1", "co", "q2"), <<>>,
                        Count({}, Low, Low), {"d"})
  @@ "10136"    :> Pair("10136", Ck @@ Wired("s1", "nu", "s2", "u"), Carry("cin").one, Carry("cin").two,
                        <<Not("u", "nu")>>, Count({"down"}, High, Low), {"u"})

\* Two NANDs crossed; a bus with open collectors, a PROM and a pull-up; one
\* of three-state drivers into a latch; a wired or; and two with own clocks.
Loose(ins, outs, parts) ==
  [parts |-> parts, wires |-> SetToSeq(ins) \o outs, ins |-> ins, spec |-> NoSpec] @@ Plain
Loops ==
     "latch" :> Loose({"s", "r"}, <<"y">>,
        <<Chip1("74S00", Wired("a", "s", "b", "z") @@ "y" :> "y"),
          Chip1("74S00", Wired("a", "y", "b", "r") @@ "y" :> "z"),
          Chip1("74279", Wired("set", "s", "rst", "r") @@ "q" :> "lq")>>)
  @@ "bus" :> [Loose({"a", "b"}, <<"bus", "y">>,
        <<Chip1("26S10", Wired("e", "b", "a", "a") @@ Wired("bus", "bus", "r", "y")),
          Chip1("74S38", Wired("a", "a", "b", "sw") @@ "y" :> "bus"),
          Chip1("5600", Wired("oe", "b", "a", "a") @@ "y" :> "bus"),
          Chip1("RES20", "y" :> "bus"),
          Chip1("SWITCH", "y" :> "sw")>>)
        EXCEPT !.ins = @ \cup {"bus"}, !.levels = {"L", "none"}]
  @@ "states" :> [Loose({"a", "b"}, <<"t", "q", "w">>,
        <<Chip1("74S240", Wired("oe", "b", "a", "a") @@ "y" :> "t"),
          Chip1("74S241", Wired("oe", "nb", "a", "q") @@ "y" :> "t"),
          Not("b", "nb"),
          Chip1("74S373", Wired("le", "a", "d", "t") @@ "q" :> "q" @@ Tied("oe")),
          Chip1("8304", Wired("oe", "a", "tr", "b") @@ Wired("a", "q", "y", "w")),
          Chip1("74S02", Wired("a", "q", "b", "a") @@ "y" :> "n2"),
          Chip1("74S08", Wired("a", "n2", "b", "b") @@ "y" :> "n3"),
          Chip1("74S86", Wired("a", "n3", "b", "q") @@ "y" :> "n4")>>)
        EXCEPT !.levels = @ \cup {"none"}]
  @@ "wired or" :> Loose({"a", "b"}, <<"y">>,
        <<Chip1("10105", Wired("a", "a", "b", "b") @@ "y" :> "y"),
          Chip1("10105", Wired("a", "b", "yn", "y")),
          Chip1("SIPR", "y" :> "y"),
          Chip1("10105", Wired("a", "y", "yn", "z"))>>)

Clocked ==
     "synchroniser" :> [Loose({"d"}, <<"q", "tap">>,
        <<Chip1("74S74", Wired("d", "d", "clk", "o") @@ "q" :> "q")>>)
        EXCEPT !.oscs = <<[output |-> "o", enable |-> "none", period |-> <<3, 1>>]>>,
               !.lines = <<[input |-> "q", invert |-> TRUE,
                            taps |-> <<[net |-> "tap", ns |-> 1], [net |-> "tap2", ns |-> 2]>>]>>]
  @@ "one shot" :> [Loose({"a", "e"}, <<"p">>,
        <<Chip1("74S74", Wired("d", "p", "clk", "o") @@ "q" :> "q")>>)
        EXCEPT !.oscs = <<[output |-> "o", enable |-> "e", period |-> <<7, 2>>]>>,
               !.shots = <<[i0 |-> "GND", i1 |-> "a", clear |-> "e", q |-> "p", nq |-> "np", width |-> 2]>>]

\* The far end answers what it is given, and of the two wires that move the
\* gate driving w2 one is carried before w2 and the other after it, or after an
\* inverter: a NAND, an exclusive or, and a gate of three states onto a net the
\* far end pulls up.
Between(parts, pulled) ==
  [Loose({"w1", "w3"}, <<>>, parts)
     EXCEPT !.wires = <<"w1", "w2", "w3">>, !.pulled = pulled, !.reacts = TRUE]
MCGlitch ==
  "glitch" :> Between(<<Not("w3", "n"), Chip1("74S86", Wired("a", "w1", "b", "n") @@ "y" :> "w2")>>, {})
Glitches ==
     "nand glitch" :> Between(<<Chip1("74S00", Wired("a", "w1", "b", "w3") @@ "y" :> "w2")>>, {})
  @@ "pulled glitch" :>
       Between(<<Chip1("8304", Wired("oe", "w1", "tr", "w3") @@ "y" :> "w2" @@ Tied("a"))>>, {"w2"})

MCBoards == Registers @@ Shifters @@ Counters @@ Loops @@ Clocked @@ MCGlitch @@ Glitches
MCOperands == {{}, {0}, {Top}, WordBits, {0, 2, Word}, {1, Word}}
MCPolynomials ==
     "a" :> [degree |-> 3, taps |-> {1}]
  @@ "b" :> [degree |-> 4, taps |-> {3, 1}]
  @@ "c" :> [degree |-> 2, taps |-> {}]
MCParities == {"none", "odd"}
F(k, of) == [kind |-> k, of |-> of]
MCFields ==
  {F("bool", <<1>>), F("level", <<3>>), F("word", <<0>>), F("word", <<5>>), F("word", <<63>>),
   F("opt", <<>>), F("opt", <<2>>), F("bytes", <<>>), F("bytes", <<0, 3>>), F("bytes into", <<0, 0, 0>>),
   F("words into", <<0, 0>>), F("words into", <<15, 48>>), F("words into", <<15, 0>>)}

vars == <<tried, chipVars, aluVars, bench, pciVars, clkVars, ckVars>>

Init == /\ tried \in {"board", "arithmetic", "part", "2651", "clock", "checkpoint"}
        /\ \E b \in IF tried = "board" THEN Names ELSE {CHOOSE b \in Names : TRUE} : ChipInit(b)
        /\ AluInit /\ BenchInit /\ PciInit /\ ClkInit /\ CkInit
        /\ tried # "2651" => chip[1].ptr = 0
        /\ tried # "checkpoint" => ~ckWide
Next == /\ UNCHANGED tried
        /\ \/ tried = "board" /\ ChipNext /\ UNCHANGED <<aluVars, bench, pciVars, clkVars, ckVars>>
           \/ tried = "arithmetic" /\ AluNext /\ UNCHANGED <<chipVars, bench, pciVars, clkVars, ckVars>>
           \/ tried = "part" /\ BenchNext /\ UNCHANGED <<chipVars, aluVars, pciVars, clkVars, ckVars>>
           \/ tried = "2651" /\ PciNext /\ UNCHANGED <<chipVars, aluVars, bench, clkVars, ckVars>>
           \/ tried = "clock" /\ ClkNext /\ UNCHANGED <<chipVars, aluVars, bench, pciVars, ckVars>>
           \/ tried = "checkpoint" /\ CkNext /\ UNCHANGED <<chipVars, aluVars, bench, pciVars, clkVars>>
Spec == Init /\ [][Next]_vars

-----------------------------------------------------------------------------
\* A part on the bench answers as what it is for, the 2651 among them: what
\* one sends the other receives, in order and whole, or says it did not.
PartsAndCharacters == PartsKept /\ CharactersKept
=============================================================================

-------------------------------- MODULE Part --------------------------------
(***************************************************************************)
(* The behaviours of the parts on the boards (src/part.rs): what a pin     *)
(* reads, what a gate answers from pins some of which are unknown, what a  *)
(* net carries, and what each family of parts does on an edge.             *)
(*                                                                         *)
(* A part is named by its family and its pins by their function; a         *)
(* register is one bit wide, a counter and a shift register have Width     *)
(* bits.  A pin's level is one of "L", "H", "Z" (let go) and "X" (cannot   *)
(* be named).  `now' is what the pins carry, `prev' what they carried at   *)
(* the board's last snapshot: an edge captures prev, an asynchronous input *)
(* and a transparent latch read now.                                       *)
(***************************************************************************)
EXTENDS Integers, FiniteSets, Sequences, SequencesExt, FiniteSetsExt, TLC

CONSTANT Width,           \* bits of a counter and of a shift register
         MaxUnknown       \* how many unknown inputs a gate is tried over

ASSUME PartAssumption == Width \in Nat \ {0, 1} /\ MaxUnknown \in Nat

Level == {"L", "H", "Z", "X"}
Lv(b) == IF b THEN "H" ELSE "L"

\* The values an input may read at level l; `open' is what an open one reads.
Readings(l, open) ==
  CASE l = "L" -> {FALSE} [] l = "H" -> {TRUE} [] l = "Z" -> {open} [] OTHER -> BOOLEAN

\* An update reads an unknown pin high, and a MECL one reads it low.
V(l)  == TRUE \in Readings(l, TRUE)
Vm(l) == FALSE \notin Readings(l, FALSE)

Rose(now, prev, pin) == ~V(prev[pin]) /\ V(now[pin])
Fell(now, prev, pin) == V(prev[pin]) /\ ~V(now[pin])

\* A word of bits, low one first, and back.
WordOf(bits) == SumSet({IF bits[k] THEN 2^(k - 1) ELSE 0 : k \in 1..Len(bits)})
BitsOf(n, w) == [k \in 1..w |-> (n \div 2^(k - 1)) % 2 = 1]

-----------------------------------------------------------------------------
(* Gates. *)

AllOf(i)  == \A k \in DOMAIN i : i[k]
AnyOf(i)  == \E k \in DOMAIN i : i[k]
OddOf(i)  == Cardinality({k \in DOMAIN i : i[k]}) % 2 = 1

\* The three-state outputs: let go while the first input is high.
Enabled(i, level) == IF i[1] THEN "Z" ELSE level

\* A transparent latch shows its input while it is enabled, and the bit it
\* holds otherwise.
LatchOut(i, q) == Enabled(i, IF i[2] THEN Lv(i[3]) ELSE Lv(q))

\* Both of a flip-flop's outputs are high while preset and clear are both low.
FfOut(i, q, complement) == IF ~i[1] /\ ~i[2] THEN "H" ELSE Lv(q # complement)

\* The cell an enabled PROM is addressed at; a part with none has no level.
PromOut(i, s) ==
  Enabled(i, LET a == WordOf(SubSeq(i, 2, Len(i))) IN
             IF a < Len(s.cells) THEN Lv(s.cells[a + 1]) ELSE "X")

\* The carry of a counter: at the terminal count of its direction, enabled.
Terminal(q, up) == IF up THEN AllOf(q) ELSE ~AnyOf(q)

\* A gate of a part: the pin it drives and how, the pins it reads, whether an
\* open one reads high, the function, and the bit of the state it is about.
Gate(out, drive, ins, f, n) ==
  [out |-> out, drive |-> drive, ins |-> ins, f |-> f, n |-> n, open |-> TRUE]
GateM(out, ins, f, n) == [Gate(out, "OE", ins, f, n) EXCEPT !.open = FALSE]

GateFn(g, i, s) ==
  CASE g.f = "NAND"   -> Lv(~AllOf(i))
    [] g.f = "NOR"    -> Lv(~AnyOf(i))
    [] g.f = "OR"     -> Lv(AnyOf(i))
    [] g.f = "AND"    -> Lv(AllOf(i))
    [] g.f = "XOR"    -> Lv(OddOf(i))
    [] g.f = "NOT"    -> Lv(~i[1])
    [] g.f = "HIGH"   -> "H"
    [] g.f = "LOW"    -> "L"
    [] g.f = "OC_DRIVE" -> Lv(i[1] \/ ~i[2])
    [] g.f = "BUF"    -> Enabled(i, Lv(i[2]))
    [] g.f = "BUF_N"  -> Enabled(i, Lv(~i[2]))
    [] g.f = "xcv"    -> IF i[1] \/ ~i[2] THEN "Z" ELSE Lv(i[3])
    [] g.f = "prom"   -> PromOut(i, s)
    [] g.f = "switch" -> Lv(~s.q[g.n])
    [] g.f = "ff"     -> FfOut(i, s.q[g.n], FALSE)
    [] g.f = "ff_n"   -> FfOut(i, s.q[g.n], TRUE)
    [] g.f = "clr_q"  -> Lv(i[1] /\ s.q[g.n])
    [] g.f = "clr_qn" -> Lv(~(i[1] /\ s.q[g.n]))
    [] g.f = "oe"     -> Enabled(i, Lv(s.q[g.n]))
    [] g.f = "oe_pol" -> Enabled(i, Lv(s.q[g.n] # i[2]))
    [] g.f = "latch"  -> LatchOut(i, s.q[g.n])
    [] g.f = "q"      -> Lv(s.q[g.n])
    [] g.f = "rco"    -> Lv(i[1] /\ AllOf(s.q))
    [] g.f = "rco169" -> Lv(~(Terminal(s.q, i[1]) /\ ~i[2]))
    [] g.f = "co193"  -> Lv(~(AllOf(s.q) /\ ~i[1]))
    [] g.f = "bo193"  -> Lv(~(~AnyOf(s.q) /\ ~i[1]))
    [] g.f = "co10136" -> Lv(~CASE i[1] = i[2] -> ~i[1] [] OTHER -> ~i[3] /\ Terminal(s.q, i[2]))

\* What a gate answers: the one answer over every way of reading the unknown
\* inputs, when there are few enough of them and the ways agree.
Eval(g, pins, s) ==
  LET ins == DOMAIN g.ins
      unknown == {k \in ins : pins[g.ins[k]] = "X"}
      ways == {i \in [ins -> BOOLEAN] : \A k \in ins : i[k] \in Readings(pins[g.ins[k]], g.open)}
      answers == {GateFn(g, i, s) : i \in ways}
  IN  IF Cardinality(unknown) > MaxUnknown \/ Cardinality(answers) > 1
      THEN "X" ELSE CHOOSE l \in answers : TRUE

\* A driver that holds the net: neither passive nor let go.
Holds(d) ==
  /\ d.drive # "Passive" /\ d.level # "Z"
  /\ <<d.drive, d.level>> \notin {<<"OC", "H">>, <<"OE", "L">>}

\* What a net carries: the strong drivers' one level, the resistors' when
\* there is no strong one, and no level that can be named when they disagree
\* or one of them has none.
Resolve(ds) ==
  LET strong == {d.level : d \in {x \in ds : Holds(x) /\ x.drive # "PullUp"}}
      pulls  == {d.level : d \in {x \in ds : Holds(x) /\ x.drive = "PullUp"}}
      decide == IF strong # {} THEN strong ELSE pulls
  IN  CASE "X" \in strong \cup pulls \/ Cardinality(decide) > 1 -> "X"
        [] decide = {} -> "Z"
        [] OTHER -> CHOOSE l \in decide : TRUE

-----------------------------------------------------------------------------
(* Registers, one bit of them: what they hold after their pins moved. *)

\* J and K: hold, clear, set, toggle.
JK(j, k, q) == IF j = k THEN j # q ELSE j

\* A clear overrides a preset, and both override the clock.
Flop(now, s, clocked, next) ==
  [s EXCEPT !.q[1] = CASE ~V(now.clr) -> FALSE [] ~V(now.pre) -> TRUE
                       [] OTHER -> IF clocked THEN next ELSE @]

Update74(now, prev, s)  == Flop(now, s, Rose(now, prev, "clk"), V(prev.d))
Update109(now, prev, s) ==
  Flop(now, s, Rose(now, prev, "clk"), JK(V(prev.j), ~V(prev.kn), s.q[1]))
Update112(now, prev, s) ==
  Flop(now, s, Fell(now, prev, "clk"), JK(V(prev.j), V(prev.k), s.q[1]))
Update276(now, prev, s) ==
  Flop(now, s, Fell(now, prev, "clk"), JK(V(prev.j), ~V(prev.kn), s.q[1]))

\* The registers of D inputs: with a clear, and with an enable.
Taken(s, clocked, d) == IF clocked THEN [s EXCEPT !.q[1] = d] ELSE s
Cleared(s) == [s EXCEPT !.q = [k \in DOMAIN @ |-> FALSE]]

Update273(now, prev, s) ==
  IF ~V(now.clr) THEN Cleared(s) ELSE Taken(s, Rose(now, prev, "clk"), V(prev.d))
Update174(now, prev, s) ==
  IF ~V(now.clr) THEN Cleared(s) ELSE Taken(s, Rose(now, prev, "clk"), V(prev.d))
Update175(now, prev, s) ==
  IF ~V(now.clr) THEN Cleared(s) ELSE Taken(s, Rose(now, prev, "clk"), V(prev.d))
Update374(now, prev, s) == Taken(s, Rose(now, prev, "clk"), V(prev.d))
Update377(now, prev, s) == Taken(s, Rose(now, prev, "clk") /\ ~V(prev.en), V(prev.d))
Update07(now, prev, s)  == Taken(s, ~V(prev.en) /\ Rose(now, prev, "clk"), V(prev.d))
Update09(now, prev, s)  ==
  Taken(s, Rose(now, prev, "clk"), IF V(prev.sel) THEN V(prev.d1) ELSE V(prev.d))
Update2519(now, prev, s) ==
  IF ~V(now.clr) THEN Cleared(s)
  ELSE Taken(s, ~V(prev.en) /\ Rose(now, prev, "clk"), V(prev.d))
Update373(now, prev, s) == Taken(s, V(now.le), V(now.d))

\* The set-reset latch: set wins.
Update279(now, prev, s) == Taken(s, ~V(now.set) \/ ~V(now.rst), ~V(now.set))

-----------------------------------------------------------------------------
(* Shift registers of Width bits, bit 1 the first in; and counters. *)

ShiftIn(q, b) == <<b>> \o Front(q)

\* 74S194 and 74S299: by the two selects hold, shift up, shift down, load.
Universal(now, prev, s, up, down, data) ==
  CASE ~V(now.clr) -> Cleared(s)
    [] V(now.clr) /\ Rose(now, prev, "clk") ->
         [s EXCEPT !.q = CASE ~V(prev.s1) /\ ~V(prev.s0) -> @
                           [] ~V(prev.s1) /\ V(prev.s0)  -> ShiftIn(@, up)
                           [] V(prev.s1) /\ ~V(prev.s0)  -> Append(Tail(@), down)
                           [] OTHER -> data]
    [] OTHER -> s
Data(prev) == [k \in 1..Width |-> V(prev.d)]
Update194(now, prev, s) == Universal(now, prev, s, V(prev.d), V(prev.dn), Data(prev))
Update299(now, prev, s) == Universal(now, prev, s, V(prev.d), V(prev.dn), Data(prev))
Update10141(now, prev, s) ==
  IF ~(Vm(now.clk) /\ ~Vm(prev.clk)) THEN s
  ELSE [s EXCEPT !.q = CASE ~Vm(prev.s1) /\ ~Vm(prev.s0) -> [k \in 1..Width |-> Vm(prev.d)]
                         [] ~Vm(prev.s1) /\ Vm(prev.s0) -> Append(Tail(@), Vm(prev.dn))
                         [] Vm(prev.s1) /\ ~Vm(prev.s0) -> ShiftIn(@, Vm(prev.d))
                         [] OTHER -> @]
Update164(now, prev, s) ==
  CASE ~V(now.clr) -> Cleared(s)
    [] V(now.clr) /\ Rose(now, prev, "clk") -> [s EXCEPT !.q = ShiftIn(@, V(prev.d) /\ V(prev.b))]
    [] OTHER -> s
\* 74165: the load is transparent, and it shifts unless inhibited.
Update165(now, prev, s) ==
  CASE ~V(now.ld) -> [s EXCEPT !.q = Data(now)]
    [] V(now.ld) /\ Rose(now, prev, "clk") /\ ~V(now.inh) -> [s EXCEPT !.q = ShiftIn(@, V(prev.d))]
    [] OTHER -> s
\* 9328: its own clock or the common one, whichever is high, clocks a half.
Update9328(now, prev, s) ==
  LET ck(p) == V(p.clk) \/ V(p.ck9) IN
  CASE ~V(now.clr) -> Cleared(s)
    [] V(now.clr) /\ ~ck(prev) /\ ck(now) ->
         [s EXCEPT !.q = ShiftIn(@, IF V(prev.sel) THEN V(prev.d1) ELSE V(prev.d))]
    [] OTHER -> s

Counted(q, by) == BitsOf((WordOf(q) + by) % 2^Width, Width)
Up == 1
Down == 2^Width - 1

\* 74LS161 clears at once, 74LS163 on the clock; both load before they count.
LoadOrCount(s, prev) ==
  CASE ~V(prev.ld) -> [s EXCEPT !.q = Data(prev)]
    [] V(prev.ld) /\ V(prev.p) /\ V(prev.t) -> [s EXCEPT !.q = Counted(@, Up)]
    [] OTHER -> s
Update161(now, prev, s) ==
  CASE ~V(now.clr) -> Cleared(s)
    [] V(now.clr) /\ Rose(now, prev, "clk") -> LoadOrCount(s, prev)
    [] OTHER -> s
Update163(now, prev, s) ==
  IF Rose(now, prev, "clk")
  THEN IF ~V(prev.clr) THEN Cleared(s) ELSE LoadOrCount(s, prev)
  ELSE s

\* 74S169 and 74LS569 count either way, both enables low; the 569 has clears.
UpDown(s, prev) ==
  CASE ~V(prev.ld) -> [s EXCEPT !.q = Data(prev)]
    [] V(prev.ld) /\ ~V(prev.p) /\ ~V(prev.t) ->
         [s EXCEPT !.q = Counted(@, IF V(prev.up) THEN Up ELSE Down)]
    [] OTHER -> s
Update169(now, prev, s) == IF Rose(now, prev, "clk") THEN UpDown(s, prev) ELSE s
Update569(now, prev, s) ==
  CASE ~V(now.aclr) -> Cleared(s)
    [] V(now.aclr) /\ Rose(now, prev, "clk") ->
         IF ~V(prev.clr) THEN Cleared(s) ELSE UpDown(s, prev)
    [] OTHER -> s

\* 74LS193: a clock for each way, counting while the other is high.
Update193(now, prev, s) ==
  CASE V(now.clr) -> Cleared(s)
    [] ~V(now.clr) /\ ~V(now.ld) -> [s EXCEPT !.q = Data(now)]
    [] ~V(now.clr) /\ V(now.ld) /\ Rose(now, prev, "cu") /\ V(prev.cd) ->
         [s EXCEPT !.q = Counted(@, Up)]
    [] ~V(now.clr) /\ V(now.ld) /\ ~(Rose(now, prev, "cu") /\ V(prev.cd))
         /\ Rose(now, prev, "cd") /\ V(prev.cu) -> [s EXCEPT !.q = Counted(@, Down)]
    [] OTHER -> s

\* 74393 ripples on the falling edge; the MECL 10136 presets, or counts.
Update393(now, prev, s) ==
  CASE V(now.clr) -> Cleared(s)
    [] ~V(now.clr) /\ Fell(now, prev, "clk") -> [s EXCEPT !.q = Counted(@, Up)]
    [] OTHER -> s
Update10136(now, prev, s) ==
  IF ~(Vm(now.clk) /\ ~Vm(prev.clk)) THEN s
  ELSE CASE ~Vm(prev.s1) /\ ~Vm(prev.s2) -> [s EXCEPT !.q = [k \in 1..Width |-> Vm(prev.d)]]
         [] ~Vm(prev.s1) /\ Vm(prev.s2) /\ ~Vm(prev.cin) -> [s EXCEPT !.q = Counted(@, Up)]
         [] Vm(prev.s1) /\ ~Vm(prev.s2) /\ ~Vm(prev.cin) -> [s EXCEPT !.q = Counted(@, Down)]
         [] OTHER -> s

-----------------------------------------------------------------------------
(* The families: the gates of each, the pins its update reads, the update. *)

LogicGates ==
     "74S00"  :> <<Gate("y", "Totem", <<"a", "b">>, "NAND", 1)>>
  @@ "74S02"  :> <<Gate("y", "Totem", <<"a", "b">>, "NOR", 1)>>
  @@ "74S08"  :> <<Gate("y", "Totem", <<"a", "b">>, "AND", 1)>>
  @@ "74S86"  :> <<Gate("y", "Totem", <<"a", "b">>, "XOR", 1)>>
  @@ "74S38"  :> <<Gate("y", "OC", <<"a", "b">>, "NAND", 1)>>
  @@ "74S04"  :> <<Gate("y", "Totem", <<"a">>, "NOT", 1)>>
MeclGates ==
     "10105"  :> <<GateM("y", <<"a", "b">>, "OR", 1), GateM("yn", <<"a", "b">>, "NOR", 1)>>
  @@ "10141"  :> <<GateM("q", <<>>, "q", Width)>>
  @@ "10136"  :> <<GateM("q", <<>>, "q", Width), GateM("co", <<"s1", "s2", "cin">>, "co10136", 1)>>
Resistors == "RES20" :> <<Gate("y", "PullUp", <<>>, "HIGH", 1)>> @@ "SIPR" :> <<Gate("y", "PullUp", <<>>, "LOW", 1)>>
Transceivers ==
     "26S10"  :> <<Gate("bus", "OC", <<"e", "a">>, "OC_DRIVE", 1), Gate("r", "Totem", <<"bus">>, "NOT", 1)>>
  @@ "8304"   :> <<Gate("y", "TriState", <<"oe", "tr", "a">>, "xcv", 1)>>
LineDrivers ==
     "74S240" :> <<Gate("y", "TriState", <<"oe", "a">>, "BUF_N", 1)>>
  @@ "74S241" :> <<Gate("y", "TriState", <<"oe", "a">>, "BUF", 1)>>
Proms == "5600" :> <<Gate("y", "OC", <<"oe", "a">>, "prom", 1)>>
DipSwitches == "SWITCH" :> <<Gate("y", "Totem", <<>>, "switch", 1)>>

Of(kinds, gates) == [k \in kinds |-> gates]
RegisterGates ==
     Of({"74S74", "74LS109", "74S112"}, <<Gate("q", "Totem", <<"clr", "pre">>, "ff", 1),
                                          Gate("qn", "Totem", <<"clr", "pre">>, "ff_n", 1)>>)
  @@ Of({"74276"}, <<Gate("q", "Totem", <<"clr", "pre">>, "ff", 1)>>)
  @@ Of({"74LS273", "74S174"}, <<Gate("q", "Totem", <<"clr">>, "clr_q", 1)>>)
  @@ Of({"74S175"}, <<Gate("q", "Totem", <<"clr">>, "clr_q", 1), Gate("qn", "Totem", <<"clr">>, "clr_qn", 1)>>)
  @@ Of({"74S374"}, <<Gate("q", "TriState", <<"oe">>, "oe", 1)>>)
  @@ Of({"74LS377", "25S07", "25S09", "74279"}, <<Gate("q", "Totem", <<>>, "q", 1)>>)
  @@ Of({"25LS2519"}, <<Gate("q", "TriState", <<"oe", "pol">>, "oe_pol", 1)>>)
  @@ Of({"74S373"}, <<Gate("q", "TriState", <<"oe", "le", "d">>, "latch", 1)>>)
  @@ Of({"74S194", "74S299", "9328"}, <<Gate("q", "Totem", <<"clr">>, "clr_q", Width)>>)
  @@ Of({"74LS164", "74165"}, <<Gate("q", "Totem", <<>>, "q", Width)>>)
CounterGates ==
     Of({"74LS161", "74LS163"}, <<Gate("q", "Totem", <<>>, "q", Width), Gate("co", "Totem", <<"t">>, "rco", 1)>>)
  @@ Of({"74S169", "74LS569"}, <<Gate("q", "Totem", <<>>, "q", Width), Gate("co", "Totem", <<"up", "t">>, "rco169", 1)>>)
  @@ Of({"74LS193"}, <<Gate("q", "Totem", <<>>, "q", Width), Gate("co", "Totem", <<"cu">>, "co193", 1),
                       Gate("bo", "Totem", <<"cd">>, "bo193", 1)>>)
  @@ Of({"74393"}, <<Gate("co", "Totem", <<>>, "q", Width)>>)
Catalogue ==
  LogicGates @@ MeclGates @@ Resistors @@ Transceivers @@ LineDrivers @@ Proms @@ DipSwitches
    @@ RegisterGates @@ CounterGates
Gates(kind) == Catalogue[kind]

UpdateIns(kind) ==
  CASE kind = "74S74" -> {"clr", "pre", "clk", "d"}
    [] kind \in {"74LS109", "74276"} -> {"clr", "pre", "clk", "j", "kn"}
    [] kind = "74S112" -> {"clr", "pre", "clk", "j", "k"}
    [] kind \in {"74LS273", "74S174", "74S175"} -> {"clr", "clk", "d"}
    [] kind = "74S374" -> {"clk", "d"}
    [] kind \in {"74LS377", "25S07"} -> {"clk", "en", "d"}
    [] kind = "25S09"  -> {"clk", "sel", "d", "d1"}
    [] kind = "25LS2519" -> {"clr", "en", "clk", "d"}
    [] kind = "74S373" -> {"le", "d"}
    [] kind = "74279"  -> {"set", "rst"}
    [] kind \in {"74S194", "74S299"} -> {"clr", "clk", "s0", "s1", "d", "dn"}
    [] kind = "10141"  -> {"clk", "s0", "s1", "d", "dn"}
    [] kind = "74LS164" -> {"clr", "clk", "d", "b"}
    [] kind = "74165"  -> {"ld", "clk", "inh", "d"}
    [] kind = "9328"   -> {"clr", "clk", "ck9", "sel", "d", "d1"}
    [] kind \in {"74LS161", "74LS163"} -> {"clr", "clk", "ld", "p", "t", "d"}
    [] kind = "74S169" -> {"clk", "ld", "p", "t", "up", "d"}
    [] kind = "74LS569" -> {"aclr", "clr", "clk", "ld", "p", "t", "up", "d"}
    [] kind = "74LS193" -> {"clr", "ld", "cu", "cd", "d"}
    [] kind = "74393"  -> {"clr", "clk"}
    [] kind = "10136"  -> {"clk", "s1", "s2", "cin", "d"}
    [] OTHER -> {}

Update(kind, now, prev, s) ==
  CASE kind = "74S74" -> Update74(now, prev, s)     [] kind = "74LS109" -> Update109(now, prev, s)
    [] kind = "74S112" -> Update112(now, prev, s)   [] kind = "74276" -> Update276(now, prev, s)
    [] kind = "74LS273" -> Update273(now, prev, s)  [] kind = "74S174" -> Update174(now, prev, s)
    [] kind = "74S175" -> Update175(now, prev, s)   [] kind = "74S374" -> Update374(now, prev, s)
    [] kind = "74LS377" -> Update377(now, prev, s)  [] kind = "25S07" -> Update07(now, prev, s)
    [] kind = "25S09" -> Update09(now, prev, s)     [] kind = "25LS2519" -> Update2519(now, prev, s)
    [] kind = "74S373" -> Update373(now, prev, s)   [] kind = "74279" -> Update279(now, prev, s)
    [] kind = "74S194" -> Update194(now, prev, s)   [] kind = "74S299" -> Update299(now, prev, s)
    [] kind = "10141" -> Update10141(now, prev, s)  [] kind = "74LS164" -> Update164(now, prev, s)
    [] kind = "74165" -> Update165(now, prev, s)    [] kind = "9328" -> Update9328(now, prev, s)
    [] kind = "74LS161" -> Update161(now, prev, s)  [] kind = "74LS163" -> Update163(now, prev, s)
    [] kind = "74S169" -> Update169(now, prev, s)   [] kind = "74LS569" -> Update569(now, prev, s)
    [] kind = "74LS193" -> Update193(now, prev, s)  [] kind = "74393" -> Update393(now, prev, s)
    [] kind = "10136" -> Update10136(now, prev, s)

\* The pins of a part, and its state at power on: nothing held; a memory's
\* cells are filled by the board.
Pins(kind) ==
  UpdateIns(kind) \cup UNION {{g.out} \cup Range(g.ins) : g \in Range(Gates(kind))}
PowerOnState(kind) ==
  [q |-> [k \in 1..Width |-> FALSE], cells |-> IF kind = "5600" THEN <<FALSE, FALSE>> ELSE <<>>]

=============================================================================

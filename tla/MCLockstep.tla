------------------------------ MODULE MCLockstep ------------------------------
EXTENDS Lockstep

\* Instructions over small fields.
Nop == [op |-> "alu", popj |-> FALSE, src |-> "m", dest |-> "m", R |-> FALSE,
        P |-> FALSE, N |-> FALSE, inv |-> FALSE, cond |-> FALSE, target |-> 0,
        wr |-> FALSE, lpc |-> FALSE, adv |-> FALSE, cst |-> 0, word |-> Plain(0),
        cnt |-> 0, byte |-> FALSE]

AnyOf(ops, popjs, srcs) ==
  {[Nop EXCEPT !.op = o, !.popj = p, !.src = s] : o \in ops, p \in popjs, s \in srcs}

\* N is given apart from the pop source: neither has a part in the other.
Inhibits(i) == IF i.src = "pop" THEN {FALSE} ELSE BOOLEAN

\* The stack: every jump and dispatch, calls, returns, jumps not taken, and the
\* control store writes a microcode may have.
Jumps(srcs) ==
  UNION {{[i EXCEPT !.R = rp[1], !.P = rp[2], !.N = nn, !.inv = v, !.cond = ~v, !.target = 3]
            : rp \in {<<FALSE, FALSE>>, <<TRUE, FALSE>>, <<FALSE, TRUE>>},
              nn \in Inhibits(i), v \in {i.src = "pop"}}
         : i \in AnyOf({"jump"}, BOOLEAN, srcs)}
  \cup {[i EXCEPT !.R = r, !.cond = i.popj, !.inv = i.popj, !.target = 3]
         : i \in AnyOf({"jump"}, BOOLEAN, srcs), r \in BOOLEAN}
  \cup {[i EXCEPT !.R = TRUE, !.P = TRUE, !.N = nn, !.cond = TRUE, !.target = t]
         : i \in AnyOf({"jump"}, {FALSE}, srcs), nn \in BOOLEAN, t \in {0, 3}}
\* IR<25> is seen only by a call that inhibits, and a dispatch memory write
\* takes neither P nor N.
Dispatches(srcs) ==
  UNION {{[i EXCEPT !.R = r, !.P = p, !.N = nn, !.target = 2]
            : r \in BOOLEAN, p \in BOOLEAN, nn \in Inhibits(i)}
         \cup {[i EXCEPT !.P = TRUE, !.N = TRUE, !.lpc = TRUE, !.target = 2]}
         \cup {[i EXCEPT !.wr = TRUE, !.R = r, !.target = 2] : r \in BOOLEAN}
         : i \in AnyOf({"dispatch"}, BOOLEAN, srcs)}
Pushes(srcs) == {[i EXCEPT !.dest = "spc"] : i \in AnyOf({"alu"}, BOOLEAN, srcs)}
CountWrites(srcs, cnts) ==
  UNION {{[i EXCEPT !.dest = "lc", !.cnt = c] : c \in cnts}
         : i \in AnyOf({"alu"}, BOOLEAN, srcs)}

MCStack == Jumps({"m", "pop"}) \cup Dispatches({"m", "pop"})
           \cup Pushes({"m", "pop"})
           \cup AnyOf({"alu"}, BOOLEAN, {"spc", "pop", "md"})

\* The instruction stream: words with bit 14 pushed and popped, the counter
\* written, read and stepped in both modes.
StreamCode ==
  UNION {{i \in Pushes({"m"}) : ~i.popj},
         CountWrites({"m", "lc"}, {1, 6}),
         {[Nop EXCEPT !.dest = "intctl", !.byte = b] : b \in BOOLEAN},
         AnyOf({"alu"}, BOOLEAN, {"lc", "dc", "pop", "md"}),
         {[i EXCEPT !.adv = a, !.R = r, !.cst = 1]
            : i \in AnyOf({"dispatch"}, BOOLEAN, {"m"}), a \in BOOLEAN, r \in BOOLEAN},
         {[i EXCEPT !.R = TRUE, !.N = nn, !.cond = TRUE]
            : i \in AnyOf({"jump"}, {FALSE}, {"m", "pop"}), nn \in BOOLEAN}}
MCStream == {[i EXCEPT !.word.f = TRUE] : i \in StreamCode}

MCCodes == {MCStack, MCStream}
===============================================================================

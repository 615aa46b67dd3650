-------------------------------- MODULE Chip --------------------------------
(***************************************************************************)
(* The chip engine (src/chip.rs): a board evaluated from its netlist, one  *)
(* gate at a time, and only the gates whose inputs moved; and a cable to   *)
(* it (Cables in src/cable.rs), which carries only the wires the board's   *)
(* stamps say moved.                                                       *)
(*                                                                         *)
(* The engine is the record `e'.  A call from outside is one step here, as *)
(* it is in the program: nothing else runs while it does.  Beside e runs   *)
(* the engine `slow', which marks every gate and every part before every   *)
(* call, never leaves a wire out and never sleeps: the reference the code  *)
(* is written against (Chip::mark_all, FarEnd::unoptimized).               *)
(*                                                                         *)
(* A generation is only ever compared with the one the cable noted and     *)
(* with the one a round began at: e.moved and e.round say whether it moved *)
(* since, and e.stamped which nets' stamps did.                            *)
(***************************************************************************)
EXTENDS Part, TLC

CONSTANT Boards,          \* the netlists, by name
         SweepLimit,      \* sweeps a feedback group is given to settle
         UpdateRounds,    \* rounds of asking the parts in one transition
         Recent, Quiet,   \* how a board is found asleep
         FarEvery,        \* how often a wire to a board with a clock may move
         MaxTime,         \* bound: the time a board is run to
         MaxPokes         \* bound: changes of a part's state from outside

ASSUME ChipAssumption ==
  /\ {SweepLimit, UpdateRounds, Recent, Quiet, FarEvery, MaxTime} \subseteq Nat \ {0}
  /\ MaxPokes \in Nat

VARIABLE board,           \* the netlist, and what is built from it
         e, slow,         \* the engine, and the one that leaves nothing out
         far,             \* what the far end drives on each wire, or "none"
         given,           \* what the board and the far end were last given
         given2,          \* the same, of slow
         early,           \* the wires last read while a driver was marked, and
                          \* found as they were given
         farMoved,        \* the wires whose net moved at the far end since the
                          \* generation noted, by its own drivers or by the cable
         phase,           \* "off", "run", "exchange" or "respond"
         clock,           \* the level of the board's clock net
         time, pokes, ref

chipVars == <<board, e, slow, far, given, given2, early, farMoved, phase, clock, time, pokes, ref>>

Names == DOMAIN Boards
None == [level |-> "Z", drive |-> "Passive"]   \* no driver from outside

-----------------------------------------------------------------------------
(* The board as it is built: gates, who reads and drives a net, the order. *)

Parts(b) == DOMAIN Boards[b].parts
NetOn(part, pin) == IF pin \in DOMAIN part.on THEN part.on[pin] ELSE "none"

\* Every gate of the board, part by part, with its output net.
PartGates(p, part, gs) ==
  [k \in DOMAIN gs |-> [part |-> p, gate |-> gs[k], out |-> NetOn(part, gs[k].out),
                        ins |-> [j \in DOMAIN gs[k].ins |-> NetOn(part, gs[k].ins[j])]]]
GateTable(b) ==
  FlattenSeq([p \in Parts(b) |-> PartGates(p, Boards[b].parts[p], Gates(Boards[b].parts[p].kind))])

Nets(b) ==
  (UNION {Range(Boards[b].parts[p].on) : p \in Parts(b)}
     \cup Range(Boards[b].wires) \cup {"ck"} \cup DOMAIN Boards[b].rails
     \cup UNION {{l.input} \cup {x.net : x \in Range(l.taps)} : l \in Range(Boards[b].lines)}
     \cup UNION {{s.i0, s.i1, s.clear, s.q, s.nq} : s \in Range(Boards[b].shots)}
     \cup UNION {{o.output, o.enable} : o \in Range(Boards[b].oscs)}) \ {"none"}

\* Who reads and who drives a net: gates, and the parts that look at edges.
Readers(gates, nets) == [n \in nets |-> {f \in DOMAIN gates : n \in Range(gates[f].ins)}]
Touchers(b, nets) ==
  [n \in nets |-> {p \in Parts(b) : UpdateIns(Boards[b].parts[p].kind) # {} /\ n \in Range(Boards[b].parts[p].on)}]
Drivers(gates, nets) == [n \in nets |-> {f \in DOMAIN gates : gates[f].out = n}]

\* Which gates a gate feeds, itself or through others.
Feeds(gates, f, g) == gates[f].out # "none" /\ gates[f].out \in Range(gates[g].ins)
Reaches(gates) ==
  FoldLeft(LAMBDA r, k : r \cup {<<f, g>> : f \in {x \in DOMAIN gates : <<x, k>> \in r},
                                           g \in {x \in DOMAIN gates : <<k, x>> \in r}},
           UNION {{<<f, g>> : g \in {x \in DOMAIN gates : Feeds(gates, f, x)}} : f \in DOMAIN gates},
           [k \in DOMAIN gates |-> k])

\* The gates in groups, a loop to a group, each after what feeds it; within
\* a loop the gate least of whose feeders are still to come is taken next.
GateGroups(gates, reach) ==
  {{f} \cup {g \in DOMAIN gates : {<<f, g>>, <<g, f>>} \subseteq reach} : f \in DOMAIN gates}
Place(gates, reach, grp) ==
  100 * Cardinality({f \in DOMAIN gates : \E g \in grp : f \in grp \/ <<f, g>> \in reach}) + Min(grp)
FeedersLeft(gates, left) == [g \in left |-> Cardinality({f \in left : Feeds(gates, f, g)})]
LeastOf(waits) ==
  CHOOSE g \in DOMAIN waits : \A h \in DOMAIN waits :
    waits[g] < waits[h] \/ (waits[g] = waits[h] /\ g <= h)
OrderWithin(gates, grp) ==
  FoldLeft(LAMBDA out, k : Append(out, LeastOf(FeedersLeft(gates, grp \ Range(out)))),
           <<>>, [k \in 1..Cardinality(grp) |-> k])
InOrder(gates, place) ==
  [k \in 1..Cardinality(DOMAIN place) |->
     OrderWithin(gates, CHOOSE g \in DOMAIN place :
                          Cardinality({h \in DOMAIN place : place[h] < place[g]}) = k - 1)]
Placed(gates, reach) == [grp \in GateGroups(gates, reach) |-> Place(gates, reach, grp)]
Order(gates) == InOrder(gates, Placed(gates, Reaches(gates)))
GroupOf(gates, order) == [f \in DOMAIN gates |-> CHOOSE k \in DOMAIN order : f \in Range(order[k])]

BuiltFrom(b, gates, nets, order) ==
  [gates |-> gates, nets |-> nets, order |-> order, groupOf |-> GroupOf(gates, order),
   readers |-> Readers(gates, nets), touchers |-> Touchers(b, nets), drivers |-> Drivers(gates, nets)]
  @@ Boards[b]
BuiltInOrder(b, gates) == BuiltFrom(b, gates, Nets(b), Order(gates))
Build(b) == BuiltInOrder(b, GateTable(b))

Flat == DOMAIN board.gates
Rail(n) == IF n \in DOMAIN board.rails THEN board.rails[n] ELSE "Z"

-----------------------------------------------------------------------------
(* Marks, nets and gates. *)

Bump(c) == [c EXCEPT !.moved = TRUE, !.round = TRUE]

\* Every write to a net: the generation and the net's stamp follow.
PutNet(c, n, l) ==
  IF c.nets[n] = l THEN c ELSE [Bump(c) EXCEPT !.nets[n] = l, !.stamped = @ \cup {n}]
NetsReplaced(c) == [Bump(c) EXCEPT !.stamped = DOMAIN c.nets]

Soil(c, gates) ==
  LET new == gates \ c.dirty IN
  [c EXCEPT !.dirty = @ \cup new, !.count = @ + Cardinality(new),
            !.groups = @ \cup {board.groupOf[f] : f \in new}]
Clean(c, f) == IF f \in c.dirty THEN [c EXCEPT !.dirty = @ \ {f}, !.count = @ - 1] ELSE c
SoilPart(c, p) == Soil(c, {f \in Flat : board.gates[f].part = p})
MarkReaders(c, n) == [Soil(c, board.readers[n]) EXCEPT !.parts = @ \cup board.touchers[n]]
SetNet(c, n, l) == IF c.nets[n] = l THEN c ELSE MarkReaders(PutNet(c, n, l), n)

\* A fill of the marks that leaves the count behind.
MarkEveryGate_mut(c) == [c EXCEPT !.dirty = Flat, !.groups = DOMAIN board.order]
MarkEveryGate(c) ==
  [c EXCEPT !.dirty = Flat, !.count = Len(board.gates), !.groups = DOMAIN board.order]
MarkAll(c) == [MarkEveryGate(c) EXCEPT !.parts = DOMAIN board.parts]

PinLevel(c, n) == IF n = "none" THEN "Z" ELSE c.nets[n]
EvalGate(c, f) ==
  LET t == board.gates[f] IN
  Eval(t.gate, [pin \in Range(t.gate.ins) |->
                  PinLevel(c, NetOn(board.parts[t.part], pin))], c.state[t.part])

\* A clean gate's level as it was computed, a marked one's as it is.
LevelNow(c, f) == IF f \in c.dirty THEN EvalGate(c, f) ELSE c.level[f]
LevelsNow(c, n) == [f \in board.drivers[n] |-> LevelNow(c, f)]
Driven(levels) == {[level |-> levels[f], drive |-> board.gates[f].gate.drive] : f \in DOMAIN levels}
Driving(c, n) == Driven(LevelsNow(c, n))

\* A net from what drives it, the far end included; a rail is a rail.
ResolveFrom(c, n, levels) ==
  PutNet(IF \A f \in DOMAIN levels : levels[f] = c.level[f] THEN c
         ELSE [Bump(c) EXCEPT !.stamped = @ \cup {n}, !.level = levels @@ @],
         n, Resolve(Driven(levels) \cup {c.ext[n]}))
ResolveNet(c, n) ==
  IF Rail(n) # "Z" THEN PutNet(c, n, Rail(n)) ELSE ResolveFrom(c, n, LevelsNow(c, n))

\* Whether the board itself is holding a net.
Strong(driving) == \E d \in driving : Holds(d) /\ d.drive # "PullUp"

-----------------------------------------------------------------------------
(* Settling. *)

\* A gate that is no part of a loop.
MarkIfMoved(c, c1, n) == IF c1.nets[n] # c.nets[n] THEN MarkReaders(c1, n) ELSE c1
SettleGate(c, f) ==
  LET n == board.gates[f].out
  IN  IF n = "none" THEN Clean(c, f) ELSE MarkIfMoved(c, Clean(ResolveNet(c, n), f), n)

\* A gate of a loop: an unknown that is new is not taken, the net stays as it
\* was and the gate marked.
Swept(a, c, c1, n, f) ==
  CASE c1.nets[n] = c.nets[n] -> [a EXCEPT !.c = c1]
    [] c1.nets[n] = "X" /\ c.nets[n] # "X" ->
         [c |-> Soil(PutNet(c1, n, c.nets[n]), {f}), changed |-> TRUE]
    [] OTHER -> [c |-> MarkReaders(c1, n), changed |-> TRUE]
SweepGate(a, f) ==
  LET n == board.gates[f].out
  IN  CASE f \notin a.c.dirty -> a
        [] f \in a.c.dirty /\ n = "none" -> [a EXCEPT !.c = Clean(@, f)]
        [] OTHER -> Swept(a, a.c, Clean(ResolveNet(a.c, n), f), n, f)

RECURSIVE Sweeps(_, _, _)
SweepEnds(a, k, sweep) ==
  IF ~a.changed THEN [a.c EXCEPT !.groups = @ \ {k}]
  ELSE IF sweep = SweepLimit THEN [a.c EXCEPT !.unsettled = TRUE]
  ELSE Sweeps(a.c, k, sweep + 1)
Sweeps(c, k, sweep) ==
  SweepEnds(FoldLeft(SweepGate, [c |-> c, changed |-> FALSE], board.order[k]), k, sweep)

\* The marked groups in their order, each looked at once.
SettleGroup(c, k) ==
  LET c1 == [c EXCEPT !.groups = @ \ {k}]
      group == board.order[k]
  IN  IF c.count = 0 \/ k \notin c.groups THEN c
      ELSE IF Range(group) \cap c.dirty = {} THEN c1
      ELSE IF Len(group) = 1 THEN SettleGate(c1, group[1])
      ELSE Sweeps(c1, k, 1)
Settle(c) ==
  FoldLeft(SettleGroup, [c EXCEPT !.unsettled = FALSE], [k \in DOMAIN board.order |-> k])

SettleAll(c) == Settle(MarkEveryGate(c))

-----------------------------------------------------------------------------
(* What moves by itself: delay lines, one-shots and oscillators.  A time of  *)
(* -1 is none, and so is the level "N".                                      *)

Pulled(l) == IF l = "Z" THEN "H" ELSE l
Flip(l) == CASE l = "H" -> "L" [] l = "L" -> "H" [] OTHER -> l

AdvanceLine(c, k, now) ==
  LET line == board.lines[k]
      level == Pulled(c.nets[line.input])
      sent == IF c.lines[k].last = level THEN c.lines[k].pending
              ELSE c.lines[k].pending \o
                   [t \in DOMAIN line.taps |-> [at |-> now + line.taps[t].ns, tap |-> t, level |-> level]]
      due(x) == x.at <= now
      later(x) == x.at > now
      out(x) == IF line.invert THEN Flip(x.level) ELSE x.level
  IN  FoldLeft(LAMBDA d, x : SetNet(d, line.taps[x.tap].net, out(x)),
               [c EXCEPT !.lines[k] = [last |-> level, pending |-> SelectSeq(sent, later)]],
               SelectSeq(sent, due))

AdvanceShot(c, k, now) ==
  LET s == board.shots[k]
      was == c.shots[k].last
      a == Pulled(c.nets[s.i0])
      b == Pulled(c.nets[s.i1])
      triggered == \/ was[1] = "H" /\ a = "L" /\ b = "L"
                   \/ was[2] = "L" /\ b = "H" /\ a = "H"
      fall == CASE Pulled(c.nets[s.clear]) = "L" -> -1
                [] Pulled(c.nets[s.clear]) # "L" /\ triggered -> now + s.width
                [] OTHER -> IF c.shots[k].fall <= now THEN -1 ELSE c.shots[k].fall
  IN  SetNet(SetNet([c EXCEPT !.shots[k] = [last |-> <<a, b>>, fall |-> fall]],
                    s.q, Lv(fall # -1)), s.nq, Lv(fall = -1))

\* The k-th toggle of an oscillator of this period, from its origin; and the
\* first fall a section enabled at t lets out.
ToggleAt(period, k) == (k * period[1]) \div (2 * period[2])
Toggles(period, t) == 0..(2 * period[2] * (t + 1) + 2)     \* enough to pass t
FirstFall(period, t) ==
  Min({k \in Toggles(period, t) : k % 2 = 1 /\ ToggleAt(period, k) > t})
GatedFall(period, t) == ToggleAt(period, FirstFall(period, t))

AdvanceOsc(c, k, now) ==
  LET o == board.oscs[k]
      was == c.oscs[k]
      origin == IF was.origin = -1 THEN now ELSE was.origin
      due == Max({was.edges} \cup {j \in Toggles(o.period, now) : origin + ToggleAt(o.period, j) <= now})
      since == IF was.since = -1 THEN now ELSE was.since
      gated == o.enable # "none"
      off == gated /\ c.nets[o.enable] # "L"
      level == IF off \/ (gated /\ GatedFall(o.period, since) > now) THEN "H" ELSE Lv(due % 2 = 0)
  IN  SetNet([c EXCEPT !.oscs[k] =
                [origin |-> origin, edges |-> due,
                 since |-> IF off \/ ~gated THEN -1 ELSE since,
                 next |-> IF off THEN -1 ELSE origin + ToggleAt(o.period, due + 1)]],
             o.output, level)

AdvanceDelays(c, now) ==
  LET over(op(_, _, _), seq, d) == FoldLeft(LAMBDA x, k : op(x, k, now), d, [k \in DOMAIN seq |-> k])
  IN  over(AdvanceOsc, board.oscs,
        over(AdvanceShot, board.shots,
          over(AdvanceLine, board.lines, c)))

-----------------------------------------------------------------------------
(* A transition: the parts are asked until a round moves no net. *)

Snapshot(c) == [c EXCEPT !.prev = c.nets]

\* Every marked part sees the edges its pins had since the snapshot.
PinsOf(nets, p) ==
  LET part == board.parts[p] IN
  [pin \in Pins(part.kind) |-> LET n == NetOn(part, pin) IN IF n = "none" THEN "Z" ELSE nets[n]]
UpdateState(c) ==
  LET asked == {p \in c.parts : UpdateIns(board.parts[p].kind) # {}}
      marked == IF asked = {} THEN c ELSE Soil(Bump(c), {f \in Flat : board.gates[f].part \in asked})
  IN  [marked EXCEPT !.parts = {},
        !.state = [p \in DOMAIN @ |->
                     IF p \in asked
                     THEN Update(board.parts[p].kind, PinsOf(c.nets, p), PinsOf(c.prev, p), @[p])
                     ELSE @[p]]]

\* One round: a register clocked by a register waits for the next transition.
Rounds_mut(c, now, n) == Settle(AdvanceDelays(Settle(Snapshot(UpdateState(c))), now))
RECURSIVE Rounds(_, _, _)
RoundBegins(c) == [Snapshot(c) EXCEPT !.round = FALSE]
RoundEnds(c, now, n) ==
  IF ~c.round THEN c
  ELSE IF n = UpdateRounds THEN [c EXCEPT !.unconverged = TRUE]
  ELSE Rounds(c, now, n + 1)
Rounds(c, now, n) ==
  RoundEnds(Settle(AdvanceDelays(Settle(RoundBegins(UpdateState(c))), now)), now, n)

\* The board's state among the recent ones, and how long it has been.
Remember(c) ==
  [c EXCEPT !.quiet = IF c.nets \in Range(c.recent) THEN Min({@ + 1, Quiet}) ELSE 0,
            !.recent = LET all == Append(@, c.nets)
                       IN  IF Len(all) > Recent THEN Tail(all) ELSE all]

RememberIfClocked(c) == IF board.oscs = <<>> THEN c ELSE Remember(c)
Transition(c, now) ==
  LET fresh == IF c.fresh THEN [Snapshot(c) EXCEPT !.fresh = FALSE] ELSE c
  IN  RememberIfClocked(Rounds(Settle(AdvanceDelays(fresh, now)), now, 1))

\* The transition of an engine that leaves nothing out.
WholeTransition(c, now) == [Transition(MarkAll(c), now) EXCEPT !.recent = <<>>, !.quiet = 0]

Taps(c) == UNION {{x.at : x \in Range(c.lines[k].pending)} : k \in DOMAIN c.lines}
Falls(c) == {c.shots[k].fall : k \in DOMAIN c.shots} \ {-1}
Edges(c) == {c.oscs[k].next : k \in DOMAIN c.oscs} \ {-1}

Asleep(c) == c.quiet >= Quiet /\ Taps(c) = {}
NextWake(c) == Taps(c) \cup Falls(c)
NextTap(c) == Taps(c) \cup Edges(c) \cup Falls(c)
Due(c) == IF Asleep(c) THEN NextWake(c) ELSE NextTap(c)

-----------------------------------------------------------------------------
(* A checkpoint of the board, and the board a load leaves.                  *)

Save(c) ==
  [nets |-> c.nets, prev |-> c.prev, dirty |-> c.dirty, parts |-> c.parts, state |-> c.state,
   oscs |-> [k \in DOMAIN c.oscs |->
               [phase |-> IF board.oscs[k].enable # "none" THEN c.oscs[k].since
                          ELSE c.oscs[k].origin, edges |-> c.oscs[k].edges]],
   shots |-> c.shots, lines |-> c.lines, ext |-> c.ext]

LoadOsc(k, saved) ==
  LET o == board.oscs[k]
      next == ToggleAt(o.period, saved.edges + 1)
  IN  IF o.enable # "none"
      THEN [origin |-> 0, edges |-> saved.edges, since |-> saved.phase,
            next |-> IF saved.phase = -1 THEN -1 ELSE next]
      ELSE [origin |-> saved.phase, edges |-> saved.edges, since |-> -1,
            next |-> IF saved.phase = -1 THEN -1 ELSE saved.phase + next]

\* What is derived is built again, the level of every gate with it.
RebuildDerived(c) ==
  [NetsReplaced(c) EXCEPT !.groups = {board.groupOf[f] : f \in c.dirty},
                          !.level = [f \in Flat |-> EvalGate(c, f)]]
NewOsc(b, k) ==
  [origin |-> IF b.oscs[k].enable # "none" THEN 0 ELSE -1, edges |-> 0, since |-> -1, next |-> -1]

Load(s) ==
  RebuildDerived(
    [nets |-> s.nets, prev |-> s.prev, fresh |-> FALSE, ext |-> s.ext,
     dirty |-> s.dirty, count |-> Cardinality(s.dirty), groups |-> {}, parts |-> s.parts,
     level |-> [f \in Flat |-> "Z"], state |-> s.state,
     lines |-> s.lines, shots |-> s.shots, oscs |-> [k \in DOMAIN s.oscs |-> LoadOsc(k, s.oscs[k])],
     moved |-> TRUE, round |-> TRUE, stamped |-> {}, unsettled |-> FALSE, unconverged |-> FALSE,
     recent |-> <<>>, quiet |-> 0])

\* A board at power on: rails, and nothing else.
PowerOn(b) ==
  [nets |-> [n \in b.nets |->
               IF n \in DOMAIN b.rails THEN b.rails[n] ELSE IF n = "ck" THEN "L" ELSE "Z"],
   prev |-> [n \in b.nets |-> "Z"], fresh |-> TRUE,
   ext |-> [n \in b.nets |-> None],
   dirty |-> DOMAIN b.gates, count |-> Len(b.gates), groups |-> DOMAIN b.order, parts |-> DOMAIN b.parts,
   level |-> [f \in DOMAIN b.gates |-> "Z"],
   state |-> [p \in DOMAIN b.parts |-> PowerOnState(b.parts[p].kind)],
   lines |-> [k \in DOMAIN b.lines |-> [last |-> "N", pending |-> <<>>]],
   shots |-> [k \in DOMAIN b.shots |-> [last |-> <<"N", "N">>, fall |-> -1]],
   oscs |-> [k \in DOMAIN b.oscs |-> NewOsc(b, k)],
   moved |-> TRUE, round |-> TRUE, stamped |-> b.nets,
   unsettled |-> FALSE, unconverged |-> FALSE, recent |-> <<>>, quiet |-> 0]

-----------------------------------------------------------------------------
(* The far end's drivers, and the cable between. *)

\* A driver from outside: the net is resolved and its readers marked, whether
\* or not the level moved.
Outside(c, n, d) ==
  IF c.ext[n] = d THEN c ELSE MarkReaders(ResolveNet([c EXCEPT !.ext[n] = d], n), n)
DriveNet(c, n, l) == Outside(c, n, [level |-> l, drive |-> "TriState"])
ReleaseNet(c, n) == Outside(c, n, None)

\* One wire carried: each end is given what the other is driving, if it is.
HeldLevel(driving) == IF Strong(driving) THEN Resolve(driving) ELSE "none"
ToFar(c, n) == HeldLevel(Driving(c, n))

\* The wire's net at the far end: its own driver, the cable's, a pull-up.
FarNet(n, l) ==
  Resolve({[level |-> x, drive |-> "TriState"] : x \in {far[n], l} \ {"none"}}
            \cup {[level |-> "H", drive |-> "PullUp"] : x \in {n} \cap board.pulled})

\* Driving an end moves its generation, and stamps the net that moved by it.
Given(x, n, carried) ==
  [x EXCEPT !.c = IF carried.board = x.given[n].board THEN @
                  ELSE IF carried.board = "none" THEN ReleaseNet(@, n) ELSE DriveNet(@, n, carried.board),
            !.given[n] = carried,
            !.early = IF x.given[n] = carried /\ board.drivers[n] \cap x.c.dirty # {} THEN @ \cup {n} ELSE @ \ {n},
            !.farMoved = IF FarNet(n, carried.far) = FarNet(n, x.given[n].far) THEN @ ELSE @ \cup {n},
            !.changed = @ \/ x.given[n] # carried]
CarryWire(x, n) == Given(x, n, [board |-> far[n], far |-> ToFar(x.c, n)])

\* Every wire an end's net or drivers moved on since the last exchange, in
\* order.  The generations are noted before: what carrying moves at an end is
\* looked at next time too.
CarryMoved(x, n) ==
  IF n \in x.since \cup x.c.stamped \cup x.farMoved \/ board.drivers[n] \cap x.c.dirty # {}
  THEN CarryWire(x, n) ELSE x
Carried(c, gv, since) ==
  FoldLeft(CarryMoved, [c |-> [c EXCEPT !.moved = FALSE, !.stamped = {}], given |-> gv,
                        since |-> since \cup farMoved, farMoved |-> {}, early |-> early, changed |-> FALSE],
           board.wires)

-----------------------------------------------------------------------------
(* What the board is a model of: a shift register, or a counter.  ref is its *)
(* contents, and Reads what the board holds.                                 *)

Is(n, l) == n \in DOMAIN far /\ far[n] = l
Zero(r) == [k \in DOMAIN r |-> FALSE]
Spec0 == board.spec
ShiftRef(r) == ShiftIn(r, ~Is("d", "L"))
CountRef(r) ==
  LET w == Len(r)
      down == "down" \in Spec0.has /\ (Is("u", "L") \/ "u" \notin DOMAIN far)
  IN  BitsOf((WordOf(r) + (IF down THEN 2^w - 1 ELSE 1)) % 2^w, w)

\* Held clear from outside, and the clock's edge with the enable right.
ClearedRef(r) == IF "clear" \in Spec0.has /\ Is("c", "L") THEN Zero(r) ELSE r
ClockedRef(r, l) ==
  IF l # Spec0.edge \/ ("enable" \in Spec0.has /\ ~Is("e", Spec0.on)) THEN r
  ELSE IF "clocked clear" \in Spec0.has /\ Is("c", "L") THEN Zero(r)
  ELSE IF Spec0.is = "shift" THEN ShiftRef(r) ELSE CountRef(r)

\* The bits the parts named hold, first in first.
Reads(c) == FlattenSeq([k \in DOMAIN Spec0.parts |->
                          SubSeq(c.state[Spec0.parts[k]].q, 1, Spec0.bits)])

-----------------------------------------------------------------------------
(* The specification. *)

ChipInit(b) ==
  /\ board = Build(b)
  /\ e = PowerOn(board) /\ slow = e
  /\ far = [n \in Range(board.wires) |-> IF n \in board.ins THEN "H" ELSE "none"]
  /\ given = [n \in Range(board.wires) |-> [board |-> "none", far |-> "none"]] /\ given2 = given /\ early = {}
  /\ farMoved = Range(board.wires) /\ phase = "off"
  /\ clock = "L" /\ time = 0 /\ pokes = 0
  /\ ref = <<>>

\* Power comes on, with the clock low.
PowerUp ==
  /\ phase = "off" /\ phase' = "exchange"
  /\ e' = Transition(e, 0) /\ slow' = WholeTransition(slow, 0)
  /\ ref' = Reads(e')
  /\ UNCHANGED <<board, far, given, given2, early, farMoved, clock, time, pokes>>

Timed == board.lines # <<>> \/ board.shots # <<>> \/ board.oscs # <<>>

\* The far end changes what it drives, on any of its wires at once; on the
\* wires of a board with clocks as time passes.
FarDrives ==
  \E f \in [board.ins -> board.levels] :
    /\ far' = [n \in DOMAIN far |-> IF n \in DOMAIN f THEN f[n] ELSE far[n]]
    /\ farMoved' = farMoved \cup {n \in DOMAIN f : f[n] # far[n]}
FarMoves ==
  /\ phase = "run" /\ phase' = "exchange" /\ ~Timed
  /\ FarDrives /\ far' # far
  /\ UNCHANGED <<board, e, slow, given, given2, early, clock, time, pokes, ref>>

\* The cable carries what moved, or nothing when neither end's generation did.
Skipped == [c |-> e, given |-> given, farMoved |-> farMoved, early |-> early, changed |-> FALSE]
Exchanged(x, y) ==
  /\ e' = x.c /\ given' = x.given /\ farMoved' = x.farMoved /\ early' = x.early
  /\ slow' = y.c /\ given2' = y.given
  /\ phase' = IF x.changed \/ y.changed THEN "respond" ELSE "run"
Exchange ==
  /\ phase = "exchange"
  /\ Exchanged(IF ~e.moved /\ farMoved = {} THEN Skipped ELSE Carried(e, given, e.stamped),
               Carried(slow, given2, DOMAIN far))
  /\ UNCHANGED <<board, far, clock, time, pokes, ref>>

\* The boards an exchange moved respond, the far one by driving other levels.
Respond ==
  /\ phase = "respond" /\ phase' = "exchange"
  /\ e' = Transition(e, time) /\ slow' = WholeTransition(slow, time)
  /\ ref' = ClearedRef(ref)
  /\ IF board.reacts THEN FarDrives ELSE UNCHANGED <<far, farMoved>>
  /\ UNCHANGED <<board, given, given2, early, clock, time, pokes>>

\* The clock net moves.
Tick ==
  LET l == Flip(clock) IN
  /\ phase = "run" /\ phase' = "exchange" /\ ~Timed
  /\ clock' = l
  /\ e' = Transition(SetNet(e, "ck", l), time)
  /\ slow' = WholeTransition(SetNet(slow, "ck", l), time)
  /\ ref' = ClearedRef(ClockedRef(ref, l))
  /\ UNCHANGED <<board, far, given, given2, early, farMoved, time, pokes>>

\* Time passes to the next instant, and a board with something due has it; a
\* board asleep on its own clock leaves the edges out.
Elapse ==
  LET t == time + 1
      due(times) == \E x \in times : x <= t
  IN  /\ phase = "run" /\ phase' = "exchange" /\ Timed /\ t <= MaxTime
      /\ time' = t
      /\ IF t % FarEvery = 0 THEN FarDrives ELSE UNCHANGED <<far, farMoved>>
      /\ e' = IF due(Due(e)) THEN Transition(e, t) ELSE e
      /\ slow' = IF due(NextTap(slow)) THEN WholeTransition(slow, t) ELSE slow
      /\ UNCHANGED <<board, given, given2, early, clock, pokes, ref>>

\* A part's state changed from outside: a memory's cell, a PROM's contents,
\* the switches, and a bit of a part's state.
Flipped(c, p) ==
  IF c.state[p].cells # <<>> THEN [c EXCEPT !.state[p].cells[1] = ~@] ELSE [c EXCEPT !.state[p].q[1] = ~@]
SetCellBit(c, p) == SoilPart(Flipped(c, p), p)
LoadRom(c, p) == MarkAll(Flipped(c, p))
SetSwitches(c, p) == MarkAll(Bump(Flipped(c, p)))
SetStateBit(c, p) == Settle(MarkAll(Flipped(SoilPart(Bump(c), p), p)))

Poke(op(_, _), parts) ==
  /\ phase = "run" /\ pokes < MaxPokes /\ pokes' = pokes + 1
  /\ \E p \in parts : e' = op(e, p) /\ slow' = op(slow, p)
  /\ ref' = Reads(e')
  /\ UNCHANGED <<board, far, given, given2, early, farMoved, phase, clock, time>>
Memories == {p \in DOMAIN board.parts : e.state[p].cells # <<>>}
Switches == {p \in DOMAIN board.parts : board.parts[p].kind = "SWITCH"}
Registered == {p \in DOMAIN board.parts : Spec0.is = "none" /\ ~Timed /\ UpdateIns(board.parts[p].kind) # {}}

\* The board saved and loaded into a machine built afresh.
Resume ==
  /\ phase = "run" /\ pokes < MaxPokes /\ pokes' = pokes + 1
  /\ e' = Load(Save(e))
  /\ UNCHANGED <<board, slow, far, given, given2, early, farMoved, phase, clock, time, ref>>

ChipNext ==
  \/ PowerUp \/ FarMoves \/ Exchange \/ Respond \/ Tick \/ Elapse \/ Resume
  \/ Poke(SetCellBit, Memories) \/ Poke(LoadRom, Memories) \/ Poke(SetSwitches, Switches)
  \/ Poke(SetStateBit, Registered)

-----------------------------------------------------------------------------
(* Properties. *)

\* The marks are the whole of what is out of date: their count and their
\* groups are in step with them, a gate that is not marked has the level its
\* inputs give, and a net whose drivers are not marked the one they give
\* (Chip::settle stops on the count, and a marked gate is not marked again);
\* so with none marked, settling every gate moves nothing (settle_all).
MarksCover ==
  /\ e.count = Cardinality(e.dirty)
  /\ {board.groupOf[f] : f \in e.dirty} \subseteq e.groups
  /\ \A n \in DOMAIN e.nets :
       Rail(n) = "Z" /\ board.drivers[n] # {} /\ board.drivers[n] \cap e.dirty = {} =>
         /\ \A f \in board.drivers[n] : e.level[f] = EvalGate(e, f)
         /\ e.nets[n] = Resolve(Driving(e, n) \cup {e.ext[n]})
  /\ phase = "run" /\ e.dirty = {} => SettleAll(e).nets = e.nets

\* The nets a board that slept may be behind on: its own overdue clocks'.
OwnClocks ==
  {board.oscs[k].output : k \in {j \in DOMAIN e.oscs : e.oscs[j].next \in 0..time}}

\* The engine that evaluates only what moved, carries only what moved, skips
\* its clock's edges while asleep and is saved and loaded at any moment is,
\* between calls, where the engine is that does everything every time, and so
\* is the far end's net on every wire of the cable, the early ones left out
\* (Chip::mark_all, FarEnd::unoptimized, Xbus::sleep).
SameAsSlow ==
  phase = "run" =>
    /\ \A n \in DOMAIN e.nets \ OwnClocks : e.nets[n] = slow.nets[n]
    /\ e.state = slow.state
    /\ \A n \in DOMAIN far \ early : FarNet(n, given[n].far) = FarNet(n, given2[n].far)
    /\ e.lines = slow.lines /\ e.shots = slow.shots

\* A wire whose net stands right at both ends, or that the next exchange looks
\* at: its net moved at an end, or a gate that drives it is marked.
Covered(n) ==
  \/ n \in e.stamped \cup farMoved
  \/ board.drivers[n] \cap e.dirty # {}
  \/ given[n].board = far[n] /\ FarNet(n, given[n].far) = FarNet(n, ToFar(e, n))

\* Between calls each end's net stands where what the other drives puts it, or
\* is looked at again: "A reader that noted the generation when it last looked
\* need not look again while this is no greater" (Chip::net_stamp).  It fails,
\* for an early wire: the board's net moved since it was last read; this
\* exchange evaluates its marked gate on inputs half of which have moved, finds
\* the level the far end was given before, and drives nothing; and the settling
\* finds the gate where it was and stamps nothing.
StampsCover == phase = "run" => \A n \in DOMAIN far : Covered(n)

\* Where the level of the moment was carried, the far net it moved has the wire
\* read again, so only the early wires are out.
EarlyAlone == phase # "off" => \A n \in DOMAIN far \ early : Covered(n)

\* The engine that does only what moved: its marks, where it ends, and what the
\* cable's stamps let it leave out.
EngineKept == MarksCover /\ SameAsSlow /\ EarlyAlone

\* Registers clocked by one edge take what the ones before them held before
\* it, whichever part they are, and counters joined by their carries count as
\* one, the ones clocked by a carry included (Chip::transition's rounds).
ClockedAsOne ==
  phase = "run" /\ Spec0.is # "none" => Reads(e) = ref /\ ~e.unconverged
=============================================================================

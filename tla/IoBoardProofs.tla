---------------------------- MODULE IoBoardProofs ----------------------------
(***************************************************************************)
(* Proofs about the I/O board's mouse and its microsecond clock: whatever  *)
(* the full queue lost, however late the edges are sampled and whichever   *)
(* way the mouse is plugged, the counters and the motion still on its way  *)
(* are where the viewer put the pointer.                                   *)
(***************************************************************************)
EXTENDS IoBoard, SequenceTheorems, WellFoundedInduction, TLAPS

-----------------------------------------------------------------------------
(* Counts modulo the counters.                                               *)

\* Two numbers a whole number of turns of a counter apart.
Same(a, b) == \E k \in Int : a = b + k * CountMod

LEMMA SameSame == \A a \in Int : Same(a, a)
<1> SUFFICES ASSUME NEW a \in Int PROVE \E k \in Int : a = a + k * CountMod
  BY DEF Same
<1>1. a = a + 0 * CountMod
  BY IoBoardAssumption, SMT
<1> QED BY <1>1

LEMMA SameAdds ==
    ASSUME NEW a \in Int, NEW b \in Int, NEW c \in Int, NEW d \in Int, Same(a, b), Same(c, d)
    PROVE  Same(a + c, b + d)
<1>1. PICK k \in Int : a = b + k * CountMod
  BY DEF Same
<1>2. PICK j \in Int : c = d + j * CountMod
  BY DEF Same
<1>3. (k + j) * CountMod = k * CountMod + j * CountMod /\ k * CountMod \in Int /\ j * CountMod \in Int
  BY IoBoardAssumption, SMT
<1>4. a + c = (b + d) + (k + j) * CountMod
  BY <1>1, <1>2, <1>3, SMT
<1> QED BY <1>4 DEF Same

LEMMA SameOn ==
    ASSUME NEW a \in Int, NEW b \in Int, NEW c \in Int, Same(a, b), Same(b, c)
    PROVE  Same(a, c)
<1>1. Same(a + b, b + c)
  BY SameAdds
<1>2. PICK k \in Int : a + b = (b + c) + k * CountMod
  BY <1>1 DEF Same
<1>3. k * CountMod \in Int
  BY IoBoardAssumption, SMT
<1>4. a = c + k * CountMod
  BY <1>2, <1>3, SMT
<1> QED BY <1>4 DEF Same

\* What a counter shows is what went into it.
LEMMA SameShown ==
    ASSUME NEW a \in Int
    PROVE  a % CountMod \in 0 .. CountMod - 1 /\ Same(a % CountMod, a)
<1> DEFINE q == a \div CountMod
<1>1. CountMod \in Nat \ {0}
  BY IoBoardAssumption
<1>2. a = q * CountMod + (a % CountMod) /\ q \in Int /\ a % CountMod \in 0 .. CountMod - 1
  BY <1>1, SMT
<1>3. (-q) * CountMod = -(q * CountMod) /\ q * CountMod \in Int
  BY <1>1, <1>2, SMT
<1>4. a % CountMod = a + (-q) * CountMod /\ -q \in Int
  BY <1>2, <1>3, SMT
<1> QED BY <1>2, <1>4 DEF Same

\* And shows the same for both of two that are.
LEMMA SameShow ==
    ASSUME NEW a \in Int, NEW b \in Int, Same(a, b)
    PROVE  a % CountMod = b % CountMod
<1> DEFINE r == a % CountMod
           s == b % CountMod
<1>1. r \in 0 .. CountMod - 1 /\ s \in 0 .. CountMod - 1 /\ Same(r, a) /\ Same(s, b) /\ CountMod \in Nat \ {0}
  BY SameShown, IoBoardAssumption
<1> HIDE DEF r, s
<1>2. PICK i \in Int : r = a + i * CountMod
  BY <1>1 DEF Same
<1>3. PICK j \in Int : s = b + j * CountMod
  BY <1>1 DEF Same
<1>4. PICK k \in Int : a = b + k * CountMod
  BY DEF Same
<1> DEFINE w == i + k - j
<1>5. w * CountMod = i * CountMod + k * CountMod - j * CountMod /\ w \in Int
      /\ i * CountMod \in Int /\ k * CountMod \in Int /\ j * CountMod \in Int
  BY <1>1, SMT
<1> HIDE DEF w
<1>6. r = s + w * CountMod
  BY <1>1, <1>2, <1>3, <1>4, <1>5, SMT
<1>7. w = 0
  <2>1. CASE w >= 1
    <3>1. w * CountMod >= CountMod
      BY <1>1, <1>5, <2>1, SMT
    <3> QED BY <1>1, <1>5, <1>6, <3>1, SMT
  <2>2. CASE w <= -1
    <3>1. w * CountMod <= -CountMod
      BY <1>1, <1>5, <2>2, SMT
    <3> QED BY <1>1, <1>5, <1>6, <3>1, SMT
  <2> QED BY <1>5, <2>1, <2>2, SMT
<1>8. r = s
  BY <1>1, <1>6, <1>7, SMT
<1> QED BY <1>8 DEF r, s

-----------------------------------------------------------------------------
(* What is done a number of times over.                                      *)

\* A set of numbers has a least.
LEMMA LeastIn ==
    ASSUME NEW X, X \subseteq Nat, X # {}
    PROVE  \E x \in X : \A y \in X : x <= y
<1>1. \A x, y \in Nat : x < y => <<x, y>> \in OpToRel(<, Nat)
  BY DEF OpToRel
<1>2. PICK R : IsWellFoundedOn(R, Nat) /\ \A x, y \in Nat : x < y => <<x, y>> \in R
  BY <1>1, NatLessThanWellFounded
<1>3. IsWellFoundedOn(R, Nat)
  BY <1>2
<1>4. PICK x \in X : \A y \in X : ~(<<y, x>> \in R)
  BY <1>3, WFMin
<1>5. \A y \in X : x <= y
  <2> SUFFICES ASSUME NEW y \in X PROVE x <= y
    OBVIOUS
  <2>1. x \in Nat /\ y \in Nat
    OBVIOUS
  <2>2. ~(y < x)
    BY <1>2, <1>4, <2>1
  <2> QED BY <2>1, <2>2
<1> QED BY <1>5

\* What holds at first, and goes on holding, holds all along.
LEMMA AllAlong ==
    ASSUME NEW N \in Nat, NEW G, G \subseteq 0 .. N, 0 \in G, \A n \in 1 .. N : n - 1 \in G => n \in G
    PROVE  G = 0 .. N
<1> SUFFICES ASSUME G # 0 .. N PROVE FALSE
  OBVIOUS
<1> DEFINE M == (0 .. N) \ G
<1>0. M # {}
  BY Zenon
<1>1. M # {} /\ M \subseteq Nat
  BY <1>0
<1>2. PICK x \in (0 .. N) \ G : \A y \in (0 .. N) \ G : x <= y
  BY <1>1, LeastIn
<1>3. x \in 1 .. N /\ x - 1 \in 0 .. N
  BY <1>2
<1>4. x - 1 \in G
  BY <1>2, <1>3
<1> QED BY <1>2, <1>3, <1>4

\* The states a number of steps goes through, each step of its own kind.
Run(g, N, U, base, step) ==
    g \in [0 .. N -> U] /\ g[0] = base /\ \A n \in 1 .. N : g[n] = step[n][g[n - 1]]

\* There are such, whatever the steps.
LEMMA Iterates ==
    ASSUME NEW N \in Nat, NEW U, NEW base \in U, NEW step \in [1 .. N -> [U -> U]]
    PROVE  \E g : Run(g, N, U, base, step)
<1> DEFINE Reaches(m) == \E g \in [0 .. m -> U] : g[0] = base /\ \A n \in 1 .. m : g[n] = step[n][g[n - 1]]
           G == {m \in 0 .. N : Reaches(m)}
<1>1. 0 \in G
  <2> DEFINE g == [n \in 0 .. 0 |-> base]
  <2>1. g \in [0 .. 0 -> U] /\ g[0] = base /\ \A n \in 1 .. 0 : g[n] = step[n][g[n - 1]]
    OBVIOUS
  <2> HIDE DEF g
  <2>2. Reaches(0)
    BY <2>1
  <2> QED BY <2>2
<1>2. ASSUME NEW m \in 1 .. N, m - 1 \in G PROVE m \in G
  <2>1. PICK g \in [0 .. m - 1 -> U] : g[0] = base /\ \A n \in 1 .. m - 1 : g[n] = step[n][g[n - 1]]
    BY <1>2
  <2> DEFINE h == [n \in 0 .. m |-> IF n = m THEN step[m][g[m - 1]] ELSE g[n]]
  <2>2. m - 1 \in 0 .. m - 1 /\ 0 .. m = (0 .. m - 1) \cup {m} /\ m \notin 0 .. m - 1
    OBVIOUS
  <2>3. h \in [0 .. m -> U]
    BY <2>1, <2>2
  <2>4. h[0] = base
    BY <2>1, <2>2
  <2>5. \A n \in 1 .. m : h[n] = step[n][h[n - 1]]
    <3> SUFFICES ASSUME NEW n \in 1 .. m PROVE h[n] = step[n][h[n - 1]]
      OBVIOUS
    <3>1. n - 1 \in 0 .. m - 1 /\ n \in 0 .. m /\ n - 1 # m /\ n - 1 \in 0 .. m
      OBVIOUS
    <3>2. h[n - 1] = g[n - 1]
      BY <3>1
    <3>3. CASE n = m
      BY <3>1, <3>2, <3>3
    <3>4. CASE n # m
      <4>1. n \in 1 .. m - 1 /\ h[n] = g[n]
        BY <3>1, <3>4
      <4> QED BY <2>1, <3>2, <4>1
    <3> QED BY <3>3, <3>4
  <2> HIDE DEF h
  <2>6. Reaches(m)
    BY <2>3, <2>4, <2>5
  <2> HIDE DEF Reaches
  <2> QED BY <2>6
<1> HIDE DEF Reaches
<1>3. G = 0 .. N
  BY <1>1, <1>2, AllAlong
<1>4. Reaches(N)
  BY <1>3
<1> QED BY <1>4 DEF Reaches, Run

-----------------------------------------------------------------------------
(* One edge.                                                                 *)

Motions == [Axes -> Int]
Encs == [left : Motions, phase : [Axes -> 0 .. 3], next : Int]
Latches == [lines : [Axes -> BOOLEAN \X BOOLEAN], switches : {0, 1}]
Ifaces ==
    [switches : {0, 1}, new : Latches, old : Latches, count : Motions, sampled : Int, changed : BOOLEAN]
Boards == [enc : Encs, iface : Ifaces]

\* A phase's two lines.
Pair(p) == <<p < 2, p \in {0, 3}>>

\* A phase forward is a count up, one back a count down, and none is none.
LEMMA PhaseCounts ==
    ASSUME NEW p \in 0 .. 3, NEW d \in {-1, 0, 1}, NEW q \in Int
    PROVE  /\ (p + d) % 4 \in 0 .. 3
           /\ Count(q, Pair(p), Pair((p + d) % 4)) \in Int
           /\ Same(Count(q, Pair(p), Pair((p + d) % 4)), q + d)
<1> DEFINE r == (p + d) % 4
<1>1. r \in 0 .. 3 /\ (d = 0 => r = p) /\ (d = 1 => r = IF p = 3 THEN 0 ELSE p + 1)
      /\ (d = -1 => r = IF p = 0 THEN 3 ELSE p - 1)
  BY SMT
<1> HIDE DEF r
<1>2. CASE d = 0
  <2>1. Count(q, Pair(p), Pair(r)) = q
    BY <1>1, <1>2 DEF Count, Pair
  <2>2. q + d = q
    BY <1>2
  <2> QED BY <1>1, <2>1, <2>2, SameSame DEF r
<1>3. CASE d = 1
  <2>1. Count(q, Pair(p), Pair(r)) = (q + 1) % CountMod
    BY <1>1, <1>3 DEF Count, Pair
  <2> QED BY <1>1, <1>3, <2>1, SameShown, IoBoardAssumption DEF r
<1>4. CASE d = -1
  <2>1. Count(q, Pair(p), Pair(r)) = (q - 1) % CountMod
    BY <1>1, <1>4 DEF Count, Pair
  <2>2. q - 1 = q + d /\ q - 1 \in Int
    BY <1>4
  <2> QED BY <1>1, <2>1, <2>2, SameShown, IoBoardAssumption DEF r
<1> QED BY <1>2, <1>3, <1>4

LEMMA LinesOf ==
    ASSUME NEW e \in Encs
    PROVE  Lines(e) \in [Axes -> BOOLEAN \X BOOLEAN] /\ \A a \in Axes : Lines(e)[a] = Pair(e.phase[a])
<1>1. \A a \in Axes : (e.phase[a] < 2) \in BOOLEAN /\ (e.phase[a] \in {0, 3}) \in BOOLEAN
  BY DEF Encs
<1>2. \A a \in Axes : <<e.phase[a] < 2, e.phase[a] \in {0, 3}>> \in BOOLEAN \X BOOLEAN
  BY <1>1, Zenon
<1> DEFINE l == [a \in Axes |-> <<e.phase[a] < 2, e.phase[a] \in {0, 3}>>]
<1>3. l \in [Axes -> BOOLEAN \X BOOLEAN]
  BY <1>2, Zenon
<1>4. \A a \in Axes : l[a] = Pair(e.phase[a])
  BY Zenon DEF Pair
<1> QED BY <1>3, <1>4, Zenon DEF Lines

LEMMA Steps ==
    ASSUME NEW e \in Encs, NEW at \in Int
    PROVE  /\ StepEncoders(e, at) \in Encs
           /\ \A a \in Axes : \E d \in {-1, 0, 1} :
                /\ StepEncoders(e, at).left[a] = e.left[a] - d
                /\ StepEncoders(e, at).phase[a] = (e.phase[a] + d) % 4
<1> DEFINE f == StepEncoders(e, at)
<1>1. \A a \in Axes : Sign(e.left[a]) \in {-1, 0, 1} /\ e.left[a] \in Int /\ e.phase[a] \in 0 .. 3
  BY DEF Sign, Encs, Motions
<1>2. \A a \in Axes : (e.phase[a] + Sign(e.left[a])) % 4 \in 0 .. 3
  BY <1>1, PhaseCounts
<1>3. at + StepTicks \in Int
  BY IoBoardAssumption
<1>4. \A a \in Axes : e.left[a] - Sign(e.left[a]) \in Int
  BY <1>1
<1>5. [a \in Axes |-> e.left[a] - Sign(e.left[a])] \in Motions
  BY <1>4 DEF Motions
<1>6. f \in Encs
  BY <1>2, <1>3, <1>5 DEF StepEncoders, Encs
<1>7. \A a \in Axes : f.left[a] = e.left[a] - Sign(e.left[a]) /\ f.phase[a] = (e.phase[a] + Sign(e.left[a])) % 4
  BY DEF StepEncoders
<1> QED BY <1>1, <1>6, <1>7

LEMMA LatchedOf ==
    ASSUME NEW e \in Encs, NEW b \in {0, 1}
    PROVE  Latched(e, b) \in Latches /\ Latched(e, b).lines = Lines(e)
BY LinesOf DEF Latched, Latches

\* An edge moves motion from the encoders to the counters and loses none, and a
\* counter that moved is a latch that changed.
LEMMA EdgeKeeps ==
    ASSUME NEW s \in Boards, s.iface.new.lines = Lines(s.enc)
    PROVE  /\ Edge(s) \in Boards /\ Edge(s).iface.new.lines = Lines(Edge(s).enc)
           /\ Edge(s).iface.sampled = s.iface.sampled + 1
           /\ Edge(s).iface.switches = s.iface.switches
           /\ s.iface.changed => Edge(s).iface.changed
           /\ Edge(s).iface.count # s.iface.count => Edge(s).iface.changed
           /\ \A a \in Axes : Same(Edge(s).iface.count[a] + Edge(s).enc.left[a],
                                   s.iface.count[a] + s.enc.left[a])
<1> DEFINE edge == s.iface.sampled + 1
           due == IF s.enc.next > s.iface.sampled THEN s.enc.next ELSE s.iface.sampled
           steps == Busy(s.enc) /\ due <= edge
           enc == IF steps THEN StepEncoders(s.enc, due) ELSE s.enc
           new == Latched(enc, s.iface.switches)
           old == s.iface.new
           counts == [a \in Axes |-> Count(s.iface.count[a], old.lines[a], new.lines[a])]
           iface == [s.iface EXCEPT !.old = old, !.new = new, !.sampled = edge,
                                    !.changed = @ \/ new # old, !.count = counts]
<1>1. s.enc \in Encs /\ s.iface \in Ifaces
  BY DEF Boards
<1>2. s.enc.next \in Int /\ s.iface.sampled \in Int /\ s.iface.switches \in {0, 1} /\ s.iface.changed \in BOOLEAN
      /\ old \in Latches /\ s.iface.count \in Motions
  BY <1>1 DEF Encs, Ifaces
<1>3. due \in Int /\ edge \in Int
  BY <1>2
<1>4. Edge(s) = [enc |-> enc, iface |-> [s.iface EXCEPT
                       !.old = old, !.new = new, !.sampled = edge, !.changed = @ \/ new # old,
                       !.count = [a \in Axes |-> Count(@[a], old.lines[a], new.lines[a])]]]
  BY DEF Edge
<1>5. Edge(s) = [enc |-> enc, iface |-> iface]
  BY <1>1, <1>4 DEF Ifaces
<1> HIDE DEF due, edge, steps
<1>6. enc \in Encs /\ \A a \in Axes : \E d \in {-1, 0, 1} :
        enc.left[a] = s.enc.left[a] - d /\ Pair(enc.phase[a]) = Pair((s.enc.phase[a] + d) % 4)
  <2>1. CASE steps
    <3>1. enc = StepEncoders(s.enc, due)
      BY <2>1
    <3> HIDE DEF enc
    <3>2. /\ StepEncoders(s.enc, due) \in Encs
          /\ \A a \in Axes : \E d \in {-1, 0, 1} :
               /\ StepEncoders(s.enc, due).left[a] = s.enc.left[a] - d
               /\ StepEncoders(s.enc, due).phase[a] = (s.enc.phase[a] + d) % 4
      BY <1>1, <1>3, Steps
    <3> QED BY <3>1, <3>2
  <2>2. CASE ~steps
    <3>1. enc = s.enc
      BY <2>2
    <3>2. \A a \in Axes : s.enc.phase[a] \in 0 .. 3 /\ s.enc.left[a] \in Int
      BY <1>1 DEF Encs, Motions
    <3>3. \A a \in Axes : s.enc.left[a] = s.enc.left[a] - 0 /\ (s.enc.phase[a] + 0) % 4 = s.enc.phase[a]
      BY <3>2, SMT
    <3> QED BY <1>1, <3>1, <3>3
  <2> QED BY <2>1, <2>2
<1> HIDE DEF enc
<1>7. new \in Latches /\ new.lines = Lines(enc)
  BY <1>2, <1>6, LatchedOf
<1>8. \A a \in Axes : old.lines[a] = Pair(s.enc.phase[a]) /\ new.lines[a] = Pair(enc.phase[a])
  BY <1>1, <1>6, <1>7, LinesOf
<1> HIDE DEF new
<1>9. \A a \in Axes : counts[a] \in Int /\ Same(counts[a] + enc.left[a], s.iface.count[a] + s.enc.left[a])
  <2> SUFFICES ASSUME NEW a \in Axes
               PROVE  counts[a] \in Int /\ Same(counts[a] + enc.left[a], s.iface.count[a] + s.enc.left[a])
    OBVIOUS
  <2>1. PICK d \in {-1, 0, 1} : enc.left[a] = s.enc.left[a] - d
                              /\ Pair(enc.phase[a]) = Pair((s.enc.phase[a] + d) % 4)
    BY <1>6
  <2> DEFINE q == s.iface.count[a]
             l == s.enc.left[a]
             c == counts[a]
  <2>2. q \in Int /\ l \in Int /\ s.enc.phase[a] \in 0 .. 3
    BY <1>1, <1>2 DEF Encs, Motions
  <2>3. c = Count(q, Pair(s.enc.phase[a]), Pair((s.enc.phase[a] + d) % 4))
    BY <1>8, <2>1
  <2>4. c \in Int /\ Same(c, q + d)
    BY <2>2, <2>3, PhaseCounts
  <2> HIDE DEF c, q, l
  <2>5. Same(c + (l - d), (q + d) + (l - d))
    <3>1. l - d \in Int /\ q + d \in Int
      BY <2>2
    <3> QED BY <2>4, <3>1, SameSame, SameAdds
  <2>6. (q + d) + (l - d) = q + l
    BY <2>2
  <2>7. Same(c + (l - d), q + l)
    BY <2>5, <2>6
  <2> QED BY <2>1, <2>4, <2>7 DEF c, q, l
<1>10. counts \in Motions
  BY <1>9 DEF Motions
<1>11. counts # s.iface.count => new # old
  <2> SUFFICES ASSUME new = old PROVE counts = s.iface.count
    OBVIOUS
  <2>1. \A a \in Axes : counts[a] = s.iface.count[a]
    BY DEF Count
  <2> QED BY <1>2, <1>10, <2>1 DEF Motions
<1> HIDE DEF counts
<1>12. iface \in Ifaces
  BY <1>1, <1>2, <1>3, <1>7, <1>10 DEF Ifaces
<1>13. /\ iface.new = new /\ iface.sampled = edge /\ iface.switches = s.iface.switches
       /\ iface.changed = (s.iface.changed \/ new # old) /\ iface.count = counts
  BY <1>1 DEF Ifaces
<1> HIDE DEF iface
<1>14. Edge(s).enc = enc /\ Edge(s).iface = iface /\ Edge(s) \in Boards
  BY <1>5, <1>6, <1>12 DEF Boards
<1> QED BY <1>2, <1>7, <1>9, <1>11, <1>13, <1>14 DEF edge

-----------------------------------------------------------------------------
(* Every edge up to now.                                                     *)

\* A board whose new latch has the lines as the encoders hold them, and the
\* step of one edge, of the board or of one that only latches what it has.
Abreast == {s \in Boards : s.iface.new.lines = Lines(s.enc)}
Unchanged == [enc |-> iEncoders, iface |-> [iIface EXCEPT !.changed = FALSE]]
OneEdge(s) == IF Settled(s) THEN [s EXCEPT !.iface.sampled = iNow] ELSE Edge(s)

LEMMA RestsOn ==
    ASSUME NEW s \in Abreast, NEW t \in Int
    PROVE  LET r == [s EXCEPT !.iface.sampled = t]
           IN  /\ r \in Abreast /\ r.enc = s.enc /\ r.iface.sampled = t
               /\ r.iface.new = s.iface.new /\ r.iface.old = s.iface.old
               /\ r.iface.switches = s.iface.switches /\ r.iface.count = s.iface.count
               /\ r.iface.changed = s.iface.changed /\ Settled(r) = Settled(s)
<1> DEFINE r == [s EXCEPT !.iface.sampled = t]
           i == [s.iface EXCEPT !.sampled = t]
<1>1. s \in Boards /\ s.enc \in Encs /\ s.iface \in Ifaces /\ s.iface.new.lines = Lines(s.enc)
  BY DEF Abreast, Boards
<1>2. i \in Ifaces /\ i.sampled = t /\ i.new = s.iface.new /\ i.old = s.iface.old
      /\ i.switches = s.iface.switches /\ i.count = s.iface.count /\ i.changed = s.iface.changed
  BY <1>1 DEF Ifaces
<1>3. r.enc = s.enc /\ r.iface = i /\ r \in Boards
  BY <1>1, <1>2 DEF Boards
<1> HIDE DEF r, i
<1>4. r \in Abreast
  BY <1>1, <1>2, <1>3 DEF Abreast
<1>5. Settled(r) = Settled(s)
  BY <1>2, <1>3 DEF Settled
<1> QED BY <1>2, <1>3, <1>4, <1>5 DEF r

LEMMA OneEdgeIn ==
    ASSUME iNow \in Nat, NEW s \in Abreast
    PROVE  OneEdge(s) \in Abreast
<1>1. s \in Boards /\ s.iface.new.lines = Lines(s.enc)
  BY DEF Abreast
<1>2. CASE Settled(s)
  <2>1. iNow \in Int
    OBVIOUS
  <2>2. [s EXCEPT !.iface.sampled = iNow] \in Abreast
    BY <2>1, RestsOn
  <2> QED BY <1>2, <2>2, Zenon DEF OneEdge
<1>3. CASE ~Settled(s)
  <2>1. Edge(s) \in Boards /\ Edge(s).iface.new.lines = Lines(Edge(s).enc)
    BY <1>1, EdgeKeeps
  <2> QED BY <1>3, <2>1 DEF OneEdge, Abreast
<1> QED BY <1>2, <1>3

\* The edges are there, one after another.
LEMMA EdgesAre ==
    ASSUME iNow \in Nat, Unchanged \in Abreast
    PROVE  /\ AfterEdges[0] = Unchanged
           /\ \A n \in 1 .. MaxTicks : AfterEdges[n] = OneEdge(AfterEdges[n - 1])
<1> DEFINE step == [n \in 1 .. MaxTicks |-> [s \in Abreast |-> OneEdge(s)]]
           Body(g) == [n \in 0 .. MaxTicks |->
                         IF n = 0 THEN [enc |-> iEncoders, iface |-> [iIface EXCEPT !.changed = FALSE]]
                         ELSE IF Settled(g[n - 1]) THEN [g[n - 1] EXCEPT !.iface.sampled = iNow]
                         ELSE Edge(g[n - 1])]
<1>1. step \in [1 .. MaxTicks -> [Abreast -> Abreast]]
  BY OneEdgeIn
<1> HIDE DEF step, Run
<1>2. MaxTicks \in Nat
  BY IoBoardAssumption
<1>3. PICK g : Run(g, MaxTicks, Abreast, Unchanged, step)
  BY <1>1, <1>2, Iterates
<1>4. g = Body(g)
  <2>1. \A n \in 0 .. MaxTicks : g[n] = IF n = 0 THEN Unchanged ELSE OneEdge(g[n - 1])
    <3> SUFFICES ASSUME NEW n \in 0 .. MaxTicks, n # 0 PROVE g[n] = OneEdge(g[n - 1])
      BY <1>3 DEF Run
    <3>1. n \in 1 .. MaxTicks /\ n - 1 \in 0 .. MaxTicks
      BY <1>2
    <3>2. g[n - 1] \in Abreast
      BY <1>3, <3>1 DEF Run
    <3> QED BY <1>3, <3>1, <3>2 DEF step, Run
  <2>2. g = [n \in 0 .. MaxTicks |-> IF n = 0 THEN Unchanged ELSE OneEdge(g[n - 1])]
    BY <1>3, <2>1 DEF Run
  <2> QED BY <2>2 DEF Unchanged, OneEdge
<1>5. AfterEdges = CHOOSE h : h = Body(h)
  BY DEF AfterEdges
<1> HIDE DEF Body
<1>6. AfterEdges = Body(AfterEdges)
  BY <1>4, <1>5
<1>7. AfterEdges = [n \in 0 .. MaxTicks |-> IF n = 0 THEN Unchanged ELSE OneEdge(AfterEdges[n - 1])]
  BY <1>6 DEF Body, Unchanged, OneEdge
<1> DEFINE h == AfterEdges
<1> HIDE DEF h
<1>8. h = [n \in 0 .. MaxTicks |-> IF n = 0 THEN Unchanged ELSE OneEdge(h[n - 1])]
  BY <1>7 DEF h
<1>9. h[0] = Unchanged
  BY <1>2, <1>8
<1>10. \A n \in 1 .. MaxTicks : h[n] = OneEdge(h[n - 1])
  <2> SUFFICES ASSUME NEW n \in 1 .. MaxTicks PROVE h[n] = OneEdge(h[n - 1])
    OBVIOUS
  <2>1. n \in 0 .. MaxTicks /\ n # 0
    BY <1>2
  <2> QED BY <1>8, <2>1, Zenon
<1> QED BY <1>9, <1>10 DEF h

\* Whether or not the board has come to rest, sampling is of every edge up to
\* now and of none beyond, and the motion that left the encoders is counted.
SampledOf(s) ==
    /\ s \in Boards /\ s.iface.new.lines = Lines(s.enc)
    /\ s.iface.switches = iIface.switches
    /\ s.iface.count # iIface.count => s.iface.changed
    /\ \A a \in Axes : Same(s.iface.count[a] + s.enc.left[a], iIface.count[a] + iEncoders.left[a])

LEMMA OneEdgeOf ==
    ASSUME iNow \in Nat, iEncoders \in Encs, iIface \in Ifaces, NEW s, SampledOf(s)
    PROVE  SampledOf(OneEdge(s))
<1> DEFINE t == OneEdge(s)
<1>1. s \in Abreast /\ s \in Boards /\ s.iface.new.lines = Lines(s.enc)
      /\ s.iface \in Ifaces /\ s.enc \in Encs
  BY DEF SampledOf, Abreast, Boards
<1>2. CASE Settled(s)
  <2>1. t.enc = s.enc /\ t \in Abreast /\ t.iface.switches = s.iface.switches /\ t.iface.count = s.iface.count
        /\ t.iface.changed = s.iface.changed
    BY <1>1, <1>2, RestsOn DEF OneEdge
  <2> HIDE DEF t
  <2>2. SampledOf(t)
    BY <2>1 DEF SampledOf, Abreast
  <2> QED BY <2>2 DEF t
<1>3. CASE ~Settled(s)
  <2>1. t = Edge(s)
    BY <1>3 DEF OneEdge
  <2> HIDE DEF t
  <2>2. /\ t \in Boards /\ t.iface.new.lines = Lines(t.enc)
        /\ t.iface.switches = s.iface.switches
        /\ s.iface.changed => t.iface.changed
        /\ t.iface.count # s.iface.count => t.iface.changed
        /\ \A a \in Axes : Same(t.iface.count[a] + t.enc.left[a], s.iface.count[a] + s.enc.left[a])
    BY <1>1, <2>1, EdgeKeeps
  <2>3. \A a \in Axes : Same(t.iface.count[a] + t.enc.left[a], iIface.count[a] + iEncoders.left[a])
    <3> SUFFICES ASSUME NEW a \in Axes
                 PROVE  Same(t.iface.count[a] + t.enc.left[a], iIface.count[a] + iEncoders.left[a])
      OBVIOUS
    <3>1. t.iface \in Ifaces /\ t.enc \in Encs
      BY <2>2 DEF Boards
    <3> DEFINE x == t.iface.count[a] + t.enc.left[a]
               y == s.iface.count[a] + s.enc.left[a]
               z == iIface.count[a] + iEncoders.left[a]
    <3>2. x \in Int /\ y \in Int /\ z \in Int
      BY <1>1, <3>1 DEF Ifaces, Encs, Motions
    <3>3. Same(x, y) /\ Same(y, z)
      BY <2>2 DEF SampledOf
    <3> HIDE DEF x, y, z
    <3>4. Same(x, z)
      BY <3>2, <3>3, SameOn
    <3> QED BY <3>4 DEF x, y, z
  <2>4. SampledOf(t)
    BY <2>2, <2>3 DEF SampledOf
  <2> QED BY <2>4 DEF t
<1> QED BY <1>2, <1>3

LEMMA SampleKeeps ==
    ASSUME iNow \in Nat, iNow <= MaxTicks, iEncoders \in Encs, iIface \in Ifaces,
           iIface.new.lines = Lines(iEncoders), iIface.sampled \in 0 .. iNow
    PROVE  SampledOf(Sample) /\ Sample.iface.sampled = iNow
<1> DEFINE f == AfterEdges
           At(n) == \/ f[n].iface.sampled = iIface.sampled + n
                    \/ Settled(f[n]) /\ f[n].iface.sampled = iNow
           G == {n \in 0 .. MaxTicks : SampledOf(f[n]) /\ At(n)}
           i == [iIface EXCEPT !.changed = FALSE]
<1>1. i \in Ifaces /\ i.new = iIface.new /\ i.sampled = iIface.sampled
      /\ i.switches = iIface.switches /\ i.count = iIface.count
  BY DEF Ifaces
<1> HIDE DEF i
<1>2. Unchanged \in Boards /\ Unchanged.enc = iEncoders /\ Unchanged.iface = i
  BY <1>1 DEF Unchanged, Boards, i
<1>3. Unchanged \in Abreast
  BY <1>1, <1>2 DEF Abreast
<1>4. SampledOf(Unchanged) /\ Unchanged.iface.sampled = iIface.sampled
  <2>1. \A a \in Axes : iIface.count[a] + iEncoders.left[a] \in Int
    BY DEF Ifaces, Encs, Motions
  <2> QED BY <1>1, <1>2, <2>1, SameSame DEF SampledOf
<1>5. f[0] = Unchanged /\ \A n \in 1 .. MaxTicks : f[n] = OneEdge(f[n - 1])
  BY <1>3, EdgesAre
<1>6. MaxTicks \in Nat /\ iIface.sampled \in Int
  BY IoBoardAssumption
<1> HIDE DEF f
<1>7. 0 \in G
  BY <1>4, <1>5, <1>6
<1>8. ASSUME NEW n \in 1 .. MaxTicks, n - 1 \in G PROVE n \in G
  <2> DEFINE s == f[n - 1]
             t == f[n]
  <2>1. t = OneEdge(s) /\ SampledOf(s)
    BY <1>5, <1>8
  <2>2. \/ s.iface.sampled = iIface.sampled + (n - 1)
        \/ Settled(s) /\ s.iface.sampled = iNow
    BY <1>8
  <2> HIDE DEF s, t
  <2>3. SampledOf(t)
    BY <2>1, OneEdgeOf
  <2>4. s \in Abreast /\ s \in Boards /\ s.iface.new.lines = Lines(s.enc)
    BY <2>1 DEF SampledOf, Abreast
  <2>5. CASE Settled(s)
    <3>1. Settled(t) /\ t.iface.sampled = iNow
      BY <2>1, <2>4, <2>5, RestsOn DEF OneEdge
    <3> QED BY <2>3, <3>1 DEF t
  <2>6. CASE ~Settled(s)
    <3>1. t.iface.sampled = s.iface.sampled + 1
      BY <2>1, <2>4, <2>6, EdgeKeeps DEF OneEdge
    <3>2. t.iface.sampled = iIface.sampled + n
      BY <1>6, <2>2, <2>6, <3>1
    <3> QED BY <2>3, <3>2 DEF t
  <2> QED BY <2>5, <2>6
<1>9. G = 0 .. MaxTicks
  <2> HIDE DEF G
  <2>1. G \subseteq 0 .. MaxTicks
    BY DEF G
  <2> QED BY <1>6, <1>7, <1>8, <2>1, AllAlong
<1> DEFINE m == iNow - iIface.sampled
<1>10. m \in 0 .. MaxTicks /\ iIface.sampled + m = iNow
  BY <1>6
<1>11. SampledOf(f[m]) /\ At(m)
  <2> HIDE DEF m, At
  <2> QED BY <1>9, <1>10
<1>12. Sample = f[m]
  BY DEF Sample, f
<1> HIDE DEF m
<1> QED BY <1>10, <1>11, <1>12

-----------------------------------------------------------------------------
(* The pointers in the queue.                                                *)

Spots == [Axes -> Places] \cup {Nowhere}
Items == [at : [Axes -> Places], buttons : {0, 1}]
Mice == [last : Spots, moved : Motions, buttons : {0, 1}]

LEMMA SpotsAre ==
    /\ [Axes -> Places] \subseteq Motions /\ Spots \subseteq Motions /\ Zero \in Motions
    /\ \A p \in [Axes -> Places] : p # Nowhere
<1>1. Places \subseteq Int
  BY IoBoardAssumption
<1>2. Nowhere \in Motions /\ Zero \in Motions
  BY DEF Nowhere, Zero, Motions
<1>3. \A p \in [Axes -> Places] : p # Nowhere
  <2> SUFFICES ASSUME NEW p \in [Axes -> Places], p = Nowhere PROVE FALSE
    OBVIOUS
  <2>1. p["x"] \in Places /\ p["x"] = -1
    BY DEF Nowhere, Axes
  <2> QED BY <2>1, IoBoardAssumption
<1> QED BY <1>1, <1>2, <1>3 DEF Spots, Motions

LEMMA PointerMoves ==
    ASSUME NEW m \in Mice, NEW i \in Items
    PROVE  /\ Pointer(m, i) \in Mice /\ Pointer(m, i).last = i.at
           /\ \A a \in Axes :
                Pointer(m, i).moved[a] = IF m.last = Nowhere THEN m.moved[a]
                                         ELSE m.moved[a] + i.at[a] - m.last[a]
<1>1. m.last \in Spots /\ m.moved \in Motions /\ i.at \in [Axes -> Places] /\ i.buttons \in {0, 1}
  BY DEF Mice, Items
<1>2. m.last \in Motions /\ i.at \in Motions
  BY <1>1, SpotsAre
<1>3. [a \in Axes |-> m.moved[a] + i.at[a] - m.last[a]] \in Motions
  BY <1>1, <1>2 DEF Motions
<1> QED BY <1>1, <1>3 DEF Pointer, Mice, Spots

LEMMA PointersAre ==
    ASSUME iMouse \in Mice, iPointers \in Seq(Items)
    PROVE  /\ AfterPointers[0] = iMouse
           /\ \A n \in 1 .. Len(iPointers) : AfterPointers[n] = Pointer(AfterPointers[n - 1], iPointers[n])
<1> DEFINE N == Len(iPointers)
           step == [n \in 1 .. N |-> [m \in Mice |-> Pointer(m, iPointers[n])]]
           Body(g) == [n \in 0 .. Len(iPointers) |->
                         IF n = 0 THEN iMouse ELSE Pointer(g[n - 1], iPointers[n])]
<1>1. N \in Nat /\ \A n \in 1 .. N : iPointers[n] \in Items
  OBVIOUS
<1>2. step \in [1 .. N -> [Mice -> Mice]]
  BY <1>1, PointerMoves
<1> HIDE DEF step, Run
<1>3. PICK g : Run(g, N, Mice, iMouse, step)
  <2> HIDE DEF N
  <2> QED BY <1>1, <1>2, Iterates
<1>4. g = Body(g)
  <2>1. \A n \in 0 .. N : g[n] = IF n = 0 THEN iMouse ELSE Pointer(g[n - 1], iPointers[n])
    <3> SUFFICES ASSUME NEW n \in 0 .. N, n # 0 PROVE g[n] = Pointer(g[n - 1], iPointers[n])
      BY <1>3 DEF Run
    <3>1. n \in 1 .. N /\ n - 1 \in 0 .. N
      BY <1>1
    <3>2. g[n - 1] \in Mice
      BY <1>3, <3>1 DEF Run
    <3> QED BY <1>3, <3>1, <3>2 DEF step, Run
  <2> QED BY <1>3, <2>1 DEF Run
<1>5. AfterPointers = CHOOSE h : h = Body(h)
  BY DEF AfterPointers
<1> HIDE DEF Body
<1>6. AfterPointers = Body(AfterPointers)
  BY <1>4, <1>5
<1> DEFINE h == AfterPointers
<1> HIDE DEF h, N
<1>7. h = [n \in 0 .. N |-> IF n = 0 THEN iMouse ELSE Pointer(h[n - 1], iPointers[n])]
  BY <1>6 DEF Body, h, N
<1>8. h[0] = iMouse
  BY <1>1, <1>7
<1>9. \A n \in 1 .. N : h[n] = Pointer(h[n - 1], iPointers[n])
  <2> SUFFICES ASSUME NEW n \in 1 .. N PROVE h[n] = Pointer(h[n - 1], iPointers[n])
    OBVIOUS
  <2>1. n \in 0 .. N /\ n # 0
    BY <1>1
  <2> QED BY <1>7, <2>1, Zenon
<1> QED BY <1>8, <1>9 DEF h, N

\* The mouse is last where the newest was, and has moved from where it was, or
\* from the first it ever saw, to there: the differences add up.
LEMMA TakenAdds ==
    ASSUME iMouse \in Mice, iPointers \in Seq(Items), iPointers # <<>>
    PROVE  LET m == AfterPointers[Len(iPointers)]
               from == IF iMouse.last = Nowhere THEN iPointers[1].at ELSE iMouse.last
               to == iPointers[Len(iPointers)].at
           IN  /\ m \in Mice /\ m.last = to
               /\ \A a \in Axes : m.moved[a] = iMouse.moved[a] + to[a] - from[a]
<1> DEFINE f == AfterPointers
           N == Len(iPointers)
           from == IF iMouse.last = Nowhere THEN iPointers[1].at ELSE iMouse.last
           Taken(n) == /\ f[n] \in Mice
                       /\ n = 0 => f[n] = iMouse
                       /\ n # 0 =>
                            /\ f[n].last = iPointers[n].at
                            /\ \A a \in Axes : f[n].moved[a] = iMouse.moved[a] + iPointers[n].at[a] - from[a]
           G == {n \in 0 .. N : Taken(n)}
<1>1. N \in Nat \ {0} /\ \A n \in 1 .. N : iPointers[n] \in Items
  OBVIOUS
<1>2. f[0] = iMouse /\ \A n \in 1 .. N : f[n] = Pointer(f[n - 1], iPointers[n])
  BY PointersAre
<1> HIDE DEF f, N
<1>3. 0 \in G
  BY <1>1, <1>2
<1>4. from \in Motions /\ (iMouse.last # Nowhere => from = iMouse.last)
      /\ (iMouse.last = Nowhere => from = iPointers[1].at)
  BY <1>1, SpotsAre DEF Mice, Items
<1> HIDE DEF from
<1>5. ASSUME NEW n \in 1 .. N, n - 1 \in G PROVE n \in G
  <2>1. n - 1 \in 0 .. N /\ n \in 0 .. N /\ Taken(n - 1)
    BY <1>1, <1>5
  <2> DEFINE m == f[n - 1]
             t == f[n]
             i == iPointers[n]
  <2>2. m \in Mice /\ i \in Items /\ t = Pointer(m, i)
    BY <1>1, <1>2, <2>1
  <2>3. (n = 1 => m = iMouse) /\ (n # 1 => m.last = iPointers[n - 1].at
          /\ \A a \in Axes : m.moved[a] = iMouse.moved[a] + iPointers[n - 1].at[a] - from[a])
    BY <2>1
  <2> HIDE DEF m, t
  <2>4. t \in Mice /\ t.last = i.at
        /\ \A a \in Axes : t.moved[a] = IF m.last = Nowhere THEN m.moved[a] ELSE m.moved[a] + i.at[a] - m.last[a]
    BY <2>2, PointerMoves
  <2>5. i.at \in Motions
    BY <2>2, SpotsAre DEF Items
  <2>6. \A a \in Axes : t.moved[a] = iMouse.moved[a] + i.at[a] - from[a]
    <3>1. \A a \in Axes : iMouse.moved[a] \in Int /\ i.at[a] \in Int /\ from[a] \in Int
      BY <1>4, <2>5 DEF Mice, Motions
    <3>2. CASE n = 1 /\ iMouse.last = Nowhere
      <4>1. from = i.at /\ m = iMouse
        BY <1>4, <2>3, <3>2
      <4> QED BY <2>4, <3>1, <3>2, <4>1
    <3>3. CASE n = 1 /\ iMouse.last # Nowhere
      BY <1>4, <2>3, <2>4, <3>3
    <3>4. CASE n # 1
      <4>1. iPointers[n - 1] \in Items
        BY <1>1, <3>4
      <4>2. m.last \in [Axes -> Places] /\ m.last = iPointers[n - 1].at
        BY <2>3, <3>4, <4>1 DEF Items
      <4>3. m.last \in Motions /\ m.last # Nowhere
        BY <4>2, SpotsAre
      <4>4. \A a \in Axes : m.last[a] \in Int /\ m.moved[a] = iMouse.moved[a] + m.last[a] - from[a]
        BY <2>3, <3>4, <4>2, <4>3 DEF Motions
      <4> QED BY <2>4, <3>1, <4>3, <4>4
    <3> QED BY <3>2, <3>3, <3>4
  <2>7. Taken(n)
    BY <1>1, <2>4, <2>6 DEF t
  <2> QED BY <2>1, <2>7
<1>6. G = 0 .. N
  <2> HIDE DEF G
  <2>1. G \subseteq 0 .. N
    BY DEF G
  <2> QED BY <1>1, <1>3, <1>5, <2>1, AllAlong
<1>7. Taken(N)
  <2> HIDE DEF Taken
  <2> QED BY <1>1, <1>6
<1> QED BY <1>1, <1>7 DEF f, N, from

-----------------------------------------------------------------------------
(* The invariant.                                                            *)

IoTypes ==
    /\ iNow \in 0 .. MaxTicks
    /\ iPointers \in Seq(Items) /\ iMouse \in Mice /\ iOrigin \in Spots
    /\ iEncoders \in Encs /\ iIface \in Ifaces
    /\ iCsr \in [mouse : BOOLEAN, mouse_enable : BOOLEAN, clock_enable : BOOLEAN]
    /\ iRead \in [low : Int, low_at : Int, high : Int, mouse : Motions]
    /\ iClock \in [usec : Nat, interval : Nat, loaded_at : Int]

\* How far the mouse has come from the first it ever saw.
Come(a) == IF iOrigin = Nowhere THEN 0 ELSE iMouse.last[a] - iOrigin[a]

\* What the counters show and what is on its way to them is how far the mouse
\* has come; the latch has the lines as the encoders hold them; no edge is
\* sampled ahead of the time.
MotionIsKept ==
    /\ iMouse.last = Nowhere <=> iOrigin = Nowhere
    /\ \A a \in Axes : Same(iIface.count[a] + iEncoders.left[a] + iMouse.moved[a], Come(a))
    /\ iIface.new.lines = Lines(iEncoders)
    /\ iIface.sampled \in 0 .. iNow

\* The newest place of the queue, or else the mouse's, is the viewer's.
NewestIsViewers == (IF iPointers # <<>> THEN Last(iPointers).at ELSE iMouse.last) = iViewer.at

\* The software is told of what it has not read.
TellsOfMotion == iIface.count # iRead.mouse => iCsr.mouse

\* Both halves are the latched count's, and it is the low half's instant.
HalvesOfLatched ==
    /\ iRead.low_at # -1 => iRead.low_at = iClock.usec /\ iRead.low = iClock.usec % HalfMod
    /\ iRead.high # -1 => iRead.low_at # -1 /\ iRead.high = UsecHigh

IoInv == IoTypes /\ MotionIsKept /\ NewestIsViewers /\ TellsOfMotion /\ HalvesOfLatched

LEMMA InvAtFirst == IoInit => IoInv
<1> SUFFICES ASSUME IoInit PROVE IoInv
  OBVIOUS
<1> USE DEF IoInit
<1>1. iEncoders \in Encs /\ iIface \in Ifaces /\ iIface.new.lines = Lines(iEncoders) /\ iIface.sampled = 0
      /\ iIface.count = Zero /\ iEncoders.left = Zero
  <2>1. NewEncoders \in Encs
    BY DEF NewEncoders, Encs, Zero, Motions
  <2>2. Latched(NewEncoders, 0) \in Latches /\ Latched(NewEncoders, 0).lines = Lines(NewEncoders)
    BY <2>1, LatchedOf
  <2>3. NewIface \in Ifaces
    BY <2>2, SpotsAre DEF NewIface, Ifaces
  <2> QED BY <2>1, <2>2, <2>3 DEF NewIface, NewEncoders
<1>2. iMouse \in Mice /\ iOrigin \in Spots
  BY SpotsAre DEF Mice, Spots
<1>3. IoTypes
  BY <1>1, <1>2, SpotsAre, IoBoardAssumption DEF IoTypes
<1>4. \A a \in Axes : Same(iIface.count[a] + iEncoders.left[a] + iMouse.moved[a], Come(a))
  <2>1. \A a \in Axes : iIface.count[a] + iEncoders.left[a] + iMouse.moved[a] = 0 /\ Come(a) = 0
    BY <1>1 DEF Zero, Come
  <2> QED BY <2>1, SameSame
<1> QED BY <1>1, <1>3, <1>4 DEF IoInv, MotionIsKept, NewestIsViewers, TellsOfMotion, HalvesOfLatched

\* A viewer's event: the queue's newest, whatever it lost.
LEMMA PointKeeps ==
    ASSUME IoInv, NEW at \in [Axes -> Places], NEW b \in {0, 1}, Point([at |-> at, buttons |-> b])
    PROVE  IoInv'
<1> DEFINE item == [at |-> at, buttons |-> b]
           kept == IF Len(iPointers) >= PointerBacklog THEN Tail(iPointers) ELSE iPointers
<1> USE DEF IoInv, Point
<1>1. item \in Items /\ item.at = at
  BY DEF Items
<1>2. iPointers \in Seq(Items)
  BY DEF IoTypes
<1>3. kept \in Seq(Items)
  <2>1. CASE Len(iPointers) >= PointerBacklog
    <3>1. iPointers # <<>>
      BY <1>2, <2>1, IoBoardAssumption
    <3> QED BY <1>2, <2>1, <3>1
  <2> QED BY <1>2, <2>1
<1> HIDE DEF kept, item
<1>4. iPointers' = Append(kept, item) /\ iViewer' = item
  BY DEF InputPointer, kept, item
<1>5. iPointers' \in Seq(Items) /\ iPointers' # <<>> /\ iPointers'[Len(iPointers')] = item
  BY <1>1, <1>3, <1>4
<1>6. IoTypes'
  BY <1>5 DEF IoTypes
<1>7. NewestIsViewers'
  BY <1>4, <1>5 DEF NewestIsViewers, Last
<1>8. MotionIsKept' /\ TellsOfMotion' /\ HalvesOfLatched'
  BY DEF MotionIsKept, TellsOfMotion, HalvesOfLatched, Come, UsecHigh
<1> QED BY <1>6, <1>7, <1>8

\* The queue is taken: what the mouse has moved grows by as much as it has come.
LEMMA TakeKeeps ==
    ASSUME IoInv, TakePointers
    PROVE  IoInv'
<1> USE DEF IoInv, TakePointers
<1> DEFINE N == Len(iPointers)
           to == iPointers[N].at
           from == IF iMouse.last = Nowhere THEN iPointers[1].at ELSE iMouse.last
<1>1. iPointers \in Seq(Items) /\ iPointers # <<>> /\ iMouse \in Mice /\ iOrigin \in Spots
  BY DEF IoTypes
<1>2. iPointers[1] \in Items /\ iPointers[N] \in Items /\ Head(iPointers) = iPointers[1]
  BY <1>1
<1>3. /\ iMouse' \in Mice /\ iMouse'.last = to
      /\ \A a \in Axes : iMouse'.moved[a] = iMouse.moved[a] + to[a] - from[a]
  BY <1>1, TakenAdds
<1>4. to \in [Axes -> Places] /\ iPointers[1].at \in [Axes -> Places]
  BY <1>2 DEF Items
<1>5. to \in Motions /\ from \in Motions /\ to # Nowhere /\ iPointers[1].at # Nowhere
  BY <1>1, <1>4, SpotsAre DEF Mice
<1>6. iOrigin' = (IF iOrigin = Nowhere THEN iPointers[1].at ELSE iOrigin) /\ iPointers' = <<>>
  BY <1>2
<1>7. iOrigin' \in Spots /\ iOrigin' # Nowhere /\ iOrigin' \in Motions /\ iOrigin \in Motions
  BY <1>1, <1>4, <1>5, <1>6, SpotsAre DEF Spots
<1>8. from = (IF iOrigin = Nowhere THEN iOrigin' ELSE iMouse.last)
  BY <1>6 DEF MotionIsKept
<1> HIDE DEF to, from
<1>9. \A a \in Axes : Come(a)' = Come(a) + (to[a] - from[a])
  <2> SUFFICES ASSUME NEW a \in Axes PROVE Come(a)' = Come(a) + (to[a] - from[a])
    OBVIOUS
  <2>1. Come(a)' = to[a] - iOrigin'[a]
    BY <1>3, <1>7 DEF Come
  <2>2. to[a] \in Int /\ from[a] \in Int /\ iOrigin'[a] \in Int /\ iOrigin[a] \in Int
    BY <1>5, <1>7 DEF Motions
  <2>3. CASE iOrigin = Nowhere
    <3>1. Come(a) = 0 /\ from = iOrigin'
      BY <1>8, <2>3 DEF Come
    <3> QED BY <2>1, <2>2, <3>1
  <2>4. CASE iOrigin # Nowhere
    <3>1. Come(a) = from[a] - iOrigin[a] /\ iOrigin' = iOrigin
      BY <1>6, <1>8, <2>4 DEF Come
    <3> QED BY <2>1, <2>2, <3>1
  <2> QED BY <2>3, <2>4
<1>10. \A a \in Axes : Same((iIface.count[a] + iEncoders.left[a] + iMouse.moved[a])', Come(a)')
  <2> SUFFICES ASSUME NEW a \in Axes
               PROVE  Same((iIface.count[a] + iEncoders.left[a] + iMouse.moved[a])', Come(a)')
    OBVIOUS
  <2> DEFINE x == iIface.count[a] + iEncoders.left[a] + iMouse.moved[a]
             d == to[a] - from[a]
             y == Come(a)
  <2>1. /\ iIface.count[a] \in Int /\ iEncoders.left[a] \in Int /\ iMouse.moved[a] \in Int
        /\ to[a] \in Int /\ from[a] \in Int
    BY <1>1, <1>5 DEF IoTypes, Ifaces, Encs, Mice, Motions
  <2>2. x' = x + d /\ x \in Int /\ d \in Int
    BY <1>3, <2>1
  <2>3. y \in Int
    <3>1. iMouse.last \in Motions
      BY <1>1, SpotsAre DEF Mice
    <3> QED BY <1>7, <3>1 DEF Come, Motions
  <2>4. Same(x, y)
    BY DEF MotionIsKept
  <2>5. y' = y + d
    BY <1>9
  <2> HIDE DEF x, y, d
  <2>6. Same(x + d, y + d)
    BY <2>2, <2>3, <2>4, SameSame, SameAdds
  <2>7. Same(x', y')
    BY <2>2, <2>5, <2>6
  <2> QED BY <2>7 DEF x, y
<1>11. IoTypes'
  BY <1>3, <1>6, <1>7 DEF IoTypes
<1>12. MotionIsKept'
  <2>1. iMouse'.last # Nowhere
    BY <1>3, <1>5
  <2>2. \A a \in Axes : Same(iIface.count[a] + iEncoders.left[a] + iMouse.moved[a], Come(a))'
    BY <1>10 DEF Same
  <2> QED BY <1>7, <2>1, <2>2 DEF MotionIsKept
<1>13. NewestIsViewers'
  BY <1>3, <1>6 DEF NewestIsViewers, Last, to
<1>14. TellsOfMotion' /\ HalvesOfLatched'
  BY DEF TellsOfMotion, HalvesOfLatched, UsecHigh
<1> QED BY <1>11, <1>12, <1>13, <1>14

\* What the mouse has goes to the encoders, or to QUUX's register, all of it.
LEMMA DeliverKeeps ==
    ASSUME IoInv, DeliverMouse
    PROVE  IoInv'
<1> USE DEF IoInv, DeliverMouse
<1>1. iMouse \in Mice /\ iEncoders \in Encs /\ iIface \in Ifaces /\ iRead.mouse \in Motions
      /\ iCsr \in [mouse : BOOLEAN, mouse_enable : BOOLEAN, clock_enable : BOOLEAN]
  BY DEF IoTypes
<1>2. iMouse' \in Mice /\ iMouse'.last = iMouse.last /\ iMouse'.moved = Zero
  BY <1>1, SpotsAre DEF Mice
<1>3. \A a \in Axes : /\ iIface.count[a] \in Int /\ iEncoders.left[a] \in Int /\ iMouse.moved[a] \in Int
                      /\ iMouse'.moved[a] = 0 /\ Come(a)' = Come(a) /\ Come(a) \in Int
  <2>1. iMouse.last \in Motions /\ iOrigin \in Motions
    BY <1>1, SpotsAre DEF Mice, IoTypes
  <2>2. \A a \in Axes : Come(a) \in Int
    BY <2>1 DEF Come, Motions
  <2>3. \A a \in Axes : Come(a)' = Come(a)
    BY <1>2 DEF Come
  <2> QED BY <1>1, <1>2, <2>2, <2>3 DEF Ifaces, Encs, Mice, Motions, Zero
<1>4. /\ iEncoders' \in Encs /\ iIface' \in Ifaces /\ iEncoders'.phase = iEncoders.phase
      /\ iIface'.new = iIface.new /\ iIface'.sampled = iIface.sampled
      /\ iCsr' \in [mouse : BOOLEAN, mouse_enable : BOOLEAN, clock_enable : BOOLEAN]
      /\ iIface'.count # iIface.count => iCsr'.mouse
      /\ iCsr.mouse => iCsr'.mouse
      /\ \A a \in Axes : Same(iIface'.count[a] + iEncoders'.left[a],
                              iIface.count[a] + iEncoders.left[a] + iMouse.moved[a])
  <2>1. CASE iRoute = "quux"
    <3> DEFINE counts == [a \in Axes |-> (iIface.count[a] + iMouse.moved[a]) % CountMod]
    <3>1. \A a \in Axes : counts[a] \in Int /\ Same(counts[a], iIface.count[a] + iMouse.moved[a])
      <4> SUFFICES ASSUME NEW a \in Axes
                   PROVE  counts[a] \in Int /\ Same(counts[a], iIface.count[a] + iMouse.moved[a])
        OBVIOUS
      <4>1. iIface.count[a] + iMouse.moved[a] \in Int
        BY <1>3
      <4> QED BY <4>1, SameShown, IoBoardAssumption
    <3>2. counts \in Motions
      BY <3>1 DEF Motions
    <3>3. iIface' = [iIface EXCEPT !.switches = iMouse.buttons, !.count = counts]
      BY <1>1, <2>1 DEF Ifaces
    <3> HIDE DEF counts
    <3>4. iIface' \in Ifaces /\ iIface'.new = iIface.new /\ iIface'.sampled = iIface.sampled /\ iIface'.count = counts
      BY <1>1, <3>2, <3>3 DEF Ifaces, Mice
    <3>5. iEncoders' = iEncoders /\ iCsr' = [iCsr EXCEPT !.mouse = TRUE]
      BY <2>1
    <3>6. \A a \in Axes : Same(iIface'.count[a] + iEncoders'.left[a],
                              iIface.count[a] + iEncoders.left[a] + iMouse.moved[a])
      <4> SUFFICES ASSUME NEW a \in Axes
                   PROVE  Same(iIface'.count[a] + iEncoders'.left[a],
                              iIface.count[a] + iEncoders.left[a] + iMouse.moved[a])
        OBVIOUS
      <4> DEFINE c == counts[a]
                 q == iIface.count[a]
                 l == iEncoders.left[a]
                 d == iMouse.moved[a]
      <4>1. c \in Int /\ q \in Int /\ l \in Int /\ d \in Int /\ Same(c, q + d)
        BY <1>3, <3>1
      <4>2. iIface'.count[a] = c /\ iEncoders'.left[a] = l
        BY <3>4, <3>5
      <4> HIDE DEF c, q, l, d
      <4>3. q + d \in Int
        BY <4>1
      <4>4. Same(c + l, (q + d) + l)
        BY <4>1, <4>3, SameSame, SameAdds
      <4>5. (q + d) + l = q + l + d
        BY <4>1
      <4> QED BY <4>2, <4>4, <4>5 DEF c, q, l, d
    <3> QED BY <1>1, <3>4, <3>5, <3>6
  <2>2. CASE iRoute # "quux"
    <3> DEFINE lefts == [a \in Axes |-> iEncoders.left[a] + iMouse.moved[a]]
    <3>1. lefts \in Motions
      BY <1>3 DEF Motions
    <3>2. iEncoders' = [iEncoders EXCEPT !.left = lefts]
      BY <1>1, <2>2 DEF Encs
    <3>3. iEncoders' \in Encs /\ iEncoders'.left = lefts /\ iEncoders'.phase = iEncoders.phase
      <4> HIDE DEF lefts
      <4> QED BY <1>1, <3>1, <3>2 DEF Encs
    <3>4. iIface' \in Ifaces /\ iIface'.new = iIface.new /\ iIface'.sampled = iIface.sampled
          /\ iIface'.count = iIface.count /\ iCsr' = iCsr
      BY <1>1, <2>2 DEF Ifaces, Mice
    <3>5. \A a \in Axes : /\ iIface'.count[a] + iEncoders'.left[a] = iIface.count[a] + iEncoders.left[a] + iMouse.moved[a]
                          /\ iIface.count[a] + iEncoders.left[a] + iMouse.moved[a] \in Int
      BY <1>3, <3>3, <3>4
    <3>6. \A a \in Axes : Same(iIface'.count[a] + iEncoders'.left[a],
                              iIface.count[a] + iEncoders.left[a] + iMouse.moved[a])
      BY <3>5, SameSame
    <3> QED BY <1>1, <3>3, <3>4, <3>6
  <2> QED BY <2>1, <2>2
<1>5. IoTypes'
  BY <1>2, <1>4 DEF IoTypes
<1>6. \A a \in Axes : Same((iIface.count[a] + iEncoders.left[a] + iMouse.moved[a])', Come(a)')
  <2> SUFFICES ASSUME NEW a \in Axes
               PROVE  Same((iIface.count[a] + iEncoders.left[a] + iMouse.moved[a])', Come(a)')
    OBVIOUS
  <2> DEFINE x == iIface'.count[a] + iEncoders'.left[a]
             y == iIface.count[a] + iEncoders.left[a] + iMouse.moved[a]
             z == Come(a)
  <2>1. x \in Int /\ y \in Int /\ z \in Int /\ (iIface.count[a] + iEncoders.left[a] + iMouse.moved[a])' = x
    BY <1>3, <1>4 DEF Ifaces, Encs, Motions
  <2>2. Same(x, y) /\ Same(y, z) /\ z' = z
    BY <1>3, <1>4 DEF MotionIsKept
  <2>3. Same(x, z)
    <3> HIDE DEF x, y, z
    <3> QED BY <2>1, <2>2, SameOn
  <2> QED BY <2>1, <2>2, <2>3
<1>7. MotionIsKept'
  <2>1. Lines(iEncoders)' = Lines(iEncoders)
    BY <1>4 DEF Lines
  <2>2. \A a \in Axes : Same(iIface.count[a] + iEncoders.left[a] + iMouse.moved[a], Come(a))'
    BY <1>6 DEF Same
  <2> QED BY <1>2, <1>4, <2>1, <2>2 DEF MotionIsKept
<1>8. NewestIsViewers'
  BY <1>2 DEF NewestIsViewers
<1>9. TellsOfMotion' /\ HalvesOfLatched'
  BY <1>4 DEF TellsOfMotion, HalvesOfLatched, UsecHigh
<1> QED BY <1>5, <1>7, <1>8, <1>9

\* The board sampled up to now, whatever becomes of the ready: the counters and
\* the encoders have between them what they had.
LEMMA SampledKeeps ==
    ASSUME IoInv, iEncoders' = Sample.enc, iIface' = Sample.iface,
           UNCHANGED <<iNow, iMouse, iOrigin>>
    PROVE  /\ iEncoders' \in Encs /\ iIface' \in Ifaces
           /\ MotionIsKept'
           /\ iIface'.count # iIface.count => iIface'.changed
<1> USE DEF IoInv
<1>1. /\ iNow \in Nat /\ iNow <= MaxTicks /\ iEncoders \in Encs /\ iIface \in Ifaces /\ iMouse \in Mice
      /\ iIface.new.lines = Lines(iEncoders) /\ iIface.sampled \in 0 .. iNow
  BY IoBoardAssumption DEF IoTypes, MotionIsKept
<1>2. SampledOf(Sample) /\ Sample.iface.sampled = iNow
  BY <1>1, SampleKeeps
<1>3. /\ iEncoders' \in Encs /\ iIface' \in Ifaces
      /\ iIface'.new.lines = Lines(iEncoders') /\ iIface'.sampled = iNow
      /\ iIface'.count # iIface.count => iIface'.changed
      /\ \A a \in Axes : Same(iIface'.count[a] + iEncoders'.left[a], iIface.count[a] + iEncoders.left[a])
  BY <1>2 DEF SampledOf, Boards
<1>4. \A a \in Axes : Same((iIface.count[a] + iEncoders.left[a] + iMouse.moved[a])', Come(a)')
  <2> SUFFICES ASSUME NEW a \in Axes
               PROVE  Same((iIface.count[a] + iEncoders.left[a] + iMouse.moved[a])', Come(a)')
    OBVIOUS
  <2> DEFINE x == iIface'.count[a] + iEncoders'.left[a]
             y == iIface.count[a] + iEncoders.left[a]
             d == iMouse.moved[a]
             z == Come(a)
  <2>1. x \in Int /\ y \in Int /\ d \in Int /\ z \in Int
    <3>1. iMouse.last \in Motions /\ iOrigin \in Motions
      BY <1>1, SpotsAre DEF Mice, IoTypes
    <3>2. z \in Int
      BY <3>1 DEF Come, Motions
    <3> QED BY <1>1, <1>3, <3>2 DEF Ifaces, Encs, Mice, Motions
  <2>2. Same(x, y) /\ Same(y + d, z) /\ z' = z
    BY <1>3 DEF MotionIsKept, Come
  <2>3. (iIface.count[a] + iEncoders.left[a] + iMouse.moved[a])' = x + d
    OBVIOUS
  <2>4. Same(x + d, z)
    <3> HIDE DEF x, y, d, z
    <3>0. Same(d, d)
      BY <2>1, SameSame
    <3>1. x + d \in Int /\ y + d \in Int /\ Same(x + d, y + d)
      BY <2>1, <2>2, <3>0, SameAdds
    <3> QED BY <2>1, <2>2, <3>1, SameOn
  <2> QED BY <2>2, <2>3, <2>4
<1>5. \A a \in Axes : Same(iIface.count[a] + iEncoders.left[a] + iMouse.moved[a], Come(a))'
  BY <1>4 DEF Same
<1> QED BY <1>1, <1>3, <1>5 DEF MotionIsKept

LEMMA AdvanceKeeps ==
    ASSUME IoInv, Advance
    PROVE  IoInv'
<1> USE DEF IoInv, Advance
<1>1. /\ iEncoders' = Sample.enc /\ iIface' = Sample.iface
      /\ iCsr' = [iCsr EXCEPT !.mouse = @ \/ Sample.iface.changed]
  BY DEF Sampled
<1>2. iEncoders' \in Encs /\ iIface' \in Ifaces /\ MotionIsKept' /\ (iIface'.count # iIface.count => iIface'.changed)
  BY <1>1, SampledKeeps
<1>3. /\ iCsr' \in [mouse : BOOLEAN, mouse_enable : BOOLEAN, clock_enable : BOOLEAN]
      /\ iCsr'.mouse = (iCsr.mouse \/ iIface'.changed)
  <2>1. iCsr \in [mouse : BOOLEAN, mouse_enable : BOOLEAN, clock_enable : BOOLEAN] /\ iIface'.changed \in BOOLEAN
    BY <1>2 DEF IoTypes, Ifaces
  <2> QED BY <1>1, <2>1
<1>4. IoTypes'
  BY <1>2, <1>3 DEF IoTypes
<1>5. TellsOfMotion'
  BY <1>2, <1>3 DEF TellsOfMotion
<1>6. NewestIsViewers' /\ HalvesOfLatched'
  BY DEF NewestIsViewers, HalvesOfLatched, UsecHigh
<1> QED BY <1>2, <1>4, <1>5, <1>6

LEMMA ReadMouseKeeps ==
    ASSUME IoInv, ReadMouse
    PROVE  IoInv'
<1> USE DEF IoInv, ReadMouse
<1>1. iEncoders' \in Encs /\ iIface' \in Ifaces /\ MotionIsKept'
  <2>1. CASE iRoute = "quux"
    <3>1. UNCHANGED <<iEncoders, iIface, iNow, iMouse, iOrigin>>
      BY <2>1
    <3> QED BY <3>1 DEF IoTypes, MotionIsKept, Come
  <2>2. CASE iRoute # "quux"
    <3>1. iEncoders' = Sample.enc /\ iIface' = Sample.iface
      BY <2>2
    <3> QED BY <3>1, SampledKeeps
  <2> QED BY <2>1, <2>2
<1>2. iCsr' = [iCsr EXCEPT !.mouse = FALSE] /\ iRead' = [iRead EXCEPT !.mouse = iIface'.count]
  OBVIOUS
<1>3. /\ iRead \in [low : Int, low_at : Int, high : Int, mouse : Motions]
      /\ iCsr \in [mouse : BOOLEAN, mouse_enable : BOOLEAN, clock_enable : BOOLEAN]
      /\ iIface'.count \in Motions
  BY <1>1 DEF IoTypes, Ifaces
<1>4. /\ iRead' \in [low : Int, low_at : Int, high : Int, mouse : Motions]
      /\ iCsr' \in [mouse : BOOLEAN, mouse_enable : BOOLEAN, clock_enable : BOOLEAN]
      /\ iRead'.mouse = iIface'.count /\ iRead'.low = iRead.low /\ iRead'.low_at = iRead.low_at
      /\ iRead'.high = iRead.high
  BY <1>2, <1>3
<1>5. IoTypes'
  BY <1>1, <1>4 DEF IoTypes
<1>6. TellsOfMotion'
  BY <1>4 DEF TellsOfMotion
<1>7. NewestIsViewers' /\ HalvesOfLatched'
  BY <1>4 DEF NewestIsViewers, HalvesOfLatched, UsecHigh
<1> QED BY <1>1, <1>5, <1>6, <1>7

\* Time, and what is not the mouse's.
LEMMA OthersKeep ==
    ASSUME IoInv,
           \/ Pass \/ ReadUsecLow \/ ReadUsecHigh \/ ClickAudio \/ TakeBeep \/ Interrupt \/ UnibusInit
           \/ \E m, c \in BOOLEAN : WriteCsr(m, c)
           \/ UNCHANGED ioVars
    PROVE  IoInv'
<1> USE DEF IoInv
<1>1. IoTypes
  OBVIOUS
<1>2. /\ iRead \in [low : Int, low_at : Int, high : Int, mouse : Motions]
      /\ iCsr \in [mouse : BOOLEAN, mouse_enable : BOOLEAN, clock_enable : BOOLEAN]
      /\ iClock \in [usec : Nat, interval : Nat, loaded_at : Int] /\ iNow \in Nat
      /\ HalfMod \in Nat \ {0} /\ iNow \in 0 .. MaxTicks /\ MaxTicks \in Nat
  BY <1>1, IoBoardAssumption DEF IoTypes
<1>3. CASE Pass
  <2>1. iNow' \in 0 .. MaxTicks /\ iIface.sampled \in 0 .. iNow'
    BY <1>2, <1>3 DEF Pass, MotionIsKept
  <2> QED BY <1>3, <2>1 DEF Pass, IoTypes, MotionIsKept, Come, NewestIsViewers, TellsOfMotion, HalvesOfLatched, UsecHigh
<1>4. CASE ReadUsecLow
  <2>1. /\ iClock' \in [usec : Nat, interval : Nat, loaded_at : Int] /\ iClock'.usec = iNow
        /\ iRead' \in [low : Int, low_at : Int, high : Int, mouse : Motions]
        /\ iRead'.low = iNow % HalfMod /\ iRead'.low_at = iNow /\ iRead'.high = -1 /\ iRead'.mouse = iRead.mouse
    <3> DEFINE low == iNow % HalfMod
    <3>1. low \in Int /\ iNow \in Int
      BY <1>2
    <3>2. /\ iClock' = [iClock EXCEPT !.usec = iNow]
          /\ iRead' = [iRead EXCEPT !.low = low, !.low_at = iNow, !.high = -1]
      BY <1>4 DEF ReadUsecLow
    <3> HIDE DEF low
    <3>3. iClock' \in [usec : Nat, interval : Nat, loaded_at : Int] /\ iClock'.usec = iNow
      BY <1>2, <3>2
    <3> DEFINE r1 == [iRead EXCEPT !.low = low]
               r2 == [r1 EXCEPT !.low_at = iNow]
    <3>4. /\ r2 \in [low : Int, low_at : Int, high : Int, mouse : Motions]
          /\ r2.low = low /\ r2.low_at = iNow /\ r2.mouse = iRead.mouse
      <4>1. r1 \in [low : Int, low_at : Int, high : Int, mouse : Motions] /\ r1.low = low /\ r1.mouse = iRead.mouse
        BY <1>2, <3>1
      <4> HIDE DEF r1
      <4> QED BY <3>1, <4>1
    <3>5. iRead' = [r2 EXCEPT !.high = -1]
      BY <3>2
    <3> HIDE DEF r2
    <3>6. /\ iRead' \in [low : Int, low_at : Int, high : Int, mouse : Motions]
          /\ iRead'.low = low /\ iRead'.low_at = iNow /\ iRead'.high = -1 /\ iRead'.mouse = iRead.mouse
      BY <3>4, <3>5
    <3> QED BY <3>3, <3>6 DEF low
  <2>2. HalvesOfLatched'
    BY <2>1 DEF HalvesOfLatched
  <2> QED BY <1>4, <2>1, <2>2 DEF ReadUsecLow, IoTypes, MotionIsKept, Come, NewestIsViewers, TellsOfMotion
<1>5. CASE ReadUsecHigh
  <2>1. UsecHigh \in Int
    BY <1>2 DEF UsecHigh
  <2>2. /\ iRead' \in [low : Int, low_at : Int, high : Int, mouse : Motions]
        /\ iRead'.low = iRead.low /\ iRead'.low_at = iRead.low_at /\ iRead'.high = UsecHigh
        /\ iRead'.mouse = iRead.mouse /\ iRead.low_at # -1 /\ iClock' = iClock
    BY <1>2, <1>5, <2>1 DEF ReadUsecHigh
  <2>3. HalvesOfLatched'
    BY <2>2 DEF HalvesOfLatched, UsecHigh
  <2> QED BY <1>5, <2>2, <2>3 DEF ReadUsecHigh, IoTypes, MotionIsKept, Come, NewestIsViewers, TellsOfMotion
<1>6. CASE ClickAudio \/ TakeBeep
  BY <1>6 DEF ClickAudio, TakeBeep, IoTypes, MotionIsKept, Come, NewestIsViewers, TellsOfMotion,
              HalvesOfLatched, UsecHigh
<1>7. CASE Interrupt
  <2>1. iClock' = [iClock EXCEPT !.loaded_at = iNow, !.interval = 1] /\ iNow \in Int
    BY <1>2, <1>7 DEF Interrupt
  <2>2. iClock' \in [usec : Nat, interval : Nat, loaded_at : Int] /\ iClock'.usec = iClock.usec
    BY <1>2, <2>1
  <2> QED BY <1>7, <2>2 DEF Interrupt, IoTypes, MotionIsKept, Come, NewestIsViewers, TellsOfMotion,
                            HalvesOfLatched, UsecHigh
<1>8. CASE UnibusInit \/ \E m, c \in BOOLEAN : WriteCsr(m, c)
  <2>1. /\ iCsr' \in [mouse : BOOLEAN, mouse_enable : BOOLEAN, clock_enable : BOOLEAN]
        /\ iCsr'.mouse = iCsr.mouse
        /\ UNCHANGED <<iNow, iViewer, iPointers, iMouse, iEncoders, iIface, iClock, iRead, iOrigin>>
    BY <1>2, <1>8 DEF UnibusInit, WriteCsr
  <2> QED BY <2>1 DEF IoTypes, MotionIsKept, Come, NewestIsViewers, TellsOfMotion, HalvesOfLatched, UsecHigh
<1>9. CASE UNCHANGED ioVars
  BY <1>9 DEF ioVars, IoTypes, MotionIsKept, Come, NewestIsViewers, TellsOfMotion, HalvesOfLatched, UsecHigh
<1> QED BY <1>3, <1>4, <1>5, <1>6, <1>7, <1>8, <1>9

LEMMA IoInvKept == IoInv /\ [IoNext]_ioVars => IoInv'
<1> SUFFICES ASSUME IoInv, [IoNext]_ioVars PROVE IoInv'
  OBVIOUS
<1>1. ASSUME NEW at \in [Axes -> Places], NEW b \in {0, 1}, Point([at |-> at, buttons |-> b]) PROVE IoInv'
  BY <1>1, PointKeeps
<1>2. CASE TakePointers
  BY <1>2, TakeKeeps
<1>3. CASE DeliverMouse
  BY <1>3, DeliverKeeps
<1>4. CASE Advance
  BY <1>4, AdvanceKeeps
<1>5. CASE ReadMouse
  BY <1>5, ReadMouseKeeps
<1>6. CASE \/ Pass \/ ReadUsecLow \/ ReadUsecHigh \/ ClickAudio \/ TakeBeep \/ Interrupt \/ UnibusInit
           \/ \E m, c \in BOOLEAN : WriteCsr(m, c)
           \/ UNCHANGED ioVars
  BY <1>6, OthersKeep
<1> QED BY <1>1, <1>2, <1>3, <1>4, <1>5, <1>6 DEF IoNext

LEMMA IoInvGives == IoInv => MouseKept
<1> SUFFICES ASSUME IoInv PROVE MouseKept
  OBVIOUS
<1> USE DEF IoInv
<1>1. ASSUME iOrigin # Nowhere, NEW a \in Axes
      PROVE  (iIface.count[a] + iEncoders.left[a] + iMouse.moved[a]) % CountMod
               = (iMouse.last[a] - iOrigin[a]) % CountMod
  <2>1. iMouse.last \in Motions /\ iOrigin \in Motions
    BY SpotsAre DEF IoTypes, Mice
  <2> DEFINE x == iIface.count[a] + iEncoders.left[a] + iMouse.moved[a]
             y == iMouse.last[a] - iOrigin[a]
  <2>2. x \in Int /\ y \in Int
    BY <2>1 DEF IoTypes, Ifaces, Encs, Mice, Motions
  <2>3. Same(x, y)
    BY <1>1 DEF MotionIsKept, Come
  <2> HIDE DEF x, y
  <2>4. x % CountMod = y % CountMod
    BY <2>2, <2>3, SameShow
  <2> QED BY <2>4 DEF x, y
<1>2. PointerIsPut
  BY <1>1 DEF PointerIsPut, NewestIsViewers, TellsOfMotion
<1>3. UsecOfOneInstant
  <2> SUFFICES ASSUME iRead.high # -1 PROVE iRead.high * HalfMod + iRead.low = iRead.low_at
    BY DEF UsecOfOneInstant
  <2> DEFINE u == iClock.usec
  <2>1. iRead.high = u \div HalfMod /\ iRead.low = u % HalfMod /\ iRead.low_at = u
    BY DEF HalvesOfLatched, UsecHigh
  <2>2. u \in Nat /\ HalfMod \in Nat \ {0}
    BY IoBoardAssumption DEF IoTypes
  <2> HIDE DEF u
  <2>3. (u \div HalfMod) * HalfMod + (u % HalfMod) = u
    BY <2>2, SMT
  <2> QED BY <2>1, <2>3
<1> QED BY <1>2, <1>3 DEF MouseKept

(* The pointer ends where the viewer put it: what the counters show with what is *)
(* on its way to them is how far the mouse has come, modulo the counters, the    *)
(* software is told of what it has not read, and the two halves of the clock are *)
(* of one instant; for a counter and a queue of any size, places and times       *)
(* without bound, and edges sampled as late as may be.                           *)
THEOREM PointerIsWherePut == IoSpec => []MouseKept
<1>1. IoInit => IoInv
  BY InvAtFirst
<1>2. IoInv /\ [IoNext]_ioVars => IoInv'
  BY IoInvKept
<1>3. IoInv => MouseKept
  BY IoInvGives
<1> QED BY <1>1, <1>2, <1>3, PTL DEF IoSpec
=============================================================================

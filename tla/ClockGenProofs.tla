--------------------------- MODULE ClockGenProofs ---------------------------
(***************************************************************************)
(* Proofs about the clock generator: a cycle takes each of its transitions *)
(* once and lasts what its tap says and what it was held, its pulses keep  *)
(* apart, and the microcycles counted are those that began, however the    *)
(* machine is held, reset and resumed.                                     *)
(***************************************************************************)
EXTENDS ClockGen, FiniteSetTheorems, WellFoundedInduction, TLAPS

-----------------------------------------------------------------------------
(* The list of transitions.                                                  *)

\* The transitions of a cycle that are scheduled as it begins, and all.
First == {"TseOff", "TseOn", "TprOn", "Select", "TprOff"}
Events == Transitions \cup {"CycleStart"}
Entries == [at : Nat, ev : Events]
Reads == {15, 23, 17, 25, 20, 28, 32}

\* When each is due, from the start of a cycle with a read phase of r.
Due(ev, r) ==
    CASE ev = "TseOff" -> 1
      [] ev = "TseOn" -> 5
      [] ev = "TprOn" -> 12
      [] ev = "Select" -> 13
      [] ev = "TprOff" -> 20
      [] ev = "ReadEnd" -> r
      [] ev = "WpIramOff" -> r + 9
      [] ev = "WpOn" -> r + 6
      [] ev = "WpOff" -> r + 12
      [] ev = "CycleStart" -> r + 12

\* A list in order, each transition once, a cycle's start after the rest.
Listed(p) ==
    /\ p \in Seq(Entries)
    /\ \A i, j \in DOMAIN p : i < j => p[i].at <= p[j].at
    /\ \A i, j \in DOMAIN p : p[i].ev = p[j].ev => i = j
    /\ \A i \in DOMAIN p : p[i].ev = "CycleStart" => i = Len(p)

Members(p) == {p[k] : k \in DOMAIN p}
Pends(p) == {p[k].ev : k \in DOMAIN p}

\* A set of numbers has a least.
LEMMA LeastOf ==
    ASSUME NEW X, X \subseteq Nat, X # {}
    PROVE  \E x \in X : \A y \in X : x <= y
<1>1. \A x, y \in Nat : x < y => <<x, y>> \in OpToRel(<, Nat)
  BY DEF OpToRel
<1>2. PICK R : IsWellFoundedOn(R, Nat) /\ \A x, y \in Nat : x < y => <<x, y>> \in R
  BY <1>1, NatLessThanWellFounded
<1>3. IsWellFoundedOn(R, Nat)
  BY <1>2
<1>4. PICK x \in X : \A y \in X : ~(<<y, x>> \in R)
  BY <1>3, WFMin
<1>5. \A y \in X : x <= y
  <2> SUFFICES ASSUME NEW y \in X PROVE x <= y
    OBVIOUS
  <2>1. x \in Nat /\ y \in Nat
    OBVIOUS
  <2>2. ~(y < x)
    BY <1>2, <1>4, <2>1
  <2> QED
    BY <2>1, <2>2
<1> QED
  BY <1>5

\* What a list is, entry by entry.
LEMMA ListIs ==
    ASSUME NEW p, Listed(p)
    PROVE  /\ Len(p) \in Nat /\ DOMAIN p = 1 .. Len(p)
           /\ \A k \in 1 .. Len(p) : p[k] \in Entries /\ p[k].at \in Nat /\ p[k].ev \in Events
           /\ \A i, j \in 1 .. Len(p) : i <= j => p[i].at <= p[j].at
<1>1. Len(p) \in Nat /\ DOMAIN p = 1 .. Len(p) /\ \A k \in 1 .. Len(p) : p[k] \in Entries
  BY DEF Listed
<1>2. \A k \in 1 .. Len(p) : p[k].at \in Nat /\ p[k].ev \in Events
  BY <1>1 DEF Entries
<1>3. \A i, j \in 1 .. Len(p) : i < j => p[i].at <= p[j].at
  BY <1>1 DEF Listed
<1>4. \A i, j \in 1 .. Len(p) : i <= j => p[i].at <= p[j].at
  BY <1>2, <1>3, SMT
<1> QED
  BY <1>1, <1>2, <1>4

\* The list p with e at m, what was there and behind moved by one.
Inserted(p, e, m) ==
    [k \in 1 .. Len(p) + 1 |-> IF k < m THEN p[k] ELSE IF k = m THEN e ELSE p[k - 1]]

\* Where a transition is scheduled.
LEMMA SchedulePlace ==
    ASSUME NEW p, Listed(p), NEW at \in Nat, NEW ev
    PROVE  \E m \in 1 .. Len(p) + 1 :
              /\ \A k \in 1 .. Len(p) : k < m => p[k].at <= at
              /\ \A k \in 1 .. Len(p) : m <= k => at < p[k].at
              /\ Schedule(p, at, ev) = Inserted(p, [at |-> at, ev |-> ev], m)
<1> DEFINE n == Len(p)
           X == {k \in 1 .. n : at < p[k].at} \cup {n + 1}
<1>1. n \in Nat /\ (\A k \in 1 .. n : p[k].at \in Nat)
      /\ \A i, j \in 1 .. n : i <= j => p[i].at <= p[j].at
  BY ListIs
<1>2. X \subseteq Nat /\ X # {}
  BY <1>1
<1>3. PICK m \in X : \A y \in X : m <= y
  BY <1>2, LeastOf
<1>4. m \in 1 .. n + 1 /\ (m \in 1 .. n => at < p[m].at)
  BY <1>1, <1>3
<1>5. \A k \in 1 .. n : k < m => p[k].at <= at
  <2> SUFFICES ASSUME NEW k \in 1 .. n, k < m PROVE p[k].at <= at
    OBVIOUS
  <2>1. k \notin X
    BY <1>1, <1>3, <1>4
  <2> QED
    BY <2>1, <1>1
<1>6. \A k \in 1 .. n : m <= k => at < p[k].at
  <2> SUFFICES ASSUME NEW k \in 1 .. n, m <= k PROVE at < p[k].at
    OBVIOUS
  <2>1. m \in 1 .. n
    BY <1>1, <1>4
  <2>2. at < p[m].at /\ p[m].at <= p[k].at
    BY <2>1, <1>1, <1>4
  <2> QED
    BY <2>1, <2>2, <1>1
<1> HIDE DEF X
<1>7. \A k \in 1 .. n + 1 :
         (IF k <= n /\ p[k].at <= at THEN p[k]
          ELSE IF k = 1 \/ p[k - 1].at <= at THEN [at |-> at, ev |-> ev] ELSE p[k - 1])
         = IF k < m THEN p[k] ELSE IF k = m THEN [at |-> at, ev |-> ev] ELSE p[k - 1]
  <2> SUFFICES ASSUME NEW k \in 1 .. n + 1
               PROVE  (IF k <= n /\ p[k].at <= at THEN p[k]
                       ELSE IF k = 1 \/ p[k - 1].at <= at THEN [at |-> at, ev |-> ev] ELSE p[k - 1])
                      = IF k < m THEN p[k] ELSE IF k = m THEN [at |-> at, ev |-> ev] ELSE p[k - 1]
    OBVIOUS
  <2>1. CASE k < m
    <3>1. k \in 1 .. n /\ p[k].at <= at
      BY <2>1, <1>1, <1>4, <1>5
    <3> QED
      BY <2>1, <3>1
  <2>2. CASE k = m
    <3>1. ~(k <= n /\ p[k].at <= at)
      BY <2>2, <1>1, <1>4
    <3>2. k = 1 \/ p[k - 1].at <= at
      <4>1. k # 1 => k - 1 \in 1 .. n /\ k - 1 < m
        BY <2>2, <1>1, <1>4
      <4> QED
        BY <4>1, <1>5
    <3> QED
      BY <2>2, <3>1, <3>2, <1>1, <1>4
  <2>3. CASE m < k
    <3>1. k - 1 \in 1 .. n /\ m <= k - 1 /\ k # 1
      BY <2>3, <1>1, <1>4
    <3>2. at < p[k - 1].at /\ p[k - 1].at \in Nat
      BY <3>1, <1>1, <1>6
    <3>3. ~(k <= n /\ p[k].at <= at)
      <4>1. k <= n => k \in 1 .. n /\ m <= k
        BY <2>3, <1>1, <1>4
      <4> QED
        BY <4>1, <1>1, <1>6
    <3> QED
      BY <2>3, <3>1, <3>2, <3>3, <1>1, <1>4
  <2> QED
    BY <2>1, <2>2, <2>3, <1>1, <1>4
<1>8. Schedule(p, at, ev) = Inserted(p, [at |-> at, ev |-> ev], m)
  BY <1>7 DEF Schedule, Inserted
<1> QED
  BY <1>4, <1>5, <1>6, <1>8

\* A transition scheduled is one more of the list, in its place; the next
\* cycle's start is scheduled last.
LEMMA ScheduleIs ==
    ASSUME NEW p, Listed(p), NEW at \in Nat, NEW ev \in Events,
           ev \notin Pends(p), "CycleStart" \notin Pends(p),
           ev = "CycleStart" => \A x \in Members(p) : x.at <= at
    PROVE  /\ Listed(Schedule(p, at, ev))
           /\ Members(Schedule(p, at, ev)) = Members(p) \cup {[at |-> at, ev |-> ev]}
           /\ Pends(Schedule(p, at, ev)) = Pends(p) \cup {ev}
<1> DEFINE n == Len(p)
           e == [at |-> at, ev |-> ev]
<1>1. PICK m \in 1 .. n + 1 :
              /\ \A k \in 1 .. n : k < m => p[k].at <= at
              /\ \A k \in 1 .. n : m <= k => at < p[k].at
              /\ Schedule(p, at, ev) = Inserted(p, e, m)
  BY SchedulePlace
<1> DEFINE q == Inserted(p, e, m)
<1>2. /\ n \in Nat /\ DOMAIN p = 1 .. n
      /\ \A k \in 1 .. n : p[k] \in Entries /\ p[k].at \in Nat /\ p[k].ev \in Events
      /\ \A i, j \in 1 .. n : i <= j => p[i].at <= p[j].at
  BY ListIs
<1>3. DOMAIN q = 1 .. n + 1 /\ m \in 1 .. n + 1
  BY DEF Inserted
<1> HIDE DEF n
<1>4. \A k \in 1 .. n + 1 : k < m => k \in 1 .. n /\ q[k] = p[k]
  BY <1>2, <1>3 DEF Inserted, n
<1>5. \A k \in 1 .. n + 1 : m < k => k - 1 \in 1 .. n /\ q[k] = p[k - 1]
  BY <1>2, <1>3 DEF Inserted, n
<1>6. q[m] = e /\ e.at = at /\ e.ev = ev /\ e \in Entries
  BY <1>2, <1>3 DEF Inserted, n, Entries
<1>7. \A i \in 1 .. n : (i < m => i \in 1 .. n + 1 /\ q[i] = p[i])
                      /\ (m <= i => i + 1 \in 1 .. n + 1 /\ q[i + 1] = p[i])
  BY <1>2, <1>3, <1>4, <1>5
<1>8. q \in Seq(Entries) /\ Len(q) = n + 1
  <2>1. \A k \in 1 .. n + 1 : q[k] \in Entries
    BY <1>2, <1>3, <1>4, <1>5, <1>6
  <2>2. q \in [1 .. n + 1 -> Entries]
    BY <2>1 DEF Inserted, n
  <2> QED
    BY <2>2, <1>2, <1>3
<1> HIDE DEF q, e
<1>9. Members(q) = Members(p) \cup {e}
  <2>1. \A k \in 1 .. n + 1 : q[k] \in Members(p) \cup {e}
    BY <1>2, <1>3, <1>4, <1>5, <1>6 DEF Members
  <2>2. \A k \in 1 .. n : p[k] \in Members(q)
    BY <1>2, <1>3, <1>7 DEF Members
  <2>3. e \in Members(q)
    BY <1>3, <1>6 DEF Members
  <2> QED
    BY <2>1, <2>2, <2>3, <1>2, <1>3 DEF Members
<1>10. Pends(q) = Pends(p) \cup {ev}
  <2>a. \A k \in 1 .. n : p[k].ev \in Pends(p)
    BY <1>2 DEF Pends
  <2>1. \A k \in 1 .. n + 1 : q[k].ev \in Pends(p) \cup {ev}
    BY <2>a, <1>2, <1>3, <1>4, <1>5, <1>6
  <2>2. \A k \in 1 .. n : p[k].ev \in Pends(q)
    BY <1>2, <1>3, <1>7 DEF Pends
  <2>3. ev \in Pends(q)
    BY <1>3, <1>6 DEF Pends
  <2> QED
    BY <2>1, <2>2, <2>3, <1>2, <1>3 DEF Pends
<1>11. \A i, j \in 1 .. n + 1 : i < j => q[i].at <= q[j].at
  <2> SUFFICES ASSUME NEW i \in 1 .. n + 1, NEW j \in 1 .. n + 1, i < j PROVE q[i].at <= q[j].at
    OBVIOUS
  <2>1. CASE i < m /\ j < m
    BY <2>1, <1>2, <1>4
  <2>2. CASE i < m /\ j = m
    BY <2>2, <1>1, <1>4, <1>6
  <2>3. CASE i < m /\ m < j
    <3>1. i \in 1 .. n /\ q[i] = p[i]
      BY <2>3, <1>4
    <3>2. j - 1 \in 1 .. n /\ q[j] = p[j - 1] /\ i <= j - 1
      BY <2>3, <1>2, <1>3, <1>5
    <3> QED
      BY <3>1, <3>2, <1>2
  <2>4. CASE i = m
    <3>1. j - 1 \in 1 .. n /\ q[j] = p[j - 1] /\ m <= j - 1
      BY <2>4, <1>2, <1>3, <1>5
    <3>2. at < p[j - 1].at
      BY <3>1, <1>1
    <3> QED
      BY <2>4, <3>1, <3>2, <1>6, <1>2
  <2>5. CASE m < i
    <3>1. i - 1 \in 1 .. n /\ q[i] = p[i - 1] /\ j - 1 \in 1 .. n /\ q[j] = p[j - 1] /\ i - 1 <= j - 1
      BY <2>5, <1>2, <1>3, <1>5
    <3> QED
      BY <3>1, <1>2
  <2> QED
    BY <2>1, <2>2, <2>3, <2>4, <2>5, <1>2, <1>3
<1>12. \A i, j \in 1 .. n + 1 : q[i].ev = q[j].ev => i = j
  <2>1. \A k \in 1 .. n : p[k].ev # ev
    BY <1>2 DEF Pends
  <2>2. \A i, j \in 1 .. n : p[i].ev = p[j].ev => i = j
    BY <1>2 DEF Listed
  <2>3. \A i \in 1 .. n + 1 : i # m => q[i].ev # ev
    BY <2>1, <1>2, <1>3, <1>4, <1>5
  <2> SUFFICES ASSUME NEW i \in 1 .. n + 1, NEW j \in 1 .. n + 1, q[i].ev = q[j].ev PROVE i = j
    OBVIOUS
  <2>4. CASE i = m \/ j = m
    BY <2>3, <2>4, <1>6
  <2>5. CASE i < m /\ j < m
    BY <2>2, <2>5, <1>4
  <2>6. CASE m < i /\ m < j
    <3>1. i - 1 = j - 1
      BY <2>2, <2>6, <1>5
    <3> QED
      BY <3>1, <1>2
  <2>7. CASE i < m /\ m < j
    <3>1. i = j - 1
      BY <2>2, <2>7, <1>4, <1>5
    <3> QED
      BY <3>1, <2>7, <1>2, <1>3
  <2>8. CASE j < m /\ m < i
    <3>1. j = i - 1
      BY <2>2, <2>8, <1>4, <1>5
    <3> QED
      BY <3>1, <2>8, <1>2, <1>3
  <2> QED
    BY <2>4, <2>5, <2>6, <2>7, <2>8, <1>2, <1>3
<1>13. \A i \in 1 .. n + 1 : q[i].ev = "CycleStart" => i = n + 1
  <2> SUFFICES ASSUME NEW i \in 1 .. n + 1, q[i].ev = "CycleStart" PROVE i = n + 1
    OBVIOUS
  <2>1. \A k \in 1 .. n : p[k].ev # "CycleStart"
    BY <1>2 DEF Pends
  <2>2. i = m /\ ev = "CycleStart"
    BY <2>1, <1>2, <1>3, <1>4, <1>5, <1>6
  <2>3. \A k \in 1 .. n : p[k].at <= at
    BY <2>2, <1>2 DEF Members
  <2>4. ~ m \in 1 .. n
    BY <2>3, <1>1, <1>2
  <2> QED
    BY <2>2, <2>4, <1>2, <1>3
<1>14. Listed(q)
  BY <1>3, <1>8, <1>11, <1>12, <1>13 DEF Listed
<1> QED
  BY <1>1, <1>9, <1>10, <1>14 DEF q, e, n

LEMMA EmptyList == Listed(<<>>) /\ Members(<<>>) = {} /\ Pends(<<>>) = {}
BY DEF Listed, Members, Pends

\* The head of a list is the soonest, and the rest is a list; a cycle's start
\* at the head is all there is.
LEMMA TailIs ==
    ASSUME NEW p, Listed(p), p # <<>>
    PROVE  /\ p[1] \in Members(p) /\ p[1] \in Entries
           /\ \A x \in Members(p) : p[1].at <= x.at
           /\ Listed(Tail(p))
           /\ Members(Tail(p)) = {x \in Members(p) : x.ev # p[1].ev}
           /\ Pends(Tail(p)) = Pends(p) \ {p[1].ev}
           /\ p[1].ev = "CycleStart" => Tail(p) = <<>> /\ Pends(p) = {"CycleStart"}
<1> DEFINE n == Len(p)
           t == Tail(p)
<1>1. /\ n \in Nat /\ DOMAIN p = 1 .. n
      /\ \A k \in 1 .. n : p[k] \in Entries /\ p[k].at \in Nat /\ p[k].ev \in Events
      /\ \A i, j \in 1 .. n : i <= j => p[i].at <= p[j].at
  BY ListIs
<1>2. 1 \in 1 .. n /\ n # 0 /\ p \in Seq(Entries)
  BY <1>1 DEF Listed
<1>3. t \in Seq(Entries) /\ Len(t) = n - 1 /\ DOMAIN t = 1 .. n - 1
  BY <1>2
<1>4. \A k \in 1 .. n - 1 : k + 1 \in 1 .. n /\ t[k] = p[k + 1]
  BY <1>1, <1>2, <1>3
<1>a. \A k \in 1 .. n : k # 1 => k - 1 \in 1 .. n - 1 /\ t[k - 1] = p[k]
  BY <1>1, <1>2, <1>4
<1> HIDE DEF n, t
<1>5. \A i, j \in 1 .. n : p[i].ev = p[j].ev => i = j
  BY <1>1 DEF Listed
<1>6. \A i \in 1 .. n : p[i].ev = "CycleStart" => i = n
  BY <1>1 DEF Listed, n
<1>7. Listed(t)
  <2>1. \A i, j \in 1 .. n - 1 : i < j => t[i].at <= t[j].at
    BY <1>1, <1>4
  <2>2. \A i, j \in 1 .. n - 1 : t[i].ev = t[j].ev => i = j
    BY <1>4, <1>5, <1>1
  <2>3. \A i \in 1 .. n - 1 : t[i].ev = "CycleStart" => i = n - 1
    BY <1>4, <1>6, <1>1
  <2> QED
    BY <1>3, <2>1, <2>2, <2>3 DEF Listed
<1>8. Members(t) = {x \in Members(p) : x.ev # p[1].ev}
  <2>1. \A k \in 1 .. n - 1 : t[k] \in Members(p) /\ t[k].ev # p[1].ev
    BY <1>1, <1>2, <1>4, <1>5 DEF Members
  <2>2. \A k \in 1 .. n : p[k].ev # p[1].ev => p[k] \in Members(t)
    BY <1>3, <1>a DEF Members
  <2> QED
    BY <2>1, <2>2, <1>1, <1>3 DEF Members
<1>9. Pends(t) = Pends(p) \ {p[1].ev}
  <2>1. \A k \in 1 .. n - 1 : t[k].ev \in Pends(p) /\ t[k].ev # p[1].ev
    BY <1>1, <1>2, <1>4, <1>5 DEF Pends
  <2>2. \A k \in 1 .. n : p[k].ev # p[1].ev => p[k].ev \in Pends(t)
    BY <1>3, <1>a DEF Pends
  <2> QED
    BY <2>1, <2>2, <1>1, <1>3 DEF Pends
<1>10. p[1].ev = "CycleStart" => t = <<>> /\ Pends(p) = {"CycleStart"}
  <2> SUFFICES ASSUME p[1].ev = "CycleStart" PROVE t = <<>> /\ Pends(p) = {"CycleStart"}
    OBVIOUS
  <2>1. n = 1
    BY <1>2, <1>6
  <2>2. t = <<>>
    BY <2>1, <1>3
  <2>3. Pends(p) = {"CycleStart"}
    BY <2>1, <1>1 DEF Pends
  <2> QED
    BY <2>2, <2>3
<1>11. p[1] \in Members(p) /\ p[1] \in Entries /\ \A x \in Members(p) : p[1].at <= x.at
  BY <1>1, <1>2 DEF Members
<1> QED
  BY <1>7, <1>8, <1>9, <1>10, <1>11 DEF t

At(at, ev) == [at |-> at, ev |-> ev]

\* What a cycle schedules as it begins.
LEMMA StartedIs ==
    ASSUME NEW c, c.pending = <<>>, c.time \in Nat
    PROVE  /\ Listed(StartCycle(c).pending) /\ Pends(StartCycle(c).pending) = First
           /\ Members(StartCycle(c).pending) = {At(c.time + Due(ev, 0), ev) : ev \in First}
<1> DEFINE t == c.time
           p == Schedule(<<>>, t + 1, "TseOff")
           q == Schedule(p, t + 5, "TseOn")
           r == Schedule(q, t + 12, "TprOn")
           s == Schedule(r, t + 13, "Select")
           u == Schedule(s, t + 20, "TprOff")
<1>1. Listed(p) /\ Pends(p) = {"TseOff"} /\ Members(p) = {At(t + 1, "TseOff")}
  BY EmptyList, ScheduleIs DEF Events, Transitions, At
<1> HIDE DEF p
<1>2. /\ Listed(q) /\ Pends(q) = {"TseOff", "TseOn"}
      /\ Members(q) = {At(t + 1, "TseOff"), At(t + 5, "TseOn")}
  BY <1>1, ScheduleIs DEF Events, Transitions, At
<1> HIDE DEF q
<1>3. /\ Listed(r) /\ Pends(r) = {"TseOff", "TseOn", "TprOn"}
      /\ Members(r) = {At(t + 1, "TseOff"), At(t + 5, "TseOn"), At(t + 12, "TprOn")}
  BY <1>2, ScheduleIs DEF Events, Transitions, At
<1> HIDE DEF r
<1>4. /\ Listed(s) /\ Pends(s) = {"TseOff", "TseOn", "TprOn", "Select"}
      /\ Members(s) = {At(t + 1, "TseOff"), At(t + 5, "TseOn"), At(t + 12, "TprOn"),
                       At(t + 13, "Select")}
  BY <1>3, ScheduleIs DEF Events, Transitions, At
<1> HIDE DEF s
<1>5. /\ Listed(u) /\ Pends(u) = First
      /\ Members(u) = {At(t + 1, "TseOff"), At(t + 5, "TseOn"), At(t + 12, "TprOn"),
                       At(t + 13, "Select"), At(t + 20, "TprOff")}
  BY <1>4, ScheduleIs DEF Events, Transitions, At, First
<1> HIDE DEF u
<1>6. {At(t + Due(ev, 0), ev) : ev \in First}
         = {At(t + 1, "TseOff"), At(t + 5, "TseOn"), At(t + 12, "TprOn"),
            At(t + 13, "Select"), At(t + 20, "TprOff")}
  BY DEF First, Due
<1>7. StartCycle(c).pending = u
  BY DEF StartCycle, TseOffNs, TseOnNs, Tpr60Ns, SelectNs, TprPulseNs, p, q, r, s, u
<1> QED
  BY <1>5, <1>6, <1>7

\* And what it does once its tap is chosen.
LEMMA RestIs ==
    ASSUME NEW c, Listed(c.pending), Pends(c.pending) \subseteq First, c.start \in Nat,
           NEW r \in Reads, \A x \in Members(c.pending) : x.at <= c.start + 20
    PROVE  LET q == RestOfCycle(c, r, 12).pending
           IN  /\ Listed(q) /\ Pends(q) = Pends(c.pending) \cup (Events \ First)
               /\ Members(q) = Members(c.pending)
                               \cup {At(c.start + Due(ev, r), ev) : ev \in Events \ First}
<1> DEFINE z == c.start + r
           o == c.pending
           p == Schedule(o, z, "ReadEnd")
           q == Schedule(p, z + 9, "WpIramOff")
           s == Schedule(q, z + 6, "WpOn")
           u == Schedule(s, z + 12, "WpOff")
           v == Schedule(u, z + 12, "CycleStart")
<1>0. z \in Nat /\ r \in Nat
  BY DEF Reads
<1>a. Events \ First = {"ReadEnd", "WpIramOff", "WpOn", "WpOff", "CycleStart"}
  BY DEF Events, Transitions, First
<1>b. \A x \in Members(o) : x.at <= z + 12
  <2>1. \A x \in Members(o) : x.at \in Nat
    BY ListIs DEF Members
  <2> QED
    BY <2>1 DEF Reads
<1>c. \A ev \in Events \ First : ev \notin Pends(o)
  OBVIOUS
<1> HIDE DEF z, o
<1>1. Listed(p) /\ Pends(p) = Pends(o) \cup {"ReadEnd"} /\ Members(p) = Members(o) \cup {At(z, "ReadEnd")}
  BY <1>0, <1>a, <1>c, ScheduleIs DEF At, o
<1> HIDE DEF p
<1>2. /\ Listed(q) /\ Pends(q) = Pends(o) \cup {"ReadEnd", "WpIramOff"}
      /\ Members(q) = Members(o) \cup {At(z, "ReadEnd"), At(z + 9, "WpIramOff")}
  BY <1>1, <1>0, <1>a, <1>c, ScheduleIs DEF At
<1> HIDE DEF q
<1>3. /\ Listed(s) /\ Pends(s) = Pends(o) \cup {"ReadEnd", "WpIramOff", "WpOn"}
      /\ Members(s) = Members(o) \cup {At(z, "ReadEnd"), At(z + 9, "WpIramOff"), At(z + 6, "WpOn")}
  BY <1>2, <1>0, <1>a, <1>c, ScheduleIs DEF At
<1> HIDE DEF s
<1>4. /\ Listed(u) /\ Pends(u) = Pends(o) \cup {"ReadEnd", "WpIramOff", "WpOn", "WpOff"}
      /\ Members(u) = Members(o) \cup {At(z, "ReadEnd"), At(z + 9, "WpIramOff"), At(z + 6, "WpOn"),
                                       At(z + 12, "WpOff")}
  BY <1>3, <1>0, <1>a, <1>c, ScheduleIs DEF At
<1> HIDE DEF u
<1>5. \A x \in Members(u) : x.at <= z + 12
  BY <1>4, <1>b, <1>0 DEF At
<1>6. /\ Listed(v) /\ Pends(v) = Pends(o) \cup (Events \ First)
      /\ Members(v) = Members(o) \cup {At(z, "ReadEnd"), At(z + 9, "WpIramOff"), At(z + 6, "WpOn"),
                                       At(z + 12, "WpOff"), At(z + 12, "CycleStart")}
  BY <1>4, <1>5, <1>0, <1>a, <1>c, ScheduleIs DEF At
<1> HIDE DEF v
<1>7. {At(c.start + Due(ev, r), ev) : ev \in Events \ First}
         = {At(z, "ReadEnd"), At(z + 9, "WpIramOff"), At(z + 6, "WpOn"),
            At(z + 12, "WpOff"), At(z + 12, "CycleStart")}
  <2>1. /\ c.start + Due("ReadEnd", r) = z /\ c.start + Due("WpIramOff", r) = z + 9
        /\ c.start + Due("WpOn", r) = z + 6 /\ c.start + Due("WpOff", r) = z + 12
        /\ c.start + Due("CycleStart", r) = z + 12
    BY <1>0 DEF Due, z
  <2> QED
    BY <1>a, <2>1
<1>8. RestOfCycle(c, r, 12).pending = v
  BY DEF RestOfCycle, WpIramOffNs, WpOnNs, RestartAfterRead, p, q, s, u, v, z, o
<1> QED
  BY <1>6, <1>7, <1>8 DEF o

-----------------------------------------------------------------------------
(* The inductive invariant.                                                  *)

Outs == {"tpclk", "tptse", "tpwp", "tpwpiram"}
Generators == [time : Nat, start : Nat, read : Nat, out : SUBSET Outs, pending : Seq(Entries)]

Picks == clkChosen # {}
Coming == IF Picks THEN Events ELSE First
Seen == ToSet(clkSeen)

\* A cycle under way: what is to come is due when the tap says, and held; what
\* has been taken was, in order.
Listing ==
    /\ Listed(clk.pending)
    /\ Pends(clk.pending) = Coming \ Seen
    /\ \A x \in Members(clk.pending) :
          /\ x.at = clk.start + Due(x.ev, clk.read) + (IF x.ev = "CycleStart" THEN clkHeld ELSE 0)
          /\ clk.time <= x.at

Taking ==
    /\ clkSeen \in Seq(Transitions) /\ Seen \subseteq Coming
    /\ ~Picks => "Select" \notin Seen
    /\ \A i, j \in DOMAIN clkSeen : clkSeen[i] = clkSeen[j] => i = j
    /\ \A i, j \in DOMAIN clkSeen : i < j => Due(clkSeen[i], clk.read) <= Due(clkSeen[j], clk.read)
    /\ \A ev \in Seen : clk.start + Due(ev, clk.read) <= clk.time
    /\ clkHeld # 0 => Picks /\ Seen = Transitions

Tap ==
    /\ clkChosen \subseteq Speeds \X BOOLEAN
    /\ Picks => clk.read \in Reads
    /\ \A ch \in clkChosen : clk.read = ReadPhaseNs(ch[1], ch[2])

Pulses ==
    /\ "tpclk" \in clk.out => "ReadEnd" \notin Seen
    /\ "tpwp" \in clk.out => "WpOn" \in Seen /\ "WpOff" \notin Seen
    /\ "tpwpiram" \in clk.out => "ReadEnd" \in Seen /\ "WpIramOff" \notin Seen
    /\ "TseOn" \in Seen => "tptse" \in clk.out

Running == Listing /\ Taking /\ Tap /\ Pulses

\* The ring cleared, and the next cycle about to start.
Cleared ==
    /\ clkSeen = <<"reset">> /\ clk.out = {}
    /\ clk.pending = <<At(clk.time, "CycleStart")>>

Counted ==
    /\ clkStarts \in SUBSET Nat /\ IsFiniteSet(clkStarts)
    /\ clk.start \in clkStarts /\ \A t \in clkStarts : t <= clk.start
    /\ clk.start <= clk.time /\ clkPhase = clk.time - clk.start
    /\ microcycles = Cardinality(clkStarts) - 1

ClkTypes == clk \in Generators /\ clkIn \in ClockInputs /\ clkHeld \in Nat

\* The machine as it is switched on, before its first cycle.
Fresh ==
    /\ clk.time = 0 /\ clk.out = {} /\ clk.pending = <<At(clk.time, "CycleStart")>>
    /\ ~clkIn.hang /\ ~clkIn.reset
    /\ clkSeen = <<>> /\ clkStarts = {} /\ clkPhase = 0 /\ microcycles = 0

ClkInv == ClkTypes /\ (Fresh \/ (Counted /\ (Running \/ Cleared)))

-----------------------------------------------------------------------------
(* What a cycle under way says.                                              *)

LEMMA Phases ==
    ASSUME NEW speed \in Speeds, NEW ilong \in BOOLEAN
    PROVE  ReadPhaseNs(speed, ilong) \in Reads
BY DEF Speeds, ReadPhaseNs, Reads

LEMMA FirstDue ==
    ASSUME NEW ev \in First, NEW r, NEW s
    PROVE  Due(ev, r) = Due(ev, s) /\ Due(ev, r) \in 1 .. 20
BY DEF First, Due

LEMMA AnyDue ==
    ASSUME NEW ev \in Events, NEW r \in Nat
    PROVE  Due(ev, r) \in Nat /\ (ev \in First => Due(ev, r) >= 1) /\ (ev \notin First => Due(ev, r) >= r)
BY DEF Events, Transitions, First, Due

\* A transition not taken that is to come is on the list, no sooner than now.
LEMMA Ahead ==
    ASSUME Listing, NEW ev \in Coming \ Seen
    PROVE  clk.time <= clk.start + Due(ev, clk.read) + (IF ev = "CycleStart" THEN clkHeld ELSE 0)
<1>1. PICK x \in Members(clk.pending) : x.ev = ev
  BY DEF Listing, Pends, Members
<1> QED
  BY <1>1 DEF Listing

\* There is always a transition to come, and the soonest is at the head.
LEMMA HeadIs ==
    ASSUME Running, ClkTypes
    PROVE  LET h == clk.pending[1]
           IN  /\ clk.pending # <<>> /\ h \in Entries /\ h \in Members(clk.pending)
               /\ h.ev \in Coming \ Seen
               /\ h.ev # "CycleStart" => h.at = clk.start + Due(h.ev, clk.read)
               /\ h.at = clk.start + Due(h.ev, clk.read) + (IF h.ev = "CycleStart" THEN clkHeld ELSE 0)
               /\ clk.time <= h.at /\ \A x \in Members(clk.pending) : h.at <= x.at
<1>1. Coming \ Seen # {}
  <2>1. Seen \subseteq Transitions /\ "CycleStart" \notin Transitions
    BY DEF Running, Taking, Seen, ToSet, Transitions
  <2>2. CASE Picks
    BY <2>1, <2>2 DEF Coming, Events
  <2>3. CASE ~Picks
    BY <2>3 DEF Coming, First, Running, Taking
  <2> QED
    BY <2>2, <2>3
<1>2. clk.pending # <<>>
  BY <1>1, EmptyList DEF Running, Listing
<1>3. LET h == clk.pending[1]
      IN  h \in Members(clk.pending) /\ h \in Entries /\ \A x \in Members(clk.pending) : h.at <= x.at
  BY <1>2, TailIs DEF Running, Listing
<1>4. clk.pending[1].ev \in Pends(clk.pending)
  BY <1>3 DEF Members, Pends
<1>5. clk.pending[1].ev # "CycleStart" => clk.pending[1].at = clk.start + Due(clk.pending[1].ev, clk.read)
  <2>1. clk.pending[1].ev \in Events /\ clk.start \in Nat /\ clk.read \in Nat
    BY <1>3 DEF ClkTypes, Generators, Entries
  <2>2. Due(clk.pending[1].ev, clk.read) \in Nat
    BY <2>1, AnyDue
  <2>3. clk.pending[1].ev # "CycleStart" => clk.pending[1].at = clk.start + Due(clk.pending[1].ev, clk.read) + 0
    BY <1>3 DEF Running, Listing
  <2> QED
    BY <2>1, <2>2, <2>3
<1> QED
  BY <1>2, <1>3, <1>4, <1>5 DEF Running, Listing

\* A cycle's start at the head: the tap is chosen and all the rest is taken.
LEMMA AllTaken ==
    ASSUME Running, ClkTypes, clk.pending[1].ev = "CycleStart"
    PROVE  Picks /\ Seen = Transitions /\ clk.pending = <<clk.pending[1]>>
<1>1. clk.pending # <<>>
  BY HeadIs
<1>2. Pends(clk.pending) = {"CycleStart"} /\ Tail(clk.pending) = <<>>
  BY <1>1, TailIs DEF Running, Listing
<1>3. Picks
  BY <1>2 DEF Running, Listing, Coming, First
<1>4. Seen \subseteq Transitions
  BY DEF Running, Taking, Seen, ToSet
<1>5. Seen = Transitions
  <2>1. "CycleStart" \notin Transitions
    BY DEF Transitions
  <2>2. Pends(clk.pending) = (Transitions \cup {"CycleStart"}) \ Seen
    BY <1>3 DEF Running, Listing, Coming, Events
  <2> QED
    BY <1>2, <1>4, <2>1, <2>2
<1>6. clk.pending = <<clk.pending[1]>>
  <2>1. clk.pending \in Seq(Entries) /\ Len(clk.pending) # 0
    BY <1>1 DEF Running, Listing, Listed
  <2>2. Len(clk.pending) = 1
    <3>1. Len(Tail(clk.pending)) = Len(clk.pending) - 1
      BY <2>1
    <3>2. Len(Tail(clk.pending)) = Len(<<>>) /\ Len(<<>>) = 0
      BY <1>2
    <3> QED
      BY <2>1, <3>1, <3>2
  <2> QED
    BY <2>1, <2>2
<1> QED
  BY <1>3, <1>5, <1>6

-----------------------------------------------------------------------------
(* What the generator's operations do, field by field.                       *)

Outgoing(ev, o) ==
    CASE ev = "TseOn" -> o \cup {"tptse"}
      [] ev = "TseOff" -> o \ {"tptse"}
      [] ev = "ReadEnd" -> (o \ {"tpclk"}) \cup {"tpwpiram"}
      [] ev = "WpIramOff" -> o \ {"tpwpiram"}
      [] ev = "WpOn" -> o \cup {"tpwp"}
      [] ev = "WpOff" -> o \ {"tpwp"}
      [] OTHER -> o

Moved(c) == [c EXCEPT !.time = c.pending[1].at, !.pending = Tail(@)]

LEMMA MovedIs ==
    ASSUME NEW c \in Generators, c.pending # <<>>
    PROVE  /\ Moved(c) \in Generators /\ Moved(c).time = c.pending[1].at /\ Moved(c).start = c.start
           /\ Moved(c).read = c.read /\ Moved(c).out = c.out /\ Moved(c).pending = Tail(c.pending)
<1>1. c.pending \in Seq(Entries)
  BY DEF Generators
<1>2. c.pending[1] \in Entries /\ Tail(c.pending) \in Seq(Entries)
  BY <1>1
<1>3. c.pending[1].at \in Nat
  BY <1>2 DEF Entries
<1> QED
  BY <1>2, <1>3 DEF Moved, Generators

LEMMA PlainTake ==
    ASSUME NEW c \in Generators, c.pending # <<>>, NEW in, c.pending[1].ev \in Transitions,
           c.pending[1].ev = "Select" => Picked(Moved(c))
    PROVE  LET d == Take(c, in)
           IN  /\ d \in Generators /\ d.time = c.pending[1].at /\ d.start = c.start
               /\ d.read = c.read /\ d.pending = Tail(c.pending)
               /\ d.out = Outgoing(c.pending[1].ev, c.out)
<1> DEFINE t == Moved(c)
           ev == c.pending[1].ev
           o == Outgoing(ev, t.out)
<1>1. /\ t \in Generators /\ t.time = c.pending[1].at /\ t.start = c.start
      /\ t.read = c.read /\ t.out = c.out /\ t.pending = Tail(c.pending)
  BY MovedIs
<1>2. o \in SUBSET Outs
  <2>1. t.out \in SUBSET Outs
    BY <1>1 DEF Generators
  <2> QED
    BY <2>1 DEF Outgoing, Outs
<1>3. t = [t EXCEPT !.out = t.out]
  BY <1>1 DEF Generators
<1>4. Take(c, in) = [t EXCEPT !.out = o]
  <2>1. t = [c EXCEPT !.time = c.pending[1].at, !.pending = Tail(@)]
    BY DEF Moved
  <2> HIDE DEF t
  <2>2. ev = "Select" => Picked(t)
    BY DEF t
  <2>3. ev \in {"TseOff", "TseOn", "TprOn", "Select", "TprOff", "ReadEnd", "WpIramOff", "WpOn", "WpOff"}
    BY DEF Transitions
  <2> QED
    BY <2>1, <2>2, <2>3, <1>3 DEF Take, Outgoing
<1> HIDE DEF t, o
<1>5. /\ [t EXCEPT !.out = o] \in Generators /\ [t EXCEPT !.out = o].time = t.time
      /\ [t EXCEPT !.out = o].start = t.start /\ [t EXCEPT !.out = o].read = t.read
      /\ [t EXCEPT !.out = o].pending = t.pending /\ [t EXCEPT !.out = o].out = o
  BY <1>1, <1>2 DEF Generators
<1> QED
  BY <1>1, <1>4, <1>5 DEF o

\* The tap chosen for a generator whose list holds what a cycle's start scheduled.
LEMMA PickIs ==
    ASSUME NEW c \in Generators, Listed(c.pending), Pends(c.pending) \subseteq First,
           NEW in \in ClockInputs, \A x \in Members(c.pending) : x.at <= c.start + 20
    PROVE  LET d == PickTap(c, in)
               r == ReadPhaseNs(in.speed, in.ilong)
           IN  /\ d \in Generators /\ d.time = c.time /\ d.start = c.start /\ d.out = c.out
               /\ d.read = r /\ r \in Reads /\ <<in.speed, in.ilong>> \in Speeds \X BOOLEAN
               /\ Listed(d.pending) /\ Pends(d.pending) = Pends(c.pending) \cup (Events \ First)
               /\ Members(d.pending) = Members(c.pending)
                                       \cup {At(c.start + Due(ev, r), ev) : ev \in Events \ First}
<1> DEFINE r == ReadPhaseNs(in.speed, in.ilong)
           q == RestOfCycle(c, r, 12).pending
<1>1. in.speed \in Speeds /\ in.ilong \in BOOLEAN
  BY DEF ClockInputs
<1>2. r \in Reads
  BY <1>1, Phases
<1>3. c.start \in Nat
  BY DEF Generators
<1>4. /\ Listed(q) /\ Pends(q) = Pends(c.pending) \cup (Events \ First)
      /\ Members(q) = Members(c.pending) \cup {At(c.start + Due(ev, r), ev) : ev \in Events \ First}
  BY <1>2, <1>3, RestIs
<1> HIDE DEF r
<1>5. PickTap(c, in) = RestOfCycle(c, r, 12)
  BY DEF PickTap, WpOffNs, RestartAfterRead, r
<1>6. \E p : RestOfCycle(c, r, 12) = [c EXCEPT !.read = r, !.pending = p]
  BY DEF RestOfCycle
<1>7. PICK p : RestOfCycle(c, r, 12) = [c EXCEPT !.read = r, !.pending = p]
  BY <1>6
<1>8. [c EXCEPT !.read = r, !.pending = p].pending = p
  BY DEF Generators
<1>9. p = q
  BY <1>7, <1>8
<1> HIDE DEF q
<1>10. q \in Seq(Entries) /\ r \in Nat
  BY <1>2, <1>4 DEF Listed, Reads
<1>11. LET d == [c EXCEPT !.read = r, !.pending = q]
       IN  /\ d \in Generators /\ d.time = c.time /\ d.start = c.start /\ d.out = c.out
           /\ d.read = r /\ d.pending = q
  BY <1>10 DEF Generators
<1>12. PickTap(c, in) = [c EXCEPT !.read = r, !.pending = q]
  BY <1>5, <1>7, <1>9
<1> QED
  BY <1>1, <1>2, <1>4, <1>11, <1>12 DEF r

\* A cycle begun.
LEMMA StartTake ==
    ASSUME NEW c \in Generators, NEW in, c.pending # <<>>, c.pending[1].ev = "CycleStart",
           Tail(c.pending) = <<>>
    PROVE  LET d == Take(c, in)
           IN  /\ d \in Generators /\ d.time = c.pending[1].at /\ d.start = d.time
               /\ d.out = c.out \cup {"tpclk"}
               /\ Listed(d.pending) /\ Pends(d.pending) = First
               /\ Members(d.pending) = {At(d.start + Due(ev, 0), ev) : ev \in First}
<1> DEFINE t == Moved(c)
           u == [t EXCEPT !.out = @ \cup {"tpclk"}]
           q == StartCycle(u).pending
<1>1. /\ t \in Generators /\ t.time = c.pending[1].at /\ t.out = c.out /\ t.pending = <<>>
  BY MovedIs
<1>2. Take(c, in) = StartCycle(u)
  BY DEF Take, Moved
<1>3. u \in Generators /\ u.time = c.pending[1].at /\ u.pending = <<>> /\ u.out = c.out \cup {"tpclk"}
  <2>1. t.out \cup {"tpclk"} \in SUBSET Outs
    BY <1>1 DEF Generators, Outs
  <2> HIDE DEF t
  <2> QED
    BY <1>1, <2>1 DEF Generators
<1> HIDE DEF u
<1>4. u.time \in Nat
  BY <1>3 DEF Generators
<1>5. /\ Listed(q) /\ Pends(q) = First
      /\ Members(q) = {At(u.time + Due(ev, 0), ev) : ev \in First}
  BY <1>3, <1>4, StartedIs
<1>6. \E p : StartCycle(u) = [u EXCEPT !.start = u.time, !.pending = p]
  BY DEF StartCycle
<1>7. PICK p : StartCycle(u) = [u EXCEPT !.start = u.time, !.pending = p]
  BY <1>6
<1>8. [u EXCEPT !.start = u.time, !.pending = p].pending = p
  BY <1>3 DEF Generators
<1>9. p = q
  BY <1>7, <1>8
<1> HIDE DEF q
<1>10. q \in Seq(Entries)
  BY <1>5 DEF Listed
<1>11. LET d == [u EXCEPT !.start = u.time, !.pending = q]
       IN  /\ d \in Generators /\ d.time = u.time /\ d.start = u.time /\ d.out = u.out /\ d.pending = q
  BY <1>3, <1>4, <1>10 DEF Generators
<1>12. Take(c, in) = [u EXCEPT !.start = u.time, !.pending = q]
  BY <1>2, <1>7, <1>9
<1> QED
  BY <1>3, <1>5, <1>11, <1>12

-----------------------------------------------------------------------------
(* The steps.                                                                *)

\* A sequence of transitions with one more.
LEMMA SeenMore ==
    ASSUME NEW s \in Seq(Transitions), NEW ev \in Transitions
    PROVE  /\ Append(s, ev) \in Seq(Transitions) /\ ToSet(Append(s, ev)) = ToSet(s) \cup {ev}
           /\ DOMAIN Append(s, ev) = 1 .. Len(s) + 1 /\ Len(s) \in Nat /\ DOMAIN s = 1 .. Len(s)
           /\ \A i \in 1 .. Len(s) : Append(s, ev)[i] = s[i] /\ s[i] \in ToSet(s) /\ s[i] \in Transitions
           /\ Append(s, ev)[Len(s) + 1] = ev
<1> DEFINE n == Len(s)
           a == Append(s, ev)
<1>1. /\ a \in Seq(Transitions) /\ DOMAIN a = 1 .. n + 1 /\ n \in Nat /\ DOMAIN s = 1 .. n
      /\ (\A i \in 1 .. n : a[i] = s[i] /\ s[i] \in Transitions) /\ a[n + 1] = ev
  OBVIOUS
<1> HIDE DEF n, a
<1>2. \A i \in 1 .. n : s[i] \in ToSet(s)
  BY <1>1 DEF ToSet
<1>3. ToSet(a) = ToSet(s) \cup {ev}
  <2>1. \A i \in 1 .. n + 1 : i \in 1 .. n \/ i = n + 1
    BY <1>1
  <2>2. \A i \in 1 .. n + 1 : a[i] \in ToSet(s) \cup {ev}
    BY <2>1, <1>1, <1>2
  <2>3. \A i \in 1 .. n : i \in 1 .. n + 1 /\ s[i] \in ToSet(a)
    BY <1>1 DEF ToSet
  <2>4. ev \in ToSet(a)
    BY <1>1 DEF ToSet
  <2> QED
    BY <2>2, <2>3, <2>4, <1>1 DEF ToSet
<1> QED
  BY <1>1, <1>2, <1>3 DEF n, a

\* A transition taken comes behind those taken, each of them sooner.
LEMMA TakingOn ==
    ASSUME Running, ClkTypes, NEW ev, ev = clk.pending[1].ev, ev # "CycleStart",
           NEW r, \A e \in Seen \cup {ev} : Due(e, r) = Due(e, clk.read)
    PROVE  LET s == Append(clkSeen, ev)
           IN  /\ s \in Seq(Transitions) /\ ToSet(s) = Seen \cup {ev} /\ ev \in Coming \ Seen
               /\ \A i, j \in DOMAIN s : s[i] = s[j] => i = j
               /\ \A i, j \in DOMAIN s : i < j => Due(s[i], r) <= Due(s[j], r)
               /\ \A e \in ToSet(s) : clk.start + Due(e, r) <= clk.pending[1].at
               /\ clkHeld = 0 /\ clk.pending[1].at = clk.start + Due(ev, clk.read)
<1> DEFINE s == Append(clkSeen, ev)
           n == Len(clkSeen)
           at == clk.pending[1].at
<1>1. /\ ev \in Coming \ Seen /\ at = clk.start + Due(ev, clk.read) /\ clk.time <= at
      /\ clk.pending[1] \in Entries
  BY HeadIs
<1>2. ev \in Transitions
  BY <1>1 DEF Entries, Events
<1>3. /\ s \in Seq(Transitions) /\ ToSet(s) = Seen \cup {ev} /\ DOMAIN s = 1 .. n + 1 /\ n \in Nat
      /\ \A i \in 1 .. n : s[i] = clkSeen[i] /\ s[i] \in Seen /\ s[i] \in Transitions
      /\ s[n + 1] = ev /\ DOMAIN clkSeen = 1 .. n
  BY <1>2, SeenMore DEF Running, Taking, Seen
<1> HIDE DEF s, n, at
<1>4. \A i \in 1 .. n + 1 : i \in 1 .. n \/ i = n + 1
  BY <1>3
<1>5. \A i, j \in DOMAIN s : s[i] = s[j] => i = j
  <2>1. \A i, j \in 1 .. n : s[i] = s[j] => i = j
    BY <1>3 DEF Running, Taking
  <2> QED
    BY <2>1, <1>1, <1>3, <1>4
<1>6. clk.time \in Nat /\ clk.start \in Nat /\ clk.read \in Nat /\ at \in Nat
  BY <1>1 DEF ClkTypes, Generators, Entries, at
<1>7. \A e \in Seen \cup {ev} : Due(e, clk.read) \in Nat
  <2>1. Seen \subseteq Events /\ ev \in Events
    BY <1>2 DEF Running, Taking, Coming, Seen, ToSet, Events
  <2> QED
    BY <2>1, <1>6, AnyDue
<1>8. \A e \in Seen \cup {ev} : clk.start + Due(e, clk.read) <= at
  <2>1. \A e \in Seen : clk.start + Due(e, clk.read) <= clk.time
    BY DEF Running, Taking
  <2>2. \A e \in Seen : clk.start + Due(e, clk.read) <= at
    BY <2>1, <1>1, <1>6, <1>7
  <2> QED
    BY <2>2, <1>1, <1>6, <1>7
<1>9. \A i, j \in DOMAIN s : i < j => Due(s[i], r) <= Due(s[j], r)
  <2> SUFFICES ASSUME NEW i \in DOMAIN s, NEW j \in DOMAIN s, i < j PROVE Due(s[i], r) <= Due(s[j], r)
    OBVIOUS
  <2>1. i \in 1 .. n
    BY <1>3
  <2>2. CASE j \in 1 .. n
    <3>1. Due(s[i], clk.read) <= Due(s[j], clk.read)
      BY <2>1, <2>2, <1>3 DEF Running, Taking
    <3> QED
      BY <3>1, <2>1, <2>2, <1>3
  <2>3. CASE j = n + 1
    <3>1. s[i] \in Seen /\ s[j] = ev
      BY <2>1, <2>3, <1>3
    <3>2. Due(s[i], clk.read) <= Due(ev, clk.read)
      BY <3>1, <1>1, <1>6, <1>7, <1>8
    <3> QED
      BY <3>1, <3>2
  <2> QED
    BY <2>2, <2>3, <1>3, <1>4
<1>10. clkHeld = 0
  <2>1. clkHeld # 0 => Seen = Transitions
    BY DEF Running, Taking
  <2> QED
    BY <2>1, <1>1, <1>2
<1>11. \A e \in ToSet(s) : clk.start + Due(e, r) <= at
  BY <1>3, <1>8
<1> QED
  BY <1>1, <1>3, <1>5, <1>9, <1>10, <1>11 DEF s, at

\* Time gone by in a cycle is counted by none.
LEMMA CountedOn ==
    ASSUME ClkTypes, Counted, NEW c \in Generators, c.start = clk.start, clk.time <= c.time,
           Counted2(c), clk' = c, clkStarts' = clkStarts
    PROVE  Counted'
<1>1. clk.time \in Nat /\ clk.start \in Nat /\ c.time \in Nat
  BY DEF ClkTypes, Generators
<1>2. clk.start <= clk.time /\ clkPhase = clk.time - clk.start
  BY DEF Counted
<1>3. clkPhase' = c.time - c.start /\ ~(c.time - c.start < clkPhase)
  BY <1>1, <1>2 DEF Counted2, PhaseNs
<1>4. microcycles' = microcycles
  BY <1>3 DEF Counted2, PhaseNs
<1>5. clk.start <= c.time
  BY <1>1, <1>2
<1> QED
  BY <1>2, <1>3, <1>4, <1>5 DEF Counted

\* A transition that is not a cycle's start, the tap left as it is.
LEMMA PlainKeeps ==
    ASSUME ClkInv, ClkTick, Running, Counted, clk.pending[1].ev # "CycleStart",
           clk.pending[1].ev = "Select" => Picks
    PROVE  ClkInv'
<1> DEFINE ev == clk.pending[1].ev
           at == clk.pending[1].at
           d == Take(clk, clkIn)
<1>0. ClkTypes /\ clk \in Generators
  BY DEF ClkInv, ClkTypes
<1>1. /\ clk.pending # <<>> /\ ev \in Coming \ Seen /\ clk.time <= at /\ clk.pending[1] \in Entries
      /\ \A x \in Members(clk.pending) : at <= x.at
  BY <1>0, HeadIs
<1>2. ev \in Transitions
  BY <1>1 DEF Entries, Events
<1>3. /\ clk' = d /\ clkSeen' = Append(clkSeen, ev) /\ clkHeld' = clkHeld
      /\ clkStarts' = clkStarts /\ Counted2(d) /\ clkIn' \in ClockInputs
      /\ clkChosen' = IF ev = "Select" /\ ~Picked(clk) THEN {<<clkIn.speed, clkIn.ilong>>} ELSE clkChosen
  BY DEF ClkTick, Settles
<1>4. /\ Listed(Tail(clk.pending)) /\ Pends(Tail(clk.pending)) = Pends(clk.pending) \ {ev}
      /\ Members(Tail(clk.pending)) = {x \in Members(clk.pending) : x.ev # ev}
  BY <1>1, TailIs DEF Running, Listing
<1>5. ev = "Select" => Picked(clk) /\ Picked(Moved(clk))
  <2> SUFFICES ASSUME ev = "Select" PROVE Picked(clk) /\ Picked(Moved(clk))
    OBVIOUS
  <2>1. Picks /\ clk.read \in Reads
    BY DEF Running, Tap
  <2>2. "ReadEnd" \notin Seen
    <3>1. at = clk.start + 13
      <4>1. at = clk.start + Due("Select", clk.read)
        BY <1>0, HeadIs
      <4> QED
        BY <4>1 DEF Due
    <3>2. "ReadEnd" \in Seen => clk.start + clk.read <= clk.time
      BY DEF Running, Taking, Due
    <3>3. clk.start \in Nat /\ clk.time \in Nat
      BY <1>0 DEF Generators
    <3> QED
      BY <3>1, <3>2, <3>3, <2>1, <1>1 DEF Reads
  <2>3. "ReadEnd" \in Pends(clk.pending)
    BY <2>1, <2>2 DEF Running, Listing, Coming, Events, Transitions
  <2>4. "ReadEnd" \in Pends(Tail(clk.pending))
    BY <2>3, <1>4
  <2>5. Moved(clk).pending = Tail(clk.pending)
    BY <1>0, <1>1, MovedIs
  <2> QED
    BY <2>3, <2>4, <2>5 DEF Picked, Pends
<1>6. /\ d \in Generators /\ d.time = at /\ d.start = clk.start /\ d.read = clk.read
      /\ d.pending = Tail(clk.pending) /\ d.out = Outgoing(ev, clk.out)
  BY <1>0, <1>1, <1>2, <1>5, PlainTake
<1> HIDE DEF d
<1>7. clkChosen' = clkChosen
  BY <1>3, <1>5
<1>8. /\ clkSeen' \in Seq(Transitions) /\ ToSet(clkSeen') = Seen \cup {ev}
      /\ \A i, j \in DOMAIN clkSeen' : clkSeen'[i] = clkSeen'[j] => i = j
      /\ \A i, j \in DOMAIN clkSeen' : i < j => Due(clkSeen'[i], clk.read) <= Due(clkSeen'[j], clk.read)
      /\ \A e \in ToSet(clkSeen') : clk.start + Due(e, clk.read) <= at
      /\ clkHeld = 0 /\ at = clk.start + Due(ev, clk.read)
  <2>1. \A e \in Seen \cup {ev} : Due(e, clk.read) = Due(e, clk.read)
    OBVIOUS
  <2> QED
    BY <2>1, <1>0, <1>3, TakingOn
<1> HIDE DEF ev, at
<1>9. Seen' = Seen \cup {ev} /\ Coming' = Coming /\ Picks' = Picks
  BY <1>7, <1>8 DEF Seen, Coming, Picks
<1>10. ClkTypes'
  BY <1>0, <1>3, <1>6 DEF ClkTypes
<1>11. Counted'
  BY <1>0, <1>1, <1>3, <1>6, CountedOn DEF at
<1>12. Listing'
  <2>1. Pends(Tail(clk.pending)) = Coming \ (Seen \cup {ev})
    BY <1>4 DEF Running, Listing
  <2>2. \A x \in Members(Tail(clk.pending)) :
           /\ x.at = clk.start + Due(x.ev, clk.read) + (IF x.ev = "CycleStart" THEN clkHeld ELSE 0)
           /\ at <= x.at
    BY <1>1, <1>4 DEF Running, Listing, at
  <2> QED
    BY <2>1, <2>2, <1>3, <1>4, <1>6, <1>9 DEF Listing
<1>13. Taking'
  <2>1. Seen' \subseteq Coming'
    BY <1>1, <1>9 DEF Running, Taking, ev
  <2>2. ~Picks' => "Select" \notin Seen'
    BY <1>9 DEF Running, Taking, ev
  <2> QED
    BY <2>1, <2>2, <1>3, <1>6, <1>8, <1>9 DEF Taking, Seen
<1>14. Tap'
  BY <1>6, <1>7, <1>3, <1>9 DEF Running, Tap
<1>15. Pulses'
  <2>0. clk.start \in Nat /\ clk.time \in Nat /\ clk.read \in Nat /\ at \in Nat
    BY <1>0, <1>1 DEF Generators, Entries, at
  <2>1. ev = "TseOff" => "TseOn" \notin Seen
    BY <2>0, <1>8 DEF Due, Seen
  <2>2. ev = "WpOn" => "WpOff" \notin Seen
    BY <2>0, <1>8 DEF Due, Seen
  <2>3. ev = "ReadEnd" => "WpIramOff" \notin Seen
    BY <2>0, <1>8 DEF Due, Seen
  <2>4. clk'.out = Outgoing(ev, clk.out)
    BY <1>3, <1>6
  <2> QED
    BY <2>1, <2>2, <2>3, <2>4, <1>9 DEF Running, Pulses, Outgoing
<1> QED
  BY <1>10, <1>11, <1>12, <1>13, <1>14, <1>15 DEF ClkInv, Running

\* The list of a cycle whose tap is not chosen yet: none of it is further off
\* than the last of what its start scheduled, and none is of the rest.
LEMMA Unchosen ==
    ASSUME Running, ClkTypes, ~Picks
    PROVE  /\ Pends(clk.pending) \subseteq First /\ Seen \subseteq First /\ ~Picked(clk) /\ clkHeld = 0
           /\ \A x \in Members(clk.pending) :
                 x.ev \in First /\ x.at \in Nat /\ x.at = clk.start + Due(x.ev, 0) /\ x.at <= clk.start + 20
<1>1. Pends(clk.pending) \subseteq First /\ Seen \subseteq First
  BY DEF Running, Listing, Taking, Coming
<1>2. \A x \in Members(clk.pending) : x.ev \in First /\ x.at \in Nat
  <2>1. \A x \in Members(clk.pending) : x.ev \in Pends(clk.pending)
    BY DEF Members, Pends
  <2>2. \A x \in Members(clk.pending) : x.at \in Nat
    BY ListIs DEF Running, Listing, Members
  <2> QED
    BY <1>1, <2>1, <2>2
<1>3. ~Picked(clk)
  <2>1. "ReadEnd" \notin Pends(clk.pending)
    BY <1>1 DEF First
  <2> QED
    BY <2>1 DEF Picked, Pends
<1>4. clkHeld = 0
  BY DEF Running, Taking
<1>5. \A x \in Members(clk.pending) : x.at = clk.start + Due(x.ev, 0) /\ x.at <= clk.start + 20
  <2> SUFFICES ASSUME NEW x \in Members(clk.pending)
               PROVE  x.at = clk.start + Due(x.ev, 0) /\ x.at <= clk.start + 20
    OBVIOUS
  <2>1. clk.start \in Nat
    BY DEF ClkTypes, Generators
  <2>2. Due(x.ev, clk.read) = Due(x.ev, 0) /\ Due(x.ev, 0) \in 1 .. 20
    BY <1>2, FirstDue
  <2>3. x.at = clk.start + Due(x.ev, clk.read) + 0
    BY <1>2 DEF Running, Listing, First
  <2> QED
    BY <2>1, <2>2, <2>3
<1> QED
  BY <1>1, <1>2, <1>3, <1>4, <1>5

\* The tap chosen as SELECT is taken.
LEMMA ChosenKeeps ==
    ASSUME ClkInv, ClkTick, Running, Counted, clk.pending[1].ev = "Select", ~Picks
    PROVE  ClkInv'
<1> DEFINE t == Moved(clk)
           at == clk.pending[1].at
           r == ReadPhaseNs(clkIn.speed, clkIn.ilong)
           d == Take(clk, clkIn)
<1>0. ClkTypes /\ clk \in Generators /\ clkIn \in ClockInputs
  BY DEF ClkInv, ClkTypes
<1>1. /\ clk.pending # <<>> /\ "Select" \in Coming \ Seen /\ clk.time <= at /\ clk.pending[1] \in Entries
      /\ \A x \in Members(clk.pending) : at <= x.at
      /\ at = clk.start + 13
  <2>1. at = clk.start + Due("Select", clk.read)
    BY <1>0, HeadIs
  <2>2. Due("Select", clk.read) = 13
    BY DEF Due
  <2> QED
    BY <1>0, HeadIs, <2>1, <2>2
<1>2. /\ Pends(clk.pending) \subseteq First /\ Seen \subseteq First /\ ~Picked(clk) /\ clkHeld = 0
      /\ \A x \in Members(clk.pending) :
            x.ev \in First /\ x.at \in Nat /\ x.at = clk.start + Due(x.ev, 0) /\ x.at <= clk.start + 20
  BY <1>0, Unchosen
<1>3. /\ Listed(Tail(clk.pending)) /\ Pends(Tail(clk.pending)) = Pends(clk.pending) \ {"Select"}
      /\ Members(Tail(clk.pending)) = {x \in Members(clk.pending) : x.ev # "Select"}
  BY <1>1, TailIs DEF Running, Listing
<1>4. /\ t \in Generators /\ t.time = at /\ t.start = clk.start /\ t.out = clk.out
      /\ t.pending = Tail(clk.pending)
  BY <1>0, <1>1, MovedIs
<1>5. d = PickTap(t, clkIn)
  <2>1. "ReadEnd" \notin Pends(t.pending)
    BY <1>2, <1>3, <1>4 DEF First
  <2>2. ~Picked(t)
    BY <2>1 DEF Picked, Pends
  <2>3. t = [clk EXCEPT !.time = clk.pending[1].at, !.pending = Tail(@)]
    BY DEF Moved
  <2> HIDE DEF t
  <2> QED
    BY <2>2, <2>3 DEF Take
<1> HIDE DEF t
<1>6. /\ d \in Generators /\ d.time = at /\ d.start = clk.start /\ d.out = clk.out
      /\ d.read = r /\ r \in Reads /\ <<clkIn.speed, clkIn.ilong>> \in Speeds \X BOOLEAN
      /\ Listed(d.pending) /\ Pends(d.pending) = Pends(Tail(clk.pending)) \cup (Events \ First)
      /\ Members(d.pending) = Members(Tail(clk.pending))
                              \cup {At(clk.start + Due(ev, r), ev) : ev \in Events \ First}
  <2>1. Pends(t.pending) \subseteq First /\ Listed(t.pending) /\ \A x \in Members(t.pending) : x.at <= t.start + 20
    BY <1>2, <1>3, <1>4
  <2> QED
    BY <2>1, <1>0, <1>4, <1>5, PickIs
<1>7. /\ clk' = d /\ clkSeen' = Append(clkSeen, "Select") /\ clkHeld' = 0
      /\ clkStarts' = clkStarts /\ Counted2(d) /\ clkIn' \in ClockInputs
      /\ clkChosen' = {<<clkIn.speed, clkIn.ilong>>}
  BY <1>2 DEF ClkTick, Settles
<1> HIDE DEF d, at
<1>8. /\ clkSeen' \in Seq(Transitions) /\ ToSet(clkSeen') = Seen \cup {"Select"}
      /\ \A i, j \in DOMAIN clkSeen' : clkSeen'[i] = clkSeen'[j] => i = j
      /\ \A i, j \in DOMAIN clkSeen' : i < j => Due(clkSeen'[i], r) <= Due(clkSeen'[j], r)
      /\ \A e \in ToSet(clkSeen') : clk.start + Due(e, r) <= at
  <2>1. \A e \in Seen \cup {"Select"} : Due(e, r) = Due(e, clk.read)
    BY <1>2, FirstDue DEF First
  <2> HIDE DEF r
  <2> QED
    BY <2>1, <1>0, <1>7, TakingOn DEF at
<1> HIDE DEF r
<1>9. Seen' = Seen \cup {"Select"} /\ Coming' = Events /\ Picks'
  BY <1>7, <1>8 DEF Seen, Coming, Picks
<1>10. ClkTypes'
  BY <1>6, <1>7 DEF ClkTypes
<1>11. Counted'
  BY <1>0, <1>1, <1>6, <1>7, CountedOn
<1>12. Listing'
  <2>1. Pends(d.pending) = Events \ (Seen \cup {"Select"})
    <3>1. Pends(clk.pending) = First \ Seen /\ First \subseteq Events /\ "Select" \in First
      BY DEF Running, Listing, Coming, First, Events, Transitions
    <3> QED
      BY <3>1, <1>2, <1>3, <1>6
  <2>0. clk.start \in Nat /\ r \in Nat
    BY <1>0, <1>6 DEF Generators, Reads
  <2>2. \A x \in Members(d.pending) :
           /\ x.at = clk.start + Due(x.ev, r) + (IF x.ev = "CycleStart" THEN 0 ELSE 0)
           /\ at <= x.at
    <3> SUFFICES ASSUME NEW x \in Members(d.pending)
                 PROVE  x.at = clk.start + Due(x.ev, r) + 0 /\ at <= x.at
      OBVIOUS
    <3>1. CASE x \in Members(clk.pending)
      <4>1. x.at = clk.start + Due(x.ev, 0) /\ at <= x.at /\ x.ev \in First /\ x.at \in Nat
        BY <3>1, <1>1, <1>2
      <4>2. Due(x.ev, 0) = Due(x.ev, r) /\ Due(x.ev, r) \in 1 .. 20
        BY <4>1, FirstDue
      <4> QED
        BY <4>1, <4>2, <2>0
    <3>2. CASE \E ev \in Events \ First : x = At(clk.start + Due(ev, r), ev)
      <4>1. PICK ev \in Events \ First : x = At(clk.start + Due(ev, r), ev)
        BY <3>2
      <4>2. x.at = clk.start + Due(ev, r) /\ x.ev = ev
        BY <4>1 DEF At
      <4>3. Due(ev, r) \in Nat /\ Due(ev, r) >= r /\ r >= 15
        BY <2>0, <1>6, AnyDue DEF Reads
      <4> QED
        BY <4>2, <4>3, <2>0, <1>1
    <3> QED
      BY <3>1, <3>2, <1>3, <1>6
  <2> QED
    BY <2>1, <2>2, <1>6, <1>7, <1>9 DEF Listing
<1>13. Taking'
  <2>1. Seen' \subseteq Coming'
    BY <1>2, <1>9 DEF First, Events, Transitions
  <2> QED
    BY <2>1, <1>6, <1>7, <1>8, <1>9 DEF Taking, Seen
<1>14. Tap'
  BY <1>6, <1>7 DEF Tap, Picks, r
<1>15. Pulses'
  BY <1>6, <1>7, <1>9 DEF Running, Pulses
<1> QED
  BY <1>10, <1>11, <1>12, <1>13, <1>14, <1>15 DEF ClkInv, Running

\* The tap chosen as a clock of an old file resumes.
LEMMA OldFileKeeps ==
    ASSUME ClkInv, ClkOldFile
    PROVE  ClkInv'
<1> DEFINE r == ReadPhaseNs(clkIn.speed, clkIn.ilong)
           d == PickTap(clk, clkIn)
<1>0. ClkTypes /\ clk \in Generators /\ clkIn \in ClockInputs
  BY DEF ClkInv, ClkTypes
<1>1. Running /\ Counted
  <2>1. ~Fresh
    BY DEF ClkOldFile, Fresh, At
  <2>2. ~Cleared
    BY DEF ClkOldFile, Cleared
  <2> QED
    BY <2>1, <2>2 DEF ClkInv
<1>2. Seen = {} /\ clkSeen = <<>>
  BY DEF ClkOldFile, Seen, ToSet
<1>3. ~Picks
  <2>1. "ReadEnd" \notin Pends(clk.pending)
    BY DEF ClkOldFile, Picked, Pends
  <2> QED
    BY <2>1, <1>1, <1>2 DEF Running, Listing, Coming, Events, Transitions
<1>4. /\ Pends(clk.pending) = First /\ ~Picked(clk) /\ clkHeld = 0
      /\ \A x \in Members(clk.pending) :
            x.ev \in First /\ x.at \in Nat /\ x.at = clk.start + Due(x.ev, 0) /\ x.at <= clk.start + 20
  BY <1>0, <1>1, <1>2, <1>3, Unchosen DEF Running, Listing, Coming
<1>5. /\ clk.time <= clk.start + 1 /\ clk.time \in Nat /\ clk.start \in Nat
  <2>1. "TseOff" \in Coming \ Seen
    BY <1>2, <1>3 DEF Coming, First
  <2>2. clk.time <= clk.start + Due("TseOff", clk.read) + 0
    BY <2>1, <1>1, Ahead DEF Running
  <2>3. Due("TseOff", clk.read) = 1
    BY DEF Due
  <2> QED
    BY <2>2, <2>3, <1>0 DEF Generators
<1>6. /\ d \in Generators /\ d.time = clk.time /\ d.start = clk.start /\ d.out = clk.out
      /\ d.read = r /\ r \in Reads /\ <<clkIn.speed, clkIn.ilong>> \in Speeds \X BOOLEAN
      /\ Listed(d.pending) /\ Pends(d.pending) = Pends(clk.pending) \cup (Events \ First)
      /\ Members(d.pending) = Members(clk.pending)
                              \cup {At(clk.start + Due(ev, r), ev) : ev \in Events \ First}
  BY <1>0, <1>1, <1>4, PickIs DEF Running, Listing
<1>7. /\ clk' = d /\ clkSeen' = <<>> /\ clkHeld' = 0 /\ clkIn' = clkIn
      /\ clkStarts' = clkStarts /\ clkPhase' = clkPhase /\ microcycles' = microcycles
      /\ clkChosen' = {<<clkIn.speed, clkIn.ilong>>}
  BY <1>2, <1>4 DEF ClkOldFile
<1> HIDE DEF d, r
<1>9. Seen' = {} /\ Coming' = Events /\ Picks'
  BY <1>7 DEF Seen, ToSet, Coming, Picks
<1>10. ClkTypes'
  BY <1>0, <1>6, <1>7 DEF ClkTypes
<1>11. Counted'
  BY <1>1, <1>6, <1>7 DEF Counted
<1>12. Listing'
  <2>1. Pends(d.pending) = Events
    BY <1>4, <1>6 DEF First, Events, Transitions
  <2>0. r \in Nat
    BY <1>6 DEF Reads
  <2>2. \A x \in Members(d.pending) :
           /\ x.at = clk.start + Due(x.ev, r) + (IF x.ev = "CycleStart" THEN 0 ELSE 0)
           /\ clk.time <= x.at
    <3> SUFFICES ASSUME NEW x \in Members(d.pending)
                 PROVE  x.at = clk.start + Due(x.ev, r) + 0 /\ clk.time <= x.at
      OBVIOUS
    <3>1. CASE x \in Members(clk.pending)
      <4>1. x.at = clk.start + Due(x.ev, 0) /\ clk.time <= x.at /\ x.ev \in First
        BY <3>1, <1>1, <1>4 DEF Running, Listing
      <4>2. Due(x.ev, 0) = Due(x.ev, r) /\ Due(x.ev, r) \in 1 .. 20
        BY <4>1, FirstDue
      <4> QED
        BY <4>1, <4>2, <1>5
    <3>2. CASE \E ev \in Events \ First : x = At(clk.start + Due(ev, r), ev)
      <4>1. PICK ev \in Events \ First : x = At(clk.start + Due(ev, r), ev)
        BY <3>2
      <4>2. x.at = clk.start + Due(ev, r) /\ x.ev = ev
        BY <4>1 DEF At
      <4>3. Due(ev, r) \in Nat /\ Due(ev, r) >= r /\ r >= 15
        BY <2>0, <1>6, AnyDue DEF Reads
      <4> QED
        BY <4>2, <4>3, <2>0, <1>5
    <3> QED
      BY <3>1, <3>2, <1>6
  <2> QED
    BY <2>1, <2>2, <1>6, <1>7, <1>9 DEF Listing
<1>13. Taking'
  <2>1. <<>> \in Seq(Transitions) /\ DOMAIN <<>> = {}
    OBVIOUS
  <2> QED
    BY <2>1, <1>7, <1>9 DEF Taking
<1>14. Tap'
  BY <1>6, <1>7 DEF Tap, Picks, r
<1>15. Pulses'
  BY <1>1, <1>2, <1>6, <1>7, <1>9 DEF Running, Pulses
<1> QED
  BY <1>10, <1>11, <1>12, <1>13, <1>14, <1>15 DEF ClkInv, Running

\* A list of nothing but a cycle's start.
LEMMA OneIs ==
    ASSUME NEW at \in Nat, NEW p, p = <<At(at, "CycleStart")>>
    PROVE  /\ Listed(p) /\ p # <<>> /\ p[1] = At(at, "CycleStart") /\ p[1].at = at
           /\ p[1].ev = "CycleStart" /\ DOMAIN p = {1} /\ Tail(p) = <<>>
           /\ Members(p) = {At(at, "CycleStart")} /\ Pends(p) = {"CycleStart"}
<1> DEFINE e == At(at, "CycleStart")
<1>1. e \in Entries /\ e.at = at /\ e.ev = "CycleStart"
  BY DEF At, Entries, Events
<1> HIDE DEF e
<1>0. p = <<e>>
  BY DEF e
<1>2. p \in Seq(Entries) /\ Len(p) = 1 /\ DOMAIN p = {1} /\ p[1] = e /\ p # <<>> /\ Tail(p) = <<>>
  BY <1>0, <1>1
<1>3. Listed(p)
  BY <1>1, <1>2 DEF Listed
<1>4. Members(p) = {e} /\ Pends(p) = {"CycleStart"}
  BY <1>1, <1>2 DEF Members, Pends
<1> QED
  BY <1>1, <1>2, <1>3, <1>4 DEF e

\* A cycle begins.
LEMMA StartKeeps ==
    ASSUME ClkInv, ClkTick, clk.pending[1].ev = "CycleStart"
    PROVE  ClkInv'
<1> DEFINE at == clk.pending[1].at
           d == Take(clk, clkIn)
<1>0. ClkTypes /\ clk \in Generators /\ clkIn \in ClockInputs /\ clk.time \in Nat /\ clk.start \in Nat
  BY DEF ClkInv, ClkTypes, Generators
<1>1. /\ clk.pending # <<>> /\ Tail(clk.pending) = <<>> /\ at \in Nat /\ clk.time <= at
      /\ clk.out \cap {"tpwp", "tpwpiram"} = {}
  <2>1. CASE Fresh
    <3>1. clk.pending # <<>> /\ Tail(clk.pending) = <<>> /\ at = clk.time
      <4>1. clk.pending = <<At(clk.time, "CycleStart")>> /\ clk.time \in Nat
        BY <2>1, <1>0 DEF Fresh
      <4> QED
        BY <4>1, OneIs
    <3> QED
      BY <2>1, <3>1, <1>0 DEF Fresh
  <2>2. CASE Cleared
    <3>1. clk.pending # <<>> /\ Tail(clk.pending) = <<>> /\ at = clk.time
      BY <2>2, <1>0, OneIs DEF Cleared, Events
    <3> QED
      BY <2>2, <3>1, <1>0 DEF Cleared
  <2>3. CASE Running
    <3>1. clk.pending # <<>> /\ clk.time <= at /\ clk.pending[1] \in Entries
      BY <2>3, <1>0, HeadIs
    <3>2. Tail(clk.pending) = <<>>
      BY <2>3, <3>1, TailIs DEF Running, Listing
    <3>3. Seen = Transitions
      BY <2>3, <1>0, AllTaken
    <3>4. clk.out \cap {"tpwp", "tpwpiram"} = {}
      BY <2>3, <3>3 DEF Running, Pulses, Transitions
    <3> QED
      BY <3>1, <3>2, <3>4 DEF Entries
  <2> QED
    BY <2>1, <2>2, <2>3 DEF ClkInv
<1>2. /\ d \in Generators /\ d.time = at /\ d.start = at /\ d.out = clk.out \cup {"tpclk"}
      /\ Listed(d.pending) /\ Pends(d.pending) = First
      /\ Members(d.pending) = {At(at + Due(ev, 0), ev) : ev \in First}
  BY <1>0, <1>1, StartTake
<1>3. /\ clk' = d /\ clkSeen' = <<>> /\ clkHeld' = 0 /\ clkChosen' = {}
      /\ clkStarts' = clkStarts \cup {at} /\ Counted2(d) /\ clkIn' \in ClockInputs
  <2>1. clk' = d /\ clkSeen' = <<>> /\ clkHeld' = 0 /\ clkChosen' = {}
        /\ clkStarts' = clkStarts \cup {d.time} /\ Counted2(d) /\ clkIn' \in ClockInputs
    BY DEF ClkTick, Settles
  <2> QED
    BY <2>1, <1>2
<1> HIDE DEF d, at
<1>4. Seen' = {} /\ Coming' = First /\ ~Picks'
  BY <1>3 DEF Seen, ToSet, Coming, Picks
<1>5. ClkTypes'
  BY <1>2, <1>3 DEF ClkTypes
<1>6. Counted'
  <2>1. clkStarts' = clkStarts \cup {at} /\ clkPhase' = 0 /\ d.time = at /\ d.start = at
        /\ microcycles' = IF 0 < clkPhase THEN microcycles + 1 ELSE microcycles
    BY <1>1, <1>2, <1>3 DEF Counted2, PhaseNs
  <2>2. CASE Fresh
    <3>1. clkStarts' = {at} /\ microcycles' = 0
      BY <2>1, <2>2 DEF Fresh
    <3>2. IsFiniteSet({at}) /\ Cardinality({at}) = 1
      BY FS_Singleton
    <3> QED
      BY <3>1, <3>2, <2>1, <1>1, <1>2, <1>3 DEF Counted
  <2>3. CASE Counted /\ (Running \/ Cleared)
    <3>1. /\ clkStarts \in SUBSET Nat /\ IsFiniteSet(clkStarts) /\ clk.start \in clkStarts
          /\ (\A t \in clkStarts : t <= clk.start) /\ clk.start <= clk.time
          /\ clkPhase = clk.time - clk.start /\ microcycles = Cardinality(clkStarts) - 1
      BY <2>3 DEF Counted
    <3>2. at > clk.start => clk.time > clk.start
      <4>1. CASE Running
        <5>1. "TseOff" \in Seen
          BY <4>1, <1>0, AllTaken DEF Transitions
        <5>2. clk.start + 1 <= clk.time
          BY <4>1, <5>1 DEF Running, Taking, Due
        <5> QED
          BY <5>2, <1>0
      <4>2. CASE Cleared
        <5>1. at = clk.time
          BY <4>2, <1>0, OneIs DEF Cleared, Events, at
        <5> QED
          BY <5>1
      <4> QED
        BY <2>3, <4>1, <4>2
    <3>3. at \in clkStarts <=> at = clk.start
      BY <3>1, <1>0, <1>1
    <3>4. 0 < clkPhase <=> at # clk.start
      BY <3>1, <3>2, <1>0, <1>1
    <3>5. IsFiniteSet(clkStarts \cup {at})
          /\ Cardinality(clkStarts \cup {at}) = IF at \in clkStarts THEN Cardinality(clkStarts) ELSE Cardinality(clkStarts) + 1
      BY <3>1, FS_AddElement
    <3>6. microcycles' = Cardinality(clkStarts') - 1
      <4>1. Cardinality(clkStarts) \in Nat
        BY <3>1, FS_CardinalityType
      <4> QED
        BY <4>1, <2>1, <3>1, <3>3, <3>4, <3>5
    <3>7. \A t \in clkStarts' : t <= at
      <4>1. \A t \in clkStarts : t \in Nat /\ t <= clk.start /\ clk.start <= clk.time
        BY <3>1
      <4>2. \A t \in clkStarts : t <= at
        BY <4>1, <1>0, <1>1
      <4>3. at <= at
        BY <1>1
      <4> QED
        BY <2>1, <4>2, <4>3
    <3>8. clkStarts' \in SUBSET Nat /\ IsFiniteSet(clkStarts') /\ at \in clkStarts'
      BY <2>1, <3>1, <3>5, <1>1
    <3>9. clk'.start = at /\ clk'.time = at /\ at <= at /\ at - at = 0
      BY <2>1, <1>1, <1>3
    <3> QED
      BY <2>1, <3>6, <3>7, <3>8, <3>9 DEF Counted
  <2> QED
    BY <2>2, <2>3 DEF ClkInv
<1>7. Listing'
  <2>1. \A x \in Members(d.pending) : x.at = at + Due(x.ev, d.read) + (IF x.ev = "CycleStart" THEN 0 ELSE 0)
                                      /\ at <= x.at
    <3> SUFFICES ASSUME NEW x \in Members(d.pending)
                 PROVE  x.at = at + Due(x.ev, d.read) + 0 /\ at <= x.at
      OBVIOUS
    <3>1. PICK ev \in First : x = At(at + Due(ev, 0), ev)
      BY <1>2
    <3>2. x.at = at + Due(ev, 0) /\ x.ev = ev
      BY <3>1 DEF At
    <3>3. Due(ev, 0) = Due(ev, d.read) /\ Due(ev, 0) \in 1 .. 20
      BY <3>1, FirstDue
    <3> QED
      BY <3>2, <3>3, <1>1
  <2> QED
    BY <2>1, <1>2, <1>3, <1>4 DEF Listing
<1>8. Taking'
  <2>1. <<>> \in Seq(Transitions) /\ DOMAIN <<>> = {}
    OBVIOUS
  <2> QED
    BY <2>1, <1>3, <1>4 DEF Taking
<1>9. Tap'
  BY <1>3, <1>4 DEF Tap, Picks
<1>10. Pulses'
  BY <1>1, <1>2, <1>3, <1>4 DEF Pulses
<1> QED
  BY <1>5, <1>6, <1>7, <1>8, <1>9, <1>10 DEF ClkInv, Running

\* Time passes, and with it a held generator's next start; RESET clears the ring.
LEMMA PassedKeeps ==
    ASSUME ClkInv, ClkPassed
    PROVE  ClkInv'
<1> DEFINE c == IF clkIn.reset THEN Cleared2(clk) ELSE clk
           held == NextAt(c, clkIn) = {}
<1>0. ClkTypes /\ clk \in Generators /\ clkIn \in ClockInputs /\ clk.time \in Nat /\ clk.start \in Nat
      /\ clkHeld \in Nat
  BY DEF ClkInv, ClkTypes, Generators
<1>1. PICK e \in c.time .. (IF held THEN c.time + ClkHold ELSE c.pending[1].at) :
           /\ ~held => e < c.pending[1].at
           /\ clk' = PassTo(c, e, held)
           /\ clkSeen' = IF clkIn.reset THEN <<"reset">> ELSE clkSeen
           /\ clkHeld' = IF held THEN clkHeld + (e - c.time) ELSE clkHeld
           /\ Counted2(PassTo(c, e, held)) /\ Settles("none")
  BY DEF ClkPassed
<1>2. clkChosen' = clkChosen /\ clkStarts' = clkStarts /\ clkIn' \in ClockInputs
  BY <1>1 DEF ClkPassed, Settles
<1> DEFINE d == PassTo(c, e, held)
<1>3. c \in Generators /\ c.time = clk.time /\ c.start = clk.start /\ c.read = clk.read
  <2>1. CASE clkIn.reset
    <3>1. c = [clk EXCEPT !.out = {}, !.pending = <<At(clk.time, "CycleStart")>>]
      BY <2>1 DEF Cleared2, At
    <3>2. <<At(clk.time, "CycleStart")>> \in Seq(Entries)
      <4>1. Listed(<<At(clk.time, "CycleStart")>>)
        BY <1>0, OneIs
      <4> QED
        BY <4>1 DEF Listed
    <3> HIDE DEF c
    <3> QED
      BY <1>0, <3>1, <3>2 DEF Generators
  <2>2. CASE ~clkIn.reset
    BY <2>2, <1>0
  <2> QED
    BY <2>1, <2>2
<1>4. clkIn.reset => c.out = {} /\ c.pending = <<At(clk.time, "CycleStart")>> /\ held
  <2> SUFFICES ASSUME clkIn.reset PROVE c.out = {} /\ c.pending = <<At(clk.time, "CycleStart")>> /\ held
    OBVIOUS
  <2>1. c = [clk EXCEPT !.out = {}, !.pending = <<At(clk.time, "CycleStart")>>]
    BY DEF Cleared2, At
  <2>2. held
    BY DEF NextAt
  <2> HIDE DEF c, held
  <2> QED
    BY <2>1, <2>2, <1>0 DEF Generators
<1>5. ~clkIn.reset => c = clk
  OBVIOUS
<1>6. held /\ ~clkIn.reset => clk.pending = <<>> \/ clk.pending[1].ev = "CycleStart"
  BY DEF NextAt, Waits
<1> HIDE DEF c
<1>7. e \in Nat /\ clk.time <= e
  <2>1. c.pending # <<>> => c.pending[1].at \in Nat
    <3>1. c.pending \in Seq(Entries)
      BY <1>3 DEF Generators
    <3>2. c.pending # <<>> => c.pending[1] \in Entries
      BY <3>1
    <3> QED
      BY <3>2 DEF Entries
  <2>2. e \in Int /\ c.time <= e
    <3>1. c.pending = <<>> => held
      BY DEF NextAt
    <3>2. CASE held
      BY <3>2, <1>1, <1>3, <1>0, ClkAssumption
    <3>3. CASE ~held
      BY <3>1, <3>3, <2>1, <1>1, <1>3, <1>0
    <3> QED
      BY <3>2, <3>3
  <2> QED
    BY <2>2, <1>3, <1>0
<1> HIDE DEF held
\* A list of one start moved by as much as time.
<1>8. ASSUME NEW at \in Nat, c.pending = <<At(at, "CycleStart")>>, held
      PROVE  /\ d \in Generators /\ d.time = e /\ d.start = clk.start /\ d.read = clk.read
             /\ d.out = c.out /\ d.pending = <<At(at + (e - clk.time), "CycleStart")>>
  <2> DEFINE q == Later(c.pending, e - c.time)
  <2>1. q = <<At(at + (e - clk.time), "CycleStart")>>
    <3>1. DOMAIN c.pending = {1} /\ c.pending[1] = At(at, "CycleStart")
      BY <1>8, OneIs
    <3>2. q = [k \in {1} |-> [At(at, "CycleStart") EXCEPT !.at = @ + (e - clk.time)]]
      BY <3>1, <1>3 DEF Later
    <3>3. [At(at, "CycleStart") EXCEPT !.at = @ + (e - clk.time)] = At(at + (e - clk.time), "CycleStart")
      BY DEF At
    <3>4. q = [k \in {1} |-> At(at + (e - clk.time), "CycleStart")]
      BY <3>2, <3>3
    <3> HIDE DEF q
    <3> QED
      BY <3>4
  <2>2. q \in Seq(Entries)
    <3>1. at + (e - clk.time) \in Nat
      BY <1>0, <1>7
    <3>2. Listed(<<At(at + (e - clk.time), "CycleStart")>>)
      BY <3>1, OneIs
    <3> QED
      BY <2>1, <3>2 DEF Listed
  <2>3. d = [c EXCEPT !.time = e, !.pending = q]
    BY <1>8 DEF PassTo
  <2> HIDE DEF q, d
  <2> QED
    BY <2>1, <2>2, <2>3, <1>3, <1>7 DEF Generators
<1>9. ~held => /\ d \in Generators /\ d.time = e /\ d.start = clk.start /\ d.read = clk.read
               /\ d.out = c.out /\ d.pending = c.pending
  BY <1>3, <1>7 DEF PassTo, Generators
<1>10. clk' = d /\ Counted2(d)
  BY <1>1
<1> HIDE DEF d
<1>11. ASSUME d \in Generators, d.start = clk.start, d.time = e PROVE ClkTypes' /\ (Counted => Counted')
  <2>1. clkHeld' \in Nat
    BY <1>1, <1>0, <1>3, <1>7
  <2>2. ClkTypes'
    BY <2>1, <1>2, <1>10, <1>11 DEF ClkTypes
  <2>3. Counted => Counted'
    BY <1>0, <1>2, <1>7, <1>10, <1>11, CountedOn
  <2> QED
    BY <2>2, <2>3
<1>12. CASE clkIn.reset
  <2>1. Counted
    BY <1>12 DEF ClkInv, Fresh
  <2>2. /\ d \in Generators /\ d.time = e /\ d.start = clk.start /\ d.out = {}
        /\ d.pending = <<At(clk.time + (e - clk.time), "CycleStart")>>
    BY <1>12, <1>0, <1>4, <1>8
  <2>3. clk.time + (e - clk.time) = e
    BY <1>0, <1>7
  <2>4. Cleared'
    BY <1>12, <1>1, <1>10, <2>2, <2>3 DEF Cleared
  <2> QED
    BY <2>1, <2>2, <2>4, <1>11 DEF ClkInv
<1>13. CASE ~clkIn.reset /\ (Fresh \/ Cleared)
  <2>1. clk.pending = <<At(clk.time, "CycleStart")>> /\ c = clk
    BY <1>5, <1>13 DEF Fresh, Cleared
  <2>2. held
    <3>1. clk.pending[1].at = clk.time
      <4>1. clk.pending = <<At(clk.time, "CycleStart")>> /\ clk.time \in Nat
        BY <2>1, <1>0
      <4> QED
        BY <4>1, OneIs
    <3>2. ~held => e < clk.time
      BY <3>1, <2>1, <1>1
    <3> QED
      BY <3>2, <1>0, <1>7
  <2>3. ~Fresh
    <3>1. Fresh => NextAt(clk, clkIn) # {}
      <4>1. clk.pending # <<>>
        BY <2>1
      <4> QED
        BY <4>1 DEF Fresh, NextAt, Waits
    <3> QED
      BY <3>1, <2>1, <2>2 DEF held
  <2>4. Cleared /\ Counted
    BY <2>3, <1>13 DEF ClkInv
  <2>5. /\ d \in Generators /\ d.time = e /\ d.start = clk.start /\ d.out = {}
        /\ d.pending = <<At(clk.time + (e - clk.time), "CycleStart")>>
    BY <2>1, <2>2, <2>4, <1>0, <1>8 DEF Cleared
  <2>6. clk.time + (e - clk.time) = e
    BY <1>0, <1>7
  <2>7. Cleared'
    BY <1>13, <2>4, <2>5, <2>6, <1>1, <1>10 DEF Cleared
  <2> QED
    BY <2>4, <2>5, <2>7, <1>11 DEF ClkInv
<1>14. CASE ~clkIn.reset /\ Running /\ Counted
  <2>0. c = clk /\ clkSeen' = clkSeen /\ Seen' = Seen /\ Coming' = Coming /\ Picks' = Picks
    BY <1>14, <1>1, <1>2, <1>5 DEF Seen, Coming, Picks
  <2>1. CASE held
    <3> DEFINE at == clk.pending[1].at
               more == e - clk.time
    <3>1. clk.pending # <<>> /\ clk.pending[1] \in Entries
      BY <1>0, <1>14, HeadIs
    <3>2. clk.pending[1].ev = "CycleStart"
      BY <2>1, <3>1, <1>6, <1>14
    <3>3. Picks /\ Seen = Transitions /\ clk.pending = <<clk.pending[1]>>
      BY <3>2, <1>0, <1>14, AllTaken
    <3>4. clk.pending = <<At(at, "CycleStart")>> /\ at \in Nat
      BY <3>1, <3>2, <3>3 DEF Entries, At
    <3>5. at = clk.start + Due("CycleStart", clk.read) + clkHeld /\ clk.time <= at
      BY <1>0, <1>14, <3>2, HeadIs
    <3> HIDE DEF at, more
    <3>6. /\ d \in Generators /\ d.time = e /\ d.start = clk.start /\ d.read = clk.read
          /\ d.out = clk.out /\ d.pending = <<At(at + more, "CycleStart")>>
      BY <2>0, <2>1, <3>4, <1>8 DEF more
    <3>7. at + more \in Nat /\ e <= at + more /\ more \in Nat
      BY <3>4, <3>5, <1>0, <1>7 DEF more
    <3>8. clkHeld' = clkHeld + more
      BY <2>1, <1>1, <1>3 DEF more
    <3>9. /\ Listed(d.pending) /\ Pends(d.pending) = {"CycleStart"}
          /\ Members(d.pending) = {At(at + more, "CycleStart")}
      BY <3>6, <3>7, OneIs
    <3>10. at + more = clk.start + Due("CycleStart", clk.read) + clkHeld'
      <4>1. Due("CycleStart", clk.read) \in Nat
        BY <1>0, AnyDue DEF Events, Generators
      <4> QED
        BY <4>1, <3>5, <3>7, <3>8, <1>0
    <3>11. Listing'
      <4>1. At(at + more, "CycleStart").at = at + more /\ At(at + more, "CycleStart").ev = "CycleStart"
        BY DEF At
      <4>2. Pends(d.pending) = Coming \ Seen
        BY <3>3, <3>9 DEF Coming, Events, Transitions
      <4> QED
        BY <4>1, <4>2, <2>0, <3>6, <3>7, <3>9, <3>10, <1>10 DEF Listing
    <3>12. Taking'
      <4>1. \A ev \in Seen : clk.start + Due(ev, clk.read) <= e
        <5>1. \A ev \in Seen : Due(ev, clk.read) \in Nat /\ clk.start + Due(ev, clk.read) <= clk.time
          BY <3>3, <1>0, <1>14, AnyDue DEF Running, Taking, Generators, Events
        <5> QED
          BY <5>1, <1>0, <1>7
      <4> QED
        BY <4>1, <2>0, <3>3, <3>6, <1>10, <1>14 DEF Running, Taking
    <3>13. Tap' /\ Pulses'
      BY <2>0, <3>6, <1>2, <1>10, <1>14 DEF Running, Tap, Pulses
    <3> QED
      BY <3>6, <3>11, <3>12, <3>13, <1>11, <1>14 DEF ClkInv, Running
  <2>2. CASE ~held
    <3>1. /\ d \in Generators /\ d.time = e /\ d.start = clk.start /\ d.read = clk.read
          /\ d.out = clk.out /\ d.pending = clk.pending
      BY <2>0, <2>2, <1>9
    <3>2. clkHeld' = clkHeld /\ e < clk.pending[1].at
      BY <2>0, <2>2, <1>1
    <3>3. clk.pending # <<>> /\ clk.pending[1] \in Entries /\ \A x \in Members(clk.pending) : clk.pending[1].at <= x.at
      BY <1>0, <1>14, HeadIs
    <3>4. \A x \in Members(clk.pending) : x.at \in Nat
      BY <1>14, ListIs DEF Running, Listing, Members
    <3>5. \A x \in Members(clk.pending) : e <= x.at
      BY <3>2, <3>3, <3>4, <1>7 DEF Entries
    <3>6. Listing'
      BY <2>0, <3>1, <3>2, <3>5, <1>10, <1>14 DEF Running, Listing
    <3>7. Taking'
      <4>1. \A ev \in Seen : clk.start + Due(ev, clk.read) <= e
        <5>0. Seen \subseteq Events
          BY <1>14 DEF Running, Taking, Seen, ToSet, Events
        <5>1. \A ev \in Seen : Due(ev, clk.read) \in Nat /\ clk.start + Due(ev, clk.read) <= clk.time
          BY <5>0, <1>0, <1>14, AnyDue DEF Running, Taking, Generators
        <5> QED
          BY <5>1, <1>0, <1>7
      <4> QED
        BY <4>1, <2>0, <3>1, <3>2, <1>10, <1>14 DEF Running, Taking
    <3>8. Tap' /\ Pulses'
      BY <2>0, <3>1, <1>2, <1>10, <1>14 DEF Running, Tap, Pulses
    <3> QED
      BY <3>1, <3>6, <3>7, <3>8, <1>11, <1>14 DEF ClkInv, Running
  <2> QED
    BY <2>1, <2>2
<1> QED
  BY <1>12, <1>13, <1>14 DEF ClkInv

\* Every step keeps it.
LEMMA ClkInvStep ==
    ASSUME ClkInv, [ClkNext]_clkVars
    PROVE  ClkInv'
<1>1. CASE ClkTick
  <2>1. CASE clk.pending[1].ev = "CycleStart"
    BY <1>1, <2>1, StartKeeps
  <2>2. CASE clk.pending[1].ev # "CycleStart"
    <3>1. Running /\ Counted
      <4>1. ClkTypes /\ clk.time \in Nat
        BY DEF ClkInv, ClkTypes, Generators
      <4>2. clk.pending = <<At(clk.time, "CycleStart")>> => clk.pending[1].ev = "CycleStart"
        BY <4>1, OneIs
      <4> QED
        BY <4>2, <2>2 DEF ClkInv, Fresh, Cleared
    <3>2. CASE clk.pending[1].ev = "Select" /\ ~Picks
      BY <1>1, <3>1, <3>2, ChosenKeeps
    <3>3. CASE clk.pending[1].ev = "Select" => Picks
      BY <1>1, <2>2, <3>1, <3>3, PlainKeeps
    <3> QED
      BY <3>2, <3>3
  <2> QED
    BY <2>1, <2>2
<1>2. CASE ClkPassed
  BY <1>2, PassedKeeps
<1>3. CASE ClkOldFile
  BY <1>3, OldFileKeeps
<1>4. CASE UNCHANGED clkVars
  BY <1>4 DEF clkVars, ClkInv, ClkTypes, Fresh, Counted, Running, Cleared, Listing, Taking, Tap, Pulses,
              Picks, Coming, Seen
<1> QED
  BY <1>1, <1>2, <1>3, <1>4 DEF ClkNext

LEMMA ClkInvInit == ClkInit => ClkInv
<1> SUFFICES ASSUME ClkInit PROVE ClkInv
  OBVIOUS
<1>1. <<At(0, "CycleStart")>> \in Seq(Entries)
  <2>1. Listed(<<At(0, "CycleStart")>>)
    BY OneIs
  <2> QED
    BY <2>1 DEF Listed
<1>2. clk = [time |-> 0, start |-> 0, read |-> 0, out |-> {}, pending |-> <<At(0, "CycleStart")>>]
  BY DEF ClkInit, At
<1>3. clk \in Generators /\ clk.time = 0 /\ clk.out = {} /\ clk.pending = <<At(0, "CycleStart")>>
  BY <1>1, <1>2 DEF Generators
<1>4. clkIn \in ClockInputs /\ ~clkIn.hang /\ ~clkIn.reset /\ clkHeld \in Nat
  BY DEF ClkInit, ClockInputs, Speeds
<1> QED
  BY <1>3, <1>4 DEF ClkInit, ClkInv, ClkTypes, Fresh

-----------------------------------------------------------------------------
(* What it comes to.                                                         *)

\* A sequence that names each of a set once is as long as the set is large.
LEMMA OnceEach ==
    ASSUME NEW S, NEW s \in Seq(S), ToSet(s) = S, \A i, j \in DOMAIN s : s[i] = s[j] => i = j
    PROVE  Len(s) = Cardinality(S)
<1>1. Len(s) \in Nat /\ DOMAIN s = 1 .. Len(s) /\ s \in [1 .. Len(s) -> S]
  OBVIOUS
<1>2. \A x \in S : \E i \in 1 .. Len(s) : s[i] = x
  BY <1>1 DEF ToSet
<1>3. s \in Bijection(1 .. Len(s), S)
  BY <1>1, <1>2 DEF Bijection, Injection, Surjection, IsInjective
<1>4. ExistsBijection(1 .. Len(s), S)
  BY <1>3 DEF ExistsBijection
<1> QED
  BY <1>1, <1>4, FS_CountingElements

LEMMA RunningWhole ==
    ASSUME ClkTypes, Running
    PROVE  CycleWhole
<1>0. clk.time \in Nat /\ clk.start \in Nat /\ clk.read \in Nat /\ clkHeld \in Nat
  BY DEF ClkTypes, Generators
<1>1. \A k \in DOMAIN clk.pending : clk.pending[k].at >= clk.time
  <2>1. \A k \in DOMAIN clk.pending : clk.pending[k].at \in Nat /\ clk.time <= clk.pending[k].at
    BY ListIs DEF Running, Listing, Members
  <2> QED
    BY <2>1, <1>0
<1>2. ASSUME Begins
      PROVE  /\ ToSet(clkSeen) = Transitions /\ Len(clkSeen) = Cardinality(Transitions)
             /\ \E i, j \in DOMAIN clkSeen : i < j /\ clkSeen[i] = "TprOn" /\ clkSeen[j] = "Select"
             /\ \A ch \in clkChosen : clk.pending[1].at - clk.start = CycleNs("cadr", ch[1], ch[2]) + clkHeld
  <2>1. clk.pending[1].ev = "CycleStart"
    BY <1>2 DEF Begins
  <2>2. Picks /\ ToSet(clkSeen) = Transitions
    BY <2>1, AllTaken DEF Seen
  <2>3. Len(clkSeen) = Cardinality(Transitions)
    BY <2>2, OnceEach DEF Running, Taking
  <2>4. \E i, j \in DOMAIN clkSeen : i < j /\ clkSeen[i] = "TprOn" /\ clkSeen[j] = "Select"
    <3>1. PICK i \in DOMAIN clkSeen : clkSeen[i] = "TprOn"
      BY <2>2 DEF ToSet, Transitions
    <3>2. PICK j \in DOMAIN clkSeen : clkSeen[j] = "Select"
      BY <2>2 DEF ToSet, Transitions
    <3>3. i \in Nat /\ j \in Nat
      <4>1. DOMAIN clkSeen = 1 .. Len(clkSeen) /\ Len(clkSeen) \in Nat
        BY DEF Running, Taking
      <4> QED
        BY <4>1
    <3>4. Due("Select", clk.read) = 13 /\ Due("TprOn", clk.read) = 12
      BY DEF Due
    <3>5. ~(j < i)
      BY <3>1, <3>2, <3>4 DEF Running, Taking
    <3>6. i # j
      BY <3>1, <3>2
    <3> QED
      BY <3>1, <3>2, <3>3, <3>5, <3>6
  <2>5. ASSUME NEW ch \in clkChosen
        PROVE  clk.pending[1].at - clk.start = CycleNs("cadr", ch[1], ch[2]) + clkHeld
    <3>1. clk.pending[1].at = clk.start + Due("CycleStart", clk.read) + clkHeld
      BY <2>1, HeadIs
    <3>2. clk.read = ReadPhaseNs(ch[1], ch[2])
      BY DEF Running, Tap
    <3>3. CycleNs("cadr", ch[1], ch[2]) = clk.read + 12
      BY <3>2 DEF CycleNs, Triggered, RestartAfterRead
    <3>4. Due("CycleStart", clk.read) = clk.read + 12
      BY DEF Due
    <3> QED
      BY <3>1, <3>3, <3>4, <1>0
  <2> QED
    BY <2>2, <2>3, <2>4, <2>5
<1> QED
  BY <1>1, <1>2 DEF CycleWhole

LEMMA InvWhole == ClkInv => CycleWhole /\ PulsesApart /\ MicrocyclesCounted
<1> SUFFICES ASSUME ClkInv PROVE CycleWhole /\ PulsesApart /\ MicrocyclesCounted
  OBVIOUS
<1>0. ClkTypes /\ clk.time \in Nat /\ clk.start \in Nat /\ clk.read \in Nat
  BY DEF ClkInv, ClkTypes, Generators
<1>1. MicrocyclesCounted
  BY DEF ClkInv, Fresh, Counted, MicrocyclesCounted
<1>2. CASE Running /\ Counted
  <2>1. CycleWhole
    BY <1>0, <1>2, RunningWhole
  <2>2. "tpclk" \in clk.out => clk.out \cap {"tpwp", "tpwpiram"} = {}
    <3> SUFFICES ASSUME "tpclk" \in clk.out PROVE "tpwp" \notin clk.out /\ "tpwpiram" \notin clk.out
      OBVIOUS
    <3>1. "ReadEnd" \notin Seen /\ "tpwpiram" \notin clk.out
      BY <1>2 DEF Running, Pulses
    <3>2. ASSUME "tpwp" \in clk.out PROVE FALSE
      <4>1. "WpOn" \in Seen /\ Seen \subseteq Coming
        BY <1>2, <3>2 DEF Running, Pulses, Taking
      <4>2. "ReadEnd" \in Coming
        BY <4>1 DEF Coming, First, Events, Transitions
      <4>3. clk.time <= clk.start + Due("ReadEnd", clk.read) + 0
        BY <4>2, <3>1, <1>2, Ahead DEF Running
      <4>4. clk.start + Due("WpOn", clk.read) <= clk.time
        BY <4>1, <1>2 DEF Running, Taking
      <4>5. Due("ReadEnd", clk.read) = clk.read /\ Due("WpOn", clk.read) = clk.read + 6
        BY DEF Due
      <4> QED
        BY <4>3, <4>4, <4>5, <1>0
    <3> QED
      BY <3>1, <3>2
  <2>3. "tptse" \notin clk.out => PhaseNs(clk) <= TseOnNs
    <3> SUFFICES ASSUME "tptse" \notin clk.out PROVE PhaseNs(clk) <= TseOnNs
      OBVIOUS
    <3>1. "TseOn" \in Coming \ Seen
      BY <1>2 DEF Running, Pulses, Coming, First, Events, Transitions
    <3>2. clk.time <= clk.start + Due("TseOn", clk.read) + 0
      BY <3>1, <1>2, Ahead DEF Running
    <3>3. Due("TseOn", clk.read) = 5
      BY DEF Due
    <3> QED
      BY <3>2, <3>3, <1>0 DEF PhaseNs, TseOnNs
  <2> QED
    BY <1>1, <2>1, <2>2, <2>3 DEF PulsesApart
<1>3. CASE Fresh \/ Cleared
  <2>1. clk.out = {} /\ clk.pending = <<At(clk.time, "CycleStart")>>
    BY <1>3 DEF Fresh, Cleared
  <2>2. ~Begins
    BY <1>3 DEF Fresh, Cleared, Begins, ToSet
  <2>3. \A k \in DOMAIN clk.pending : clk.pending[k].at >= clk.time
    <3>1. DOMAIN clk.pending = {1} /\ clk.pending[1].at = clk.time
      <4>1. clk.pending = <<At(clk.time, "CycleStart")>> /\ clk.time \in Nat
        BY <2>1, <1>0
      <4> QED
        BY <4>1, OneIs
    <3> QED
      BY <3>1, <1>0
  <2>4. CASE Fresh
    <3>1. clk.time - clk.start <= 5
      BY <2>4, <1>0 DEF Fresh
    <3> QED
      BY <1>1, <2>1, <2>2, <2>3, <3>1 DEF CycleWhole, PulsesApart, PhaseNs, TseOnNs
  <2>5. CASE Cleared
    <3>1. "reset" \in ToSet(clkSeen)
      BY <2>5 DEF Cleared, ToSet
    <3> QED
      BY <1>1, <2>1, <2>2, <2>3, <3>1 DEF CycleWhole, PulsesApart
  <2> QED
    BY <1>3, <2>4, <2>5
<1> QED
  BY <1>2, <1>3 DEF ClkInv

\* A time is put off to the tick after it, by less than a tick.
LEMMA OnTick ==
    ASSUME NEW n \in Nat
    PROVE  /\ Triggered("fpga", n) - n \in 0 .. 1 /\ Triggered("fpga", n) \in Nat
           /\ Triggered("fpga", n) % 2 = 0
<1>1. Triggered("fpga", n) = ((n + 1) \div 2) * 2
  BY DEF Triggered, GridNs
<1>2. ((n + 1) \div 2) * 2 - n \in 0 .. 1 /\ ((n + 1) \div 2) * 2 \in Nat /\ (((n + 1) \div 2) * 2) % 2 = 0
  OBVIOUS
<1> QED
  BY <1>1, <1>2

LEMMA GridKept == GridKeeps
<1>1. ASSUME NEW s \in Speeds, NEW l \in BOOLEAN
      PROVE  LET more == CycleNs("fpga", s, l) - CycleNs("cadr", s, l)
             IN  more \in 0 .. 2 * (GridNs - 1) /\ CycleNs("fpga", s, l) % GridNs = 0
  <2> DEFINE r == ReadPhaseNs(s, l)
  <2>1. r \in Nat
    BY Phases DEF Reads
  <2> HIDE DEF r
  <2>2. Triggered("fpga", 12) = 12 /\ Triggered("cadr", 12) = 12 /\ Triggered("cadr", r) = r
    BY DEF Triggered, GridNs
  <2>3. CycleNs("fpga", s, l) = Triggered("fpga", r) + 12 /\ CycleNs("cadr", s, l) = r + 12
    BY <2>2 DEF CycleNs, RestartAfterRead, r
  <2>4. /\ Triggered("fpga", r) - r \in 0 .. 1 /\ Triggered("fpga", r) \in Nat
        /\ Triggered("fpga", r) % 2 = 0
    BY <2>1, OnTick
  <2> QED
    BY <2>1, <2>3, <2>4 DEF GridNs
<1>2. ASSUME NEW period \in 1 .. 9, NEW k \in 0 .. 9
      PROVE  Triggered("fpga", k * period) - (k * period) \in 0 .. GridNs - 1
  <2>1. k * period \in Nat
    OBVIOUS
  <2> QED
    BY <2>1, OnTick DEF GridNs
<1> QED
  BY <1>1, <1>2 DEF GridKeeps

\* The clock of a machine held, reset, stepped and resumed at any moment takes
\* each of a cycle's transitions once and in order, begins the next when the tap
\* chosen says and what it was held, keeps its pulses apart and loses count of
\* no microcycle (src/clock.rs, Behavioral; src/cable.rs, DebugIn).
THEOREM ClockIsKept == ClkSpec => []CycleKept
<1>1. ClkInv /\ [ClkNext]_clkVars => ClkInv'
  BY ClkInvStep
<1>2. ClkInv => CycleKept
  BY InvWhole, GridKept DEF CycleKept
<1> QED
  BY <1>1, <1>2, ClkInvInit, PTL DEF ClkSpec
=============================================================================

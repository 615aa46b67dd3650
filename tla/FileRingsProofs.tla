---------------------------- MODULE FileRingsProofs ----------------------------
(* What the file device's rings keep for indexes of every width, rings of every *)
(* size that divides it, and every sequence of stores.                          *)
EXTENDS FileRings, SequenceTheorems, TLAPS

(* Division with remainder, and that it has one answer.                         *)
LEMMA Division ==
  ASSUME NEW a \in Nat, NEW e \in Nat \ {0}
  PROVE  \E q \in Nat : a = q * e + (a % e) /\ a % e \in 0 .. e - 1
<1>1. a = (a \div e) * e + (a % e) /\ a \div e \in Nat
  BY SMT
<1>2. a % e \in 0 .. e - 1
  BY SMT
<1> QED BY <1>1, <1>2

(* A number has one quotient and one remainder.                                 *)
LEMMA OneRemainder ==
  ASSUME NEW e \in Nat \ {0}, NEW q \in Nat, NEW p \in Nat,
         NEW r \in 0 .. e - 1, NEW s \in 0 .. e - 1, q * e + r = p * e + s
  PROVE  r = s /\ q = p
<1>1. ASSUME NEW x \in Nat, NEW y \in Nat, NEW u \in 0 .. e - 1, NEW v \in 0 .. e - 1,
             x < y, x * e + u = y * e + v
      PROVE  FALSE
  <2>1. (x + 1) * e <= y * e
    BY <1>1, SMT
  <2>2. (x + 1) * e = x * e + e
    BY SMT
  <2> QED BY <1>1, <2>1, <2>2, SMT
<1>2. q = p
  BY <1>1, SMT
<1> QED BY <1>2, SMT

(* Where an index that runs free wraps, its slot goes on as if it had not.      *)
LEMMA SlotRunsOn ==
  ASSUME NEW e \in Nat \ {0}, IndexSize % e = 0, NEW a \in Index, NEW n \in Index
  PROVE  Plus(a, n) % e = (a + n) % e
<1> USE IndexAssumption
<1>1. CASE a + n < IndexSize
  BY <1>1 DEF Plus
<1>2. CASE ~(a + n < IndexSize)
  <2> DEFINE b == a + n - IndexSize
  <2>1. b \in Nat /\ a + n \in Nat /\ IndexSize \in Nat
    BY <1>2 DEF Index
  <2>2. PICK q \in Nat : b = q * e + (b % e) /\ b % e \in 0 .. e - 1
    BY <2>1, Division
  <2>3. PICK p \in Nat : a + n = p * e + ((a + n) % e) /\ (a + n) % e \in 0 .. e - 1
    BY <2>1, Division
  <2>4. PICK m \in Nat : IndexSize = m * e + (IndexSize % e)
    BY <2>1, Division
  <2>5. a + n = b + IndexSize
    BY <2>1 DEF Index
  <2> DEFINE r == b % e
             s == (a + n) % e
             w == q + m
  <2>6. w * e = q * e + m * e /\ w \in Nat
    BY SMT
  <2>7. m * e \in Nat /\ IndexSize = m * e
    BY <2>4, SMT
  <2>8. r \in 0 .. e - 1 /\ s \in 0 .. e - 1 /\ b = q * e + r /\ a + n = p * e + s
    BY <2>2, <2>3
  <2> HIDE DEF r, s, b, w
  <2>9. w * e + r = p * e + s
    BY <2>1, <2>5, <2>6, <2>7, <2>8, SMT
  <2>10. r = s
    <3>1. \A x \in Nat, y \in Nat, u \in 0 .. e - 1, v \in 0 .. e - 1 :
            x * e + u = y * e + v => u = v
      BY OneRemainder
    <3> QED BY <2>6, <2>8, <2>9, <3>1, Zenon
  <2>11. Plus(a, n) = b
    BY <1>2 DEF Plus, b
  <2>12. b % e = (a + n) % e
    BY <2>10 DEF r, s
  <2> QED BY <2>11, <2>12
<1> QED BY <1>1, <1>2

(* Two of no more indexes in a row than a ring has slots have different slots.  *)
LEMMA SlotsDiffer ==
  ASSUME NEW e \in Nat \ {0}, IndexSize % e = 0, NEW a \in Index,
         NEW i \in Index, NEW j \in Index, i < j, j - i < e
  PROVE  Plus(a, i) % e # Plus(a, j) % e
<1> USE IndexAssumption
<1>1. SUFFICES ASSUME (a + i) % e = (a + j) % e PROVE FALSE
  BY SlotRunsOn
<1>2. a + i \in Nat /\ a + j \in Nat
  BY DEF Index
<1>3. PICK q \in Nat : a + i = q * e + ((a + i) % e) /\ (a + i) % e \in 0 .. e - 1
  BY <1>2, Division
<1>4. PICK p \in Nat : a + j = p * e + ((a + j) % e)
  BY <1>2, Division
<1> DEFINE r == (a + i) % e
<1>5. r \in 0 .. e - 1 /\ a + i = q * e + r /\ a + j = p * e + r
  BY <1>1, <1>3, <1>4
<1> HIDE DEF r
<1>6. q * e \in Nat /\ p * e \in Nat
  BY SMT
<1>7. p * e - q * e \in 1 .. e - 1
  BY <1>5, <1>6, SMT DEF Index
<1>8. CASE q < p
  <2>1. (q + 1) * e <= p * e
    BY <1>8, SMT
  <2>2. (q + 1) * e = q * e + e
    BY SMT
  <2> QED BY <1>6, <1>7, <2>1, <2>2, SMT
<1>9. CASE ~(q < p)
  <2>1. p * e <= q * e
    BY <1>9, SMT
  <2> QED BY <1>6, <1>7, <2>1, SMT
<1> QED BY <1>8, <1>9

--------------------------------------------------------------------------------
(* The indexes.                                                                 *)
LEMMA IndexIsNat == 0 \in Index /\ \A k \in Index : k \in Nat /\ k < IndexSize
BY IndexAssumption DEF Index

(* The wrapping operations give indexes, and undo each other.                   *)
LEMMA MinusIsIndex ==
  ASSUME NEW a \in Index, NEW b \in Index
  PROVE  /\ Minus(a, b) \in Index /\ Plus(b, Minus(a, b)) = a
         /\ (Minus(a, b) = 0) = (a = b) /\ Plus(a, b) \in Index
BY IndexAssumption, SMT DEF Index, Minus, Plus

(* Two steps of a free-running index are one.                                   *)
LEMMA PlusRunsOn ==
  ASSUME NEW a \in Index, NEW m \in Index, NEW n \in Index, m + n \in Index
  PROVE  Plus(Plus(a, m), n) = Plus(a, m + n)
BY IndexAssumption, SMT DEF Index, Plus

(* An index n past another is n away from it.                                   *)
LEMMA MinusPlus ==
  ASSUME NEW a \in Index, NEW n \in Index
  PROVE  Minus(Plus(a, n), a) = n
BY IndexAssumption, SMT DEF Index, Plus, Minus

(* One step of an index, seen from another.                                     *)
LEMMA MinusSteps ==
  ASSUME NEW a \in Index, NEW b \in Index
  PROVE  /\ Minus(a, b) < IndexSize - 1 => Minus(Plus(a, 1), b) = Minus(a, b) + 1
         /\ Minus(a, b) # 0 => Minus(a, Plus(b, 1)) = Minus(a, b) - 1
BY IndexAssumption, SMT DEF Index, Plus, Minus

(* A consumer moved up to v is n short of where it was.                         *)
LEMMA MinusMoves ==
  ASSUME NEW a \in Index, NEW b \in Index, NEW v \in Index, Minus(v, b) <= Minus(a, b)
  PROVE  Minus(a, v) = Minus(a, b) - Minus(v, b)
BY IndexAssumption, SMT DEF Index, Plus, Minus

(* The slots of rings that fit are inside main memory.                          *)
LEMMA SlotInside ==
  ASSUME NEW base \in Bases, NEW z \in Sizes, Fits(base, z), NEW k \in Index
  PROVE  /\ base + EntryWords * (k % Entries[z]) \in 0 .. MainWords - 1
         /\ base + EntryWords * (k % Entries[z]) + EntryWords <= MainWords
         /\ base + EntryWords * (k % Entries[z]) + EntryWords <= base + EntryWords * Entries[z]
         /\ base + EntryWords * (k % Entries[z]) >= base
<1> USE IndexAssumption, EntriesAssumption, MemoryAssumption
<1> DEFINE e == Entries[z]
           s == k % e
<1>1. e \in Nat \ {0} /\ base \in Nat /\ k \in Nat
  BY DEF Index
<1>2. s \in 0 .. e - 1
  BY <1>1, Division
<1>3. base + EntryWords * e <= MainWords
  BY DEF Fits
<1> HIDE DEF s, e
<1>4. EntryWords * (s + 1) <= EntryWords * e
  BY <1>1, <1>2, SMT
<1>5. EntryWords * (s + 1) = EntryWords * s + EntryWords /\ EntryWords * s \in Nat
      /\ EntryWords * e \in Nat
  BY <1>1, <1>2, SMT
<1>6. /\ base + EntryWords * s \in 0 .. MainWords - 1
      /\ base + EntryWords * s + EntryWords <= MainWords
      /\ base + EntryWords * s + EntryWords <= base + EntryWords * e
      /\ base + EntryWords * s >= base
  BY <1>1, <1>3, <1>4, <1>5, SMT
<1> QED BY <1>6 DEF s, e

(* Every slot of an enabled device is inside main memory.                       *)
LEMMA RingSlots ==
  ASSUME RingInv, enabled, NEW k \in Index
  PROVE  /\ CmdSlot(k) \in 0 .. MainWords - 1 /\ CmdSlot(k) + EntryWords <= MainWords
         /\ RespSlot(k) \in 0 .. MainWords - 1 /\ RespSlot(k) + EntryWords <= MainWords
BY SlotInside DEF RingInv, TypeOK, IndexesInRange, CmdSlot, RespSlot, cmd_entries, resp_entries

(* A slot of one ring is not one of the other's.                                *)
LEMMA RingsApart ==
  ASSUME RingInv, enabled, NEW k \in Index, NEW j \in Index
  PROVE  CmdSlot(k) # RespSlot(j)
<1>1. /\ CmdSlot(k) \in Int /\ CmdSlot(k) >= cmd_base
      /\ CmdSlot(k) + EntryWords <= cmd_base + EntryWords * cmd_entries
      /\ RespSlot(j) \in Int /\ RespSlot(j) >= resp_base
      /\ RespSlot(j) + EntryWords <= resp_base + EntryWords * resp_entries
  BY SlotInside DEF RingInv, TypeOK, IndexesInRange, CmdSlot, RespSlot, cmd_entries, resp_entries
<1>2. Apart
  BY DEF RingInv, IndexesInRange
<1>3. cmd_base \in Nat /\ resp_base \in Nat /\ EntryWords \in Nat \ {0}
  BY MemoryAssumption DEF RingInv, TypeOK
<1> DEFINE c == EntryWords * cmd_entries
           r == EntryWords * resp_entries
<1>4. c \in Int /\ r \in Int
  BY <1>3, EntriesAssumption, SMT DEF RingInv, TypeOK, cmd_entries, resp_entries
<1>5. cmd_base + c <= resp_base \/ resp_base + r <= cmd_base
  BY <1>2 DEF Apart
<1> HIDE DEF c, r
<1> QED BY <1>1, <1>3, <1>4, <1>5, SMT DEF c, r

(* An enabled device's rings divide the indexes and are smaller than them.      *)
LEMMA RingSizes ==
  ASSUME RingInv
  PROVE  /\ cmd_entries \in Nat \ {0} /\ resp_entries \in Nat \ {0}
         /\ enabled => /\ cmd_entries < IndexSize /\ IndexSize % cmd_entries = 0
                       /\ resp_entries < IndexSize /\ IndexSize % resp_entries = 0
         /\ queued \in Index /\ responses \in Index
BY EntriesAssumption, MinusIsIndex
DEF RingInv, TypeOK, IndexesInRange, Fits, cmd_entries, resp_entries, queued, responses

--------------------------------------------------------------------------------
(* RingInv is inductive: one lemma per kind of step.                            *)
LEMMA InitRings == Init => RingInv
<1> SUFFICES ASSUME Init PROVE RingInv
  OBVIOUS
<1> USE IndexAssumption, SizeAssumption, EntriesAssumption, MemoryAssumption
<1>1. TypeOK
  BY IndexIsNat DEF Init, TypeOK
<1>2. Minus(0, 0) = 0
  BY DEF Minus
<1>3. cmd_entries \in Nat \ {0} /\ resp_entries \in Nat \ {0}
  BY <1>1 DEF TypeOK, cmd_entries, resp_entries
<1>4. HeadIsTaken
  BY DEF Init, HeadIsTaken, CanTake
<1>5. IndexesInRange
  BY <1>2, <1>3 DEF Init, IndexesInRange, queued, responses
<1> QED BY <1>1, <1>4, <1>5 DEF RingInv

(* A device off, with its indexes zero, keeps RingInv wherever its rings are.   *)
LEMMA QuietRings ==
  ASSUME TypeOK', ~enabled', ~head', ~interrupt_enable', Zeroed
  PROVE  RingInv'
<1>1. Minus(0, 0) = 0
  BY DEF Minus
<1>2. cmd_entries' \in Nat \ {0} /\ resp_entries' \in Nat \ {0}
  BY EntriesAssumption DEF TypeOK, cmd_entries, resp_entries
<1>3. HeadIsTaken'
  BY DEF HeadIsTaken, CanTake, TypeOK
<1>4. queued' = 0 /\ responses' = 0
  BY <1>1 DEF Zeroed, queued, responses
<1>5. IndexesInRange'
  BY <1>2, <1>4 DEF IndexesInRange, Zeroed
<1> QED BY <1>3, <1>5 DEF RingInv

(* Stores into 160, and the reset.                                              *)
LEMMA SwitchKeeps ==
  ASSUME RingInv,
         (\E ie \in BOOLEAN : Enable(ie) \/ SetInterrupt(ie)) \/ SwitchOff \/ Reset
  PROVE  RingInv'
<1> USE IndexAssumption DEF registers, rings, indexes, vars
<1>1. CASE SwitchOff \/ Reset
  <2>1. TypeOK'
    BY <1>1, IndexIsNat DEF RingInv, TypeOK, SwitchOff, Reset, Disable, Zeroed
  <2>2. ~enabled' /\ ~interrupt_enable' /\ ~head' /\ Zeroed
    BY <1>1 DEF RingInv, TypeOK, IndexesInRange, HeadIsTaken, CanTake, SwitchOff, Reset,
                Disable, Zeroed
  <2> QED BY <2>1, <2>2, QuietRings
<1>2. ASSUME NEW ie \in BOOLEAN, SetInterrupt(ie) PROVE RingInv'
  <2>1. TypeOK'
    BY <1>2 DEF RingInv, TypeOK, SetInterrupt
  <2>2. HeadIsTaken' /\ IndexesInRange'
    BY <1>2 DEF RingInv, HeadIsTaken, CanTake, Takes, IndexesInRange, SetInterrupt, Fits, Apart,
                queued, responses, cmd_entries, resp_entries
  <2> QED BY <2>1, <2>2 DEF RingInv
<1>3. ASSUME NEW ie \in BOOLEAN, Enable(ie) PROVE RingInv'
  <2>1. TypeOK'
    BY <1>3, IndexIsNat DEF RingInv, TypeOK, Enable, Zeroed
  <2>2. ~enabled /\ ~head /\ ~head' /\ ~interrupt_enable
        /\ cmd_prod = 0 /\ cmd_cons = 0 /\ resp_cons = 0
    BY <1>3 DEF RingInv, IndexesInRange, HeadIsTaken, CanTake, Enable
  <2>3. CASE Fits(cmd_base, cmd_log2) /\ Fits(resp_base, resp_log2)
    <3>1. Zeroed /\ Apart /\ enabled' /\ UNCHANGED rings
      BY <1>3, <2>3 DEF Enable
    <3>2. queued' = 0 /\ responses' = 0
      BY <3>1 DEF Zeroed, queued, responses, Minus
    <3>3. HeadIsTaken'
      BY <2>1, <2>2, <3>2 DEF HeadIsTaken, CanTake, Takes, queued, TypeOK
    <3>4. IndexesInRange'
      BY <2>3, <3>1, <3>2, RingSizes DEF IndexesInRange, Fits, Apart, cmd_entries, resp_entries
    <3> QED BY <2>1, <3>3, <3>4 DEF RingInv
  <2>4. CASE ~(Fits(cmd_base, cmd_log2) /\ Fits(resp_base, resp_log2))
    BY <1>3, <2>1, <2>2, <2>4, QuietRings DEF Enable, Zeroed
  <2> QED BY <2>3, <2>4
<1> QED BY <1>1, <1>2, <1>3

(* Stores into the base and size registers.                                     *)
LEMMA WriteRingKeeps ==
  ASSUME RingInv, WriteRing
  PROVE  RingInv'
<1>1. TypeOK'
  BY DEF RingInv, TypeOK, WriteRing, registers, indexes
<1>2. ~enabled' /\ ~head' /\ ~interrupt_enable' /\ Zeroed
  BY DEF RingInv, IndexesInRange, HeadIsTaken, CanTake, WriteRing, registers, indexes, Zeroed
<1> QED BY <1>1, <1>2, QuietRings

(* The rings and the switch standing still, what is left is the indexes.        *)
LEMMA IndexStep ==
  ASSUME RingInv, enabled, TypeOK', UNCHANGED <<enabled, interrupt_enable, rings>>,
         head' = Takes(cmd_prod', cmd_cons', resp_cons'),
         Minus(cmd_prod', cmd_cons') <= cmd_entries,
         Minus(cmd_cons', resp_cons') <= resp_entries
  PROVE  RingInv'
<1>1. cmd_entries' = cmd_entries /\ resp_entries' = resp_entries
  BY DEF rings, cmd_entries, resp_entries
<1>2. HeadIsTaken'
  BY <1>1 DEF HeadIsTaken, CanTake, Takes
<1>3. IndexesInRange'
  BY <1>1 DEF RingInv, IndexesInRange, queued, responses, rings, Fits, Apart, cmd_entries,
              resp_entries
<1> QED BY <1>2, <1>3 DEF RingInv

(* A refused store of an index.                                                 *)
LEMMA FaultKeeps ==
  ASSUME RingInv, IndexFault, UNCHANGED <<enabled, interrupt_enable, refused, rings, main>>
  PROVE  RingInv'
<1> USE DEF IndexFault, rings, indexes
<1>1. TypeOK'
  BY DEF RingInv, TypeOK
<1>2. HeadIsTaken' /\ IndexesInRange'
  BY DEF RingInv, HeadIsTaken, CanTake, Takes, IndexesInRange, Fits, Apart, queued, responses,
         cmd_entries, resp_entries
<1> QED BY <1>1, <1>2 DEF RingInv

(* A store into 164.                                                            *)
LEMMA PostKeeps ==
  ASSUME RingInv, NEW v \in Index, WriteCmdProd(v)
  PROVE  RingInv'
<1>1. CASE IndexFault
  BY <1>1, FaultKeeps DEF WriteCmdProd
<1>2. CASE /\ enabled /\ Minus(v, cmd_cons) <= cmd_entries /\ Minus(v, cmd_cons) >= queued
           /\ cmd_prod' = v /\ head' = (head \/ Takes(v, cmd_cons, resp_cons))
           /\ UNCHANGED <<index_fault, cmd_cons, resp_cons>>
           /\ UNCHANGED <<enabled, interrupt_enable, refused, rings, main>>
  <2>1. TypeOK'
    BY <1>2 DEF RingInv, TypeOK, rings, Takes
  <2>2. head => Takes(v, cmd_cons, resp_cons)
    <3>1. head => queued # 0 /\ Minus(cmd_cons, resp_cons) < resp_entries
      BY DEF RingInv, HeadIsTaken, CanTake, Takes, queued
    <3>2. queued \in Nat /\ Minus(v, cmd_cons) \in Nat
      BY RingSizes, MinusIsIndex, IndexIsNat DEF RingInv, TypeOK
    <3> QED BY <1>2, <3>1, <3>2 DEF Takes
  <2>3. head' = Takes(cmd_prod', cmd_cons', resp_cons')
    BY <1>2, <2>2 DEF RingInv, TypeOK, Takes
  <2> QED BY <1>2, <2>1, <2>3, IndexStep DEF RingInv, IndexesInRange, responses
<1> QED BY <1>1, <1>2 DEF WriteCmdProd

(* A store into 171.                                                            *)
LEMMA ConsumeKeeps ==
  ASSUME RingInv, NEW v \in Index, WriteRespCons(v)
  PROVE  RingInv'
<1>1. CASE IndexFault
  BY <1>1, FaultKeeps DEF WriteRespCons
<1>2. CASE /\ enabled /\ Minus(v, resp_cons) <= responses
           /\ resp_cons' = v /\ head' = (head \/ Takes(cmd_prod, cmd_cons, v))
           /\ UNCHANGED <<index_fault, cmd_prod, cmd_cons>>
           /\ UNCHANGED <<enabled, interrupt_enable, refused, rings, main>>
  <2>1. TypeOK'
    BY <1>2 DEF RingInv, TypeOK, rings, Takes
  <2>2. Minus(cmd_cons, v) = responses - Minus(v, resp_cons)
    BY <1>2, MinusMoves DEF RingInv, TypeOK, responses
  <2>3. responses \in Nat /\ Minus(v, resp_cons) \in Nat /\ resp_entries \in Nat
    BY RingSizes, MinusIsIndex, IndexIsNat DEF RingInv, TypeOK
  <2>4. responses <= resp_entries
    BY DEF RingInv, IndexesInRange
  <2>5. head => Takes(cmd_prod, cmd_cons, v)
    <3>1. head => Minus(cmd_prod, cmd_cons) # 0 /\ responses < resp_entries
      BY DEF RingInv, HeadIsTaken, CanTake, Takes, responses
    <3>2. responses < resp_entries => Minus(cmd_cons, v) < resp_entries
      BY <2>2, <2>3
    <3> QED BY <3>1, <3>2 DEF Takes
  <2>6. head' = Takes(cmd_prod', cmd_cons', resp_cons')
    BY <1>2, <2>5 DEF RingInv, TypeOK, Takes
  <2>7. Minus(cmd_cons', resp_cons') <= resp_entries
    BY <1>2, <2>2, <2>3, <2>4
  <2> QED BY <1>2, <2>1, <2>6, <2>7, IndexStep DEF RingInv, IndexesInRange, queued
<1> QED BY <1>1, <1>2 DEF WriteRespCons

(* A command executed.                                                          *)
LEMMA CompleteKeeps ==
  ASSUME RingInv, Complete
  PROVE  RingInv'
<1>1. enabled /\ queued # 0 /\ responses < resp_entries
  BY DEF RingInv, HeadIsTaken, CanTake, Takes, Complete, queued, responses
<1>2. CmdSlot(cmd_cons) \in 0 .. MainWords - 1
  BY <1>1, RingSlots DEF RingInv, TypeOK
<1>3. Plus(cmd_cons, 1) \in Index /\ cmd_cons \in Index
  BY IndexAssumption DEF RingInv, TypeOK, Index, Plus
<1>4. TypeOK'
  BY <1>2, <1>3 DEF RingInv, TypeOK, Complete, registers, rings, Takes
<1>5. responses < IndexSize - 1
  BY <1>1, RingSizes, IndexAssumption DEF Index
<1>6. /\ Minus(cmd_prod, Plus(cmd_cons, 1)) = queued - 1
      /\ Minus(Plus(cmd_cons, 1), resp_cons) = responses + 1
  BY <1>1, <1>5, MinusSteps DEF RingInv, TypeOK, queued, responses
<1>7. queued \in Nat /\ responses \in Nat /\ cmd_entries \in Nat /\ resp_entries \in Nat
      /\ queued <= cmd_entries
  BY RingSizes DEF Index, RingInv, IndexesInRange
<1>8. /\ Minus(cmd_prod', cmd_cons') <= cmd_entries
      /\ Minus(cmd_cons', resp_cons') <= resp_entries
  BY <1>1, <1>6, <1>7 DEF Complete
<1>9. head' = Takes(cmd_prod', cmd_cons', resp_cons')
  BY DEF Complete, rings, Takes, resp_entries
<1> QED BY <1>1, <1>4, <1>8, <1>9, IndexStep DEF Complete, registers

(* The driver's own store into the ring.                                        *)
LEMMA FillKeeps ==
  ASSUME RingInv, NEW k \in Index, NEW t \in Tags, Fill(k, t)
  PROVE  RingInv'
<1> USE DEF Fill, registers, rings, indexes
<1>1. TypeOK'
  BY DEF RingInv, TypeOK
<1>2. HeadIsTaken' /\ IndexesInRange'
  BY DEF RingInv, HeadIsTaken, CanTake, Takes, IndexesInRange, Fits, Apart, queued, responses,
         cmd_entries, resp_entries
<1> QED BY <1>1, <1>2 DEF RingInv

(* No change.                                                                   *)
LEMMA StutterKeeps ==
  ASSUME RingInv, UNCHANGED vars
  PROVE  RingInv'
BY DEF vars, registers, rings, indexes, RingInv, TypeOK, HeadIsTaken, CanTake, Takes,
       IndexesInRange, Fits, Apart, queued, responses, cmd_entries, resp_entries

(* The indexes stay within the rings and the head is taken exactly when it can  *)
(* be, whatever the driver stores.                                              *)
THEOREM RingsHold == Spec => []RingInv
<1>1. RingInv /\ [Next]_vars => RingInv'
  BY SwitchKeeps, WriteRingKeeps, PostKeeps, ConsumeKeeps, CompleteKeeps, FillKeeps, StutterKeeps
  DEF Next
<1> QED BY <1>1, InitRings, PTL DEF Spec

(* The device indexes main memory only inside it.                               *)
THEOREM InMemory == Spec => []RingsInMemory
<1>1. RingInv => RingsInMemory
  BY RingSlots DEF RingsInMemory
<1> QED BY <1>1, RingsHold, PTL

--------------------------------------------------------------------------------
(* Sequences written as functions.                                              *)
LEMMA RunOn ==
  ASSUME NEW S, NEW m \in Nat, NEW n \in Nat
  PROVE  \A f \in [1 .. m + n -> S], g \in [1 .. m -> S], h \in [1 .. n -> S] :
           /\ \A k \in 1 .. m : g[k] = f[k]
           /\ \A k \in 1 .. n : h[k] = f[m + k]
           => f = g \o h
<1> SUFFICES ASSUME NEW f \in [1 .. m + n -> S], NEW g \in [1 .. m -> S],
                    NEW h \in [1 .. n -> S],
                    \A k \in 1 .. m : g[k] = f[k], \A k \in 1 .. n : h[k] = f[m + k]
             PROVE  f = g \o h
  OBVIOUS
<1>1. g \in Seq(S) /\ h \in Seq(S) /\ Len(g) = m /\ Len(h) = n
  OBVIOUS
<1>2. /\ Len(g \o h) = m + n /\ g \o h \in Seq(S)
      /\ \A k \in 1 .. m + n : (g \o h)[k] = IF k <= m THEN g[k] ELSE h[k - m]
  <2>1. /\ g \o h \in Seq(S) /\ Len(g \o h) = Len(g) + Len(h)
        /\ \A k \in 1 .. Len(g) + Len(h) :
             (g \o h)[k] = IF k <= Len(g) THEN g[k] ELSE h[k - Len(g)]
    BY <1>1, ConcatProperties, Zenon
  <2> QED BY <1>1, <2>1, Zenon
<1>3. \A k \in 1 .. m + n : (g \o h)[k] = f[k]
  BY <1>2, SMT
<1>4. f \in Seq(S) /\ Len(f) = m + n
  OBVIOUS
<1> QED BY <1>2, <1>3, <1>4, SMT

(* Functions equal at every point of one domain are equal.                      *)
LEMMA SameValues ==
  ASSUME NEW D, NEW S
  PROVE  \A f \in [D -> S], g \in [D -> S] : (\A i \in D : f[i] = g[i]) => f = g
OBVIOUS

(* The values of a function moved down are those n later.                       *)
LEMMA LaterOnes ==
  ASSUME NEW S, NEW m \in Nat, NEW n \in 1 .. m, NEW f \in [1 .. m -> S]
  PROVE  SubSeq(f, n + 1, Len(f)) = [k \in 1 .. m - n |-> f[n + k]]
<1>1. f \in Seq(S) /\ Len(f) = m
  OBVIOUS
<1> QED BY <1>1, SMT

(* A sequence moved down by one is its tail.                                    *)
LEMMA RestOf ==
  ASSUME NEW S, NEW m \in Nat \ {0}, NEW f \in [1 .. m -> S], NEW g \in [1 .. m - 1 -> S],
         \A k \in 1 .. m - 1 : g[k] = f[k + 1]
  PROVE  g = Tail(f) /\ Head(f) = f[1] /\ f # <<>>
<1>1. f \in Seq(S) /\ Len(f) = m /\ g \in Seq(S) /\ Len(g) = m - 1
  OBVIOUS
<1>2. f # <<>> /\ Head(f) = f[1]
  BY <1>1
<1>3. /\ Tail(f) \in Seq(S) /\ Len(Tail(f)) = Len(f) - 1
      /\ \A k \in 1 .. Len(Tail(f)) : Tail(f)[k] = f[k + 1]
  BY <1>1, <1>2, HeadTailProperties, Zenon
<1>4. \A k \in 1 .. Len(g) : g[k] = Tail(f)[k]
  BY <1>1, <1>3
<1>5. Len(g) = Len(Tail(f))
  BY <1>1, <1>3
<1>6. g = Tail(f)
  BY <1>1, <1>3, <1>4, <1>5, SeqEqual, Zenon
<1> QED BY <1>2, <1>6

(* A sequence one longer is an append.                                          *)
LEMMA OneMore ==
  ASSUME NEW S, NEW m \in Nat, NEW f \in [1 .. m -> S], NEW g \in [1 .. m + 1 -> S],
         \A k \in 1 .. m : g[k] = f[k]
  PROVE  g = Append(f, g[m + 1])
<1>1. f \in Seq(S) /\ Len(f) = m /\ g \in Seq(S) /\ Len(g) = m + 1 /\ g[m + 1] \in S
  OBVIOUS
<1> DEFINE x == g[m + 1]
           h == Append(f, x)
<1>2. x \in S
  BY <1>1
<1> HIDE DEF x
<1>3. /\ Append(f, x) \in Seq(S) /\ Len(Append(f, x)) = Len(f) + 1
      /\ \A k \in 1 .. Len(f) : Append(f, x)[k] = f[k]
      /\ Append(f, x)[Len(f) + 1] = x
  BY <1>1, <1>2, AppendProperties
<1> HIDE DEF h
<1>4. h \in Seq(S) /\ Len(h) = m + 1 /\ \A k \in 1 .. m : h[k] = f[k]
  BY <1>1, <1>3 DEF h
<1>5. h[m + 1] = g[m + 1]
  BY <1>1, <1>3 DEF h, x
<1>6. \A k \in 1 .. Len(g) : g[k] = h[k]
  BY <1>1, <1>4, <1>5
<1>7. g = h
  BY <1>1, <1>4, <1>6, SeqEqual
<1> QED BY <1>7 DEF h, x

--------------------------------------------------------------------------------
(* What is in the rings, as sequences.                                          *)
Contents ==
  /\ Commands \in [1 .. queued -> Tags] /\ Answers \in [1 .. responses -> Tags]
  /\ Len(Commands) = queued /\ Len(Answers) = responses

(* The rings' contents are sequences of tags, as long as the indexes say.       *)
LEMMA RingContents == RingInv => Contents
<1> SUFFICES ASSUME RingInv PROVE Contents
  OBVIOUS
<1> USE DEF Contents
<1>1. queued \in Nat /\ responses \in Nat /\ queued < IndexSize /\ responses < IndexSize
  BY RingSizes, IndexIsNat
<1>2. CASE enabled
  <2>1. ASSUME NEW a \in Index, NEW k \in Nat, k \in 1 .. IndexSize - 1
        PROVE  Plus(a, k - 1) \in Index
    BY <2>1, IndexAssumption DEF Index, Plus
  <2>2. ASSUME NEW k \in Index
        PROVE  main[CmdSlot(k)] \in Tags /\ main[RespSlot(k)] \in Tags
    BY <1>2, RingSlots DEF RingInv, TypeOK
  <2>3. ASSUME NEW k \in 1 .. queued PROVE main[CmdSlot(Plus(cmd_cons, k - 1))] \in Tags
    <3>1. k \in Nat /\ k \in 1 .. IndexSize - 1
      BY <1>1, IndexAssumption
    <3> QED BY <2>1, <2>2, <3>1 DEF RingInv, TypeOK
  <2>4. ASSUME NEW k \in 1 .. responses PROVE main[RespSlot(Plus(resp_cons, k - 1))] \in Tags
    <3>1. k \in Nat /\ k \in 1 .. IndexSize - 1
      BY <1>1, IndexAssumption
    <3> QED BY <2>1, <2>2, <3>1 DEF RingInv, TypeOK
  <2> QED BY <1>1, <2>3, <2>4 DEF Commands, Answers
<1>3. CASE ~enabled
  <2>1. queued = 0 /\ responses = 0
    BY <1>3 DEF RingInv, IndexesInRange, queued, responses, Minus
  <2> QED BY <2>1 DEF Commands, Answers
<1> QED BY <1>2, <1>3 DEF RingInv, TypeOK

(* The same of the next state.                                                  *)
LEMMA RingContentsNext == RingInv' => Contents'
BY RingContents, PTL

(* Zero indexes: nothing in either ring.                                        *)
LEMMA EmptyRings ==
  /\ queued = 0 => Commands = <<>>
  /\ responses = 0 => Answers = <<>>
BY DEF Commands, Answers

(* Nothing that the rings hold moves with the registers.                        *)
LEMMA SameContents ==
  ASSUME UNCHANGED <<enabled, rings, indexes, main>>
  PROVE  UNCHANGED Queue!vars
BY DEF Queue!vars, rings, indexes, Commands, Answers, queued, responses, CmdSlot, RespSlot,
       cmd_entries, resp_entries

(* The device at power-on is an empty queue.                                    *)
LEMMA InitIsInit == Init => Queue!Init
<1> SUFFICES ASSUME Init PROVE Queue!Init
  OBVIOUS
<1>1. queued = 0 /\ responses = 0
  BY DEF Init, queued, responses, Minus
<1>2. cmd_log2 \in Sizes /\ resp_log2 \in Sizes
  BY SizeAssumption DEF Init
<1> QED BY <1>1, <1>2, EmptyRings DEF Queue!Init, Init, cmd_entries, resp_entries

(* A device reset holds nothing.                                                *)
LEMMA ZeroedIsEmpty ==
  ASSUME Zeroed
  PROVE  Commands' = <<>> /\ Answers' = <<>>
<1>1. queued' = 0 /\ responses' = 0
  BY DEF Zeroed, queued, responses, Minus
<1> QED BY <1>1 DEF Commands, Answers

(* Stores into 160 and the reset switch the queue.                              *)
LEMMA SwitchIsSwitch ==
  ASSUME RingInv, RingInv',
         (\E ie \in BOOLEAN : Enable(ie) \/ SetInterrupt(ie)) \/ SwitchOff \/ Reset
  PROVE  [Queue!Next]_(Queue!vars)
<1>1. CASE UNCHANGED <<enabled, rings, indexes, main>>
  BY <1>1, SameContents
<1>2. CASE Zeroed /\ UNCHANGED rings
  <2>1. Commands' = <<>> /\ Answers' = <<>>
    BY <1>2, ZeroedIsEmpty
  <2>2. enabled' \in BOOLEAN
    BY DEF RingInv, TypeOK
  <2>3. Queue!Switch
    BY <1>2, <2>1, <2>2 DEF Queue!Switch, rings, cmd_entries, resp_entries
  <2> QED BY <2>3 DEF Queue!Next
<1> QED BY <1>1, <1>2 DEF Enable, SetInterrupt, SwitchOff, Reset, Disable, indexes

(* The base and size registers set its limits.                                  *)
LEMMA WriteRingIsConfigure ==
  ASSUME RingInv, RingInv', WriteRing
  PROVE  [Queue!Next]_(Queue!vars)
<1>1. /\ ~enabled /\ UNCHANGED enabled
      /\ cmd_log2' \in Sizes /\ resp_log2' \in Sizes
      /\ UNCHANGED indexes
  BY DEF WriteRing, registers, RingInv, TypeOK
<1>2. queued = 0 /\ responses = 0 /\ queued' = 0 /\ responses' = 0
  BY <1>1 DEF RingInv, IndexesInRange, queued, responses, Minus, indexes
<1>3. Commands = <<>> /\ Answers = <<>>
  BY <1>2, EmptyRings
<1>4. Commands' = <<>> /\ Answers' = <<>>
  BY <1>2 DEF Commands, Answers
<1>5. Queue!Configure
  BY <1>1, <1>3, <1>4 DEF Queue!Configure, cmd_entries, resp_entries
<1> QED BY <1>5 DEF Queue!Next

(* A store into 164 that is taken posts commands.                               *)
LEMMA PostIsPost ==
  ASSUME RingInv, RingInv', NEW v \in Index, WriteCmdProd(v)
  PROVE  [Queue!Next]_(Queue!vars)
<1>1. CASE IndexFault
  BY <1>1, SameContents DEF WriteCmdProd, IndexFault
<1>2. CASE /\ enabled /\ Minus(v, cmd_cons) <= cmd_entries /\ Minus(v, cmd_cons) >= queued
           /\ cmd_prod' = v /\ UNCHANGED <<cmd_cons, resp_cons>>
           /\ UNCHANGED <<enabled, interrupt_enable, refused, rings, main>>
  <2> DEFINE n == Minus(v, cmd_cons) - queued
             s == [k \in 1 .. n |-> Commands'[queued + k]]
  <2>1. /\ queued \in Nat /\ Minus(v, cmd_cons) \in Nat /\ n \in Nat
        /\ cmd_entries \in Nat /\ resp_entries \in Nat
    BY <1>2, RingSizes, MinusIsIndex, IndexIsNat DEF RingInv, TypeOK
  <2>2. queued' = queued + n
    BY <1>2, <2>1 DEF queued
  <2>3. /\ Commands \in [1 .. queued -> Tags] /\ Commands' \in [1 .. queued + n -> Tags]
        /\ Len(Commands) = queued
    BY <2>2, RingContents, RingContentsNext DEF Contents
  <2>4. \A k \in 1 .. queued : Commands[k] = Commands'[k]
    BY <1>2, <2>1, <2>2 DEF Commands, CmdSlot, cmd_entries, rings
  <2>5. Answers' = Answers
    BY <1>2 DEF Answers, RespSlot, resp_entries, rings, responses
  <2>6. s \in [1 .. n -> Tags] /\ \A k \in 1 .. n : s[k] = Commands'[queued + k]
    BY <2>1, <2>3
  <2>7. UNCHANGED <<cmd_entries, resp_entries>>
    BY <1>2 DEF cmd_entries, resp_entries, rings
  <2> HIDE DEF n, s
  <2>8. Commands' = Commands \o s
    <3>1. \A f \in [1 .. queued + n -> Tags], g \in [1 .. queued -> Tags], h \in [1 .. n -> Tags] :
            /\ \A k \in 1 .. queued : g[k] = f[k]
            /\ \A k \in 1 .. n : h[k] = f[queued + k]
            => f = g \o h
      BY <2>1, RunOn, Zenon
    <3> QED BY <2>3, <2>4, <2>6, <3>1, Zenon
  <2>9. CASE n = 0
    <3>1. Commands' = Commands
      BY <2>1, <2>3, <2>4, <2>9
    <3> QED BY <1>2, <2>5, <2>7, <3>1 DEF Queue!vars
  <2>10. CASE n # 0
    <3>1. n \in 1 .. cmd_entries /\ queued + n <= cmd_entries
      BY <1>2, <2>1, <2>10 DEF n
    <3>2. Queue!Post(n)
      BY <1>2, <2>3, <2>5, <2>6, <2>7, <2>8, <3>1 DEF Queue!Post
    <3> QED BY <3>1, <3>2 DEF Queue!Next
  <2> QED BY <2>9, <2>10
<1> QED BY <1>1, <1>2 DEF WriteCmdProd

(* A store into 171 that is taken takes answers.                                *)
LEMMA ConsumeIsTake ==
  ASSUME RingInv, RingInv', NEW v \in Index, WriteRespCons(v)
  PROVE  [Queue!Next]_(Queue!vars)
<1>1. CASE IndexFault
  BY <1>1, SameContents DEF WriteRespCons, IndexFault
<1>2. CASE /\ enabled /\ Minus(v, resp_cons) <= responses
           /\ resp_cons' = v /\ UNCHANGED <<cmd_prod, cmd_cons>>
           /\ UNCHANGED <<enabled, interrupt_enable, refused, rings, main>>
  <2> DEFINE n == Minus(v, resp_cons)
  <2>1. /\ responses \in Nat /\ n \in Nat /\ n \in Index /\ responses < IndexSize
        /\ responses <= resp_entries /\ resp_entries \in Nat
    BY <1>2, RingSizes, MinusIsIndex, IndexIsNat DEF RingInv, TypeOK, IndexesInRange
  <2>2. responses' = responses - n
    BY <1>2, MinusMoves DEF RingInv, TypeOK, responses
  <2>3. v = Plus(resp_cons, n) /\ resp_cons \in Index
    BY MinusIsIndex DEF RingInv, TypeOK
  <2>4. Commands' = Commands
    BY <1>2 DEF Commands, CmdSlot, cmd_entries, rings, queued
  <2>5. /\ Answers \in [1 .. responses -> Tags] /\ Answers' \in [1 .. responses - n -> Tags]
        /\ Len(Answers) = responses
    BY <2>2, RingContents, RingContentsNext DEF Contents
  <2>6. UNCHANGED <<cmd_entries, resp_entries>>
    BY <1>2 DEF cmd_entries, resp_entries, rings
  <2> HIDE DEF n
  <2>7. ASSUME NEW k \in 1 .. responses - n PROVE Answers'[k] = Answers[n + k]
    <3>1. k - 1 \in Index /\ n + (k - 1) \in Index /\ n + (k - 1) = (n + k) - 1
      BY <1>2, <2>1, IndexAssumption DEF Index, n
    <3>2. Plus(v, k - 1) = Plus(resp_cons, (n + k) - 1)
      BY <2>1, <2>3, <3>1, PlusRunsOn
    <3>3. k \in 1 .. responses' /\ n + k \in 1 .. responses
      BY <1>2, <2>1, <2>2 DEF n
    <3>4. Answers'[k] = main'[RespSlot(Plus(resp_cons, k - 1))']
      BY <3>3 DEF Answers
    <3>5. RespSlot(Plus(resp_cons, k - 1))' = RespSlot(Plus(v, k - 1))
      BY <1>2 DEF RespSlot, resp_entries, rings
    <3>6. Answers[n + k] = main[RespSlot(Plus(resp_cons, (n + k) - 1))]
      BY <3>3 DEF Answers
    <3> QED BY <1>2, <3>2, <3>4, <3>5, <3>6
  <2>8. CASE n = 0
    <3>1. Answers' = Answers
      BY <2>1, <2>5, <2>7, <2>8
    <3> QED BY <1>2, <2>4, <2>6, <3>1 DEF Queue!vars
  <2>9. CASE n # 0
    <3>1. n \in 1 .. responses /\ n \in 1 .. resp_entries
      BY <1>2, <2>1, <2>9 DEF n
    <3>2. SubSeq(Answers, n + 1, Len(Answers)) = [k \in 1 .. responses - n |-> Answers[n + k]]
      BY <2>1, <2>5, <3>1, LaterOnes
    <3>3. Answers' = SubSeq(Answers, n + 1, Len(Answers))
      BY <2>5, <2>7, <3>2
    <3>4. Queue!Take(n)
      BY <1>2, <2>4, <2>5, <2>6, <3>1, <3>3 DEF Queue!Take
    <3> QED BY <3>1, <3>4 DEF Queue!Next
  <2> QED BY <2>8, <2>9
<1> QED BY <1>1, <1>2 DEF WriteRespCons

(* Entries of one ring do not share an address.                                 *)
LEMMA AddressesDiffer ==
  ASSUME NEW base \in Nat, NEW x \in Nat, NEW y \in Nat, x # y
  PROVE  base + EntryWords * x # base + EntryWords * y
<1> USE MemoryAssumption
<1>1. EntryWords * x \in Nat /\ EntryWords * y \in Nat
  BY SMT
<1>2. ASSUME NEW p \in Nat, NEW q \in Nat, p < q PROVE EntryWords * p < EntryWords * q
  BY <1>2, SMT
<1>3. EntryWords * x # EntryWords * y
  BY <1>1, <1>2, SMT
<1> DEFINE p == EntryWords * x
           q == EntryWords * y
<1> HIDE DEF p, q
<1>4. base + p # base + q
  BY <1>1, <1>3 DEF p, q
<1> QED BY <1>4 DEF p, q

(* Nor do two entries within one ring's length of each other.                   *)
LEMMA EntriesDiffer ==
  ASSUME RingInv, enabled, NEW a \in Index, NEW i \in Nat, NEW j \in Nat, i < j
  PROVE  /\ j < cmd_entries => CmdSlot(Plus(a, i)) # CmdSlot(Plus(a, j))
         /\ j < resp_entries => RespSlot(Plus(a, i)) # RespSlot(Plus(a, j))
<1>1. /\ cmd_entries \in Nat \ {0} /\ cmd_entries < IndexSize /\ IndexSize % cmd_entries = 0
      /\ resp_entries \in Nat \ {0} /\ resp_entries < IndexSize /\ IndexSize % resp_entries = 0
      /\ cmd_base \in Nat /\ resp_base \in Nat
  BY RingSizes, MemoryAssumption DEF RingInv, TypeOK
<1>2. ASSUME NEW e \in Nat \ {0}, IndexSize % e = 0, e < IndexSize, j < e, NEW base \in Nat
      PROVE  base + EntryWords * (Plus(a, i) % e) # base + EntryWords * (Plus(a, j) % e)
  <2>1. i \in Index /\ j \in Index /\ j - i < e
    BY <1>2, IndexAssumption DEF Index
  <2>2. Plus(a, i) % e # Plus(a, j) % e
    BY <1>2, <2>1, SlotsDiffer
  <2>3. Plus(a, i) \in Nat /\ Plus(a, j) \in Nat
    BY <2>1, MinusIsIndex, IndexIsNat
  <2>4. ASSUME NEW x \in Nat PROVE x % e \in Nat
    BY Division
  <2>5. Plus(a, i) % e \in Nat /\ Plus(a, j) % e \in Nat
    BY <2>3, <2>4
  <2> QED BY <2>2, <2>5, AddressesDiffer
<1>3. ASSUME j < cmd_entries PROVE CmdSlot(Plus(a, i)) # CmdSlot(Plus(a, j))
  BY <1>1, <1>2, <1>3 DEF CmdSlot
<1>4. ASSUME j < resp_entries PROVE RespSlot(Plus(a, i)) # RespSlot(Plus(a, j))
  BY <1>1, <1>2, <1>4 DEF RespSlot
<1> QED BY <1>3, <1>4

(* The driver's stores past the posted commands are not seen.                   *)
LEMMA FillIsStutter ==
  ASSUME RingInv, RingInv', NEW k \in Index, NEW t \in Tags, Fill(k, t)
  PROVE  [Queue!Next]_(Queue!vars)
<1> USE DEF rings, indexes, registers
<1> DEFINE d == Minus(k, cmd_cons)
<1>1. /\ enabled /\ enabled' /\ UNCHANGED <<rings, indexes, enabled>>
      /\ d \in queued .. cmd_entries - 1
      /\ main' = [main EXCEPT ![CmdSlot(k)] = t]
  BY DEF Fill
<1>2. k = Plus(cmd_cons, d) /\ cmd_cons \in Index /\ resp_cons \in Index /\ d \in Index
  BY MinusIsIndex DEF RingInv, TypeOK
<1> HIDE DEF d
<1>3. queued \in Nat /\ responses \in Nat /\ cmd_entries \in Nat /\ d \in Nat
      /\ cmd_entries < IndexSize /\ responses < IndexSize
  BY <1>1, <1>2, RingSizes, IndexIsNat
<1>4. /\ queued' = queued /\ responses' = responses
      /\ \A j \in Index : CmdSlot(j)' = CmdSlot(j) /\ RespSlot(j)' = RespSlot(j)
      /\ UNCHANGED <<cmd_entries, resp_entries, cmd_cons, resp_cons>>
  BY <1>1 DEF queued, responses, CmdSlot, RespSlot, cmd_entries, resp_entries
<1>5. ASSUME NEW i \in 1 .. queued PROVE Commands'[i] = Commands[i]
  <2>1. i - 1 \in Nat /\ i - 1 < d /\ d < cmd_entries /\ i - 1 \in Index
    BY <1>1, <1>3, IndexAssumption DEF Index
  <2>2. CmdSlot(Plus(cmd_cons, i - 1)) # CmdSlot(k)
    BY <1>1, <1>2, <1>3, <2>1, EntriesDiffer
  <2>3. Plus(cmd_cons, i - 1) \in Index
    BY <1>2, <2>1, MinusIsIndex
  <2>4. main'[CmdSlot(Plus(cmd_cons, i - 1))] = main[CmdSlot(Plus(cmd_cons, i - 1))]
    BY <1>1, <2>2, <2>3, RingSlots DEF RingInv, TypeOK
  <2>5. /\ Commands[i] = main[CmdSlot(Plus(cmd_cons, i - 1))]
        /\ Commands'[i] = main'[CmdSlot(Plus(cmd_cons, i - 1))']
    BY <1>4 DEF Commands
  <2>6. CmdSlot(Plus(cmd_cons, i - 1))' = CmdSlot(Plus(cmd_cons, i - 1))
    BY <1>1 DEF CmdSlot, cmd_entries
  <2> QED BY <2>4, <2>5, <2>6
<1>6. ASSUME NEW i \in 1 .. responses PROVE Answers'[i] = Answers[i]
  <2>1. i - 1 \in Index
    BY <1>3, IndexAssumption DEF Index
  <2>2. Plus(resp_cons, i - 1) \in Index
    BY <1>2, <2>1, MinusIsIndex
  <2>3. CmdSlot(k) # RespSlot(Plus(resp_cons, i - 1))
    BY <1>1, <2>2, RingsApart
  <2>4. main'[RespSlot(Plus(resp_cons, i - 1))] = main[RespSlot(Plus(resp_cons, i - 1))]
    BY <1>1, <2>2, <2>3, RingSlots DEF RingInv, TypeOK
  <2>5. /\ Answers[i] = main[RespSlot(Plus(resp_cons, i - 1))]
        /\ Answers'[i] = main'[RespSlot(Plus(resp_cons, i - 1))']
    BY <1>4 DEF Answers
  <2>6. RespSlot(Plus(resp_cons, i - 1))' = RespSlot(Plus(resp_cons, i - 1))
    BY <1>1 DEF RespSlot, resp_entries
  <2> QED BY <2>4, <2>5, <2>6
<1>7. /\ Commands \in [1 .. queued -> Tags] /\ Commands' \in [1 .. queued -> Tags]
      /\ Answers \in [1 .. responses -> Tags] /\ Answers' \in [1 .. responses -> Tags]
  BY <1>4, RingContents, RingContentsNext DEF Contents
<1>8. Commands' = Commands /\ Answers' = Answers
  <2>1. \A i \in 1 .. queued : Commands'[i] = Commands[i]
    BY <1>5
  <2>2. \A i \in 1 .. responses : Answers'[i] = Answers[i]
    BY <1>6
  <2>3. \A f \in [1 .. queued -> Tags], g \in [1 .. queued -> Tags] :
          (\A i \in 1 .. queued : f[i] = g[i]) => f = g
    BY SameValues, Zenon
  <2>4. \A f \in [1 .. responses -> Tags], g \in [1 .. responses -> Tags] :
          (\A i \in 1 .. responses : f[i] = g[i]) => f = g
    BY SameValues, Zenon
  <2>5. Commands' = Commands
    BY <1>7, <2>1, <2>3, Zenon
  <2>6. Answers' = Answers
    BY <1>7, <2>2, <2>4, Zenon
  <2> QED BY <2>5, <2>6
<1> QED BY <1>1, <1>4, <1>8 DEF Queue!vars

(* execute answers the first command, and overwrites nothing that waits.        *)
LEMMA CompleteIsAnswer ==
  ASSUME RingInv, RingInv', Complete
  PROVE  [Queue!Next]_(Queue!vars)
<1> USE DEF rings, registers
<1>1. /\ enabled /\ enabled' /\ queued # 0 /\ responses < resp_entries
      /\ cmd_cons' = Plus(cmd_cons, 1) /\ UNCHANGED <<enabled, rings, cmd_prod, resp_cons>>
      /\ main' = [main EXCEPT ![RespSlot(cmd_cons)] = main[CmdSlot(cmd_cons)]]
  BY DEF RingInv, HeadIsTaken, CanTake, Takes, Complete, queued, responses
<1>2. /\ queued \in Nat \ {0} /\ responses \in Nat /\ queued < IndexSize
      /\ resp_entries \in Nat /\ resp_entries < IndexSize
      /\ cmd_cons \in Index /\ resp_cons \in Index /\ cmd_prod \in Index
      /\ 0 \in Index /\ 1 \in Index
  BY <1>1, RingSizes, IndexIsNat, IndexAssumption DEF RingInv, TypeOK, Index
<1>3. queued' = queued - 1 /\ responses' = responses + 1
  <2>1. Minus(cmd_prod, cmd_cons) # 0 /\ Minus(cmd_cons, resp_cons) < IndexSize - 1
    BY <1>1, <1>2, IndexAssumption DEF queued, responses
  <2>2. /\ Minus(cmd_prod, Plus(cmd_cons, 1)) = Minus(cmd_prod, cmd_cons) - 1
        /\ Minus(Plus(cmd_cons, 1), resp_cons) = Minus(cmd_cons, resp_cons) + 1
    BY <1>2, <2>1, MinusSteps
  <2> QED BY <1>1, <2>2 DEF queued, responses
<1>4. /\ Commands \in [1 .. queued -> Tags] /\ Commands' \in [1 .. queued - 1 -> Tags]
      /\ Answers \in [1 .. responses -> Tags] /\ Answers' \in [1 .. responses + 1 -> Tags]
      /\ Len(Answers) = responses
  BY <1>3, RingContents, RingContentsNext DEF Contents
<1>5. UNCHANGED <<cmd_entries, resp_entries>>
  BY <1>1 DEF cmd_entries, resp_entries
<1>6. cmd_cons = Plus(resp_cons, responses) /\ Plus(cmd_cons, 0) = cmd_cons
  <2>1. cmd_cons = Plus(resp_cons, responses)
    BY <1>2, MinusIsIndex DEF responses
  <2>2. Plus(cmd_cons, 0) = cmd_cons
    BY <1>2, IndexAssumption DEF Plus, Index
  <2> QED BY <2>1, <2>2
<1>7. ASSUME NEW i \in 1 .. queued - 1 PROVE Commands'[i] = Commands[i + 1]
  <2>1. i - 1 \in Index /\ i \in Index /\ 1 + (i - 1) = i /\ (i + 1) - 1 = i
        /\ i + 1 \in 1 .. queued
    BY <1>2, IndexAssumption DEF Index
  <2>2. Plus(Plus(cmd_cons, 1), i - 1) = Plus(cmd_cons, i)
    BY <1>2, <2>1, PlusRunsOn
  <2>3. Plus(cmd_cons, i) \in Index
    BY <1>2, <2>1, MinusIsIndex
  <2>4. Commands'[i] = main'[CmdSlot(Plus(cmd_cons, i - 1))']
    BY <1>3 DEF Commands
  <2>5. CmdSlot(Plus(cmd_cons, i - 1))' = CmdSlot(Plus(cmd_cons, i))
    BY <1>1, <2>2 DEF CmdSlot, cmd_entries
  <2>6. CmdSlot(Plus(cmd_cons, i)) # RespSlot(cmd_cons)
    BY <1>1, <1>2, <2>3, RingsApart
  <2>7. main'[CmdSlot(Plus(cmd_cons, i))] = main[CmdSlot(Plus(cmd_cons, i))]
    BY <1>1, <2>3, <2>6, RingSlots DEF RingInv, TypeOK
  <2>8. Commands[i + 1] = main[CmdSlot(Plus(cmd_cons, i))]
    BY <2>1 DEF Commands
  <2> QED BY <2>4, <2>5, <2>7, <2>8
<1>8. ASSUME NEW i \in 1 .. responses PROVE Answers'[i] = Answers[i]
  <2>1. i - 1 \in Nat /\ i - 1 \in Index /\ i - 1 < responses /\ i \in 1 .. responses + 1
    BY <1>1, <1>2, IndexAssumption DEF Index
  <2>2. Plus(resp_cons, i - 1) \in Index
    BY <1>2, <2>1, MinusIsIndex
  <2>3. RespSlot(Plus(resp_cons, i - 1)) # RespSlot(cmd_cons)
    BY <1>1, <1>2, <1>6, <2>1, EntriesDiffer
  <2>4. main'[RespSlot(Plus(resp_cons, i - 1))] = main[RespSlot(Plus(resp_cons, i - 1))]
    BY <1>1, <2>2, <2>3, RingSlots DEF RingInv, TypeOK
  <2>5. /\ Answers[i] = main[RespSlot(Plus(resp_cons, i - 1))]
        /\ Answers'[i] = main'[RespSlot(Plus(resp_cons, i - 1))']
    BY <1>3, <2>1 DEF Answers
  <2>6. RespSlot(Plus(resp_cons, i - 1))' = RespSlot(Plus(resp_cons, i - 1))
    BY <1>1 DEF RespSlot, resp_entries
  <2> QED BY <2>4, <2>5, <2>6
<1>9. Answers'[responses + 1] = Commands[1]
  <2>1. Commands[1] = main[CmdSlot(cmd_cons)]
    BY <1>2, <1>6 DEF Commands
  <2>2. Answers'[responses + 1] = main'[RespSlot(cmd_cons)]
    <3>1. ASSUME NEW k \in 1 .. responses'
          PROVE  Answers'[k] = main'[RespSlot(Plus(resp_cons, k - 1))]
      <4>1. Answers'[k] = main'[RespSlot(Plus(resp_cons, k - 1))']
        BY DEF Answers
      <4>2. RespSlot(Plus(resp_cons, k - 1))' = RespSlot(Plus(resp_cons, k - 1))
        BY <1>1 DEF RespSlot, resp_entries
      <4> QED BY <4>1, <4>2
    <3>2. responses + 1 \in 1 .. responses' /\ (responses + 1) - 1 = responses
      BY <1>2, <1>3
    <3> QED BY <1>6, <3>1, <3>2
  <2>3. RespSlot(cmd_cons) \in 0 .. MainWords - 1 /\ DOMAIN main = 0 .. MainWords - 1
    BY <1>1, <1>2, RingSlots DEF RingInv, TypeOK
  <2>4. main'[RespSlot(cmd_cons)] = main[CmdSlot(cmd_cons)]
    BY <1>1, <2>3
  <2> QED BY <2>1, <2>2, <2>4
<1>10. Commands' = Tail(Commands) /\ Head(Commands) = Commands[1] /\ Commands # <<>>
  BY <1>2, <1>4, <1>7, RestOf
<1>11. Answers' = Append(Answers, Head(Commands))
  <2>1. Answers' = Append(Answers, Answers'[responses + 1])
    BY <1>2, <1>4, <1>8, OneMore
  <2> QED BY <1>9, <1>10, <2>1
<1>12. Queue!Answer
  BY <1>1, <1>4, <1>5, <1>10, <1>11 DEF Queue!Answer
<1> QED BY <1>12 DEF Queue!Next

(* The rings implement a queue of commands and a queue of answers.              *)
THEOREM RingsAreQueues == Spec => InOrder
<1>1. RingInv /\ RingInv' /\ [Next]_vars => [Queue!Next]_(Queue!vars)
  <2> SUFFICES ASSUME RingInv, RingInv', [Next]_vars PROVE [Queue!Next]_(Queue!vars)
    OBVIOUS
  <2>1. CASE UNCHANGED vars
    BY <2>1, SameContents DEF vars, registers
  <2>2. CASE Next
    BY <2>2, SwitchIsSwitch, WriteRingIsConfigure, PostIsPost, ConsumeIsTake, FillIsStutter,
       CompleteIsAnswer DEF Next
  <2> QED BY <2>1, <2>2
<1> QED BY <1>1, RingsHold, InitIsInit, PTL DEF Spec, InOrder, Queue!Spec
================================================================================

----------------------------- MODULE QuuxProofs -----------------------------
(***************************************************************************)
(* Proofs about Quux: the FPGA window, the file device's commands, the      *)
(* memory port, and the block-disk with its disk file.                     *)
(*                                                                         *)
(* Of the block-disk: whatever is written, cut, killed, kept and resumed, a *)
(* block reads back what was last written to it or, sector for sector, what *)
(* a cut left; the blocks of the file lie apart; and a transfer moves whole *)
(* pages and is busy for what it moved.  The file comes first (ImageOK),    *)
(* then BlockInv and a lemma to an action.                                 *)
(***************************************************************************)
EXTENDS Quux, SequenceTheorems, FiniteSetTheorems, WellFoundedInduction, TLAPS

-----------------------------------------------------------------------------
(* The window of the debug cable.                                           *)

AdapterStates == [alive : BOOLEAN, holds : Nat, seq : Nat, ack : BOOLEAN]
MuirStates ==
    [up : BOOLEAN, seq : Nat, standing : Nat, answer : Nat,
     fault : {"none", "lost", "fatal", "refused"}, carried : BOOLEAN]
DbgoutStates == [asked : Nat, pending : BOOLEAN, took : Nat, runs : Nat]

\* A request at the window is the one the debugger waits for, not yet answered.
StandingIsAsked(m, d) ==
    m.standing # NoneOut => d.pending /\ m.standing = d.asked /\ m.answer = NoneOut

\* The number muir is at is ahead of the one the adapter holds by the requests
\* made since, which are too few to come round.
SeqTells(a, m, d) ==
    m.up /\ a.holds # NoneOut =>
        /\ a.holds <= d.asked /\ d.asked < a.holds + SeqCount
        /\ \/ m.seq + a.holds = a.seq + d.asked
           \/ m.seq + a.holds + SeqCount = a.seq + d.asked

FabOk(a, m, d) ==
    /\ a \in AdapterStates /\ m \in MuirStates /\ d \in DbgoutStates
    /\ a.seq < SeqCount /\ m.seq < SeqCount
    /\ StandingIsAsked(m, d)
    /\ m.answer # NoneOut => m.carried
    /\ SeqTells(a, m, d)
    /\ d.took \in {NoneOut, d.asked}
    /\ m.fault # "refused"

\* The window's inductive invariant.
FabInv == FabOk(adapter, muir, dbgout)

\* The next sequence number, by cases.
LEMMA NextSeq ==
    \A q \in Nat : q < SeqCount =>
        /\ (q + 1) % SeqCount \in Nat /\ (q + 1) % SeqCount < SeqCount
        /\ (q + 1) % SeqCount = IF q + 1 = SeqCount THEN 0 ELSE q + 1
BY FabricAssumption

\* The fields every step writes are of their types.
LEMMA AdapterMoves ==
    ASSUME NEW a \in AdapterStates, NEW n \in Nat, NEW q \in Nat
    PROVE  /\ [a EXCEPT !.ack = TRUE] \in AdapterStates
           /\ [a EXCEPT !.alive = FALSE] \in AdapterStates
           /\ [a EXCEPT !.holds = NoneOut, !.ack = FALSE] \in AdapterStates
           /\ [a EXCEPT !.holds = NoneOut, !.ack = FALSE, !.seq = 0] \in AdapterStates
           /\ [a EXCEPT !.holds = n, !.seq = q, !.ack = FALSE] \in AdapterStates
BY DEF AdapterStates, NoneOut

LEMMA MuirMoves ==
    ASSUME NEW m \in MuirStates, NEW n \in Nat, NEW q \in Nat, NEW b \in BOOLEAN
    PROVE  /\ [NoMuir EXCEPT !.up = b] \in MuirStates
           /\ NoMuir \in MuirStates
           /\ [m EXCEPT !.answer = n, !.standing = NoneOut, !.carried = TRUE] \in MuirStates
           /\ [m EXCEPT !.seq = q, !.standing = n, !.answer = NoneOut, !.carried = FALSE] \in MuirStates
           /\ [m EXCEPT !.standing = NoneOut, !.carried = TRUE] \in MuirStates
           /\ [m EXCEPT !.fault = "none"] \in MuirStates
BY DEF MuirStates, NoneOut, NoMuir

LEMMA DbgoutMoves ==
    ASSUME NEW d \in DbgoutStates, NEW n \in Nat
    PROVE  /\ [d EXCEPT !.runs = n, !.pending = FALSE] \in DbgoutStates
           /\ [d EXCEPT !.pending = FALSE] \in DbgoutStates
           /\ [d EXCEPT !.pending = FALSE, !.took = n] \in DbgoutStates
           /\ [d EXCEPT !.asked = n, !.pending = TRUE, !.took = NoneOut] \in DbgoutStates
BY DEF DbgoutStates, NoneOut

\* What the answer polled leaves, in a step from a state of the invariant.
LEMMA PollKeeps ==
    ASSUME NEW a, NEW m, NEW d, FabOk(a, m, d), m.up, FabricPoll(m, a, d)
    PROVE  FabInv'
<1> DEFINE p == IF m.carried \/ m.answer # NoneOut \/ m.standing = NoneOut THEN m ELSE FabricAck(m, a)
           answered == ~m.carried /\ p.answer # NoneOut
<1>1. /\ muir' = [p EXCEPT !.carried = @ \/ answered]
      /\ dbgout' = IF answered /\ d.pending
                   THEN [d EXCEPT !.pending = FALSE, !.took = p.answer] ELSE d
      /\ IF m.standing # NoneOut /\ p.standing = NoneOut
         THEN adapter' \in StoreLeaves(a, LiftWord) ELSE adapter' = a
  BY DEF FabricPoll
<1>2. CASE p = m
  BY <1>1, <1>2 DEF FabOk, FabInv, AdapterStates, MuirStates, DbgoutStates, StandingIsAsked,
     SeqTells, NoneOut
<1>3. CASE \E w \in {"lost", "fatal"} : p = [m EXCEPT !.fault = IF @ = "none" THEN w ELSE @] 
  BY <1>1, <1>3 DEF FabOk, FabInv, AdapterStates, MuirStates, DbgoutStates, StandingIsAsked,
     SeqTells, NoneOut
<1>4. CASE /\ ~m.carried /\ m.standing # NoneOut /\ a.holds # NoneOut /\ a.seq = m.seq
           /\ p = [m EXCEPT !.answer = a.holds, !.standing = NoneOut]
  <2>1. a.holds = d.asked
    BY <1>4, FabricAssumption DEF FabOk, SeqTells, AdapterStates, MuirStates, DbgoutStates, NoneOut
  <2>2. adapter' \in {a, [a EXCEPT !.holds = NoneOut, !.ack = FALSE]}
    BY <1>1, <1>4 DEF StoreLeaves, StoreTaken, LiftWord, FabOk, MuirStates
  <2>3. /\ muir' = [m EXCEPT !.answer = a.holds, !.standing = NoneOut, !.carried = TRUE]
        /\ dbgout' = [d EXCEPT !.pending = FALSE, !.took = a.holds]
    BY <1>1, <1>4 DEF FabOk, MuirStates, DbgoutStates, StandingIsAsked, NoneOut
  <2>4. adapter' \in AdapterStates /\ muir' \in MuirStates /\ dbgout' \in DbgoutStates
    <3>1. a \in AdapterStates /\ m \in MuirStates /\ d \in DbgoutStates /\ a.holds \in Nat
      BY DEF FabOk, AdapterStates
    <3> QED BY <3>1, <2>2, <2>3, AdapterMoves, MuirMoves, DbgoutMoves
  <2>5. SeqTells(adapter', muir', dbgout')
    BY <2>2, <2>3 DEF FabOk, AdapterStates, MuirStates, DbgoutStates, SeqTells, NoneOut
  <2>6. adapter'.seq < SeqCount /\ muir'.seq < SeqCount
    BY <2>2, <2>3 DEF FabOk, AdapterStates, MuirStates
  <2> QED
    BY <2>1, <2>3, <2>4, <2>5, <2>6 DEF FabOk, FabInv, MuirStates, DbgoutStates, StandingIsAsked, NoneOut
<1> QED
  BY <1>2, <1>3, <1>4 DEF FabricAck, FabricBlame

\* A step of the window keeps its invariant.
LEMMA FabricKeeps == FabInv /\ FabricNext => FabInv'
<1> SUFFICES ASSUME FabInv, FabricNext PROVE FabInv'
  OBVIOUS
<1> USE DEF NoneOut
<1>a. adapter \in AdapterStates /\ muir \in MuirStates /\ dbgout \in DbgoutStates
  BY DEF FabInv, FabOk
<1>1. CASE AdapterAcks \/ AdapterWatchdog \/ WindowDies
  BY <1>1 DEF AdapterAcks, AdapterWatchdog, WindowDies, FabInv, FabOk, AdapterStates, MuirStates,
     DbgoutStates, StandingIsAsked, SeqTells
<1>2. CASE FabricOpen
  <2>1. adapter' \in {adapter, [adapter EXCEPT !.holds = NoneOut, !.ack = FALSE, !.seq = 0]}
    BY <1>2 DEF FabricOpen, StoreLeaves, StoreTaken, ClearKey
  <2>2. adapter' \in AdapterStates
    BY <2>1, <1>a, AdapterMoves
  <2>3. /\ muir' \in MuirStates /\ muir'.standing = NoneOut /\ muir'.answer = NoneOut
        /\ muir'.seq = 0 /\ muir'.fault = "none" /\ muir'.up = (adapter'.holds = NoneOut)
    <3>1. muir' = [NoMuir EXCEPT !.up = (adapter'.holds = NoneOut)]
      BY <1>2 DEF FabricOpen
    <3> QED BY <3>1, <1>a, MuirMoves DEF NoMuir
  <2>4. dbgout' \in DbgoutStates /\ dbgout'.took = dbgout.took /\ dbgout'.asked = dbgout.asked
    <3>1. dbgout' = [dbgout EXCEPT !.runs = dbgout.runs + 1, !.pending = FALSE] /\ dbgout.runs + 1 \in Nat
      BY <1>2, <1>a DEF FabricOpen, DbgoutStates
    <3> QED BY <3>1, <1>a, DbgoutMoves DEF DbgoutStates
  <2> QED
    <3>1. adapter'.seq < SeqCount /\ muir'.seq < SeqCount
      <4>1. CASE adapter' = adapter
        BY <4>1, <2>3, FabricAssumption DEF FabInv, FabOk
      <4>2. CASE adapter' = [adapter EXCEPT !.holds = NoneOut, !.ack = FALSE, !.seq = 0]
        BY <4>2, <2>3, <1>a, FabricAssumption DEF AdapterStates
      <4> QED BY <2>1, <4>1, <4>2
    <3> QED BY <3>1, <2>2, <2>3, <2>4 DEF FabInv, FabOk, StandingIsAsked, SeqTells
<1>3. CASE FabricRequest
  <2> DEFINE n == dbgout.asked + 1
             seq == (muir.seq + 1) % SeqCount
             d == [dbgout EXCEPT !.asked = n, !.pending = TRUE, !.took = NoneOut]
             m == [muir EXCEPT !.seq = seq, !.standing = n, !.answer = NoneOut, !.carried = FALSE]
  <2>1. muir.up /\ muir.standing = NoneOut
    BY <1>3 DEF FabricRequest, FabInv, FabOk, StandingIsAsked
  <2>2. PICK a \in StoreLeaves(adapter, CtlWord(n, seq)) : FabricPoll(m, a, d)
    BY <1>3, <2>1 DEF FabricRequest
  <2>3. seq \in Nat /\ seq < SeqCount /\ seq = IF muir.seq + 1 = SeqCount THEN 0 ELSE muir.seq + 1
    BY NextSeq DEF FabInv, FabOk, MuirStates
  <2> HIDE DEF seq
  <2>4. m \in MuirStates /\ d \in DbgoutStates /\ m.up
    <3>1. n \in Nat
      BY <1>a DEF DbgoutStates
    <3>2. m \in MuirStates /\ d \in DbgoutStates
      BY <3>1, <1>a, <2>3, MuirMoves, DbgoutMoves
    <3> QED BY <3>2, <1>a, <2>1 DEF MuirStates
  <2>5. \/ a = [adapter EXCEPT !.holds = n, !.seq = seq, !.ack = FALSE]
        \/ a = adapter /\ (adapter.holds # NoneOut => n < adapter.holds + SeqCount)
    BY <2>2 DEF StoreLeaves, StoreTaken, MayMiss, CtlWord
  <2>6. a \in AdapterStates
    <3>1. n \in Nat
      BY <1>a DEF DbgoutStates
    <3>2. [adapter EXCEPT !.holds = n, !.seq = seq, !.ack = FALSE] \in AdapterStates
      BY <3>1, <2>3, <1>a, AdapterMoves
    <3> QED BY <3>2, <2>5, <1>a
  <2>7. SeqTells(a, m, d)
    <3>1. CASE a = [adapter EXCEPT !.holds = n, !.seq = seq, !.ack = FALSE]
      BY <3>1, <2>3, FabricAssumption DEF FabInv, FabOk, AdapterStates, MuirStates, DbgoutStates, SeqTells
    <3>2. CASE a = adapter /\ (adapter.holds # NoneOut => n < adapter.holds + SeqCount)
      BY <3>2, <2>1, <2>3, FabricAssumption DEF FabInv, FabOk, AdapterStates, MuirStates,
         DbgoutStates, SeqTells
    <3> QED BY <2>5, <3>1, <3>2
  <2>8. FabOk(a, m, d)
    <3>1. a.seq < SeqCount /\ m.seq < SeqCount
      BY <2>3, <2>5 DEF FabInv, FabOk, AdapterStates, MuirStates
    <3>2. StandingIsAsked(m, d) /\ m.answer = NoneOut /\ d.took = NoneOut
      BY <1>a DEF StandingIsAsked, MuirStates, DbgoutStates
    <3>3. m.fault # "refused"
      BY <1>a DEF FabInv, FabOk, MuirStates
    <3> QED BY <2>4, <2>6, <2>7, <3>1, <3>2, <3>3 DEF FabOk
  <2> QED BY <2>2, <2>4, <2>8, PollKeeps
<1>4. CASE FabricTimeOut
  <2> DEFINE d == [dbgout EXCEPT !.pending = FALSE]
             m == FabricRelease(muir)
  <2>1. PICK a : /\ a \in {adapter, [adapter EXCEPT !.holds = NoneOut, !.ack = FALSE]}
                 /\ muir.up /\ FabricPoll(m, a, d)
    BY <1>4 DEF FabricTimeOut, StoreLeaves, StoreTaken, LiftWord
  <2>2. a \in AdapterStates /\ m \in MuirStates /\ d \in DbgoutStates /\ m.up
    <3>1. a \in AdapterStates
      BY <2>1, <1>a, AdapterMoves
    <3>2. m \in MuirStates
      BY <1>a, MuirMoves DEF FabricRelease
    <3>3. d \in DbgoutStates
      BY <1>a, DbgoutMoves
    <3>4. m.up = muir.up
      BY <1>a DEF MuirStates, FabricRelease
    <3> QED BY <2>1, <3>1, <3>2, <3>3, <3>4
  <2>3. SeqTells(a, m, d)
    <3>1. a.holds # NoneOut => a = adapter
      BY <2>1, <1>a DEF AdapterStates
    <3>2. m.up = muir.up /\ m.seq = muir.seq /\ d.asked = dbgout.asked
      BY <1>a DEF MuirStates, DbgoutStates, FabricRelease
    <3> QED BY <3>1, <3>2 DEF FabInv, FabOk, SeqTells
  <2>4. FabOk(a, m, d)
    <3>1. a.seq < SeqCount /\ m.seq < SeqCount
      BY <2>1 DEF FabInv, FabOk, AdapterStates, MuirStates, FabricRelease
    <3>2. StandingIsAsked(m, d) /\ m.carried /\ d.took \in {NoneOut, d.asked} /\ m.fault # "refused"
      BY DEF FabInv, FabOk, StandingIsAsked, MuirStates, DbgoutStates, FabricRelease
    <3> QED BY <2>2, <2>3, <3>1, <3>2 DEF FabOk
  <2> QED BY <2>1, <2>2, <2>4, PollKeeps
<1>5. CASE FabricIdle
  BY <1>5, PollKeeps DEF FabricIdle, FabInv
<1>6. CASE TakeFault
  BY <1>6 DEF TakeFault, FabInv, FabOk, MuirStates, StandingIsAsked, SeqTells
<1>7. CASE FabricDrop \/ FabricKilled
  <2>1. adapter' \in {adapter, [adapter EXCEPT !.holds = NoneOut, !.ack = FALSE]}
    BY <1>7 DEF FabricDrop, FabricKilled, StoreLeaves, StoreTaken, LiftWord
  <2>2. muir' = NoMuir /\ dbgout' = dbgout
    BY <1>7 DEF FabricDrop, FabricKilled
  <2>3. adapter' \in AdapterStates /\ muir' \in MuirStates
    BY <2>1, <2>2, <1>a, AdapterMoves, MuirMoves
  <2>4. adapter'.seq = adapter.seq /\ NoMuir.seq = 0
    BY <2>1, <1>a DEF AdapterStates, NoMuir
  <2> QED
    BY <2>2, <2>3, <2>4, FabricAssumption DEF FabInv, FabOk, NoMuir, StandingIsAsked, SeqTells
<1> QED
  BY <1>1, <1>2, <1>3, <1>4, <1>5, <1>6, <1>7 DEF FabricNext

\* The FPGA window: an answer the debugger takes is its own request's, and no
\* request meets another at the window, for any number of requests and runs.
THEOREM WindowSafe == Spec => []WindowKept
<1>1. Init => FabInv
  BY FabricAssumption DEF Init, FabricInit, FabInv, FabOk, AdapterStates, MuirStates, DbgoutStates,
     NoMuir, StandingIsAsked, SeqTells, NoneOut
<1>2. FabInv /\ [Next]_quuxVars => FabInv'
  <2> SUFFICES ASSUME FabInv, [Next]_quuxVars PROVE FabInv'
    OBVIOUS
  <2>1. FabricNext \/ UNCHANGED fabricVars
    BY DEF Next, quuxVars
  <2> QED BY <2>1, FabricKeeps DEF FabInv, fabricVars
<1>3. FabInv => WindowKept
  BY DEF FabInv, FabOk, WindowKept, AnswerIsMine, OneAtTheWindow
<1> QED BY <1>1, <1>2, <1>3, PTL DEF Spec

-----------------------------------------------------------------------------
(* The file device's commands.                                              *)

\* q is p or a folder on the way to it.
OnTheWay(q, p) == Len(q) <= Len(p) /\ \A i \in 1 .. Len(q) : q[i] = p[i]

\* A path is its components, the mount and one below it at least.
LEMMA PathsAreSeqs ==
    \A p \in Paths : p \in Seq(Components) /\ Len(p) \in Nat /\ Len(p) > 1
BY StoreAssumption, LenProperties

\* The first k components of a path.
LEMMA SubSeqIs ==
    ASSUME NEW C, NEW p \in Seq(C), NEW k \in 0 .. Len(p)
    PROVE  /\ SubSeq(p, 1, k) \in Seq(C) /\ Len(SubSeq(p, 1, k)) = k
           /\ \A i \in 1 .. k : SubSeq(p, 1, k)[i] = p[i]
<1>1. \A i \in 1 .. k : p[i] \in C
  BY ElementOfSeq, LenProperties
<1>2. Len(p) \in Nat
  BY LenProperties
<1>3. /\ SubSeq(p, 1, k) \in Seq(C)
      /\ Len(SubSeq(p, 1, k)) = IF 1 <= k THEN k - 1 + 1 ELSE 0
      /\ \A i \in 1 .. k - 1 + 1 : SubSeq(p, 1, k)[i] = p[1 + i - 1]
  BY <1>1, <1>2, SubSeqProperties
<1> QED BY <1>2, <1>3

\* IsPrefix, component by component.
LEMMA PrefixIs ==
    ASSUME NEW C, NEW p \in Seq(C), NEW q \in Seq(C)
    PROVE  IsPrefix(q, p) <=> OnTheWay(q, p)
<1>1. Len(q) \in Nat /\ Len(p) \in Nat
  BY LenProperties
<1>2. CASE Len(q) > Len(p)
  BY <1>1, <1>2 DEF IsPrefix, OnTheWay
<1>3. CASE Len(q) <= Len(p)
  <2>1. /\ SubSeq(p, 1, Len(q)) \in Seq(C) /\ Len(SubSeq(p, 1, Len(q))) = Len(q)
        /\ \A i \in 1 .. Len(q) : SubSeq(p, 1, Len(q))[i] = p[i]
    BY <1>1, <1>3, SubSeqIs
  <2>2. SubSeq(q, 1, Len(q)) = q
    BY SubSeqFull
  <2>3. ASSUME OnTheWay(q, p) PROVE q = SubSeq(p, 1, Len(q))
    BY <2>1, <2>3, SeqEqual DEF OnTheWay
  <2> QED BY <1>3, <2>1, <2>2, <2>3 DEF IsPrefix, OnTheWay
<1> QED BY <1>1, <1>2, <1>3

\* What is on the way to a folder is on the way to what is in it.
LEMMA WayOfWay ==
    ASSUME NEW r, NEW q, NEW p, Len(r) \in Nat, Len(q) \in Nat, Len(p) \in Nat,
           OnTheWay(r, q), OnTheWay(q, p)
    PROVE  OnTheWay(r, p)
BY DEF OnTheWay

\* Of the same length, what is on the way is the path itself.
LEMMA SameOnTheWay ==
    ASSUME NEW C, NEW p \in Seq(C), NEW q \in Seq(C), OnTheWay(q, p), Len(q) = Len(p)
    PROVE  q = p
BY SeqEqual DEF OnTheWay

\* The folder a path is in.
LEMMA FrontIs ==
    ASSUME NEW p \in Paths
    PROVE  /\ Front(p) \in Seq(Components) /\ Len(Front(p)) = Len(p) - 1
           /\ \A i \in 1 .. Len(p) - 1 : Front(p)[i] = p[i]
           /\ Len(p) > 2 => Front(p) \in Paths
<1>1. p \in Seq(Components) /\ Len(p) \in Nat /\ Len(p) > 1
  BY PathsAreSeqs
<1>2. Len(p) > 2 => Len(p) - 1 \in 2 .. Len(p)
  BY <1>1
<1> QED BY <1>1, <1>2, SubSeqIs, StoreAssumption DEF Front

\* A free handle is there when one is.
LEMMA FreeHandleIs == FreeHandles # {} => free_handle \in FreeHandles
<1> SUFFICES ASSUME FreeHandles # {} PROVE free_handle \in FreeHandles
  OBVIOUS
<1>1. FreeHandles \subseteq Nat
  BY StoreAssumption DEF FreeHandles, Handles
<1>2. \A x, y \in Nat : x < y => <<x, y>> \in OpToRel(<, Nat)
  BY DEF OpToRel
<1>3. PICK R : IsWellFoundedOn(R, Nat) /\ \A x, y \in Nat : x < y => <<x, y>> \in R
  BY <1>2, NatLessThanWellFounded
<1>4. \A X : X \subseteq Nat /\ X # {} => \E x \in X : \A y \in X : ~(<<y, x>> \in R)
  <2>1. IsWellFoundedOn(R, Nat)
    BY <1>3
  <2> SUFFICES ASSUME NEW X, X \subseteq Nat, X # {}
               PROVE  \E x \in X : \A y \in X : ~(<<y, x>> \in R)
    OBVIOUS
  <2> QED BY <2>1, WFMin
<1>5. PICK h \in FreeHandles : \A g \in FreeHandles : ~(<<g, h>> \in R)
  BY <1>1, <1>4, Zenon
<1>6. \A g \in FreeHandles : h <= g
  <2> SUFFICES ASSUME NEW g \in FreeHandles PROVE h <= g
    OBVIOUS
  <2>1. h \in Nat /\ g \in Nat
    BY <1>1
  <2>2. ~(g < h)
    BY <1>3, <1>5, <2>1
  <2> QED BY <2>1, <2>2
<1> QED BY <1>6 DEF free_handle

-----------------------------------------------------------------------------
\* The tree: what is there is in folders, all the way up, and the read-only
\* mounts have what they had.
TreeOK(tr) ==
    /\ tr \in [Paths -> Nodes]
    /\ \A p, q \in Paths : OnTheWay(q, p) /\ Len(q) < Len(p) /\ tr[p] # "none" => tr[q] = "folder"
    /\ \A p \in Paths : p[1] \in ReadOnly => tr[p] = Kept(p)

\* The folders of the temporary files are there, all the way up.
FoldersOK(tr, ts) ==
    /\ ts \subseteq Temps
    /\ \A t \in ts : \A q \in Paths : OnTheWay(q, t.at) => tr[q] = "folder"

\* A temporary file is in a mount's folder or at a path.
LEMMA TempsAre ==
    ASSUME NEW t \in Temps
    PROVE  /\ t.at \in Seq(Components) /\ Len(t.at) \in Nat /\ Len(t.at) >= 1
           /\ Len(t.at) > 1 => t.at \in Paths
           /\ t.id \in TempIds /\ t = Temp(t.id, t.at)
<1>1. PICK k \in TempIds, p \in Paths : t = Temp(k, Front(p))
  BY DEF Temps
<1> QED BY <1>1, FrontIs, PathsAreSeqs DEF Temp

\* A file or a folder made in a folder.
LEMMA TreeMade ==
    ASSUME NEW tr, NEW ts, TreeOK(tr), FoldersOK(tr, ts), NEW p \in Paths, NEW v \in Nodes,
           p[1] \notin ReadOnly, tr[p] # "folder",
           Len(p) = 2 \/ tr[Front(p)] = "folder"
    PROVE  TreeOK([tr EXCEPT ![p] = v]) /\ FoldersOK([tr EXCEPT ![p] = v], ts)
<1> DEFINE tn == [tr EXCEPT ![p] = v]
<1>1. tn \in [Paths -> Nodes] /\ \A q \in Paths : tn[q] = IF q = p THEN v ELSE tr[q]
  BY DEF TreeOK
<1>2. ASSUME NEW a \in Paths, NEW b \in Paths, OnTheWay(b, a), Len(b) < Len(a), tn[a] # "none"
      PROVE  tn[b] = "folder"
  <2>1. a \in Seq(Components) /\ b \in Seq(Components) /\ Len(a) \in Nat /\ Len(b) \in Nat /\ Len(b) > 1
    BY PathsAreSeqs
  <2>2. CASE a # p
    BY <1>1, <1>2, <2>2 DEF TreeOK
  <2>3. CASE a = p
    <3>1. Len(p) > 2 /\ tr[Front(p)] = "folder" /\ b # p
      BY <1>2, <2>1, <2>3
    <3>2. Front(p) \in Paths /\ Len(Front(p)) = Len(p) - 1 /\ OnTheWay(b, Front(p))
      <4>1. /\ Front(p) \in Paths /\ Len(Front(p)) = Len(p) - 1
            /\ \A i \in 1 .. Len(p) - 1 : Front(p)[i] = p[i]
        BY <3>1, FrontIs
      <4>2. \A i \in 1 .. Len(b) : i \in 1 .. Len(p) - 1 /\ b[i] = p[i]
        BY <1>2, <2>1, <2>3 DEF OnTheWay
      <4>3. Len(b) <= Len(p) - 1
        BY <1>2, <2>1, <2>3
      <4> QED BY <4>1, <4>2, <4>3 DEF OnTheWay
    <3>3. tr[b] = "folder"
      <4>1. CASE b = Front(p)
        BY <4>1, <3>1
      <4>2. CASE Len(b) < Len(Front(p))
        BY <4>2, <3>1, <3>2 DEF TreeOK
      <4>3. CASE Len(b) = Len(Front(p))
        BY <4>1, <4>3, <3>2, <2>1, SameOnTheWay, PathsAreSeqs
      <4> QED BY <4>1, <4>2, <4>3, <3>2, <2>1, <1>2, <2>3
    <3> QED BY <1>1, <3>1, <3>3
  <2> QED BY <2>2, <2>3
<1>3. \A q \in Paths : q[1] \in ReadOnly => tn[q] = Kept(q)
  BY <1>1 DEF TreeOK
<1>4. ASSUME NEW t \in ts, NEW q \in Paths, OnTheWay(q, t.at) PROVE tn[q] = "folder"
  BY <1>1, <1>4 DEF FoldersOK
<1> HIDE DEF tn
<1>5. TreeOK(tn)
  BY <1>1, <1>2, <1>3 DEF TreeOK
<1>6. FoldersOK(tn, ts)
  BY <1>4 DEF FoldersOK
<1> QED BY <1>5, <1>6 DEF tn

\* Nothing is below what is no folder, or is an empty one.
LEMMA NothingBelow ==
    ASSUME NEW tr, NEW ts, TreeOK(tr), FoldersOK(tr, ts), NEW p \in Paths,
           \/ tr[p] # "folder"
           \/ /\ \A q \in Paths : Front(q) = p => tr[q] = "none"
              /\ \A t \in ts : t.at # p
    PROVE  /\ \A a \in Paths : OnTheWay(p, a) /\ a # p => tr[a] = "none"
           /\ \A t \in ts : ~OnTheWay(p, t.at)
<1>p. p \in Seq(Components) /\ Len(p) \in Nat /\ Len(p) > 1
  BY PathsAreSeqs
<1>2. ASSUME NEW a \in Paths, OnTheWay(p, a), a # p PROVE tr[a] = "none"
  <2>1. a \in Seq(Components) /\ Len(a) \in Nat
    BY PathsAreSeqs
  <2>2. Len(p) < Len(a)
    BY <1>2, <1>p, <2>1, SameOnTheWay DEF OnTheWay
  <2>3. CASE tr[p] # "folder"
    BY <1>2, <2>2, <2>3 DEF TreeOK
  <2>4. CASE \A q \in Paths : Front(q) = p => tr[q] = "none"
    <3> DEFINE r == SubSeq(a, 1, Len(p) + 1)
    <3>1. Len(p) + 1 \in 0 .. Len(a) /\ Len(p) + 1 \in 2 .. Len(a)
      BY <1>p, <2>1, <2>2
    <3>2. r \in Paths
      BY <3>1, StoreAssumption
    <3>3. r \in Seq(Components) /\ Len(r) = Len(p) + 1 /\ \A i \in 1 .. Len(p) + 1 : r[i] = a[i]
      BY <2>1, <3>1, SubSeqIs
    <3> HIDE DEF r
    <3>4. OnTheWay(r, a)
      BY <1>p, <2>1, <2>2, <3>3 DEF OnTheWay
    <3>5. Front(r) = p
      <4>1. /\ Front(r) \in Seq(Components) /\ Len(Front(r)) = Len(p)
            /\ \A i \in 1 .. Len(p) : Front(r)[i] = r[i]
        BY <3>2, <3>3, <1>p, FrontIs
      <4>2. \A i \in 1 .. Len(p) : Front(r)[i] = p[i]
        BY <4>1, <3>3, <1>2, <1>p DEF OnTheWay
      <4>3. \A i \in 1 .. Len(Front(r)) : Front(r)[i] = p[i]
        BY <4>1, <4>2
      <4> QED BY <4>1, <4>3, <1>p, SeqEqual
    <3>6. tr[r] = "none"
      BY <2>4, <3>2, <3>5
    <3>7. CASE a = r
      BY <3>6, <3>7
    <3>8. CASE a # r
      <4>1. Len(r) < Len(a)
        BY <3>3, <3>4, <3>8, <2>1, <1>p, SameOnTheWay DEF OnTheWay
      <4> QED BY <4>1, <3>2, <3>4, <3>6 DEF TreeOK
    <3> QED BY <3>7, <3>8
  <2> QED BY <2>3, <2>4
<1>3. ASSUME NEW t \in ts, OnTheWay(p, t.at) PROVE FALSE
  <2>1. tr[p] = "folder" /\ t \in Temps
    BY <1>3 DEF FoldersOK
  <2>2. t.at \in Seq(Components) /\ Len(t.at) \in Nat /\ (Len(t.at) > 1 => t.at \in Paths)
    BY <2>1, TempsAre
  <2>3. t.at \in Paths
    BY <1>3, <2>2, <1>p DEF OnTheWay
  <2>4. OnTheWay(t.at, t.at)
    BY <2>2 DEF OnTheWay
  <2>5. tr[t.at] = "folder"
    BY <2>3, <2>4 DEF FoldersOK
  <2>6. t.at = p
    BY <1>2, <1>3, <2>3, <2>5
  <2> QED BY <2>1, <2>6
<1> QED BY <1>2, <1>3

\* A file, or a folder with nothing in it, removed.
LEMMA TreeRemoved ==
    ASSUME NEW tr, NEW ts, TreeOK(tr), FoldersOK(tr, ts), NEW p \in Paths, p[1] \notin ReadOnly,
           \/ tr[p] # "folder"
           \/ /\ \A q \in Paths : Front(q) = p => tr[q] = "none"
              /\ \A t \in ts : t.at # p
    PROVE  TreeOK([tr EXCEPT ![p] = "none"]) /\ FoldersOK([tr EXCEPT ![p] = "none"], ts)
<1> DEFINE tn == [tr EXCEPT ![p] = "none"]
<1>1. tn \in [Paths -> Nodes] /\ \A q \in Paths : tn[q] = IF q = p THEN "none" ELSE tr[q]
  BY DEF TreeOK, Nodes
<1>p. p \in Seq(Components) /\ Len(p) \in Nat /\ Len(p) > 1
  BY PathsAreSeqs
<1>2. /\ \A a \in Paths : OnTheWay(p, a) /\ a # p => tr[a] = "none"
      /\ \A t \in ts : ~OnTheWay(p, t.at)
  BY NothingBelow
<1>3. ASSUME NEW a \in Paths, NEW b \in Paths, OnTheWay(b, a), Len(b) < Len(a), tn[a] # "none"
      PROVE  tn[b] = "folder"
  <2>1. a # p /\ tr[a] # "none" /\ tr[b] = "folder"
    BY <1>1, <1>3 DEF TreeOK
  <2>2. b # p
    BY <1>2, <1>3, <2>1
  <2> QED BY <1>1, <2>1, <2>2
<1>4. \A q \in Paths : q[1] \in ReadOnly => tn[q] = Kept(q)
  BY <1>1 DEF TreeOK
<1>5. ASSUME NEW t \in ts, NEW q \in Paths, OnTheWay(q, t.at) PROVE tn[q] = "folder"
  BY <1>1, <1>2, <1>5 DEF FoldersOK
<1> HIDE DEF tn
<1>6. TreeOK(tn)
  BY <1>1, <1>3, <1>4 DEF TreeOK
<1>7. FoldersOK(tn, ts)
  BY <1>5 DEF FoldersOK
<1> QED BY <1>6, <1>7 DEF tn

\* Where what is at or below `to` comes from when f is renamed to it.
LEMMA MovedIs ==
    ASSUME NEW f \in Paths, NEW to \in Paths, Len(f) = Len(to), NEW p \in Paths, OnTheWay(to, p)
    PROVE  LET x == f \o Below(to, p)
           IN  /\ x \in Seq(Components) /\ Len(x) = Len(p)
               /\ \A i \in 1 .. Len(p) : x[i] = IF i <= Len(f) THEN f[i] ELSE p[i]
<1> DEFINE b == Below(to, p)
<1>1. /\ f \in Seq(Components) /\ to \in Seq(Components) /\ p \in Seq(Components)
      /\ Len(f) \in Nat /\ Len(to) \in Nat /\ Len(p) \in Nat /\ Len(to) <= Len(p)
  BY PathsAreSeqs DEF OnTheWay
<1>2. \A i \in Len(to) + 1 .. Len(p) : p[i] \in Components
  BY <1>1, ElementOfSeq
<1>3. /\ b \in Seq(Components)
      /\ Len(b) = IF Len(to) + 1 <= Len(p) THEN Len(p) - (Len(to) + 1) + 1 ELSE 0
      /\ \A i \in 1 .. Len(p) - (Len(to) + 1) + 1 : b[i] = p[Len(to) + 1 + i - 1]
  BY <1>1, <1>2, SubSeqProperties DEF Below
<1>4. Len(b) = Len(p) - Len(to)
  BY <1>1, <1>3
<1>5. \A i \in 1 .. Len(p) - Len(to) : b[i] = p[Len(to) + i]
  BY <1>1, <1>3
<1> HIDE DEF b
<1>6. /\ f \o b \in Seq(Components) /\ Len(f \o b) = Len(f) + Len(b)
      /\ \A i \in 1 .. Len(f) + Len(b) : (f \o b)[i] = IF i <= Len(f) THEN f[i] ELSE b[i - Len(f)]
  BY <1>1, <1>3, ConcatProperties
<1>7. Len(f \o b) = Len(p)
  BY <1>1, <1>4, <1>6
<1>8. ASSUME NEW i \in 1 .. Len(p) PROVE (f \o b)[i] = IF i <= Len(f) THEN f[i] ELSE p[i]
  <2>1. CASE i <= Len(f)
    BY <2>1, <1>1, <1>4, <1>6
  <2>2. CASE ~(i <= Len(f))
    <3>1. i - Len(f) \in 1 .. Len(p) - Len(to) /\ Len(to) + (i - Len(f)) = i
      BY <2>2, <1>1
    <3>2. b[i - Len(f)] = p[i]
      BY <3>1, <1>5
    <3>3. (f \o b)[i] = b[i - Len(f)]
      BY <2>2, <1>1, <1>4, <1>6
    <3> QED BY <2>2, <3>2, <3>3
  <2> QED BY <2>1, <2>2
<1> QED BY <1>6, <1>7, <1>8 DEF b

\* A name f that may be renamed to `to`, and the tree after it.
Movable(tr, ts, f, to) ==
    /\ f \in Paths /\ to \in Paths /\ Len(f) = Len(to) /\ f[1] = to[1] /\ to[1] \notin ReadOnly
    /\ Len(to) = 2 \/ tr[Front(to)] = "folder"
    /\ \/ tr[to] # "folder"
       \/ /\ \A q \in Paths : Front(q) = to => tr[q] = "none"
          /\ \A t \in ts : t.at # to
    /\ \A t \in ts : ~OnTheWay(f, t.at)
Moved(tr, tn, f, to) ==
    /\ tn \in [Paths -> Nodes]
    /\ \A p \in Paths : tn[p] =
         IF OnTheWay(to, p)
         THEN IF f \o Below(to, p) \in Paths THEN tr[f \o Below(to, p)] ELSE "none"
         ELSE IF OnTheWay(f, p) THEN "none" ELSE tr[p]

\* A name renamed, with what is below it.
LEMMA TreeMoved ==
    ASSUME NEW tr, NEW ts, NEW f, NEW to, NEW tn,
           TreeOK(tr), FoldersOK(tr, ts), Movable(tr, ts, f, to), Moved(tr, tn, f, to)
    PROVE  TreeOK(tn) /\ FoldersOK(tn, ts)
<1>0. /\ f \in Paths /\ to \in Paths /\ Len(f) = Len(to) /\ f[1] = to[1] /\ to[1] \notin ReadOnly
      /\ Len(to) = 2 \/ tr[Front(to)] = "folder"
      /\ \/ tr[to] # "folder"
         \/ /\ \A q \in Paths : Front(q) = to => tr[q] = "none"
            /\ \A t \in ts : t.at # to
      /\ \A t \in ts : ~OnTheWay(f, t.at)
      /\ tn \in [Paths -> Nodes]
      /\ \A p \in Paths : tn[p] =
           IF OnTheWay(to, p)
           THEN IF f \o Below(to, p) \in Paths THEN tr[f \o Below(to, p)] ELSE "none"
           ELSE IF OnTheWay(f, p) THEN "none" ELSE tr[p]
  BY DEF Movable, Moved
<1> USE <1>0
<1>1. /\ f \in Seq(Components) /\ to \in Seq(Components)
      /\ Len(f) \in Nat /\ Len(to) \in Nat /\ Len(f) > 1
  BY PathsAreSeqs
<1>2. ASSUME NEW a \in Paths, NEW b \in Paths, OnTheWay(b, a), Len(b) < Len(a), tn[a] # "none"
      PROVE  tn[b] = "folder"
  <2>1. a \in Seq(Components) /\ b \in Seq(Components) /\ Len(a) \in Nat /\ Len(b) \in Nat /\ Len(b) > 1
    BY PathsAreSeqs
  <2>2. CASE ~OnTheWay(to, a)
    <3>1. ~OnTheWay(f, a) /\ tr[a] # "none"
      BY <1>2, <2>2
    <3>2. tr[b] = "folder"
      BY <1>2, <3>1 DEF TreeOK
    <3>3. ~OnTheWay(to, b) /\ ~OnTheWay(f, b)
      BY <1>1, <1>2, <2>1, <2>2, <3>1 DEF OnTheWay
    <3> QED BY <3>2, <3>3
  <2>3. CASE OnTheWay(to, a) /\ ~OnTheWay(to, b)
    <3>1. Len(b) < Len(to) /\ \A i \in 1 .. Len(b) : b[i] = to[i]
      BY <1>1, <1>2, <2>1, <2>3 DEF OnTheWay
    <3>2. Len(to) > 2 /\ tr[Front(to)] = "folder"
      <4>1. \A m, n \in Nat : m > 1 /\ m < n => n > 2
        OBVIOUS
      <4>2. Len(to) > 2
        BY <1>1, <2>1, <3>1, <4>1
      <4> QED BY <4>2
    <3>3. /\ Front(to) \in Paths /\ Front(to) \in Seq(Components) /\ Len(Front(to)) = Len(to) - 1
          /\ \A i \in 1 .. Len(to) - 1 : Front(to)[i] = to[i]
      BY <3>2, FrontIs
    <3>4. OnTheWay(b, Front(to))
      <4>1. Len(b) <= Len(Front(to)) /\ \A i \in 1 .. Len(b) : i \in 1 .. Len(to) - 1
        BY <1>1, <2>1, <3>1, <3>3
      <4>2. \A i \in 1 .. Len(b) : b[i] = Front(to)[i]
        BY <3>1, <3>3, <4>1
      <4> QED BY <4>1, <4>2 DEF OnTheWay
    <3>5. tr[b] = "folder"
      <4>1. CASE Len(b) = Len(Front(to))
        BY <4>1, <2>1, <3>2, <3>3, <3>4, SameOnTheWay
      <4>2. CASE Len(b) < Len(Front(to))
        BY <4>2, <3>2, <3>3, <3>4 DEF TreeOK
      <4> QED BY <4>1, <4>2, <1>1, <2>1, <3>1, <3>3
    <3>6. ~OnTheWay(f, b)
      BY <1>1, <2>1, <3>1 DEF OnTheWay
    <3> QED BY <2>3, <3>5, <3>6
  <2>4. CASE OnTheWay(to, a) /\ OnTheWay(to, b)
    <3> DEFINE x == f \o Below(to, a)
               y == f \o Below(to, b)
    <3>1. /\ x \in Seq(Components) /\ Len(x) = Len(a)
          /\ \A i \in 1 .. Len(a) : x[i] = IF i <= Len(f) THEN f[i] ELSE a[i]
      BY <2>4, MovedIs
    <3>2. /\ y \in Seq(Components) /\ Len(y) = Len(b)
          /\ \A i \in 1 .. Len(b) : y[i] = IF i <= Len(f) THEN f[i] ELSE b[i]
      BY <2>4, MovedIs
    <3>3. x \in Paths /\ tr[x] # "none"
      BY <1>2, <2>4
    <3>4. tn[b] = IF y \in Paths THEN tr[y] ELSE "none"
      BY <2>4
    <3> HIDE DEF x, y
    <3>5. OnTheWay(y, x) /\ Len(y) < Len(x)
      BY <1>2, <2>1, <3>1, <3>2 DEF OnTheWay
    <3>6. SubSeq(x, 1, Len(y)) \in Paths
      <4>1. Len(y) \in 2 .. Len(x)
        BY <2>1, <3>2, <3>5, <3>1
      <4> QED BY <4>1, <3>3, StoreAssumption
    <3>7. SubSeq(x, 1, Len(y)) = y
      <4>1. Len(y) \in 0 .. Len(x)
        BY <2>1, <3>2, <3>5, <3>1
      <4>2. /\ SubSeq(x, 1, Len(y)) \in Seq(Components) /\ Len(SubSeq(x, 1, Len(y))) = Len(y)
            /\ \A i \in 1 .. Len(y) : SubSeq(x, 1, Len(y))[i] = x[i]
        BY <4>1, <3>1, SubSeqIs
      <4>3. \A i \in 1 .. Len(y) : y[i] = SubSeq(x, 1, Len(y))[i]
        BY <4>2, <3>5 DEF OnTheWay
      <4> QED BY <4>2, <4>3, <3>2, SeqEqual
    <3>8. y \in Paths /\ tr[y] = "folder"
      BY <3>3, <3>5, <3>6, <3>7 DEF TreeOK
    <3> QED BY <3>4, <3>8
  <2> QED BY <2>2, <2>3, <2>4
<1>3. ASSUME NEW q \in Paths, q[1] \in ReadOnly PROVE tn[q] = Kept(q)
  <2>1. ~OnTheWay(to, q) /\ ~OnTheWay(f, q)
    BY <1>1, <1>3 DEF OnTheWay
  <2> QED BY <1>3, <2>1 DEF TreeOK
<1>4. ASSUME NEW t \in ts, NEW q \in Paths, OnTheWay(q, t.at) PROVE tn[q] = "folder"
  <2>1. tr[q] = "folder" /\ t \in Temps
    BY <1>4 DEF FoldersOK
  <2>2. t.at \in Seq(Components) /\ Len(t.at) \in Nat /\ Len(q) \in Nat
    BY <2>1, TempsAre, PathsAreSeqs
  <2>3. ~OnTheWay(to, t.at) /\ ~OnTheWay(f, t.at)
    <3>1. \A u \in ts : ~OnTheWay(to, u.at)
      BY NothingBelow
    <3> QED BY <3>1
  <2>4. ~OnTheWay(to, q) /\ ~OnTheWay(f, q)
    BY <1>1, <1>4, <2>2, <2>3, WayOfWay
  <2> QED BY <2>1, <2>4
<1> QED BY <1>2, <1>3, <1>4 DEF TreeOK, FoldersOK

-----------------------------------------------------------------------------
WriteStates ==
    [k : {"write"}, temp : Temps, target : Paths, noreplace : BOOLEAN, held : Nat, len : Nat]

WriteOK(w) ==
    w.temp.at = Front(w.target) /\ w.target[1] \notin ReadOnly /\ w.held <= w.len /\ w.len <= MaxLen

\* The handles: a write's temporary file is beside its target, and its own.
HandlesOK(hs) ==
    /\ hs \in [Handles -> {Free, Reading} \cup WriteStates]
    /\ \A h \in Handles : hs[h].k = "write" => WriteOK(hs[h])
    /\ \A g, h \in Handles :
         hs[g].k = "write" /\ hs[h].k = "write" /\ g # h => hs[g].temp # hs[h].temp

\* What a rename under way moves: a name with no write open below it, or the
\* temporary file of a write no handle has any more.
NameMoves(f, to) ==
    f.id = 0 /\ f.at \in Paths /\ Len(f.at) = Len(to) /\ f.at[1] = to[1] /\ ~OpenBelow(f.at)
TempOf(t, p) ==
    t \in Temps /\ t.at = Front(p) /\ \A h \in Handles : handle(h, "write") => handles[h].temp # t

BusyOK ==
    /\ busy.op \in {"idle", "make", "copy", "noreplace", "rename", "target", "delete", "create"}
    /\ busy.op \in {"make", "copy", "delete", "create"} =>
         busy.at \in Paths /\ busy.at[1] \notin ReadOnly
    /\ busy.op \in {"make", "copy"} => FreeHandles # {} /\ busy.noreplace \in BOOLEAN
    /\ busy.op = "copy" => TempOf(busy.temp, busy.at)
    /\ busy.op \in {"target", "noreplace", "rename"} =>
         busy.to \in Paths /\ busy.to[1] \notin ReadOnly
    /\ busy.op = "target" => NameMoves(busy.from, busy.to)
    /\ busy.op \in {"noreplace", "rename"} =>
         NameMoves(busy.from, busy.to) \/ TempOf(busy.from, busy.to)

\* The file commands' inductive invariant.
StoreInv ==
    /\ default \in Defaults /\ flag \in BOOLEAN
    /\ TreeOK(tree) /\ FoldersOK(tree, temps) /\ TempsAreOpenWrites
    /\ HandlesOK(handles) /\ BusyOK

HandTemps(hs) == {hs[h].temp : h \in {g \in Handles : hs[g].k = "write"}}
BusyTemps(b) ==
    (IF b.op = "copy" THEN {b.temp} ELSE {})
      \cup (IF b.op \in {"noreplace", "rename"} /\ b.from.id # 0 THEN {b.from} ELSE {})

\* The writes' temporary files are the handles' and the command's.
LEMMA InHandIs == InHand = HandTemps(handles) \cup BusyTemps(busy)
BY DEF InHand, HandTemps, BusyTemps, handle

\* A handle let go, or opened for reading.
LEMMA HandleFreed ==
    ASSUME NEW hs, HandlesOK(hs), NEW h \in Handles, NEW v \in {Free, Reading}
    PROVE  LET hn == [hs EXCEPT ![h] = v]
           IN  /\ HandlesOK(hn)
               /\ hn[h] = v /\ \A g \in Handles : g # h => hn[g] = hs[g]
               /\ hs[h].k = "write" => HandTemps(hn) = HandTemps(hs) \ {hs[h].temp}
               /\ hs[h].k # "write" => HandTemps(hn) = HandTemps(hs)
<1> DEFINE hn == [hs EXCEPT ![h] = v]
<1>1. /\ hn \in [Handles -> {Free, Reading} \cup WriteStates]
      /\ hn[h] = v /\ \A g \in Handles : g # h => hn[g] = hs[g]
  BY DEF HandlesOK
<1> HIDE DEF hn
<1>2. v.k # "write"
  BY DEF Free, Reading
<1>3. \A g \in Handles : hn[g].k = "write" => g # h /\ hs[g].k = "write" /\ hn[g] = hs[g]
  BY <1>1, <1>2
<1>4. HandlesOK(hn)
  BY <1>1, <1>3 DEF HandlesOK
<1>5. ASSUME hs[h].k = "write" PROVE HandTemps(hn) = HandTemps(hs) \ {hs[h].temp}
  BY <1>1, <1>2, <1>3, <1>5 DEF HandTemps, HandlesOK
<1>6. ASSUME hs[h].k # "write" PROVE HandTemps(hn) = HandTemps(hs)
  BY <1>1, <1>2, <1>3, <1>6 DEF HandTemps
<1> QED BY <1>1, <1>4, <1>5, <1>6 DEF hn

\* A handle opened for writing.
LEMMA HandleWrites ==
    ASSUME NEW hs, HandlesOK(hs), NEW h \in Handles, hs[h].k # "write"
    PROVE  \A t \in Temps, to \in Paths, nr \in BOOLEAN, n \in 0 .. MaxLen :
             t.at = Front(to) /\ to[1] \notin ReadOnly /\ t \notin HandTemps(hs) =>
               LET hn == [hs EXCEPT ![h] = Writing(t, to, nr, n)]
               IN  HandlesOK(hn) /\ HandTemps(hn) = HandTemps(hs) \cup {t}
<1> SUFFICES ASSUME NEW t \in Temps, NEW to \in Paths, NEW nr \in BOOLEAN, NEW n \in 0 .. MaxLen,
                    t.at = Front(to), to[1] \notin ReadOnly, t \notin HandTemps(hs)
             PROVE  LET hn == [hs EXCEPT ![h] = Writing(t, to, nr, n)]
                    IN  HandlesOK(hn) /\ HandTemps(hn) = HandTemps(hs) \cup {t}
  OBVIOUS
<1> DEFINE w == Writing(t, to, nr, n)
           hn == [hs EXCEPT ![h] = w]
<1>1. w \in WriteStates /\ w.k = "write" /\ WriteOK(w) /\ w.temp = t
  BY StoreAssumption DEF Writing, WriteStates, WriteOK
<1> HIDE DEF w
<1>2. /\ hn \in [Handles -> {Free, Reading} \cup WriteStates]
      /\ hn[h] = w /\ \A g \in Handles : g # h => hn[g] = hs[g]
  BY <1>1 DEF HandlesOK
<1> HIDE DEF hn
<1>3. \A g \in Handles : hs[g].k = "write" => hs[g].temp # t
  BY DEF HandTemps
<1>4. HandlesOK(hn)
  <2>1. \A g \in Handles : hn[g].k = "write" => WriteOK(hn[g])
    BY <1>1, <1>2 DEF HandlesOK
  <2>2. ASSUME NEW a \in Handles, NEW b \in Handles, hn[a].k = "write", hn[b].k = "write", a # b
        PROVE  hn[a].temp # hn[b].temp
    BY <1>1, <1>2, <1>3, <2>2 DEF HandlesOK
  <2> QED BY <1>2, <2>1, <2>2 DEF HandlesOK
<1>5. HandTemps(hn) = HandTemps(hs) \cup {t}
  BY <1>1, <1>2 DEF HandTemps
<1> QED BY <1>4, <1>5 DEF hn, w

\* A write's lengths grow.
LEMMA HandleGrows ==
    ASSUME NEW hs, HandlesOK(hs), NEW h \in Handles, hs[h].k = "write"
    PROVE  \A a, b \in Nat : a <= b /\ b <= MaxLen =>
             LET hn == [hs EXCEPT ![h] = [hs[h] EXCEPT !.held = a, !.len = b]]
             IN  HandlesOK(hn) /\ HandTemps(hn) = HandTemps(hs)
<1> SUFFICES ASSUME NEW a \in Nat, NEW b \in Nat, a <= b, b <= MaxLen,
                    NEW hn, hn = [hs EXCEPT ![h] = [hs[h] EXCEPT !.held = a, !.len = b]]
             PROVE  HandlesOK(hn) /\ HandTemps(hn) = HandTemps(hs)
  OBVIOUS
<1> DEFINE w == [hs[h] EXCEPT !.held = a, !.len = b]
<1>1. hs[h] \in WriteStates
  BY DEF HandlesOK, Free, Reading
<1>2. /\ w \in WriteStates /\ w.k = "write" /\ w.temp = hs[h].temp /\ w.target = hs[h].target
      /\ w.held = a /\ w.len = b
  BY <1>1 DEF WriteStates
<1>3. WriteOK(w)
  BY <1>2 DEF WriteOK, HandlesOK
<1> HIDE DEF w
<1>4. hn = [hs EXCEPT ![h] = w]
  BY DEF w
<1>5. /\ hn \in [Handles -> {Free, Reading} \cup WriteStates]
      /\ hn[h] = w /\ \A g \in Handles : g # h => hn[g] = hs[g]
  BY <1>2, <1>4 DEF HandlesOK
<1>6. \A g \in Handles : hn[g].k = hs[g].k /\ (hs[g].k = "write" => hn[g].temp = hs[g].temp)
  BY <1>2, <1>5
<1>7. HandlesOK(hn)
  BY <1>3, <1>5, <1>6 DEF HandlesOK
<1>8. HandTemps(hn) = HandTemps(hs)
  BY <1>6 DEF HandTemps
<1> QED BY <1>7, <1>8

-----------------------------------------------------------------------------
\* The invariant, from its parts after a step.
LEMMA StoreInvFrom ==
    ASSUME StoreInv, UNCHANGED <<default, flag>>, TreeOK(tree'), FoldersOK(tree', temps'),
           HandlesOK(handles'), BusyOK', temps' = HandTemps(handles') \cup BusyTemps(busy')
    PROVE  StoreInv'
<1>1. InHand' = HandTemps(handles') \cup BusyTemps(busy')
  BY DEF InHand, HandTemps, BusyTemps, handle
<1> QED BY <1>1 DEF StoreInv, TempsAreOpenWrites

\* The parts of the invariant.
LEMMA StoreInvIs ==
    ASSUME StoreInv
    PROVE  /\ default \in Defaults /\ flag \in BOOLEAN
           /\ TreeOK(tree) /\ FoldersOK(tree, temps) /\ HandlesOK(handles) /\ BusyOK
           /\ temps = HandTemps(handles) \cup BusyTemps(busy)
BY InHandIs DEF StoreInv, TempsAreOpenWrites

\* Between commands nothing is under way.
LEMMA BusyIdle ==
    /\ BusyTemps(NoCommand) = {}
    /\ busy' = NoCommand => BusyOK'
BY DEF BusyTemps, NoCommand, BusyOK

\* A name the machine may write at is a path.
LEMMA PlaceIs ==
    ASSUME NEW n \in Names, default \in Defaults, Len(place(n)) > 1, place(n)[1] \notin ReadOnly
    PROVE  place(n) \in Paths
BY StoreAssumption DEF place

\* OPEN for reading takes a handle.
LEMMA OpenReadKeeps ==
    ASSUME StoreInv, NEW n \in Names, OpenRead(n) PROVE StoreInv'
<1>1. /\ TreeOK(tree) /\ FoldersOK(tree, temps) /\ HandlesOK(handles)
      /\ temps = HandTemps(handles) \cup BusyTemps(busy)
  BY StoreInvIs
<1>2. free_handle \in Handles /\ handles[free_handle].k # "write"
  BY FreeHandleIs DEF OpenRead, FreeHandles, handle
<1>3. /\ handles' = [handles EXCEPT ![free_handle] = Reading] /\ busy = NoCommand
      /\ UNCHANGED <<default, flag, tree, temps, busy>>
  BY DEF OpenRead
<1>4. HandlesOK(handles') /\ HandTemps(handles') = HandTemps(handles)
  BY <1>1, <1>2, <1>3, HandleFreed
<1> QED BY <1>1, <1>3, <1>4, BusyIdle, StoreInvFrom

\* A command that goes on to its next call.
LEMMA GotoKeeps ==
    ASSUME StoreInv, NEW b, Goto(b), BusyOK', BusyTemps(b) = BusyTemps(busy) PROVE StoreInv'
<1>1. /\ TreeOK(tree) /\ FoldersOK(tree, temps) /\ HandlesOK(handles)
      /\ temps = HandTemps(handles) \cup BusyTemps(busy)
  BY StoreInvIs
<1>2. busy' = b /\ UNCHANGED <<default, flag, tree, temps, handles>>
  BY DEF Goto
<1> QED BY <1>1, <1>2, StoreInvFrom

\* The looks of OPEN for writing, DELETE and CREATE-DIRECTORY.
LEMMA LooksKeep ==
    ASSUME StoreInv, NEW n \in Names,
           \/ \E e \in 0 .. 2, z \in BOOLEAN : OpenWrite(n, e, z)
           \/ Delete(n) \/ CreateDirectory(n)
    PROVE  StoreInv'
<1>1. default \in Defaults
  BY DEF StoreInv
<1>2. busy = NoCommand /\ MayWrite(place(n))
  BY DEF OpenWrite, Delete, CreateDirectory
<1>3. place(n) \in Paths /\ place(n)[1] \notin ReadOnly
  BY <1>1, <1>2, PlaceIs DEF MayWrite
<1>4. CASE \E e \in 0 .. 2, z \in BOOLEAN : OpenWrite(n, e, z)
  <2>1. PICK e \in 0 .. 2, z \in BOOLEAN : OpenWrite(n, e, z)
    BY <1>4
  <2> DEFINE b == [op |-> "make", at |-> place(n), noreplace |-> e = 1, copy |-> e = 2 /\ IsFile(place(n))]
  <2>2. Goto(b) /\ FreeHandles # {}
    BY <2>1 DEF OpenWrite
  <2>3. BusyOK'
    BY <1>3, <2>2 DEF Goto, BusyOK, FreeHandles, handle
  <2>4. BusyTemps(b) = {}
    BY DEF BusyTemps
  <2> QED BY <1>2, <2>2, <2>3, <2>4, BusyIdle, GotoKeeps
<1>5. CASE Delete(n)
  <2> DEFINE b == [op |-> "delete", at |-> place(n), folder |-> IsDir(place(n))]
  <2>2. Goto(b)
    BY <1>5 DEF Delete
  <2>3. BusyOK'
    BY <1>3, <2>2 DEF Goto, BusyOK
  <2>4. BusyTemps(b) = {}
    BY DEF BusyTemps
  <2> QED BY <1>2, <2>2, <2>3, <2>4, BusyIdle, GotoKeeps
<1>6. CASE CreateDirectory(n)
  <2> DEFINE b == [op |-> "create", at |-> place(n)]
  <2>2. Goto(b)
    BY <1>6 DEF CreateDirectory
  <2>3. BusyOK'
    BY <1>3, <2>2 DEF Goto, BusyOK
  <2>4. BusyTemps(b) = {}
    BY DEF BusyTemps
  <2> QED BY <1>2, <2>2, <2>3, <2>4, BusyIdle, GotoKeeps
<1> QED BY <1>4, <1>5, <1>6

\* The looks of RENAME.
LEMMA RenameLooksKeep ==
    ASSUME StoreInv, MovesOpen = FALSE,
           (\E n \in Names, m \in Names : RenameFrom(n, m)) \/ RenameTo
    PROVE  StoreInv'
<1>1. default \in Defaults /\ BusyOK
  BY DEF StoreInv
<1>2. CASE \E n \in Names, m \in Names : RenameFrom(n, m)
  <2>1. PICK n \in Names, m \in Names : RenameFrom(n, m)
    BY <1>2
  <2> DEFINE p == place(n)
             q == place(m)
             b == [op |-> "target", from |-> Name(p), to |-> q]
  <2>2. /\ busy = NoCommand /\ Len(p) = Len(q) /\ p[1] = q[1] /\ q[1] \notin ReadOnly
        /\ p \in Paths /\ q \in Paths /\ ~OpenBelow(p) /\ Goto(b)
    BY <2>1, <1>1, PlaceIs DEF RenameFrom, MayWrite
  <2>3. /\ busy'.op = "target" /\ busy'.from = Name(p) /\ busy'.to = q
        /\ UNCHANGED handles
    BY <2>2 DEF Goto
  <2> HIDE DEF p, q
  <2>4. NameMoves(busy.from, busy.to)'
    BY <2>2, <2>3 DEF NameMoves, Name, OpenBelow, handle
  <2>5. BusyOK'
    BY <2>2, <2>3, <2>4 DEF BusyOK
  <2>6. BusyTemps(b) = {}
    BY DEF BusyTemps
  <2> QED BY <2>2, <2>5, <2>6, BusyIdle, GotoKeeps
<1>3. CASE RenameTo /\ MayWrite(busy.to) /\ At(busy.to) = "none"
  <2> DEFINE b == [op |-> "noreplace", from |-> busy.from, to |-> busy.to]
  <2>1. busy.op = "target" /\ Goto(b)
    BY <1>3 DEF RenameTo
  <2>2. NameMoves(busy.from, busy.to) /\ busy.to \in Paths /\ busy.to[1] \notin ReadOnly
    BY <1>1, <2>1 DEF BusyOK
  <2>3. /\ busy'.op = "noreplace" /\ busy'.from = busy.from /\ busy'.to = busy.to
        /\ UNCHANGED handles
    BY <2>1 DEF Goto
  <2>4. NameMoves(busy.from, busy.to)'
    BY <2>2, <2>3 DEF NameMoves, OpenBelow, handle
  <2>5. BusyOK'
    BY <2>2, <2>3, <2>4 DEF BusyOK
  <2>6. BusyTemps(b) = BusyTemps(busy)
    BY <2>1, <2>2 DEF BusyTemps, NameMoves
  <2> QED BY <2>1, <2>5, <2>6, GotoKeeps
<1>4. CASE RenameTo /\ ~(MayWrite(busy.to) /\ At(busy.to) = "none")
  <2>1. busy.op = "target" /\ Goto(NoCommand)
    BY <1>4 DEF RenameTo, Refuse, Answer, Goto
  <2>2. BusyTemps(busy) = {}
    BY <2>1 DEF BusyTemps
  <2>3. BusyOK'
    BY <2>1, BusyIdle DEF Goto
  <2> QED BY <2>1, <2>2, <2>3, BusyIdle, GotoKeeps
<1> QED BY <1>2, <1>3, <1>4

\* A folder that is there is in folders.
LEMMA FolderWay ==
    ASSUME TreeOK(tree), NEW p \in Paths, IsDir(Front(p)), NEW q \in Paths, OnTheWay(q, Front(p))
    PROVE  tree[q] = "folder"
<1>1. /\ Front(p) \in Seq(Components) /\ Len(Front(p)) = Len(p) - 1
      /\ Len(p) > 2 => Front(p) \in Paths
  BY FrontIs
<1>2. /\ Len(p) \in Nat /\ q \in Seq(Components) /\ Len(q) \in Nat /\ Len(q) > 1
  BY PathsAreSeqs
<1>3. Len(p) > 2 /\ Front(p) \in Paths /\ Len(q) <= Len(Front(p))
  BY <1>1, <1>2 DEF OnTheWay
<1>4. tree[Front(p)] = "folder"
  BY <1>1, <1>2, <1>3 DEF IsDir, At
<1>5. CASE Len(q) = Len(Front(p))
  BY <1>1, <1>2, <1>4, <1>5, SameOnTheWay
<1>6. CASE Len(q) < Len(Front(p))
  BY <1>3, <1>4, <1>6 DEF TreeOK
<1> QED BY <1>1, <1>2, <1>3, <1>5, <1>6

\* The temporary file of an OPEN for writing is made.
LEMMA MakeTempKeeps ==
    ASSUME StoreInv, NEW k \in TempIds, MakeTemp(k) PROVE StoreInv'
<1>1. /\ TreeOK(tree) /\ FoldersOK(tree, temps) /\ HandlesOK(handles) /\ BusyOK
      /\ temps = HandTemps(handles) \cup BusyTemps(busy)
  BY StoreInvIs
<1> DEFINE t == Temp(k, Front(busy.at))
<1>2. /\ busy.op = "make" /\ \A u \in temps : u.id # k
  BY DEF MakeTemp
<1>3. /\ busy.at \in Paths /\ busy.at[1] \notin ReadOnly /\ busy.noreplace \in BOOLEAN
      /\ FreeHandles # {} /\ BusyTemps(busy) = {}
  BY <1>1, <1>2 DEF BusyOK, BusyTemps
<1>4. CASE ~IsDir(Front(busy.at))
  <2>1. Goto(NoCommand)
    BY <1>4 DEF MakeTemp, Refuse, Answer, Goto
  <2>2. BusyOK'
    BY <2>1, BusyIdle DEF Goto
  <2> QED BY <1>3, <2>1, <2>2, BusyIdle, GotoKeeps
<1>5. CASE IsDir(Front(busy.at))
  <2>1. temps' = temps \cup {t} /\ UNCHANGED <<default, flag, tree>>
    BY <1>5 DEF MakeTemp
  <2>2. t \in Temps /\ t.id = k /\ t.at = Front(busy.at)
    <3>1. Front(busy.at) \in {Front(p) : p \in Paths}
      BY <1>3
    <3>2. t \in Temps
      BY <3>1 DEF Temps
    <3> QED BY <3>2 DEF Temp
  <2> HIDE DEF t
  <2>3. t \notin temps
    BY <1>2, <2>2
  <2>4. t \notin HandTemps(handles)
    BY <1>1, <2>3
  <2>5. FoldersOK(tree', temps')
    BY <1>1, <1>3, <1>5, <2>1, <2>2, FolderWay DEF FoldersOK
  <2>6. free_handle \in Handles /\ handles[free_handle].k # "write"
    BY <1>3, FreeHandleIs DEF FreeHandles, handle
  <2>7. CASE busy.copy
    <3>1. /\ busy' = [op |-> "copy", at |-> busy.at, noreplace |-> busy.noreplace, temp |-> t]
          /\ UNCHANGED handles
      BY <1>5, <2>7 DEF MakeTemp, t
    <3>2. /\ busy'.op = "copy" /\ busy'.at = busy.at /\ busy'.noreplace = busy.noreplace
          /\ busy'.temp = t
      BY <3>1
    <3>3. TempOf(busy.temp, busy.at)'
      BY <2>2, <2>4, <3>1, <3>2 DEF TempOf, HandTemps, handle
    <3>4. BusyOK'
      BY <1>3, <3>1, <3>2, <3>3 DEF BusyOK, FreeHandles, handle
    <3>5. BusyTemps(busy') = {t}
      BY <3>2 DEF BusyTemps
    <3> QED BY <1>1, <1>3, <2>1, <2>5, <3>1, <3>4, <3>5, StoreInvFrom
  <2>8. CASE ~busy.copy
    <3>1. /\ handles' = [handles EXCEPT ![free_handle] = Writing(t, busy.at, busy.noreplace, 0)]
          /\ busy' = NoCommand
      BY <1>5, <2>8 DEF MakeTemp, Answer, t
    <3>2. 0 \in 0 .. MaxLen
      BY StoreAssumption
    <3>3. HandlesOK(handles') /\ HandTemps(handles') = HandTemps(handles) \cup {t}
      <4>1. \A x \in Temps, to \in Paths, nr \in BOOLEAN, m \in 0 .. MaxLen :
              x.at = Front(to) /\ to[1] \notin ReadOnly /\ x \notin HandTemps(handles) =>
                LET hn == [handles EXCEPT ![free_handle] = Writing(x, to, nr, m)]
                IN  HandlesOK(hn) /\ HandTemps(hn) = HandTemps(handles) \cup {x}
        BY <1>1, <2>6, HandleWrites
      <4> QED BY <4>1, <1>3, <2>2, <2>4, <3>1, <3>2
    <3> QED BY <1>1, <1>3, <2>1, <2>5, <3>1, <3>3, BusyIdle, StoreInvFrom
  <2> QED BY <2>7, <2>8
<1> QED BY <1>4, <1>5

\* Append's copy, done or failed.
LEMMA CopyKeeps ==
    ASSUME StoreInv, CopyFails \/ \E n \in 0 .. MaxLen : Copy(n) PROVE StoreInv'
<1>1. /\ TreeOK(tree) /\ FoldersOK(tree, temps) /\ HandlesOK(handles) /\ BusyOK
      /\ temps = HandTemps(handles) \cup BusyTemps(busy)
  BY StoreInvIs
<1>2. busy.op = "copy" /\ busy' = NoCommand /\ UNCHANGED <<default, flag, tree>>
  BY DEF CopyFails, Copy, Answer
<1>3. /\ busy.at \in Paths /\ busy.at[1] \notin ReadOnly /\ busy.noreplace \in BOOLEAN
      /\ FreeHandles # {} /\ BusyTemps(busy) = {busy.temp}
      /\ busy.temp \in Temps /\ busy.temp.at = Front(busy.at) /\ busy.temp \notin HandTemps(handles)
  BY <1>1, <1>2 DEF BusyOK, BusyTemps, TempOf, HandTemps, handle
<1>4. CASE CopyFails
  <2>1. temps' = HandTemps(handles) /\ UNCHANGED handles
    BY <1>1, <1>3, <1>4 DEF CopyFails
  <2>2. FoldersOK(tree', temps')
    BY <1>1, <1>2, <2>1 DEF FoldersOK
  <2> QED BY <1>1, <1>2, <2>1, <2>2, BusyIdle, StoreInvFrom
<1>5. CASE \E n \in 0 .. MaxLen : Copy(n)
  <2>1. PICK n \in 0 .. MaxLen : Copy(n)
    BY <1>5
  <2>2. /\ handles' = [handles EXCEPT ![free_handle] = Writing(busy.temp, busy.at, busy.noreplace, n)]
        /\ UNCHANGED temps
    BY <2>1 DEF Copy
  <2>3. free_handle \in Handles /\ handles[free_handle].k # "write"
    BY <1>3, FreeHandleIs DEF FreeHandles, handle
  <2>4. HandlesOK(handles') /\ HandTemps(handles') = HandTemps(handles) \cup {busy.temp}
    <3>1. \A x \in Temps, to \in Paths, nr \in BOOLEAN, m \in 0 .. MaxLen :
            x.at = Front(to) /\ to[1] \notin ReadOnly /\ x \notin HandTemps(handles) =>
              LET hn == [handles EXCEPT ![free_handle] = Writing(x, to, nr, m)]
              IN  HandlesOK(hn) /\ HandTemps(hn) = HandTemps(handles) \cup {x}
      BY <1>1, <2>3, HandleWrites
    <3> QED BY <3>1, <1>3, <2>2
  <2> QED BY <1>1, <1>2, <1>3, <2>2, <2>4, BusyIdle, StoreInvFrom
<1> QED BY <1>4, <1>5

\* WRITE, whole or in part.
LEMMA WriteKeeps ==
    ASSUME StoreInv, NEW h \in Handles, NEW o \in 0 .. MaxLen, NEW n \in 0 .. MaxLen,
           Write(h, o, n) \/ \E k \in 0 .. n : WriteFails(h, o, n, k)
    PROVE  StoreInv'
<1>1. /\ TreeOK(tree) /\ FoldersOK(tree, temps) /\ HandlesOK(handles) /\ BusyOK
      /\ temps = HandTemps(handles) \cup BusyTemps(busy)
  BY StoreInvIs
<1>2. /\ busy = NoCommand /\ handles[h].k = "write" /\ o <= handles[h].held /\ o + n <= MaxLen
      /\ UNCHANGED <<default, flag, tree, temps, busy>>
  BY DEF Write, WriteFails, handle
<1> DEFINE w == handles[h]
<1>3. w \in WriteStates /\ WriteOK(w) /\ handles \in [Handles -> {Free, Reading} \cup WriteStates]
  BY <1>1, <1>2 DEF HandlesOK, Free, Reading
<1>4. w.held \in Nat /\ w.len \in Nat /\ w.held <= w.len /\ w.len <= MaxLen /\ MaxLen \in Nat
  BY <1>3, StoreAssumption DEF WriteStates, WriteOK
<1>g. \A a, b \in Nat : a <= b /\ b <= MaxLen =>
          LET hn == [handles EXCEPT ![h] = [w EXCEPT !.held = a, !.len = b]]
          IN  HandlesOK(hn) /\ HandTemps(hn) = HandTemps(handles)
  BY <1>1, <1>2, HandleGrows
<1>5. CASE Write(h, o, n)
  <2>1. handles' = [handles EXCEPT ![h] = [w EXCEPT !.held = Larger(w.held, o + n),
                                                    !.len = Larger(w.len, o + n)]]
    BY <1>3, <1>5 DEF Write, WriteStates
  <2>2. /\ Larger(w.held, o + n) \in Nat /\ Larger(w.len, o + n) \in Nat
        /\ Larger(w.held, o + n) <= Larger(w.len, o + n) /\ Larger(w.len, o + n) <= MaxLen
    BY <1>2, <1>4 DEF Larger
  <2>3. HandlesOK(handles') /\ HandTemps(handles') = HandTemps(handles)
    BY <1>g, <2>1, <2>2
  <2> QED BY <1>1, <1>2, <2>3, BusyIdle, StoreInvFrom
<1>6. CASE \E k \in 0 .. n : WriteFails(h, o, n, k)
  <2>0. PICK k \in 0 .. n : WriteFails(h, o, n, k)
    BY <1>6
  <2>1. handles' = [handles EXCEPT ![h] = [w EXCEPT !.held = w.held, !.len = Larger(w.len, o + k)]]
    BY <1>3, <2>0 DEF WriteFails, WriteStates
  <2>2. /\ Larger(w.len, o + k) \in Nat /\ w.held <= Larger(w.len, o + k)
        /\ Larger(w.len, o + k) <= MaxLen
    BY <1>2, <1>4, <2>0 DEF Larger
  <2>3. HandlesOK(handles') /\ HandTemps(handles') = HandTemps(handles)
    BY <1>g, <1>4, <2>1, <2>2
  <2> QED BY <1>1, <1>2, <2>3, BusyIdle, StoreInvFrom
<1> QED BY <1>5, <1>6

\* CLOSE, up to the rename.
LEMMA CloseKeeps ==
    ASSUME StoreInv, NEW h \in Handles, CloseRead(h) \/ CloseAbort(h) \/ CloseLand(h)
    PROVE  StoreInv'
<1>1. /\ TreeOK(tree) /\ FoldersOK(tree, temps) /\ HandlesOK(handles) /\ BusyOK
      /\ temps = HandTemps(handles) \cup BusyTemps(busy)
  BY StoreInvIs
<1>2. /\ busy = NoCommand /\ handles' = [handles EXCEPT ![h] = Free]
      /\ UNCHANGED <<default, flag, tree>> /\ temps = HandTemps(handles)
  BY <1>1, BusyIdle DEF CloseRead, CloseAbort, CloseLand, Discard
<1>3. /\ HandlesOK(handles')
      /\ handles'[h] = Free /\ \A g \in Handles : g # h => handles'[g] = handles[g]
      /\ handles[h].k = "write" => HandTemps(handles') = HandTemps(handles) \ {handles[h].temp}
      /\ handles[h].k # "write" => HandTemps(handles') = HandTemps(handles)
  <2>1. Free \in {Free, Reading}
    OBVIOUS
  <2>2. LET hn == [handles EXCEPT ![h] = Free]
        IN  /\ HandlesOK(hn)
            /\ hn[h] = Free /\ \A g \in Handles : g # h => hn[g] = handles[g]
            /\ handles[h].k = "write" => HandTemps(hn) = HandTemps(handles) \ {handles[h].temp}
            /\ handles[h].k # "write" => HandTemps(hn) = HandTemps(handles)
    BY <1>1, <2>1, HandleFreed
  <2> QED BY <1>2, <2>2
<1>4. CASE CloseRead(h)
  <2>1. handles[h].k # "write" /\ UNCHANGED <<temps, busy>>
    BY <1>4 DEF CloseRead, handle
  <2> QED BY <1>1, <1>2, <1>3, <2>1, BusyIdle, StoreInvFrom
<1>5. CASE CloseAbort(h)
  <2>1. handles[h].k = "write" /\ temps' = temps \ {handles[h].temp} /\ UNCHANGED busy
    BY <1>5 DEF CloseAbort, handle
  <2>2. FoldersOK(tree', temps')
    BY <1>1, <1>2, <2>1 DEF FoldersOK
  <2> QED BY <1>1, <1>2, <1>3, <2>1, <2>2, BusyIdle, StoreInvFrom
<1>6. CASE CloseLand(h)
  <2>1. /\ handles[h].k = "write" /\ UNCHANGED temps
        /\ busy'.op \in {"noreplace", "rename"} /\ busy'.from = handles[h].temp
        /\ busy'.to = handles[h].target
    BY <1>6 DEF CloseLand, handle
  <2>2. handles[h] \in WriteStates /\ WriteOK(handles[h])
    BY <1>1, <2>1 DEF HandlesOK, Free, Reading
  <2>3. /\ handles[h].temp \in Temps /\ handles[h].temp.at = Front(handles[h].target)
        /\ handles[h].target \in Paths /\ handles[h].target[1] \notin ReadOnly
    BY <2>2 DEF WriteStates, WriteOK
  <2>4. handles[h].temp.id # 0
    BY <2>3, TempsAre, StoreAssumption
  <2>5. \A g \in Handles : handles'[g].k = "write" => handles'[g].temp # handles[h].temp
    BY <1>1, <1>3, <2>1 DEF HandlesOK, Free
  <2>6. TempOf(busy.from, busy.to)'
    BY <2>1, <2>3, <2>5 DEF TempOf, handle
  <2>7. BusyOK'
    BY <2>1, <2>3, <2>6 DEF BusyOK
  <2>8. BusyTemps(busy') = {handles[h].temp}
    BY <2>1, <2>4 DEF BusyTemps
  <2>9. handles[h].temp \in HandTemps(handles)
    BY <2>1 DEF HandTemps
  <2> QED BY <1>1, <1>2, <1>3, <2>1, <2>7, <2>8, <2>9, StoreInvFrom
<1> QED BY <1>4, <1>5, <1>6

\* A disable lets go of every handle and its temporary file.
LEMMA DisableKeeps == ASSUME StoreInv, Disable PROVE StoreInv'
<1>1. /\ TreeOK(tree) /\ FoldersOK(tree, temps) /\ HandlesOK(handles) /\ BusyOK
      /\ temps = HandTemps(handles) \cup BusyTemps(busy)
  BY StoreInvIs
<1>2. /\ busy = NoCommand /\ UNCHANGED <<default, flag, tree, busy>>
      /\ handles' = [h \in Handles |-> Free] /\ temps' = temps \ HandTemps(handles)
  BY DEF Disable, HandTemps, handle
<1>3. temps' = {}
  BY <1>1, <1>2, BusyIdle
<1>4. HandlesOK(handles') /\ HandTemps(handles') = {}
  BY <1>2 DEF HandlesOK, HandTemps, Free
<1>5. FoldersOK(tree', temps')
  BY <1>3 DEF FoldersOK
<1> QED BY <1>1, <1>2, <1>3, <1>4, <1>5, BusyIdle, StoreInvFrom

\* A rename under way, of a temporary file: the file is no handle's any more.
LEMMA LandingIs ==
    ASSUME StoreInv, busy.op \in {"noreplace", "rename"}
    PROVE  /\ busy.to \in Paths /\ busy.to[1] \notin ReadOnly
           /\ NameMoves(busy.from, busy.to) \/ TempOf(busy.from, busy.to)
           /\ NameMoves(busy.from, busy.to) => busy.from.id = 0 /\ temps = HandTemps(handles)
           /\ TempOf(busy.from, busy.to) =>
                busy.from.id # 0 /\ temps \ {busy.from} = HandTemps(handles)
<1>1. BusyOK /\ temps = HandTemps(handles) \cup BusyTemps(busy)
  BY StoreInvIs
<1>2. /\ busy.to \in Paths /\ busy.to[1] \notin ReadOnly
      /\ NameMoves(busy.from, busy.to) \/ TempOf(busy.from, busy.to)
  BY <1>1 DEF BusyOK
<1>3. ASSUME NameMoves(busy.from, busy.to)
      PROVE  busy.from.id = 0 /\ temps = HandTemps(handles)
  <2>1. busy.from.id = 0
    BY <1>3 DEF NameMoves
  <2> QED BY <1>1, <2>1 DEF BusyTemps
<1>4. ASSUME TempOf(busy.from, busy.to)
      PROVE  busy.from.id # 0 /\ temps \ {busy.from} = HandTemps(handles)
  <2>1. busy.from \in Temps /\ busy.from \notin HandTemps(handles)
    BY <1>4 DEF TempOf, HandTemps, handle
  <2>2. busy.from.id # 0
    BY <2>1, TempsAre, StoreAssumption
  <2>3. BusyTemps(busy) = {busy.from}
    BY <2>2 DEF BusyTemps
  <2> QED BY <1>1, <2>1, <2>2, <2>3
<1> QED BY <1>2, <1>3, <1>4

\* A rename that fails removes the temporary file.
LEMMA FailKeeps ==
    ASSUME StoreInv, busy.op \in {"noreplace", "rename"}, Fail PROVE StoreInv'
<1>1. /\ TreeOK(tree) /\ FoldersOK(tree, temps) /\ HandlesOK(handles)
  BY StoreInvIs
<1>2. temps' = HandTemps(handles) /\ temps' \subseteq temps
  BY LandingIs DEF Fail
<1>3. busy' = NoCommand /\ UNCHANGED <<default, flag, tree, handles>>
  BY DEF Fail, Answer
<1>4. FoldersOK(tree', temps')
  BY <1>1, <1>2, <1>3 DEF FoldersOK
<1> QED BY <1>1, <1>2, <1>3, <1>4, BusyIdle, StoreInvFrom

\* A path whose folder is there.
LEMMA FolderThere ==
    ASSUME NEW p \in Paths, IsDir(Front(p)) PROVE Len(p) = 2 \/ tree[Front(p)] = "folder"
<1>1. Len(p) \in Nat /\ Len(Front(p)) = Len(p) - 1 /\ (Len(p) > 2 => Front(p) \in Paths)
  BY PathsAreSeqs, FrontIs
<1>2. CASE Len(Front(p)) = 1
  <2>1. \A n \in Nat : n - 1 = 1 => n = 2
    OBVIOUS
  <2>2. Len(p) = 2
    BY <1>1, <1>2, <2>1
  <2> QED BY <2>2
<1>3. CASE At(Front(p)) = "folder"
  BY <1>3 DEF At
<1> QED BY <1>2, <1>3 DEF IsDir

\* What a rename may replace is no folder, or an empty one.
LEMMA Replaced ==
    ASSUME TreeOK(tree), NEW p \in Paths,
           At(p) = "none" \/ IsFile(p) \/ Empty(p)
    PROVE  \/ tree[p] # "folder"
           \/ /\ \A q \in Paths : Front(q) = p => tree[q] = "none"
              /\ \A t \in temps : t.at # p
BY DEF At, IsFile, Empty

\* The temporary file of a write lands under its name.
LEMMA LandKeeps ==
    ASSUME StoreInv, busy.op \in {"noreplace", "rename"}, TempOf(busy.from, busy.to),
           CanRename(busy.from, busy.to), Rename(busy.from, busy.to), Answer,
           UNCHANGED <<default, flag, handles>>
    PROVE  StoreInv'
<1>1. /\ TreeOK(tree) /\ FoldersOK(tree, temps) /\ HandlesOK(handles)
  BY StoreInvIs
<1>2. /\ busy.to \in Paths /\ busy.to[1] \notin ReadOnly /\ busy.from.id # 0
      /\ temps \ {busy.from} = HandTemps(handles)
  BY LandingIs
<1>3. tree' = [tree EXCEPT ![busy.to] = "quux"]
  <2>1. tree \in [Paths -> Nodes]
    BY <1>1 DEF TreeOK
  <2>2. tree' = [p \in Paths |-> IF p = busy.to THEN "quux" ELSE tree[p]]
    BY <1>2 DEF Rename
  <2> QED BY <2>1, <2>2
<1>4. temps' = HandTemps(handles) /\ temps' \subseteq temps
  BY <1>2 DEF Rename
<1>5. tree[busy.to] # "folder"
  <2>1. At(busy.to) = "none" \/ IsFile(busy.to)
    BY <1>2 DEF CanRename, Folder
  <2> QED BY <1>2, <2>1 DEF At, IsFile
<1>6. Len(busy.to) = 2 \/ tree[Front(busy.to)] = "folder"
  BY <1>2, FolderThere DEF CanRename
<1>7. TreeOK(tree') /\ FoldersOK(tree', temps)
  <2>1. "quux" \in Nodes
    BY DEF Nodes
  <2> QED BY <1>1, <1>2, <1>3, <1>5, <1>6, <2>1, TreeMade
<1>8. FoldersOK(tree', temps')
  BY <1>4, <1>7 DEF FoldersOK
<1> QED BY <1>1, <1>4, <1>7, <1>8, BusyIdle, StoreInvFrom DEF Answer

\* No temporary file is at or below a name with no write open below it.
LEMMA NoTempBelow ==
    ASSUME HandlesOK(handles), NEW p \in Paths, ~OpenBelow(p), NEW t \in HandTemps(handles)
    PROVE  ~OnTheWay(p, t.at)
<1>1. PICK h \in Handles : handles[h].k = "write" /\ t = handles[h].temp
  BY DEF HandTemps
<1>2. handles[h] \in WriteStates /\ WriteOK(handles[h])
  BY <1>1 DEF HandlesOK, Free, Reading
<1> DEFINE q == handles[h].target
<1>3. q \in Paths /\ t.at = Front(q)
  BY <1>1, <1>2 DEF WriteStates, WriteOK
<1> SUFFICES ASSUME OnTheWay(p, Front(q)) PROVE FALSE
  BY <1>3
<1> HIDE DEF q
<1>4. /\ p \in Seq(Components) /\ q \in Seq(Components) /\ Len(p) \in Nat /\ Len(q) \in Nat
      /\ Len(Front(q)) = Len(q) - 1 /\ \A i \in 1 .. Len(q) - 1 : Front(q)[i] = q[i]
  BY <1>3, PathsAreSeqs, FrontIs
<1>5. OnTheWay(p, q) /\ Len(p) < Len(q)
  BY <1>4 DEF OnTheWay
<1>6. IsPrefix(p, q) /\ p # q
  BY <1>4, <1>5, PrefixIs
<1> QED BY <1>1, <1>6 DEF OpenBelow, handle, IsStrictPrefix, q

\* The tree after a rename of a name.
LEMMA RenamedIs ==
    ASSUME StoreInv, busy.op \in {"noreplace", "rename"}, NameMoves(busy.from, busy.to),
           Rename(busy.from, busy.to)
    PROVE  Moved(tree, tree', busy.from.at, busy.to)
<1> DEFINE f == busy.from.at
           to == busy.to
<1>1. TreeOK(tree) /\ to \in Paths /\ f \in Paths /\ busy.from.id = 0
  BY StoreInvIs, LandingIs DEF NameMoves
<1>2. tree' = [p \in Paths |-> IF IsPrefix(to, p) THEN At(f \o Below(to, p))
                               ELSE IF IsPrefix(f, p) THEN "none" ELSE tree[p]]
  BY <1>1 DEF Rename
<1>3. \A p \in Paths : (IsPrefix(to, p) <=> OnTheWay(to, p)) /\ (IsPrefix(f, p) <=> OnTheWay(f, p))
  BY <1>1, PathsAreSeqs, PrefixIs
<1>4. \A x : At(x) \in Nodes
  BY <1>1 DEF At, TreeOK, Nodes
<1>5. \A x : At(x) = IF x \in Paths THEN tree[x] ELSE "none"
  BY DEF At
<1>6. "none" \in Nodes /\ \A p \in Paths : tree[p] \in Nodes
  BY <1>1 DEF TreeOK, Nodes
<1> HIDE DEF f, to
<1>7. tree' \in [Paths -> Nodes]
  BY <1>2, <1>4, <1>6
<1>8. \A p \in Paths : tree'[p] =
         IF OnTheWay(to, p) THEN At(f \o Below(to, p))
         ELSE IF OnTheWay(f, p) THEN "none" ELSE tree[p]
  BY <1>2, <1>3
<1>9. Moved(tree, tree', f, to)
  BY <1>5, <1>7, <1>8 DEF Moved
<1> QED BY <1>9 DEF f, to

\* A name moves, with what is below it, and no temporary file with it.
LEMMA NameKeeps ==
    ASSUME StoreInv, busy.op \in {"noreplace", "rename"}, NameMoves(busy.from, busy.to),
           CanRename(busy.from, busy.to), Rename(busy.from, busy.to), Answer,
           UNCHANGED <<default, flag, handles>>
    PROVE  StoreInv'
<1> DEFINE f == busy.from.at
           to == busy.to
<1>1. /\ TreeOK(tree) /\ FoldersOK(tree, temps) /\ HandlesOK(handles)
  BY StoreInvIs
<1>2. /\ to \in Paths /\ to[1] \notin ReadOnly /\ busy.from.id = 0 /\ temps = HandTemps(handles)
      /\ f \in Paths /\ Len(f) = Len(to) /\ f[1] = to[1] /\ ~OpenBelow(f)
  BY LandingIs DEF NameMoves
<1>3. Len(to) = 2 \/ tree[Front(to)] = "folder"
  BY <1>2, FolderThere DEF CanRename
<1>4. \/ tree[to] # "folder"
      \/ /\ \A q \in Paths : Front(q) = to => tree[q] = "none"
         /\ \A t \in temps : t.at # to
  BY <1>1, <1>2, Replaced DEF CanRename
<1>5. \A t \in temps : ~OnTheWay(f, t.at)
  BY <1>1, <1>2, NoTempBelow
<1>6. UNCHANGED temps
  <2>1. f \in Seq(Components) /\ Len(f) \in Nat
    BY <1>2, PathsAreSeqs
  <2>2. OnTheWay(f, f)
    BY <2>1 DEF OnTheWay
  <2>3. \A t \in temps : t.at # f
    BY <1>5, <2>2
  <2>4. temps' = {IF t.at = f THEN Temp(t.id, to) ELSE t : t \in temps}
    BY <1>2 DEF Rename
  <2> QED BY <2>3, <2>4
<1>7. Moved(tree, tree', f, to)
  BY RenamedIs
<1> HIDE DEF f, to
<1>8. Movable(tree, temps, f, to)
  BY <1>2, <1>3, <1>4, <1>5 DEF Movable
<1>9. TreeOK(tree') /\ FoldersOK(tree', temps)
  BY <1>1, <1>7, <1>8, TreeMoved
<1> QED BY <1>1, <1>2, <1>6, <1>9, BusyIdle, StoreInvFrom DEF Answer

\* The calls that rename.
LEMMA RenameKeeps ==
    ASSUME StoreInv, HostRename \/ RenameNoreplace PROVE StoreInv'
<1>1. busy.op \in {"noreplace", "rename"}
  BY DEF HostRename, RenameNoreplace
<1>2. \/ Fail
      \/ busy.op = "noreplace" /\ Goto([op |-> "rename", from |-> busy.from, to |-> busy.to])
      \/ /\ CanRename(busy.from, busy.to) /\ Rename(busy.from, busy.to) /\ Answer
         /\ UNCHANGED <<default, flag, handles>>
  BY DEF HostRename, RenameNoreplace
<1>3. CASE Fail
  BY <1>1, <1>3, FailKeeps
<1>4. CASE busy.op = "noreplace" /\ Goto([op |-> "rename", from |-> busy.from, to |-> busy.to])
  <2> DEFINE b == [op |-> "rename", from |-> busy.from, to |-> busy.to]
  <2>1. BusyTemps(b) = BusyTemps(busy)
    BY <1>4 DEF BusyTemps
  <2>2. /\ busy'.op = "rename" /\ busy'.from = busy.from /\ busy'.to = busy.to /\ UNCHANGED handles
    BY <1>4 DEF Goto
  <2>3. /\ NameMoves(busy.from, busy.to) => NameMoves(busy.from, busy.to)'
        /\ TempOf(busy.from, busy.to) => TempOf(busy.from, busy.to)'
    BY <2>2 DEF NameMoves, TempOf, OpenBelow, handle
  <2>4. BusyOK'
    BY <1>1, <2>2, <2>3, LandingIs DEF BusyOK
  <2> QED BY <1>4, <2>1, <2>4, GotoKeeps
<1>5. CASE /\ CanRename(busy.from, busy.to) /\ Rename(busy.from, busy.to) /\ Answer
           /\ UNCHANGED <<default, flag, handles>>
  BY <1>1, <1>5, LandingIs, LandKeeps, NameKeeps
<1> QED BY <1>2, <1>3, <1>4, <1>5

\* What is left alone: the handles, the temporary files and the command.
LEMMA TreeKeeps ==
    ASSUME StoreInv, TreeOK(tree'), FoldersOK(tree', temps), UNCHANGED <<default, flag, temps, handles>>,
           busy' = busy \/ (busy' = NoCommand /\ BusyTemps(busy) = {})
    PROVE  StoreInv'
<1>1. HandlesOK(handles) /\ BusyOK /\ temps = HandTemps(handles) \cup BusyTemps(busy)
  BY StoreInvIs
<1>2. BusyOK'
  <2>1. CASE busy' = busy
    BY <1>1, <2>1 DEF BusyOK, NameMoves, TempOf, OpenBelow, FreeHandles, handle
  <2>2. CASE busy' = NoCommand
    BY <2>2, BusyIdle
  <2> QED BY <2>1, <2>2
<1>3. BusyTemps(busy') = BusyTemps(busy)
  BY BusyIdle
<1> QED BY <1>1, <1>2, <1>3, StoreInvFrom

\* DELETE's call.
LEMMA RemoveKeeps == ASSUME StoreInv, RemoveName PROVE StoreInv'
<1>1. TreeOK(tree) /\ FoldersOK(tree, temps) /\ BusyOK
  BY StoreInvIs
<1>2. busy.op = "delete" /\ busy' = NoCommand /\ UNCHANGED <<default, flag, temps, handles>>
  BY DEF RemoveName, Refuse, Answer
<1>3. BusyTemps(busy) = {} /\ busy.at \in Paths /\ busy.at[1] \notin ReadOnly
  BY <1>1, <1>2 DEF BusyTemps, BusyOK
<1>4. CASE UNCHANGED tree
  BY <1>1, <1>2, <1>3, <1>4, TreeKeeps
<1>5. CASE /\ tree' = [tree EXCEPT ![busy.at] = "none"]
           /\ IsFile(busy.at) \/ Empty(busy.at)
  <2>1. TreeOK(tree') /\ FoldersOK(tree', temps)
    BY <1>1, <1>3, <1>5, Replaced, TreeRemoved
  <2> QED BY <1>2, <1>3, <2>1, TreeKeeps
<1> QED BY <1>4, <1>5 DEF RemoveName, Refuse

\* CREATE-DIRECTORY's call.
LEMMA CreateKeeps == ASSUME StoreInv, CreateDir PROVE StoreInv'
<1>1. TreeOK(tree) /\ FoldersOK(tree, temps) /\ BusyOK
  BY StoreInvIs
<1>2. busy.op = "create" /\ busy' = NoCommand /\ UNCHANGED <<default, flag, temps, handles>>
  BY DEF CreateDir, Refuse, Answer
<1>3. BusyTemps(busy) = {} /\ busy.at \in Paths /\ busy.at[1] \notin ReadOnly
  BY <1>1, <1>2 DEF BusyTemps, BusyOK
<1>4. CASE UNCHANGED tree
  BY <1>1, <1>2, <1>3, <1>4, TreeKeeps
<1>5. CASE /\ tree' = [tree EXCEPT ![busy.at] = "folder"]
           /\ IsDir(Front(busy.at)) /\ At(busy.at) = "none"
  <2>1. "folder" \in Nodes /\ tree[busy.at] # "folder"
    BY <1>3, <1>5 DEF Nodes, At
  <2>2. TreeOK(tree') /\ FoldersOK(tree', temps)
    BY <1>1, <1>3, <1>5, <2>1, FolderThere, TreeMade
  <2> QED BY <1>2, <1>3, <2>2, TreeKeeps
<1> QED BY <1>4, <1>5 DEF CreateDir, Refuse

\* What a program of the host does.
LEMMA HostKeeps == ASSUME StoreInv, NEW p \in Paths, Host(p) PROVE StoreInv'
<1>1. TreeOK(tree) /\ FoldersOK(tree, temps)
  BY StoreInvIs
<1>2. p[1] \notin ReadOnly /\ UNCHANGED <<default, flag, temps, handles, busy>>
  BY DEF Host
<1>3. ASSUME At(p) = "none", NEW v \in Nodes, tree' = [tree EXCEPT ![p] = v],
             Len(p) = 2 \/ IsDir(Front(p))
      PROVE  StoreInv'
  <2>1. tree[p] # "folder"
    BY <1>3 DEF At
  <2>2. TreeOK(tree') /\ FoldersOK(tree', temps)
    BY <1>1, <1>2, <1>3, <2>1, FolderThere, TreeMade
  <2> QED BY <1>2, <2>2, TreeKeeps
<1>4. ASSUME IsFile(p) \/ Empty(p), tree' = [tree EXCEPT ![p] = "none"] PROVE StoreInv'
  <2>1. TreeOK(tree') /\ FoldersOK(tree', temps)
    BY <1>1, <1>2, <1>4, Replaced, TreeRemoved
  <2> QED BY <1>2, <2>1, TreeKeeps
<1>5. "host" \in Nodes /\ "folder" \in Nodes
  BY DEF Nodes
<1> QED BY <1>3, <1>4, <1>5 DEF Host

\* Every step of the file commands and of the host keeps the invariant.
LEMMA StoreKeeps == ASSUME StoreInv, MovesOpen = FALSE, StoreNext PROVE StoreInv'
<1>1. CASE Command
  BY <1>1, OpenReadKeeps, LooksKeep, RenameLooksKeep, MakeTempKeeps, CopyKeeps, RenameKeeps,
     RemoveKeeps, CreateKeeps, DisableKeeps, CloseKeeps, WriteKeeps DEF Command
<1>2. CASE \E p \in Paths : Host(p)
  BY <1>2, HostKeeps
<1> QED BY <1>1, <1>2 DEF StoreNext

\* With nothing open and the mounts' folders empty, the invariant holds.
LEMMA StoreStarts == StoreInit => StoreInv
<1> SUFFICES ASSUME StoreInit PROVE StoreInv
  OBVIOUS
<1>1. /\ default \in Defaults /\ flag \in BOOLEAN
      /\ temps = {} /\ handles = [h \in Handles |-> Free] /\ busy = NoCommand
  BY DEF StoreInit
<1>2. tree = [p \in Paths |-> IF p[1] \in ReadOnly THEN Kept(p)
                              ELSE IF Len(p) = 2 THEN "folder" ELSE "none"]
  BY DEF StoreInit
<1>3. \A p \in Paths : Kept(p) \in {"folder", "host"}
  BY DEF Kept
<1>4. TreeOK(tree)
  <2>1. tree \in [Paths -> Nodes]
    BY <1>2, <1>3 DEF Nodes
  <2>2. \A p \in Paths : p[1] \in ReadOnly => tree[p] = Kept(p)
    BY <1>2
  <2>3. ASSUME NEW p \in Paths, NEW q \in Paths, OnTheWay(q, p), Len(q) < Len(p), tree[p] # "none"
        PROVE  tree[q] = "folder"
    <3>1. /\ p \in Seq(Components) /\ q \in Seq(Components)
          /\ Len(p) \in Nat /\ Len(q) \in Nat /\ Len(q) > 1
      BY PathsAreSeqs
    <3>2. p[1] = q[1] /\ p # q
      BY <2>3, <3>1 DEF OnTheWay
    <3>3. CASE p[1] \in ReadOnly
      <4>1. IsStrictPrefix(q, p)
        BY <2>3, <3>1, <3>2, PrefixIs DEF IsStrictPrefix
      <4>2. Kept(q) = "folder"
        BY <4>1 DEF Kept
      <4> QED BY <2>2, <3>2, <3>3, <4>2
    <3>4. CASE p[1] \notin ReadOnly
      <4>1. Len(p) # 2
        BY <2>3, <3>1
      <4> QED BY <1>2, <2>3, <3>4, <4>1
    <3> QED BY <3>3, <3>4
  <2> QED BY <2>1, <2>2, <2>3 DEF TreeOK
<1>5. FoldersOK(tree, temps)
  BY <1>1 DEF FoldersOK
<1>6. HandlesOK(handles)
  BY <1>1 DEF HandlesOK, Free
<1>7. TempsAreOpenWrites
  BY <1>1 DEF TempsAreOpenWrites, InHand, handle, Free, NoCommand
<1>8. BusyOK
  BY <1>1 DEF BusyOK, NoCommand
<1> QED BY <1>1, <1>4, <1>5, <1>6, <1>7, <1>8 DEF StoreInv

\* A temporary file is in a folder of a mount that is not read-only.
LEMMA TempsWritable == ASSUME StoreInv, NEW t \in temps PROVE t.at[1] \notin ReadOnly
<1>1. /\ HandlesOK(handles) /\ BusyOK /\ temps = HandTemps(handles) \cup BusyTemps(busy)
  BY StoreInvIs
<1>2. \E p \in Paths : p[1] \notin ReadOnly /\ t.at = Front(p)
  <2>1. CASE t \in HandTemps(handles)
    <3>1. PICK h \in Handles : handles[h].k = "write" /\ t = handles[h].temp
      BY <2>1 DEF HandTemps
    <3>2. handles[h] \in WriteStates /\ WriteOK(handles[h])
      BY <1>1, <3>1 DEF HandlesOK, Free, Reading
    <3> QED BY <3>1, <3>2 DEF WriteStates, WriteOK
  <2>2. CASE t \in BusyTemps(busy)
    <3>1. CASE busy.op = "copy" /\ t = busy.temp
      BY <1>1, <3>1 DEF BusyOK, TempOf
    <3>2. CASE busy.op \in {"noreplace", "rename"} /\ busy.from.id # 0 /\ t = busy.from
      BY <3>2, LandingIs DEF TempOf
    <3> QED BY <2>2, <3>1, <3>2 DEF BusyTemps
  <2> QED BY <1>1, <2>1, <2>2
<1> QED BY <1>2, FrontIs, PathsAreSeqs

\* What the invariant says of the folders, the writes and the read-only mounts.
LEMMA StoreInvKept == StoreInv => StoreKept
<1> SUFFICES ASSUME StoreInv PROVE StoreKept
  OBVIOUS
<1>1. /\ default \in Defaults /\ flag \in BOOLEAN
      /\ TreeOK(tree) /\ FoldersOK(tree, temps) /\ HandlesOK(handles) /\ TempsAreOpenWrites
  BY DEF StoreInv
<1>2. ASSUME NEW p \in Paths, At(p) # "none" PROVE IsDir(Front(p))
  <2>1. /\ Len(p) \in Nat /\ Len(p) > 1 /\ Len(Front(p)) = Len(p) - 1
        /\ \A i \in 1 .. Len(p) - 1 : Front(p)[i] = p[i]
        /\ Len(p) > 2 => Front(p) \in Paths
    BY PathsAreSeqs, FrontIs
  <2>2. CASE Len(p) = 2
    BY <2>1, <2>2 DEF IsDir
  <2>3. CASE Len(p) > 2
    <3>1. Len(Front(p)) < Len(p) /\ OnTheWay(Front(p), p)
      BY <2>1 DEF OnTheWay
    <3>2. tree[Front(p)] = "folder"
      BY <1>1, <1>2, <2>1, <2>3, <3>1 DEF TreeOK, At
    <3> QED BY <2>1, <2>3, <3>2 DEF IsDir, At
  <2> QED BY <2>1, <2>2, <2>3
<1>3. ASSUME NEW t \in temps PROVE IsDir(t.at)
  <2>1. t \in Temps
    BY <1>1 DEF FoldersOK
  <2>2. Len(t.at) \in Nat /\ Len(t.at) >= 1 /\ (Len(t.at) > 1 => t.at \in Paths)
    BY <2>1, TempsAre
  <2>3. CASE Len(t.at) = 1
    BY <2>3 DEF IsDir
  <2>4. CASE Len(t.at) > 1
    <3>1. OnTheWay(t.at, t.at)
      BY <2>2 DEF OnTheWay
    <3>2. tree[t.at] = "folder"
      BY <1>1, <2>2, <2>4, <3>1 DEF FoldersOK
    <3> QED BY <2>2, <2>4, <3>2 DEF IsDir, At
  <2>5. \A n \in Nat : n >= 1 => n = 1 \/ n > 1
    OBVIOUS
  <2>6. Len(t.at) = 1 \/ Len(t.at) > 1
    BY <2>2, <2>5
  <2> QED BY <2>3, <2>4, <2>6
<1>4. ASSUME NEW h \in Handles, handle(h, "write")
      PROVE  /\ handles[h].temp \in Temps /\ handles[h].target \in Paths
             /\ handles[h].len \in 0 .. MaxLen /\ handles[h].held <= handles[h].len
  <2>1. handles[h] \in WriteStates /\ WriteOK(handles[h])
    BY <1>1, <1>4 DEF HandlesOK, handle, Free, Reading
  <2>2. MaxLen \in Nat
    BY StoreAssumption
  <2> QED BY <2>1, <2>2 DEF WriteStates, WriteOK
<1>5. StoreTypeOK
  <2>1. tree \in [Paths -> Nodes] /\ temps \subseteq Temps
    BY <1>1 DEF TreeOK, FoldersOK
  <2> QED BY <1>1, <1>2, <1>3, <1>4, <2>1 DEF StoreTypeOK
<1>6. HeldIsThere
  BY <1>4 DEF HeldIsThere
<1>7. ReadOnlyKept
  BY <1>1, TempsWritable DEF ReadOnlyKept, TreeOK, At
<1> QED BY <1>1, <1>5, <1>6, <1>7 DEF StoreKept

\* Only the call that renames ends a rename that must not replace.
LEMMA NoreplaceEnds ==
    ASSUME StoreNext, busy.op = "noreplace", busy' = NoCommand PROVE RenameNoreplace
<1>1. NoCommand.op = "idle" /\ busy # NoCommand /\ busy' # busy
  BY DEF NoCommand
<1>2. ~\E p \in Paths : Host(p)
  BY <1>1 DEF Host
<1>3. ~Disable /\ ~CopyFails /\ ~HostRename /\ ~RenameTo /\ ~RemoveName /\ ~CreateDir
  BY <1>1 DEF Disable, CopyFails, HostRename, RenameTo, RemoveName, CreateDir
<1>4. \A n : ~OpenRead(n) /\ ~Delete(n) /\ ~CreateDirectory(n) /\ ~MakeTemp(n) /\ ~Copy(n)
             /\ ~CloseRead(n) /\ ~CloseAbort(n) /\ ~CloseLand(n)
  BY <1>1 DEF OpenRead, Delete, CreateDirectory, MakeTemp, Copy, CloseRead, CloseAbort, CloseLand
<1>5. \A n, m : ~RenameFrom(n, m)
  BY <1>1 DEF RenameFrom
<1>6. \A n, e, z : ~OpenWrite(n, e, z) /\ ~Write(n, e, z) /\ \A k : ~WriteFails(n, e, z, k)
  BY <1>1 DEF OpenWrite, Write, WriteFails
<1> QED BY <1>2, <1>3, <1>4, <1>5, <1>6 DEF StoreNext, Command

\* A rename that must not replace leaves every name with what it had, or with nothing.
LEMMA NoneReplaced ==
    ASSUME StoreInv, RenameNoreplace, flag, busy' = NoCommand, NEW p \in Paths, At(p) # "none"
    PROVE  At(p)' \in {"none", At(p)}
<1>1. busy.op = "noreplace" /\ TreeOK(tree) /\ FoldersOK(tree, temps)
  BY StoreInvIs DEF RenameNoreplace
<1>2. busy.to \in Paths
  BY <1>1, LandingIs
<1>3. CASE UNCHANGED tree
  BY <1>3 DEF At
<1>4. CASE At(busy.to) = "none" /\ Rename(busy.from, busy.to)
  <2>1. tree[busy.to] = "none" /\ tree[p] # "none" /\ p # busy.to
    BY <1>2, <1>4 DEF At
  <2>2. CASE TempOf(busy.from, busy.to)
    <3>1. busy.from.id # 0
      BY <1>1, <2>2, LandingIs
    <3>2. tree'[p] = tree[p]
      BY <1>4, <2>1, <3>1 DEF Rename
    <3> QED BY <3>2 DEF At
  <2>3. CASE NameMoves(busy.from, busy.to)
    <3>1. Moved(tree, tree', busy.from.at, busy.to)
      BY <1>1, <1>4, <2>3, RenamedIs
    <3>2. ~OnTheWay(busy.to, p)
      BY <1>1, <1>2, <2>1, NothingBelow
    <3>3. tree'[p] \in {"none", tree[p]}
      BY <3>1, <3>2 DEF Moved
    <3> QED BY <3>3 DEF At
  <2> QED BY <1>1, <2>2, <2>3, LandingIs
<1> QED BY <1>3, <1>4 DEF RenameNoreplace, Fail, Goto

\* Every step of Quux keeps the file commands' invariant.
LEMMA StoreSteps == ASSUME MovesOpen = FALSE, StoreInv, [Next]_quuxVars PROVE StoreInv'
<1>1. CASE UNCHANGED storeVars
  BY <1>1 DEF storeVars, StoreInv, TempsAreOpenWrites, InHand, BusyOK, NameMoves, TempOf,
     OpenBelow, FreeHandles, handle
<1>2. CASE StoreNext
  BY <1>2, StoreKeeps
<1> QED BY <1>1, <1>2 DEF Next, quuxVars

\* The file commands keep the host's folders whatever the host does between
\* them: every temporary file is an open write's (none is left, none is lost),
\* no write has a hole, what is there is in folders, read-only mounts are kept.
THEOREM StoreSafe == ASSUME MovesOpen = FALSE PROVE Spec => []StoreKept
<1>1. Init => StoreInv
  BY StoreStarts DEF Init
<1>2. StoreInv /\ [Next]_quuxVars => StoreInv'
  BY StoreSteps
<1> QED BY <1>1, <1>2, StoreInvKept, PTL DEF Spec

\* Where the host has RENAME_NOREPLACE, a RENAME, or a CLOSE of an OPEN with
\* if-exists error, never overwrites a name, whatever appeared under it.
THEOREM RenameSafe == ASSUME MovesOpen = FALSE PROVE Spec => NeverOverwrites
<1>1. Init => StoreInv
  BY StoreStarts DEF Init
<1>2. StoreInv /\ [Next]_quuxVars => StoreInv'
  BY StoreSteps
<1>3. StoreInv /\ [Next]_quuxVars =>
        [flag /\ busy.op = "noreplace" /\ busy' = NoCommand =>
           \A p \in Paths : At(p) # "none" => At(p)' \in {"none", At(p)}]_storeVars
  <2> SUFFICES ASSUME StoreInv, [Next]_quuxVars, ~UNCHANGED storeVars, flag,
                      busy.op = "noreplace", busy' = NoCommand
               PROVE  \A p \in Paths : At(p) # "none" => At(p)' \in {"none", At(p)}
    OBVIOUS
  <2>1. StoreNext
    BY DEF Next, quuxVars
  <2> QED BY <2>1, NoreplaceEnds, NoneReplaced
<1> QED BY <1>1, <1>2, <1>3, PTL DEF Spec, NeverOverwrites

-----------------------------------------------------------------------------
(* The memory port: a fused return takes the word memory holds, whatever       *)
(* stores, transfers, map writes and resumes came between; the write buffer    *)
(* holds one word; a set of the cache is the lines last read.  The arithmetic  *)
(* of pages and the cache's order first; then the inductive invariant,         *)
(* PortInv; then what each operation of the port leaves of it, and one lemma   *)
(* per action.                                                                 *)

-----------------------------------------------------------------------------
(* Addresses.                                                                *)

\* The pages main memory has.
MappedPages == {n \in Nat : (n + 1) * PageWords <= MainWords}
Vaddrs == 0 .. VirtualWords - 1

\* What the sizes are.
LEMMA Sizes ==
    /\ MainWords \in Nat \ {0} /\ PageWords \in Nat \ {0} /\ LineWords \in Nat \ {0}
    /\ Ways \in Nat \ {0} /\ Sets \in Nat \ {0} /\ VirtualWords \in Nat \ {0}
    /\ PortCycleNs \in Nat \ {0} /\ PortFinishNs \in Nat
    /\ HitNs \in Nat /\ ReadNs \in Nat /\ WriteNs \in Nat
    /\ VirtualWords % PageWords = 0 /\ MainWords % PageWords = 0
BY PortAssumption

\* A number is its quotient and remainder.
LEMMA Divided ==
    ASSUME NEW n \in Nat, NEW d \in Nat \ {0}
    PROVE  /\ n \div d \in Nat /\ n % d \in 0 .. d - 1
           /\ n = (n \div d) * d + (n % d)
BY SMT

\* Times a larger number is at least one more time.
LEMMA Times ==
    ASSUME NEW p \in Nat, NEW q \in Nat, NEW d \in Nat, p < q
    PROVE  p * d \in Nat /\ p * d + d <= q * d
<1>1. PICK e \in Nat : q = p + 1 + e
  BY SMT
<1>2. q * d = p * d + d + e * d
  BY <1>1, SMT
<1>3. e * d \in Nat /\ p * d \in Nat
  BY SMT
<1> QED
  BY <1>2, <1>3, SMT

\* A remainder is the only one there is.
LEMMA Remainder ==
    ASSUME NEW q \in Nat, NEW d \in Nat \ {0}, NEW r \in 0 .. d - 1
    PROVE  (q * d + r) % d = r
<1> DEFINE n == q * d + r
           k == n \div d
           m == n % d
<1>0. n \in Nat
  BY SMT
<1>1. k \in Nat /\ m \in 0 .. d - 1 /\ n = k * d + m
  BY <1>0, Divided
<1> HIDE DEF k, m
<1>2. ~ k < q
  BY <1>1, Times, SMT
<1>3. ~ q < k
  BY <1>1, Times, SMT
<1>4. k = q
  BY <1>1, <1>2, <1>3, SMT
<1>5. m = r
  BY <1>1, <1>4, SMT
<1> QED
  BY <1>5 DEF m

\* An address of a page main memory has is main memory's.
LEMMA PhysicalIn ==
    ASSUME NEW c, c.page \in MappedPages, NEW v \in Nat
    PROVE  Physical(c, v) \in 0 .. MainWords - 1
<1>1. v % PageWords \in 0 .. PageWords - 1
  BY Divided, Sizes
<1>2. c.page \in Nat /\ (c.page + 1) * PageWords <= MainWords
  BY DEF MappedPages
<1>3. c.page * PageWords \in Nat /\ c.page * PageWords + PageWords <= (c.page + 1) * PageWords
  BY <1>2, Sizes, Times, SMT
<1>4. (c.page + 1) * PageWords \in Nat
  BY <1>2, Sizes, SMT
<1> QED
  BY <1>1, <1>2, <1>3, <1>4, Sizes, SMT DEF Physical

\* The next word, in the page, is the next of the stream's.
LEMMA NextPhysical ==
    ASSUME NEW c, c.page \in MappedPages, NEW v \in Vaddrs,
           (Physical(c, v) + 1) % PageWords # 0
    PROVE  /\ (v + 1) % VirtualWords \in Vaddrs
           /\ Physical(c, (v + 1) % VirtualWords) = Physical(c, v) + 1
<1> DEFINE r == v % PageWords
           k == v \div PageWords
           b == c.page * PageWords
<1>1. r \in 0 .. PageWords - 1 /\ k \in Nat /\ v = k * PageWords + r
  BY Divided, Sizes DEF Vaddrs
<1>2. c.page \in Nat /\ b \in Nat
  BY Sizes, SMT DEF MappedPages
<1>3. r # PageWords - 1
  <2> SUFFICES ASSUME r = PageWords - 1 PROVE FALSE
    OBVIOUS
  <2>1. Physical(c, v) + 1 = (c.page + 1) * PageWords + 0
    BY <1>1, <1>2, Sizes, SMT DEF Physical
  <2>2. 0 \in 0 .. PageWords - 1 /\ c.page + 1 \in Nat
    BY <1>2, Sizes, SMT
  <2>3. ((c.page + 1) * PageWords + 0) % PageWords = 0
    BY <2>2, Remainder, Sizes
  <2> QED
    BY <2>1, <2>3
<1>a. k * PageWords \in Nat
  BY <1>1, Sizes, SMT
<1>4. v + 1 = k * PageWords + (r + 1) /\ r + 1 \in 0 .. PageWords - 1
  <2> HIDE DEF k, r
  <2> QED
    BY <1>a, <1>1, <1>3, Sizes, SMT
<1> HIDE DEF r, k
<1>5. (v + 1) % PageWords = r + 1
  BY <1>1, <1>4, Remainder, Sizes
<1>6. v + 1 # VirtualWords
  BY <1>5, <1>1, Sizes, SMT
<1>7. v + 1 \in Nat /\ v + 1 < VirtualWords
  BY <1>6, Sizes, SMT DEF Vaddrs
<1>8. (v + 1) % VirtualWords = v + 1
  BY <1>7, Sizes, SMT
<1>9. (v + 1) % VirtualWords \in Vaddrs
  BY <1>7, <1>8, Sizes, SMT DEF Vaddrs
<1>10. Physical(c, (v + 1) % VirtualWords) = b + (r + 1)
  BY <1>8, <1>5 DEF Physical
<1>11. Physical(c, v) = b + r
  BY DEF Physical, r
<1> HIDE DEF b
<1> QED
  BY <1>1, <1>2, <1>9, <1>10, <1>11, SMT

\* A word of main memory is in a line, and a line in a set.
LEMMA LineIn ==
    ASSUME NEW a \in 0 .. MainWords - 1
    PROVE  LineOf(a) \in Lines /\ SetOf(LineOf(a)) \in 0 .. Sets - 1
<1> DEFINE l == a \div LineWords
           m == (MainWords - 1) \div LineWords
<1>0. a \in Nat /\ MainWords - 1 \in Nat
  BY Sizes, SMT
<1>1. l \in Nat /\ a % LineWords \in 0 .. LineWords - 1 /\ a = l * LineWords + (a % LineWords)
  BY <1>0, Divided, Sizes
<1>2. m \in Nat /\ (MainWords - 1) % LineWords \in 0 .. LineWords - 1
      /\ MainWords - 1 = m * LineWords + ((MainWords - 1) % LineWords)
  BY <1>0, Divided, Sizes
<1>3. a % LineWords \in Int /\ (MainWords - 1) % LineWords \in Int
  BY <1>1, <1>2
<1> HIDE DEF l, m
<1>4. ~ m < l
  <2> SUFFICES ASSUME m < l PROVE FALSE
    OBVIOUS
  <2>1. m * LineWords + LineWords <= l * LineWords
    BY <1>1, <1>2, Times, Sizes
  <2>2. l * LineWords \in Nat /\ m * LineWords \in Nat
    BY <1>1, <1>2, Sizes, SMT
  <2> QED
    BY <2>1, <2>2, <1>1, <1>2, <1>3, Sizes, SMT
<1>5. l \in Lines
  BY <1>1, <1>2, <1>4, SMT DEF Lines, l, m
<1>6. l % Sets \in 0 .. Sets - 1
  BY <1>1, Divided, Sizes
<1> QED
  BY <1>5, <1>6 DEF LineOf, SetOf, l

\* The bigger of two.
LEMMA Bigger ==
    ASSUME NEW a \in Nat, NEW b \in Nat
    PROVE  BiggerOf(a, b) \in Nat /\ a <= BiggerOf(a, b) /\ b <= BiggerOf(a, b)
BY DEF BiggerOf

-----------------------------------------------------------------------------
(* The cache's order.                                                        *)

\* What CacheIsRecent says of one set, s the lines it holds and r when each
\* line was last read.
SetIsRecent(s, n, r) ==
    /\ Len(s) <= Ways
    /\ \A i \in DOMAIN s : SetOf(s[i]) = n /\ r[s[i]] # None
    /\ \A i, j \in DOMAIN s : i < j => r[s[j]] < r[s[i]]
    /\ \A line \in Lines :
          SetOf(line) = n /\ r[line] # None /\ ~Among(line, s, Len(s)) =>
              Len(s) = Ways /\ \A i \in DOMAIN s : r[line] < r[s[i]]

IsRecent(sets, r) == \A n \in 0 .. Sets - 1 : SetIsRecent(sets[n], n, r)

SetTypes == [0 .. Sets - 1 -> {s \in Seq(Lines) : Len(s) <= Ways}]
StampTypes == [Lines -> Nat \cup {None}]

\* A set with a line moved to its front: where each line of it came from.
LEMMA ToFrontIs ==
    ASSUME NEW s \in Seq(Lines), NEW line \in Lines, Len(s) <= Ways
    PROVE  LET t == ToFront(s, line)
           IN  /\ t \in Seq(Lines) /\ Len(t) <= Ways /\ Len(t) >= 1
               /\ Len(t) = IF Among(line, s, Len(s)) \/ Len(s) = Ways
                           THEN Len(s) ELSE Len(s) + 1
               /\ t[1] = line
               /\ \A i \in DOMAIN t : i > 1 =>
                     IF Among(line, s, i - 1) THEN i \in DOMAIN s /\ t[i] = s[i]
                     ELSE i - 1 \in DOMAIN s /\ t[i] = s[i - 1]
<1> DEFINE n == IF Among(line, s, Len(s)) \/ Len(s) = Ways THEN Len(s) ELSE Len(s) + 1
           t == ToFront(s, line)
<1>1. Len(s) \in Nat /\ DOMAIN s = 1 .. Len(s) /\ \A i \in 1 .. Len(s) : s[i] \in Lines
  OBVIOUS
<1>2. Among(line, s, Len(s)) => Len(s) >= 1
  BY <1>1, SMT DEF Among
<1>a. Len(s) \in Nat /\ Ways \in Nat /\ Ways >= 1
  BY Sizes
<1>3. n \in Nat /\ n >= 1 /\ n <= Ways /\ n <= Len(s) + 1
  <2>1. CASE Among(line, s, Len(s)) \/ Len(s) = Ways
    BY <2>1, <1>2, <1>a
  <2>2. CASE ~(Among(line, s, Len(s)) \/ Len(s) = Ways)
    BY <2>2, <1>a
  <2> QED
    BY <2>1, <2>2
<1>4. \A i \in 1 .. n : Among(line, s, i - 1) => i \in 1 .. Len(s)
  <2> SUFFICES ASSUME NEW i \in 1 .. n, Among(line, s, i - 1) PROVE i \in 1 .. Len(s)
    OBVIOUS
  <2>1. PICK j \in 1 .. i - 1 : s[j] = line
    BY DEF Among
  <2>2. i <= Len(s) + 1
    BY <1>3, <1>1
  <2>3. i = Len(s) + 1 => Among(line, s, Len(s))
    BY <2>1, <1>1, SMT DEF Among
  <2>4. i # Len(s) + 1
    BY <2>3, <1>1, SMT
  <2> QED
    BY <2>2, <2>4, <1>1, <1>3, SMT
<1>5. \A i \in 1 .. n : i > 1 => i - 1 \in 1 .. Len(s)
  BY <1>1, <1>3, SMT
<1>6. t = [i \in 1 .. n |-> IF i = 1 THEN line
                           ELSE IF Among(line, s, i - 1) THEN s[i] ELSE s[i - 1]]
  BY DEF ToFront
<1> HIDE DEF n, t
<1>7. \A i \in 1 .. n :
        t[i] = IF i = 1 THEN line ELSE IF Among(line, s, i - 1) THEN s[i] ELSE s[i - 1]
  BY <1>6
<1>8. \A i \in 1 .. n : t[i] \in Lines
  <2> SUFFICES ASSUME NEW i \in 1 .. n PROVE t[i] \in Lines
    OBVIOUS
  <2>1. CASE i = 1
    BY <2>1, <1>7
  <2>2. CASE i # 1 /\ Among(line, s, i - 1)
    BY <2>2, <1>7, <1>4, <1>1
  <2>3. CASE i # 1 /\ ~Among(line, s, i - 1)
    <3>1. i - 1 \in 1 .. Len(s)
      BY <2>3, <1>5, <1>3
    <3>2. t[i] = s[i - 1]
      BY <2>3, <1>7
    <3> QED
      BY <3>1, <3>2, <1>1
  <2> QED
    BY <2>1, <2>2, <2>3
<1>9. t = [i \in 1 .. n |-> t[i]]
  BY <1>6
<1>10. t \in Seq(Lines) /\ Len(t) = n /\ DOMAIN t = 1 .. n
  <2>1. t \in [1 .. n -> Lines]
    BY <1>8, <1>9
  <2>2. t \in Seq(Lines)
    BY <2>1, <1>3
  <2> QED
    BY <2>1, <2>2, <1>3, SMT
<1>11. t[1] = line
  BY <1>7, <1>3
<1>12. \A i \in DOMAIN t : i > 1 =>
          IF Among(line, s, i - 1) THEN i \in DOMAIN s /\ t[i] = s[i]
          ELSE i - 1 \in DOMAIN s /\ t[i] = s[i - 1]
  <2> SUFFICES ASSUME NEW i \in 1 .. n, i > 1
               PROVE  IF Among(line, s, i - 1) THEN i \in DOMAIN s /\ t[i] = s[i]
                      ELSE i - 1 \in DOMAIN s /\ t[i] = s[i - 1]
    BY <1>10
  <2>1. i # 1
    BY <1>3, SMT
  <2> QED
    BY <2>1, <1>1, <1>4, <1>5, <1>7
<1> QED
  BY <1>3, <1>10, <1>11, <1>12 DEF n, t

\* A line read is the most recent of its set, and the others keep their order.
LEMMA ReadIsRecent ==
    ASSUME NEW s \in Seq(Lines), NEW n, NEW line \in Lines, SetOf(line) = n,
           NEW r \in StampTypes, NEW now \in Nat, \A l \in Lines : r[l] < now,
           SetIsRecent(s, n, r)
    PROVE  SetIsRecent(ToFront(s, line), n, [r EXCEPT ![line] = now])
<1> DEFINE t == ToFront(s, line)
           q == [r EXCEPT ![line] = now]
           From(i) == IF Among(line, s, i - 1) THEN i ELSE i - 1
<1>1. /\ t \in Seq(Lines) /\ Len(t) <= Ways /\ Len(t) >= 1
      /\ Len(t) = IF Among(line, s, Len(s)) \/ Len(s) = Ways THEN Len(s) ELSE Len(s) + 1
      /\ t[1] = line
      /\ \A i \in DOMAIN t : i > 1 =>
            IF Among(line, s, i - 1) THEN i \in DOMAIN s /\ t[i] = s[i]
            ELSE i - 1 \in DOMAIN s /\ t[i] = s[i - 1]
  BY ToFrontIs DEF SetIsRecent
<1>2. /\ Len(s) \in Nat /\ DOMAIN s = 1 .. Len(s) /\ \A i \in 1 .. Len(s) : s[i] \in Lines
      /\ Len(t) \in Nat /\ DOMAIN t = 1 .. Len(t)
  BY <1>1
<1>a. Len(s) \in Nat /\ Len(t) \in Nat /\ Len(t) >= 1
  BY <1>1
<1>b. Len(t) >= Len(s)
  BY <1>1, <1>a
<1>3. q[line] = now /\ \A l \in Lines : l # line => q[l] = r[l]
  BY DEF StampTypes
<1>4. \A l \in Lines : r[l] \in Int /\ q[l] \in Int /\ r[l] < now
  BY DEF StampTypes, None
<1> HIDE DEF t, q
<1>5. ASSUME NEW i \in 1 .. Len(t), i > 1
      PROVE  /\ From(i) \in 1 .. Len(s) /\ t[i] = s[From(i)] /\ t[i] # line
             /\ t[i] \in Lines /\ q[t[i]] = r[s[From(i)]]
  <2>1. From(i) \in 1 .. Len(s) /\ t[i] = s[From(i)]
    BY <1>1, <1>2, <1>5
  <2>2. t[i] # line
    <3>1. CASE Among(line, s, i - 1)
      <4>1. PICK j \in 1 .. i - 1 : s[j] = line
        BY <3>1 DEF Among
      <4>2. i \in 1 .. Len(s) /\ t[i] = s[i]
        BY <3>1, <2>1
      <4>3. j \in 1 .. Len(s) /\ j < i
        BY <4>1, <4>2, <1>2, SMT
      <4>4. r[s[i]] < r[line]
        BY <4>1, <4>2, <4>3, <1>2 DEF SetIsRecent
      <4> QED
        BY <4>2, <4>4, <1>4, SMT
    <3>2. CASE ~Among(line, s, i - 1)
      <4>1. i - 1 \in 1 .. i - 1
        BY <1>5, <1>2, SMT
      <4>2. s[i - 1] # line
        BY <4>1, <3>2 DEF Among
      <4> QED
        BY <4>2, <2>1, <3>2
    <3> QED
      BY <3>1, <3>2
  <2> QED
    BY <2>1, <2>2, <1>2, <1>3
<1>6. \A i \in DOMAIN t : SetOf(t[i]) = n /\ q[t[i]] # None
  <2> SUFFICES ASSUME NEW i \in 1 .. Len(t) PROVE SetOf(t[i]) = n /\ q[t[i]] # None
    BY <1>2
  <2>1. CASE i = 1
    BY <2>1, <1>1, <1>3, SMT DEF None
  <2>2. CASE i > 1
    <3>1. From(i) \in DOMAIN s /\ t[i] = s[From(i)] /\ q[t[i]] = r[s[From(i)]]
      BY <2>2, <1>5, <1>2
    <3> HIDE DEF From
    <3> QED
      BY <3>1 DEF SetIsRecent
  <2> QED
    BY <2>1, <2>2, <1>2, SMT
<1>7. \A i, j \in DOMAIN t : i < j => q[t[j]] < q[t[i]]
  <2> SUFFICES ASSUME NEW i \in 1 .. Len(t), NEW j \in 1 .. Len(t), i < j
               PROVE  q[t[j]] < q[t[i]]
    BY <1>2
  <2>1. j > 1
    BY <1>2, SMT
  <2>2. From(j) \in 1 .. Len(s) /\ q[t[j]] = r[s[From(j)]]
    BY <2>1, <1>5
  <2>3. CASE i = 1
    <3>1. q[t[i]] = now /\ s[From(j)] \in Lines
      BY <2>2, <2>3, <1>1, <1>3, <1>2
    <3> QED
      BY <3>1, <2>2, <1>4
  <2>4. CASE i > 1
    <3>1. From(i) \in 1 .. Len(s) /\ q[t[i]] = r[s[From(i)]]
      BY <2>4, <1>5
    <3>2. Among(line, s, i - 1) => Among(line, s, j - 1)
      BY <1>2, SMT DEF Among
    <3>3. From(i) < From(j)
      BY <3>2, <1>2, <2>4, SMT
    <3> HIDE DEF From
    <3> QED
      BY <3>1, <3>3, <2>2, <1>2 DEF SetIsRecent
  <2> QED
    BY <2>3, <2>4, <1>2, SMT
<1>8. ASSUME NEW k \in 1 .. Len(s), s[k] # line, k < Len(t) \/ Among(line, s, k)
      PROVE  Among(s[k], t, Len(t))
  <2>1. CASE Among(line, s, k)
    <3>1. PICK j \in 1 .. k : s[j] = line
      BY <2>1 DEF Among
    <3>2. j \in 1 .. k - 1 /\ k > 1
      BY <3>1, <1>8, <1>2, SMT
    <3>3. Among(line, s, k - 1)
      BY <3>1, <3>2 DEF Among
    <3>4. Among(line, s, Len(s))
      BY <3>1, <1>2, SMT DEF Among
    <3>5. k \in 1 .. Len(t)
      BY <3>4, <1>1, <1>2
    <3> QED
      BY <3>2, <3>3, <3>5, <1>1, <1>2 DEF Among
  <2>2. CASE ~Among(line, s, k) /\ k < Len(t)
    <3>1. k + 1 \in 1 .. Len(t) /\ k + 1 > 1 /\ (k + 1) - 1 = k
      BY <2>2, <1>2, SMT
    <3>2. t[k + 1] = s[k]
      BY <3>1, <2>2, <1>1, <1>2
    <3> QED
      BY <3>1, <3>2 DEF Among
  <2> QED
    BY <2>1, <2>2, <1>8
<1>9. ASSUME NEW l \in Lines, SetOf(l) = n, q[l] # None, ~Among(l, t, Len(t))
      PROVE  Len(t) = Ways /\ \A i \in DOMAIN t : q[l] < q[t[i]]
  <2>1. l # line
    <3>1. 1 \in 1 .. Len(t)
      BY <1>a
    <3> QED
      BY <3>1, <1>1, <1>9 DEF Among
  <2>2. q[l] = r[l] /\ r[l] # None
    BY <2>1, <1>3, <1>9
  <2>3. CASE ~Among(l, s, Len(s))
    <3>1. Len(s) = Ways /\ \A i \in DOMAIN s : r[l] < r[s[i]]
      BY <2>2, <2>3, <1>9 DEF SetIsRecent
    <3>2. ASSUME NEW i \in 1 .. Len(t) PROVE q[l] < q[t[i]]
      <4>1. CASE i = 1
        BY <4>1, <2>2, <1>1, <1>3, <1>4
      <4>2. CASE i > 1
        BY <4>2, <3>1, <2>2, <1>2, <1>5
      <4> QED
        BY <4>1, <4>2, <1>2, SMT
    <3> QED
      BY <3>1, <3>2, <1>1, <1>2
  <2>4. CASE Among(l, s, Len(s))
    <3>1. PICK k \in 1 .. Len(s) : s[k] = l
      BY <2>4 DEF Among
    <3>2. ~(k < Len(t)) /\ ~Among(line, s, k)
      BY <3>1, <1>8, <1>9, <2>1
    <3>4. k = Len(s) /\ Len(t) = Len(s)
      BY <3>2, <1>a, <1>b
    <3>5. Len(t) = Ways
      BY <3>2, <3>4, <1>1, <1>2, SMT
    <3>6. ASSUME NEW i \in 1 .. Len(t) PROVE q[l] < q[t[i]]
      <4>1. CASE i = 1
        BY <4>1, <2>2, <1>1, <1>3, <1>4
      <4>2. CASE i > 1
        <5>1. ~Among(line, s, i - 1)
          BY <3>2, <3>4, <3>6, <1>2, SMT DEF Among
        <5>2. From(i) = i - 1
          BY <5>1
        <5>3. i - 1 \in 1 .. Len(s) /\ i - 1 < k
          BY <4>2, <3>4, <3>6, <1>2, SMT
        <5>4. q[t[i]] = r[s[i - 1]]
          BY <4>2, <5>2, <1>5
        <5>5. r[s[k]] < r[s[i - 1]]
          BY <5>3, <3>1, <1>2 DEF SetIsRecent
        <5> QED
          BY <5>4, <5>5, <3>1, <2>2
      <4> QED
        BY <4>1, <4>2, <1>2, SMT
    <3> QED
      BY <3>5, <3>6, <1>2
  <2> QED
    BY <2>3, <2>4
<1> QED
  BY <1>1, <1>6, <1>7, <1>9 DEF SetIsRecent, t, q

\* A read leaves sets of lines.
LEMMA CacheReadTyped ==
    ASSUME NEW sets \in SetTypes, NEW a \in 0 .. MainWords - 1
    PROVE  CacheRead(sets, a) \in SetTypes
<1> DEFINE m == SetOf(LineOf(a))
           t == ToFront(sets[m], LineOf(a))
<1>1. LineOf(a) \in Lines /\ m \in 0 .. Sets - 1
  BY LineIn
<1>2. sets[m] \in Seq(Lines) /\ Len(sets[m]) <= Ways
  BY <1>1 DEF SetTypes
<1>3. t \in Seq(Lines) /\ Len(t) <= Ways
  BY <1>1, <1>2, ToFrontIs
<1>4. CacheRead(sets, a) = [sets EXCEPT ![m] = t]
  BY DEF CacheRead
<1> HIDE DEF t, m
<1> QED
  BY <1>1, <1>3, <1>4 DEF SetTypes

\* So of the cache: a read of a word of main memory.
LEMMA CacheReadIsRecent ==
    ASSUME NEW sets \in SetTypes, NEW a \in 0 .. MainWords - 1,
           NEW r \in StampTypes, NEW now \in Nat, \A l \in Lines : r[l] < now,
           IsRecent(sets, r)
    PROVE  /\ [r EXCEPT ![LineOf(a)] = now] \in StampTypes
           /\ IsRecent(CacheRead(sets, a), [r EXCEPT ![LineOf(a)] = now])
<1> DEFINE line == LineOf(a)
           m == SetOf(line)
           q == [r EXCEPT ![line] = now]
           t == ToFront(sets[m], line)
<1>1. line \in Lines /\ m \in 0 .. Sets - 1
  BY LineIn
<1>2. CacheRead(sets, a) = [sets EXCEPT ![m] = t]
  BY <1>1 DEF CacheRead
<1>3. SetIsRecent(sets[m], m, r) /\ sets[m] \in Seq(Lines)
  BY <1>1 DEF IsRecent, SetTypes
<1>5. SetIsRecent(t, m, q)
  BY <1>1, <1>3, ReadIsRecent
<1>6. q \in StampTypes
  BY <1>1 DEF StampTypes
<1> HIDE DEF t
<1>7. ASSUME NEW n \in 0 .. Sets - 1, n # m PROVE SetIsRecent(sets[n], n, q)
  <2>1. SetIsRecent(sets[n], n, r) /\ sets[n] \in Seq(Lines)
    BY DEF IsRecent, SetTypes
  <2>2. \A l \in Lines : SetOf(l) = n => l # line /\ q[l] = r[l]
    BY <1>7 DEF StampTypes
  <2>3. \A i \in DOMAIN sets[n] : sets[n][i] \in Lines /\ SetOf(sets[n][i]) = n
    BY <2>1 DEF SetIsRecent
  <2>4. \A i \in DOMAIN sets[n] : q[sets[n][i]] = r[sets[n][i]]
    BY <2>2, <2>3
  <2> HIDE DEF q
  <2> QED
    BY <2>1, <2>2, <2>4 DEF SetIsRecent
<1>8. \A n \in 0 .. Sets - 1 : SetIsRecent([sets EXCEPT ![m] = t][n], n, q)
  BY <1>1, <1>5, <1>7 DEF SetTypes
<1> QED
  BY <1>1, <1>2, <1>6, <1>8 DEF IsRecent

\* An empty cache holds what was read since.
LEMMA EmptyIsRecent ==
    /\ NoLines \in SetTypes
    /\ [line \in Lines |-> None] \in StampTypes
    /\ IsRecent(NoLines, [line \in Lines |-> None])
<1>1. \A n \in 0 .. Sets - 1 : NoLines[n] = <<>>
  BY DEF NoLines
<1>2. Len(<<>>) = 0 /\ DOMAIN <<>> = {} /\ <<>> \in Seq(Lines) /\ 0 <= Ways
  BY Sizes
<1>3. \A n \in 0 .. Sets - 1 : SetIsRecent(<<>>, n, [line \in Lines |-> None])
  BY <1>2, Sizes, SMT DEF SetIsRecent
<1> QED
  BY <1>1, <1>2, <1>3 DEF IsRecent, NoLines, StampTypes, SetTypes

-----------------------------------------------------------------------------
(* The inductive invariant.                                                  *)

\* The types of an operation, the processor and the port.
Operations == [k : memops \cup {"plain", "return", "lc", "map"}, at : Nat]

ProcTypes ==
    [ns : Nat, ops : Nat, transfers : Nat, program : Seq(Operations),
     main : [0 .. MainWords - 1 -> Nat], page : MappedPages, lc : Nat, newlc : BOOLEAN,
     nextInstr : BOOLEAN, wmap : MappedPages \cup {None}, memstart : BOOLEAN,
     fetch : BOOLEAN, wrcyc : BOOLEAN, vma : Nat, to : {"memory", "device", "nothing"},
     mbusy : BOOLEAN, mbusySync : BOOLEAN, acked : BOOLEAN, written : BOOLEAN,
     clearAt : Nat \cup {None}, data : Nat, dma : BOOLEAN]

StateTypes ==
    [k : {"idle", "requested", "granted", "acked"}, ack : Nat \cup {None},
     answered : Nat \cup {None}, timedOut : BOOLEAN]

PrefetchTypes ==
    [vaddr : Vaddrs, phys : 0 .. MainWords - 1, word : Nat] \cup {NoPrefetch}

PortTypes ==
    [state : StateTypes, write : BOOLEAN, addr : Nat, memory : BOOLEAN,
     sets : SetTypes, memoryFreeAt : Nat, bufferFreeAt : Nat,
     reach : {"none", "line", "page"}, prefetched : PrefetchTypes,
     fetchVaddr : Vaddrs \cup {None}]

\* What is left of a program keeps the microcode's rules, the return before
\* it and the fetch just started being what they are.
NoMapAt(g, i) == i \in DOMAIN g => g[i].k # "map"
NoVmaAt(g, i) == i \in DOMAIN g => g[i].k \notin memops \cup {"map"}

RulesOf(g) ==
    \A i \in DOMAIN g :
        /\ g[i].k = "map" => g[i].at \in MappedPages
        /\ g[i].k = "return" => NoVmaAt(g, i + 1) /\ NoMapAt(g, i + 2)

RulesLeft(c) ==
    /\ RulesOf(c.program)
    /\ c.nextInstr => NoVmaAt(c.program, 1) /\ NoMapAt(c.program, 2)
    /\ c.memstart /\ c.fetch => NoMapAt(c.program, 1)

\* The processor's cycle and the port's are one: a start is pending only
\* while the port is idle.
InCycle(c, p) ==
    /\ p.state.k # "requested"
    /\ c.mbusy <=> p.state.k # "idle"
    /\ c.mbusy => c.mbusySync /\ ~c.memstart
    /\ c.mbusy => p.state.ack \in Nat /\ p.state.answered \in Nat
    /\ ~c.mbusy => c.clearAt = None

\* A fetch pending or at the port is of the map as it stands.
Fetching(c, p) ==
    /\ c.memstart /\ c.fetch =>
          c.vma \in Vaddrs /\ c.to = "memory" /\ ~c.wrcyc /\ c.wmap = None
    /\ c.mbusy /\ p.fetchVaddr # None =>
          p.addr = Physical(c, p.fetchVaddr) /\ c.wmap = None

\* A store taken by the port that memory has not got yet.
StoreDue(c) == c.mbusy /\ c.wrcyc /\ c.to = "memory" /\ ~c.written

\* The prefetched word is memory's, and the map's, unless a transfer is yet
\* to be seen; and no store on its way is to it.
PrefetchedIs(c, p) ==
    ~c.dma /\ p.prefetched # NoPrefetch =>
        /\ c.wmap = None
        /\ p.prefetched.phys = Physical(c, p.prefetched.vaddr)
        /\ p.prefetched.word = c.main[p.prefetched.phys]
        /\ StoreDue(c) => p.prefetched.phys # p.addr

PairOK(c, p) ==
    /\ c \in ProcTypes /\ p \in PortTypes
    /\ InCycle(c, p) /\ Fetching(c, p) /\ PrefetchedIs(c, p)

\* The writes behind the processor follow each other.
BehindOK(b, p) ==
    /\ b \in SUBSET [ack : Nat, done : Nat]
    /\ p.bufferFreeAt <= p.memoryFreeAt
    /\ \A w \in b : w.done <= p.bufferFreeAt
    /\ \A v, w \in b : v = w \/ v.done <= w.ack \/ w.done <= v.ack

StampsOK(r, now) == r \in StampTypes /\ \A line \in Lines : r[line] <= now

\* Before its first microcycle the machine is as it was made.
AsMade ==
    proc.ns = 0 =>
        /\ proc = [ProcNew EXCEPT !.program = proc.program]
        /\ port = PortNew(port.reach)
        /\ behind = {} /\ reads = [line \in Lines |-> None]

PortInv ==
    /\ PairOK(proc, port) /\ RulesLeft(proc)
    /\ BehindOK(behind, port) /\ StampsOK(reads, proc.ns)
    /\ IsRecent(port.sets, reads) /\ AsMade /\ FusedIsMemorys

-----------------------------------------------------------------------------
(* Up to an edge: a write lands, the cycle is acknowledged, the prefetch     *)
(* looks, MBUSY falls.                                                       *)

\* What none of it changes of the processor, and of the port.
Carries(c, d) ==
    /\ d.ns = c.ns /\ d.ops = c.ops /\ d.transfers = c.transfers /\ d.program = c.program
    /\ d.page = c.page /\ d.lc = c.lc /\ d.newlc = c.newlc /\ d.nextInstr = c.nextInstr
    /\ d.wmap = c.wmap /\ d.memstart = c.memstart /\ d.fetch = c.fetch
    /\ d.wrcyc = c.wrcyc /\ d.vma = c.vma /\ d.to = c.to /\ d.mbusySync = c.mbusySync
    /\ d.mbusy => c.mbusy
    /\ c.dma => d.dma

CarriesPort(p, q) ==
    /\ q.sets = p.sets /\ q.reach = p.reach
    /\ q.memoryFreeAt = p.memoryFreeAt /\ q.bufferFreeAt = p.bufferFreeAt
    /\ q.state.k = "granted" => p.state.k = "granted"

\* An idle port carries nothing.
LEMMA CarriedIdle ==
    ASSUME NEW c, NEW p, PairOK(c, p), ~c.mbusy, NEW now \in Nat
    PROVE  PortCarried(c, p, now) = <<c, p>>
<1>1. p.state.k = "idle" /\ c.clearAt = None
  BY DEF PairOK, InCycle
<1>2. PortLandWrite(c, p, now) = c /\ PortPoll(p, now) = p
  BY <1>1 DEF PortLandWrite, PortPoll
<1> QED
  BY <1>1, <1>2 DEF PortCarried

\* A write lands.
LEMMA LandedKeeps ==
    ASSUME NEW c, NEW p, PairOK(c, p), NEW now \in Nat
    PROVE  LET a == PortLandWrite(c, p, now)
           IN  /\ PairOK(a, p) /\ Carries(c, a)
               /\ a.mbusy = c.mbusy /\ a.acked = c.acked /\ a.clearAt = c.clearAt
<1> DEFINE a == PortLandWrite(c, p, now)
<1>0. c \in ProcTypes /\ p \in PortTypes /\ InCycle(c, p) /\ Fetching(c, p) /\ PrefetchedIs(c, p)
  BY DEF PairOK
<1>1. CASE ~c.wrcyc \/ c.written \/ p.state.k \notin {"granted", "acked"} \/ now < p.state.answered
  <2>1. a = c
    BY <1>1 DEF PortLandWrite
  <2> QED
    BY <2>1, <1>0 DEF PairOK, Carries
<1>2. CASE ~(~c.wrcyc \/ c.written \/ p.state.k \notin {"granted", "acked"} \/ now < p.state.answered)
  <2>0. c.mbusy /\ c.wrcyc /\ ~c.written
    BY <1>2, <1>0 DEF InCycle
  <2>1. CASE c.to = "memory"
    <3>1. a = [c EXCEPT !.written = TRUE, !.main[p.addr] = c.data]
      BY <1>2, <2>1 DEF PortLandWrite
    <3>2. a = [c EXCEPT !.written = TRUE, !.main = [c.main EXCEPT ![p.addr] = c.data]]
      BY <3>1
    <3>3. [c.main EXCEPT ![p.addr] = c.data] \in [0 .. MainWords - 1 -> Nat]
      BY <1>0 DEF ProcTypes
    <3>4. a \in ProcTypes
      BY <3>2, <3>3, <1>0 DEF ProcTypes
    <3>5. Carries(c, a) /\ a.mbusy = c.mbusy /\ a.acked = c.acked /\ a.clearAt = c.clearAt
          /\ a.written /\ a.dma = c.dma /\ a.main = [c.main EXCEPT ![p.addr] = c.data]
      BY <3>2, <1>0 DEF ProcTypes, Carries
    <3>6. PrefetchedIs(a, p)
      <4> SUFFICES ASSUME ~a.dma, p.prefetched # NoPrefetch PROVE PrefetchedIs(a, p)
        BY DEF PrefetchedIs
      <4>1. /\ c.wmap = None /\ p.prefetched.phys = Physical(c, p.prefetched.vaddr)
            /\ p.prefetched.word = c.main[p.prefetched.phys]
            /\ p.prefetched.phys # p.addr
        BY <1>0, <3>5, <2>0, <2>1 DEF PrefetchedIs, StoreDue
      <4>2. p.prefetched.phys \in 0 .. MainWords - 1 /\ DOMAIN c.main = 0 .. MainWords - 1
        BY <1>0 DEF PortTypes, PrefetchTypes, ProcTypes
      <4>3. a.main[p.prefetched.phys] = c.main[p.prefetched.phys]
        BY <4>1, <4>2, <3>5
      <4> QED
        BY <4>1, <4>3, <3>5 DEF PrefetchedIs, StoreDue, Physical, Carries
    <3> QED
      BY <3>4, <3>5, <3>6, <1>0 DEF PairOK, InCycle, Fetching, Physical, Carries
  <2>2. CASE c.to = "device"
    <3> DEFINE m == [w \in DOMAIN c.main |-> IF w \div PageWords = p.addr THEN c.ops ELSE c.main[w]]
    <3>1. a = [c EXCEPT !.written = TRUE, !.main = m, !.dma = TRUE]
      BY <1>2, <2>2, <1>0 DEF PortLandWrite, Transferred, ProcTypes
    <3>2. m \in [0 .. MainWords - 1 -> Nat]
      BY <1>0 DEF ProcTypes
    <3> HIDE DEF m
    <3>3. a \in ProcTypes
      BY <3>1, <3>2, <1>0 DEF ProcTypes
    <3>4. Carries(c, a) /\ a.mbusy = c.mbusy /\ a.acked = c.acked /\ a.clearAt = c.clearAt /\ a.dma
      BY <3>1, <1>0 DEF ProcTypes, Carries
    <3> QED
      BY <3>3, <3>4, <1>0 DEF PairOK, InCycle, Fetching, PrefetchedIs, Physical, Carries
  <2>3. CASE c.to = "nothing"
    <3>1. a = [c EXCEPT !.written = TRUE]
      BY <1>2, <2>3 DEF PortLandWrite
    <3>2. a \in ProcTypes /\ Carries(c, a) /\ a.mbusy = c.mbusy /\ a.acked = c.acked
          /\ a.clearAt = c.clearAt /\ a.dma = c.dma /\ a.main = c.main
      BY <3>1, <1>0 DEF ProcTypes, Carries
    <3> QED
      BY <2>3, <3>2, <1>0 DEF PairOK, InCycle, Fetching, PrefetchedIs, StoreDue, Physical, Carries
  <2> QED
    BY <2>1, <2>2, <2>3, <1>0 DEF ProcTypes
<1> QED
  BY <1>1, <1>2

\* The acknowledgement comes.
LEMMA PortPollKeeps ==
    ASSUME NEW c, NEW p, PairOK(c, p), NEW now \in Nat
    PROVE  LET q == PortPoll(p, now)
           IN  PairOK(c, q) /\ CarriesPort(p, q) /\ q.write = p.write
<1> DEFINE q == PortPoll(p, now)
<1>0. c \in ProcTypes /\ p \in PortTypes /\ InCycle(c, p) /\ Fetching(c, p) /\ PrefetchedIs(c, p)
  BY DEF PairOK
<1>1. CASE p.state.k = "granted" /\ now >= p.state.ack
  <2>1. q = [p EXCEPT !.state.k = "acked"]
    BY <1>1 DEF PortPoll
  <2>2. q = [p EXCEPT !.state = [p.state EXCEPT !.k = "acked"]]
    BY <2>1
  <2>3. [p.state EXCEPT !.k = "acked"] \in StateTypes
    BY <1>0 DEF PortTypes, StateTypes
  <2>4. q \in PortTypes
    BY <2>2, <2>3, <1>0 DEF PortTypes
  <2>5. q.state = [p.state EXCEPT !.k = "acked"] /\ q.prefetched = p.prefetched
        /\ q.addr = p.addr /\ q.fetchVaddr = p.fetchVaddr /\ q.write = p.write
        /\ q.sets = p.sets /\ q.reach = p.reach
        /\ q.memoryFreeAt = p.memoryFreeAt /\ q.bufferFreeAt = p.bufferFreeAt
    BY <2>2, <1>0 DEF PortTypes
  <2>6. q.state.k = "acked"
    BY <2>5, <1>0 DEF PortTypes, StateTypes
  <2> HIDE DEF q
  <2>7. PairOK(c, q) /\ CarriesPort(p, q)
    BY <1>1, <2>4, <2>5, <2>6, <1>0
    DEF PairOK, InCycle, Fetching, PrefetchedIs, CarriesPort
  <2> QED
    BY <2>5, <2>7 DEF q
<1>2. CASE ~(p.state.k = "granted" /\ now >= p.state.ack)
  BY <1>2, <1>0 DEF PortPoll, PairOK, CarriesPort
<1> QED
  BY <1>1, <1>2

\* The prefetch looks at the word after a fetch.
LEMMA AnsweredKeeps ==
    ASSUME NEW c, NEW p, PairOK(c, p), c.mbusy, ~c.wrcyc
    PROVE  LET q == ReadAnswered(p, c.main)
           IN  PairOK(c, q) /\ CarriesPort(p, q) /\ q.state = p.state
<1> DEFINE q == ReadAnswered(p, c.main)
           next == p.addr + 1
           keep == /\ next % PageWords # 0 /\ next < MainWords
                   /\ next % LineWords # 0 \/ (p.reach = "page" /\ Holds(p.sets, next))
           took == [vaddr |-> (p.fetchVaddr + 1) % VirtualWords, phys |-> next,
                    word |-> c.main[next]]
<1>0. c \in ProcTypes /\ p \in PortTypes /\ InCycle(c, p) /\ Fetching(c, p) /\ PrefetchedIs(c, p)
  BY DEF PairOK
<1>1. \E f \in {p.prefetched, NoPrefetch} \cup {x \in {took} : keep /\ p.fetchVaddr # None} :
          q = [p EXCEPT !.fetchVaddr = None, !.prefetched = f]
  <2> DEFINE r == [p EXCEPT !.fetchVaddr = None]
  <2>1. r = [p EXCEPT !.fetchVaddr = None, !.prefetched = p.prefetched]
    BY <1>0 DEF PortTypes
  <2>2. q = r \/ q = [r EXCEPT !.prefetched = IF keep THEN took ELSE NoPrefetch]
    BY DEF ReadAnswered
  <2>3. p.fetchVaddr = None => q = r
    BY DEF ReadAnswered
  <2>4. \A f : [r EXCEPT !.prefetched = f] = [p EXCEPT !.fetchVaddr = None, !.prefetched = f]
    BY <1>0 DEF PortTypes
  <2> HIDE DEF q, r, keep, took
  <2> QED
    BY <2>1, <2>2, <2>3, <2>4
<1>2. PICK f \in {p.prefetched, NoPrefetch} \cup {x \in {took} : keep /\ p.fetchVaddr # None} :
          q = [p EXCEPT !.fetchVaddr = None, !.prefetched = f]
  BY <1>1
<1>3. q.fetchVaddr = None /\ q.prefetched = f /\ q.state = p.state /\ q.addr = p.addr
      /\ CarriesPort(p, q)
  BY <1>2, <1>0 DEF PortTypes, CarriesPort
<1>4. ~StoreDue(c)
  BY DEF StoreDue
<1>5. CASE f \in {p.prefetched, NoPrefetch}
  <2>1. q \in PortTypes
    BY <1>2, <1>5, <1>0 DEF PortTypes, PrefetchTypes
  <2> HIDE DEF q
  <2>2. PairOK(c, q)
    BY <2>1, <1>3, <1>4, <1>5, <1>0 DEF PairOK, InCycle, Fetching, PrefetchedIs
  <2> QED
    BY <2>2, <1>3 DEF q
<1>6. CASE f = took /\ keep /\ p.fetchVaddr # None
  <2>1. p.fetchVaddr \in Vaddrs /\ p.addr = Physical(c, p.fetchVaddr) /\ c.wmap = None
    BY <1>6, <1>0 DEF PortTypes, Fetching
  <2>2. c.page \in MappedPages /\ p.addr \in Nat
    BY <1>0 DEF ProcTypes, PortTypes
  <2>3. (p.fetchVaddr + 1) % VirtualWords \in Vaddrs
        /\ Physical(c, (p.fetchVaddr + 1) % VirtualWords) = next
    BY <2>1, <2>2, <1>6, NextPhysical
  <2>4. next \in 0 .. MainWords - 1
    BY <2>2, <1>6, Sizes, SMT
  <2>5. c.main[next] \in Nat
    BY <2>4, <1>0 DEF ProcTypes
  <2>6. f \in PrefetchTypes
    BY <2>3, <2>4, <2>5, <1>6 DEF PrefetchTypes
  <2>7. q \in PortTypes
    BY <2>6, <1>2, <1>0 DEF PortTypes
  <2>8. f.vaddr = (p.fetchVaddr + 1) % VirtualWords /\ f.phys = next /\ f.word = c.main[next]
    BY <1>6
  <2>9. PrefetchedIs(c, q)
    BY <2>1, <2>3, <2>8, <1>3, <1>4 DEF PrefetchedIs
  <2> HIDE DEF q
  <2>10. PairOK(c, q)
    BY <2>7, <2>9, <1>3, <1>0 DEF PairOK, InCycle, Fetching
  <2> QED
    BY <2>10, <1>3 DEF q
<1> QED
  BY <1>5, <1>6

\* The cycle is let go.
LEMMA FinishKeeps ==
    ASSUME NEW c, NEW p, PairOK(c, p)
    PROVE  LET d == [c EXCEPT !.mbusy = FALSE, !.acked = FALSE, !.clearAt = None]
               q == PortFinish(p)
           IN  PairOK(d, q) /\ Carries(c, d) /\ CarriesPort(p, q)
<1> DEFINE d == [c EXCEPT !.mbusy = FALSE, !.acked = FALSE, !.clearAt = None]
           q == PortFinish(p)
<1>0. c \in ProcTypes /\ p \in PortTypes /\ InCycle(c, p) /\ Fetching(c, p) /\ PrefetchedIs(c, p)
  BY DEF PairOK
<1>1. d \in ProcTypes
  BY <1>0 DEF ProcTypes
<1>2. ~d.mbusy /\ d.clearAt = None /\ Carries(c, d) /\ d.main = c.main /\ d.dma = c.dma
  BY <1>0 DEF ProcTypes, Carries
<1>3. Idle \in StateTypes /\ Idle.k = "idle"
  BY DEF Idle, StateTypes
<1>4. q \in PortTypes
  BY <1>0, <1>3 DEF PortTypes, PortFinish
<1>5. q.state = Idle /\ q.prefetched = p.prefetched /\ q.sets = p.sets /\ q.reach = p.reach
      /\ q.memoryFreeAt = p.memoryFreeAt /\ q.bufferFreeAt = p.bufferFreeAt
  BY <1>0 DEF PortTypes, PortFinish
<1> HIDE DEF d, q
<1>6. PairOK(d, q) /\ CarriesPort(p, q)
  BY <1>0, <1>1, <1>2, <1>3, <1>4, <1>5
  DEF PairOK, InCycle, Fetching, PrefetchedIs, StoreDue, Physical, Carries, CarriesPort
<1> QED
  BY <1>2, <1>6 DEF d, q

\* All of it.
LEMMA CarriedKeeps ==
    ASSUME NEW c, NEW p, PairOK(c, p), NEW now \in Nat
    PROVE  LET r == PortCarried(c, p, now)
           IN  r = <<r[1], r[2]>> /\ PairOK(r[1], r[2]) /\ Carries(c, r[1]) /\ CarriesPort(p, r[2])
<1>1. CASE ~c.mbusy
  <2>1. PortCarried(c, p, now) = <<c, p>>
    BY <1>1, CarriedIdle
  <2> QED
    BY <2>1 DEF Carries, CarriesPort
<1>2. CASE c.mbusy
  <2> DEFINE a == PortLandWrite(c, p, now)
             q == PortPoll(p, now)
             fresh == ~a.acked /\ q.state.k = "acked"
             clear == q.state.ack + IF q.memory THEN 0 ELSE PortFinishNs
             b == IF fresh THEN [a EXCEPT !.acked = TRUE, !.clearAt = clear] ELSE a
             r == IF fresh /\ ~a.wrcyc THEN ReadAnswered(q, b.main) ELSE q
             free == b.clearAt # None /\ now >= b.clearAt
  <2>1. PortCarried(c, p, now) =
            IF free THEN <<[b EXCEPT !.mbusy = FALSE, !.acked = FALSE, !.clearAt = None],
                           PortFinish(r)>>
            ELSE <<b, r>>
    BY DEF PortCarried
  <2>2. PairOK(a, p) /\ Carries(c, a) /\ a.mbusy
    BY <1>2, LandedKeeps
  <2>3. PairOK(a, q) /\ CarriesPort(p, q)
    BY <2>2, PortPollKeeps
  <2> HIDE DEF a, q
  <2>4. PairOK(b, q) /\ Carries(c, b) /\ b.mbusy /\ b.wrcyc = a.wrcyc /\ b.main = a.main
    <3>1. CASE ~fresh
      BY <3>1, <2>2, <2>3
    <3>2. CASE fresh
      <4>0. a \in ProcTypes /\ q \in PortTypes
        BY <2>3 DEF PairOK
      <4>1. q.state.ack \in Nat
        BY <2>2, <2>3 DEF PairOK, InCycle
      <4>2. clear \in Nat
        BY <4>1, Sizes
      <4>3. b = [a EXCEPT !.acked = TRUE, !.clearAt = clear]
        BY <3>2
      <4> HIDE DEF clear, b
      <4>4. b \in ProcTypes
        BY <4>0, <4>2, <4>3 DEF ProcTypes
      <4>5. Carries(a, b) /\ b.mbusy = a.mbusy /\ b.main = a.main /\ b.dma = a.dma
            /\ b.written = a.written
        BY <4>0, <4>3 DEF ProcTypes, Carries
      <4>6. InCycle(b, q)
        BY <4>5, <2>2, <2>3 DEF PairOK, InCycle, Carries
      <4>7. Fetching(b, q) /\ PrefetchedIs(b, q)
        BY <4>5, <2>3 DEF PairOK, Fetching, PrefetchedIs, StoreDue, Physical, Carries
      <4> QED
        BY <4>0, <4>4, <4>5, <4>6, <4>7, <2>2 DEF PairOK, Carries
    <3> QED
      BY <3>1, <3>2
  <2> HIDE DEF b
  <2>5. PairOK(b, r) /\ CarriesPort(p, r)
    <3>1. CASE ~(fresh /\ ~a.wrcyc)
      BY <3>1, <2>3, <2>4
    <3>2. CASE fresh /\ ~a.wrcyc
      <4>1. PairOK(b, r) /\ CarriesPort(q, r)
        BY <3>2, <2>4, AnsweredKeeps
      <4> QED
        BY <4>1, <2>3 DEF CarriesPort
    <3> QED
      BY <3>1, <3>2
  <2> HIDE DEF r
  <2>6. CASE ~free
    BY <2>1, <2>4, <2>5, <2>6
  <2>7. CASE free
    <3> DEFINE d == [b EXCEPT !.mbusy = FALSE, !.acked = FALSE, !.clearAt = None]
    <3>1. PairOK(d, PortFinish(r)) /\ Carries(b, d) /\ CarriesPort(r, PortFinish(r))
      BY <2>5, FinishKeeps
    <3>2. PortCarried(c, p, now) = <<d, PortFinish(r)>>
      BY <2>1, <2>7
    <3> HIDE DEF d
    <3> QED
      BY <3>1, <3>2, <2>4, <2>5 DEF Carries, CarriesPort
  <2> QED
    BY <2>6, <2>7
<1> QED
  BY <1>1, <1>2

-----------------------------------------------------------------------------
(* A start taken at an edge, and granted there.                              *)

AddressOf(c) == IF c.to = "memory" THEN Physical(c, c.vma) ELSE c.vma

\* What the cache holds for it, emptied by a transfer since the last one.
SetsFor(c, p) == IF c.dma THEN NoLines ELSE p.sets

\* The port q as a start of c takes it from p.
Requested(c, p, q) ==
    /\ q \in PortTypes
    /\ q.state = [Idle EXCEPT !.k = "requested"]
    /\ q.write = c.wrcyc /\ q.addr = AddressOf(c)
    /\ q.fetchVaddr # None => c.fetch /\ q.fetchVaddr = c.vma % VirtualWords
    /\ q.prefetched # NoPrefetch =>
          ~c.dma /\ q.prefetched = p.prefetched
          /\ (c.wrcyc => p.prefetched.phys # AddressOf(c))
    /\ q.sets = SetsFor(c, p) /\ q.reach = p.reach
    /\ q.memoryFreeAt = p.memoryFreeAt /\ q.bufferFreeAt = p.bufferFreeAt

\* A start pending is taken: the port is asked, emptied first if a transfer says so.
LEMMA StartTaken ==
    ASSUME NEW c, NEW p, PairOK(c, p), c.memstart
    PROVE  \E q : /\ Requested(c, p, q)
                  /\ StartCycle(c, p) =
                        <<[c EXCEPT !.mbusy = TRUE, !.written = FALSE, !.dma = FALSE], q>>
<1> DEFINE a == AddressOf(c)
           e == IF c.dma THEN InvalidateCache(p) ELSE p
           u == [e EXCEPT !.state = [Idle EXCEPT !.k = "requested"], !.write = c.wrcyc,
                          !.addr = a, !.memory = FALSE, !.fetchVaddr = None]
           r == PortRequestAt(e, c.wrcyc, a)
           q == IF c.fetch THEN MarkFetch(r, c.vma) ELSE r
<1>0. c \in ProcTypes /\ p \in PortTypes /\ InCycle(c, p)
  BY DEF PairOK
<1>1. ~c.mbusy
  BY <1>0 DEF InCycle
<1>2. StartCycle(c, p) = <<[c EXCEPT !.mbusy = TRUE, !.written = FALSE, !.dma = FALSE], q>>
  BY <1>1 DEF StartCycle, AddressOf
<1>3. a \in Nat
  <2>1. c.page \in MappedPages /\ c.vma \in Nat
    BY <1>0 DEF ProcTypes
  <2>2. Physical(c, c.vma) \in Nat
    BY <2>1, PhysicalIn
  <2> QED
    BY <2>1, <2>2 DEF AddressOf
<1>4. [Idle EXCEPT !.k = "requested"] \in StateTypes
  BY DEF Idle, StateTypes
<1>5. NoLines \in SetTypes
  BY EmptyIsRecent
<1>6. /\ e \in PortTypes /\ e.sets = SetsFor(c, p) /\ e.reach = p.reach
      /\ e.memoryFreeAt = p.memoryFreeAt /\ e.bufferFreeAt = p.bufferFreeAt
      /\ e.prefetched = IF c.dma THEN NoPrefetch ELSE p.prefetched
  <2>1. CASE c.dma
    <3>1. e = [p EXCEPT !.sets = NoLines, !.prefetched = NoPrefetch]
      BY <2>1 DEF InvalidateCache, DropPrefetched
    <3>2. NoPrefetch \in PrefetchTypes
      BY DEF PrefetchTypes
    <3> QED
      BY <2>1, <3>1, <3>2, <1>0, <1>5 DEF PortTypes, SetsFor
  <2>2. CASE ~c.dma
    BY <2>2, <1>0 DEF SetsFor
  <2> QED
    BY <2>1, <2>2
<1> HIDE DEF e, a
<1>7. u \in PortTypes /\ u.prefetched = e.prefetched /\ u.sets = e.sets /\ u.reach = e.reach
      /\ u.memoryFreeAt = e.memoryFreeAt /\ u.bufferFreeAt = e.bufferFreeAt
      /\ u.state = [Idle EXCEPT !.k = "requested"] /\ u.write = c.wrcyc /\ u.addr = a
      /\ u.fetchVaddr = None
  BY <1>0, <1>3, <1>4, <1>6 DEF PortTypes, ProcTypes
<1>8. r = IF c.wrcyc /\ e.prefetched.phys = a THEN DropPrefetched(u) ELSE u
  BY DEF PortRequestAt
<1> HIDE DEF u, r
<1>9. r \in PortTypes /\ r.sets = e.sets /\ r.reach = e.reach
      /\ r.memoryFreeAt = e.memoryFreeAt /\ r.bufferFreeAt = e.bufferFreeAt
      /\ r.state = [Idle EXCEPT !.k = "requested"] /\ r.write = c.wrcyc /\ r.addr = a
      /\ r.fetchVaddr = None
      /\ (r.prefetched # NoPrefetch =>
             r.prefetched = e.prefetched /\ (c.wrcyc => e.prefetched.phys # a))
  <2>1. CASE c.wrcyc /\ e.prefetched.phys = a
    <3>1. r = [u EXCEPT !.prefetched = NoPrefetch]
      BY <2>1, <1>8 DEF DropPrefetched
    <3> QED
      BY <3>1, <1>7 DEF PortTypes, PrefetchTypes
  <2>2. CASE ~(c.wrcyc /\ e.prefetched.phys = a)
    BY <2>2, <1>7, <1>8
  <2> QED
    BY <2>1, <2>2
<1>10. c.vma % VirtualWords \in Vaddrs
  BY <1>0, Sizes, Divided DEF ProcTypes, Vaddrs
<1>11. q = IF c.fetch THEN [r EXCEPT !.fetchVaddr = c.vma % VirtualWords] ELSE r
  BY DEF MarkFetch
<1>12. q \in PortTypes /\ q.sets = r.sets /\ q.reach = r.reach
      /\ q.memoryFreeAt = r.memoryFreeAt /\ q.bufferFreeAt = r.bufferFreeAt
      /\ q.state = r.state /\ q.write = r.write /\ q.addr = r.addr
      /\ q.prefetched = r.prefetched
      /\ (q.fetchVaddr # None => c.fetch /\ q.fetchVaddr = c.vma % VirtualWords)
  <2> HIDE DEF q
  <2>1. CASE c.fetch
    BY <2>1, <1>9, <1>10, <1>11 DEF PortTypes
  <2>2. CASE ~c.fetch
    BY <2>2, <1>9, <1>11
  <2> QED
    BY <2>1, <2>2
<1> HIDE DEF q
<1>13. Requested(c, p, q)
  BY <1>6, <1>9, <1>12 DEF Requested, a
<1> QED
  BY <1>2, <1>13

\* The port q as the edge at now leaves a request of c, the cache looked up.
GrantedAt(c, p, q, now) ==
    LET memory == c.to = "memory"
    IN  /\ q \in PortTypes
        /\ q.state.k = "granted" /\ q.state.ack \in Nat /\ q.state.answered \in Nat
        /\ q.memory = memory /\ q.write = c.wrcyc /\ q.addr = AddressOf(c)
        /\ q.fetchVaddr # None => c.fetch /\ q.fetchVaddr = c.vma % VirtualWords
        /\ q.prefetched # NoPrefetch =>
              ~c.dma /\ q.prefetched = p.prefetched
              /\ (c.wrcyc => p.prefetched.phys # AddressOf(c))
        /\ q.sets = IF memory /\ ~c.wrcyc THEN CacheRead(SetsFor(c, p), AddressOf(c))
                    ELSE SetsFor(c, p)
        /\ q.reach = p.reach
        /\ q.memoryFreeAt >= p.memoryFreeAt
        /\ IF memory /\ c.wrcyc
           THEN /\ q.state.ack >= p.bufferFreeAt
                /\ q.bufferFreeAt = q.memoryFreeAt
           ELSE q.bufferFreeAt = p.bufferFreeAt

\* A request is granted at the edge that finds it, whoever answers.
LEMMA EdgeGrants ==
    ASSUME NEW c, NEW p, PairOK(c, p), NEW r, Requested(c, p, r), NEW now \in Nat
    PROVE  GrantedAt(c, p, PortEdge(r, now, c.to), now)
<1> DEFINE g == PortEdge(r, now, c.to)
           u == [r EXCEPT !.memory = c.to = "memory"]
<1>0. c \in ProcTypes /\ p \in PortTypes /\ r \in PortTypes
  BY DEF PairOK, Requested
<1>1. r.state.k = "requested"
  BY DEF Requested, Idle
<1>2. g = CASE c.to = "memory" -> PortMemoryCycle(u, now)
            [] c.to = "device" -> [u EXCEPT !.state = Granted(now + PortCycleNs, now, FALSE)]
            [] c.to = "nothing" -> [u EXCEPT !.state = Granted(now, now, TRUE)]
  BY <1>1 DEF PortEdge
<1>3. u \in PortTypes /\ u.memory = (c.to = "memory") /\ u.write = r.write /\ u.addr = r.addr
      /\ u.fetchVaddr = r.fetchVaddr /\ u.prefetched = r.prefetched /\ u.sets = r.sets
      /\ u.reach = r.reach /\ u.memoryFreeAt = r.memoryFreeAt
      /\ u.bufferFreeAt = r.bufferFreeAt
  BY <1>0 DEF PortTypes
<1> HIDE DEF u, g
<1>4. \A x, y \in Nat, t \in BOOLEAN :
          /\ Granted(x, y, t) \in StateTypes
          /\ Granted(x, y, t).k = "granted" /\ Granted(x, y, t).ack = x
          /\ Granted(x, y, t).answered = y
  BY DEF Granted, StateTypes
<1>5. now + PortCycleNs \in Nat /\ now + HitNs \in Nat
  BY Sizes
<1>6. CASE c.to # "memory"
  <2>1. \E x, y \in Nat, t \in BOOLEAN : g = [u EXCEPT !.state = Granted(x, y, t)]
    <3>1. CASE c.to = "device"
      BY <3>1, <1>2, <1>5
    <3>2. CASE c.to = "nothing"
      BY <3>2, <1>2
    <3> QED
      BY <3>1, <3>2, <1>0, <1>6 DEF ProcTypes
  <2>2. PICK x \in Nat, y \in Nat, t \in BOOLEAN : g = [u EXCEPT !.state = Granted(x, y, t)]
    BY <2>1
  <2>3. g \in PortTypes /\ g.state = Granted(x, y, t)
        /\ g.memory = u.memory /\ g.write = u.write /\ g.addr = u.addr
        /\ g.fetchVaddr = u.fetchVaddr /\ g.prefetched = u.prefetched /\ g.sets = u.sets
        /\ g.reach = u.reach /\ g.memoryFreeAt = u.memoryFreeAt
        /\ g.bufferFreeAt = u.bufferFreeAt
    BY <2>2, <1>3, <1>4 DEF PortTypes
  <2>4. g.memoryFreeAt >= p.memoryFreeAt
    BY <2>3, <1>0, <1>3 DEF PortTypes, Requested
  <2>5. GrantedAt(c, p, g, now)
    BY <2>3, <2>4, <1>3, <1>4, <1>6 DEF GrantedAt, Requested
  <2> QED
    BY <2>5 DEF g
<1>7. CASE c.to = "memory"
  <2> DEFINE done == BiggerOf(now, u.memoryFreeAt) + IF u.write THEN WriteNs ELSE ReadNs
             at == BiggerOf(now + HitNs, u.bufferFreeAt)
  <2>0. u.memoryFreeAt \in Nat /\ u.bufferFreeAt \in Nat
    BY <1>3 DEF PortTypes
  <2>1. done \in Nat /\ done >= u.memoryFreeAt /\ at \in Nat /\ at >= u.bufferFreeAt
    <3>1. BiggerOf(now, u.memoryFreeAt) \in Nat /\ u.memoryFreeAt <= BiggerOf(now, u.memoryFreeAt)
      BY <2>0, Bigger
    <3>2. at \in Nat /\ u.bufferFreeAt <= at
      BY <2>0, <1>5, Bigger
    <3> HIDE DEF at
    <3>3. done \in Nat /\ done >= u.memoryFreeAt
      BY <3>1, <2>0, Sizes
    <3> QED
      BY <3>2, <3>3, <2>0
  <2>2. u.addr \in 0 .. MainWords - 1
    <3>1. u.addr = Physical(c, c.vma)
      BY <1>3, <1>7 DEF Requested, AddressOf
    <3>2. c.page \in MappedPages /\ c.vma \in Nat
      BY <1>0 DEF ProcTypes
    <3> QED
      BY <3>1, <3>2, PhysicalIn
  <2>3. CacheRead(u.sets, u.addr) \in SetTypes
    BY <2>2, <1>3, CacheReadTyped DEF PortTypes
  <2>4. g = IF ~u.write /\ Holds(u.sets, u.addr)
            THEN [u EXCEPT !.sets = CacheRead(u.sets, u.addr),
                           !.state = Granted(now + HitNs, now + HitNs, FALSE)]
            ELSE IF u.write
            THEN [u EXCEPT !.memoryFreeAt = done, !.bufferFreeAt = done,
                           !.state = Granted(at, at, FALSE)]
            ELSE [u EXCEPT !.sets = CacheRead(u.sets, u.addr), !.memoryFreeAt = done,
                           !.state = Granted(done, done, FALSE)]
    BY <1>2, <1>7 DEF PortMemoryCycle
  <2> HIDE DEF done, at
  <2> DEFINE Same == /\ g.memory = u.memory /\ g.write = u.write /\ g.addr = u.addr
                     /\ g.fetchVaddr = u.fetchVaddr /\ g.prefetched = u.prefetched
                     /\ g.reach = u.reach
  <2>5. CASE u.write
    <3>1. g = [u EXCEPT !.memoryFreeAt = done, !.bufferFreeAt = done,
                        !.state = Granted(at, at, FALSE)]
      BY <2>4, <2>5
    <3>2. g \in PortTypes /\ g.state = Granted(at, at, FALSE) /\ Same /\ g.sets = u.sets
          /\ g.memoryFreeAt = done /\ g.bufferFreeAt = done
      BY <3>1, <2>1, <1>3, <1>4 DEF PortTypes
    <3>3. g.state.k = "granted" /\ g.state.ack = at /\ g.state.answered = at
      BY <3>2 DEF Granted
    <3>4. c.wrcyc /\ u.memoryFreeAt = p.memoryFreeAt /\ u.bufferFreeAt = p.bufferFreeAt
      BY <2>5, <1>3 DEF Requested
    <3>5. GrantedAt(c, p, g, now)
      BY <3>2, <3>3, <3>4, <2>1, <1>3, <1>7 DEF GrantedAt, Requested
    <3> QED
      BY <3>5 DEF g
  <2>6. CASE ~u.write
    <3>1. \E m \in {u.memoryFreeAt, done}, x \in {now + HitNs, done} :
              g = [u EXCEPT !.sets = CacheRead(u.sets, u.addr), !.memoryFreeAt = m,
                            !.state = Granted(x, x, FALSE)]
      <4>1. CASE Holds(u.sets, u.addr)
        <5>1. [u EXCEPT !.sets = CacheRead(u.sets, u.addr),
                        !.state = Granted(now + HitNs, now + HitNs, FALSE)] =
              [u EXCEPT !.sets = CacheRead(u.sets, u.addr), !.memoryFreeAt = u.memoryFreeAt,
                        !.state = Granted(now + HitNs, now + HitNs, FALSE)]
          BY <1>3 DEF PortTypes
        <5> QED
          BY <5>1, <4>1, <2>4, <2>6
      <4>2. CASE ~Holds(u.sets, u.addr)
        BY <4>2, <2>4, <2>6
      <4> QED
        BY <4>1, <4>2
    <3>2. PICK m \in {u.memoryFreeAt, done}, x \in {now + HitNs, done} :
              g = [u EXCEPT !.sets = CacheRead(u.sets, u.addr), !.memoryFreeAt = m,
                            !.state = Granted(x, x, FALSE)]
      BY <3>1
    <3>3. m \in Nat /\ x \in Nat /\ m >= u.memoryFreeAt
      BY <2>0, <2>1, <1>5
    <3>4. g \in PortTypes /\ g.state = Granted(x, x, FALSE) /\ Same
          /\ g.sets = CacheRead(u.sets, u.addr)
          /\ g.memoryFreeAt = m /\ g.bufferFreeAt = u.bufferFreeAt
      BY <3>2, <3>3, <2>3, <1>3, <1>4 DEF PortTypes
    <3>5. g.state.k = "granted" /\ g.state.ack = x /\ g.state.answered = x
      BY <3>4 DEF Granted
    <3>6. ~c.wrcyc /\ u.memoryFreeAt = p.memoryFreeAt /\ u.bufferFreeAt = p.bufferFreeAt
          /\ u.sets = SetsFor(c, p) /\ u.addr = AddressOf(c)
      BY <2>6, <1>3 DEF Requested
    <3>7. GrantedAt(c, p, g, now)
      BY <3>3, <3>4, <3>5, <3>6, <1>3, <1>7 DEF GrantedAt, Requested
    <3> QED
      BY <3>7 DEF g
  <2> QED
    BY <2>5, <2>6
<1> QED
  BY <1>6, <1>7

-----------------------------------------------------------------------------
(* What a step leaves of the ghosts.                                         *)

GhostsOK(c, p, b, r) ==
    BehindOK(b, p) /\ StampsOK(r, c.ns) /\ IsRecent(p.sets, r)

\* Nothing is granted.
LEMMA GhostsStill ==
    ASSUME NEW c, NEW p, NEW d, NEW q, c \in ProcTypes, d \in ProcTypes,
           GhostsOK(c, p, behind, reads), CarriesPort(p, q), c.dma => d.dma, c.ns <= d.ns,
           Seen(c, p, d, q)
    PROVE  GhostsOK(d, q, behind', reads')
<1>1. behind' = behind /\ reads' = reads
  BY DEF Seen, CarriesPort
<1>2. StampsOK(reads, d.ns)
  <2>1. \A l \in Lines : reads[l] \in Int /\ reads[l] <= c.ns
    BY DEF GhostsOK, StampsOK, StampTypes, None
  <2>2. c.ns \in Nat /\ d.ns \in Nat
    BY DEF ProcTypes
  <2>3. \A l \in Lines : reads[l] <= d.ns
    BY <2>1, <2>2
  <2> QED
    BY <2>3 DEF GhostsOK, StampsOK
<1> QED
  BY <1>1, <1>2 DEF GhostsOK, CarriesPort, BehindOK

\* A start of c is granted; it finds the cache e's, emptied if c says so.
LEMMA GhostsGranted ==
    ASSUME NEW c, NEW p, NEW e, NEW f, NEW d, NEW q,
           PairOK(c, p), c.memstart, d \in ProcTypes, ~d.dma, c.ns < d.ns,
           GhostsOK(c, p, behind, reads), GrantedAt(e, f, q, d.ns),
           SetsFor(e, f) = SetsFor(c, p), AddressOf(e) = AddressOf(c),
           e.to = c.to, e.wrcyc = c.wrcyc,
           f.memoryFreeAt = p.memoryFreeAt, f.bufferFreeAt = p.bufferFreeAt,
           Seen(c, p, d, q)
    PROVE  GhostsOK(d, q, behind', reads')
<1> DEFINE new == [ack |-> q.state.ack, done |-> q.bufferFreeAt]
           since == IF c.dma THEN [line \in Lines |-> None] ELSE reads
<1>0. c \in ProcTypes /\ p \in PortTypes /\ q \in PortTypes /\ p.state.k # "granted"
      /\ q.state.k = "granted" /\ q.memory = (c.to = "memory") /\ q.write = c.wrcyc
      /\ q.addr = AddressOf(c) /\ q.state.ack \in Nat /\ q.memoryFreeAt >= p.memoryFreeAt
  BY DEF PairOK, InCycle, GrantedAt
<1>1. behind' = IF q.memory /\ q.write THEN behind \cup {new} ELSE behind
  BY <1>0 DEF Seen
<1>2. reads' = IF q.memory /\ ~q.write THEN [since EXCEPT ![LineOf(q.addr)] = d.ns] ELSE since
  BY <1>0 DEF Seen
<1>3. c.ns \in Nat /\ d.ns \in Nat
  BY <1>0 DEF ProcTypes
<1>4. since \in StampTypes /\ \A l \in Lines : since[l] \in Int /\ since[l] <= c.ns
  BY <1>3, EmptyIsRecent DEF GhostsOK, StampsOK, StampTypes, None
<1>5. IsRecent(SetsFor(c, p), since) /\ SetsFor(c, p) \in SetTypes
  <2>1. CASE c.dma
    BY <2>1, EmptyIsRecent DEF SetsFor
  <2>2. CASE ~c.dma
    BY <2>2, <1>0 DEF SetsFor, GhostsOK, PortTypes
  <2> QED
    BY <2>1, <2>2
<1> HIDE DEF since, new
<1>6. p.memoryFreeAt \in Nat /\ p.bufferFreeAt \in Nat /\ q.memoryFreeAt \in Nat
      /\ q.bufferFreeAt \in Nat
  BY <1>0 DEF PortTypes
<1>7. BehindOK(behind', q)
  <2>0. /\ behind \in SUBSET [ack : Nat, done : Nat]
        /\ p.bufferFreeAt <= p.memoryFreeAt
        /\ \A w \in behind : w.done <= p.bufferFreeAt
        /\ \A v, w \in behind : v = w \/ v.done <= w.ack \/ w.done <= v.ack
    BY DEF GhostsOK, BehindOK
  <2>1. CASE q.memory /\ q.write
    <3>1. q.state.ack >= p.bufferFreeAt /\ q.bufferFreeAt = q.memoryFreeAt
      BY <2>1, <1>0 DEF GrantedAt
    <3>2. new \in [ack : Nat, done : Nat] /\ new.ack = q.state.ack /\ new.done = q.bufferFreeAt
      BY <1>0, <1>6 DEF new
    <3>3. \A w \in behind : w.done <= q.bufferFreeAt /\ w.done <= new.ack
      <4>1. \A w \in behind : w.done \in Nat
        BY <2>0
      <4> QED
        BY <4>1, <3>1, <3>2, <2>0, <1>0, <1>6
    <3> QED
      BY <3>1, <3>2, <3>3, <2>0, <2>1, <1>1, <1>6 DEF BehindOK
  <2>2. CASE ~(q.memory /\ q.write)
    <3>1. q.bufferFreeAt = p.bufferFreeAt
      BY <2>2, <1>0 DEF GrantedAt
    <3> QED
      BY <3>1, <2>0, <2>2, <1>0, <1>1, <1>6 DEF BehindOK
  <2> QED
    BY <2>1, <2>2
<1>8. StampsOK(reads', d.ns) /\ IsRecent(q.sets, reads')
  <2>1. CASE q.memory /\ ~q.write
    <3>1. q.addr \in 0 .. MainWords - 1
      <4>1. c.page \in MappedPages /\ c.vma \in Nat
        BY <1>0 DEF ProcTypes
      <4>2. q.addr = Physical(c, c.vma)
        BY <2>1, <1>0 DEF AddressOf
      <4> QED
        BY <4>1, <4>2, PhysicalIn
    <3>2. \A l \in Lines : since[l] < d.ns
      BY <1>3, <1>4
    <3>3. reads' = [since EXCEPT ![LineOf(q.addr)] = d.ns]
      BY <2>1, <1>2
    <3>4. reads' \in StampTypes /\ IsRecent(CacheRead(SetsFor(c, p), q.addr), reads')
      BY <3>1, <3>2, <3>3, <1>3, <1>4, <1>5, CacheReadIsRecent
    <3>5. q.sets = CacheRead(SetsFor(c, p), q.addr)
      BY <2>1, <1>0 DEF GrantedAt
    <3>6. \A l \in Lines : reads'[l] <= d.ns
      BY <3>2, <3>3, <1>3, <1>4 DEF StampTypes
    <3> QED
      BY <3>4, <3>5, <3>6 DEF StampsOK
  <2>2. CASE ~(q.memory /\ ~q.write)
    <3>1. reads' = since
      BY <2>2, <1>2
    <3>2. q.sets = SetsFor(c, p)
      BY <2>2, <1>0 DEF GrantedAt
    <3>3. \A l \in Lines : since[l] <= d.ns
      BY <1>3, <1>4
    <3> QED
      BY <3>1, <3>2, <3>3, <1>4, <1>5 DEF StampsOK
  <2> QED
    BY <2>1, <2>2
<1> QED
  BY <1>7, <1>8 DEF GhostsOK

-----------------------------------------------------------------------------
(* The steps.                                                                *)

\* A start of c granted leaves the pair d, q right: no map is written that a
\* fetch or the prefetched word is of.
LEMMA PairGranted ==
    ASSUME NEW c, NEW p, NEW e, NEW f, NEW d, NEW q, NEW now,
           PairOK(c, p), c.memstart, GrantedAt(e, f, q, now),
           e.to = c.to, e.wrcyc = c.wrcyc, e.fetch = c.fetch, e.vma = c.vma, e.dma = c.dma,
           AddressOf(e) = AddressOf(c), f.prefetched \in {p.prefetched, NoPrefetch},
           d \in ProcTypes, d.mbusy, d.mbusySync, ~d.memstart,
           d.wrcyc = c.wrcyc, d.to = c.to, d.main = c.main,
           c.fetch \/ f.prefetched # NoPrefetch =>
               d.page = c.page /\ (c.wmap = None => d.wmap = None)
    PROVE  PairOK(d, q)
<1>0. c \in ProcTypes /\ p \in PortTypes /\ q \in PortTypes /\ InCycle(c, p)
      /\ Fetching(c, p) /\ PrefetchedIs(c, p)
  BY DEF PairOK, GrantedAt
<1>1. InCycle(d, q)
  BY <1>0 DEF InCycle, GrantedAt
<1>2. Fetching(d, q)
  <2> SUFFICES ASSUME q.fetchVaddr # None
               PROVE  q.addr = Physical(d, q.fetchVaddr) /\ d.wmap = None
    BY DEF Fetching
  <2>1. c.fetch /\ q.fetchVaddr = c.vma % VirtualWords /\ q.addr = AddressOf(c)
    BY DEF GrantedAt
  <2>2. c.vma \in Vaddrs /\ c.to = "memory" /\ c.wmap = None
    BY <2>1, <1>0 DEF Fetching
  <2>3. c.vma % VirtualWords = c.vma
    BY <2>2, Sizes, SMT DEF Vaddrs
  <2> QED
    BY <2>1, <2>2, <2>3 DEF AddressOf, Physical
<1>3. PrefetchedIs(d, q)
  <2> SUFFICES ASSUME q.prefetched # NoPrefetch PROVE PrefetchedIs(d, q)
    BY DEF PrefetchedIs
  <2>1. ~c.dma /\ q.prefetched = f.prefetched /\ q.addr = AddressOf(c)
        /\ (c.wrcyc => f.prefetched.phys # AddressOf(c))
    BY DEF GrantedAt
  <2>2. f.prefetched = p.prefetched /\ p.prefetched # NoPrefetch
    BY <2>1
  <2>3. c.wmap = None /\ p.prefetched.phys = Physical(c, p.prefetched.vaddr)
        /\ p.prefetched.word = c.main[p.prefetched.phys]
    BY <2>1, <2>2, <1>0 DEF PrefetchedIs
  <2> QED
    BY <2>1, <2>2, <2>3 DEF PrefetchedIs, StoreDue, Physical
<1> QED
  BY <1>0, <1>1, <1>2, <1>3 DEF PairOK

\* Nothing started in d, q: what carries on is right.
LEMMA PairStill ==
    ASSUME NEW c, NEW p, NEW d, PairOK(c, p), ~c.memstart, d \in ProcTypes,
           d.mbusy = c.mbusy, d.mbusy => d.mbusySync, ~d.memstart,
           d.wrcyc = c.wrcyc, d.to = c.to, d.main = c.main, d.written = c.written,
           d.page = c.page, d.wmap = c.wmap, d.dma = c.dma, d.clearAt = c.clearAt
    PROVE  PairOK(d, p)
BY DEF PairOK, InCycle, Fetching, PrefetchedIs, StoreDue, Physical

\* A cycle of the wait.
LEMMA WaitCycleKeeps == PortInv /\ PortWaitCycle => PortInv'
<1> SUFFICES ASSUME PortInv, PortWaitCycle PROVE PortInv'
  OBVIOUS
<1> DEFINE now == proc.ns + PortCycleNs
           a == PortCarried(proc, port, now)
           s == StartCycle(a[1], a[2])
           g == PortEdge(s[2], now, a[1].to)
           Ended(d) == [d EXCEPT !.ns = now, !.mbusySync = a[1].memstart \/ d.mbusy,
                                 !.memstart = FALSE]
<1>0. PairOK(proc, port) /\ proc \in ProcTypes /\ port \in PortTypes /\ RulesLeft(proc)
      /\ GhostsOK(proc, port, behind, reads) /\ FusedIsMemorys
  BY DEF PortInv, PairOK, GhostsOK
<1>1. now \in Nat /\ proc.ns < now /\ now # 0
  BY <1>0, Sizes, SMT DEF ProcTypes
<1>2. proc' = Ended(s[1]) /\ port' = g /\ Seen(proc, port, proc', port') /\ taken' = taken
  BY DEF PortWaitCycle, PortAtEdge
<1> HIDE DEF now
<1>3. a = <<a[1], a[2]>> /\ PairOK(a[1], a[2]) /\ Carries(proc, a[1]) /\ CarriesPort(port, a[2])
  BY <1>0, <1>1, CarriedKeeps
<1>4. PairOK(proc, port)' /\ GhostsOK(proc, port, behind, reads)' /\ RulesLeft(proc)'
      /\ proc'.ns = now
  <2>1. CASE proc.memstart
    <3>1. a = <<proc, port>>
      BY <2>1, <1>0, <1>1, CarriedIdle DEF InCycle, PairOK
    <3>a. a[1] = proc /\ a[2] = port
      BY <3>1
    <3> HIDE DEF a
    <3>b. s = StartCycle(proc, port)
      BY <3>a
    <3>2. PICK q : Requested(proc, port, q)
                   /\ StartCycle(proc, port) =
                        <<[proc EXCEPT !.mbusy = TRUE, !.written = FALSE, !.dma = FALSE], q>>
      BY <2>1, <1>0, StartTaken
    <3> DEFINE d == [proc EXCEPT !.mbusy = TRUE, !.written = FALSE, !.dma = FALSE]
    <3>c. s[1] = d /\ s[2] = q
      BY <3>b, <3>2
    <3> HIDE DEF s
    <3>d. g = PortEdge(q, now, proc.to)
      BY <3>a, <3>c
    <3>3. GrantedAt(proc, port, port', now)
      BY <3>2, <3>d, <1>0, <1>1, <1>2, EdgeGrants
    <3>e. (a[1].memstart \/ d.mbusy) = TRUE
      BY <3>a, <2>1, <1>0 DEF ProcTypes
    <3>f. proc' = [d EXCEPT !.ns = now, !.mbusySync = TRUE, !.memstart = FALSE]
      BY <3>c, <3>e, <1>2
    <3>4. proc' = [proc EXCEPT !.mbusy = TRUE, !.written = FALSE, !.dma = FALSE,
                               !.ns = now, !.mbusySync = TRUE, !.memstart = FALSE]
      BY <3>f
    <3> HIDE DEF g, d
    <3>5. /\ proc' \in ProcTypes /\ proc'.mbusy /\ proc'.mbusySync /\ ~proc'.memstart
          /\ proc'.wrcyc = proc.wrcyc /\ proc'.to = proc.to /\ proc'.main = proc.main
          /\ proc'.page = proc.page /\ proc'.wmap = proc.wmap /\ ~proc'.dma /\ proc'.ns = now
          /\ proc'.program = proc.program /\ proc'.nextInstr = proc.nextInstr
      BY <3>4, <1>0, <1>1 DEF ProcTypes
    <3>6. PairOK(proc', port')
      BY <3>3, <3>5, <2>1, <1>0, PairGranted
    <3>7. GhostsOK(proc', port', behind', reads')
      BY <3>3, <3>5, <2>1, <1>0, <1>1, <1>2, GhostsGranted
    <3> QED
      BY <3>5, <3>6, <3>7, <1>0 DEF RulesLeft
  <2>2. CASE ~proc.memstart
    <3>1. ~a[1].memstart
      BY <2>2, <1>3 DEF Carries
    <3>2. s = a
      BY <3>1, <1>3 DEF StartCycle
    <3>3. g = a[2]
      BY <3>2, <1>3 DEF PortEdge, PairOK, InCycle
    <3>4. a[1] \in ProcTypes
      BY <1>3 DEF PairOK
    <3>5. proc' = [a[1] EXCEPT !.ns = now, !.mbusySync = a[1].mbusy, !.memstart = FALSE]
      BY <3>1, <3>2, <3>4, <1>2 DEF ProcTypes
    <3>6. port' = a[2]
      BY <3>3, <1>2
    <3> HIDE DEF s, a, g
    <3>7. /\ proc' \in ProcTypes /\ proc'.mbusy = a[1].mbusy /\ proc'.mbusySync = a[1].mbusy
          /\ ~proc'.memstart /\ proc'.wrcyc = a[1].wrcyc /\ proc'.to = a[1].to
          /\ proc'.main = a[1].main /\ proc'.written = a[1].written /\ proc'.page = a[1].page
          /\ proc'.wmap = a[1].wmap /\ proc'.dma = a[1].dma /\ proc'.clearAt = a[1].clearAt
          /\ proc'.ns = now /\ proc'.program = a[1].program /\ proc'.nextInstr = a[1].nextInstr
      BY <3>4, <3>5, <1>1 DEF ProcTypes
    <3>8. PairOK(proc', port')
      BY <3>1, <3>6, <3>7, <1>3, PairStill
    <3>a. proc.ns <= proc'.ns /\ (proc.dma => proc'.dma)
      BY <3>7, <1>0, <1>1, <1>3 DEF Carries, ProcTypes
    <3>9. GhostsOK(proc', port', behind', reads')
      BY <3>6, <3>7, <3>a, <1>0, <1>2, <1>3, GhostsStill
    <3> QED
      BY <3>7, <3>8, <3>9, <1>0, <1>3 DEF RulesLeft, Carries
  <2> QED
    BY <2>1, <2>2
<1>5. AsMade' /\ FusedIsMemorys'
  BY <1>0, <1>1, <1>2, <1>4 DEF AsMade, FusedIsMemorys
<1> QED
  BY <1>4, <1>5 DEF PortInv, GhostsOK

\* The first of a program and the rest of it.
LEMMA TailOf ==
    ASSUME NEW g \in Seq(Operations), g # <<>>
    PROVE  /\ Head(g) \in Operations /\ Head(g) = g[1] /\ 1 \in DOMAIN g
           /\ Tail(g) \in Seq(Operations)
           /\ \A i \in Nat : i \in DOMAIN Tail(g) =>
                 i + 1 \in DOMAIN g /\ Tail(g)[i] = g[i + 1]
<1>1. Len(g) \in Nat /\ Len(g) >= 1 /\ DOMAIN g = 1 .. Len(g)
  OBVIOUS
<1>2. Head(g) = g[1] /\ 1 \in DOMAIN g /\ g[1] \in Operations
  BY <1>1
<1>3. Tail(g) \in Seq(Operations) /\ Len(Tail(g)) = Len(g) - 1
  BY <1>1
<1>4. DOMAIN Tail(g) = 1 .. Len(g) - 1
  BY <1>3
<1>5. \A i \in 1 .. Len(g) - 1 : Tail(g)[i] = g[i + 1]
  BY <1>1
<1> QED
  BY <1>1, <1>2, <1>3, <1>4, <1>5

\* The rules of a program are those of what is left after an operation.
LEMMA RulesAfter ==
    ASSUME NEW c, c.program \in Seq(Operations), c.program # <<>>, RulesLeft(c),
           NEW d, d.program = Tail(c.program),
           d.nextInstr => Head(c.program).k = "return",
           d.memstart /\ d.fetch => c.nextInstr
    PROVE  /\ RulesLeft(d)
           /\ Head(c.program).k = "map" => Head(c.program).at \in MappedPages
           /\ c.nextInstr => Head(c.program).k \notin memops \cup {"map"}
           /\ c.memstart /\ c.fetch => Head(c.program).k # "map"
<1> DEFINE g == c.program
           t == Tail(g)
<1>1. /\ Head(g) \in Operations /\ Head(g) = g[1] /\ 1 \in DOMAIN g
      /\ t \in Seq(Operations)
      /\ \A i \in Nat : i \in DOMAIN t => i + 1 \in DOMAIN g /\ t[i] = g[i + 1]
  BY TailOf
<1>2. DOMAIN t = 1 .. Len(t) /\ Len(t) \in Nat
  BY <1>1
<1> HIDE DEF g, t
<1>3. \A i \in Nat : /\ NoMapAt(g, i + 1) => NoMapAt(t, i)
                     /\ NoVmaAt(g, i + 1) => NoVmaAt(t, i)
  BY <1>1 DEF NoMapAt, NoVmaAt
<1>4. RulesOf(t)
  <2> SUFFICES ASSUME NEW i \in 1 .. Len(t)
               PROVE  /\ t[i].k = "map" => t[i].at \in MappedPages
                      /\ t[i].k = "return" => NoVmaAt(t, i + 1) /\ NoMapAt(t, i + 2)
    BY <1>2 DEF RulesOf
  <2>0. i \in Nat /\ i + 1 \in Nat /\ i + 2 \in Nat /\ (i + 1) + 1 = i + 2
        /\ (i + 2) + 1 = (i + 1) + 2
    BY <1>2
  <2>1. i + 1 \in DOMAIN g /\ t[i] = g[i + 1]
    BY <2>0, <1>1, <1>2
  <2>2. /\ t[i].k = "map" => t[i].at \in MappedPages
        /\ t[i].k = "return" => NoVmaAt(g, (i + 1) + 1) /\ NoMapAt(g, (i + 1) + 2)
    BY <2>1 DEF RulesLeft, RulesOf, g
  <2>3. /\ NoVmaAt(g, (i + 1) + 1) => NoVmaAt(t, i + 1)
        /\ NoMapAt(g, (i + 1) + 2) => NoMapAt(t, i + 2)
    BY <2>0, <1>3
  <2> QED
    BY <2>2, <2>3
<1>5. g[1].k = "return" => NoVmaAt(g, 2) /\ NoMapAt(g, 3)
  <2>1. 1 + 1 = 2 /\ 1 + 2 = 3
    OBVIOUS
  <2>2. RulesOf(g)
    BY DEF RulesLeft, g
  <2>3. g[1].k = "return" => NoVmaAt(g, 1 + 1) /\ NoMapAt(g, 1 + 2)
    BY <2>2, <1>1 DEF RulesOf
  <2> QED
    BY <2>1, <2>3
<1>6. NoVmaAt(g, 2) => NoVmaAt(t, 1)
  <2>1. 1 + 1 = 2 /\ 1 \in Nat
    OBVIOUS
  <2> QED
    BY <2>1, <1>3
<1>7. (NoMapAt(g, 3) => NoMapAt(t, 2)) /\ (NoMapAt(g, 2) => NoMapAt(t, 1))
  <2>1. 1 + 1 = 2 /\ 2 + 1 = 3 /\ 1 \in Nat /\ 2 \in Nat
    OBVIOUS
  <2> QED
    BY <2>1, <1>3
<1>8. RulesLeft(d)
  BY <1>1, <1>4, <1>5, <1>6, <1>7 DEF RulesLeft, g, t
<1>9. /\ Head(g).k = "map" => Head(g).at \in MappedPages
      /\ c.nextInstr => Head(g).k \notin memops \cup {"map"}
      /\ c.memstart /\ c.fetch => Head(g).k # "map"
  BY <1>1 DEF RulesLeft, RulesOf, NoVmaAt, NoMapAt, g
<1> QED
  BY <1>8, <1>9 DEF g

\* What the edge that ends a microcycle of op leaves of the processor.
EndedAs(c, e, op, d) ==
    /\ d \in ProcTypes
    /\ d.ns = e.ns /\ d.mbusySync = e.mbusySync
    /\ d.memstart = (c.nextInstr \/ op.k \in memops) /\ d.fetch = c.nextInstr
    /\ c.nextInstr => d.vma = c.lc % VirtualWords /\ d.to = "memory"
    /\ ~(c.nextInstr \/ op.k \in memops) => d.vma = e.vma /\ d.to = e.to
    /\ d.page = IF c.wmap # None THEN c.wmap ELSE e.page
    /\ d.wmap = IF op.k = "map" THEN op.at ELSE None
    /\ d.nextInstr = (op.k = "return") /\ d.program = Tail(e.program)
    /\ d.main = e.main /\ d.mbusy = e.mbusy /\ d.written = e.written
    /\ d.wrcyc = e.wrcyc /\ d.dma = e.dma /\ d.clearAt = e.clearAt

\* It leaves what its operation says, and the rest as the start left it.
LEMMA AtEndIs ==
    ASSUME NEW c \in ProcTypes, NEW e \in ProcTypes, NEW op \in Operations,
           e.program # <<>>, op.k = "map" => op.at \in MappedPages
    PROVE  EndedAs(c, e, op, AtEnd(c, e, op))
<1> DEFINE d == AtEnd(c, e, op)
           vma == IF c.nextInstr THEN c.lc % VirtualWords
                  ELSE IF c.nextInstr \/ op.k \in memops THEN op.at ELSE e.vma
           to == IF ~(c.nextInstr \/ op.k \in memops) THEN e.to
                 ELSE IF op.k \in {"device", "nothing"} /\ ~c.nextInstr THEN op.k
                 ELSE "memory"
           data == IF op.k = "store" THEN e.ops ELSE e.data
           page == IF c.wmap # None THEN c.wmap ELSE e.page
           wmap == IF op.k = "map" THEN op.at ELSE None
           start == c.nextInstr \/ op.k \in memops
           next == op.k = "return"
           fetch == c.nextInstr
           w == [e EXCEPT !.memstart = start, !.fetch = fetch]
           u == [w EXCEPT !.vma = vma, !.to = to]
<1>1. c.lc \in Nat /\ e.ops \in Nat /\ op.at \in Nat /\ e.vma \in Nat /\ e.data \in Nat
      /\ e.to \in {"memory", "device", "nothing"} /\ e.page \in MappedPages
      /\ c.wmap \in MappedPages \cup {None} /\ c.nextInstr \in BOOLEAN
  BY DEF ProcTypes, Operations
<1>2. c.lc % VirtualWords \in Nat
  <2>1. c.lc % VirtualWords \in 0 .. VirtualWords - 1
    BY <1>1, Divided, Sizes
  <2> QED
    BY <2>1
<1>3. vma \in Nat /\ data \in Nat
  BY <1>1, <1>2
<1>4. to \in {"memory", "device", "nothing"}
  BY <1>1
<1>5. page \in MappedPages /\ wmap \in MappedPages \cup {None}
  BY <1>1
<1>6. fetch \in BOOLEAN /\ start \in BOOLEAN /\ next \in BOOLEAN
  BY DEF ProcTypes
<1>7. Tail(e.program) \in Seq(Operations)
  BY TailOf DEF ProcTypes
<1>8. d = [u EXCEPT !.data = data, !.page = page, !.wmap = wmap,
                    !.nextInstr = next, !.program = Tail(e.program)]
  BY DEF AtEnd, needfetch
<1>9. c.nextInstr => vma = c.lc % VirtualWords /\ to = "memory"
  OBVIOUS
<1>10. ~(c.nextInstr \/ op.k \in memops) => vma = e.vma /\ to = e.to
  OBVIOUS
<1> HIDE DEF vma, to, data, page, wmap, start, next, fetch, d
<1>11. /\ u \in ProcTypes
       /\ u.ns = e.ns /\ u.mbusySync = e.mbusySync
       /\ u.memstart = start /\ u.fetch = fetch /\ u.vma = vma /\ u.to = to
       /\ u.main = e.main /\ u.mbusy = e.mbusy /\ u.written = e.written
       /\ u.wrcyc = e.wrcyc /\ u.dma = e.dma /\ u.clearAt = e.clearAt
  <2>1. /\ w \in ProcTypes /\ w.memstart = start /\ w.fetch = fetch
        /\ w.ns = e.ns /\ w.mbusySync = e.mbusySync
        /\ w.main = e.main /\ w.mbusy = e.mbusy /\ w.written = e.written
        /\ w.wrcyc = e.wrcyc /\ w.dma = e.dma /\ w.clearAt = e.clearAt
    BY <1>6 DEF ProcTypes
  <2> HIDE DEF w
  <2>2. /\ u \in ProcTypes /\ u.vma = vma /\ u.to = to
        /\ u.ns = w.ns /\ u.mbusySync = w.mbusySync
        /\ u.memstart = w.memstart /\ u.fetch = w.fetch
        /\ u.main = w.main /\ u.mbusy = w.mbusy /\ u.written = w.written
        /\ u.wrcyc = w.wrcyc /\ u.dma = w.dma /\ u.clearAt = w.clearAt
    BY <2>1, <1>3, <1>4 DEF ProcTypes
  <2> QED
    BY <2>1, <2>2
<1> HIDE DEF w, u
<1>12. /\ d \in ProcTypes
       /\ d.page = page /\ d.wmap = wmap
       /\ d.nextInstr = next /\ d.program = Tail(e.program)
       /\ d.ns = u.ns /\ d.mbusySync = u.mbusySync
       /\ d.memstart = u.memstart /\ d.fetch = u.fetch /\ d.vma = u.vma /\ d.to = u.to
       /\ d.main = u.main /\ d.mbusy = u.mbusy /\ d.written = u.written
       /\ d.wrcyc = u.wrcyc /\ d.dma = u.dma /\ d.clearAt = u.clearAt
  BY <1>3, <1>5, <1>6, <1>7, <1>8, <1>11 DEF ProcTypes
<1> QED
  BY <1>9, <1>10, <1>11, <1>12 DEF EndedAs, d, page, wmap, start, next, fetch

\* What it gives the start.
LEMMA AtStartIs ==
    ASSUME NEW c \in ProcTypes, NEW op \in Operations
    PROVE  LET b == AtStart(c, op)
           IN  /\ b \in ProcTypes
               /\ c.nextInstr => ~b.wrcyc
               /\ ~(c.nextInstr \/ op.k \in memops) => b.wrcyc = c.wrcyc
               /\ b.ns = c.ns /\ b.program = c.program /\ b.main = c.main /\ b.page = c.page
               /\ b.wmap = c.wmap /\ b.memstart = c.memstart /\ b.fetch = c.fetch
               /\ b.vma = c.vma /\ b.to = c.to /\ b.mbusy = c.mbusy
               /\ b.mbusySync = c.mbusySync /\ b.written = c.written
               /\ b.clearAt = c.clearAt /\ b.dma = c.dma
<1> DEFINE lc == IF op.k = "lc" THEN op.at ELSE IF c.nextInstr THEN c.lc + 1 ELSE c.lc
           newlc == (c.newlc \/ op.k = "lc") /\ ~c.nextInstr
           wrcyc == IF c.nextInstr \/ op.k = "load" THEN FALSE
                    ELSE IF op.k \in memops THEN TRUE ELSE c.wrcyc
           b == AtStart(c, op)
<1>1. lc \in Nat /\ c.ops + 1 \in Nat
  BY DEF ProcTypes, Operations
<1>2. newlc \in BOOLEAN /\ wrcyc \in BOOLEAN
  BY DEF ProcTypes
<1>3. c.nextInstr => ~wrcyc
  OBVIOUS
<1>4. ~(c.nextInstr \/ op.k \in memops) => wrcyc = c.wrcyc
  BY DEF memops
<1>5. b = [c EXCEPT !.lc = lc, !.newlc = newlc, !.ops = c.ops + 1, !.wrcyc = wrcyc]
  BY DEF AtStart, needfetch
<1> HIDE DEF lc, newlc, wrcyc, b
<1>6. b \in ProcTypes
  BY <1>1, <1>2, <1>5 DEF ProcTypes
<1>7. /\ b.wrcyc = wrcyc
      /\ b.ns = c.ns /\ b.program = c.program /\ b.main = c.main /\ b.page = c.page
      /\ b.wmap = c.wmap /\ b.memstart = c.memstart /\ b.fetch = c.fetch
      /\ b.vma = c.vma /\ b.to = c.to /\ b.mbusy = c.mbusy
      /\ b.mbusySync = c.mbusySync /\ b.written = c.written
      /\ b.clearAt = c.clearAt /\ b.dma = c.dma
  BY <1>5 DEF ProcTypes
<1> QED
  BY <1>3, <1>4, <1>6, <1>7 DEF b

-----------------------------------------------------------------------------
(* A microcycle.                                                             *)

\* The map is of pages, and the virtual address wraps at one.
LEMMA SamePhysical ==
    ASSUME NEW c, NEW n \in Nat
    PROVE  Physical(c, n % VirtualWords) = Physical(c, n)
<1> DEFINE m == n % VirtualWords
           i == n \div VirtualWords
           j == VirtualWords \div PageWords
           k == m \div PageWords
           r == m % PageWords
<1>1. i \in Nat /\ m \in Nat /\ n = i * VirtualWords + m
  BY Divided, Sizes
<1>2. j \in Nat /\ VirtualWords = j * PageWords
  <2>1. j \in Nat /\ VirtualWords = j * PageWords + (VirtualWords % PageWords)
    BY Divided, Sizes
  <2>2. j * PageWords \in Nat
    BY <2>1, Sizes, SMT
  <2> QED
    BY <2>1, <2>2, Sizes
<1>3. k \in Nat /\ r \in 0 .. PageWords - 1 /\ m = k * PageWords + r
  BY <1>1, Divided, Sizes
<1> HIDE DEF m, i, j, k, r
<1>4. n = (i * j + k) * PageWords + r /\ i * j + k \in Nat
  <2>1. n = i * (j * PageWords) + (k * PageWords + r)
    BY <1>1, <1>2, <1>3
  <2>2. r \in Int /\ PageWords \in Nat
    BY <1>3, Sizes
  <2>3. i * (j * PageWords) = (i * j) * PageWords
    BY <1>1, <1>2, <2>2, SMT
  <2>4. i * j \in Nat
    BY <1>1, <1>2, SMT
  <2>5. (i * j + k) * PageWords = (i * j) * PageWords + k * PageWords
    BY <1>3, <2>2, <2>4, SMT
  <2>6. (i * j) * PageWords \in Nat /\ k * PageWords \in Nat
    BY <1>3, <2>2, <2>4, SMT
  <2> HIDE DEF m
  <2> QED
    BY <1>3, <2>1, <2>2, <2>3, <2>4, <2>5, <2>6
<1>5. n % PageWords = r
  BY <1>3, <1>4, Remainder, Sizes
<1> QED
  BY <1>5 DEF Physical, m, r

\* The word a fused return takes is memory's at the location counter.
LEMMA FusedIsMain ==
    ASSUME NEW c, NEW p, PairOK(c, p), NEW op
    PROVE  FusedWord(c, p, op) # None => FusedWord(c, p, op) = c.main[Physical(c, c.lc)]
<1> SUFFICES ASSUME FusedWord(c, p, op) # None
             PROVE  FusedWord(c, p, op) = c.main[Physical(c, c.lc)]
  OBVIOUS
<1>1. FusedWord(c, p, op) = Buffered(c, p).word
  BY DEF FusedWord
<1>2. NoPrefetch.word = None
  BY DEF NoPrefetch
<1>3. Buffered(c, p) = p.prefetched /\ ~c.dma /\ p.prefetched.vaddr = c.lc % VirtualWords
  BY <1>1, <1>2 DEF Buffered
<1>4. p.prefetched # NoPrefetch
  BY <1>1, <1>2, <1>3
<1>5. p.prefetched.word = c.main[Physical(c, p.prefetched.vaddr)]
  BY <1>3, <1>4 DEF PairOK, PrefetchedIs
<1>6. Physical(c, c.lc % VirtualWords) = Physical(c, c.lc)
  BY SamePhysical DEF PairOK, ProcTypes
<1> QED
  BY <1>1, <1>3, <1>5, <1>6

\* What the instruction leaves of the port.
LEMMA DroppedIs ==
    ASSUME NEW c \in ProcTypes, NEW p \in PortTypes, NEW op \in Operations
    PROVE  LET q == Dropped(c, p, op)
           IN  /\ q \in PortTypes /\ q.state = p.state /\ q.addr = p.addr
               /\ q.fetchVaddr = p.fetchVaddr /\ q.sets = p.sets /\ q.reach = p.reach
               /\ q.memoryFreeAt = p.memoryFreeAt /\ q.bufferFreeAt = p.bufferFreeAt
               /\ q.prefetched \in {p.prefetched, NoPrefetch}
               /\ q.prefetched # NoPrefetch => op.k \notin {"lc", "map"} /\ ~c.dma
<1> DEFINE q == Dropped(c, p, op)
<1>1. CASE op.k \in {"lc", "map"} \/ c.dma
  <2>1. q = [p EXCEPT !.prefetched = NoPrefetch]
    BY <1>1 DEF Dropped, DropPrefetched
  <2>2. NoPrefetch \in PrefetchTypes
    BY DEF PrefetchTypes
  <2> QED
    BY <2>1, <2>2 DEF PortTypes
<1>2. CASE ~(op.k \in {"lc", "map"} \/ c.dma)
  <2>1. q = p
    BY <1>2 DEF Dropped
  <2> QED
    BY <2>1, <1>2
<1> QED
  BY <1>1, <1>2

\* A microcycle.
LEMMA MicrocycleKeeps == PortInv /\ PortMicrocycle => PortInv'
<1> SUFFICES ASSUME PortInv, PortMicrocycle PROVE PortInv'
  OBVIOUS
<1> DEFINE now == proc.ns + PortCycleNs
           op == Head(proc.program)
           a == PortCarried(proc, port, now)
           b == AtStart(a[1], op)
           q == Dropped(a[1], a[2], op)
           s == StartCycle(b, q)
           e == [s[1] EXCEPT !.ns = now, !.mbusySync = a[1].memstart \/ s[1].mbusy]
           w == FusedWord(proc, port, op)
<1>0. PairOK(proc, port) /\ proc \in ProcTypes /\ port \in PortTypes /\ RulesLeft(proc)
      /\ GhostsOK(proc, port, behind, reads)
  BY DEF PortInv, PairOK, GhostsOK
<1>1. now \in Nat /\ proc.ns < now /\ now # 0
  BY <1>0, Sizes, SMT DEF ProcTypes
<1>2. /\ proc' = AtEnd(a[1], e, op) /\ port' = PortEdge(s[2], now, a[1].to)
      /\ Seen(proc, port, proc', port')
  BY DEF PortMicrocycle, PortClockEdge, PortAtEdge
<1>3. /\ proc.program # <<>> /\ ~PortWait(proc, op)
      /\ taken' = [word |-> w, memory |-> IF w = None THEN None
                                          ELSE proc.main[Physical(proc, proc.lc)]]
  BY DEF PortMicrocycle
<1> HIDE DEF now, op, w
<1>4. a = <<a[1], a[2]>> /\ PairOK(a[1], a[2]) /\ Carries(proc, a[1]) /\ CarriesPort(port, a[2])
  BY <1>0, <1>1, CarriedKeeps
<1>5. /\ op \in Operations
      /\ op.k = "map" => op.at \in MappedPages
      /\ proc.nextInstr => op.k \notin memops \cup {"map"}
      /\ proc.memstart /\ proc.fetch => op.k # "map"
  <2>1. op \in Operations
    BY <1>0, <1>3, TailOf DEF ProcTypes, op
  <2>2. RulesOf(proc.program)
    BY <1>0 DEF RulesLeft
  <2>3. op = proc.program[1] /\ 1 \in DOMAIN proc.program
    BY <1>0, <1>3, TailOf DEF ProcTypes, op
  <2> QED
    BY <2>1, <2>2, <2>3, <1>0 DEF RulesLeft, RulesOf, NoVmaAt, NoMapAt
<1>6. /\ (op.k \in memops \cup {"map"} \/ proc.nextInstr) => ~proc.mbusySync
      /\ (op.k \in memops \/ proc.nextInstr) => ~proc.memstart
  BY <1>3 DEF PortWait, needfetch
<1>7. a[1] \in ProcTypes /\ a[2] \in PortTypes
  BY <1>4 DEF PairOK
<1>8. PairOK(proc, port)' /\ GhostsOK(proc, port, behind, reads)' /\ proc'.ns = now
      /\ proc'.program = Tail(proc.program) /\ proc'.nextInstr = (op.k = "return")
      /\ proc'.fetch = proc.nextInstr
  <2>1. CASE proc.memstart
    <3>1. a = <<proc, port>>
      BY <2>1, <1>0, <1>1, CarriedIdle DEF InCycle, PairOK
    <3>2. a[1] = proc /\ a[2] = port
      BY <3>1
    <3> HIDE DEF a
    <3>3. op.k \notin memops /\ ~proc.nextInstr
      BY <2>1, <1>6
    <3>4. /\ b \in ProcTypes /\ b.wrcyc = proc.wrcyc
          /\ b.ns = proc.ns /\ b.program = proc.program /\ b.main = proc.main
          /\ b.page = proc.page /\ b.wmap = proc.wmap /\ b.memstart = proc.memstart
          /\ b.fetch = proc.fetch /\ b.vma = proc.vma /\ b.to = proc.to
          /\ b.mbusy = proc.mbusy /\ b.mbusySync = proc.mbusySync
          /\ b.written = proc.written /\ b.clearAt = proc.clearAt /\ b.dma = proc.dma
      BY <3>2, <3>3, <1>0, <1>5, AtStartIs
    <3>5. /\ q \in PortTypes /\ q.state = port.state /\ q.addr = port.addr
          /\ q.fetchVaddr = port.fetchVaddr /\ q.sets = port.sets
          /\ q.memoryFreeAt = port.memoryFreeAt /\ q.bufferFreeAt = port.bufferFreeAt
          /\ q.prefetched \in {port.prefetched, NoPrefetch}
          /\ q.prefetched # NoPrefetch => op.k \notin {"lc", "map"} /\ ~proc.dma
      <4>1. q = Dropped(proc, port, op)
        BY <3>2
      <4> HIDE DEF q
      <4> QED
        BY <4>1, <1>0, <1>5, DroppedIs
    <3> HIDE DEF b, q
    <3>6. PairOK(b, q)
      <4>1. InCycle(b, q)
        BY <3>4, <3>5, <1>0 DEF PairOK, InCycle
      <4>2. Fetching(b, q)
        BY <3>4, <3>5, <1>0 DEF PairOK, Fetching, Physical
      <4>3. PrefetchedIs(b, q)
        BY <3>4, <3>5, <1>0 DEF PairOK, PrefetchedIs, StoreDue, Physical
      <4> QED
        BY <4>1, <4>2, <4>3, <3>4, <3>5 DEF PairOK
    <3>7. PICK r : Requested(b, q, r)
                   /\ s = <<[b EXCEPT !.mbusy = TRUE, !.written = FALSE, !.dma = FALSE], r>>
      BY <3>4, <3>6, <2>1, StartTaken
    <3> DEFINE t == [b EXCEPT !.mbusy = TRUE, !.written = FALSE, !.dma = FALSE]
    <3>8. s[1] = t /\ s[2] = r
      BY <3>7
    <3> HIDE DEF s
    <3>9. GrantedAt(b, q, port', now)
      <4>1. port' = PortEdge(r, now, b.to)
        BY <3>2, <3>4, <3>8, <1>2
      <4> QED
        BY <4>1, <3>6, <3>7, <1>1, EdgeGrants
    <3>10. (a[1].memstart \/ s[1].mbusy) = TRUE
      BY <3>2, <2>1
    <3>11. e = [t EXCEPT !.ns = now, !.mbusySync = TRUE]
      BY <3>8, <3>10
    <3>12. /\ e \in ProcTypes /\ e.ns = now /\ e.mbusy /\ e.mbusySync /\ ~e.dma
           /\ e.program = proc.program /\ e.main = proc.main /\ e.page = proc.page
           /\ e.to = proc.to /\ e.vma = proc.vma /\ e.wrcyc = proc.wrcyc
      <4> HIDE DEF e
      <4>1. /\ t \in ProcTypes /\ t.mbusy /\ ~t.dma
            /\ t.program = b.program /\ t.main = b.main /\ t.page = b.page
            /\ t.to = b.to /\ t.vma = b.vma /\ t.wrcyc = b.wrcyc
        BY <3>4 DEF ProcTypes
      <4> HIDE DEF t
      <4> QED
        BY <4>1, <3>4, <3>11, <1>1 DEF ProcTypes
    <3> HIDE DEF e, t
    <3>13. /\ proc' \in ProcTypes /\ proc'.ns = now /\ proc'.mbusySync /\ ~proc'.memstart
           /\ proc'.to = proc.to /\ proc'.fetch = proc.nextInstr
           /\ proc'.page = IF proc.wmap # None THEN proc.wmap ELSE proc.page
           /\ proc'.wmap = IF op.k = "map" THEN op.at ELSE None
           /\ proc'.nextInstr = (op.k = "return") /\ proc'.program = Tail(proc.program)
           /\ proc'.main = proc.main /\ proc'.mbusy /\ proc'.wrcyc = proc.wrcyc /\ ~proc'.dma
      <4>1. proc' = AtEnd(proc, e, op) /\ e.program # <<>>
        BY <3>2, <3>12, <1>2, <1>3
      <4>2. EndedAs(proc, e, op, AtEnd(proc, e, op))
        BY <4>1, <3>12, <1>0, <1>5, AtEndIs
      <4> QED
        BY <4>1, <4>2, <3>3, <3>12 DEF EndedAs
    <3>14. AddressOf(b) = AddressOf(proc) /\ SetsFor(b, q) = SetsFor(proc, port)
      BY <3>4, <3>5 DEF AddressOf, SetsFor, Physical
    <3>15. proc.fetch \/ q.prefetched # NoPrefetch =>
               proc'.page = proc.page /\ (proc.wmap = None => proc'.wmap = None)
      <4>1. proc.fetch => proc.wmap = None /\ op.k # "map"
        BY <2>1, <1>0, <1>5 DEF PairOK, Fetching
      <4>2. q.prefetched # NoPrefetch => proc.wmap = None /\ op.k # "map"
        BY <3>5, <1>0 DEF PairOK, PrefetchedIs
      <4> QED
        BY <4>1, <4>2, <3>13
    <3>16. PairOK(proc', port')
      BY <3>4, <3>5, <3>9, <3>13, <3>14, <3>15, <2>1, <1>0, PairGranted
    <3>17. GhostsOK(proc', port', behind', reads')
      BY <3>4, <3>5, <3>9, <3>13, <3>14, <2>1, <1>0, <1>1, <1>2, GhostsGranted
    <3> QED
      BY <3>13, <3>16, <3>17
  <2>2. CASE ~proc.memstart
    <3> HIDE DEF a
    <3>1. /\ ~a[1].memstart /\ a[1].nextInstr = proc.nextInstr
          /\ a[1].program = proc.program
      BY <2>2, <1>4 DEF Carries
    <3>2. /\ b \in ProcTypes
          /\ a[1].nextInstr => ~b.wrcyc
          /\ ~(a[1].nextInstr \/ op.k \in memops) => b.wrcyc = a[1].wrcyc
          /\ b.program = a[1].program /\ b.main = a[1].main /\ b.page = a[1].page
          /\ b.memstart = a[1].memstart
          /\ b.vma = a[1].vma /\ b.to = a[1].to /\ b.mbusy = a[1].mbusy
          /\ b.written = a[1].written /\ b.clearAt = a[1].clearAt /\ b.dma = a[1].dma
      BY <1>5, <1>7, AtStartIs
    <3>3. /\ q \in PortTypes /\ q.state = a[2].state /\ q.addr = a[2].addr
          /\ q.fetchVaddr = a[2].fetchVaddr /\ q.sets = a[2].sets /\ q.reach = a[2].reach
          /\ q.memoryFreeAt = a[2].memoryFreeAt /\ q.bufferFreeAt = a[2].bufferFreeAt
          /\ q.prefetched \in {a[2].prefetched, NoPrefetch}
          /\ q.prefetched # NoPrefetch => op.k \notin {"lc", "map"} /\ ~a[1].dma
      BY <1>5, <1>7, DroppedIs
    <3> HIDE DEF b, q
    <3>4. s = <<b, q>>
      BY <3>1, <3>2 DEF StartCycle
    <3>5. s[1] = b /\ s[2] = q
      BY <3>4
    <3> HIDE DEF s
    <3>6. port' = q
      <4>1. q.state.k # "requested"
        BY <3>3, <1>4 DEF PairOK, InCycle
      <4> QED
        BY <4>1, <3>5, <1>2 DEF PortEdge
    <3>7. (a[1].memstart \/ s[1].mbusy) = a[1].mbusy
      BY <3>1, <3>2, <3>5, <1>7 DEF ProcTypes
    <3>8. e = [b EXCEPT !.ns = now, !.mbusySync = a[1].mbusy]
      BY <3>5, <3>7
    <3>9. /\ e \in ProcTypes /\ e.ns = now /\ e.mbusySync = a[1].mbusy
          /\ e.wrcyc = b.wrcyc
          /\ e.program = b.program /\ e.main = b.main /\ e.page = b.page
          /\ e.vma = b.vma /\ e.to = b.to /\ e.mbusy = b.mbusy
          /\ e.written = b.written /\ e.clearAt = b.clearAt /\ e.dma = b.dma
      BY <3>2, <3>8, <1>1, <1>7 DEF ProcTypes
    <3> HIDE DEF e
    <3>10. /\ proc' \in ProcTypes /\ proc'.ns = now /\ proc'.mbusySync = a[1].mbusy
           /\ proc'.memstart = (proc.nextInstr \/ op.k \in memops)
           /\ proc'.fetch = proc.nextInstr
           /\ proc.nextInstr => proc'.vma = a[1].lc % VirtualWords /\ proc'.to = "memory"
           /\ ~(proc.nextInstr \/ op.k \in memops) => proc'.to = a[1].to
           /\ proc'.page = IF a[1].wmap # None THEN a[1].wmap ELSE a[1].page
           /\ proc'.wmap = IF op.k = "map" THEN op.at ELSE None
           /\ proc'.nextInstr = (op.k = "return") /\ proc'.program = Tail(proc.program)
           /\ proc'.main = a[1].main /\ proc'.mbusy = a[1].mbusy
           /\ proc'.written = a[1].written /\ proc'.wrcyc = b.wrcyc
           /\ proc'.dma = a[1].dma /\ proc'.clearAt = a[1].clearAt
      <4>1. e.program # <<>>
        BY <3>1, <3>2, <3>9, <1>3
      <4>2. EndedAs(a[1], e, op, AtEnd(a[1], e, op))
        BY <4>1, <3>9, <1>5, <1>7, AtEndIs
      <4> QED
        BY <4>2, <3>1, <3>2, <3>9, <1>2 DEF EndedAs
    <3>11. a[1].mbusy => ~proc'.memstart /\ proc.mbusySync
      <4>1. a[1].mbusy => proc.mbusy
        BY <1>4 DEF Carries
      <4>2. proc.mbusy => proc.mbusySync
        BY <1>0 DEF PairOK, InCycle
      <4> QED
        BY <4>1, <4>2, <3>10, <1>6
    <3>12. InCycle(proc', q)
      BY <3>3, <3>10, <3>11, <1>4 DEF PairOK, InCycle
    <3>13. Fetching(proc', q)
      <4>1. ASSUME proc'.memstart, proc'.fetch
            PROVE  proc'.vma \in Vaddrs /\ proc'.to = "memory" /\ ~proc'.wrcyc
                   /\ proc'.wmap = None
        <5>1. a[1].lc % VirtualWords \in Vaddrs
          BY <1>7, Divided, Sizes DEF ProcTypes, Vaddrs
        <5> QED
          BY <5>1, <4>1, <3>1, <3>2, <3>10, <1>5
      <4>2. ASSUME proc'.mbusy, q.fetchVaddr # None
            PROVE  q.addr = Physical(proc', q.fetchVaddr) /\ proc'.wmap = None
        <5>1. a[1].mbusy /\ op.k # "map"
          BY <4>2, <3>10, <3>11, <1>6
        <5>2. a[2].addr = Physical(a[1], a[2].fetchVaddr) /\ a[1].wmap = None
          BY <5>1, <4>2, <3>3, <1>4 DEF PairOK, Fetching
        <5> QED
          BY <5>1, <5>2, <3>3, <3>10 DEF Physical
      <4> QED
        BY <4>1, <4>2 DEF Fetching
    <3>14. PrefetchedIs(proc', q)
      <4> SUFFICES ASSUME ~proc'.dma, q.prefetched # NoPrefetch PROVE PrefetchedIs(proc', q)
        BY DEF PrefetchedIs
      <4>1. q.prefetched = a[2].prefetched /\ op.k # "map" /\ ~a[1].dma
        BY <3>3
      <4>2. /\ a[1].wmap = None
            /\ a[2].prefetched.phys = Physical(a[1], a[2].prefetched.vaddr)
            /\ a[2].prefetched.word = a[1].main[a[2].prefetched.phys]
            /\ StoreDue(a[1]) => a[2].prefetched.phys # a[2].addr
        BY <4>1, <1>4 DEF PairOK, PrefetchedIs
      <4>3. proc'.page = a[1].page /\ proc'.wmap = None
        BY <4>1, <4>2, <3>10
      <4>4. StoreDue(proc') => StoreDue(a[1])
        BY <3>1, <3>2, <3>10, <3>11 DEF StoreDue
      <4> QED
        BY <4>1, <4>2, <4>3, <4>4, <3>3, <3>10 DEF PrefetchedIs, Physical
    <3>15. PairOK(proc', port')
      BY <3>3, <3>6, <3>10, <3>12, <3>13, <3>14 DEF PairOK
    <3>16. GhostsOK(proc', port', behind', reads')
      <4>1. CarriesPort(port, port')
        BY <3>3, <3>6, <1>4 DEF CarriesPort
      <4>2. proc.dma => proc'.dma
        BY <3>10, <1>4 DEF Carries
      <4>3. proc.ns <= proc'.ns
        BY <3>10, <1>0, <1>1 DEF ProcTypes
      <4> QED
        BY <4>1, <4>2, <4>3, <3>10, <1>0, <1>2, GhostsStill
    <3> QED
      BY <3>10, <3>15, <3>16
  <2> QED
    BY <2>1, <2>2
<1>9. RulesLeft(proc')
  BY <1>0, <1>3, <1>8, RulesAfter DEF ProcTypes, op
<1>10. AsMade'
  BY <1>1, <1>8 DEF AsMade
<1>11. FusedIsMemorys'
  <2>1. w # None => w = proc.main[Physical(proc, proc.lc)]
    BY <1>0, FusedIsMain DEF w
  <2> QED
    BY <2>1, <1>3 DEF FusedIsMemorys
<1> QED
  BY <1>8, <1>9, <1>10, <1>11 DEF PortInv, GhostsOK

-----------------------------------------------------------------------------
(* The other steps.                                                          *)

\* The machine as it is made.
LEMMA NewIs ==
    /\ ProcNew \in ProcTypes
    /\ ProcNew.program = <<>> /\ ProcNew.ns = 0 /\ ProcNew.ops = 0
    /\ ~ProcNew.mbusy /\ ~ProcNew.memstart /\ ~ProcNew.nextInstr /\ ProcNew.clearAt = None
<1>1. 0 \in MappedPages
  <2>1. PageWords <= MainWords
    <3>1. MainWords = (MainWords \div PageWords) * PageWords /\ MainWords \div PageWords \in Nat
      <4>1. /\ MainWords \div PageWords \in Nat
            /\ MainWords = (MainWords \div PageWords) * PageWords + (MainWords % PageWords)
        BY Divided, Sizes
      <4>2. (MainWords \div PageWords) * PageWords \in Nat
        BY <4>1, Sizes, SMT
      <4> QED
        BY <4>1, <4>2, Sizes
    <3>2. 0 < MainWords \div PageWords
      <4> SUFFICES ASSUME MainWords \div PageWords = 0 PROVE FALSE
        BY <3>1
      <4>1. MainWords = 0 * PageWords
        BY <3>1
      <4> QED
        BY <4>1, Sizes, SMT
    <3>3. 0 * PageWords + PageWords <= (MainWords \div PageWords) * PageWords
      BY <3>1, <3>2, Times, Sizes
    <3> QED
      BY <3>1, <3>3, Sizes, SMT
  <2>2. (0 + 1) * PageWords = PageWords
    BY Sizes, SMT
  <2> QED
    BY <2>1, <2>2 DEF MappedPages
<1>2. [a \in 0 .. MainWords - 1 |-> 0] \in [0 .. MainWords - 1 -> Nat]
  OBVIOUS
<1>3. <<>> \in Seq(Operations)
  OBVIOUS
<1>4. ProcNew \in ProcTypes
  BY <1>1, <1>2, <1>3 DEF ProcTypes, ProcNew
<1>5. /\ ProcNew.program = <<>> /\ ProcNew.ns = 0 /\ ProcNew.ops = 0
      /\ ~ProcNew.mbusy /\ ~ProcNew.memstart /\ ~ProcNew.nextInstr /\ ProcNew.clearAt = None
  BY DEF ProcNew
<1> QED
  BY <1>4, <1>5

\* And with a program to run.
Made(g) == [ProcNew EXCEPT !.program = g]

\* It is idle, at time 0.
LEMMA MadeNew ==
    ASSUME NEW g \in Seq(Operations)
    PROVE  /\ Made(g) \in ProcTypes /\ Made(g).program = g /\ Made(g).ns = 0 /\ Made(g).ops = 0
           /\ ~Made(g).mbusy /\ ~Made(g).memstart /\ ~Made(g).nextInstr
           /\ Made(g).clearAt = None
<1>1. Made(g) \in ProcTypes
  BY NewIs DEF ProcTypes, Made
<1>2. /\ Made(g).program = g /\ Made(g).ns = ProcNew.ns /\ Made(g).ops = ProcNew.ops
      /\ Made(g).mbusy = ProcNew.mbusy /\ Made(g).memstart = ProcNew.memstart
      /\ Made(g).nextInstr = ProcNew.nextInstr /\ Made(g).clearAt = ProcNew.clearAt
  BY NewIs DEF ProcTypes, Made
<1> QED
  BY <1>1, <1>2, NewIs

\* A program in the place of another.
LEMMA MadeAgain ==
    ASSUME NEW g \in Seq(Operations), NEW h \in Seq(Operations)
    PROVE  /\ [Made(h) EXCEPT !.program = g] = Made(g)
           /\ Made(<<>>) = ProcNew
BY NewIs DEF ProcTypes, Made

\* It and its port are a right pair.
LEMMA MadeIs ==
    ASSUME NEW g \in Seq(Operations), NEW reach \in {"none", "line", "page"}
    PROVE  PairOK(Made(g), PortNew(reach))
<1> DEFINE p == PortNew(reach)
<1>1. NoLines \in SetTypes
  BY EmptyIsRecent
<1>2. Idle \in StateTypes /\ NoPrefetch \in PrefetchTypes /\ Idle.k = "idle"
  BY DEF Idle, StateTypes, PrefetchTypes
<1>3. p \in PortTypes /\ p.state = Idle /\ p.prefetched = NoPrefetch
  BY <1>1, <1>2 DEF PortNew, PortTypes
<1> HIDE DEF p
<1>4. PairOK(Made(g), p)
  BY <1>2, <1>3, MadeNew DEF PairOK, InCycle, Fetching, PrefetchedIs
<1> QED
  BY <1>4 DEF p

\* And its ghosts.
LEMMA MadeGhosts ==
    ASSUME NEW g \in Seq(Operations), NEW reach
    PROVE  GhostsOK(Made(g), PortNew(reach), {}, [line \in Lines |-> None])
<1> DEFINE p == PortNew(reach)
           r == [line \in Lines |-> None]
<1>1. p.bufferFreeAt = 0 /\ p.memoryFreeAt = 0 /\ p.sets = NoLines
  BY DEF PortNew
<1>2. Made(g).ns = 0
  BY MadeNew
<1>3. IsRecent(NoLines, r) /\ r \in StampTypes
  BY EmptyIsRecent
<1>4. BehindOK({}, p)
  BY <1>1 DEF BehindOK
<1>5. StampsOK(r, 0)
  BY <1>3 DEF StampsOK, None
<1> HIDE DEF p, r
<1>6. GhostsOK(Made(g), p, {}, r)
  BY <1>1, <1>2, <1>3, <1>4, <1>5 DEF GhostsOK
<1> QED
  BY <1>6 DEF p, r

\* A microprogram is operations, and keeps the rules.
LEMMA Programs == \A g \in PortPrograms : g \in Seq(Operations) /\ RulesOf(g)
<1> SUFFICES ASSUME NEW g \in PortPrograms PROVE g \in Seq(Operations) /\ RulesOf(g)
  OBVIOUS
<1>1. g \in Seq(Operations)
  BY MicrocodeAssumption DEF Operations
<1>2. \A i \in DOMAIN g :
          /\ g[i].k = "map" => (g[i].at + 1) * PageWords <= MainWords
          /\ g[i].k = "return" =>
                /\ i + 1 \in DOMAIN g => g[i + 1].k \notin memops \cup {"map"}
                /\ i + 2 \in DOMAIN g => g[i + 2].k # "map"
  BY MicrocodeAssumption
<1>3. \A i \in DOMAIN g : g[i].at \in Nat
  <2>1. \A i \in DOMAIN g : g[i] \in Operations
    BY <1>1
  <2> QED
    BY <2>1 DEF Operations
<1>4. RulesOf(g)
  BY <1>2, <1>3 DEF RulesOf, NoVmaAt, NoMapAt, MappedPages
<1> QED
  BY <1>1, <1>4

\* At the start.
LEMMA PortInitInv == PortInit => PortInv
<1> SUFFICES ASSUME PortInit PROVE PortInv
  OBVIOUS
<1>1. proc = Made(<<>>)
  <2>1. <<>> \in Seq(Operations)
    OBVIOUS
  <2> QED
    BY <2>1, MadeAgain DEF PortInit
<1>2. port = PortNew("none") /\ behind = {} /\ reads = [line \in Lines |-> None]
      /\ taken = [word |-> None, memory |-> None]
  BY DEF PortInit
<1>3. <<>> \in Seq(Operations) /\ DOMAIN <<>> = {}
  OBVIOUS
<1>4. PairOK(proc, port)
  BY <1>1, <1>2, <1>3, MadeIs
<1>5. GhostsOK(proc, port, behind, reads)
  BY <1>1, <1>2, <1>3, MadeGhosts
<1>6. proc.program = <<>> /\ ~proc.nextInstr /\ ~proc.memstart
  BY <1>1, <1>3, MadeNew
<1>7. RulesLeft(proc)
  BY <1>3, <1>6 DEF RulesLeft, RulesOf
<1>8. port.reach = "none"
  BY <1>2 DEF PortNew
<1>9. AsMade
  BY <1>1, <1>2, <1>6, <1>8 DEF AsMade, Made
<1> QED
  BY <1>2, <1>4, <1>5, <1>7, <1>9 DEF PortInv, GhostsOK, FusedIsMemorys

\* The engine fits the prefetch.
LEMMA FittedKeeps == ASSUME NEW reach \in Reaches PROVE PortInv /\ SetPrefetch(reach) => PortInv'
<1> SUFFICES ASSUME PortInv, SetPrefetch(reach) PROVE PortInv'
  OBVIOUS
<1>1. PICK g \in PortPrograms : proc' = [proc EXCEPT !.program = g]
  BY DEF SetPrefetch
<1>2. port' = PortNew(reach) /\ behind' = behind /\ reads' = reads /\ taken' = taken
      /\ proc.ns = 0
  BY DEF SetPrefetch
<1>3. proc = Made(proc.program) /\ behind = {} /\ reads = [line \in Lines |-> None]
  BY <1>2 DEF PortInv, AsMade, Made
<1>14. g \in Seq(Operations) /\ proc.program \in Seq(Operations)
  BY Programs DEF PortInv, PairOK, ProcTypes
<1>4. proc' = Made(g)
  BY <1>1, <1>3, <1>14, MadeAgain
<1>5. reach \in {"none", "line", "page"}
  BY PortAssumption
<1>6. g \in Seq(Operations) /\ RulesOf(g)
  BY Programs
<1>7. PairOK(proc', port')
  BY <1>2, <1>4, <1>5, <1>6, MadeIs
<1>8. GhostsOK(proc', port', behind', reads')
  BY <1>2, <1>3, <1>4, <1>6, MadeGhosts
<1>9. proc'.program = g /\ ~proc'.nextInstr /\ ~proc'.memstart
  BY <1>4, <1>6, MadeNew
<1>10. RulesLeft(proc')
  BY <1>6, <1>9 DEF RulesLeft
<1>11. port'.reach = reach
  BY <1>2 DEF PortNew
<1>12. AsMade'
  BY <1>2, <1>3, <1>4, <1>9, <1>11 DEF AsMade, Made
<1>13. FusedIsMemorys'
  BY <1>2 DEF PortInv, FusedIsMemorys
<1> QED
  BY <1>7, <1>8, <1>10, <1>12, <1>13 DEF PortInv, GhostsOK

\* The file device's command is done.
LEMMA TransferKeeps == ASSUME NEW page PROVE PortInv /\ AdvanceFileDevice(page) => PortInv'
<1> SUFFICES ASSUME PortInv, AdvanceFileDevice(page) PROVE PortInv'
  OBVIOUS
<1> DEFINE m == [a \in DOMAIN proc.main |->
                    IF a \div PageWords = page THEN proc.ops ELSE proc.main[a]]
<1>0. proc \in ProcTypes /\ PairOK(proc, port)
  BY DEF PortInv, PairOK
<1>1. proc' = [proc EXCEPT !.main = m, !.dma = TRUE, !.ops = proc.ops + 1,
                           !.transfers = proc.transfers + 1]
  BY <1>0 DEF AdvanceFileDevice, Transferred, ProcTypes
<1>2. proc.ops > 0 /\ UNCHANGED <<port, behind, reads, taken>>
  BY DEF AdvanceFileDevice
<1>3. m \in [0 .. MainWords - 1 -> Nat]
  BY <1>0 DEF ProcTypes
<1> DEFINE v == [proc EXCEPT !.main = m, !.dma = TRUE]
<1> HIDE DEF m
<1>9. /\ v \in ProcTypes /\ v.dma
      /\ v.ns = proc.ns /\ v.mbusy = proc.mbusy /\ v.mbusySync = proc.mbusySync
      /\ v.memstart = proc.memstart /\ v.clearAt = proc.clearAt
      /\ v.fetch = proc.fetch /\ v.vma = proc.vma /\ v.to = proc.to
      /\ v.wrcyc = proc.wrcyc /\ v.wmap = proc.wmap /\ v.page = proc.page
      /\ v.program = proc.program /\ v.nextInstr = proc.nextInstr
  BY <1>0, <1>3 DEF ProcTypes
<1>10. proc' = [v EXCEPT !.ops = proc.ops + 1, !.transfers = proc.transfers + 1]
  BY <1>1
<1> HIDE DEF v
<1>11. proc.ops + 1 \in Nat /\ proc.transfers + 1 \in Nat
  BY <1>0 DEF ProcTypes
<1>4. /\ proc' \in ProcTypes /\ proc'.dma
      /\ proc'.ns = proc.ns /\ proc'.mbusy = proc.mbusy /\ proc'.mbusySync = proc.mbusySync
      /\ proc'.memstart = proc.memstart /\ proc'.clearAt = proc.clearAt
      /\ proc'.fetch = proc.fetch /\ proc'.vma = proc.vma /\ proc'.to = proc.to
      /\ proc'.wrcyc = proc.wrcyc /\ proc'.wmap = proc.wmap /\ proc'.page = proc.page
      /\ proc'.program = proc.program /\ proc'.nextInstr = proc.nextInstr
  BY <1>9, <1>10, <1>11 DEF ProcTypes
<1>5. PairOK(proc', port')
  BY <1>0, <1>2, <1>4 DEF PairOK, InCycle, Fetching, PrefetchedIs, Physical
<1>6. proc.ns # 0
  <2> SUFFICES ASSUME proc.ns = 0 PROVE FALSE
    OBVIOUS
  <2>1. proc = Made(proc.program)
    BY DEF PortInv, AsMade, Made
  <2>2. proc.program \in Seq(Operations)
    BY <1>0 DEF ProcTypes
  <2>3. proc.ops = 0
    BY <2>1, <2>2, MadeNew
  <2> QED
    BY <2>3, <1>2
<1> QED
  BY <1>2, <1>4, <1>5, <1>6
  DEF PortInv, RulesLeft, BehindOK, StampsOK, AsMade, FusedIsMemorys

\* The checkpoint is resumed on an engine of its own reach.
LEMMA ResumedKeeps == ASSUME NEW reach \in Reaches PROVE PortInv /\ PortResume(reach) => PortInv'
<1> SUFFICES ASSUME PortInv, PortResume(reach) PROVE PortInv'
  OBVIOUS
<1> DEFINE pre == IF reach = "none" THEN NoPrefetch ELSE port.prefetched
           fetch == IF reach = "none" THEN None ELSE port.fetchVaddr
<1>0. proc \in ProcTypes /\ port \in PortTypes /\ PairOK(proc, port)
  BY DEF PortInv, PairOK
<1>1. port' = [state |-> port.state, write |-> port.write, addr |-> port.addr,
               memory |-> port.memory, sets |-> port.sets,
               memoryFreeAt |-> port.memoryFreeAt, bufferFreeAt |-> port.bufferFreeAt,
               reach |-> reach, prefetched |-> pre, fetchVaddr |-> fetch]
  BY DEF PortResume, PortLoad, PortSave
<1>2. proc.ops > 0 /\ UNCHANGED <<proc, behind, reads, taken>>
  BY DEF PortResume
<1>3. pre \in PrefetchTypes /\ fetch \in Vaddrs \cup {None} /\ reach \in {"none", "line", "page"}
  BY <1>0, PortAssumption DEF PortTypes, PrefetchTypes
<1>4. pre \in {port.prefetched, NoPrefetch} /\ fetch \in {port.fetchVaddr, None}
  OBVIOUS
<1> HIDE DEF pre, fetch
<1>5. port' \in PortTypes
  BY <1>0, <1>1, <1>3 DEF PortTypes
<1>6. /\ port'.state = port.state /\ port'.addr = port.addr /\ port'.sets = port.sets
      /\ port'.memoryFreeAt = port.memoryFreeAt /\ port'.bufferFreeAt = port.bufferFreeAt
      /\ port'.prefetched = pre /\ port'.fetchVaddr = fetch
  BY <1>1
<1>7. PairOK(proc', port')
  BY <1>0, <1>2, <1>4, <1>5, <1>6 DEF PairOK, InCycle, Fetching, PrefetchedIs
<1>8. proc.ns # 0
  <2> SUFFICES ASSUME proc.ns = 0 PROVE FALSE
    OBVIOUS
  <2>1. proc = Made(proc.program)
    BY DEF PortInv, AsMade, Made
  <2>2. proc.program \in Seq(Operations)
    BY <1>0 DEF ProcTypes
  <2>3. proc.ops = 0
    BY <2>1, <2>2, MadeNew
  <2> QED
    BY <2>3, <1>2
<1> QED
  BY <1>2, <1>6, <1>7, <1>8
  DEF PortInv, RulesLeft, BehindOK, StampsOK, AsMade, FusedIsMemorys

\* Every step of the port.
LEMMA PortNextKeeps == PortInv /\ PortNext => PortInv'
<1>1. ASSUME PortInv, NEW r \in Reaches, SetPrefetch(r) \/ PortResume(r) PROVE PortInv'
  BY <1>1, FittedKeeps, ResumedKeeps
<1>2. ASSUME PortInv, NEW p \in Pages, AdvanceFileDevice(p) PROVE PortInv'
  BY <1>2, TransferKeeps
<1> QED
  BY <1>1, <1>2, WaitCycleKeeps, MicrocycleKeeps DEF PortNext

\* Every step of something else.
LEMMA PortStutterKeeps == PortInv /\ UNCHANGED portVars => PortInv'
BY DEF portVars, PortInv, RulesLeft, BehindOK, StampsOK, AsMade, FusedIsMemorys

-----------------------------------------------------------------------------
(* What the invariant says.                                                  *)

\* The writes behind follow each other, so that one at most is still to do.
LEMMA InvOneBehind == PortInv => OneWriteBehind
<1> SUFFICES ASSUME PortInv, NEW t \in 0 .. proc.ns
             PROVE  Cardinality({w \in behind : w.ack <= t /\ t < w.done}) <= 1
  BY DEF OneWriteBehind
<1> DEFINE S == {w \in behind : w.ack <= t /\ t < w.done}
<1>1. /\ behind \in SUBSET [ack : Nat, done : Nat]
      /\ \A v, w \in behind : v = w \/ v.done <= w.ack \/ w.done <= v.ack
  BY DEF PortInv, BehindOK
<1>2. t \in Int
  OBVIOUS
<1>3. \A v, w \in S : v = w
  <2> SUFFICES ASSUME NEW v \in S, NEW w \in S PROVE v = w
    OBVIOUS
  <2>1. v.ack \in Nat /\ v.done \in Nat /\ w.ack \in Nat /\ w.done \in Nat
    BY <1>1
  <2>2. ~ v.done <= w.ack /\ ~ w.done <= v.ack
    BY <2>1, <1>2
  <2> QED
    BY <2>2, <1>1
<1> HIDE DEF S
<1>4. CASE S = {}
  <2>1. Cardinality(S) = 0
    BY <1>4, FS_EmptySet
  <2> QED
    BY <2>1 DEF S
<1>5. CASE S # {}
  <2>1. PICK x : x \in S
    BY <1>5
  <2>2. S = {x}
    BY <2>1, <1>3
  <2>3. Cardinality(S) = 1
    BY <2>2, FS_Singleton
  <2> QED
    BY <2>3 DEF S
<1> QED
  BY <1>4, <1>5

\* A set is in the order its lines were last read.
LEMMA InvRecent == PortInv => CacheIsRecent
BY DEF PortInv, IsRecent, SetIsRecent, CacheIsRecent

\* The types.
LEMMA InvPortTypes == PortInv => PortTypeOK
<1> SUFFICES ASSUME PortInv PROVE PortTypeOK
  OBVIOUS
<1>1. proc \in ProcTypes /\ port \in PortTypes /\ InCycle(proc, port)
  BY DEF PortInv, PairOK
<1>2. port.sets \in [0 .. Sets - 1 -> Seq(Lines)]
  BY <1>1 DEF PortTypes, SetTypes
<1>3. port.state.k \in {"idle", "requested", "granted", "acked"}
  BY <1>1 DEF PortTypes, StateTypes
<1>4. proc.main \in [0 .. MainWords - 1 -> Nat]
  BY <1>1 DEF ProcTypes
<1> QED
  BY <1>1, <1>2, <1>3, <1>4 DEF PortTypeOK, InCycle

-----------------------------------------------------------------------------
\* The port is right for every size of memory, page, line and cache, every
\* reach of the prefetch and every microprogram that keeps the microcode's
\* rules, whatever the devices transfer behind the processor and wherever the
\* machine is saved and resumed: a word a fused return takes is memory's at
\* the location counter, one write at most is behind the processor, and a set
\* of the cache holds the lines last read.
THEOREM PortSafe == Spec => []PortKept
<1>1. Init => PortInv
  BY PortInitInv DEF Init
<1>2. PortInv /\ [Next]_quuxVars => PortInv'
  <2> SUFFICES ASSUME PortInv, [Next]_quuxVars PROVE PortInv'
    OBVIOUS
  <2>1. PortNext \/ UNCHANGED portVars
    BY DEF Next, quuxVars
  <2> QED
    BY <2>1, PortNextKeeps, PortStutterKeeps
<1>3. PortInv => PortKept
  <2>1. PortInv => FusedIsMemorys
    BY DEF PortInv
  <2> QED
    BY <2>1, InvPortTypes, InvOneBehind, InvRecent DEF PortKept
<1> QED
  BY <1>1, <1>2, <1>3, PTL DEF Spec

-----------------------------------------------------------------------------
(* The disk file: an image stands in it as its table says.                    *)

SectorData == Nat \cup {Torn}
Entries == 0 .. VhdBlocks - 1

\* The sectors of the data of the block at a, as the file numbers them.
DataOf(a) == a + 2 .. a + 1 + VhdSectors

FileTypes ==
    [sectors : Seq(Int), half : BOOLEAN, table : [Entries -> Int]]

\* A block the table names lies whole in the file, below where the next goes.
BlockStands(f, end, a) ==
    /\ a \in Nat
    /\ a + 1 + VhdSectors <= end
    /\ a + 1 + VhdSectors <= Len(f.sectors)
    /\ \A i \in DataOf(a) : f.sectors[i] \in SectorData

Separate(a, b) == a + 1 + VhdSectors <= b \/ b + 1 + VhdSectors <= a

ImageOK(f, img) ==
    /\ f \in FileTypes
    /\ img \in [table : [Entries -> Int], end : Nat]
    /\ img.table = f.table
    /\ \A j \in Entries : f.table[j] # Unallocated => BlockStands(f, img.end, f.table[j])
    /\ \A j, k \in Entries :
          j # k /\ f.table[j] # Unallocated /\ f.table[k] # Unallocated =>
              Separate(f.table[j], f.table[k])

Sectors == 0 .. 2 * Blocks - 1

\* A number is its quotient and remainder.
LEMMA BlockDivided ==
    ASSUME NEW n \in Nat, NEW d \in Nat \ {0}
    PROVE  /\ n \div d \in Nat /\ n % d \in Nat
           /\ n = (n \div d) * d + (n % d)
           /\ n % d < d
<1>1. n = (n \div d) * d + (n % d) /\ n \div d \in Nat
  BY SMT
<1>2. n % d \in 0 .. d - 1
  BY SMT
<1> QED
  BY <1>1, <1>2

\* A product grows with its factor.
LEMMA Grows ==
    ASSUME NEW a \in Nat, NEW b \in Nat, NEW d \in Nat, a <= b
    PROVE  d * a <= d * b
<1> DEFINE c == b - a
<1>1. c \in Nat /\ b = a + c
  OBVIOUS
<1> HIDE DEF c
<1>2. d * (a + c) = d * a + d * c /\ d * c \in Nat /\ d * a \in Nat
  BY <1>1
<1> QED
  BY <1>1, <1>2

\* A function on 1 .. n is a sequence of n.
LEMMA SeqIs ==
    ASSUME NEW T, NEW n \in Nat, NEW f \in [1 .. n -> T]
    PROVE  f \in Seq(T) /\ Len(f) = n /\ DOMAIN f = 1 .. n
OBVIOUS

\* A sector of the disk has an entry of the table.
LEMMA InTable ==
    ASSUME NEW s \in Sectors
    PROVE  s \div VhdSectors \in Entries /\ s % VhdSectors \in 0 .. VhdSectors - 1
<1> DEFINE q == s \div VhdSectors
<1>0. VhdSectors \in Nat \ {0} /\ VhdBlocks \in Nat \ {0} /\ Blocks \in Nat \ {0}
  BY DiskImageAssumption
<1>1. s \in Nat /\ s < 2 * Blocks
  BY <1>0 DEF Sectors
<1>2. q \in Nat /\ s % VhdSectors \in Nat /\ s % VhdSectors < VhdSectors
      /\ s = q * VhdSectors + (s % VhdSectors)
  BY <1>0, <1>1, BlockDivided
<1>3. ASSUME VhdBlocks <= q PROVE FALSE
  <2>1. VhdSectors * VhdBlocks <= VhdSectors * q /\ VhdSectors * q = q * VhdSectors
    BY <1>0, <1>2, <1>3, Grows
  <2>2. 2 * Blocks <= VhdBlocks * VhdSectors
    BY DiskImageAssumption
  <2>3. VhdBlocks * VhdSectors = VhdSectors * VhdBlocks
    BY <1>0
  <2> QED
    BY <1>0, <1>1, <1>2, <2>1, <2>2, <2>3
<1> HIDE DEF q
<1>4. q \in Entries
  BY <1>0, <1>2, <1>3 DEF Entries
<1> QED
  BY <1>0, <1>2, <1>4 DEF q

\* Two sectors of one VHD block stand at different places in it.
LEMMA OtherPlace ==
    ASSUME NEW r \in Sectors, NEW s \in Sectors, r # s,
           r \div VhdSectors = s \div VhdSectors
    PROVE  r % VhdSectors # s % VhdSectors
<1>0. VhdSectors \in Nat \ {0} /\ r \in Nat /\ s \in Nat
  BY DiskImageAssumption DEF Sectors
<1> QED
  BY <1>0, BlockDivided

\* The file g is f with n of the sectors of a write, and of the next one half.
LandedAs(f, g, at, data, n, half) ==
    /\ g \in FileTypes /\ g.table = f.table
    /\ Len(f.sectors) <= Len(g.sectors)
    /\ at + n <= Len(g.sectors)
    /\ \A i \in 1 .. Len(g.sectors) :
          /\ i \in at + 1 .. at + n => g.sectors[i] = data[i - at]
          /\ i = at + n + 1 /\ half /\ n < Len(data) => g.sectors[i] = Torn
          /\ i \notin at + 1 .. at + n /\ ~(i = at + n + 1 /\ half /\ n < Len(data))
               /\ i <= Len(f.sectors) => g.sectors[i] = f.sectors[i]

\* What the sectors of a file are after some of a write's data has landed.
LEMMA LandedIs ==
    ASSUME NEW f \in FileTypes, NEW at \in Nat, NEW data \in Seq(Int), NEW n \in Nat,
           n <= Len(data), NEW half \in BOOLEAN
    PROVE  LandedAs(f, Landed(f, DataAt(at, data), n, half), at, data, n, half)
<1> DEFINE w == DataAt(at, data)
           g == Landed(f, w, n, half)
           old  == IF f.half THEN Append(f.sectors, Torn) ELSE f.sectors
           size == IF Len(old) > at + n THEN Len(old) ELSE at + n
           all  == [i \in 1 .. size |->
                    IF i \in at + 1 .. at + n THEN data[i - at]
                    ELSE IF i <= Len(old) THEN old[i] ELSE Zero]
           tear == half /\ n < Len(data)
<1>1. w.k = "data" /\ w.at = at /\ w.data = data
  BY DEF DataAt
<1>2. g = IF tear /\ at + n < Len(all)
          THEN [f EXCEPT !.sectors = [all EXCEPT ![at + n + 1] = Torn], !.half = FALSE]
          ELSE [f EXCEPT !.sectors = all, !.half = tear]
  BY <1>1 DEF Landed
<1>3. /\ old \in Seq(Int) /\ Len(f.sectors) <= Len(old)
      /\ \A i \in 1 .. Len(f.sectors) : old[i] = f.sectors[i]
  BY DEF FileTypes, Torn
<1>4. size \in Nat /\ Len(old) <= size /\ at + n <= size
  BY <1>3
<1>5. \A i \in 1 .. size : all[i] \in Int
  BY <1>3, <1>4 DEF Zero
<1>6. all \in Seq(Int) /\ Len(all) = size /\ DOMAIN all = 1 .. size
  <2>1. all \in [1 .. size -> Int]
    BY <1>5
  <2> HIDE DEF all
  <2> QED
    BY <1>4, <2>1, SeqIs
<1>7. \A i \in 1 .. size : all[i] = IF i \in at + 1 .. at + n THEN data[i - at]
                                    ELSE IF i <= Len(old) THEN old[i] ELSE Zero
  OBVIOUS
<1> HIDE DEF all, size, old, w
<1>8. Len(f.sectors) \in Nat /\ Len(old) \in Nat /\ tear \in BOOLEAN
  BY <1>3 DEF FileTypes
<1> DEFINE set == [all EXCEPT ![at + n + 1] = Torn]
           cut == tear /\ at + n < size
           new == IF cut THEN set ELSE all
<1>9. /\ new \in Seq(Int) /\ Len(new) = size
      /\ \A i \in 1 .. size : new[i] = IF cut /\ i = at + n + 1 THEN Torn ELSE all[i]
  <2>1. all \in [1 .. size -> Int]
    BY <1>6
  <2>2. cut => at + n + 1 \in 1 .. size
    BY <1>4
  <2>3. /\ new \in [1 .. size -> Int]
        /\ \A i \in 1 .. size : new[i] = IF cut /\ i = at + n + 1 THEN Torn ELSE all[i]
    BY <2>1, <2>2 DEF Torn
  <2> HIDE DEF new
  <2> QED
    BY <1>4, <2>3, SeqIs
<1>10. /\ g.sectors = new /\ g.table = f.table /\ g \in FileTypes
  <2>1. g = [f EXCEPT !.sectors = new, !.half = IF cut THEN FALSE ELSE tear]
    BY <1>2, <1>6
  <2>2. (IF cut THEN FALSE ELSE tear) \in BOOLEAN
    BY <1>8
  <2> HIDE DEF new, g, cut, tear
  <2> QED
    BY <1>9, <2>1, <2>2 DEF FileTypes
<1> HIDE DEF new, g
<1>11. ASSUME NEW i \in 1 .. size
       PROVE  /\ i \in at + 1 .. at + n => new[i] = data[i - at]
              /\ i = at + n + 1 /\ tear => new[i] = Torn
              /\ i \notin at + 1 .. at + n /\ ~(i = at + n + 1 /\ tear)
                   /\ i <= Len(f.sectors) => new[i] = f.sectors[i]
  <2>1. new[i] = IF cut /\ i = at + n + 1 THEN Torn ELSE all[i]
    BY <1>9
  <2>2. all[i] = IF i \in at + 1 .. at + n THEN data[i - at]
                 ELSE IF i <= Len(old) THEN old[i] ELSE Zero
    BY <1>7
  <2>3. i <= Len(f.sectors) => i <= Len(old) /\ old[i] = f.sectors[i]
    BY <1>3, <1>8
  <2> HIDE DEF tear
  <2>4. i \in Nat /\ size \in Nat /\ i <= size
    BY <1>4
  <2> QED
    BY <2>1, <2>2, <2>3, <2>4
<1> QED
  BY <1>3, <1>4, <1>8, <1>9, <1>10, <1>11 DEF g, w, LandedAs

\* Where a sector of an allocated block is, and what it reads.
LEMMA Placed ==
    ASSUME NEW f, NEW img, ImageOK(f, img), NEW s \in Sectors, Locate(img, s) # Unallocated
    PROVE  LET a == f.table[s \div VhdSectors]
               at == Locate(img, s)
           IN  /\ s \div VhdSectors \in Entries /\ a # Unallocated
               /\ a \in Nat /\ at = a + 1 + (s % VhdSectors) /\ at \in Nat
               /\ at + 1 \in DataOf(a) /\ at + 1 \in 1 .. Len(f.sectors)
               /\ SectorRead(f, img, s) = f.sectors[at + 1]
               /\ SectorRead(f, img, s) \in SectorData
<1> DEFINE a == f.table[s \div VhdSectors]
           at == Locate(img, s)
<1>1. s \div VhdSectors \in Entries /\ s % VhdSectors \in 0 .. VhdSectors - 1
  BY InTable
<1>2. VhdSectors \in Nat \ {0} /\ Len(f.sectors) \in Nat
  BY DiskImageAssumption DEF ImageOK, FileTypes
<1>3. img.table = f.table
  BY DEF ImageOK
<1>4. a # Unallocated /\ at = a + 1 + (s % VhdSectors)
  BY <1>3 DEF Locate
<1>5. BlockStands(f, img.end, a)
  BY <1>1, <1>4 DEF ImageOK
<1> HIDE DEF a, at
<1>6. at \in Nat /\ at + 1 \in DataOf(a) /\ at + 1 <= Len(f.sectors) /\ a \in Nat
  BY <1>1, <1>2, <1>4, <1>5 DEF BlockStands, DataOf
<1>7. f.sectors[at + 1] \in SectorData
  BY <1>5, <1>6 DEF BlockStands
<1>8. SectorRead(f, img, s) = f.sectors[at + 1]
  BY <1>2, <1>4, <1>6 DEF SectorRead, at, Unallocated
<1> QED
  BY <1>1, <1>2, <1>4, <1>6, <1>7, <1>8 DEF a, at

\* A sector nothing is allocated for reads zeros.
LEMMA NotPlaced ==
    ASSUME NEW f, NEW img, NEW s, Locate(img, s) = Unallocated
    PROVE  SectorRead(f, img, s) = Zero
BY DEF SectorRead

\* No sector reads as anything but data.
LEMMA ReadsData ==
    ASSUME NEW f, NEW img, ImageOK(f, img), NEW s \in Sectors
    PROVE  SectorRead(f, img, s) \in SectorData
BY Placed, NotPlaced DEF SectorData, Zero

\* Two sectors have two places.
LEMMA TwoPlaces ==
    ASSUME NEW f, NEW img, ImageOK(f, img), NEW r \in Sectors, NEW s \in Sectors, r # s,
           Locate(img, r) # Unallocated, Locate(img, s) # Unallocated
    PROVE  Locate(img, r) # Locate(img, s)
<1> DEFINE j == r \div VhdSectors
           k == s \div VhdSectors
<1>1. /\ j \in Entries /\ k \in Entries
      /\ r % VhdSectors \in 0 .. VhdSectors - 1 /\ s % VhdSectors \in 0 .. VhdSectors - 1
  BY InTable
<1>2. /\ f.table[j] # Unallocated /\ f.table[k] # Unallocated
      /\ Locate(img, r) = f.table[j] + 1 + (r % VhdSectors)
      /\ Locate(img, s) = f.table[k] + 1 + (s % VhdSectors)
      /\ f.table[j] \in Nat /\ f.table[k] \in Nat
  BY Placed
<1>3. VhdSectors \in Nat \ {0}
  BY DiskImageAssumption
<1>4. CASE j = k
  <2>1. r % VhdSectors # s % VhdSectors
    BY <1>4, OtherPlace
  <2> QED
    BY <1>1, <1>2, <1>3, <1>4, <2>1
<1>5. CASE j # k
  <2>1. Separate(f.table[j], f.table[k])
    BY <1>1, <1>2, <1>5 DEF ImageOK
  <2> HIDE DEF j, k
  <2> QED
    BY <1>1, <1>2, <1>3, <2>1 DEF Separate
<1> QED
  BY <1>4, <1>5

\* A sector of a block that stands is overwritten in its place.
LEMMA PutInPlace ==
    ASSUME NEW f, NEW img, ImageOK(f, img), NEW s \in Sectors, Locate(img, s) # Unallocated,
           NEW g \in FileTypes, g.table = f.table, Len(f.sectors) <= Len(g.sectors),
           \A i \in 1 .. Len(f.sectors) :
              i # Locate(img, s) + 1 => g.sectors[i] = f.sectors[i],
           g.sectors[Locate(img, s) + 1] \in SectorData
    PROVE  /\ ImageOK(g, img)
           /\ SectorRead(g, img, s) = g.sectors[Locate(img, s) + 1]
           /\ \A r \in Sectors : r # s => SectorRead(g, img, r) = SectorRead(f, img, r)
<1>1. ImageOK(g, img)
  <2>1. ASSUME NEW j \in Entries, g.table[j] # Unallocated
        PROVE  BlockStands(g, img.end, g.table[j])
    <3>1. BlockStands(f, img.end, f.table[j])
      BY <2>1 DEF ImageOK
    <3>2. Len(f.sectors) \in Nat /\ Len(g.sectors) \in Nat /\ VhdSectors \in Nat
      BY DiskImageAssumption DEF ImageOK, FileTypes
    <3>3. \A i \in DataOf(f.table[j]) : i \in 1 .. Len(f.sectors)
      BY <3>1, <3>2 DEF BlockStands, DataOf
    <3>4. \A i \in DataOf(f.table[j]) : g.sectors[i] \in SectorData
      BY <3>1, <3>3 DEF BlockStands
    <3>5. f.table[j] + 1 + VhdSectors <= Len(g.sectors)
      BY <3>1, <3>2 DEF BlockStands
    <3> QED
      BY <3>1, <3>4, <3>5 DEF BlockStands
  <2> QED
    BY <2>1 DEF ImageOK
<1>2. ASSUME NEW r \in Sectors, r # s
      PROVE  SectorRead(g, img, r) = SectorRead(f, img, r)
  <2>1. CASE Locate(img, r) = Unallocated
    BY <2>1, NotPlaced
  <2>2. CASE Locate(img, r) # Unallocated
    <3>1. /\ SectorRead(f, img, r) = f.sectors[Locate(img, r) + 1]
          /\ SectorRead(g, img, r) = g.sectors[Locate(img, r) + 1]
          /\ Locate(img, r) + 1 \in 1 .. Len(f.sectors)
          /\ Locate(img, r) \in Nat /\ Locate(img, s) \in Nat
      BY <1>1, <2>2, Placed
    <3>2. Locate(img, r) + 1 # Locate(img, s) + 1
      BY <1>2, <2>2, <3>1, TwoPlaces
    <3> QED
      BY <3>1, <3>2
  <2> QED
    BY <2>1, <2>2
<1> QED
  BY <1>1, <1>2, Placed

\* Nothing written past the last block moves what the image reads.
LEMMA PutBeyond ==
    ASSUME NEW f, NEW img, ImageOK(f, img),
           NEW g \in FileTypes, g.table = f.table, Len(f.sectors) <= Len(g.sectors),
           \A i \in 1 .. Len(f.sectors) : i <= img.end => g.sectors[i] = f.sectors[i]
    PROVE  /\ ImageOK(g, img)
           /\ \A r \in Sectors : SectorRead(g, img, r) = SectorRead(f, img, r)
<1>0. Len(f.sectors) \in Nat /\ Len(g.sectors) \in Nat /\ VhdSectors \in Nat /\ img.end \in Nat
  BY DiskImageAssumption DEF ImageOK, FileTypes
<1>1. ASSUME NEW j \in Entries, f.table[j] # Unallocated
      PROVE  /\ BlockStands(g, img.end, f.table[j])
             /\ \A i \in DataOf(f.table[j]) : g.sectors[i] = f.sectors[i]
  <2>1. BlockStands(f, img.end, f.table[j])
    BY <1>1 DEF ImageOK
  <2>2. \A i \in DataOf(f.table[j]) : i \in 1 .. Len(f.sectors) /\ i <= img.end
    BY <1>0, <2>1 DEF BlockStands, DataOf
  <2>3. \A i \in DataOf(f.table[j]) : g.sectors[i] = f.sectors[i]
    BY <2>2
  <2>4. f.table[j] + 1 + VhdSectors <= Len(g.sectors)
    BY <1>0, <2>1 DEF BlockStands
  <2> QED
    BY <2>1, <2>3, <2>4 DEF BlockStands
<1>2. ImageOK(g, img)
  BY <1>1 DEF ImageOK
<1>3. ASSUME NEW r \in Sectors
      PROVE  SectorRead(g, img, r) = SectorRead(f, img, r)
  <2>1. CASE Locate(img, r) = Unallocated
    BY <2>1, NotPlaced
  <2>2. CASE Locate(img, r) # Unallocated
    <3>1. /\ SectorRead(f, img, r) = f.sectors[Locate(img, r) + 1]
          /\ SectorRead(g, img, r) = g.sectors[Locate(img, r) + 1]
          /\ Locate(img, r) + 1 \in DataOf(f.table[r \div VhdSectors])
          /\ r \div VhdSectors \in Entries /\ f.table[r \div VhdSectors] # Unallocated
      BY <1>2, <2>2, Placed
    <3> QED
      BY <1>1, <3>1
  <2> QED
    BY <2>1, <2>2
<1> QED
  BY <1>2, <1>3

\* The file after one write of data, whole or in part.
LEMMA WrittenIs ==
    ASSUME NEW f \in FileTypes, NEW at \in Nat, NEW data \in Seq(Int)
    PROVE  LET g == Written(f, DataAt(at, data))
           IN  /\ g \in FileTypes /\ g.table = f.table
               /\ Len(f.sectors) <= Len(g.sectors)
               /\ at + Len(data) <= Len(g.sectors)
               /\ \A i \in at + 1 .. at + Len(data) : g.sectors[i] = data[i - at]
               /\ \A i \in 1 .. Len(f.sectors) :
                     i \notin at + 1 .. at + Len(data) => g.sectors[i] = f.sectors[i]
<1> DEFINE g == Written(f, DataAt(at, data))
           n == Len(data)
<1>1. n \in Nat /\ n <= n /\ ~(FALSE /\ n < n)
  OBVIOUS
<1>2. g = Landed(f, DataAt(at, data), n, FALSE)
  BY DEF Written, DataAt
<1>3. /\ g \in FileTypes /\ g.table = f.table
      /\ Len(f.sectors) <= Len(g.sectors)
      /\ at + n <= Len(g.sectors)
      /\ \A i \in 1 .. Len(g.sectors) :
                     /\ i \in at + 1 .. at + n => g.sectors[i] = data[i - at]
                     /\ i \notin at + 1 .. at + n
                          /\ i <= Len(f.sectors) => g.sectors[i] = f.sectors[i]
  <2> HIDE DEF g
  <2> QED
    <3>1. LandedAs(f, g, at, data, n, FALSE)
      BY <1>1, <1>2, LandedIs
    <3> QED
      BY <3>1 DEF LandedAs
<1>4. Len(f.sectors) \in Nat /\ Len(g.sectors) \in Nat
  BY <1>3 DEF FileTypes
<1> HIDE DEF g, n
<1>5. \A i \in at + 1 .. at + n : i \in 1 .. Len(g.sectors)
  BY <1>1, <1>3, <1>4
<1>6. \A i \in at + 1 .. at + n : g.sectors[i] = data[i - at]
  BY <1>3, <1>5
<1>7. \A i \in 1 .. Len(f.sectors) : i \in 1 .. Len(g.sectors) /\ i <= Len(f.sectors)
  BY <1>3, <1>4
<1>8. \A i \in 1 .. Len(f.sectors) :
         i \notin at + 1 .. at + n => g.sectors[i] = f.sectors[i]
  BY <1>3, <1>7
<1> QED
  BY <1>3, <1>6, <1>8 DEF g, n

\* What a new block's write is made of: its bitmap and zeros about the sector.
NewBlock(s, v) ==
    <<Bitmap>> \o [i \in 1 .. VhdSectors |-> IF i = (s % VhdSectors) + 1 THEN v ELSE Zero]

\* A new block, sector by sector.
LEMMA NewBlockIs ==
    ASSUME NEW s \in Sectors, NEW v \in SectorData
    PROVE  /\ NewBlock(s, v) \in Seq(Int) /\ Len(NewBlock(s, v)) = 1 + VhdSectors
           /\ \A i \in 1 .. VhdSectors :
                 NewBlock(s, v)[i + 1] = IF i = (s % VhdSectors) + 1 THEN v ELSE Zero
<1> DEFINE q == [i \in 1 .. VhdSectors |-> IF i = (s % VhdSectors) + 1 THEN v ELSE Zero]
<1>1. VhdSectors \in Nat
  BY DiskImageAssumption
<1>2. q \in [1 .. VhdSectors -> Int]
  BY DEF SectorData, Torn, Zero
<1>3. \A i \in 1 .. VhdSectors : q[i] = IF i = (s % VhdSectors) + 1 THEN v ELSE Zero
  OBVIOUS
<1> HIDE DEF q
<1>4. q \in Seq(Int) /\ Len(q) = VhdSectors
  BY <1>1, <1>2, SeqIs
<1>5. <<Bitmap>> \in Seq(Int) /\ Len(<<Bitmap>>) = 1
  BY DEF Bitmap
<1>6. NewBlock(s, v) = <<Bitmap>> \o q
  BY DEF NewBlock, q
<1>7. /\ <<Bitmap>> \o q \in Seq(Int) /\ Len(<<Bitmap>> \o q) = 1 + VhdSectors
      /\ \A i \in 1 .. VhdSectors : (<<Bitmap>> \o q)[i + 1] = q[i]
  BY <1>1, <1>4, <1>5
<1> QED
  BY <1>3, <1>6, <1>7

\* A file grown by a block, its entry written: the sector reads what was
\* written, the rest of the block zeros, and every other block what it did.
LEMMA BlockGrown ==
    ASSUME NEW f, NEW img, ImageOK(f, img), NEW s \in Sectors, Locate(img, s) = Unallocated,
           NEW v \in SectorData,
           NEW g, ImageOK(g, img), img.end + 1 + VhdSectors <= Len(g.sectors),
           \A i \in 1 .. VhdSectors :
              g.sectors[img.end + 1 + i] = IF i = (s % VhdSectors) + 1 THEN v ELSE Zero,
           \A r \in Sectors : SectorRead(g, img, r) = SectorRead(f, img, r),
           NEW h, h = [g EXCEPT !.table[s \div VhdSectors] = img.end]
    PROVE  LET new == Allocated(img, s)
           IN  /\ ImageOK(h, new)
               /\ SectorRead(h, new, s) = v
               /\ \A r \in Sectors : r # s => SectorRead(h, new, r) = SectorRead(f, img, r)
<1> DEFINE k == s \div VhdSectors
           e == img.end
           new == Allocated(img, s)
<1>0. VhdSectors \in Nat \ {0} /\ Len(g.sectors) \in Nat /\ e \in Nat
  BY DiskImageAssumption DEF ImageOK, FileTypes
<1>1. k \in Entries /\ s % VhdSectors \in 0 .. VhdSectors - 1
  BY InTable
<1>2. new = [table |-> [img.table EXCEPT ![k] = e], end |-> e + 1 + VhdSectors]
  BY DEF Allocated
<1>3. /\ img.table = g.table /\ g.table \in [Entries -> Int] /\ g \in FileTypes
      /\ img \in [table : [Entries -> Int], end : Nat]
  BY DEF ImageOK, FileTypes
<1>4. /\ h.table = [g.table EXCEPT ![k] = e] /\ h.sectors = g.sectors /\ h.half = g.half
      /\ h \in FileTypes
  <2> DEFINE t == [g.table EXCEPT ![k] = e]
  <2>1. t \in [Entries -> Int]
    BY <1>0, <1>1, <1>3
  <2>2. h = [g EXCEPT !.table = t]
    OBVIOUS
  <2> HIDE DEF t
  <2>3. h.table = t /\ h.sectors = g.sectors /\ h.half = g.half /\ h \in FileTypes
    BY <1>3, <2>1, <2>2 DEF FileTypes
  <2> QED
    BY <2>3 DEF t
<1>5. g.table[k] = Unallocated
  <2>1. SUFFICES ASSUME g.table[k] # Unallocated PROVE FALSE
    OBVIOUS
  <2>2. BlockStands(g, img.end, g.table[k])
    BY <1>1, <2>1 DEF ImageOK
  <2>3. Locate(img, s) = g.table[k] + 1 + (s % VhdSectors)
    BY <1>3, <2>1 DEF Locate
  <2> HIDE DEF k
  <2> QED
    BY <1>1, <2>2, <2>3 DEF BlockStands, Unallocated
<1>6. \A j \in Entries : h.table[j] = IF j = k THEN e ELSE g.table[j]
  BY <1>1, <1>3, <1>4
<1>7. new.table = h.table /\ new.end = e + 1 + VhdSectors
      /\ new \in [table : [Entries -> Int], end : Nat]
  <2> DEFINE t == [img.table EXCEPT ![k] = e]
  <2>1. t = h.table /\ t \in [Entries -> Int]
    BY <1>0, <1>1, <1>3, <1>4
  <2>2. new = [table |-> t, end |-> e + 1 + VhdSectors]
    BY <1>2
  <2> HIDE DEF t, new
  <2> QED
    BY <1>0, <2>1, <2>2
<1> HIDE DEF k, e, new
<1>8. ASSUME NEW j \in Entries, h.table[j] # Unallocated
      PROVE  BlockStands(h, new.end, h.table[j])
  <2>1. CASE j = k
    <3>1. \A i \in DataOf(e) : i - e - 1 \in 1 .. VhdSectors /\ e + 1 + (i - e - 1) = i
      BY <1>0 DEF DataOf
    <3>2. \A i \in DataOf(e) : g.sectors[i] \in SectorData
      BY <3>1 DEF e, SectorData, Zero
    <3> QED
      BY <1>0, <1>4, <1>6, <1>7, <2>1, <3>2 DEF BlockStands, e
  <2>2. CASE j # k
    <3>1. BlockStands(g, e, g.table[j])
      BY <1>6, <1>8, <2>2 DEF ImageOK, e
    <3> QED
      BY <1>0, <1>4, <1>6, <1>7, <2>2, <3>1 DEF BlockStands
  <2> QED
    BY <2>1, <2>2
<1>9. ASSUME NEW i \in Entries, NEW j \in Entries, i # j,
             h.table[i] # Unallocated, h.table[j] # Unallocated
      PROVE  Separate(h.table[i], h.table[j])
  <2>1. ASSUME NEW m \in Entries, m # k, h.table[m] # Unallocated
        PROVE  BlockStands(g, e, h.table[m])
    BY <1>6, <2>1 DEF ImageOK, e
  <2>2. CASE i = k
    BY <1>0, <1>6, <1>9, <2>1, <2>2 DEF BlockStands, Separate
  <2>3. CASE j = k
    BY <1>0, <1>6, <1>9, <2>1, <2>3 DEF BlockStands, Separate
  <2>4. CASE i # k /\ j # k
    BY <1>6, <1>9, <2>4 DEF ImageOK
  <2> QED
    BY <2>2, <2>3, <2>4
<1>10. ImageOK(h, new)
  BY <1>4, <1>7, <1>8, <1>9 DEF ImageOK
<1>11. SectorRead(h, new, s) = v
  <2>1. h.table[k] = e /\ e # Unallocated
    BY <1>0, <1>1, <1>6 DEF Unallocated
  <2>2. Locate(new, s) = e + 1 + (s % VhdSectors) /\ Locate(new, s) # Unallocated
    BY <1>0, <1>1, <1>7, <2>1 DEF Locate, Unallocated, k
  <2>3. SectorRead(h, new, s) = g.sectors[e + 1 + ((s % VhdSectors) + 1)]
    <3>1. SectorRead(h, new, s) = h.sectors[Locate(new, s) + 1]
      BY <1>10, <2>2, Placed
    <3>2. Locate(new, s) + 1 = e + 1 + ((s % VhdSectors) + 1)
      BY <1>0, <1>1, <2>2
    <3> QED
      BY <1>4, <3>1, <3>2
  <2>4. (s % VhdSectors) + 1 \in 1 .. VhdSectors
    BY <1>0, <1>1
  <2> QED
    BY <2>3, <2>4 DEF e
<1>12. ASSUME NEW r \in Sectors, r # s
       PROVE  SectorRead(h, new, r) = SectorRead(f, img, r)
  <2> DEFINE j == r \div VhdSectors
  <2>1. j \in Entries /\ r % VhdSectors \in 0 .. VhdSectors - 1
    BY InTable
  <2>2. CASE j = k
    <3>1. r % VhdSectors # s % VhdSectors
      BY <1>12, <2>2, OtherPlace DEF k
    <3>2. h.table[j] = e /\ e # Unallocated
      BY <1>0, <1>1, <1>6, <2>2 DEF Unallocated
    <3>3. Locate(new, r) = e + 1 + (r % VhdSectors) /\ Locate(new, r) # Unallocated
      BY <1>0, <1>7, <2>1, <3>2 DEF Locate, Unallocated
    <3>4. SectorRead(h, new, r) = h.sectors[Locate(new, r) + 1]
      BY <1>10, <3>3, Placed
    <3>5. Locate(new, r) + 1 = e + 1 + ((r % VhdSectors) + 1)
      BY <1>0, <2>1, <3>3
    <3>6. (r % VhdSectors) + 1 \in 1 .. VhdSectors /\ (r % VhdSectors) + 1 # (s % VhdSectors) + 1
      BY <1>0, <1>1, <2>1, <3>1
    <3>7. SectorRead(h, new, r) = Zero
      BY <1>4, <3>4, <3>5, <3>6 DEF e
    <3>8. Locate(img, r) = Unallocated
      BY <1>3, <1>5, <2>2 DEF Locate
    <3> QED
      BY <3>7, <3>8, NotPlaced
  <2>3. CASE j # k
    <3>1. new.table[j] = img.table[j]
      BY <1>3, <1>6, <1>7, <2>1, <2>3
    <3>2. Locate(new, r) = Locate(img, r)
      BY <3>1 DEF Locate
    <3>3. SectorRead(h, new, r) = SectorRead(g, img, r)
      BY <1>4, <3>2 DEF SectorRead
    <3> QED
      BY <3>3
  <2> QED
    BY <2>2, <2>3
<1> QED
  BY <1>10, <1>11, <1>12 DEF new

\* The writes of a sector, whole.
LEMMA SectorWritten ==
    ASSUME NEW f, NEW img, ImageOK(f, img), NEW s \in Sectors, NEW v \in SectorData
    PROVE  LET ws == WriteSector(img, s, v)
               g == SomeWritten(f, ws, Len(ws))
               new == Allocated(img, s)
           IN  /\ ImageOK(g, new)
               /\ SectorRead(g, new, s) = v
               /\ \A r \in Sectors : r # s => SectorRead(g, new, r) = SectorRead(f, img, r)
<1> DEFINE ws == WriteSector(img, s, v)
           g == SomeWritten(f, ws, Len(ws))
           new == Allocated(img, s)
<1>0. f \in FileTypes /\ img.end \in Nat /\ v \in Int /\ VhdSectors \in Nat \ {0}
      /\ Len(f.sectors) \in Nat
  BY DiskImageAssumption DEF ImageOK, SectorData, Torn, FileTypes
<1>1. CASE Locate(img, s) # Unallocated
  <2> DEFINE at == Locate(img, s)
  <2>1. ws = <<DataAt(at, <<v>>)>> /\ new = img
    BY <1>1 DEF WriteSector, Allocated
  <2>2. g = Written(f, DataAt(at, <<v>>))
    <3>1. Len(ws) = 1 /\ ws[1] = DataAt(at, <<v>>)
      BY <2>1
    <3> HIDE DEF ws
    <3> QED
      BY <3>1 DEF SomeWritten
  <2>3. at \in Nat /\ at + 1 \in 1 .. Len(f.sectors)
    BY <1>1, Placed
  <2>4. <<v>> \in Seq(Int) /\ Len(<<v>>) = 1 /\ <<v>>[1] = v
    BY <1>0
  <2> HIDE DEF at, ws, g
  <2>5. /\ g \in FileTypes /\ g.table = f.table
        /\ Len(f.sectors) <= Len(g.sectors)
        /\ \A i \in at + 1 .. at + 1 : g.sectors[i] = <<v>>[i - at]
        /\ \A i \in 1 .. Len(f.sectors) : i \notin at + 1 .. at + 1 => g.sectors[i] = f.sectors[i]
    <3> DEFINE data == <<v>>
    <3> HIDE DEF data
    <3>1. data \in Seq(Int) /\ Len(data) = 1
      BY <2>4 DEF data
    <3>2. g = Written(f, DataAt(at, data))
      BY <2>2 DEF data
    <3>3. /\ g \in FileTypes /\ g.table = f.table
          /\ Len(f.sectors) <= Len(g.sectors)
          /\ \A i \in at + 1 .. at + Len(data) : g.sectors[i] = data[i - at]
          /\ \A i \in 1 .. Len(f.sectors) :
                i \notin at + 1 .. at + Len(data) => g.sectors[i] = f.sectors[i]
      BY <1>0, <2>3, <3>1, <3>2, WrittenIs
    <3> QED
      BY <3>1, <3>3 DEF data
  <2>6. g.sectors[at + 1] = v
    <3>1. at + 1 \in at + 1 .. at + 1 /\ (at + 1) - at = 1
      BY <2>3
    <3> QED
      BY <2>4, <2>5, <3>1
  <2>7. \A i \in 1 .. Len(f.sectors) : i # at + 1 => g.sectors[i] = f.sectors[i]
    BY <2>3, <2>5
  <2>8. /\ ImageOK(g, img)
        /\ SectorRead(g, img, s) = g.sectors[at + 1]
        /\ \A r \in Sectors : r # s => SectorRead(g, img, r) = SectorRead(f, img, r)
    BY <1>1, <2>5, <2>6, <2>7, PutInPlace DEF at
  <2> QED
    BY <2>1, <2>6, <2>8 DEF g, ws
<1>2. CASE Locate(img, s) = Unallocated
  <2> DEFINE e == img.end
             k == s \div VhdSectors
             w1 == DataAt(e, NewBlock(s, v))
             w2 == DataAt(e + 1 + VhdSectors, <<Footer>>)
             w3 == EntryAt(k, e)
             f1 == Written(f, w1)
             f2 == Written(f1, w2)
  <2>1. ws = <<w1, w2, w3>>
    BY <1>2 DEF WriteSector, NewBlock
  <2>2. g = Written(f2, w3)
    <3>1. Len(ws) = 3 /\ ws[1] = w1 /\ ws[2] = w2 /\ ws[3] = w3
      BY <2>1
    <3> HIDE DEF ws, w1, w2, w3
    <3> QED
      BY <3>1 DEF SomeWritten
  <2>3. g = [f2 EXCEPT !.table[k] = e]
    <3>1. w3.k = "entry" /\ w3.at = k /\ w3.data = <<e>> /\ Len(w3.data) = 1 /\ w3.data[1] = e
      BY DEF EntryAt
    <3> HIDE DEF w3, f2, e, k
    <3> QED
      BY <2>2, <3>1 DEF Written, Landed
  <2>4. /\ f2 \in FileTypes /\ f2.table = f.table /\ Len(f.sectors) <= Len(f2.sectors)
        /\ e + 1 + VhdSectors <= Len(f2.sectors)
        /\ \A i \in 1 .. VhdSectors : f2.sectors[e + 1 + i] = IF i = (s % VhdSectors) + 1 THEN v ELSE Zero
        /\ \A i \in 1 .. Len(f.sectors) : i <= e => f2.sectors[i] = f.sectors[i]
    <3> DEFINE data == NewBlock(s, v)
               tail == <<Footer>>
    <3>1. /\ data \in Seq(Int) /\ Len(data) = 1 + VhdSectors
          /\ \A i \in 1 .. VhdSectors : data[i + 1] = IF i = (s % VhdSectors) + 1 THEN v ELSE Zero
      BY NewBlockIs
    <3>2. tail \in Seq(Int) /\ Len(tail) = 1
      BY DEF Footer
    <3>3. w1 = DataAt(e, data) /\ w2 = DataAt(e + 1 + VhdSectors, tail)
      OBVIOUS
    <3> HIDE DEF data, tail, w1, w2, e, f1, f2
    <3>4. e \in Nat /\ e + 1 + VhdSectors \in Nat
      BY <1>0 DEF e
    <3>5. /\ f1 \in FileTypes /\ f1.table = f.table
          /\ Len(f.sectors) <= Len(f1.sectors)
          /\ e + Len(data) <= Len(f1.sectors)
          /\ \A i \in e + 1 .. e + Len(data) : f1.sectors[i] = data[i - e]
          /\ \A i \in 1 .. Len(f.sectors) :
                i \notin e + 1 .. e + Len(data) => f1.sectors[i] = f.sectors[i]
      BY <1>0, <3>1, <3>3, <3>4, WrittenIs DEF f1
    <3> DEFINE b == e + 1 + VhdSectors
    <3> HIDE DEF b
    <3>6. /\ f2 \in FileTypes /\ f2.table = f1.table
          /\ Len(f1.sectors) <= Len(f2.sectors)
          /\ b + Len(tail) <= Len(f2.sectors)
          /\ \A i \in 1 .. Len(f1.sectors) :
                i \notin b + 1 .. b + Len(tail) => f2.sectors[i] = f1.sectors[i]
      BY <3>2, <3>3, <3>4, <3>5, WrittenIs DEF f2, b
    <3>7. Len(f1.sectors) \in Nat /\ Len(f2.sectors) \in Nat
      BY <3>5, <3>6 DEF FileTypes
    <3>8. ASSUME NEW i \in 1 .. VhdSectors
          PROVE  f2.sectors[e + 1 + i] = IF i = (s % VhdSectors) + 1 THEN v ELSE Zero
      <4>1. e + 1 + i \in e + 1 .. e + Len(data) /\ (e + 1 + i) - e = i + 1
        BY <1>0, <3>1, <3>4
      <4>2. f1.sectors[e + 1 + i] = data[i + 1]
        BY <3>5, <4>1
      <4>3. e + 1 + i \in 1 .. Len(f1.sectors) /\ e + 1 + i \notin b + 1 .. b + Len(tail)
        <5>1. VhdSectors \in Nat /\ e \in Nat /\ i \in 1 .. VhdSectors /\ Len(f1.sectors) \in Nat
              /\ e + (1 + VhdSectors) <= Len(f1.sectors) /\ b = e + 1 + VhdSectors /\ Len(tail) = 1
          BY <1>0, <3>1, <3>2, <3>4, <3>5, <3>7 DEF b
        <5> QED
          BY <5>1
      <4> QED
        BY <3>1, <3>6, <4>2, <4>3
    <3>9. ASSUME NEW i \in 1 .. Len(f.sectors), i <= e PROVE f2.sectors[i] = f.sectors[i]
      <4>1. i \notin e + 1 .. e + Len(data) /\ i \in 1 .. Len(f1.sectors) /\ i \notin b + 1 .. b + Len(tail)
        BY <1>0, <3>1, <3>2, <3>4, <3>5, <3>7, <3>9 DEF b
      <4> QED
        BY <3>5, <3>6, <4>1
    <3>10. /\ e + 1 + VhdSectors <= Len(f2.sectors) /\ Len(f.sectors) <= Len(f2.sectors)
      <4>1. /\ VhdSectors \in Nat /\ e \in Nat /\ e + (1 + VhdSectors) <= Len(f1.sectors)
            /\ Len(f.sectors) <= Len(f1.sectors) /\ Len(f1.sectors) <= Len(f2.sectors)
        BY <1>0, <3>1, <3>4, <3>5, <3>6
      <4> QED
        BY <1>0, <3>7, <4>1
    <3>11. f2 \in FileTypes /\ f2.table = f.table
      BY <3>5, <3>6
    <3> QED
      BY <3>8, <3>9, <3>10, <3>11
  <2> HIDE DEF f1, f2, w1, w2, w3, ws, g
  <2>5. /\ ImageOK(f2, img)
        /\ \A r \in Sectors : SectorRead(f2, img, r) = SectorRead(f, img, r)
    BY <2>4, PutBeyond
  <2> HIDE DEF new
  <2>6. /\ ImageOK(g, new) /\ SectorRead(g, new, s) = v
        /\ \A r \in Sectors : r # s => SectorRead(g, new, r) = SectorRead(f, img, r)
    BY <1>2, <2>3, <2>4, <2>5, BlockGrown DEF new
  <2> QED
    BY <2>6 DEF new, g, ws
<1> QED
  BY <1>1, <1>2

\* The file g has what f has of the first e sectors, and may be longer.
Extends(f, g, e) ==
    /\ g \in FileTypes /\ g.table = f.table /\ Len(f.sectors) <= Len(g.sectors)
    /\ \A i \in 1 .. Len(f.sectors) : i <= e => g.sectors[i] = f.sectors[i]

\* A write past the end, whole or in part, extends the file.
LEMMA LandsBeyond ==
    ASSUME NEW f \in FileTypes, NEW e \in Nat, NEW at \in Nat, e <= at, NEW data \in Seq(Int),
           NEW n \in Nat, n <= Len(data), NEW half \in BOOLEAN
    PROVE  Extends(f, Landed(f, DataAt(at, data), n, half), e)
<1> DEFINE g == Landed(f, DataAt(at, data), n, half)
<1>1. /\ g \in FileTypes /\ g.table = f.table
      /\ Len(f.sectors) <= Len(g.sectors)
      /\ \A i \in 1 .. Len(g.sectors) :
            i \notin at + 1 .. at + n /\ ~(i = at + n + 1) /\ i <= Len(f.sectors) =>
                g.sectors[i] = f.sectors[i]
  <2>1. LandedAs(f, g, at, data, n, half)
    BY LandedIs
  <2> HIDE DEF g
  <2> QED
    BY <2>1 DEF LandedAs
<1>2. Len(f.sectors) \in Nat /\ Len(g.sectors) \in Nat
  BY <1>1 DEF FileTypes
<1> HIDE DEF g
<1>3. ASSUME NEW i \in 1 .. Len(f.sectors), i <= e PROVE g.sectors[i] = f.sectors[i]
  <2>1. i \in 1 .. Len(g.sectors) /\ i \notin at + 1 .. at + n /\ i # at + n + 1 /\ i <= Len(f.sectors)
    BY <1>1, <1>2, <1>3
  <2> QED
    BY <1>1, <2>1
<1> QED
  BY <1>1, <1>3 DEF Extends, g

\* The same, of a write that goes out whole.
LEMMA WrittenBeyond ==
    ASSUME NEW f \in FileTypes, NEW e \in Nat, NEW at \in Nat, e <= at, NEW data \in Seq(Int)
    PROVE  Extends(f, Written(f, DataAt(at, data)), e)
<1> DEFINE g == Written(f, DataAt(at, data))
           n == Len(data)
<1>1. /\ g \in FileTypes /\ g.table = f.table /\ Len(f.sectors) <= Len(g.sectors)
      /\ \A i \in 1 .. Len(f.sectors) : i \notin at + 1 .. at + n => g.sectors[i] = f.sectors[i]
  BY WrittenIs
<1>2. \A i \in 1 .. Len(f.sectors) : i <= e => i \notin at + 1 .. at + n
  OBVIOUS
<1> HIDE DEF g, n
<1> QED
  BY <1>1, <1>2 DEF Extends, g

\* A file extended twice.
LEMMA ExtendsOn ==
    ASSUME NEW e, NEW f \in FileTypes, NEW g, Extends(f, g, e), NEW h, Extends(g, h, e)
    PROVE  Extends(f, h, e)
<1>1. Len(f.sectors) \in Nat /\ Len(g.sectors) \in Nat /\ Len(h.sectors) \in Nat
  BY DEF Extends, FileTypes
<1>2. /\ h \in FileTypes /\ h.table = f.table
      /\ Len(f.sectors) <= Len(g.sectors) /\ Len(g.sectors) <= Len(h.sectors)
  BY DEF Extends
<1>3. ASSUME NEW i \in 1 .. Len(f.sectors), i <= e PROVE h.sectors[i] = f.sectors[i]
  <2>1. i \in 1 .. Len(g.sectors)
    BY <1>1, <1>2
  <2> QED
    BY <1>3, <2>1 DEF Extends
<1> QED
  BY <1>1, <1>2, <1>3 DEF Extends

\* The writes of a sector cut anywhere: the image stands, the sector reads the
\* old, the new or half of each, and no other sector is touched.
LEMMA SectorCut ==
    ASSUME NEW f, NEW img, ImageOK(f, img), NEW s \in Sectors, NEW v \in SectorData,
           NEW n \in Nat, n < Len(WriteSector(img, s, v)), NEW torn \in Nat, NEW half \in BOOLEAN
    PROVE  LET g == CutAt(f, WriteSector(img, s, v), n, torn, half)
           IN  /\ ImageOK(g, img)
               /\ SectorRead(g, img, s) \in {SectorRead(f, img, s), Torn}
               /\ \A r \in Sectors : r # s => SectorRead(g, img, r) = SectorRead(f, img, r)
<1> DEFINE ws == WriteSector(img, s, v)
           g == CutAt(f, ws, n, torn, half)
<1>0. f \in FileTypes /\ img.end \in Nat /\ v \in Int /\ VhdSectors \in Nat \ {0}
      /\ Len(f.sectors) \in Nat
  BY DiskImageAssumption DEF ImageOK, SectorData, Torn, FileTypes
<1>1. CASE Locate(img, s) # Unallocated
  <2> DEFINE at == Locate(img, s)
             data == <<v>>
             w == DataAt(at, data)
  <2>1. ws = <<w>>
    BY <1>1 DEF WriteSector
  <2>2. data \in Seq(Int) /\ Len(data) = 1 /\ w.data = data
    BY <1>0 DEF DataAt
  <2>3. n = 0
    BY <2>1
  <2>4. g = Landed(f, w, 0, half)
    <3>1. ws[1] = w /\ n + 1 = 1
      BY <2>1, <2>3
    <3> HIDE DEF ws, w
    <3>2. SomeWritten(f, ws, n) = f
      BY <2>3 DEF SomeWritten
    <3>3. g = Landed(f, w, IF torn < Len(w.data) THEN torn ELSE 0, half)
      BY <3>1, <3>2 DEF CutAt
    <3>4. (IF torn < Len(w.data) THEN torn ELSE 0) = 0
      BY <2>2
    <3> QED
      BY <3>3, <3>4
  <2>5. at \in Nat /\ at + 1 \in 1 .. Len(f.sectors) /\ f.sectors[at + 1] \in SectorData
        /\ SectorRead(f, img, s) = f.sectors[at + 1]
    BY <1>1, Placed
  <2> HIDE DEF at, data, ws, g
  <2>6. /\ g \in FileTypes /\ g.table = f.table
        /\ Len(f.sectors) <= Len(g.sectors)
        /\ \A i \in 1 .. Len(g.sectors) :
             /\ i = at + 1 /\ half => g.sectors[i] = Torn
             /\ ~(i = at + 1 /\ half) /\ i <= Len(f.sectors) => g.sectors[i] = f.sectors[i]
    <3> DEFINE m == 0
    <3>1. m \in Nat /\ m <= Len(data)
      BY <2>2
    <3> HIDE DEF w
    <3>2. g = Landed(f, DataAt(at, data), m, half)
      BY <2>4 DEF w
    <3> HIDE DEF m
    <3>3. /\ g \in FileTypes /\ g.table = f.table
          /\ Len(f.sectors) <= Len(g.sectors)
          /\ \A i \in 1 .. Len(g.sectors) :
               /\ i = at + m + 1 /\ half /\ m < Len(data) => g.sectors[i] = Torn
               /\ i \notin at + 1 .. at + m /\ ~(i = at + m + 1 /\ half /\ m < Len(data))
                    /\ i <= Len(f.sectors) => g.sectors[i] = f.sectors[i]
      <4>1. LandedAs(f, g, at, data, m, half)
        BY <1>0, <2>2, <2>5, <3>1, <3>2, LandedIs
      <4> QED
        BY <4>1 DEF LandedAs
    <3>4. m = 0 /\ m < Len(data)
      BY <2>2 DEF m
    <3>5. ASSUME NEW i \in 1 .. Len(g.sectors)
          PROVE  /\ i = at + 1 /\ half => g.sectors[i] = Torn
                 /\ ~(i = at + 1 /\ half) /\ i <= Len(f.sectors) => g.sectors[i] = f.sectors[i]
      <4>1. /\ i = at + 1 => i = at + m + 1
            /\ i = at + m + 1 => i = at + 1
            /\ i \notin at + 1 .. at + m
        BY <2>5, <3>4
      <4> QED
        BY <3>3, <3>4, <4>1
    <3> QED
      BY <3>3, <3>4, <3>5
  <2>7. Len(g.sectors) \in Nat
    BY <2>6 DEF FileTypes
  <2>8. ASSUME NEW i \in 1 .. Len(f.sectors)
        PROVE  g.sectors[i] = IF i = at + 1 /\ half THEN Torn ELSE f.sectors[i]
    <3>1. i \in 1 .. Len(g.sectors) /\ i <= Len(f.sectors)
      BY <1>0, <2>6, <2>7
    <3> QED
      BY <2>6, <3>1
  <2>9. g.sectors[at + 1] \in {f.sectors[at + 1], Torn}
    BY <2>5, <2>8
  <2>10. /\ ImageOK(g, img)
         /\ SectorRead(g, img, s) = g.sectors[at + 1]
         /\ \A r \in Sectors : r # s => SectorRead(g, img, r) = SectorRead(f, img, r)
    <3>1. g.sectors[at + 1] \in SectorData
      BY <2>5, <2>9 DEF SectorData
    <3>2. \A i \in 1 .. Len(f.sectors) : i # at + 1 => g.sectors[i] = f.sectors[i]
      BY <2>8
    <3> QED
      BY <1>1, <2>6, <3>1, <3>2, PutInPlace DEF at
  <2> QED
    BY <2>5, <2>9, <2>10 DEF g, ws
<1>2. CASE Locate(img, s) = Unallocated
  <2> DEFINE e == img.end
             k == s \div VhdSectors
             d1 == NewBlock(s, v)
             d2 == <<Footer>>
             w1 == DataAt(e, d1)
             b == e + 1 + VhdSectors
             w2 == DataAt(b, d2)
             w3 == EntryAt(k, e)
             f1 == Written(f, w1)
             f2 == Written(f1, w2)
  <2>1. ws = <<w1, w2, w3>>
    BY <1>2 DEF WriteSector, NewBlock
  <2>2. Len(ws) = 3 /\ ws[1] = w1 /\ ws[2] = w2 /\ ws[3] = w3 /\ n \in {0, 1, 2}
    BY <2>1
  <2>3. d1 \in Seq(Int) /\ d2 \in Seq(Int) /\ w1.data = d1 /\ w2.data = d2
        /\ e \in Nat /\ b \in Nat /\ e <= b /\ e <= e
    BY <1>0, NewBlockIs DEF Footer, DataAt
  <2>4. Len(d1) \in Nat /\ Len(d2) \in Nat
    BY <2>3
  <2>5. w3.k = "entry" /\ w3.at = k /\ w3.data = <<e>> /\ Len(w3.data) = 1
    BY DEF EntryAt
  <2> HIDE DEF ws, d1, d2, b, e, k
  <2>6. Extends(f, f1, e)
    BY <1>0, <2>3, WrittenBeyond
  <2>7. f1 \in FileTypes
    BY <2>6 DEF Extends
  <2>8. Extends(f1, f2, e)
    <3> HIDE DEF f1
    <3> QED
      BY <2>3, <2>7, WrittenBeyond
  <2>9. Extends(f, f2, e)
    <3> HIDE DEF f1, f2
    <3> QED
      BY <1>0, <2>6, <2>8, ExtendsOn
  <2>10. Extends(f, g, e)
    <3>1. CASE n = 0
      <4> DEFINE m == IF torn < Len(d1) THEN torn ELSE 0
      <4>1. m \in Nat /\ m <= Len(d1)
        BY <2>4
      <4>2. SomeWritten(f, ws, n) = f /\ ws[n + 1] = w1
        BY <2>2, <3>1 DEF SomeWritten
      <4> HIDE DEF w1
      <4>3. g = Landed(f, w1, m, half)
        BY <2>3, <4>2 DEF CutAt
      <4> HIDE DEF m
      <4> QED
        BY <1>0, <2>3, <4>1, <4>3, LandsBeyond DEF w1
    <3>2. CASE n = 1
      <4> DEFINE m == IF torn < Len(d2) THEN torn ELSE 0
      <4>1. m \in Nat /\ m <= Len(d2)
        BY <2>4
      <4>2. SomeWritten(f, ws, n) = f1 /\ ws[n + 1] = w2
        BY <2>2, <3>2 DEF SomeWritten
      <4> HIDE DEF w2, f1
      <4>3. g = Landed(f1, w2, m, half)
        BY <2>3, <4>2 DEF CutAt
      <4> HIDE DEF m
      <4>4. Extends(f1, g, e)
        BY <2>3, <2>7, <4>1, <4>3, LandsBeyond DEF w2
      <4> HIDE DEF g
      <4> QED
        BY <1>0, <2>6, <4>4, ExtendsOn
    <3>3. CASE n = 2
      <4> DEFINE m == IF torn < Len(w3.data) THEN torn ELSE 0
      <4>1. m = 0
        BY <2>5
      <4>2. SomeWritten(f, ws, n) = f2 /\ ws[n + 1] = w3
        BY <2>2, <3>3 DEF SomeWritten
      <4> HIDE DEF w3, f2
      <4>3. g = Landed(f2, w3, 0, half)
        BY <4>1, <4>2 DEF CutAt
      <4>4. g = [f2 EXCEPT !.table = [f2.table EXCEPT ![k] = f2.table[k]]]
        BY <2>5, <4>3 DEF Landed
      <4>5. f2 \in FileTypes
        BY <2>9 DEF Extends
      <4>6. [f2.table EXCEPT ![k] = f2.table[k]] = f2.table
        BY <4>5 DEF FileTypes
      <4>7. g = f2
        BY <4>4, <4>5, <4>6 DEF FileTypes
      <4> HIDE DEF g
      <4> QED
        BY <2>9, <4>7
    <3> QED
      BY <2>2, <3>1, <3>2, <3>3
  <2> HIDE DEF g
  <2>11. /\ ImageOK(g, img)
         /\ \A r \in Sectors : SectorRead(g, img, r) = SectorRead(f, img, r)
    BY <2>10, PutBeyond DEF Extends, e
  <2> QED
    BY <2>11 DEF g, ws
<1> QED
  BY <1>1, <1>2

\* A file opened: wherever it was cut, the end is past every block.
LEMMA OpenStands ==
    ASSUME NEW f, NEW img, ImageOK(f, img)
    PROVE  ImageOK(f, DynamicOpen(f))
<1> DEFINE n == Len(f.sectors)
           new == DynamicOpen(f)
<1>0. f \in FileTypes /\ n \in Nat /\ VhdSectors \in Nat \ {0}
  BY DiskImageAssumption DEF ImageOK, FileTypes
<1>1. /\ new.table = f.table
      /\ new.end = IF f.half THEN n + 1 ELSE IF n > 0 /\ f.sectors[n] = Footer THEN n - 1 ELSE n
      /\ new \in [table : [Entries -> Int], end : Nat]
  BY <1>0 DEF DynamicOpen, FileTypes
<1>2. ASSUME NEW j \in Entries, f.table[j] # Unallocated
      PROVE  BlockStands(f, new.end, f.table[j])
  <2> DEFINE a == f.table[j]
  <2>1. BlockStands(f, img.end, a)
    BY <1>2 DEF ImageOK
  <2>2. a \in Nat /\ a + 1 + VhdSectors <= n
    BY <2>1 DEF BlockStands
  <2>3. a + 1 + VhdSectors \in DataOf(a)
    BY <1>0, <2>2 DEF DataOf
  <2>4. f.sectors[a + 1 + VhdSectors] # Footer
    BY <2>1, <2>3 DEF BlockStands, SectorData, Torn, Footer
  <2> HIDE DEF a, new, n
  <2>5. a + 1 + VhdSectors <= new.end
    BY <1>0, <1>1, <2>2, <2>4
  <2> QED
    BY <2>1, <2>5 DEF BlockStands, a
<1> QED
  BY <1>1, <1>2 DEF ImageOK

\* A file opened again reads as it did: the table is the file's.
LEMMA OpenReads ==
    ASSUME NEW f, NEW img, ImageOK(f, img), NEW new, ImageOK(f, new), NEW s
    PROVE  SectorRead(f, new, s) = SectorRead(f, img, s)
BY DEF ImageOK, SectorRead, Locate

\* An empty file stands.
LEMMA NewStands == ImageOK(NewFile, DynamicOpen(NewFile))
<1>1. VhdSectors \in Nat
  BY DiskImageAssumption
<1>2. <<Footer>> \in Seq(Int) /\ Len(<<Footer>>) = 1 /\ <<Footer>>[1] = Footer
  BY DEF Footer
<1>3. NewFile \in FileTypes /\ \A j \in Entries : NewFile.table[j] = Unallocated
  BY <1>2 DEF NewFile, FileTypes, Unallocated, Entries
<1>4. /\ DynamicOpen(NewFile).table = NewFile.table /\ DynamicOpen(NewFile).end = 0
      /\ DynamicOpen(NewFile) \in [table : [Entries -> Int], end : Nat]
  <2>1. NewFile.half = FALSE /\ NewFile.sectors = <<Footer>>
    BY DEF NewFile
  <2> HIDE DEF NewFile
  <2> QED
    BY <1>2, <1>3, <2>1 DEF DynamicOpen, FileTypes
<1> QED
  BY <1>3, <1>4 DEF ImageOK

-----------------------------------------------------------------------------
(* The block-disk's inductive invariant.  ReadsBack alone is not: what the    *)
(* file may hold, the block half written inside START, what a checkpoint kept *)
(* and what is left of a page's writes all decide what is read later.         *)

BlockNos == 0 .. Blocks - 1
Pairs == SectorData \X SectorData
PairsKept == Pairs \cup {NotKept}
Cells == [f : SectorData, t : SectorData]
MainTypes == [0 .. 2 * MemoryPages - 1 -> Cells]
ReadSets == [BlockNos -> SUBSET Pairs]
KeptTypes == [BlockNos -> PairsKept]

BdTypes ==
    [cmd : {"read", "write", "bad"}, wide : BOOLEAN, packed : BOOLEAN, interrupt : BOOLEAN,
     clp : Nat, da : Nat, last : Nat, doneAt : Nat, now : Nat,
     pastEnd : BOOLEAN, nxm : BOOLEAN, bad : BOOLEAN]

Writes ==
    [block : Nat, data : Pairs, sector : {0, 1}, page : 0 .. MemoryPages - 1, more : BOOLEAN]

\* The blocks of a page still to be written, the one in hand first.
TodoOK(d, w, writable) ==
    \/ w.todo = <<>>
    \/ /\ d.cmd = "write"
       /\ \/ w.todo = <<Head(w.todo)>> /\ Head(w.todo).block = w.block + PerPage(d) - 1
          \/ /\ PerPage(d) = 2
             /\ w.todo = <<Head(w.todo), w.todo[2]>>
             /\ Head(w.todo).block = w.block
             /\ w.todo[2] \in Writes /\ w.todo[2].sector = 0 /\ w.todo[2].block = w.block + 1
       /\ Head(w.todo) \in Writes /\ Head(w.todo).block < Blocks
       /\ Head(w.todo).sector = 1 => writable

WalkTypes(w) ==
    \/ w = NoWalk
    \/ w \in [k : {"walk"}, block : Nat, entry : Nat, moved : Nat, todo : Seq(Writes)]

\* A walk has moved the blocks from where it began, and nothing has failed yet.
WalkOK(d, w, b, writable) ==
    w.k = "walk" =>
        /\ TodoOK(d, w, writable)
        /\ b.k = "start" /\ b.da <= w.block /\ w.moved = w.block - b.da
        /\ ~BlockError(d) /\ d.cmd # "bad"

\* The block one of whose two sectors is written.
HalfWritten(w) ==
    IF w.k = "walk" /\ w.todo # <<>> /\ Head(w.todo).sector = 1 THEN {Head(w.todo).block} ELSE {}

HalfOf(w, n, set) ==
    IF n \in HalfWritten(w) THEN {<<Head(w.todo).data[1], o[2]>> : o \in set} ELSE set

ReadsOK(f, d, w, tr, on) ==
    \A n \in BlockNos :
        /\ FileBlock(f, d, n) \in HalfOf(w, n, on[n])
        /\ d.written[n] # NotKept => d.written[n] \in tr[n]
        /\ d.written[n] = NotKept => FileBlock(f, d, n) \in HalfOf(w, n, tr[n])

SavedOK(s) ==
    \/ s = BlockNone
    \/ /\ s = [k |-> "saved", bd |-> s.bd, main |-> s.main, disk |-> s.disk, truth |-> s.truth]
       /\ s.bd \in BdTypes /\ s.main \in MainTypes /\ s.disk \in KeptTypes /\ s.truth \in ReadSets
       /\ \A n \in BlockNos : s.disk[n] # NotKept => s.disk[n] \in s.truth[n]

BeforeTypes(b) ==
    \/ b = BlockNone \/ b = [k |-> "armed"]
    \/ /\ b = [k |-> "start", main |-> b.main, da |-> b.da, disk |-> b.disk]
       /\ b.main \in MainTypes /\ b.da \in Nat /\ b.disk \in [BlockNos -> Pairs]

\* A page of memory is as it was at START, or blocks of the disk's whole.
PageIs(d, m, b, p) ==
    \/ \A a \in {2 * p, 2 * p + 1} : m[a] = b.main[a]
    \/ \E n \in b.da .. Blocks - PerPage(d) :
          LET was == b.disk[n]
          IN  IF PerPage(d) = 1
              THEN \A i \in 0 .. 1 :
                     /\ m[2 * p + i].f = was[i + 1]
                     /\ m[2 * p + i].t = IF d.wide THEN UnboxedTag ELSE 0
              ELSE \A i \in 0 .. 1 :
                     m[2 * p + i] = Word(b.disk[n + i][1], b.disk[n + i][2])

PagesOK(d, m, b) ==
    b.k = "start" /\ d.cmd = "read" => \A p \in 0 .. MemoryPages - 1 : PageIs(d, m, b, p)

\* While a read is on the disk stays as it was at START.
ReadStill(d, w, b, f, k) ==
    w.k = "walk" /\ d.cmd = "read" => \A n \in BlockNos : ReadBlock(f, k, n) = b.disk[n]

BusyOf(d, w, b) ==
    b.k = "start" /\ w.k = "idle" /\ d.da >= b.da /\ ~NotActive(d) =>
        d.doneAt - d.now = (d.da - b.da + IF BlockError(d) THEN 0 ELSE 1) * BlockNs

DiskTypesOK(d) ==
    d \in [img : [table : [Entries -> Int], end : Nat], writable : BOOLEAN, written : KeptTypes]

BlockTypes ==
    /\ bd \in BdTypes /\ main \in MainTypes /\ DiskTypesOK(disk) /\ WalkTypes(walk)
    /\ BeforeTypes(before) /\ truth \in ReadSets /\ onFile \in ReadSets

BlockInv ==
    /\ BlockTypes
    /\ ImageOK(file, disk.img)
    /\ ReadsOK(file, disk, walk, truth, onFile)
    /\ SavedOK(saved)
    /\ WalkOK(bd, walk, before, disk.writable)
    /\ PagesOK(bd, main, before)
    /\ ReadStill(bd, walk, before, file, disk)
    /\ BusyOf(bd, walk, before)
    /\ before.k = "armed" => walk.k = "idle"

-----------------------------------------------------------------------------
(* A block of the disk, and how a walk ends.                                  *)

\* The two sectors of a block.
LEMMA TwoSectors ==
    ASSUME NEW n \in BlockNos
    PROVE  2 * n \in Sectors /\ 2 * n + 1 \in Sectors
BY DiskImageAssumption DEF BlockNos, Sectors

\* A block read from the file is two sectors of data.
LEMMA FileBlockData ==
    ASSUME NEW f, NEW d, ImageOK(f, d.img), NEW n \in BlockNos
    PROVE  FileBlock(f, d, n) \in Pairs
<1>1. 2 * n \in Sectors /\ 2 * n + 1 \in Sectors
  BY TwoSectors
<1>2. SectorRead(f, d.img, 2 * n) \in SectorData /\ SectorRead(f, d.img, 2 * n + 1) \in SectorData
  BY <1>1, ReadsData
<1> QED
  BY <1>2 DEF FileBlock, Pairs

\* A block's two sectors, which is never the mark of a block not kept.
LEMMA PairIs ==
    ASSUME NEW p \in Pairs
    PROVE  p # NotKept /\ p = <<p[1], p[2]>> /\ p[1] \in SectorData /\ p[2] \in SectorData
<1>1. PICK x \in SectorData, y \in SectorData : p = <<x, y>>
  BY DEF Pairs
<1>2. <<x, y>> # << >>
  <2>1. DOMAIN <<x, y>> = {1, 2} /\ DOMAIN << >> = {}
    OBVIOUS
  <2> QED
    BY <2>1
<1> QED
  BY <1>1, <1>2 DEF NotKept

\* A block reads as two sectors of data, kept or not.
LEMMA BlockData ==
    ASSUME NEW f, NEW d, DiskTypesOK(d), ImageOK(f, d.img), NEW n \in BlockNos
    PROVE  ReadBlock(f, d, n) \in Pairs
<1>1. d.written[n] \in PairsKept
  BY DEF DiskTypesOK, KeptTypes
<1> QED
  BY <1>1, FileBlockData DEF ReadBlock, PairsKept

\* With no block half written, what may be read is what is said.
LEMMA HalfIs ==
    ASSUME NEW w, NEW n, NEW set, HalfWritten(w) = {}
    PROVE  HalfOf(w, n, set) = set
BY DEF HalfOf

\* No block is half written outside a walk, between pages or before a first sector.
LEMMA NoHalf ==
    ASSUME NEW w, w.k # "walk" \/ w.todo = <<>> \/ Head(w.todo).sector = 0
    PROVE  HalfWritten(w) = {}
BY DEF HalfWritten

\* Between walks.
LEMMA IdleIs == NoWalk.k = "idle" /\ WalkTypes(NoWalk) /\ HalfWritten(NoWalk) = {}
BY DEF NoWalk, WalkTypes, HalfWritten

\* With no block half written, what is read depends on nothing of the walk.
LEMMA ReadsFrom ==
    ASSUME NEW f, NEW d, NEW w, NEW v, NEW tr, NEW on, HalfWritten(w) = {}, HalfWritten(v) = {},
           ReadsOK(f, d, w, tr, on)
    PROVE  ReadsOK(f, d, v, tr, on)
BY HalfIs DEF ReadsOK

\* The registers stay typed however they are set.
LEMMA BdMoves ==
    ASSUME NEW d \in BdTypes
    PROVE  /\ Cleared(d) \in BdTypes
           /\ \A b \in BOOLEAN : [d EXCEPT !.bad = b] \in BdTypes
           /\ \A n \in Nat : /\ [d EXCEPT !.last = n] \in BdTypes
                             /\ [d EXCEPT !.now = n] \in BdTypes
                             /\ [d EXCEPT !.doneAt = n] \in BdTypes
           /\ [d EXCEPT !.nxm = TRUE] \in BdTypes
           /\ [d EXCEPT !.pastEnd = TRUE] \in BdTypes
           /\ \A m, n \in Nat : [d EXCEPT !.da = m, !.doneAt = n] \in BdTypes
BY DEF BdTypes, Cleared

\* The registers as a run begins.
LEMMA BdNewIs == BdNew \in BdTypes
BY DEF BdTypes, BdNew

\* The end of a walk is busy for what it moved.
LEMMA EndKeeps ==
    ASSUME NEW d \in BdTypes, NEW block \in Nat, NEW moved \in Nat, NEW b, b.da \in Nat,
           b.da <= block, moved = block - b.da + (IF BlockError(d) THEN 0 ELSE 1),
           EndWalk(d, block, moved)
    PROVE  /\ bd' \in BdTypes /\ walk' = NoWalk
           /\ bd'.cmd = d.cmd /\ PerPage(bd') = PerPage(d) /\ bd'.wide = d.wide
           /\ BusyOf(bd', walk', b)
<1> DEFINE t == moved * BlockNs
<1>1. t \in Nat
  BY BlockDiskAssumption
<1>2. bd' = [d EXCEPT !.da = block, !.doneAt = d.now + t] /\ walk' = NoWalk
  BY DEF EndWalk
<1> HIDE DEF t
<1>3. d.now \in Nat /\ d.now + t \in Nat
  BY <1>1 DEF BdTypes
<1>4. bd' \in BdTypes
  BY <1>2, <1>3, BdMoves
<1>5. /\ bd'.cmd = d.cmd /\ bd'.wide = d.wide /\ bd'.packed = d.packed /\ bd'.da = block
      /\ bd'.doneAt = d.now + t /\ bd'.now = d.now /\ bd'.pastEnd = d.pastEnd
      /\ bd'.nxm = d.nxm /\ bd'.bad = d.bad
  BY <1>2 DEF BdTypes
<1>6. PerPage(bd') = PerPage(d) /\ (BlockError(bd') <=> BlockError(d))
  BY <1>5 DEF PerPage, BlockError
<1>7. bd'.doneAt - bd'.now = t
  BY <1>1, <1>3, <1>5
<1>8. (bd'.da - b.da + IF BlockError(bd') THEN 0 ELSE 1) = moved
  BY <1>5, <1>6
<1>9. BusyOf(bd', walk', b)
  BY <1>7, <1>8 DEF BusyOf, t
<1> QED
  BY <1>2, <1>4, <1>5, <1>6, <1>9

\* A walk that runs past the disk's end is busy for what it moved before it.
LEMMA PastEndKeeps ==
    ASSUME NEW d \in BdTypes, NEW at \in Nat, NEW b, b.da \in Nat, walk.k = "walk",
           WalkTypes(walk), b.da <= walk.block, walk.moved = walk.block - b.da,
           walk.block <= at, PastEnd(d, at)
    PROVE  /\ bd' \in BdTypes /\ walk' = NoWalk
           /\ bd'.cmd = d.cmd /\ PerPage(bd') = PerPage(d) /\ bd'.wide = d.wide
           /\ BusyOf(bd', walk', b)
<1> DEFINE e == [d EXCEPT !.pastEnd = TRUE]
           m == walk.moved + (at - walk.block)
<1>1. walk.block \in Nat /\ walk.moved \in Nat
  BY DEF WalkTypes, NoWalk
<1>2. e \in BdTypes
  BY BdMoves
<1>3. BlockError(e) /\ e.cmd = d.cmd /\ PerPage(e) = PerPage(d) /\ e.wide = d.wide
  BY DEF BlockError, BdTypes, PerPage
<1>4. m \in Nat /\ b.da <= at /\ m = at - b.da + (IF BlockError(e) THEN 0 ELSE 1)
  BY <1>1, <1>3
<1>5. EndWalk(e, at, m)
  BY DEF PastEnd
<1> HIDE DEF e, m
<1> QED
  BY <1>2, <1>3, <1>4, <1>5, EndKeeps

\* A page moved: on to the next entry, or the end.
LEMMA PageMovedKeeps ==
    ASSUME NEW d \in BdTypes, NEW page \in Nat, NEW more \in BOOLEAN, NEW b, NEW wr, b.da \in Nat,
           b.k = "start", walk.k = "walk", WalkTypes(walk), b.da <= walk.block,
           walk.moved = walk.block - b.da, ~BlockError(d), d.cmd # "bad",
           PageMoved(d, page, more)
    PROVE  /\ bd' \in BdTypes /\ WalkTypes(walk') /\ HalfWritten(walk') = {}
           /\ bd'.cmd = d.cmd /\ PerPage(bd') = PerPage(d) /\ bd'.wide = d.wide
           /\ BusyOf(bd', walk', b) /\ WalkOK(bd', walk', b, wr)
<1> DEFINE e == [d EXCEPT !.last = 2 * page + 1]
           last == walk.block + PerPage(d) - 1
           moved == walk.moved + PerPage(d)
           next == [walk EXCEPT !.block = last + 1, !.entry = @ + 1, !.moved = moved, !.todo = <<>>]
<1>1. walk.block \in Nat /\ walk.moved \in Nat /\ walk.entry \in Nat /\ PerPage(d) \in {1, 2}
      /\ walk \in [k : {"walk"}, block : Nat, entry : Nat, moved : Nat, todo : Seq(Writes)]
  BY DEF WalkTypes, NoWalk, PerPage
<1>2. e \in BdTypes
  <2> DEFINE l == 2 * page + 1
  <2>1. l \in Nat
    OBVIOUS
  <2> HIDE DEF l
  <2>2. [d EXCEPT !.last = l] \in BdTypes
    BY <2>1, BdMoves
  <2> QED
    BY <2>2 DEF l
<1>3. ~BlockError(e) /\ e.cmd = d.cmd /\ PerPage(e) = PerPage(d) /\ e.wide = d.wide
  BY DEF BlockError, BdTypes, PerPage
<1>4. /\ last \in Nat /\ moved \in Nat /\ b.da <= last
      /\ b.da <= last + 1 /\ moved = last + 1 - b.da
  <2> HIDE DEF e, next
  <2> QED
    BY <1>1
<1>41. moved = last - b.da + (IF BlockError(e) THEN 0 ELSE 1)
  <2> HIDE DEF e, next, last, moved
  <2> QED
    BY <1>3, <1>4
<1>5. CASE ~more
  <2>1. EndWalk(e, last, moved)
    BY <1>5 DEF PageMoved
  <2> HIDE DEF e, last, moved
  <2>2. /\ bd' \in BdTypes /\ walk' = NoWalk
        /\ bd'.cmd = e.cmd /\ PerPage(bd') = PerPage(e) /\ bd'.wide = e.wide
        /\ BusyOf(bd', walk', b)
    BY <1>2, <1>4, <1>41, <2>1, EndKeeps
  <2>3. WalkOK(bd', walk', b, wr)
    BY <2>2, IdleIs DEF WalkOK
  <2> QED
    BY <1>3, <2>2, <2>3, IdleIs
<1>6. CASE more
  <2>1. bd' = e /\ walk' = next
    BY <1>6 DEF PageMoved
  <2>2. last + 1 \in Nat /\ walk.entry + 1 \in Nat /\ <<>> \in Seq(Writes)
    BY <1>1, <1>4
  <2>3. next \in [k : {"walk"}, block : Nat, entry : Nat, moved : Nat, todo : Seq(Writes)]
        /\ next.block = last + 1 /\ next.moved = moved /\ next.todo = <<>>
    <3> DEFINE n == walk.entry + 1
               l == last + 1
    <3>1. next = [walk EXCEPT !.block = l, !.entry = n, !.moved = moved, !.todo = <<>>]
          /\ l \in Nat /\ n \in Nat
      BY <2>2
    <3> HIDE DEF l, n, next, moved, last
    <3> QED
      BY <1>1, <1>4, <2>2, <3>1 DEF l
  <2> HIDE DEF e, last, moved, next
  <2>4. WalkTypes(walk') /\ walk'.k = "walk" /\ walk'.todo = <<>> /\ walk'.block = last + 1 /\ walk'.moved = moved
    BY <2>1, <2>3 DEF WalkTypes
  <2>5. HalfWritten(walk') = {}
    BY <2>4, NoHalf
  <2>6. WalkOK(bd', walk', b, wr)
    BY <1>3, <1>4, <2>1, <2>4 DEF WalkOK, TodoOK
  <2>7. BusyOf(bd', walk', b)
    BY <2>4 DEF BusyOf
  <2> QED
    BY <1>2, <1>3, <2>1, <2>4, <2>5, <2>6, <2>7
<1> QED
  BY <1>5, <1>6

-----------------------------------------------------------------------------
(* Each action, from here on.  First what holds at the start and what the     *)
(* invariant says.                                                            *)

\* The invariant as the machine starts, on a new file.
LEMMA BlockInitInv == BlockDiskInit => BlockInv
<1> SUFFICES ASSUME BlockDiskInit PROVE BlockInv
  OBVIOUS
<1>0. /\ {MemoryPages, ClpCount, VhdSectors, Blocks} \subseteq Nat \ {0} /\ 0 \in SectorData
      /\ Zero \in SectorData
  BY BlockDiskAssumption, DiskImageAssumption DEF SectorData, Zero
<1>1. bd \in BdTypes /\ bd.now = 0 /\ bd.doneAt = 0
  BY BdNewIs DEF BlockDiskInit, BdNew
<1>2. main \in MainTypes
  BY <1>0 DEF BlockDiskInit, MainTypes, Cells, Word
<1>3. ImageOK(file, disk.img) /\ file = NewFile
  BY NewStands DEF BlockDiskInit, DiskOpen
<1>4. disk.img \in [table : [Entries -> Int], end : Nat] /\ disk.img.table = NewFile.table
  BY <1>3 DEF ImageOK, NewFile
<1>5. DiskTypesOK(disk) /\ \A n \in BlockNos : disk.written[n] = NotKept
  BY <1>4 DEF BlockDiskInit, DiskOpen, DiskTypesOK, KeptTypes, PairsKept, BlockNos
<1>6. truth \in ReadSets /\ onFile = truth /\ \A n \in BlockNos : truth[n] = {<<Zero, Zero>>}
  BY <1>0 DEF BlockDiskInit, ReadSets, BlockNos, Pairs
<1>7. ASSUME NEW n \in BlockNos PROVE FileBlock(file, disk, n) = <<Zero, Zero>>
  <2>1. ASSUME NEW s \in Sectors PROVE SectorRead(file, disk.img, s) = Zero
    <3>1. s \div VhdSectors \in Entries
      BY InTable
    <3>2. disk.img.table[s \div VhdSectors] = Unallocated
      BY <1>4, <3>1 DEF NewFile, Entries
    <3> QED
      BY <3>2, NotPlaced DEF Locate
  <2> QED
    BY <2>1, TwoSectors DEF FileBlock
<1>8. walk = NoWalk /\ before = BlockNone /\ saved = BlockNone
  BY DEF BlockDiskInit
<1>9. ReadsOK(file, disk, walk, truth, onFile)
  BY <1>5, <1>6, <1>7, <1>8, IdleIs DEF ReadsOK, HalfOf
<1> QED
  BY <1>1, <1>2, <1>3, <1>5, <1>6, <1>8, <1>9, IdleIs
     DEF BlockInv, BlockTypes, BeforeTypes, SavedOK, WalkOK, PagesOK, ReadStill, BusyOf, BlockNone

\* What the invariant says of the checked properties.
LEMMA BlockInvReadsBack == BlockInv => ReadsBack
<1> SUFFICES ASSUME BlockInv, walk.k = "idle", NEW n \in 0 .. Blocks - 1
             PROVE  ReadBlock(file, disk, n) \in truth[n]
  BY DEF ReadsBack
<1>1. HalfOf(walk, n, truth[n]) = truth[n]
  BY NoHalf, HalfIs
<1> QED
  BY <1>1 DEF BlockInv, ReadsOK, ReadBlock, BlockNos

\* The blocks of the file lie apart.
LEMMA BlockInvApart == BlockInv => BlocksApart
<1> SUFFICES ASSUME BlockInv PROVE BlocksApart
  OBVIOUS
<1> QED
  BY DEF BlockInv, ImageOK, BlocksApart, Entries, BlockStands, Separate

\* The busy time is what was moved.
LEMMA BlockInvBusy == BlockInv => BusyForWhatMoved
BY DEF BlockInv, BusyOf, BusyForWhatMoved

\* Each page of memory is whole.
LEMMA BlockInvPages == BlockInv => PageWhole
BY DEF BlockInv, PagesOK, PageIs, PageWhole

\* A step that leaves the disk, its file and what it may hold alone.
LEMMA Elsewhere ==
    ASSUME BlockInv, UNCHANGED <<file, disk, truth, onFile>>,
           HalfWritten(walk) = {}, HalfWritten(walk') = {}
    PROVE  /\ ImageOK(file', disk'.img) /\ DiskTypesOK(disk')
           /\ truth' \in ReadSets /\ onFile' \in ReadSets
           /\ ReadsOK(file', disk', walk', truth', onFile')
<1>1. ReadsOK(file, disk, walk', truth, onFile)
  BY ReadsFrom DEF BlockInv
<1> QED
  BY <1>1 DEF BlockInv, BlockTypes

\* A list and the registers stored.
LEMMA ProgramKeeps ==
    ASSUME BlockInv, NEW job \in Jobs, Program(job)
    PROVE  BlockInv'
<1>1. walk.k = "idle" /\ walk' = walk /\ before' = [k |-> "armed"] /\ saved' = saved
      /\ UNCHANGED <<file, disk, truth, onFile>>
  BY DEF Program
<1>2. HalfWritten(walk) = {} /\ HalfWritten(walk') = {}
  BY <1>1, NoHalf
<1>3. bd' \in BdTypes
  <2>1. /\ job.cmd \in {"read", "write", "bad"} /\ job.packed \in BOOLEAN /\ job.wide \in BOOLEAN
        /\ job.clp \in Nat /\ job.da \in Nat
    BY BlockDiskAssumption
  <2>2. Cleared(bd) \in BdTypes
    BY BdMoves DEF BlockInv, BlockTypes
  <2>3. bd' = [Cleared(bd) EXCEPT !.cmd = job.cmd, !.packed = job.packed, !.wide = job.wide,
                                 !.interrupt = TRUE, !.clp = job.clp, !.da = job.da]
    BY DEF Program
  <2> DEFINE c == Cleared(bd)
  <2> HIDE DEF c
  <2> QED
    BY <2>1, <2>2, <2>3 DEF BdTypes, c
<1>4. main' \in MainTypes
  <2>1. main \in MainTypes
    BY DEF BlockInv, BlockTypes
  <2>2. main' = [a \in DOMAIN main |-> IF a \in DOMAIN job.words THEN job.words[a] ELSE main[a]]
    BY DEF Program
  <2>3. \A a \in DOMAIN job.words : job.words[a] \in Cells
    <3>1. \A a \in DOMAIN job.words : job.words[a] \in [f : Nat, t : Nat]
      BY BlockDiskAssumption
    <3> QED
      BY <3>1 DEF Cells, SectorData
  <2> QED
    BY <2>1, <2>2, <2>3 DEF MainTypes
<1> QED
  BY <1>1, <1>2, <1>3, <1>4, Elsewhere
     DEF BlockInv, BlockTypes, BeforeTypes, WalkOK, PagesOK, ReadStill, BusyOf

\* A store to START.
LEMMA StartKeeps ==
    ASSUME BlockInv, Start
    PROVE  BlockInv'
<1>1. before.k = "armed" /\ walk.k = "idle" /\ main' = main /\ saved' = saved
      /\ UNCHANGED <<file, disk, truth, onFile>>
  BY DEF Start, BlockInv
<1>2. HalfWritten(walk) = {}
  BY <1>1, NoHalf
<1>3. bd \in BdTypes
  BY DEF BlockInv, BlockTypes
<1>4. bd' \in BdTypes
  <2>1. Cleared(bd) \in BdTypes
    BY <1>3, BdMoves
  <2> DEFINE c == Cleared(bd)
             b == bd.cmd = "bad"
  <2>2. bd' = [c EXCEPT !.bad = b] /\ b \in BOOLEAN
    BY DEF Start
  <2> HIDE DEF c, b
  <2> QED
    BY <2>1, <2>2, BdMoves DEF c
<1>5. bd'.cmd = bd.cmd /\ bd'.da = bd.da /\ ~bd'.pastEnd /\ ~bd'.nxm /\ (bd'.bad <=> bd.cmd = "bad")
  BY <1>3 DEF Start, Cleared, BdTypes
<1>6. CASE bd.cmd = "bad"
  <2>1. before' = BlockNone /\ walk' = walk
    BY <1>6 DEF Start
  <2> QED
    BY <1>1, <1>2, <1>4, <2>1, Elsewhere
       DEF BlockInv, BlockTypes, BeforeTypes, WalkOK, PagesOK, ReadStill, BusyOf, BlockNone
<1>7. CASE bd.cmd # "bad"
  <2> DEFINE was == [n \in 0 .. Blocks - 1 |-> ReadBlock(file, disk, n)]
             da == bd.da
  <2>1. /\ before' = [k |-> "start", main |-> main, da |-> da, disk |-> was]
        /\ walk' = [k |-> "walk", block |-> da, entry |-> 0, moved |-> 0, todo |-> <<>>]
    BY <1>7 DEF Start
  <2>2. was \in [BlockNos -> Pairs] /\ \A n \in BlockNos : was[n] = ReadBlock(file, disk, n)
    BY BlockData DEF BlockInv, BlockTypes, BlockNos
  <2>3. da \in Nat /\ bd'.da = da
    BY <1>3, <1>5 DEF BdTypes
  <2> HIDE DEF was, da
  <2>4. /\ before'.k = "start" /\ before'.main = main /\ before'.da = da /\ before'.disk = was
        /\ walk'.k = "walk" /\ walk'.block = da /\ walk'.moved = 0 /\ walk'.todo = <<>>
    BY <2>1
  <2>5. HalfWritten(walk') = {}
    BY <2>4, NoHalf
  <2>6. main \in MainTypes
    BY DEF BlockInv, BlockTypes
  <2>7. BeforeTypes(before')
    BY <2>1, <2>2, <2>3, <2>6 DEF BeforeTypes
  <2>8. WalkTypes(walk')
    BY <2>1, <2>3 DEF WalkTypes
  <2>9. WalkOK(bd', walk', before', disk'.writable)
    BY <1>5, <1>7, <2>3, <2>4 DEF WalkOK, TodoOK, BlockError
  <2>10. PagesOK(bd', main', before')
    BY <1>1, <2>4 DEF PagesOK, PageIs
  <2>11. ReadStill(bd', walk', before', file', disk')
    BY <1>1, <2>2, <2>4 DEF ReadStill
  <2>12. BusyOf(bd', walk', before')
    BY <2>4 DEF BusyOf
  <2> QED
    BY <1>1, <1>2, <1>4, <2>4, <2>5, <2>6, <2>7, <2>8, <2>9, <2>10, <2>11, <2>12, Elsewhere
       DEF BlockInv, BlockTypes
<1> QED
  BY <1>6, <1>7

\* What is said of the pages is of the command and the transfer's kind alone.
LEMMA PagesSame ==
    ASSUME NEW d, NEW e, NEW m, NEW b, e.cmd = d.cmd, PerPage(e) = PerPage(d), e.wide = d.wide,
           PagesOK(d, m, b)
    PROVE  PagesOK(e, m, b)
BY DEF PagesOK, PageIs

\* A file opened again: what it holds stands.
LEMMA OpenedKeeps ==
    ASSUME NEW f, NEW img, ImageOK(f, img), NEW wr \in BOOLEAN, NEW w \in KeptTypes,
           NEW d, d = [img |-> DynamicOpen(f), writable |-> wr, written |-> w]
    PROVE  /\ ImageOK(f, d.img) /\ DiskTypesOK(d) /\ d.written = w
           /\ \A e, n : e.img = img => FileBlock(f, d, n) = FileBlock(f, e, n)
<1>1. ImageOK(f, DynamicOpen(f)) /\ d.img = DynamicOpen(f) /\ d.written = w
  BY OpenStands
<1>2. DynamicOpen(f) \in [table : [Entries -> Int], end : Nat]
  BY <1>1 DEF ImageOK
<1> HIDE DEF DynamicOpen
<1>3. DiskTypesOK(d)
  BY <1>2 DEF DiskTypesOK
<1>4. \A s : SectorRead(f, d.img, s) = SectorRead(f, img, s)
  BY <1>1, OpenReads
<1> QED
  BY <1>1, <1>3, <1>4 DEF FileBlock

\* The machine's clock.
LEMMA AdvanceKeeps ==
    ASSUME BlockInv, BlockAdvance
    PROVE  BlockInv'
<1>1. walk.k = "idle" /\ UNCHANGED <<walk, main, before, saved, file, disk, truth, onFile>>
  BY DEF BlockAdvance
<1>2. HalfWritten(walk) = {} /\ HalfWritten(walk') = {}
  BY <1>1, NoHalf
<1>3. bd \in BdTypes /\ bd' = [bd EXCEPT !.now = bd.doneAt]
  BY DEF BlockInv, BlockTypes, BlockAdvance
<1>4. bd' \in BdTypes /\ bd'.now = bd.doneAt /\ bd'.doneAt = bd.doneAt /\ bd.doneAt \in Nat
      /\ bd'.cmd = bd.cmd /\ bd'.wide = bd.wide /\ PerPage(bd') = PerPage(bd)
  BY <1>3 DEF BdTypes, PerPage
<1>5. PagesOK(bd', main', before')
  BY <1>1, <1>4, PagesSame DEF BlockInv
<1>6. NotActive(bd')
  BY <1>4 DEF NotActive
<1> QED
  BY <1>1, <1>2, <1>4, <1>5, <1>6, Elsewhere
     DEF BlockInv, BlockTypes, WalkOK, ReadStill, BusyOf

\* A reset.
LEMMA InitKeeps ==
    ASSUME BlockInv, XbusInit
    PROVE  BlockInv'
<1>1. walk.k = "idle" /\ UNCHANGED <<walk, main, saved, file, disk, truth, onFile>>
      /\ before' = BlockNone
  BY DEF XbusInit
<1>2. HalfWritten(walk) = {} /\ HalfWritten(walk') = {}
  BY <1>1, NoHalf
<1>3. bd' \in BdTypes
  <2> DEFINE c == Cleared(bd)
             now == bd.now
  <2>1. bd \in BdTypes
    BY DEF BlockInv, BlockTypes
  <2>2. c \in BdTypes /\ now \in Nat
    BY <2>1, BdMoves DEF BdTypes
  <2>3. bd' = [c EXCEPT !.cmd = "read", !.packed = FALSE, !.interrupt = FALSE, !.doneAt = now]
    BY DEF XbusInit
  <2> HIDE DEF c, now
  <2> QED
    BY <2>2, <2>3 DEF BdTypes
<1> QED
  BY <1>1, <1>2, <1>3, Elsewhere
     DEF BlockInv, BlockTypes, BeforeTypes, WalkOK, PagesOK, ReadStill, BusyOf, BlockNone

\* A checkpoint.
LEMMA SaveKeeps ==
    ASSUME BlockInv, BlockSave
    PROVE  BlockInv'
<1>1. walk.k = "idle" /\ UNCHANGED <<bd, walk, main, before, file, disk, truth, onFile>>
  BY DEF BlockSave
<1>2. HalfWritten(walk) = {} /\ HalfWritten(walk') = {}
  BY <1>1, NoHalf
<1>3. SavedOK(saved')
  <2> DEFINE w == disk.written
  <2>1. saved' = [k |-> "saved", bd |-> bd, main |-> main, disk |-> w, truth |-> truth]
    BY DEF BlockSave, DiskSave
  <2>2. bd \in BdTypes /\ main \in MainTypes /\ w \in KeptTypes /\ truth \in ReadSets
    BY DEF BlockInv, BlockTypes, DiskTypesOK
  <2>3. \A n \in BlockNos : w[n] # NotKept => w[n] \in truth[n]
    BY DEF BlockInv, ReadsOK
  <2> HIDE DEF w
  <2> QED
    BY <2>1, <2>2, <2>3 DEF SavedOK
<1> QED
  BY <1>1, <1>2, <1>3, Elsewhere
     DEF BlockInv, BlockTypes, WalkOK, ReadStill, BusyOf, PagesOK

\* A new run from a checkpoint: the kept blocks are the checkpoint's, the others the file's.
LEMMA ResumeKeeps ==
    ASSUME BlockInv, NEW writable \in BOOLEAN, BlockResume(writable)
    PROVE  BlockInv'
<1>1. walk.k = "idle" /\ UNCHANGED <<walk, file, onFile>> /\ before' = BlockNone
      /\ saved' = BlockNone /\ saved # BlockNone /\ bd' = saved.bd /\ main' = saved.main
  BY DEF BlockResume
<1>2. HalfWritten(walk) = {} /\ HalfWritten(walk') = {}
  BY <1>1, NoHalf
<1>3. /\ saved.bd \in BdTypes /\ saved.main \in MainTypes /\ saved.disk \in KeptTypes
      /\ saved.truth \in ReadSets
      /\ \A n \in BlockNos : saved.disk[n] # NotKept => saved.disk[n] \in saved.truth[n]
  BY <1>1 DEF BlockInv, SavedOK
<1>4. disk' = [img |-> DynamicOpen(file), writable |-> writable, written |-> saved.disk]
  BY DEF BlockResume, DiskLoad, DiskOpen
<1>5. /\ ImageOK(file, disk'.img) /\ DiskTypesOK(disk') /\ disk'.written = saved.disk
      /\ \A n : FileBlock(file, disk', n) = FileBlock(file, disk, n)
  <2>1. ImageOK(file, disk.img)
    BY DEF BlockInv
  <2> QED
    BY <1>3, <1>4, <2>1, OpenedKeeps
<1>6. truth \in ReadSets /\ onFile \in ReadSets
  BY DEF BlockInv, BlockTypes
<1>7. truth' \in ReadSets
      /\ \A n \in BlockNos : truth'[n] = IF saved.disk[n] # NotKept THEN saved.truth[n] ELSE onFile[n]
  BY <1>3, <1>6 DEF BlockResume, ReadSets
<1>8. ReadsOK(file', disk', walk', truth', onFile')
  <2>1. \A n \in BlockNos : FileBlock(file, disk, n) \in onFile[n]
    BY <1>2, HalfIs DEF BlockInv, ReadsOK
  <2> QED
    BY <1>1, <1>2, <1>3, <1>5, <1>7, <2>1, HalfIs DEF ReadsOK
<1> QED
  BY <1>1, <1>3, <1>5, <1>6, <1>7, <1>8
     DEF BlockInv, BlockTypes, BeforeTypes, WalkTypes, SavedOK, WalkOK, PagesOK, ReadStill, BusyOf, BlockNone

\* A word's page and its place in it.
LEMMA Halves ==
    ASSUME NEW a \in Nat
    PROVE  a \div 2 \in Nat /\ a % 2 \in 0 .. 1 /\ a = 2 * (a \div 2) + (a % 2)
OBVIOUS

\* The two words of a page.
LEMMA HalvesOf ==
    ASSUME NEW p \in Nat, NEW i \in 0 .. 1
    PROVE  (2 * p + i) \div 2 = p /\ (2 * p + i) % 2 = i
OBVIOUS

\* What is known inside START.
LEMMA WalkingIs ==
    ASSUME BlockInv, walk.k = "walk"
    PROVE  /\ walk \in [k : {"walk"}, block : Nat, entry : Nat, moved : Nat, todo : Seq(Writes)]
           /\ TodoOK(bd, walk, disk.writable)
           /\ before.k = "start" /\ before.da \in Nat /\ before.da <= walk.block
           /\ walk.moved = walk.block - before.da
           /\ ~BlockError(bd) /\ bd.cmd # "bad"
           /\ before.main \in MainTypes /\ before.disk \in [BlockNos -> Pairs]
           /\ bd \in BdTypes /\ WalkTypes(walk)
<1>1. WalkTypes(walk) /\ BeforeTypes(before) /\ bd \in BdTypes
  BY DEF BlockInv, BlockTypes
<1>2. walk # NoWalk
  BY DEF NoWalk
<1>3. WalkOK(bd, walk, before, disk.writable)
  BY DEF BlockInv
<1>4. before.k = "start" => before.da \in Nat /\ before.main \in MainTypes /\ before.disk \in [BlockNos -> Pairs]
  BY <1>1 DEF BeforeTypes, BlockNone
<1> QED
  BY <1>1, <1>2, <1>3, <1>4 DEF WalkTypes, WalkOK

\* The list pointer, wrapped as it counts.
LEMMA ClpIs ==
    ASSUME NEW d \in BdTypes, NEW n \in Nat
    PROVE  Clp(d, n) \in Nat
<1> DEFINE c == d.clp
<1>1. c \in Nat /\ c + n \in Nat /\ ClpCount \in Nat \ {0}
  BY BlockDiskAssumption DEF BdTypes
<1>2. c % ClpCount \in Nat /\ (c + n) % ClpCount \in Nat
      /\ c = (c \div ClpCount) * ClpCount + (c % ClpCount) /\ c \div ClpCount \in Nat
  BY <1>1, BlockDivided
<1> DEFINE r == c % ClpCount
           s == (c + n) % ClpCount
           q == (c \div ClpCount) * ClpCount
<1>3. q \in Nat
  BY <1>1, <1>2
<1>4. Clp(d, n) = c - r + s
  BY DEF Clp
<1>5. c = q + r /\ r \in Nat /\ s \in Nat
  BY <1>2
<1> HIDE DEF c, r, s, q
<1> QED
  BY <1>3, <1>4, <1>5

\* A word of the list is a page, there or not, and whether more follow.
LEMMA CommandIs ==
    ASSUME NEW w, w \in PastMemory \/ \E c \in Cells : w \in PageOf(c)
    PROVE  w.page \in Nat /\ w.more \in BOOLEAN
<1>1. MemoryPages \in Nat
  BY BlockDiskAssumption
<1>2. CASE w \in PastMemory
  <2>1. w = [page |-> MemoryPages, more |-> FALSE]
    BY <1>2 DEF PastMemory
  <2> QED
    BY <1>1, <2>1
<1>3. ASSUME NEW c \in Cells, w \in PageOf(c) PROVE w.page \in Nat /\ w.more \in BOOLEAN
  <2>1. CASE c.f = Torn
    BY <1>1, <1>3, <2>1 DEF PageOf
  <2>2. CASE c.f # Torn
    <3>1. c.f \in Nat
      BY <2>2 DEF Cells, SectorData
    <3>2. c.f \div 2 \in Nat
      BY <3>1, Halves
    <3> DEFINE p == c.f \div 2
               more == c.f % 2 = 1
    <3>3. w = [page |-> p, more |-> more]
      BY <1>3, <2>2 DEF PageOf
    <3>4. more \in BOOLEAN
      OBVIOUS
    <3> HIDE DEF p, more
    <3>5. w.page = p /\ w.more = more
      BY <3>3
    <3> QED
      BY <3>2, <3>4, <3>5 DEF p
  <2> QED
    BY <2>1, <2>2
<1> QED
  BY <1>2, <1>3

\* A word of a page is a word of memory.
LEMMA PageWord ==
    ASSUME NEW M \in Nat, NEW p \in 0 .. M - 1, NEW i \in 0 .. 1
    PROVE  2 * p + i \in 0 .. 2 * M - 1 /\ (2 * p + i) \div 2 = p /\ (2 * p + i) % 2 = i
<1>1. p \in Nat
  OBVIOUS
<1>2. (2 * p + i) \div 2 = p /\ (2 * p + i) % 2 = i
  BY <1>1, HalvesOf
<1> QED
  BY <1>1, <1>2

\* A walk that moves on or ends with nothing of a block half done.
LEMMA MovedKeeps ==
    ASSUME BlockInv, walk.k = "walk",
           bd' \in BdTypes, WalkTypes(walk'),
           WalkOK(bd', walk', before, disk'.writable), BusyOf(bd', walk', before),
           before' = before, saved' = saved, main' \in MainTypes,
           PagesOK(bd', main', before), ReadStill(bd', walk', before, file', disk'),
           DiskTypesOK(disk'), ImageOK(file', disk'.img), truth' \in ReadSets, onFile' \in ReadSets,
           ReadsOK(file', disk', walk', truth', onFile')
    PROVE  BlockInv'
<1>1. before.k = "start" /\ BeforeTypes(before) /\ SavedOK(saved)
  BY DEF BlockInv, BlockTypes, WalkOK
<1> QED
  BY <1>1 DEF BlockInv, BlockTypes

\* The same, with memory and the disk as they were.
LEMMA EndedKeeps ==
    ASSUME BlockInv, walk.k = "walk", HalfWritten(walk) = {},
           UNCHANGED <<main, file, disk, truth, onFile, before, saved>>,
           bd' \in BdTypes, bd'.cmd = bd.cmd, PerPage(bd') = PerPage(bd), bd'.wide = bd.wide,
           walk' = NoWalk, BusyOf(bd', walk', before)
    PROVE  BlockInv'
<1>1. WalkTypes(walk') /\ HalfWritten(walk') = {} /\ walk'.k = "idle"
  BY IdleIs
<1>2. /\ ImageOK(file', disk'.img) /\ DiskTypesOK(disk')
      /\ truth' \in ReadSets /\ onFile' \in ReadSets
      /\ ReadsOK(file', disk', walk', truth', onFile')
  BY <1>1, Elsewhere
<1>3. PagesOK(bd', main', before) /\ main' \in MainTypes
  BY PagesSame DEF BlockInv, BlockTypes
<1> QED
  BY <1>1, <1>2, <1>3, MovedKeeps DEF WalkOK, ReadStill

\* A page read from the disk is whole, and no other is touched.
LEMMA PagePut ==
    ASSUME BlockInv, walk.k = "walk", bd.cmd = "read",
           NEW page \in 0 .. MemoryPages - 1, walk.block + PerPage(bd) <= Blocks,
           NEW bs, bs = [k \in 1 .. PerPage(bd) |-> ReadBlock(file, disk, walk.block + k - 1)],
           NEW m, m = [a \in DOMAIN main |-> IF a \div 2 = page THEN FromBlocks(bd, bs)[a % 2]
                                             ELSE main[a]]
    PROVE  m \in MainTypes /\ PagesOK(bd, m, before)
<1>1. /\ walk.block \in Nat /\ before.da \in Nat /\ before.da <= walk.block
      /\ before.disk \in [BlockNos -> Pairs] /\ PerPage(bd) \in {1, 2}
  BY WalkingIs DEF PerPage
<1>2. main \in MainTypes /\ UnboxedTag \in SectorData /\ 0 \in SectorData /\ MemoryPages \in Nat
      /\ Blocks \in Nat
  BY BlockDiskAssumption, DiskImageAssumption DEF BlockInv, BlockTypes, SectorData
<1>3. \A n \in BlockNos : ReadBlock(file, disk, n) = before.disk[n]
  BY DEF BlockInv, ReadStill
<1>4. \A k \in 1 .. PerPage(bd) : /\ walk.block + k - 1 \in BlockNos
                                  /\ bs[k] = before.disk[walk.block + k - 1] /\ bs[k] \in Pairs
  <2>1. \A k \in 1 .. PerPage(bd) : walk.block + k - 1 \in BlockNos
    BY <1>1, <1>2 DEF BlockNos
  <2> QED
    BY <1>1, <1>3, <2>1
<1>5. \A k \in 1 .. PerPage(bd) : bs[k][1] \in SectorData /\ bs[k][2] \in SectorData
  BY <1>4, PairIs
<1> DEFINE new == FromBlocks(bd, bs)
           tag == IF bd.wide THEN UnboxedTag ELSE 0
<1>6. m = [a \in DOMAIN main |-> IF a \div 2 = page THEN new[a % 2] ELSE main[a]]
  OBVIOUS
<1>7. tag \in SectorData
  BY <1>2
<1>8. PerPage(bd) = 1 => \A i \in 0 .. 1 : new[i] = Word(bs[1][i + 1], tag)
  BY DEF FromBlocks
<1>9. PerPage(bd) = 2 => \A i \in 0 .. 1 : new[i] = Word(bs[i + 1][1], bs[i + 1][2])
  BY DEF FromBlocks
<1> HIDE DEF new, tag
<1>10. \A i \in 0 .. 1 : new[i] \in Cells
  <2>1. CASE PerPage(bd) = 1
    <3>1. bs[1][1] \in SectorData /\ bs[1][2] \in SectorData
      BY <1>5, <2>1
    <3> QED
      BY <1>7, <1>8, <2>1, <3>1 DEF Word, Cells
  <2>2. CASE PerPage(bd) = 2
    <3>1. \A i \in 0 .. 1 : bs[i + 1][1] \in SectorData /\ bs[i + 1][2] \in SectorData
      BY <1>5, <2>2
    <3> QED
      BY <1>9, <2>2, <3>1 DEF Word, Cells
  <2> QED
    BY <1>1, <2>1, <2>2
<1>11. m \in MainTypes
  <2>1. DOMAIN main = 0 .. 2 * MemoryPages - 1 /\ \A a \in DOMAIN main : main[a] \in Cells
    BY <1>2 DEF MainTypes
  <2>2. \A a \in DOMAIN main : a % 2 \in 0 .. 1
    BY <1>2, <2>1
  <2>3. \A a \in DOMAIN main : m[a] \in Cells
    BY <1>6, <1>10, <2>1, <2>2
  <2> QED
    BY <1>6, <2>1, <2>3 DEF MainTypes
<1>12. \A p \in 0 .. MemoryPages - 1, i \in 0 .. 1 :
          m[2 * p + i] = IF p = page THEN new[i] ELSE main[2 * p + i]
  <2> TAKE p \in 0 .. MemoryPages - 1, i \in 0 .. 1
  <2> DEFINE a == 2 * p + i
  <2>1. a \in DOMAIN main /\ a \div 2 = p /\ a % 2 = i
    BY <1>2, PageWord DEF MainTypes
  <2> HIDE DEF a
  <2>2. m[a] = IF p = page THEN new[i] ELSE main[a]
    BY <1>6, <2>1
  <2> QED
    BY <2>2 DEF a
<1>13. ASSUME NEW p \in 0 .. MemoryPages - 1 PROVE PageIs(bd, m, before, p)
  <2>1. CASE p # page
    <3>1. ASSUME NEW a \in {2 * p, 2 * p + 1} PROVE m[a] = main[a]
      <4>1. \E i \in 0 .. 1 : a = 2 * p + i
        BY <1>2
      <4> QED
        BY <1>12, <2>1, <4>1
    <3>3. PageIs(bd, main, before, p)
      BY WalkingIs DEF BlockInv, PagesOK
    <3>4. \A i \in 0 .. 1 : m[2 * p + i] = main[2 * p + i]
      BY <1>12, <2>1
    <3> HIDE DEF new
    <3>6. CASE \A a \in {2 * p, 2 * p + 1} : main[a] = before.main[a]
      BY <3>1, <3>6 DEF PageIs
    <3>7. CASE ~ \A a \in {2 * p, 2 * p + 1} : main[a] = before.main[a]
      <4>1. PICK n \in before.da .. Blocks - PerPage(bd) :
              LET was == before.disk[n]
              IN  IF PerPage(bd) = 1
                  THEN \A i \in 0 .. 1 : /\ main[2 * p + i].f = was[i + 1]
                                         /\ main[2 * p + i].t = IF bd.wide THEN UnboxedTag ELSE 0
                  ELSE \A i \in 0 .. 1 :
                         main[2 * p + i] = Word(before.disk[n + i][1], before.disk[n + i][2])
        BY <3>3, <3>7 DEF PageIs
      <4>2. LET was == before.disk[n]
              IN  IF PerPage(bd) = 1
                  THEN \A i \in 0 .. 1 : /\ m[2 * p + i].f = was[i + 1]
                                         /\ m[2 * p + i].t = IF bd.wide THEN UnboxedTag ELSE 0
                  ELSE \A i \in 0 .. 1 :
                         m[2 * p + i] = Word(before.disk[n + i][1], before.disk[n + i][2])
        BY <3>4, <4>1
      <4> QED
        BY <4>2 DEF PageIs
    <3> QED
      BY <3>6, <3>7
  <2>2. CASE p = page
    <3> DEFINE n == walk.block
    <3>1. n \in before.da .. Blocks - PerPage(bd)
      BY <1>1, <1>2
    <3>2. \A i \in 0 .. 1 : m[2 * p + i] = new[i]
      BY <1>12, <2>2
    <3>3. CASE PerPage(bd) = 1
      <4>1. bs[1] = before.disk[n]
        BY <1>1, <1>4, <3>3
      <4> HIDE DEF n
      <4>2. \A i \in 0 .. 1 : /\ m[2 * p + i].f = before.disk[n][i + 1]
                              /\ m[2 * p + i].t = tag
        BY <1>8, <3>2, <3>3, <4>1 DEF Word
      <4> QED
        BY <3>1, <3>3, <4>2 DEF PageIs, tag
    <3>4. CASE PerPage(bd) = 2
      <4>1. \A i \in 0 .. 1 : bs[i + 1] = before.disk[n + i]
        <5>1. \A i \in 0 .. 1 : i + 1 \in 1 .. PerPage(bd) /\ n + (i + 1) - 1 = n + i
          BY <1>1, <3>4
        <5> QED
          BY <1>4, <5>1
      <4> HIDE DEF n
      <4>2. \A i \in 0 .. 1 : m[2 * p + i] = Word(before.disk[n + i][1], before.disk[n + i][2])
        BY <1>9, <3>2, <3>4, <4>1
      <4>3. PerPage(bd) # 1
        BY <3>4
      <4> QED
        BY <3>1, <4>2, <4>3 DEF PageIs
    <3> QED
      BY <1>1, <3>3, <3>4
  <2> QED
    BY <2>1, <2>2
<1> QED
  BY <1>11, <1>13 DEF PagesOK

\* A sequence of one.
LEMMA OneOf ==
    ASSUME NEW S, NEW s \in Seq(S), Len(s) = 1
    PROVE  s = <<s[1]>> /\ Head(s) = s[1] /\ s[1] \in S /\ s # <<>> /\ s = <<Head(s)>>
<1>1. s[1] \in S /\ s # <<>>
  BY ElementOfSeq
<1>2. Head(s) = s[1]
  BY <1>1
<1>3. s = <<s[1]>>
  <2> DEFINE r == <<s[1]>>
  <2>1. r \in Seq(S) /\ Len(r) = 1 /\ r[1] = s[1]
    BY <1>1
  <2> HIDE DEF r
  <2>2. \A i \in 1 .. Len(s) : s[i] = r[i]
    BY <2>1
  <2>3. s = r
    BY <2>1, <2>2, SeqEqual
  <2> QED
    BY <2>3 DEF r
<1> QED
  BY <1>1, <1>2, <1>3

\* A sequence of two.
LEMMA TwoOf ==
    ASSUME NEW S, NEW s \in Seq(S), Len(s) = 2
    PROVE  /\ Head(s) = s[1] /\ s[1] \in S /\ s[2] \in S /\ s # <<>> /\ s = <<Head(s), s[2]>>
<1>1. s[1] \in S /\ s[2] \in S /\ s # <<>>
  <2>1. 1 \in 1 .. Len(s) /\ 2 \in 1 .. Len(s)
    OBVIOUS
  <2>2. s[1] \in S /\ s[2] \in S
    BY <2>1, ElementOfSeq
  <2>3. s # <<>>
    BY EmptySeq
  <2> QED
    BY <2>2, <2>3
<1>2. Head(s) = s[1]
  BY <1>1
<1>3. s = <<s[1], s[2]>>
  <2> DEFINE r == <<s[1], s[2]>>
  <2>1. r \in Seq(S) /\ Len(r) = 2 /\ r[1] = s[1] /\ r[2] = s[2]
    BY <1>1
  <2> HIDE DEF r
  <2>2. \A i \in 1 .. Len(s) : s[i] = r[i]
    BY <2>1
  <2>3. s = r
    BY <2>1, <2>2, SeqEqual
  <2> QED
    BY <2>3 DEF r
<1> QED
  BY <1>1, <1>2, <1>3

\* The blocks of a page, on their way to the file.
LEMMA ToWrite ==
    ASSUME BlockInv, walk.k = "walk", bd.cmd = "write", walk.block < Blocks,
           NEW page \in 0 .. MemoryPages - 1, NEW more \in BOOLEAN,
           NEW todo,
           todo = LET all == ToBlocks(bd, main[2 * page], main[2 * page + 1])
                  IN  [k \in 1 .. PerPage(bd) |->
                         [block |-> walk.block + k - 1, data |-> all[k],
                          sector |-> 0, page |-> page, more |-> more]],
           NEW d \in BdTypes, d.cmd = bd.cmd, PerPage(d) = PerPage(bd), ~BlockError(d),
           NEW w, w = [walk EXCEPT !.todo = todo]
    PROVE  /\ WalkTypes(w) /\ HalfWritten(w) = {} /\ w.k = "walk"
           /\ WalkOK(d, w, before, disk.writable)
<1> DEFINE all == ToBlocks(bd, main[2 * page], main[2 * page + 1])
<1>1. /\ walk \in [k : {"walk"}, block : Nat, entry : Nat, moved : Nat, todo : Seq(Writes)]
      /\ before.k = "start" /\ before.da \in Nat /\ before.da <= walk.block
      /\ walk.moved = walk.block - before.da /\ PerPage(bd) \in {1, 2}
  BY WalkingIs DEF PerPage
<1>2. main[2 * page] \in Cells /\ main[2 * page + 1] \in Cells
  <2>1. MemoryPages \in Nat
    BY BlockDiskAssumption
  <2>2. 2 * page \in 0 .. 2 * MemoryPages - 1 /\ 2 * page + 1 \in 0 .. 2 * MemoryPages - 1
    BY <2>1
  <2> QED
    BY <2>2 DEF BlockInv, BlockTypes, MainTypes
<1>3. \A k \in 1 .. PerPage(bd) : all[k] \in Pairs
  <2>1. CASE PerPage(bd) = 1
    BY <1>2, <2>1 DEF ToBlocks, Cells, Pairs
  <2>2. CASE PerPage(bd) = 2
    BY <1>2, <2>2 DEF ToBlocks, Cells, Pairs
  <2> QED
    BY <1>1, <2>1, <2>2
<1> HIDE DEF all
<1>4. todo = [k \in 1 .. PerPage(bd) |->
                 [block |-> walk.block + k - 1, data |-> all[k],
                  sector |-> 0, page |-> page, more |-> more]]
  BY DEF all
<1>5. \A k \in 1 .. PerPage(bd) : todo[k] \in Writes /\ todo[k].block = walk.block + k - 1 /\ todo[k].sector = 0
  <2> TAKE k \in 1 .. PerPage(bd)
  <2> DEFINE b == walk.block + k - 1
  <2>1. b \in Nat
    BY <1>1
  <2>2. todo[k] = [block |-> b, data |-> all[k], sector |-> 0, page |-> page, more |-> more]
    BY <1>4
  <2>3. all[k] \in Pairs
    BY <1>3
  <2> HIDE DEF b
  <2> QED
    BY <2>1, <2>2, <2>3 DEF Writes, b
<1>6. todo \in Seq(Writes) /\ Len(todo) = PerPage(bd)
  <2>1. PerPage(bd) \in Nat /\ todo \in [1 .. PerPage(bd) -> Writes]
    BY <1>1, <1>4, <1>5
  <2> QED
    BY <2>1, SeqIs
<1>7. w \in [k : {"walk"}, block : Nat, entry : Nat, moved : Nat, todo : Seq(Writes)]
      /\ w.todo = todo /\ w.block = walk.block /\ w.moved = walk.moved
  BY <1>1, <1>6
<1>8. todo # <<>> /\ Head(todo) = todo[1] /\ Head(todo) \in Writes /\ Head(todo).sector = 0
      /\ Head(todo).block = walk.block
  <2>1. 1 \in 1 .. PerPage(bd) /\ walk.block + 1 - 1 = walk.block
    BY <1>1
  <2>2. todo # <<>> /\ Head(todo) = todo[1]
    BY <1>1, <1>6
  <2> QED
    BY <1>5, <2>1, <2>2
<1>9. HalfWritten(w) = {}
  BY <1>7, <1>8, NoHalf
<1>10. TodoOK(d, w, disk.writable)
  <2>1. CASE PerPage(bd) = 1
    <3>1. todo = <<Head(todo)>>
      BY <1>6, <2>1, OneOf
    <3>2. Head(todo).block = walk.block + PerPage(d) - 1
      BY <1>1, <1>8, <2>1
    <3> QED
      BY <1>7, <1>8, <3>1, <3>2 DEF TodoOK
  <2>2. CASE PerPage(bd) = 2
    <3>1. todo = <<Head(todo), todo[2]>>
      BY <1>6, <2>2, TwoOf
    <3>2. 2 \in 1 .. PerPage(bd) /\ walk.block + 2 - 1 = walk.block + 1
      BY <1>1, <2>2
    <3>3. todo[2] \in Writes /\ todo[2].sector = 0 /\ todo[2].block = walk.block + 1
      BY <1>5, <3>2
    <3> QED
      BY <1>7, <1>8, <2>2, <3>1, <3>3 DEF TodoOK
  <2> QED
    BY <1>1, <2>1, <2>2
<1> QED
  BY <1>1, <1>7, <1>9, <1>10 DEF WalkTypes, WalkOK

\* An entry of the list: nothing there, a page read, a page to write.
LEMMA EntryKeeps ==
    ASSUME BlockInv, WalkEntry
    PROVE  BlockInv'
<1> DEFINE clp == Clp(bd, walk.entry)
           d == [bd EXCEPT !.last = clp]
           n == PerPage(bd)
           bs == [k \in 1 .. n |-> ReadBlock(file, disk, walk.block + k - 1)]
<1>1. walk.k = "walk" /\ walk.todo = <<>>
      /\ UNCHANGED <<file, disk, truth, onFile, before, saved>>
  BY DEF WalkEntry
<1>2. /\ walk \in [k : {"walk"}, block : Nat, entry : Nat, moved : Nat, todo : Seq(Writes)]
      /\ before.k = "start" /\ before.da \in Nat /\ before.da <= walk.block
      /\ walk.moved = walk.block - before.da
      /\ ~BlockError(bd) /\ bd.cmd # "bad" /\ bd \in BdTypes /\ WalkTypes(walk)
  BY <1>1, WalkingIs
<1>3. HalfWritten(walk) = {} /\ main \in MainTypes /\ Blocks \in Nat /\ MemoryPages \in Nat
  BY <1>1, NoHalf, BlockDiskAssumption, DiskImageAssumption DEF BlockInv, BlockTypes
<1>4. clp \in Nat
  BY <1>2, ClpIs
<1>5. d \in BdTypes /\ d.cmd = bd.cmd /\ PerPage(d) = PerPage(bd) /\ d.wide = bd.wide
      /\ ~BlockError(d) /\ n \in {1, 2}
  <2> HIDE DEF clp
  <2>1. d \in BdTypes
    BY <1>2, <1>4, BdMoves
  <2> QED
    BY <1>2, <2>1 DEF BdTypes, PerPage, BlockError
<1>6. PICK w \in IF clp < 2 * MemoryPages THEN PageOf(main[clp]) ELSE PastMemory :
           \/ /\ w.page >= MemoryPages
              /\ EndWalk([d EXCEPT !.nxm = TRUE], walk.block, walk.moved)
              /\ UNCHANGED main
           \/ /\ w.page < MemoryPages
              /\ bd.cmd = "read"
              /\ IF walk.block + n > Blocks
                 THEN /\ PastEnd(d, IF walk.block > Blocks THEN walk.block ELSE Blocks)
                      /\ UNCHANGED main
                 ELSE /\ PageMoved(d, w.page, w.more)
                      /\ main' = [a \in DOMAIN main |->
                                    IF a \div 2 = w.page THEN FromBlocks(bd, bs)[a % 2]
                                    ELSE main[a]]
           \/ /\ w.page < MemoryPages
              /\ bd.cmd = "write"
              /\ IF walk.block >= Blocks THEN PastEnd(d, walk.block)
                 ELSE /\ bd' = d
                      /\ walk' = [walk EXCEPT !.todo =
                            LET all == ToBlocks(bd, main[2 * w.page], main[2 * w.page + 1])
                            IN  [k \in 1 .. n |->
                                   [block |-> walk.block + k - 1, data |-> all[k],
                                    sector |-> 0, page |-> w.page, more |-> w.more]]]
              /\ UNCHANGED main
  BY DEF WalkEntry
<1>7. w.page \in Nat /\ w.more \in BOOLEAN
  <2>1. clp < 2 * MemoryPages => main[clp] \in Cells
    <3>1. clp < 2 * MemoryPages => clp \in 0 .. 2 * MemoryPages - 1
      BY <1>3, <1>4
    <3> QED
      BY <1>3, <3>1 DEF MainTypes
  <2>2. w \in PastMemory \/ \E c \in Cells : w \in PageOf(c)
    BY <1>6, <2>1
  <2> QED
    BY <2>2, CommandIs
<1> HIDE DEF clp, d
<1>8. CASE w.page >= MemoryPages
  <2> DEFINE e == [d EXCEPT !.nxm = TRUE]
  <2>1. e \in BdTypes /\ BlockError(e) /\ e.cmd = d.cmd /\ PerPage(e) = PerPage(d) /\ e.wide = d.wide
    <3>1. e \in BdTypes
      BY <1>5, BdMoves
    <3> QED
      BY <1>5, <3>1 DEF BdTypes, PerPage, BlockError
  <2>2. EndWalk(e, walk.block, walk.moved) /\ UNCHANGED main
    BY <1>3, <1>6, <1>7, <1>8
  <2> HIDE DEF e
  <2>3. walk.moved = walk.block - before.da + (IF BlockError(e) THEN 0 ELSE 1)
    BY <1>2, <2>1
  <2>4. /\ bd' \in BdTypes /\ walk' = NoWalk
        /\ bd'.cmd = e.cmd /\ PerPage(bd') = PerPage(e) /\ bd'.wide = e.wide
        /\ BusyOf(bd', walk', before)
    BY <1>2, <2>1, <2>2, <2>3, EndKeeps
  <2> QED
    BY <1>1, <1>3, <1>5, <2>1, <2>2, <2>4, EndedKeeps
<1>9. CASE w.page < MemoryPages /\ bd.cmd = "read"
  <2>1. w.page \in 0 .. MemoryPages - 1 /\ ~(w.page >= MemoryPages) /\ bd.cmd # "write"
    BY <1>3, <1>7, <1>9
  <2>2. CASE walk.block + n > Blocks
    <3> DEFINE at == IF walk.block > Blocks THEN walk.block ELSE Blocks
    <3>1. PastEnd(d, at) /\ UNCHANGED main
      BY <1>6, <2>1, <2>2
    <3>2. at \in Nat /\ walk.block <= at
      BY <1>2, <1>3
    <3> HIDE DEF at
    <3>3. /\ bd' \in BdTypes /\ walk' = NoWalk
          /\ bd'.cmd = d.cmd /\ PerPage(bd') = PerPage(d) /\ bd'.wide = d.wide
          /\ BusyOf(bd', walk', before)
      BY <1>1, <1>2, <1>5, <3>1, <3>2, PastEndKeeps
    <3> QED
      BY <1>1, <1>3, <1>5, <3>1, <3>3, EndedKeeps
  <2>3. CASE ~(walk.block + n > Blocks)
    <3>1. /\ PageMoved(d, w.page, w.more)
          /\ main' = [a \in DOMAIN main |-> IF a \div 2 = w.page THEN FromBlocks(bd, bs)[a % 2]
                                            ELSE main[a]]
      BY <1>6, <2>1, <2>3
    <3>2. /\ bd' \in BdTypes /\ WalkTypes(walk') /\ HalfWritten(walk') = {}
          /\ bd'.cmd = d.cmd /\ PerPage(bd') = PerPage(d) /\ bd'.wide = d.wide
          /\ BusyOf(bd', walk', before) /\ WalkOK(bd', walk', before, disk.writable)
      BY <1>1, <1>2, <1>5, <1>7, <3>1, PageMovedKeeps
    <3>3. walk.block + PerPage(bd) <= Blocks
      BY <1>2, <1>3, <1>5, <2>3
    <3>4. main' \in MainTypes /\ PagesOK(bd, main', before)
      <4>1. PICK b : b = bs
        OBVIOUS
      <4> HIDE DEF bs
      <4>2. main' = [a \in DOMAIN main |-> IF a \div 2 = w.page THEN FromBlocks(bd, b)[a % 2]
                                            ELSE main[a]]
        BY <3>1, <4>1
      <4>3. b = [k \in 1 .. PerPage(bd) |-> ReadBlock(file, disk, walk.block + k - 1)]
        BY <4>1 DEF bs
      <4> QED
        BY <1>1, <1>9, <2>1, <3>3, <4>2, <4>3, PagePut
    <3>5. PagesOK(bd', main', before)
      BY <1>5, <3>2, <3>4, PagesSame
    <3>6. /\ ImageOK(file', disk'.img) /\ DiskTypesOK(disk')
          /\ truth' \in ReadSets /\ onFile' \in ReadSets
          /\ ReadsOK(file', disk', walk', truth', onFile')
      BY <1>1, <1>3, <3>2, Elsewhere
    <3>7. ReadStill(bd', walk', before, file', disk')
      BY <1>1, <1>9 DEF BlockInv, ReadStill
    <3> QED
      BY <1>1, <3>2, <3>4, <3>5, <3>6, <3>7, MovedKeeps
  <2> QED
    BY <2>2, <2>3
<1>10. CASE w.page < MemoryPages /\ bd.cmd = "write"
  <2>1. w.page \in 0 .. MemoryPages - 1 /\ ~(w.page >= MemoryPages) /\ bd.cmd # "read"
    BY <1>3, <1>7, <1>10
  <2>2. CASE walk.block >= Blocks
    <3>1. PastEnd(d, walk.block) /\ UNCHANGED main
      BY <1>6, <2>1, <2>2
    <3>2. walk.block \in Nat /\ walk.block <= walk.block
      BY <1>2
    <3>3. /\ bd' \in BdTypes /\ walk' = NoWalk
          /\ bd'.cmd = d.cmd /\ PerPage(bd') = PerPage(d) /\ bd'.wide = d.wide
          /\ BusyOf(bd', walk', before)
      BY <1>1, <1>2, <1>5, <3>1, <3>2, PastEndKeeps
    <3> QED
      BY <1>1, <1>3, <1>5, <3>1, <3>3, EndedKeeps
  <2>3. CASE ~(walk.block >= Blocks)
    <3> DEFINE todo == LET all == ToBlocks(bd, main[2 * w.page], main[2 * w.page + 1])
                       IN  [k \in 1 .. PerPage(bd) |->
                              [block |-> walk.block + k - 1, data |-> all[k],
                               sector |-> 0, page |-> w.page, more |-> w.more]]
    <3>1. bd' = d /\ walk' = [walk EXCEPT !.todo = todo] /\ UNCHANGED main
      BY <1>6, <2>1, <2>3
    <3>2. walk.block < Blocks
      BY <1>2, <1>3, <2>3
    <3>3. /\ WalkTypes(walk') /\ HalfWritten(walk') = {} /\ walk'.k = "walk"
          /\ WalkOK(d, walk', before, disk.writable)
      <4>1. PICK t : t = todo
        OBVIOUS
      <4>2. walk' = [walk EXCEPT !.todo = t]
        BY <3>1, <4>1
      <4> QED
        BY <1>1, <1>5, <1>7, <1>10, <2>1, <3>2, <4>1, <4>2, ToWrite
    <3> HIDE DEF todo
    <3>4. /\ ImageOK(file', disk'.img) /\ DiskTypesOK(disk')
          /\ truth' \in ReadSets /\ onFile' \in ReadSets
          /\ ReadsOK(file', disk', walk', truth', onFile')
      BY <1>1, <1>3, <3>3, Elsewhere
    <3>5. /\ PagesOK(bd', main', before) /\ ReadStill(bd', walk', before, file', disk')
          /\ BusyOf(bd', walk', before)
      BY <1>5, <1>10, <3>1, <3>3 DEF PagesOK, ReadStill, BusyOf
    <3> QED
      BY <1>1, <1>3, <1>5, <3>1, <3>3, <3>4, <3>5, MovedKeeps
  <2> QED
    BY <2>2, <2>3
<1>11. \/ w.page >= MemoryPages
       \/ w.page < MemoryPages /\ bd.cmd = "read"
       \/ w.page < MemoryPages /\ bd.cmd = "write"
  BY <1>6
<1> QED
  BY <1>8, <1>9, <1>10, <1>11

\* The block in hand, and the page's other one after it.
LEMMA TodoIs ==
    ASSUME BlockInv, walk.k = "walk", walk.todo # <<>>,
           NEW t, t = Head(walk.todo)
    PROVE  /\ t \in Writes /\ t.block \in BlockNos /\ walk.block <= t.block /\ bd.cmd = "write"
           /\ t.data \in Pairs /\ t.sector \in {0, 1} /\ (t.sector = 1 => disk.writable)
           /\ Len(walk.todo) = 1 \/ Len(walk.todo) = 2
           /\ Len(walk.todo) = 1 => t.block = walk.block + PerPage(bd) - 1
           /\ Len(walk.todo) = 2 =>
                 /\ PerPage(bd) = 2 /\ t.block = walk.block
                 /\ walk.todo = <<t, walk.todo[2]>> /\ walk.todo[2] \in Writes
                 /\ walk.todo[2].sector = 0 /\ walk.todo[2].block = walk.block + 1
<1>1. /\ walk \in [k : {"walk"}, block : Nat, entry : Nat, moved : Nat, todo : Seq(Writes)]
      /\ TodoOK(bd, walk, disk.writable) /\ PerPage(bd) \in {1, 2}
  BY WalkingIs DEF PerPage
<1> DEFINE todo == walk.todo
<1>2. /\ bd.cmd = "write"
      /\ \/ todo = <<t>> /\ t.block = walk.block + PerPage(bd) - 1
         \/ /\ PerPage(bd) = 2
            /\ todo = <<t, todo[2]>>
            /\ t.block = walk.block
            /\ todo[2] \in Writes /\ todo[2].sector = 0 /\ todo[2].block = walk.block + 1
      /\ t \in Writes /\ t.block < Blocks
      /\ t.sector = 1 => disk.writable
  BY <1>1 DEF TodoOK
<1> HIDE DEF todo
<1>3. t.block \in BlockNos /\ t.data \in Pairs /\ t.sector \in {0, 1}
  BY <1>2, DiskImageAssumption DEF Writes, BlockNos
<1>4. walk.block <= t.block
  BY <1>1, <1>2
<1>5. (todo = <<t>> => Len(todo) = 1) /\ (todo = <<t, todo[2]>> => Len(todo) = 2)
  <2>1. \A a : Len(<<a>>) = 1
    OBVIOUS
  <2>2. \A a, b : Len(<<a, b>>) = 2
    OBVIOUS
  <2> QED
    BY <2>1, <2>2
<1> QED
  BY <1>2, <1>3, <1>4, <1>5 DEF todo

\* A block written: on to the page's other one, the next page or the end.
LEMMA BlockPutKeeps ==
    ASSUME BlockInv, walk.k = "walk", walk.todo # <<>>, NEW wr,
           NEW t, t = Head(walk.todo), BlockPut(t)
    PROVE  /\ bd' \in BdTypes /\ WalkTypes(walk') /\ HalfWritten(walk') = {}
           /\ bd'.cmd = "write" /\ BusyOf(bd', walk', before) /\ WalkOK(bd', walk', before, wr)
<1>1. /\ walk \in [k : {"walk"}, block : Nat, entry : Nat, moved : Nat, todo : Seq(Writes)]
      /\ before.k = "start" /\ before.da \in Nat /\ before.da <= walk.block
      /\ walk.moved = walk.block - before.da
      /\ ~BlockError(bd) /\ bd.cmd # "bad" /\ bd \in BdTypes /\ WalkTypes(walk)
  BY WalkingIs
<1>2. /\ t \in Writes /\ t.block \in Nat /\ walk.block <= t.block /\ bd.cmd = "write"
      /\ t.page \in Nat /\ t.more \in BOOLEAN
      /\ Blocks \in Nat
      /\ (Len(walk.todo) = 1 \/ Len(walk.todo) = 2)
  BY TodoIs, DiskImageAssumption DEF Writes
<1>3. CASE Len(walk.todo) > 1 /\ t.block + 1 >= Blocks
  <2> DEFINE at == t.block + 1
  <2>1. PastEnd(bd, at)
    BY <1>3 DEF BlockPut
  <2>2. at \in Nat /\ walk.block <= at
    BY <1>1, <1>2
  <2> HIDE DEF at
  <2>3. bd' \in BdTypes /\ walk' = NoWalk /\ bd'.cmd = bd.cmd /\ BusyOf(bd', walk', before)
    BY <1>1, <2>1, <2>2, PastEndKeeps
  <2> QED
    BY <1>2, <2>3, IdleIs DEF WalkOK
<1>4. CASE Len(walk.todo) > 1 /\ ~(t.block + 1 >= Blocks)
  <2> DEFINE u == walk.todo[2]
             rest == Tail(walk.todo)
  <2>1. walk' = [walk EXCEPT !.todo = rest] /\ bd' = bd
    BY <1>4 DEF BlockPut
  <2>2. PerPage(bd) = 2 /\ t.block = walk.block /\ Len(walk.todo) = 2 /\ walk.todo = <<t, u>>
        /\ u \in Writes /\ u.sector = 0 /\ u.block = walk.block + 1
    <3>1. Len(walk.todo) = 2
      <4>1. Len(walk.todo) \in Nat
        BY <1>1
      <4>2. \A l \in Nat : (l = 1 \/ l = 2) /\ l > 1 => l = 2
        OBVIOUS
      <4> QED
        BY <1>2, <1>4, <4>1, <4>2, Zenon
    <3> HIDE DEF u
    <3>2. /\ PerPage(bd) = 2 /\ t.block = walk.block
          /\ walk.todo = <<t, walk.todo[2]>> /\ walk.todo[2] \in Writes
          /\ walk.todo[2].sector = 0 /\ walk.todo[2].block = walk.block + 1
      BY <3>1, TodoIs
    <3> QED
      BY <3>1, <3>2 DEF u
  <2>3. rest = <<u>>
    <3> HIDE DEF u
    <3>1. \A a, b : Tail(<<a, b>>) = <<b>>
      OBVIOUS
    <3> QED
      BY <2>2, <3>1
  <2> HIDE DEF u, rest
  <2>4. rest \in Seq(Writes) /\ Head(rest) = u /\ rest # <<>>
    BY <2>2, <2>3
  <2>5. walk' \in [k : {"walk"}, block : Nat, entry : Nat, moved : Nat, todo : Seq(Writes)]
        /\ walk'.todo = rest /\ walk'.block = walk.block /\ walk'.moved = walk.moved
    BY <1>1, <2>1, <2>4
  <2>6. HalfWritten(walk') = {}
    BY <2>2, <2>4, <2>5, NoHalf
  <2>7. u.block < Blocks /\ u.block = walk.block + PerPage(bd) - 1
    BY <1>1, <1>2, <1>4, <2>2
  <2>8. TodoOK(bd', walk', wr)
    BY <1>2, <2>1, <2>2, <2>3, <2>4, <2>5, <2>7 DEF TodoOK
  <2> QED
    BY <1>1, <1>2, <2>1, <2>5, <2>6, <2>8 DEF WalkTypes, WalkOK, BusyOf
<1>5. CASE ~(Len(walk.todo) > 1)
  <2>1. PageMoved(bd, t.page, t.more)
    BY <1>5 DEF BlockPut
  <2> QED
    BY <1>1, <1>2, <2>1, PageMovedKeeps
<1> QED
  BY <1>3, <1>4, <1>5

\* A block written to a disk that is not written through.
LEMMA KeepKeeps ==
    ASSUME BlockInv, WalkKeep
    PROVE  BlockInv'
<1> DEFINE t == Head(walk.todo)
           b == t.block
<1>1. /\ walk.k = "walk" /\ walk.todo # <<>> /\ ~disk.writable
      /\ disk' = KeepBlock(file, disk, b, t.data)
      /\ truth' = [truth EXCEPT ![b] = {t.data}]
      /\ BlockPut(t)
      /\ UNCHANGED <<main, file, onFile, before, saved>>
  BY DEF WalkKeep
<1>2. b \in BlockNos /\ t.data \in Pairs /\ t.sector \in {0, 1} /\ (t.sector = 1 => disk.writable)
  BY <1>1, TodoIs
<1>3. HalfWritten(walk) = {}
  BY <1>1, <1>2, NoHalf
<1>4. truth \in ReadSets /\ onFile \in ReadSets /\ DiskTypesOK(disk) /\ main \in MainTypes
      /\ ImageOK(file, disk.img) /\ ReadsOK(file, disk, walk, truth, onFile)
  BY DEF BlockInv, BlockTypes
<1>5. /\ bd' \in BdTypes /\ WalkTypes(walk') /\ HalfWritten(walk') = {}
      /\ bd'.cmd = "write" /\ BusyOf(bd', walk', before)
      /\ WalkOK(bd', walk', before, disk'.writable)
  <2> HIDE DEF t
  <2> QED
    BY <1>1, BlockPutKeeps DEF t
<1> DEFINE data == t.data
<1> HIDE DEF t, b, data
<1>6. /\ DiskTypesOK(disk') /\ disk'.img = disk.img
      /\ \A n \in BlockNos : disk'.written[n] =
            IF n = b THEN IF FileBlock(file, disk, b) = data THEN NotKept ELSE data
            ELSE disk.written[n]
  <2> DEFINE new == IF FileBlock(file, disk, b) = data THEN NotKept ELSE data
             ws == [disk.written EXCEPT ![b] = new]
  <2>1. disk' = [disk EXCEPT !.written = ws]
    BY <1>1 DEF KeepBlock, data
  <2>2. new \in PairsKept
    BY <1>2 DEF PairsKept, data
  <2>3. disk.written \in KeptTypes
    BY <1>4 DEF DiskTypesOK
  <2> HIDE DEF new
  <2>4. ws \in KeptTypes /\ \A n \in BlockNos : ws[n] = IF n = b THEN new ELSE disk.written[n]
    BY <1>2, <2>2, <2>3 DEF KeptTypes
  <2> HIDE DEF ws
  <2>5. DiskTypesOK(disk') /\ disk'.img = disk.img /\ disk'.written = ws
    BY <1>4, <2>1, <2>4 DEF DiskTypesOK
  <2> QED
    BY <2>4, <2>5 DEF new
<1>7. truth' \in ReadSets /\ \A n \in BlockNos : truth'[n] = IF n = b THEN {data} ELSE truth[n]
  <2>1. {data} \in SUBSET Pairs
    BY <1>2 DEF data
  <2>2. truth' = [truth EXCEPT ![b] = {data}]
    BY <1>1 DEF data
  <2> QED
    BY <1>4, <2>1, <2>2 DEF ReadSets
<1>8. data # NotKept
  BY <1>2, PairIs DEF data
<1>9. ReadsOK(file', disk', walk', truth', onFile')
  <2>1. \A n \in BlockNos : FileBlock(file', disk', n) = FileBlock(file, disk, n)
    BY <1>1, <1>6 DEF FileBlock
  <2>2. ASSUME NEW n \in BlockNos
        PROVE  /\ FileBlock(file, disk, n) \in onFile'[n]
               /\ disk'.written[n] # NotKept => disk'.written[n] \in truth'[n]
               /\ disk'.written[n] = NotKept => FileBlock(file, disk, n) \in truth'[n]
    <3>1. /\ FileBlock(file, disk, n) \in onFile[n]
          /\ disk.written[n] # NotKept => disk.written[n] \in truth[n]
          /\ disk.written[n] = NotKept => FileBlock(file, disk, n) \in truth[n]
      BY <1>3, <1>4, HalfIs DEF ReadsOK
    <3>2. CASE n = b
      BY <1>1, <1>6, <1>7, <1>8, <3>1, <3>2
    <3>3. CASE n # b
      BY <1>1, <1>6, <1>7, <3>1, <3>3
    <3> QED
      BY <3>2, <3>3
  <2> QED
    BY <1>5, <2>1, <2>2, HalfIs DEF ReadsOK
<1>10. PagesOK(bd', main', before) /\ ReadStill(bd', walk', before, file', disk')
  BY <1>5 DEF PagesOK, ReadStill
<1> QED
  BY <1>1, <1>4, <1>5, <1>6, <1>7, <1>9, <1>10, MovedKeeps

\* A sector is its block's first or second.
LEMMA SectorOf ==
    ASSUME NEW n \in BlockNos, NEW i \in {0, 1}
    PROVE  /\ 2 * n + i \in Sectors
           /\ (2 * n + i) \div 2 = n /\ (2 * n + i) % 2 = i
<1>1. n \in Nat /\ 2 * n + i \in Sectors
  BY DiskImageAssumption DEF BlockNos, Sectors
<1> QED
  BY <1>1, HalvesOf

\* A sector of a block, changed in a file: the other one and every other block stand.
LEMMA OneChanged ==
    ASSUME NEW f, NEW g, NEW d, NEW e, NEW n \in BlockNos, NEW i \in {0, 1},
           \A r \in Sectors : r # 2 * n + i => SectorRead(g, e.img, r) = SectorRead(f, d.img, r)
    PROVE  /\ \A m \in BlockNos : m # n => FileBlock(g, e, m) = FileBlock(f, d, m)
           /\ i = 0 => FileBlock(g, e, n) = <<SectorRead(g, e.img, 2 * n + i), FileBlock(f, d, n)[2]>>
           /\ i = 1 => FileBlock(g, e, n) = <<FileBlock(f, d, n)[1], SectorRead(g, e.img, 2 * n + i)>>
<1>1. ASSUME NEW m \in BlockNos, m # n PROVE FileBlock(g, e, m) = FileBlock(f, d, m)
  <2>1. 2 * m \in Sectors /\ 2 * m + 1 \in Sectors
    BY TwoSectors
  <2>2. 2 * m # 2 * n + i /\ 2 * m + 1 # 2 * n + i
    BY <1>1, DiskImageAssumption DEF BlockNos
  <2> QED
    BY <2>1, <2>2 DEF FileBlock
<1>2. 2 * n \in Sectors /\ 2 * n + 1 \in Sectors /\ 2 * n # 2 * n + 1
  BY TwoSectors, DiskImageAssumption DEF BlockNos
<1>3. CASE i = 0
  <2>1. 2 * n + i = 2 * n
    BY <1>3, DiskImageAssumption DEF BlockNos
  <2>2. SectorRead(g, e.img, 2 * n + 1) = SectorRead(f, d.img, 2 * n + 1)
    BY <1>2, <2>1
  <2> QED
    BY <1>1, <1>3, <2>1, <2>2 DEF FileBlock
<1>4. CASE i = 1
  <2>1. SectorRead(g, e.img, 2 * n) = SectorRead(f, d.img, 2 * n)
    BY <1>2, <1>4
  <2> QED
    BY <1>1, <1>4, <2>1 DEF FileBlock
<1> QED
  BY <1>3, <1>4

\* A sector written through: the first leaves its block half written, the second whole.
LEMMA SectorKeeps ==
    ASSUME BlockInv, WalkSector
    PROVE  BlockInv'
<1> DEFINE t == Head(walk.todo)
           b == t.block
           i == t.sector
           data == t.data
           s == 2 * b + i
           v == data[i + 1]
           ws == WriteSector(disk.img, s, v)
           img == Allocated(disk.img, s)
<1>1. /\ walk.k = "walk" /\ walk.todo # <<>> /\ disk.writable
      /\ file' = SomeWritten(file, ws, Len(ws))
      /\ disk' = WriteThrough(disk, s)
      /\ IF i = 0
         THEN walk' = [walk EXCEPT !.todo[1].sector = 1] /\ UNCHANGED <<bd, truth, onFile>>
         ELSE /\ BlockPut(t)
              /\ truth' = [truth EXCEPT ![b] = {data}]
              /\ onFile' = [onFile EXCEPT ![b] = {data}]
      /\ UNCHANGED <<main, before, saved>>
  BY DEF WalkSector, TheWrites
<1>2. b \in BlockNos /\ data \in Pairs /\ i \in {0, 1} /\ t \in Writes /\ bd.cmd = "write"
  BY <1>1, TodoIs
<1>3. truth \in ReadSets /\ onFile \in ReadSets /\ DiskTypesOK(disk) /\ main \in MainTypes
      /\ ImageOK(file, disk.img) /\ ReadsOK(file, disk, walk, truth, onFile)
  BY DEF BlockInv, BlockTypes
<1>5. HalfWritten(walk) = IF i = 1 THEN {b} ELSE {}
  BY <1>1 DEF HalfWritten
<1>6. data = <<data[1], data[2]>> /\ data[1] \in SectorData /\ data[2] \in SectorData
  BY <1>2, PairIs
<1> HIDE DEF t, b, i, data
<1>7. v \in SectorData /\ s \in Sectors /\ s \div 2 = b /\ s % 2 = i
  BY <1>2, <1>6, SectorOf
<1>8. /\ ImageOK(file', img)
      /\ SectorRead(file', img, s) = v
      /\ \A r \in Sectors : r # s => SectorRead(file', img, r) = SectorRead(file, disk.img, r)
  <2> HIDE DEF s, v, img
  <2> QED
    BY <1>1, <1>3, <1>7, SectorWritten DEF img
<1>9. /\ DiskTypesOK(disk') /\ disk'.img = img /\ disk'.writable
      /\ \A n \in BlockNos : disk'.written[n] = IF n = b /\ i = 1 THEN NotKept ELSE disk.written[n]
  <2> DEFINE kept == [disk.written EXCEPT ![b] = IF i = 1 THEN NotKept ELSE disk.written[b]]
  <2>1. disk' = [disk EXCEPT !.img = img, !.written = kept]
    BY <1>1, <1>7 DEF WriteThrough
  <2>2. img \in [table : [Entries -> Int], end : Nat]
    BY <1>8 DEF ImageOK
  <2>3. disk.written \in KeptTypes
    BY <1>3 DEF DiskTypesOK
  <2>4. kept \in KeptTypes /\ \A n \in BlockNos : kept[n] = IF n = b /\ i = 1 THEN NotKept ELSE disk.written[n]
    BY <1>2, <2>3 DEF KeptTypes, PairsKept
  <2> HIDE DEF kept, img
  <2>5. DiskTypesOK(disk') /\ disk'.img = img /\ disk'.writable = disk.writable /\ disk'.written = kept
    BY <1>3, <2>1, <2>2, <2>4 DEF DiskTypesOK
  <2> QED
    BY <1>1, <2>4, <2>5
<1>10. /\ \A m \in BlockNos : m # b => FileBlock(file', disk', m) = FileBlock(file, disk, m)
       /\ i = 0 => FileBlock(file', disk', b) = <<data[1], FileBlock(file, disk, b)[2]>>
       /\ i = 1 => FileBlock(file', disk', b) = <<FileBlock(file, disk, b)[1], data[2]>>
  <2>1. \A r \in Sectors : r # 2 * b + i => SectorRead(file', disk'.img, r) = SectorRead(file, disk.img, r)
    BY <1>8, <1>9
  <2>2. SectorRead(file', disk'.img, 2 * b + i) = v
    BY <1>8, <1>9
  <2>3. (i = 0 => v = data[1]) /\ (i = 1 => v = data[2])
    OBVIOUS
  <2> HIDE DEF v, s
  <2>4. /\ \A m \in BlockNos : m # b => FileBlock(file', disk', m) = FileBlock(file, disk, m)
        /\ i = 0 => FileBlock(file', disk', b) = <<SectorRead(file', disk'.img, 2 * b + i), FileBlock(file, disk, b)[2]>>
        /\ i = 1 => FileBlock(file', disk', b) = <<FileBlock(file, disk, b)[1], SectorRead(file', disk'.img, 2 * b + i)>>
    BY <1>2, <2>1, OneChanged
  <2> QED
    BY <2>2, <2>3, <2>4
<1> HIDE DEF s, v, ws, img
<1>11. CASE i = 0
  <2> DEFINE h == [t EXCEPT !.sector = 1]
             todo == [walk.todo EXCEPT ![1] = h]
  <2>0. /\ walk \in [k : {"walk"}, block : Nat, entry : Nat, moved : Nat, todo : Seq(Writes)]
        /\ before.k = "start" /\ before.da \in Nat /\ before.da <= walk.block
        /\ walk.moved = walk.block - before.da
        /\ ~BlockError(bd) /\ bd.cmd # "bad" /\ bd \in BdTypes
        /\ TodoOK(bd, walk, disk.writable)
    BY <1>1, WalkingIs
  <2>1. walk.todo \in Seq(Writes) /\ t = walk.todo[1]
    BY <1>1, <2>0 DEF t
  <2>2. walk' = [walk EXCEPT !.todo = todo] /\ bd' = bd /\ truth' = truth /\ onFile' = onFile
    BY <1>1, <1>11, <2>1
  <2>3. h \in Writes /\ h.sector = 1 /\ h.block = b /\ h.data = data
    BY <1>2 DEF Writes, b, data
  <2>4. 1 \in 1 .. Len(walk.todo)
    BY <1>1, <2>1, EmptySeq
  <2> HIDE DEF h
  <2>5. todo \in Seq(Writes) /\ Len(todo) = Len(walk.todo)
        /\ \A j \in 1 .. Len(walk.todo) : todo[j] = IF j = 1 THEN h ELSE walk.todo[j]
    BY <2>1, <2>3, <2>4, ExceptSeq
  <2> HIDE DEF todo
  <2>6. walk' \in [k : {"walk"}, block : Nat, entry : Nat, moved : Nat, todo : Seq(Writes)]
        /\ walk'.todo = todo /\ walk'.block = walk.block /\ walk'.moved = walk.moved
        /\ walk'.k = "walk"
    BY <2>0, <2>2, <2>5
  <2>7. todo # <<>> /\ Head(todo) = h
    BY <2>4, <2>5, EmptySeq
  <2>8. HalfWritten(walk') = {b}
    BY <2>3, <2>6, <2>7 DEF HalfWritten
  <2>9. TodoOK(bd', walk', disk'.writable)
    <3>1. h.block < Blocks
      BY <1>2, <2>3, DiskImageAssumption DEF BlockNos
    <3>2. CASE Len(walk.todo) = 1
      <4>1. t.block = walk.block + PerPage(bd) - 1
        BY <1>1, <3>2, TodoIs DEF t
      <4>2. todo = <<Head(todo)>>
        BY <2>5, <3>2, OneOf
      <4> QED
        BY <1>2, <1>9, <2>2, <2>3, <2>6, <2>7, <3>1, <4>1, <4>2 DEF TodoOK, b
    <3>3. CASE Len(walk.todo) = 2
      <4>1. /\ PerPage(bd) = 2 /\ t.block = walk.block
            /\ walk.todo[2] \in Writes
            /\ walk.todo[2].sector = 0 /\ walk.todo[2].block = walk.block + 1
        BY <1>1, <3>3, TodoIs DEF t
      <4>2. todo = <<Head(todo), todo[2]>>
        BY <2>5, <3>3, TwoOf
      <4>3. todo[2] = walk.todo[2]
        BY <2>5, <3>3
      <4> QED
        BY <1>2, <1>9, <2>2, <2>3, <2>6, <2>7, <3>1, <4>1, <4>2, <4>3 DEF TodoOK, b
    <3>4. Len(walk.todo) = 1 \/ Len(walk.todo) = 2
      BY <1>1, TodoIs DEF t
    <3> QED
      BY <3>2, <3>3, <3>4
  <2>10. /\ WalkTypes(walk') /\ WalkOK(bd', walk', before, disk'.writable) /\ bd' \in BdTypes
         /\ BusyOf(bd', walk', before) /\ PagesOK(bd', main', before)
         /\ ReadStill(bd', walk', before, file', disk')
    BY <1>2, <2>0, <2>2, <2>6, <2>9 DEF WalkTypes, WalkOK, BusyOf, PagesOK, ReadStill
  <2>11. ReadsOK(file', disk', walk', truth', onFile')
    <3>1. \A n \in BlockNos :
            /\ FileBlock(file, disk, n) \in onFile[n]
            /\ disk.written[n] # NotKept => disk.written[n] \in truth[n]
            /\ disk.written[n] = NotKept => FileBlock(file, disk, n) \in truth[n]
      BY <1>3, <1>5, <1>11, HalfIs DEF ReadsOK
    <3>2. \A n, set : HalfOf(walk', n, set) = IF n = b THEN {<<data[1], o[2]>> : o \in set} ELSE set
      BY <2>3, <2>6, <2>7, <2>8 DEF HalfOf
    <3>3. ASSUME NEW n \in BlockNos, NEW set, FileBlock(file, disk, n) \in set
          PROVE  FileBlock(file', disk', n) \in HalfOf(walk', n, set)
      BY <1>10, <1>11, <3>2, <3>3
    <3>4. \A n \in BlockNos : disk'.written[n] = disk.written[n]
      BY <1>9, <1>11
    <3> QED
      BY <2>2, <3>1, <3>3, <3>4 DEF ReadsOK
  <2> QED
    BY <1>1, <1>3, <1>8, <1>9, <2>2, <2>10, <2>11, MovedKeeps
<1>12. CASE i = 1
  <2>1. BlockPut(t) /\ truth' = [truth EXCEPT ![b] = {data}] /\ onFile' = [onFile EXCEPT ![b] = {data}]
    BY <1>1, <1>12
  <2>2. /\ bd' \in BdTypes /\ WalkTypes(walk') /\ HalfWritten(walk') = {}
        /\ bd'.cmd = "write" /\ BusyOf(bd', walk', before)
        /\ WalkOK(bd', walk', before, disk'.writable)
    BY <1>1, <2>1, BlockPutKeeps DEF t
  <2>3. {data} \in SUBSET Pairs
    BY <1>2
  <2>4. /\ truth' \in ReadSets /\ \A n \in BlockNos : truth'[n] = IF n = b THEN {data} ELSE truth[n]
        /\ onFile' \in ReadSets /\ \A n \in BlockNos : onFile'[n] = IF n = b THEN {data} ELSE onFile[n]
    BY <1>3, <2>1, <2>3 DEF ReadSets
  <2>5. FileBlock(file', disk', b) = data
    <3>1. FileBlock(file, disk, b) \in HalfOf(walk, b, onFile[b])
      BY <1>2, <1>3 DEF ReadsOK
    <3>2. HalfOf(walk, b, onFile[b]) = {<<data[1], o[2]>> : o \in onFile[b]}
      BY <1>5, <1>12 DEF HalfOf, t, data
    <3>3. FileBlock(file, disk, b)[1] = data[1]
      BY <3>1, <3>2
    <3> QED
      BY <1>6, <1>10, <1>12, <3>3
  <2>6. \A n \in BlockNos : n # b =>
          /\ FileBlock(file, disk, n) \in onFile[n]
          /\ disk.written[n] # NotKept => disk.written[n] \in truth[n]
          /\ disk.written[n] = NotKept => FileBlock(file, disk, n) \in truth[n]
    <3>1. \A n, set : n # b => HalfOf(walk, n, set) = set
      BY <1>5, <1>12 DEF HalfOf
    <3> QED
      BY <1>3, <3>1 DEF ReadsOK
  <2>7. ReadsOK(file', disk', walk', truth', onFile')
    <3>1. ASSUME NEW n \in BlockNos
          PROVE  /\ FileBlock(file', disk', n) \in onFile'[n]
                 /\ disk'.written[n] # NotKept => disk'.written[n] \in truth'[n]
                 /\ disk'.written[n] = NotKept => FileBlock(file', disk', n) \in truth'[n]
      <4>1. CASE n = b
        BY <1>9, <1>12, <2>4, <2>5, <4>1
      <4>2. CASE n # b
        BY <1>9, <1>10, <2>4, <2>6, <4>2
      <4> QED
        BY <4>1, <4>2
    <3> QED
      BY <2>2, <3>1, HalfIs DEF ReadsOK
  <2>8. PagesOK(bd', main', before) /\ ReadStill(bd', walk', before, file', disk')
    BY <2>2 DEF PagesOK, ReadStill
  <2> QED
    BY <1>1, <1>3, <1>8, <1>9, <2>2, <2>4, <2>7, <2>8, MovedKeeps
<1> QED
  BY <1>2, <1>11, <1>12

\* What the file's block reads after a cut: sector for sector the old or the new.
LEMMA CutKeeps ==
    ASSUME BlockInv, NEW n \in Nat, NEW torn \in Nat, NEW half \in BOOLEAN, Cut(n, torn, half)
    PROVE  LET t == Head(walk.todo) IN
           /\ walk.k = "walk" /\ walk.todo # <<>> /\ t.block \in BlockNos /\ walk.block <= t.block
           /\ bd.cmd = "write"
           /\ ImageOK(file', disk.img) /\ onFile' \in ReadSets
           /\ \A m \in BlockNos : FileBlock(file', disk, m) \in onFile'[m]
           /\ \A m \in BlockNos : disk.written[m] # NotKept => disk.written[m] \in truth[m]
           /\ \A m \in BlockNos : disk.written[m] = NotKept =>
                 FileBlock(file', disk, m) \in IF m = t.block THEN OldOrNew(truth[m], t.data) ELSE truth[m]
           /\ \A set : set \subseteq Pairs => OldOrNew(set, t.data) \subseteq Pairs
<1> DEFINE t == Head(walk.todo)
           b == t.block
           i == t.sector
           data == t.data
           s == 2 * b + i
           v == data[i + 1]
           ws == WriteSector(disk.img, s, v)
<1>1. /\ walk.k = "walk" /\ walk.todo # <<>> /\ disk.writable
      /\ n < Len(ws) /\ file' = CutAt(file, ws, n, torn, half)
      /\ onFile' = [onFile EXCEPT ![b] = OldOrNew(onFile[b], data)]
  BY DEF Cut, TheWrites
<1>2. b \in BlockNos /\ data \in Pairs /\ i \in {0, 1} /\ bd.cmd = "write" /\ walk.block <= b
  BY <1>1, TodoIs
<1>3. truth \in ReadSets /\ onFile \in ReadSets
      /\ ImageOK(file, disk.img) /\ ReadsOK(file, disk, walk, truth, onFile)
  BY DEF BlockInv, BlockTypes
<1>4. HalfWritten(walk) = IF i = 1 THEN {b} ELSE {}
  BY <1>1 DEF HalfWritten
<1>5. data = <<data[1], data[2]>> /\ data[1] \in SectorData /\ data[2] \in SectorData
      /\ Torn \in SectorData
  BY <1>2, PairIs DEF SectorData
<1> HIDE DEF t, b, i, data
<1>6. v \in SectorData /\ s \in Sectors
  BY <1>2, <1>5, SectorOf
<1>7. /\ ImageOK(file', disk.img)
      /\ SectorRead(file', disk.img, s) \in {SectorRead(file, disk.img, s), Torn}
      /\ \A r \in Sectors : r # s => SectorRead(file', disk.img, r) = SectorRead(file, disk.img, r)
  <2> HIDE DEF s, v
  <2> QED
    BY <1>1, <1>3, <1>6, SectorCut
<1> DEFINE old == FileBlock(file, disk, b)
           new == SectorRead(file', disk.img, s)
<1>8. /\ \A m \in BlockNos : m # b => FileBlock(file', disk, m) = FileBlock(file, disk, m)
      /\ i = 0 => FileBlock(file', disk, b) = <<new, old[2]>>
      /\ i = 1 => FileBlock(file', disk, b) = <<old[1], new>>
  <2>1. \A r \in Sectors : r # 2 * b + i => SectorRead(file', disk.img, r) = SectorRead(file, disk.img, r)
    BY <1>7
  <2> HIDE DEF v, s
  <2> QED
    BY <1>2, <2>1, OneChanged DEF s
<1>9. (i = 0 => new \in {old[1], Torn}) /\ (i = 1 => new \in {old[2], Torn})
  <2>1. b \in Nat
    BY <1>2 DEF BlockNos
  <2>2. (i = 0 => s = 2 * b) /\ (i = 1 => s = 2 * b + 1)
    BY <2>1
  <2>3. old[1] = SectorRead(file, disk.img, 2 * b) /\ old[2] = SectorRead(file, disk.img, 2 * b + 1)
    BY DEF FileBlock
  <2> HIDE DEF s, old
  <2> QED
    BY <1>7, <2>2, <2>3
<1>10. old = <<old[1], old[2]>>
  BY DEF FileBlock
<1> HIDE DEF s, v, ws, old, new
<1>11. ASSUME NEW set, old \in HalfOf(walk, b, set)
       PROVE  FileBlock(file', disk, b) \in OldOrNew(set, data)
  <2>1. CASE i = 0
    <3>1. old \in set
      BY <1>4, <1>11, <2>1, HalfIs
    <3>2. FileBlock(file', disk, b) = <<new, old[2]>> /\ new \in {old[1], Torn}
      BY <1>8, <1>9, <2>1
    <3>3. new \in {o[1] : o \in set} \cup {data[1], Torn} /\ old[2] \in {o[2] : o \in set} \cup {data[2], Torn}
      BY <3>1, <3>2
    <3> QED
      BY <3>2, <3>3 DEF OldOrNew
  <2>2. CASE i = 1
    <3>1. HalfOf(walk, b, set) = {<<data[1], o[2]>> : o \in set}
      BY <1>4, <2>2 DEF HalfOf, t, data
    <3>2. PICK o \in set : old = <<data[1], o[2]>>
      BY <1>11, <3>1
    <3>3. FileBlock(file', disk, b) = <<old[1], new>> /\ new \in {old[2], Torn}
      BY <1>8, <1>9, <2>2
    <3>4. old[1] = data[1] /\ old[2] = o[2]
      BY <3>2
    <3>5. old[1] \in {p[1] : p \in set} \cup {data[1], Torn} /\ new \in {p[2] : p \in set} \cup {data[2], Torn}
      BY <3>3, <3>4
    <3> QED
      BY <3>3, <3>5 DEF OldOrNew
  <2> QED
    BY <1>2, <2>1, <2>2
<1>12. ASSUME NEW set, set \subseteq Pairs
       PROVE  OldOrNew(set, data) \subseteq Pairs
  <2>1. \A o \in set : o[1] \in SectorData /\ o[2] \in SectorData
    BY <1>12, PairIs
  <2> QED
    BY <1>5, <2>1 DEF OldOrNew, Pairs
<1>13. onFile' \in ReadSets
       /\ \A m \in BlockNos : onFile'[m] = IF m = b THEN OldOrNew(onFile[b], data) ELSE onFile[m]
  <2>1. OldOrNew(onFile[b], data) \in SUBSET Pairs
    BY <1>2, <1>3, <1>12 DEF ReadSets
  <2> QED
    BY <1>1, <1>3, <2>1 DEF ReadSets
<1>14. \A m, set : m # b => HalfOf(walk, m, set) = set
  BY <1>4 DEF HalfOf
<1>15. ASSUME NEW m \in BlockNos
       PROVE  /\ FileBlock(file', disk, m) \in onFile'[m]
              /\ disk.written[m] # NotKept => disk.written[m] \in truth[m]
              /\ disk.written[m] = NotKept =>
                   FileBlock(file', disk, m) \in IF m = b THEN OldOrNew(truth[m], data) ELSE truth[m]
  <2>1. /\ FileBlock(file, disk, m) \in HalfOf(walk, m, onFile[m])
        /\ disk.written[m] # NotKept => disk.written[m] \in truth[m]
        /\ disk.written[m] = NotKept => FileBlock(file, disk, m) \in HalfOf(walk, m, truth[m])
    BY <1>3 DEF ReadsOK
  <2>2. CASE m = b
    BY <1>11, <1>13, <2>1, <2>2 DEF old
  <2>3. CASE m # b
    BY <1>8, <1>13, <1>14, <2>1, <2>3
  <2> QED
    BY <2>2, <2>3
<1> QED
  BY <1>1, <1>2, <1>7, <1>12, <1>13, <1>15 DEF t, b, data

\* A write the host refuses.
LEMMA RefusedKeeps ==
    ASSUME BlockInv, NEW n \in Nat, NEW torn \in Nat, NEW half \in BOOLEAN,
           WalkRefused(n, torn, half)
    PROVE  BlockInv'
<1> DEFINE t == Head(walk.todo)
           b == t.block
<1>1. /\ Cut(n, torn, half)
      /\ truth' = [truth EXCEPT ![b] = IF disk.written[b] = NotKept THEN OldOrNew(truth[b], t.data) ELSE truth[b]]
      /\ PastEnd(bd, b)
      /\ UNCHANGED <<main, disk, before, saved>>
  BY DEF WalkRefused
<1>2. /\ walk.k = "walk" /\ walk.todo # <<>> /\ b \in BlockNos /\ walk.block <= b
      /\ bd.cmd = "write"
      /\ ImageOK(file', disk.img) /\ onFile' \in ReadSets
      /\ \A m \in BlockNos : FileBlock(file', disk, m) \in onFile'[m]
      /\ \A m \in BlockNos : disk.written[m] # NotKept => disk.written[m] \in truth[m]
      /\ \A m \in BlockNos : disk.written[m] = NotKept =>
            FileBlock(file', disk, m) \in IF m = b THEN OldOrNew(truth[m], t.data) ELSE truth[m]
      /\ \A set : set \subseteq Pairs => OldOrNew(set, t.data) \subseteq Pairs
  BY <1>1, CutKeeps
<1> DEFINE data == t.data
<1> HIDE DEF t, b, data
<1>3. truth \in ReadSets /\ DiskTypesOK(disk) /\ main \in MainTypes
  BY DEF BlockInv, BlockTypes
<1>4. /\ walk \in [k : {"walk"}, block : Nat, entry : Nat, moved : Nat, todo : Seq(Writes)]
      /\ before.k = "start" /\ before.da \in Nat /\ before.da <= walk.block
      /\ walk.moved = walk.block - before.da /\ bd \in BdTypes /\ WalkTypes(walk)
  BY <1>2, WalkingIs
<1>5. b \in Nat
  BY <1>2 DEF BlockNos
<1>6. bd' \in BdTypes /\ walk' = NoWalk /\ bd'.cmd = bd.cmd /\ BusyOf(bd', walk', before)
  BY <1>1, <1>2, <1>4, <1>5, PastEndKeeps
<1>7. truth' \in ReadSets /\ \A m \in BlockNos : truth'[m] =
         IF m = b /\ disk.written[b] = NotKept THEN OldOrNew(truth[b], data) ELSE truth[m]
  <2> DEFINE new == IF disk.written[b] = NotKept THEN OldOrNew(truth[b], data) ELSE truth[b]
  <2>1. new \in SUBSET Pairs
    <3>1. truth[b] \subseteq Pairs
      BY <1>2, <1>3 DEF ReadSets
    <3> QED
      BY <1>2, <3>1 DEF data
  <2>2. truth' = [truth EXCEPT ![b] = new]
    BY <1>1 DEF data
  <2> HIDE DEF new
  <2>3. truth' \in ReadSets /\ \A m \in BlockNos : truth'[m] = IF m = b THEN new ELSE truth[m]
    BY <1>3, <2>1, <2>2 DEF ReadSets
  <2> QED
    BY <2>3 DEF new
<1>8. ReadsOK(file', disk', walk', truth', onFile')
  <2>1. ASSUME NEW m \in BlockNos
        PROVE  /\ FileBlock(file', disk, m) \in onFile'[m]
               /\ disk.written[m] # NotKept => disk.written[m] \in truth'[m]
               /\ disk.written[m] = NotKept => FileBlock(file', disk, m) \in truth'[m]
    BY <1>2, <1>7 DEF data
  <2> QED
    BY <1>1, <1>6, <2>1, IdleIs, HalfIs DEF ReadsOK
<1>9. /\ WalkOK(bd', walk', before, disk'.writable) /\ WalkTypes(walk')
      /\ PagesOK(bd', main', before) /\ ReadStill(bd', walk', before, file', disk')
  BY <1>2, <1>6, IdleIs DEF WalkOK, PagesOK, ReadStill
<1> QED
  BY <1>1, <1>2, <1>3, <1>6, <1>7, <1>8, <1>9, MovedKeeps

\* A run killed inside START, and a new one on what the file holds.
LEMMA KilledKeeps ==
    ASSUME BlockInv, NEW n \in Nat, NEW torn \in Nat, NEW half \in BOOLEAN, NEW w \in BOOLEAN,
           WalkKilled(n, torn, half, w)
    PROVE  BlockInv'
<1>1. /\ Cut(n, torn, half)
      /\ disk' = DiskOpen(file', w) /\ truth' = onFile'
      /\ bd' = BdNew /\ walk' = NoWalk
      /\ main' = [a \in DOMAIN main |-> Word(0, 0)]
      /\ before' = BlockNone /\ saved' = saved
  BY DEF WalkKilled
<1>2. /\ ImageOK(file', disk.img) /\ onFile' \in ReadSets
      /\ \A m \in BlockNos : FileBlock(file', disk, m) \in onFile'[m]
  BY <1>1, CutKeeps
<1> DEFINE none == [m \in 0 .. Blocks - 1 |-> NotKept]
<1>3. none \in KeptTypes /\ disk' = [img |-> DynamicOpen(file'), writable |-> w, written |-> none]
  BY <1>1 DEF DiskOpen, KeptTypes, PairsKept, BlockNos
<1> HIDE DEF none
<1>4. /\ ImageOK(file', disk'.img) /\ DiskTypesOK(disk') /\ disk'.written = none
      /\ \A m : FileBlock(file', disk', m) = FileBlock(file', disk, m)
  BY <1>2, <1>3, OpenedKeeps
<1>5. ReadsOK(file', disk', walk', truth', onFile')
  <2>1. \A m \in BlockNos : disk'.written[m] = NotKept
    BY <1>4 DEF none, BlockNos
  <2> QED
    BY <1>1, <1>2, <1>4, <2>1, IdleIs, HalfIs DEF ReadsOK
<1>6. main' \in MainTypes
  BY <1>1 DEF BlockInv, BlockTypes, MainTypes, Cells, SectorData, Word
<1>7. bd' \in BdTypes
  BY <1>1, BdNewIs
<1> QED
  BY <1>1, <1>2, <1>4, <1>5, <1>6, <1>7, IdleIs
     DEF BlockInv, BlockTypes, BeforeTypes, WalkOK, PagesOK, ReadStill, BusyOf, BlockNone

\* Every step of the block-disk.
LEMMA BlockNextKeeps == BlockInv /\ BlockDiskNext => BlockInv'
<1> SUFFICES ASSUME BlockInv, BlockDiskNext PROVE BlockInv'
  OBVIOUS
<1>1. CASE \E job \in Jobs : Program(job)
  BY <1>1, ProgramKeeps
<1>2. CASE Start
  BY <1>2, StartKeeps
<1>3. CASE WalkEntry
  BY <1>3, EntryKeeps
<1>4. CASE WalkKeep
  BY <1>4, KeepKeeps
<1>5. CASE WalkSector
  BY <1>5, SectorKeeps
<1>6. CASE \E n \in 0 .. 2, torn \in {0, 2}, half \in BOOLEAN : WalkRefused(n, torn, half)
  BY <1>6, RefusedKeeps
<1>7. CASE \E n \in 0 .. 2, torn \in {0, 2}, half \in BOOLEAN, w \in BOOLEAN :
              WalkKilled(n, torn, half, w)
  BY <1>7, KilledKeeps
<1>8. CASE BlockAdvance
  BY <1>8, AdvanceKeeps
<1>9. CASE XbusInit
  BY <1>9, InitKeeps
<1>10. CASE BlockSave
  BY <1>10, SaveKeeps
<1>11. CASE \E w \in BOOLEAN : BlockResume(w)
  BY <1>11, ResumeKeeps
<1> QED
  BY <1>1, <1>2, <1>3, <1>4, <1>5, <1>6, <1>7, <1>8, <1>9, <1>10, <1>11 DEF BlockDiskNext

\* Every step of something else.
LEMMA BlockStutterKeeps == BlockInv /\ UNCHANGED blockDiskVars => BlockInv'
<1> SUFFICES ASSUME BlockInv, UNCHANGED blockDiskVars PROVE BlockInv'
  OBVIOUS
<1> USE DEF blockDiskVars
<1>1. BlockTypes' /\ WalkOK(bd, walk, before, disk.writable)'
  BY DEF BlockInv, BlockTypes
<1> QED
  BY <1>1 DEF BlockInv

-----------------------------------------------------------------------------
\* The block-disk is right for every size of disk, file and memory, every list
\* of commands and however often the file is cut: a block reads back what was
\* written, the file's blocks lie apart, the busy time is what was moved, and a
\* page of memory is whole.
THEOREM BlockDiskSafe == Spec => []DiskKept
<1>1. Init => BlockInv
  BY BlockInitInv DEF Init
<1>2. BlockInv /\ [Next]_quuxVars => BlockInv'
  <2> SUFFICES ASSUME BlockInv, [Next]_quuxVars PROVE BlockInv'
    OBVIOUS
  <2>1. BlockDiskNext \/ UNCHANGED blockDiskVars
    BY DEF Next, quuxVars
  <2> QED
    BY <2>1, BlockNextKeeps, BlockStutterKeeps
<1>3. BlockInv => DiskKept
  BY BlockInvReadsBack, BlockInvApart, BlockInvBusy, BlockInvPages DEF DiskKept
<1> QED
  BY <1>1, <1>2, <1>3, PTL DEF Spec
=============================================================================

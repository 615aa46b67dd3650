--------------------------- MODULE ChaosnetProofs ---------------------------
(***************************************************************************)
(* Theorems about Chaosnet, for any addresses, any number of datagrams,    *)
(* software accesses and resumes, any DRAIN and any TRANSMIT_TRIES.        *)
(***************************************************************************)
EXTENDS Chaosnet, SequenceTheorems, TLAPS

USE DEF iface, cable, chudp, history, sentOn, takenIn, vars

(* The constant values the variables start from and return to.             *)
LEMMA ConstantValues ==
  /\ NoFrame \in Frame /\ Silent \in BoardSends /\ Quiet \in NodeSends
  /\ IdleLine \in Runs /\ EmptyRcv \in Buffered
  /\ 0 \in 0..(LostCounts - 1)
BY BoundAssumption
DEF NoFrame, Frame, Silent, Quiet, IdleLine, EmptyRcv, BoardSends, NodeSends, Runs,
    Buffered

(* Lost Count stays within its bits when it steps.                         *)
LEMMA LostStays ==
  ASSUME lost \in 0..(LostCounts - 1)
  PROVE  LostOneMore \in 0..(LostCounts - 1)
BY BoundAssumption DEF LostOneMore

(* What landing does keeps the types of what it touches.                   *)
LEMMA ArriveTypes ==
  ASSUME TypeOK, NEW from \in {"node", "board"}, NEW f \in Frame,
         NEW ok \in BOOLEAN, Arrive(from, f, ok)
  PROVE  /\ rcv' \in Buffered
         /\ receive_done' \in BOOLEAN /\ lost' \in 0..(LostCounts - 1)
         /\ cable_full' \in BOOLEAN /\ cable_spy' \in BOOLEAN
         /\ taken' \in Nat /\ takes' \in Nat
<1> USE DEF TypeOK, IfaceOK, CableOK, HistoryOK
<1>1. CASE ~Mine(f.dest) /\ Unheard
  BY <1>1 DEF Unheard
<1>2. CASE /\ Mine(f.dest) /\ receive_done
           /\ lost' = LostOneMore
           /\ UNCHANGED <<rcv, receive_done, cable_full, cable_spy, takenIn>>
  BY <1>2, LostStays
<1>3. CASE Mine(f.dest) /\ ~receive_done /\ Take(from, f, ok) /\ UNCHANGED lost
  BY <1>3 DEF Take, Frame, Buffered
<1> QED BY <1>1, <1>2, <1>3 DEF Arrive

(* A frame with its count of tries changed.                                *)
LEMMA FrameTries ==
  ASSUME NEW f \in Frame, NEW k \in Nat
  PROVE  /\ [f EXCEPT !.try = k] \in Frame
         /\ [f EXCEPT !.try = k].id = f.id
         /\ [f EXCEPT !.try = k].dest = f.dest
         /\ [f EXCEPT !.try = k].try = k
BY DEF Frame

(* The node's two queues around one Ask: what is offered was the oldest,   *)
(* and the rest keeps its order.                                           *)
LEMMA AskQueues ==
  ASSUME TypeOK, Ask
  PROVE  /\ out' \in Seq(Frame) /\ sock' \in Seq(Frame)
         /\ waiting' \in Frame /\ tries' \in Nat /\ waiting'.try = tries'
         /\ Len(out) + Len(sock) = Len(out') + Len(sock') + 1
         /\ Len(sock') <= Len(sock)
         /\ \A i \in 1..Len(out') :
              out'[i] = IF i + 1 <= Len(out) THEN out[i + 1] ELSE sock[i + 1 - Len(out)]
         /\ \A i \in 1..Len(sock') : sock'[i] = sock[i + Len(sock) - Len(sock')]
         /\ waiting'.id = IF Len(out) > 0 THEN out[1].id ELSE sock[1].id
         /\ waiting'.dest = IF Len(out) > 0 THEN out[1].dest ELSE sock[1].dest
         /\ tries' = 1 + IF Len(out) > 0 THEN out[1].try ELSE sock[1].try
<1> DEFINE n == IF Len(sock) < Drain THEN Len(sock) ELSE Drain
           part == SubSeq(sock, 1, n)
           rest == SubSeq(sock, n + 1, Len(sock))
           queued == out \o part
<1> USE DEF TypeOK, ChudpOK
<1>1. n \in Nat /\ n <= Len(sock) /\ Len(sock) \in Nat /\ Len(out) \in Nat
  BY BoundAssumption, LenProperties
<1>2. \A i \in 1..Len(sock) : sock[i] \in Frame
  BY ElementOfSeq
<1>3. /\ part \in Seq(Frame) /\ Len(part) = n
      /\ \A i \in 1..n : part[i] = sock[i]
  BY <1>1, <1>2, SubSeqProperties
<1>4. /\ rest \in Seq(Frame) /\ Len(rest) = Len(sock) - n
      /\ \A i \in 1..Len(rest) : rest[i] = sock[i + n]
  BY <1>1, <1>2, SubSeqProperties
<1> HIDE DEF n, part, rest
<1>5. /\ queued \in Seq(Frame) /\ Len(queued) = Len(out) + n
      /\ \A i \in 1..Len(queued) :
           queued[i] = IF i <= Len(out) THEN out[i] ELSE sock[i - Len(out)]
  <2>1. /\ queued \in Seq(Frame) /\ Len(queued) = Len(out) + n
        /\ \A i \in 1..(Len(out) + n) :
             queued[i] = IF i <= Len(out) THEN out[i] ELSE part[i - Len(out)]
    BY <1>3, ConcatProperties, Zenon
  <2>2. ASSUME NEW i \in 1..(Len(out) + n), ~(i <= Len(out))
        PROVE  i - Len(out) \in 1..n
    BY <1>1, <2>2
  <2> HIDE DEF queued
  <2> QED BY <1>3, <2>1, <2>2, Zenon
<1>6. /\ Len(queued) > 0 /\ sock' = rest /\ out' = Tail(queued)
      /\ tries' = Head(queued).try + 1
      /\ waiting' = [Head(queued) EXCEPT !.try = @ + 1]
  BY DEF Ask, n, part, rest
<1> HIDE DEF queued
<1>7. /\ Head(queued) \in Frame /\ Tail(queued) \in Seq(Frame)
      /\ Len(Tail(queued)) = Len(queued) - 1
      /\ \A i \in 1..Len(Tail(queued)) : Tail(queued)[i] = queued[i + 1]
  BY <1>5, <1>6, HeadTailProperties, EmptySeq
<1>8. Head(queued) = queued[1]
  BY <1>5, <1>6
<1>9. out' \in Seq(Frame) /\ sock' \in Seq(Frame)
  BY <1>4, <1>6, <1>7
<1>10. Len(out') = Len(out) + n - 1 /\ Len(sock') = Len(sock) - n
  BY <1>1, <1>4, <1>5, <1>6, <1>7
<1>11. /\ Len(out) + Len(sock) = Len(out') + Len(sock') + 1
       /\ Len(sock') <= Len(sock)
  BY <1>1, <1>10
<1> DEFINE h == Head(queued)
<1>12. waiting' \in Frame /\ tries' \in Nat /\ waiting'.try = tries'
       /\ waiting'.id = h.id /\ waiting'.dest = h.dest
       /\ h.try \in Nat /\ tries' = h.try + 1
  <2>1. h \in Frame
    BY <1>7
  <2>2. tries' = h.try + 1 /\ waiting' = [h EXCEPT !.try = h.try + 1]
    BY <1>6
  <2> HIDE DEF h
  <2>3. h.try \in Nat
    BY <2>1 DEF Frame
  <2> QED BY <2>1, <2>2, <2>3, FrameTries
<1>13. \A i \in 1..Len(out') :
         out'[i] = IF i + 1 <= Len(out) THEN out[i + 1] ELSE sock[i + 1 - Len(out)]
  BY <1>1, <1>5, <1>6, <1>7
<1>14. \A i \in 1..Len(sock') : sock'[i] = sock[i + Len(sock) - Len(sock')]
  BY <1>1, <1>4, <1>6
<1>15. /\ waiting'.id = IF Len(out) > 0 THEN out[1].id ELSE sock[1].id
       /\ waiting'.dest = IF Len(out) > 0 THEN out[1].dest ELSE sock[1].dest
       /\ tries' = 1 + IF Len(out) > 0 THEN out[1].try ELSE sock[1].try
  <2>1. h = IF 1 <= Len(out) THEN out[1] ELSE sock[1 - Len(out)]
    <3>1. 1 \in 1..Len(queued)
      BY <1>1, <1>5, <1>6
    <3> QED BY <3>1, <1>5, <1>8
  <2> HIDE DEF h
  <2>2. CASE Len(out) > 0
    BY <1>1, <1>12, <2>1, <2>2
  <2>3. CASE Len(out) = 0
    BY <1>1, <1>12, <2>1, <2>3
  <2> QED BY <1>1, <2>2, <2>3
<1> QED BY <1>9, <1>11, <1>12, <1>13, <1>14, <1>15

(* Power-on has the types.                                                     *)
LEMMA TypeInit == Init => TypeOK
<1> USE ConstantValues DEF Init
<1>1. Init => IfaceOK BY DEF IfaceOK
<1>2. Init => CableOK BY DEF CableOK
<1>3. Init => ChudpOK BY DEF ChudpOK
<1>4. Init => HistoryOK BY DEF HistoryOK
<1> QED BY <1>1, <1>2, <1>3, <1>4 DEF TypeOK

(* Every step keeps the types.                                                 *)
LEMMA TypeNext == TypeOK /\ [Next]_vars => TypeOK'
<1> SUFFICES ASSUME TypeOK, [Next]_vars PROVE TypeOK'
  OBVIOUS
<1> USE ConstantValues DEF TypeOK
<1>1. ASSUME NEW dest \in Dests, WriteBuffer(dest) PROVE TypeOK'
  <2> USE <1>1 DEF WriteBuffer
  <2>1. IfaceOK' BY DEF IfaceOK
  <2>2. CableOK' BY DEF CableOK
  <2>3. ChudpOK' BY DEF ChudpOK
  <2>4. HistoryOK' BY DEF HistoryOK, SoftwareAccess
  <2> QED BY <2>1, <2>2, <2>3, <2>4
<1>2. CASE ReadStart
  <2> USE <1>2 DEF ReadStart
  <2>1. IfaceOK' BY DEF IfaceOK, HistoryOK, Frame
  <2>2. CableOK' BY DEF CableOK
  <2>3. ChudpOK' BY DEF ChudpOK
  <2>4. HistoryOK' BY DEF HistoryOK, SoftwareAccess
  <2> QED BY <2>1, <2>2, <2>3, <2>4
<1>3. ASSUME NEW l \in BOOLEAN, NEW s \in BOOLEAN, NEW r \in BOOLEAN,
             NEW cr \in BOOLEAN, NEW ct \in BOOLEAN, WriteCsr(l, s, r, cr, ct)
      PROVE TypeOK'
  <2> USE <1>3 DEF WriteCsr
  <2>1. IfaceOK'
    <3> USE DEF IfaceOK
    <3>1. loop' \in BOOLEAN /\ spy' \in BOOLEAN /\ receive_done' \in BOOLEAN
      OBVIOUS
    <3>2. /\ transmit_done' \in BOOLEAN /\ transmit_abort' \in BOOLEAN
          /\ tdone' \in BOOLEAN /\ loopBusy' \in BOOLEAN
      OBVIOUS
    <3>3. lost' \in 0..(LostCounts - 1)
      OBVIOUS
    <3>4. rcv' \in Buffered /\ xmit' \in Dests \cup {Nowhere}
      OBVIOUS
    <3>5. ready' \in Frame /\ looped' \in Frame
      OBVIOUS
    <3> QED BY <3>1, <3>2, <3>3, <3>4, <3>5
  <2>2. CableOK'
    <3>1. cable_full' \in BOOLEAN /\ cable_spy' \in BOOLEAN
      BY <2>1 DEF TellTheCable, IfaceOK
    <3> QED BY <3>1 DEF CableOK
  <2>3. ChudpOK' BY DEF ChudpOK
  <2>4. HistoryOK' BY DEF HistoryOK, SoftwareAccess
  <2> QED BY <2>1, <2>2, <2>3, <2>4
<1>4. CASE TransmitDone
  <2> USE <1>4 DEF TransmitDone
  <2>1. IfaceOK' BY DEF IfaceOK
  <2>2. CableOK' BY DEF CableOK
  <2>3. ChudpOK' BY DEF ChudpOK
  <2>4. HistoryOK' BY DEF HistoryOK
  <2> QED BY <2>1, <2>2, <2>3, <2>4
<1>5. CASE Launch
  <2> USE <1>5 DEF Launch
  <2>1. IfaceOK'
    <3>1. CASE loop BY <3>1 DEF IfaceOK, TakeReady
    <3>2. CASE ~loop BY <3>2 DEF IfaceOK, TakeReady
    <3> QED BY <3>1, <3>2
  <2>2. CableOK' BY DEF CableOK, IfaceOK
  <2>3. ChudpOK' BY DEF ChudpOK
  <2>4. HistoryOK' BY DEF HistoryOK
  <2> QED BY <2>1, <2>2, <2>3, <2>4
<1>6. CASE LoopOver
  <2>1. /\ rcv' \in Buffered
        /\ receive_done' \in BOOLEAN /\ lost' \in 0..(LostCounts - 1)
        /\ cable_full' \in BOOLEAN /\ cable_spy' \in BOOLEAN
        /\ taken' \in Nat /\ takes' \in Nat
    <3>1. CASE Arrive("board", looped, TRUE)
      BY <3>1, ArriveTypes DEF IfaceOK
    <3>2. CASE Unheard
      BY <3>2 DEF Unheard, IfaceOK, CableOK, HistoryOK
    <3> QED BY <1>6, <3>1, <3>2 DEF LoopOver
  <2> USE <1>6, <2>1 DEF LoopOver
  <2>2. IfaceOK' BY DEF IfaceOK
  <2>3. CableOK' BY DEF CableOK
  <2>4. ChudpOK' BY DEF ChudpOK
  <2>5. HistoryOK' BY DEF HistoryOK
  <2> QED BY <2>2, <2>3, <2>4, <2>5
<1>7. CASE BoardStart
  <2> USE <1>7 DEF BoardStart
  <2>1. IfaceOK' BY DEF IfaceOK, OwnFrameStarted
  <2>2. CableOK'
    <3>1. pending' \in Frame /\ boardTx' \in BoardSends
      BY DEF CableOK, BoardSends
    <3>2. run' \in Runs
      BY DEF CableOK, Begun, Runs
    <3> QED BY <3>1, <3>2 DEF CableOK
  <2>3. ChudpOK' BY DEF ChudpOK
  <2>4. HistoryOK' BY DEF HistoryOK
  <2> QED BY <2>1, <2>2, <2>3, <2>4
<1>8. CASE NodeStart
  <2> USE <1>8 DEF NodeStart
  <2>1. IfaceOK' BY DEF IfaceOK
  <2>2. CableOK'
    <3>1. nodeTx' \in NodeSends
      BY DEF ChudpOK, IfaceOK, NodeSends
    <3>2. run' \in Runs
      BY DEF ChudpOK, IfaceOK, Begun, Runs
    <3> QED BY <3>1, <3>2 DEF CableOK
  <2>3. ChudpOK' BY DEF ChudpOK
  <2>4. HistoryOK' BY DEF HistoryOK
  <2> QED BY <2>1, <2>2, <2>3, <2>4
<1>9. CASE Ract
  <2> USE <1>9 DEF Ract
  <2>1. IfaceOK' BY DEF IfaceOK
  <2>2. CableOK' BY DEF CableOK, NodeSends, Runs
  <2>3. ChudpOK' BY DEF ChudpOK
  <2>4. HistoryOK' BY DEF HistoryOK
  <2> QED BY <2>1, <2>2, <2>3, <2>4
<1>10. CASE DestWord
  <2> USE <1>10 DEF DestWord
  <2>1. IfaceOK'
    <3>1. lost' \in 0..(LostCounts - 1)
      BY LostStays DEF IfaceOK
    <3> QED BY <3>1 DEF IfaceOK
  <2>2. CableOK' BY DEF CableOK, NodeSends, Runs
  <2>3. ChudpOK' BY DEF ChudpOK
  <2>4. HistoryOK' BY DEF HistoryOK
  <2> QED BY <2>1, <2>2, <2>3, <2>4
<1>11. CASE NodeAbort
  <2> USE <1>11 DEF NodeAbort
  <2>1. IfaceOK' BY DEF IfaceOK
  <2>2. CableOK' BY DEF CableOK, NodeSends, Runs
  <2>3. ChudpOK'
    <3>1. [nodeTx.frame EXCEPT !.try = tries] \in Frame
      BY DEF Frame, CableOK, ChudpOK, NodeSends
    <3>2. <<[nodeTx.frame EXCEPT !.try = tries]>> \o out \in Seq(Frame)
      BY <3>1, ConcatProperties DEF ChudpOK
    <3> QED BY <3>2 DEF Again, ChudpOK
  <2>4. HistoryOK' BY DEF HistoryOK
  <2> QED BY <2>1, <2>2, <2>3, <2>4
<1>12. CASE BoardAbort
  <2> USE <1>12 DEF BoardAbort
  <2>1. IfaceOK' BY DEF IfaceOK
  <2>2. CableOK' BY DEF CableOK, BoardSends, Runs
  <2>3. ChudpOK' BY DEF ChudpOK
  <2>4. HistoryOK' BY DEF HistoryOK
  <2> QED BY <2>1, <2>2, <2>3, <2>4
<1>13. CASE NodeOver
  <2> USE <1>13 DEF NodeOver
  <2>1. IfaceOK' BY DEF IfaceOK
  <2>2. CableOK' BY DEF CableOK
  <2>3. ChudpOK' BY DEF ChudpOK
  <2>4. HistoryOK' BY DEF HistoryOK
  <2> QED BY <2>1, <2>2, <2>3, <2>4
<1>14. CASE BoardOver
  <2> USE <1>14 DEF BoardOver
  <2>1. IfaceOK' BY DEF IfaceOK
  <2>2. CableOK' BY DEF CableOK
  <2>3. ChudpOK' BY DEF ChudpOK
  <2>4. HistoryOK' BY DEF HistoryOK
  <2> QED BY <2>1, <2>2, <2>3, <2>4
<1>15. CASE AbortOver
  <2> USE <1>15 DEF AbortOver
  <2>1. IfaceOK' BY DEF IfaceOK
  <2>2. CableOK' BY DEF CableOK
  <2>3. ChudpOK' BY DEF ChudpOK
  <2>4. HistoryOK' BY DEF HistoryOK
  <2> QED BY <2>1, <2>2, <2>3, <2>4
<1>16. CASE RunOver
  <2>1. \A dest \in Dests \cup {Nowhere} : [NoFrame EXCEPT !.dest = dest] \in Frame
    BY DEF NoFrame, Frame
  <2>2. /\ rcv' \in Buffered
        /\ receive_done' \in BOOLEAN /\ lost' \in 0..(LostCounts - 1)
        /\ cable_full' \in BOOLEAN /\ cable_spy' \in BOOLEAN
        /\ taken' \in Nat /\ takes' \in Nat
    <3>1. CASE Unheard
      BY <3>1 DEF Unheard, IfaceOK, CableOK, HistoryOK
    <3>2. CASE Arrive("node", run.frame, TRUE)
      BY <3>2, ArriveTypes DEF CableOK, Runs
    <3>3. CASE \E dest \in Dests \cup {Nowhere} :
                 Arrive("node", [NoFrame EXCEPT !.dest = dest], FALSE)
      <4> PICK dest \in Dests \cup {Nowhere} :
                 Arrive("node", [NoFrame EXCEPT !.dest = dest], FALSE)
        BY <3>3
      <4> QED BY <2>1, ArriveTypes
    <3> QED BY <1>16, <3>1, <3>2, <3>3 DEF RunOver
  <2>3. relayed' \in Nat /\ relays' \in Nat
    BY <1>16 DEF RunOver, HistoryOK, CableOK, Runs, Frame
  <2> USE <1>16 DEF RunOver
  <2>4. IfaceOK' BY <2>2 DEF IfaceOK
  <2>5. CableOK' BY <2>2 DEF CableOK, TakeNotTaken
  <2>6. ChudpOK' BY DEF ChudpOK
  <2>7. HistoryOK' BY <2>2, <2>3 DEF HistoryOK
  <2> QED BY <2>4, <2>5, <2>6, <2>7
<1>17. ASSUME NEW d \in Datagram, SocketArrival(d) PROVE TypeOK'
  <2> USE <1>17 DEF SocketArrival
  <2>1. IfaceOK' BY DEF IfaceOK
  <2>2. CableOK' BY DEF CableOK
  <2>3. ChudpOK'
    <3>1. [id |-> arrived + 1, dest |-> d.dest, try |-> 0] \in Frame
      BY DEF Frame, Datagram, HistoryOK
    <3>2. sock' \in Seq(Frame)
      BY <3>1, AppendProperties DEF ChudpOK
    <3> QED BY <3>2 DEF ChudpOK
  <2>4. HistoryOK' BY DEF HistoryOK
  <2> QED BY <2>1, <2>2, <2>3, <2>4
<1>18. CASE Ask
  <2> USE <1>18, AskQueues DEF Ask
  <2>1. IfaceOK' BY DEF IfaceOK
  <2>2. CableOK' BY DEF CableOK
  <2>3. ChudpOK' BY DEF ChudpOK
  <2>4. HistoryOK' BY DEF HistoryOK
  <2> QED BY <2>1, <2>2, <2>3, <2>4
<1>19. CASE Resume
  <2> USE <1>19 DEF Resume
  <2>1. IfaceOK' BY DEF IfaceOK
  <2>2. CableOK' BY DEF CableOK, IfaceOK
  <2>3. ChudpOK' BY DEF ChudpOK
  <2>4. HistoryOK' BY DEF HistoryOK
  <2> QED BY <2>1, <2>2, <2>3, <2>4
<1>20. CASE UNCHANGED vars
  <2> USE <1>20
  <2>1. IfaceOK' BY DEF IfaceOK
  <2>2. CableOK' BY DEF CableOK
  <2>3. ChudpOK' BY DEF ChudpOK
  <2>4. HistoryOK' BY DEF HistoryOK
  <2> QED BY <2>1, <2>2, <2>3, <2>4
<1> HIDE DEF TypeOK
<1> QED
  BY <1>1, <1>2, <1>3, <1>4, <1>5, <1>6, <1>7, <1>8, <1>9, <1>10, <1>11, <1>12, <1>13, <1>14, <1>15, <1>16, <1>17, <1>18, <1>19, <1>20
  DEF Next, Software, Hardware

(* Every variable keeps its type, Lost Count its four bits among them.     *)
THEOREM TypeCorrect == Spec => []TypeOK
BY TypeInit, TypeNext, PTL DEF Spec

-----------------------------------------------------------------------------
(* The cable.                                                              *)

(* Power-on has the cable invariant.                                           *)
LEMMA CableInvInit == Init => CableInv
<1> SUFFICES ASSUME Init PROVE CableInv
  OBVIOUS
<1>1. run.on = FALSE /\ run.off = FALSE /\ nodeTx.frame = NoFrame
  BY DEF Init, IdleLine, Quiet
<1>2. ReceiverTold /\ not_taken = FALSE
  BY DEF Init, ReceiverTold
<1> QED BY <1>1, <1>2 DEF CableInv, NotTakenIsTheRuns, NodeOn

(* Landing leaves the cable told.                                          *)
LEMMA ArriveTells ==
  ASSUME NEW from, NEW f, NEW ok, ReceiverTold, Arrive(from, f, ok), UNCHANGED spy
  PROVE  ReceiverTold'
BY DEF Arrive, Unheard, Take, ReceiverTold

(* Every step keeps the cable invariant.                                       *)
LEMMA CableInvNext == TypeOK /\ CableInv /\ [Next]_vars => CableInv'
<1> SUFFICES ASSUME TypeOK, CableInv, [Next]_vars PROVE CableInv'
  OBVIOUS
<1> USE DEF CableInv, ReceiverTold, NotTakenIsTheRuns, NodeOn
<1>1. ASSUME NEW dest \in Dests, WriteBuffer(dest) PROVE CableInv'
  BY <1>1 DEF WriteBuffer
<1>2. CASE ReadStart
  BY <1>2 DEF ReadStart
<1>3. ASSUME NEW l \in BOOLEAN, NEW s \in BOOLEAN, NEW r \in BOOLEAN,
             NEW cr \in BOOLEAN, NEW ct \in BOOLEAN, WriteCsr(l, s, r, cr, ct)
      PROVE CableInv'
  BY <1>3 DEF WriteCsr, TellTheCable
<1>4. CASE TransmitDone
  BY <1>4 DEF TransmitDone
<1>5. CASE Launch
  BY <1>5 DEF Launch
<1>6. CASE LoopOver
  <2>1. ReceiverTold'
    BY <1>6, ArriveTells DEF LoopOver, Unheard
  <2> QED BY <1>6, <2>1 DEF LoopOver
<1>7. CASE BoardStart
  <2>1. run.on => run' = [run EXCEPT !.whole = FALSE]
    BY <1>7 DEF BoardStart, Begun
  <2>2. ~run.on => /\ run'.on /\ run'.from = "board" /\ run'.off = FALSE
    BY <1>7 DEF BoardStart, Begun
  <2>3. UNCHANGED <<nodeTx, waiting, not_taken, cable_full, receive_done, cable_spy, spy>>
    BY <1>7 DEF BoardStart
  <2>4. run \in Runs /\ not_taken \in BOOLEAN
    BY DEF TypeOK, CableOK
  <2>5. CASE run.on
    BY <2>1, <2>3, <2>4, <2>5 DEF Runs
  <2>6. CASE ~run.on
    BY <2>2, <2>3, <2>4, <2>6 DEF Runs
  <2> QED BY <2>5, <2>6
<1>8. CASE NodeStart
  <2>1. /\ run'.on = TRUE /\ run'.from = "node" /\ run'.frame = waiting
        /\ run'.off = FALSE
    BY <1>8 DEF NodeStart, Begun
  <2>2. nodeTx'.frame = waiting /\ nodeTx'.held = FALSE
    BY <1>8 DEF NodeStart
  <2>3. not_taken = FALSE /\ not_taken' = not_taken
    BY <1>8 DEF NodeStart, TypeOK, CableOK
  <2>4. ReceiverTold' /\ waiting' = NoFrame
    BY <1>8 DEF NodeStart
  <2> QED BY <2>1, <2>2, <2>3, <2>4
<1>9. CASE Ract
  <2>1. nodeTx'.frame = nodeTx.frame /\ nodeTx'.held = nodeTx.held
    BY <1>9 DEF Ract, TypeOK, CableOK, NodeSends
  <2>2. /\ run'.on = run.on /\ run'.whole = run.whole /\ run'.from = run.from
        /\ run'.frame = run.frame /\ run'.off = (run.off \/ cable_full)
    BY <1>9 DEF Ract, TypeOK, CableOK, Runs
  <2> QED BY <1>9, <2>1, <2>2 DEF Ract
<1>10. CASE DestWord
  <2>1. nodeTx'.frame = nodeTx.frame /\ nodeTx'.held = nodeTx.held
    BY <1>10 DEF DestWord, TypeOK, CableOK, NodeSends
  <2>2. /\ run'.on = run.on /\ run'.whole = run.whole /\ run'.from = run.from
        /\ run'.frame = run.frame /\ run'.off = run.off
    BY <1>10 DEF DestWord, TypeOK, CableOK, Runs
  <2> QED BY <1>10, <2>1, <2>2 DEF DestWord
<1>11. CASE NodeAbort
  <2>1. nodeTx'.frame = nodeTx.frame
    BY <1>11 DEF NodeAbort, TypeOK, CableOK, NodeSends
  <2>2. /\ run'.on = run.on /\ run'.whole = FALSE /\ run'.from = run.from
        /\ run'.frame = run.frame /\ run'.off = run.off
    BY <1>11 DEF NodeAbort, TypeOK, CableOK, Runs
  <2> QED BY <1>11, <2>1, <2>2 DEF NodeAbort
<1>12. CASE BoardAbort
  <2>1. /\ run'.on = run.on /\ run'.whole = FALSE /\ run'.from = run.from
        /\ run'.frame = run.frame /\ run'.off = run.off
    BY <1>12 DEF BoardAbort, TypeOK, CableOK, Runs
  <2> QED BY <1>12, <2>1 DEF BoardAbort
<1>13. CASE NodeOver
  BY <1>13 DEF NodeOver, Quiet
<1>14. CASE BoardOver
  BY <1>14 DEF BoardOver
<1>15. CASE AbortOver
  BY <1>15 DEF AbortOver
<1>16. CASE RunOver
  <2>1. ReceiverTold'
    BY <1>16, ArriveTells DEF RunOver, Unheard
  <2> QED BY <1>16, <2>1 DEF RunOver, IdleLine, TakeNotTaken
<1>17. ASSUME NEW d \in Datagram, SocketArrival(d) PROVE CableInv'
  BY <1>17 DEF SocketArrival
<1>18. CASE Ask
  BY <1>18 DEF Ask
<1>19. CASE Resume
  BY <1>19 DEF Resume, IdleLine, Quiet
<1>20. CASE UNCHANGED vars
  BY <1>20
<1> QED
  BY <1>1, <1>2, <1>3, <1>4, <1>5, <1>6, <1>7, <1>8, <1>9, <1>10, <1>11, <1>12, <1>13, <1>14, <1>15, <1>16, <1>17, <1>18, <1>19, <1>20
  DEF Next, Software, Hardware

(* The ether decides with the receiver as it stands: no write, landing or  *)
(* resume leaves it behind.                                                *)
THEOREM TheCableIsTold == Spec => []ReceiverTold
<1>1. CableInv => ReceiverTold
  BY DEF CableInv
<1> QED BY <1>1, TypeInit, TypeNext, CableInvInit, CableInvNext, PTL DEF Spec

(* not_taken is never left over from one run to the next.                  *)
THEOREM NotTakenBelongs == Spec => []NotTakenIsTheRuns
<1>1. CableInv => NotTakenIsTheRuns
  BY DEF CableInv
<1> QED BY <1>1, TypeInit, TypeNext, CableInvInit, CableInvNext, PTL DEF Spec

-----------------------------------------------------------------------------
(* The tries.                                                              *)

(* Power-on has the invariant of the tries.                                    *)
LEMMA TriesInvInit == Init => TriesInv
<1> SUFFICES ASSUME Init PROVE TriesInv
  OBVIOUS
<1>1. ~NodeOn /\ waiting = NoFrame /\ Len(out) = 0 /\ Len(sock) = 0
  BY DEF Init, NodeOn, Quiet
<1> QED BY <1>1 DEF TriesInv, TriesAreTheFrames

(* A step that leaves the node, its frame and its queues alone.            *)
LEMMA TriesStutter ==
  ASSUME TriesInv, UNCHANGED <<out, sock, waiting, tries>>,
         nodeTx'.frame \in {nodeTx.frame, NoFrame},
         nodeTx'.frame = nodeTx.frame => nodeTx'.held = nodeTx.held
  PROVE  TriesInv'
BY DEF TriesInv, TriesAreTheFrames, NodeOn

(* Every step keeps the invariant of the tries.                                *)
LEMMA TriesInvNext == TypeOK /\ CableInv /\ TriesInv /\ [Next]_vars => TriesInv'
<1> SUFFICES ASSUME TypeOK, CableInv, TriesInv, [Next]_vars PROVE TriesInv'
  OBVIOUS
<1>1. ASSUME NEW dest \in Dests, WriteBuffer(dest) PROVE TriesInv'
  BY <1>1, TriesStutter DEF WriteBuffer
<1>2. CASE ReadStart
  BY <1>2, TriesStutter DEF ReadStart
<1>3. ASSUME NEW l \in BOOLEAN, NEW s \in BOOLEAN, NEW r \in BOOLEAN,
             NEW cr \in BOOLEAN, NEW ct \in BOOLEAN, WriteCsr(l, s, r, cr, ct)
      PROVE TriesInv'
  BY <1>3, TriesStutter DEF WriteCsr
<1>4. CASE TransmitDone
  BY <1>4, TriesStutter DEF TransmitDone
<1>5. CASE Launch
  BY <1>5, TriesStutter DEF Launch
<1>6. CASE LoopOver
  BY <1>6, TriesStutter DEF LoopOver
<1>7. CASE BoardStart
  BY <1>7, TriesStutter DEF BoardStart
<1>8. CASE NodeStart
  <2>1. nodeTx'.frame = waiting /\ waiting # NoFrame /\ waiting' = NoFrame
    BY <1>8 DEF NodeStart
  <2> QED BY <1>8, <2>1 DEF NodeStart, TriesInv, TriesAreTheFrames, NodeOn
<1>9. CASE Ract
  <2>1. nodeTx'.frame = nodeTx.frame /\ nodeTx'.held = nodeTx.held
    BY <1>9 DEF Ract, TypeOK, CableOK, NodeSends
  <2> QED BY <1>9, <2>1, TriesStutter DEF Ract
<1>10. CASE DestWord
  <2>1. nodeTx'.frame = nodeTx.frame /\ nodeTx'.held = nodeTx.held
    BY <1>10 DEF DestWord, TypeOK, CableOK, NodeSends
  <2> QED BY <1>10, <2>1, TriesStutter DEF DestWord
<1>11. CASE NodeAbort
  <2>1. nodeTx'.frame = nodeTx.frame /\ nodeTx'.held
    BY <1>11 DEF NodeAbort, TypeOK, CableOK, NodeSends
  <2>2. UNCHANGED <<sock, waiting, tries>> /\ NodeOn
    BY <1>11 DEF NodeAbort
  <2>3. \A i \in 1..Len(out') : out'[i].try < TransmitTries
    <3>1. CASE tries >= TransmitTries
      BY <1>11, <3>1 DEF NodeAbort, Again, TriesInv
    <3>2. CASE ~(tries >= TransmitTries)
      <4> DEFINE f == [nodeTx.frame EXCEPT !.try = tries]
      <4>1. f \in Frame /\ f.try = tries
        BY FrameTries DEF TypeOK, CableOK, ChudpOK, NodeSends
      <4> HIDE DEF f
      <4>2. out' = <<f>> \o out
        BY <1>11, <3>2 DEF NodeAbort, Again, f
      <4>3. /\ Len(out') = 1 + Len(out) /\ Len(out) \in Nat
            /\ \A i \in 1..Len(out') : out'[i] = IF i <= 1 THEN f ELSE out[i - 1]
        BY <4>1, <4>2, ConcatProperties, LenProperties DEF TypeOK, ChudpOK
      <4>4. f.try < TransmitTries
        BY <4>1, <3>2, BoundAssumption DEF TypeOK, ChudpOK
      <4>5. \A i \in 1..Len(out) : out[i].try < TransmitTries
        BY DEF TriesInv
      <4> QED BY <4>3, <4>4, <4>5
    <3> QED BY <3>1, <3>2
  <2> QED BY <2>1, <2>2, <2>3 DEF TriesInv, TriesAreTheFrames, NodeOn
<1>12. CASE BoardAbort
  BY <1>12, TriesStutter DEF BoardAbort
<1>13. CASE NodeOver
  BY <1>13, TriesStutter DEF NodeOver, Quiet, NodeOn
<1>14. CASE BoardOver
  BY <1>14, TriesStutter DEF BoardOver
<1>15. CASE AbortOver
  BY <1>15, TriesStutter DEF AbortOver
<1>16. CASE RunOver
  BY <1>16, TriesStutter DEF RunOver
<1>17. ASSUME NEW d \in Datagram, SocketArrival(d) PROVE TriesInv'
  <2>1. CASE Accepts(d)
    <3> DEFINE f == [id |-> arrived + 1, dest |-> d.dest, try |-> 0]
    <3>1. f \in Frame /\ f.try = 0
      BY DEF Frame, Datagram, TypeOK, HistoryOK
    <3>2. sock' = Append(sock, f)
      BY <1>17, <2>1 DEF SocketArrival
    <3> HIDE DEF f
    <3>3. /\ Len(sock') = Len(sock) + 1 /\ Len(sock) \in Nat
          /\ \A i \in 1..Len(sock) : sock'[i] = sock[i]
          /\ sock'[Len(sock) + 1] = f
      BY <3>1, <3>2, AppendProperties, LenProperties DEF TypeOK, ChudpOK
    <3>4. \A i \in 1..Len(sock') : sock'[i].try < TransmitTries
      BY <3>1, <3>3, BoundAssumption DEF TriesInv
    <3> QED BY <1>17, <3>4 DEF SocketArrival, TriesInv, TriesAreTheFrames, NodeOn
  <2>2. CASE ~Accepts(d)
    BY <1>17, <2>2, TriesStutter DEF SocketArrival
  <2> QED BY <2>1, <2>2
<1>18. CASE Ask
  <2>1. ~NodeOn /\ nodeTx' = nodeTx
    BY <1>18 DEF Ask, CableInv
  <2>2. /\ waiting'.try = tries' /\ tries' <= TransmitTries
    <3>1. Len(out) \in Nat /\ Len(sock) \in Nat /\ Len(out') \in Nat /\ Len(sock') \in Nat
      BY <1>18, AskQueues, LenProperties DEF TypeOK, ChudpOK
    <3>2. CASE Len(out) > 0
      <4>1. out[1] \in Frame /\ out[1].try < TransmitTries
        BY <3>1, <3>2, ElementOfSeq DEF TriesInv, TypeOK, ChudpOK
      <4> QED BY <1>18, <3>2, <4>1, AskQueues, BoundAssumption DEF Frame
    <3>3. CASE Len(out) = 0
      <4>1. Len(sock) > 0
        BY <1>18, <3>1, <3>3, AskQueues
      <4>2. sock[1] \in Frame /\ sock[1].try < TransmitTries
        BY <3>1, <4>1, ElementOfSeq DEF TriesInv, TypeOK, ChudpOK
      <4> QED BY <1>18, <3>3, <4>2, AskQueues, BoundAssumption DEF Frame
    <3> QED BY <3>1, <3>2, <3>3
  <2>3. \A i \in 1..Len(out') : out'[i].try < TransmitTries
    <3>1. /\ Len(sock) \in Nat /\ Len(sock') \in Nat /\ Len(out) \in Nat
          /\ Len(out') \in Nat /\ Len(out) + Len(sock) = Len(out') + Len(sock') + 1
      BY <1>18, AskQueues, LenProperties DEF TypeOK, ChudpOK
    <3>2. \A i \in 1..Len(out') :
            out'[i] = IF i + 1 <= Len(out) THEN out[i + 1] ELSE sock[i + 1 - Len(out)]
      BY <1>18, AskQueues
    <3>3. /\ \A i \in 1..Len(sock) : sock[i].try < TransmitTries
          /\ \A i \in 1..Len(out) : out[i].try < TransmitTries
      BY DEF TriesInv
    <3> QED BY <3>1, <3>2, <3>3
  <2>4. \A i \in 1..Len(sock') : sock'[i].try < TransmitTries
    <3>1. Len(sock) \in Nat /\ Len(sock') \in Nat /\ Len(sock') <= Len(sock)
      BY <1>18, AskQueues, LenProperties DEF TypeOK, ChudpOK
    <3>2. \A i \in 1..Len(sock') : sock'[i] = sock[i + Len(sock) - Len(sock')]
      BY <1>18, AskQueues
    <3>3. \A i \in 1..Len(sock) : sock[i].try < TransmitTries
      BY DEF TriesInv
    <3> QED BY <3>1, <3>2, <3>3
  <2> QED BY <2>1, <2>2, <2>3, <2>4 DEF TriesInv, TriesAreTheFrames, NodeOn
<1>19. CASE Resume
  <2>1. nodeTx'.frame = NoFrame /\ waiting' = NoFrame /\ Len(out') = 0 /\ Len(sock') = 0
    BY <1>19 DEF Resume, Quiet
  <2> QED BY <2>1 DEF TriesInv, TriesAreTheFrames, NodeOn
<1>20. CASE UNCHANGED vars
  BY <1>20, TriesStutter
<1> QED
  BY <1>1, <1>2, <1>3, <1>4, <1>5, <1>6, <1>7, <1>8, <1>9, <1>10, <1>11,
     <1>12, <1>13, <1>14, <1>15, <1>16, <1>17, <1>18, <1>19, <1>20
  DEF Next, Software, Hardware

(* The count a node gives up by is always that of the frame aborted, and   *)
(* no frame is put on the cable more than TRANSMIT_TRIES times.            *)
THEOREM TriesCorrect == Spec => []TriesAreTheFrames
<1>1. TriesInv => TriesAreTheFrames
  BY DEF TriesInv
<1> QED BY <1>1, TypeInit, TypeNext, CableInvInit, CableInvNext, TriesInvInit,
           TriesInvNext, PTL DEF Spec

-----------------------------------------------------------------------------
(* What is lost is counted.                                                *)

(* Power-on has the invariant of the count.                                *)
LEMMA LossInvInit == Init => LossInv
<1> SUFFICES ASSUME Init PROVE LossInv
  OBVIOUS
<1>1. ~NodeOn /\ waiting = NoFrame /\ Len(out) = 0 /\ Len(sock) = 0 /\ ~run.on
  BY DEF Init, NodeOn, Quiet, IdleLine
<1> QED BY <1>1 DEF LossInv

(* A step that leaves the node and its queues alone, and the run as it was *)
(* or no longer a whole one of the node's.                                 *)
LEMMA LossStutter ==
  ASSUME LossInv, UNCHANGED <<out, sock, waiting, nodeTx>>,
         \/ UNCHANGED run
         \/ ~run'.whole \/ run'.from = "board" \/ ~run'.on
  PROVE  LossInv'
BY DEF LossInv, NodeOn

(* START^ decides whether the receiver is on for the frame.                *)
LEMMA RactKeepsCount == ASSUME TypeOK, CableInv, LossInv, Ract PROVE LossInv'
<1>1. /\ NodeOn /\ nodeTx.phase = "lead"
      /\ nodeTx'.phase = "head" /\ nodeTx'.off = cable_full
      /\ nodeTx'.frame = nodeTx.frame /\ UNCHANGED <<out, sock, waiting>>
  BY DEF Ract, TypeOK, CableOK, NodeSends
<1>2. /\ run'.on = run.on /\ run'.whole = run.whole /\ run'.from = run.from
      /\ run'.frame = run.frame /\ run'.off = (run.off \/ cable_full)
      /\ run.off \in BOOLEAN /\ cable_full \in BOOLEAN
  BY DEF Ract, TypeOK, CableOK, Runs
<1>3. NodeOn'
  BY <1>1 DEF NodeOn
<1>4. ASSUME run'.on, run'.whole, run'.from = "node"
      PROVE  ForMe(run'.frame) /\ nodeTx'.off = run'.off
  <2>1. ForMe(run.frame) /\ ~run.off
    BY <1>1, <1>2, <1>4 DEF LossInv
  <2> QED BY <1>1, <1>2, <2>1
<1>5. nodeTx'.phase # "lead"
  BY <1>1
<1>6. ForMe(nodeTx'.frame)
  BY <1>1 DEF LossInv
<1> QED BY <1>1, <1>3, <1>4, <1>5, <1>6 DEF LossInv

(* The destination word counts a frame it is off for.                      *)
LEMMA DestWordKeepsCount == ASSUME TypeOK, CableInv, LossInv, DestWord PROVE LossInv'
<1> DEFINE count == nodeTx.off /\ Counts(nodeTx.frame.dest)
<1>1. /\ NodeOn /\ nodeTx.phase = "head" /\ nodeTx'.phase = "body"
      /\ nodeTx'.frame = nodeTx.frame /\ UNCHANGED <<out, sock, waiting>>
  BY DEF DestWord, TypeOK, CableOK, NodeSends
<1>2. /\ run'.on = run.on /\ run'.whole = run.whole /\ run'.from = run.from
      /\ run'.frame = run.frame /\ run'.off = run.off
      /\ run'.counted = (run.counted \/ count)
  BY DEF DestWord, TypeOK, CableOK, Runs
<1>3. ForMe(nodeTx.frame)
  BY <1>1 DEF LossInv
<1>4. count <=> nodeTx.off
  BY <1>3 DEF Counts, ForMe
<1> HIDE DEF count
<1>5. ASSUME run'.on, run'.whole, run'.from = "node"
      PROVE  ForMe(run'.frame) /\ (run'.off => run'.counted)
  <2>1. ForMe(run.frame) /\ nodeTx.off = run.off
    BY <1>1, <1>2, <1>5 DEF LossInv
  <2> QED BY <1>2, <1>4, <2>1
<1>6. nodeTx'.phase # "lead" /\ nodeTx'.phase # "head" /\ ForMe(nodeTx'.frame)
  BY <1>1, <1>3
<1> QED BY <1>1, <1>5, <1>6 DEF LossInv

(* Every step keeps the invariant of the count.                            *)
LEMMA LossInvNext == TypeOK /\ CableInv /\ LossInv /\ [Next]_vars => LossInv'
<1> SUFFICES ASSUME TypeOK, CableInv, LossInv, [Next]_vars PROVE LossInv'
  OBVIOUS
<1>1. ASSUME NEW dest \in Dests, WriteBuffer(dest) PROVE LossInv'
  BY <1>1, LossStutter DEF WriteBuffer
<1>2. CASE ReadStart
  BY <1>2, LossStutter DEF ReadStart
<1>3. ASSUME NEW l \in BOOLEAN, NEW s \in BOOLEAN, NEW r \in BOOLEAN,
             NEW cr \in BOOLEAN, NEW ct \in BOOLEAN, WriteCsr(l, s, r, cr, ct)
      PROVE LossInv'
  BY <1>3, LossStutter DEF WriteCsr
<1>4. CASE TransmitDone
  BY <1>4, LossStutter DEF TransmitDone
<1>5. CASE Launch
  BY <1>5, LossStutter DEF Launch
<1>6. CASE LoopOver
  BY <1>6, LossStutter DEF LoopOver
<1>7. CASE BoardStart
  <2>1. run'.from = "board" \/ ~run'.whole
    BY <1>7 DEF BoardStart, Begun, TypeOK, CableOK, Runs
  <2> QED BY <1>7, <2>1, LossStutter DEF BoardStart
<1>8. CASE NodeStart
  <2>1. /\ nodeTx'.frame = waiting /\ nodeTx'.phase = "lead"
        /\ run'.frame = waiting /\ ~run'.off
        /\ waiting # NoFrame /\ waiting' = NoFrame /\ UNCHANGED <<out, sock>>
    BY <1>8 DEF NodeStart, Begun
  <2>2. ForMe(waiting)
    BY <2>1 DEF LossInv
  <2> QED BY <2>1, <2>2 DEF LossInv
<1>9. CASE Ract
  BY <1>9, RactKeepsCount
<1>10. CASE DestWord
  BY <1>10, DestWordKeepsCount
<1>11. CASE NodeAbort
  <2> DEFINE f == [nodeTx.frame EXCEPT !.try = tries]
  <2>1. /\ NodeOn /\ nodeTx'.frame = nodeTx.frame /\ ~run'.whole
        /\ UNCHANGED <<sock, waiting>>
    BY <1>11 DEF NodeAbort, TypeOK, CableOK, NodeSends, Runs
  <2>2. ForMe(nodeTx.frame)
    BY <2>1 DEF LossInv
  <2>3. f \in Frame /\ ForMe(f)
    BY <2>2, FrameTries DEF ForMe, TypeOK, CableOK, ChudpOK, NodeSends
  <2> HIDE DEF f
  <2>4. \A i \in 1..Len(out') : ForMe(out'[i])
    <3>1. CASE tries >= TransmitTries
      BY <1>11, <3>1 DEF NodeAbort, Again, LossInv
    <3>2. CASE ~(tries >= TransmitTries)
      <4>1. out' = <<f>> \o out
        BY <1>11, <3>2 DEF NodeAbort, Again, f
      <4>2. /\ Len(out') = 1 + Len(out) /\ Len(out) \in Nat
            /\ \A i \in 1..Len(out') : out'[i] = IF i <= 1 THEN f ELSE out[i - 1]
        BY <2>3, <4>1, ConcatProperties, LenProperties DEF TypeOK, ChudpOK
      <4>3. \A i \in 1..Len(out) : ForMe(out[i])
        BY DEF LossInv
      <4> QED BY <2>3, <4>2, <4>3
    <3> QED BY <3>1, <3>2
  <2> QED BY <2>1, <2>2, <2>4 DEF LossInv
<1>12. CASE BoardAbort
  <2>1. ~run'.whole
    BY <1>12 DEF BoardAbort, TypeOK, CableOK, Runs
  <2> QED BY <1>12, <2>1, LossStutter DEF BoardAbort
<1>13. CASE NodeOver
  <2>1. /\ NodeOn /\ ~NodeOn' /\ UNCHANGED <<run, out, sock, waiting>>
        /\ nodeTx.held \/ nodeTx.phase = "body"
    BY <1>13 DEF NodeOver, NodeOn, Quiet
  <2>2. run.whole => nodeTx.phase = "body"
    BY <2>1 DEF CableInv
  <2> QED BY <2>1, <2>2 DEF LossInv
<1>14. CASE BoardOver
  BY <1>14, LossStutter DEF BoardOver
<1>15. CASE AbortOver
  BY <1>15, LossStutter DEF AbortOver
<1>16. CASE RunOver
  BY <1>16, LossStutter DEF RunOver, IdleLine
<1>17. ASSUME NEW d \in Datagram, SocketArrival(d) PROVE LossInv'
  <2>1. CASE Accepts(d)
    <3> DEFINE f == [id |-> arrived + 1, dest |-> d.dest, try |-> 0]
    <3>1. f \in Frame
      BY DEF Frame, Datagram, TypeOK, HistoryOK
    <3>2. ForMe(f)
      BY <2>1 DEF Accepts, ForMe
    <3>3. sock' = Append(sock, f) /\ UNCHANGED <<out, waiting, nodeTx, run>>
      BY <1>17, <2>1 DEF SocketArrival
    <3> HIDE DEF f
    <3>4. /\ Len(sock') = Len(sock) + 1 /\ Len(sock) \in Nat
          /\ \A i \in 1..Len(sock) : sock'[i] = sock[i]
          /\ sock'[Len(sock) + 1] = f
      BY <3>1, <3>3, AppendProperties, LenProperties DEF TypeOK, ChudpOK
    <3>5. \A i \in 1..Len(sock) : ForMe(sock[i])
      BY DEF LossInv
    <3>6. \A i \in 1..Len(sock') : ForMe(sock'[i])
      BY <3>2, <3>4, <3>5
    <3> QED BY <3>3, <3>6 DEF LossInv, NodeOn
  <2>2. CASE ~Accepts(d)
    BY <1>17, <2>2, LossStutter DEF SocketArrival
  <2> QED BY <2>1, <2>2
<1>18. CASE Ask
  <2>1. ~run.on /\ ~NodeOn /\ UNCHANGED <<nodeTx, run>>
    BY <1>18 DEF Ask, CableInv
  <2>2. /\ Len(sock) \in Nat /\ Len(sock') \in Nat /\ Len(out) \in Nat
        /\ Len(out') \in Nat /\ Len(out) + Len(sock) = Len(out') + Len(sock') + 1
        /\ Len(sock') <= Len(sock)
    BY <1>18, AskQueues, LenProperties DEF TypeOK, ChudpOK
  <2>3. /\ \A i \in 1..Len(out) : ForMe(out[i])
        /\ \A i \in 1..Len(sock) : ForMe(sock[i])
    BY DEF LossInv
  <2>4. \A i \in 1..Len(out') : ForMe(out'[i])
    <3>1. \A i \in 1..Len(out') :
            out'[i] = IF i + 1 <= Len(out) THEN out[i + 1] ELSE sock[i + 1 - Len(out)]
      BY <1>18, AskQueues
    <3> QED BY <2>2, <2>3, <3>1
  <2>5. \A i \in 1..Len(sock') : ForMe(sock'[i])
    <3>1. \A i \in 1..Len(sock') : sock'[i] = sock[i + Len(sock) - Len(sock')]
      BY <1>18, AskQueues
    <3> QED BY <2>2, <2>3, <3>1
  <2>6. ForMe(waiting')
    <3>1. waiting'.dest = IF Len(out) > 0 THEN out[1].dest ELSE sock[1].dest
      BY <1>18, AskQueues
    <3>2. CASE Len(out) > 0
      BY <2>2, <2>3, <3>1, <3>2 DEF ForMe
    <3>3. CASE Len(out) = 0
      <4>1. Len(sock) > 0
        BY <2>2, <3>3
      <4> QED BY <2>2, <2>3, <3>1, <3>3, <4>1 DEF ForMe
    <3> QED BY <2>2, <3>2, <3>3
  <2> QED BY <2>1, <2>4, <2>5, <2>6 DEF LossInv, NodeOn
<1>19. CASE Resume
  <2>1. ~NodeOn' /\ waiting' = NoFrame /\ Len(out') = 0 /\ Len(sock') = 0 /\ ~run'.on
    BY <1>19 DEF Resume, NodeOn, Quiet, IdleLine
  <2> QED BY <2>1 DEF LossInv
<1>20. CASE UNCHANGED vars
  BY <1>20, LossStutter
<1> QED
  BY <1>1, <1>2, <1>3, <1>4, <1>5, <1>6, <1>7, <1>8, <1>9, <1>10, <1>11,
     <1>12, <1>13, <1>14, <1>15, <1>16, <1>17, <1>18, <1>19, <1>20
  DEF Next, Software, Hardware

(* The runs end with RunOver, and with a resume.                           *)
LEMMA RunsEndHere ==
  ASSUME TypeOK, CableInv, [Next]_vars, run.on, ~run'.on, resumes' = resumes
  PROVE  RunOver
<1>1. ~(\E dest \in Dests : WriteBuffer(dest)) /\ ~ReadStart
  BY DEF WriteBuffer, ReadStart
<1>2. ~\E l, s, r, cr, ct \in BOOLEAN : WriteCsr(l, s, r, cr, ct)
  BY DEF WriteCsr
<1>3. ~TransmitDone /\ ~Launch /\ ~LoopOver
  BY DEF TransmitDone, Launch, LoopOver
<1>4. ~BoardStart /\ ~NodeStart
  <2>1. BoardStart => run'.on = run.on
    BY DEF BoardStart, Begun, TypeOK, CableOK, Runs
  <2> QED BY <2>1 DEF NodeStart
<1>5. ~Ract /\ ~DestWord /\ ~NodeAbort /\ ~BoardAbort
  <2>1. Ract \/ DestWord \/ NodeAbort \/ BoardAbort => run'.on = run.on
    BY DEF Ract, DestWord, NodeAbort, BoardAbort, TypeOK, CableOK, Runs
  <2> QED BY <2>1
<1>6. ~NodeOver /\ ~BoardOver /\ ~AbortOver /\ ~Ask
  BY DEF NodeOver, BoardOver, AbortOver, Ask
<1>7. ~\E d \in Datagram : SocketArrival(d)
  BY DEF SocketArrival
<1>8. ~Resume
  BY DEF Resume, TypeOK, HistoryOK
<1>9. ~UNCHANGED vars
  OBVIOUS
<1> QED
  BY <1>1, <1>2, <1>3, <1>4, <1>5, <1>6, <1>7, <1>8, <1>9, Zenon
  DEF Next, Software, Hardware

(* A frame of the node's for this interface that arrives whole is in the   *)
(* buffer or is counted: at its destination word, where the receiver was   *)
(* busy at START^, or on landing, where it has become busy since.          *)
THEOREM LossIsCounted == Spec => NoSilentLoss
<1> DEFINE Counted == \/ run.counted
                      \/ rcv'.from = "node" /\ rcv'.id = run.frame.id
                      \/ lost' # lost
<1>1. ASSUME TypeOK, CableInv, LossInv, [Next]_vars,
             run.on, ~run'.on, resumes' = resumes,
             run.whole, run.from = "node", ~loop
      PROVE  Counted
  <2>1. RunOver
    BY <1>1, RunsEndHere
  <2>2. ForMe(run.frame) /\ (run.off => run.counted)
    BY <1>1, <2>1 DEF RunOver, LossInv
  <2>3. CASE not_taken
    <3>1. run.off
      BY <1>1, <2>3 DEF CableInv, NotTakenIsTheRuns
    <3> QED BY <2>2, <3>1
  <2>4. CASE ~not_taken
    <3>1. Arrive("node", run.frame, TRUE)
      BY <1>1, <2>1, <2>4 DEF RunOver
    <3>2. Mine(run.frame.dest)
      BY <2>2 DEF ForMe, Mine
    <3>3. CASE receive_done
      <4>1. lost' = LostOneMore /\ lost \in 0..(LostCounts - 1)
        BY <1>1, <3>1, <3>2, <3>3 DEF Arrive, TypeOK, IfaceOK
      <4>2. LostOneMore # lost
        BY <4>1, BoundAssumption DEF LostOneMore
      <4> QED BY <4>1, <4>2
    <3>4. CASE ~receive_done
      <4>1. rcv' = [from |-> "node", id |-> run.frame.id, ok |-> TRUE]
        BY <3>1, <3>2, <3>4 DEF Arrive, Take
      <4> QED BY <4>1
    <3> QED BY <3>3, <3>4
  <2> QED BY <2>3, <2>4
<1>2. TypeOK /\ CableInv /\ LossInv /\ [Next]_vars =>
        [(/\ run.on /\ ~run'.on /\ resumes' = resumes
          /\ run.whole /\ run.from = "node" /\ ~loop) => Counted]_vars
  BY <1>1
<1> QED BY <1>2, TypeInit, TypeNext, CableInvInit, CableInvNext, LossInvInit,
           LossInvNext, PTL DEF Spec, NoSilentLoss

-----------------------------------------------------------------------------
(* The inbound order.                                                      *)

(* Power-on is the inbound channel, empty.                                     *)
LEMMA InboundInit == Init => InboundInv /\ Inbound!Init
<1> SUFFICES ASSUME Init PROVE InboundInv /\ Inbound!Init
  OBVIOUS
<1>1. ~NodeOn /\ waiting = NoFrame /\ Len(out) = 0 /\ Len(sock) = 0 /\ ~run.on
      /\ arrived = 0 /\ taken = 0 /\ takes = 0
  BY DEF Init, NodeOn, Quiet, IdleLine
<1> QED BY <1>1 DEF InboundInv, Inbound!Init

(* What every step has to show.                                            *)
InStep == InboundInv' /\ [Inbound!Next]_<<arrived, taken, takes>>

(* A step that touches no queue, and of the run and the node's frame at    *)
(* most cuts them short.                                                   *)
LEMMA InboundStutter ==
  ASSUME InboundInv, UNCHANGED <<out, sock, waiting, arrived, takenIn>>,
         \/ nodeTx'.frame = nodeTx.frame /\ nodeTx'.held = nodeTx.held
         \/ nodeTx'.frame = NoFrame,
         \/ /\ run'.on = run.on /\ run'.frame = run.frame /\ run'.from = run.from
            /\ run'.whole => run.whole
         \/ run'.from = "board"
         \/ ~run'.on
  PROVE  InStep
BY DEF InboundInv, Oldest, NodeOn, InStep

(* A frame looped back takes nothing from the node's order.                *)
LEMMA LoopedTakesNothing ==
  ASSUME NEW f, NEW ok, Arrive("board", f, ok)
  PROVE  UNCHANGED takenIn
BY DEF Arrive, Take, Unheard

(* Every step is one of the inbound channel, or none.                          *)
LEMMA InboundNext == TypeOK /\ CableInv /\ InboundInv /\ [Next]_vars => InStep
<1> SUFFICES ASSUME TypeOK, CableInv, InboundInv, [Next]_vars PROVE InStep
  OBVIOUS
<1>1. ASSUME NEW dest \in Dests, WriteBuffer(dest) PROVE InStep
  BY <1>1, InboundStutter DEF WriteBuffer
<1>2. CASE ReadStart
  BY <1>2, InboundStutter DEF ReadStart
<1>3. ASSUME NEW l \in BOOLEAN, NEW s \in BOOLEAN, NEW r \in BOOLEAN,
             NEW cr \in BOOLEAN, NEW ct \in BOOLEAN, WriteCsr(l, s, r, cr, ct)
      PROVE InStep
  BY <1>3, InboundStutter DEF WriteCsr
<1>4. CASE TransmitDone
  BY <1>4, InboundStutter DEF TransmitDone
<1>5. CASE Launch
  BY <1>5, InboundStutter DEF Launch
<1>6. CASE LoopOver
  <2>1. UNCHANGED takenIn
    BY <1>6, LoopedTakesNothing DEF LoopOver, Unheard
  <2> QED BY <1>6, <2>1, InboundStutter DEF LoopOver
<1>7. CASE BoardStart
  <2>1. CASE run.on
    <3>1. run'.on = run.on /\ run'.frame = run.frame /\ run'.from = run.from
          /\ run'.whole = FALSE
      BY <1>7, <2>1 DEF BoardStart, Begun, TypeOK, CableOK, Runs
    <3> QED BY <1>7, <3>1, InboundStutter DEF BoardStart
  <2>2. CASE ~run.on
    <3>1. run'.from = "board"
      BY <1>7, <2>2 DEF BoardStart, Begun
    <3> QED BY <1>7, <3>1, InboundStutter DEF BoardStart
  <2> QED BY <2>1, <2>2
<1>8. CASE NodeStart
  <2>1. /\ run'.on /\ run'.frame = waiting /\ nodeTx'.frame = waiting
        /\ waiting # NoFrame /\ waiting' = NoFrame
    BY <1>8 DEF NodeStart, Begun
  <2>2. UNCHANGED <<out, sock, arrived, taken, takes>>
    BY <1>8 DEF NodeStart
  <2>3. Oldest(waiting.id)
    BY <2>1 DEF InboundInv
  <2> QED BY <2>1, <2>2, <2>3 DEF InboundInv, Oldest, InStep
<1>9. CASE Ract
  <2>1. nodeTx'.frame = nodeTx.frame /\ nodeTx'.held = nodeTx.held
    BY <1>9 DEF Ract, TypeOK, CableOK, NodeSends
  <2>2. run'.on = run.on /\ run'.frame = run.frame /\ run'.from = run.from
        /\ run'.whole = run.whole
    BY <1>9 DEF Ract, TypeOK, CableOK, Runs
  <2> QED BY <1>9, <2>1, <2>2, InboundStutter DEF Ract
<1>10. CASE DestWord
  <2>1. nodeTx'.frame = nodeTx.frame /\ nodeTx'.held = nodeTx.held
    BY <1>10 DEF DestWord, TypeOK, CableOK, NodeSends
  <2>2. run'.on = run.on /\ run'.frame = run.frame /\ run'.from = run.from
        /\ run'.whole = run.whole
    BY <1>10 DEF DestWord, TypeOK, CableOK, Runs
  <2> QED BY <1>10, <2>1, <2>2, InboundStutter DEF DestWord
<1>11. CASE NodeAbort
  <2> DEFINE f == [nodeTx.frame EXCEPT !.try = tries]
  <2>1. /\ nodeTx'.held = TRUE /\ run'.whole = FALSE
        /\ UNCHANGED <<sock, waiting, arrived, taken, takes>>
    BY <1>11 DEF NodeAbort, TypeOK, CableOK, NodeSends, Runs
  <2>2. f \in Frame /\ f.id = nodeTx.frame.id
    BY FrameTries DEF TypeOK, CableOK, ChudpOK, NodeSends
  <2>3. NodeOn /\ waiting = NoFrame /\ Oldest(f.id)
    BY <1>11, <2>2 DEF NodeAbort, CableInv, InboundInv
  <2> HIDE DEF f
  <2>4. CASE tries >= TransmitTries
    BY <1>11, <2>1, <2>3, <2>4 DEF NodeAbort, Again, InboundInv, InStep, Oldest
  <2>5. CASE ~(tries >= TransmitTries)
    <3>1. out' = <<f>> \o out
      BY <1>11, <2>5 DEF NodeAbort, Again, f
    <3>2. /\ Len(out') = 1 + Len(out) /\ Len(out) \in Nat
          /\ \A i \in 1..Len(out') : out'[i] = IF i <= 1 THEN f ELSE out[i - 1]
      BY <3>1, <2>2, ConcatProperties, LenProperties DEF TypeOK, ChudpOK
    <3>3. \A i \in 1..Len(out') : taken < out'[i].id /\ out'[i].id <= arrived
      BY <3>2, <2>3 DEF InboundInv, Oldest
    <3>4. ASSUME NEW i \in 1..Len(out'), NEW j \in 1..Len(out'), i < j
          PROVE  out'[i].id < out'[j].id
      <4>1. j - 1 \in 1..Len(out) /\ out'[j] = out[j - 1]
        BY <3>2, <3>4
      <4>2. CASE i = 1
        BY <4>1, <4>2, <3>2, <2>3 DEF Oldest
      <4>3. CASE i > 1
        <5>1. i - 1 \in 1..Len(out) /\ out'[i] = out[i - 1] /\ i - 1 < j - 1
          BY <4>3, <3>2, <3>4
        <5> QED BY <4>1, <5>1 DEF InboundInv
      <4> QED BY <4>2, <4>3
    <3>5. ASSUME NEW i \in 1..Len(out'), NEW j \in 1..Len(sock)
          PROVE  out'[i].id < sock[j].id
      <4>1. CASE i = 1
        BY <4>1, <3>2, <2>3 DEF Oldest
      <4>2. CASE i > 1
        <5>1. i - 1 \in 1..Len(out) /\ out'[i] = out[i - 1]
          BY <4>2, <3>2
        <5> QED BY <5>1 DEF InboundInv
      <4> QED BY <4>1, <4>2
    <3> QED BY <2>1, <2>3, <3>3, <3>4, <3>5 DEF InboundInv, InStep
  <2> QED BY <2>4, <2>5
<1>12. CASE BoardAbort
  <2>1. run'.on = run.on /\ run'.frame = run.frame /\ run'.from = run.from
        /\ run'.whole = FALSE
    BY <1>12 DEF BoardAbort, TypeOK, CableOK, Runs
  <2> QED BY <1>12, <2>1, InboundStutter DEF BoardAbort
<1>13. CASE NodeOver
  BY <1>13, InboundStutter DEF NodeOver, Quiet
<1>14. CASE BoardOver
  BY <1>14, InboundStutter DEF BoardOver
<1>15. CASE AbortOver
  BY <1>15, InboundStutter DEF AbortOver
<1>16. CASE RunOver
  <2>1. ~NodeOn /\ ~run'.on /\ UNCHANGED <<nodeTx, out, sock, waiting, arrived>>
    BY <1>16 DEF RunOver, IdleLine
  <2>2. \/ UNCHANGED takenIn
        \/ /\ run.on /\ run.whole /\ run.from = "node"
           /\ taken' = run.frame.id /\ takes' = takes + 1
    <3>1. CASE Unheard
      BY <3>1 DEF Unheard
    <3>2. CASE /\ Arrive("node", run.frame, TRUE)
               /\ run.whole /\ ~(run.whole /\ run.from = "board")
      <4>1. run.from = "node"
        BY <3>2 DEF TypeOK, CableOK, Runs
      <4> QED BY <1>16, <3>2, <4>1 DEF RunOver, Arrive, Unheard, Take
    <3>3. CASE \E dest \in Dests \cup {Nowhere} :
                 Arrive("node", [NoFrame EXCEPT !.dest = dest], FALSE)
      BY <3>3 DEF Arrive, Unheard, Take
    <3> QED BY <1>16, <3>1, <3>2, <3>3 DEF RunOver
  <2>3. CASE UNCHANGED takenIn
    BY <2>1, <2>3, InboundStutter
  <2>4. CASE /\ run.on /\ run.whole /\ run.from = "node"
             /\ taken' = run.frame.id /\ takes' = takes + 1
    <3>1. Oldest(run.frame.id) /\ waiting = NoFrame
      BY <2>4 DEF InboundInv, CableInv
    <3>2. run.frame.id \in Nat /\ taken \in Nat /\ arrived \in Nat
      BY DEF TypeOK, CableOK, Runs, Frame, HistoryOK
    <3>3. Inbound!Deliver
      BY <2>1, <2>4, <3>1, <3>2 DEF Inbound!Deliver, Oldest
    <3>4. InboundInv'
      BY <2>1, <2>4, <3>1, <3>2 DEF InboundInv, Oldest, NodeOn
    <3> QED BY <3>3, <3>4 DEF InStep, Inbound!Next
  <2> QED BY <2>2, <2>3, <2>4
<1>17. ASSUME NEW d \in Datagram, SocketArrival(d) PROVE InStep
  <2>1. CASE Accepts(d)
    <3> DEFINE f == [id |-> arrived + 1, dest |-> d.dest, try |-> 0]
    <3>1. f \in Frame /\ f.id = arrived + 1
      BY DEF Frame, Datagram, TypeOK, HistoryOK
    <3>2. /\ sock' = Append(sock, f) /\ arrived' = arrived + 1
          /\ UNCHANGED <<out, waiting, nodeTx, run, taken, takes>>
      BY <1>17, <2>1 DEF SocketArrival
    <3> HIDE DEF f
    <3>3. /\ Len(sock') = Len(sock) + 1 /\ Len(sock) \in Nat
          /\ \A i \in 1..Len(sock) : sock'[i] = sock[i]
          /\ sock'[Len(sock) + 1] = f
      BY <3>1, <3>2, AppendProperties, LenProperties DEF TypeOK, ChudpOK
    <3>4. arrived \in Nat /\ taken \in Nat /\ taken <= arrived
      BY DEF TypeOK, HistoryOK, InboundInv
    <3>5. ASSUME NEW i \in 1..Len(sock) PROVE sock[i].id \in Nat
      <4>1. sock[i] \in Frame
        BY ElementOfSeq DEF TypeOK, ChudpOK
      <4> QED BY <4>1 DEF Frame
    <3>6. ASSUME NEW i \in 1..Len(out) PROVE out[i].id \in Nat
      <4>1. out[i] \in Frame
        BY ElementOfSeq DEF TypeOK, ChudpOK
      <4> QED BY <4>1 DEF Frame
    <3>7. ASSUME NEW id \in Nat, Oldest(id) PROVE Oldest(id)'
      BY <3>1, <3>2, <3>3, <3>4, <3>7 DEF Oldest
    <3>8. waiting.id \in Nat /\ nodeTx.frame.id \in Nat /\ run.frame.id \in Nat
      BY DEF TypeOK, ChudpOK, CableOK, NodeSends, Runs, Frame
    <3>9. /\ waiting' # NoFrame => Oldest(waiting.id)'
          /\ NodeOn' /\ ~nodeTx'.held => Oldest(nodeTx.frame.id)'
          /\ run'.on /\ run'.whole /\ run'.from = "node" => Oldest(run.frame.id)'
      BY <3>2, <3>7, <3>8 DEF InboundInv, NodeOn
    <3>10. /\ \A i \in 1..Len(sock') : taken < sock'[i].id /\ sock'[i].id <= arrived'
           /\ \A i, j \in 1..Len(sock') : i < j => sock'[i].id < sock'[j].id
      BY <3>1, <3>2, <3>3, <3>4, <3>5 DEF InboundInv
    <3>11. /\ \A i \in 1..Len(out') : taken < out'[i].id /\ out'[i].id <= arrived'
           /\ \A i \in 1..Len(out'), j \in 1..Len(sock') : out'[i].id < sock'[j].id
           /\ \A i, j \in 1..Len(out') : i < j => out'[i].id < out'[j].id
      BY <3>1, <3>2, <3>3, <3>4, <3>6 DEF InboundInv
    <3>12. Inbound!Accept /\ taken' <= arrived'
      BY <3>2, <3>4 DEF Inbound!Accept
    <3> QED BY <3>2, <3>9, <3>10, <3>11, <3>12 DEF InboundInv, InStep, Inbound!Next
  <2>2. CASE ~Accepts(d)
    BY <1>17, <2>2, InboundStutter DEF SocketArrival
  <2> QED BY <2>1, <2>2
<1>18. CASE Ask
  <2>1. ~NodeOn /\ ~run.on /\ UNCHANGED <<nodeTx, run, arrived, taken, takes>>
    BY <1>18 DEF Ask, CableInv
  <2>2. /\ Len(sock) \in Nat /\ Len(sock') \in Nat /\ Len(out) \in Nat
        /\ Len(out') \in Nat /\ Len(out) + Len(sock) = Len(out') + Len(sock') + 1
        /\ Len(sock') <= Len(sock)
    BY <1>18, AskQueues, LenProperties DEF TypeOK, ChudpOK
  <2>3. \A i \in 1..Len(out') :
          out'[i] = IF i + 1 <= Len(out) THEN out[i + 1] ELSE sock[i + 1 - Len(out)]
    BY <1>18, AskQueues
  <2>4. \A i \in 1..Len(sock') : sock'[i] = sock[i + Len(sock) - Len(sock')]
    BY <1>18, AskQueues
  <2>5. waiting'.id = IF Len(out) > 0 THEN out[1].id ELSE sock[1].id
    BY <1>18, AskQueues
  <2>6. ASSUME NEW i \in 1..Len(out')
        PROVE  \/ i + 1 \in 1..Len(out) /\ out'[i] = out[i + 1]
               \/ /\ i + 1 > Len(out) /\ i + 1 - Len(out) \in 1..Len(sock)
                  /\ out'[i] = sock[i + 1 - Len(out)]
    BY <2>2, <2>3
  <2>7. ASSUME NEW i \in 1..Len(sock')
        PROVE  /\ i + Len(sock) - Len(sock') \in 1..Len(sock)
               /\ sock'[i] = sock[i + Len(sock) - Len(sock')]
    BY <2>2, <2>4
  <2>8. ASSUME NEW i \in 1..Len(out') PROVE taken < out'[i].id /\ out'[i].id <= arrived
    BY <2>6 DEF InboundInv
  <2>9. ASSUME NEW i \in 1..Len(sock') PROVE taken < sock'[i].id /\ sock'[i].id <= arrived
    BY <2>7 DEF InboundInv
  <2>10. ASSUME NEW i \in 1..Len(out'), NEW j \in 1..Len(out'), i < j
         PROVE  out'[i].id < out'[j].id
    <3>1. CASE j + 1 \in 1..Len(out) /\ out'[j] = out[j + 1]
      <4>1. i + 1 \in 1..Len(out) /\ out'[i] = out[i + 1]
        BY <2>2, <2>6, <2>10, <3>1
      <4> QED BY <2>10, <3>1, <4>1 DEF InboundInv
    <3>2. CASE /\ j + 1 > Len(out) /\ j + 1 - Len(out) \in 1..Len(sock)
               /\ out'[j] = sock[j + 1 - Len(out)]
      <4>1. CASE i + 1 \in 1..Len(out) /\ out'[i] = out[i + 1]
        BY <3>2, <4>1 DEF InboundInv
      <4>2. CASE /\ i + 1 - Len(out) \in 1..Len(sock)
                 /\ out'[i] = sock[i + 1 - Len(out)]
        <5>1. i + 1 - Len(out) < j + 1 - Len(out)
          BY <2>2, <2>10
        <5> QED BY <3>2, <4>2, <5>1 DEF InboundInv
      <4> QED BY <2>6, <4>1, <4>2
    <3> QED BY <2>6, <3>1, <3>2
  <2>11. ASSUME NEW i \in 1..Len(sock'), NEW j \in 1..Len(sock'), i < j
         PROVE  sock'[i].id < sock'[j].id
    <3>1. i + Len(sock) - Len(sock') < j + Len(sock) - Len(sock')
      BY <2>2, <2>11
    <3> QED BY <2>7, <3>1 DEF InboundInv
  <2>12. ASSUME NEW i \in 1..Len(out'), NEW j \in 1..Len(sock')
         PROVE  out'[i].id < sock'[j].id
    <3>1. CASE i + 1 \in 1..Len(out) /\ out'[i] = out[i + 1]
      BY <2>7, <3>1 DEF InboundInv
    <3>2. CASE /\ i + 1 > Len(out) /\ i + 1 - Len(out) \in 1..Len(sock)
               /\ out'[i] = sock[i + 1 - Len(out)]
      <4>1. i + 1 - Len(out) < j + Len(sock) - Len(sock')
        BY <2>2
      <4> QED BY <2>7, <3>2, <4>1 DEF InboundInv
    <3> QED BY <2>6, <3>1, <3>2
  <2>13. Oldest(waiting.id)'
    <3>1. taken' < waiting'.id /\ waiting'.id <= arrived'
      BY <2>1, <2>2, <2>5 DEF InboundInv
    <3>2. ASSUME NEW i \in 1..Len(out') PROVE waiting'.id < out'[i].id
      <4>1. CASE Len(out) > 0
        <5>1. 1 \in 1..Len(out) /\ waiting'.id = out[1].id
          BY <2>2, <2>5, <4>1
        <5>2. CASE i + 1 \in 1..Len(out) /\ out'[i] = out[i + 1]
          <6>1. 1 < i + 1
            BY <2>2
          <6> QED BY <5>1, <5>2, <6>1 DEF InboundInv
        <5>3. CASE i + 1 - Len(out) \in 1..Len(sock) /\ out'[i] = sock[i + 1 - Len(out)]
          BY <5>1, <5>3 DEF InboundInv
        <5> QED BY <2>6, <5>2, <5>3
      <4>2. CASE Len(out) = 0
        <5>1. 1 \in 1..Len(sock) /\ waiting'.id = sock[1].id
          BY <2>2, <2>5, <4>2
        <5>2. i + 1 \in 1..Len(sock) /\ out'[i] = sock[i + 1] /\ 1 < i + 1
          BY <2>2, <2>6, <4>2
        <5> QED BY <5>1, <5>2 DEF InboundInv
      <4> QED BY <2>2, <4>1, <4>2
    <3>3. ASSUME NEW i \in 1..Len(sock') PROVE waiting'.id < sock'[i].id
      <4>1. CASE Len(out) > 0
        <5>1. 1 \in 1..Len(out) /\ waiting'.id = out[1].id
          BY <2>2, <2>5, <4>1
        <5> QED BY <2>7, <5>1 DEF InboundInv
      <4>2. CASE Len(out) = 0
        <5>1. 1 \in 1..Len(sock) /\ waiting'.id = sock[1].id
          BY <2>2, <2>5, <4>2
        <5>2. 1 < i + Len(sock) - Len(sock')
          BY <2>2, <4>2
        <5> QED BY <2>7, <5>1, <5>2 DEF InboundInv
      <4> QED BY <2>2, <4>1, <4>2
    <3> QED BY <3>1, <3>2, <3>3 DEF Oldest
  <2> QED BY <2>1, <2>8, <2>9, <2>10, <2>11, <2>12, <2>13 DEF InboundInv, InStep, NodeOn
<1>19. CASE Resume
  <2>1. /\ nodeTx'.frame = NoFrame /\ waiting' = NoFrame /\ ~run'.on
        /\ Len(out') = 0 /\ Len(sock') = 0 /\ UNCHANGED <<arrived, taken, takes>>
    BY <1>19 DEF Resume, Quiet, IdleLine
  <2> QED BY <2>1 DEF InboundInv, NodeOn, InStep
<1>20. CASE UNCHANGED vars
  BY <1>20, InboundStutter
<1> QED
  BY <1>1, <1>2, <1>3, <1>4, <1>5, <1>6, <1>7, <1>8, <1>9, <1>10, <1>11,
     <1>12, <1>13, <1>14, <1>15, <1>16, <1>17, <1>18, <1>19, <1>20
  DEF Next, Software, Hardware

(* Packets off the network reach the incoming buffer in order and at most  *)
(* once, through collisions, busy-receiver aborts, retries and resumes.    *)
THEOREM InboundOrder == Spec => InboundInOrder
<1>1. InStep => InboundInv' /\ [Inbound!Next]_<<arrived, taken, takes>>
  BY DEF InStep
<1> QED BY <1>1, TypeInit, TypeNext, CableInvInit, CableInvNext, InboundInit,
           InboundNext, PTL DEF Spec, InboundInOrder, Inbound!Spec

-----------------------------------------------------------------------------
(* The outbound order.                                                     *)

(* Power-on is the outbound channel, empty.                                    *)
LEMMA OutboundInit == Init => OutboundInv /\ Outbound!Init
<1> SUFFICES ASSUME Init PROVE OutboundInv /\ Outbound!Init
  OBVIOUS
<1>1. /\ ready = NoFrame /\ pending = NoFrame /\ ~run.on
      /\ relayed = 0 /\ relays = 0 /\ starts = 0
  BY DEF Init, IdleLine
<1> QED BY <1>1 DEF OutboundInv, Outbound!Init

OutStep == OutboundInv' /\ [Outbound!Next]_<<starts, relayed, relays>>

(* A step that leaves what is sent alone is none of the outbound channel.      *)
LEMMA OutboundStutter ==
  ASSUME OutboundInv, UNCHANGED <<pending, starts, sentOn>>,
         ready' \in {ready, NoFrame},
         \/ /\ run'.on = run.on /\ run'.frame = run.frame /\ run'.from = run.from
            /\ run'.whole => run.whole
         \/ run'.from = "node"
         \/ ~run'.on
  PROVE  OutStep
BY DEF OutboundInv, OutStep

(* Every step is one of the outbound channel, or none.                         *)
LEMMA OutboundNext == TypeOK /\ CableInv /\ OutboundInv /\ [Next]_vars => OutStep
<1> SUFFICES ASSUME TypeOK, CableInv, OutboundInv, [Next]_vars PROVE OutStep
  OBVIOUS
<1>1. ASSUME NEW dest \in Dests, WriteBuffer(dest) PROVE OutStep
  BY <1>1, OutboundStutter DEF WriteBuffer
<1>2. CASE ReadStart
  <2>1. /\ ready' = [id |-> starts + 1, dest |-> xmit, try |-> 1]
        /\ starts' = starts + 1 /\ UNCHANGED <<pending, run, relayed, relays>>
    BY <1>2 DEF ReadStart
  <2>2. ready'.id = starts + 1
    BY <2>1
  <2>3. starts \in Nat /\ relayed \in Nat /\ pending.id \in Nat /\ run.frame.id \in Nat
    BY DEF TypeOK, HistoryOK, CableOK, Runs, Frame
  <2>4. Outbound!Accept
    BY <2>1 DEF Outbound!Accept
  <2>5. OutboundInv'
    BY <2>1, <2>2, <2>3 DEF OutboundInv
  <2> QED BY <2>4, <2>5 DEF OutStep, Outbound!Next
<1>3. ASSUME NEW l \in BOOLEAN, NEW s \in BOOLEAN, NEW r \in BOOLEAN,
             NEW cr \in BOOLEAN, NEW ct \in BOOLEAN, WriteCsr(l, s, r, cr, ct)
      PROVE OutStep
  BY <1>3, OutboundStutter DEF WriteCsr
<1>4. CASE TransmitDone
  BY <1>4, OutboundStutter DEF TransmitDone
<1>5. CASE Launch
  <2>1. CASE loop
    BY <1>5, <2>1, OutboundStutter DEF Launch, TakeReady
  <2>2. CASE ~loop
    <3>1. /\ pending' = ready /\ ready' = NoFrame /\ ready # NoFrame
          /\ UNCHANGED <<run, starts, relayed, relays>>
      BY <1>5, <2>2 DEF Launch, TakeReady
    <3> QED BY <3>1 DEF OutboundInv, OutStep
  <2> QED BY <2>1, <2>2
<1>6. CASE LoopOver
  BY <1>6, OutboundStutter DEF LoopOver
<1>7. CASE BoardStart
  <2>1. /\ pending' = NoFrame /\ pending # NoFrame
        /\ UNCHANGED <<ready, starts, relayed, relays>>
    BY <1>7 DEF BoardStart
  <2>2. CASE run.on
    <3>1. run'.whole = FALSE
      BY <1>7, <2>2 DEF BoardStart, Begun, TypeOK, CableOK, Runs
    <3> QED BY <2>1, <3>1 DEF OutboundInv, OutStep
  <2>3. CASE ~run.on
    <3>1. run'.frame = pending
      BY <1>7, <2>3 DEF BoardStart, Begun
    <3> QED BY <2>1, <3>1 DEF OutboundInv, OutStep
  <2> QED BY <2>2, <2>3
<1>8. CASE NodeStart
  <2>1. run'.from = "node"
    BY <1>8 DEF NodeStart, Begun
  <2> QED BY <1>8, <2>1, OutboundStutter DEF NodeStart
<1>9. CASE Ract
  <2>1. run'.on = run.on /\ run'.frame = run.frame /\ run'.from = run.from
        /\ run'.whole => run.whole
    BY <1>9 DEF Ract, TypeOK, CableOK, Runs
  <2> QED BY <1>9, <2>1, OutboundStutter DEF Ract
<1>10. CASE DestWord
  <2>1. run'.on = run.on /\ run'.frame = run.frame /\ run'.from = run.from
        /\ run'.whole => run.whole
    BY <1>10 DEF DestWord, TypeOK, CableOK, Runs
  <2> QED BY <1>10, <2>1, OutboundStutter DEF DestWord
<1>11. CASE NodeAbort
  <2>1. run'.on = run.on /\ run'.frame = run.frame /\ run'.from = run.from
        /\ run'.whole => run.whole
    BY <1>11 DEF NodeAbort, TypeOK, CableOK, Runs
  <2> QED BY <1>11, <2>1, OutboundStutter DEF NodeAbort
<1>12. CASE BoardAbort
  <2>1. run'.on = run.on /\ run'.frame = run.frame /\ run'.from = run.from
        /\ run'.whole => run.whole
    BY <1>12 DEF BoardAbort, TypeOK, CableOK, Runs
  <2> QED BY <1>12, <2>1, OutboundStutter DEF BoardAbort
<1>13. CASE NodeOver
  BY <1>13, OutboundStutter DEF NodeOver
<1>14. CASE BoardOver
  BY <1>14, OutboundStutter DEF BoardOver
<1>15. CASE AbortOver
  BY <1>15, OutboundStutter DEF AbortOver
<1>16. CASE RunOver
  <2>1. ~run'.on /\ UNCHANGED <<ready, pending, starts>>
    BY <1>16 DEF RunOver, IdleLine
  <2>2. CASE UNCHANGED sentOn
    BY <2>1, <2>2, OutboundStutter
  <2>3. CASE /\ run.on /\ run.whole /\ run.from = "board"
             /\ relayed' = run.frame.id /\ relays' = relays + 1
    <3>1. run.frame.id \in Nat /\ relayed \in Nat /\ starts \in Nat
      BY DEF TypeOK, HistoryOK, CableOK, Runs, Frame
    <3>2. Outbound!Deliver
      BY <2>1, <2>3, <3>1 DEF Outbound!Deliver, OutboundInv
    <3>3. OutboundInv'
      BY <2>1, <2>3, <3>1 DEF OutboundInv
    <3> QED BY <3>2, <3>3 DEF OutStep, Outbound!Next
  <2> QED BY <1>16, <2>2, <2>3 DEF RunOver
<1>17. ASSUME NEW d \in Datagram, SocketArrival(d) PROVE OutStep
  BY <1>17, OutboundStutter DEF SocketArrival
<1>18. CASE Ask
  BY <1>18, OutboundStutter DEF Ask
<1>19. CASE Resume
  <2>1. /\ pending' = NoFrame /\ ~run'.on /\ UNCHANGED <<ready, starts, relayed, relays>>
    BY <1>19 DEF Resume, IdleLine
  <2> QED BY <2>1 DEF OutboundInv, OutStep
<1>20. CASE UNCHANGED vars
  BY <1>20, OutboundStutter
<1> QED
  BY <1>1, <1>2, <1>3, <1>4, <1>5, <1>6, <1>7, <1>8, <1>9, <1>10, <1>11,
     <1>12, <1>13, <1>14, <1>15, <1>16, <1>17, <1>18, <1>19, <1>20
  DEF Next, Software, Hardware

(* Packets the software starts leave over UDP in order and at most once.   *)
THEOREM OutboundOrder == Spec => OutboundInOrder
<1>1. OutStep => OutboundInv' /\ [Outbound!Next]_<<starts, relayed, relays>>
  BY DEF OutStep
<1> QED BY <1>1, TypeInit, TypeNext, CableInvInit, CableInvNext, OutboundInit,
           OutboundNext, PTL DEF Spec, OutboundInOrder, Outbound!Spec

-----------------------------------------------------------------------------
(* The whole strengthening, as the runs check it.                          *)
THEOREM Inductive == Spec => []IndInv
<1>1. InStep => InboundInv'
  BY DEF InStep
<1>2. OutStep => OutboundInv'
  BY DEF OutStep
<1> QED BY <1>1, <1>2, TypeInit, TypeNext, CableInvInit, CableInvNext, TriesInvInit,
           TriesInvNext, LossInvInit, LossInvNext, InboundInit, InboundNext, OutboundInit,
           OutboundNext, PTL DEF Spec, IndInv

(* Landing puts nothing over a packet that waits.                          *)
LEMMA ArriveKeeps ==
  ASSUME NEW from, NEW f, NEW ok, Arrive(from, f, ok), receive_done
  PROVE  rcv' = rcv
BY DEF Arrive, Unheard, Take

(* While a packet waits to be read nothing is put over it.                 *)
THEOREM BufferIsKept == Spec => BufferKept
<1> DEFINE Kept == receive_done /\ receive_done' => rcv' = rcv
<1>1. TypeOK /\ [Next]_vars => [Kept]_vars
  <2> SUFFICES ASSUME TypeOK, [Next]_vars, receive_done, receive_done' PROVE rcv' = rcv
    OBVIOUS
  <2>1. ASSUME NEW dest \in Dests, WriteBuffer(dest) PROVE rcv' = rcv
    BY <2>1 DEF WriteBuffer
  <2>2. CASE ReadStart
    BY <2>2 DEF ReadStart
  <2>3. ASSUME NEW l \in BOOLEAN, NEW s \in BOOLEAN, NEW r \in BOOLEAN,
               NEW cr \in BOOLEAN, NEW ct \in BOOLEAN, WriteCsr(l, s, r, cr, ct)
        PROVE rcv' = rcv
    BY <2>3 DEF WriteCsr, TypeOK, IfaceOK
  <2>4. CASE TransmitDone
    BY <2>4 DEF TransmitDone
  <2>5. CASE Launch
    BY <2>5 DEF Launch
  <2>6. CASE LoopOver
    BY <2>6, ArriveKeeps DEF LoopOver, Unheard
  <2>7. CASE BoardStart
    BY <2>7 DEF BoardStart
  <2>8. CASE NodeStart
    BY <2>8 DEF NodeStart
  <2>9. CASE Ract
    BY <2>9 DEF Ract
  <2>10. CASE DestWord
    BY <2>10 DEF DestWord
  <2>11. CASE NodeAbort
    BY <2>11 DEF NodeAbort
  <2>12. CASE BoardAbort
    BY <2>12 DEF BoardAbort
  <2>13. CASE NodeOver
    BY <2>13 DEF NodeOver
  <2>14. CASE BoardOver
    BY <2>14 DEF BoardOver
  <2>15. CASE AbortOver
    BY <2>15 DEF AbortOver
  <2>16. CASE RunOver
    BY <2>16, ArriveKeeps DEF RunOver, Unheard
  <2>17. ASSUME NEW d \in Datagram, SocketArrival(d) PROVE rcv' = rcv
    BY <2>17 DEF SocketArrival
  <2>18. CASE Ask
    BY <2>18 DEF Ask
  <2>19. CASE Resume
    BY <2>19 DEF Resume
  <2>20. CASE UNCHANGED vars
    BY <2>20
  <2> QED
    BY <2>1, <2>2, <2>3, <2>4, <2>5, <2>6, <2>7, <2>8, <2>9, <2>10, <2>11,
       <2>12, <2>13, <2>14, <2>15, <2>16, <2>17, <2>18, <2>19, <2>20
    DEF Next, Software, Hardware
<1> QED BY <1>1, TypeInit, TypeNext, PTL DEF Spec, BufferKept
=============================================================================

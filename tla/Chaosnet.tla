------------------------------ MODULE Chaosnet ------------------------------
(***************************************************************************)
(* The Chaosnet of one machine: the behavioral interface on the I/O board  *)
(* (src/chaos/board.rs), the cable it is plugged into (src/chaos/ether.rs) *)
(* and the one node a run puts on that cable, the CHUDP link               *)
(* (src/chaos/udp.rs).                                                     *)
(*                                                                         *)
(* Time is abstracted to the order of the instants the code keeps.  A      *)
(* frame of the node's passes, in this order: its first edge, START^       *)
(* (RACT_NS), the destination word (BUSY_ABORT_NS), its end; then the line *)
(* falls idle (IDLE_NS) and the decoder delivers the run.  The cells of a  *)
(* frame, the length of the turn and the refill of a station are left out: *)
(* they only say which of the enabled steps comes first.  A packet is its  *)
(* number and its cable destination.                                       *)
(***************************************************************************)
EXTENDS Naturals, Sequences

CONSTANTS
  Me,            \* the address on the board's switches: Interface::address
  Peers,         \* the addresses the flags name an endpoint for
  Others,        \* addresses no flag names
  Broadcast,     \* destination 0
  Nowhere,       \* the destination of a buffer with no words in it
  DefaultPeer,   \* whether --chaos-udp-default-peer names an endpoint
  Drain,         \* datagrams taken off the socket at one turn: DRAIN
  TransmitTries, \* TRANSMIT_TRIES
  LostCounts,    \* where Lost Count wraps: 16, its four bits
  MaxOps,        \* bound: register accesses of the software
  MaxDatagrams,  \* bound: datagrams that reach the socket
  MaxResumes     \* bound: checkpoints taken and resumed from

ASSUME AddressAssumption ==
  /\ Me \notin Peers \cup Others \cup {Broadcast, Nowhere}
  /\ Broadcast \notin Peers \cup Others \cup {Nowhere}
  /\ Nowhere \notin Peers \cup Others
  /\ Peers \cap Others = {}

ASSUME BoundAssumption ==
  /\ DefaultPeer \in BOOLEAN
  /\ Drain \in Nat \ {0}
  /\ TransmitTries \in Nat \ {0}
  /\ LostCounts \in Nat \ {0, 1}
  /\ MaxOps \in Nat /\ MaxDatagrams \in Nat /\ MaxResumes \in Nat

Dests == {Me, Broadcast} \cup Peers \cup Others

VARIABLES
  (* the interface: board.rs, struct Interface *)
  loop,           \* CSR Loop Back
  spy,            \* CSR Spy
  transmit_done,
  transmit_abort,
  receive_done,
  lost,           \* Lost Count
  xmit,           \* the outgoing buffer: the last word written, or Nowhere
  rcv,            \* the incoming buffer
  ready,          \* turn.ready: the packet START was read for
  looped,         \* incoming: the looped-back frame still to land
  loopBusy,       \* a looped-back frame is being clocked out
  tdone,          \* tdone_at: Transmit Done is coming
  (* the cable: ether.rs, struct Board and struct Ether *)
  pending,        \* the board's frame, committed to its start
  boardTx,        \* the board's Transmission
  nodeTx,         \* the node's Transmission
  run,            \* the run of bits on the cable and in the decoder
  aborting,       \* the busy receiver's abort signal stands
  not_taken,      \* the run found the board's receiver inactive
  cable_full,     \* Board::receive_done, as the interface last told it
  cable_spy,      \* Board::spy, likewise
  (* the CHUDP node: udp.rs, struct Chudp *)
  sock,           \* datagrams in the socket that will be accepted
  out,            \* frames waiting for a turn
  waiting,        \* the frame offered to the ether: its Waiting
  tries,          \* how often the frame being sent has been sent
  (* history, for the properties and the bounds *)
  starts,         \* reads of START
  relayed, relays, \* the last packet the node sent on, and how many it has
  arrived,        \* datagrams accepted
  taken, takes,   \* the last datagram's packet put in rcv, and how many were
  ops, resumes

iface   == <<loop, spy, transmit_done, transmit_abort, receive_done, lost,
             xmit, rcv, ready, looped, loopBusy, tdone>>
cable   == <<pending, boardTx, nodeTx, run, aborting, not_taken,
             cable_full, cable_spy>>
chudp   == <<sock, out, waiting, tries>>
sentOn  == <<relayed, relays>>
takenIn == <<taken, takes>>
history == <<starts, sentOn, arrived, takenIn, ops, resumes>>
vars    == <<iface, cable, chudp, history>>

Frame    == [id : Nat, dest : Dests \cup {Nowhere}, try : Nat]
Buffered == [from : {"none", "node", "board"}, id : Nat, ok : BOOLEAN]
BoardSends == [frame : Frame, held : BOOLEAN]
NodeSends  == [frame : Frame, held : BOOLEAN, phase : {"lead", "head", "body"},
               off : BOOLEAN, seen : BOOLEAN]
Runs     == [on : BOOLEAN, whole : BOOLEAN, from : {"node", "board"},
             frame : Frame, off : BOOLEAN, counted : BOOLEAN, seen : BOOLEAN]

NoFrame  == [id |-> 0, dest |-> Nowhere, try |-> 0]
Silent   == [frame |-> NoFrame, held |-> FALSE]
Quiet    == [frame |-> NoFrame, held |-> FALSE, phase |-> "lead", off |-> FALSE,
             seen |-> FALSE]
IdleLine == [on |-> FALSE, whole |-> FALSE, from |-> "node", frame |-> NoFrame,
             off |-> FALSE, counted |-> FALSE, seen |-> FALSE]
EmptyRcv == [from |-> "none", id |-> 0, ok |-> FALSE]

BoardOn == boardTx.frame # NoFrame
NodeOn  == nodeTx.frame # NoFrame

Init ==
  /\ loop = FALSE /\ spy = FALSE
  /\ transmit_done = TRUE /\ transmit_abort = FALSE /\ receive_done = FALSE
  /\ lost = 0 /\ xmit = Nowhere /\ rcv = EmptyRcv
  /\ ready = NoFrame /\ looped = NoFrame /\ loopBusy = FALSE /\ tdone = FALSE
  /\ pending = NoFrame /\ boardTx = Silent /\ nodeTx = Quiet /\ run = IdleLine
  /\ aborting = FALSE /\ not_taken = FALSE
  /\ cable_full = FALSE /\ cable_spy = FALSE
  /\ sock = <<>> /\ out = <<>> /\ waiting = NoFrame /\ tries = 0
  /\ starts = 0 /\ relayed = 0 /\ relays = 0
  /\ arrived = 0 /\ taken = 0 /\ takes = 0
  /\ ops = 0 /\ resumes = 0

-----------------------------------------------------------------------------
(* The interface's registers, as the software accesses them.               *)

SoftwareAccess == ops < MaxOps /\ ops' = ops + 1

(* A packet's words written into the outgoing buffer, its destination      *)
(* last; each write clears Transmit Done and Transmit Abort.               *)
WriteBuffer(dest) ==
  /\ SoftwareAccess
  /\ xmit' = dest
  /\ transmit_done' = FALSE /\ transmit_abort' = FALSE
  /\ UNCHANGED <<loop, spy, receive_done, lost, rcv, ready, looped, loopBusy,
                 tdone, cable, chudp, starts, sentOn, arrived, takenIn,
                 resumes>>

(* A read of START: the buffer is taken and waits for the board's turn.  A *)
(* packet already waiting is replaced.                                     *)
ReadStart ==
  /\ SoftwareAccess
  /\ ready' = [id |-> starts + 1, dest |-> xmit, try |-> 1]
  /\ xmit' = Nowhere
  /\ starts' = starts + 1
  /\ UNCHANGED <<loop, spy, transmit_done, transmit_abort, receive_done, lost,
                 rcv, looped, loopBusy, tdone, cable, chudp, sentOn,
                 arrived, takenIn, resumes>>

TellTheCable == cable_full' = receive_done' /\ cable_spy' = spy'

(* A write of the CSR: the read/write bits, then Reset, Clear Receiver and *)
(* Clear Transmitter, and the cable told of the receiver.  Neither the     *)
(* frame committed to the cable nor the one on it is touched.              *)
WriteCsr(l, s, reset, clearReceiver, clearTransmitter) ==
  /\ SoftwareAccess
  /\ loop' = (l /\ ~reset)
  /\ spy' = (s /\ ~reset)
  /\ receive_done' = (receive_done /\ ~reset /\ ~clearReceiver)
  /\ rcv' = IF reset \/ clearReceiver THEN EmptyRcv ELSE rcv
  /\ lost' = IF reset \/ clearReceiver THEN 0 ELSE lost
  /\ looped' = IF reset THEN NoFrame ELSE looped
  /\ IF reset \/ clearTransmitter
     THEN /\ xmit' = Nowhere /\ ready' = NoFrame /\ tdone' = FALSE
          /\ transmit_abort' = FALSE /\ transmit_done' = TRUE
     ELSE UNCHANGED <<xmit, ready, tdone, transmit_abort, transmit_done>>
  /\ TellTheCable
  /\ UNCHANGED <<loopBusy, pending, boardTx, nodeTx, run, aborting, not_taken,
                 chudp, starts, sentOn, arrived, takenIn, resumes>>

(* Transmit Done comes for the frame being sent.                           *)
TransmitDone ==
  /\ tdone
  /\ tdone' = FALSE /\ transmit_done' = TRUE
  /\ UNCHANGED <<loop, spy, transmit_abort, receive_done, lost, xmit, rcv, ready,
                 looped, loopBusy, cable, chudp, history>>

Unheard ==
  UNCHANGED <<rcv, receive_done, lost, cable_full, cable_spy, takenIn>>

(* The destination as it came on the wire is this interface's, a           *)
(* broadcast, or anything under Spy; wreckage too short has none.          *)
Mine(dest) == dest \in {Me, Broadcast} \/ (spy /\ dest # Nowhere)

(* Lost Count steps, and wraps.                                            *)
LostOneMore == (lost + 1) % LostCounts

(* The frame into the incoming buffer, and the cable told it is full.      *)
Take(from, frame, ok) ==
  /\ rcv' = [from |-> from, id |-> frame.id, ok |-> ok]
  /\ receive_done' = TRUE
  /\ cable_full' = TRUE /\ cable_spy' = spy
  /\ IF from = "node" /\ ok
     THEN taken' = frame.id /\ takes' = takes + 1
     ELSE UNCHANGED takenIn

(* A frame lands, off the cable or looped back: taken if it is for this    *)
(* interface and the buffer is free, counted if it is not free.            *)
Arrive_mut(from, frame, ok) ==
  \/ ~Mine(frame.dest) /\ Unheard
  \/ Mine(frame.dest) /\ Take(from, frame, ok) /\ UNCHANGED lost
Arrive(from, frame, ok) ==
  \/ /\ ~Mine(frame.dest)
     /\ Unheard
  \/ /\ Mine(frame.dest) /\ receive_done
     /\ lost' = LostOneMore
     /\ UNCHANGED <<rcv, receive_done, cable_full, cable_spy, takenIn>>
  \/ /\ Mine(frame.dest) /\ ~receive_done
     /\ Take(from, frame, ok)
     /\ UNCHANGED lost

TakeReady_mut == UNCHANGED ready
TakeReady == ready' = NoFrame

(* The turn has come, the timer seeing no frame on the cable: the packet   *)
(* ready is committed to the cable, or goes round the loop.  A frame that  *)
(* started under Loop Back was not shown to the timer.                     *)
Launch ==
  /\ ready # NoFrame /\ pending = NoFrame
  /\ ~BoardOn /\ ~loopBusy /\ ~tdone /\ ~(NodeOn /\ nodeTx.seen)
  /\ TakeReady
  /\ IF loop
     THEN /\ loopBusy' = TRUE /\ tdone' = TRUE /\ looped' = ready
          /\ UNCHANGED pending
     ELSE /\ pending' = ready
          /\ UNCHANGED <<loopBusy, tdone, looped>>
  /\ UNCHANGED <<loop, spy, transmit_done, transmit_abort, receive_done, lost,
                 xmit, rcv, boardTx, nodeTx, run, aborting, not_taken,
                 cable_full, cable_spy, chudp, history>>

(* The looped-back frame is over, and lands unless a Reset dropped it.     *)
LoopOver ==
  /\ loopBusy /\ ~tdone
  /\ loopBusy' = FALSE /\ looped' = NoFrame
  /\ IF looped # NoFrame
     THEN Arrive("board", looped, TRUE)
     ELSE Unheard
  /\ UNCHANGED <<loop, spy, transmit_done, transmit_abort, xmit, ready, tdone,
                 pending, boardTx, nodeTx, run, aborting, not_taken, chudp,
                 starts, sentOn, arrived, ops, resumes>>

-----------------------------------------------------------------------------
(* The cable.                                                              *)

(* The run of bits when `frame` starts: a frame alone so far, or one more  *)
(* in a run that is then wreckage.                                         *)
Begun_mut(from, frame, seen) ==
  [on |-> TRUE, whole |-> TRUE, from |-> from, frame |-> frame,
   off |-> FALSE, counted |-> FALSE, seen |-> seen]
Begun(from, frame, seen) ==
  IF run.on
  THEN [run EXCEPT !.whole = FALSE]
  ELSE [on |-> TRUE, whole |-> TRUE, from |-> from, frame |-> frame,
        off |-> FALSE, counted |-> FALSE, seen |-> seen]

(* The interface, told of its own frame's start, reckons Transmit Done.    *)
OwnFrameStarted_mut == UNCHANGED tdone
OwnFrameStarted == tdone' = TRUE

(* The board's frame goes at its timer's instant, cable busy or not.  It   *)
(* cannot fall in the idle time after a run the timer saw.                 *)
BoardStart ==
  /\ pending # NoFrame
  /\ run.on => (NodeOn \/ aborting \/ ~run.seen)
  /\ boardTx' = [frame |-> pending, held |-> FALSE]
  /\ pending' = NoFrame
  /\ run' = Begun("board", pending, TRUE)
  /\ OwnFrameStarted
  /\ UNCHANGED <<loop, spy, transmit_done, transmit_abort, receive_done, lost,
                 xmit, rcv, ready, looped, loopBusy, nodeTx, aborting,
                 not_taken, cable_full, cable_spy, chudp, history>>

(* The node's frame goes at its turn if the cable is idle then.            *)
NodeStart ==
  /\ waiting # NoFrame /\ ~run.on
  /\ nodeTx' = [frame |-> waiting, held |-> FALSE, phase |-> "lead",
                off |-> FALSE, seen |-> ~loop]
  /\ waiting' = NoFrame
  /\ run' = Begun("node", waiting, ~loop)
  /\ UNCHANGED <<iface, pending, boardTx, aborting, not_taken, cable_full,
                 cable_spy, sock, out, tries, history>>

(* START^ of the node's frame: RACT takes Receive Done as it stands and    *)
(* keeps it for the frame.                                                 *)
Ract ==
  /\ NodeOn /\ nodeTx.phase = "lead"
  /\ nodeTx' = [nodeTx EXCEPT !.phase = "head", !.off = cable_full]
  /\ not_taken' = (not_taken \/ cable_full)
  /\ run' = [run EXCEPT !.off = @ \/ cable_full]
  /\ UNCHANGED <<iface, pending, boardTx, aborting, cable_full, cable_spy,
                 chudp, history>>

(* The frames the receiver would have taken, its buffer free.              *)
Counts_mut(dest) == dest = Me \/ cable_spy
Counts(dest) == dest \in {Me, Broadcast} \/ cable_spy

(* The destination word has gone by: a busy receiver counts a frame it     *)
(* would have taken, and aborts one addressed to it by name.  An aborted   *)
(* frame whose abort signal still stands is decided on all the same.       *)
DestWord ==
  LET dest  == nodeTx.frame.dest
      count == nodeTx.off /\ Counts(dest)
  IN
  /\ NodeOn /\ nodeTx.phase = "head"
  /\ nodeTx' = [nodeTx EXCEPT !.phase = "body"]
  /\ lost' = IF count THEN LostOneMore ELSE lost
  /\ aborting' = (aborting \/ (count /\ dest = Me))
  /\ run' = [run EXCEPT !.counted = @ \/ count]
  /\ UNCHANGED <<loop, spy, transmit_done, transmit_abort, receive_done, xmit,
                 rcv, ready, looped, loopBusy, tdone, pending, boardTx,
                 not_taken, cable_full, cable_spy, chudp, history>>

(* The node's queue with an aborted frame back at its head, unless it has  *)
(* been tried often enough.                                                *)
Again_back(frame) ==
  IF tries >= TransmitTries
  THEN out ELSE Append(out, [frame EXCEPT !.try = tries])
Again_fresh(frame) ==
  IF tries >= TransmitTries
  THEN out ELSE <<[frame EXCEPT !.try = 0]>> \o out
Again(frame) ==
  IF tries >= TransmitTries
  THEN out ELSE <<[frame EXCEPT !.try = tries]>> \o out

(* A clock edge finds the node's transmitter high with another: it aborts, *)
(* holds the cable, and its words go back to the node to try again.        *)
NodeAbort ==
  /\ NodeOn /\ ~nodeTx.held /\ nodeTx.phase # "lead"
  /\ aborting \/ BoardOn
  /\ nodeTx' = [nodeTx EXCEPT !.held = TRUE]
  /\ run' = [run EXCEPT !.whole = FALSE]
  /\ out' = Again(nodeTx.frame)
  /\ UNCHANGED <<iface, pending, boardTx, aborting, not_taken, cable_full,
                 cable_spy, sock, waiting, tries, history>>

(* The same at the board's own transmitter: Transmit Abort, and Transmit   *)
(* Done to come.                                                           *)
BoardAbort ==
  /\ BoardOn /\ ~boardTx.held
  /\ aborting \/ NodeOn
  /\ boardTx' = [boardTx EXCEPT !.held = TRUE]
  /\ run' = [run EXCEPT !.whole = FALSE]
  /\ transmit_abort' = TRUE /\ tdone' = TRUE
  /\ UNCHANGED <<loop, spy, transmit_done, receive_done, lost, xmit, rcv, ready,
                 looped, loopBusy, pending, nodeTx, aborting, not_taken,
                 cable_full, cable_spy, chudp, history>>

(* A transmitter leaves the cable: at its frame's end, or at the end of    *)
(* its abort signal.  The busy receiver's signal outlasts two cells, so a  *)
(* frame it stands against is aborted before either is over; Transmit Done *)
(* comes before the board's frame ends.                                    *)
NodeOver ==
  /\ NodeOn
  /\ nodeTx.held \/ (nodeTx.phase = "body" /\ ~aborting)
  /\ nodeTx' = Quiet
  /\ UNCHANGED <<iface, pending, boardTx, run, aborting, not_taken, cable_full,
                 cable_spy, chudp, history>>

BoardOver ==
  /\ BoardOn /\ ~tdone
  /\ boardTx' = Silent
  /\ UNCHANGED <<iface, pending, nodeTx, run, aborting, not_taken, cable_full,
                 cable_spy, chudp, history>>

AbortOver ==
  /\ aborting /\ (NodeOn => nodeTx.held)
  /\ aborting' = FALSE
  /\ UNCHANGED <<iface, pending, boardTx, nodeTx, run, not_taken, cable_full,
                 cable_spy, chudp, history>>

(* The endpoints a frame for `dest` leaves over UDP to.                    *)
Addressed(dest) ==
  IF dest = Broadcast THEN Peers
  ELSE IF dest = Me THEN {}
  ELSE IF dest \in Peers THEN {dest}
  ELSE IF DefaultPeer THEN {Nowhere} ELSE {}

TakeNotTaken == not_taken' = FALSE

(* The line has been idle: the decoder delivers the run to the node, which *)
(* sends on a whole packet of the board's, and to the board, which takes   *)
(* nothing of a run its receiver was not active for, nor anything under    *)
(* Loop Back.  Wreckage reads back as any source and destination, or none, *)
(* and fails its check.  The node drops a buffer that is no packet.        *)
RunOver ==
  /\ run.on /\ ~NodeOn /\ ~BoardOn /\ ~aborting
  /\ run' = IdleLine
  /\ TakeNotTaken
  /\ IF /\ run.whole /\ run.from = "board" /\ run.frame.dest # Nowhere
        /\ Addressed(run.frame.dest) # {}
     THEN \/ relayed' = run.frame.id /\ relays' = relays + 1
          \/ UNCHANGED sentOn
     ELSE UNCHANGED sentOn
  /\ IF (run.whole /\ run.from = "board") \/ not_taken \/ loop
     THEN Unheard
     ELSE \/ run.whole /\ Arrive("node", run.frame, TRUE)
          \/ /\ ~run.whole
             /\ \E dest \in Dests \cup {Nowhere} :
                  Arrive("node", [NoFrame EXCEPT !.dest = dest], FALSE)
  /\ UNCHANGED <<loop, spy, transmit_done, transmit_abort, xmit, ready, looped,
                 loopBusy, tdone, pending, boardTx, nodeTx, aborting, chudp,
                 starts, arrived, ops, resumes>>

-----------------------------------------------------------------------------
(* The CHUDP node.                                                         *)

Datagram == [src : Dests, dest : Dests, ok : BOOLEAN]

(* What Chudp::drain keeps of what the socket has: a datagram that         *)
(* unwraps, from no station of this cable, for this cable.                 *)
Accepts(d) == d.ok /\ d.src \notin {Broadcast, Me} /\ d.dest \in {Broadcast, Me}

(* A datagram reaches the socket.  UDP loses, repeats and reorders before  *)
(* this point: any datagram may come at any time.                          *)
SocketArrival(d) ==
  /\ arrived < MaxDatagrams
  /\ IF Accepts(d)
     THEN /\ sock' = Append(sock, [id |-> arrived + 1, dest |-> d.dest, try |-> 0])
          /\ arrived' = arrived + 1
     ELSE UNCHANGED <<sock, arrived>>
  /\ UNCHANGED <<iface, cable, out, waiting, tries, starts, sentOn,
                 takenIn, ops, resumes>>

(* The ether asks the node for a frame, the cable free and none of its own *)
(* waiting: the socket is drained, the oldest frame offered.               *)
Ask ==
  LET n      == IF Len(sock) < Drain THEN Len(sock) ELSE Drain
      queued == out \o SubSeq(sock, 1, n)
  IN
  /\ ~run.on /\ waiting = NoFrame
  /\ Len(queued) > 0
  /\ sock' = SubSeq(sock, n + 1, Len(sock))
  /\ out' = Tail(queued)
  /\ tries' = Head(queued).try + 1
  /\ waiting' = [Head(queued) EXCEPT !.try = @ + 1]
  /\ UNCHANGED <<iface, cable, history>>

-----------------------------------------------------------------------------
(* A checkpoint is taken and resumed from: the interface comes back as it  *)
(* was saved, told to a cable that is plugged in afresh, with a new node.  *)
Resume ==
  /\ resumes < MaxResumes
  /\ resumes' = resumes + 1
  /\ pending' = NoFrame /\ boardTx' = Silent /\ nodeTx' = Quiet
  /\ run' = IdleLine /\ aborting' = FALSE /\ not_taken' = FALSE
  /\ cable_full' = receive_done /\ cable_spy' = spy
  /\ sock' = <<>> /\ out' = <<>> /\ waiting' = NoFrame /\ tries' = 0
  /\ UNCHANGED <<iface, starts, sentOn, arrived, takenIn, ops>>

-----------------------------------------------------------------------------
Software ==
  \/ \E dest \in Dests : WriteBuffer(dest)
  \/ ReadStart
  \/ \E l, s, r, cr, ct \in BOOLEAN : WriteCsr(l, s, r, cr, ct)

Hardware ==
  \/ TransmitDone \/ Launch \/ LoopOver
  \/ BoardStart \/ NodeStart \/ Ract \/ DestWord
  \/ NodeAbort \/ BoardAbort \/ NodeOver \/ BoardOver \/ AbortOver \/ RunOver
  \/ Ask

Next ==
  \/ Software
  \/ Hardware
  \/ \E d \in Datagram : SocketArrival(d)
  \/ Resume

Spec == Init /\ [][Next]_vars

(* The engines advance the interface every microcycle, so whatever is due  *)
(* on the interface or the cable comes; the software and the network owe   *)
(* nothing.                                                                *)
Fairness ==
  /\ WF_vars(TransmitDone) /\ WF_vars(Launch) /\ WF_vars(LoopOver)
  /\ WF_vars(BoardStart) /\ WF_vars(NodeStart) /\ WF_vars(Ract)
  /\ WF_vars(DestWord) /\ WF_vars(NodeAbort) /\ WF_vars(NodeOver)
  /\ WF_vars(BoardOver) /\ WF_vars(AbortOver) /\ WF_vars(RunOver)
  /\ WF_vars(Ask)

FairSpec == Spec /\ Fairness

-----------------------------------------------------------------------------
(* Properties.                                                             *)

IfaceOK ==
  /\ loop \in BOOLEAN /\ spy \in BOOLEAN
  /\ transmit_done \in BOOLEAN /\ transmit_abort \in BOOLEAN
  /\ receive_done \in BOOLEAN /\ lost \in 0..(LostCounts - 1)
  /\ xmit \in Dests \cup {Nowhere}
  /\ rcv \in Buffered
  /\ ready \in Frame /\ looped \in Frame
  /\ loopBusy \in BOOLEAN /\ tdone \in BOOLEAN

CableOK ==
  /\ pending \in Frame
  /\ boardTx \in BoardSends /\ nodeTx \in NodeSends /\ run \in Runs
  /\ aborting \in BOOLEAN /\ not_taken \in BOOLEAN
  /\ cable_full \in BOOLEAN /\ cable_spy \in BOOLEAN

ChudpOK ==
  /\ sock \in Seq(Frame) /\ out \in Seq(Frame)
  /\ waiting \in Frame /\ tries \in Nat

HistoryOK ==
  /\ starts \in Nat /\ relayed \in Nat /\ relays \in Nat
  /\ arrived \in Nat /\ taken \in Nat /\ takes \in Nat
  /\ ops \in Nat /\ resumes \in Nat

(* The type of every variable of the interface, the cable, the node and    *)
(* the history; in particular Lost Count stays within its four bits.       *)
TypeOK == IfaceOK /\ CableOK /\ ChudpOK /\ HistoryOK

(* The receiver the cable decides with is the interface's: a busy receiver *)
(* is judged microseconds before the interface hears of the frame, from    *)
(* the copy Interface::tell_the_cable left in the ether.                   *)
ReceiverTold == cable_full = receive_done /\ cable_spy = spy

(* not_taken belongs to the run on the cable: it is set whenever a frame   *)
(* of that run found the buffer full at START^, and is never left over to  *)
(* make the receiver miss a later frame.                                   *)
NotTakenIsTheRuns ==
  /\ not_taken => run.on
  /\ run.off = not_taken

(* The count Chudp::aborted gives up by is the aborted frame's own: the    *)
(* node never has a second frame waiting or on the cable, and no frame is  *)
(* put on the cable more than TRANSMIT_TRIES times.                        *)
TriesAreTheFrames ==
  /\ NodeOn => waiting = NoFrame /\ nodeTx.frame.try <= TransmitTries
  /\ NodeOn /\ ~nodeTx.held => nodeTx.frame.try = tries
  /\ waiting # NoFrame => waiting.try = tries

(* While a packet waits to be read nothing is put over it: the buffer only *)
(* changes with Receive Done down.                                         *)
BufferKept == [][receive_done /\ receive_done' => rcv' = rcv]_vars

(* A whole frame for this interface that its receiver does not take is     *)
(* counted: at its destination word, or when it lands.  (Under Loop Back   *)
(* the receiver is not on the cable.)                                      *)
NoSilentLoss ==
  [][ (/\ run.on /\ ~run'.on /\ resumes' = resumes
       /\ run.whole /\ run.from = "node" /\ ~loop)
      => \/ run.counted
         \/ rcv'.from = "node" /\ rcv'.id = run.frame.id
         \/ lost' # lost ]_vars

(* A packet START was read for ends in Transmit Done, whatever becomes of  *)
(* it: sent, aborted, looped back or cleared, and also resumed, if it      *)
(* still waits for its turn when the last checkpoint is taken: a later one *)
(* loses it (Interface::save leaves the cable's frame out).                *)
StartIsAnswered == (ready # NoFrame /\ resumes = MaxResumes) ~> transmit_done

(* Every datagram the node accepted leaves its queues: delivered, or given *)
(* up after TRANSMIT_TRIES aborts.                                         *)
NodeDrains == <>[](sock = <<>> /\ out = <<>> /\ waiting = NoFrame)

(* What each direction promises: packets off the network reach the buffer, *)
(* and packets of the board's leave over UDP, in order and at most once,   *)
(* whatever collides, is aborted, retried or resumed.                      *)
Inbound  == INSTANCE ChaosChannel WITH sent <- arrived, last <- taken, count <- takes
Outbound == INSTANCE ChaosChannel WITH sent <- starts, last <- relayed, count <- relays

InboundInOrder  == Inbound!Spec
OutboundInOrder == Outbound!Spec

-----------------------------------------------------------------------------
(* The inductive strengthening of the invariants and of the two orders.    *)

(* The cable: the node is on it only within a run it started, and offers   *)
(* nothing more until that run is over.                                    *)
CableInv ==
  /\ ReceiverTold /\ NotTakenIsTheRuns
  /\ NodeOn => run.on /\ run.from = "node" /\ run.frame = nodeTx.frame
  /\ NodeOn /\ run.whole => ~nodeTx.held
  /\ run.on /\ run.from = "node" => waiting = NoFrame

(* The tries: a queued frame has one left.                                 *)
TriesInv ==
  /\ TriesAreTheFrames
  /\ waiting # NoFrame => waiting.try <= TransmitTries
  /\ \A i \in 1..Len(out) : out[i].try < TransmitTries
  /\ \A i \in 1..Len(sock) : sock[i].try < TransmitTries

(* The count of what is lost: a datagram taken off the socket is for this  *)
(* cable, and a whole run of the node's that found the receiver busy at    *)
(* START^ is counted once its destination word has gone by.                *)
ForMe(frame) == frame.dest \in {Me, Broadcast}

LossInv ==
  /\ \A i \in 1..Len(out) : ForMe(out[i])
  /\ \A i \in 1..Len(sock) : ForMe(sock[i])
  /\ waiting # NoFrame => ForMe(waiting)
  /\ NodeOn => ForMe(nodeTx.frame)
  /\ run.on /\ run.whole /\ run.from = "node" =>
       /\ ForMe(run.frame)
       /\ NodeOn /\ nodeTx.phase = "lead" => ~run.off
       /\ NodeOn /\ nodeTx.phase = "head" => nodeTx.off = run.off
       /\ run.off => run.counted \/ (NodeOn /\ nodeTx.phase = "head")

(* `id` is an inbound packet that goes before all that are queued.         *)
Oldest(id) ==
  /\ taken < id /\ id <= arrived
  /\ \A i \in 1..Len(out) : id < out[i].id
  /\ \A i \in 1..Len(sock) : id < sock[i].id

InboundInv ==
  /\ taken <= arrived
  /\ \A i \in 1..Len(out) : taken < out[i].id /\ out[i].id <= arrived
  /\ \A i \in 1..Len(sock) : taken < sock[i].id /\ sock[i].id <= arrived
  /\ \A i, j \in 1..Len(out) : i < j => out[i].id < out[j].id
  /\ \A i, j \in 1..Len(sock) : i < j => sock[i].id < sock[j].id
  /\ \A i \in 1..Len(out), j \in 1..Len(sock) : out[i].id < sock[j].id
  /\ waiting # NoFrame => Oldest(waiting.id)
  /\ NodeOn /\ ~nodeTx.held => Oldest(nodeTx.frame.id)
  /\ run.on /\ run.whole /\ run.from = "node" => Oldest(run.frame.id)

OutboundInv ==
  /\ relayed <= starts
  /\ ready # NoFrame => relayed < ready.id /\ ready.id <= starts
  /\ pending # NoFrame => /\ relayed < pending.id /\ pending.id <= starts
                          /\ ready # NoFrame => pending.id < ready.id
  /\ run.on /\ run.whole /\ run.from = "board" =>
       /\ relayed < run.frame.id /\ run.frame.id <= starts
       /\ pending # NoFrame => run.frame.id < pending.id
       /\ ready # NoFrame => run.frame.id < ready.id

(* Together inductive: what Interface, Ether and Chudp rely on of each     *)
(* other between two steps.                                                *)
IndInv == CableInv /\ TriesInv /\ LossInv /\ InboundInv /\ OutboundInv

=============================================================================

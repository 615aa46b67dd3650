------------------------------- MODULE Fabric -------------------------------
(***************************************************************************)
(* The debug cable to a CADR in an FPGA, from src/src/fabric.rs and the    *)
(* FreeRunning driver of src/src/lashup.rs: a debugger on muir's clock, a  *)
(* debuggee on its own, and a window of registers between them.  muir may  *)
(* be killed between any two steps and run again.                          *)
(*                                                                         *)
(* The adapter behind the window is not in the repository: it is modelled  *)
(* from what fabric.rs guards against, a store it does not take, a         *)
(* watchdog that lifts a request, a window that dies.  A request is its    *)
(* number and its answer the same number, so that an answer taken for      *)
(* another request shows.                                                  *)
(***************************************************************************)
EXTENDS Integers

CONSTANTS
    SeqCount,            \* the sequence number's values, 16 in the window
    MaxRequests,       \* bound: the requests the debugger makes
    MaxRuns            \* bound: the times muir is run

ASSUME FabricAssumption == SeqCount \in Nat /\ SeqCount > 1 /\ {MaxRequests, MaxRuns} \subseteq Nat

VARIABLES
    adapter,           \* alive, the request it holds, its sequence, its latched answer
    muir,              \* the Fabric and FreeRunning: up, seq, standing, answer, fault, carried
    dbgout             \* the debugger's DBGOUT: requests made, pending, the answer it took

fabricVars == <<adapter, muir, dbgout>>

NoneOut == 0

NoMuir == [up |-> FALSE, seq |-> 0, standing |-> NoneOut, answer |-> NoneOut, fault |-> "none",
           carried |-> TRUE]

FabricInit ==
    /\ adapter = [alive |-> TRUE, holds |-> NoneOut, seq |-> 0, ack |-> FALSE]
    /\ muir = NoMuir
    /\ dbgout = [asked |-> 0, pending |-> FALSE, took |-> NoneOut, runs |-> 0]

-----------------------------------------------------------------------------
(* The adapter.                                                             *)

\* A store is taken, or not.  An adapter that holds a request takes one of the
\* next SeqCount - 1: a number it holds does not come round again.
MayMiss(a, s) == s.k = "request" /\ a.holds # NoneOut => s.n < a.holds + SeqCount

StoreTaken(a, s) ==
    CASE s.k = "clear"   -> [a EXCEPT !.holds = NoneOut, !.ack = FALSE, !.seq = 0]
      [] s.k = "lift"    -> [a EXCEPT !.holds = NoneOut, !.ack = FALSE]
      [] s.k = "request" -> [a EXCEPT !.holds = s.n, !.seq = s.seq, !.ack = FALSE]

StoreLeaves(a, s) == {StoreTaken(a, s)} \cup {x \in {a} : MayMiss(x, s)}

\* DEBUG IN ACK for the request held, latched.
AdapterAcks ==
    /\ adapter.holds # NoneOut /\ ~adapter.ack
    /\ adapter' = [adapter EXCEPT !.ack = TRUE]
    /\ UNCHANGED <<muir, dbgout>>

\* A request that has stood too long is lifted by the adapter.
AdapterWatchdog ==
    /\ adapter.holds # NoneOut
    /\ adapter' = [adapter EXCEPT !.holds = NoneOut, !.ack = FALSE]
    /\ UNCHANGED <<muir, dbgout>>

\* Every load reads all zeros or all ones from here.
WindowDies ==
    /\ adapter.alive
    /\ adapter' = [adapter EXCEPT !.alive = FALSE]
    /\ UNCHANGED <<muir, dbgout>>

-----------------------------------------------------------------------------
(* muir's end.                                                              *)

ClearKey == [k |-> "clear"]

LiftWord == [k |-> "lift"]

CtlWord(n, seq) == [k |-> "request", n |-> n, seq |-> seq]

\* open: the identity, the key to CLEAR, and an idle adapter at the load
\* after it, or the window is refused.
FabricOpen ==
    /\ ~muir.up /\ dbgout.runs < MaxRuns /\ adapter.alive
    /\ adapter' \in StoreLeaves(adapter, ClearKey)
    /\ muir' = [NoMuir EXCEPT !.up = adapter'.holds = NoneOut]
    /\ dbgout' = [dbgout EXCEPT !.runs = @ + 1, !.pending = FALSE]

FabricBlame(m, what) == [m EXCEPT !.fault = IF @ = "none" THEN what ELSE @]

FabricAck_mut(m, a) ==
    IF ~a.alive THEN FabricBlame(m, "fatal")
    ELSE IF a.holds = NoneOut THEN FabricBlame(m, "lost")
    ELSE IF ~a.ack THEN m
    ELSE [m EXCEPT !.answer = a.holds, !.standing = NoneOut]

\* debug_ack with a request standing: one load of STS, guarded by the mark
\* and by the sequence; an answer is latched and the request lifted.
FabricAck(m, a) ==
    IF ~a.alive THEN FabricBlame(m, "fatal")
    ELSE IF a.holds = NoneOut \/ a.seq # m.seq THEN FabricBlame(m, "lost")
    ELSE IF ~a.ack THEN m
    ELSE [m EXCEPT !.answer = a.holds, !.standing = NoneOut]

\* FreeRunning::step after the debugger's own step: the answer polled, and
\* carried to the debugger if it still waits for it.
FabricPoll(m, a, d) ==
    LET p == IF m.carried \/ m.answer # NoneOut \/ m.standing = NoneOut THEN m ELSE FabricAck(m, a)
        answered == ~m.carried /\ p.answer # NoneOut
    IN  /\ muir' = [p EXCEPT !.carried = @ \/ answered]
        /\ dbgout' = IF answered /\ d.pending
                     THEN [d EXCEPT !.pending = FALSE, !.took = p.answer] ELSE d
        /\ IF m.standing # NoneOut /\ p.standing = NoneOut
           THEN adapter' \in StoreLeaves(a, LiftWord) ELSE adapter' = a

\* A step whose cycle puts a request on the cable; refused while another is
\* at the window.
FabricRequest ==
    /\ muir.up /\ ~dbgout.pending /\ dbgout.asked < MaxRequests
    /\ LET n   == dbgout.asked + 1
           seq == (muir.seq + 1) % SeqCount
           d   == [dbgout EXCEPT !.asked = n, !.pending = TRUE, !.took = NoneOut]
       IN  IF muir.standing # NoneOut
           THEN /\ muir' = [muir EXCEPT !.fault = "refused"]
                /\ dbgout' = d
                /\ UNCHANGED adapter
           ELSE \E a \in StoreLeaves(adapter, CtlWord(n, seq)) :
                   FabricPoll([muir EXCEPT !.seq = seq, !.standing = n, !.answer = NoneOut,
                                     !.carried = FALSE], a, d)

\* debug_release.
FabricRelease(m) == [m EXCEPT !.standing = NoneOut, !.carried = TRUE]

\* The debugger's timeout: the cycle is over, and its release is on the
\* cable.
FabricTimeOut ==
    /\ muir.up /\ dbgout.pending
    /\ \E a \in IF muir.standing # NoneOut THEN StoreLeaves(adapter, LiftWord) ELSE {adapter} :
          FabricPoll(FabricRelease(muir), a, [dbgout EXCEPT !.pending = FALSE])

\* A step that puts nothing on the cable.
FabricIdle ==
    /\ muir.up /\ ~muir.carried
    /\ FabricPoll(muir, adapter, dbgout)

\* The caller takes the fault and goes on, or ends at a fatal one; and the
\* run may end anywhere.  The Fabric dropped lifts what stands.
TakeFault ==
    /\ muir.up /\ muir.fault = "lost"
    /\ muir' = [muir EXCEPT !.fault = "none"]
    /\ UNCHANGED <<adapter, dbgout>>

FabricDrop ==
    /\ muir.up
    /\ adapter' \in IF muir.standing # NoneOut THEN StoreLeaves(adapter, LiftWord) ELSE {adapter}
    /\ muir' = NoMuir
    /\ UNCHANGED dbgout

\* Killed: nothing is lifted.
FabricKilled ==
    /\ muir.up
    /\ muir' = NoMuir
    /\ UNCHANGED <<adapter, dbgout>>

FabricNext ==
    \/ AdapterAcks \/ AdapterWatchdog \/ WindowDies
    \/ FabricOpen
    \/ muir.fault \notin {"fatal", "refused"} /\ (FabricRequest \/ FabricTimeOut \/ FabricIdle)
    \/ TakeFault \/ FabricDrop \/ FabricKilled

-----------------------------------------------------------------------------

\* The debugger never takes the answer to another request for its own's: an
\* acknowledgement left standing, by a lift the adapter did not take or by a
\* run that was killed, is caught by the sequence or by the clear.
AnswerIsMine == dbgout.took \in {NoneOut, dbgout.asked}

\* A request is never refused as one too many: by the time the debugger
\* makes its next, answered, timed out or lost by the adapter, muir has let
\* the last one go.
OneAtTheWindow == muir.fault # "refused"
=============================================================================

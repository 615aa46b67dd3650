----------------------------- MODULE ChaosChannel -----------------------------
(***************************************************************************)
(* What one direction of the Chaosnet promises whoever sends through it:   *)
(* packets are numbered as they are accepted, and those that come out come *)
(* out in that order, each at most once.  Any of them may be lost; none is *)
(* made up.                                                                *)
(***************************************************************************)
EXTENDS Naturals

VARIABLES
  sent,   \* packets accepted so far: their numbers are 1..sent
  last,   \* the number of the last packet that came out
  count   \* how many came out

Init == sent = 0 /\ last = 0 /\ count = 0

Accept == sent' = sent + 1 /\ UNCHANGED <<last, count>>

Deliver ==
  /\ last' \in (last + 1)..sent
  /\ count' = count + 1
  /\ UNCHANGED sent

Next == Accept \/ Deliver

Spec == Init /\ [][Next]_<<sent, last, count>>
=============================================================================

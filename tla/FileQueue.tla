------------------------------- MODULE FileQueue -------------------------------
(* What the file device promises its driver: commands answered one for one, in *)
(* order, up to `limit.cmd` of them waiting and `limit.resp` answers not yet    *)
(* taken; switched off, or switched on, with nothing waiting on either side.    *)
EXTENDS Naturals, Sequences

CONSTANTS
  Tags,       \* what names a command and its answer
  Limits      \* the pairs of limits it may be given

VARIABLES on, limit, commands, answers

vars == <<on, limit, commands, answers>>

Init == on = FALSE /\ limit \in Limits /\ commands = <<>> /\ answers = <<>>

Configure == ~on /\ limit' \in Limits /\ UNCHANGED <<on, commands, answers>>

Switch == on' \in BOOLEAN /\ commands' = <<>> /\ answers' = <<>> /\ UNCHANGED limit

\* n commands posted in one go.
Post(n) ==
  /\ on /\ Len(commands) + n <= limit.cmd
  /\ \E s \in [1 .. n -> Tags] : commands' = commands \o s
  /\ UNCHANGED <<on, limit, answers>>

Answer ==
  /\ on /\ commands # <<>> /\ Len(answers) < limit.resp
  /\ answers' = Append(answers, Head(commands)) /\ commands' = Tail(commands)
  /\ UNCHANGED <<on, limit>>

\* n answers taken in one go.
Take(n) ==
  /\ on /\ n <= Len(answers)
  /\ answers' = SubSeq(answers, n + 1, Len(answers))
  /\ UNCHANGED <<on, limit, commands>>

Next == \/ Configure \/ Switch \/ Answer
        \/ \E n \in 1 .. limit.cmd : Post(n)
        \/ \E n \in 1 .. limit.resp : Take(n)

Spec == Init /\ [][Next]_vars
================================================================================

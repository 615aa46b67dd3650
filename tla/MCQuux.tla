------------------------------- MODULE MCQuux -------------------------------
(* Quux on a small instance: a cache of one set of two 2-word lines, pages  *)
(* of 4 words; a disk of four blocks in two VHD blocks; a mount that can be *)
(* written, with two folders, and one that cannot.                          *)
EXTENDS Quux, TLC

CONSTANTS rw, ro, bare, na, nb, nc

MCPlain == Op("plain", 0)
MCReturn == <<Op("return", 0), MCPlain, MCPlain>>

MCPortOps ==
    {Op("load", 6), Op("store", 1), Op("lc", 0), Op("lc", 1), Op("map", 1),
     Op("device", 0), Op("nothing", 0)}

\* A fetch; two operations, each with or without a return right after it;
\* and a return.  And a program of writes behind each other and of reads
\* that evict each other's lines.
MCPortPrograms ==
    {MCReturn \o <<a>> \o x \o <<b>> \o y \o MCReturn :
        a, b \in MCPortOps, x, y \in {<<MCPlain>>, MCReturn}}
      \cup {<<Op("store", 3), MCPlain, Op("store", 2), MCPlain, Op("store", 1), MCPlain,
              Op("load", 4), MCPlain, Op("load", 3), MCPlain, Op("load", 5), MCPlain,
              Op("load", 2), MCPlain, MCPlain, MCPlain, MCPlain>>}

MCList(a, b) == (4 :> Word(a, 0)) @@ (5 :> Word(b, 0))

MCData(v) == (0 :> Word(v, 1)) @@ (1 :> Word(v + 1, 2))

MCJob(words, cmd, packed, wide, clp, da) ==
    [words |-> words, cmd |-> cmd, packed |-> packed, wide |-> wide, clp |-> clp, da |-> da]

\* Writes of a page that fits, that runs past the end and that grows the
\* file; reads into two pages, over the list itself, and at nothing.
MCJobs ==
    {MCJob(MCList(1, 0) @@ MCData(7), "write", TRUE, TRUE, 4, 0),
     MCJob(MCList(1, 0) @@ MCData(9), "write", FALSE, FALSE, 4, 3),
     MCJob(MCList(3, 1), "read", TRUE, TRUE, 4, 1),
     MCJob(MCList(5, 6), "read", FALSE, TRUE, 4, 0),
     MCJob(MCList(3, 6), "read", FALSE, FALSE, 4, 2),
     MCJob(MCList(0, 0), "bad", FALSE, FALSE, 4, 2)}

MCPaths == {<<rw, na>>, <<rw, nb>>, <<rw, na, nc>>, <<rw, nb, nc>>, <<ro, nc>>}
MCNames == {<<>>, <<na>>, <<nb>>, <<na, nc>>, <<nb, nc>>, <<ro>>, <<ro, nc>>}
MCSymmetry == Permutations({na, nb}) \cup Permutations(TempIds)

\* One operation each, for the run about the files alone.
MCOneProgram == {<<MCPlain>>}
MCOneJob == {MCJob(MCList(0, 0), "bad", FALSE, FALSE, 4, 2)}
=============================================================================

-------------------------- MODULE MCDiskController --------------------------
(***************************************************************************)
(* DiskController for TLC: two drives, one of them read-only, and a unit   *)
(* with none; a memory of three pages, and one page that is not there; a   *)
(* pack of two cylinders, two heads and two blocks a track.  A command     *)
(* list wraps every two words, so that one may run round for ever within   *)
(* memory, or off its end half-way.                                        *)
(***************************************************************************)
EXTENDS DiskController

MCPages == {0, 1, 3}
W(p, m) == [page |-> p, more |-> m]
A(x, y, z) == [c |-> x, h |-> y, b |-> z]
S(w, header, check) == [data |-> w, header |-> header, check |-> check]

(* Unit 0's pack is sound but for one block of another's header; unit 1's  *)
(* has a sector of each kind that stops a transfer.                        *)
MCPack == [u \in Online |-> [a \in Lbas |->
             IF u = 0
             THEN S(W(a % 2, a # 6), IF a = 5 THEN "other" ELSE "own", "ok")
             ELSE S(W(a % 2, TRUE), IF a = 0 THEN "bad" ELSE "own",
                    CASE a = 3 -> "soft" [] a = 6 -> "hard" [] OTHER -> "ok")]]

MCLaid == {S(W(0, TRUE), "own", "ok"), S(W(1, FALSE), "other", "hard")}

(* Lists that carry on for ever or off the end of memory; lists that end,  *)
(* and one that names the page that is not there.                          *)
AllMore    == [a \in 0..2 |-> W(a % 2, TRUE)]
Ends       == [a \in 0..2 |-> W(IF a = 2 THEN 3 ELSE 1, a # 1)]
MCMemories == {AllMore, Ends}
Endless    == {AllMore}
MCSeeks    == {A(0, 0, 0), A(0, 1, 1), A(1, 1, 0), A(2, 0, 0)}
MCLists    == {0, 1, 2}
=============================================================================

------------------------------ MODULE DiskUnit ------------------------------
(***************************************************************************)
(* A drive and its pack (src/disk_unit.rs, struct Unit): where the heads   *)
(* are, how they move, and what a sector holds.                            *)
(*                                                                         *)
(* A block is one word.  A word is what the controller makes of it as a    *)
(* channel command word, the page it names and its More flag; as data only *)
(* its identity matters.  A header is its address's own, some other with a *)
(* good checkword, or one whose checkword fails; a data checkword agrees,  *)
(* or leaves an error Ecc::trap can place ("soft") or not ("hard").        *)
(***************************************************************************)
EXTENDS Naturals

CONSTANTS Cylinders, Heads, BlocksPerTrack, \* Geometry
          Pages                             \* pages a word can name

ASSUME GeometryAssumption ==
  /\ Cylinders \in Nat \ {0}
  /\ Heads \in Nat \ {0}
  /\ BlocksPerTrack \in Nat \ {0}

Position == [c : 0..(Cylinders - 1), h : 0..(Heads - 1), b : 0..(BlocksPerTrack - 1)]
Address  == [c : Nat, h : Nat, b : Nat]
Word     == [page : Pages, more : BOOLEAN]
Sector   == [data : Word, header : {"own", "other", "bad"}, check : {"ok", "soft", "hard"}]
Unit     == [at : Position, seek_error : BOOLEAN, fault : BOOLEAN,
             attention : {"none", "coming", "up"}]

Home  == [c |-> 0, h |-> 0, b |-> 0]
Blank == [at |-> Home, seek_error |-> FALSE, fault |-> FALSE, attention |-> "none"]

Blocks == Cylinders * Heads * BlocksPerTrack
Lbas   == 0..(Blocks - 1)

(* The position of a block on the pack: Unit::lba_of.                      *)
OnPack(p) == p.c < Cylinders /\ p.h < Heads /\ p.b < BlocksPerTrack
Lba(p)    == (p.c * Heads + p.h) * BlocksPerTrack + p.b

(* Unit::seek: the heads move, or the address is off the pack and they     *)
(* stay with a seek error.                                                 *)
SeekOk(u, p) == p = u.at \/ OnPack(p)
Seek(u, p) ==
  IF SeekOk(u, p) THEN [u EXCEPT !.at = p] ELSE [u EXCEPT !.seek_error = TRUE]

(* Unit::next_block: the address after `p`, a track's end carrying into    *)
(* the head and a cylinder's into the cylinder.                            *)
NextAddress_mut(p) ==
  IF p.b + 1 < BlocksPerTrack THEN [p EXCEPT !.b = @ + 1]
  ELSE IF p.h + 1 < Heads THEN [p EXCEPT !.b = 0, !.h = @ + 1]
  ELSE [p EXCEPT !.b = 0, !.c = @ + 1]
NextAddress(p) ==
  IF p.b + 1 < BlocksPerTrack THEN [p EXCEPT !.b = @ + 1]
  ELSE IF p.h + 1 < Heads THEN [p EXCEPT !.b = 0, !.h = @ + 1]
  ELSE [c |-> p.c + 1, h |-> 0, b |-> 0]

(* Unit::write_block: the data, and a fresh data checkword.  A block the   *)
(* image would not take has lost the checkword a Write All laid all the    *)
(* same.                                                                   *)
Written(s, w)  == [s EXCEPT !.data = w, !.check = "ok"]
NotWritten(s)  == [s EXCEPT !.check = "ok"]
=============================================================================

----------------------------- MODULE Checkpoint -----------------------------
(***************************************************************************)
(* A checkpoint's file (src/checkpoint.rs): the fields a machine writes,   *)
(* the body packed as runs of zeros and of literals, and the file read     *)
(* back by a machine built like the one that wrote it or not.  A byte is   *)
(* one of ByteValues values, the low half of them in a varint the last of  *)
(* its count; a word is two bytes, or three on the wide machine, and a     *)
(* count of items two.                                                     *)
(***************************************************************************)
EXTENDS Integers, Sequences, FiniteSets, SequencesExt

CONSTANTS ByteValues,    \* 256 in the file
          MinZeroRun,    \* 4 in the file
          MaxBody,       \* the most a body can be
          MaxGroups,     \* bytes of a varint, 10 in the file
          Fields,        \* what may be written: records [kind, of]
          MaxFields      \* bound: fields of a machine

ASSUME CkAssumption == ByteValues % 2 = 0 /\ {MinZeroRun, MaxBody, MaxGroups, MaxFields} \subseteq Nat \ {0}

VARIABLES ckWritten,   \* the fields written, in order
          ckOut,       \* Writer: their bytes
          ckFile,      \* the file: [version, body], or "none"
          ckCut,       \* whether the file lost its end
          ckReader,    \* Reader: [data, at, wide], or "none"
          ckGot,       \* the fields read
          ckResult,    \* "writing", "reading", "refused" or "done"
          ckWide       \* whether the machine that writes is the wide one

ckVars == <<ckWritten, ckOut, ckFile, ckCut, ckReader, ckGot, ckResult, ckWide>>

-----------------------------------------------------------------------------
(* Numbers as bytes, the low one first.                                        *)

LeBytes(v, n) == [k \in 1 .. n |-> (v \div ByteValues ^ (k - 1)) % ByteValues]
FromLe(b) == FoldLeft(LAMBDA acc, k : acc + b[k] * ByteValues ^ (k - 1), 0, [k \in 1 .. Len(b) |-> k])
WordBytes_mut(wide) == 2
WordBytes(wide) == IF wide THEN 3 ELSE 2

Half2 == ByteValues \div 2
RECURSIVE Varint(_)
Varint(v) == IF v < Half2 THEN <<v>> ELSE <<(v % Half2) + Half2>> \o Varint(v \div Half2)

\* The count at `at', and where the next byte is; at 0 when there is none.
NoCount == [v |-> 0, at |-> 0]
RECURSIVE Groups(_, _, _, _)
Groups(data, at, n, v) ==
  CASE n = MaxGroups \/ at > Len(data) -> NoCount
    [] n < MaxGroups /\ at <= Len(data) ->
         LET sum == v + (data[at] % Half2) * Half2 ^ n
         IN  IF data[at] < Half2 THEN [v |-> sum, at |-> at + 1] ELSE Groups(data, at + 1, n + 1, sum)
Unvarint(data, at) == Groups(data, at, 0, 0)

-----------------------------------------------------------------------------
(* Packing.                                                                    *)

Zeros(raw, i) ==
  LET stop == {k \in i .. Len(raw) : raw[k] # 0}
  IN  (IF stop = {} THEN Len(raw) + 1 ELSE CHOOSE k \in stop : \A j \in stop : k <= j) - i
RECURSIVE LiteralEnd(_, _)
LiteralEnd(raw, i) ==
  CASE i > Len(raw) -> i
    [] i <= Len(raw) /\ raw[i] # 0 -> LiteralEnd(raw, i + 1)
    [] i <= Len(raw) /\ raw[i] = 0 -> IF Zeros(raw, i) >= MinZeroRun THEN i ELSE LiteralEnd(raw, i + Zeros(raw, i))
RECURSIVE PackFrom(_, _)
PackFrom(raw, i) ==
  IF i > Len(raw) THEN <<>>
  ELSE LET start == i + Zeros(raw, i)
           end == LiteralEnd(raw, start)
       IN  Varint(start - i) \o Varint(end - start) \o SubSeq(raw, start, end - 1) \o PackFrom(raw, end)
Pack(raw) == PackFrom(raw, 1)

\* What is read: one thing, or nothing when it is refused.
Refused == <<>>
RECURSIVE UnpackFrom(_, _, _)
UnpackFrom(packed, at, out) ==
  IF at > Len(packed) THEN <<out>>
  ELSE LET zeros == Unvarint(packed, at)
           literals == IF zeros.at = 0 THEN NoCount ELSE Unvarint(packed, zeros.at)
           end == literals.at + literals.v
       IN  IF literals.at = 0 \/ end > Len(packed) + 1 \/ zeros.v > MaxBody - Len(out) THEN Refused
           ELSE UnpackFrom(packed, end,
                           out \o [k \in 1 .. zeros.v |-> 0] \o SubSeq(packed, literals.at, end - 1))
Unpack(packed) == UnpackFrom(packed, 1, <<>>)

-----------------------------------------------------------------------------
(* Fields.                                                                     *)

FlatWords(ws, n) == FoldLeft(LAMBDA acc, w : acc \o LeBytes(w, n), <<>>, ws)
Put(f, wide) ==
  CASE f.kind \in {"bool", "level"} -> LeBytes(f.of[1], 1)
    [] f.kind = "word" -> LeBytes(f.of[1], WordBytes(wide))
    [] f.kind = "opt" -> LeBytes(Len(f.of), 1) \o FlatWords(f.of, 1)
    [] f.kind \in {"bytes", "bytes into"} -> LeBytes(Len(f.of), 2) \o FlatWords(f.of, 1)
    [] f.kind = "words into" -> LeBytes(Len(f.of), 2) \o FlatWords(f.of, WordBytes(wide))

\* n bytes from where the reader is: what they are, or none and no further.
TakeBytes(r, n) == IF r.at + n > Len(r.data) + 1 THEN Refused ELSE <<SubSeq(r.data, r.at, r.at + n - 1)>>
Split(b, n) == [k \in 1 .. Len(b) \div n |-> FromLe(SubSeq(b, (n * (k - 1)) + 1, n * k))]
\* A field of the kind the reading machine has next, `slot' items to fill:
\* its value and how many bytes it was, or refused.
Get(r, kind, slot) ==
  LET n == WordBytes(r.wide)
      size == IF kind = "words into" THEN n ELSE 1
      one == TakeBytes(r, IF kind = "word" THEN n ELSE 1)
      head == TakeBytes(r, 2)
      count == FromLe(head[1])
      items == TakeBytes([r EXCEPT !.at = @ + 2], count * size)
      rest == TakeBytes([r EXCEPT !.at = @ + 1], 1)
      ok(of, len) == [ok |-> TRUE, of |-> of, len |-> len]
      no == [ok |-> FALSE, of |-> <<>>, len |-> 0]
  IN  CASE kind \in {"bool", "level", "word"} ->
             IF one = Refused THEN no
             ELSE IF kind = "bool" /\ one[1][1] > 1 THEN no ELSE ok(<<FromLe(one[1])>>, Len(one[1]))
        [] kind = "opt" ->
             IF one = Refused THEN no
             ELSE IF one[1][1] = 0 THEN ok(<<>>, 1)
             ELSE IF one[1][1] > 1 \/ rest = Refused THEN no ELSE ok(<<FromLe(rest[1])>>, 2)
        [] kind \in {"bytes", "bytes into", "words into"} ->
             IF head = Refused THEN no
             ELSE IF (kind # "bytes" /\ count # slot) \/ items = Refused THEN no
             ELSE ok(Split(items[1], size), 2 + Len(items[1]))

-----------------------------------------------------------------------------
(* A machine writes, the file may lose its end, and a machine reads.           *)

CkInit ==
  /\ ckWritten = <<>> /\ ckOut = <<>> /\ ckFile = "none" /\ ckCut = FALSE /\ ckReader = "none"
  /\ ckGot = <<>> /\ ckResult = "writing" /\ ckWide \in BOOLEAN

CkPut ==
  /\ ckResult = "writing" /\ Len(ckWritten) < MaxFields
  /\ \E f \in Fields :
       /\ (~ckWide /\ f.kind \in {"word", "words into"}) => \A k \in DOMAIN f.of : f.of[k] < ByteValues ^ 2
       /\ ckWritten' = Append(ckWritten, f) /\ ckOut' = ckOut \o Put(f, ckWide)
  /\ UNCHANGED <<ckFile, ckCut, ckReader, ckGot, ckResult, ckWide>>
\* The file, whole or cut anywhere in its body.
CkWrite ==
  /\ ckResult = "writing" /\ ckWritten # <<>>
  /\ LET packed == Pack(ckOut) IN
     \E n \in 0 .. Len(packed) :
       /\ ckFile' = [version |-> IF ckWide THEN 50 ELSE 49, body |-> SubSeq(packed, 1, n)]
       /\ ckCut' = (n < Len(packed))
  /\ ckResult' = "written"
  /\ UNCHANGED <<ckWritten, ckOut, ckReader, ckGot, ckWide>>
\* The reading machine is wide or not; a checkpoint of the other is refused.
CkOpen ==
  /\ ckResult = "written"
  /\ \E wide \in BOOLEAN :
       LET body == Unpack(ckFile.body)
           fits == (ckFile.version = 50) = wide /\ body # Refused
       IN  /\ ckResult' = IF fits THEN "reading" ELSE "refused"
           /\ ckReader' = IF fits THEN [data |-> body[1], at |-> 1, wide |-> wide] ELSE ckReader
  /\ UNCHANGED <<ckWritten, ckOut, ckFile, ckCut, ckGot, ckWide>>
\* The next field, in the order they are written; its slot may be another size.
CkGet ==
  /\ ckResult = "reading" /\ Len(ckGot) < Len(ckWritten)
  /\ LET f == ckWritten[Len(ckGot) + 1] IN
     \E slot \in {Len(f.of), 1} :
       LET got == Get(ckReader, f.kind, slot)
       IN  /\ ckResult' = IF got.ok THEN "reading" ELSE "refused"
           /\ ckGot' = IF got.ok THEN Append(ckGot, [kind |-> f.kind, of |-> got.of]) ELSE ckGot
           /\ ckReader' = IF got.ok THEN [ckReader EXCEPT !.at = @ + got.len] ELSE ckReader
  /\ UNCHANGED <<ckWritten, ckOut, ckFile, ckCut, ckWide>>
CkDone ==
  /\ ckResult = "reading" /\ Len(ckGot) = Len(ckWritten)
  /\ ckResult' = IF ckReader.at = Len(ckReader.data) + 1 THEN "done" ELSE "refused"
  /\ UNCHANGED <<ckWritten, ckOut, ckFile, ckCut, ckReader, ckGot, ckWide>>

CkNext == CkPut \/ CkWrite \/ CkOpen \/ CkGet \/ CkDone

-----------------------------------------------------------------------------
(* Properties.                                                                 *)

\* Every field read is the one written, the words of the wide machine and the
\* counts of the varints included; a file that lost its end is never read to the
\* end, and one that did not is refused only for its width or the size of a slot.
ReadBack ==
  /\ \A k \in DOMAIN ckGot : ckGot[k] = ckWritten[k]
  /\ ckResult = "done" => ~ckCut /\ ckGot = ckWritten
  /\ (ckResult = "reading" /\ ~ckCut) => ckReader.data = ckOut
  /\ (ckResult = "reading" /\ Len(ckGot) = Len(ckWritten)) => ckReader.at = Len(ckOut) + 1

\* A body of nothing but zeros is packed as its count and an empty one (pack).
PackedSmall ==
  (ckResult = "written" /\ ~ckCut) =>
    LET literals == Len(SelectSeq(ckOut, LAMBDA b : b # 0))
    IN  literals = 0 => Len(ckFile.body) <= Len(Varint(Len(ckOut))) + 1

\* What a machine saved is what a machine like it is given, or it is told.
CheckpointKept == ReadBack /\ PackedSmall
=============================================================================

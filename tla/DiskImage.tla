----------------------------- MODULE DiskImage -----------------------------
(***************************************************************************)
(* QUUX's disk file, from src/src/disk_image.rs: a dynamic VHD that grows  *)
(* by a block where its footer was, its sectors written in an order a cut  *)
(* must survive, and the blocks a read-only disk keeps in memory.          *)
(*                                                                         *)
(* A file is its sectors after the table, whether a cut write left half a  *)
(* sector at its end, and the allocation table.  A VHD block is a sector   *)
(* of bitmap, all ones in every block allocated here, and its data; a disk *)
(* block is two sectors.  The header, the copy of the footer at 0 and the  *)
(* checksums never change and check.  A flat file (raw, fixed VHD) is one  *)
(* whose every block is allocated.                                         *)
(***************************************************************************)
EXTENDS Integers, Sequences

CONSTANTS
    VhdBlocks,        \* entries of the allocation table
    VhdSectors,       \* data sectors of a VHD block
    Blocks            \* the disk's size in blocks of two sectors

ASSUME DiskImageAssumption ==
    /\ {VhdBlocks, VhdSectors, Blocks} \subseteq Nat \ {0}
    /\ 2 * Blocks <= VhdBlocks * VhdSectors

Unallocated == -1
Footer == -2
Bitmap == -3
Torn == -4            \* a sector written in half
NoSector == -5        \* a read past the file's end, an error
Zero == 0

NewFile == [sectors |-> <<Footer>>, half |-> FALSE,
            table |-> [k \in 0 .. VhdBlocks - 1 |-> Unallocated]]

-----------------------------------------------------------------------------
(* Opening: the footer at the end, or the copy at 0 and the file's length.  *)

DynamicOpen(file) ==
    LET n == Len(file.sectors)
    IN  [table |-> file.table,
         end |-> IF file.half THEN n + 1
                 ELSE IF n > 0 /\ file.sectors[n] = Footer THEN n - 1 ELSE n]

-----------------------------------------------------------------------------
(* Low-level writes, in the order they go out.                              *)

DataAt(at, data) == [k |-> "data", at |-> at, data |-> data]
EntryAt(at, sector) == [k |-> "entry", at |-> at, data |-> <<sector>>]

\* The file with n sectors of a write in it, and half of the next.
Landed(file, w, n, half) ==
    LET old  == IF file.half THEN Append(file.sectors, Torn) ELSE file.sectors
        size == IF Len(old) > w.at + n THEN Len(old) ELSE w.at + n
        all  == [i \in 1 .. size |->
                    IF i \in w.at + 1 .. w.at + n THEN w.data[i - w.at]
                    ELSE IF i <= Len(old) THEN old[i] ELSE Zero]
        tear == half /\ n < Len(w.data)
    IN  IF w.k = "entry" THEN [file EXCEPT !.table[w.at] = IF n = 1 THEN w.data[1] ELSE @]
        ELSE IF tear /\ w.at + n < Len(all)
        THEN [file EXCEPT !.sectors = [all EXCEPT ![w.at + n + 1] = Torn], !.half = FALSE]
        ELSE [file EXCEPT !.sectors = all, !.half = tear]

Written(file, w) == Landed(file, w, Len(w.data), FALSE)

Locate(img, sector) ==
    LET entry == img.table[sector \div VhdSectors]
    IN  IF entry = Unallocated THEN Unallocated
        ELSE entry + 1 + (sector % VhdSectors)

\* What a sector reads: zeros where nothing is allocated; past the file's
\* end, an error.
SectorRead(file, img, sector) ==
    LET off == Locate(img, sector)
    IN  IF off = Unallocated THEN Zero
        ELSE IF off < Len(file.sectors) THEN file.sectors[off + 1] ELSE NoSector

\* The writes of one sector: its block's data, the footer after it, and
\* only then the entry.
WriteSector_mut(img, sector, v) ==
    IF Locate(img, sector) # Unallocated
    THEN <<DataAt(Locate(img, sector), <<v>>)>>
    ELSE <<EntryAt(sector \div VhdSectors, img.end),
           DataAt(img.end, <<Bitmap>> \o [i \in 1 .. VhdSectors |->
                               IF i = (sector % VhdSectors) + 1 THEN v ELSE Zero]),
           DataAt(img.end + 1 + VhdSectors, <<Footer>>)>>

WriteSector(img, sector, v) ==
    IF Locate(img, sector) # Unallocated
    THEN <<DataAt(Locate(img, sector), <<v>>)>>
    ELSE <<DataAt(img.end, <<Bitmap>> \o [i \in 1 .. VhdSectors |->
                               IF i = (sector % VhdSectors) + 1 THEN v ELSE Zero]),
           DataAt(img.end + 1 + VhdSectors, <<Footer>>),
           EntryAt(sector \div VhdSectors, img.end)>>

\* The table and the end a finished sector leaves in memory.
Allocated(img, sector) ==
    IF Locate(img, sector) # Unallocated THEN img
    ELSE [table |-> [img.table EXCEPT ![sector \div VhdSectors] = img.end],
          end |-> img.end + 1 + VhdSectors]

-----------------------------------------------------------------------------
(* The disk: its image, whether it is written through, the blocks kept.     *)

NotKept == <<>>

DiskOpen(file, writable) ==
    [img |-> DynamicOpen(file), writable |-> writable,
     written |-> [n \in 0 .. Blocks - 1 |-> NotKept]]

FileBlock(file, disk, n) ==
    <<SectorRead(file, disk.img, 2 * n), SectorRead(file, disk.img, 2 * n + 1)>>

ReadBlock(file, disk, n) ==
    IF disk.written[n] # NotKept THEN disk.written[n] ELSE FileBlock(file, disk, n)

\* The first n of a sector's writes.
SomeWritten(f, ws, n) ==
    LET f1 == IF n >= 1 THEN Written(f, ws[1]) ELSE f
        f2 == IF n >= 2 THEN Written(f1, ws[2]) ELSE f1
    IN  IF n >= 3 THEN Written(f2, ws[3]) ELSE f2

\* A sector's writes cut after n, the next in part: torn sectors of it, and
\* half of one more.
CutAt(f, ws, n, torn, half) ==
    LET w == ws[n + 1]
    IN  Landed(SomeWritten(f, ws, n), w, IF torn < Len(w.data) THEN torn ELSE 0, half)

\* On a disk not written through: a block written as the file holds it is
\* not kept.
KeepBlock(f, d, n, data) ==
    [d EXCEPT !.written[n] = IF FileBlock(f, d, n) = data THEN NotKept ELSE data]

\* A sector written through: the block's second one ends what is kept of it.
WriteThrough(d, sector) ==
    [d EXCEPT !.img = Allocated(@, sector),
              !.written[sector \div 2] = IF sector % 2 = 1 THEN NotKept ELSE @]

DiskSave(disk) == disk.written

DiskLoad(disk, s) == [disk EXCEPT !.written = s]
=============================================================================

----------------------------- MODULE BlockDisk -----------------------------
(***************************************************************************)
(* QUUX's block-disk over its disk file, from src/src/block_disk.rs: the   *)
(* registers, START's walk of the command list in main memory on both      *)
(* revisions, the page moved whole, the busy time, a checkpoint, and a run *)
(* killed while a transfer writes the file.                                *)
(*                                                                         *)
(* A page is two words, a word a field and a tag, each the size of a       *)
(* sector: the packed transfer moves a page in two blocks, the 4-byte one, *)
(* and revision 12's, in one.  A word read as a command is More in its low *)
(* bit and a page number above.                                            *)
(***************************************************************************)
EXTENDS DiskImage

CONSTANTS
    MemoryPages,       \* pages of main memory
    ClpCount,          \* how far the list pointer counts before it wraps
    UnboxedTag,        \* the tag a 4-byte read writes
    BlockNs,           \* a block's time
    Jobs,              \* what the microcode asks: list, command, address
    MaxJobs, MaxCuts   \* bounds on the jobs, and on the cuts of the file

ASSUME BlockDiskAssumption ==
    /\ {MemoryPages, ClpCount} \subseteq Nat \ {0}
    /\ {UnboxedTag, BlockNs, MaxJobs, MaxCuts} \subseteq Nat
    /\ \A job \in Jobs :
          /\ job.cmd \in {"read", "write", "bad"} /\ {job.packed, job.wide} \subseteq BOOLEAN
          /\ job.clp \in Nat /\ job.da \in Nat
          /\ \A a \in DOMAIN job.words : job.words[a] \in [f : Nat, t : Nat]

VARIABLES
    bd,                \* the registers
    main,              \* main memory: word number to [f, t]
    file,              \* the host's file
    disk,              \* the disk as this run has it open
    truth,             \* what each block may read as in this run
    onFile,            \* what each block may hold in the file
    before,            \* the last START: memory, disk and address before it
    walk,              \* START's loop
    saved,             \* a checkpoint
    jobs, cuts         \* jobs done, and cuts of the file

blockDiskVars == <<bd, main, file, disk, truth, onFile, before, walk, saved, jobs, cuts>>

BlockNone == [k |-> "none"]
NoWalk == [k |-> "idle"]

BdNew ==
    [cmd |-> "read", wide |-> FALSE, packed |-> FALSE, interrupt |-> FALSE, clp |-> 0,
     da |-> 0, last |-> 0, doneAt |-> 0, now |-> 0,
     pastEnd |-> FALSE, nxm |-> FALSE, bad |-> FALSE]

Word(f, t) == [f |-> f, t |-> t]

BlockDiskInit ==
    /\ bd = BdNew
    /\ main = [a \in 0 .. 2 * MemoryPages - 1 |-> Word(0, 0)]
    /\ file = NewFile
    /\ disk = DiskOpen(NewFile, TRUE)
    /\ truth = [n \in 0 .. Blocks - 1 |-> {<<Zero, Zero>>}]
    /\ onFile = truth
    /\ before = BlockNone
    /\ walk = NoWalk
    /\ saved = BlockNone
    /\ jobs = 0 /\ cuts = 0

-----------------------------------------------------------------------------
(* A page and its blocks.                                                   *)

PerPage(d) == IF d.wide /\ d.packed THEN 2 ELSE 1

\* A packed word is its bytes, the field's first and the tag last.
ToBlocks(d, w0, w1) ==
    IF PerPage(d) = 2 THEN <<<<w0.f, w0.t>>, <<w1.f, w1.t>>>> ELSE <<<<w0.f, w1.f>>>>

FromBlocks(d, bs) ==
    IF PerPage(d) = 2
    THEN [i \in 0 .. 1 |-> Word(bs[i + 1][1], bs[i + 1][2])]
    ELSE [i \in 0 .. 1 |-> Word(bs[1][i + 1], IF d.wide THEN UnboxedTag ELSE 0)]

\* What a word is as a command: More in its low bit, the page above.  No bit
\* of a torn one is sure.
PageOf(w) ==
    IF w.f = Torn THEN [page : 0 .. MemoryPages, more : BOOLEAN]
    ELSE {[page |-> w.f \div 2, more |-> w.f % 2 = 1]}

PastMemory == {[page |-> MemoryPages, more |-> FALSE]}

-----------------------------------------------------------------------------
(* START: a walk of the command list, one entry and one sector at a time.   *)
(* Nothing else of the machine runs inside it.                              *)

Clp(d, n) == d.clp - (d.clp % ClpCount) + ((d.clp + n) % ClpCount)

Cleared(d) == [d EXCEPT !.pastEnd = FALSE, !.nxm = FALSE, !.bad = FALSE]

\* The walk ends: the last block moved or the one that failed, and the time
\* of what was moved.
EndWalk(d, block, moved) ==
    /\ bd' = [d EXCEPT !.da = block, !.doneAt = d.now + moved * BlockNs]
    /\ walk' = NoWalk

PastEnd(d, at) ==
    EndWalk([d EXCEPT !.pastEnd = TRUE], at, walk.moved + (at - walk.block))

PageMoved(d, page, more) ==
    LET last  == walk.block + PerPage(d) - 1
        moved == walk.moved + PerPage(d)
        e     == [d EXCEPT !.last = 2 * page + 1]
    IN  IF more THEN /\ bd' = e
                     /\ walk' = [walk EXCEPT !.block = last + 1, !.entry = @ + 1,
                                             !.moved = moved, !.todo = <<>>]
        ELSE EndWalk(e, last, moved)

BlockError(d) == d.pastEnd \/ d.nxm \/ d.bad

NotActive(d) == d.now >= d.doneAt

-----------------------------------------------------------------------------

\* What a block may hold after a transfer that tried to write it.
OldOrNew(old, new) ==
    {<<x, y>> : x \in {o[1] : o \in old} \cup {new[1], Torn},
                y \in {o[2] : o \in old} \cup {new[2], Torn}}

\* The microcode stores its list and loads the registers: a job, the command
\* written last clearing the errors.
Program(job) ==
    /\ walk.k = "idle"
    /\ jobs < MaxJobs
    /\ NotActive(bd)
    /\ main' = [a \in DOMAIN main |-> IF a \in DOMAIN job.words THEN job.words[a] ELSE main[a]]
    /\ bd' = [Cleared(bd) EXCEPT !.cmd = job.cmd, !.packed = job.packed, !.wide = job.wide,
                                 !.interrupt = TRUE, !.clp = job.clp, !.da = job.da]
    /\ jobs' = jobs + 1
    /\ before' = [k |-> "armed"]
    /\ UNCHANGED <<walk, file, disk, truth, onFile, saved, cuts>>

\* A store to START.  An unknown command stops by error at once.
Start ==
    /\ before.k = "armed"
    /\ bd' = [Cleared(bd) EXCEPT !.bad = bd.cmd = "bad"]
    /\ IF bd.cmd = "bad" THEN before' = BlockNone /\ UNCHANGED walk
       ELSE /\ before' = [k |-> "start", main |-> main, da |-> bd.da,
                          disk |-> [n \in 0 .. Blocks - 1 |-> ReadBlock(file, disk, n)]]
            /\ walk' = [k |-> "walk", block |-> bd.da, entry |-> 0, moved |-> 0, todo |-> <<>>]
    /\ UNCHANGED <<main, file, disk, truth, onFile, saved, jobs, cuts>>

\* The next entry of the list, as memory holds it now: nothing there, a page
\* read whole or not at all, or the blocks of a page to write.
WalkEntry ==
    LET clp  == Clp(bd, walk.entry)
        d    == [bd EXCEPT !.last = clp]
        n    == PerPage(bd)
        bs   == [k \in 1 .. n |-> ReadBlock(file, disk, walk.block + k - 1)]
    IN  /\ walk.k = "walk" /\ walk.todo = <<>>
        /\ \E w \in IF clp < 2 * MemoryPages THEN PageOf(main[clp]) ELSE PastMemory :
           \/ /\ w.page >= MemoryPages
              /\ EndWalk([d EXCEPT !.nxm = TRUE], walk.block, walk.moved)
              /\ UNCHANGED main
           \/ /\ w.page < MemoryPages
              /\ bd.cmd = "read"
              /\ IF walk.block + n > Blocks
                 THEN /\ PastEnd(d, IF walk.block > Blocks THEN walk.block ELSE Blocks)
                      /\ UNCHANGED main
                 ELSE /\ PageMoved(d, w.page, w.more)
                      /\ main' = [a \in DOMAIN main |->
                                    IF a \div 2 = w.page THEN FromBlocks(bd, bs)[a % 2]
                                    ELSE main[a]]
           \/ /\ w.page < MemoryPages
              /\ bd.cmd = "write"
              /\ IF walk.block >= Blocks THEN PastEnd(d, walk.block)
                 ELSE /\ bd' = d
                      /\ walk' = [walk EXCEPT !.todo =
                            LET all == ToBlocks(bd, main[2 * w.page], main[2 * w.page + 1])
                            IN  [k \in 1 .. n |->
                                   [block |-> walk.block + k - 1, data |-> all[k],
                                    sector |-> 0, page |-> w.page, more |-> w.more]]]
              /\ UNCHANGED main
        /\ UNCHANGED <<file, disk, truth, onFile, before, saved, jobs, cuts>>

\* A block written: the next, the end of the page, or past the disk's.
BlockPut(t) ==
    IF Len(walk.todo) > 1 /\ t.block + 1 >= Blocks THEN PastEnd(bd, t.block + 1)
    ELSE IF Len(walk.todo) > 1 THEN walk' = [walk EXCEPT !.todo = Tail(@)] /\ UNCHANGED bd
    ELSE PageMoved(bd, t.page, t.more)

WalkKeep ==
    LET t == Head(walk.todo)
    IN  /\ walk.k = "walk" /\ walk.todo # <<>> /\ ~disk.writable
        /\ disk' = KeepBlock(file, disk, t.block, t.data)
        /\ truth' = [truth EXCEPT ![t.block] = {t.data}]
        /\ BlockPut(t)
        /\ UNCHANGED <<main, file, onFile, before, saved, jobs, cuts>>

TheWrites == LET t == Head(walk.todo)
             IN  WriteSector(disk.img, 2 * t.block + t.sector, t.data[t.sector + 1])

WalkSector ==
    LET t == Head(walk.todo)
    IN  /\ walk.k = "walk" /\ walk.todo # <<>> /\ disk.writable
        /\ file' = SomeWritten(file, TheWrites, Len(TheWrites))
        /\ disk' = WriteThrough(disk, 2 * t.block + t.sector)
        /\ IF t.sector = 0
           THEN walk' = [walk EXCEPT !.todo[1].sector = 1] /\ UNCHANGED <<bd, truth, onFile>>
           ELSE /\ BlockPut(t)
                /\ truth' = [truth EXCEPT ![t.block] = {t.data}]
                /\ onFile' = [onFile EXCEPT ![t.block] = {t.data}]
        /\ UNCHANGED <<main, before, saved, jobs, cuts>>

\* The file cut inside a sector's writes: what the block may hold.
Cut(n, torn, half) ==
    LET t == Head(walk.todo)
    IN  /\ walk.k = "walk" /\ walk.todo # <<>> /\ disk.writable
        /\ n < Len(TheWrites)
        /\ cuts < MaxCuts /\ cuts' = cuts + 1
        /\ file' = CutAt(file, TheWrites, n, torn, half)
        /\ onFile' = [onFile EXCEPT ![t.block] = OldOrNew(@, t.data)]

\* The host refuses a write: the block failed, and what is kept of it stands.
WalkRefused(n, torn, half) ==
    LET t == Head(walk.todo)
    IN  /\ Cut(n, torn, half)
        /\ truth' = [truth EXCEPT ![t.block] =
                         IF disk.written[t.block] = NotKept THEN OldOrNew(@, t.data) ELSE @]
        /\ PastEnd(bd, t.block)
        /\ UNCHANGED <<main, disk, before, saved, jobs>>

\* The machine's clock, told when the block-disk is next spoken to.
BlockAdvance ==
    /\ walk.k = "idle"
    /\ ~NotActive(bd)
    /\ bd' = [bd EXCEPT !.now = bd.doneAt]
    /\ UNCHANGED <<walk, main, file, disk, truth, onFile, before, saved, jobs, cuts>>

XbusInit ==
    /\ walk.k = "idle"
    /\ ~NotActive(bd)
    /\ bd' = [Cleared(bd) EXCEPT !.cmd = "read", !.packed = FALSE, !.interrupt = FALSE,
                                 !.doneAt = bd.now]
    /\ before' = BlockNone
    /\ UNCHANGED <<walk, main, file, disk, truth, onFile, saved, jobs, cuts>>

\* The run killed inside START, between any two of the file's writes or in
\* one, and a new run on the file.
WalkKilled(n, torn, half, writable) ==
    /\ Cut(n, torn, half)
    /\ disk' = DiskOpen(file', writable)
    /\ truth' = onFile'
    /\ bd' = BdNew /\ walk' = NoWalk
    /\ main' = [a \in DOMAIN main |-> Word(0, 0)]
    /\ before' = BlockNone
    /\ UNCHANGED <<saved, jobs>>

BlockSave ==
    /\ walk.k = "idle"
    /\ saved = BlockNone /\ before.k # "armed"
    /\ saved' = [k |-> "saved", bd |-> bd, main |-> main, disk |-> DiskSave(disk),
                 truth |-> truth]
    /\ UNCHANGED <<walk, bd, main, file, disk, truth, onFile, before, jobs, cuts>>

\* A new run from the checkpoint, the file opened again.  The file is not in
\* the checkpoint: a block this run wrote through is as it left it.
BlockResume(writable) ==
    /\ walk.k = "idle"
    /\ saved # BlockNone
    /\ bd' = saved.bd /\ main' = saved.main
    /\ disk' = DiskLoad(DiskOpen(file, writable), saved.disk)
    /\ truth' = [n \in DOMAIN truth |->
                    IF saved.disk[n] # NotKept THEN saved.truth[n] ELSE onFile[n]]
    /\ before' = BlockNone
    /\ saved' = BlockNone
    /\ UNCHANGED <<walk, file, onFile, jobs, cuts>>

BlockDiskNext ==
    \/ \E job \in Jobs : Program(job)
    \/ Start \/ WalkEntry \/ WalkKeep \/ WalkSector
    \/ /\ walk.k = "walk" /\ walk.todo # <<>> /\ cuts < MaxCuts
       /\ \E n \in 0 .. 2, torn \in {0, 2}, half \in BOOLEAN :
             \/ WalkRefused(n, torn, half)
             \/ \E w \in BOOLEAN : WalkKilled(n, torn, half, w)
    \/ BlockAdvance \/ XbusInit \/ BlockSave
    \/ \E w \in BOOLEAN : BlockResume(w)

-----------------------------------------------------------------------------

\* Every block reads what was last written to it, or for one whose write
\* failed or was cut, sector for sector the old or the new: after growth,
\* errors, a killed run reopened on the file, and a resume.
ReadsBack ==
    walk.k = "idle" => \A n \in 0 .. Blocks - 1 : ReadBlock(file, disk, n) \in truth[n]

\* The blocks the table names lie apart in the file, and clear of where the
\* next one goes.
BlocksApart ==
    \A j, k \in 0 .. VhdBlocks - 1 :
        LET a == disk.img.table[j]
            b == disk.img.table[k]
        IN  a # Unallocated =>
              /\ a + 1 + VhdSectors <= disk.img.end
              /\ (j # k /\ b # Unallocated) => \/ a + 1 + VhdSectors <= b
                                               \/ b + 1 + VhdSectors <= a

\* The busy time is the blocks moved: up to the disk address left, with it
\* when nothing failed.
BusyForWhatMoved ==
    before.k = "start" /\ walk.k = "idle" /\ bd.da >= before.da /\ ~NotActive(bd) =>
        bd.doneAt - bd.now = (bd.da - before.da + IF BlockError(bd) THEN 0 ELSE 1) * BlockNs

\* A read leaves each page of memory as it was or whole from the disk, on
\* revision 13 with the tags a 4-byte transfer gives: an error never leaves
\* a page in part.
PageWhole ==
    before.k = "start" /\ walk.k = "idle" /\ bd.cmd = "read" =>
        \A p \in 0 .. MemoryPages - 1 :
            \/ \A a \in {2 * p, 2 * p + 1} : main[a] = before.main[a]
            \/ \E n \in before.da .. Blocks - PerPage(bd) :
                  LET b == before.disk[n]
                  IN  IF PerPage(bd) = 1
                      THEN \A i \in 0 .. 1 :
                             /\ main[2 * p + i].f = b[i + 1]
                             /\ main[2 * p + i].t = IF bd.wide THEN UnboxedTag ELSE 0
                      ELSE \A i \in 0 .. 1 :
                             main[2 * p + i] = Word(before.disk[n + i][1], before.disk[n + i][2])
=============================================================================

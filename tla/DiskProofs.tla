----------------------------- MODULE DiskProofs -----------------------------
(***************************************************************************)
(* What the disk controller keeps for packs of every geometry, every       *)
(* memory and every command list.                                          *)
(***************************************************************************)
EXTENDS DiskController, TLAPS

(* The address after a position is the next block's: where it is on the    *)
(* pack its number is one more.                                            *)
LEMMA NextIsNext ==
  ASSUME NEW p \in Position
  PROVE  /\ NextAddress(p) \in Address
         /\ OnPack(NextAddress(p)) =>
              /\ NextAddress(p) \in Position
              /\ Lba(NextAddress(p)) = Lba(p) + 1
<1> USE GeometryAssumption
<1> DEFINE q == NextAddress(p)
<1>1. /\ p.c \in Nat /\ p.h \in Nat /\ p.b \in Nat
      /\ p.c < Cylinders /\ p.h < Heads /\ p.b < BlocksPerTrack
      /\ p = [c |-> p.c, h |-> p.h, b |-> p.b]
  BY DEF Position
<1>2. CASE p.b + 1 < BlocksPerTrack
  <2>1. q = [c |-> p.c, h |-> p.h, b |-> p.b + 1]
    BY <1>1, <1>2 DEF NextAddress
  <2>2. Lba(q) = Lba(p) + 1
    BY <1>1, <2>1, SMT DEF Lba
  <2> QED BY <1>1, <1>2, <2>1, <2>2 DEF Address, Position
<1>3. CASE ~(p.b + 1 < BlocksPerTrack) /\ p.h + 1 < Heads
  <2>1. q = [c |-> p.c, h |-> p.h + 1, b |-> 0]
    BY <1>1, <1>3 DEF NextAddress
  <2>2. p.b + 1 = BlocksPerTrack
    BY <1>1, <1>3
  <2>3. ((p.c * Heads + p.h) + 1) * BlocksPerTrack
          = (p.c * Heads + p.h) * BlocksPerTrack + BlocksPerTrack
    BY <1>1, SMT
  <2>4. Lba(q) = Lba(p) + 1
    BY <1>1, <2>1, <2>2, <2>3, SMT DEF Lba
  <2> QED BY <1>1, <1>3, <2>1, <2>4 DEF Address, Position
<1>4. CASE ~(p.b + 1 < BlocksPerTrack) /\ ~(p.h + 1 < Heads)
  <2>1. q = [c |-> p.c + 1, h |-> 0, b |-> 0]
    BY <1>1, <1>4 DEF NextAddress
  <2>2. p.b + 1 = BlocksPerTrack /\ p.h + 1 = Heads
    BY <1>1, <1>4
  <2>3. (p.c + 1) * Heads = p.c * Heads + p.h + 1
    BY <1>1, <2>2, SMT
  <2>4. ((p.c * Heads + p.h) + 1) * BlocksPerTrack
          = (p.c * Heads + p.h) * BlocksPerTrack + BlocksPerTrack
    BY <1>1, SMT
  <2>5. Lba(q) = Lba(p) + 1
    BY <1>1, <2>1, <2>2, <2>3, <2>4, SMT DEF Lba
  <2>6. OnPack(q) => q \in Position
    BY <1>1, <2>1 DEF OnPack, Position
  <2> QED BY <1>1, <2>1, <2>5, <2>6 DEF Address
<1> QED BY <1>2, <1>3, <1>4

(* The number of a position is a block of the pack.                        *)
LEMMA LbaOnPack ==
  ASSUME NEW p \in Position
  PROVE  Lba(p) \in Lbas
<1> USE GeometryAssumption
<1>1. /\ p.c \in Nat /\ p.h \in Nat /\ p.b \in Nat
      /\ p.c + 1 <= Cylinders /\ p.h + 1 <= Heads /\ p.b + 1 <= BlocksPerTrack
  BY DEF Position
<1> DEFINE t == p.c * Heads + p.h
<1>2. t \in Nat
  BY <1>1
<1>3. (p.c + 1) * Heads <= Cylinders * Heads
  BY <1>1, SMT
<1>4. t + 1 <= Cylinders * Heads
  BY <1>1, <1>3, SMT
<1> DEFINE n == Cylinders * Heads
<1>5. n \in Nat
  BY SMT
<1> HIDE DEF t, n
<1>6. (t + 1) * BlocksPerTrack <= n * BlocksPerTrack
  BY <1>2, <1>4, <1>5, SMT DEF n
<1>7. t * BlocksPerTrack + BlocksPerTrack = (t + 1) * BlocksPerTrack
  BY <1>2, SMT
<1>8. t * BlocksPerTrack \in Nat /\ n * BlocksPerTrack \in Nat
  BY <1>2, <1>5, SMT
<1>9. t * BlocksPerTrack + p.b <= n * BlocksPerTrack - 1
  BY <1>1, <1>6, <1>7, <1>8, SMT
<1> QED BY <1>1, <1>8, <1>9, SMT DEF Lba, Lbas, Blocks, t, n

(* Unit::seek leaves the heads on the pack.                                *)
LEMMA SeekStays ==
  ASSUME NEW u \in Unit, NEW p \in Address
  PROVE  /\ Seek(u, p) \in Unit
         /\ SeekOk(u, p) => p \in Position /\ Seek(u, p).at = p
<1> USE GeometryAssumption
<1>1. CASE SeekOk(u, p)
  <2>1. p \in Position
    BY <1>1 DEF SeekOk, OnPack, Position, Address, Unit
  <2> QED BY <1>1, <2>1 DEF Seek, Unit
<1>2. CASE ~SeekOk(u, p)
  BY <1>2 DEF Seek, Unit
<1> QED BY <1>1, <1>2

-----------------------------------------------------------------------------
(* The invariant.                                                          *)

(* Block 0 is on the pack.                                                     *)
LEMMA HomeOnPack == Home \in Position /\ Home \in Address
  BY GeometryAssumption DEF Home, Position, Address

(* No walk is a walk, standing at its start.                                   *)
LEMMA NoWalkOK ==
  NoWalk \in Walks /\ ~NoWalk.on /\ NoWalk.n < ClpWrap /\ NoWalk.pages <= BlocksPerTrack
<1>1. "Read" \in Transfers \cup Tracks
  BY DEF Transfers
<1> QED BY <1>1, DiskAssumption, GeometryAssumption DEF NoWalk, Walks

(* Power-on has the invariant.                                                 *)
LEMMA InvInit == Init => Inv
<1> SUFFICES ASSUME Init PROVE Inv
  OBVIOUS
<1> USE DiskAssumption, GeometryAssumption, HomeOnPack
<1>1. RegistersOK
  <2>1. da \in DiskAddress
    BY DEF Init, DiskAddress
  <2>2. err \subseteq Errors /\ dma_written \subseteq 0..(MemSize - 1)
    BY DEF Init
  <2> QED BY <2>1, <2>2 DEF Init, RegistersOK
<1>2. StoreOK
  BY DEF Init, StoreOK, Blank, Unit
<1>3. WalkOK
  BY NoWalkOK DEF Init, WalkOK
<1>4. ~walk.on
  BY DEF Init, NoWalk
<1>5. ReadOnlyKept
  BY DEF Init, ReadOnlyKept
<1> QED BY <1>1, <1>2, <1>3, <1>4, <1>5 DEF Inv, TypeOK, WalkInStep, WriterMay

(* A step that leaves the drives' positions, the packs and the walk alone, *)
(* with no walk on, keeps the invariant as far as they go.                 *)
LEMMA QuietKeeps ==
  ASSUME Inv, ~walk'.on, UNCHANGED pack
  PROVE  WalkInStep' /\ WriterMay' /\ ReadOnlyKept'
  BY DEF Inv, WalkInStep, WriterMay, ReadOnlyKept

(* Stores into the registers that start nothing, and the reset.                *)
LEMMA StoresKeep ==
  ASSUME Inv,
         \/ CommandStore
         \/ \E a \in Lists : WriteClp(a)
         \/ \E u \in Units, p \in Seeks : WriteDa(u, p)
         \/ XbusInit
  PROVE  Inv'
<1> USE DiskAssumption DEF Inv, TypeOK
<1>1. ~walk.on /\ UNCHANGED <<walk, pack, mem, units, failed>>
  BY DEF CommandStore, WriteCmd, WriteClp, WriteDa, XbusInit, Store
<1>2. WalkInStep' /\ WriterMay' /\ ReadOnlyKept'
  BY <1>1, QuietKeeps
<1>3. StoreOK'
  BY <1>1 DEF StoreOK
<1>4. ops' \in Nat
  BY DEF CommandStore, WriteCmd, WriteClp, WriteDa, XbusInit, Store, WalkOK
<1>5. CASE CommandStore
  <2>1. RegistersOK'
    BY <1>5 DEF CommandStore, WriteCmd, ResetController, ResetErrors, RegistersOK
  <2>2. WalkOK'
    BY <1>1, <1>4, <1>5 DEF CommandStore, WriteCmd, ResetController, ResetErrors, WalkOK
  <2> QED BY <1>2, <1>3, <2>1, <2>2
<1>6. CASE \E a \in Lists : WriteClp(a)
  BY <1>1, <1>2, <1>3, <1>4, <1>6 DEF WriteClp, RegistersOK, WalkOK
<1>7. CASE \E u \in Units, p \in Seeks : WriteDa(u, p)
  <2>1. PICK u \in Units, p \in Seeks : WriteDa(u, p)
    BY <1>7
  <2>2. da' \in DiskAddress
    BY <2>1 DEF WriteDa, DiskAddress
  <2> QED BY <1>1, <1>2, <1>3, <1>4, <2>1, <2>2 DEF WriteDa, RegistersOK, WalkOK
<1>8. CASE XbusInit
  <2>1. RegistersOK'
    BY <1>8 DEF XbusInit, ResetController, RegistersOK
  <2>2. WalkOK'
    BY <1>1, <1>4, <1>8 DEF XbusInit, ResetController, WalkOK
  <2> QED BY <1>2, <1>3, <2>1, <2>2
<1> QED BY <1>5, <1>6, <1>7, <1>8

(* What the clock brings: done, and attention.                                 *)
LEMMA TimeKeeps ==
  ASSUME Inv, Done \/ \E u \in Online : AttentionComes(u)
  PROVE  Inv'
<1> USE DEF Inv, TypeOK
<1>1. CASE Done
  <2>1. WalkInStep' /\ WriterMay' /\ ReadOnlyKept'
    BY <1>1, QuietKeeps DEF Done, Ending
  <2> QED BY <1>1, <2>1 DEF Done, Ending, RegistersOK, StoreOK, WalkOK
<1>2. CASE \E u \in Online : AttentionComes(u)
  <2>1. PICK u \in Online : AttentionComes(u)
    BY <1>2
  <2>2. WalkInStep' /\ WriterMay' /\ ReadOnlyKept'
    BY <2>1, QuietKeeps DEF AttentionComes
  <2>3. units' \in [Online -> Unit]
    BY <2>1 DEF AttentionComes, StoreOK, Unit
  <2> QED BY <2>1, <2>2, <2>3 DEF AttentionComes, RegistersOK, StoreOK, WalkOK
<1> QED BY <1>1, <1>2

(* The STARTs that walk no list.                                           *)
LEMMA ShortStartsKeep ==
  ASSUME Inv,
         \/ StartNoDrive \/ StartFault \/ StartSeek \/ StartAtEase
         \/ StartHang \/ StartNothing \/ StartReversed
  PROVE  Inv'
<1> USE DiskAssumption DEF Inv, TypeOK
<1>0. NoTransfer /\ \E codes \in SUBSET AllCodes : Start(codes)
  <2> USE DEF AllCodes, CMD2
  <2>1. CASE StartNoDrive
    BY <2>1 DEF StartNoDrive
  <2>2. CASE StartFault
    BY <2>2 DEF StartFault
  <2>3. CASE StartSeek
    BY <2>3 DEF StartSeek
  <2>4. CASE StartAtEase
    BY <2>4 DEF StartAtEase
  <2>5. CASE StartHang
    BY <2>5 DEF StartHang
  <2>6. CASE StartNothing
    BY <2>6 DEF StartNothing
  <2>7. CASE StartReversed
    BY <2>7 DEF StartReversed
  <2> QED BY <2>1, <2>2, <2>3, <2>4, <2>5, <2>6, <2>7
<1>1. /\ ~walk.on /\ UNCHANGED <<cmd, clp, da, lma, dma_written, pack, mem, walk, failed>>
      /\ ops' \in Nat
  BY <1>0 DEF Start, Store, NoTransfer, WalkOK
<1>2. WalkInStep' /\ WriterMay' /\ ReadOnlyKept'
  BY <1>1, QuietKeeps
<1>3. /\ err' \subseteq Errors /\ timeout' \in BOOLEAN /\ active' \in BOOLEAN
      /\ hung' \in BOOLEAN /\ expired' \in BOOLEAN
  BY DEF StartNoDrive, StartFault, StartSeek, StartAtEase, StartHang, StartNothing,
         StartReversed, DoneIn, Hang, RegistersOK, WalkOK, Errors
<1>4. units' \in [Online -> Unit]
  <2>1. CASE StartNoDrive \/ StartHang \/ StartNothing \/ StartReversed
    BY <2>1 DEF StartNoDrive, StartHang, StartNothing, StartReversed, StoreOK
  <2>2. CASE StartFault
    BY <2>2 DEF StartFault, StoreOK, Unit
  <2>3. CASE StartSeek
    <3>1. Drive \in Unit /\ da.at \in Address
      BY <2>3 DEF StartSeek, Present, Drive, StoreOK, RegistersOK, DiskAddress
    <3>2. Seek(Drive, da.at) \in Unit
      BY <3>1, SeekStays
    <3>3. \A x \in BOOLEAN : AttentionIn(x) \in {"none", "coming", "up"}
      BY DEF AttentionIn
    <3>4. \A x \in BOOLEAN : [Seek(Drive, da.at) EXCEPT !.attention = AttentionIn(x)] \in Unit
      BY <3>2, <3>3 DEF Unit
    <3> QED BY <2>3, <3>4 DEF StartSeek, Drive, StoreOK
  <2>4. CASE StartAtEase
    <3>1. CASE ~Present
      BY <2>4, <3>1 DEF StartAtEase, StoreOK
    <3>2. CASE Present
      <4>1. Drive \in Unit
        BY <3>2 DEF Present, Drive, StoreOK
      <4>2. /\ [Drive EXCEPT !.attention = "none"] \in Unit
            /\ [Drive EXCEPT !.attention = "none", !.fault = FALSE] \in Unit
            /\ [at |-> Home, seek_error |-> FALSE, fault |-> FALSE,
                 attention |-> AttentionIn(Drive.at.c # 0)] \in Unit
        BY <4>1, HomeOnPack DEF Unit, AttentionIn
      <4> QED BY <2>4, <3>2, <4>2 DEF StartAtEase, Start, Drive, StoreOK
    <3> QED BY <3>1, <3>2
  <2> QED BY <2>1, <2>2, <2>3, <2>4
<1> QED BY <1>1, <1>2, <1>3, <1>4 DEF RegistersOK, StoreOK, WalkOK

(* A transfer started.                                                         *)
LEMMA StartTransferKeeps ==
  ASSUME Inv, StartTransfer
  PROVE  Inv'
<1> USE DiskAssumption, GeometryAssumption DEF Inv, TypeOK
<1>1. /\ Present /\ Drive \in Unit /\ da.at \in Address /\ selected \in Online
      /\ UNCHANGED <<cmd, clp, da, lma, pack, mem>>
      /\ cmd \in Transfers \cup Tracks
  BY DEF StartTransfer, Start, MayMove, Present, Drive, StoreOK, RegistersOK, DiskAddress
<1>2. Seek(Drive, da.at) \in Unit
  BY <1>1, SeekStays
<1>3. units' = [units EXCEPT ![selected] = Seek(Drive, da.at)]
  BY DEF StartTransfer, Drive
<1>4. units' \in [Online -> Unit] /\ Drive' = Seek(Drive, da.at)
  BY <1>1, <1>2, <1>3 DEF StoreOK, Drive, selected
<1>5. StoreOK'
  BY <1>1, <1>4 DEF StoreOK
<1>6. RegistersOK'
  BY <1>1 DEF StartTransfer, DoneIn, RegistersOK
<1>7. ReadOnlyKept'
  BY <1>1 DEF ReadOnlyKept
<1>8. ops' \in Nat /\ expired' \in BOOLEAN /\ failed' \in BOOLEAN /\ hung' \in BOOLEAN
  <2>1. hung' = hung \/ hung' = FALSE
    BY DEF StartTransfer, DoneIn
  <2>2. hung' \in BOOLEAN
    BY <2>1, Zenon DEF WalkOK
  <2>3. expired' = FALSE /\ failed' = FALSE /\ ops' = ops + 1
    BY DEF StartTransfer, Start, Store
  <2>4. ops \in Nat
    BY DEF WalkOK
  <2>5. ops' \in Nat
    BY <2>3, <2>4
  <2> QED BY <2>2, <2>3, <2>5, Zenon
<1>9. CASE SeekOk(Drive, da.at)
  <2>1. da.at \in Position /\ Drive'.at = da.at
    BY <1>1, <1>4, <1>9, SeekStays
  <2>2. Lba(da.at) \in Nat
    BY <2>1, LbaOnPack DEF Lbas, Blocks
  <2>3. walk' = [on |-> TRUE, op |-> cmd, n |-> 0, moved |-> 0, first |-> Lba(da.at), pages |-> 0]
    BY <1>9 DEF StartTransfer, NoWalk
  <2>4. WalkOK'
    BY <1>1, <1>8, <2>2, <2>3 DEF WalkOK, Walks
  <2>5. WalkInStep'
    BY <1>1, <2>1, <2>2, <2>3 DEF WalkInStep, Present, selected
  <2>6. WriterMay'
    BY <1>1, <2>3 DEF WriterMay, StartTransfer, MayMove, selected
  <2> QED BY <1>5, <1>6, <1>7, <2>4, <2>5, <2>6
<1>10. CASE ~SeekOk(Drive, da.at)
  <2>1. UNCHANGED walk /\ ~walk.on
    BY <1>10 DEF StartTransfer, Start, Store
  <2>2. WalkOK'
    BY <1>8, <2>1 DEF WalkOK
  <2> QED BY <1>1, <1>5, <1>6, <1>7, <2>1, <2>2, QuietKeeps
<1> QED BY <1>9, <1>10

-----------------------------------------------------------------------------
(* The walk.                                                               *)

(* What every step of a walk finds.                                        *)
LEMMA WalkFinds ==
  ASSUME Inv, walk.on
  PROVE  /\ selected \in Online /\ Drive \in Unit /\ Drive.at \in Position
         /\ Lba(Drive.at) \in Lbas /\ Under \in Sector
         /\ CcwAt \in Nat
         /\ CcwAt < MemSize => Ccw \in Word /\ Ccw.page \in Nat
<1> USE DiskAssumption, GeometryAssumption DEF Inv, TypeOK
<1>1. selected \in Online /\ Drive \in Unit /\ Drive.at \in Position
  BY DEF WalkInStep, Present, Drive, StoreOK, Unit
<1>2. Lba(Drive.at) \in Lbas
  BY <1>1, LbaOnPack
<1>3. Under \in Sector
  BY <1>1, <1>2 DEF Under, StoreOK
<1>4. CcwAt \in Nat
  <2>1. clp \in Nat /\ walk.n \in Nat /\ ClpWrap \in Nat \ {0}
    BY DEF RegistersOK, WalkOK, Walks
  <2>2. (clp + walk.n) % ClpWrap \in Nat
    BY <2>1, SMT
  <2>3. clp % ClpWrap \in Nat /\ clp % ClpWrap <= clp
    BY <2>1, SMT
  <2> QED BY <2>1, <2>2, <2>3, SMT DEF CcwAt
<1>5. ASSUME CcwAt < MemSize PROVE Ccw \in Word /\ Ccw.page \in Nat
  <2>1. CcwAt \in 0..(MemSize - 1)
    BY <1>4, <1>5
  <2>2. Ccw \in Word
    BY <2>1 DEF Ccw, StoreOK
  <2> QED BY <2>2 DEF Word
<1> QED BY <1>1, <1>2, <1>3, <1>4, <1>5

(* The end of a walk that leaves the heads where they were.                *)
LEMMA StopKeeps ==
  ASSUME Inv, walk.on, NEW why \in SUBSET Errors, NEW unit \in Unit,
         unit.at = Drive.at, Stop(why, unit)
  PROVE  /\ err' \subseteq Errors /\ units' \in [Online -> Unit]
         /\ da' \in DiskAddress /\ active' \in BOOLEAN /\ hung' \in BOOLEAN
         /\ walk' = NoWalk
         /\ da'.unit = da.unit /\ Lba(da'.at) = walk.first + walk.moved
<1> USE DiskAssumption DEF Inv, TypeOK
<1>1. selected \in Online /\ Drive.at \in Position
  BY WalkFinds
<1>2. da' = [da EXCEPT !.at = Drive.at] /\ da \in DiskAddress
  BY DEF Stop, EndWalk, RegistersOK
<1>3. Drive.at \in Address
  BY <1>1, GeometryAssumption DEF Position, Address
<1>4. da' \in DiskAddress /\ da'.unit = da.unit /\ da'.at = Drive.at
  BY <1>2, <1>3 DEF DiskAddress
<1>5. units' \in [Online -> Unit]
  BY <1>1 DEF Stop, EndWalk, StoreOK
<1>6. err' \subseteq Errors
  BY DEF Stop, RegistersOK
<1>7. active' \in BOOLEAN /\ hung' \in BOOLEAN /\ walk' = NoWalk
  BY DEF Stop, EndWalk, DoneIn
<1> QED BY <1>4, <1>5, <1>6, <1>7 DEF WalkInStep

(* What a step of a walk does to the packs: nothing, or it writes the one  *)
(* selected, which may be written.                                         *)
LEMMA LayDownKeeps ==
  ASSUME Inv, walk.on, NEW pages \in Nat, LayDown(pages)
  PROVE  /\ pack' \in [Online -> [Lbas -> Sector]] /\ failed' \in BOOLEAN
         /\ \A u \in Online : u # selected => pack'[u] = pack[u]
<1> USE DiskAssumption DEF Inv, TypeOK
<1>1. selected \in Online /\ pack \in [Online -> [Lbas -> Sector]] /\ failed \in BOOLEAN
  BY WalkFinds DEF StoreOK, WalkOK
<1>2. PICK n \in 0..pages : \E sectors \in [0..(n - 1) -> Laid] :
        \/ pack' = [pack EXCEPT ![selected] = LaidDown(sectors)] /\ UNCHANGED failed
        \/ /\ pack' = [pack EXCEPT ![selected] =
                         [LaidDown(sectors) EXCEPT ![OnTrack(n)] = NotWritten(@)]]
           /\ failed' = TRUE
  BY DEF LayDown
<1>3. PICK sectors \in [0..(n - 1) -> Laid] :
        \/ pack' = [pack EXCEPT ![selected] = LaidDown(sectors)] /\ UNCHANGED failed
        \/ /\ pack' = [pack EXCEPT ![selected] =
                         [LaidDown(sectors) EXCEPT ![OnTrack(n)] = NotWritten(@)]]
           /\ failed' = TRUE
  BY <1>2
<1>4. LaidDown(sectors) \in [Lbas -> Sector]
  <2>1. ASSUME NEW a \in Lbas, \E k \in DOMAIN sectors : OnTrack(k) = a
        PROVE  sectors[CHOOSE k \in DOMAIN sectors : OnTrack(k) = a] \in Sector
    <3> DEFINE k == CHOOSE k \in DOMAIN sectors : OnTrack(k) = a
    <3>1. k \in DOMAIN sectors
      BY <2>1
    <3> HIDE DEF k
    <3>2. sectors[k] \in Laid
      BY <1>3, <3>1
    <3> QED BY <3>2 DEF k
  <2>2. \A a \in Lbas : pack[selected][a] \in Sector
    BY <1>1
  <2> QED BY <2>1, <2>2 DEF LaidDown
<1> HIDE DEF LaidDown
<1> DEFINE f == LaidDown(sectors)
           g == [f EXCEPT ![OnTrack(n)] = NotWritten(@)]
<1>5. g \in [Lbas -> Sector]
  <2>1. \A s \in Sector : NotWritten(s) \in Sector
    BY DEF NotWritten, Sector
  <2>2. f \in [Lbas -> Sector]
    BY <1>4
  <2> HIDE DEF f
  <2> QED BY <2>1, <2>2
<1> HIDE DEF f, g
<1>6. (pack' = [pack EXCEPT ![selected] = f] /\ UNCHANGED failed)
      \/ (pack' = [pack EXCEPT ![selected] = g] /\ failed' = TRUE)
  BY <1>3 DEF f, g
<1>7. f \in [Lbas -> Sector]
  BY <1>4 DEF f
<1>8. CASE pack' = [pack EXCEPT ![selected] = f] /\ UNCHANGED failed
  BY <1>1, <1>7, <1>8
<1>9. CASE pack' = [pack EXCEPT ![selected] = g] /\ failed' = TRUE
  BY <1>1, <1>5, <1>9
<1> QED BY <1>6, <1>8, <1>9

(* A step that ends the walk, or goes on with it in step, keeps the        *)
(* invariant if it keeps the types and writes only where it may.           *)
WalkStepOK ==
  /\ RegistersOK' /\ StoreOK' /\ WalkOK'
  /\ selected' = selected
  /\ \A u \in Online : (u # selected \/ walk.op \notin {"Write", "WriteAll"}) => pack'[u] = pack[u]
  /\ \/ walk' = NoWalk /\ Lba(da'.at) = walk.first + walk.moved
     \/ walk'.on /\ walk'.op = walk.op /\ WalkInStep'

(* One step of a command list, from the facts all its steps share.             *)
LEMMA WalkStepKeeps ==
  ASSUME Inv, walk.on, WalkStepOK
  PROVE  Inv'
<1> USE DEF Inv, TypeOK, WalkStepOK
<1>1. ReadOnlyKept'
  <2> SUFFICES ASSUME NEW u \in ReadOnly PROVE pack'[u] = Pack[u]
    BY DEF ReadOnlyKept
  <2>1. pack[u] = Pack[u] /\ u \in Online
    BY DiskAssumption DEF ReadOnlyKept
  <2>2. u # selected \/ walk.op \notin {"Write", "WriteAll"}
    BY DEF WriterMay
  <2> QED BY <2>1, <2>2
<1>2. WalkInStep' /\ WriterMay'
  BY NoWalkOK DEF WalkInStep, WriterMay
<1> QED BY <1>1, <1>2

(* The facts a step of the walk that stops gives to WalkStepOK.            *)
LEMMA StopStep ==
  ASSUME Inv, walk.on, NEW why \in SUBSET Errors, NEW unit \in Unit,
         unit.at = Drive.at, Stop(why, unit),
         UNCHANGED <<cmd, clp, timeout, expired, ops>>,
         lma' \in Nat, dma_written' \subseteq 0..(MemSize - 1),
         mem' \in [0..(MemSize - 1) -> Word],
         pack' \in [Online -> [Lbas -> Sector]], failed' \in BOOLEAN,
         \A u \in Online : (u # selected \/ walk.op \notin {"Write", "WriteAll"}) => pack'[u] = pack[u]
  PROVE  WalkStepOK
<1> USE DEF Inv, TypeOK
<1>1. /\ err' \subseteq Errors /\ units' \in [Online -> Unit]
      /\ da' \in DiskAddress /\ active' \in BOOLEAN /\ hung' \in BOOLEAN
      /\ walk' = NoWalk
      /\ da'.unit = da.unit /\ Lba(da'.at) = walk.first + walk.moved
  BY StopKeeps
<1>2. RegistersOK'
  BY <1>1 DEF RegistersOK
<1>3. StoreOK'
  BY <1>1 DEF StoreOK
<1>4. WalkOK'
  BY <1>1, NoWalkOK DEF WalkOK
<1>5. selected' = selected
  BY <1>1 DEF selected
<1> QED BY <1>1, <1>2, <1>3, <1>4, <1>5 DEF WalkStepOK

(* The same for Controller::command_list going on to the next block, or    *)
(* not.                                                                    *)
LEMMA AdvanceStep ==
  ASSUME Inv, walk.on, walk.op \in Transfers, CcwAt < MemSize,
         NEW compared \in SUBSET Errors, Advance(compared),
         UNCHANGED <<cmd, clp, timeout, expired, ops>>,
         lma' \in Nat, dma_written' \subseteq 0..(MemSize - 1),
         mem' \in [0..(MemSize - 1) -> Word],
         pack' \in [Online -> [Lbas -> Sector]], failed' \in BOOLEAN,
         \A u \in Online : (u # selected \/ walk.op \notin {"Write", "WriteAll"}) => pack'[u] = pack[u]
  PROVE  WalkStepOK
<1> USE DEF Inv, TypeOK
<1> DEFINE next == NextAddress(Drive.at)
<1>1. /\ selected \in Online /\ Drive \in Unit /\ Drive.at \in Position
  BY WalkFinds
<1>2. next \in Address /\ (OnPack(next) => next \in Position /\ Lba(next) = Lba(Drive.at) + 1)
  BY <1>1, NextIsNext
<1>3. next # Drive.at
  <2>1. Drive.at.c \in Nat /\ Drive.at.h \in Nat /\ Drive.at.b \in Nat
        /\ Drive.at = [c |-> Drive.at.c, h |-> Drive.at.h, b |-> Drive.at.b]
    BY <1>1, GeometryAssumption DEF Position
  <2>2. \/ next.b = Drive.at.b + 1 \/ next.h = Drive.at.h + 1 \/ next.c = Drive.at.c + 1
    BY <2>1 DEF NextAddress
  <2> QED BY <2>1, <2>2
<1> HIDE DEF next
<1>4. CASE ~Ccw.more /\ Stop(compared, Drive)
  BY <1>1, <1>4, StopStep
<1>5. CASE ~SeekOk(Drive, next) /\ Stop(compared \cup {"header_ecc"}, Seek(Drive, next))
  <2>1. Seek(Drive, next) \in Unit /\ Seek(Drive, next).at = Drive.at
    BY <1>1, <1>2, <1>5, SeekStays DEF Seek, Unit
  <2>2. compared \cup {"header_ecc"} \in SUBSET Errors
    BY DEF Errors
  <2> QED BY <1>5, <2>1, <2>2, StopStep
<1>6. CASE /\ SeekOk(Drive, next)
           /\ err' = err \cup compared
           /\ units' = [units EXCEPT ![selected] = Seek(Drive, next)]
           /\ walk' = [walk EXCEPT !.n = (walk.n + 1) % ClpWrap, !.moved = walk.moved + 1]
           /\ UNCHANGED <<da, active, hung>>
  <2>1. Seek(Drive, next) \in Unit /\ Seek(Drive, next).at = next /\ next \in Position
    BY <1>1, <1>2, <1>6, SeekStays
  <2>2. Lba(next) = Lba(Drive.at) + 1
    BY <1>2, <1>3, <1>6 DEF SeekOk
  <2>3. /\ walk.n \in Nat /\ walk.moved \in Nat /\ walk.first \in Nat /\ walk.pages \in Nat
        /\ ClpWrap \in Nat \ {0}
    BY DiskAssumption DEF WalkOK, Walks
  <2>4. (walk.n + 1) % ClpWrap \in Nat /\ (walk.n + 1) % ClpWrap < ClpWrap
    BY <2>3, SMT
  <2>5. walk = [on |-> walk.on, op |-> walk.op, n |-> walk.n, moved |-> walk.moved,
                 first |-> walk.first, pages |-> walk.pages]
         /\ walk.op \in Transfers \cup Tracks
    BY DEF WalkOK, Walks
  <2>6. walk' = [on |-> walk.on, op |-> walk.op, n |-> (walk.n + 1) % ClpWrap,
                  moved |-> walk.moved + 1, first |-> walk.first, pages |-> walk.pages]
    BY <1>6, <2>5
  <2>7. /\ walk' \in Walks /\ walk'.n = (walk.n + 1) % ClpWrap /\ walk'.pages = walk.pages
        /\ walk'.moved = walk.moved + 1 /\ walk'.first = walk.first
        /\ walk'.on = walk.on /\ walk'.op = walk.op
    BY <2>3, <2>4, <2>5, <2>6 DEF Walks
  <2>8. WalkOK'
    BY <1>6, <2>4, <2>7 DEF WalkOK
  <2>9. units' \in [Online -> Unit] /\ Drive'.at = next /\ selected' = selected
    BY <1>1, <1>6, <2>1 DEF StoreOK, Drive, selected
  <2>10. StoreOK'
    BY <2>9 DEF StoreOK
  <2>11. RegistersOK'
    <3>1. err' \subseteq Errors
      BY <1>6 DEF RegistersOK
    <3> QED BY <1>6, <3>1 DEF RegistersOK
  <2>12. Lba(Drive'.at) = walk'.first + walk'.moved
    <3>1. Lba(Drive.at) = walk.first + walk.moved
      BY DEF WalkInStep
    <3> QED BY <2>2, <2>3, <2>7, <2>9, <3>1
  <2>13. walk.op \notin Tracks
    BY DEF Transfers, Tracks
  <2>14. WalkInStep'
    BY <1>1, <2>7, <2>9, <2>12, <2>13 DEF WalkInStep, Present
  <2> QED BY <2>7, <2>8, <2>9, <2>10, <2>11, <2>14 DEF WalkStepOK
<1>7. \/ ~Ccw.more /\ Stop(compared, Drive)
      \/ ~SeekOk(Drive, next) /\ Stop(compared \cup {"header_ecc"}, Seek(Drive, next))
      \/ /\ SeekOk(Drive, next)
         /\ err' = err \cup compared
         /\ units' = [units EXCEPT ![selected] = Seek(Drive, next)]
         /\ walk' = [walk EXCEPT !.n = (walk.n + 1) % ClpWrap, !.moved = walk.moved + 1]
         /\ UNCHANGED <<da, active, hung>>
  BY DEF Advance, next, Drive
<1> QED BY <1>4, <1>5, <1>6, <1>7

(* Every step of a command list has those facts.                               *)
LEMMA WalkKeeps ==
  ASSUME Inv, Walk
  PROVE  walk.on /\ WalkStepOK
<1> USE DiskAssumption, GeometryAssumption DEF Inv, TypeOK
<1>0. walk.on
  BY DEF Walk, NoCcw, BadHeader, BadImage, BadData, NoPage, BadWrite, ReadBlock,
         CompareBlock, WriteBlock, TrackPage, Fetched, Walking
<1>1. /\ selected \in Online /\ Drive \in Unit /\ Drive.at \in Position
      /\ Lba(Drive.at) \in Lbas /\ Under \in Sector /\ CcwAt \in Nat
      /\ CcwAt < MemSize => Ccw \in Word /\ Ccw.page \in Nat
  BY <1>0, WalkFinds
<1>2. /\ lma \in Nat /\ dma_written \subseteq 0..(MemSize - 1)
      /\ mem \in [0..(MemSize - 1) -> Word] /\ pack \in [Online -> [Lbas -> Sector]]
      /\ failed \in BOOLEAN /\ walk.pages \in Nat
  BY DEF RegistersOK, StoreOK, WalkOK, Walks
<1>3. \A pages \in Nat : OneMore(pages) \in Nat /\ (pages <= BlocksPerTrack => OneMore(pages) <= BlocksPerTrack)
  BY DEF OneMore
<1>4. [Drive EXCEPT !.fault = TRUE] \in Unit /\ [Drive EXCEPT !.fault = TRUE].at = Drive.at
  BY <1>1 DEF Unit
<1>5. ASSUME NEW pages \in Nat,
             IF walk.op = "WriteAll" THEN LayDown(pages) ELSE UNCHANGED <<pack, failed>>
      PROVE  /\ pack' \in [Online -> [Lbas -> Sector]] /\ failed' \in BOOLEAN
             /\ \A u \in Online : (u # selected \/ walk.op \notin {"Write", "WriteAll"}) => pack'[u] = pack[u]
  <2>1. CASE walk.op = "WriteAll"
    BY <1>0, <1>5, <2>1, LayDownKeeps
  <2>2. CASE walk.op # "WriteAll"
    BY <1>2, <1>5, <2>2
  <2> QED BY <2>1, <2>2
<1>6. ASSUME NEW s \in Sector, pack' = [pack EXCEPT ![selected][Lba(Drive.at)] = s], walk.op = "Write"
      PROVE  /\ pack' \in [Online -> [Lbas -> Sector]]
             /\ \A u \in Online : (u # selected \/ walk.op \notin {"Write", "WriteAll"}) => pack'[u] = pack[u]
  BY <1>1, <1>2, <1>6
<1>7. CASE NoCcw
  <2>1. {"nxm", "ccw_cycle"} \in SUBSET Errors
    BY DEF Errors
  <2>2. /\ pack' \in [Online -> [Lbas -> Sector]] /\ failed' \in BOOLEAN
        /\ \A u \in Online : (u # selected \/ walk.op \notin {"Write", "WriteAll"}) => pack'[u] = pack[u]
    BY <1>2, <1>5, <1>7 DEF NoCcw
  <2> QED BY <1>0, <1>1, <1>2, <1>7, <2>1, <2>2, StopStep DEF NoCcw
<1>8. CASE BadHeader
  <2>1. {IF Under.header = "other" THEN "header_compare" ELSE "header_ecc"} \in SUBSET Errors
    BY DEF Errors
  <2> QED BY <1>0, <1>1, <1>2, <1>8, <2>1, StopStep DEF BadHeader, Fetched
<1>9. CASE BadImage
  <2>1. {} \in SUBSET Errors
    OBVIOUS
  <2> QED BY <1>0, <1>1, <1>2, <1>4, <1>9, <2>1, StopStep DEF BadImage, Fetched
<1>10. CASE BadData
  <2>1. {IF Under.check = "soft" THEN "ecc_soft" ELSE "ecc_hard"} \in SUBSET Errors
    BY DEF Errors
  <2> QED BY <1>0, <1>1, <1>2, <1>10, <2>1, StopStep DEF BadData, Fetched
<1>11. CASE NoPage
  <2>1. {"nxm"} \in SUBSET Errors
    BY DEF Errors
  <2>2. /\ pack' \in [Online -> [Lbas -> Sector]] /\ failed' \in BOOLEAN
        /\ \A u \in Online : (u # selected \/ walk.op \notin {"Write", "WriteAll"}) => pack'[u] = pack[u]
    BY <1>2, <1>5, <1>11 DEF NoPage
  <2> QED BY <1>0, <1>1, <1>2, <1>11, <2>1, <2>2, StopStep DEF NoPage, Fetched
<1>12. CASE BadWrite
  <2>1. {} \in SUBSET Errors
    OBVIOUS
  <2>2. NotWritten(Under) \in Sector
    BY <1>1 DEF NotWritten, Sector
  <2>3. pack' = [pack EXCEPT ![selected][Lba(Drive.at)] = NotWritten(Under)] /\ walk.op = "Write"
    BY <1>12 DEF BadWrite, Under, Fetched, Walking
  <2>4. /\ pack' \in [Online -> [Lbas -> Sector]]
        /\ \A u \in Online : (u # selected \/ walk.op \notin {"Write", "WriteAll"}) => pack'[u] = pack[u]
    BY <1>6, <2>2, <2>3
  <2> QED BY <1>0, <1>1, <1>2, <1>4, <1>12, <2>1, <2>4, StopStep DEF BadWrite, Fetched
<1>13. CASE ReadBlock
  <2>1. /\ CcwAt < MemSize /\ Ccw.page \in 0..(MemSize - 1) /\ walk.op \in Transfers
        /\ UNCHANGED <<cmd, clp, timeout, expired, ops, pack, failed>>
        /\ lma' = Ccw.page /\ Advance({})
    BY <1>1, <1>13 DEF ReadBlock, Fetched, Walking, Transfers
  <2>2. dma_written' \subseteq 0..(MemSize - 1)
    BY <1>2, <1>13, <2>1 DEF ReadBlock, NotePage
  <2>3. mem' \in [0..(MemSize - 1) -> Word]
    BY <1>1, <1>2, <1>13, <2>1 DEF ReadBlock, Sector
  <2> QED BY <1>0, <1>2, <2>1, <2>2, <2>3, AdvanceStep
<1>14. CASE CompareBlock
  <2> DEFINE d == IF mem[Ccw.page] # Under.data THEN {"read_compare_difference"} ELSE {}
  <2>1. d \in SUBSET Errors
    BY DEF Errors
  <2>2. /\ CcwAt < MemSize /\ Ccw.page \in 0..(MemSize - 1) /\ walk.op \in Transfers
        /\ UNCHANGED <<cmd, clp, timeout, expired, ops, pack, failed, dma_written, mem>>
        /\ lma' = Ccw.page /\ Advance(d)
    BY <1>1, <1>14 DEF CompareBlock, Fetched, Walking, Transfers
  <2> HIDE DEF d
  <2> QED BY <1>0, <1>2, <2>1, <2>2, AdvanceStep
<1>15. CASE WriteBlock
  <2>1. /\ CcwAt < MemSize /\ Ccw.page \in 0..(MemSize - 1) /\ walk.op \in Transfers
        /\ UNCHANGED <<cmd, clp, timeout, expired, ops, dma_written, mem, failed>>
        /\ lma' = Ccw.page /\ Advance({}) /\ walk.op = "Write"
    BY <1>1, <1>15 DEF WriteBlock, Fetched, Walking, Transfers
  <2>2. Written(Under, mem[Ccw.page]) \in Sector
    BY <1>1, <1>2, <2>1 DEF Written, Sector
  <2>3. pack' = [pack EXCEPT ![selected][Lba(Drive.at)] = Written(Under, mem[Ccw.page])]
    BY <1>15 DEF WriteBlock, Under
  <2>4. /\ pack' \in [Online -> [Lbas -> Sector]]
        /\ \A u \in Online : (u # selected \/ walk.op \notin {"Write", "WriteAll"}) => pack'[u] = pack[u]
    BY <1>6, <2>1, <2>2, <2>3
  <2> QED BY <1>0, <1>2, <2>1, <2>4, AdvanceStep
<1>16. CASE TrackPage
  <2>1. /\ CcwAt < MemSize /\ Ccw.page \in 0..(MemSize - 1) /\ walk.op \in Tracks
        /\ UNCHANGED <<cmd, clp, timeout, expired, ops>>
        /\ lma' \in Nat
    BY <1>1, <1>16 DEF TrackPage, Fetched, Walking
  <2>2. dma_written' \subseteq 0..(MemSize - 1)
    BY <1>2, <1>16, <2>1 DEF TrackPage, NotePage
  <2>3. mem' \in [0..(MemSize - 1) -> Word]
    BY <1>2, <1>16, <2>1 DEF TrackPage
  <2>4. CASE ~Ccw.more
    <3>1. Stop({}, Drive) /\ {} \in SUBSET Errors
      BY <1>16, <2>4 DEF TrackPage
    <3>2. /\ pack' \in [Online -> [Lbas -> Sector]] /\ failed' \in BOOLEAN
          /\ \A u \in Online : (u # selected \/ walk.op \notin {"Write", "WriteAll"}) => pack'[u] = pack[u]
      BY <1>2, <1>3, <1>5, <1>16, <2>4 DEF TrackPage
    <3> QED BY <1>0, <1>1, <2>1, <2>2, <2>3, <3>1, <3>2, StopStep
  <2>5. CASE Ccw.more
    <3>1. /\ walk' = [walk EXCEPT !.n = (walk.n + 1) % ClpWrap, !.pages = OneMore(walk.pages)]
          /\ UNCHANGED <<da, err, active, units, pack, hung, failed>>
      BY <1>16, <2>5 DEF TrackPage
    <3>2. /\ walk = [on |-> walk.on, op |-> walk.op, n |-> walk.n, moved |-> walk.moved,
                     first |-> walk.first, pages |-> walk.pages]
          /\ walk.op \in Transfers \cup Tracks
          /\ walk.n \in Nat /\ walk.moved \in Nat /\ walk.first \in Nat
          /\ ClpWrap \in Nat \ {0}
      BY DEF WalkOK, Walks
    <3>3. walk' = [on |-> walk.on, op |-> walk.op, n |-> (walk.n + 1) % ClpWrap,
                   moved |-> walk.moved, first |-> walk.first, pages |-> OneMore(walk.pages)]
      BY <3>1, <3>2
    <3>4. (walk.n + 1) % ClpWrap \in Nat /\ (walk.n + 1) % ClpWrap < ClpWrap
      BY <3>2, SMT
    <3>5. walk' \in Walks /\ walk'.n < ClpWrap /\ walk'.pages <= BlocksPerTrack
      BY <1>0, <1>2, <1>3, <3>2, <3>3, <3>4 DEF Walks, WalkOK
    <3>6. WalkOK'
      BY <2>1, <3>1, <3>5 DEF WalkOK
    <3>7. StoreOK' /\ RegistersOK'
      BY <2>1, <2>2, <2>3, <3>1 DEF StoreOK, RegistersOK
    <3>8. WalkInStep'
      BY <1>0, <3>1, <3>3 DEF WalkInStep, Present, Drive, selected
    <3> QED BY <1>0, <3>1, <3>3, <3>6, <3>7, <3>8 DEF WalkStepOK, selected
  <2> QED BY <2>4, <2>5
<1> QED BY <1>0, <1>7, <1>8, <1>9, <1>10, <1>11, <1>12, <1>13, <1>14, <1>15, <1>16 DEF Walk

(* Every step keeps the invariant.                                             *)
LEMMA InvNext == Inv /\ [Next]_vars => Inv'
<1> SUFFICES ASSUME Inv, [Next]_vars PROVE Inv'
  OBVIOUS
<1>1. CASE UNCHANGED vars
  BY <1>1 DEF vars, Inv, TypeOK, RegistersOK, StoreOK, WalkOK, WalkInStep, WriterMay,
              ReadOnlyKept, Present, Drive, selected
<1>2. CASE Starts
  BY <1>2, ShortStartsKeep, StartTransferKeeps DEF Starts
<1>3. CASE Walk
  BY <1>3, WalkKeeps, WalkStepKeeps
<1> QED BY <1>1, <1>2, <1>3, StoresKeep, TimeKeeps DEF Next

(* The inductive invariant of the controller: its types, the walk in step  *)
(* with its list, and no walk that writes on a read-only drive.            *)
THEOREM DiskInductive == Spec => []Inv
BY InvInit, InvNext, PTL DEF Spec

(* Every variable keeps its type; in particular Unit::seek and             *)
(* Unit::next_block never leave the heads off the pack.                    *)
THEOREM DiskTypes == Spec => []TypeOK
<1>1. Inv => TypeOK
  BY DEF Inv
<1> QED BY <1>1, InvInit, InvNext, PTL DEF Spec

(* Through tracks and cylinders, a command list moves consecutive blocks.  *)
THEOREM WalkStaysInStep == Spec => []WalkInStep
<1>1. Inv => WalkInStep
  BY DEF Inv
<1> QED BY <1>1, InvInit, InvNext, PTL DEF Spec

(* No command writes a pack whose drive is read-only.                      *)
THEOREM ReadOnlySafe == Spec => []ReadOnlyKept
<1>1. Inv => ReadOnlyKept
  BY DEF Inv
<1> QED BY <1>1, InvInit, InvNext, PTL DEF Spec

(* With a walk on, every step is the walk's: the store to START has not    *)
(* returned.                                                               *)
LEMMA WalkAlone ==
  ASSUME [Next]_vars, walk.on, ~UNCHANGED vars
  PROVE  Walk
<1>1. ~Store
  BY DEF Store
<1>2. /\ ~CommandStore /\ ~XbusInit
      /\ ~\E a \in Lists : WriteClp(a)
      /\ ~\E u \in Units, p \in Seeks : WriteDa(u, p)
  BY <1>1 DEF CommandStore, WriteCmd, XbusInit, WriteClp, WriteDa
<1>3. ~Starts
  BY <1>1 DEF Starts, StartNoDrive, StartTransfer, StartFault, StartSeek, StartAtEase,
              StartHang, StartNothing, StartReversed, Start
<1>4. ~Done /\ ~\E u \in Online : AttentionComes(u)
  BY DEF Done, Ending, AttentionComes
<1>5. Next
  OBVIOUS
<1> QED BY <1>2, <1>3, <1>4, <1>5, Zenon DEF Next

(* With none on, no step touches memory.                                   *)
LEMMA MemoryRests ==
  ASSUME [Next]_vars, ~Walk
  PROVE  UNCHANGED mem
<1>1. CASE UNCHANGED vars
  BY <1>1 DEF vars
<1>2. CASE Starts
  BY <1>2 DEF Starts, StartNoDrive, StartTransfer, StartFault, StartSeek, StartAtEase,
              StartHang, StartNothing, StartReversed, NoTransfer
<1>3. CASE \/ CommandStore \/ XbusInit
           \/ \E a \in Lists : WriteClp(a)
           \/ \E u \in Units, p \in Seeks : WriteDa(u, p)
  BY <1>3 DEF CommandStore, WriteCmd, XbusInit, WriteClp, WriteDa
<1>4. CASE Done \/ \E u \in Online : AttentionComes(u)
  BY <1>4 DEF Done, AttentionComes
<1> QED BY <1>1, <1>2, <1>3, <1>4, Zenon DEF Next

(* A page of memory a step of a walk changed is in dma_written.            *)
LEMMA WalkNotesPages ==
  ASSUME Inv, Walk
  PROVE  \A a \in DOMAIN mem : mem'[a] # mem[a] => a \in dma_written'
<1>1. CASE UNCHANGED mem
  BY <1>1
<1>2. CASE ReadBlock
  BY <1>2 DEF ReadBlock, NotePage
<1>3. CASE TrackPage /\ walk.op = "ReadAll"
  BY <1>3 DEF TrackPage, NotePage
<1>4. UNCHANGED mem \/ ReadBlock \/ (TrackPage /\ walk.op = "ReadAll")
  BY DEF Walk, NoCcw, BadHeader, BadImage, BadData, NoPage, BadWrite, CompareBlock,
         WriteBlock, TrackPage
<1> QED BY <1>1, <1>2, <1>3, <1>4

(* A step of a transfer that changed memory or the pack found the sector   *)
(* sound.                                                                  *)
LEMMA WalkIsSound ==
  ASSUME Walk, walk.op \in Transfers
  PROVE  /\ mem' # mem => Under.header = "own" /\ Under.check = "ok"
         /\ pack' # pack => Under.header = "own" /\ walk.op = "Write"
<1>1. walk.op \notin Tracks
  BY DEF Transfers, Tracks
<1>2. CASE ReadBlock
  <2>1. walk.op = "Read" /\ Sound /\ UNCHANGED pack
    BY <1>2 DEF ReadBlock, Fetched, Walking
  <2> QED BY <2>1 DEF Sound
<1>3. CASE WriteBlock \/ BadWrite
  <2>1. walk.op = "Write" /\ Sound /\ UNCHANGED mem
    BY <1>3 DEF WriteBlock, BadWrite, Fetched, Walking
  <2> QED BY <2>1 DEF Sound
<1>4. CASE NoCcw \/ NoPage
  <2>1. walk.op # "WriteAll"
    BY <1>1 DEF Tracks
  <2> QED BY <1>4, <2>1 DEF NoCcw, NoPage
<1>5. CASE BadHeader \/ BadImage \/ BadData \/ CompareBlock
  BY <1>5 DEF BadHeader, BadImage, BadData, CompareBlock
<1>6. ~TrackPage
  BY <1>1 DEF TrackPage, Fetched, Walking
<1> QED BY <1>2, <1>3, <1>4, <1>5, <1>6 DEF Walk

(* However a transfer ends, the disk address register is left with the     *)
(* block it ended at.                                                      *)
THEOREM DaCorrect == Spec => DaNamesTheBlock
<1>1. ASSUME Inv, [Next]_vars, walk.on, ~walk'.on
      PROVE  da'.unit = da.unit /\ Lba(da'.at) = walk.first + walk.moved
  <2>1. ~UNCHANGED vars
    BY <1>1 DEF vars
  <2>2. WalkStepOK
    BY <1>1, <2>1, WalkAlone, WalkKeeps
  <2> QED BY <1>1, <2>2 DEF WalkStepOK, selected
<1> QED BY <1>1, InvInit, InvNext, PTL DEF Spec, DaNamesTheBlock

(* The pages in dma_written, which the netlist memory boards are given,    *)
(* are all that a transfer changed; and a sector that is not the           *)
(* address's own or does not check is neither read into memory nor         *)
(* written (Controller::transfer).                                         *)
THEOREM TransferIsSafe == Spec => TransferSafe
<1>1. ASSUME Inv, [Next]_vars
      PROVE  \A a \in DOMAIN mem : mem'[a] # mem[a] => a \in dma_written'
  <2>1. CASE Walk
    BY <1>1, <2>1, WalkNotesPages
  <2>2. CASE ~Walk
    BY <1>1, <2>2, MemoryRests
  <2> QED BY <2>1, <2>2
<1>2. ASSUME Inv, [Next]_vars, walk.on, walk.op \in Transfers
      PROVE  /\ mem' # mem => Under.header = "own" /\ Under.check = "ok"
             /\ pack' # pack => Under.header = "own" /\ walk.op = "Write"
  <2>1. CASE UNCHANGED vars
    BY <2>1 DEF vars
  <2>2. CASE ~UNCHANGED vars
    BY <1>2, <2>2, WalkAlone, WalkIsSound
  <2> QED BY <2>1, <2>2
<1>3. Spec => DmaWrittenCovers
  BY <1>1, InvInit, InvNext, PTL DEF Spec, DmaWrittenCovers
<1>4. Spec => UnsoundStaysPut
  BY <1>2, InvInit, InvNext, PTL DEF Spec, UnsoundStaysPut
<1> QED BY <1>3, <1>4 DEF TransferSafe

-----------------------------------------------------------------------------
(* The timeout, where software waits for not-active before a START.  A     *)
(* timeout is the operation's that hangs, or one's that ran its time; and  *)
(* no walk starts with either about.                                       *)
HangInv ==
  /\ hung => active /\ timeout
  /\ timeout => hung \/ expired
  /\ walk.on => ~timeout /\ ~hung

(* A store, which finds no walk on.                                        *)
LEMMA StoresKeepHang ==
  ASSUME HangInv,
         \/ CommandStore
         \/ \E a \in Lists : WriteClp(a)
         \/ \E u \in Units, p \in Seeks : WriteDa(u, p)
         \/ XbusInit
  PROVE  HangInv'
<1>1. ~walk.on /\ UNCHANGED walk
  BY DEF CommandStore, WriteCmd, WriteClp, WriteDa, XbusInit, Store
<1>2. \/ UNCHANGED <<timeout, active, hung, expired>>
      \/ ~active' /\ ~hung' /\ ~timeout' /\ ~expired'
      \/ /\ UNCHANGED <<active, hung>>
         /\ timeout' = (timeout /\ active) /\ expired' = (expired /\ timeout')
  BY Zenon DEF CommandStore, WriteCmd, WriteClp, WriteDa, XbusInit, ResetController, ResetErrors
<1>3. CASE UNCHANGED <<timeout, active, hung, expired>>
  BY <1>1, <1>3 DEF HangInv
<1>4. CASE ~active' /\ ~hung' /\ ~timeout' /\ ~expired'
  BY <1>1, <1>4, Zenon DEF HangInv
<1>5. CASE /\ UNCHANGED <<active, hung>>
           /\ timeout' = (timeout /\ active) /\ expired' = (expired /\ timeout')
  BY <1>1, <1>5, Zenon DEF HangInv
<1> QED BY <1>2, <1>3, <1>4, <1>5, Zenon

(* A START, which finds no operation active.                               *)
LEMMA StartsKeepHang == ASSUME HangInv, Polite, Starts PROVE HangInv'
<1>1. ~active /\ ~walk.on /\ ~hung
  BY Zenon DEF Starts, StartNoDrive, StartTransfer, StartFault, StartSeek, StartAtEase, StartHang,
     StartNothing, StartReversed, Start, Store, HangInv
<1>2. CASE StartTransfer
  <2>1. ~timeout'
    BY <1>2, Zenon DEF StartTransfer
  <2>2. ~hung' \/ hung' = hung
    BY <1>2, Zenon DEF StartTransfer, DoneIn
  <2>3. ~hung'
    BY <1>1, <2>2, Zenon
  <2> QED BY <2>1, <2>3, Zenon DEF HangInv
<1>3. CASE StartHang
  BY <1>1, <1>3 DEF StartHang, Hang, NoTransfer, HangInv
<1>4. CASE StartSeek \/ StartReversed
  <2>1. ~hung' /\ UNCHANGED <<timeout, expired, walk>>
    BY <1>4 DEF StartSeek, StartReversed, DoneIn, NoTransfer
  <2> QED BY <1>1, <2>1 DEF HangInv
<1>5. CASE StartNoDrive \/ StartFault \/ StartAtEase \/ StartNothing
  <2>1. UNCHANGED <<timeout, active, hung, expired, walk>>
    BY <1>5, Zenon DEF StartNoDrive, StartFault, StartAtEase, StartNothing, NoTransfer
  <2> QED BY <1>1, <2>1 DEF HangInv
<1> QED BY <1>2, <1>3, <1>4, <1>5, Zenon DEF Starts

(* A step of the walk, which leaves no hang.                               *)
LEMMA WalkKeepsHang == ASSUME HangInv, Walk PROVE HangInv'
<1>1. walk.on /\ timeout' = timeout
  BY Zenon DEF Walk, NoCcw, BadHeader, BadImage, BadData, NoPage, BadWrite, ReadBlock,
     CompareBlock, WriteBlock, TrackPage, Fetched, Walking
<1>2. ~hung' \/ hung' = hung
  BY Zenon DEF Walk, NoCcw, BadHeader, BadImage, BadData, NoPage, BadWrite, ReadBlock,
     CompareBlock, WriteBlock, TrackPage, Advance, Stop, EndWalk, DoneIn
<1>3. ~timeout /\ ~hung
  BY <1>1, Zenon DEF HangInv
<1>4. ~timeout' /\ ~hung'
  <2>1. ~timeout'
    BY <1>1, <1>3, Zenon
  <2>2. CASE hung' = hung
    BY <1>3, <2>1, <2>2, Zenon
  <2> QED BY <1>2, <2>1, <2>2, Zenon
<1> QED BY <1>4, Zenon DEF HangInv

(* A hung operation keeps its timeout to come through every store but a    *)
(* Reset, and a timeout is shown only for a hang that ran its time.        *)
THEOREM TimeoutCorrect == ASSUME Polite PROVE Spec => []TimeoutIsAHangs
<1>1. Init => HangInv
  BY DEF Init, NoWalk, HangInv
<1>2. HangInv /\ [Next]_vars => HangInv'
  <2> SUFFICES ASSUME HangInv, [Next]_vars PROVE HangInv'
    OBVIOUS
  <2>1. CASE Done
    BY <2>1 DEF Done, Ending, HangInv
  <2>2. CASE \E u \in Online : AttentionComes(u)
    BY <2>2 DEF AttentionComes, HangInv
  <2>3. CASE UNCHANGED vars
    BY <2>3 DEF vars, HangInv
  <2> QED BY <2>1, <2>2, <2>3, StoresKeepHang, StartsKeepHang, WalkKeepsHang DEF Next
<1>3. HangInv => TimeoutIsAHangs
  BY Zenon DEF HangInv, TimeoutIsAHangs
<1> QED BY <1>1, <1>2, <1>3, PTL DEF Spec
=============================================================================

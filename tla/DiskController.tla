--------------------------- MODULE DiskController ---------------------------
(***************************************************************************)
(* The behavioral disk controller (src/disk_controller.rs): its registers, *)
(* the commands a store into START begins, and the walk of the command     *)
(* list that moves blocks between memory and a pack.                       *)
(*                                                                         *)
(* The words move inside the store to START, so nothing else happens while *)
(* a list is walked; each channel command word is a step of its own all    *)
(* the same, because a list need not end.  Of time there is left whether   *)
(* the controller is active (now < done_at) and whether an attention is    *)
(* still to come.                                                          *)
(***************************************************************************)
EXTENDS DiskUnit

CONSTANTS
  Units,      \* unit numbers
  Online,     \* the units a drive is attached at
  ReadOnly,   \* the drives whose switch says read-only
  MemSize,    \* words (pages) of main memory
  ClpWrap,    \* the command list pointer counts within this many words
  Timed,      \* Controller::timed
  Polite,     \* whether software waits for not-active before START
  IoErrors,   \* whether the image file can fail
  Codes,      \* the command codes software stores
  Seeks,      \* the addresses software stores
  Lists,      \* the command list pointers software stores
  Laid,       \* the sectors a Write All may lay down
  Memories,   \* what memory may hold at first
  Pack,       \* what each pack holds at first
  MaxOps      \* bound: register stores

AllCodes == {"Read", "ReadCompare", "Write", "Seek", "AtEase", "Recalibrate",
             "FaultClear", "OffsetClear", "Reset", "Reserved", "ReadAll",
             "WriteAll", "WriteReversed", "WriteAllReversed", "ReadAllReversed"}

(* Codes with CMD<2>: sectors 4 to 7, which do not use the memory channel. *)
CMD2 == {"Seek", "AtEase", "Recalibrate", "FaultClear", "OffsetClear", "Reset",
         "Reserved"}
Transfers == {"Read", "ReadCompare", "Write"}
Tracks    == {"ReadAll", "WriteAll"}

ASSUME DiskAssumption ==
  /\ Online \subseteq Units /\ ReadOnly \subseteq Online
  /\ MemSize \in Nat \ {0} /\ ClpWrap \in Nat \ {0} /\ MaxOps \in Nat
  /\ Timed \in BOOLEAN /\ Polite \in BOOLEAN /\ IoErrors \in BOOLEAN
  /\ Codes \subseteq AllCodes /\ Seeks \subseteq Address /\ Lists \subseteq Nat
  /\ Pages \subseteq Nat
  /\ Laid \subseteq Sector
  /\ Memories \subseteq [0..(MemSize - 1) -> Word]
  /\ Pack \in [Online -> [Lbas -> Sector]]
  /\ "Read" \in Codes

VARIABLES
  cmd,         \* the code in the command register
  clp,         \* the command list pointer
  da,          \* the disk address: its unit and the address on it
  err,         \* the error flops that are up
  timeout,     \* the timeout error, shown once not active
  active,      \* now < done_at
  lma,         \* last_memory_address
  dma_written, \* the pages the last transfer put into memory
  units,       \* the drives
  pack,        \* their packs
  mem,         \* main memory
  walk,        \* the command list being walked
  hung,        \* history: the operation active is one hang() left
  expired,     \* history: a hang ran its 2.5 seconds since timeout was down
  failed,      \* history: the image would not take a block of the last transfer
  ops

vars == <<cmd, clp, da, err, timeout, active, lma, dma_written, units, pack,
          mem, walk, hung, expired, failed, ops>>

Errors == {"header_ecc", "header_compare", "ecc_hard", "ecc_soft",
           "read_compare_difference", "ccw_cycle", "nxm", "overrun"}

Walks  == [on : BOOLEAN, op : Transfers \cup Tracks, n : Nat, moved : Nat,
           first : Nat, pages : Nat]
NoWalk == [on |-> FALSE, op |-> "Read", n |-> 0, moved |-> 0, first |-> 0, pages |-> 0]

DiskAddress == [unit : Units, at : Address]

selected == da.unit
Present  == selected \in Online
Drive    == units[selected]

Init ==
  /\ cmd = "Read" /\ clp = 0
  /\ \E u \in Units : da = [unit |-> u, at |-> Home]
  /\ err = {} /\ timeout = FALSE /\ active = FALSE
  /\ lma = 0 /\ dma_written = {}
  /\ units = [u \in Online |-> Blank]
  /\ pack = Pack
  /\ mem \in Memories
  /\ walk = NoWalk
  /\ hung = FALSE /\ expired = FALSE /\ failed = FALSE /\ ops = 0

-----------------------------------------------------------------------------
(* Stores into the first three registers.                                  *)

Store == ~walk.on /\ ops < MaxOps /\ ops' = ops + 1

(* Controller::reset_errors: a timeout still to come is kept.              *)
ResetErrors_mut == err' = {} /\ timeout' = FALSE /\ UNCHANGED expired
ResetErrors ==
  /\ err' = {}
  /\ timeout' = (timeout /\ active)
  /\ expired' = (expired /\ timeout')

(* Controller::reset: the operation in flight is stopped first.            *)
ResetController ==
  /\ active' = FALSE /\ hung' = FALSE
  /\ err' = {} /\ timeout' = FALSE /\ expired' = FALSE

WriteCmd(code) ==
  /\ Store
  /\ cmd' = code
  /\ \/ code = "Reset" /\ ResetController
     \/ code # "Reset" /\ ResetErrors /\ UNCHANGED <<active, hung>>
  /\ UNCHANGED <<clp, da, lma, dma_written, units, pack, mem, walk, failed>>

WriteClp(a) ==
  /\ Store
  /\ clp' = a
  /\ UNCHANGED <<cmd, da, err, timeout, active, lma, dma_written, units, pack,
                 mem, walk, hung, expired, failed>>

WriteDa(u, p) ==
  /\ Store
  /\ da' = [unit |-> u, at |-> p]
  /\ UNCHANGED <<cmd, clp, err, timeout, active, lma, dma_written, units, pack,
                 mem, walk, hung, expired, failed>>

(* -XBUS INIT: the Reset command, with the command register cleared too.   *)
XbusInit ==
  /\ Store
  /\ cmd' = "Read"
  /\ ResetController
  /\ UNCHANGED <<clp, da, lma, dma_written, units, pack, mem, walk, failed>>

-----------------------------------------------------------------------------
(* START.                                                                  *)

Start(codes) ==
  /\ Store
  /\ Polite => ~active
  /\ cmd \in codes
  /\ UNCHANGED <<cmd, clp>>

(* Controller::done_in: the drive's time, or at once.                      *)
DoneIn(takesTime) == active' = (Timed /\ takesTime) /\ hung' = FALSE

(* Controller::hang: active, until the board's timer stops it.             *)
Hang == timeout' = TRUE /\ active' = TRUE /\ hung' = TRUE

(* Controller::attention_in, from when the heads arrive.                   *)
AttentionIn(takesTime) == IF Timed /\ takesTime THEN "coming" ELSE "up"

NoTransfer == UNCHANGED <<da, lma, dma_written, pack, mem, walk, failed>>

(* A command that uses the memory channel, with no drive on the unit:      *)
(* nothing happens.                                                        *)
StartNoDrive ==
  /\ Start(Codes \ CMD2) /\ ~Present
  /\ UNCHANGED <<err, timeout, active, units, hung, expired>>
  /\ NoTransfer

MayMove == Present /\ ~(cmd \in {"Write", "WriteAll"} /\ selected \in ReadOnly)

(* Read, Read Compare, Write, Read All and Write All: the errors cleared,  *)
(* the heads moved, and the list walked from there; or a seek error.       *)
StartTransfer ==
  /\ Start(Transfers \cup Tracks) /\ MayMove
  /\ err' = {} /\ timeout' = FALSE /\ expired' = FALSE /\ failed' = FALSE
  /\ dma_written' = {}
  /\ units' = [units EXCEPT ![selected] = Seek(@, da.at)]
  /\ IF SeekOk(Drive, da.at)
     THEN /\ walk' = [NoWalk EXCEPT !.on = TRUE, !.op = cmd, !.first = Lba(da.at)]
          /\ UNCHANGED <<active, hung>>
     ELSE DoneIn(TRUE) /\ UNCHANGED walk
  /\ UNCHANGED <<da, lma, pack, mem>>

(* "Writing while the disk is read-only causes a fault."                   *)
StartFault ==
  /\ Start({"Write", "WriteAll"}) /\ selected \in ReadOnly
  /\ units' = [units EXCEPT ![selected].fault = TRUE]
  /\ UNCHANGED <<err, timeout, active, hung, expired>>
  /\ NoTransfer

StartSeek ==
  /\ Start({"Seek"}) /\ Present
  /\ LET moves == Drive.at.c # da.at.c IN
     /\ units' = [units EXCEPT ![selected] =
                    [Seek(@, da.at) EXCEPT !.attention = AttentionIn(moves)]]
     /\ DoneIn(moves)
  /\ UNCHANGED <<err, timeout, expired>>
  /\ NoTransfer

(* At ease, with Recalibrate or Fault Clear or neither.                    *)
StartAtEase ==
  /\ Start({"AtEase", "Recalibrate", "FaultClear"})
  /\ units' =
       IF ~Present THEN units
       ELSE [units EXCEPT ![selected] =
              CASE cmd = "AtEase"      -> [@ EXCEPT !.attention = "none"]
                [] cmd = "FaultClear"  -> [@ EXCEPT !.attention = "none", !.fault = FALSE]
                [] cmd = "Recalibrate" ->
                     [at |-> Home, seek_error |-> FALSE, fault |-> FALSE,
                      attention |-> AttentionIn(Drive.at.c # 0)]]
  /\ UNCHANGED <<err, timeout, active, hung, expired>>
  /\ NoTransfer

(* The commands the sequencer never finishes: a wait on a drive that is    *)
(* not there, a reserved code, Read All with the channel reversed.         *)
StartHang ==
  /\ \/ Start({"Reserved"})
     \/ Start({"Seek", "OffsetClear"}) /\ ~Present
     \/ Start({"ReadAllReversed"}) /\ Present
  /\ Hang
  /\ UNCHANGED <<err, units, expired>>
  /\ NoTransfer

(* The commands that find nothing to do, and the two reversed ones that    *)
(* are only their status.                                                  *)
StartNothing ==
  /\ \/ Start({"Reset"})
     \/ Start({"OffsetClear"}) /\ Present
  /\ UNCHANGED <<err, timeout, active, units, hung, expired>>
  /\ NoTransfer

StartReversed ==
  /\ Start({"WriteReversed", "WriteAllReversed"}) /\ Present
  /\ err' = IF cmd = "WriteAllReversed" THEN err \cup {"overrun"} ELSE err
  /\ DoneIn(TRUE)
  /\ UNCHANGED <<timeout, units, expired>>
  /\ NoTransfer

-----------------------------------------------------------------------------
(* The walk: Controller::command_list and Controller::each_ccw.            *)

(* The word the next CCW is fetched from; the pointer's low bits count and *)
(* do not carry.                                                           *)
CcwAt == (clp - (clp % ClpWrap)) + ((clp + walk.n) % ClpWrap)

(* The CCW itself, and the sector under the heads.                         *)
Ccw   == mem[CcwAt]
Under == pack[selected][Lba(Drive.at)]

Walking(kinds) == walk.on /\ walk.op \in kinds

(* The walk is over: the disk address register is given the drive's own    *)
(* position, and the done is timed.                                        *)
EndWalk_mut(unit) ==
  /\ units' = [units EXCEPT ![selected] = unit]
  /\ UNCHANGED da
  /\ walk' = NoWalk
  /\ DoneIn(TRUE)
EndWalk(unit) ==
  /\ units' = [units EXCEPT ![selected] = unit]
  /\ da' = [da EXCEPT !.at = unit.at]
  /\ walk' = NoWalk
  /\ DoneIn(TRUE)

Stop(why, unit) ==
  /\ err' = err \cup why
  /\ EndWalk(unit)

(* Controller::lay_down_track: the pages a Write All gathered parse as so  *)
(* many sectors or fewer, laid from the addressed block round the track.   *)
(* If the image will not take one, that is the last.                       *)
OnTrack(k) == Lba([Drive.at EXCEPT !.b = (@ + k) % BlocksPerTrack])

LaidDown(sectors) ==
  [a \in Lbas |->
     IF \E k \in DOMAIN sectors : OnTrack(k) = a
     THEN sectors[CHOOSE k \in DOMAIN sectors : OnTrack(k) = a]
     ELSE pack[selected][a]]

LayDown(pages) ==
  \E n \in 0..pages : \E sectors \in [0..(n - 1) -> Laid] :
    \/ pack' = [pack EXCEPT ![selected] = LaidDown(sectors)] /\ UNCHANGED failed
    \/ /\ IoErrors /\ n < pages
       /\ pack' = [pack EXCEPT ![selected] =
                     [LaidDown(sectors) EXCEPT ![OnTrack(n)] = NotWritten(@)]]
       /\ failed' = TRUE

(* No memory answers the fetch of the CCW.                                 *)
NoCcw ==
  /\ walk.on /\ CcwAt >= MemSize
  /\ lma' = CcwAt
  /\ Stop({"nxm", "ccw_cycle"}, Drive)
  /\ IF walk.op = "WriteAll" THEN LayDown(walk.pages) ELSE UNCHANGED <<pack, failed>>
  /\ UNCHANGED <<cmd, clp, timeout, dma_written, mem, expired, ops>>

Fetched(kinds) ==
  /\ Walking(kinds) /\ CcwAt < MemSize
  /\ UNCHANGED <<cmd, clp, timeout, expired, ops>>

(* The header under the heads is not this address's, or does not check.    *)
BadHeader ==
  /\ Fetched(Transfers)
  /\ Under.header # "own"
  /\ lma' = CcwAt
  /\ Stop({IF Under.header = "other" THEN "header_compare" ELSE "header_ecc"}, Drive)
  /\ UNCHANGED <<dma_written, pack, mem, failed>>

(* The image cannot be read.                                               *)
BadImage ==
  /\ Fetched({"Read", "ReadCompare"}) /\ IoErrors
  /\ Under.header = "own"
  /\ lma' = CcwAt
  /\ Stop({}, [Drive EXCEPT !.fault = TRUE])
  /\ UNCHANGED <<dma_written, pack, mem, failed>>

(* The data does not check.                                                *)
BadData ==
  /\ Fetched({"Read", "ReadCompare"})
  /\ Under.header = "own" /\ Under.check # "ok"
  /\ lma' = CcwAt
  /\ Stop({IF Under.check = "soft" THEN "ecc_soft" ELSE "ecc_hard"}, Drive)
  /\ UNCHANGED <<dma_written, pack, mem, failed>>

(* The sector may be moved as far as its header and data checkword go.     *)
Sound_mut == Under.header = "own"
Sound == Under.header = "own" /\ (walk.op = "Write" \/ Under.check = "ok")

(* No memory answers for the page.                                         *)
NoPage ==
  /\ \/ Fetched(Transfers) /\ Sound
     \/ Fetched(Tracks)
  /\ Ccw.page >= MemSize
  /\ lma' = CcwAt
  /\ Stop({"nxm"}, Drive)
  /\ IF walk.op = "WriteAll" THEN LayDown(walk.pages) ELSE UNCHANGED <<pack, failed>>
  /\ UNCHANGED <<dma_written, mem>>

(* The image will not take the block.                                      *)
BadWrite ==
  /\ Fetched({"Write"}) /\ IoErrors
  /\ Sound /\ Ccw.page < MemSize
  /\ lma' = CcwAt
  /\ pack' = [pack EXCEPT ![selected][Lba(Drive.at)] = NotWritten(@)]
  /\ failed' = TRUE
  /\ Stop({}, [Drive EXCEPT !.fault = TRUE])
  /\ UNCHANGED <<dma_written, mem>>

(* The next CCW, if this one has More and there is a next block for it.    *)
Advance(compared) ==
  LET next == NextAddress(Drive.at) IN
  \/ /\ ~Ccw.more
     /\ Stop(compared, Drive)
  \/ /\ Ccw.more /\ ~SeekOk(Drive, next)
     /\ Stop(compared \cup {"header_ecc"}, Seek(Drive, next))
  \/ /\ Ccw.more /\ SeekOk(Drive, next)
     /\ err' = err \cup compared
     /\ units' = [units EXCEPT ![selected] = Seek(@, next)]
     /\ walk' = [walk EXCEPT !.n = (@ + 1) % ClpWrap, !.moved = @ + 1]
     /\ UNCHANGED <<da, active, hung>>

NotePage(page) == dma_written' = dma_written \cup {page}

(* A block moves.                                                          *)
ReadBlock ==
  /\ Fetched({"Read"}) /\ Sound /\ Ccw.page < MemSize
  /\ lma' = Ccw.page
  /\ mem' = [mem EXCEPT ![Ccw.page] = Under.data]
  /\ NotePage(Ccw.page)
  /\ Advance({})
  /\ UNCHANGED <<pack, failed>>

CompareBlock ==
  /\ Fetched({"ReadCompare"}) /\ Sound /\ Ccw.page < MemSize
  /\ lma' = Ccw.page
  /\ Advance(IF mem[Ccw.page] # Under.data THEN {"read_compare_difference"} ELSE {})
  /\ UNCHANGED <<dma_written, pack, mem, failed>>

WriteBlock ==
  /\ Fetched({"Write"}) /\ Sound /\ Ccw.page < MemSize
  /\ lma' = Ccw.page
  /\ pack' = [pack EXCEPT ![selected][Lba(Drive.at)] = Written(@, mem[Ccw.page])]
  /\ Advance({})
  /\ UNCHANGED <<dma_written, mem, failed>>

(* A page of a Read All or a Write All: the track is one stream and the    *)
(* heads stay.  More pages than a track's sectors lay down no more.        *)
OneMore(pages) == IF pages < BlocksPerTrack THEN pages + 1 ELSE pages

TrackPage ==
  /\ Fetched(Tracks) /\ Ccw.page < MemSize
  /\ lma' = Ccw.page
  /\ IF walk.op = "ReadAll"
     THEN /\ \E w \in Word : mem' = [mem EXCEPT ![Ccw.page] = w]
          /\ NotePage(Ccw.page)
     ELSE UNCHANGED <<mem, dma_written>>
  /\ \/ /\ ~Ccw.more
        /\ Stop({}, Drive)
        /\ IF walk.op = "WriteAll" THEN LayDown(OneMore(walk.pages)) ELSE UNCHANGED <<pack, failed>>
     \/ /\ Ccw.more
        /\ walk' = [walk EXCEPT !.n = (@ + 1) % ClpWrap,
                      !.pages = OneMore(@)]
        /\ UNCHANGED <<da, err, active, units, pack, hung, failed>>

-----------------------------------------------------------------------------
(* Time.                                                                   *)

(* The done comes, or the timer stops what hung.                           *)
Ending_mut == active /\ ~walk.on /\ ~hung
Ending == active /\ ~walk.on

Done ==
  /\ Ending
  /\ active' = FALSE
  /\ expired' = (expired \/ hung)
  /\ hung' = FALSE
  /\ UNCHANGED <<cmd, clp, da, err, timeout, lma, dma_written, units, pack, mem,
                 walk, failed, ops>>

AttentionComes(u) ==
  /\ ~walk.on /\ units[u].attention = "coming"
  /\ units' = [units EXCEPT ![u].attention = "up"]
  /\ UNCHANGED <<cmd, clp, da, err, timeout, active, lma, dma_written, pack, mem,
                 walk, hung, expired, failed, ops>>

-----------------------------------------------------------------------------
CommandStore == \E code \in Codes : WriteCmd(code)

Starts ==
  \/ StartNoDrive \/ StartTransfer \/ StartFault \/ StartSeek \/ StartAtEase
  \/ StartHang \/ StartNothing \/ StartReversed

Walk ==
  \/ NoCcw \/ BadHeader \/ BadImage \/ BadData \/ NoPage \/ BadWrite
  \/ ReadBlock \/ CompareBlock \/ WriteBlock \/ TrackPage

Next ==
  \/ CommandStore
  \/ \E a \in Lists : WriteClp(a)
  \/ \E u \in Units, p \in Seeks : WriteDa(u, p)
  \/ XbusInit
  \/ Starts
  \/ Walk
  \/ Done
  \/ \E u \in Online : AttentionComes(u)

Spec == Init /\ [][Next]_vars

(* The walk is one call that runs until it returns; the machine's clock    *)
(* goes on.                                                                *)
FairSpec == Spec /\ WF_vars(Walk) /\ WF_vars(Done)
-----------------------------------------------------------------------------
(* Properties.                                                             *)

RegistersOK ==
  /\ cmd \in Codes /\ clp \in Nat /\ da \in DiskAddress
  /\ err \subseteq Errors /\ timeout \in BOOLEAN /\ active \in BOOLEAN
  /\ lma \in Nat /\ dma_written \subseteq 0..(MemSize - 1)

StoreOK ==
  /\ units \in [Online -> Unit]
  /\ pack \in [Online -> [Lbas -> Sector]]
  /\ mem \in [0..(MemSize - 1) -> Word]

WalkOK ==
  /\ walk \in Walks /\ walk.n < ClpWrap /\ walk.pages <= BlocksPerTrack
  /\ hung \in BOOLEAN /\ expired \in BOOLEAN /\ failed \in BOOLEAN /\ ops \in Nat

(* The type of every variable.  In particular the heads of a drive are     *)
(* always over a block of its pack, whatever address is sought.            *)
TypeOK == RegistersOK /\ StoreOK /\ WalkOK

(* A walk is on a drive that is there, over the block that is as many      *)
(* blocks past the first as have moved: Unit::next_block counts through    *)
(* tracks and cylinders in the order of Unit::lba_of.                      *)
WalkInStep ==
  walk.on => /\ Present
             /\ Lba(Drive.at) = walk.first + walk.moved
             /\ walk.op \in Tracks => walk.moved = 0

(* What a transfer leaves in the disk address register: the last block     *)
(* transferred, or the one being transferred when an error stopped it.     *)
DaNamesTheBlock ==
  [][ walk.on /\ ~walk'.on => /\ da'.unit = da.unit
                             /\ Lba(da'.at) = walk.first + walk.moved ]_vars

(* A hung operation has its timeout to come, through every store into the  *)
(* command register but Reset; and a timeout is shown, to software that    *)
(* waits for not-active, only for a hang that ran its time.                *)
TimeoutIsAHangs ==
  /\ hung => active /\ timeout
  /\ timeout /\ ~active => expired

(* The pages dma_written names are all that a transfer changed: the        *)
(* netlist memory boards are given those pages and no others.              *)
DmaWrittenCovers ==
  [][ \A a \in DOMAIN mem : mem'[a] # mem[a] => a \in dma_written' ]_vars

(* A sector whose header is not its address's own, or whose data does not  *)
(* check, is not read into memory; one with a wrong header is not written. *)
UnsoundStaysPut ==
  [][ walk.on /\ walk.op \in Transfers =>
        /\ mem' # mem => Under.header = "own" /\ Under.check = "ok"
        /\ pack' # pack => Under.header = "own" /\ walk.op = "Write" ]_vars

(* What a transfer may touch: both of the above.                           *)
TransferSafe == DmaWrittenCovers /\ UnsoundStaysPut

(* A read-only pack is never written.                                      *)
ReadOnlyKept == \A u \in ReadOnly : pack[u] = Pack[u]

(* Every operation but Read All and Write All ends: the walk returns, at   *)
(* the latest at the end of the pack, and the controller is seen not       *)
(* active again, a hung one by its timer.                                  *)
TransferEnds ==
  ((walk.on /\ walk.op \in Transfers) \/ (active /\ ~walk.on))
    ~> (~walk.on /\ ~active)

(* The inductive strengthening: a walk that writes is on a drive that may  *)
(* be written.                                                             *)
WriterMay ==
  walk.on /\ walk.op \in {"Write", "WriteAll"} => selected \notin ReadOnly
Inv == TypeOK /\ WalkInStep /\ WriterMay /\ ReadOnlyKept

-----------------------------------------------------------------------------
(* What the repository's text says and the code does not do.               *)

(* Controller: "Indicates that a disk operation took longer than 2.5       *)
(* seconds. This error stops the transfer."  So every operation ends.      *)
OperationEnds == (walk.on \/ active) ~> (~walk.on /\ ~active)

(* Unit::write_block_at: "a block the image would not take, which is a     *)
(* drive fault".                                                           *)
FailedWriteFaults == [][ ~failed /\ failed' => units'[selected].fault ]_vars
=============================================================================

-------------------------------- MODULE Quux --------------------------------
(***************************************************************************)
(* What QUUX puts in the place of the CADR's bus interface, disk and cable *)
(* drivers: the memory port and cache, the block-disk on its file, the     *)
(* FPGA window of the debug cable, and the commands of the file device.    *)
(* They share no state, so a behavior in which one of them moves while the *)
(* others stand still shows everything one of them can do: focus says      *)
(* which it is.                                                            *)
(***************************************************************************)
EXTENDS MemoryPort, BlockDisk, Fabric, FileStore

VARIABLE focus

quuxVars == <<focus, portVars, blockDiskVars, fabricVars, storeVars>>

Init ==
    /\ focus \in {"port", "disk", "fabric", "files"}
    /\ PortInit /\ BlockDiskInit /\ FabricInit /\ StoreInit
    /\ focus # "files" => flag /\ default = CHOOSE d \in Defaults : TRUE

Next ==
    /\ UNCHANGED focus
    /\ \/ focus = "port" /\ PortNext /\ UNCHANGED <<blockDiskVars, fabricVars, storeVars>>
       \/ focus = "disk" /\ BlockDiskNext /\ UNCHANGED <<portVars, fabricVars, storeVars>>
       \/ focus = "fabric" /\ FabricNext /\ UNCHANGED <<portVars, blockDiskVars, storeVars>>
       \/ focus = "files" /\ StoreNext /\ UNCHANGED <<portVars, blockDiskVars, fabricVars>>

Spec == Init /\ [][Next]_quuxVars

-----------------------------------------------------------------------------

\* The port and the cache: a fused return takes memory's word, the write
\* buffer holds one word and a set of the cache the lines last read.
PortKept == PortTypeOK /\ FusedIsMemorys /\ OneWriteBehind /\ CacheIsRecent

\* The block-disk: a block reads back whatever was cut before it, the blocks
\* of the file lie apart, and a transfer moves whole pages and is busy for
\* what it moved.
DiskKept == ReadsBack /\ BlocksApart /\ BusyForWhatMoved /\ PageWhole

\* The window: an answer is the request's own, and there is one at a time.
WindowKept == AnswerIsMine /\ OneAtTheWindow

\* The host's folders: the temporary files are the open writes', a write has
\* no hole, a read-only mount is kept.
StoreKept == StoreTypeOK /\ TempsAreOpenWrites /\ HeldIsThere /\ ReadOnlyKept
=============================================================================

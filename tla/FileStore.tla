------------------------------- MODULE FileStore -------------------------------
(* What the file device's commands do to the host's folders (src/file_device.rs *)
(* from `command` down): the handles, the temporary file of a write, and the    *)
(* host calls each command makes, between any two of which a program of the     *)
(* host may change the same folders.  A path is its mount and the components    *)
(* below; a file is who made it, and its length is kept only while it is        *)
(* written.  A command refused at its looks changes nothing and is no step.     *)
(* READ, probe, DIRECTORY, COMPLETE and LOG change nothing here.  Symbolic      *)
(* links, spelling, and what is neither file nor folder are left out; the host  *)
(* leaves read-only mounts alone and does not move folders.                     *)
EXTENDS Integers, Sequences, FiniteSets, SequencesExt

CONSTANTS
  Paths,        \* what can be below the mounts' folders
  Named,        \* --file-root <name>=<folder>: mounts by name
  Defaults,     \* what / may be: a mount, or Bare
  ReadOnly,     \* the mounts that are read-only, Bare among them
  Names,        \* names the machine asks for, as components
  MaxHandles,   \* 64
  MaxLen,       \* 2^32 - 1, the longest file
  TempIds,      \* bound: temporary files there at once
  MovesOpen     \* whether the machine renames a folder it has a write open in

Components == UNION {Range(p) : p \in Paths}

\* Where the name n is while the mount d is /.
PlaceIn(d, n) == IF n # <<>> /\ Head(n) \in Named THEN n ELSE <<d>> \o n

ASSUME StoreAssumption ==
  /\ \A p \in Paths : p \in Seq(Components) /\ Len(p) > 1
  /\ \A p \in Paths : \A k \in 2 .. Len(p) : SubSeq(p, 1, k) \in Paths
  /\ \A d \in Defaults, n \in Names :
       LET p == PlaceIn(d, n) IN Len(p) > 1 /\ p[1] \notin ReadOnly => p \in Paths
  /\ MaxHandles \in Nat \ {0} /\ MaxLen \in Nat /\ 0 \notin TempIds /\ MovesOpen \in BOOLEAN

VARIABLES
  default,      \* the mount that is /
  flag,         \* the host's file system has RENAME_NOREPLACE
  tree,         \* what is at each path
  temps,        \* the .quux-write- files there
  handles,
  busy          \* the command under way, and where it is in it

storeVars == <<default, flag, tree, temps, handles, busy>>

Handles == 1 .. MaxHandles
Nodes == {"none", "folder", "host", "quux"}

\* A name, or a temporary file in a folder: what a rename moves.
Name(p) == [id |-> 0, at |-> p]
Temp(id, dir) == [id |-> id, at |-> dir]

Free == [k |-> "free"]
Reading == [k |-> "read"]
Writing(t, to, nr, n) ==
  [k |-> "write", temp |-> t, target |-> to, noreplace |-> nr, held |-> n, len |-> n]
NoCommand == [op |-> "idle"]

\* What a read-only mount has at p: a file where nothing is below.
Kept(p) == IF \E q \in Paths : IsStrictPrefix(p, q) THEN "folder" ELSE "host"

StoreInit ==
  /\ default \in Defaults /\ flag \in BOOLEAN
  /\ tree = [p \in Paths |-> IF p[1] \in ReadOnly THEN Kept(p)
                             ELSE IF Len(p) = 2 THEN "folder" ELSE "none"]
  /\ temps = {} /\ handles = [h \in Handles |-> Free] /\ busy = NoCommand

--------------------------------------------------------------------------------
(* The host's folders and its calls.                                            *)
At(p) == IF p \in Paths THEN tree[p] ELSE "none"
IsDir(p) == Len(p) = 1 \/ At(p) = "folder"
IsFile(p) == At(p) \in {"host", "quux"}
Empty(d) == /\ \A p \in Paths : Front(p) = d => At(p) = "none"
            /\ \A t \in temps : t.at # d

There(f) == IF f.id = 0 THEN At(f.at) # "none" ELSE f \in temps
Folder(f) == f.id = 0 /\ IsDir(f.at)

\* rename: what it takes, and what it leaves.  What is in a folder goes with it.
CanRename(f, to) ==
  /\ There(f) /\ IsDir(Front(to)) /\ ~(Folder(f) /\ IsPrefix(f.at, to))
  /\ \/ At(to) = "none"
     \/ ~Folder(f) /\ IsFile(to)
     \/ Folder(f) /\ IsDir(to) /\ Empty(to)
Below(d, p) == SubSeq(p, Len(d) + 1, Len(p))
Rename(f, to) ==
  /\ tree' = [p \in Paths |->
       IF f.id # 0 /\ p = to THEN "quux"
       ELSE IF f.id = 0 /\ IsPrefix(to, p) THEN At(f.at \o Below(to, p))
       ELSE IF f.id = 0 /\ IsPrefix(f.at, p) THEN "none" ELSE tree[p]]
  /\ temps' = IF f.id # 0 THEN temps \ {f}
              ELSE {IF t.at = f.at THEN Temp(t.id, to) ELSE t : t \in temps}

--------------------------------------------------------------------------------
(* The machine's commands: the looks, then what is done.                        *)
place(n) == PlaceIn(default, n)

handle(h, k) == handles[h].k = k
FreeHandles == {h \in Handles : handle(h, "free")}
free_handle == CHOOSE h \in FreeHandles : \A g \in FreeHandles : h <= g

\* The command is done, or refused with nothing done.
Answer == busy' = NoCommand
Refuse == Answer /\ UNCHANGED <<default, flag, tree, temps, handles>>
Goto(b) == busy' = b /\ UNCHANGED <<default, flag, tree, temps, handles>>

\* What every command that writes refuses, with the lookup of the folders on the way.
MayWrite(p) == p[1] \notin ReadOnly /\ Len(p) > 1 /\ IsDir(Front(p))

OpenRead(n) ==
  LET p == place(n) IN
  /\ busy = NoCommand /\ IsFile(p) /\ FreeHandles # {}
  /\ handles' = [handles EXCEPT ![free_handle] = Reading]
  /\ UNCHANGED <<default, flag, tree, temps, busy>>

\* OPEN write's look: 0 supersede, 1 error, 2 append.
OpenWrite(n, if_exists, if_none_error) ==
  LET p == place(n) IN
  /\ busy = NoCommand
  /\ MayWrite(p) /\ ~IsDir(p) /\ ~(IsFile(p) /\ if_exists = 1) /\ ~(At(p) = "none" /\ if_none_error)
  /\ FreeHandles # {}
  /\ Goto([op |-> "make", at |-> p, noreplace |-> if_exists = 1,
           copy |-> if_exists = 2 /\ IsFile(p)])

\* create_new of the temporary file, under a name not used before.
MakeTemp(k) ==
  LET used == {t.id : t \in temps} \cup
              {handles[h].temp.id : h \in {g \in Handles : handle(g, "write")}}
      t == Temp(k, Front(busy.at))
  IN  /\ busy.op = "make" /\ k \notin used
      /\ IF ~IsDir(Front(busy.at)) THEN Refuse
         ELSE /\ temps' = temps \cup {t}
              /\ IF busy.copy
                 THEN /\ busy' = [op |-> "copy", at |-> busy.at, noreplace |-> busy.noreplace, temp |-> t]
                      /\ UNCHANGED handles
                 ELSE /\ handles' = [handles EXCEPT ![free_handle] =
                                       Writing(t, busy.at, busy.noreplace, 0)]
                      /\ Answer
              /\ UNCHANGED <<default, flag, tree>>

\* Append copies the file, if it is still there and the host does not fail.
Copy(n) ==
  /\ busy.op = "copy" /\ IsFile(busy.at)
  /\ handles' = [handles EXCEPT ![free_handle] = Writing(busy.temp, busy.at, busy.noreplace, n)]
  /\ Answer /\ UNCHANGED <<default, flag, tree, temps>>
CopyFails_mut ==
  busy.op = "copy" /\ Answer /\ UNCHANGED <<default, flag, tree, temps, handles>>
CopyFails ==
  /\ busy.op = "copy" /\ temps' = temps \ {busy.temp}
  /\ Answer /\ UNCHANGED <<default, flag, tree, handles>>

\* WRITE of n bytes; write_all_at may fail with some of them written.
Larger(a, b) == IF a > b THEN a ELSE b
Write(h, offset, n) ==
  LET w == handles[h] IN
  /\ busy = NoCommand /\ handle(h, "write") /\ offset <= w.held /\ offset + n <= MaxLen
  /\ handles' = [handles EXCEPT ![h].len = Larger(@, offset + n), ![h].held = Larger(@, offset + n)]
  /\ UNCHANGED <<default, flag, tree, temps, busy>>
WriteFails(h, offset, n, some) ==
  LET w == handles[h] IN
  /\ busy = NoCommand /\ handle(h, "write") /\ offset <= w.held /\ offset + n <= MaxLen
  /\ some \in 1 .. n - 1 /\ handles' = [handles EXCEPT ![h].len = Larger(@, offset + some)]
  /\ UNCHANGED <<default, flag, tree, temps, busy>>

Discard(h) == handles' = [handles EXCEPT ![h] = Free]

\* CLOSE: of a read; of a write given up, or whose date the host would not set.
CloseRead(h) ==
  busy = NoCommand /\ handle(h, "read") /\ Discard(h) /\ UNCHANGED <<default, flag, tree, temps, busy>>
CloseAbort(h) ==
  /\ busy = NoCommand /\ handle(h, "write") /\ Discard(h)
  /\ temps' = temps \ {handles[h].temp} /\ UNCHANGED <<default, flag, tree, busy>>
\* CLOSE that lands: fs::rename, or rename_noreplace.
CloseLand(h) ==
  LET w == handles[h] IN
  /\ busy = NoCommand /\ handle(h, "write") /\ Discard(h)
  /\ busy' = [op |-> IF w.noreplace THEN "noreplace" ELSE "rename", from |-> w.temp, to |-> w.target]
  /\ UNCHANGED <<default, flag, tree, temps>>

\* A temporary file that could not be landed is removed.
Fail ==
  /\ temps' = temps \ (IF busy.from.id = 0 THEN {} ELSE {busy.from})
  /\ Answer /\ UNCHANGED <<default, flag, tree, handles>>
HostRename ==
  /\ busy.op = "rename"
  /\ IF CanRename(busy.from, busy.to)
     THEN Rename(busy.from, busy.to) /\ Answer /\ UNCHANGED <<default, flag, handles>>
     ELSE Fail
RenameNoreplace_mut ==
  /\ busy.op = "noreplace"
  /\ IF ~CanRename(busy.from, busy.to) THEN Fail
     ELSE Rename(busy.from, busy.to) /\ Answer /\ UNCHANGED <<default, flag, handles>>
\* rename_noreplace: in one call, or a look and then a rename.
RenameNoreplace ==
  /\ busy.op = "noreplace"
  /\ IF At(busy.to) # "none" THEN Fail
     ELSE IF ~flag THEN Goto([op |-> "rename", from |-> busy.from, to |-> busy.to])
     ELSE IF ~CanRename(busy.from, busy.to) THEN Fail
     ELSE Rename(busy.from, busy.to) /\ Answer /\ UNCHANGED <<default, flag, handles>>

\* RENAME, of the same depth (a bound): both names looked up, one after the other.
OpenBelow(p) == \E h \in Handles : handle(h, "write") /\ IsStrictPrefix(p, handles[h].target)
RenameFrom(n, m) ==
  LET p == place(n) q == place(m) IN
  /\ busy = NoCommand /\ Len(p) = Len(q) /\ p[1] = q[1]
  /\ MayWrite(p) /\ q[1] \notin ReadOnly /\ Len(q) > 1 /\ At(p) # "none"
  /\ ~MovesOpen => ~OpenBelow(p)
  /\ Goto([op |-> "target", from |-> Name(p), to |-> q])
RenameTo ==
  /\ busy.op = "target"
  /\ IF MayWrite(busy.to) /\ At(busy.to) = "none"
     THEN Goto([op |-> "noreplace", from |-> busy.from, to |-> busy.to]) ELSE Refuse

\* DELETE: remove_dir or remove_file, as the look said.
Delete(n) ==
  LET p == place(n) IN
  /\ busy = NoCommand /\ MayWrite(p) /\ At(p) # "none"
  /\ Goto([op |-> "delete", at |-> p, folder |-> IsDir(p)])
RemoveName ==
  /\ busy.op = "delete"
  /\ IF IF busy.folder THEN IsDir(busy.at) /\ Empty(busy.at) ELSE IsFile(busy.at)
     THEN /\ tree' = [tree EXCEPT ![busy.at] = "none"]
          /\ Answer /\ UNCHANGED <<default, flag, temps, handles>>
     ELSE Refuse

\* CREATE-DIRECTORY.  The bound: folders one below a mount.
CreateDirectory(n) ==
  LET p == place(n) IN
  /\ busy = NoCommand /\ MayWrite(p) /\ At(p) = "none" /\ Len(p) = 2
  /\ Goto([op |-> "create", at |-> p])
CreateDir ==
  /\ busy.op = "create"
  /\ IF IsDir(Front(busy.at)) /\ At(busy.at) = "none"
     THEN /\ tree' = [tree EXCEPT ![busy.at] = "folder"]
          /\ Answer /\ UNCHANGED <<default, flag, temps, handles>>
     ELSE Refuse

\* disable, and the end of the run (Temp's drop): every write is discarded.
Disable ==
  /\ busy = NoCommand /\ handles' = [h \in Handles |-> Free]
  /\ temps' = temps \ {handles[h].temp : h \in {g \in Handles : handle(g, "write")}}
  /\ UNCHANGED <<default, flag, tree, busy>>

\* A program of the host makes or removes a file or a folder.
Host(p) ==
  /\ p[1] \notin ReadOnly
  /\ \/ At(p) = "none" /\ IsDir(Front(p)) /\ tree' = [tree EXCEPT ![p] = "host"]
     \/ At(p) = "none" /\ Len(p) = 2 /\ tree' = [tree EXCEPT ![p] = "folder"]
     \/ (IsFile(p) \/ (IsDir(p) /\ Empty(p))) /\ tree' = [tree EXCEPT ![p] = "none"]
  /\ UNCHANGED <<default, flag, temps, handles, busy>>

Command ==
  \/ \E n \in Names : OpenRead(n) \/ Delete(n) \/ CreateDirectory(n)
  \/ \E n \in Names, e \in 0 .. 2, z \in BOOLEAN : OpenWrite(n, e, z)
  \/ \E n \in Names, m \in Names : RenameFrom(n, m)
  \/ \E k \in TempIds : MakeTemp(k)
  \/ CopyFails \/ HostRename \/ RenameNoreplace \/ RenameTo \/ RemoveName \/ CreateDir \/ Disable
  \/ \E n \in 0 .. MaxLen : Copy(n)
  \/ \E h \in Handles : CloseRead(h) \/ CloseAbort(h) \/ CloseLand(h)
  \/ \E h \in Handles, o \in 0 .. MaxLen, n \in 0 .. MaxLen :
       Write(h, o, n) \/ \E k \in 0 .. n : WriteFails(h, o, n, k)

StoreNext == Command \/ \E p \in Paths : Host(p)

--------------------------------------------------------------------------------
Temps == {Temp(k, d) : k \in TempIds, d \in {Front(p) : p \in Paths}}

\* The type invariant: a file is in a folder.
StoreTypeOK ==
  /\ default \in Defaults /\ flag \in BOOLEAN /\ tree \in [Paths -> Nodes] /\ temps \subseteq Temps
  /\ \A p \in Paths : At(p) # "none" => IsDir(Front(p))
  /\ \A t \in temps : IsDir(t.at)
  /\ \A h \in Handles : handle(h, "write") =>
       handles[h].temp \in Temps /\ handles[h].target \in Paths /\ handles[h].len \in 0 .. MaxLen

InHand == {handles[h].temp : h \in {g \in Handles : handle(g, "write")}}
          \cup (IF busy.op = "copy" THEN {busy.temp} ELSE {})
          \cup (IF busy.op \in {"noreplace", "rename"} /\ busy.from.id # 0 THEN {busy.from} ELSE {})

\* Every temporary file there is a write's that is open or landing, and every
\* such write's is there: none outlives a CLOSE, a failed OPEN or a disable, and
\* none is lost under a write.
TempsAreOpenWrites == temps = InHand

\* struct Temp's "a run that ends with a write open leaves nothing behind", and
\* docs/quux.md's of a disable: with no write open no temporary file is there.
NothingLeft ==
  busy = NoCommand /\ (\A h \in Handles : ~handle(h, "write")) => temps = {}

\* A write never has a hole: what it counts as held has been written.
HeldIsThere == \A h \in Handles : handle(h, "write") => handles[h].held <= handles[h].len

\* docs/quux.md's "RENAME never overwrites", nor does a CLOSE of an OPEN with if-exists error,
\* whatever appears under the name between the look and the rename.
NeverOverwrites ==
  [][flag /\ busy.op = "noreplace" /\ busy' = NoCommand =>
       \A p \in Paths : At(p) # "none" => At(p)' \in {"none", At(p)}]_storeVars

\* A read-only mount keeps what it holds, and gets no temporary one, by any command.
ReadOnlyKept ==
  /\ \A p \in Paths : p[1] \in ReadOnly => At(p) = Kept(p)
  /\ \A t \in temps : t.at[1] \notin ReadOnly
================================================================================

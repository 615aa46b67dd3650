------------------------------- MODULE FileRings -------------------------------
(* The rings of QUUX's file device (src/file_device.rs): the registers, the two *)
(* rings in main memory, the indexes that run free and wrap, and the command    *)
(* taken at the head.  What a command does to the host's files is FileStore's.  *)
(* The driver writes any index at any time; it keeps the two rings apart, and   *)
(* it does not write over a command it has posted.                              *)
EXTENDS Integers, FiniteSets

CONSTANTS
  IndexSize,    \* values of an index, 2^16
  Sizes,        \* values of a size register, 0 .. 15
  MaxLog2,      \* the largest that is accepted, 8
  Entries,      \* Entries[k], the entries of a ring of size k: RingEntries
  MainWords,    \* words of main memory
  EntryWords,   \* words of an entry, 8
  Line,         \* words of a line, 4 or 8
  Bases,        \* the addresses the driver tries
  Tags          \* <15:0> of a command's word 0, and of its answer's

Index == 0 .. IndexSize - 1

ASSUME IndexAssumption == IndexSize \in Nat \ {0}
ASSUME SizeAssumption == Sizes \subseteq Nat /\ 0 \in Sizes /\ MaxLog2 \in Nat
ASSUME EntriesAssumption ==
  /\ Entries \in [Sizes -> Nat \ {0}]
  /\ \A k \in Sizes : k <= MaxLog2 => Entries[k] < IndexSize /\ IndexSize % Entries[k] = 0
ASSUME MemoryAssumption ==
  /\ MainWords \in Nat /\ EntryWords \in Nat \ {0} /\ Line \in Nat \ {0}
  /\ Bases \subseteq Nat /\ 0 \in Bases /\ Tags # {}

VARIABLES
  enabled, interrupt_enable,     \* 160
  refused, index_fault,          \* 161 <2> and <3>
  cmd_base, cmd_log2,            \* 162, 163
  resp_base, resp_log2,          \* 166, 167
  cmd_prod, cmd_cons, resp_cons, \* 164, 165 (and 170), 171
  head,                          \* head_due is Some: the head is taken
  main                           \* word 0 of the entry that begins at an address

registers == <<enabled, interrupt_enable, refused, index_fault>>
rings == <<cmd_base, cmd_log2, resp_base, resp_log2>>
indexes == <<cmd_prod, cmd_cons, resp_cons>>
vars == <<registers, rings, indexes, head, main>>

\* What a size register's value stands for, which is what Entries is given.
RingEntries == [k \in Sizes |-> 2 ^ k]

cmd_entries == Entries[cmd_log2]
resp_entries == Entries[resp_log2]

\* wrapping_sub and wrapping_add of 16 bits.
Minus(a, b) == IF a >= b THEN a - b ELSE a - b + IndexSize
Plus(a, n) == IF a + n < IndexSize THEN a + n ELSE a + n - IndexSize

queued == Minus(cmd_prod, cmd_cons)          \* posted and not answered
responses == Minus(cmd_cons, resp_cons)      \* answered and not consumed

CmdSlot(k) == cmd_base + EntryWords * (k % cmd_entries)
RespSlot_mut(k) == resp_base + EntryWords * (k % cmd_entries)
RespSlot(k) == resp_base + EntryWords * (k % resp_entries)

Fits(base, log2) ==
  base % Line = 0 /\ log2 <= MaxLog2 /\ base + EntryWords * Entries[log2] <= MainWords

\* The driver's part: neither ring holds a word of the other.
Apart ==
  \/ cmd_base + EntryWords * cmd_entries <= resp_base
  \/ resp_base + EntryWords * resp_entries <= cmd_base

Init ==
  /\ enabled = FALSE /\ interrupt_enable = FALSE /\ refused = FALSE /\ index_fault = FALSE
  /\ cmd_base = 0 /\ cmd_log2 = 0 /\ resp_base = 0 /\ resp_log2 = 0
  /\ cmd_prod = 0 /\ cmd_cons = 0 /\ resp_cons = 0 /\ head = FALSE
  /\ main \in [0 .. MainWords - 1 -> Tags]

--------------------------------------------------------------------------------
\* What `take` asks of the indexes: a command waits and the response ring has
\* room for its answer.
Takes(prod, cons, taken) == Minus(prod, cons) # 0 /\ Minus(cons, taken) < resp_entries
CanTake == enabled /\ Takes(cmd_prod, cmd_cons, resp_cons)

Zeroed == cmd_prod' = 0 /\ cmd_cons' = 0 /\ resp_cons' = 0

\* disable: the reset of everything but the rings' places.
Disable == enabled' = FALSE /\ interrupt_enable' = FALSE /\ Zeroed /\ head' = FALSE

\* A store into 160.
Enable(ie) ==
  /\ ~enabled /\ index_fault' = FALSE
  /\ IF Fits(cmd_base, cmd_log2) /\ Fits(resp_base, resp_log2)
     THEN /\ Apart
          /\ enabled' = TRUE /\ interrupt_enable' = ie /\ refused' = FALSE /\ Zeroed
     ELSE refused' = TRUE /\ UNCHANGED <<enabled, interrupt_enable, indexes>>
  /\ UNCHANGED <<rings, head, main>>
SetInterrupt(ie) ==
  /\ enabled /\ interrupt_enable' = ie /\ refused' = FALSE /\ index_fault' = FALSE
  /\ UNCHANGED <<enabled, rings, indexes, head, main>>
SwitchOff ==
  /\ refused' = FALSE /\ index_fault' = FALSE
  /\ IF enabled THEN Disable ELSE UNCHANGED <<enabled, interrupt_enable, indexes, head>>
  /\ UNCHANGED <<rings, main>>

\* -XBUS INIT.
Reset == Disable /\ refused' = FALSE /\ index_fault' = FALSE /\ UNCHANGED <<rings, main>>

\* Stores into 162, 163, 166 and 167, which an enabled device does not take.
WriteRing ==
  /\ ~enabled
  /\ \/ cmd_base' \in Bases /\ UNCHANGED <<cmd_log2, resp_base, resp_log2>>
     \/ cmd_log2' \in Sizes /\ UNCHANGED <<cmd_base, resp_base, resp_log2>>
     \/ resp_base' \in Bases /\ UNCHANGED <<cmd_base, cmd_log2, resp_log2>>
     \/ resp_log2' \in Sizes /\ UNCHANGED <<cmd_base, cmd_log2, resp_base>>
  /\ UNCHANGED <<registers, indexes, head, main>>

IndexFault == index_fault' = TRUE /\ UNCHANGED <<indexes, head>>

\* A store of v into 164.
WriteCmdProd(v) ==
  LET claimed == Minus(v, cmd_cons)
  IN  /\ enabled
      /\ \/ /\ claimed > cmd_entries \/ claimed < queued
            /\ IndexFault
         \/ /\ claimed <= cmd_entries /\ claimed >= queued
            /\ cmd_prod' = v /\ head' = (head \/ Takes(v, cmd_cons, resp_cons))
            /\ UNCHANGED <<index_fault, cmd_cons, resp_cons>>
      /\ UNCHANGED <<enabled, interrupt_enable, refused, rings, main>>

WriteRespCons_mut(v) ==
  /\ enabled /\ Minus(v, resp_cons) <= responses /\ resp_cons' = v
  /\ UNCHANGED <<registers, rings, cmd_prod, cmd_cons, head, main>>
\* A store of v into 171.
WriteRespCons(v) ==
  /\ enabled
  /\ \/ /\ Minus(v, resp_cons) > responses
        /\ IndexFault
     \/ /\ Minus(v, resp_cons) <= responses
        /\ resp_cons' = v /\ head' = (head \/ Takes(cmd_prod, cmd_cons, v))
        /\ UNCHANGED <<index_fault, cmd_prod, cmd_cons>>
  /\ UNCHANGED <<enabled, interrupt_enable, refused, rings, main>>

Complete_mut ==
  /\ head
  /\ main' = [main EXCEPT ![RespSlot(cmd_cons)] = main[CmdSlot(cmd_cons)]]
  /\ cmd_cons' = Plus(cmd_cons, 1) /\ head' = FALSE
  /\ UNCHANGED <<registers, rings, cmd_prod, resp_cons>>
\* advance, for one command due: execute, and the next one taken.
Complete ==
  /\ head
  /\ main' = [main EXCEPT ![RespSlot(cmd_cons)] = main[CmdSlot(cmd_cons)]]
  /\ cmd_cons' = Plus(cmd_cons, 1)
  /\ head' = Takes(cmd_prod, Plus(cmd_cons, 1), resp_cons)
  /\ UNCHANGED <<registers, rings, cmd_prod, resp_cons>>

\* The driver writes a command into a slot of the ring that holds none posted.
Fill(k, t) ==
  /\ enabled /\ Minus(k, cmd_cons) \in queued .. cmd_entries - 1
  /\ main' = [main EXCEPT ![CmdSlot(k)] = t]
  /\ UNCHANGED <<registers, rings, indexes, head>>

Next ==
  \/ \E ie \in BOOLEAN : Enable(ie) \/ SetInterrupt(ie)
  \/ SwitchOff \/ Reset \/ WriteRing \/ Complete
  \/ \E v \in Index : WriteCmdProd(v) \/ WriteRespCons(v)
  \/ \E k \in Index, t \in Tags : Fill(k, t)

Spec == Init /\ [][Next]_vars

\* The machine's clock goes on, so what is due is done.
FairSpec == Spec /\ WF_vars(Complete)

--------------------------------------------------------------------------------
\* The type invariant.
TypeOK ==
  /\ enabled \in BOOLEAN /\ interrupt_enable \in BOOLEAN /\ refused \in BOOLEAN
  /\ index_fault \in BOOLEAN /\ head \in BOOLEAN
  /\ cmd_base \in Bases /\ cmd_log2 \in Sizes /\ resp_base \in Bases /\ resp_log2 \in Sizes
  /\ cmd_prod \in Index /\ cmd_cons \in Index /\ resp_cons \in Index
  /\ main \in [0 .. MainWords - 1 -> Tags]

\* A command is taken exactly while one waits and its answer has room: after
\* every store and every completion `take` has been called where it must be, so
\* none is left lying and none is taken twice.
HeadIsTaken == head = CanTake

\* Every entry the device reads or writes is inside main memory, where
\* execute and take index it without a check.
RingsInMemory ==
  enabled => \A k \in Index : /\ CmdSlot(k) + EntryWords <= MainWords
                             /\ RespSlot(k) + EntryWords <= MainWords

\* The indexes never claim more than the rings hold, whatever the driver
\* stores, and are zero with the interrupt down while the device is off.
IndexesInRange ==
  /\ queued <= cmd_entries /\ responses <= resp_entries
  /\ ~enabled => cmd_prod = 0 /\ cmd_cons = 0 /\ resp_cons = 0 /\ ~interrupt_enable
  /\ enabled => Fits(cmd_base, cmd_log2) /\ Fits(resp_base, resp_log2) /\ Apart

\* The three together, which every step keeps.
RingInv == TypeOK /\ HeadIsTaken /\ IndexesInRange

\* What is in the rings, from the consumer's index to the producer's.
Commands == [k \in 1 .. queued |-> main[CmdSlot(Plus(cmd_cons, k - 1))]]
Answers == [k \in 1 .. responses |-> main[RespSlot(Plus(resp_cons, k - 1))]]

Queue == INSTANCE FileQueue WITH
  Limits <- {[cmd |-> Entries[c], resp |-> Entries[r]] : c \in Sizes, r \in Sizes},
  on <- enabled, limit <- [cmd |-> cmd_entries, resp |-> resp_entries],
  commands <- Commands, answers <- Answers

\* The rings and their wrapping indexes are a queue of commands and a queue of
\* answers: every command answered once, in the order posted, none overwritten
\* before it is read.
InOrder == Queue!Spec

\* A command at the head is answered once the driver has made room for its
\* answer, if the device is not switched off first.
HeadIsAnswered ==
  \A k \in Index :
    (cmd_cons = k /\ CanTake) ~> (cmd_cons # k \/ ~enabled)
================================================================================

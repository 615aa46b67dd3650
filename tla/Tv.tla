--------------------------------- MODULE Tv ---------------------------------
(***************************************************************************)
(* The display board (src/tv.rs) and its sync program (src/tv/sync.rs).    *)
(*                                                                         *)
(* The emulator never runs the sync program.  It walks it once, when it or *)
(* the clock mode changes, into a timeline, and answers every read of the  *)
(* sync bits and the vertical flag by arithmetic on the time since then.   *)
(* vBoard beside it is the board: the program an instruction at a time.    *)
(***************************************************************************)
EXTENDS Integers, Sequences, SequencesExt, FiniteSets, FiniteSetsExt

CONSTANTS
    SyncPrograms,    \* programs the RAM is loaded with; the first of Prom is the PROM's
    SyncProm,        \* the PROM's program
    InstructionTicks,\* ticks an instruction takes, by clock mode
    MostInstructions,\* MOST_INSTRUCTIONS
    CountIsZero,     \* the iterations a count of zero makes, 256
    TvOps,           \* bound on the registers written
    TvTime           \* bound on the time

ASSUME TvAssumption ==
    /\ MostInstructions \in Nat /\ CountIsZero \in Nat \ {0}
    /\ \A m \in DOMAIN InstructionTicks : InstructionTicks[m] \in Nat \ {0}
    /\ {TvOps, TvTime} \subseteq Nat

VARIABLES vNow, vTv, vBoard, vOps

tvVars == <<vNow, vTv, vBoard, vOps>>

Never == -1
NoProgram == [period |-> 0, changes |-> <<>>, clrs |-> <<>>]

-----------------------------------------------------------------------------
(* The walk, Timeline::of.  A program is a sequence; a loop is its count and  *)
(* its instructions to the one after its end: Timeline::of's p and after.     *)

\* The last instruction of the loop whose first is at pc: one past the first
\* End of Loop or End of Program, or 0 where the memory runs out before it.
LoopOver(program, ends) ==
    IF ends = {} \/ Min(ends) = Len(program) THEN 0 ELSE Min(ends) + 1

LoopEnd(program, pc) ==
    LoopOver(program, {p \in pc..Len(program) : program[p].special \in {"loop", "program"}})

\* The program's whole run as the sequence of its instructions; a Never where it
\* makes no frame.
RECURSIVE WalkFrom(_, _, _)
Around(count, loop) ==
    [i \in 1..((IF count = 0 THEN CountIsZero ELSE count) * Len(loop)) |-> loop[((i - 1) % Len(loop)) + 1]]

WalkOn(program, last, all) ==
    CASE Len(all) > MostInstructions -> <<>>
      [] Len(all) <= MostInstructions /\ program[last - 1].special = "program" -> all
      [] OTHER -> WalkFrom(program, last + 1, all)

WalkLoop(program, pc, last, done) ==
    IF last = 0 THEN <<>>
    ELSE WalkOn(program, last, done \o Around(program[pc].count, SubSeq(program, pc + 1, last)))

WalkFrom(program, pc, done) ==
    IF pc > Len(program) THEN <<>> ELSE WalkLoop(program, pc, LoopEnd(program, pc + 1), done)

Walk(program) == WalkFrom(program, 1, <<>>)

\* When the sync bits change, each dated where its instruction lands, and when
\* -TVMA CLR fires.
Where(run, P(_)) == SelectSeq([i \in DOMAIN run |-> i], P)

Dated(run, changed, fired, step) ==
    IF run = <<>> THEN NoProgram
    ELSE [period  |-> Len(run) * step,
          changes |-> [k \in DOMAIN changed |-> [at |-> changed[k] * step, sync |-> run[changed[k]].sync]],
          clrs    |-> [k \in DOMAIN fired |-> fired[k] * step]]

TimelineFrom(run, step) ==
    Dated(run, Where(run, LAMBDA i : i = 1 \/ run[i].sync # run[i - 1].sync),
          Where(run, LAMBDA i : run[i].special = "clr"), step)

TimelineOf(program, clock) == TimelineFrom(Walk(program), InstructionTicks[clock])

\* Timeline::sync_at_since_start and sync_at: the change at or before the offset
\* into the period, else the period's last; before the first of the first run,
\* what the register held.
SyncSinceStart(t, since, held) ==
    LET into == since % t.period
        by   == {k \in DOMAIN t.changes : t.changes[k].at <= into}
    IN  IF since < t.changes[1].at THEN held
        ELSE IF by = {} THEN t.changes[Len(t.changes)].sync
        ELSE t.changes[Cardinality(by)].sync

\* Timeline::next_tvma_clr_after: strictly after.
NextClrAfter_mut(t, since) ==
    LET into == since % t.period
        by   == Cardinality({k \in DOMAIN t.clrs : t.clrs[k] <= into})
    IN  IF t.clrs = <<>> THEN Never
        ELSE IF by < Len(t.clrs) THEN since - into + t.clrs[by + 1]
        ELSE since - into + t.clrs[1]

NextClrAfter(t, since) ==
    LET into == since % t.period
        by   == Cardinality({k \in DOMAIN t.clrs : t.clrs[k] <= into})
    IN  IF t.clrs = <<>> THEN Never
        ELSE IF by < Len(t.clrs) THEN since - into + t.clrs[by + 1]
        ELSE since - into + t.period + t.clrs[1]

-----------------------------------------------------------------------------
(* The board's registers. *)

Program(tv) == IF tv.enable THEN tv.ram ELSE SyncProm

FlagWrittenAt(tv, flag, ns) ==
    LET t    == tv.timeline
        next == NextClrAfter(t, IF ns > tv.origin THEN ns - tv.origin ELSE 0)
    IN  [tv EXCEPT !.flag = flag, !.writtenAt = ns,
                   !.nextClr = IF t = NoProgram \/ next = Never THEN Never ELSE tv.origin + next]

VertFlag(tv, ns) == tv.board # "video" /\ (tv.flag \/ (tv.nextClr # Never /\ ns >= tv.nextClr))

SyncAt(tv, ns) ==
    IF tv.timeline # NoProgram /\ ns >= tv.origin
    THEN SyncSinceStart(tv.timeline, ns - tv.origin, tv.held) ELSE <<FALSE, FALSE>>

TvInterrupt(tv, ns) == tv.ie /\ VertFlag(tv, ns)

\* The program or the clock mode changed: run afresh, the flag and the sync bits
\* carried over.
RestartSync(tv, ns) ==
    FlagWrittenAt([tv EXCEPT !.held = SyncAt(tv, ns),
                             !.timeline = TimelineOf(Program(tv), tv.clock), !.origin = ns],
                  VertFlag(tv, ns), ns)

NewTv(board) ==
    LET t == IF board = "video" THEN NoProgram ELSE TimelineOf(SyncProm, 0)
    IN  FlagWrittenAt([board |-> board, clock |-> 0, bow |-> FALSE, ie |-> FALSE,
                       ram |-> <<[count |-> 0]>>, pointer |-> 0, enable |-> FALSE, map |-> <<>>,
                       flag |-> FALSE, writtenAt |-> 0, nextClr |-> Never, timeline |-> t,
                       origin |-> 0, held |-> <<FALSE, FALSE>>], FALSE, 0)

\* Registers 0 to 4: the mode, the sync RAM's word (the RAM's content changes by
\* a program at a time), its pointer, its enable, the color map.
WriteControl(tv, r, v, ns) ==
    IF tv.board = "video" THEN IF r = 0 THEN [tv EXCEPT !.bow = v.bow] ELSE tv
    ELSE LET w == CASE r = 0 -> FlagWrittenAt([tv EXCEPT !.clock = v.clock, !.bow = v.bow, !.ie = v.ie],
                                              v.vert, ns)
                    [] r = 1 -> [tv EXCEPT !.ram = v]
                    [] r = 2 -> [tv EXCEPT !.pointer = v]
                    [] r = 3 -> [tv EXCEPT !.enable = v]
                    [] r = 4 -> [tv EXCEPT !.map = v]
         IN  IF \/ r = 0 /\ v.clock # tv.clock
                \/ r = 1 /\ tv.enable
                \/ r = 3 /\ v # tv.enable
             THEN RestartSync(w, ns) ELSE w

XbusInit(tv, ns) == FlagWrittenAt(tv, FALSE, ns)

\* A checkpoint keeps when the flag was written and the program started; the
\* timeline and the flag's next setting are worked out again.
LoadTv(tv) ==
    FlagWrittenAt([tv EXCEPT !.timeline = TimelineOf(Program(tv), tv.clock)], tv.flag, tv.writtenAt)

-----------------------------------------------------------------------------
(* The board itself, an instruction at a time: the loop it is in, how often it  *)
(* goes round yet, the latched bits, the flag.                                  *)

BoardLoop(b, top) ==
    [b EXCEPT !.top = top, !.p = top + 1, !.ending = "none",
              !.left = IF b.program[top].count = 0 THEN CountIsZero ELSE b.program[top].count]

\* A program that makes no frame runs nothing, and drives no sync.
BoardRuns(b, program, clock, none) ==
    BoardLoop([b EXCEPT !.program = program, !.halted = none, !.clock = clock, !.into = 0,
                        !.sync = IF none THEN <<FALSE, FALSE>> ELSE @], 1)

BoardStart(b, program, clock) == BoardRuns(b, program, clock, Walk(program) = <<>>)

\* Past an instruction: on to the next, round the loop again, to the next loop,
\* or to the start; the one after an end of loop goes too.
BoardPast(b) ==
    LET special == b.program[b.p].special
    IN  CASE b.ending = "none" ->
               [b EXCEPT !.p = @ + 1, !.ending = IF special = "clr" THEN "none" ELSE special]
          [] b.ending # "none" /\ b.left > 1 ->
               [b EXCEPT !.p = b.top + 1, !.left = @ - 1, !.ending = "none"]
          [] b.ending = "loop" /\ b.left = 1 -> BoardLoop(b, b.p + 1)
          [] b.ending = "program" /\ b.left = 1 -> BoardLoop(b, 1)

BoardTick(b) ==
    LET insn == b.program[b.p]
        past == BoardPast(b)
    IN  IF b.halted THEN b
        ELSE IF b.into + 1 < InstructionTicks[b.clock] THEN [b EXCEPT !.into = @ + 1]
        ELSE [past EXCEPT !.into = 0, !.sync = insn.sync, !.flag = @ \/ insn.special = "clr"]

BoardAfter(b, tv, new) ==
    IF new.origin # tv.origin \/ new.timeline # tv.timeline \/ Program(new) # Program(tv) \/ new.clock # tv.clock
    THEN BoardStart(b, Program(new), new.clock) ELSE b

-----------------------------------------------------------------------------
Modes == [clock : DOMAIN InstructionTicks, bow : {FALSE}, ie : BOOLEAN, vert : BOOLEAN]

TvWrites(r, v) ==
    /\ vOps < TvOps /\ vOps' = vOps + 1
    /\ vTv' = WriteControl(vTv, r, v, vNow)
    /\ vBoard' = IF vTv.board = "video" THEN vBoard
                 ELSE [BoardAfter(vBoard, vTv, vTv') EXCEPT !.flag = IF r = 0 THEN v.vert ELSE @]
    /\ UNCHANGED vNow

TvInitializes ==
    /\ vOps < TvOps /\ vOps' = vOps + 1
    /\ vTv' = XbusInit(vTv, vNow)
    /\ vBoard' = [vBoard EXCEPT !.flag = FALSE]
    /\ UNCHANGED vNow

TvResumes ==
    /\ vOps < TvOps /\ vOps' = vOps + 1
    /\ vTv' = LoadTv(vTv)
    /\ UNCHANGED <<vNow, vBoard>>

TvTick ==
    /\ vNow < TvTime /\ vNow' = vNow + 1
    /\ vBoard' = BoardTick(vBoard)
    /\ UNCHANGED <<vTv, vOps>>

TvInit ==
    /\ vNow = 0 /\ vOps = 0
    /\ \E board \in {"simple", "lispm", "video"} :
         /\ vTv = NewTv(board)
         /\ vBoard = BoardStart([program |-> <<>>, halted |-> FALSE, clock |-> 0, into |-> 0, top |-> 1,
                                 p |-> 2, left |-> 1, ending |-> "none",
                                 sync |-> <<FALSE, FALSE>>, flag |-> FALSE], SyncProm, 0)

TvNext ==
    \/ \E v \in Modes : TvWrites(0, v)
    \/ \E v \in SyncPrograms : TvWrites(1, v)
    \/ TvWrites(2, 1)
    \/ \E v \in BOOLEAN : TvWrites(3, v)
    \/ TvWrites(4, <<1>>)
    \/ TvInitializes \/ TvResumes \/ TvTick

-----------------------------------------------------------------------------
(* Properties. *)

\* The vertical flag and the sync bits a read is answered with, worked out from
\* the timeline, are the ones the board running its program an instruction at a
\* time has, through restarts of the program, writes of the flag, and a resumed
\* checkpoint (Tv::vert_flag, Tv::sync_at).
ReadsAsTheBoard ==
    vTv.board # "video" =>
        /\ VertFlag(vTv, vNow) = vBoard.flag
        /\ TvInterrupt(vTv, vNow) = (vTv.ie /\ vBoard.flag)
        /\ SyncAt(vTv, vNow) = vBoard.sync
=============================================================================

----------------------------- MODULE MemoryPort -----------------------------
(***************************************************************************)
(* QUUX's memory port and cache, from src/src/memory_port.rs and           *)
(* src/src/cache.rs, under the processor that uses them (src/src/rtl.rs):  *)
(* the cycle's states, the cache's tags and least-recently-used order, the *)
(* write buffer of one word, the one-word prefetch of macroinstruction     *)
(* fetches and everything that drops it, the fused return that uses it,    *)
(* transfers by the devices behind the processor's back, and a checkpoint. *)
(*                                                                         *)
(* The location counter is the address of the next word of the stream:     *)
(* only a return that needs a fetch is of interest.  A stored or           *)
(* transferred word is the number of the operation that wrote it.  What    *)
(* the microcode keeps to is MicrocodeAssumption.                          *)
(***************************************************************************)
EXTENDS Integers, Sequences, FiniteSets

CONSTANTS
    MainWords, PageWords, LineWords, Ways, Sets,  \* the memory, the cache
    VirtualWords,                     \* the virtual address's range
    HitNs, ReadNs, WriteNs, PortCycleNs, PortFinishNs,
    Reaches,                          \* how far the prefetch looks
    PortPrograms,                     \* the microcode: sequences of operations
    Pages,                            \* the pages the devices transfer to
    MaxTransfers                      \* bound on the file device's transfers

ASSUME PortAssumption ==
    /\ {MainWords, PageWords, LineWords, Ways, Sets, VirtualWords} \subseteq Nat \ {0}
    /\ PortCycleNs \in Nat \ {0}
    /\ {HitNs, ReadNs, WriteNs, PortFinishNs, MaxTransfers} \subseteq Nat
    /\ MainWords % PageWords = 0 /\ VirtualWords % PageWords = 0
    /\ Reaches \subseteq {"none", "line", "page"}

memops == {"store", "load", "device", "nothing"}

\* The microcode: it names addresses, and pages main memory has to map; it
\* writes no VMA in the microcycle of a fetch, which is the one after a
\* return, and no map in that one or the next.
ASSUME MicrocodeAssumption ==
    \A g \in PortPrograms :
        /\ g \in Seq([k : memops \cup {"plain", "return", "lc", "map"}, at : Nat])
        /\ \A i \in DOMAIN g :
              /\ g[i].k = "map" => (g[i].at + 1) * PageWords <= MainWords
              /\ g[i].k = "return" =>
                    /\ i + 1 \in DOMAIN g => g[i + 1].k \notin memops \cup {"map"}
                    /\ i + 2 \in DOMAIN g => g[i + 2].k # "map"

VARIABLES
    proc,       \* the processor: its cycle, map, location counter and memory
    port,       \* the port
    behind,     \* the acknowledged writes: when each was, and when done
    reads,      \* when each line was last read since the cache was emptied
    taken       \* a word a fused return took: it and memory's, or none

portVars == <<proc, port, behind, reads, taken>>

None == -1
NoPrefetch == [vaddr |-> None, phys |-> None, word |-> None]
Idle == [k |-> "idle", ack |-> None, answered |-> None, timedOut |-> FALSE]
BiggerOf(a, b) == IF a > b THEN a ELSE b

-----------------------------------------------------------------------------
(* The cache: a set's lines, the most recently used first.                  *)

NoLines == [s \in 0 .. Sets - 1 |-> <<>>]

Lines == 0 .. (MainWords - 1) \div LineWords

LineOf(phys) == phys \div LineWords

SetOf(line) == line % Sets

Among(line, s, n) == \E i \in 1 .. n : s[i] = line

Holds(sets, phys) ==
    LET s == sets[SetOf(LineOf(phys))] IN Among(LineOf(phys), s, Len(s))

\* A hit moves its line to the front, and those before it back by one; a
\* miss fills it and drops the oldest of a full set.
ToFront(s, line) ==
    [i \in 1 .. IF Among(line, s, Len(s)) \/ Len(s) = Ways THEN Len(s) ELSE Len(s) + 1 |->
        IF i = 1 THEN line
        ELSE IF Among(line, s, i - 1) THEN s[i] ELSE s[i - 1]]

CacheRead(sets, phys) ==
    [sets EXCEPT ![SetOf(LineOf(phys))] = ToFront(@, LineOf(phys))]

-----------------------------------------------------------------------------
(* The port.                                                                *)

PortNew(reach) ==
    [state |-> Idle, write |-> FALSE, addr |-> 0, memory |-> FALSE, sets |-> NoLines,
     memoryFreeAt |-> 0, bufferFreeAt |-> 0, reach |-> reach,
     prefetched |-> NoPrefetch, fetchVaddr |-> None]

DropPrefetched(p) == [p EXCEPT !.prefetched = NoPrefetch]

InvalidateCache(p) == DropPrefetched([p EXCEPT !.sets = NoLines])

PortRequestAt_mut(p, write, phys) ==
    [p EXCEPT !.state = [Idle EXCEPT !.k = "requested"], !.write = write,
              !.addr = phys, !.memory = FALSE, !.fetchVaddr = None]

\* A store to the prefetched word drops it.
PortRequestAt(p, write, phys) ==
    LET q == [p EXCEPT !.state = [Idle EXCEPT !.k = "requested"], !.write = write,
                       !.addr = phys, !.memory = FALSE, !.fetchVaddr = None]
    IN  IF write /\ p.prefetched.phys = phys THEN DropPrefetched(q) ELSE q

MarkFetch(p, vaddr) == [p EXCEPT !.fetchVaddr = vaddr % VirtualWords]

Granted(ack, answered, timedOut) ==
    [k |-> "granted", ack |-> ack, answered |-> answered, timedOut |-> timedOut]

\* A hit after the hit time; a miss when the line is filled; a write when
\* the buffer is free, memory running it behind.
PortMemoryCycle(p, now) ==
    LET done == BiggerOf(now, p.memoryFreeAt) + IF p.write THEN WriteNs ELSE ReadNs
        at   == BiggerOf(now + HitNs, p.bufferFreeAt)
    IN  IF ~p.write /\ Holds(p.sets, p.addr)
        THEN [p EXCEPT !.sets = CacheRead(@, p.addr),
                       !.state = Granted(now + HitNs, now + HitNs, FALSE)]
        ELSE IF p.write
        THEN [p EXCEPT !.memoryFreeAt = done, !.bufferFreeAt = done,
                       !.state = Granted(at, at, FALSE)]
        ELSE [p EXCEPT !.sets = CacheRead(@, p.addr), !.memoryFreeAt = done,
                       !.state = Granted(done, done, FALSE)]

\* A cycle requested is taken at an edge: main memory's, a register's,
\* answered a microcycle on, or nothing's, which fails at once.
PortEdge(p, now, responder) ==
    IF p.state.k # "requested" THEN p
    ELSE LET q == [p EXCEPT !.memory = responder = "memory"]
         IN  CASE responder = "memory" -> PortMemoryCycle(q, now)
               [] responder = "device" ->
                    [q EXCEPT !.state = Granted(now + PortCycleNs, now, FALSE)]
               [] responder = "nothing" -> [q EXCEPT !.state = Granted(now, now, TRUE)]

PortPoll(p, now) ==
    IF p.state.k = "granted" /\ now >= p.state.ack
    THEN [p EXCEPT !.state.k = "acked"] ELSE p

\* The prefetch's part of a fetch answered: the next word, if it is in the
\* page, in memory, and in the fetch's line or (reach page) in the cache.
ReadAnswered(p, main) ==
    LET next == p.addr + 1
        keep == /\ next % PageWords # 0 /\ next < MainWords
                /\ next % LineWords # 0 \/ (p.reach = "page" /\ Holds(p.sets, next))
        q    == [p EXCEPT !.fetchVaddr = None]
    IN  IF p.fetchVaddr = None \/ p.reach = "none" \/ ~p.memory \/ p.write THEN q
        ELSE [q EXCEPT !.prefetched =
                 IF keep THEN [vaddr |-> (p.fetchVaddr + 1) % VirtualWords,
                               phys |-> next, word |-> main[next]]
                 ELSE NoPrefetch]

PortFinish(p) == [p EXCEPT !.state = Idle]

PortSave(p) ==
    <<p.state, p.write, p.addr, p.memory, p.sets, p.memoryFreeAt, p.bufferFreeAt,
      p.prefetched, p.fetchVaddr>>

\* Onto a port of the engine's own reach: without a prefetch fitted, the
\* word and the fetch are dropped.
PortLoad(reach, s) ==
    [state |-> s[1], write |-> s[2], addr |-> s[3], memory |-> s[4], sets |-> s[5],
     memoryFreeAt |-> s[6], bufferFreeAt |-> s[7], reach |-> reach,
     prefetched |-> IF reach = "none" THEN NoPrefetch ELSE s[8],
     fetchVaddr |-> IF reach = "none" THEN None ELSE s[9]]

-----------------------------------------------------------------------------
(* The processor: an operation is what it does to memory.                   *)

Op(k, a) == [k |-> k, at |-> a]

ProcNew ==
    [ns |-> 0, ops |-> 0, transfers |-> 0, program |-> <<>>, main |-> [a \in 0 .. MainWords - 1 |-> 0], page |-> 0,
     lc |-> 0, newlc |-> FALSE, nextInstr |-> FALSE, wmap |-> None, memstart |-> FALSE,
     fetch |-> FALSE, wrcyc |-> FALSE, vma |-> 0, to |-> "memory", mbusy |-> FALSE,
     mbusySync |-> FALSE, acked |-> FALSE, written |-> FALSE, clearAt |-> None,
     data |-> 0, dma |-> FALSE]

PortInit ==
    /\ proc = ProcNew
    /\ port = PortNew("none")
    /\ behind = {}
    /\ reads = [line \in Lines |-> None]
    /\ taken = [word |-> None, memory |-> None]

\* The engine fits the prefetch before it runs.
SetPrefetch(reach) ==
    /\ proc.ns = 0 /\ proc.program = <<>>
    /\ port' = PortNew(reach)
    /\ \E g \in PortPrograms : proc' = [proc EXCEPT !.program = g]
    /\ UNCHANGED <<behind, reads, taken>>

Physical(c, vaddr) == c.page * PageWords + (vaddr % PageWords)

Transferred(c, page) ==
    [c EXCEPT !.main = [a \in DOMAIN @ |-> IF a \div PageWords = page THEN c.ops ELSE @[a]],
              !.dma = TRUE]

\* A write reaches its slave when it is answered: memory's word, or the
\* register that starts a device's transfer of a page.
PortLandWrite(c, p, now) ==
    IF ~c.wrcyc \/ c.written \/ p.state.k \notin {"granted", "acked"} \/ now < p.state.answered
    THEN c
    ELSE CASE c.to = "memory" -> [c EXCEPT !.written = TRUE, !.main[p.addr] = c.data]
           [] c.to = "device" -> [Transferred(c, p.addr) EXCEPT !.written = TRUE]
           [] c.to = "nothing" -> [c EXCEPT !.written = TRUE]

\* Up to an instant: the write lands, the cycle is acknowledged, the
\* prefetch looks, and MBUSY falls.
PortCarried(c, p, now) ==
    LET a     == PortLandWrite(c, p, now)
        q     == PortPoll(p, now)
        fresh == ~a.acked /\ q.state.k = "acked"
        clear == q.state.ack + IF q.memory THEN 0 ELSE PortFinishNs
        b     == IF fresh THEN [a EXCEPT !.acked = TRUE, !.clearAt = clear] ELSE a
        r     == IF fresh /\ ~a.wrcyc THEN ReadAnswered(q, b.main) ELSE q
        free  == b.clearAt # None /\ now >= b.clearAt
    IN  IF free THEN <<[b EXCEPT !.mbusy = FALSE, !.acked = FALSE, !.clearAt = None],
                       PortFinish(r)>>
        ELSE <<b, r>>

\* A start taken at an edge: a transfer since the last one empties the cache.
StartCycle(c, p) ==
    IF ~c.memstart \/ c.mbusy THEN <<c, p>>
    ELSE LET q == IF c.dma THEN InvalidateCache(p) ELSE p
             a == IF c.to = "memory" THEN Physical(c, c.vma) ELSE c.vma
             r == PortRequestAt(q, c.wrcyc, a)
         IN  <<[c EXCEPT !.mbusy = TRUE, !.written = FALSE, !.dma = FALSE],
               IF c.fetch THEN MarkFetch(r, c.vma) ELSE r>>

PortAtEdge(c, s, now) ==
    LET p == PortEdge(s[2], now, c.to)
    IN  <<[s[1] EXCEPT !.ns = now, !.mbusySync = c.memstart \/ s[1].mbusy], p>>

needfetch(c) == c.nextInstr

\* -WAIT: a memory destination or a fetch behind a cycle, and QUUX's own
\* term, a start right after a start.
PortWait(c, op) ==
    \/ (op.k \in memops \cup {"map"} \/ needfetch(c)) /\ c.mbusySync
    \/ (op.k \in memops \/ needfetch(c)) /\ c.memstart

\* The prefetched word, for a return that needs the next word in sequence.
Buffered(c, p) ==
    IF ~c.newlc /\ ~c.dma /\ p.prefetched.vaddr = c.lc % VirtualWords
    THEN p.prefetched ELSE NoPrefetch

\* A store started in the microcycle before is yet to be compared with it.
FusedWord(c, p, op) ==
    IF op.k = "return" /\ ~needfetch(c) /\ ~(c.memstart /\ c.wrcyc)
    THEN Buffered(c, p).word ELSE None

\* An instruction's part in the start its edge takes: the location counter,
\* and which way the cycle goes.
AtStart(c, op) ==
    LET fetch == needfetch(c)
    IN  [c EXCEPT !.lc = IF op.k = "lc" THEN op.at ELSE IF fetch THEN @ + 1 ELSE @,
                  !.newlc = (@ \/ op.k = "lc") /\ ~fetch,
                  !.ops = @ + 1,
                  !.wrcyc = IF fetch \/ op.k = "load" THEN FALSE
                            ELSE IF op.k \in memops THEN TRUE ELSE @]

\* What drops the prefetched word.
Dropped(c, p, op) == IF op.k \in {"lc", "map"} \/ c.dma THEN DropPrefetched(p) ELSE p

\* And what it leaves, e the start taken: its own start, pending.
AtEnd(c, e, op) ==
    LET fetch == needfetch(c)
        start == fetch \/ op.k \in memops
    IN  [e EXCEPT !.memstart = start, !.fetch = fetch,
                  !.vma = IF fetch THEN c.lc % VirtualWords ELSE IF start THEN op.at ELSE @,
                  !.to = IF ~start THEN @
                         ELSE IF op.k \in {"device", "nothing"} /\ ~fetch THEN op.k
                         ELSE "memory",
                  !.data = IF op.k = "store" THEN e.ops ELSE @,
                  !.page = IF c.wmap # None THEN c.wmap ELSE @,
                  !.wmap = IF op.k = "map" THEN op.at ELSE None,
                  !.nextInstr = op.k = "return",
                  !.program = Tail(@)]

\* The edge that ends a microcycle of op.
PortClockEdge(c, p, op, now) ==
    LET e == PortAtEdge(c, StartCycle(AtStart(c, op), Dropped(c, p, op)), now)
    IN  <<AtEnd(c, e[1], op), e[2]>>

-----------------------------------------------------------------------------

\* What the ghosts see of a step from c, p to d, q.
Seen(c, p, d, q) ==
    /\ behind' = IF p.state.k # "granted" /\ q.state.k = "granted" /\ q.memory /\ q.write
                 THEN behind \cup {[ack |-> q.state.ack, done |-> q.bufferFreeAt]}
                 ELSE behind
    /\ LET since == IF c.dma /\ ~d.dma THEN [line \in Lines |-> None] ELSE reads
       IN  reads' = IF p.state.k # "granted" /\ q.state.k = "granted" /\ q.memory /\ ~q.write
                    THEN [since EXCEPT ![LineOf(q.addr)] = d.ns] ELSE since

\* The clock generator's cycle with the cpu clock held: the master clock
\* takes the pending start.
PortWaitCycle ==
    LET now == proc.ns + PortCycleNs
        a   == PortCarried(proc, port, now)
        e   == PortAtEdge(a[1], StartCycle(a[1], a[2]), now)
    IN  /\ proc.program # <<>>
        /\ PortWait(proc, Head(proc.program))
        /\ proc' = [e[1] EXCEPT !.memstart = FALSE]
        /\ port' = e[2]
        /\ Seen(proc, port, proc', port')
        /\ UNCHANGED taken

PortMicrocycle ==
    LET now == proc.ns + PortCycleNs
        op  == Head(proc.program)
        a   == PortCarried(proc, port, now)
        e   == PortClockEdge(a[1], a[2], op, now)
        w   == FusedWord(proc, port, op)
    IN  /\ proc.program # <<>>
        /\ ~PortWait(proc, op)
        /\ proc' = e[1]
        /\ port' = e[2]
        /\ taken' = [word |-> w, memory |-> IF w = None THEN None
                                          ELSE proc.main[Physical(proc, proc.lc)]]
        /\ Seen(proc, port, proc', port')

\* The file device's command due, at the edge between two microcycles.
AdvanceFileDevice(page) ==
    /\ proc.ops > 0 /\ proc.transfers < MaxTransfers
    /\ proc' = [Transferred(proc, page) EXCEPT !.ops = @ + 1, !.transfers = @ + 1]
    /\ UNCHANGED <<port, behind, reads, taken>>

\* Saved, and resumed on an engine of the same or another reach.
PortResume(reach) ==
    /\ proc.ops > 0
    /\ port' = PortLoad(reach, PortSave(port))
    /\ port' # port
    /\ UNCHANGED <<proc, behind, reads, taken>>

PortNext ==
    \/ \E r \in Reaches : SetPrefetch(r) \/ PortResume(r)
    \/ PortWaitCycle \/ PortMicrocycle
    \/ \E p \in Pages : AdvanceFileDevice(p)

PortTypeOK ==
    /\ proc.main \in [0 .. MainWords - 1 -> Nat]
    /\ port.state.k \in {"idle", "requested", "granted", "acked"}
    /\ port.sets \in [0 .. Sets - 1 -> Seq(Lines)]
    /\ proc.mbusy <=> port.state.k # "idle"

-----------------------------------------------------------------------------

\* A fused return takes the word memory holds at the location counter, for
\* every store, transfer, map write, write of the location counter and
\* resume before it.
FusedIsMemorys == taken.word = taken.memory

\* The write buffer holds one word: of the writes acknowledged to the
\* processor, memory has at most one still to do.
OneWriteBehind ==
    \A t \in 0 .. proc.ns : Cardinality({w \in behind : w.ack <= t /\ t < w.done}) <= 1

\* A set holds the lines last read, the most recent first, since the cache
\* was emptied, and no line twice; one it does not hold was read before all
\* it does, and those fill it.
CacheIsRecent ==
    \A n \in 0 .. Sets - 1 :
        LET s == port.sets[n]
        IN  /\ Len(s) <= Ways
            /\ \A i \in DOMAIN s : SetOf(s[i]) = n /\ reads[s[i]] # None
            /\ \A i, j \in DOMAIN s : i < j => reads[s[j]] < reads[s[i]]
            /\ \A line \in Lines :
                  SetOf(line) = n /\ reads[line] # None /\ ~Among(line, s, Len(s)) =>
                      Len(s) = Ways /\ \A i \in DOMAIN s : reads[line] < reads[s[i]]
=============================================================================

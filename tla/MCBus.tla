------------------------------- MODULE MCBus -------------------------------
(***************************************************************************)
(* The bus interface on a small instance, instants in units of about 50    *)
(* ns: one machine with any debugger on its cable (Bus), and two machines  *)
(* with the cable between them (Lashup).  A behavior is about one or the   *)
(* other: machines says which.                                             *)
(***************************************************************************)
EXTENDS Bus, Lashup

CONSTANT b1

VARIABLE machines

Init ==
    /\ machines \in {"one", "two"}
    /\ BusInit /\ LashupInit
    /\ machines = "one" => \E c \in {CHOOSE c \in Cases : TRUE} :
                              debuggee = c.debuggee /\ waiting = c.debuggers
    /\ machines = "two" => /\ program = (CHOOSE p \in Programs : TRUE)
                           /\ script = (CHOOSE r \in Scripts : TRUE)
                           /\ machine.bus.modifier = {}
                           /\ machine.bus.address = CHOOSE a \in Addresses : TRUE

Next ==
    /\ UNCHANGED machines
    /\ \/ machines = "one" /\ BusNext /\ UNCHANGED lashupVars
       \/ machines = "two" /\ LashupNext /\ UNCHANGED busVars

Spec == Init /\ [][Next]_<<machines, busVars, lashupVars>>

-----------------------------------------------------------------------------

\* A cycle of the processor is whole: MD has the word of the last read that
\* went out, a write has landed before MBUSY falls, and a cycle has no end
\* in sight only while the debugger inhibits its timeout.
CycleWhole == BusTypeOK /\ MdIsItsRead /\ WriteLandsFirst /\ InhibitIsLifted

\* What has been put by about the time to come holds when it comes: the
\* boards' next change, their release after a cycle, DEBUG ACK's promise.
TimesKept == TwinsNotMissed /\ RefreshNotHeld /\ PromiseKept

\* Two machines on a cable: no event comes into the past of the machine it
\* goes to, no request is refused, neither end waits on the other for ever,
\* and a stream between them shows nowhere.
LashupKept == LashupTypeOK /\ NotPassed /\ NotRefused /\ NotBothWait /\ StreamIsProcess

-----------------------------------------------------------------------------
(* One machine.                                                             *)

MCStarts == {Start("read", b1, FALSE), Start("write", b1, FALSE),
             Start("read", "noXbus", FALSE), Start("read", "interface", FALSE),
             Start("write", "interface", FALSE)}

MCUse(long) == Plain("useMd", long)

\* One start; a start right after a start; a second start once the first
\* has ended, MD loaded between them; and a use of MD.
MCPrograms ==
    {<<s, MCUse(FALSE), MCUse(TRUE)>> : s \in MCStarts}
        \cup {<<s, t, MCUse(TRUE)>> : s \in {Start("write", b1, FALSE),
                                           Start("read", "interface", FALSE)},
                                     t \in {u \in MCStarts : u.at # "noXbus"}}
        \cup {<<s, Plain("loadMd", TRUE), Start("read", "interface", FALSE),
                 Plain("plain", FALSE), MCUse(FALSE)>> :
                s \in {Start("read", b1, FALSE), Start("write", "interface", FALSE)}}

Request(strobe, write, dbd) ==
    [strobe |-> strobe, write |-> write, dbd |-> dbd, hold |-> 2]

MCScripts ==
    {<<Request("modifier", TRUE, {})>>, <<Request("address", TRUE, "interface")>>,
     <<Request("cycle", TRUE, "run")>>, <<Request("cycle", FALSE, "none")>>,
     <<Request("modifier", TRUE, {Reset}), Request("modifier", TRUE, {})>>}

-----------------------------------------------------------------------------
(* Two.                                                                     *)

MCMachine == MachineNew(Plain("plain", FALSE))

MCRead == Start("read", "debug", FALSE)

MCWrite == Start("write", "debug", FALSE)

MCPlain == Plain("plain", FALSE)

MCUseMd == Plain("useMd", TRUE)

MCAsk(strobe, dbd) == [strobe |-> strobe, dbd |-> dbd]

\* A status read; an address strobe and a cycle at it, answered or not; a
\* reset put on and lifted.
MCStatus(u) == Side(MCMachine, <<MCRead, MCUseMd>>, <<MCAsk("status", "none")>>, u)

MCCycle(at, u) ==
    Side(MCMachine, <<MCWrite, MCPlain, MCRead, MCUseMd>>,
         <<MCAsk("address", at), MCAsk("cycle", "none")>>, u)

MCReset(u) ==
    Side(MCMachine, <<MCWrite, MCPlain, MCWrite, MCUseMd>>,
         <<MCAsk("modifier", {Reset}), MCAsk("modifier", {})>>, u)

\* A machine reading memory, and one reading its own Unibus and then the
\* debugger's, which in one process it can.
MCMemory(u) == Side(MCMachine, <<Start("read", b1, FALSE), MCUseMd>>, <<>>, u)

MCBoth(u) ==
    Side(MCMachine, <<Start("read", "interface", FALSE), MCUseMd, MCRead, MCUseMd>>,
         <<MCAsk("cycle", "none")>>, u)

MCCase(b, as) == [debuggee |-> b, debuggers |-> as]

\* One debugger that stays, its run ending before the debuggee's or after;
\* and one that goes with a cycle or a reset out, another in its place.
MCCases ==
    {MCCase(b, <<a>>) : a \in {MCStatus(50), MCCycle("interface", 80),
                               MCCycle("noUnibus", 98), MCReset(80)},
                        b \in {MCMemory(94), MCBoth(94)}}
        \cup {MCCase(MCMemory(100), <<a, MCStatus(33)>>) :
                a \in {MCCycle("noUnibus", 52), MCReset(33)}}

\* The debuggee's run ends before the debugger asks anything of it.
MCShort == {MCCase(MCMemory(6), <<MCStatus(60)>>)}

\* Then the machine alone does nothing.
MCNoStart == {<<>>}
MCAsksNothing == {<<>>}
=============================================================================

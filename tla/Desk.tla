-------------------------------- MODULE Desk --------------------------------
(***************************************************************************)
(* What stands on the desk and the boards it is plugged into: the keyboard *)
(* and its mapping, the mouse and the I/O board, the serial port and the   *)
(* device on it, the display board, and the terminal's viewers.  Each      *)
(* takes its turn in the run loop's attend (src/cli.rs) and shares no      *)
(* state with the others but the time, so a behavior in which one of them  *)
(* moves while the others rest shows everything it can do: onDesk says     *)
(* which it is.                                                            *)
(***************************************************************************)
EXTENDS Keyboard, IoBoard, Serial, Terminal, Tv

VARIABLE onDesk

deskVars == <<onDesk, keyboardVars, ioVars, serialVars, termVars, tvVars>>

Init ==
    /\ onDesk \in {"keyboard", "ioboard", "serial", "terminal", "tv"}
    /\ KeyboardInit /\ IoInit /\ SerialInit /\ TermInit /\ TvInit
    /\ onDesk # "keyboard" => kScene = CHOOSE s \in Scenes : s.route = "register"
    /\ onDesk # "ioboard" => iRoute = "board"
    /\ onDesk # "serial" => serPort = PowerOn(NewCable)
    /\ onDesk # "terminal" => tScreen.map = NoMap /\ tViewers = <<>>
    /\ onDesk # "tv" => vTv.board = "lispm"

Next ==
    /\ UNCHANGED onDesk
    /\ \/ /\ onDesk = "keyboard" /\ KeyboardNext
          /\ UNCHANGED <<ioVars, serialVars, termVars, tvVars>>
       \/ /\ onDesk = "ioboard" /\ IoNext
          /\ UNCHANGED <<keyboardVars, serialVars, termVars, tvVars>>
       \/ /\ onDesk = "serial" /\ SerialNext
          /\ UNCHANGED <<keyboardVars, ioVars, termVars, tvVars>>
       \/ /\ onDesk = "terminal" /\ TermNext
          /\ UNCHANGED <<keyboardVars, ioVars, serialVars, tvVars>>
       \/ /\ onDesk = "tv" /\ TvNext
          /\ UNCHANGED <<keyboardVars, ioVars, serialVars, termVars>>

Spec == Init /\ [][Next]_deskVars

-----------------------------------------------------------------------------
(* Properties: each is about the part that moves, the others being at rest.  *)

\* What the software holds to be down, the keyboard has down, and the mapping a
\* run writes out reads back as itself (Keyboard, src/terminal/keyboard.rs).
KeysKept == onDesk = "keyboard" => HeldIsDown /\ DumpReadsBack

\* A serial port brought up to the time late stands where one brought up at every
\* tick does (Serial, src/serial.rs).
SerialKept == onDesk = "serial" => GrainsAgree

\* A viewer shows the screen it was last sent but for the rows an update of a part
\* passed over, has at most one update on its way and is never misread (Terminal,
\* src/terminal/mod.rs).
ViewersKept == onDesk = "terminal" => ShowsTheScreen /\ ViewerInStep

\* The vertical flag and the sync bits read as the board running its program
\* would have them (Tv, src/tv.rs).
SyncKept == onDesk = "tv" => ReadsAsTheBoard

-----------------------------------------------------------------------------
(* A small instance for TLC: a frame of one data bit, a screen of two lines, *)
(* sync programs of a few instructions.                                      *)

MCFramings == {[bits |-> 1, parity |-> FALSE, stop |-> 2, sync |-> FALSE]}
Cmd(tx, rx, mode, reset) ==
    [tx |-> tx, rx |-> rx, dtr |-> TRUE, rts |-> TRUE, mode |-> mode, reset |-> reset]
MCCommands == {Cmd(TRUE, TRUE, "normal", TRUE), Cmd(TRUE, TRUE, "local", FALSE),
               Cmd(FALSE, TRUE, "echo", FALSE), Cmd(FALSE, FALSE, "remote", FALSE)}

MCParts == {1..TermRows, {1}}

Insn(h, v, special) == [sync |-> <<h, v>>, special |-> special, count |-> 3]
Reps(n) == [count |-> n, special |-> "none", sync |-> <<FALSE, FALSE>>]
MCProm == <<Reps(2), Insn(TRUE, FALSE, "none"), Insn(FALSE, FALSE, "loop"), Insn(FALSE, TRUE, "none"),
            Reps(1), Insn(FALSE, FALSE, "program"), Insn(TRUE, TRUE, "clr")>>
MCPrograms == {<<Reps(0), Insn(FALSE, TRUE, "clr"), Insn(TRUE, FALSE, "program"), Insn(FALSE, FALSE, "none")>>,
               <<Reps(1), Insn(TRUE, FALSE, "clr")>>}
MCTicks == [m \in 0..1 |-> m + 1]
=============================================================================

---------------------------- MODULE StopContinue ----------------------------
(****************************************************************************)
(* cw04/zad1a and zad1b: Ctrl-Z stops the output and a second one lets it   *)
(* go on.  zad1a prints the time itself; zad1b has a script do it, which it *)
(* kills and starts anew.  Both wait in a handler of SIGTSTP.               *)
(*                                                                          *)
(* The build asks for C99 and X/Open 5, so that signal() is the one of      *)
(* System V: it holds for one signal, after which Ctrl-Z stops the process  *)
(* until the shell continues it, and a handler can interrupt itself.        *)
(* Ctrl-Z and Ctrl-C reach the script, too, which has no handlers.          *)
(****************************************************************************)
EXTENDS Integers, Sequences, FiniteSets, SequencesExt

CONSTANT MaxPresses       \* bound on Ctrl-Z

ASSUME StopContinueConstants == MaxPresses \in Nat

VARIABLES Z_program,      \* "zad1a" or "zad1b"
          Z_frames,       \* places of main and of the handlers that run
          Z_action,       \* of SIGTSTP: "default", or which of the two handlers
          Z_state,        \* "runs", "stopped" or "ended"
          Z_scripts,      \* state of each script; the last one is childPID
          Z_presses,
          Z_early         \* history variable: a Ctrl-Z came when the handler was
                          \* about to wait for it

Z_vars == <<Z_program, Z_frames, Z_action, Z_state, Z_scripts, Z_presses, Z_early>>

Z_Init ==
    /\ Z_program \in {"zad1a", "zad1b"}
    /\ Z_frames = <<"begin">> /\ Z_action = "default" /\ Z_state = "runs"
    /\ Z_scripts = <<>> /\ Z_presses = 0 /\ Z_early = FALSE

Place == Last(Z_frames)
Step(program, from, to) ==
    /\ Z_state = "runs" /\ Z_program \in program
    /\ Place = from /\ Z_frames' = Append(Front(Z_frames), to)
    /\ UNCHANGED <<Z_program, Z_state, Z_presses, Z_early>>
Both == {"zad1a", "zad1b"}

-----------------------------------------------------------------------------
(* main of zad1a: sets the handler again every second.                      *)
A_Begin == Step({"zad1a"}, "begin", "loop") /\ Z_action' = "first" /\ UNCHANGED Z_scripts
A_Arm   == Step({"zad1a"}, "loop", "sleep") /\ Z_action' = "first" /\ UNCHANGED Z_scripts
A_Sleep == Step({"zad1a"}, "sleep", "loop") /\ UNCHANGED <<Z_action, Z_scripts>>

(* main of zad1b: fork, with exec in the child, and pause.                  *)
NewScript == Z_scripts' = Append(Z_scripts, "runs")
B_Fork  == Step({"zad1b"}, "begin", "forked") /\ NewScript /\ UNCHANGED Z_action
B_Arm   == Step({"zad1b"}, "forked", "armed") /\ Z_action' = "first" /\ UNCHANGED Z_scripts
B_Pause == Step({"zad1b"}, "armed", "pause") /\ UNCHANGED <<Z_action, Z_scripts>>

(* catchSIGTSTP.                                                            *)

(* Seeded fault: childPID stays the first script's.                         *)
F_Kill_First ==
    /\ Step({"zad1b"}, "first", "first killed")
    /\ Z_scripts' = [Z_scripts EXCEPT ![1] = "killed"]
    /\ UNCHANGED Z_action

F_Kill ==
    /\ Step({"zad1b"}, "first", "first killed")
    /\ Z_scripts' = Append(Front(Z_scripts), "killed")
    /\ UNCHANGED Z_action
F_Arm ==
    /\ \/ Step({"zad1a"}, "first", "first armed")
       \/ Step({"zad1b"}, "first killed", "first armed")
    /\ Z_action' = "second" /\ UNCHANGED Z_scripts
F_Pause == Step(Both, "first armed", "first pause") /\ UNCHANGED <<Z_action, Z_scripts>>

(* catch2ndSIGTSTP of zad1a returns.  If it has interrupted pause, so does  *)
(* catchSIGTSTP, and the sleep that was interrupted is over.                *)
S_Return ==
    /\ Z_program = "zad1a" /\ Z_state = "runs" /\ Place = "second"
    /\ LET below == Front(Z_frames) IN
       Z_frames' = IF Last(below) = "first pause"
                   THEN <<IF Head(below) = "sleep" THEN "loop" ELSE Head(below)>>
                   ELSE below
    /\ UNCHANGED <<Z_program, Z_action, Z_state, Z_scripts, Z_presses, Z_early>>

(* catch2ndSIGTSTP of zad1b starts a script and waits; it never returns.    *)
S_Fork  == Step({"zad1b"}, "second", "second forked") /\ NewScript /\ UNCHANGED Z_action
S_Arm   == Step({"zad1b"}, "second forked", "second armed")
           /\ Z_action' = "first" /\ UNCHANGED Z_scripts
S_Pause == Step({"zad1b"}, "second armed", "second pause") /\ UNCHANGED <<Z_action, Z_scripts>>

-----------------------------------------------------------------------------
(* The terminal.                                                            *)

ScriptsBecome(from, to) ==
    Z_scripts' = [k \in DOMAIN Z_scripts |-> IF Z_scripts[k] = from THEN to ELSE Z_scripts[k]]

(* The handler runs on top of whatever runs, or the process is stopped.     *)
CtrlZ ==
    /\ Z_state = "runs" /\ Z_presses < MaxPresses
    /\ Z_presses' = Z_presses + 1
    /\ Z_state' = IF Z_action = "default" THEN "stopped" ELSE "runs"
    /\ Z_frames' = IF Z_action = "default" THEN Z_frames ELSE Append(Z_frames, Z_action)
    /\ Z_action' = "default"
    /\ Z_early' = (Z_early \/ Place = "first armed")
    /\ ScriptsBecome("runs", "stopped")
    /\ UNCHANGED Z_program

(* The shell continues what was stopped.                                    *)
Continue ==
    /\ Z_state = "stopped" /\ Z_state' = "runs"
    /\ ScriptsBecome("stopped", "runs")
    /\ UNCHANGED <<Z_program, Z_frames, Z_action, Z_presses, Z_early>>

(* Ctrl-C: catchSIGINT, or the default before it is set, ends the program.  *)
CtrlC ==
    /\ Z_state = "runs" /\ Z_state' = "ended"
    /\ ScriptsBecome("runs", "killed")
    /\ UNCHANGED <<Z_program, Z_frames, Z_action, Z_presses, Z_early>>

Z_Next ==
    \/ A_Begin \/ A_Arm \/ A_Sleep  \/ B_Fork \/ B_Arm \/ B_Pause
    \/ F_Kill  \/ F_Arm \/ F_Pause  \/ S_Return \/ S_Fork \/ S_Arm \/ S_Pause
    \/ CtrlZ   \/ Continue \/ CtrlC

Z_Spec == Z_Init /\ [][Z_Next]_Z_vars

-----------------------------------------------------------------------------
(* Properties                                                               *)

Alive == {k \in DOMAIN Z_scripts : Z_scripts[k] # "killed"}

(* However fast Ctrl-Z is pressed, at most one script is alive, none while  *)
(* the program says that it waits ("Oczekuje na CTRL+Z"), one while it does *)
(* not.  When it waits, Ctrl-Z lets it go on in zad1b always, and in zad1a  *)
(* if and only if none came between setting the handler and pause: that one *)
(* is used up, and each further Ctrl-Z stops the process in its wait.       *)
CtrlZToggles ==
    /\ Cardinality(Alive) <= 1
    /\ Place \in {"first armed", "first pause"} => Alive = {}
    /\ Place \in {"pause", "second pause"} /\ Z_state # "ended" => Alive # {}
    /\ Place = "first pause" =>
          Z_action = IF Z_program = "zad1a" /\ Z_early THEN "default" ELSE "second"

(* An early Ctrl-Z of zad1a is not made up for: the program is then in      *)
(* pause until Ctrl-C, also when the shell continues it.                    *)
Missed == Z_program = "zad1a" /\ Z_early /\ Place = "first pause"
WaitsOn == Missed => Missed' /\ UNCHANGED <<Z_frames, Z_action>>
=============================================================================

-------------------------------- MODULE Programs --------------------------------
(* What runs above the drivers, one program at a time.  A session of the      *)
(* system does one of six things: work on files with the shell, the editor    *)
(* and the Files window; type at the line of the shell; run a script; play    *)
(* sound; use the desktop with its windows; calculate in one of them.  The    *)
(* six share no state; the shell waits for whatever it started.               *)
EXTENDS Shell, ShellLine, Script, Sound, Desktop, Calculator

VARIABLE session   \* bound: what a session does; the disk matters to one of them

pvars == <<shvars, lvars, scvars, svars, dvars, cvars, session>>

ProgramsInit ==
  /\ ShellInit /\ LineInit /\ ScriptInit /\ SoundInit /\ DesktopInit /\ CalculatorInit
  /\ session \in {"files", "line", "script", "sound", "desktop", "calculator"}
  /\ session # "files" => node = CHOOSE disk \in Disks : TRUE

OnFiles ==
  /\ session = "files" /\ ShellNext
  /\ UNCHANGED <<lvars, scvars, svars, dvars, cvars, session>>
AtLine ==
  /\ session = "line" /\ LineNext
  /\ UNCHANGED <<shvars, scvars, svars, dvars, cvars, session>>
InScript ==
  /\ session = "script" /\ ScriptNext
  /\ UNCHANGED <<shvars, lvars, svars, dvars, cvars, session>>
WithSound(act) ==
  /\ session = "sound" /\ act
  /\ UNCHANGED <<shvars, lvars, scvars, dvars, cvars, session>>
OnDesktop ==
  /\ session = "desktop" /\ DesktopNext
  /\ UNCHANGED <<shvars, lvars, scvars, svars, cvars, session>>
InCalculator ==
  /\ session = "calculator" /\ CalculatorNext
  /\ UNCHANGED <<shvars, lvars, scvars, svars, dvars, session>>

ProgramsNext ==
  OnFiles \/ AtLine \/ InScript \/ WithSound(SoundNext) \/ OnDesktop \/ InCalculator

(* The loops of the programs tick and the card plays. *)
ProgramsSpec ==
  /\ ProgramsInit /\ [][ProgramsNext]_pvars
  /\ WF_pvars(WithSound(Tick)) /\ WF_pvars(WithSound(CardPlays))
================================================================================

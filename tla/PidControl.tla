------------------------------ MODULE PidControl -------------------------------
(***************************************************************************)
(* The two programs, probed and the tray, and the commands that start and  *)
(* stop them: `start`, `stop`, `probed`, `tray`, and the tray menu's Close *)
(* and Quit.  They work through one pid file per program, which a process  *)
(* writes when it begins and removes when it ends.  The file helpers       *)
(* (is_process_running, read_pid_file, write_pid_file, spawn_daemon,       *)
(* stop_process) are mm_clikit's and TrayApp is mm_pymac's, modelled from  *)
(* their use.                                                              *)
(***************************************************************************)
EXTENDS Integers

CONSTANTS
  Probeds,    \* bound: the pids of the probed processes ever started
  Trays,      \* bound: the pids of the tray processes ever started
  Terminals   \* each runs one command at a time

NoPid == 0
Pids == Probeds \cup Trays
Actors == Terminals \cup Trays  \* Quit is run by the tray itself
Programs == {"probed", "tray"}
PidsOf(g) == IF g = "probed" THEN Probeds ELSE Trays
ProgramOf(p) == IF p \in Probeds THEN "probed" ELSE "tray"

ASSUME PidAssumption ==
  /\ Pids \subseteq Nat \ {NoPid} /\ Probeds \cap Trays = {}
  /\ Terminals \cap Pids = {}

VARIABLES
  pidFile,  \* program -> what its file holds; NoPid: there is no such file
  proc,     \* pid -> where the process has got to
  asked,    \* pids told to end: shutdown event set, TrayApp.quit called
  op,       \* actor -> the command it is running, "none" when idle
  at,       \* actor -> its next step, "idle" when the command has returned
  on,       \* actor -> the program the step is about
  target,   \* actor -> the pid it stops
  said,     \* program -> what the last command about it reported
  crossed   \* history: the <<program, what>> that have crossed, see Crossings

codeVars == <<pidFile, proc, asked, op, at, on, target, said>>
vars == <<codeVars, crossed>>
procVars == <<proc, asked>>
cmdVars == <<op, at, on, target, said>>

Bare == {"booting", "checked", "bare"}  \* before probed's signal handlers
Booting == Bare \cup {"armed"}
Alive(p) == proc[p] \notin {"new", "dead"}
Running(p) == proc[p] = "running"
Busy(c) == at[c] # "idle" /\ IF c \in Trays THEN Alive(c) ELSE TRUE

\* What nothing in the code keeps apart: two processes of a program that have
\* both found no other running and not yet written the file, and a stop or Quit
\* at work on a program of which a process has yet to write the file.
TwoBoots(g) ==
  \E p, q \in PidsOf(g) : p # q /\ proc[p] = "checked" /\ proc[q] = "checked"
StopMeetsBoot(g) ==
  /\ \E c \in Actors : Busy(c) /\ op[c] \in {"stop", "quit"} /\ on[c] = g
  /\ \E p \in PidsOf(g) : proc[p] \in {"booting", "checked"}
Crossings ==
  {x \in Programs \X {"boot", "stop"} :
     IF x[2] = "boot" THEN TwoBoots(x[1]) ELSE StopMeetsBoot(x[1])}

\* Neither has happened to the program so far.
Apart(g) == <<g, "boot">> \notin crossed /\ <<g, "stop">> \notin crossed

Init ==
  /\ pidFile = [g \in Programs |-> NoPid]
  /\ proc = [p \in Pids |-> "new"]
  /\ asked = {}
  /\ op = [c \in Actors |-> "none"]
  /\ at = [c \in Actors |-> "idle"]
  /\ on = [c \in Actors |-> "probed"]
  /\ target = [c \in Actors |-> NoPid]
  /\ said = [g \in Programs |-> "not_running"]
  /\ crossed = {}

--------------------------------------------------------------------------------
\* Mutants of IsRunning and Reaped.
IsRunningNever(g) == FALSE
ReapedAlways(g) == NoPid

\* is_process_running(..., remove_stale=True): its answer, and the file after.
IsRunning(g) == pidFile[g] # NoPid /\ Alive(pidFile[g])
Reaped(g) == IF IsRunning(g) THEN pidFile[g] ELSE NoPid

\* What the dashboard's footer reports as running: the file is there, and
\* os.kill(pid, 0) finds the process it names.
Footer == IF pidFile["probed"] # NoPid /\ Alive(pidFile["probed"])
            THEN pidFile["probed"] ELSE NoPid

Goes(p, from, to) == proc[p] = from /\ proc' = [proc EXCEPT ![p] = to]
FileIs(g, pid) == pidFile' = [pidFile EXCEPT ![g] = pid]

\* The commands `probed` and `tray`: the check, and the file.  The tray is then
\* in its event loop.
Check(p) ==
  /\ Goes(p, "booting", IF IsRunning(ProgramOf(p)) THEN "dead" ELSE "checked")
  /\ FileIs(ProgramOf(p), Reaped(ProgramOf(p)))
  /\ UNCHANGED <<asked, cmdVars>>

WritePid(p) ==
  /\ Goes(p, "checked", IF p \in Probeds THEN "bare" ELSE "running")
  /\ FileIs(ProgramOf(p), p)
  /\ UNCHANGED <<asked, cmdVars>>

AddSignalHandlers(p) == Goes(p, "bare", "armed") /\ UNCHANGED <<pidFile, asked, cmdVars>>

\* The start-up purges are outside the try: one that raises leaves the file.
Purge(p) ==
  /\ Goes(p, "armed", "running") \/ Goes(p, "armed", "dead")
  /\ UNCHANGED <<pidFile, asked, cmdVars>>

\* The loops, or the event loop, have returned; the finally clause removes the
\* file, whoever's.
Finally(p) ==
  /\ p \in asked
  /\ Goes(p, "running", "exiting")
  /\ FileIs(ProgramOf(p), NoPid)
  /\ UNCHANGED <<asked, cmdVars>>

Exit(p) == Goes(p, "exiting", "dead") /\ UNCHANGED <<pidFile, asked, cmdVars>>

Crash(p) ==
  /\ Alive(p)
  /\ proc' = [proc EXCEPT ![p] = "dead"]
  /\ UNCHANGED <<pidFile, asked, cmdVars>>

\* The menu's "Close tray": TrayApp.quit, in the tray process.
CloseTray(p) ==
  /\ p \in Trays
  /\ Running(p) /\ ~Busy(p)
  /\ asked' = asked \cup {p}
  /\ UNCHANGED <<pidFile, proc, cmdVars>>

--------------------------------------------------------------------------------
GoesOn(c, from, to) ==
  /\ at[c] = from
  /\ at' = [at EXCEPT ![c] = to]
  /\ UNCHANGED <<op, on, said>>

Returns(c) ==
  /\ at' = [at EXCEPT ![c] = "idle"]
  /\ op' = [op EXCEPT ![c] = "none"]
  /\ on' = [on EXCEPT ![c] = "probed"]

GoesOnToTray(c) ==
  /\ on[c] = "probed"
  /\ at' = [at EXCEPT ![c] = "check"]
  /\ on' = [on EXCEPT ![c] = "tray"]
  /\ op' = op

\* The command has its outcome for one program; `start` and `stop` go on to the
\* tray whatever it is, Quit closes the tray it runs in.
Reports(c, outcome) ==
  /\ said' = [said EXCEPT ![on[c]] = outcome]
  /\ target' = [target EXCEPT ![c] = NoPid]
  /\ IF op[c] = "quit" THEN at' = [at EXCEPT ![c] = "leave"] /\ UNCHANGED <<op, on>>
     ELSE IF op[c] \in {"start", "stop"} /\ on[c] = "probed" THEN GoesOnToTray(c)
     ELSE Returns(c)

\* A terminal or a tray gives one command at a time, whatever the others do.
MayIssue(c, o) ==
  /\ ~Busy(c)
  /\ IF c \in Trays THEN o = "quit" /\ Running(c) /\ c \notin asked ELSE o # "quit"

\* A command is typed or clicked; `probed` and `tray` spawn nothing but
\* themselves.
Issue(c, o) ==
  /\ MayIssue(c, o)
  /\ op' = [op EXCEPT ![c] = o]
  /\ at' = [at EXCEPT ![c] = IF o \in Programs THEN "spawn" ELSE "check"]
  /\ on' = [on EXCEPT ![c] = IF o = "tray" THEN "tray" ELSE "probed"]
  /\ said' = [g \in Programs |->
                IF o = "start" \/ o = g THEN "none" ELSE said[g]]
  /\ UNCHANGED <<pidFile, procVars, target>>

StartChecks(c) ==
  /\ op[c] = "start" /\ at[c] = "check"
  /\ IF IsRunning(on[c])
       THEN Reports(c, "already_running")
       ELSE GoesOn(c, "check", "spawn") /\ target' = target
  /\ FileIs(on[c], Reaped(on[c]))
  /\ UNCHANGED procVars

\* The system numbers processes upwards.
Spawn(c) ==
  /\ at[c] = "spawn"
  /\ \E p \in PidsOf(on[c]) :
       /\ \A q \in PidsOf(on[c]) : q < p => proc[q] # "new"
       /\ Goes(p, "new", "booting")
  /\ Reports(c, "started")
  /\ UNCHANGED <<pidFile, asked>>

\* stop_by_pid_file, for `stop` (force_kill=False) and Quit (force_kill=True).
StopChecks(c) ==
  /\ op[c] \in {"stop", "quit"} /\ at[c] = "check"
  /\ IF IsRunning(on[c])
       THEN GoesOn(c, "check", "read") /\ target' = target
       ELSE Reports(c, "not_running")
  /\ FileIs(on[c], Reaped(on[c]))
  /\ UNCHANGED procVars

\* SIGTERM (or, for a process in a terminal, Ctrl-C): it kills a process without
\* handlers, the tray always, and asks one that has them.
Signalled(p) ==
  /\ proc' = [proc EXCEPT ![p] = IF @ \in Bare \/ p \in Trays THEN "dead" ELSE @]
  /\ asked' = IF p \in Probeds /\ proc[p] \in {"armed", "running"}
                THEN asked \cup {p} ELSE asked

Interrupt(p) == Alive(p) /\ Signalled(p) /\ UNCHANGED <<pidFile, cmdVars>>

Terminate(c) ==
  /\ at[c] = "read"
  /\ IF pidFile[on[c]] = NoPid
       THEN Reports(c, "not_running") /\ UNCHANGED procVars
       ELSE /\ GoesOn(c, "read", "wait")
            /\ target' = [target EXCEPT ![c] = pidFile[on[c]]]
            /\ Signalled(pidFile[on[c]])
  /\ UNCHANGED pidFile

WaitSeesExit(c) ==
  /\ at[c] = "wait"
  /\ ~Alive(target[c])
  /\ GoesOn(c, "wait", "unlink")
  /\ UNCHANGED <<pidFile, procVars, target>>

\* Mutants: what stop_process returned is ignored; force_kill is not passed on;
\* Quit waits without a timeout.
WaitTimeoutIsStopped(c) ==
  /\ GoesOn(c, "wait", "unlink")
  /\ UNCHANGED <<pidFile, procVars, target>>
WaitNeverKills(c) ==
  /\ at[c] = "wait"
  /\ Alive(target[c])
  /\ Reports(c, "timeout")
  /\ UNCHANGED <<pidFile, procVars>>

WaitStopOnly(c) ==
  /\ at[c] = "wait" /\ op[c] = "stop"
  /\ Alive(target[c])
  /\ Reports(c, "timeout")
  /\ UNCHANGED <<pidFile, procVars>>

\* A drain may outlast the timeout (Daemon, DrainBounded): `stop` gives up,
\* Quit sends SIGKILL.
WaitTimesOut(c) ==
  /\ at[c] = "wait"
  /\ Alive(target[c])
  /\ IF op[c] = "stop"
       THEN Reports(c, "timeout") /\ UNCHANGED proc
       ELSE /\ GoesOn(c, "wait", "unlink")
            /\ proc' = [proc EXCEPT ![target[c]] = "dead"]
            /\ target' = target
  /\ UNCHANGED <<pidFile, asked>>

Unlink(c) ==
  /\ at[c] = "unlink"
  /\ Reports(c, "stopped")
  /\ FileIs(on[c], NoPid)
  /\ UNCHANGED procVars

\* Quit ends with TrayApp.quit, whatever the outcome.
Leave(c) ==
  /\ at[c] = "leave"
  /\ Returns(c)
  /\ asked' = asked \cup {c}
  /\ UNCHANGED <<pidFile, proc, target, said>>

--------------------------------------------------------------------------------
CommandStep(c) ==
  /\ Busy(c)
  /\ \/ StartChecks(c) \/ Spawn(c)
     \/ StopChecks(c) \/ Terminate(c) \/ WaitSeesExit(c) \/ WaitTimesOut(c) \/ Unlink(c)
     \/ Leave(c)

ProcessStep(p) ==
  Check(p) \/ WritePid(p) \/ AddSignalHandlers(p) \/ Purge(p) \/ Finally(p) \/ Exit(p)

CodeStep ==
  \/ \E c \in Actors :
       CommandStep(c) \/ \E o \in {"start", "stop", "quit"} \cup Programs : Issue(c, o)
  \/ \E p \in Pids : ProcessStep(p) \/ Crash(p) \/ Interrupt(p) \/ CloseTray(p)

Next == CodeStep /\ crossed' = crossed \cup Crossings'

\* Processes run and the tray's event loop turns; nobody has to give commands,
\* and a drain takes its time.
Spec ==
  /\ Init /\ [][Next]_vars
  /\ \A c \in Actors : WF_codeVars(CommandStep(c))
  /\ \A p \in Trays : WF_codeVars(ProcessStep(p))

--------------------------------------------------------------------------------
CodeTypeOK ==
  /\ pidFile \in [Programs -> Pids \cup {NoPid}]
  /\ \A g \in Programs : pidFile[g] \in PidsOf(g) \cup {NoPid}
  /\ proc \in [Pids -> Booting \cup {"new", "running", "exiting", "dead"}]
  /\ asked \subseteq Pids
  /\ op \in [Actors -> {"none", "start", "stop", "quit"} \cup Programs]
  /\ at \in [Actors -> {"idle", "check", "spawn", "read", "wait", "unlink", "leave"}]
  /\ on \in [Actors -> Programs]
  /\ target \in [Actors -> Pids \cup {NoPid}]
  /\ said \in [Programs -> {"none", "already_running", "started", "not_running",
                            "stopped", "timeout"}]
  /\ \A c \in Actors : op[c] = "quit" => target[c] \in Probeds \cup {NoPid}

TypeOK == CodeTypeOK /\ crossed \subseteq Programs \X {"boot", "stop"}

\* probed.py:16 and tray.py:14, "already running": two daemons never write to the
\* database at the same time and no two trays show.
AtMostOneEach ==
  \A p, q \in Pids : Running(p) /\ Running(q) /\ ProgramOf(p) = ProgramOf(q) => p = q

\* The same of a program whose boots and stops have not crossed, whatever
\* crashes, failed boots, stale files, stops that timed out, starts given together
\* and stops and Quits given together there have been.
OneEachUnlessCrossed ==
  \A p, q \in Pids :
    Running(p) /\ Running(q) /\ ProgramOf(p) = ProgramOf(q) /\ Apart(ProgramOf(p)) => p = q

\* A daemon that runs its loops is the one the dashboard's footer reports and a
\* tray in the menu bar is the one its file names, so `stop` and Quit find them:
\* neither is an orphan unless a boot has crossed another or a stop.
RunningIsReachable ==
  \A p \in Pids : Running(p) /\ Apart(ProgramOf(p)) =>
    p = IF p \in Probeds THEN Footer ELSE pidFile["tray"]

\* When a stop or a Quit has said "stopped" or "not running" of a program, and
\* until a command starts it again, no process of that program runs or is about
\* to, unless a boot has crossed another or a stop: also when `stop` and Quit
\* overlap, one of them times out, or `stop` ends the tray in its Quit.
StoppedMeansSilent ==
  \A g \in Programs : said[g] \in {"stopped", "not_running"} /\ Apart(g) =>
    \A p \in PidsOf(g) : proc[p] \notin Booting \cup {"running"}

\* tray.py:72: "leaving a zombie probed after a 'Quit Netwatch' click would be
\* worse than a SIGKILL": when Quit closes the tray no daemon is left running,
\* unless a boot has crossed another or a stop.
QuitLeavesNoProbed ==
  \A t \in Trays : op[t] = "quit" /\ at[t] = "leave" /\ Alive(t) /\ Apart("probed") =>
    \A p \in Probeds : ~Alive(p) \/ proc[p] = "exiting"

\* A Quit ends with the tray gone, however long the daemon drains.
QuitSucceeds == \A t \in Trays : at[t] # "idle" ~> ~Alive(t)

================================================================================

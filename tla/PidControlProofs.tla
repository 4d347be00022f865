--------------------------- MODULE PidControlProofs -----------------------------
(***************************************************************************)
(* The safety properties of the two programs and their pid files, for any  *)
(* number of processes and terminals and every order of their steps: what  *)
(* holds of a program until a boot of it crosses another boot or a stop,   *)
(* and what each command acts on, which holds always.                      *)
(***************************************************************************)
EXTENDS PidControl, TLAPS

Starting == {"start"} \cup Programs
Stopping == {"stop", "quit"}

\* From the write of its pid file to the end of its loops.
Held == {"bare", "armed", "running"}

\* What a command's next step says of the command.
Steps ==
  /\ \A c \in Actors :
       /\ at[c] = "check" => op[c] \in {"start", "stop", "quit"}
       /\ at[c] = "spawn" => op[c] \in Starting
       /\ at[c] \in {"read", "wait", "unlink"} => op[c] \in Stopping
       /\ at[c] = "leave" => op[c] = "quit"
       /\ op[c] = "quit" => on[c] = "probed" /\ c \in Trays
       /\ at[c] \notin {"wait", "unlink"} => target[c] = NoPid
  /\ \A t \in Trays : proc[t] = "new" => at[t] = "idle"

\* No two processes of g are between the check and the write, and no stop is at
\* work on g while one has yet to write.
Calm(g) == ~ TwoBoots(g) /\ ~ StopMeetsBoot(g)

\* What crosses is noted.
Noted == Crossings \subseteq crossed /\ crossed \subseteq Programs \X {"boot", "stop"}

\* The file names the process that wrote it as long as that process needs it.
Named(g) == \A p \in PidsOf(g) : proc[p] \in Held => pidFile[g] = p

\* One that has found no other running is still right when it writes its file.
Fresh(g) ==
  \A p, q \in PidsOf(g) : proc[p] = "checked" => proc[q] \notin Held

\* What a stopping command waits for is all there is to stop, and it has got rid
\* of it when it removes the file, or leaves.
StopsAll(c, g) ==
  Busy(c) /\ on[c] = g =>
    \A p \in PidsOf(g) :
      /\ at[c] = "wait" /\ proc[p] \in Held => p = target[c]
      /\ at[c] \in {"unlink", "leave"} => proc[p] \notin Held

\* Nothing runs, and nothing is on its way, of a program reported stopped.
Silent(g) ==
  said[g] \in {"stopped", "not_running"} =>
    \A p \in PidsOf(g) : proc[p] \notin Booting \cup {"running"}

Kept(g) ==
  /\ Named(g)
  /\ Fresh(g)
  /\ \A c \in Actors : StopsAll(c, g)
  /\ Silent(g)

IInv ==
  /\ CodeTypeOK
  /\ Steps
  /\ Noted
  /\ \A g \in Programs : Apart(g) => Kept(g)

--------------------------------------------------------------------------------
Types == {"none", "start", "stop", "quit"} \cup Programs
Places == {"idle", "check", "spawn", "read", "wait", "unlink", "leave"}

\* A step of c's command is no step of another's.
Others(c) ==
  \A d \in Actors \ {c} :
    at'[d] = at[d] /\ op'[d] = op[d] /\ on'[d] = on[d] /\ target'[d] = target[d]

States == Booting \cup {"new", "running", "exiting", "dead"}
Files ==
  /\ pidFile \in [Programs -> Pids \cup {NoPid}]
  /\ \A g \in Programs : pidFile[g] \in PidsOf(g) \cup {NoPid}

\* NoPid is nobody's, and a pid belongs to one program.
LEMMA PidFacts ==
  /\ NoPid \notin Pids
  /\ \A p \in Pids : ProgramOf(p) \in Programs /\ p \in PidsOf(ProgramOf(p))
  /\ \A g \in Programs : \A p \in PidsOf(g) : p \in Pids /\ ProgramOf(p) = g
  /\ \A p \in Pids : p \in Probeds <=> ProgramOf(p) = "probed"
BY PidAssumption DEF Pids, PidsOf, ProgramOf, Programs, NoPid

\* The end of a command's work on one program.
LEMMA ReportsIs ==
  ASSUME CodeTypeOK, NEW c \in Actors, NEW outcome, Reports(c, outcome)
  PROVE  /\ Others(c)
         /\ said' = [said EXCEPT ![on[c]] = outcome]
         /\ at' \in [Actors -> Places] /\ op' \in [Actors -> Types]
         /\ on' \in [Actors -> Programs] /\ target' \in [Actors -> Pids \cup {NoPid}]
         /\ target'[c] = NoPid
         /\ \/ /\ op[c] = "quit"
               /\ at'[c] = "leave" /\ op'[c] = op[c] /\ on'[c] = on[c]
            \/ /\ op[c] \in {"start", "stop"} /\ on[c] = "probed"
               /\ at'[c] = "check" /\ op'[c] = op[c] /\ on'[c] = "tray"
            \/ /\ op[c] # "quit" /\ op[c] \in {"start", "stop"} => on[c] = "tray"
               /\ at'[c] = "idle" /\ op'[c] = "none" /\ on'[c] = "probed"
PROOF
  <1> USE DEF CodeTypeOK, Types, Places, Others, Programs
  <1>1. CASE op[c] = "quit"
    BY <1>1 DEF Reports
  <1>2. CASE op[c] \in {"start", "stop"} /\ on[c] = "probed"
    BY <1>2 DEF Reports, GoesOnToTray
  <1>3. CASE op[c] # "quit" /\ (op[c] \in {"start", "stop"} => on[c] = "tray")
    BY <1>3 DEF Reports, Returns
  <1> QED BY <1>1, <1>2, <1>3

\* A command goes on to its next step.
LEMMA GoesOnIs ==
  ASSUME CodeTypeOK, NEW c \in Actors, NEW from, NEW to \in Places, GoesOn(c, from, to)
  PROVE  /\ at[c] = from /\ at' \in [Actors -> Places] /\ at'[c] = to
         /\ \A d \in Actors \ {c} : at'[d] = at[d]
         /\ op' = op /\ on' = on /\ said' = said
BY DEF CodeTypeOK, GoesOn, Places

\* What a process does by itself, or a user to it, changes no command and gives
\* no file to another program.
LEMMA ProcessTypes ==
  ASSUME CodeTypeOK, Steps, NEW p \in Pids,
         ProcessStep(p) \/ Crash(p) \/ Interrupt(p) \/ CloseTray(p)
  PROVE  /\ CodeTypeOK' /\ Steps' /\ proc' \in [Pids -> States]
         /\ UNCHANGED cmdVars
         /\ \/ proc' = proc
            \/ \E to \in States :
                 /\ proc' = [proc EXCEPT ![p] = to]
                 /\ \/ proc[p] = "booting" /\ to \in {"checked", "dead"}
                    \/ proc[p] = "checked" /\ to = (IF p \in Probeds THEN "bare" ELSE "running")
                    \/ proc[p] = "bare" /\ to = "armed"
                    \/ proc[p] = "armed" /\ to = "running"
                    \/ Alive(p) /\ to = "dead"
                    \/ proc[p] = "running" /\ to = "exiting"
PROOF
  <1> USE DEF States
  <1>1. proc \in [Pids -> States] /\ pidFile \in [Programs -> Pids \cup {NoPid}]
        /\ \A g \in Programs : pidFile[g] \in PidsOf(g) \cup {NoPid}
    BY DEF CodeTypeOK
  <1>2. /\ UNCHANGED cmdVars
        /\ \/ proc' = proc
           \/ \E to \in States :
                /\ proc' = [proc EXCEPT ![p] = to]
                /\ \/ proc[p] = "booting" /\ to \in {"checked", "dead"}
                   \/ proc[p] = "checked" /\ to = (IF p \in Probeds THEN "bare" ELSE "running")
                   \/ proc[p] = "bare" /\ to = "armed"
                   \/ proc[p] = "armed" /\ to = "running"
                   \/ Alive(p) /\ to = "dead"
                   \/ proc[p] = "running" /\ to = "exiting"
    BY <1>1 DEF ProcessStep, Check, WritePid, AddSignalHandlers, Purge, Finally, Exit,
                Crash, Interrupt, Signalled, CloseTray, Goes, Booting, Bare, Alive
  <1>3. proc' \in [Pids -> States] /\ \A q \in Pids : proc'[q] = "new" => proc[q] = "new"
    BY <1>1, <1>2 DEF Alive
  <1>4. pidFile' \in [Programs -> Pids \cup {NoPid}]
        /\ \A g \in Programs : pidFile'[g] \in PidsOf(g) \cup {NoPid}
    BY <1>1, PidFacts DEF ProcessStep, Check, WritePid, AddSignalHandlers, Purge, Finally,
       Exit, Crash, Interrupt, CloseTray, FileIs, Reaped
  <1>5. asked' \subseteq Pids
    BY DEF CodeTypeOK, ProcessStep, Check, WritePid, AddSignalHandlers, Purge, Finally,
       Exit, Crash, Interrupt, Signalled, CloseTray
  <1>6. CodeTypeOK'
    BY <1>2, <1>3, <1>4, <1>5 DEF cmdVars, CodeTypeOK
  <1>7. Steps'
    BY <1>2, <1>3 DEF cmdVars, Steps, Pids
  <1> QED BY <1>2, <1>3, <1>6, <1>7

\* A command that is given begins at its first step.
LEMMA IssueTypes ==
  ASSUME CodeTypeOK, Steps, NEW c \in Actors,
         NEW o \in {"start", "stop", "quit"} \cup Programs, Issue(c, o)
  PROVE  CodeTypeOK' /\ Steps'
PROOF
  <1>1. /\ op' = [op EXCEPT ![c] = o]
        /\ at' = [at EXCEPT ![c] = IF o \in Programs THEN "spawn" ELSE "check"]
        /\ on' = [on EXCEPT ![c] = IF o = "tray" THEN "tray" ELSE "probed"]
        /\ said' = [g \in Programs |-> IF o = "start" \/ o = g THEN "none" ELSE said[g]]
        /\ UNCHANGED <<pidFile, proc, asked, target>>
    BY DEF Issue, procVars
  <1>2. /\ ~ Busy(c)
        /\ IF c \in Trays THEN o = "quit" /\ Running(c) ELSE o # "quit"
    BY DEF Issue, MayIssue
  <1>3. CodeTypeOK'
    BY <1>1, <1>2 DEF CodeTypeOK, Programs, Steps, Busy, Alive, Running
  <1>4. Steps'
    BY <1>1, <1>2 DEF CodeTypeOK, Steps, Programs, Starting, Stopping, Running, Busy, Alive
  <1> QED BY <1>3, <1>4

\* A command that has an outcome begins with the other program, leaves or returns.
LEMMA ReportTypes ==
  ASSUME CodeTypeOK, Steps, NEW c \in Actors, Busy(c),
         NEW outcome \in {"already_running", "started", "not_running", "stopped", "timeout"},
         Reports(c, outcome),
         asked' \subseteq Pids, Files', proc' \in [Pids -> States],
         \A t \in Trays : proc'[t] = "new" => proc[t] = "new",
         at[c] # "leave"
  PROVE  CodeTypeOK' /\ Steps'
PROOF
  <1>1. /\ Others(c)
        /\ said' = [said EXCEPT ![on[c]] = outcome]
        /\ at' \in [Actors -> Places] /\ op' \in [Actors -> Types]
        /\ on' \in [Actors -> Programs] /\ target' \in [Actors -> Pids \cup {NoPid}]
        /\ target'[c] = NoPid
        /\ \/ /\ op[c] = "quit"
              /\ at'[c] = "leave" /\ op'[c] = op[c] /\ on'[c] = on[c]
           \/ /\ op[c] \in {"start", "stop"}
              /\ at'[c] = "check" /\ op'[c] = op[c] /\ on'[c] = "tray"
           \/ at'[c] = "idle" /\ op'[c] = "none" /\ on'[c] = "probed"
    BY ReportsIs
  <1>2. said' \in [Programs -> {"none", "already_running", "started", "not_running",
                                "stopped", "timeout"}]
    BY <1>1 DEF CodeTypeOK
  <1>3. \A d \in Actors : op'[d] = "quit" => target'[d] \in Probeds \cup {NoPid}
    BY <1>1 DEF CodeTypeOK, Others
  <1>4. Steps'
    BY <1>1 DEF Steps, CodeTypeOK, Others, Busy, Alive, Actors, Pids
  <1> QED BY <1>1, <1>2, <1>3, <1>4 DEF CodeTypeOK, Types, Places, Files, States

\* A command that goes on does so with a step its kind has.
LEMMA GoOnTypes ==
  ASSUME CodeTypeOK, Steps, NEW c \in Actors, Busy(c),
         NEW from, NEW to \in {"spawn", "read", "wait", "unlink"}, GoesOn(c, from, to),
         asked' \subseteq Pids, Files', proc' \in [Pids -> States],
         \A t \in Trays : proc'[t] = "new" => proc[t] = "new",
         target' \in [Actors -> Pids \cup {NoPid}],
         \A d \in Actors \ {c} : target'[d] = target[d],
         op[c] = "quit" => target'[c] \in Probeds \cup {NoPid},
         op[c] \in (IF to = "spawn" THEN Starting ELSE Stopping),
         to \in {"spawn", "read"} => target'[c] = NoPid
  PROVE  CodeTypeOK' /\ Steps'
PROOF
  <1>1. /\ at' \in [Actors -> Places] /\ at'[c] = to
        /\ \A d \in Actors \ {c} : at'[d] = at[d]
        /\ op' = op /\ on' = on /\ said' = said
    BY GoesOnIs DEF Places
  <1>2. CodeTypeOK'
    BY <1>1 DEF CodeTypeOK, Places, Files, States
  <1>3. Steps'
    BY <1>1 DEF Steps, CodeTypeOK, Busy, Alive, Starting, Actors, Pids
  <1> QED BY <1>2, <1>3

\* A tray that leaves has been asked to end.
LEMMA LeaveTypes ==
  ASSUME CodeTypeOK, Steps, NEW c \in Actors, Leave(c)
  PROVE  CodeTypeOK' /\ Steps'
PROOF
  <1>1. /\ at[c] = "leave" /\ op[c] = "quit" /\ target[c] = NoPid /\ c \in Pids
        /\ at' = [at EXCEPT ![c] = "idle"] /\ op' = [op EXCEPT ![c] = "none"]
        /\ on' = [on EXCEPT ![c] = "probed"] /\ asked' = asked \cup {c}
        /\ UNCHANGED <<pidFile, proc, target, said>>
    BY DEF Leave, Returns, Steps, Pids
  <1>2. CodeTypeOK'
    BY <1>1 DEF CodeTypeOK, Programs
  <1>3. Steps'
    BY <1>1 DEF CodeTypeOK, Steps
  <1> QED BY <1>2, <1>3

\* A process is spawned of the program that the command is about.
LEMMA SpawnTypes ==
  ASSUME CodeTypeOK, Steps, NEW c \in Actors, Busy(c), Spawn(c)
  PROVE  CodeTypeOK' /\ Steps'
PROOF
  <1>1. PICK p \in PidsOf(on[c]) : proc[p] = "new" /\ proc' = [proc EXCEPT ![p] = "booting"]
    BY DEF Spawn, Goes
  <1>2. /\ at[c] = "spawn" /\ Reports(c, "started") /\ p \in Pids
        /\ pidFile' = pidFile /\ asked' = asked /\ proc \in [Pids -> States]
    BY <1>1, PidFacts DEF Spawn, CodeTypeOK, States
  <1>3. proc' \in [Pids -> States] /\ \A t \in Trays : proc'[t] = "new" => proc[t] = "new"
    BY <1>1, <1>2 DEF States, Booting, Bare, Pids
  <1>4. Files' /\ asked' \subseteq Pids
    BY <1>2 DEF CodeTypeOK, Files
  <1> QED BY <1>2, <1>3, <1>4, ReportTypes

\* A step of a command that stops, or checks before it starts, a program.
LEMMA StepTypes ==
  ASSUME CodeTypeOK, Steps, NEW c \in Actors, Busy(c),
         \/ StartChecks(c) \/ StopChecks(c) \/ Terminate(c)
         \/ WaitSeesExit(c) \/ WaitTimesOut(c) \/ Unlink(c)
  PROVE  CodeTypeOK' /\ Steps'
PROOF
  <1>1. /\ proc \in [Pids -> States] /\ asked \subseteq Pids /\ Files /\ on[c] \in Programs
        /\ target \in [Actors -> Pids \cup {NoPid}]
    BY DEF CodeTypeOK, States, Files
  <1>2. Files' /\ asked' \subseteq Pids
    BY <1>1, PidFacts DEF StartChecks, StopChecks, Terminate, WaitSeesExit, WaitTimesOut,
       Unlink, FileIs, Reaped, Signalled, Files, procVars
  <1>3. proc' \in [Pids -> States] /\ \A t \in Trays : proc'[t] = "new" => proc[t] = "new"
    BY <1>1 DEF StartChecks, StopChecks, Terminate, WaitSeesExit, WaitTimesOut, Unlink,
       Signalled, procVars, States, Pids
  <1>4. CASE \E outcome \in {"already_running", "not_running", "stopped", "timeout"} :
               Reports(c, outcome) /\ at[c] # "leave"
    BY <1>2, <1>3, <1>4, ReportTypes
  <1>5. CASE /\ at[c] = "check" /\ target' = target
             /\ \/ op[c] \in Starting /\ GoesOn(c, "check", "spawn")
                \/ op[c] \in Stopping /\ GoesOn(c, "check", "read")
    <2>1. target'[c] = NoPid
      BY <1>5 DEF Steps
    <2> QED BY <1>1, <1>2, <1>3, <1>5, <2>1, GoOnTypes
  <1>6. CASE /\ at[c] = "read" /\ pidFile[on[c]] # NoPid /\ GoesOn(c, "read", "wait")
             /\ target' = [target EXCEPT ![c] = pidFile[on[c]]]
    <2>1. /\ op[c] \in Stopping /\ target'[c] = pidFile[on[c]]
          /\ pidFile[on[c]] \in PidsOf(on[c]) /\ target'[c] \in Pids
          /\ op[c] = "quit" => target'[c] \in Probeds
      BY <1>1, <1>6, PidFacts DEF Steps, Files, PidsOf
    <2> QED BY <1>1, <1>2, <1>3, <1>6, <2>1, GoOnTypes
  <1>7. CASE at[c] = "wait" /\ GoesOn(c, "wait", "unlink") /\ target' = target
    <2>1. op[c] \in Stopping /\ (op[c] = "quit" => target'[c] \in Probeds \cup {NoPid})
      BY <1>7 DEF Steps, CodeTypeOK
    <2> QED BY <1>1, <1>2, <1>3, <1>7, <2>1, GoOnTypes
  <1> QED BY <1>4, <1>5, <1>6, <1>7 DEF StartChecks, StopChecks, Terminate, WaitSeesExit,
       WaitTimesOut, Unlink, Starting, Stopping

\* Every step leaves every command with something its kind does.
LEMMA TypesInductive ==
  ASSUME CodeTypeOK, Steps, [CodeStep]_codeVars
  PROVE  CodeTypeOK' /\ Steps'
PROOF
  <1>1. CASE UNCHANGED codeVars
    BY <1>1 DEF codeVars, CodeTypeOK, Steps
  <1>2. CASE \E c \in Actors : CommandStep(c)
    BY <1>2, SpawnTypes, StepTypes, LeaveTypes DEF CommandStep
  <1>3. CASE \E c \in Actors, o \in {"start", "stop", "quit"} \cup Programs : Issue(c, o)
    BY <1>3, IssueTypes
  <1>4. CASE \E p \in Pids : ProcessStep(p) \/ Crash(p) \/ Interrupt(p) \/ CloseTray(p)
    BY <1>4, ProcessTypes
  <1> QED BY <1>1, <1>2, <1>3, <1>4 DEF CodeStep

--------------------------------------------------------------------------------
\* While a stopping command is at work on a calm program none of it boots.
LEMMA StopAlone ==
  ASSUME NEW g, Calm(g), NEW c \in Actors, Busy(c), op[c] \in Stopping, on[c] = g
  PROVE  \A p \in PidsOf(g) : proc[p] \notin {"booting", "checked"}
BY DEF Calm, StopMeetsBoot, Stopping

\* is_process_running cleans up no file that is needed, and its answer is right.
LEMMA ReapedIs ==
  ASSUME CodeTypeOK, NEW g \in Programs, Named(g)
  PROVE  /\ \A p \in PidsOf(g) : proc[p] \in Held => Reaped(g) = p
         /\ ~ IsRunning(g) => \A p \in PidsOf(g) : proc[p] \notin Held
PROOF
  <1>1. \A p \in PidsOf(g) : proc[p] \in Held => pidFile[g] = p /\ IsRunning(g)
    BY PidFacts DEF Named, IsRunning, Held, Alive
  <1> QED BY <1>1 DEF Reaped

\* What a process does by itself, or a user to it, keeps what is promised of its
\* program: it writes its file only when no other needs it and no stop is at work.
LEMMA ProcessKeeps ==
  ASSUME CodeTypeOK, Steps, NEW p \in Pids,
         ProcessStep(p) \/ Crash(p) \/ Interrupt(p) \/ CloseTray(p),
         NEW g \in Programs, Calm(g), Kept(g)
  PROVE  Kept(g)'
PROOF
  <1>1. /\ proc \in [Pids -> States] /\ pidFile \in [Programs -> Pids \cup {NoPid}]
        /\ PidsOf(g) \subseteq Pids /\ g \in Programs
    BY PidFacts DEF CodeTypeOK, States
  <1>2. /\ UNCHANGED cmdVars
        /\ \/ proc' = proc
           \/ \E to \in States :
                /\ proc' = [proc EXCEPT ![p] = to]
                /\ \/ proc[p] = "booting" /\ to \in {"checked", "dead"}
                   \/ proc[p] = "checked" /\ to = (IF p \in Probeds THEN "bare" ELSE "running")
                   \/ proc[p] = "bare" /\ to = "armed"
                   \/ proc[p] = "armed" /\ to = "running"
                   \/ Alive(p) /\ to = "dead"
                   \/ proc[p] = "running" /\ to = "exiting"
    BY ProcessTypes
  <1>3. op' = op /\ at' = at /\ on' = on /\ target' = target /\ said' = said
    BY <1>2 DEF cmdVars
  <1>4. \A q \in Pids :
          /\ q # p => proc'[q] = proc[q]
          /\ Alive(q)' => Alive(q)
          /\ proc'[q] = "checked" => proc[q] \in {"booting", "checked"}
          /\ proc'[q] \in Held => proc[q] \in Held \cup {"checked"}
          /\ proc'[q] \in Booting \cup {"running"} => proc[q] \in Booting \cup {"running"}
    BY <1>1, <1>2 DEF Alive, Booting, Bare, Held
  <1>5. Silent(g)'
    BY <1>1, <1>3, <1>4 DEF Kept, Silent
  <1>6. \A c \in Actors : StopsAll(c, g)'
    <2> SUFFICES ASSUME NEW c \in Actors, Busy(c)', on[c] = g,
                        at[c] \in {"wait", "unlink", "leave"}
                 PROVE  /\ Busy(c)
                        /\ \A q \in PidsOf(g) : proc'[q] \in Held => proc[q] \in Held
      BY <1>3 DEF Kept, StopsAll
    <2>1. Busy(c)
      BY <1>3, <1>4 DEF Busy, Pids
    <2>2. op[c] \in Stopping
      BY DEF Steps, Stopping
    <2> QED BY <1>1, <1>4, <2>1, <2>2, StopAlone
  <1>7. Named(g)' /\ Fresh(g)'
    <2>1. CASE ProgramOf(p) # g
      <3>1. \A q \in PidsOf(g) : proc'[q] = proc[q]
        BY <1>1, <1>4, <2>1, PidFacts
      <3>2. pidFile'[g] = pidFile[g]
        BY <1>1, <2>1 DEF ProcessStep, Check, WritePid, AddSignalHandlers, Purge, Finally,
           Exit, Crash, Interrupt, CloseTray, FileIs
      <3> QED BY <3>1, <3>2 DEF Kept, Named, Fresh
    <2>2. CASE ProgramOf(p) = g /\ Check(p)
      <3>1. FileIs(g, Reaped(g)) /\ (proc'[p] = "checked" => ~ IsRunning(g))
        BY <1>1, <2>2 DEF Check, Goes
      <3>2. \A q \in PidsOf(g) : proc'[q] \in Held => proc[q] \in Held
        BY <1>1, <1>4, <2>2 DEF Check, Goes, Held
      <3>3. Named(g)'
        BY <1>1, <3>1, <3>2, ReapedIs DEF Kept, Named, FileIs
      <3>4. Fresh(g)'
        BY <1>1, <1>4, <3>1, <3>2, ReapedIs DEF Kept, Fresh
      <3> QED BY <3>3, <3>4
    <2>3. CASE ProgramOf(p) = g /\ WritePid(p)
      <3>1. p \in PidsOf(g) /\ proc[p] = "checked" /\ FileIs(g, p)
            /\ proc'[p] \in Held
        BY <1>1, <2>3, PidFacts DEF WritePid, Goes, Held
      <3>2. \A q \in PidsOf(g) : proc[q] \notin Held /\ (q # p => proc[q] # "checked")
        BY <3>1 DEF Kept, Fresh, Calm, TwoBoots
      <3>3. \A q \in PidsOf(g) : q # p => proc'[q] \notin Held \cup {"checked"}
        BY <1>1, <1>4, <3>2
      <3> QED BY <1>1, <3>1, <3>3 DEF Named, Fresh, FileIs, Held
    <2>4. CASE ProgramOf(p) = g /\ Finally(p)
      <3>1. p \in PidsOf(g) /\ proc[p] = "running" /\ FileIs(g, NoPid)
            /\ proc'[p] = "exiting"
        BY <1>1, <2>4, PidFacts DEF Finally, Goes
      <3>2. \A q \in PidsOf(g) : proc[q] \in Held => q = p
        BY <3>1 DEF Kept, Named, Held
      <3>3. \A q \in PidsOf(g) : proc'[q] \notin Held
        BY <1>1, <1>4, <3>1, <3>2 DEF Held
      <3> QED BY <3>3 DEF Named, Fresh
    <2>5. CASE ~ (Check(p) \/ WritePid(p) \/ Finally(p))
      <3>1. pidFile' = pidFile
        BY <2>5 DEF ProcessStep, AddSignalHandlers, Purge, Exit, Crash, Interrupt, CloseTray
      <3>2. \A q \in Pids : /\ proc'[q] \in Held => proc[q] \in Held
                            /\ proc'[q] = "checked" => proc[q] = "checked"
        BY <1>1, <2>5 DEF ProcessStep, AddSignalHandlers, Purge, Exit, Crash, Interrupt,
           Signalled, CloseTray, Goes, Held
      <3> QED BY <1>1, <3>1, <3>2 DEF Kept, Named, Fresh
    <2> QED BY <2>1, <2>2, <2>3, <2>4, <2>5
  <1> QED BY <1>5, <1>6, <1>7 DEF Kept

\* A command that is given has promised nothing yet.
LEMMA IssueKeeps ==
  ASSUME CodeTypeOK, NEW c \in Actors,
         NEW o \in {"start", "stop", "quit"} \cup Programs, Issue(c, o),
         NEW g \in Programs, Kept(g)
  PROVE  Kept(g)'
PROOF
  <1>1. /\ op' = [op EXCEPT ![c] = o]
        /\ at' = [at EXCEPT ![c] = IF o \in Programs THEN "spawn" ELSE "check"]
        /\ on' = [on EXCEPT ![c] = IF o = "tray" THEN "tray" ELSE "probed"]
        /\ said' = [h \in Programs |-> IF o = "start" \/ o = h THEN "none" ELSE said[h]]
        /\ UNCHANGED <<pidFile, proc, asked, target>>
    BY DEF Issue, procVars
  <1>2. \A d \in Actors \ {c} : Busy(d)' = Busy(d) /\ at'[d] = at[d] /\ on'[d] = on[d]
    BY <1>1 DEF CodeTypeOK, Busy, Alive
  <1>3. at'[c] \in {"spawn", "check"}
    BY <1>1 DEF CodeTypeOK
  <1>4. \A d \in Actors : StopsAll(d, g)'
    BY <1>1, <1>2, <1>3 DEF Kept, StopsAll
  <1>5. Named(g)' /\ Fresh(g)' /\ Silent(g)'
    BY <1>1 DEF Kept, Named, Fresh, Silent
  <1> QED BY <1>4, <1>5 DEF Kept

\* A step of a command keeps what other commands have promised; what is left to
\* show is the file, its own promise and what it says.
LEMMA CommandKeeps ==
  ASSUME CodeTypeOK, Steps, NEW c \in Actors, Busy(c), Others(c),
         \A p \in Pids : \/ proc'[p] = proc[p] \/ proc'[p] = "dead"
                         \/ proc[p] = "new" /\ proc'[p] = "booting",
         NEW g \in Programs, Kept(g), Named(g)', StopsAll(c, g)', Silent(g)'
  PROVE  Kept(g)'
PROOF
  <1>1. PidsOf(g) \subseteq Pids
    BY PidFacts
  <1>2. \A p \in Pids : /\ proc'[p] \in Held => proc[p] \in Held
                        /\ proc'[p] = "checked" => proc[p] = "checked"
    BY DEF Held
  <1>3. Fresh(g)'
    BY <1>1, <1>2 DEF Kept, Fresh
  <1>4. \A d \in Actors \ {c} : StopsAll(d, g)'
    <2> SUFFICES ASSUME NEW d \in Actors \ {c} PROVE StopsAll(d, g)'
      OBVIOUS
    <2>1. Busy(d)' => Busy(d)
      BY DEF Busy, Alive, Others, Steps, Pids
    <2> QED BY <1>1, <1>2, <2>1 DEF Kept, StopsAll, Others
  <1> QED BY <1>3, <1>4 DEF Kept

\* A command about another program.
LEMMA OtherKeeps ==
  ASSUME CodeTypeOK, Steps, NEW c \in Actors, Busy(c), Others(c),
         \A p \in Pids : \/ proc'[p] = proc[p] \/ proc'[p] = "dead"
                         \/ proc[p] = "new" /\ proc'[p] = "booting",
         NEW g \in Programs, Kept(g), on[c] # g,
         pidFile'[g] = pidFile[g], said'[g] = said[g],
         \A p \in PidsOf(g) : proc'[p] = proc[p],
         at'[c] \in {"idle", "check"} \/ on'[c] = on[c]
  PROVE  Kept(g)'
PROOF
  <1>1. Named(g)' /\ Silent(g)'
    BY DEF Kept, Named, Silent
  <1>2. StopsAll(c, g)'
    BY DEF StopsAll
  <1> QED BY <1>1, <1>2, CommandKeeps

\* A command has the outcome for the program it is about; what it says ended has
\* ended, since none of the program boots while a stop is at work on it.
LEMMA ReportKeeps ==
  ASSUME CodeTypeOK, Steps, NEW c \in Actors, Busy(c), at[c] # "leave",
         NEW outcome \in {"already_running", "started", "not_running", "stopped", "timeout"},
         Reports(c, outcome),
         \A p \in Pids : \/ proc'[p] = proc[p] \/ proc'[p] = "dead"
                         \/ proc[p] = "new" /\ proc'[p] = "booting",
         NEW g \in Programs, Calm(g), Kept(g), on[c] = g, Named(g)',
         outcome \in {"not_running", "stopped"} =>
           /\ op[c] \in Stopping /\ proc' = proc
           /\ \A p \in PidsOf(g) : proc[p] \notin Held,
         op[c] = "quit" => outcome \in {"not_running", "stopped"}
  PROVE  Kept(g)'
PROOF
  <1>1. /\ Others(c)
        /\ said' = [said EXCEPT ![g] = outcome]
        /\ at'[c] \in {"leave", "check", "idle"}
        /\ at'[c] = "leave" => op[c] = "quit"
    BY ReportsIs
  <1>2. said'[g] = outcome
    BY <1>1 DEF CodeTypeOK
  <1>3. Silent(g)'
    BY <1>2, StopAlone DEF Silent, Booting, Bare, Held
  <1>4. StopsAll(c, g)'
    BY <1>1 DEF StopsAll
  <1> QED BY <1>1, <1>3, <1>4, CommandKeeps

\* A command goes on to its next step.
LEMMA GoOnKeeps ==
  ASSUME CodeTypeOK, Steps, NEW c \in Actors, Busy(c),
         NEW from, NEW to \in {"spawn", "read", "wait", "unlink"}, GoesOn(c, from, to),
         \A p \in Pids : proc'[p] = proc[p] \/ proc'[p] = "dead",
         target' \in [Actors -> Pids \cup {NoPid}],
         \A d \in Actors \ {c} : target'[d] = target[d],
         NEW g \in Programs, Kept(g), Named(g)', StopsAll(c, g)'
  PROVE  Kept(g)'
PROOF
  <1>1. Others(c) /\ said' = said
    BY GoesOnIs DEF Others, Places
  <1>2. Silent(g)'
    BY <1>1, PidFacts DEF Kept, Silent, Booting, Bare
  <1> QED BY <1>1, <1>2, CommandKeeps

--------------------------------------------------------------------------------
\* `start` goes on to spawn only when the file names no running process.
LEMMA StartChecksKeeps ==
  ASSUME CodeTypeOK, Steps, NEW c \in Actors, Busy(c), StartChecks(c),
         NEW g \in Programs, Calm(g), Kept(g), on[c] = g
  PROVE  Kept(g)'
PROOF
  <1>1. /\ op[c] = "start" /\ at[c] = "check" /\ FileIs(g, Reaped(g)) /\ proc' = proc
        /\ target \in [Actors -> Pids \cup {NoPid}]
    BY DEF StartChecks, procVars, CodeTypeOK
  <1>2. Named(g)'
    BY <1>1, ReapedIs DEF Kept, Named, FileIs, CodeTypeOK
  <1>3. CASE Reports(c, "already_running")
    BY <1>1, <1>2, <1>3, ReportKeeps
  <1>4. CASE GoesOn(c, "check", "spawn") /\ target' = target
    <2>1. StopsAll(c, g)'
      BY <1>4, GoesOnIs DEF StopsAll, Places
    <2> QED BY <1>1, <1>2, <1>4, <2>1, GoOnKeeps
  <1> QED BY <1>3, <1>4 DEF StartChecks

\* `stop` and Quit report "not running" only of a program of which nothing runs.
LEMMA StopChecksKeeps ==
  ASSUME CodeTypeOK, Steps, NEW c \in Actors, Busy(c), StopChecks(c),
         NEW g \in Programs, Calm(g), Kept(g), on[c] = g
  PROVE  Kept(g)'
PROOF
  <1>1. /\ op[c] \in Stopping /\ at[c] = "check" /\ FileIs(g, Reaped(g)) /\ proc' = proc
        /\ target \in [Actors -> Pids \cup {NoPid}]
    BY DEF StopChecks, procVars, CodeTypeOK, Stopping
  <1>2. Named(g)'
    BY <1>1, ReapedIs DEF Kept, Named, FileIs, CodeTypeOK
  <1>3. CASE ~ IsRunning(g) /\ Reports(c, "not_running")
    BY <1>1, <1>2, <1>3, ReapedIs, ReportKeeps DEF Kept
  <1>4. CASE GoesOn(c, "check", "read") /\ target' = target
    <2>1. StopsAll(c, g)'
      BY <1>4, GoesOnIs DEF StopsAll, Places
    <2> QED BY <1>1, <1>2, <1>4, <2>1, GoOnKeeps
  <1> QED BY <1>3, <1>4 DEF StopChecks

\* The process signalled is the one the file names, so there is no other.
LEMMA TerminateKeeps ==
  ASSUME CodeTypeOK, Steps, NEW c \in Actors, Busy(c), Terminate(c),
         NEW g \in Programs, Calm(g), Kept(g), on[c] = g
  PROVE  Kept(g)'
PROOF
  <1>1. /\ op[c] \in Stopping /\ at[c] = "read" /\ pidFile' = pidFile
        /\ target \in [Actors -> Pids \cup {NoPid}]
        /\ proc \in [Pids -> States] /\ PidsOf(g) \subseteq Pids
        /\ pidFile[g] \in PidsOf(g) \cup {NoPid}
    BY PidFacts DEF Terminate, CodeTypeOK, States, Steps, Stopping
  <1>2. \A p \in PidsOf(g) : proc[p] \in Held => p = pidFile[g]
    BY DEF Kept, Named
  <1>3. CASE pidFile[g] = NoPid
    <2>1. Reports(c, "not_running") /\ proc' = proc
      BY <1>3 DEF Terminate, procVars
    <2>2. \A p \in PidsOf(g) : proc[p] \notin Held
      BY <1>1, <1>2, <1>3, PidFacts
    <2>3. Named(g)'
      BY <2>1, <2>2 DEF Named
    <2> QED BY <1>1, <2>1, <2>2, <2>3, ReportKeeps
  <1>4. CASE pidFile[g] # NoPid
    <2> DEFINE p == pidFile[g]
    <2>1. /\ GoesOn(c, "read", "wait") /\ target' = [target EXCEPT ![c] = p]
          /\ Signalled(p) /\ p \in Pids
      BY <1>1, <1>4 DEF Terminate
    <2>2. \A q \in Pids : proc'[q] = proc[q] \/ proc'[q] = "dead"
      BY <1>1, <2>1 DEF Signalled
    <2>3. \A q \in PidsOf(g) : proc'[q] \in Held => q = p
      BY <1>1, <1>2, <2>2 DEF Held
    <2>4. target'[c] = p /\ target' \in [Actors -> Pids \cup {NoPid}]
          /\ \A d \in Actors \ {c} : target'[d] = target[d]
      BY <1>1, <2>1
    <2>5. Named(g)'
      BY <1>1, <2>3 DEF Named
    <2>6. at'[c] = "wait"
      BY <2>1, GoesOnIs DEF Places
    <2>7. StopsAll(c, g)'
      BY <2>3, <2>4, <2>6 DEF StopsAll
    <2> QED BY <2>1, <2>2, <2>4, <2>5, <2>7, GoOnKeeps
  <1> QED BY <1>3, <1>4

\* The wait ends with the process, or `stop` leaves and Quit kills it.
LEMMA WaitKeeps ==
  ASSUME CodeTypeOK, Steps, NEW c \in Actors, Busy(c), WaitSeesExit(c) \/ WaitTimesOut(c),
         NEW g \in Programs, Calm(g), Kept(g), on[c] = g
  PROVE  Kept(g)'
PROOF
  <1>1. /\ at[c] = "wait" /\ pidFile' = pidFile
        /\ target \in [Actors -> Pids \cup {NoPid}]
        /\ proc \in [Pids -> States] /\ PidsOf(g) \subseteq Pids
    BY PidFacts DEF WaitSeesExit, WaitTimesOut, CodeTypeOK, States
  <1>2. \A p \in PidsOf(g) : proc[p] \in Held => p = target[c]
    BY <1>1 DEF Kept, StopsAll
  <1>3. CASE op[c] = "stop" /\ Reports(c, "timeout") /\ proc' = proc
    <2>1. Named(g)'
      BY <1>1, <1>3 DEF Kept, Named
    <2> QED BY <1>1, <1>3, <2>1, ReportKeeps
  <1>4. CASE /\ GoesOn(c, "wait", "unlink") /\ target' = target
             /\ \/ ~ Alive(target[c]) /\ proc' = proc
                \/ proc' = [proc EXCEPT ![target[c]] = "dead"]
    <2>1. /\ \A q \in Pids : proc'[q] = proc[q] \/ proc'[q] = "dead"
          /\ target[c] \in Pids => proc'[target[c]] \notin Held
      BY <1>1, <1>4 DEF Held, Alive
    <2>2. \A q \in PidsOf(g) : proc'[q] \notin Held
      BY <1>1, <1>2, <2>1 DEF Held
    <2>3. Named(g)' /\ StopsAll(c, g)'
      BY <1>4, <2>2, GoesOnIs DEF Named, StopsAll, Places
    <2> QED BY <1>1, <1>4, <2>1, <2>3, GoOnKeeps
  <1> QED BY <1>3, <1>4 DEF WaitSeesExit, WaitTimesOut, procVars

\* The file removed names no process that still needs it.
LEMMA UnlinkKeeps ==
  ASSUME CodeTypeOK, Steps, NEW c \in Actors, Busy(c), Unlink(c),
         NEW g \in Programs, Calm(g), Kept(g), on[c] = g
  PROVE  Kept(g)'
PROOF
  <1>1. /\ op[c] \in Stopping /\ at[c] = "unlink" /\ Reports(c, "stopped") /\ proc' = proc
    BY DEF Unlink, procVars, Steps
  <1>2. \A p \in PidsOf(g) : proc[p] \notin Held
    BY <1>1 DEF Kept, StopsAll
  <1>3. Named(g)'
    BY <1>1, <1>2 DEF Named
  <1> QED BY <1>1, <1>2, <1>3, ReportKeeps

\* The process spawned has nothing yet.
LEMMA SpawnKeeps ==
  ASSUME CodeTypeOK, Steps, NEW c \in Actors, Busy(c), Spawn(c),
         NEW g \in Programs, Calm(g), Kept(g), on[c] = g
  PROVE  Kept(g)'
PROOF
  <1>1. PICK p \in PidsOf(g) : proc[p] = "new" /\ proc' = [proc EXCEPT ![p] = "booting"]
    BY DEF Spawn, Goes
  <1>2. /\ at[c] = "spawn" /\ Reports(c, "started") /\ pidFile' = pidFile
        /\ op[c] # "quit" /\ p \in Pids /\ proc \in [Pids -> States]
    BY PidFacts DEF Spawn, Steps, Starting, Programs, CodeTypeOK, States
  <1>3. \A q \in Pids : \/ proc'[q] = proc[q] \/ proc'[q] = "dead"
                        \/ proc[q] = "new" /\ proc'[q] = "booting"
    BY <1>1, <1>2
  <1>4. Named(g)'
    BY <1>2, <1>3, PidFacts DEF Kept, Named, Held
  <1> QED BY <1>2, <1>3, <1>4, ReportKeeps

\* What a command does about one program leaves the other as it was.
LEMMA ElsewhereKeeps ==
  ASSUME CodeTypeOK, Steps, NEW c \in Actors, Busy(c),
         \/ StartChecks(c) \/ Spawn(c) \/ StopChecks(c) \/ Terminate(c)
         \/ WaitSeesExit(c) \/ WaitTimesOut(c) \/ Unlink(c),
         NEW g \in Programs, Kept(g), on[c] # g
  PROVE  Kept(g)'
PROOF
  <1>1. /\ proc \in [Pids -> States] /\ pidFile \in [Programs -> Pids \cup {NoPid}]
        /\ PidsOf(g) \subseteq Pids /\ on[c] \in Programs /\ at[c] # "leave"
        /\ target \in [Actors -> Pids \cup {NoPid}]
        /\ said \in [Programs -> {"none", "already_running", "started", "not_running",
                                  "stopped", "timeout"}]
    BY PidFacts DEF CodeTypeOK, States, StartChecks, Spawn, StopChecks, Terminate,
       WaitSeesExit, WaitTimesOut, Unlink
  <1>2. pidFile'[g] = pidFile[g]
    BY <1>1 DEF StartChecks, Spawn, StopChecks, Terminate, WaitSeesExit, WaitTimesOut,
       Unlink, FileIs
  <1>3. /\ \A p \in Pids : \/ proc'[p] = proc[p] \/ proc'[p] = "dead"
                           \/ proc[p] = "new" /\ proc'[p] = "booting"
        /\ \A p \in PidsOf(g) : proc'[p] = proc[p]
    <2>1. CASE Spawn(c)
      BY <1>1, <2>1, PidFacts DEF Spawn, Goes
    <2>2. CASE Terminate(c)
      <3>1. pidFile[on[c]] \in PidsOf(on[c]) \cup {NoPid}
        BY <1>1 DEF CodeTypeOK
      <3> QED BY <1>1, <2>2, <3>1, PidFacts DEF Terminate, Signalled, procVars
    <2>3. CASE WaitTimesOut(c)
      <3>1. CASE op[c] = "stop"
        BY <2>3, <3>1 DEF WaitTimesOut
      <3>2. CASE op[c] # "stop"
        <4>1. op[c] = "quit" /\ on[c] = "probed"
          BY <2>3, <3>2 DEF WaitTimesOut, Steps, Stopping
        <4>2. target[c] \in Probeds \cup {NoPid} /\ proc' = [proc EXCEPT ![target[c]] = "dead"]
          BY <2>3, <3>2, <4>1 DEF WaitTimesOut, CodeTypeOK
        <4> QED BY <1>1, <4>1, <4>2, PidFacts
      <3> QED BY <3>1, <3>2
    <2>4. CASE ~ (Spawn(c) \/ Terminate(c) \/ WaitTimesOut(c))
      BY <2>4 DEF StartChecks, StopChecks, WaitSeesExit, Unlink, procVars
    <2> QED BY <2>1, <2>2, <2>3, <2>4
  <1>4. CASE \E outcome : Reports(c, outcome)
    <2>1. PICK outcome : Reports(c, outcome)
      BY <1>4
    <2>2. /\ Others(c) /\ said' = [said EXCEPT ![on[c]] = outcome]
          /\ at'[c] \in {"idle", "check"} \/ on'[c] = on[c]
      BY <2>1, ReportsIs
    <2>3. said'[g] = said[g]
      BY <1>1, <2>2
    <2> QED BY <1>2, <1>3, <2>2, <2>3, OtherKeeps
  <1>5. CASE /\ \E from, to : GoesOn(c, from, to) /\ to \in Places
             /\ \A d \in Actors \ {c} : target'[d] = target[d]
    <2>1. PICK from, to : GoesOn(c, from, to) /\ to \in Places
      BY <1>5
    <2>2. Others(c) /\ said' = said /\ on' = on
      BY <1>5, <2>1, GoesOnIs DEF Others
    <2> QED BY <1>2, <1>3, <2>2, OtherKeeps
  <1>6. (\E outcome : Reports(c, outcome))
        \/ /\ \E from, to : GoesOn(c, from, to) /\ to \in Places
           /\ \A d \in Actors \ {c} : target'[d] = target[d]
    <2>1. CASE StartChecks(c) \/ StopChecks(c) \/ WaitSeesExit(c)
      BY <2>1 DEF StartChecks, StopChecks, WaitSeesExit, Places
    <2>2. CASE Terminate(c) \/ WaitTimesOut(c)
      BY <1>1, <2>2 DEF Terminate, WaitTimesOut, Places
    <2>3. CASE Spawn(c) \/ Unlink(c)
      BY <2>3 DEF Spawn, Unlink
    <2> QED BY <2>1, <2>2, <2>3
  <1> QED BY <1>4, <1>5, <1>6

\* The tray is asked to leave once Quit is through with the daemon.
LEMMA LeaveKeeps ==
  ASSUME CodeTypeOK, Steps, NEW c \in Actors, Busy(c), Leave(c),
         NEW g \in Programs, Kept(g)
  PROVE  Kept(g)'
PROOF
  <1>1. /\ at' = [at EXCEPT ![c] = "idle"] /\ op' = [op EXCEPT ![c] = "none"]
        /\ on' = [on EXCEPT ![c] = "probed"]
        /\ UNCHANGED <<pidFile, proc, target, said>>
    BY DEF Leave, Returns
  <1>2. Others(c) /\ at'[c] = "idle"
    BY <1>1 DEF CodeTypeOK, Others
  <1>3. Named(g)' /\ Silent(g)' /\ StopsAll(c, g)'
    BY <1>1, <1>2 DEF Kept, Named, Silent, StopsAll
  <1> QED BY <1>1, <1>2, <1>3, CommandKeeps

\* A step of a calm program, or beside it, keeps what is promised of it.
LEMMA KeptInductive ==
  ASSUME CodeTypeOK, Steps, [CodeStep]_codeVars, NEW g \in Programs, Calm(g), Kept(g)
  PROVE  Kept(g)'
PROOF
  <1>1. CASE UNCHANGED codeVars
    BY <1>1 DEF codeVars, Kept, Named, Fresh, StopsAll, Silent, Busy, Alive
  <1>2. CASE \E c \in Actors : CommandStep(c)
    <2>1. PICK c \in Actors : CommandStep(c)
      BY <1>2
    <2>2. CASE Leave(c)
      BY <2>1, <2>2, LeaveKeeps DEF CommandStep
    <2>3. CASE ~ Leave(c) /\ on[c] = g
      BY <2>1, <2>3, StartChecksKeeps, SpawnKeeps, StopChecksKeeps, TerminateKeeps,
         WaitKeeps, UnlinkKeeps DEF CommandStep
    <2>4. CASE ~ Leave(c) /\ on[c] # g
      BY <2>1, <2>4, ElsewhereKeeps DEF CommandStep
    <2> QED BY <2>2, <2>3, <2>4
  <1>3. CASE \E c \in Actors, o \in {"start", "stop", "quit"} \cup Programs : Issue(c, o)
    BY <1>3, IssueKeeps
  <1>4. CASE \E p \in Pids : ProcessStep(p) \/ Crash(p) \/ Interrupt(p) \/ CloseTray(p)
    BY <1>4, ProcessKeeps
  <1> QED BY <1>1, <1>2, <1>3, <1>4 DEF CodeStep

--------------------------------------------------------------------------------
\* A program that has not crossed is calm.
LEMMA ApartIsCalm ==
  ASSUME Noted, NEW g \in Programs, Apart(g)
  PROVE  Calm(g)
PROOF
  <1>1. <<g, "boot">> \notin Crossings /\ <<g, "stop">> \notin Crossings
    BY DEF Noted, Apart
  <1>2. /\ <<g, "boot">> \in Programs \X {"boot", "stop"} /\ <<g, "boot">>[1] = g
        /\ <<g, "boot">>[2] = "boot"
        /\ <<g, "stop">> \in Programs \X {"boot", "stop"} /\ <<g, "stop">>[1] = g
        /\ <<g, "stop">>[2] = "stop"
    OBVIOUS
  <1>3. ~ TwoBoots(g)
    BY <1>1, <1>2 DEF Crossings
  <1>4. ~ StopMeetsBoot(g)
    BY <1>1, <1>2 DEF Crossings
  <1> QED BY <1>3, <1>4 DEF Calm

\* No process, no file, no command.
LEMMA InitHolds == Init => IInv
PROOF
  <1> SUFFICES ASSUME Init PROVE IInv
    OBVIOUS
  <1>1. CodeTypeOK
    BY DEF Init, CodeTypeOK, Programs
  <1>2. Steps
    BY DEF Init, Steps, Actors, Pids
  <1>3. \A g \in Programs : ~ TwoBoots(g) /\ ~ StopMeetsBoot(g)
    BY DEF Init, TwoBoots, StopMeetsBoot, Busy, PidsOf, Pids
  <1>4. Noted
    BY <1>3 DEF Init, Noted, Crossings
  <1>5. \A g \in Programs : Kept(g)
    BY PidFacts DEF Init, Kept, Named, Fresh, StopsAll, Silent, Booting, Bare, Held, Busy
  <1> QED BY <1>1, <1>2, <1>4, <1>5 DEF IInv

\* What crosses from now on is noted, and what has not crossed is kept.
LEMMA Inductive ==
  ASSUME IInv, [Next]_vars
  PROVE  IInv'
PROOF
  <1>1. [CodeStep]_codeVars
    BY DEF Next, vars
  <1>2. CodeTypeOK' /\ Steps'
    BY <1>1, TypesInductive DEF IInv
  <1>3. Noted' /\ crossed \subseteq crossed'
    <2>1. CASE UNCHANGED vars
      <3>1. Crossings' = Crossings /\ crossed' = crossed
        BY <2>1 DEF vars, codeVars, Crossings, TwoBoots, StopMeetsBoot, Busy, Alive
      <3> QED BY <3>1 DEF IInv, Noted
    <2>2. CASE crossed' = crossed \cup Crossings'
      <3>1. Crossings' \subseteq Programs \X {"boot", "stop"}
        BY DEF Crossings
      <3> QED BY <2>2, <3>1 DEF IInv, Noted
    <2> QED BY <2>1, <2>2 DEF Next
  <1>4. \A g \in Programs : Apart(g)' => Kept(g)'
    <2> SUFFICES ASSUME NEW g \in Programs, Apart(g)' PROVE Kept(g)'
      OBVIOUS
    <2>1. Apart(g)
      BY <1>3 DEF Apart
    <2> QED BY <1>1, <2>1, ApartIsCalm, KeptInductive DEF IInv
  <1> QED BY <1>2, <1>3, <1>4 DEF IInv

\* The invariant of pid files, processes and commands, of every interleaving.
THEOREM Invariance == Spec => []IInv
PROOF
  <1>1. IInv /\ [Next]_vars => IInv'
    BY Inductive
  <1> QED BY <1>1, InitHolds, PTL DEF Spec

\* Every pid file names a process of its own program, and a Quit signals and
\* kills no tray, however commands cross.
THEOREM TypeCorrectness == Spec => []TypeOK
PROOF
  <1>1. IInv => TypeOK
    BY DEF IInv, TypeOK, Noted
  <1> QED BY <1>1, Invariance, PTL

\* Two daemons never run at once and no two trays show, of a program none of
\* whose boots has crossed another, between check and write, or a stop: then the
\* file that a boot checks names whatever runs.
THEOREM OneEach == Spec => []OneEachUnlessCrossed
PROOF
  <1>1. IInv => OneEachUnlessCrossed
    BY PidFacts DEF IInv, Kept, Named, OneEachUnlessCrossed, Running, Held
  <1> QED BY <1>1, Invariance, PTL

\* A running program none of whose boots has crossed another, or a stop, is found
\* through its file: whatever crashes, time-outs, stale files and stops given
\* together there are, no process or command removes a file that is in use.
THEOREM NeverOrphaned == Spec => []RunningIsReachable
PROOF
  <1>1. IInv => RunningIsReachable
    <2> SUFFICES ASSUME IInv, NEW p \in Pids, Running(p), Apart(ProgramOf(p))
                 PROVE  p = IF p \in Probeds THEN Footer ELSE pidFile["tray"]
      BY DEF RunningIsReachable
    <2>1. pidFile[ProgramOf(p)] = p /\ p # NoPid
      BY PidFacts DEF IInv, Kept, Named, Running, Held
    <2> QED BY <2>1 DEF Footer, Alive, Running, ProgramOf
  <1> QED BY <1>1, Invariance, PTL

\* What `stop` or Quit has reported ended neither runs nor boots until it is
\* started again, of a program none of whose boots has crossed another or a stop:
\* also when stops overlap or time out.
THEOREM StoppedIsSilent == Spec => []StoppedMeansSilent
PROOF
  <1>1. IInv => StoppedMeansSilent
    BY DEF IInv, Kept, Silent, StoppedMeansSilent
  <1> QED BY <1>1, Invariance, PTL

\* Quit closes the tray only when no daemon is left, or one that has removed its
\* file and is about to exit, unless a boot of the daemon has crossed another, or
\* a stop or Quit.
THEOREM QuitIsThorough == Spec => []QuitLeavesNoProbed
PROOF
  <1>1. IInv => QuitLeavesNoProbed
    <2> SUFFICES ASSUME IInv, NEW t \in Trays, at[t] = "leave", Alive(t), Apart("probed"),
                        NEW p \in Probeds
                 PROVE  ~ Alive(p) \/ proc[p] = "exiting"
      BY DEF QuitLeavesNoProbed
    <2>1. Busy(t) /\ t \in Actors /\ op[t] = "quit" /\ on[t] = "probed" /\ p \in Pids
      BY DEF Busy, Actors, Pids, IInv, Steps
    <2>2. p \in PidsOf("probed") /\ "probed" \in Programs
      BY DEF PidsOf, Programs
    <2>3. Calm("probed") /\ Kept("probed")
      BY <2>2, ApartIsCalm DEF IInv
    <2>4. proc[p] \notin Held
      BY <2>1, <2>2, <2>3 DEF Kept, StopsAll
    <2>5. proc[p] \notin {"booting", "checked"}
      BY <2>1, <2>2, <2>3, StopAlone DEF Stopping
    <2> QED BY <2>1, <2>4, <2>5 DEF IInv, CodeTypeOK, Alive, Held, Booting, Bare
  <1> QED BY <1>1, Invariance, PTL

================================================================================

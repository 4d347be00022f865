--------------------------- MODULE ProbeScreenProofs ---------------------------
(***************************************************************************)
(* The safety properties of the on-demand probe screen, for any set of     *)
(* checks and any number of probes.                                        *)
(***************************************************************************)
EXTENDS ProbeScreen, TLAPS

\* How far a run's checks and their gather are, given where its worker is: a
\* gather that waits cancels all of the checks or none, and the worker goes on
\* only when it is done.
Gathers(r) ==
  /\ worker[r] \in {"closing", "done"} => gather[r] # "pending"
  /\ worker[r] \in {"none", "warming"} => \A c \in Checks : check[r][c] = "none"
  /\ \A c \in Checks : check[r][c] = "cancelling" => r \in cancelled
  /\ gather[r] = "pending" =>
       \A c, d \in Checks : check[r][c] = "cancelling" => check[r][d] # "running"

\* An open screen has a run of its own, which nothing has cancelled.
OwnRun == open => latest \in Runs /\ latest \notin cancelled

IInv ==
  /\ TypeOK
  /\ PaintIsCurrent
  /\ OnlyLatestRuns
  /\ OwnRun
  /\ \A r \in Runs : Gathers(r)

--------------------------------------------------------------------------------
Stages == {"none", "warming", "gather", "closing", "done"}
CheckStages == {"none", "running", "cancelling", "done"}

\* Before the screen is opened nothing runs.
LEMMA InitHolds == Init => IInv
PROOF
  <1> SUFFICES ASSUME Init PROVE IInv
    OBVIOUS
  <1>1. TypeOK
    <2>1. MaxRuns \in Nat /\ \A r \in Runs : r > 0
      BY ProbeScreenAssumption DEF Runs
    <2>2. body \in [run : 0 .. latest, text : {"blank", "running", "result", "error"}]
      BY DEF Init
    <2>3. check \in [Runs -> [Checks -> {"none", "running", "cancelling", "done"}]]
      BY DEF Init
    <2>4. open \in BOOLEAN
      BY DEF Init
    <2>5. latest \in 0 .. MaxRuns /\ cancelled \subseteq 1 .. latest
      BY <2>1 DEF Init
    <2> QED BY <2>1, <2>2, <2>3, <2>4, <2>5 DEF Init, TypeOK
  <1>2. PaintIsCurrent /\ OnlyLatestRuns /\ OwnRun /\ \A r \in Runs : Gathers(r)
    BY DEF Init, PaintIsCurrent, OnlyLatestRuns, OwnRun, Gathers, Live
  <1> QED BY <1>1, <1>2 DEF IInv

\* What a request to cancel does to a run's checks.
LEMMA Cancelling ==
  ASSUME IInv, CancelWorkers
  PROVE  /\ cancelled' = cancelled \cup {r \in Runs : Live(r)}
         /\ check' \in [Runs -> [Checks -> CheckStages]]
         /\ \A r \in Runs, c \in Checks :
              /\ check'[r][c] = "running" =>
                   check[r][c] = "running" /\ ~(worker[r] = "gather" /\ gather[r] = "pending")
              /\ check'[r][c] = "cancelling" =>
                   check[r][c] = "cancelling" \/ worker[r] = "gather"
              /\ check'[r][c] \in {"none", "done"} <=> check[r][c] \in {"none", "done"}
              /\ check[r][c] \in {"none", "done"} => check'[r][c] = check[r][c]
BY DEF IInv, TypeOK, CancelWorkers, CheckStages

\* After it every run that is still live is on its way out, and its gather has
\* been cancelled as a whole.
LEMMA CancelledRuns ==
  ASSUME IInv, CancelWorkers, gather' = gather
  PROVE  /\ cancelled' \subseteq 1 .. latest
         /\ \A r \in Runs : Live(r) => r \in cancelled'
         /\ \A r \in Runs :
              /\ gather[r] = "cancelled" =>
                   r \in cancelled' /\ \A c \in Checks : check'[r][c] # "running"
              /\ gather[r] = "ok" => \A c \in Checks : check'[r][c] = "done"
              /\ worker[r] \in {"none", "warming"} => \A c \in Checks : check'[r][c] = "none"
              /\ \A c \in Checks : check'[r][c] = "cancelling" => r \in cancelled'
              /\ gather[r] = "pending" =>
                   \A c, d \in Checks : check'[r][c] = "cancelling" => check'[r][d] # "running"
PROOF
  <1>1. cancelled' \subseteq 1 .. latest
    <2>1. MaxRuns \in Nat /\ latest \in Nat /\ cancelled \subseteq 1 .. latest
      BY ProbeScreenAssumption DEF IInv, TypeOK
    <2>2. \A r \in Runs : Live(r) => r \in 1 .. latest
      BY <2>1 DEF IInv, TypeOK, Live, Runs
    <2> QED BY <2>1, <2>2, Cancelling
  <1>2. \A r \in Runs : Live(r) => r \in cancelled'
    BY Cancelling
  <1> SUFFICES ASSUME NEW r \in Runs
               PROVE  /\ gather[r] = "cancelled" =>
                           r \in cancelled' /\ \A c \in Checks : check'[r][c] # "running"
                      /\ gather[r] = "ok" => \A c \in Checks : check'[r][c] = "done"
                      /\ worker[r] \in {"none", "warming"} =>
                           \A c \in Checks : check'[r][c] = "none"
                      /\ \A c \in Checks : check'[r][c] = "cancelling" => r \in cancelled'
                      /\ gather[r] = "pending" =>
                           \A c, d \in Checks :
                             check'[r][c] = "cancelling" => check'[r][d] # "running"
    BY <1>1, <1>2
  <1>3. Gathers(r) /\ (gather[r] = "cancelled" => \A c \in Checks : check[r][c] # "running")
        /\ (gather[r] = "cancelled" => r \in cancelled)
        /\ (gather[r] = "ok" => \A c \in Checks : check[r][c] = "done")
        /\ worker[r] \in Stages
    BY DEF IInv, OnlyLatestRuns, TypeOK, Stages
  <1> QED BY <1>3, Cancelling DEF Gathers, Live, Stages

\* A refresh cancels every live worker and starts the newest.
LEMMA RunProbesPreserves == IInv /\ RunProbes => IInv'
PROOF
  <1> SUFFICES ASSUME IInv, RunProbes PROVE IInv'
    OBVIOUS
  <1>1. /\ latest' = latest + 1 /\ latest \in Nat /\ latest' \in Runs /\ open'
        /\ body' = [run |-> latest', text |-> "running"]
        /\ worker' = [worker EXCEPT ![latest'] = "warming"] /\ gather' = gather
        /\ worker \in [Runs -> Stages] /\ worker[latest'] = "none"
        /\ \A r \in Runs : worker[r] = "none" <=> r > latest
    BY ProbeScreenAssumption DEF RunProbes, IInv, TypeOK, Runs, Stages
  <1>2. CancelWorkers
    BY DEF RunProbes
  <1>3. latest' \notin cancelled'
    BY <1>1, <1>2, Cancelling DEF IInv, TypeOK, Live
  <1>4. \A r \in Runs : worker'[r] = "none" <=> r > latest'
    BY <1>1 DEF Runs
  <1>5. TypeOK'
    <2>1. /\ latest' \in 0 .. MaxRuns /\ cancelled' \subseteq 1 .. latest'
          /\ body' \in [run : 0 .. latest', text : {"blank", "running", "result", "error"}]
      BY <1>1, <1>2, CancelledRuns DEF Runs
    <2>2. worker' \in [Runs -> Stages] /\ check' \in [Runs -> [Checks -> CheckStages]]
      BY <1>1, <1>2, Cancelling DEF Stages
    <2>3. \A r \in Runs :
            /\ worker'[r] \in {"none", "warming"} => gather'[r] = "pending"
            /\ gather'[r] = "cancelled" => r \in cancelled'
            /\ gather'[r] = "ok" => \A c \in Checks : check'[r][c] = "done"
      BY <1>1, <1>2, CancelledRuns DEF IInv, TypeOK
    <2> QED BY <1>1, <1>4, <2>1, <2>2, <2>3 DEF TypeOK, IInv, Stages, CheckStages
  <1>6. PaintIsCurrent' /\ OwnRun'
    BY <1>1, <1>3 DEF PaintIsCurrent, OwnRun, Live
  <1>7. OnlyLatestRuns'
    BY <1>1, <1>2, CancelledRuns DEF OnlyLatestRuns, Live
  <1>8. \A r \in Runs : Gathers(r)'
    <2> SUFFICES ASSUME NEW r \in Runs PROVE Gathers(r)'
      OBVIOUS
    <2>1. worker'[r] = (IF r = latest' THEN "warming" ELSE worker[r]) /\ Gathers(r)
      BY <1>1 DEF IInv
    <2> QED BY <1>1, <1>2, <2>1, CancelledRuns DEF Gathers
  <1> QED BY <1>5, <1>6, <1>7, <1>8 DEF IInv

\* A dismissed screen leaves no worker that is not on its way out.
LEMMA DismissPreserves == IInv /\ Dismiss => IInv'
PROOF
  <1> SUFFICES ASSUME IInv, Dismiss PROVE IInv'
    OBVIOUS
  <1>1. CancelWorkers /\ open' = FALSE /\ UNCHANGED <<body, latest, worker, gather>>
    BY DEF Dismiss
  <1>2. TypeOK'
    BY <1>1, Cancelling, CancelledRuns DEF IInv, TypeOK, CheckStages
  <1>3. PaintIsCurrent' /\ OwnRun' /\ OnlyLatestRuns'
    BY <1>1, CancelledRuns DEF PaintIsCurrent, OwnRun, OnlyLatestRuns, Live
  <1>4. \A r \in Runs : Gathers(r)'
    BY <1>1, CancelledRuns DEF IInv, Gathers
  <1> QED BY <1>2, <1>3, <1>4 DEF IInv

\* The session is warm: the gather begins, or the worker ends if it was cancelled.
LEMMA WarmedPreserves == \A r \in Runs : IInv /\ Warmed(r) => IInv'
PROOF
  <1> SUFFICES ASSUME NEW r \in Runs, IInv, Warmed(r) PROVE IInv'
    OBVIOUS
  <1>1. /\ worker[r] = "warming" /\ gather[r] = "pending"
        /\ UNCHANGED <<open, body, latest, cancelled>>
        /\ \A c \in Checks : check[r][c] = "none"
        /\ IF r \in cancelled
             THEN /\ worker' = [worker EXCEPT ![r] = "closing"]
                  /\ gather' = [gather EXCEPT ![r] = "cancelled"]
                  /\ check' = check
             ELSE /\ worker' = [worker EXCEPT ![r] = "gather"]
                  /\ check' = [check EXCEPT ![r] = [c \in Checks |-> "running"]]
                  /\ gather' = gather
    BY DEF Warmed, screenVars, IInv, TypeOK, Gathers
  <1>2. TypeOK'
    <2>1. /\ worker' \in [Runs -> Stages]
          /\ gather' \in [Runs -> {"pending", "ok", "failed", "cancelled"}]
      <3>1. CASE r \in cancelled
        BY <1>1, <3>1 DEF IInv, TypeOK, Stages
      <3>2. CASE r \notin cancelled
        BY <1>1, <3>2 DEF IInv, TypeOK, Stages
      <3> QED BY <3>1, <3>2
    <2>2. check' \in [Runs -> [Checks -> CheckStages]]
      <3>1. [c \in Checks |-> "running"] \in [Checks -> CheckStages]
        BY DEF CheckStages
      <3> QED BY <1>1, <3>1 DEF IInv, TypeOK, CheckStages
    <2>3. \A q \in Runs :
            /\ worker'[q] = "none" <=> q > latest
            /\ worker'[q] \in {"none", "warming"} => gather'[q] = "pending"
            /\ gather'[q] = "cancelled" => q \in cancelled
            /\ gather'[q] = "ok" => \A c \in Checks : check'[q][c] = "done"
      BY <1>1 DEF IInv, TypeOK
    <2> QED BY <1>1, <2>1, <2>2, <2>3 DEF IInv, TypeOK, Stages, CheckStages
  <1>3. PaintIsCurrent' /\ OwnRun' /\ OnlyLatestRuns'
    BY <1>1 DEF IInv, TypeOK, PaintIsCurrent, OwnRun, OnlyLatestRuns, Live
  <1>4. \A q \in Runs : Gathers(q)'
    <2>1. \A q \in Runs \ {r} :
            worker'[q] = worker[q] /\ gather'[q] = gather[q] /\ check'[q] = check[q]
      BY <1>1 DEF IInv, TypeOK
    <2>2. Gathers(r)'
      <3>1. CASE r \in cancelled
        BY <1>1, <3>1 DEF IInv, TypeOK, Gathers
      <3>2. CASE r \notin cancelled
        <4>1. worker'[r] = "gather" /\ \A c \in Checks : check'[r][c] = "running"
          BY <1>1, <3>2 DEF IInv, TypeOK
        <4> QED BY <4>1 DEF Gathers
      <3> QED BY <3>1, <3>2
    <2> QED BY <1>1, <2>1, <2>2 DEF IInv, Gathers
  <1> QED BY <1>2, <1>3, <1>4 DEF IInv

\* A check that ends completes its gather, fails it, or is the last of a cancelled one.
LEMMA CheckEndsPreserves == \A r \in Runs, c \in Checks : IInv /\ CheckEnds(r, c) => IInv'
PROOF
  <1> SUFFICES ASSUME NEW r \in Runs, NEW c \in Checks, IInv, CheckEnds(r, c) PROVE IInv'
    OBVIOUS
  <1>1. PICK how \in {"ok", "failed", "cancelled"} :
          /\ check[r][c] = IF how = "cancelled" THEN "cancelling" ELSE "running"
          /\ gather' = [gather EXCEPT ![r] =
               IF @ = "pending" /\ (how = "ok" => \A d \in Checks : check'[r][d] = "done")
                 THEN how ELSE @]
    BY DEF CheckEnds
  <1>2. /\ UNCHANGED <<open, body, latest, worker, cancelled>>
        /\ \A q \in Runs, d \in Checks :
             check'[q][d] = IF q = r /\ d = c THEN "done" ELSE check[q][d]
        /\ check' \in [Runs -> [Checks -> CheckStages]]
    BY DEF CheckEnds, screenVars, IInv, TypeOK, CheckStages
  <1>3. /\ \A q \in Runs \ {r} : gather'[q] = gather[q]
        /\ gather'[r] # gather[r] =>
             /\ gather[r] = "pending" /\ gather'[r] = how
             /\ how = "ok" => \A d \in Checks : check'[r][d] = "done"
        /\ gather' \in [Runs -> {"pending", "ok", "failed", "cancelled"}]
    BY <1>1 DEF IInv, TypeOK
  <1>4. worker[r] \notin {"none", "warming"} /\ (how = "cancelled" => r \in cancelled)
        /\ (how = "cancelled" /\ gather[r] = "pending" =>
              \A d \in Checks : check[r][d] # "running")
    BY <1>1 DEF IInv, Gathers
  <1>5. TypeOK'
    BY <1>2, <1>3, <1>4 DEF IInv, TypeOK, CheckStages
  <1>6. PaintIsCurrent' /\ OwnRun'
    <2>1. worker[latest] = "done" /\ open => gather'[latest] = gather[latest]
      BY <1>3 DEF IInv, OwnRun, Gathers
    <2>2. open /\ gather'[latest] = "ok" /\ worker[latest] # "done" => body.text # "result"
      BY DEF IInv, PaintIsCurrent
    <2> QED BY <1>2, <2>1, <2>2 DEF IInv, PaintIsCurrent, OwnRun, Live
  <1>7. OnlyLatestRuns'
    BY <1>2, <1>3, <1>4 DEF IInv, OnlyLatestRuns, Live
  <1>8. \A q \in Runs : Gathers(q)'
    <2> SUFFICES ASSUME NEW q \in Runs PROVE Gathers(q)'
      OBVIOUS
    <2>1. Gathers(q)
      BY DEF IInv
    <2>2. gather'[q] = "pending" => gather[q] = "pending"
      BY <1>1, <1>3
    <2>3. /\ worker'[q] \in {"closing", "done"} => gather'[q] # "pending"
          /\ \A d \in Checks : check'[q][d] = "cancelling" => q \in cancelled'
          /\ gather'[q] = "pending" =>
               \A d, e \in Checks : check'[q][d] = "cancelling" => check'[q][e] # "running"
      BY <1>2, <2>1, <2>2 DEF Gathers
    <2>4. worker'[q] \in {"none", "warming"} => \A d \in Checks : check'[q][d] = "none"
      BY <1>2, <1>4, <2>1 DEF Gathers
    <2> QED BY <2>3, <2>4 DEF Gathers
  <1> QED BY <1>5, <1>6, <1>7, <1>8 DEF IInv

\* The worker goes on with what its gather gave.
LEMMA GatheredPreserves == \A r \in Runs : IInv /\ Gathered(r) => IInv'
BY DEF IInv, TypeOK, PaintIsCurrent, OnlyLatestRuns, OwnRun, Gathers, Live, Gathered, screenVars

\* Only a worker nothing has cancelled paints.
LEMMA FinishPreserves == \A r \in Runs : IInv /\ Finish(r) => IInv'
PROOF
  <1> SUFFICES ASSUME NEW r \in Runs, IInv, Finish(r) PROVE IInv'
    OBVIOUS
  <1>1. /\ worker[r] = "closing" /\ worker' = [worker EXCEPT ![r] = "done"]
        /\ body' = IF r \in cancelled THEN body
                   ELSE [run |-> r, text |-> IF gather[r] = "ok" THEN "result" ELSE "error"]
        /\ UNCHANGED <<open, latest, cancelled, check, gather>>
    BY DEF Finish
  <1>2. r \notin cancelled => open /\ r = latest
    BY <1>1 DEF IInv, OnlyLatestRuns, Live
  <1>3. TypeOK'
    BY <1>1 DEF IInv, TypeOK, Runs
  <1>4. PaintIsCurrent' /\ OwnRun' /\ OnlyLatestRuns'
    BY <1>1, <1>2 DEF IInv, TypeOK, PaintIsCurrent, OwnRun, OnlyLatestRuns, Live
  <1>5. \A q \in Runs : Gathers(q)'
    BY <1>1 DEF IInv, TypeOK, Gathers
  <1> QED BY <1>3, <1>4, <1>5 DEF IInv

--------------------------------------------------------------------------------
\* The invariant of the screen, its workers, their gathers and checks.
THEOREM Invariance == Spec => []IInv
PROOF
  <1>1. IInv /\ [Next]_vars => IInv'
    <2> SUFFICES ASSUME IInv, [Next]_vars PROVE IInv'
      OBVIOUS
    <2>1. CASE UNCHANGED vars
      BY <2>1 DEF vars, screenVars, IInv, TypeOK, PaintIsCurrent, OnlyLatestRuns, OwnRun,
         Gathers, Live
    <2>2. CASE Next
      BY <2>2, RunProbesPreserves, DismissPreserves, WarmedPreserves, CheckEndsPreserves,
         GatheredPreserves, FinishPreserves DEF Next, RunStep
    <2> QED BY <2>1, <2>2
  <1> QED BY <1>1, InitHolds, PTL DEF Spec

\* The screen's state has its type, a gather that succeeded has all of its
\* checks' results, and only a cancelled run's gather is cancelled.
THEOREM TypeCorrectness == Spec => []TypeOK
PROOF
  <1>1. IInv => TypeOK
    BY DEF IInv
  <1> QED BY <1>1, Invariance, PTL

\* An open screen shows the newest run, and that run's own outcome: a replaced
\* worker that ends late raises CancelledError before it paints.
THEOREM PaintsTheNewest == Spec => []PaintIsCurrent
PROOF
  <1>1. IInv => PaintIsCurrent
    BY DEF IInv
  <1> QED BY <1>1, Invariance, PTL

\* A refresh and a dismissal leave no other run uncancelled, and a cancelled
\* gather leaves no check running.
THEOREM OthersAreCancelled == Spec => []OnlyLatestRuns
PROOF
  <1>1. IInv => OnlyLatestRuns
    BY DEF IInv
  <1> QED BY <1>1, Invariance, PTL

--------------------------------------------------------------------------------
(* The screen implements the screen without a past. *)

\* Every step of the screen, its workers and their checks is one of the abstract
\* screen, or one it does not see.
LEMMA StepMaps == IInv /\ [Next]_vars => [LW!Next]_(LW!vars)
PROOF
  <1> SUFFICES ASSUME IInv, [Next]_vars PROVE [LW!Next]_(LW!vars)
    OBVIOUS
  <1>1. CASE RunProbes
    BY <1>1 DEF RunProbes, LW!Next, LW!Request
  <1>2. CASE Dismiss
    BY <1>2 DEF Dismiss, LW!Next, LW!Dismiss
  <1>3. ASSUME NEW r \in Runs, Finish(r) PROVE [LW!Next]_(LW!vars)
    <2>1. CASE r \in cancelled
      BY <1>3, <2>1 DEF Finish, LW!vars
    <2>2. CASE r \notin cancelled
      <3>1. worker[r] = "closing" /\ open /\ r = latest
        BY <1>3, <2>2 DEF Finish, IInv, OnlyLatestRuns, Live
      <3>2. body.text = "running"
        BY <3>1 DEF IInv, PaintIsCurrent, Live
      <3>3. body' \in [run : {latest}, text : {"result", "error"}]
        BY <1>3, <2>2, <3>1 DEF Finish
      <3> QED BY <1>3, <3>1, <3>2, <3>3 DEF Finish, LW!Next, LW!Outcome
    <2> QED BY <2>1, <2>2
  <1>4. ASSUME NEW r \in Runs, NEW c \in Checks, Warmed(r) \/ Gathered(r) \/ CheckEnds(r, c)
        PROVE  UNCHANGED LW!vars
    BY <1>4 DEF Warmed, Gathered, CheckEnds, screenVars, LW!vars
  <1>5. CASE UNCHANGED vars
    BY <1>5 DEF vars, screenVars, LW!vars
  <1> QED BY <1>1, <1>2, <1>3, <1>4, <1>5, ProbeScreenAssumption DEF Next, RunStep

\* Whatever its workers do, the screen shows nothing LatestWins does not allow.
\* (That it shows an outcome in the end is left to TLC.)
THEOREM Refinement == Spec => LW!Safety
PROOF
  <1>1. Init => LW!Init
    BY DEF Init, LW!Init
  <1> QED BY <1>1, Invariance, StepMaps, PTL DEF Spec, LW!Safety

================================================================================

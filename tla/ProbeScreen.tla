------------------------------ MODULE ProbeScreen ------------------------------
(***************************************************************************)
(* The on-demand probe screen (tui/screens/probe_result.py) over           *)
(* Service.run_probe: a worker opens a warm session, warms it up, gathers  *)
(* the checks and paints what they found; a refresh cancels the worker and *)
(* starts another, closing the screen cancels it.  All of it runs on one   *)
(* event loop, where a cancellation is a request: it takes effect when the *)
(* task runs next, and what the task awaits is cancelled first.            *)
(*                                                                         *)
(* External: Textual cancels the workers of an exclusive group before it   *)
(* starts another, and those of a screen that is dismissed; asyncio.gather *)
(* is done with the first check that raises or is cancelled, and then      *)
(* leaves the other checks to themselves.                                  *)
(***************************************************************************)
EXTENDS Naturals

CONSTANTS
  Checks,  \* the checks run_probe gathers
  MaxRuns  \* bound: probes the user asks for

ASSUME ProbeScreenAssumption == Checks # {} /\ MaxRuns \in Nat \ {0}

Runs == 1 .. MaxRuns

VARIABLES
  open,      \* the screen is on top of the dashboard
  body,      \* what it shows, and of which run
  latest,    \* the newest run, 0 before the first
  worker,    \* run -> "none", "warming", "gather", "closing" or "done"
  cancelled, \* runs whose worker has been asked to cancel
  check,     \* run -> check -> "none", "running", "cancelling" or "done"
  gather     \* run -> "pending", "ok", "failed" or "cancelled"

screenVars == <<open, body, latest>>
vars == <<screenVars, worker, cancelled, check, gather>>

--------------------------------------------------------------------------------
Live(r) == worker[r] \notin {"none", "done"}

Init ==
  /\ open = FALSE
  /\ body = [run |-> 0, text |-> "blank"]
  /\ latest = 0
  /\ worker = [r \in Runs |-> "none"]
  /\ cancelled = {}
  /\ check = [r \in Runs |-> [c \in Checks |-> "none"]]
  /\ gather = [r \in Runs |-> "pending"]

\* Mutant of CancelWorkers: the worker is not exclusive.
CancelNoWorker == UNCHANGED <<cancelled, check>>

\* Every live worker is asked to cancel; a gather that is not done passes the
\* request on to the checks it waits for, one that is done to none.
CancelWorkers ==
  /\ cancelled' = cancelled \cup {r \in Runs : Live(r)}
  /\ check' = [r \in Runs |-> [c \in Checks |->
                 IF worker[r] = "gather" /\ gather[r] = "pending" /\ check[r][c] = "running"
                   THEN "cancelling" ELSE check[r][c]]]

\* on_mount and action_refresh: paint the placeholders, start the worker.
RunProbes ==
  /\ latest < MaxRuns
  /\ latest' = latest + 1
  /\ open' = TRUE
  /\ body' = [run |-> latest', text |-> "running"]
  /\ CancelWorkers
  /\ worker' = [worker EXCEPT ![latest'] = "warming"]
  /\ UNCHANGED gather

Dismiss ==
  /\ open
  /\ open' = FALSE
  /\ CancelWorkers
  /\ UNCHANGED <<body, latest, worker, gather>>

\* The throwaway request is over; check_latency_warm does not raise.
Warmed(r) ==
  /\ worker[r] = "warming"
  /\ IF r \in cancelled
       THEN /\ worker' = [worker EXCEPT ![r] = "closing"]
            /\ gather' = [gather EXCEPT ![r] = "cancelled"]
            /\ check' = check
       ELSE /\ worker' = [worker EXCEPT ![r] = "gather"]
            /\ check' = [check EXCEPT ![r] = [c \in Checks |-> "running"]]
            /\ gather' = gather
  /\ UNCHANGED <<screenVars, cancelled>>

\* A check returns, raises, or is done cancelling.
CheckEnds(r, c) ==
  /\ check' = [check EXCEPT ![r][c] = "done"]
  /\ \E how \in {"ok", "failed", "cancelled"} :
       /\ check[r][c] = IF how = "cancelled" THEN "cancelling" ELSE "running"
       /\ gather' = [gather EXCEPT ![r] =
                       IF @ = "pending" /\ (how = "ok" => \A d \in Checks : check'[r][d] = "done")
                         THEN how ELSE @]
  /\ UNCHANGED <<screenVars, worker, cancelled>>

\* Mutant of Gathered: the worker goes on waiting when it is cancelled.
GatheredUnlessCancelled(r) ==
  /\ worker[r] = "gather"
  /\ gather[r] \in {"ok", "failed"}
  /\ worker' = [worker EXCEPT ![r] = "closing"]
  /\ UNCHANGED <<screenVars, cancelled, check, gather>>

\* The worker goes on when the gather is done: it leaves the session's block.
Gathered(r) ==
  /\ worker[r] = "gather"
  /\ gather[r] # "pending"
  /\ worker' = [worker EXCEPT ![r] = "closing"]
  /\ UNCHANGED <<screenVars, cancelled, check, gather>>

\* Mutants of Finish: a cancelled run reports its cancellation as an error
\* (except BaseException); a failed one is logged and leaves the placeholders.
FinishPaintsCancelled(r) ==
  /\ worker[r] = "closing"
  /\ worker' = [worker EXCEPT ![r] = "done"]
  /\ body' = [run |-> r, text |-> IF gather[r] = "ok" THEN "result" ELSE "error"]
  /\ UNCHANGED <<open, latest, cancelled, check, gather>>
FinishLogsError(r) ==
  /\ worker[r] = "closing"
  /\ worker' = [worker EXCEPT ![r] = "done"]
  /\ body' = IF r \in cancelled \/ gather[r] # "ok" THEN body ELSE [run |-> r, text |-> "result"]
  /\ UNCHANGED <<open, latest, cancelled, check, gather>>

\* The session is closed.  A cancelled worker, also one asked after its result
\* was in, raises CancelledError, which _run does not catch.
Finish(r) ==
  /\ worker[r] = "closing"
  /\ worker' = [worker EXCEPT ![r] = "done"]
  /\ body' = IF r \in cancelled THEN body
             ELSE [run |-> r, text |-> IF gather[r] = "ok" THEN "result" ELSE "error"]
  /\ UNCHANGED <<open, latest, cancelled, check, gather>>

RunStep(r) == Warmed(r) \/ Gathered(r) \/ Finish(r) \/ \E c \in Checks : CheckEnds(r, c)

Next == RunProbes \/ Dismiss \/ \E r \in Runs : RunStep(r)

\* Every await of a run has a timeout of its own; the user owes nothing.
Spec == Init /\ [][Next]_vars /\ \A r \in Runs : WF_vars(RunStep(r))

--------------------------------------------------------------------------------
TypeOK ==
  /\ open \in BOOLEAN
  /\ body \in [run : 0 .. latest, text : {"blank", "running", "result", "error"}]
  /\ latest \in 0 .. MaxRuns
  /\ worker \in [Runs -> {"none", "warming", "gather", "closing", "done"}]
  /\ cancelled \subseteq 1 .. latest
  /\ check \in [Runs -> [Checks -> {"none", "running", "cancelling", "done"}]]
  /\ gather \in [Runs -> {"pending", "ok", "failed", "cancelled"}]
  /\ \A r \in Runs :
       /\ worker[r] = "none" <=> r > latest
       /\ worker[r] \in {"none", "warming"} => gather[r] = "pending"
       /\ gather[r] = "cancelled" => r \in cancelled
       /\ gather[r] = "ok" => \A c \in Checks : check[r][c] = "done"

\* What an open screen shows is about the run asked for last, however many runs
\* before it are still being cancelled, and it is that run's outcome: the
\* placeholders while it runs, a result once every check of it has returned.
PaintIsCurrent ==
  open =>
    /\ body.run = latest
    /\ body.text = "running" <=> Live(latest)
    /\ body.text = "result" <=> worker[latest] = "done" /\ gather[latest] = "ok"

\* Only the newest run of an open screen is not on its way out, and of a run
\* cancelled while it gathered no check is left to run its time.
OnlyLatestRuns ==
  \A r \in Runs :
    /\ Live(r) /\ r \notin cancelled => open /\ r = latest
    /\ gather[r] = "cancelled" => \A c \in Checks : check[r][c] # "running"

\* The screen is as good as one without a past: replaced, abandoned and failed
\* workers, whenever they end, change nothing a user could see, and an open
\* screen shows the outcome of its probe unless the user asks for another first.
LW == INSTANCE LatestWins
ImplementsLatestWins == LW!Spec

\* Every run, replaced, abandoned or failed, comes to an end with all of its
\* checks, those included that a failed gather has left to themselves.
RunsEnd ==
  \A r \in Runs :
    Live(r) ~> ~Live(r) /\ \A c \in Checks : check[r][c] \in {"none", "done"}

================================================================================

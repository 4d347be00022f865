--------------------------------- MODULE Race ----------------------------------
(***************************************************************************)
(* One race of HTTP requests: _race_urls (probes/ip.py) and _check_latency *)
(* (probes/latency.py) are the same loop over asyncio.wait.  The requests  *)
(* are tasks; the racer wakes when at least one has ended, finds in done   *)
(* all those that have by then, and reads them in no particular order.     *)
(***************************************************************************)
EXTENDS Naturals, FiniteSets

CONSTANTS
  Urls,
  Answers,  \* a non-empty text, or an elapsed time
  Valid     \* the answers the caller can use (all of them, for latency)

Fail == "fail"          \* the request's None: a client error, a time-out, ""
Error == "error"        \* an exception the request does not catch
Nothing == "nothing"    \* not known yet; no winner

ASSUME RaceAssumption ==
  /\ IsFiniteSet(Urls) /\ Urls # {}
  /\ Valid \subseteq Answers
  /\ Answers \cap {Fail, Error, Nothing} = {}

VARIABLES
  task,     \* url -> "running", "ended", "cancelling" or "cancelled"
  answer,   \* url -> what its task ended with
  pending,  \* the racer's variable
  pc,       \* "waiting" in asyncio.wait, "over"
  outcome   \* what the race returned, Error when it raised

vars == <<task, answer, pending, pc, outcome>>

Init ==
  /\ task = [u \in Urls |-> "running"]
  /\ answer = [u \in Urls |-> Nothing]
  /\ pending = Urls
  /\ pc = "waiting"
  /\ outcome = Nothing

\* The request ends: answered, failed, timed out, or with an uncaught exception.
RequestEnds(u) ==
  /\ task[u] = "running"
  /\ task' = [task EXCEPT ![u] = "ended"]
  /\ \E a \in Answers \cup {Fail, Error} : answer' = [answer EXCEPT ![u] = a]
  /\ UNCHANGED <<pending, pc, outcome>>

\* Mutants of Cancel and Done.
CancelNone(urls) == task
DoneIsOne(urls) == LET ended == {u \in urls : task[u] = "ended"}
                   IN  IF ended = {} THEN {} ELSE {CHOOSE u \in ended : TRUE}

\* The finally clause; cancelling a task that has ended does nothing.
Cancel(urls) ==
  [u \in Urls |-> IF u \in urls /\ task[u] = "running" THEN "cancelling" ELSE task[u]]

Done(urls) == {u \in urls : task[u] = "ended"}

\* A task of the batch returns or raises out of the loop.
Win ==
  /\ pc = "waiting"
  /\ \E u \in Done(pending) :
       /\ answer[u] # Fail
       /\ outcome' = answer[u]
  /\ pending' = {u \in pending : task[u] # "ended"}
  /\ task' = Cancel(pending')
  /\ pc' = "over"
  /\ answer' = answer

\* Mutant of GoOn: the ended requests stay pending.
GoOnForgets ==
  /\ pc = "waiting"
  /\ Done(pending) # {}
  /\ \A u \in Done(pending) : answer[u] = Fail
  /\ UNCHANGED <<task, answer, pending, pc, outcome>>

\* All of the batch failed: wait for the rest, or give up when there is none.
GoOn ==
  /\ pc = "waiting"
  /\ Done(pending) # {}
  /\ \A u \in Done(pending) : answer[u] = Fail
  /\ pending' = {u \in pending : task[u] # "ended"}
  /\ pc' = IF pending' = {} THEN "over" ELSE "waiting"
  /\ UNCHANGED <<task, answer, outcome>>

\* The caller is cancelled while it waits (asyncio.run tearing down).
CallerCancelled ==
  /\ pc = "waiting"
  /\ pc' = "over"
  /\ outcome' = Error
  /\ task' = Cancel(pending)
  /\ UNCHANGED <<answer, pending>>

\* The loop delivers CancelledError to a cancelled task.
TaskCancelled(u) ==
  /\ task[u] = "cancelling"
  /\ task' = [task EXCEPT ![u] = "cancelled"]
  /\ UNCHANGED <<answer, pending, pc, outcome>>

Racer == Win \/ GoOn
Tasks == \E u \in Urls : RequestEnds(u) \/ TaskCancelled(u)

Next == Racer \/ Tasks \/ CallerCancelled

\* Requests have a total timeout, so each one ends.
Spec == Init /\ [][Next]_vars /\ WF_vars(Racer) /\ WF_vars(Tasks)

--------------------------------------------------------------------------------
TypeOK ==
  /\ task \in [Urls -> {"running", "ended", "cancelling", "cancelled"}]
  /\ answer \in [Urls -> Answers \cup {Fail, Error, Nothing}]
  /\ pending \subseteq Urls
  /\ pc \in {"waiting", "over"}
  /\ outcome \in Answers \cup {Error, Nothing}

\* However the race is left, by a winner, an exception, a cancellation or with
\* nothing, no request is left running on the session the caller closes next.
NoneLeftRunning == pc = "over" => \A u \in Urls : task[u] # "running"

\* "Down" (no address, no country) is reported only when every request failed:
\* no answer is lost between two waits.
DownOnlyIfAllFailed ==
  pc = "over" /\ outcome = Nothing => \A u \in Urls : answer[u] = Fail

\* docs/probes.md:95, "first valid IPv4 response wins": a response that is no
\* address does not beat a valid one that has been received.
ValidResponseWins ==
  outcome \in Answers \ Valid => \A u \in Urls : answer[u] \notin Valid

\* The race as its caller sees it.  Batches that are read in any order, and tasks
\* that go on being cancelled, add no outcome to it and lose none.
FA == INSTANCE FirstAnswer WITH got <- answer, over <- pc = "over"
ImplementsFirstAnswer == FA!Spec

\* A race ends, and then all its tasks.
Terminates ==
  <>(pc = "over" /\ \A u \in Urls : task[u] \in {"ended", "cancelled"})

================================================================================

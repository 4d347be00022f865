------------------------------- MODULE LatestWins ------------------------------
(***************************************************************************)
(* What a screen that probes on demand promises its user, with no workers, *)
(* gathers or cancellations in sight: it shows the request made last,      *)
(* first as running and then, once, with its outcome; nothing an earlier   *)
(* request still does is ever painted, and a dismissed screen paints no    *)
(* more.                                                                   *)
(***************************************************************************)
EXTENDS Naturals

CONSTANT MaxRuns

VARIABLES open,   \* the screen is there
          body,   \* what it shows, and of which request
          latest  \* the newest request, 0 before the first

vars == <<open, body, latest>>

Init == /\ open = FALSE
        /\ body = [run |-> 0, text |-> "blank"]
        /\ latest = 0

Request ==
  /\ latest < MaxRuns
  /\ latest' = latest + 1
  /\ open' = TRUE
  /\ body' = [run |-> latest', text |-> "running"]

Outcome ==
  /\ open
  /\ body.text = "running"
  /\ body' \in [run : {latest}, text : {"result", "error"}]
  /\ UNCHANGED <<open, latest>>

Dismiss ==
  /\ open
  /\ open' = FALSE
  /\ UNCHANGED <<body, latest>>

Next == Request \/ Outcome \/ Dismiss

Safety == Init /\ [][Next]_vars

\* A request that is neither replaced nor dismissed gets its outcome.
Spec == Safety /\ WF_vars(Outcome)

================================================================================

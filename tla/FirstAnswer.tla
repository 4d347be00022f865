------------------------------ MODULE FirstAnswer ------------------------------
(***************************************************************************)
(* What a race of requests promises its caller, with no tasks, batches or  *)
(* cancellations in sight: requests are answered one at a time, and only   *)
(* while the race is on; it is decided by an answer it has received, given *)
(* up once every request has failed, or aborted.                           *)
(***************************************************************************)
CONSTANTS Urls, Answers, Fail, Error, Nothing

VARIABLES got,     \* url -> what its request ended with, Nothing before
          over,    \* the caller has been answered
          outcome  \* what it was told

vars == <<got, over, outcome>>

Init == /\ got = [u \in Urls |-> Nothing]
        /\ over = FALSE
        /\ outcome = Nothing

Receive(u) ==
  /\ ~over
  /\ got[u] = Nothing
  /\ \E a \in Answers \cup {Fail, Error} : got' = [got EXCEPT ![u] = a]
  /\ UNCHANGED <<over, outcome>>

Decide ==
  /\ ~over /\ over' = TRUE
  /\ outcome' \in {got[u] : u \in Urls} \ {Fail, Nothing}
  /\ got' = got

GiveUp ==
  /\ ~over /\ over' = TRUE
  /\ \A u \in Urls : got[u] = Fail
  /\ UNCHANGED <<got, outcome>>

Abort ==
  /\ ~over /\ over' = TRUE
  /\ outcome' = Error
  /\ got' = got

Next == Decide \/ GiveUp \/ Abort \/ \E u \in Urls : Receive(u)

Spec == Init /\ [][Next]_vars

================================================================================

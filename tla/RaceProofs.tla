------------------------------ MODULE RaceProofs -------------------------------
(***************************************************************************)
(* The safety of Race for any set of endpoints and answers.  None of the   *)
(* two properties is inductive: which tasks may still run depends on what  *)
(* the racer has already taken out of pending, and that a batch of the     *)
(* past held no answer is only known from where the racer is.              *)
(***************************************************************************)
EXTENDS Race, TLAPS

\* What the racer has read, it has read as a failure, and it has read all that
\* is not pending.
ReadAsFailed ==
  \A u \in Urls \ pending :
    /\ task[u] = "ended"
    /\ outcome = Nothing => answer[u] = Fail

\* A task has an answer once it has ended, and no sooner; the racer that waits has no outcome,
\* and the one that gave up has nothing pending.
Course ==
  /\ \A u \in Urls : task[u] = "ended" <=> answer[u] # Nothing
  /\ pc = "waiting" => outcome = Nothing
  /\ pc = "over" /\ outcome = Nothing => pending = {}

IInv == TypeOK /\ ReadAsFailed /\ Course /\ NoneLeftRunning

--------------------------------------------------------------------------------
\* The three kinds of result are told apart.
LEMMA KindsDiffer == /\ Fail # Nothing /\ Error # Nothing /\ Fail # Error
                     /\ \A a \in Answers : a # Nothing /\ a # Fail /\ a # Error
BY RaceAssumption DEF RaceAssumption, Fail, Error, Nothing

\* Cancelling ends nothing and leaves none of its tasks running.
LEMMA CancelEffect ==
  ASSUME TypeOK, NEW urls \in SUBSET Urls
  PROVE  /\ Cancel(urls) \in [Urls -> {"running", "ended", "cancelling", "cancelled"}]
         /\ \A u \in Urls : Cancel(urls)[u] = "ended" <=> task[u] = "ended"
         /\ \A u \in urls : Cancel(urls)[u] # "running"
         /\ \A u \in Urls : task[u] # "running" => Cancel(urls)[u] = task[u]
BY DEF TypeOK, Cancel

\* A race begins with every request pending.
LEMMA Initially == Init => IInv
<1> SUFFICES ASSUME Init PROVE IInv OBVIOUS
<1>1. TypeOK BY DEF Init, TypeOK
<1>2. ReadAsFailed BY DEF Init, ReadAsFailed
<1>3. Course BY DEF Init, Course
<1>4. NoneLeftRunning BY DEF Init, NoneLeftRunning
<1> QED BY <1>1, <1>2, <1>3, <1>4 DEF IInv

--------------------------------------------------------------------------------
\* Requests, the racer and cancellations in any order.
LEMMA Inductive == IInv /\ [Next]_vars => IInv'
<1> SUFFICES ASSUME IInv, [Next]_vars PROVE IInv' OBVIOUS
<1> USE DEF IInv
<1>1. CASE UNCHANGED vars
  BY <1>1 DEF vars, TypeOK, ReadAsFailed, Course, NoneLeftRunning
<1>2. ASSUME NEW u \in Urls, RequestEnds(u) PROVE IInv'
  <2>1. PICK a \in Answers \cup {Fail, Error} : answer' = [answer EXCEPT ![u] = a]
    BY <1>2 DEF RequestEnds
  <2>2. a # Nothing BY KindsDiffer
  <2>3. TypeOK' BY <1>2, <2>1 DEF RequestEnds, TypeOK
  <2>4. ReadAsFailed' BY <1>2, <2>1 DEF RequestEnds, TypeOK, ReadAsFailed
  <2>5. Course' BY <1>2, <2>1, <2>2 DEF RequestEnds, TypeOK, Course
  <2>6. NoneLeftRunning' BY <1>2 DEF RequestEnds, TypeOK, NoneLeftRunning
  <2> QED BY <2>3, <2>4, <2>5, <2>6
<1>3. CASE Win
  <2>1. PICK w \in Done(pending) : answer[w] # Fail /\ outcome' = answer[w]
    BY <1>3 DEF Win
  <2>2. w \in Urls /\ task[w] = "ended" BY <2>1 DEF Done, TypeOK
  <2>3. outcome' \in Answers \cup {Error}
    BY <2>1, <2>2 DEF Course, TypeOK
  <2>4. pending' \in SUBSET Urls /\ task' = Cancel(pending')
    BY <1>3 DEF Win, TypeOK
  <2>5. TypeOK' BY <1>3, <2>3, <2>4, CancelEffect DEF Win, TypeOK
  <2>6. outcome' # Nothing BY <2>3, KindsDiffer
  <2>7. \A u \in Urls \ pending' : task[u] = "ended"
    BY <1>3 DEF Win, ReadAsFailed
  <2>8. ReadAsFailed' BY <2>4, <2>6, <2>7, CancelEffect DEF ReadAsFailed
  <2>9. Course' BY <1>3, <2>4, <2>6, CancelEffect DEF Win, Course
  <2>10. NoneLeftRunning' BY <2>4, <2>7, CancelEffect DEF NoneLeftRunning
  <2> QED BY <2>5, <2>8, <2>9, <2>10
<1>4. CASE GoOn
  <2>1. TypeOK' BY <1>4 DEF GoOn, TypeOK
  <2>2. ReadAsFailed' BY <1>4 DEF GoOn, Done, ReadAsFailed, TypeOK
  <2>3. Course' BY <1>4 DEF GoOn, Course, TypeOK
  <2>4. NoneLeftRunning'
    BY <1>4, <2>2 DEF GoOn, NoneLeftRunning, ReadAsFailed, TypeOK
  <2> QED BY <2>1, <2>2, <2>3, <2>4
<1>5. CASE CallerCancelled
  <2>1. task' = Cancel(pending) /\ pending' = pending /\ pending \in SUBSET Urls
    BY <1>5 DEF CallerCancelled, TypeOK
  <2>2. TypeOK' BY <1>5, <2>1, CancelEffect DEF CallerCancelled, TypeOK
  <2>3. outcome' # Nothing BY <1>5, KindsDiffer DEF CallerCancelled
  <2>4. ReadAsFailed' BY <2>1, <2>3, CancelEffect DEF ReadAsFailed
  <2>5. Course' BY <1>5, <2>1, <2>3, CancelEffect DEF CallerCancelled, Course
  <2>6. NoneLeftRunning'
    BY <2>1, CancelEffect DEF NoneLeftRunning, ReadAsFailed
  <2> QED BY <2>2, <2>4, <2>5, <2>6
<1>6. ASSUME NEW u \in Urls, TaskCancelled(u) PROVE IInv'
  <2>1. TypeOK' BY <1>6 DEF TaskCancelled, TypeOK
  <2>2. ReadAsFailed' BY <1>6 DEF TaskCancelled, TypeOK, ReadAsFailed
  <2>3. Course' BY <1>6 DEF TaskCancelled, TypeOK, Course
  <2>4. NoneLeftRunning' BY <1>6 DEF TaskCancelled, TypeOK, NoneLeftRunning
  <2> QED BY <2>1, <2>2, <2>3, <2>4
<1> QED BY <1>1, <1>2, <1>3, <1>4, <1>5, <1>6 DEF Next, Racer, Tasks

\* The inductive invariant.
LEMMA Invariance == Spec => []IInv
BY Initially, Inductive, PTL DEF Spec

--------------------------------------------------------------------------------
\* The race's variables stay well-typed; in particular its outcome is an answer,
\* an exception or nothing, never a request's failure.
THEOREM TypeCorrectness == Spec => []TypeOK
<1>1. IInv => TypeOK BY DEF IInv
<1> QED BY <1>1, Invariance, PTL

\* However many endpoints, and however the race is left, none of its requests
\* runs on (the finally clauses of _race_urls and _check_latency).
THEOREM NoLeftovers == Spec => []NoneLeftRunning
<1>1. IInv => NoneLeftRunning BY DEF IInv
<1> QED BY <1>1, Invariance, PTL

\* A race that reports "down" or no address has seen every request fail,
\* whatever the batches asyncio.wait returned them in.
THEOREM NoAnswerLost == Spec => []DownOnlyIfAllFailed
<1>1. IInv => DownOnlyIfAllFailed
  BY DEF IInv, ReadAsFailed, Course, DownOnlyIfAllFailed
<1> QED BY <1>1, Invariance, PTL

--------------------------------------------------------------------------------
(* The race implements the race its caller sees. *)

\* Every step is a request answered, the race decided, given up or aborted, or
\* one the caller cannot tell from none.
LEMMA StepMaps == IInv /\ [Next]_vars => [FA!Next]_(FA!vars)
<1> SUFFICES ASSUME IInv, [Next]_vars PROVE [FA!Next]_(FA!vars) OBVIOUS
<1> USE DEF IInv
<1>1. CASE UNCHANGED vars BY <1>1 DEF vars, FA!vars
<1>2. ASSUME NEW u \in Urls, RequestEnds(u) PROVE FA!Receive(u)
  <2>1. answer[u] = Nothing BY <1>2 DEF RequestEnds, Course
  <2>2. pc # "over" BY <1>2 DEF RequestEnds, NoneLeftRunning
  <2> QED BY <1>2, <2>1, <2>2 DEF RequestEnds, FA!Receive
<1>3. CASE Win
  <2>1. PICK w \in Done(pending) : answer[w] # Fail /\ outcome' = answer[w]
    BY <1>3 DEF Win
  <2>2. w \in Urls /\ answer[w] # Nothing BY <2>1 DEF Done, TypeOK, Course
  <2>3. FA!Decide BY <1>3, <2>1, <2>2 DEF Win, FA!Decide
  <2> QED BY <2>3 DEF FA!Next
<1>4. CASE GoOn
  <2>1. CASE pending' = {}
    <3>1. \A u \in Urls : answer[u] = Fail
      BY <1>4, <2>1 DEF GoOn, Done, ReadAsFailed, Course, TypeOK
    <3>2. FA!GiveUp BY <1>4, <2>1, <3>1 DEF GoOn, FA!GiveUp
    <3> QED BY <3>2 DEF FA!Next
  <2>2. CASE pending' # {} BY <1>4, <2>2 DEF GoOn, FA!vars
  <2> QED BY <2>1, <2>2
<1>5. CASE CallerCancelled
  <2>1. FA!Abort BY <1>5 DEF CallerCancelled, FA!Abort
  <2> QED BY <2>1 DEF FA!Next
<1>6. ASSUME NEW u \in Urls, TaskCancelled(u) PROVE UNCHANGED FA!vars
  BY <1>6 DEF TaskCancelled, FA!vars
<1> QED BY <1>1, <1>2, <1>3, <1>4, <1>5, <1>6 DEF Next, Racer, Tasks, FA!Next

\* _race_urls and _check_latency implement FirstAnswer, whatever the number of
\* requests and the batches they end in.
THEOREM Refinement == Spec => ImplementsFirstAnswer
<1>1. Init => FA!Init BY DEF Init, FA!Init
<1> QED BY <1>1, Invariance, StepMaps, PTL DEF Spec, ImplementsFirstAnswer, FA!Spec

================================================================================

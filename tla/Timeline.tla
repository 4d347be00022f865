------------------------------- MODULE Timeline --------------------------------
(***************************************************************************)
(* What a deduplicating table promises its readers, with no rows in sight: *)
(* for every instant, the state known to have been in force then, or       *)
(* Unknown.  A result equal to the previous one fills the gap since that   *)
(* one; a different result vouches for its own instant only.  Retention    *)
(* forgets a run of equal instants only once the whole run is older than   *)
(* the cutoff.                                                             *)
(***************************************************************************)
EXTENDS Integers

CONSTANTS Values, Unknown, Horizon

VARIABLES line,  \* instant -> state in force
          last   \* instant of the last result, 0 before the first

vars == <<line, last>>

Instants == 1 .. Horizon

Init == /\ line = [t \in Instants |-> Unknown]
        /\ last = 0

Observe(v) ==
  \E ts \in last + 1 .. Horizon :
    LET confirms == last # 0 /\ line[last] = v
    IN  /\ line' = [t \in Instants |->
                      IF t = ts \/ (confirms /\ last < t /\ t < ts)
                        THEN v ELSE line[t]]
        /\ last' = ts

Forget ==
  /\ \E cutoff \in Instants :
       line' = [t \in Instants |->
                  IF t >= cutoff \/ \A u \in t .. cutoff : line[u] = line[t]
                    THEN line[t] ELSE Unknown]
  /\ last' = last

Next == Forget \/ \E v \in Values : Observe(v)

Spec == Init /\ [][Next]_vars

================================================================================

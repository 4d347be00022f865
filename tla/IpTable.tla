-------------------------------- MODULE IpTable --------------------------------
(***************************************************************************)
(* The IP check as one more user of a deduplicating table: IpCheck with    *)
(* the instant of the last result that was stored, which the code does not *)
(* keep and which the table of StateTable is explained by.                 *)
(***************************************************************************)
EXTENDS IpCheck

VARIABLE checked  \* observer: the clock reading of the last upsert, 0 before it

allVars == <<vars, checked>>

InitAll == Init /\ checked = 0

\* Of a check only the end stores, and reads the clock to do so.
NextAll ==
  \/ Check /\ checked' = IF now' = now THEN checked ELSE now'
  \/ (PurgeOld \/ Restart) /\ checked' = checked

SpecAll == InitAll /\ [][NextAll]_allVars

\* A value no check reports.
NoResult == CHOOSE x : x \notin IpResult

\* probe_ip as the IP check leaves it is a deduplicating table: an upsert per
\* check that ends, whichever way it came to its result, purges, and no more.
ST == INSTANCE StateTable WITH Values <- IpResult, Unknown <- NoResult, last <- checked
ImplementsStateTable == ST!Spec

================================================================================

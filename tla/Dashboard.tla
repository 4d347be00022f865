------------------------------- MODULE Dashboard -------------------------------
(***************************************************************************)
(* A dashboard beside the daemon: a refresh (tui/app.py, _refresh_data)    *)
(* asks the same table twice, for the state in force and for the list of   *)
(* changes (EventsWidget), in two transactions.  The daemon is another     *)
(* process: it may upsert and purge any number of times between the two.   *)
(***************************************************************************)
EXTENDS StateTable

CONSTANT Limit  \* entries of the change list

ASSUME DashboardAssumption == Limit \in Nat \ {0}

VARIABLES
  asking,  \* the status is read and the list is not yet
  status,  \* the row shown as the state in force, as a set of one or none
  list,    \* the rows shown as changes
  readAt   \* observer: the clock when the status was read

readerVars == <<asking, status, list, readAt>>
allVars == <<vars, readerVars>>

InitAll ==
  /\ Init
  /\ asking = FALSE /\ status = {} /\ list = {} /\ readAt = 0

\* fetch_latest_probe_vpn: one row, whichever of them if several tie.
ReadStatus ==
  /\ ~asking
  /\ asking' = TRUE
  /\ status' \in IF rows = {} THEN {{}} ELSE {{r} : r \in Latest(rows)}
  /\ readAt' = now
  /\ list' = {}
  /\ UNCHANGED vars

\* Mutant of ReadList: the changes in the order of their confirmation.
ReadListByUpdate ==
  /\ asking
  /\ asking' = FALSE
  /\ list' = {r \in rows : Cardinality({s \in rows : s.updated < r.updated}) < Limit}
  /\ UNCHANGED <<vars, status, readAt>>

\* fetch_recent_probe_vpn(Limit); then everything is painted.
ReadList ==
  /\ asking
  /\ asking' = FALSE
  /\ list' = Recent(rows, Limit)
  /\ UNCHANGED <<vars, status, readAt>>

NextAll ==
  \/ Next /\ UNCHANGED readerVars
  \/ ReadStatus
  \/ ReadList

SpecAll == InitAll /\ [][NextAll]_allVars

--------------------------------------------------------------------------------
Painted == ~asking /\ readAt > 0

\* The entry of the list the status belongs to: the run may have been
\* confirmed again between the two queries.
IsRunOf(r, s) == r.created = s.created /\ r.val = s.val /\ r.updated >= s.updated

\* The list painted under a status continues it, however often the daemon wrote
\* in between: the status is one of its entries, unless the list is full of
\* later ones or the purge has come by; and whatever the list has beyond the
\* status happened after the status was read, so the status was no old news.
ListContinuesStatus ==
  Painted =>
    /\ \A s \in status :
         \/ \E r \in list : IsRunOf(r, s)
         \/ Cardinality(list) = Limit /\ \A r \in list : r.created > s.updated
         \/ s.updated < now - Retention
    /\ \A r \in list :
         (\A s \in status : r.created > s.created) => r.created > readAt

================================================================================

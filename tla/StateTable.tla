------------------------------ MODULE StateTable -------------------------------
(***************************************************************************)
(* One deduplicating table over the life of a database: upserts by the     *)
(* daemon's checks and purges by its start-up and its purge loop, with a   *)
(* wall clock that every check reads once and that is never set back       *)
(* (core/db.py, upsert_probe_vpn and purge_old_probe_vpn; probe_ip alike). *)
(* Restarts of the daemon leave the table alone: they are no steps here.   *)
(***************************************************************************)
EXTENDS UpsertTable

CONSTANTS
  Values,     \* contents a check can report, e.g. <<is_active, mode, provider>>
  Unknown,    \* what a reader knows of an instant no row covers
  Retention,  \* retention_days
  Horizon     \* bound: the clock stops here

ASSUME StateTableAssumption ==
  /\ Retention \in Nat \ {0}
  /\ Horizon \in Nat \ {0}
  /\ Unknown \notin Values

VARIABLES
  rows,   \* the table
  now,    \* the wall clock
  last    \* clock reading of the last upsert, 0 before the first

vars == <<rows, now, last>>

Row == [created : 1 .. Horizon, updated : 1 .. Horizon, val : Values]

--------------------------------------------------------------------------------
Init == rows = {} /\ now = 0 /\ last = 0

\* A check reads the clock and stores its result.  A check takes time, so two
\* of them never read the same instant.
Upsert(v) ==
  \E ts \in now + 1 .. Horizon :
    /\ rows' \in Upserted(rows, ts, v)
    /\ now' = ts
    /\ last' = ts

PurgeOld ==
  \E ts \in now .. Horizon :
    /\ rows' = Purged(rows, ts - Retention)
    /\ now' = ts
    /\ last' = last

Next == PurgeOld \/ \E v \in Values : Upsert(v)

Spec == Init /\ [][Next]_vars

--------------------------------------------------------------------------------
TypeOK ==
  /\ rows \subseteq Row
  /\ now \in 0 .. Horizon
  /\ last \in 0 .. now

\* A row never ends before it begins nor after the last check, and two rows
\* never claim the same instant: what the table says was in force at an
\* instant is one state (updated_at and created_at are written by different
\* statements of different checks).
RunsDisjoint ==
  /\ \A r \in rows : r.created <= r.updated /\ r.updated <= last
  /\ \A r, s \in rows :
       r # s => r.updated < s.created \/ s.updated < r.created

\* docs/db.md: the upsert exists "to avoid storing identical consecutive rows".
NeighboursDiffer ==
  \A r, s \in rows :
    /\ r.created < s.created
    /\ ~ \E m \in rows : r.created < m.created /\ m.created < s.created
    => r.val # s.val

\* The newest entry of the change list (ordered by created_at) is the current
\* state (ordered by updated_at): the two queries the displays issue side by
\* side never contradict each other.
RecentHeadIsLatest == Recent(rows, 1) = Latest(rows)

\* The table as a timeline.
Covering(t) == {r \in rows : r.created <= t /\ t <= r.updated}
Line ==
  [t \in 1 .. Horizon |->
     IF Covering(t) = {} THEN Unknown ELSE (CHOOSE r \in Covering(t) : TRUE).val]

\* The history is never rewritten: an instant it has told of keeps the state it
\* was told with until it is older than the retention, and an instant before the
\* last check that was unknown stays so.
HistoryIsKept ==
  [][\A t \in 1 .. Horizon :
       /\ Line[t] # Unknown =>
            Line'[t] = Line[t] \/ (Line'[t] = Unknown /\ t < now' - Retention)
       /\ Line[t] = Unknown /\ Line'[t] # Unknown => t > last]_vars

TL == INSTANCE Timeline WITH line <- Line

\* The table answers "which state was in force at t?" as Timeline promises:
\* deduplication and purging lose no more than that.
ImplementsTimeline == TL!Spec

================================================================================

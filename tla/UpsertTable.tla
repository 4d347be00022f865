------------------------------ MODULE UpsertTable ------------------------------
(***************************************************************************)
(* The two deduplicating tables of netwatch.db, probe_vpn and probe_ip     *)
(* (core/db.py): a row is a maximal run of identical consecutive results.  *)
(* The compared columns are one value, val; the timestamps are naturals.   *)
(* Two rows of a table never share a created_at (a float of microseconds   *)
(* taken once per check), so the set of rows needs no rowid.               *)
(***************************************************************************)
EXTENDS Integers, FiniteSets

\* The row an INSERT adds.
NewRow(ts, v) == [created |-> ts, updated |-> ts, val |-> v]

\* Mutants of Latest, Upserted and Purged.
LatestAscending(rows) == {r \in rows : \A s \in rows : r.updated <= s.updated}
UpsertedAlwaysInserts(rows, ts, v) == {rows \cup {NewRow(ts, v)}}
PurgedByCreated(rows, cutoff) == {r \in rows : r.created >= cutoff}

\* ORDER BY updated_at DESC LIMIT 1: rows that tie are all candidates.
Latest(rows) == {r \in rows : \A s \in rows : s.updated <= r.updated}

\* UPDATE ... SET updated_at = ? WHERE rowid = ?
Bump(r, ts) == [r EXCEPT !.updated = ts]

\* The tables an upsert may leave: the latest row is bumped when it holds the
\* same value, otherwise a row is added.
Upserted(rows, ts, v) ==
  IF rows = {}
    THEN {{NewRow(ts, v)}}
    ELSE {IF r.val = v THEN (rows \ {r}) \cup {Bump(r, ts)}
                       ELSE rows \cup {NewRow(ts, v)} : r \in Latest(rows)}

\* DELETE ... WHERE updated_at < cutoff
Purged(rows, cutoff) == {r \in rows : r.updated >= cutoff}

\* ORDER BY created_at DESC LIMIT n, as the set of rows selected.
Recent(rows, n) ==
  {r \in rows : Cardinality({s \in rows : s.created > r.created}) < n}

================================================================================

--------------------------- MODULE StateTableProofs ----------------------------
(***************************************************************************)
(* What the run of Dashboard checks on three values and six instants, of   *)
(* the table and of a dashboard that reads it, proved for every set of     *)
(* values, retention, horizon and length of the change list.               *)
(***************************************************************************)
EXTENDS Dashboard, FiniteSetTheorems, TLAPS

\* The newest row, when there is one, was confirmed by the last check: purging
\* removes rows from the old end only.
LastIsStored == rows # {} => \E r \in rows : r.updated = last

IInv ==
  /\ TypeOK
  /\ IsFiniteSet(rows)
  /\ RunsDisjoint
  /\ NeighboursDiffer
  /\ LastIsStored

--------------------------------------------------------------------------------
\* A row is what its fields say (NewRow and Bump, the INSERT and the UPDATE).
LEMMA RowFields ==
  ASSUME NEW ts \in 1 .. Horizon, NEW v \in Values, NEW r \in Row
  PROVE  /\ NewRow(ts, v) \in Row
         /\ NewRow(ts, v).created = ts
         /\ NewRow(ts, v).updated = ts
         /\ NewRow(ts, v).val = v
         /\ Bump(r, ts) \in Row
         /\ Bump(r, ts).created = r.created
         /\ Bump(r, ts).updated = ts
         /\ Bump(r, ts).val = r.val
BY DEF NewRow, Bump, Row

\* Under disjoint runs, the order by creation and the order by confirmation are
\* one order, so a row that ORDER BY updated_at puts first has no successor.
LEMMA OrdersAgree ==
  ASSUME TypeOK, RunsDisjoint, NEW r \in rows, NEW s \in rows
  PROVE  /\ r.created < s.created <=> r.updated < s.updated
         /\ r.created < s.created => r.updated < s.created
         /\ r.created = s.created => r = s
BY StateTableAssumption DEF TypeOK, RunsDisjoint, Row

\* An upsert that finds the same value extends the newest row.
LEMMA BumpPreserves ==
  ASSUME IInv, NEW ts \in now + 1 .. Horizon, NEW r \in Latest(rows),
         rows' = (rows \ {r}) \cup {Bump(r, ts)}, now' = ts, last' = ts
  PROVE  IInv'
PROOF
  <1> USE StateTableAssumption
  <1> DEFINE b == Bump(r, ts)
  <1>1. /\ r \in rows /\ r \in Row /\ ts \in 1 .. Horizon
        /\ \A s \in rows : s.updated <= r.updated
    BY DEF Latest, IInv, TypeOK
  <1>2. b \in Row /\ b.created = r.created /\ b.updated = ts /\ b.val = r.val
    BY <1>1, RowFields DEF Row
  <1> HIDE DEF b
  <1>3. \A s \in rows \ {r} : s.updated < r.created /\ s \in Row
    BY <1>1, OrdersAgree DEF IInv, RunsDisjoint, TypeOK, Row
  <1>4. TypeOK'
    BY <1>2 DEF IInv, TypeOK, b
  <1>5. IsFiniteSet(rows)'
    <2>1. IsFiniteSet(rows \ {r})
      BY FS_Difference DEF IInv
    <2> QED BY <2>1, FS_AddElement
  <1>6. RunsDisjoint'
    <2>1. \A x \in rows' : x.created <= x.updated /\ x.updated <= last'
      BY <1>1, <1>2, <1>3 DEF IInv, RunsDisjoint, TypeOK, Row, b
    <2>2. ASSUME NEW x \in rows', NEW y \in rows', x # y
          PROVE  x.updated < y.created \/ y.updated < x.created
      BY <2>2, <1>1, <1>2, <1>3 DEF IInv, RunsDisjoint, TypeOK, Row, b
    <2> QED BY <2>1, <2>2 DEF RunsDisjoint
  <1>7. NeighboursDiffer'
    <2>1. SUFFICES ASSUME NEW x \in rows', NEW y \in rows', x.created < y.created,
                          \A m \in rows' : ~ (x.created < m.created /\ m.created < y.created)
                   PROVE  x.val # y.val
      BY DEF NeighboursDiffer
    <2>2. x \in rows \ {r}
      BY <2>1, <1>1, <1>2, <1>3 DEF Row, IInv, RunsDisjoint, TypeOK, b
    <2>3. \A m \in rows : ~ (x.created < m.created /\ m.created < y.created)
      BY <2>1, <1>2 DEF b
    <2>4. CASE y \in rows
      BY <2>1, <2>2, <2>3, <2>4 DEF IInv, NeighboursDiffer
    <2>5. CASE y = b
      BY <2>1, <2>2, <2>3, <2>5, <1>1, <1>2 DEF IInv, NeighboursDiffer
    <2> QED BY <2>4, <2>5 DEF b
  <1>8. LastIsStored'
    BY <1>2 DEF LastIsStored, b
  <1> QED BY <1>4, <1>5, <1>6, <1>7, <1>8 DEF IInv

\* An upsert that finds another value, or an empty table, opens a run.
LEMMA InsertPreserves ==
  ASSUME IInv, NEW ts \in now + 1 .. Horizon, NEW v \in Values,
         \/ rows = {}
         \/ \E r \in Latest(rows) : r.val # v,
         rows' = rows \cup {NewRow(ts, v)}, now' = ts, last' = ts
  PROVE  IInv'
PROOF
  <1> USE StateTableAssumption
  <1> DEFINE n == NewRow(ts, v)
  <1>1. ts \in 1 .. Horizon /\ \A x \in rows : x \in Row /\ x.updated < ts
    BY DEF IInv, TypeOK, RunsDisjoint, Row
  <1>2. n \in Row /\ n.created = ts /\ n.updated = ts /\ n.val = v
    BY <1>1 DEF NewRow, Row
  <1> HIDE DEF n
  <1>3. TypeOK'
    BY <1>2 DEF IInv, TypeOK, n
  <1>4. IsFiniteSet(rows)'
    BY FS_AddElement DEF IInv
  <1>5. RunsDisjoint'
    <2>1. \A x \in rows' : x.created <= x.updated /\ x.updated <= last'
      BY <1>1, <1>2 DEF IInv, RunsDisjoint, TypeOK, Row, n
    <2>2. ASSUME NEW x \in rows', NEW y \in rows', x # y
          PROVE  x.updated < y.created \/ y.updated < x.created
      BY <2>2, <1>1, <1>2 DEF IInv, RunsDisjoint, TypeOK, Row, n
    <2> QED BY <2>1, <2>2 DEF RunsDisjoint
  <1>6. NeighboursDiffer'
    <2>1. SUFFICES ASSUME NEW x \in rows', NEW y \in rows', x.created < y.created,
                          \A m \in rows' : ~ (x.created < m.created /\ m.created < y.created)
                   PROVE  x.val # y.val
      BY DEF NeighboursDiffer
    <2>2. x \in rows
      BY <2>1, <1>1, <1>2 DEF Row, IInv, RunsDisjoint, n
    <2>3. CASE y \in rows
      BY <2>1, <2>2, <2>3 DEF IInv, NeighboursDiffer
    <2>4. CASE y = n
      <3>1. PICK r \in Latest(rows) : r.val # v
        BY <2>2
      <3>2. r \in rows /\ x.updated <= r.updated
        BY <2>2 DEF Latest
      <3>3. r = x
        <4>1. r.created < ts /\ r.created \in Int /\ x.created \in Int
          BY <3>2, <2>2, <1>1 DEF IInv, RunsDisjoint, Row
        <4>2. ~ (x.created < r.created)
          BY <4>1, <3>2, <2>1, <2>4, <1>2
        <4>3. ~ (r.created < x.created)
          BY <3>2, <2>2, <1>1, OrdersAgree DEF IInv, Row
        <4> QED BY <4>1, <4>2, <4>3, <3>2, <2>2, OrdersAgree DEF IInv
      <3> QED BY <3>1, <3>3, <2>4, <1>2
    <2> QED BY <2>3, <2>4 DEF n
  <1>7. LastIsStored'
    BY <1>2 DEF LastIsStored, n
  <1> QED BY <1>3, <1>4, <1>5, <1>6, <1>7 DEF IInv

\* A purge removes the oldest runs, so it makes no two rows neighbours.
LEMMA PurgePreserves ==
  ASSUME IInv, NEW ts \in now .. Horizon,
         rows' = Purged(rows, ts - Retention), now' = ts, last' = last
  PROVE  IInv'
PROOF
  <1> USE StateTableAssumption
  <1>1. ts - Retention \in Int /\ rows' \subseteq rows
    BY DEF Purged, IInv, TypeOK
  <1>2. ASSUME NEW r \in rows', NEW s \in rows, r.updated <= s.updated
        PROVE  s \in rows'
    BY <1>1, <1>2 DEF Purged, IInv, TypeOK, Row
  <1>3. TypeOK'
    BY <1>1 DEF IInv, TypeOK
  <1>4. IsFiniteSet(rows)'
    BY <1>1, FS_Subset DEF IInv
  <1>5. RunsDisjoint'
    BY <1>1 DEF IInv, RunsDisjoint
  <1>6. NeighboursDiffer'
    <2>1. SUFFICES ASSUME NEW x \in rows', NEW y \in rows', x.created < y.created,
                          \A m \in rows' : ~ (x.created < m.created /\ m.created < y.created)
                   PROVE  x.val # y.val
      BY DEF NeighboursDiffer
    <2>2. ASSUME NEW m \in rows, x.created < m.created
          PROVE  m \in rows'
      BY <2>2, <1>1, <1>2, OrdersAgree DEF IInv, TypeOK, Row
    <2> QED BY <2>1, <2>2, <1>1 DEF IInv, NeighboursDiffer
  <1>7. LastIsStored'
    <2>1. SUFFICES ASSUME NEW x \in rows'
                   PROVE  \E r \in rows' : r.updated = last'
      BY DEF LastIsStored
    <2>2. PICK r \in rows : r.updated = last
      BY <1>1 DEF IInv, LastIsStored
    <2>3. r \in rows'
      BY <1>1, <1>2, <2>2 DEF IInv, RunsDisjoint
    <2> QED BY <2>2, <2>3
  <1> QED BY <1>3, <1>4, <1>5, <1>6, <1>7 DEF IInv

\* Which of the two an upsert is.
LEMMA UpsertCases ==
  ASSUME IInv, NEW v \in Values, NEW ts \in now + 1 .. Horizon,
         rows' \in Upserted(rows, ts, v)
  PROVE  \/ /\ rows' = rows \cup {NewRow(ts, v)}
            /\ rows = {} \/ \E r \in Latest(rows) : r.val # v
         \/ \E r \in Latest(rows) :
              r.val = v /\ rows' = (rows \ {r}) \cup {Bump(r, ts)}
BY DEF Upserted

\* Upserts and purges.
LEMMA Inductive == IInv /\ [Next]_vars => IInv'
PROOF
  <1> SUFFICES ASSUME IInv, [Next]_vars PROVE IInv'
    OBVIOUS
  <1>1. CASE PurgeOld
    BY <1>1, PurgePreserves DEF PurgeOld
  <1>2. ASSUME NEW v \in Values, Upsert(v) PROVE IInv'
    <2>1. PICK ts \in now + 1 .. Horizon :
            rows' \in Upserted(rows, ts, v) /\ now' = ts /\ last' = ts
      BY <1>2 DEF Upsert
    <2> QED BY <2>1, UpsertCases, BumpPreserves, InsertPreserves
  <1>3. CASE UNCHANGED vars
    BY <1>3 DEF vars, IInv, TypeOK, RunsDisjoint, NeighboursDiffer, LastIsStored
  <1> QED BY <1>1, <1>2, <1>3 DEF Next

\* The inductive invariant of the table.
THEOREM Invariance == Spec => []IInv
PROOF
  <1>1. Init => IInv
    BY StateTableAssumption, FS_EmptySet
    DEF Init, IInv, TypeOK, RunsDisjoint, NeighboursDiffer, LastIsStored
  <1> QED BY <1>1, Inductive, PTL DEF Spec

--------------------------------------------------------------------------------
\* Rows are well formed and the clock is ahead of the last check.
THEOREM TypeCorrectness == Spec => []TypeOK
BY Invariance, PTL DEF IInv

\* However upserts and purges interleave, the table never assigns two states to
\* one instant.
THEOREM Disjointness == Spec => []RunsDisjoint
BY Invariance, PTL DEF IInv

\* Deduplication is complete: no two consecutive rows are equal, and no purge
\* brings two equal rows together.
THEOREM Deduplication == Spec => []NeighboursDiffer
BY Invariance, PTL DEF IInv

\* The list's first entry is the row the status names.
LEMMA HeadIsLatest == IInv => RecentHeadIsLatest
PROOF
  <1> SUFFICES ASSUME IInv PROVE Recent(rows, 1) = Latest(rows)
    BY DEF RecentHeadIsLatest
  <1>1. ASSUME NEW r \in rows
        PROVE  Cardinality({s \in rows : s.created > r.created}) < 1
               <=> {s \in rows : s.created > r.created} = {}
    <2> DEFINE newer == {s \in rows : s.created > r.created}
    <2>1. IsFiniteSet(newer)
      BY FS_Subset DEF IInv
    <2>2. Cardinality(newer) \in Nat /\ (Cardinality(newer) = 0 <=> newer = {})
      BY <2>1, FS_CardinalityType, FS_EmptySet
    <2> QED BY <2>2
  <1>2. ASSUME NEW r \in rows, NEW s \in rows
        PROVE  s.created > r.created <=> ~ (s.updated <= r.updated)
    BY OrdersAgree, StateTableAssumption DEF IInv, TypeOK, Row
  <1> QED BY <1>1, <1>2 DEF Recent, Latest

\* The head of the change list (fetch_recent) is the current state
\* (fetch_latest), whatever was purged.
THEOREM HeadAgreement == Spec => []RecentHeadIsLatest
BY Invariance, HeadIsLatest, PTL

--------------------------------------------------------------------------------
(* The table implements the timeline. *)

\* A row that covers an instant is what Line answers for it.
LEMMA LineOfRow ==
  ASSUME RunsDisjoint, NEW t \in 1 .. Horizon, NEW r \in Covering(t), TypeOK
  PROVE  Line[t] = r.val /\ r.val # Unknown
PROOF
  <1>1. \A s \in Covering(t) : s = r
    BY StateTableAssumption DEF Covering, RunsDisjoint, TypeOK, Row
  <1>2. r.val # Unknown
    BY StateTableAssumption DEF Covering, TypeOK, Row
  <1> QED BY <1>1, <1>2 DEF Line

\* Where no row covers an instant Line knows nothing.
LEMMA LineOfGap ==
  ASSUME NEW t \in 1 .. Horizon, Covering(t) = {}
  PROVE  Line[t] = Unknown
BY DEF Line

\* The empty table knows nothing.
LEMMA InitMaps == Init => TL!Init
PROOF
  <1> SUFFICES ASSUME Init PROVE TL!Init
    OBVIOUS
  <1>1. \A t \in 1 .. Horizon : Covering(t) = {}
    BY DEF Covering, Init
  <1> QED BY <1>1 DEF TL!Init, TL!Instants, Init, Line

\* Moving the end of the latest row on is observing its value again.
LEMMA BumpMaps ==
  ASSUME IInv, IInv', NEW ts \in now + 1 .. Horizon, NEW r \in Latest(rows),
         rows' = (rows \ {r}) \cup {Bump(r, ts)}, now' = ts, last' = ts
  PROVE  TL!Observe(r.val)
PROOF
  <1> USE StateTableAssumption
  <1> DEFINE b == Bump(r, ts)
  <1>1. r \in rows /\ r \in Row /\ ts \in 1 .. Horizon /\ r.updated = last /\ last < ts
        /\ last \in 1 .. Horizon
    BY DEF Latest, IInv, TypeOK, LastIsStored, RunsDisjoint, Row
  <1>2. b \in Row /\ b.created = r.created /\ b.updated = ts /\ b.val = r.val
    BY <1>1, RowFields DEF Row
  <1> HIDE DEF b
  <1>3. Line[last] = r.val
    BY <1>1, LineOfRow DEF Covering, IInv, RunsDisjoint, Row
  <1>4. ASSUME NEW t \in 1 .. Horizon
        PROVE  Line'[t] = IF t = ts \/ (last < t /\ t < ts) THEN r.val ELSE Line[t]
    <2>1. CASE r.created <= t /\ t <= ts
      <3>1. b \in Covering(t)'
        BY <2>1, <1>2 DEF Covering, b
      <3>2. Line'[t] = r.val
        BY <3>1, <1>2, LineOfRow DEF LineOfRow, Covering, IInv, RunsDisjoint, TypeOK, Line, Row
      <3>3. t <= last => r \in Covering(t)
        BY <2>1, <1>1 DEF Covering
      <3>4. t <= last => Line[t] = r.val
        BY <3>3, LineOfRow DEF IInv
      <3> QED BY <3>2, <3>4, <2>1, <1>1
    <2>2. CASE ~ (r.created <= t /\ t <= ts)
      <3>1. Covering(t)' = Covering(t)
        BY <2>2, <1>1, <1>2 DEF Covering, b, Row
      <3>2. Line'[t] = Line[t]
        BY <3>1 DEF Line
      <3> QED BY <3>2, <2>2, <1>1 DEF IInv, RunsDisjoint, Row
    <2> QED BY <2>1, <2>2
  <1>5. ts \in last + 1 .. Horizon
    BY <1>1
  <1>6. Line' = [t \in 1 .. Horizon |-> Line'[t]]
    BY DEF Line
  <1>7. last # 0
    BY <1>1
  <1>8. Line' = [t \in 1 .. Horizon |->
                   IF t = ts \/ (last # 0 /\ Line[last] = r.val /\ last < t /\ t < ts)
                     THEN r.val ELSE Line[t]]
    <2> HIDE DEF Line
    <2> QED BY <1>3, <1>4, <1>6, <1>7
  <1> QED BY <1>5, <1>8 DEF TL!Observe, TL!Instants

\* A new row is the observation of a value that differs from the last.
LEMMA InsertMaps ==
  ASSUME IInv, IInv', NEW ts \in now + 1 .. Horizon, NEW v \in Values,
         \/ rows = {}
         \/ \E r \in Latest(rows) : r.val # v,
         rows' = rows \cup {NewRow(ts, v)}, now' = ts, last' = ts
  PROVE  TL!Observe(v)
PROOF
  <1> USE StateTableAssumption
  <1> DEFINE n == NewRow(ts, v)
  <1>1. ts \in 1 .. Horizon /\ last \in 0 .. Horizon /\ last < ts
        /\ \A x \in rows : x \in Row /\ x.updated < ts
    BY DEF IInv, TypeOK, RunsDisjoint, Row
  <1>2. n \in Row /\ n.created = ts /\ n.updated = ts /\ n.val = v
    BY <1>1 DEF NewRow, Row
  <1> HIDE DEF n
  <1>3. ~ (last # 0 /\ Line[last] = v)
    <2>1. CASE rows = {}
      <3>1. last # 0 => Line[last] = Unknown
        BY <2>1, <1>1, LineOfGap DEF Covering
      <3> QED BY <3>1
    <2>2. CASE rows # {}
      <3>1. PICK r \in Latest(rows) : r.val # v
        BY <2>2
      <3>2. r \in rows /\ r \in Row /\ r.updated = last
        BY <3>1 DEF Latest, IInv, LastIsStored, RunsDisjoint, TypeOK, Row
      <3>3. last \in 1 .. Horizon /\ r \in Covering(last)
        BY <3>2 DEF Covering, IInv, RunsDisjoint, Row
      <3>4. Line[last] = r.val
        BY <3>3, LineOfRow DEF IInv
      <3> QED BY <3>1, <3>4
    <2> QED BY <2>1, <2>2
  <1>4. ASSUME NEW t \in 1 .. Horizon
        PROVE  Line'[t] = IF t = ts THEN v ELSE Line[t]
    <2>1. CASE t = ts
      <3>1. Covering(t)' = {n}
        BY <2>1, <1>1, <1>2 DEF Covering, n, Row
      <3> QED BY <3>1, <2>1, <1>2 DEF Line
    <2>2. CASE t # ts
      <3>1. Covering(t)' = Covering(t)
        BY <2>2, <1>1, <1>2 DEF Covering, n
      <3> QED BY <3>1, <2>2 DEF Line
    <2> QED BY <2>1, <2>2
  <1>5. Line' = [t \in 1 .. Horizon |-> Line'[t]]
    BY DEF Line
  <1>6. Line' = [t \in 1 .. Horizon |->
                   IF t = ts \/ (last # 0 /\ Line[last] = v /\ last < t /\ t < ts)
                     THEN v ELSE Line[t]]
    <2> HIDE DEF Line
    <2> QED BY <1>3, <1>4, <1>5
  <1>7. ts \in last + 1 .. Horizon
    BY <1>1
  <1> QED BY <1>6, <1>7 DEF TL!Observe, TL!Instants

\* Neighbours that differ are what keeps a purged run from being confused with
\* the run that follows it.
LEMMA PurgeMaps ==
  ASSUME IInv, IInv', NEW ts \in now .. Horizon,
         rows' = Purged(rows, ts - Retention), now' = ts, last' = last
  PROVE  TL!Forget
PROOF
  <1> USE StateTableAssumption
  <1> DEFINE cutoff == IF ts - Retention < 1 THEN 1 ELSE ts - Retention
  <1>1. /\ cutoff \in 1 .. Horizon
        /\ \A r \in rows : r \in rows' <=> r.updated >= cutoff
        /\ rows' \subseteq rows
        /\ \A r \in rows : r \in Row
    BY DEF Purged, IInv, TypeOK, Row
  <1> HIDE DEF cutoff
  <1>2. ASSUME NEW t \in 1 .. Horizon, Covering(t) = {}
        PROVE  Line'[t] = Unknown /\ Line[t] = Unknown
    <2>1. Covering(t)' = {}
      BY <1>2, <1>1 DEF Covering
    <2> QED BY <2>1, <1>2 DEF Line
  <1>3. ASSUME NEW t \in 1 .. Horizon, NEW r \in Covering(t), r.updated >= cutoff
        PROVE  Line'[t] = Line[t]
               /\ (t >= cutoff \/ \A u \in t .. cutoff : Line[u] = Line[t])
    <2>1. Covering(t)' = Covering(t)
      BY <1>3, <1>1 DEF Covering, IInv, RunsDisjoint, Row
    <2>2. \A u \in t .. cutoff : u \in 1 .. Horizon /\ r \in Covering(u)
      BY <1>3, <1>1 DEF Covering, Row
    <2>3. Line[t] = r.val
      BY LineOfRow DEF IInv
    <2>4. \A u \in t .. cutoff : Line[u] = r.val
      BY <2>2, LineOfRow DEF IInv
    <2>5. Line'[t] = Line[t]
      BY <2>1 DEF Line
    <2> QED BY <2>3, <2>4, <2>5
  <1>4. ASSUME NEW t \in 1 .. Horizon, NEW r \in Covering(t), r.updated < cutoff
        PROVE  Line'[t] = Unknown
               /\ ~ (t >= cutoff \/ \A u \in t .. cutoff : Line[u] = Line[t])
    <2>1. Covering(t)' = {}
      BY <1>4, <1>1 DEF Covering, IInv, RunsDisjoint, Row
    <2>2. Line'[t] = Unknown
      BY <2>1 DEF Line
    <2>3. r \in rows /\ r \in Row /\ t <= r.updated
      BY <1>1 DEF Covering
    <2>4. r.updated + 1 \in t .. cutoff /\ r.updated + 1 \in 1 .. Horizon /\ t < cutoff
      BY <1>1, <1>4, <2>3 DEF Row
    <2>5. Line[t] = r.val /\ r.val # Unknown
      BY LineOfRow DEF IInv
    <2>6. Line[r.updated + 1] # r.val
      <3>1. CASE Covering(r.updated + 1) = {}
        BY <3>1, <2>4, <2>5, LineOfGap
      <3>2. CASE Covering(r.updated + 1) # {}
        <4>1. PICK s \in Covering(r.updated + 1) : TRUE
          BY <3>2
        <4>2. s \in rows /\ s \in Row /\ s.created = r.updated + 1 /\ r.created < s.created
          BY <4>1, <2>3, <1>1 DEF Covering, IInv, RunsDisjoint, Row
        <4>3. \A m \in rows : ~ (r.created < m.created /\ m.created < s.created)
          BY <4>2, <2>3, <1>1 DEF IInv, RunsDisjoint, Row
        <4>4. r.val # s.val
          BY <4>2, <4>3, <2>3 DEF IInv, NeighboursDiffer
        <4>5. Line[r.updated + 1] = s.val
          BY <2>4, LineOfRow DEF IInv
        <4> QED BY <4>4, <4>5
      <3> QED BY <3>1, <3>2
    <2>7. t \in Int /\ cutoff \in Int
      BY <1>1
    <2> HIDE DEF Line
    <2> QED BY <2>2, <2>4, <2>5, <2>6, <2>7
  <1>5. ASSUME NEW t \in 1 .. Horizon
        PROVE  Line'[t] = IF t >= cutoff \/ \A u \in t .. cutoff : Line[u] = Line[t]
                            THEN Line[t] ELSE Unknown
    <2>1. CASE Covering(t) = {}
      <3> HIDE DEF Line
      <3> QED BY <2>1, <1>2
    <2>2. CASE \E r \in Covering(t) : r.updated >= cutoff
      <3> HIDE DEF Line
      <3> QED BY <2>2, <1>3
    <2>3. CASE \E r \in Covering(t) : r.updated < cutoff
      <3> HIDE DEF Line
      <3> QED BY <2>3, <1>4
    <2> QED BY <2>1, <2>2, <2>3, <1>1 DEF Covering, Row
  <1>6. Line' = [t \in 1 .. Horizon |-> Line'[t]]
    BY DEF Line
  <1>7. Line' = [t \in 1 .. Horizon |->
                   IF t >= cutoff \/ \A u \in t .. cutoff : Line[u] = Line[t]
                     THEN Line[t] ELSE Unknown]
    <2> HIDE DEF Line
    <2> QED BY <1>5, <1>6
  <1> QED BY <1>7, <1>1 DEF TL!Forget, TL!Instants

\* Every step of the table is a step of the timeline, or a stutter.
LEMMA StepMaps == IInv /\ IInv' /\ [Next]_vars => [TL!Next]_(TL!vars)
PROOF
  <1> SUFFICES ASSUME IInv, IInv', [Next]_vars PROVE [TL!Next]_(TL!vars)
    OBVIOUS
  <1>1. CASE PurgeOld
    BY <1>1, PurgeMaps DEF PurgeOld, TL!Next
  <1>2. ASSUME NEW v \in Values, Upsert(v) PROVE TL!Next
    <2>1. PICK ts \in now + 1 .. Horizon :
            rows' \in Upserted(rows, ts, v) /\ now' = ts /\ last' = ts
      BY <1>2 DEF Upsert
    <2>2. TL!Observe(v)
      BY <2>1, UpsertCases, BumpMaps, InsertMaps
    <2> QED BY <2>2 DEF TL!Next
  <1>3. CASE UNCHANGED vars
    BY <1>3 DEF vars, TL!vars, Line, Covering
  <1> QED BY <1>1, <1>2, <1>3 DEF Next

\* The table implements the timeline: what it answers for every instant is what
\* the results and the retention imply.
THEOREM Refinement == Spec => ImplementsTimeline
BY Invariance, InitMaps, StepMaps, PTL DEF Spec, ImplementsTimeline, TL!Spec

\* Nothing is known yet of what comes after the last check.
LEMMA FutureUnknown ==
  ASSUME IInv, NEW t \in 1 .. Horizon, t > last
  PROVE  Line[t] = Unknown
PROOF
  <1>1. Covering(t) = {}
    BY StateTableAssumption DEF Covering, IInv, TypeOK, RunsDisjoint, Row
  <1> QED BY <1>1, LineOfGap

\* A purge takes whole runs, and those only that ended before the cutoff.
LEMMA PurgeForgets ==
  ASSUME IInv, NEW ts \in now .. Horizon, NEW t \in 1 .. Horizon,
         rows' = Purged(rows, ts - Retention)
  PROVE  Line'[t] = Line[t] \/ (Line'[t] = Unknown /\ t < ts - Retention)
PROOF
  <1> USE StateTableAssumption
  <1>1. ts \in Int /\ \A r \in rows : r \in Row /\ r.created \in Int /\ r.updated \in Int
    BY DEF IInv, TypeOK, Row
  <1>2. CASE \A r \in Covering(t) : r.updated >= ts - Retention
    <2>1. Covering(t)' = Covering(t)
      BY <1>2 DEF Covering, Purged
    <2> QED BY <2>1 DEF Line
  <1>3. ASSUME NEW r \in Covering(t), ~ (r.updated >= ts - Retention)
        PROVE  Line'[t] = Unknown /\ t < ts - Retention
    <2>1. \A s \in Covering(t) : s = r
      BY <1>1 DEF Covering, IInv, RunsDisjoint
    <2>2. Covering(t)' = {}
      BY <1>3, <2>1 DEF Covering, Purged
    <2>3. t < ts - Retention
      BY <1>1, <1>3 DEF Covering
    <2> QED BY <2>2, <2>3 DEF Line
  <1> QED BY <1>2, <1>3

\* The history is never rewritten, by no order of upserts and purges.
THEOREM HistoryKept == Spec => HistoryIsKept
PROOF
  <1> DEFINE Kept == \A t \in 1 .. Horizon :
               /\ Line[t] # Unknown =>
                    Line'[t] = Line[t] \/ (Line'[t] = Unknown /\ t < now' - Retention)
               /\ Line[t] = Unknown /\ Line'[t] # Unknown => t > last
  <1>1. IInv /\ IInv' /\ [Next]_vars => [Kept]_vars
    <2> SUFFICES ASSUME IInv, IInv', Next, NEW t \in 1 .. Horizon
                 PROVE  /\ Line[t] # Unknown =>
                             Line'[t] = Line[t] \/ (Line'[t] = Unknown /\ t < now' - Retention)
                        /\ Line[t] = Unknown /\ Line'[t] # Unknown => t > last
      OBVIOUS
    <2>1. CASE PurgeOld
      BY <2>1, PurgeForgets DEF PurgeOld
    <2>2. ASSUME NEW v \in Values, Upsert(v)
          PROVE  IF t > last THEN Line[t] = Unknown ELSE Line'[t] = Line[t]
      <3>1. TL!Observe(v)
        BY <2>2, UpsertCases, BumpMaps, InsertMaps DEF Upsert
      <3>2. PICK ts \in last + 1 .. Horizon :
              Line'[t] = IF t = ts \/ (last # 0 /\ Line[last] = v /\ last < t /\ t < ts)
                           THEN v ELSE Line[t]
        BY <3>1 DEF TL!Observe, TL!Instants
      <3>3. last \in Int
        BY DEF IInv, TypeOK
      <3> QED BY <3>2, <3>3, FutureUnknown
    <2> QED BY <2>1, <2>2 DEF Next
  <1>2. Spec => [][Kept]_vars
    <2> HIDE DEF Kept
    <2> QED BY <1>1, Invariance, PTL DEF Spec
  <1> QED BY <1>2 DEF HistoryIsKept

--------------------------------------------------------------------------------
(* A dashboard reads beside the daemon. *)

\* Reading leaves the table alone, so the theorems above hold beside readers.
THEOREM ReadersOnlyRead == SpecAll => Spec
PROOF
  <1>1. InitAll => Init
    BY DEF InitAll
  <1>2. [NextAll]_allVars => [Next]_vars
    BY DEF NextAll, allVars, ReadStatus, ReadList
  <1> QED BY <1>1, <1>2, PTL DEF SpecAll, Spec

\* The rows begun after row r.
Newer(r) == {s \in rows : s.created > r.created}

\* How many rows are newer than a row.
LEMMA NewerIs ==
  ASSUME IInv, NEW r \in rows
  PROVE  /\ Newer(r) \subseteq rows /\ r \notin Newer(r)
         /\ Cardinality(Newer(r)) \in Nat /\ Cardinality(Newer(r)) < Cardinality(rows)
PROOF
  <1>1. Newer(r) \subseteq rows /\ r \notin Newer(r)
    BY StateTableAssumption DEF Newer, IInv, TypeOK, Row
  <1>2. IsFiniteSet(Newer(r)) /\ Cardinality(Newer(r)) <= Cardinality(rows)
        /\ Cardinality(Newer(r)) # Cardinality(rows)
    BY <1>1, FS_Subset DEF IInv
  <1>3. Cardinality(Newer(r)) \in Nat /\ Cardinality(rows) \in Nat
    BY <1>2, FS_CardinalityType DEF IInv
  <1> QED BY <1>1, <1>2, <1>3

\* The older of two rows has more rows after it.
LEMMA OlderHasMore ==
  ASSUME IInv, NEW r \in rows, NEW s \in rows, r.created < s.created
  PROVE  Cardinality(Newer(s)) < Cardinality(Newer(r))
PROOF
  <1>1. Newer(s) \subseteq Newer(r) /\ s \in Newer(r) /\ s \notin Newer(s)
    BY StateTableAssumption, NewerIs DEF Newer, IInv, TypeOK, Row
  <1>2. IsFiniteSet(Newer(r))
    BY NewerIs, FS_Subset DEF IInv
  <1>3. /\ Cardinality(Newer(s)) <= Cardinality(Newer(r))
        /\ Cardinality(Newer(s)) # Cardinality(Newer(r))
    BY <1>1, <1>2, FS_Subset
  <1> QED BY <1>3, NewerIs

\* A change list has as many entries as it may, while the table has as many rows:
\* counting the rows after each row numbers the rows from 0.
LEMMA RecentIsFull ==
  ASSUME IInv, NEW n \in Nat, n <= Cardinality(rows)
  PROVE  Cardinality(Recent(rows, n)) = n
PROOF
  <1> DEFINE place == [r \in rows |-> Cardinality(Newer(r))]
             size == Cardinality(rows)
             top == Recent(rows, n)
             first == [r \in top |-> Cardinality(Newer(r))]
  <1>1. size \in Nat /\ IsFiniteSet(rows)
    BY FS_CardinalityType DEF IInv
  <1>2. \A k \in Nat : IsFiniteSet(0 .. k - 1) /\ Cardinality(0 .. k - 1) = k
    BY FS_Interval
  <1>3. ASSUME NEW r \in rows, NEW s \in rows, r # s
        PROVE  Cardinality(Newer(r)) # Cardinality(Newer(s))
    <2>1. r.created < s.created \/ s.created < r.created
      BY <1>3, OrdersAgree, StateTableAssumption DEF IInv, TypeOK, Row
    <2> QED BY <2>1, OlderHasMore, NewerIs
  <1>4. place \in Surjection(rows, 0 .. size - 1)
    <2>1. \A r \in rows : Cardinality(Newer(r)) \in 0 .. size - 1
      BY <1>1, NewerIs
    <2>2. place \in Injection(rows, 0 .. size - 1)
      BY <1>3, <2>1 DEF Injection, IsInjective
    <2> HIDE DEF place
    <2> QED BY <1>1, <1>2, <2>2, FS_Injection
  <1>5. top = {r \in rows : Cardinality(Newer(r)) < n}
    BY DEF Recent, Newer
  <1>6. first \in Injection(top, 0 .. n - 1)
    <2>1. \A r \in top : Cardinality(Newer(r)) \in 0 .. n - 1
      BY <1>5, NewerIs
    <2> QED BY <1>3, <1>5, <2>1 DEF Injection, IsInjective
  <1>7. first \in Surjection(top, 0 .. n - 1)
    <2>1. ASSUME NEW k \in 0 .. n - 1 PROVE \E r \in top : first[r] = k
      <3>1. k \in 0 .. size - 1
        BY <1>1
      <3>2. PICK r \in rows : Cardinality(Newer(r)) = k
        BY <1>4, <3>1 DEF Surjection
      <3> QED BY <1>5, <3>2
    <2> HIDE DEF first
    <2> QED BY <1>6, <2>1 DEF Surjection, Injection
  <1> HIDE DEF first, top
  <1>8. Cardinality(top) = Cardinality(0 .. n - 1)
    BY <1>2, <1>6, <1>7, FS_Injection
  <1> QED BY <1>2, <1>8 DEF top

\* Between the two queries the run shown as the status goes on, or it is purged
\* in its turn; what is begun is begun after the first query.
Between ==
  /\ \A s \in status : (\E r \in rows : IsRunOf(r, s)) \/ s.updated < now - Retention
  /\ \A r \in rows : (\A s \in status : r.created > s.created) => r.created > readAt

IInvAll ==
  /\ IInv
  /\ status \subseteq Row
  /\ readAt \in 0 .. now
  /\ asking => Between
  /\ ListContinuesStatus

\* The status read is the latest row, or none, of the table as it is.
LEMMA ReadStatusPreserves == IInvAll /\ ReadStatus => IInvAll'
PROOF
  <1> SUFFICES ASSUME IInvAll, ReadStatus PROVE IInvAll'
    OBVIOUS
  <1>1. /\ rows' = rows /\ now' = now /\ last' = last /\ asking' /\ readAt' = now
        /\ \/ rows = {} /\ status' = {}
           \/ \E s \in Latest(rows) : status' = {s}
    BY DEF ReadStatus, vars
  <1>2. IInv'
    BY <1>1 DEF IInvAll, IInv, TypeOK, RunsDisjoint, NeighboursDiffer, LastIsStored
  <1>3. status' \subseteq Row /\ readAt' \in 0 .. now'
    BY <1>1 DEF IInvAll, IInv, TypeOK, Latest
  <1>4. Between'
    <2>1. CASE rows = {} /\ status' = {}
      BY <1>1, <2>1 DEF Between
    <2>2. ASSUME NEW s \in Latest(rows), status' = {s} PROVE Between'
      <3>1. s \in rows /\ s \in Row /\ \A r \in rows : r.updated <= s.updated /\ r \in Row
        BY DEF Latest, IInvAll, IInv, TypeOK
      <3>2. \A r \in rows : ~ (r.created > s.created)
        BY <3>1, OrdersAgree, StateTableAssumption DEF IInvAll, IInv, Row
      <3>3. IsRunOf(s, s)
        BY <3>1, StateTableAssumption DEF IsRunOf, Row
      <3> QED BY <1>1, <2>2, <3>1, <3>2, <3>3 DEF Between, IsRunOf
    <2> QED BY <1>1, <2>1, <2>2
  <1>5. ListContinuesStatus'
    BY <1>1 DEF ListContinuesStatus, Painted
  <1> QED BY <1>2, <1>3, <1>4, <1>5 DEF IInvAll

\* What the list omits was purged since the status was read, what it adds came after.
LEMMA ReadListPreserves == IInvAll /\ ReadList => IInvAll'
PROOF
  <1> SUFFICES ASSUME IInvAll, ReadList PROVE IInvAll'
    OBVIOUS
  <1> USE DashboardAssumption, StateTableAssumption
  <1>1. /\ rows' = rows /\ now' = now /\ last' = last /\ status' = status /\ readAt' = readAt
        /\ ~ asking' /\ list' = Recent(rows, Limit) /\ Between
    BY DEF ReadList, vars, IInvAll
  <1>2. IInv'
    BY <1>1 DEF IInvAll, IInv, TypeOK, RunsDisjoint, NeighboursDiffer, LastIsStored
  <1>3. list' \subseteq rows /\ \A r \in rows : r \in Row
    BY <1>1 DEF Recent, IInvAll, IInv, TypeOK
  <1>4. ASSUME NEW s \in status, NEW r \in rows, IsRunOf(r, s), r \notin list'
        PROVE  Cardinality(list') = Limit /\ \A q \in list' : q.created > s.updated
    <2>1. ~ (Cardinality(Newer(r)) < Limit)
      BY <1>1, <1>4 DEF Recent, Newer
    <2>2. Cardinality(rows) \in Nat /\ Limit <= Cardinality(rows)
      BY <2>1, NewerIs, FS_CardinalityType DEF IInvAll, IInv
    <2>3. Cardinality(list') = Limit
      BY <1>1, <2>2, RecentIsFull DEF IInvAll
    <2>4. ASSUME NEW q \in list' PROVE q.created > s.updated
      <3>1. q \in rows /\ Cardinality(Newer(q)) < Limit
        BY <1>1 DEF Recent, Newer
      <3>2. ~ (q.created < r.created)
        BY <2>1, <3>1, NewerIs, OlderHasMore DEF IInvAll
      <3>3. q # r
        BY <1>4
      <3>4. r.updated < q.created
        BY <1>3, <3>1, <3>2, <3>3, OrdersAgree DEF IInvAll, IInv, Row
      <3> QED BY <1>3, <1>4, <3>1, <3>4 DEF IsRunOf, IInvAll, Row
    <2> QED BY <2>3, <2>4
  <1>5. ListContinuesStatus'
    BY <1>1, <1>3, <1>4 DEF ListContinuesStatus, Between, IsRunOf
  <1> QED BY <1>1, <1>2, <1>5 DEF IInvAll

\* The daemon writes, before, between or after the queries.
LEMMA DaemonPreserves == IInvAll /\ Next /\ UNCHANGED readerVars => IInvAll'
PROOF
  <1> SUFFICES ASSUME IInvAll, Next, UNCHANGED readerVars PROVE IInvAll'
    OBVIOUS
  <1> USE StateTableAssumption
  <1>1. /\ asking' = asking /\ status' = status /\ list' = list /\ readAt' = readAt
        /\ IInv /\ IInv' /\ status \subseteq Row /\ readAt \in Nat /\ now \in Nat
        /\ readAt <= now
    BY Inductive DEF readerVars, IInvAll, IInv, TypeOK
  <1>2. now <= now' /\ now' \in Nat
    BY <1>1 DEF Next, PurgeOld, Upsert, IInv, TypeOK
  <1>3. \A s \in status : s.updated < now - Retention => s.updated < now' - Retention
    BY <1>1, <1>2 DEF Row
  <1>4. ASSUME Between PROVE Between'
    <2>1. CASE PurgeOld
      <3>1. PICK ts \in now .. Horizon :
              rows' = Purged(rows, ts - Retention) /\ now' = ts /\ last' = last
        BY <2>1 DEF PurgeOld
      <3>2. ASSUME NEW s \in status
            PROVE  (\E r \in rows' : IsRunOf(r, s)) \/ s.updated < now' - Retention
        <4>1. CASE s.updated < now - Retention
          BY <1>3, <4>1
        <4>2. ASSUME NEW r \in rows, IsRunOf(r, s), r \notin rows'
              PROVE  s.updated < now' - Retention
          <5>1. ~ (r.updated >= now' - Retention)
            BY <3>1, <4>2 DEF Purged
          <5> QED BY <1>1, <1>2, <4>2, <5>1 DEF IsRunOf, IInv, TypeOK, Row
        <4> QED BY <1>4, <4>1, <4>2 DEF Between
      <3> QED BY <1>1, <1>4, <3>1, <3>2 DEF Between, IsRunOf, Purged
    <2>2. ASSUME NEW v \in Values, Upsert(v) PROVE Between'
      <3>1. PICK ts \in now + 1 .. Horizon :
              rows' \in Upserted(rows, ts, v) /\ now' = ts /\ last' = ts
        BY <2>2 DEF Upsert
      <3>2. \A r \in rows : r \in Row /\ r.updated \in Nat /\ r.updated <= ts
        BY <1>1, <3>1 DEF IInv, TypeOK, RunsDisjoint, Row
      <3> DEFINE goesOn == \A r \in rows : \E q \in rows' :
                             q.created = r.created /\ q.val = r.val /\ q.updated >= r.updated
                 begins == \A q \in rows' :
                             q.created = ts \/ \E r \in rows : q.created = r.created
      <3>3. goesOn /\ begins
        <4>1. ts \in 1 .. Horizon
          BY <1>1, <3>1
        <4>2. CASE rows' = rows \cup {NewRow(ts, v)}
          BY <3>2, <4>1, <4>2 DEF NewRow
        <4>3. ASSUME NEW l \in Latest(rows), rows' = (rows \ {l}) \cup {Bump(l, ts)}
              PROVE  goesOn /\ begins
          <5>1. l \in rows /\ Bump(l, ts).created = l.created /\ Bump(l, ts).val = l.val
                /\ Bump(l, ts).updated = ts
            BY <3>2, <4>1, RowFields DEF Latest
          <5> QED BY <3>2, <4>3, <5>1
        <4> QED BY <1>1, <3>1, <4>2, <4>3, UpsertCases
      <3>5. ts > readAt
        BY <1>1, <3>1
      <3>6. \A s \in status : (\E r \in rows' : IsRunOf(r, s)) \/ s.updated < now' - Retention
        <4>1. \A s \in status, r \in rows : IsRunOf(r, s) => \E q \in rows' : IsRunOf(q, s)
          BY <1>1, <3>2, <3>3 DEF IsRunOf, IInv, TypeOK, Row
        <4> QED BY <1>3, <1>4, <4>1 DEF Between
      <3>7. \A q \in rows' : (\A s \in status : q.created > s.created) => q.created > readAt
        BY <1>4, <3>3, <3>5 DEF Between
      <3> QED BY <1>1, <3>6, <3>7 DEF Between, IsRunOf
    <2> QED BY <2>1, <2>2 DEF Next
  <1>5. ListContinuesStatus'
    BY <1>1, <1>3 DEF IInvAll, ListContinuesStatus, Painted, IsRunOf
  <1>6. readAt' \in 0 .. now'
    BY <1>1, <1>2
  <1> QED BY <1>1, <1>4, <1>5, <1>6 DEF IInvAll

\* The inductive invariant of the table with its reader.
THEOREM InvarianceAll == SpecAll => []IInvAll
PROOF
  <1>1. InitAll => IInvAll
    BY StateTableAssumption, FS_EmptySet
    DEF InitAll, Init, IInvAll, IInv, TypeOK, RunsDisjoint, NeighboursDiffer, LastIsStored,
        ListContinuesStatus, Painted
  <1>2. IInvAll /\ [NextAll]_allVars => IInvAll'
    <2> SUFFICES ASSUME IInvAll, [NextAll]_allVars PROVE IInvAll'
      OBVIOUS
    <2>1. CASE UNCHANGED allVars
      BY <2>1 DEF allVars, vars, readerVars, IInvAll, IInv, TypeOK, RunsDisjoint,
         NeighboursDiffer, LastIsStored, Between, IsRunOf, ListContinuesStatus, Painted
    <2> QED BY <2>1, ReadStatusPreserves, ReadListPreserves, DaemonPreserves DEF NextAll
  <1> QED BY <1>1, <1>2, PTL DEF SpecAll

\* The change list painted under a status continues it, however the daemon's
\* upserts and purges fall between the two queries of a refresh.
THEOREM ListFitsStatus == SpecAll => []ListContinuesStatus
PROOF
  <1>1. IInvAll => ListContinuesStatus
    BY DEF IInvAll
  <1> QED BY <1>1, InvarianceAll, PTL

================================================================================

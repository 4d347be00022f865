----------------------------- MODULE IpCheckProofs -----------------------------
(***************************************************************************)
(* The two country caches agree and name one country per address, for     *)
(* every set of addresses and countries, every retention and horizon.      *)
(***************************************************************************)
EXTENDS IpTable, WellFoundedInduction, TLAPS

\* No row is from the future.
RowsAreOld == \A r \in rows : r.updated <= now

\* The rows of S are runs of checks, one after the other.
RunsApart(S) ==
  /\ \A r \in S : r.created <= r.updated
  /\ \A r, s \in S : r # s => r.updated < s.created \/ s.updated < r.created

\* CountryIsKept, of a table S.
CountryKept(S) ==
  \A r, s \in S :
    /\ r.created < s.created
    /\ ~ \E m \in S : r.created < m.created /\ m.created < s.created
    /\ r.val.ip = s.val.ip
    => r.val.country = None

\* What makes the two caches agree is that every row is older than the next check,
\* and what makes the row before a row the one it was compared with is that runs
\* do not overlap.
IInv ==
  /\ TypeOK
  /\ RowsAreOld
  /\ RunsApart(rows)
  /\ CountryKept(rows)
  /\ CacheAgrees
  /\ CountryBelongsToIp
  /\ OneCountryPerIp
  /\ NoRedundantLookup

Row == [created : 1 .. Horizon, updated : 1 .. Horizon, val : IpResult]

--------------------------------------------------------------------------------
\* An upsert keeps some of the rows and leaves the result in a row newer than
\* all the others; every value it leaves was there or is the result.
LEMMA UpsertLeaves ==
  ASSUME TypeOK, RowsAreOld, now < Horizon, NEW v \in IpResult,
         NEW new \in Upserted(rows, now + 1, v)
  PROVE  /\ new \subseteq Row
         /\ \A r \in new : r.updated <= now + 1
         /\ \A r \in new : r.val = v \/ \E s \in rows : s.val = r.val
         /\ \E r \in new : r.val = v /\ r.updated = now + 1
PROOF
  <1> USE IpCheckAssumption
  <1>1. now + 1 \in 1 .. Horizon /\ rows \subseteq Row
    BY DEF TypeOK, Row
  <1>2. NewRow(now + 1, v) \in Row /\ NewRow(now + 1, v).val = v
        /\ NewRow(now + 1, v).updated = now + 1
    BY <1>1 DEF NewRow, Row
  <1>3. \A r \in Row : /\ Bump(r, now + 1) \in Row /\ Bump(r, now + 1).val = r.val
                       /\ Bump(r, now + 1).updated = now + 1
    BY <1>1 DEF Bump, Row
  <1>4. CASE new = rows \cup {NewRow(now + 1, v)}
    BY <1>1, <1>2, <1>4 DEF RowsAreOld, TypeOK, Row
  <1>5. CASE \E r \in rows : r.val = v /\ new = (rows \ {r}) \cup {Bump(r, now + 1)}
    BY <1>1, <1>3, <1>5 DEF RowsAreOld, TypeOK, Row
  <1>6. CASE new = {NewRow(now + 1, v)}
    BY <1>1, <1>2, <1>6 DEF TypeOK
  <1> QED BY <1>4, <1>5, <1>6 DEF Upserted, Latest

\* The latest run is the one begun last, so the row an upsert adds follows the
\* row it was compared with.
LEMMA UpsertKeeps ==
  ASSUME TypeOK, RowsAreOld, RunsApart(rows), CountryKept(rows), now < Horizon,
         NEW v \in IpResult, NEW new \in Upserted(rows, now + 1, v),
         \A r \in rows : r.val.ip = v.ip /\ r.val.country # None => r.val.country = v.country
  PROVE  RunsApart(new) /\ CountryKept(new)
PROOF
  <1> USE IpCheckAssumption
  <1> DEFINE fresh == NewRow(now + 1, v)
  <1>1. /\ now \in Nat /\ rows \subseteq Row
        /\ \A r \in Row : r.created \in Nat /\ r.updated \in Nat
        /\ \A r \in rows : r.created <= now /\ r.updated <= now /\ r.created <= r.updated
    BY DEF TypeOK, Row, RowsAreOld, RunsApart
  <1>2. fresh.created = now + 1 /\ fresh.updated = now + 1 /\ fresh.val = v
    BY DEF NewRow
  <1>3. CASE new = {fresh}
    BY <1>1, <1>2, <1>3 DEF RunsApart, CountryKept
  <1>4. ASSUME NEW l \in Latest(rows), l.val = v,
               new = (rows \ {l}) \cup {Bump(l, now + 1)}
        PROVE  RunsApart(new) /\ CountryKept(new)
    <2> DEFINE b == Bump(l, now + 1)
    <2>1. /\ b.created = l.created /\ b.updated = now + 1 /\ b.val = l.val /\ l \in rows
          /\ \A r \in rows : r.updated <= l.updated
      BY <1>1 DEF Bump, Row, Latest
    <2>2. \A r \in rows \ {l} : r.updated < l.created
      BY <1>1, <2>1 DEF RunsApart
    <2> HIDE DEF b
    <2>3. RunsApart(new)
      <3>1. \A r \in new : r = b \/ r \in rows \ {l}
        BY <1>4 DEF b
      <3> QED BY <1>1, <2>1, <2>2, <3>1 DEF RunsApart
    <2>4. \A r \in new : \E q \in rows : q.created = r.created /\ q.val = r.val
      BY <1>4, <2>1 DEF b
    <2>5. \A q \in rows : \E r \in new : q.created = r.created /\ q.val = r.val
      BY <1>4, <2>1 DEF b
    <2>6. CountryKept(new)
      <3> SUFFICES ASSUME NEW r \in new, NEW s \in new, r.created < s.created,
                          ~ \E m \in new : r.created < m.created /\ m.created < s.created,
                          r.val.ip = s.val.ip
                   PROVE  r.val.country = None
        BY DEF CountryKept
      <3>1. PICK q \in rows : q.created = r.created /\ q.val = r.val
        BY <2>4
      <3>2. PICK t \in rows : t.created = s.created /\ t.val = s.val
        BY <2>4
      <3>3. ~ \E m \in rows : q.created < m.created /\ m.created < t.created
        BY <2>5, <3>1, <3>2
      <3> QED BY <3>1, <3>2, <3>3 DEF CountryKept
    <2> QED BY <2>3, <2>6
  <1>5. ASSUME NEW l \in Latest(rows), l.val # v, new = rows \cup {fresh}
        PROVE  RunsApart(new) /\ CountryKept(new)
    <2> HIDE DEF fresh
    <2>1. RunsApart(new)
      BY <1>1, <1>2, <1>5 DEF RunsApart
    <2>2. CountryKept(new)
      <3> SUFFICES ASSUME NEW r \in new, NEW s \in new, r.created < s.created,
                          ~ \E m \in new : r.created < m.created /\ m.created < s.created,
                          r.val.ip = s.val.ip
                   PROVE  r.val.country = None
        BY DEF CountryKept
      <3>1. r \in rows
        BY <1>1, <1>2, <1>5
      <3>2. CASE s \in rows
        BY <1>5, <3>1, <3>2 DEF CountryKept
      <3>3. CASE s = fresh
        <4>1. r = l
          BY <1>1, <1>2, <1>5, <3>1, <3>3 DEF Latest, RunsApart
        <4>2. r.val \in IpResult
          BY <1>1, <3>1 DEF Row
        <4> QED BY <1>2, <1>5, <3>1, <3>3, <4>1, <4>2 DEF IpResult
      <3> QED BY <1>5, <3>2, <3>3
    <2> QED BY <2>1, <2>2
  <1> QED BY <1>3, <1>4, <1>5 DEF Upserted

\* A check that ends with a pair the caches can vouch for keeps them sound.
LEMMA FinishPreserves ==
  ASSUME IInv, NEW v \in IpResult, Finish(v),
         served \subseteq served', served' \subseteq Ips \X Countries,
         v.country # None => <<v.ip, v.country>> \in served',
         \A r \in rows : r.val.ip = v.ip /\ r.val.country # None
                          => r.val.country = v.country
  PROVE  IInv'
PROOF
  <1> USE IpCheckAssumption
  <1>1. /\ now < Horizon /\ now' = now + 1 /\ rows' \in Upserted(rows, now + 1, v)
        /\ last' = v /\ pc' = "idle" /\ ip' = None
        /\ seeded' = seeded
    BY DEF Finish
  <1>2. /\ rows' \subseteq Row
        /\ \A r \in rows' : r.updated <= now + 1
        /\ \A r \in rows' : r.val = v \/ \E s \in rows : s.val = r.val
        /\ \E r \in rows' : r.val = v /\ r.updated = now + 1
    BY <1>1, UpsertLeaves DEF IInv
  <1>3. TypeOK'
    BY <1>1, <1>2 DEF IInv, TypeOK, Row
  <1>4. RowsAreOld' /\ NoRedundantLookup'
    BY <1>1, <1>2 DEF RowsAreOld, NoRedundantLookup
  <1>5. CacheAgrees'
    BY <1>1, <1>2 DEF CacheAgrees, Latest
  <1>6. CountryBelongsToIp'
    BY <1>1, <1>2 DEF IInv, CountryBelongsToIp
  <1>7. OneCountryPerIp'
    BY <1>1, <1>2 DEF IInv, OneCountryPerIp
  <1>8. RunsApart(rows)' /\ CountryKept(rows)'
    BY <1>1, UpsertKeeps DEF IInv
  <1> QED BY <1>3, <1>4, <1>5, <1>6, <1>7, <1>8 DEF IInv

\* A query with LIMIT 1 finds a row if any row qualifies.
LEMMA LatestExists ==
  ASSUME NEW S, S \subseteq Row, S # {}
  PROVE  Latest(S) # {}
PROOF
  <1> USE IpCheckAssumption
  <1> DEFINE R == {ss \in Nat \X Nat : ss[1] < ss[2]}
             T == {Horizon - r.updated : r \in S}
  <1>1. IsWellFoundedOn(R, Nat)
    BY NatLessThanWellFounded DEF OpToRel
  <1>2. T \subseteq Nat /\ T # {}
    BY DEF Row
  <1> HIDE DEF R, T
  <1>3. PICK m \in T : \A t \in T : ~ (<<t, m>> \in R)
    BY <1>1, <1>2, WFMin
  <1>4. \A t \in T : ~ (t < m)
    BY <1>2, <1>3 DEF R
  <1>5. PICK r \in S : m = Horizon - r.updated
    BY <1>3 DEF T
  <1>6. \A s \in S : s.updated <= r.updated
    <2> SUFFICES ASSUME NEW s \in S PROVE s.updated <= r.updated
      OBVIOUS
    <2>1. Horizon - s.updated \in T
      BY DEF T
    <2>2. ~ (Horizon - s.updated < Horizon - r.updated)
      BY <1>4, <1>5, <2>1
    <2>3. s.updated \in Int /\ r.updated \in Int
      BY DEF Row
    <2> QED BY <2>2, <2>3
  <1> QED BY <1>5, <1>6 DEF Latest

\* Purging takes the newest row only with all the others.
LEMMA PurgedKeepsLatest ==
  ASSUME TypeOK, NEW cutoff \in Int, Purged(rows, cutoff) # {}
  PROVE  Latest(rows) \subseteq Latest(Purged(rows, cutoff))
BY DEF TypeOK, Purged, Latest

\* ... and a row between two others only after the older one.
LEMMA PurgedKeeps ==
  ASSUME TypeOK, RunsApart(rows), CountryKept(rows), NEW cutoff \in Int
  PROVE  RunsApart(Purged(rows, cutoff)) /\ CountryKept(Purged(rows, cutoff))
PROOF
  <1>1. \A r \in rows : r.created \in Int /\ r.updated \in Int
    BY DEF TypeOK
  <1>2. \A r, m \in rows : r.created < m.created /\ r.updated >= cutoff => m.updated >= cutoff
    BY <1>1 DEF RunsApart
  <1>3. RunsApart(Purged(rows, cutoff))
    BY DEF Purged, RunsApart
  <1> QED BY <1>2, <1>3 DEF Purged, CountryKept

\* Every way a check can go on or end, and a restart, keeps the two caches in agreement.
LEMMA Inductive == IInv /\ [Next]_vars => IInv'
PROOF
  <1> SUFFICES ASSUME IInv, [Next]_vars PROVE IInv'
    OBVIOUS
  <1> USE IpCheckAssumption
  <1>1. ASSUME NEW b \in BOOLEAN, Begin(b) PROVE IInv'
    <2>1. /\ pc' = "ip" /\ seeded' = TRUE
          /\ rows' = rows /\ now' = now /\ ip' = ip /\ served' = served /\ pc = "idle"
      BY <1>1 DEF Begin
    <2>2. last' = None \/ last' = last \/ \E r \in Latest(rows) : last' = r.val
      BY <1>1 DEF Begin
    <2>3. TypeOK'
      BY <2>1, <2>2 DEF IInv, TypeOK, Latest
    <2>4. /\ RowsAreOld' /\ OneCountryPerIp' /\ NoRedundantLookup'
          /\ RunsApart(rows)' /\ CountryKept(rows)'
      BY <2>1 DEF IInv, RowsAreOld, OneCountryPerIp, NoRedundantLookup
    <2>5. CacheAgrees'
      BY <2>1, <2>2 DEF IInv, CacheAgrees
    <2>6. CountryBelongsToIp'
      BY <2>1, <2>2 DEF IInv, CountryBelongsToIp, Latest
    <2> QED BY <2>3, <2>4, <2>5, <2>6 DEF IInv
  <1>2. ASSUME NEW text \in Ips \cup {Junk, None}, NoAddress(text) PROVE IInv'
    <2> DEFINE v == Result(None, None)
    <2>1. v \in IpResult /\ v.country = None /\ Finish(v) /\ served' = served
      BY <1>2 DEF NoAddress, Result, IpResult
    <2>2. served' \subseteq Ips \X Countries
      BY <2>1 DEF IInv, TypeOK
    <2>3. \A r \in rows : r.val.ip = v.ip => r.val.country = None
      BY DEF IInv, TypeOK, CountryBelongsToIp, Result
    <2> HIDE DEF v
    <2> QED BY <2>1, <2>2, <2>3, FinishPreserves
  <1>3. ASSUME NEW text \in Ips \cup {Junk, None}, Reuse(text) PROVE IInv'
    <2>0. last \in IpResult /\ last.country # None /\ last.ip = text
      BY <1>3 DEF Reuse, SameAsPrevious, IInv, TypeOK
    <2>1. last \in IpResult /\ last.country # None /\ Finish(last) /\ served' = served
      <3>1. Result(text, last.country) = last
        BY <2>0 DEF Result, IpResult
      <3> QED BY <1>3, <2>0, <3>1 DEF Reuse
    <2>2. served' \subseteq Ips \X Countries
      BY <2>1 DEF IInv, TypeOK
    <2>3. <<last.ip, last.country>> \in served'
      BY <1>3, <2>1 DEF Reuse, SameAsPrevious, IInv, CountryBelongsToIp
    <2>4. \A r \in rows : r.val.ip = last.ip /\ r.val.country # None
                           => r.val.country = last.country
      BY <1>3, <2>1 DEF Reuse, SameAsPrevious, IInv, CacheAgrees, OneCountryPerIp, Latest
    <2> QED BY <2>1, <2>2, <2>3, <2>4, FinishPreserves
  <1>4. ASSUME NEW text \in Ips \cup {Junk, None}, ReuseFromHistory(text) PROVE IInv'
    <2>1. PICK c \in KnownCountry(text) : Finish(Result(text, c))
      BY <1>4 DEF ReuseFromHistory
    <2>2. PICK s \in rows : s.val.ip = text /\ s.val.country # None /\ s.val.country = c
      BY <2>1 DEF KnownCountry, Latest
    <2> DEFINE v == Result(text, c)
    <2>3. v \in IpResult /\ v.ip = text /\ v.country = c /\ Finish(v) /\ served' = served
      BY <1>4, <2>1, <2>2 DEF ReuseFromHistory, Result, IpResult, IInv, TypeOK
    <2>4. served' \subseteq Ips \X Countries /\ <<text, c>> \in served'
      BY <2>2, <2>3 DEF IInv, TypeOK, CountryBelongsToIp
    <2>5. \A r \in rows : r.val.ip = text /\ r.val.country # None => r.val.country = c
      BY <2>2 DEF IInv, OneCountryPerIp
    <2> HIDE DEF v
    <2> QED BY <2>3, <2>4, <2>5, FinishPreserves
  <1>5. ASSUME NEW text \in Ips \cup {Junk, None}, NewAddress(text) PROVE IInv'
    <2>1. /\ text \in Ips /\ ~SameAsPrevious(text) /\ KnownCountry(text) = {}
          /\ pc' = "country" /\ ip' = text
          /\ UNCHANGED <<rows, now, last, seeded, served>>
      BY <1>5 DEF NewAddress
    <2>2. /\ TypeOK' /\ RowsAreOld' /\ CacheAgrees' /\ CountryBelongsToIp' /\ OneCountryPerIp'
          /\ RunsApart(rows)' /\ CountryKept(rows)'
      BY <2>1 DEF IInv, TypeOK, RowsAreOld, CacheAgrees, CountryBelongsToIp, OneCountryPerIp
    <2> DEFINE resolved == {r \in rows : r.val.ip = text /\ r.val.country # None}
    <2>3. Latest(resolved) = {}
      BY <2>1 DEF KnownCountry
    <2>4. resolved \subseteq Row
      BY DEF IInv, TypeOK, Row
    <2>5. resolved = {}
      <3> HIDE DEF resolved
      <3> QED BY <2>3, <2>4, LatestExists
    <2>6. NoRedundantLookup'
      BY <2>1, <2>5 DEF NoRedundantLookup, SameAsPrevious
    <2> QED BY <2>2, <2>6 DEF IInv
  <1>6. ASSUME NEW text \in Countries \cup {Junk, None}, CountryRaced(text) PROVE IInv'
    <2>1. CASE text \in Countries
      <3> DEFINE v == Result(ip, text)
      <3>1. v \in IpResult /\ v.ip = ip /\ v.country = text /\ Finish(v)
            /\ served' = served \cup {<<ip, text>>} /\ ip \in Ips
        BY <1>6, <2>1 DEF CountryRaced, Result, IpResult, IInv, TypeOK
      <3>2. served' \subseteq Ips \X Countries
        BY <2>1, <3>1 DEF IInv, TypeOK
      <3>3. \A r \in rows : r.val.ip = ip => r.val.country = None
        BY <1>6 DEF CountryRaced, IInv, NoRedundantLookup
      <3> HIDE DEF v
      <3> QED BY <3>1, <3>2, <3>3, FinishPreserves
    <2>2. CASE text \notin Countries
      <3> DEFINE v == Result(ip, None)
      <3>1. v \in IpResult /\ v.ip = ip /\ v.country = None /\ Finish(v) /\ served' = served
        BY <1>6, <2>2 DEF CountryRaced, Result, IpResult, IInv, TypeOK
      <3>2. served' \subseteq Ips \X Countries
        BY <3>1 DEF IInv, TypeOK
      <3>3. \A r \in rows : r.val.ip = ip => r.val.country = None
        BY <1>6 DEF CountryRaced, IInv, NoRedundantLookup
      <3> HIDE DEF v
      <3> QED BY <3>1, <3>2, <3>3, FinishPreserves
    <2> QED BY <2>1, <2>2
  <1>7. CASE CheckRaises \/ UNCHANGED vars
    BY <1>7 DEF CheckRaises, vars, IInv, TypeOK, RowsAreOld, CacheAgrees,
      CountryBelongsToIp, OneCountryPerIp, NoRedundantLookup
  <1>8. CASE PurgeOld \/ Restart
    <2>1. PICK ts \in now .. Horizon : now' = ts /\ rows' = Purged(rows, ts - Retention)
      BY <1>8 DEF PurgeOld, Restart
    <2>2. ts \in Int /\ ts - Retention \in Int /\ now <= ts /\ rows' \subseteq rows
      BY <2>1 DEF IInv, TypeOK, Purged
    <2>3. TypeOK'
      <3>1. seeded' \in BOOLEAN
        BY <1>8 DEF PurgeOld, Restart, IInv, TypeOK
      <3>2. ts \in 0 .. Horizon
        BY <2>2 DEF IInv, TypeOK
      <3> QED BY <1>8, <2>1, <2>2, <3>1, <3>2 DEF PurgeOld, Restart, IInv, TypeOK
    <2>4. RowsAreOld'
      BY <2>1, <2>2 DEF IInv, TypeOK, RowsAreOld
    <2>5. CacheAgrees'
      BY <1>8, <2>1, <2>2, PurgedKeepsLatest DEF PurgeOld, Restart, IInv, CacheAgrees
    <2>6. CountryBelongsToIp' /\ OneCountryPerIp' /\ NoRedundantLookup'
      BY <1>8, <2>2 DEF PurgeOld, Restart, IInv, CountryBelongsToIp, OneCountryPerIp,
        NoRedundantLookup
    <2>7. RunsApart(rows)' /\ CountryKept(rows)'
      BY <2>1, <2>2, PurgedKeeps DEF IInv
    <2> QED BY <2>3, <2>4, <2>5, <2>6, <2>7 DEF IInv
  <1> QED BY <1>1, <1>2, <1>3, <1>4, <1>5, <1>6, <1>7, <1>8 DEF Next, Check

--------------------------------------------------------------------------------
\* The inductive invariant.
THEOREM Invariance == Spec => []IInv
PROOF
  <1>1. Init => IInv
    <2> SUFFICES ASSUME Init PROVE IInv
      OBVIOUS
    <2>1. seeded \in BOOLEAN
      BY DEF Init
    <2>2. TypeOK
      BY <2>1, IpCheckAssumption DEF Init, TypeOK
    <2> QED BY <2>2 DEF Init, IInv, RowsAreOld, RunsApart, CountryKept, CacheAgrees,
              CountryBelongsToIp, OneCountryPerIp, NoRedundantLookup
  <1> QED BY <1>1, Inductive, PTL DEF Spec

\* Every variable keeps its type.
THEOREM TypeCorrectness == Spec => []TypeOK
BY Invariance, PTL DEF IInv

\* A stored or cached country was served for the address it is stored with.
THEOREM Pairing == Spec => []CountryBelongsToIp
BY Invariance, PTL DEF IInv

\* Failed lookups, purges, VPN changes and restarts never give an address a
\* second country.
THEOREM CountryUniqueness == Spec => []OneCountryPerIp
BY Invariance, PTL DEF IInv

\* The geo services are asked about an address only while no row and no cached
\* result can answer.
THEOREM NoWastedRace == Spec => []NoRedundantLookup
BY Invariance, PTL DEF IInv

\* The in-memory result is the table's current row.
THEOREM CacheCoherence == Spec => []CacheAgrees
BY Invariance, PTL DEF IInv

\* Of two neighbours in the history with one address the older has no country: a
\* country, once stored, stays with its address until another address is seen.
THEOREM CountryStays == Spec => []CountryIsKept
PROOF
  <1>1. IInv => CountryIsKept
    BY DEF IInv, CountryKept, CountryIsKept
  <1> QED BY <1>1, Invariance, PTL

--------------------------------------------------------------------------------
(* The table of the IP check is a deduplicating table. *)

\* What the checks store, and when, is not affected by who remembers it.
LEMMA HistoryOnly == SpecAll => Spec
PROOF
  <1>1. InitAll => Init
    BY DEF InitAll
  <1>2. [NextAll]_allVars => [Next]_vars
    BY DEF NextAll, allVars, Next
  <1> QED BY <1>1, <1>2, PTL DEF SpecAll, Spec

\* A check that ends stores its result in an instant of its own.
LEMMA FinishStores ==
  ASSUME IInv, NEW v \in IpResult, Finish(v),
         checked' = IF now' = now THEN checked ELSE now'
  PROVE  ST!Upsert(v)
PROOF
  <1>1. /\ now \in Nat /\ now < Horizon /\ now' = now + 1
        /\ rows' \in Upserted(rows, now', v)
    BY IpCheckAssumption DEF Finish, IInv, TypeOK
  <1>2. now' \in now + 1 .. Horizon /\ checked' = now'
    BY <1>1, IpCheckAssumption
  <1> QED BY <1>1, <1>2 DEF ST!Upsert, ST!Upserted, Upserted, ST!Latest, Latest, ST!NewRow,
       NewRow, ST!Bump, Bump

\* A check stores once, when it ends, if it does not raise.
LEMMA CheckMaps ==
  ASSUME IInv, Check, checked' = IF now' = now THEN checked ELSE now'
  PROVE  [ST!Next]_(ST!vars)
PROOF
  <1> SUFFICES \/ \E v \in IpResult : Finish(v)
               \/ UNCHANGED <<rows, now>>
    BY FinishStores DEF ST!Next, ST!vars
  <1>1. ASSUME NEW b \in BOOLEAN, Begin(b) PROVE UNCHANGED <<rows, now>>
    BY <1>1 DEF Begin
  <1>2. ASSUME NEW text, NoAddress(text) PROVE \E v \in IpResult : Finish(v)
    BY <1>2 DEF NoAddress, Result, IpResult
  <1>3. ASSUME NEW text, Reuse(text) PROVE \E v \in IpResult : Finish(v)
    <2>1. last \in IpResult /\ text \in Ips
      BY <1>3 DEF Reuse, SameAsPrevious, IInv, TypeOK
    <2>2. Result(text, last.country) \in IpResult
      BY <2>1 DEF Result, IpResult
    <2> QED BY <1>3, <2>2 DEF Reuse
  <1>4. ASSUME NEW text, ReuseFromHistory(text) PROVE \E v \in IpResult : Finish(v)
    <2>1. PICK c \in KnownCountry(text) : Finish(Result(text, c)) /\ text \in Ips
      BY <1>4 DEF ReuseFromHistory
    <2>2. c \in Countries \cup {None}
      BY <2>1 DEF KnownCountry, Latest, IInv, TypeOK, IpResult
    <2>3. Result(text, c) \in IpResult
      BY <2>1, <2>2 DEF Result, IpResult
    <2> QED BY <2>1, <2>3
  <1>5. ASSUME NEW text, NewAddress(text) PROVE UNCHANGED <<rows, now>>
    BY <1>5 DEF NewAddress
  <1>6. ASSUME NEW text, CountryRaced(text) PROVE \E v \in IpResult : Finish(v)
    <2>1. ip \in Ips
      BY <1>6 DEF CountryRaced, IInv, TypeOK
    <2>2. Result(ip, None) \in IpResult /\ \A c \in Countries : Result(ip, c) \in IpResult
      BY <2>1 DEF Result, IpResult
    <2> QED BY <1>6, <2>2 DEF CountryRaced
  <1>7. CheckRaises => UNCHANGED <<rows, now>>
    BY DEF CheckRaises
  <1> QED BY <1>1, <1>2, <1>3, <1>4, <1>5, <1>6, <1>7 DEF Check

\* Every step of the IP check, its purges and restarts is a step of the table.
LEMMA StepMaps == IInv /\ [NextAll]_allVars => [ST!Next]_(ST!vars)
PROOF
  <1> SUFFICES ASSUME IInv, [NextAll]_allVars PROVE [ST!Next]_(ST!vars)
    OBVIOUS
  <1>1. ASSUME Check, checked' = IF now' = now THEN checked ELSE now'
        PROVE  [ST!Next]_(ST!vars)
    BY <1>1, CheckMaps
  <1>2. ASSUME PurgeOld \/ Restart, checked' = checked PROVE ST!PurgeOld
    BY <1>2 DEF PurgeOld, Restart, ST!PurgeOld, Purged, ST!Purged
  <1>3. CASE UNCHANGED allVars
    BY <1>3 DEF allVars, vars, ST!vars
  <1> QED BY <1>1, <1>2, <1>3 DEF NextAll, ST!Next

\* Whatever its caches answer and however its checks fail, the IP check uses
\* probe_ip as a deduplicating table.
THEOREM Refinement == SpecAll => ImplementsStateTable
PROOF
  <1>1. InitAll => ST!Init
    BY DEF InitAll, Init, ST!Init
  <1> QED BY <1>1, HistoryOnly, Invariance, StepMaps, PTL
       DEF SpecAll, ImplementsStateTable, ST!Spec

\* What is proved of every deduplicating table; of its reader nothing is used.
STP == INSTANCE StateTableProofs WITH
         Values <- IpResult, Unknown <- NoResult, last <- checked,
         Limit <- 1, asking <- FALSE, status <- {}, list <- {}, readAt <- 0

\* The results and the retention are what StateTable assumes of them.
LEMMA Applies ==
  /\ STP!StateTableAssumption /\ STP!DashboardAssumption
  /\ SpecAll => STP!Spec
PROOF
  <1>1. NoResult \notin IpResult
    BY NoSetContainsEverything DEF NoResult
  <1>2. STP!StateTableAssumption /\ STP!DashboardAssumption
    BY <1>1, IpCheckAssumption DEF STP!StateTableAssumption, STP!DashboardAssumption
  <1>3. ST!Init => STP!Init
    BY DEF ST!Init, STP!Init
  <1>4. [ST!Next]_(ST!vars) => [STP!Next]_(STP!vars)
    BY DEF ST!Next, STP!Next, ST!vars, STP!vars, ST!PurgeOld, STP!PurgeOld, ST!Upsert,
       STP!Upsert, ST!Purged, STP!Purged, ST!Upserted, STP!Upserted, ST!NewRow, STP!NewRow,
       ST!Bump, STP!Bump, ST!Latest, STP!Latest
  <1>5. SpecAll => STP!Spec
    BY <1>3, <1>4, Refinement, PTL DEF ImplementsStateTable, ST!Spec, STP!Spec
  <1> QED BY <1>2, <1>5

\* The history of addresses has no two equal entries in a row, whichever cache
\* or race their countries came from.
THEOREM HistoryDeduplicated == SpecAll => []ST!NeighboursDiffer
PROOF
  <1>1. STP!Spec => []STP!NeighboursDiffer
    BY Applies, STP!Deduplication
  <1>2. STP!NeighboursDiffer => ST!NeighboursDiffer
    BY DEF STP!NeighboursDiffer, ST!NeighboursDiffer
  <1> QED BY <1>1, <1>2, Applies, PTL

\* The address the status names is the head of the history shown beside it.
THEOREM HistoryHead == SpecAll => []ST!RecentHeadIsLatest
PROOF
  <1>1. STP!Spec => []STP!RecentHeadIsLatest
    BY Applies, STP!HeadAgreement
  <1>2. STP!Recent(rows, 1) = ST!Recent(rows, 1) /\ STP!Latest(rows) = ST!Latest(rows)
    BY DEF STP!Recent, ST!Recent, STP!Latest, ST!Latest, STP!Cardinality, ST!Cardinality
  <1>3. STP!RecentHeadIsLatest => ST!RecentHeadIsLatest
    BY <1>2 DEF STP!RecentHeadIsLatest, ST!RecentHeadIsLatest
  <1> QED BY <1>1, <1>3, Applies, PTL

\* No check, purge or restart rewrites what the history tells of an instant.
THEOREM HistoryNeverRewritten == SpecAll => ST!HistoryIsKept
PROOF
  <1>1. STP!Spec => STP!HistoryIsKept
    BY Applies, STP!HistoryKept
  <1>2. STP!Line = ST!Line /\ STP!Line' = ST!Line'
    BY DEF STP!Line, ST!Line, STP!Covering, ST!Covering
  <1> DEFINE Kept(line, new) == \A t \in 1 .. Horizon :
               /\ line[t] # NoResult =>
                    new[t] = line[t] \/ (new[t] = NoResult /\ t < now' - Retention)
               /\ line[t] = NoResult /\ new[t] # NoResult => t > checked
             KeptST == Kept(ST!Line, ST!Line')
             KeptSTP == Kept(STP!Line, STP!Line')
  <1>3. STP!HistoryIsKept <=> [][KeptSTP]_(STP!vars)
    BY DEF STP!HistoryIsKept
  <1>4. ST!HistoryIsKept <=> [][KeptST]_(ST!vars)
    BY DEF ST!HistoryIsKept
  <1>5. [KeptSTP]_(STP!vars) => [KeptST]_(ST!vars)
    BY <1>2 DEF STP!vars, ST!vars
  <1> HIDE DEF KeptST, KeptSTP
  <1> QED BY <1>1, <1>3, <1>4, <1>5, Applies, PTL

\* Of every instant the table of the IP check answers what its results imply.
THEOREM HistoryIsTimeline == SpecAll => ST!ImplementsTimeline
PROOF
  <1>1. STP!Spec => STP!ImplementsTimeline
    BY Applies, STP!Refinement
  <1>2. STP!Line = ST!Line /\ STP!Line' = ST!Line'
    BY DEF STP!Line, ST!Line, STP!Covering, ST!Covering
  <1>3. STP!TL!Init => ST!TL!Init
    BY <1>2 DEF STP!TL!Init, ST!TL!Init, STP!TL!Instants, ST!TL!Instants
  <1>4. [STP!TL!Next]_(STP!TL!vars) => [ST!TL!Next]_(ST!TL!vars)
    BY <1>2 DEF STP!TL!Next, ST!TL!Next, STP!TL!vars, ST!TL!vars, STP!TL!Observe,
       ST!TL!Observe, STP!TL!Forget, ST!TL!Forget, STP!TL!Instants, ST!TL!Instants
  <1> QED BY <1>1, <1>3, <1>4, Applies, PTL
       DEF STP!ImplementsTimeline, ST!ImplementsTimeline, STP!TL!Spec, ST!TL!Spec

================================================================================

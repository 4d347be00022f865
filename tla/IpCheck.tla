-------------------------------- MODULE IpCheck --------------------------------
(***************************************************************************)
(* The public IP check: Service.run_ip_check with _check_ip (probes/ip.py) *)
(* and the probe_ip table, over failed checks, purges and restarts.  Two   *)
(* caches spare the country services: _last_ip_result in memory, seeded    *)
(* from the table by the first check, and the table itself.  The awaits of *)
(* a check are its two races (module Race), so a check is three steps and  *)
(* purges, restarts and signals come between them.                         *)
(***************************************************************************)
EXTENDS UpsertTable

CONSTANTS
  Ips, Countries,
  None,       \* None, and the outcome of a race nobody won
  Junk,       \* a response that fails validation
  Retention,  \* retention_days
  Horizon     \* bound: the clock stops here

ASSUME IpCheckAssumption ==
  /\ None \notin Ips \cup Countries /\ Junk \notin Ips \cup Countries
  /\ Retention \in Nat \ {0}
  /\ Horizon \in Nat \ {0}

VARIABLES
  rows,     \* probe_ip, the value of a row being an IpResult
  now,      \* the wall clock
  last,     \* _last_ip_result
  seeded,   \* _ip_state_seeded
  pc,       \* "idle", "ip" (racing IP services), "country" (racing geo services)
  ip,       \* the address whose country is being raced for
  served    \* observer: <<ip, country>> pairs the geo services have answered

vars == <<rows, now, last, seeded, pc, ip, served>>

IpResult == [ip : Ips \cup {None}, country : Countries \cup {None}]
Result(i, c) == [ip |-> i, country |-> c]

--------------------------------------------------------------------------------
\* Mutants of KnownCountry, SameAsPrevious and CheckRaises.
KnownCountryOfLatest(i) ==
  {r.val.country : r \in {s \in Latest(rows) : s.val.ip = i}} \ {None}
KnownCountryNever(i) == {}
PreviousHasCountry(i) == last # None /\ last.country # None
CheckRaisesTooLate ==
  /\ pc # "idle"
  /\ pc' = "idle"
  /\ last' \in {last} \cup {Result(ip, c) : c \in Countries}
  /\ ip' = None
  /\ UNCHANGED <<rows, now, seeded, served>>

\* SELECT country_code ... WHERE ip = ? AND country_code IS NOT NULL
\*   ORDER BY updated_at DESC LIMIT 1, as a set of at most one country.
KnownCountry(i) ==
  LET resolved == {r \in rows : r.val.ip = i /\ r.val.country # None}
  IN  {r.val.country : r \in Latest(resolved)}

\* `previous and ip == previous.ip and previous.country_code`
SameAsPrevious(i) == last # None /\ last.ip = i /\ last.country # None

Init ==
  /\ rows = {} /\ now = 0
  /\ last = None /\ seeded = FALSE
  /\ pc = "idle" /\ ip = None
  /\ served = {}

\* Up to the first await: seed on the first call, forget on a VPN change.
Begin(vpn_changed) ==
  LET stored == IF rows = {} THEN {None} ELSE {r.val : r \in Latest(rows)}
  IN  /\ pc = "idle"
      /\ last' \in IF vpn_changed THEN {None} ELSE IF seeded THEN {last} ELSE stored
      /\ seeded' = TRUE
      /\ pc' = "ip"
      /\ UNCHANGED <<rows, now, ip, served>>

\* Mutant of Finish: a result that is no news is not stored.
FinishOnlyChanges(result) ==
  /\ now < Horizon
  /\ now' = now + 1
  /\ rows' \in IF result = last THEN {rows} ELSE Upserted(rows, now', result)
  /\ last' = result
  /\ pc' = "idle"
  /\ ip' = None
  /\ UNCHANGED <<seeded>>

\* The end of a check: one upsert, then the in-memory copy.
Finish(result) ==
  /\ now < Horizon
  /\ now' = now + 1
  /\ rows' \in Upserted(rows, now', result)
  /\ last' = result
  /\ pc' = "idle"
  /\ ip' = None
  /\ UNCHANGED <<seeded>>

\* The winner of the IP race is not an IPv4 address, or there is none.
NoAddress(text) ==
  /\ pc = "ip"
  /\ text \in {None, Junk}
  /\ Finish(Result(None, None))
  /\ served' = served

Reuse(text) ==
  /\ pc = "ip"
  /\ text \in Ips
  /\ SameAsPrevious(text)
  /\ Finish(Result(text, last.country))
  /\ served' = served

ReuseFromHistory(text) ==
  /\ pc = "ip"
  /\ text \in Ips
  /\ ~SameAsPrevious(text)
  /\ \E c \in KnownCountry(text) : Finish(Result(text, c))
  /\ served' = served

NewAddress(text) ==
  /\ pc = "ip"
  /\ text \in Ips
  /\ ~SameAsPrevious(text)
  /\ KnownCountry(text) = {}
  /\ pc' = "country"
  /\ ip' = text
  /\ UNCHANGED <<rows, now, last, seeded, served>>

\* Only two upper-case ASCII letters make a country.
CountryRaced(text) ==
  /\ pc = "country"
  /\ IF text \in Countries
       THEN Finish(Result(ip, text)) /\ served' = served \cup {<<ip, text>>}
       ELSE Finish(Result(ip, None)) /\ served' = served

\* A query, the upsert or a race raises; the loop logs it (daemon.py:126).  A
\* check whose seeding query raises changes nothing.
CheckRaises ==
  /\ pc # "idle"
  /\ pc' = "idle"
  /\ ip' = None
  /\ UNCHANGED <<rows, now, last, seeded, served>>

\* The purge loop, between any two awaits of the check.
PurgeOld ==
  \E ts \in now .. Horizon :
    /\ now' = ts
    /\ rows' = Purged(rows, ts - Retention)
    /\ UNCHANGED <<last, seeded, pc, ip, served>>

\* The daemon dies or stops, and starts again with a purge and a new Service.
Restart ==
  \E ts \in now .. Horizon :
    /\ now' = ts
    /\ rows' = Purged(rows, ts - Retention)
    /\ last' = None
    /\ seeded' = FALSE
    /\ pc' = "idle"
    /\ ip' = None
    /\ served' = served

Check ==
  \/ \E b \in BOOLEAN : Begin(b)
  \/ \E text \in Ips \cup {Junk, None} :
       NoAddress(text) \/ Reuse(text) \/ ReuseFromHistory(text) \/ NewAddress(text)
  \/ \E text \in Countries \cup {Junk, None} : CountryRaced(text)
  \/ CheckRaises

Next == Check \/ PurgeOld \/ Restart

Spec == Init /\ [][Next]_vars

--------------------------------------------------------------------------------
TypeOK ==
  /\ rows \subseteq [created : 1 .. Horizon, updated : 1 .. Horizon, val : IpResult]
  /\ now \in 0 .. Horizon
  /\ last \in IpResult \cup {None}
  /\ seeded \in BOOLEAN
  /\ pc \in {"idle", "ip", "country"}
  /\ ip \in IF pc = "country" THEN Ips ELSE {None}
  /\ served \subseteq Ips \X Countries

\* No cache ever pairs an address with another address's country.
CountryBelongsToIp ==
  /\ \A r \in rows : r.val.country # None => <<r.val.ip, r.val.country>> \in served
  /\ last # None /\ last.country # None => <<last.ip, last.country>> \in served

\* The history names one country per address: the in-memory copy, the lookup in
\* the table, lookups that failed and rows that were purged never add up to two.
OneCountryPerIp ==
  \A r, s \in rows :
    r.val.ip = s.val.ip /\ r.val.country # None /\ s.val.country # None
      => r.val.country = s.val.country

\* docs/probes.md:97, "Only a genuinely new IP triggers the country-service
\* race": while it runs, neither cache has an answer.
NoRedundantLookup ==
  pc = "country" => /\ \A r \in rows : r.val.ip = ip => r.val.country = None
                    /\ last # None /\ last.ip = ip => last.country = None

\* _last_ip_result, when set, is the table's current row: a check that raised
\* half-way, a purge or a restart does not set them apart.
CacheAgrees ==
  last # None /\ rows # {} => \E r \in Latest(rows) : r.val = last

\* An address that stays keeps its country: the row after it never takes the
\* country away or changes it.
CountryIsKept ==
  \A r, s \in rows :
    /\ r.created < s.created
    /\ ~ \E m \in rows : r.created < m.created /\ m.created < s.created
    /\ r.val.ip = s.val.ip
    => r.val.country = None

================================================================================

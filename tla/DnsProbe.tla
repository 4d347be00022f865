------------------------------- MODULE DnsProbe --------------------------------
(***************************************************************************)
(* One DNS probe cycle after another (probes/dns.py, run_dns_check): ask   *)
(* scutil for the system's resolvers, query them all at once, store the    *)
(* samples with the first one mirrored in the row's primary columns, which *)
(* the dashboard reads where the tray reads the list.                      *)
(*                                                                         *)
(* What scutil prints is a report: two sections of resolver blocks, of     *)
(* which only nameservers and a `domain :` line matter here.               *)
(***************************************************************************)
EXTENDS Sequences, SequencesExt

CONSTANTS
  Reports,  \* [main, scoped : Seq([domain : BOOLEAN, ns : Seq(address)])]
  NoReply,  \* errors of a query without an answer: "timeout", "network", ...
  Rcodes    \* errors an answer reports: "servfail", "refused", ...
            \* (none of the errors is called NoError or Pending)

NoError == "no error"
NoAddress == "no address"
Failed == [main |-> <<>>, scoped |-> <<>>]  \* scutil failed or printed nothing
Pending == "pending"

VARIABLES
  pc,         \* "idle", "querying" or "stored"
  report,     \* what scutil printed in this cycle
  resolvers,  \* what the parser made of it
  outcome,    \* index of a resolver -> Pending, NoError or an error
  row         \* the row this cycle added to probe_dns, <<>> before

vars == <<pc, report, resolvers, outcome, row>>

--------------------------------------------------------------------------------
\* The lines of a report.
Line(k, n, a) == [kind |-> k, n |-> n, addr |-> a]
BlockLines(n, block) ==
  <<Line("resolver", n, "")>>
    \o (IF block.domain THEN <<Line("domain", 0, "")>> ELSE <<>>)
    \o [i \in DOMAIN block.ns |-> Line("nameserver", i, block.ns[i])]
SectionLines(header, blocks) ==
  <<Line(header, 0, "")>>
    \o FlattenSeq([n \in DOMAIN blocks |-> BlockLines(n, blocks[n])])
Lines(r) == SectionLines("main", r.main) \o SectionLines("scoped", r.scoped)

\* Mutants of MainStep and ScopedStep.
MainStepKeepsOn(s, line) ==
  CASE s.done -> s
    [] line.kind = "scoped" -> [s EXCEPT !.done = TRUE]
    [] line.kind = "main" -> [s EXCEPT !.inMain = TRUE]
    [] s.inMain /\ line.kind = "resolver" -> [s EXCEPT !.first = TRUE]
    [] s.inMain /\ s.first /\ line.kind = "nameserver" -> [s EXCEPT !.ns = Append(@, line.addr)]
    [] OTHER -> s

\* One turn of the loop of _parse_main_resolver_1.
MainStep(s, line) ==
  CASE s.done -> s
    [] line.kind = "scoped" -> [s EXCEPT !.done = TRUE]
    [] line.kind = "main" -> [s EXCEPT !.inMain = TRUE]
    [] s.inMain /\ line.kind = "resolver" -> [s EXCEPT !.first = (line.n = 1)]
    [] s.inMain /\ s.first /\ line.kind = "nameserver" /\ line.addr # "" ->
         [s EXCEPT !.ns = Append(@, line.addr)]
    [] OTHER -> s

MainNameservers(lines) ==
  FoldLeft(MainStep, [inMain |-> FALSE, first |-> FALSE, done |-> FALSE, ns |-> <<>>], lines).ns

\* The block read so far, if it has no `domain :` line.
Flush(s) == IF s.domain THEN s.ns ELSE s.ns \o s.block

\* One turn of the loop of _parse_scoped_interface_nameservers.
ScopedStep(s, line) ==
  CASE line.kind = "scoped" -> [s EXCEPT !.inScoped = TRUE]
    [] s.inScoped /\ line.kind = "resolver" ->
         [s EXCEPT !.ns = Flush(s), !.block = <<>>, !.domain = FALSE]
    [] s.inScoped /\ line.kind = "nameserver" /\ line.addr # "" ->
         [s EXCEPT !.block = Append(@, line.addr)]
    [] s.inScoped /\ line.kind = "domain" -> [s EXCEPT !.domain = TRUE]
    [] OTHER -> s

ScopedNameservers(lines) ==
  Flush(FoldLeft(ScopedStep,
                 [inScoped |-> FALSE, domain |-> FALSE, block |-> <<>>, ns |-> <<>>], lines))

ParseScutilDns(lines) ==
  IF MainNameservers(lines) # <<>> THEN MainNameservers(lines) ELSE ScopedNameservers(lines)

--------------------------------------------------------------------------------
\* DnsResolverSample; timed: resolve_ms is not None.
Sample(i) ==
  [address |-> resolvers[i], timed |-> outcome[i] \notin NoReply, error |-> outcome[i]]

\* Mutant of PrimaryOf: the first resolver that answered.
PrimaryAnswered(samples) ==
  LET ok == SelectSeq(samples, LAMBDA s : s.error = NoError)
  IN  IF ok # <<>> THEN ok[1]
      ELSE IF samples # <<>> THEN samples[1]
      ELSE [address |-> NoAddress, timed |-> FALSE, error |-> NoError]

\* The primary columns insert_probe_dns writes; all NULL without resolvers.
PrimaryOf(samples) ==
  IF samples # <<>> THEN samples[1]
  ELSE [address |-> NoAddress, timed |-> FALSE, error |-> NoError]

\* ProbeDns, as the displays get it back.
ProbeDns(samples) == [resolvers |-> samples, primary |-> PrimaryOf(samples)]

Init ==
  /\ pc = "idle"
  /\ report = Failed
  /\ resolvers = <<>>
  /\ outcome = <<>>
  /\ row = <<>>

Discover ==
  /\ pc = "idle"
  /\ \E r \in Reports \cup {Failed} :
       /\ report' = r
       /\ resolvers' = IF r = Failed THEN <<>> ELSE ParseScutilDns(Lines(r))
  /\ outcome' = [i \in DOMAIN resolvers' |-> Pending]
  /\ pc' = "querying"
  /\ row' = row

\* A query ends, in whatever order; _query_one catches every exception.
QueryOne(i) ==
  /\ outcome[i] = Pending
  /\ \E o \in NoReply \cup Rcodes \cup {NoError} : outcome' = [outcome EXCEPT ![i] = o]
  /\ UNCHANGED <<pc, report, resolvers, row>>

Store ==
  /\ pc = "querying"
  /\ \A i \in DOMAIN outcome : outcome[i] # Pending
  /\ LET samples == [i \in DOMAIN resolvers |-> Sample(i)]
     IN  row' = <<ProbeDns(samples)>>
  /\ pc' = "stored"
  /\ UNCHANGED <<report, resolvers, outcome>>

\* The loop waits; nothing is kept for the next cycle.
Rest ==
  /\ pc = "stored"
  /\ pc' = "idle"
  /\ report' = Failed
  /\ resolvers' = <<>>
  /\ outcome' = <<>>
  /\ row' = <<>>

Next == Discover \/ Store \/ Rest \/ \E i \in DOMAIN outcome : QueryOne(i)

Spec == Init /\ [][Next]_vars

--------------------------------------------------------------------------------
\* One resolver as the displays word it.
Verdict(sample) ==
  CASE sample.error # NoError -> sample.error
    [] sample.error = NoError /\ sample.timed -> "ms"
    [] OTHER -> "?"

\* What each display makes of a row that is not stale: the tray and the probe
\* screen read the list, the dashboard's status line and sparkline the columns.
TrayDns(r) == IF r.resolvers = <<>> THEN "no config" ELSE Verdict(r.resolvers[1])
ScreenDns(r) == IF r.resolvers = <<>> THEN "?" ELSE Verdict(r.resolvers[1])
TuiDns(r) == IF r.primary.address = NoAddress THEN "no config" ELSE Verdict(r.primary)
SparkDns(r) == IF r.primary.error # NoError \/ ~r.primary.timed THEN "cross" ELSE "bar"

\* The two lists of all resolvers: of the `probe` command and of the history
\* screen, which numbers them.
CliDns(r) == SelectSeq(r.resolvers, LAMBDA s : s.error # NoError \/ s.timed)
HistoryDns(r) ==
  IF r.resolvers = <<>> THEN {<<0, "no config">>}
  ELSE {<<i, r.resolvers[i].error>> : i \in DOMAIN r.resolvers}

\* docs/probes.md, of a report's blocks instead of its lines: the nameservers of
\* main resolver #1; if it has none, those of the interface-scoped blocks; and
\* never those of a block that carries a `domain :` line, in either section.
General(blocks) == SelectSeq(blocks, LAMBDA b : ~b.domain)
NameserversOf(blocks) == FlattenSeq([n \in DOMAIN blocks |-> blocks[n].ns])
First(blocks) == IF blocks # <<>> THEN <<blocks[1]>> ELSE <<>>
Effective(r) ==
  LET default == NameserversOf(General(First(r.main)))
  IN  IF default # <<>> THEN default ELSE NameserversOf(General(r.scoped))

DefaultHasDomain(r) == r.main # <<>> /\ r.main[1].domain
Addresses(samples) == [i \in DOMAIN samples |-> samples[i].address]

TypeOK ==
  /\ pc \in {"idle", "querying", "stored"}
  /\ report \in Reports \cup {Failed}
  /\ DOMAIN outcome = DOMAIN resolvers
  /\ \A i \in DOMAIN outcome : outcome[i] \in NoReply \cup Rcodes \cup {NoError, Pending}
  /\ \A r \in {row[k] : k \in DOMAIN row}, i \in DOMAIN outcome :
       (r.resolvers[i].timed <=> r.resolvers[i].error \notin NoReply)

\* A stored row holds one sample for each of the resolvers docs/probes.md says
\* are measured, in the system's order, however the answers came in: the two
\* line-by-line passes find what the report says block by block.  Main resolver
\* #1 has no `domain :` line: with one, see DomainScopedUnmeasured.
MeasuresEffective ==
  row # <<>> /\ ~DefaultHasDomain(report) =>
    Addresses(row[1].resolvers) = Effective(report)

\* docs/probes.md:131: a resolver block that carries a `domain :` line is not
\* measured, "whether in the main or the scoped-queries section".
DomainScopedUnmeasured ==
  row # <<>> =>
    \A i \in DOMAIN row[1].resolvers :
      \E b \in ToSet(General(report.main) \o General(report.scoped)) :
        row[1].resolvers[i].address \in ToSet(b.ns)

\* The tray and the probe screen, reading the JSON list, and the status line and
\* the sparkline, reading the denormalised columns, tell the same of the primary
\* resolver, also when it is dead and the fallback alive.  `probe`, which passes
\* over a sample with neither a time nor an error, and the history leave no
\* resolver out and give each the same error.
DisplaysAgree ==
  \A r \in {row[k] : k \in DOMAIN row} :
    /\ TuiDns(r) = TrayDns(r)
    /\ SparkDns(r) = "bar" <=> TrayDns(r) = "ms"
    /\ ScreenDns(r) = TrayDns(r) \/ r.resolvers = <<>>
    /\ Addresses(CliDns(r)) = resolvers
    /\ r.resolvers # <<>> =>
         HistoryDns(r) = {<<i, CliDns(r)[i].error>> : i \in DOMAIN CliDns(r)}

================================================================================

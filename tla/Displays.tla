------------------------------- MODULE Displays --------------------------------
(***************************************************************************)
(* What the two displays make of the database: the menu bar (tray.py) and  *)
(* the dashboard (tui/app.py) poll the latest rows, each at its own pace,  *)
(* while probed writes them, stops, and purges them at its next start.     *)
(* A latency row is its milliseconds and its age.  The DNS item is in      *)
(* DnsProbe and the VPN item in VpnDetect.                                 *)
(***************************************************************************)
EXTENDS Integers

CONSTANTS
  Latencies,  \* latency kind -> milliseconds a check may report
  Ok, Slow,   \* latency kind -> ok_ms, slow_ms
  Stale,      \* latency kind -> stale_seconds
  TrayPoll,   \* tray.poll_interval
  TuiPoll,    \* tui.poll_interval
  Retention   \* bound: age at which rows are purged (ages stop there)

Kinds == {"warm", "cold"}
Bands == {"ok", "slow", "bad", "down"}
None == -1  \* no endpoint answered

\* _check_threshold_ordering is enforced when the configuration is read.
ASSUME DisplaysAssumption ==
  /\ \A k \in Kinds : Latencies[k] \subseteq Nat
  /\ Ok \in [Kinds -> Nat] /\ Slow \in [Kinds -> Nat]
  /\ \A k \in Kinds : Ok[k] < Slow[k]
  /\ Stale \in [Kinds -> Nat]
  /\ TrayPoll \in Nat \ {0} /\ TuiPoll \in Nat \ {0} /\ Retention \in Nat
  /\ \A k \in Kinds : Retention > Stale[k] + TrayPoll /\ Retention > Stale[k] + TuiPoll

VARIABLES
  alive,     \* probed is running
  row,       \* kind -> latest row, NoRow before the first
  ip,        \* latest probe_ip row: "none", "no address", "address" or "country"
  tray,      \* what the menu bar shows
  tui,       \* what the dashboard's status line shows
  trayLeft,  \* time to the tray's next poll
  tuiLeft    \* time to the dashboard's

vars == <<alive, row, ip, tray, tui, trayLeft, tuiLeft>>

NoRow == [ms |-> None - 1, age |-> 0]
Ips == {"none", "no address", "address", "country"}

--------------------------------------------------------------------------------
\* Mutant of IsStale: the thresholds are compared with the warm row.
IsStaleByWarm(k) == row["warm"] # NoRow /\ row["warm"].age > Stale[k]

\* _is_warm_stale, _is_cold_stale and the dashboard's conditions.
IsStale(k) == row[k] # NoRow /\ row[k].age > Stale[k]

\* _warm_latency_band.
WarmBand(ms) ==
  CASE ms = None -> "down"
    [] ms # None /\ ms < Ok["warm"] -> "ok"
    [] ms # None /\ ms >= Ok["warm"] /\ ms < Slow["warm"] -> "slow"
    [] OTHER -> "bad"

\* _format_title.
Symbol ==
  CASE row["warm"] = NoRow -> "waiting"
    [] IsStale("warm") -> "stale"
    [] OTHER -> WarmBand(row["warm"].ms)
Country == ip = "country" /\ ~IsStale("warm") /\ row["warm"] # NoRow

\* _format_latency_warm and _format_latency_cold; _format_ip.
TrayItem(k) ==
  CASE IsStale(k) -> "stale"
    [] ~IsStale(k) /\ (row[k] = NoRow \/ row[k].ms = None) -> "down"
    [] OTHER -> "ms"
TrayIp == IF IsStale("warm") THEN "stale" ELSE ip

\* Mutant of LatencyStyle: the threshold itself is still ok.
LatencyStyleInclusive(ms, ok, slow) ==
  IF ms = None THEN "down" ELSE IF ms <= ok THEN "ok" ELSE IF ms < slow THEN "slow" ELSE "bad"

\* latency_style, and the widgets that use it: the sparklines, the history
\* screens and the probe screen.  The `probe` command prints the figure.
LatencyStyle(ms, ok, slow) ==
  IF ms = None THEN "down" ELSE IF ms < ok THEN "ok" ELSE IF ms < slow THEN "slow" ELSE "bad"
SparkLatency(ms, k) == IF ms = None THEN "down" ELSE LatencyStyle(ms, Ok[k], Slow[k])
HistoryLatency(ms, k) == IF ms = None THEN "down" ELSE LatencyStyle(ms, Ok[k], Slow[k])
ScreenLatency(ms, k) == IF ms = None THEN "down" ELSE LatencyStyle(ms, Ok[k], Slow[k])
CliLatency(ms) == IF ms = None THEN "down" ELSE "ms"

\* _format_status_latency; _format_status_ip.
TuiItem(k) ==
  CASE IsStale(k) -> "stale"
    [] row[k] = NoRow -> "?"
    [] row[k] # NoRow /\ ~IsStale(k) /\ row[k].ms = None -> "down"
    [] OTHER -> IF row[k].ms < Ok[k] THEN "ok" ELSE IF row[k].ms < Slow[k] THEN "slow" ELSE "bad"
TuiIp == IF ip \in {"none", "no address"} THEN "?" ELSE ip

TrayView ==
  [symbol |-> Symbol, country |-> Country, item |-> [k \in Kinds |-> TrayItem(k)], ip |-> TrayIp]
TuiView == [item |-> [k \in Kinds |-> TuiItem(k)], ip |-> TuiIp]

\* The tray's items read "..." until its first poll; the dashboard polls at once.
Init ==
  /\ alive = FALSE
  /\ row = [k \in Kinds |-> NoRow]
  /\ ip = "none"
  /\ tray = [symbol |-> "waiting", country |-> FALSE,
             item |-> [k \in Kinds |-> "waiting"], ip |-> "none"]
  /\ tui = TuiView
  /\ trayLeft = TrayPoll /\ tuiLeft = TuiPoll

displayVars == <<tray, tui, trayLeft, tuiLeft>>

\* probed starts, or its purge loop turns: the rows that are too old go (the
\* age of the IP row is not kept).
Purge ==
  /\ alive' = TRUE
  /\ row' = [k \in Kinds |-> IF row[k].age >= Retention THEN NoRow ELSE row[k]]
  /\ ip' \in {ip, "none"}
  /\ UNCHANGED displayVars

Stop == alive /\ alive' = FALSE /\ UNCHANGED <<row, ip, displayVars>>

Insert(k) ==
  /\ alive
  /\ \E ms \in Latencies[k] \cup {None} : row' = [row EXCEPT ![k] = [ms |-> ms, age |-> 0]]
  /\ UNCHANGED <<alive, ip, displayVars>>

UpsertIp ==
  /\ alive
  /\ ip' \in Ips \ {"none", ip}
  /\ UNCHANGED <<alive, row, displayVars>>

TrayRefresh ==
  /\ trayLeft = 0
  /\ trayLeft' = TrayPoll
  /\ tray' = TrayView
  /\ UNCHANGED <<alive, row, ip, tui, tuiLeft>>

TuiRefresh ==
  /\ tuiLeft = 0
  /\ tuiLeft' = TuiPoll
  /\ tui' = TuiView
  /\ UNCHANGED <<alive, row, ip, tray, trayLeft>>

\* A display that is due paints before time goes on.
Tick ==
  /\ trayLeft > 0 /\ tuiLeft > 0
  /\ trayLeft' = trayLeft - 1
  /\ tuiLeft' = tuiLeft - 1
  /\ row' = [k \in Kinds |->
               IF row[k] = NoRow \/ row[k].age = Retention THEN row[k]
               ELSE [row[k] EXCEPT !.age = @ + 1]]
  /\ UNCHANGED <<alive, ip, tray, tui>>

Next ==
  \/ Purge \/ Stop \/ UpsertIp \/ \E k \in Kinds : Insert(k)
  \/ TrayRefresh \/ TuiRefresh \/ Tick

Spec == Init /\ [][Next]_vars

--------------------------------------------------------------------------------
TypeOK ==
  /\ alive \in BOOLEAN
  /\ \A k \in Kinds :
       row[k] = NoRow \/ row[k] \in [ms : Latencies[k] \cup {None}, age : 0 .. Retention]
  /\ ip \in Ips
  /\ trayLeft \in 0 .. TrayPoll /\ tuiLeft \in 0 .. TuiPoll
  /\ tray.symbol \in Bands \cup {"waiting", "stale"}
  /\ tray.country => tray.symbol \in Bands

\* README.md:103, "If probed stops writing data, the symbol changes ... after
\* stale_seconds": however the polls fall, no band, country or figure stays on
\* either display longer than stale_seconds and one poll after the last row.
StaleIsNoticed ==
  /\ tray.symbol \in Bands \/ tray.country => row["warm"].age <= Stale["warm"] + TrayPoll
  /\ \A k \in Kinds :
       /\ tray.item[k] = "ms" => row[k].age <= Stale[k] + TrayPoll
       /\ tui.item[k] \in Bands => row[k].age <= Stale[k] + TuiPoll

\* config.py: the thresholds are "shared by all display consumers (tray, TUI)".
\* Once there is a row the menu bar's symbol and the dashboard's colours class it
\* alike, to the millisecond, and read it alike: stale, down or a figure.  So do
\* the sparklines and the screens, which know no staleness.
LatencyItemsAgree ==
  \A k \in Kinds : row[k] # NoRow =>
    /\ TrayItem(k) = IF TuiItem(k) \in {"stale", "down"} THEN TuiItem(k) ELSE "ms"
    /\ k = "warm" => Symbol = TuiItem(k)
    /\ ~IsStale(k) =>
         LET ms == row[k].ms
         IN  /\ {SparkLatency(ms, k), HistoryLatency(ms, k), ScreenLatency(ms, k)} = {TuiItem(k)}
             /\ CliLatency(ms) = TrayItem(k)

================================================================================

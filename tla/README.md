# A verification of mb-netwatch

mb-netwatch watches a Mac's connection: a daemon, `probed`, measures latency,
DNS, VPN status and the public address on timers and stores what it finds in
SQLite; a menu-bar app, a dashboard and the command line read the database and
start and stop the daemon. This directory holds TLA+ models of it, TLC
configurations that check them on small instances, and TLAPS proofs of the most
important properties for every value of the constants.

File names below are relative to `src/src/mb_netwatch/` unless they name a
document.

## 1. The system

| Part | State it keeps | Operations | Talks to |
|---|---|---|---|
| `daemon.py` (`probed`) | `shutdown` and `ip_trigger` events, `prev_active`, one task per loop | six loops (warm, cold, DNS, VPN, IP, purge), signal handlers, start-up purges, clean-up | calls `Service`; the VPN loop wakes the IP loop through `ip_trigger` |
| `core/service.py` | warm HTTP session, `_last_ip_result`, `_ip_state_seeded` | one `run_*_check` per probe, `close_warm_latency_session`, the one-shot `run_probe` | calls the probes, then one `insert` or `upsert` |
| `core/db.py` | five tables: warm, cold and DNS (append only), VPN and IP (deduplicated) | insert/upsert, latest, recent, purge, country lookup | shared by all processes |
| `core/probes/latency.py`, `ip.py` | the tasks of one race | race several URLs, first good answer wins, the rest are cancelled | HTTP |
| `core/probes/dns.py` | none | parse `scutil --dns`, query every resolver at once | scutil, UDP |
| `core/probes/vpn.py` | none | interface, then routes, then provider | psutil, netstat, scutil |
| `process_control.py`, `cli/commands/{start,stop,probed,tray}.py`, `tray.py` Close and Quit | `probed.pid`, `tray.pid` | check, spawn, write, signal, wait, kill, unlink | file system, signals |
| `tray.py` | last view | poll every `tray.poll_interval`, format | reads the latest rows |
| `tui/` | last view, the probe screen's worker | poll every `tui.poll_interval`, histories, on-demand probe | reads the latest and recent rows |
| `config.py`, `cli/` | none | parse, validate, print | – |

What is hard here, and hence what the properties are about: loops and checks
that interleave at every `await`; an event set while its reader is busy; state
kept between checks (session, previous result, previous VPN status) that must
survive failures of any step; two timestamps per row written by different
statements; races and screens whose losers must be cancelled; processes that see
each other only through pid files; readers that must notice that the writer is
gone, and that read one table twice while it is written; six formatters of the
same rows.
PROJECT.json lists these hazards one by one, each at its line, with the
properties aimed at it.

## 2. The modules

| Module | Models | State ↔ code |
|---|---|---|
| `UpsertTable` | the SQL of the two deduplicating tables as set operators | a table is a set of rows `[created, updated, val]`; `Latest` is `ORDER BY updated_at DESC LIMIT 1`, `Recent` is `ORDER BY created_at DESC LIMIT n` |
| `Timeline` | abstract: what such a table promises (which state was in force at which instant) | `line`, `last` |
| `StateTable` | one such table over a database's life, refining `Timeline` | `Upsert` is a check's end, `PurgeOld` the purge loop or a start |
| `Dashboard` | extends `StateTable` by a reader: a refresh asks for the latest row and for the change list in two transactions | `status` and `list` are what is painted; `readAt` is an observer |
| `Daemon` (`MCDaemon`) | the six loops of `run_daemon`, the two events, the warm session, time, and which address the IP check stored | `pc[l]` is where loop `l` is suspended (`top`, `check`, `wait`), `left[l]` the rest of its timer; `stored` is the newest IP row's address, named by the state of the tunnel it was taken under; `age`, `owed`, `calm`, `settled`, `lone`, `seen`, `sinceStop`, `live` are observers that guard nothing the code does |
| `IpCheck` | `run_ip_check` and `_check_ip` with their two country caches and the `probe_ip` table | `last`, `seeded` are `_last_ip_result`, `_ip_state_seeded`; `pc` names the race awaited |
| `IpTable` | `IpCheck` with a history variable, refining `StateTable`: `probe_ip` as one more deduplicating table | `checked` is the instant of the last upsert |
| `FirstAnswer` | abstract: what a race promises its caller | `got`, `over`, `outcome` |
| `Race` | `_race_urls` and `_check_latency`, which are one algorithm, refining `FirstAnswer` | `task`, `answer` are the tasks; `pending` is the racer's set |
| `DnsProbe` (`MCSystemProbes`) | one DNS cycle: both passes of the scutil parser, the queries, the row, and six places that show it | a report is two sequences of blocks, turned into lines and folded |
| `VpnDetect` (`MCSystemProbes`) | the three observations of `check_vpn` on a network that changes, and six places that show the status | `pc` is the observation to come; a label is the tuple of its parts |
| `PidControl` | both programs' boot and end, and `start`, `stop`, `probed`, `tray`, Close and Quit around the two pid files | `proc[p]` is a process's progress, `op`, `at`, `on` an actor's command, its next step and the program that is about; `crossed` is a history variable: which programs have had two boots, or a boot and a stop, cross |
| `LatestWins` | abstract: what a screen that probes on demand promises | `open`, `body`, `latest` |
| `ProbeScreen` | the on-demand screen's exclusive worker over `run_probe`'s gather, refining `LatestWins` | `worker[r]`, `check[r]`, `gather[r]` are the tasks of run `r`, `cancelled` the requests to cancel, `body` what is painted |
| `Displays` (`MCDisplays`) | tray and status line polling the latest rows, and the classing of a latency everywhere | `tray`, `tui` are what is on screen |
| `StateTableProofs` (of `Dashboard` too), `DaemonProofs`, `IpCheckProofs`, `RaceProofs`, `PidControlProofs`, `ProbeScreenProofs`, `VpnDetectProofs`, `DisplaysProofs` | the theorems | |

`StateTable` and `IpCheck` are built on `UpsertTable`, `Dashboard` on `StateTable`,
`IpTable` on `IpCheck`. Four refinements lead to abstract specifications:
`IpTable` → `StateTable` → `Timeline`, `Race` → `FirstAnswer`,
`ProbeScreen` → `LatestWins`. The other modules meet
through what they assume of each other: `Daemon`'s `IpDone` abstracts a whole
`IpCheck` check (an address, none, or an exception) and its `MaxCheck` is two
`Race`s; the checks `ProbeScreen` gathers are those of `Race`, `IpCheck`,
`DnsProbe` and `VpnDetect`; `PidControl`'s drain that may
outlast the wait is `Daemon`'s `DrainBounded` with a bound above the 5 s of
`stop`; `Displays`' rows come from `Daemon`'s `Stored`.

Operators whose names start with that of another definition and that are headed
"Mutant(s) of" are plausible bugs (a dropped guard, a reset at the wrong place).
Nothing uses them; substituting one for the definition it is named for makes a
property fail, which shows that the property depends on that code.

### Time and clocks

`Daemon` and `Displays` have discrete time: a wait takes its interval, a check
any time up to the sum of the timeouts on its path, computation none; `Tick` is
enabled only when nothing is ready. `StateTable` and `IpCheck` have a clock read
once per check; a check takes time, so two checks of one loop never read the
same instant, and the wall clock is never set back (see section 6).

## 3. The runs

| Run | Question | Bounds |
|---|---|---|
| `dashboard` | Do upserts and purges in any order keep rows disjoint and alternating, and keep the promise of `Timeline`? Is an instant's state, once told, ever told differently? Does a list painted under a status continue it? | 3 values, 6 instants, retention 2: runs of three rows, purges that cut the oldest while the newest grows; a list of 2 entries, any number of writes between the two reads |
| `daemon_latency` | Are a working daemon's rows always fresh? Is the session created, healed and closed once each, and healed in the end also when the check that should have done so raised? Does SIGTERM end it within one check? Does no failure stop a loop? | default warm and cold numbers in seconds; the purge interval cut to 4 s |
| `daemon_vpn` | Does every VPN change noticed lead to a fresh IP check at once? Do `prev_active` and the stored address catch up with the tunnel, and how soon (a loop that an exception ends would break both bounds)? | default VPN and IP numbers in units of 5 s; the tunnel flips at any instant, also twice between two checks; any check raises or finds nothing |
| `ip_check` | Do the in-memory result, the history and the services ever name two countries, or a wrong one, for an address? Is a country ever raced for that is known, or lost once known? Does the check, with its caches, failures and restarts, use its table as `StateTable` does (run on `IpTable`)? | 2 addresses, 2 countries, 5 checks, retention 2: an address that goes and returns before and after its rows are purged |
| `race` | Is a request ever left running? Does the caller see what `FirstAnswer` promises: an answer that was received, or none only if every request failed, also between two batches? | 4 endpoints, two kinds of answer, every order of endings, wake-ups and cancellations |
| `race_valid` (violated) | Does the first *valid* address win? | 2 endpoints |
| `system_probes` | DNS: does the line parser find the resolvers that `docs/probes.md` names, domain-scoped blocks left out (unless resolver #1 is one, see `system_probes_domain`), and do all displays read a row alike and leave none out? VPN: what does a status mean when the network changes between the three observations? Is every difference between two statuses visible? | every report of up to two blocks per section, each with 0–2 nameservers, with or without a domain; every order and outcome of the queries; two tunnels, one provider, every set of routes |
| `system_probes_domain` (violated) | Are domain-scoped resolvers never measured, in the main section either? | the same reports |
| `pid_control` | Is there never more than one daemon or tray, is each always reachable, do `stop` and Quit tell the truth, does Quit leave a daemon behind, as long as no boot has crossed another boot or a stop? Does Quit end? | two daemons and a tray, one terminal and the tray's menu; every command at every moment, also during boots, drains and other commands |
| `pid_control_hasty` (violated) | Is there never more than one daemon, whatever crosses? | three daemons, two terminals |
| `displays` | Does every item turn stale in time, wherever the polls fall? Do all displays class a latency alike? | thresholds 1 s and 2 s, polls 2 s and 1 s, latencies below `ok_ms`, on it and on `slow_ms`, ages up to the retention of 5 s |
| `probe_screen` | Does the screen show what `LatestWins` promises: the newest run, then its outcome, once and in the end? Do replaced, abandoned and failed runs end? | three runs, two checks: a check that raises beside one that does not, and a run replaced twice |

Why these are enough: a row is compared with the latest one only, so three
values and three rows exhibit every pattern of equal and different neighbours;
the caches of `IpCheck` relate one address to another, so two of each suffice;
the races are symmetric in their URLs and two batches plus a leftover need four;
the parser's state is forgotten at every header, so two blocks show each
transition between blocks; two tunnels show "first" against "other"; a second
daemon or tray sees whatever its predecessor left behind, and a third would meet
nothing else in the one file they share (the run has two daemons and one tray,
because a tray boots in fewer steps of the same kind; the proofs are for any
number of both); `check_vpn` and `check_dns` share no state, so `MCSystemProbes`
lets either run while the other has not begun; `gather` tells only the first check to
end from the others. `Daemon` needs no such argument:
its numbers are the default configuration's (only the units are coarser) and its
safety properties are proved for all numbers.

Every stateful module of the code states a type invariant. Every one but
`DnsProbe`'s is proved, so no run spends a check on them: the runs are kept for
properties of behaviour. `DnsProbe`'s holds on the instance of its run, and no
other property rests on it.

`CHECK_DEADLOCK FALSE` is set where the bounded clock, the supply of pids or of
probes, or the race itself ends.

### Fairness

- `Daemon`: `WF(System)`. The asyncio loop runs whatever is ready, timers expire
  and a check ends by its timeout. Nothing forces anyone to start, signal or
  kill the daemon. `StopTerminates`, `KeepsProbing` and
  `SessionHeals` rest on it.
- `Race`: `WF(Racer)` and `WF(Tasks)`. Every request has a total timeout and
  asyncio delivers cancellations. `Terminates` rests on it.
- `PidControl`: weak fairness of each command's steps and of each tray's own, so
  that Quit's termination does not depend on the daemon's cooperation (a wait
  that times out is a step of the command). No fairness of the daemon.
- `ProbeScreen`: weak fairness of each run's steps: every await of a probe has a
  timeout, and asyncio delivers what is done and what is cancelled. Nothing makes
  the user refresh or leave. `RunsEnd` and the fairness `ImplementsLatestWins`
  promises (a run that is neither replaced nor dismissed gets its outcome) rest
  on it.

The other modules are checked for safety only.

## 4. What is proved

`tlapm` proves every safety property of the passing runs except `DnsProbe`'s
two, for every value of the constants, from the named assumptions on them
(`StateTableAssumption`, `DashboardAssumption`, `DaemonAssumption`,
`StaleAssumption`, `IpCheckAssumption`, `RaceAssumption`, `PidAssumption`,
`ProbeScreenAssumption`, `VpnAssumption`, `DisplaysAssumption`). They are what
`config.py` enforces or the types of the code say, with two exceptions. `StaleAssumption` (interval
plus longest check is at most `stale_seconds`) holds for the defaults and is not
validated; only `Freshness` uses it. `DisplaysAssumption` takes rows to be kept
for longer than `stale_seconds` and one poll (30 days against 30 s).

The four properties of `PidControlProofs` carry a condition of their own, `Apart`:
no boot of the program has, so far, crossed another boot of it (both have
checked, neither has written the file) or a stop of it (a `stop` or a Quit is at
work on the program while one of its processes has yet to write the file). Nothing in the code keeps
these apart, and the condition excludes no behaviour: the history variable
`crossed` notes a crossing when it happens and guards nothing, every
interleaving is explored, and what is claimed is claimed of all states before a
crossing. After one, the claims are false: `pid_control_hasty` shows
one of the two ways, section 6 describes both.

Each proof rests on an inductive invariant `IInv`, which TLC found to hold on the
instance of the run before it was proved.

- **StateTableProofs** – `TypeCorrectness`, `Disjointness`, `Deduplication`,
  `HeadAgreement`, `Refinement`, `HistoryKept`, `ReadersOnlyRead`, `ListFitsStatus`.
  Disjointness alone is not inductive: a bump
  moves the end of the *latest* row to the present, which is harmless only if no
  row begins after it. `IInv` therefore adds that the table is finite and that
  the newest row ends at the last check (`LastIsStored`); `OrdersAgree` then
  shows the order by `created_at` and the one by `updated_at` to be the same.
  `Refinement` maps each upsert to `Observe` and each purge to `Forget` or a
  stutter; a purge removes whole runs, which is what `Forget` allows.
  `HistoryKept` says the same without `Timeline`, as an action property: no step
  changes what the table told of an instant, and one is forgotten only beyond the
  retention (`PurgeForgets`); an instant without a state before the last check never
  gets one (`FutureUnknown` leaves only later ones to fill).
  `ReadersOnlyRead` carries all of this over to `Dashboard`, whose own theorem,
  `ListFitsStatus`, needs what holds between the two queries of a refresh
  (`Between`): the run shown as the status goes on or is purged in its turn, and
  what is newer began after the first query. That the list has no gap is
  `RecentIsFull`: it has as many entries as it may, because counting the rows
  after each row numbers the rows from 0.
- **DaemonProofs** – `TypeCorrectness`, `PromptIpChecks`, `Freshness`,
  `VpnTracking`, `IpTracking`, `PromptIpTracking`, `BoundedDrain`,
  `SessionOwnership`. Each property
  speaks about an age, so each needs a bound for every point of the loop's cycle: the time
  already spent plus the time left of the current timer. `Ageing`, `Prompt`,
  `Follow`, `Settle`, `Drain` are those bounds; `Control` ties timers to program counters.
  `IpTracking` needs no word on the event: whatever set or consumed it, the loop
  is never further than one interval and two checks from a check that began
  after the change. `PromptIpTracking` is the theorem about the event. Its part
  of the invariant, `Promptly`, follows one change across both loops:
  `prev_active` is the old state until the VPN loop notices, and from then on
  the change is `Announced` (the event is set, an older check may still be in
  flight), `Asked` (a check that saw nothing else is in flight) or `Confirmed`
  (stored, and a check in flight can only store it again), the first two with
  their deadlines.
- **IpCheckProofs** – `TypeCorrectness`, `Pairing`, `CountryUniqueness`,
  `NoWastedRace`, `CacheCoherence`, `CountryStays`, `Refinement`,
  `HistoryDeduplicated`, `HistoryHead`, `HistoryNeverRewritten`,
  `HistoryIsTimeline`. The key is `CacheAgrees`: the in-memory result
  is the table's current row through failed checks, purges and restarts. It is
  kept because every row is older than the next check (`RowsAreOld`). Then an
  answer taken from memory is also the history's, and a race is only entered
  when neither has one, so a second country can never be written.
  `CountryStays` also needs the rows to be consecutive runs (`RunsApart`): the row
  before a new one is then the row it was compared with, also after a purge.
  `Refinement` shows of every step of the check, in `IpTable`, that it is an
  upsert of a result, a purge or nothing to the table (`StepMaps`); the history
  variable `checked` stands for `StateTable`'s `last`. All that
  `StateTableProofs` proves of a table then holds of `probe_ip` by instantiating
  that module (`STP`), once its assumptions are shown of the IP check's constants
  (`Applies`; that some value is no result is that no set contains everything).
  The four `History*` theorems are obtained in this way.
- **RaceProofs** – `TypeCorrectness`, `NoLeftovers`, `NoAnswerLost`,
  `Refinement`, for any number of endpoints. `ReadAsFailed` says that all that has left `pending` has
  ended, and as a failure while there is no winner; `Course` that the racer has a
  winner exactly when it has read one, and gives up only with nothing pending.
  `Refinement` maps a request's end to `Receive`, the racer's last step to
  `Decide`, `GiveUp` or `Abort`, and the batches and cancellations to stutters.
- **PidControlProofs** – `TypeCorrectness`, `OneEach`, `NeverOrphaned`,
  `StoppedIsSilent`, `QuitIsThorough`, for any number of processes and terminals.
  `TypeCorrectness` holds across every crossing. The others hold of a program while
  it is `Apart`. The centre is `Named` (a process that has written its file and not
  ended is the one the file names), which makes the file enough to find all there
  is to stop. It is kept because a process that found no other running is still right
  when it writes (`Fresh`): whoever else could have written since would have
  been between its own check and its write too, and that is a crossing. `StopsAll`
  is what a command that waits may conclude, for `stop` and Quit side by side: what it
  waits for is all there is, since a boot in the meantime is a crossing too. `Silent`
  is what remains when it has reported. `Noted` ties
  the history to the present: what crosses now is in `crossed`, so that an `Apart`
  program is `Calm`.
- **ProbeScreenProofs** – `TypeCorrectness`, `PaintsTheNewest`,
  `OthersAreCancelled`, `Refinement`, for any number of runs and checks. The two properties
  are nearly inductive together; `OwnRun` (an open screen has a run that nothing
  has cancelled) and `Gathers` (a gather that waits has cancelled all of its
  checks or none, and the worker goes on only when it is done) complete them.
  `Refinement` is the safety half of `ImplementsLatestWins`: `OnlyLatestRuns` shows
  that a worker that paints belongs to the latest request, everything else is
  a stutter.
- **VpnDetectProofs** – `TypeCorrectness`, `NothingInvented`,
  `StillNetworkIsSeen`, `EveryChangeShows`, for any tunnels, providers and
  routes. `InCheck` is what the check in progress has, `Told` what it has told.
  `EveryChangeShows` is a theorem about the labels alone: each display's label
  determines the status.
- **DisplaysProofs** – `TypeCorrectness` as part of `Invariance`, `StaleShows`,
  `OneClassPerLatency`, for every latency, threshold, poll interval and
  `stale_seconds`. `TrayIsRecent` and `TuiIsRecent` add the time since a display's
  last poll to what it may still show.

Model-checked only:

- every liveness property (`StopTerminates`, `KeepsProbing`, `SessionHeals`, `Terminates`,
  `QuitSucceeds`, `RunsEnd`, the fairness half of `ImplementsLatestWins`): they rest on fairness, hence on
  ENABLED, which the provers do not handle;
- `MeasuresEffective` and `DisplaysAgree`: `DnsProbe`'s parser and displays are
  folds over sequences, and what a fold computes for every input is an induction
  over data that the provers cannot instantiate;
- the three refutations: `race_valid`, `pid_control_hasty` and `system_probes_domain`.

## 5. What is not modelled

- Layout, wording and JSON output; the Raycast installer; argument and
  configuration parsing (what the validators guarantee appears as assumptions).
- The scaling of sparklines and their statistics lines; recent-N queries of the
  append-only tables, which feed only those and the history screens.
- The merge of the VPN and IP change lists by time; the IP history.
- The DNS table's purge and the DNS item's staleness: the same code as for the
  latency tables, which `Displays` covers.
- The thread in which `check_vpn` and `scutil` run: it cannot be cancelled, its
  answer is dropped, and its commands have timeouts. `ProbeScreen`'s check is the
  task that waits for it.
- Textual, asyncio, aiohttp, mm_clikit and mm_pymac beyond their use: marked
  external. In particular a dismissed screen's worker is taken to be cancelled
  in the step that dismisses it.
- SQLite itself: a statement is atomic, and either it is done or it raises.
- Addresses, countries and provider names other than as distinct values. A dash
  shown for a missing field is taken to be no provider's name.

## 6. Observations

Three runs show the code doing other than its documentation or messages say
(PROJECT.json, `findings`):

- `race_valid`: the first non-empty answer wins a race, and is validated only then.
- `pid_control_hasty`: of two daemons started together both pass the check for a
  running one.
- `system_probes_domain`: `docs/probes.md:131` names any block with a `domain :` line
  as deliberately not measured, "whether in the main or the scoped-queries
  section"; `_parse_main_resolver_1` takes the nameservers of resolver #1 without
  looking for one. `Effective` follows the document, and `MeasuresEffective` speaks
  of the other reports.

Others met while modelling, without a run of their own:

- `stop` and Quit remove the pid file after the exit they waited for, whoever has
  written it since (`process_control.py:35`), and the daemon's `finally` removes it
  likewise. A daemon started in between runs its loops unseen by the dashboard's footer,
  `stop` and Quit, and the next `start` adds a second one. This is the other way to
  violate `AtMostOneEach` on the instance of `pid_control_hasty`, found when two
  boots are kept from crossing; `RunningIsReachable` needs `Apart` for its sake.
- On an empty database the tray's latency items say DOWN, beside a title that shows
  the dot of no data (`tray.py:189`: "handled separately"); the dashboard says "?".
- A wall clock set back makes `upsert_probe_*` compare with a row of the future:
  that row's `updated_at` is then moved back, and a later check can store a state
  right after itself. `StateTable` assumes a clock that is not set back.
- `run_latency_warm_check` inserts before it heals (`core/service.py:104-110`):
  an INSERT that raises, or a `close()` that does, leaves the session whose
  requests just failed to the next check. `SessionHeals` says that it is healed in
  the end, unless the checks raise for ever.
- `run_ip_check`'s docstring says `vpn_changed` "forces fresh country lookup";
  an address already in `probe_ip` still gets its stored country (which is
  what `docs/probes.md:97` wants).
- `detect_tunnel_mode` looks at the first live tunnel: a default route through a
  second one is reported as split.
- A check of `run_probe` that raises leaves its siblings running: the screen shows
  the error, and a refresh probes beside them until their timeouts; the warm
  session may be closed under its own check. A cancelled run does not wait for
  its checks either. `RunsEnd` says only that they end;
  nothing says that they do not overlap, because they do.
- The tray marks its VPN and IP items stale when the warm latency is; the
  dashboard never marks them.
- An empty resolver list is "no config" on the tray, the dashboard and the
  history, "unknown" on the probe screen and in `probe`. The DNS sparkline draws
  such a cycle as a failure, its error count leaves it out.
- `p95` of the statistics lines is element `int(0.95 n) - 1` of the sorted
  readings: of two readings it is the smaller.
- `start` right after a `stop` that timed out reports "already running" of a daemon
  that is about to end.
- One `try` surrounds the five hourly purges: one that raises skips the rest. The
  tables' properties allow a purge at any time and bound no delay, and the code
  bounds none: a purge that raises in every cycle keeps those after it from
  running.

## 7. Plan

Done: all components that keep state, the readers and the probe screen; proofs of
every safety property but `DnsProbe`'s; the abstract specifications of the table,
the race and the probe screen, each refined step by step.

What is left:

1. Which of `PidControl`'s four properties survive one kind of crossing alone:
   `Apart` asks for neither.
2. Shorter proofs: the cases of `DaemonProofs` in which a step leaves a part's
   variables alone could share one lemma per part.
3. `MeasuresEffective` for reports of any length, should a prover for induction
   over data become available.

-------------------------------- MODULE Daemon ---------------------------------
(***************************************************************************)
(* probed (daemon.py): six asyncio loops in one TaskGroup, a shutdown      *)
(* event set by SIGTERM/SIGINT and the ip_trigger event by which the VPN   *)
(* loop wakes the IP loop, with the state core/service.py keeps between    *)
(* checks (the warm HTTP session) and the address in the newest IP row.    *)
(*                                                                         *)
(* The machine's address is that of its tunnel or that of its line: it is  *)
(* written as the value of vpnUp.                                          *)
(*                                                                         *)
(* Time is discrete.  A check takes any time up to the sum of the timeouts *)
(* on its path, MaxCheck; a wait takes exactly Interval unless an event    *)
(* cuts it short; what the event loop does between awaits takes none.  No  *)
(* exception leaves a loop (each check is under `except Exception`), so    *)
(* the TaskGroup ends when its six loops have returned and not before.     *)
(***************************************************************************)
EXTENDS Integers

CONSTANTS
  Loops,     \* the loops present, among AllLoops
  Interval,  \* loop -> <loop>_interval
  MaxCheck,  \* probe loop -> longest check
  Stale      \* monitored loop -> stale_seconds of the displays

AllLoops == {"warm", "cold", "dns", "vpn", "ip", "purge"}
Probes == Loops \ {"purge"}
Monitored == Loops \cap {"warm", "cold", "dns"}

ASSUME DaemonAssumption ==
  /\ Loops \subseteq AllLoops
  /\ Interval \in [Loops -> Nat \ {0}]
  /\ MaxCheck \in [Probes -> Nat]
  /\ Stale \in [Monitored -> Nat]

\* What the displays' thresholds take for granted; the defaults satisfy it,
\* config.py does not enforce it.
ASSUME StaleAssumption ==
  \A l \in Monitored : Interval[l] + MaxCheck[l] <= Stale[l]

None == -1  \* Python's None, or "no such age"

VARIABLES
  phase,     \* "down" or "running" (the process)
  shutdown,  \* the shutdown event
  trigger,   \* the ip_trigger event
  pc,        \* loop -> "top", "check", "wait" or "done"
  left,      \* loop -> time left to its check (at most) or its wait
  prev,      \* prev_active of the VPN loop
  sample,    \* what check_vpn saw when the running VPN check began
  session,   \* _warm_latency_session: "none", "open", "failed": open still though
             \* no endpoint answered its newest requests, "half_closed":
             \* its close() has raised
  vpnUp,     \* the machine's tunnel interface
  stored,    \* the address in the newest IP row, None when there is none
  seen,      \* the addresses the machine had during the IP check in flight
  \* Observers, read by no guard.
  live,      \* client sessions open in the process
  age,       \* monitored loop -> time since its last row, None after a fault
  owed,      \* time since the oldest VPN change no IP check has followed
  calm,      \* time since the tunnel last changed, a VPN check failed, or start
  settled,   \* time since the tunnel last changed, an IP check failed, or start
  lone,      \* the last change met a settled daemon and no check failed since
  sinceStop  \* time since the shutdown signal

ipVars == <<trigger, owed, stored, seen, settled, lone>>
vpnVars == <<prev, sample>>
warmVars == <<session, live>>
vars == <<phase, shutdown, pc, left, vpnUp, age, calm, sinceStop,
          ipVars, vpnVars, warmVars>>

Bool == {None, 0, 1}  \* bool | None

\* Where calm stops counting: beyond it VpnFollowed promises the same.
CalmBound == IF "vpn" \in Loops THEN Interval["vpn"] + 2 * MaxCheck["vpn"] + 1 ELSE 0
\* The same for settled.
SettledBound == IF "ip" \in Loops THEN Interval["ip"] + 2 * MaxCheck["ip"] + 1 ELSE 0
Capped(n, bound) == IF n > bound THEN bound ELSE n

--------------------------------------------------------------------------------
\* Mutants of the definitions below.
DueIgnoresShutdown(l) == left[l] = 0 \/ (l = "ip" /\ trigger)

DueOnlyByTrigger(l) == shutdown \/ IF l = "ip" THEN trigger ELSE left[l] = 0

\* _wait_shutdown and _wait_ip return.
Due(l) == left[l] = 0 \/ shutdown \/ (l = "ip" /\ trigger)

TopIgnoresShutdown(l) == phase = "running" /\ pc[l] = "top"

\* `while not shutdown.is_set()` goes round once more.
Top(l) == phase = "running" /\ pc[l] = "top" /\ ~shutdown

Enter(l) ==
  /\ Top(l)
  /\ pc' = [pc EXCEPT ![l] = "check"]
  /\ left' = [left EXCEPT ![l] = MaxCheck[l]]
  /\ UNCHANGED <<phase, shutdown, vpnUp, age, calm, sinceStop>>

Sleep(l) ==
  /\ pc' = [pc EXCEPT ![l] = "wait"]
  /\ left' = [left EXCEPT ![l] = Interval[l]]
  /\ UNCHANGED <<phase, shutdown, vpnUp, sinceStop>>

\* The check's row is in the table; no row was written.
Stored(l) == age' = [m \in Monitored |-> IF m = l THEN 0 ELSE age[m]]
NotStored(l) == age' = [m \in Monitored |-> IF m = l THEN None ELSE age[m]]

--------------------------------------------------------------------------------
Off ==
  /\ phase' = "down"
  /\ shutdown' = FALSE
  /\ trigger' = FALSE
  /\ pc' = [l \in Loops |-> "done"]
  /\ left' = [l \in Loops |-> 0]
  /\ prev' = None
  /\ sample' = None
  /\ session' = "none"
  /\ age' = [l \in Monitored |-> 0]
  /\ owed' = None
  /\ calm' = 0
  /\ seen' = {}
  /\ settled' = 0
  /\ lone' = FALSE
  /\ sinceStop' = 0
  /\ UNCHANGED <<vpnUp, stored>>

Init ==
  /\ phase = "down"
  /\ shutdown = FALSE
  /\ trigger = FALSE
  /\ pc = [l \in Loops |-> "done"]
  /\ left = [l \in Loops |-> 0]
  /\ prev = None
  /\ sample = None
  /\ session = "none"
  /\ vpnUp \in {0, 1}
  /\ stored = None
  /\ seen = {}
  /\ settled = 0
  /\ lone = FALSE
  /\ live = 0
  /\ age = [l \in Monitored |-> 0]
  /\ owed = None
  /\ calm = 0
  /\ sinceStop = 0

\* run_daemon up to the end of the `async with` block's body: the start-up
\* purges, then one task per loop.
Start ==
  /\ phase = "down"
  /\ phase' = "running"
  /\ pc' = [l \in Loops |-> "top"]
  /\ UNCHANGED <<shutdown, left, vpnUp, age, calm, sinceStop, ipVars, vpnVars, warmVars>>

Signal ==
  /\ phase = "running"
  /\ ~shutdown
  /\ shutdown' = TRUE
  /\ UNCHANGED <<phase, pc, left, vpnUp, age, calm, sinceStop, ipVars, vpnVars, warmVars>>

\* The cold and DNS checks keep nothing between cycles.
PlainStart(l) ==
  /\ Enter(l)
  /\ UNCHANGED <<ipVars, vpnVars, warmVars>>

\* Mutant of PlainDone: an exception leaves the loop.
PlainDoneUnguarded(l) ==
  /\ pc[l] = "check"
  /\ \/ Sleep(l) /\ Stored(l)
     \/ /\ pc' = [pc EXCEPT ![l] = "done"]
        /\ UNCHANGED <<left, phase, shutdown, vpnUp, sinceStop, age>>
  /\ UNCHANGED <<calm, ipVars, vpnVars, warmVars>>

PlainDone(l) ==
  /\ pc[l] = "check"
  /\ Sleep(l)
  /\ Stored(l) \/ NotStored(l)
  /\ UNCHANGED <<calm, ipVars, vpnVars, warmVars>>

\* run_latency_warm_check: the session is created when there is none, ...
WarmStart ==
  /\ Enter("warm")
  /\ session' = IF session = "none" THEN "open" ELSE session
  /\ live' = IF session = "none" THEN live + 1 ELSE live
  /\ UNCHANGED <<ipVars, vpnVars>>

\* Mutant of WarmDone: a "down" result is not stored.
WarmDoneStoresOnlyUp ==
  /\ pc["warm"] = "check"
  /\ Sleep("warm")
  /\ \/ session' = "open" /\ live' = live /\ Stored("warm")
     \/ session' = "none" /\ live' = live - 1 /\ UNCHANGED age
  /\ UNCHANGED <<calm, ipVars, vpnVars>>

\* Mutant of WarmDone: the session is not recreated.
WarmDoneNeverHeals ==
  /\ pc["warm"] = "check"
  /\ Sleep("warm")
  /\ Stored("warm")
  /\ session' \in {"open", "failed"}
  /\ UNCHANGED <<calm, live, ipVars, vpnVars>>

\* ... kept when an endpoint answered, closed when none did, ...
WarmDone ==
  /\ pc["warm"] = "check"
  /\ Sleep("warm")
  /\ Stored("warm")
  /\ \/ session' = "open" /\ live' = live
     \/ session' = "none" /\ live' = live - 1
  /\ UNCHANGED <<calm, ipVars, vpnVars>>

\* ... and still there when the INSERT, which comes before the healing, raises,
\* or the close itself does.
WarmFails ==
  /\ pc["warm"] = "check"
  /\ Sleep("warm")
  /\ \/ NotStored("warm") /\ session' \in {"open", "failed"}
     \/ Stored("warm") /\ session' = "half_closed"
  /\ UNCHANGED <<calm, live, ipVars, vpnVars>>

\* check_vpn looks for the tunnel interface first; netstat and scutil follow.
VpnStart ==
  /\ Enter("vpn")
  /\ sample' = vpnUp
  /\ UNCHANGED <<prev, ipVars, warmVars>>

\* Mutant of VpnDone: prev_active is the first state seen.
VpnDoneSetsPrevOnce ==
  LET changed == prev # None /\ sample # prev
  IN  /\ pc["vpn"] = "check"
      /\ Sleep("vpn")
      /\ trigger' = (trigger \/ changed)
      /\ owed' = IF changed /\ owed = None THEN 0 ELSE owed
      /\ prev' = IF prev = None THEN sample ELSE prev
      /\ sample' = None
      /\ UNCHANGED <<age, calm, stored, seen, settled, lone, warmVars>>

VpnDone ==
  LET changed == prev # None /\ sample # prev
  IN  /\ pc["vpn"] = "check"
      /\ Sleep("vpn")
      /\ trigger' = (trigger \/ changed)
      /\ owed' = IF changed /\ owed = None THEN 0 ELSE owed
      /\ prev' = sample
      /\ sample' = None
      /\ UNCHANGED <<age, calm, stored, seen, settled, lone, warmVars>>

\* The upsert raises: the cycle is as if it had not been.
VpnFails ==
  /\ pc["vpn"] = "check"
  /\ Sleep("vpn")
  /\ sample' = None
  /\ calm' = 0
  /\ lone' = FALSE
  /\ UNCHANGED <<age, prev, trigger, owed, stored, seen, settled, warmVars>>

\* The event is read and cleared before the check it asks for.
IpStart ==
  /\ Enter("ip")
  /\ trigger' = FALSE
  /\ owed' = None
  /\ seen' = {vpnUp}
  /\ UNCHANGED <<stored, settled, lone, vpnVars, warmVars>>

IpEnds ==
  /\ pc["ip"] = "check"
  /\ Sleep("ip")
  /\ seen' = {}
  /\ UNCHANGED <<age, calm, owed, vpnVars, warmVars>>

\* Mutant of IpDone: the event is cleared when the check ends.
IpDoneClearsTrigger ==
  /\ IpEnds
  /\ trigger' = FALSE
  /\ stored' \in seen
  /\ UNCHANGED <<settled, lone>>

\* A service answered, with an address the machine had while it was asked.
IpDone ==
  /\ IpEnds
  /\ stored' \in seen
  /\ UNCHANGED <<trigger, settled, lone>>

\* No service answered, and that is stored, or the check raised and nothing is.
IpFails ==
  /\ IpEnds
  /\ stored' \in {None, stored}
  /\ settled' = 0
  /\ lone' = FALSE
  /\ UNCHANGED trigger

\* A wait returns.
Wake(l) ==
  /\ pc[l] = "wait"
  /\ Due(l)
  /\ pc' = [pc EXCEPT ![l] = "top"]
  /\ left' = [left EXCEPT ![l] = 0]
  /\ UNCHANGED <<phase, shutdown, vpnUp, age, calm, sinceStop, ipVars, vpnVars, warmVars>>

\* The purge loop waits first and purges (StateTable's PurgeOld) when it wakes.
PurgeSleep ==
  /\ Top("purge")
  /\ Sleep("purge")
  /\ UNCHANGED <<age, calm, ipVars, vpnVars, warmVars>>

Return(l) ==
  /\ phase = "running"
  /\ pc[l] = "top"
  /\ shutdown
  /\ pc' = [pc EXCEPT ![l] = "done"]
  /\ UNCHANGED <<phase, shutdown, left, vpnUp, age, calm, sinceStop, ipVars, vpnVars, warmVars>>

\* Mutant of Finish: the finally clause forgets the session.
FinishKeepsSession ==
  /\ phase = "running"
  /\ \A l \in Loops : pc[l] = "done"
  /\ live' = live
  /\ Off

\* The TaskGroup ends; the finally clause closes the session and unlinks the
\* pid file.
Finish ==
  /\ phase = "running"
  /\ \A l \in Loops : pc[l] = "done"
  /\ live' = IF session = "none" THEN live ELSE live - 1
  /\ Off

\* SIGKILL, a crash of the interpreter, a power cut: the kernel closes the
\* sockets.
Kill ==
  /\ phase = "running"
  /\ live' = 0
  /\ Off

VpnFlips ==
  /\ "vpn" \in Loops
  /\ vpnUp' = 1 - vpnUp
  /\ calm' = 0
  /\ settled' = 0
  /\ lone' = (calm = CalmBound)
  /\ seen' = IF seen = {} THEN {} ELSE seen \cup {vpnUp'}
  /\ UNCHANGED <<phase, shutdown, pc, left, age, sinceStop, trigger, owed, stored,
                 vpnVars, warmVars>>

\* Time passes when no loop has anything to do at this instant.
Idle(l) ==
  \/ pc[l] = "done"
  \/ pc[l] = "check" /\ left[l] > 0
  \/ pc[l] = "wait" /\ ~Due(l)

Aged(a, bound) == IF a = None THEN None ELSE Capped(a + 1, bound)

Tick ==
  /\ phase = "running"
  /\ \A l \in Loops : Idle(l)
  /\ \E l \in Loops : pc[l] # "done"
  /\ left' = [l \in Loops |-> IF pc[l] = "done" THEN left[l] ELSE left[l] - 1]
  /\ age' = [l \in Monitored |-> Aged(age[l], Stale[l] + 1)]
  /\ owed' = IF "ip" \in Loops THEN Aged(owed, Interval["ip"]) ELSE owed
  /\ calm' = Capped(calm + 1, CalmBound)
  /\ settled' = Capped(settled + 1, SettledBound)
  /\ sinceStop' = IF shutdown THEN sinceStop + 1 ELSE 0
  /\ UNCHANGED <<phase, shutdown, trigger, stored, seen, lone, pc, vpnUp, vpnVars, warmVars>>

System ==
  \/ \E l \in Loops \cap {"cold", "dns"} : PlainStart(l) \/ PlainDone(l)
  \/ "warm" \in Loops /\ (WarmStart \/ WarmDone \/ WarmFails)
  \/ "vpn" \in Loops /\ (VpnStart \/ VpnDone \/ VpnFails)
  \/ "ip" \in Loops /\ (IpStart \/ IpDone \/ IpFails)
  \/ "purge" \in Loops /\ PurgeSleep
  \/ \E l \in Loops : Wake(l) \/ Return(l)
  \/ Finish
  \/ Tick

Next == System \/ Start \/ Signal \/ Kill \/ VpnFlips

Spec == Init /\ [][Next]_vars

\* The event loop runs what is ready and time goes on; nobody has to start the
\* daemon, signal it or kill it.
FairSpec == Spec /\ WF_vars(System)

--------------------------------------------------------------------------------
TypeOK ==
  /\ phase \in {"down", "running"}
  /\ shutdown \in BOOLEAN /\ trigger \in BOOLEAN
  /\ pc \in [Loops -> {"top", "check", "wait", "done"}]
  /\ left \in [Loops -> Nat]
  /\ prev \in Bool /\ sample \in Bool /\ vpnUp \in {0, 1}
  /\ session \in {"none", "open", "failed", "half_closed"}
  /\ live \in 0 .. 1
  /\ age \in [Monitored -> Int] /\ \A l \in Monitored : age[l] \in None .. Stale[l] + 1
  /\ owed \in Int /\ owed >= None
  /\ calm \in 0 .. CalmBound
  /\ stored \in Bool /\ seen \subseteq {0, 1}
  /\ settled \in 0 .. SettledBound /\ lone \in BOOLEAN
  /\ sinceStop \in Nat

\* A change the VPN loop noticed is followed by a whole IP check, begun after
\* it, as soon as the check then in flight (if any) has ended: the event is not
\* lost to a check that started too early to see the new address.
PromptIpCheck ==
  phase = "running" /\ ~shutdown /\ "ip" \in Loops => owed <= MaxCheck["ip"]

\* While no insert fails, the displays never take a working daemon's rows for
\* stale: the interval is waited after the check, and a check that times out
\* still writes its row in time.
NeverFalselyStale ==
  phase = "running" /\ ~shutdown => \A l \in Monitored : age[l] <= Stale[l]

\* prev_active, and with it the last VPN row, agrees with the machine once the
\* tunnel has been left alone for a wait and two checks, whatever the failed
\* checks before that.
VpnFollowed ==
  phase = "running" /\ ~shutdown /\ "vpn" \in Loops /\ calm = CalmBound
    => prev = vpnUp

\* The newest IP row has the machine's address once the tunnel has been left
\* alone, and no IP check has failed, for a wait and two checks: whatever the
\* VPN loop noticed or missed (a tunnel down and up again between two of its
\* checks), whatever checks failed before, with the event consumed or not.
StoredFollows ==
  phase = "running" /\ ~shutdown /\ "ip" \in Loops /\ settled = SettledBound
    => stored = vpnUp

\* After a change that meets a settled daemon the row follows without waiting
\* for ip_interval: a wait and two checks of the VPN loop and two IP checks
\* suffice, if none of them fails and the tunnel stays as it is.
StoredFollowsPromptly ==
  phase = "running" /\ ~shutdown /\ {"ip", "vpn"} \subseteq Loops
    /\ lone /\ settled >= CalmBound + 2 * MaxCheck["ip"]
    => stored = vpnUp

\* After the signal the daemon lives no longer than one check: no wait is sat
\* out and no check begins.
DrainBounded ==
  phase = "running" => sinceStop = 0 \/ \E l \in Probes : sinceStop <= MaxCheck[l]

\* _warm_latency_session is the only session the daemon holds, at every point
\* of creation, healing and clean-up, and none outlives run_daemon.
SessionOwned ==
  /\ live = (IF session = "none" THEN 0 ELSE 1)
  /\ phase = "down" => live = 0

\* docs/probes.md:37, "On sustained failure the session is automatically
\* recreated": the warm loop does not stay for ever with a session that no
\* endpoint answers, unless its checks raise again and again.
SessionHeals == []<><<WarmFails>>_vars \/ []<>(session \in {"none", "open"})

\* SIGTERM ends the daemon.
StopTerminates == shutdown ~> phase = "down"

\* No failure stops a loop: a daemon left running checks for ever.
KeepsProbing ==
  \A l \in Probes :
    <>[](phase = "running" /\ ~shutdown) => []<>(pc[l] = "check")

================================================================================

------------------------------ MODULE DaemonProofs -----------------------------
(***************************************************************************)
(* The safety properties of probed, for every set of loops, interval,      *)
(* check duration and threshold.                                           *)
(***************************************************************************)
EXTENDS Daemon, TLAPS

\* Phases and timers: a dead process has no state, only the signal ends a loop,
\* and no timer exceeds what it was set to.
Control ==
  /\ phase = "down" =>
       /\ ~shutdown /\ calm = 0 /\ owed = None /\ sinceStop = 0 /\ session = "none"
       /\ settled = 0 /\ seen = {}
       /\ \A l \in Loops : pc[l] = "done"
       /\ \A l \in Monitored : age[l] = 0
  /\ phase = "running" /\ ~shutdown => \A l \in Loops : pc[l] # "done"
  /\ \A l \in Loops : pc[l] = "check" => l \in Probes /\ left[l] <= MaxCheck[l]
  /\ \A l \in Loops : pc[l] = "wait" => left[l] <= Interval[l]

\* The time spent since the signal is part of the checks still in flight.
Drain ==
  /\ ~shutdown => sinceStop = 0
  /\ shutdown => \A l \in Probes : pc[l] = "check" => sinceStop + left[l] <= MaxCheck[l]
  /\ sinceStop = 0 \/ \E l \in Probes : sinceStop <= MaxCheck[l]

\* A running warm check has a session, so closing it is never closing nothing.
Session ==
  /\ SessionOwned
  /\ "warm" \in Loops => (pc["warm"] = "check" => session # "none")

\* How old a row can be at each point of its loop's cycle.
Ageing ==
  ~shutdown => \A l \in Monitored :
    /\ pc[l] = "check" => age[l] + left[l] <= Interval[l] + MaxCheck[l]
    /\ pc[l] = "wait" => age[l] = None \/ age[l] + left[l] <= Interval[l]
    /\ pc[l] = "top" => age[l] <= Interval[l]

\* A change no IP check has followed is still announced by the event, and cannot
\* be older than the part of the check in flight that has been spent.
Prompt ==
  ~shutdown /\ "ip" \in Loops /\ owed # None =>
    /\ trigger
    /\ owed <= MaxCheck["ip"]
    /\ pc["ip"] = "check" => owed + left["ip"] <= MaxCheck["ip"]

\* How long prev_active may disagree with the tunnel at each point of the cycle.
Follow ==
  ~shutdown /\ "vpn" \in Loops =>
    LET M == MaxCheck["vpn"]
        I == Interval["vpn"]
    IN  /\ pc["vpn"] = "check" => sample # None
        /\ pc["vpn"] = "check" /\ sample # vpnUp => calm + left["vpn"] <= M
        /\ pc["vpn"] = "check" => prev = vpnUp \/ sample # vpnUp \/ calm + left["vpn"] <= M + I + M
        /\ pc["vpn"] = "wait" => prev = vpnUp \/ calm + left["vpn"] <= M + I
        /\ pc["vpn"] = "top" => prev = vpnUp \/ calm <= M + I

\* How long the newest IP row may disagree with the machine at each point.
Settle ==
  ~shutdown /\ "ip" \in Loops =>
    LET M == MaxCheck["ip"]
        I == Interval["ip"]
    IN  /\ pc["ip"] # "check" => seen = {}
        /\ pc["ip"] = "check" => vpnUp \in seen
        /\ pc["ip"] = "check" => seen = {vpnUp} \/ settled + left["ip"] <= M
        /\ pc["ip"] = "check" => stored = vpnUp \/ settled + left["ip"] <= M + I + M
        /\ pc["ip"] = "wait" => stored = vpnUp \/ settled + left["ip"] <= M + I
        /\ pc["ip"] = "top" => stored = vpnUp \/ settled <= M + I

\* Where a change that met a settled daemon is on its way to the newest IP row:
\* announced by the event while an older check may still run; being asked for by
\* a check that saw nothing else; stored, and what is asked can only confirm it.
Announced ==
  /\ trigger
  /\ settled + (IF pc["ip"] = "check" THEN left["ip"] ELSE 0) < CalmBound + MaxCheck["ip"]
Asked ==
  /\ pc["ip"] = "check" /\ seen = {vpnUp}
  /\ settled + left["ip"] < CalmBound + 2 * MaxCheck["ip"]
Confirmed ==
  /\ stored = vpnUp
  /\ pc["ip"] = "check" => seen = {vpnUp}

\* After such a change prev_active is the old state until the VPN loop notices,
\* and from then on the change is on its way.
Promptly ==
  ~shutdown /\ {"ip", "vpn"} \subseteq Loops /\ lone =>
    /\ settled <= calm \/ calm = CalmBound
    /\ prev # None
    /\ pc["vpn"] = "check" /\ prev = vpnUp => sample = vpnUp
    /\ prev = vpnUp => Announced \/ Asked \/ Confirmed

IInv ==
  TypeOK /\ Control /\ Drain /\ Session /\ Ageing /\ Prompt /\ Follow /\ Settle /\ Promptly


\* None is a number below every age.
LEMMA NoneType == None \in Int /\ None = 0 - 1
BY DEF None

\* The cap of settled is a number.
LEMMA SettledBoundType == SettledBound \in Nat
BY DaemonAssumption DEF SettledBound, Probes

\* The invariant is preserved part by part; the actions that leave a part's
\* variables alone are taken together.
LEMMA TypeOKStep == IInv /\ [Next]_vars => TypeOK'
PROOF
  <1> SUFFICES ASSUME IInv, [Next]_vars PROVE TypeOK'
    OBVIOUS
  <1> USE DaemonAssumption, NoneType, SettledBoundType DEF IInv, TypeOK, Control,
              Probes, Monitored, AllLoops, ipVars, vpnVars, warmVars, Session,
              SessionOwned, CalmBound, Bool
  <1>1. CASE \E l \in Loops \cap {"cold", "dns"} : PlainStart(l)
    BY <1>1 DEF PlainStart, Enter, Top
  <1>2. CASE "warm" \in Loops /\ WarmStart
    BY <1>2 DEF WarmStart, Enter, Top
  <1>3. CASE "vpn" \in Loops /\ VpnStart
    BY <1>3 DEF VpnStart, Enter, Top
  <1>4. CASE "ip" \in Loops /\ IpStart
    <2>1. trigger' \in BOOLEAN /\ seen' \subseteq {0, 1}
      BY <1>4 DEF IpStart
    <2> QED BY <2>1, <1>4 DEF IpStart, Enter, Top
  <1>5. CASE \E l \in Loops \cap {"cold", "dns"} : PlainDone(l)
    BY <1>5 DEF PlainDone, Sleep, Stored, NotStored
  <1>6. CASE "warm" \in Loops /\ WarmDone
    BY <1>6 DEF WarmDone, Sleep, Stored
  <1>7. CASE "warm" \in Loops /\ WarmFails
    BY <1>7 DEF WarmFails, Sleep, Stored, NotStored
  <1>8. CASE \/ "vpn" \in Loops /\ VpnDone
             \/ "vpn" \in Loops /\ VpnFails
    <2>1. trigger' \in BOOLEAN /\ lone' \in BOOLEAN
      BY <1>8 DEF VpnDone, VpnFails
    <2>2. stored' = stored /\ seen' = seen /\ settled' = settled
      BY <1>8 DEF VpnDone, VpnFails
    <2> QED BY <2>1, <2>2, <1>8 DEF VpnDone, Sleep, VpnFails
  <1>13. CASE \/ "ip" \in Loops /\ IpDone
              \/ "ip" \in Loops /\ IpFails
    <2>1. trigger' \in BOOLEAN /\ lone' \in BOOLEAN
      BY <1>13 DEF IpDone, IpFails
    <2>2. stored' \in Bool /\ seen' = {}
      BY <1>13 DEF IpDone, IpFails, IpEnds
    <2>3. settled' \in {0, settled}
      BY <1>13 DEF IpDone, IpFails
    <2> QED BY <2>1, <2>2, <2>3, <1>13 DEF IpDone, IpFails, IpEnds, Sleep
  <1>9. CASE \/ "purge" \in Loops /\ PurgeSleep
             \/ \E l \in Loops : Wake(l)
             \/ \E l \in Loops : Return(l)
    <2>1. UNCHANGED <<trigger, shutdown, stored, seen, settled, lone>>
      BY <1>9 DEF PurgeSleep, Sleep, Wake, Return
    <2> QED BY <2>1, <1>9 DEF PurgeSleep, Top, Sleep, Wake, Due, Return
  <1>10. CASE \/ Finish
              \/ Kill
    <2>1. trigger' \in BOOLEAN /\ shutdown' \in BOOLEAN /\ lone' \in BOOLEAN
      BY <1>10 DEF Finish, Kill, Off
    <2>2. live' \in 0 .. 1
      BY <1>10 DEF Finish, Kill, Off
    <2>3. settled' = 0 /\ seen' = {} /\ stored' = stored
      BY <1>10 DEF Finish, Kill, Off
    <2> QED BY <2>1, <2>2, <2>3, <1>10 DEF Finish, Kill, Off
  <1>11. CASE \/ Start
              \/ Signal
              \/ VpnFlips
              \/ UNCHANGED vars
    <2>1. trigger' \in BOOLEAN /\ shutdown' \in BOOLEAN /\ lone' \in BOOLEAN
      BY <1>11 DEF Start, Signal, VpnFlips, vars
    <2>2. settled' \in {0, settled}
      BY <1>11 DEF Start, Signal, VpnFlips, vars
    <2>3. vpnUp' \in {0, 1}
      BY <1>11 DEF Start, Signal, VpnFlips, vars
    <2>4. seen' \in {{}, seen, seen \cup {vpnUp'}}
      BY <1>11 DEF Start, Signal, VpnFlips, vars
    <2>5. seen' \subseteq {0, 1}
      BY <2>3, <2>4
    <2>6. settled' \in 0 .. SettledBound
      BY <2>2
    <2>7. stored' = stored
      BY <1>11 DEF Start, Signal, VpnFlips, vars
    <2> QED BY <2>1, <2>3, <2>5, <2>6, <2>7, <1>11 DEF Start, Signal, VpnFlips, vars
  <1>12. CASE Tick
    BY <1>12 DEF Tick, Idle, Due, Aged, Capped
  <1> HIDE DEF IInv, TypeOK, Control, Probes, Monitored, AllLoops, ipVars,
              vpnVars, warmVars, Session, SessionOwned, CalmBound, Bool
  <1> QED BY <1>1, <1>2, <1>3, <1>4, <1>5, <1>6, <1>7, <1>8, <1>9, <1>10, <1>11,
      <1>12, <1>13 DEF Next, System

\* Loops move through their cycle, timers run down.
LEMMA ControlStep == IInv /\ [Next]_vars => Control'
PROOF
  <1> SUFFICES ASSUME IInv, [Next]_vars PROVE Control'
    OBVIOUS
  <1> USE DaemonAssumption, NoneType DEF IInv, TypeOK, Control, Probes,
              Monitored, AllLoops, ipVars, vpnVars, warmVars
  <1>1. CASE \/ \E l \in Loops \cap {"cold", "dns"} : PlainStart(l)
             \/ "warm" \in Loops /\ WarmStart
             \/ "vpn" \in Loops /\ VpnStart
             \/ "ip" \in Loops /\ IpStart
    BY <1>1 DEF PlainStart, Enter, Top, WarmStart, VpnStart, IpStart
  <1>2. CASE \/ \E l \in Loops \cap {"cold", "dns"} : PlainDone(l)
             \/ "warm" \in Loops /\ WarmDone
             \/ "warm" \in Loops /\ WarmFails
             \/ "vpn" \in Loops /\ VpnDone
             \/ "vpn" \in Loops /\ VpnFails
             \/ "ip" \in Loops /\ IpDone
             \/ "ip" \in Loops /\ IpFails
    BY <1>2 DEF PlainDone, Sleep, Stored, NotStored, WarmDone, WarmFails,
      VpnDone, VpnFails, IpDone, IpFails, IpEnds
  <1>3. CASE \/ "purge" \in Loops /\ PurgeSleep
             \/ \E l \in Loops : Wake(l)
             \/ \E l \in Loops : Return(l)
    BY <1>3 DEF PurgeSleep, Top, Sleep, Wake, Due, Return
  <1>4. CASE \/ Finish
             \/ Kill
    BY <1>4 DEF Finish, Off, Kill
  <1>5. CASE \/ Start
             \/ Signal
             \/ UNCHANGED vars
    <2>1. UNCHANGED <<seen, settled, calm, owed, sinceStop, session, left, age>>
      BY <1>5 DEF Start, Signal, vars
    <2> QED BY <2>1, <1>5 DEF Start, Signal, vars
  <1>7. CASE VpnFlips
    <2>1. seen = {} => seen' = {}
      BY <1>7 DEF VpnFlips
    <2> QED BY <2>1, <1>7 DEF VpnFlips
  <1>6. CASE Tick
    BY <1>6 DEF Tick, Idle, Due, Aged, Capped
  <1> HIDE DEF IInv, TypeOK, Control, Probes, Monitored, AllLoops, ipVars,
              vpnVars, warmVars
  <1> QED BY <1>1, <1>2, <1>3, <1>4, <1>5, <1>6, <1>7 DEF Next, System

\* The clock runs after the signal only while a check does.
LEMMA DrainStep == IInv /\ [Next]_vars => Drain'
PROOF
  <1> SUFFICES ASSUME IInv, [Next]_vars PROVE Drain'
    OBVIOUS
  <1> USE DaemonAssumption, NoneType DEF IInv, TypeOK, Control, Probes,
              Monitored, AllLoops, ipVars, vpnVars, warmVars, Drain
  <1>1. CASE \/ \E l \in Loops \cap {"cold", "dns"} : PlainStart(l)
             \/ "warm" \in Loops /\ WarmStart
             \/ "vpn" \in Loops /\ VpnStart
             \/ "ip" \in Loops /\ IpStart
    BY <1>1 DEF PlainStart, Enter, Top, WarmStart, VpnStart, IpStart
  <1>2. CASE \/ \E l \in Loops \cap {"cold", "dns"} : PlainDone(l)
             \/ "warm" \in Loops /\ WarmDone
             \/ "warm" \in Loops /\ WarmFails
             \/ "vpn" \in Loops /\ VpnDone
             \/ "vpn" \in Loops /\ VpnFails
             \/ "ip" \in Loops /\ IpDone
             \/ "ip" \in Loops /\ IpFails
    BY <1>2 DEF PlainDone, Sleep, Stored, NotStored, WarmDone, WarmFails,
      VpnDone, VpnFails, IpDone, IpFails, IpEnds
  <1>3. CASE \/ "purge" \in Loops /\ PurgeSleep
             \/ \E l \in Loops : Wake(l)
             \/ \E l \in Loops : Return(l)
    BY <1>3 DEF PurgeSleep, Top, Sleep, Wake, Due, Return
  <1>4. CASE \/ Finish
             \/ Kill
    BY <1>4 DEF Finish, Off, Kill
  <1>5. CASE \/ Start
             \/ Signal
             \/ VpnFlips
             \/ UNCHANGED vars
    BY <1>5 DEF Start, Signal, VpnFlips, vars
  <1>6. CASE Tick
    BY <1>6 DEF Tick, Idle, Due, Aged, Capped
  <1> HIDE DEF IInv, TypeOK, Control, Probes, Monitored, AllLoops, ipVars,
              vpnVars, warmVars, Drain
  <1> QED BY <1>1, <1>2, <1>3, <1>4, <1>5, <1>6 DEF Next, System

\* Creation, healing, failed inserts and clean-up agree on the session.
LEMMA SessionStep == IInv /\ [Next]_vars => Session'
PROOF
  <1> SUFFICES ASSUME IInv, [Next]_vars PROVE Session'
    OBVIOUS
  <1> USE DaemonAssumption, NoneType DEF IInv, TypeOK, Control, Probes,
              Monitored, AllLoops, ipVars, vpnVars, warmVars, Session,
              SessionOwned
  <1>1. CASE "warm" \in Loops /\ WarmStart
    BY <1>1 DEF WarmStart, Enter, Top
  <1>2. CASE \/ "warm" \in Loops /\ WarmDone
             \/ "warm" \in Loops /\ WarmFails
    BY <1>2 DEF WarmDone, Sleep, Stored, WarmFails, NotStored
  <1>3. CASE \/ Finish
             \/ Kill
    BY <1>3 DEF Finish, Off, Kill
  <1>4. CASE \/ \E l \in Loops \cap {"cold", "dns"} : PlainStart(l)
             \/ "vpn" \in Loops /\ VpnStart
             \/ "ip" \in Loops /\ IpStart
             \/ \E l \in Loops \cap {"cold", "dns"} : PlainDone(l)
             \/ "vpn" \in Loops /\ VpnDone
             \/ "vpn" \in Loops /\ VpnFails
             \/ "ip" \in Loops /\ IpDone
             \/ "ip" \in Loops /\ IpFails
             \/ "purge" \in Loops /\ PurgeSleep
             \/ \E l \in Loops : Wake(l)
             \/ \E l \in Loops : Return(l)
             \/ Start
             \/ Signal
             \/ VpnFlips
             \/ UNCHANGED vars
             \/ Tick
    BY <1>4 DEF PlainStart, Enter, Top, VpnStart, IpStart, PlainDone, Sleep,
      Stored, NotStored, VpnDone, VpnFails, IpDone, IpFails, IpEnds, PurgeSleep, Wake, Due,
      Return, Start, Signal, VpnFlips, vars, Tick, Idle, Aged, Capped
  <1> HIDE DEF IInv, TypeOK, Control, Probes, Monitored, AllLoops, ipVars,
              vpnVars, warmVars, Session, SessionOwned
  <1> QED BY <1>1, <1>2, <1>3, <1>4 DEF Next, System

\* A row is a wait and a check old at most.
LEMMA AgeingStep == IInv /\ [Next]_vars => Ageing'
PROOF
  <1> SUFFICES ASSUME IInv, [Next]_vars PROVE Ageing'
    OBVIOUS
  <1> USE DaemonAssumption, NoneType DEF IInv, TypeOK, Control, Probes,
              Monitored, AllLoops, ipVars, vpnVars, warmVars, Ageing
  <1>1. CASE \/ \E l \in Loops \cap {"cold", "dns"} : PlainStart(l)
             \/ "warm" \in Loops /\ WarmStart
             \/ "vpn" \in Loops /\ VpnStart
             \/ "ip" \in Loops /\ IpStart
    BY <1>1 DEF PlainStart, Enter, Top, WarmStart, VpnStart, IpStart
  <1>2. CASE \/ \E l \in Loops \cap {"cold", "dns"} : PlainDone(l)
             \/ "warm" \in Loops /\ WarmDone
             \/ "warm" \in Loops /\ WarmFails
             \/ "vpn" \in Loops /\ VpnDone
             \/ "vpn" \in Loops /\ VpnFails
             \/ "ip" \in Loops /\ IpDone
             \/ "ip" \in Loops /\ IpFails
    BY <1>2 DEF PlainDone, Sleep, Stored, NotStored, WarmDone, WarmFails,
      VpnDone, VpnFails, IpDone, IpFails, IpEnds
  <1>3. CASE \/ "purge" \in Loops /\ PurgeSleep
             \/ \E l \in Loops : Wake(l)
             \/ \E l \in Loops : Return(l)
    BY <1>3 DEF PurgeSleep, Top, Sleep, Wake, Due, Return
  <1>4. CASE \/ Finish
             \/ Kill
    BY <1>4 DEF Finish, Off, Kill
  <1>5. CASE \/ Start
             \/ Signal
             \/ VpnFlips
             \/ UNCHANGED vars
    BY <1>5 DEF Start, Signal, VpnFlips, vars
  <1>6. CASE Tick
    BY <1>6 DEF Tick, Idle, Due, Aged, Capped
  <1> HIDE DEF IInv, TypeOK, Control, Probes, Monitored, AllLoops, ipVars,
              vpnVars, warmVars, Ageing
  <1> QED BY <1>1, <1>2, <1>3, <1>4, <1>5, <1>6 DEF Next, System

\* The event is cleared before the check, so a later change sets it again.
LEMMA PromptStep == IInv /\ [Next]_vars => Prompt'
PROOF
  <1> SUFFICES ASSUME IInv, [Next]_vars PROVE Prompt'
    OBVIOUS
  <1> USE DaemonAssumption, NoneType DEF IInv, TypeOK, Control, Probes,
              Monitored, AllLoops, ipVars, vpnVars, warmVars, Prompt
  <1>1. CASE "ip" \in Loops /\ IpStart
    BY <1>1 DEF IpStart, Enter, Top
  <1>2. CASE "ip" \in Loops /\ (IpDone \/ IpFails)
    BY <1>2 DEF IpDone, IpFails, IpEnds, Sleep
  <1>3. CASE "vpn" \in Loops /\ VpnDone
    <2>1. trigger \/ (prev # None /\ sample # prev) => trigger'
      BY <1>3 DEF VpnDone
    <2>2. shutdown' = shutdown /\ pc["ip"]' = pc["ip"] /\ left["ip"]' = left["ip"]
      BY <1>3 DEF VpnDone, Sleep
    <2>3. \/ owed' = owed
          \/ owed' = 0 /\ (prev # None /\ sample # prev)
      BY <1>3 DEF VpnDone
    <2> QED BY <2>1, <2>2, <2>3
  <1>4. CASE \/ \E l \in Loops \cap {"cold", "dns"} : PlainStart(l)
             \/ "warm" \in Loops /\ WarmStart
             \/ "vpn" \in Loops /\ VpnStart
             \/ \E l \in Loops \cap {"cold", "dns"} : PlainDone(l)
             \/ "warm" \in Loops /\ WarmDone
             \/ "warm" \in Loops /\ WarmFails
             \/ "vpn" \in Loops /\ VpnFails
             \/ "purge" \in Loops /\ PurgeSleep
             \/ \E l \in Loops : Wake(l)
             \/ \E l \in Loops : Return(l)
    BY <1>4 DEF PlainStart, Enter, Top, WarmStart, VpnStart, PlainDone, Sleep,
      Stored, NotStored, WarmDone, WarmFails, VpnFails, PurgeSleep, Wake, Due,
      Return
  <1>5. CASE \/ Finish
             \/ Kill
    BY <1>5 DEF Finish, Off, Kill
  <1>6. CASE \/ Start
             \/ Signal
             \/ VpnFlips
             \/ UNCHANGED vars
    BY <1>6 DEF Start, Signal, VpnFlips, vars
  <1>7. CASE Tick
    BY <1>7 DEF Tick, Idle, Due, Aged, Capped
  <1> HIDE DEF IInv, TypeOK, Control, Probes, Monitored, AllLoops, ipVars,
              vpnVars, warmVars, Prompt
  <1> QED BY <1>1, <1>2, <1>3, <1>4, <1>5, <1>6, <1>7 DEF Next, System

\* A sample is at most one check old when it is used.
LEMMA FollowStep == IInv /\ [Next]_vars => Follow'
PROOF
  <1> SUFFICES ASSUME IInv, [Next]_vars PROVE Follow'
    OBVIOUS
  <1> USE DaemonAssumption, NoneType DEF IInv, TypeOK, Control, Probes,
              Monitored, AllLoops, ipVars, vpnVars, warmVars, Follow, CalmBound
  <1>1. CASE "vpn" \in Loops /\ VpnStart
    BY <1>1 DEF VpnStart, Enter, Top
  <1>2. CASE \/ "vpn" \in Loops /\ VpnDone
             \/ "vpn" \in Loops /\ VpnFails
    BY <1>2 DEF VpnDone, Sleep, VpnFails
  <1>3. CASE \/ \E l \in Loops \cap {"cold", "dns"} : PlainStart(l)
             \/ "warm" \in Loops /\ WarmStart
             \/ "ip" \in Loops /\ IpStart
             \/ \E l \in Loops \cap {"cold", "dns"} : PlainDone(l)
             \/ "warm" \in Loops /\ WarmDone
             \/ "warm" \in Loops /\ WarmFails
             \/ "ip" \in Loops /\ IpDone
             \/ "ip" \in Loops /\ IpFails
             \/ "purge" \in Loops /\ PurgeSleep
             \/ \E l \in Loops : Wake(l)
             \/ \E l \in Loops : Return(l)
    BY <1>3 DEF PlainStart, Enter, Top, WarmStart, IpStart, PlainDone, Sleep,
      Stored, NotStored, WarmDone, WarmFails, IpDone, IpFails, IpEnds, PurgeSleep, Wake, Due,
      Return
  <1>4. CASE \/ Finish
             \/ Kill
    BY <1>4 DEF Finish, Off, Kill
  <1>5. CASE \/ Start
             \/ Signal
             \/ VpnFlips
             \/ UNCHANGED vars
    BY <1>5 DEF Start, Signal, VpnFlips, vars
  <1>6. CASE Tick
    BY <1>6 DEF Tick, Idle, Due, Aged, Capped
  <1> HIDE DEF IInv, TypeOK, Control, Probes, Monitored, AllLoops, ipVars,
              vpnVars, warmVars, Follow, CalmBound
  <1> QED BY <1>1, <1>2, <1>3, <1>4, <1>5, <1>6 DEF Next, System

\* An address is at most one check old when it is stored.
LEMMA SettleStep == IInv /\ [Next]_vars => Settle'
PROOF
  <1> SUFFICES ASSUME IInv, [Next]_vars PROVE Settle'
    OBVIOUS
  <1> USE DaemonAssumption, NoneType, SettledBoundType DEF IInv, TypeOK, Control,
              Probes, Monitored, AllLoops, ipVars, vpnVars, warmVars, Settle
  <1>1. CASE "ip" \in Loops /\ IpStart
    BY <1>1 DEF IpStart, Enter, Top
  <1>2. CASE "ip" \in Loops /\ (IpDone \/ IpFails)
    BY <1>2 DEF IpDone, IpFails, IpEnds, Sleep
  <1>3. CASE \/ \E l \in Loops \cap {"cold", "dns"} : PlainStart(l)
             \/ "warm" \in Loops /\ WarmStart
             \/ "vpn" \in Loops /\ VpnStart
             \/ \E l \in Loops \cap {"cold", "dns"} : PlainDone(l)
             \/ "warm" \in Loops /\ WarmDone
             \/ "warm" \in Loops /\ WarmFails
             \/ "vpn" \in Loops /\ VpnDone
             \/ "vpn" \in Loops /\ VpnFails
             \/ "purge" \in Loops /\ PurgeSleep
             \/ \E l \in Loops : Wake(l)
             \/ \E l \in Loops : Return(l)
    <2>1. UNCHANGED <<stored, seen, settled, vpnUp, shutdown>>
      BY <1>3 DEF PlainStart, Enter, WarmStart, VpnStart, PlainDone, Sleep, WarmDone,
        WarmFails, VpnDone, VpnFails, PurgeSleep, Wake, Return
    <2>2. "ip" \in Loops =>
            \/ pc'["ip"] = pc["ip"] /\ left'["ip"] = left["ip"]
            \/ pc["ip"] = "wait" /\ pc'["ip"] = "top"
            \/ shutdown
      BY <1>3 DEF PlainStart, Enter, WarmStart, VpnStart, PlainDone, Sleep, WarmDone,
        WarmFails, VpnDone, VpnFails, PurgeSleep, Wake, Return
    <2> QED BY <2>1, <2>2
  <1>4. CASE Finish \/ Kill
    BY <1>4 DEF Finish, Off, Kill
  <1>5. CASE \/ Start
             \/ Signal
             \/ UNCHANGED vars
    <2>1. UNCHANGED <<stored, seen, settled, vpnUp, left>>
      BY <1>5 DEF Start, Signal, vars
    <2>2. CASE Start
      BY <2>1, <2>2 DEF Start
    <2>3. CASE Signal \/ UNCHANGED vars
      BY <2>1, <2>3 DEF Signal, vars
    <2> QED BY <1>5, <2>2, <2>3
  <1>6. CASE VpnFlips
    BY <1>6 DEF VpnFlips
  <1>7. CASE Tick
    BY <1>7 DEF Tick, Idle, Due, Aged, Capped, SettledBound
  <1> HIDE DEF IInv, TypeOK, Control, Probes, Monitored, AllLoops, ipVars,
              vpnVars, warmVars, Settle
  <1> QED BY <1>1, <1>2, <1>3, <1>4, <1>5, <1>6, <1>7 DEF Next, System

\* Follow leaves no room for a disagreement once calm has run its course.
LEMMA VpnIsFollowed == IInv => VpnFollowed
BY DaemonAssumption
DEF IInv, TypeOK, Control, Follow, VpnFollowed, CalmBound, Probes, AllLoops

\* From the flip that met a settled daemon to the row: prev_active changes once,
\* the event is set then and cleared by a check that begins after the change.
LEMMA PromptlyStep == IInv /\ [Next]_vars => Promptly'
PROOF
  <1> SUFFICES ASSUME IInv, [Next]_vars, ~shutdown', "ip" \in Loops, "vpn" \in Loops, lone'
               PROVE  /\ settled' <= calm' \/ calm' = CalmBound
                      /\ prev' # None
                      /\ pc'["vpn"] = "check" /\ prev' = vpnUp' => sample' = vpnUp'
                      /\ prev' = vpnUp' => Announced' \/ Asked' \/ Confirmed'
    BY DEF Promptly, CalmBound
  <1> DEFINE M == MaxCheck["ip"]
             V == MaxCheck["vpn"]
             I == Interval["vpn"]
  <1>a. M \in Nat /\ V \in Nat /\ I \in Nat \ {0} /\ CalmBound = I + 2 * V + 1
    BY DaemonAssumption DEF CalmBound, Probes
  <1>b. /\ trigger \in BOOLEAN /\ pc \in [Loops -> {"top", "check", "wait", "done"}]
        /\ left \in [Loops -> Nat] /\ prev \in {None, 0, 1} /\ sample \in {None, 0, 1}
        /\ vpnUp \in {0, 1} /\ calm \in 0 .. CalmBound /\ settled \in Nat
        /\ stored \in {None, 0, 1} /\ seen \subseteq {0, 1} /\ None = 0 - 1
    BY NoneType, SettledBoundType DEF IInv, TypeOK, Bool
  <1>c. ~shutdown /\ lone =>
          /\ settled <= calm \/ calm = CalmBound
          /\ prev # None
          /\ pc["vpn"] = "check" /\ prev = vpnUp => sample = vpnUp
          /\ prev = vpnUp => Announced \/ Asked \/ Confirmed
    BY DEF IInv, Promptly
  <1> HIDE DEF M, V, I
  <1>1. CASE VpnStart
    BY <1>1, <1>a, <1>b, <1>c
    DEF VpnStart, Enter, Top, ipVars, warmVars, Announced, Asked, Confirmed
  <1>2. CASE VpnDone
    <2>1. /\ ~shutdown /\ lone /\ pc["vpn"] = "check" /\ pc'["vpn"] = "wait"
          /\ pc'["ip"] = pc["ip"] /\ left'["ip"] = left["ip"]
          /\ UNCHANGED <<calm, settled, stored, seen, vpnUp>>
          /\ prev' = sample
      BY <1>2, <1>b DEF VpnDone, Sleep
    <2>2. trigger \/ sample # prev => trigger'
      BY <1>2, <1>c, <2>1 DEF VpnDone
    <2>3. sample # None
      BY <2>1 DEF IInv, Follow
    <2>4. CASE prev = vpnUp
      BY <2>1, <2>2, <2>3, <2>4, <1>c DEF Announced, Asked, Confirmed
    <2>5. CASE prev # vpnUp /\ sample = vpnUp
      <3>1. calm + left["vpn"] <= V + I + V
        BY <2>1, <2>5 DEF IInv, Follow, V, I
      <3>2. settled < CalmBound
        BY <3>1, <2>1, <1>a, <1>b, <1>c
      <3>3. pc["ip"] = "check" => left["ip"] <= M
        BY DEF IInv, Control, M
      <3>4. Announced'
        BY <3>2, <3>3, <2>1, <2>2, <2>5, <1>a, <1>b DEF Announced, M
      <3> QED BY <3>4, <2>1, <2>3, <1>c
    <2>6. CASE prev # vpnUp /\ sample # vpnUp
      BY <2>1, <2>3, <2>6, <1>c
    <2> QED BY <2>4, <2>5, <2>6
  <1>3. CASE VpnFails \/ IpFails
    BY <1>3 DEF VpnFails, IpFails
  <1>4. CASE IpStart
    BY <1>4, <1>a, <1>b, <1>c
    DEF IpStart, Enter, Top, vpnVars, warmVars, Announced, Asked, Confirmed, M
  <1>5. CASE IpDone
    BY <1>5, <1>a, <1>b, <1>c
    DEF IpDone, IpEnds, Sleep, vpnVars, warmVars, Announced, Asked, Confirmed, M
  <1>6. CASE Start \/ Finish \/ Kill
    BY <1>6, <1>a, <1>b, <1>c
    DEF Start, Finish, Kill, Off, IInv, Control, ipVars, vpnVars, warmVars, Announced, Asked, Confirmed
  <1>7. CASE \/ \E l \in Loops \cap {"cold", "dns"} : PlainStart(l) \/ PlainDone(l)
             \/ "warm" \in Loops /\ (WarmStart \/ WarmDone \/ WarmFails)
             \/ "purge" \in Loops /\ PurgeSleep
             \/ \E l \in Loops : Wake(l) \/ Return(l)
             \/ Signal
             \/ UNCHANGED vars
    <2>1. UNCHANGED <<trigger, stored, seen, settled, lone, prev, sample, vpnUp, calm>>
      BY <1>7 DEF PlainStart, PlainDone, Enter, Sleep, WarmStart, WarmDone, WarmFails,
        PurgeSleep, Wake, Return, Signal, vars, ipVars, vpnVars
    <2>2. /\ pc'["ip"] = "check" <=> pc["ip"] = "check"
          /\ pc'["ip"] = "check" => left'["ip"] = left["ip"]
          /\ pc'["vpn"] = "check" <=> pc["vpn"] = "check"
      BY <1>7, <1>b DEF PlainStart, PlainDone, Enter, Sleep, WarmStart, WarmDone, WarmFails,
        PurgeSleep, Wake, Return, Signal, vars
    <2>3. ~shutdown
      BY <1>7 DEF PlainStart, PlainDone, Enter, Sleep, WarmStart, WarmDone, WarmFails,
        PurgeSleep, Wake, Return, Signal, vars
    <2> QED BY <2>1, <2>2, <2>3, <1>b, <1>c DEF Announced, Asked, Confirmed
  <1>8. CASE VpnFlips
    <2>1. calm = CalmBound /\ settled' = 0 /\ calm' = 0 /\ ~shutdown
      BY <1>8 DEF VpnFlips
    <2>2. prev = vpnUp
      BY <2>1, <1>a, VpnIsFollowed DEF VpnFollowed, IInv, TypeOK, Control
    <2> QED BY <1>8, <2>1, <2>2, <1>b DEF VpnFlips, vpnVars
  <1>9. CASE Tick
    <2>1. ~shutdown /\ lone
      BY <1>9 DEF Tick
    <2>2. /\ UNCHANGED <<trigger, stored, seen, prev, sample, vpnUp, pc>>
          /\ settled' \in Nat /\ settled' <= settled + 1
      BY <1>9, <1>b, SettledBoundType DEF Tick, Capped, vpnVars
    <2>3. settled' <= calm' \/ calm' = CalmBound
      BY <1>9, <1>a, <1>b, <1>c, <2>1, <2>2 DEF Tick, Capped
    <2>4. pc["ip"] = "check" => left["ip"] > 0 /\ left'["ip"] = left["ip"] - 1
      BY <1>9, <1>b DEF Tick, Idle
    <2>5. trigger => pc["ip"] = "check"
      <3>1. Idle("ip") /\ phase = "running"
        BY <1>9 DEF Tick
      <3>2. pc["ip"] # "done"
        BY <2>1, <3>1 DEF IInv, Control
      <3> QED BY <3>1, <3>2 DEF Idle, Due
    <2>6. prev # None /\ (pc["vpn"] = "check" /\ prev = vpnUp => sample = vpnUp)
      BY <1>c, <2>1
    <2>7. CASE prev # vpnUp
      BY <2>2, <2>3, <2>6, <2>7
    <2>8. CASE prev = vpnUp /\ Announced
      <3>1. pc["ip"] = "check" /\ settled + left["ip"] < CalmBound + M
        BY <2>5, <2>8 DEF Announced, M
      <3>2. settled' + left'["ip"] < CalmBound + M
        BY <3>1, <2>2, <2>4, <1>a, <1>b
      <3>3. Announced'
        BY <3>1, <3>2, <2>2, <2>8 DEF Announced, M
      <3> QED BY <3>3, <2>2, <2>3, <2>6
    <2>9. CASE prev = vpnUp /\ Asked
      <3>1. settled' + left'["ip"] < CalmBound + 2 * M
        BY <2>9, <2>2, <2>4, <1>a, <1>b DEF Asked, M
      <3>2. Asked'
        BY <3>1, <2>2, <2>9 DEF Asked, M
      <3> QED BY <3>2, <2>2, <2>3, <2>6
    <2>10. CASE prev = vpnUp /\ Confirmed
      <3>1. Confirmed'
        BY <2>2, <2>10 DEF Confirmed
      <3> QED BY <3>1, <2>2, <2>3, <2>6
    <2> QED BY <1>c, <2>1, <2>7, <2>8, <2>9, <2>10
  <1> QED BY <1>1, <1>2, <1>3, <1>4, <1>5, <1>6, <1>7, <1>8, <1>9 DEF Next, System

--------------------------------------------------------------------------------
\* A daemon that has not been started satisfies the invariant.
LEMMA InitHolds == Init => IInv
PROOF
  <1> SUFFICES ASSUME Init PROVE IInv
    OBVIOUS
  <1>1. shutdown \in BOOLEAN /\ trigger \in BOOLEAN /\ lone \in BOOLEAN
    BY DEF Init
  <1>2. TypeOK
    BY <1>1, DaemonAssumption, NoneType, SettledBoundType
    DEF Init, TypeOK, Bool, CalmBound, Probes, Monitored, AllLoops
  <1>3. Control /\ Drain /\ Session
    BY DaemonAssumption
    DEF Init, Control, Drain, Session, SessionOwned, Probes, Monitored, AllLoops
  <1>4. Ageing /\ Prompt /\ Follow
    BY DaemonAssumption
    DEF Init, Ageing, Prompt, Follow, Probes, Monitored, AllLoops
  <1>5. Settle
    BY DaemonAssumption DEF Init, Settle
  <1>6. Promptly
    BY DEF Init, Promptly
  <1> QED BY <1>2, <1>3, <1>4, <1>5, <1>6 DEF IInv

\* The inductive invariant.
THEOREM Invariance == Spec => []IInv
PROOF
  <1>1. IInv /\ [Next]_vars => IInv'
    BY TypeOKStep, ControlStep, DrainStep, SessionStep, AgeingStep, PromptStep,
       FollowStep, SettleStep, PromptlyStep DEF IInv
  <1> QED BY <1>1, InitHolds, PTL DEF Spec

\* Every variable keeps its type.
THEOREM TypeCorrectness == Spec => []TypeOK
BY Invariance, PTL DEF IInv

\* No VPN change the daemon noticed is lost to the IP loop.
THEOREM PromptIpChecks == Spec => []PromptIpCheck
PROOF
  <1>1. IInv => PromptIpCheck
    BY DaemonAssumption, NoneType
    DEF IInv, Prompt, PromptIpCheck, Probes, AllLoops
  <1> QED BY <1>1, Invariance, PTL

\* Rows are never stale under thresholds that leave room for a wait and a check.
THEOREM Freshness == Spec => []NeverFalselyStale
PROOF
  <1>1. IInv => NeverFalselyStale
    <2> SUFFICES ASSUME IInv, phase = "running", ~shutdown, NEW l \in Monitored
                 PROVE  age[l] <= Stale[l]
      BY DEF NeverFalselyStale
    <2> USE DEF Probes, Monitored, AllLoops
    <2>1. /\ l \in Loops /\ l \in Probes
          /\ Interval[l] \in Nat /\ MaxCheck[l] \in Nat /\ Stale[l] \in Nat
          /\ Interval[l] + MaxCheck[l] <= Stale[l]
      BY DaemonAssumption, StaleAssumption
    <2>2. age[l] \in Int /\ left[l] \in Nat /\ pc[l] \in {"top", "check", "wait"}
      BY <2>1 DEF IInv, TypeOK, Control
    <2>3. age[l] = None \/ age[l] <= Interval[l] + MaxCheck[l]
      BY <2>1, <2>2 DEF IInv, Ageing
    <2> QED BY <2>1, <2>2, <2>3, NoneType
  <1> QED BY <1>1, Invariance, PTL

\* prev_active follows the tunnel within a wait and two checks.
THEOREM VpnTracking == Spec => []VpnFollowed
BY VpnIsFollowed, Invariance, PTL

\* The newest IP row follows the machine within a wait and two checks.
THEOREM IpTracking == Spec => []StoredFollows
PROOF
  <1>1. IInv => StoredFollows
    BY DaemonAssumption
    DEF IInv, TypeOK, Control, Settle, StoredFollows, SettledBound, Probes, AllLoops
  <1> QED BY <1>1, Invariance, PTL

\* A change that meets a settled daemon is in the newest IP row within a wait and
\* two checks of the VPN loop and two IP checks.
THEOREM PromptIpTracking == Spec => []StoredFollowsPromptly
PROOF
  <1>1. IInv => StoredFollowsPromptly
    <2> SUFFICES ASSUME IInv, phase = "running", ~shutdown, "ip" \in Loops, "vpn" \in Loops,
                        lone, settled >= CalmBound + 2 * MaxCheck["ip"]
                 PROVE  stored = vpnUp
      BY DEF StoredFollowsPromptly
    <2>1. /\ MaxCheck["ip"] \in Nat /\ MaxCheck["vpn"] \in Nat /\ Interval["vpn"] \in Nat
          /\ CalmBound = Interval["vpn"] + 2 * MaxCheck["vpn"] + 1
          /\ settled \in Nat /\ calm \in 0 .. CalmBound /\ left["ip"] \in Nat
      BY DaemonAssumption, SettledBoundType DEF CalmBound, Probes, IInv, TypeOK
    <2>2. calm = CalmBound
      <3>1. settled <= calm \/ calm = CalmBound
        BY DEF IInv, Promptly
      <3>2. CalmBound \in Nat /\ calm \in Nat /\ calm <= CalmBound
        BY <2>1
      <3>3. CalmBound <= settled
        BY <2>1, <3>2
      <3> QED BY <2>1, <3>1, <3>2, <3>3
    <2>3. prev = vpnUp
      BY <2>1, <2>2, VpnIsFollowed DEF VpnFollowed
    <2>4. ~Announced /\ ~Asked
      BY <2>1 DEF Announced, Asked
    <2> QED BY <2>3, <2>4 DEF IInv, Promptly, Confirmed
  <1> QED BY <1>1, Invariance, PTL

\* The daemon outlives its signal by one check at most.
THEOREM BoundedDrain == Spec => []DrainBounded
BY Invariance, PTL DEF IInv, Drain, DrainBounded

\* The process holds the warm session and no other, and none once it is down.
THEOREM SessionOwnership == Spec => []SessionOwned
BY Invariance, PTL DEF IInv, Session
================================================================================

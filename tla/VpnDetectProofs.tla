--------------------------- MODULE VpnDetectProofs -----------------------------
(***************************************************************************)
(* What a VPN status may mix and what it may not, for any tunnels and      *)
(* providers and however the network changes during a check.               *)
(***************************************************************************)
EXTENDS VpnDetect, WellFoundedInduction, TLAPS

\* What a check in progress has: a mode and a provider the network had since it
\* began, and, in a quiet one, what the network has now.
InCheck ==
  /\ iface # None => ModeOf(routes[iface]) \in modes
  /\ pc # "idle" => provider \in names
  /\ pc = "provider" => mode \in modes \cup {None}
  /\ quiet => /\ pc # "idle"
              /\ iface = None <=> up = {}
              /\ iface # None => iface \in up
              /\ pc \in {"provider", "done"} /\ iface # None => mode = ModeOf(routes[iface])

\* What it has told.
Told ==
  pc = "done" =>
    /\ status.active <=> iface # None
    /\ status.active => status.mode = mode
    /\ status.active /\ quiet => status.provider = provider

IInv ==
  /\ TypeOK
  /\ InCheck
  /\ Told
  /\ EachFieldWasTrue

--------------------------------------------------------------------------------
\* A set of positions has a first one.
LEMMA FirstExists ==
  ASSUME NEW S, S \subseteq Nat, S # {}
  PROVE  Min(S) \in S /\ \A i \in S : Min(S) <= i
PROOF
  <1> DEFINE R == {ss \in Nat \X Nat : ss[1] < ss[2]}
  <1>1. IsWellFoundedOn(R, Nat)
    BY NatLessThanWellFounded DEF OpToRel
  <1> HIDE DEF R
  <1>2. PICK m \in S : \A i \in S : ~ (<<i, m>> \in R)
    BY <1>1, WFMin
  <1>3. \A i \in S : ~ (i < m)
    BY <1>2 DEF R
  <1>4. \A i \in S : i \in Nat
    OBVIOUS
  <1>5. \A i \in S : m <= i
    BY <1>3, <1>4
  <1> QED BY <1>5 DEF Min

\* The interface a check asks about is up, and there is one if any is.
LEMMA FirstUpIs ==
  ASSUME TypeOK
  PROVE  /\ FirstUp(Tunnels) = None <=> up = {}
         /\ FirstUp(Tunnels) # None => FirstUp(Tunnels) \in up
PROOF
  <1> DEFINE live == {i \in DOMAIN Tunnels : Tunnels[i] \in up}
  <1>1. live \subseteq Nat /\ DOMAIN Tunnels \subseteq Nat
    BY VpnAssumption
  <1>2. live = {} <=> up = {}
    BY DEF TypeOK, ToSet
  <1>3. None \notin up
    BY VpnAssumption DEF TypeOK
  <1>4. CASE live = {}
    BY <1>2, <1>4 DEF FirstUp
  <1>5. CASE live # {}
    <2>1. Min(live) \in live
      <3> HIDE DEF live
      <3> QED BY <1>1, <1>5, FirstExists
    <2>2. FirstUp(Tunnels) = Tunnels[Min(live)]
      BY <1>5 DEF FirstUp
    <2> QED BY <1>2, <1>3, <1>5, <2>1, <2>2
  <1> QED BY <1>4, <1>5

\* Routes make a full or a split tunnel.
LEMMA ModeOfIs == \A dests : ModeOf(dests) \in {"full", "split"}
BY DEF ModeOf

\* A change ends the quiet and adds to what was true.
LEMMA NetChangesPreserves == IInv /\ NetChanges => IInv'
PROOF
  <1> SUFFICES ASSUME IInv, NetChanges PROVE IInv'
    OBVIOUS
  <1>1. /\ ~ quiet' /\ UNCHANGED <<pc, iface, mode, status>>
        /\ modes' = IF iface = None THEN modes ELSE modes \cup {ModeOf(routes'[iface])}
        /\ names' = names \cup {provider'}
    BY DEF NetChanges, checkVars
  <1>2. /\ up' \subseteq ToSet(Tunnels) /\ provider' \in Providers \cup {None}
        /\ routes' \in [ToSet(Tunnels) -> SUBSET Dests]
    BY DEF IInv, TypeOK, NetChanges
  <1>3. TypeOK'
    BY <1>1, <1>2 DEF IInv, TypeOK
  <1>4. InCheck' /\ Told' /\ EachFieldWasTrue'
    BY <1>1 DEF IInv, InCheck, Told, EachFieldWasTrue
  <1> QED BY <1>3, <1>4 DEF IInv

\* The first observation.
LEMMA FindInterfacePreserves == IInv /\ FindInterface => IInv'
PROOF
  <1> SUFFICES ASSUME IInv, FindInterface PROVE IInv'
    OBVIOUS
  <1>1. /\ iface' = FirstUp(Tunnels) /\ mode' = None /\ status' = NoStatus /\ quiet'
        /\ pc' = IF iface' = None THEN "done" ELSE "routes"
        /\ modes' = IF iface' = None THEN {} ELSE {ModeOf(routes[iface'])}
        /\ names' = {provider}
        /\ UNCHANGED <<up, routes, provider>>
    BY DEF FindInterface, netVars
  <1>2. (iface' = None <=> up = {}) /\ (iface' # None => iface' \in up)
    BY <1>1, FirstUpIs DEF IInv
  <1>3. TypeOK'
    BY <1>1, <1>2 DEF IInv, TypeOK, Modes, NoStatus
  <1>4. InCheck' /\ Told' /\ EachFieldWasTrue'
    BY <1>1, <1>2 DEF InCheck, Told, EachFieldWasTrue, NoStatus
  <1> QED BY <1>3, <1>4 DEF IInv

\* The second, of the interface of the first.
LEMMA ReadRoutesPreserves == IInv /\ ReadRoutes => IInv'
PROOF
  <1> SUFFICES ASSUME IInv, ReadRoutes PROVE IInv'
    OBVIOUS
  <1>1. /\ pc = "routes" /\ pc' = "provider" /\ iface # None
        /\ \/ mode' = ModeOf(routes[iface]) /\ quiet' = quiet
           \/ mode' = None /\ ~ quiet'
        /\ UNCHANGED <<up, routes, provider, iface, status, modes, names>>
    BY DEF ReadRoutes, netVars, IInv, TypeOK
  <1>2. TypeOK'
    BY <1>1, ModeOfIs DEF IInv, TypeOK, Modes
  <1>3. InCheck' /\ Told' /\ EachFieldWasTrue'
    BY <1>1 DEF IInv, InCheck, Told, EachFieldWasTrue
  <1> QED BY <1>2, <1>3 DEF IInv

\* The third, and the status made of them.
LEMMA ReadProviderPreserves == IInv /\ ReadProvider => IInv'
PROOF
  <1> SUFFICES ASSUME IInv, ReadProvider PROVE IInv'
    OBVIOUS
  <1>1. PICK p \in {provider, None} :
          /\ status' = [active |-> TRUE, mode |-> mode, provider |-> p]
          /\ quiet' = (quiet /\ p = provider)
    BY DEF ReadProvider
  <1>2. /\ pc = "provider" /\ pc' = "done" /\ iface # None
        /\ UNCHANGED <<up, routes, provider, iface, mode, modes, names>>
    BY DEF ReadProvider, netVars, IInv, TypeOK
  <1>3. /\ status'.active /\ status'.mode = mode /\ status'.provider = p
        /\ status' \in [active : BOOLEAN, mode : Modes, provider : Providers \cup {None}]
    BY <1>1 DEF IInv, TypeOK
  <1>4. TypeOK'
    BY <1>2, <1>3 DEF IInv, TypeOK
  <1>5. quiet' => quiet /\ p = provider
    BY <1>1
  <1>6. InCheck' /\ Told' /\ EachFieldWasTrue'
    BY <1>2, <1>3, <1>5 DEF IInv, InCheck, Told, EachFieldWasTrue
  <1> QED BY <1>4, <1>6 DEF IInv

--------------------------------------------------------------------------------
\* The invariant of the three observations and what is made of them.
THEOREM Invariance == Spec => []IInv
PROOF
  <1>1. Init => IInv
    BY DEF Init, IInv, TypeOK, InCheck, Told, EachFieldWasTrue, NoStatus, Modes
  <1>2. IInv /\ [Next]_vars => IInv'
    <2> SUFFICES ASSUME IInv, [Next]_vars PROVE IInv'
      OBVIOUS
    <2>1. CASE UNCHANGED vars
      BY <2>1 DEF vars, netVars, checkVars, IInv, TypeOK, InCheck, Told, EachFieldWasTrue
    <2> QED BY <2>1, NetChangesPreserves, FindInterfacePreserves, ReadRoutesPreserves,
       ReadProviderPreserves DEF Next
  <1> QED BY <1>1, <1>2, PTL DEF Spec

\* A status has a mode and a provider only if it is active.
THEOREM TypeCorrectness == Spec => []TypeOK
PROOF
  <1>1. IInv => TypeOK
    BY DEF IInv
  <1> QED BY <1>1, Invariance, PTL

\* However the network changes between netstat and scutil, the mode and the
\* provider of a status were each true at some moment of its check.
THEOREM NothingInvented == Spec => []EachFieldWasTrue
PROOF
  <1>1. IInv => EachFieldWasTrue
    BY DEF IInv
  <1> QED BY <1>1, Invariance, PTL

\* A check of a network that stands still reports it as it is: the two halves of
\* the address space count as a full tunnel, one of them does not.
THEOREM StillNetworkIsSeen == Spec => []QuietCheckIsExact
PROOF
  <1>1. IInv => QuietCheckIsExact
    <2> SUFFICES ASSUME IInv, pc = "done", quiet
                 PROVE  /\ status.active <=> up # {}
                        /\ status.active => /\ iface \in up
                                            /\ status.mode = "full" <=> WholeSpace(iface)
                                            /\ status.provider = provider
      BY DEF QuietCheckIsExact
    <2>1. /\ status.active <=> up # {}
          /\ status.active => /\ iface \in up /\ status.mode = ModeOf(routes[iface])
                              /\ status.provider = provider
      BY DEF IInv, InCheck, Told
    <2>2. ModeOf(routes[iface]) = "full" <=> WholeSpace(iface)
      BY DEF ModeOf, WholeSpace
    <2> QED BY <2>1, <2>2
  <1> QED BY <1>1, Invariance, PTL

\* No display gives two different statuses one label, so every row the upsert
\* adds for a difference is a visible change.
THEOREM EveryChangeShows == Spec => []ChangesShow
PROOF
  <1>1. TypeOK => ChangesShow
    <2> DEFINE Status == [active : BOOLEAN, mode : Modes, provider : Providers \cup {None}]
    <2> SUFFICES ASSUME TypeOK,
                        NEW t \in [active : {TRUE}, mode : Modes,
                                   provider : Providers \cup {None}] \cup {NoStatus},
                        NEW k \in DOMAIN Shown(t), Shown(t)[k] = Shown(status)[k]
                 PROVE  t = status
      BY DEF ChangesShow
    <2>1. /\ t \in Status /\ status \in Status
          /\ ~ t.active => t.mode = None /\ t.provider = None
          /\ ~ status.active => status.mode = None /\ status.provider = None
      <3>1. NoStatus \in Status /\ NoStatus.mode = None /\ NoStatus.provider = None
        BY DEF NoStatus, Modes
      <3>2. t # NoStatus => t \in [active : {TRUE}, mode : Modes,
                                  provider : Providers \cup {None}]
        OBVIOUS
      <3>3. t # NoStatus => t \in Status /\ t.active
        BY <3>2
      <3> QED BY <3>1, <3>3 DEF TypeOK
    <2>2. k \in 1 .. 6
      BY DEF Shown
    <2>3. ASSUME NEW on \in {"on", "active"}, t.active, status.active,
                 Label(t, on) = Label(status, on)
          PROVE  t.mode = status.mode /\ t.provider = status.provider
      BY <2>1, <2>3 DEF Label, Modes
    <2>4. ASSUME NEW on \in {"on", "active"} PROVE \A s : Label(s, on) # <<"off">>
      BY DEF Label
    <2>5. /\ t.active <=> status.active
          /\ t.mode = status.mode /\ t.provider = status.provider
      <3>1. CASE k = 1
        BY <3>1, <2>1, <2>3, <2>4 DEF Shown, TrayVpn
      <3>2. CASE k \in {2, 3, 4}
        BY <3>2, <2>1, <2>3, <2>4 DEF Shown, TuiVpn, ScreenVpn, EventsVpn
      <3>3. CASE k = 5
        BY <3>3, <2>1 DEF Shown, CliVpn
      <3>4. CASE k = 6
        BY <3>4, <2>1 DEF Shown, HistoryVpn
      <3> QED BY <2>2, <3>1, <3>2, <3>3, <3>4
    <2> QED BY <2>1, <2>5
  <1>2. IInv => TypeOK
    BY DEF IInv
  <1> QED BY <1>1, <1>2, Invariance, PTL

================================================================================

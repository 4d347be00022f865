------------------------------- MODULE VpnDetect -------------------------------
(***************************************************************************)
(* check_vpn (probes/vpn.py): three observations of a network that may     *)
(* change between any two of them (the interfaces, the routing table, the  *)
(* connected VPN services), put together into one status; and the six      *)
(* places that tell the user of it.                                        *)
(***************************************************************************)
EXTENDS Sequences, SequencesExt

CONSTANTS
  Tunnels,    \* the tun/utun interfaces in psutil's order, a sequence
  Providers,
  None

Dests == {"0/1", "128.0/1", "default"}  \* destinations the parser looks for

ASSUME VpnAssumption ==
  /\ Tunnels \in Seq(ToSet(Tunnels))
  /\ None \notin Providers \cup ToSet(Tunnels)

VARIABLES
  up,        \* tunnels with an IPv4 address
  routes,    \* tunnel -> destinations routed through it
  provider,  \* name of the connected service, or None
  pc,        \* "idle", "routes", "provider" or "done": the next observation
  iface,     \* detect_tunnel_interface's answer
  mode,      \* detect_tunnel_mode's
  status,    \* the VpnStatus
  \* Observers.
  quiet,     \* nothing has changed, and no command failed, since the check began
  modes,     \* modes the chosen interface has had since then
  names      \* providers there have been since then

netVars == <<up, routes, provider>>
checkVars == <<pc, iface, mode, status>>
vars == <<netVars, checkVars, quiet, modes, names>>

NoStatus == [active |-> FALSE, mode |-> None, provider |-> None]

--------------------------------------------------------------------------------
\* Mutant of ModeOf: either half will do.
ModeOfEitherHalf(dests) ==
  IF dests \cap {"0/1", "128.0/1", "default"} # {} THEN "full" ELSE "split"

\* detect_tunnel_mode's verdict on the destinations routed through the interface.
ModeOf(dests) ==
  IF {"0/1", "128.0/1"} \subseteq dests \/ "default" \in dests THEN "full" ELSE "split"

\* detect_tunnel_interface over tunnels in order.
FirstUp(tunnels) ==
  LET live == {i \in DOMAIN tunnels : tunnels[i] \in up}
  IN  IF live = {} THEN None ELSE tunnels[Min(live)]

Init ==
  /\ up = {} /\ provider = None
  /\ routes = [t \in ToSet(Tunnels) |-> {}]
  /\ pc = "idle" /\ iface = None /\ mode = None /\ status = NoStatus
  /\ quiet = FALSE /\ modes = {} /\ names = {}

\* The network changes; an interface takes its routes with it.
NetChanges ==
  /\ \/ \E t \in ToSet(Tunnels) :
          /\ up' = IF t \in up THEN up \ {t} ELSE up \cup {t}
          /\ routes' = [routes EXCEPT ![t] = {}]
          /\ provider' = provider
     \/ \E t \in up, d \in Dests :
          /\ routes' = [routes EXCEPT ![t] = IF d \in @ THEN @ \ {d} ELSE @ \cup {d}]
          /\ UNCHANGED <<up, provider>>
     \/ /\ provider' \in (Providers \cup {None}) \ {provider}
        /\ UNCHANGED <<up, routes>>
  /\ quiet' = FALSE
  /\ modes' = IF iface = None THEN modes ELSE modes \cup {ModeOf(routes'[iface])}
  /\ names' = names \cup {provider'}
  /\ UNCHANGED checkVars

FindInterface ==
  /\ pc \in {"idle", "done"}
  /\ iface' = FirstUp(Tunnels)
  /\ pc' = IF iface' = None THEN "done" ELSE "routes"
  /\ mode' = None
  /\ status' = NoStatus
  /\ quiet' = TRUE
  /\ modes' = IF iface' = None THEN {} ELSE {ModeOf(routes[iface'])}
  /\ names' = {provider}
  /\ UNCHANGED netVars

\* Mutant of ReadRoutes: a failure is taken for a split tunnel.
ReadRoutesFailsSplit ==
  /\ pc = "routes"
  /\ \/ mode' = ModeOf(routes[iface]) /\ quiet' = quiet
     \/ mode' = "split" /\ quiet' = FALSE
  /\ pc' = "provider"
  /\ UNCHANGED <<netVars, iface, status, modes, names>>

\* netstat answers, or fails.
ReadRoutes ==
  /\ pc = "routes"
  /\ \/ mode' = ModeOf(routes[iface]) /\ quiet' = quiet
     \/ mode' = None /\ quiet' = FALSE
  /\ pc' = "provider"
  /\ UNCHANGED <<netVars, iface, status, modes, names>>

\* scutil answers, or fails.
ReadProvider ==
  /\ pc = "provider"
  /\ \E p \in {provider, None} :
       /\ status' = [active |-> TRUE, mode |-> mode, provider |-> p]
       /\ quiet' = (quiet /\ p = provider)
  /\ pc' = "done"
  /\ UNCHANGED <<netVars, iface, mode, modes, names>>

Next == NetChanges \/ FindInterface \/ ReadRoutes \/ ReadProvider

Spec == Init /\ [][Next]_vars

--------------------------------------------------------------------------------
\* What a status is shown as: the parts of the label in their places, without
\* the words around them (a provider is assumed not to be called "-", the history
\* screen's None).
Label(s, on) == <<IF s.mode = None THEN on ELSE s.mode, s.provider>>

\* Mutant of EventsVpn: without a mode the provider is left out.
EventsVpnModeFirst(s) ==
  IF ~s.active THEN <<"off">> ELSE IF s.mode = None THEN <<"on">> ELSE Label(s, "on")

TrayVpn(s) == IF s.active THEN Label(s, "active") ELSE <<"off">>
TuiVpn(s) == IF s.active THEN Label(s, "on") ELSE <<"off">>
ScreenVpn(s) == IF s.active THEN Label(s, "on") ELSE <<"off">>
EventsVpn(s) == IF s.active THEN Label(s, "on") ELSE <<"off">>
CliVpn(s) == IF s.active THEN <<"active", s.provider, s.mode>> ELSE <<"inactive">>
HistoryVpn(s) == <<IF s.active THEN "on" ELSE "off", s.mode, s.provider>>

Shown(s) ==
  <<TrayVpn(s), TuiVpn(s), ScreenVpn(s), EventsVpn(s), CliVpn(s), HistoryVpn(s)>>

Modes == {"full", "split", None}

TypeOK ==
  /\ up \subseteq ToSet(Tunnels)
  /\ routes \in [ToSet(Tunnels) -> SUBSET Dests]
  /\ provider \in Providers \cup {None}
  /\ pc \in {"idle", "routes", "provider", "done"}
  /\ iface \in ToSet(Tunnels) \cup {None}
  /\ mode \in Modes
  /\ status \in [active : BOOLEAN, mode : Modes, provider : Providers \cup {None}]
  /\ pc \in {"routes", "provider"} => iface # None
  /\ ~status.active => status.mode = None /\ status.provider = None

\* Traffic to every address leaves through the tunnel.
WholeSpace(t) ==
  \A half \in {"0/1", "128.0/1"} : half \in routes[t] \/ "default" \in routes[t]

\* A check during which nothing changed and no command failed tells the truth
\* about the first live tunnel.
QuietCheckIsExact ==
  pc = "done" /\ quiet =>
    /\ status.active <=> up # {}
    /\ status.active => /\ iface \in up
                        /\ status.mode = "full" <=> WholeSpace(iface)
                        /\ status.provider = provider

\* However the network changes between the observations, each field was true at
\* some moment of the check: a status may mix moments (a row no reader can tell
\* from a state), it invents nothing.
EachFieldWasTrue ==
  pc = "done" =>
    /\ status.mode \in modes \cup {None}
    /\ status.provider \in names \cup {None}

\* Two statuses that the table keeps apart look apart wherever they are shown:
\* upsert_probe_vpn adds a row for any difference in activity, mode or provider,
\* and a change list with two equal lines in a row would deny that difference.
\* The displays test different fields first, and one does not test activity.
ChangesShow ==
  pc = "done" =>
    \A t \in [active : {TRUE}, mode : Modes, provider : Providers \cup {None}] \cup {NoStatus} :
      (\E k \in DOMAIN Shown(t) : Shown(t)[k] = Shown(status)[k]) => t = status

================================================================================

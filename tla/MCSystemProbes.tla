---------------------------- MODULE MCSystemProbes -----------------------------
(***************************************************************************)
(* The two probes that ask the system's own commands, check_vpn (netstat,  *)
(* scutil --nc) and check_dns (scutil --dns), and the displays of their    *)
(* rows.  They share no state, so that nothing is lost when either of them *)
(* runs only while the other has not begun.                                *)
(***************************************************************************)
EXTENDS VpnDetect

CONSTANTS Reports, NoReply, Rcodes  \* as in DnsProbe

VARIABLES dnsPc, report, resolvers, outcome, row

dnsVars == <<dnsPc, report, resolvers, outcome, row>>

Dns == INSTANCE DnsProbe WITH pc <- dnsPc

\* The second one matters to detect_tunnel_interface's "first".
TwoTunnels == <<"utun4", "utun5">>

\* Up to two blocks in each section.
Nameservers == {<<>>, <<"ns1">>, <<"ns2", "ns3">>}
Blocks == [domain : BOOLEAN, ns : Nameservers]
SmallReports == [main : BoundedSeq(Blocks, 2), scoped : BoundedSeq(Blocks, 2)]

ProbesInit == Init /\ Dns!Init
ProbesNext ==
  \/ dnsPc = "idle" /\ Next /\ UNCHANGED dnsVars
  \/ names = {} /\ Dns!Next /\ UNCHANGED vars  \* names grows with VpnDetect's first step
ProbesSpec == ProbesInit /\ [][ProbesNext]_<<vars, dnsVars>>

\* DnsProbe's properties: the row holds the resolvers docs/probes.md says are
\* measured (probes/dns.py), ...
MeasuresEffective == Dns!MeasuresEffective

\* ... no domain-scoped one among them (docs/probes.md:131), ...
DomainScopedUnmeasured == Dns!DomainScopedUnmeasured

\* ... and its displays tell the same (tray.py, tui/, cli/commands/probe.py).
DisplaysAgree == Dns!DisplaysAgree

================================================================================

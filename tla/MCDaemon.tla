------------------------------- MODULE MCDaemon --------------------------------
(***************************************************************************)
(* Two instances of Daemon under the default configuration (config.py).    *)
(***************************************************************************)
EXTENDS Daemon

\* The warm, cold and purge loops, in seconds.  The DNS loop is left out: it has
\* the actions and the numbers of the cold one.  The purge hour is cut to 4 s.
LatencyLoops == {"warm", "cold", "purge"}
LatencyInterval == [warm |-> 2, cold |-> 10, purge |-> 4]
LatencyMaxCheck == [warm |-> 5, cold |-> 5]  \* one request timeout
LatencyStale == [warm |-> 10, cold |-> 30]

\* The VPN and IP loops, in units of 5 s.
VpnLoops == {"vpn", "ip"}
VpnInterval == [vpn |-> 2, ip |-> 12]
VpnMaxCheck == [vpn |-> 2, ip |-> 2]         \* netstat, scutil; two races
NoStale == [l \in {} |-> 0]

================================================================================

------------------------------- MODULE Egress -------------------------------
(***************************************************************************)
(* The network of one scanner worker: the VPN-egress worker with its       *)
(* kill-switch, policy routing and exit-address check, and the worker of a *)
(* private site with its tunnel (scanner_worker/main.py, egress_setup.py,  *)
(* tunnel_setup.py, scanner_engine/vpn_egress.py, wireguard.py, and the    *)
(* preflights and the watchdog of lease_loop.py).                          *)
(*                                                                         *)
(* The set-up may fail at every command; interfaces, routes, rules and     *)
(* firewall chains may be lost at any time afterwards.                     *)
(***************************************************************************)
EXTENDS Naturals, FiniteSets

CONSTANTS
    Cidrs,      \* networks a private site can authorize
    Pinned,     \* an expected or a forbidden exit address is configured
    MaxFaults   \* bound on the faults during one scan

ASSUME EgressAssumption == Pinned \in BOOLEAN /\ MaxFaults \in Nat

VARIABLES
    kind,       \* the worker's identity: "vpn" or "private"
    proc,       \* where the worker process is
    net,        \* the kernel's interfaces, routes, rules and firewall
    exitip,     \* the probe's cached exit address
    site,       \* the networks the private site authorizes
    scan,       \* the job in hand: its state and its networks
    faults      \* what has broken since the scan began

egressVars == <<kind, proc, net, exitip, site, scan, faults>>

NoScan == [st |-> "none", cidrs |-> {}]
Bare == [iface |-> "absent", peer |-> "stale", route |-> FALSE, rule |-> FALSE, hijacked |-> FALSE,
         chain |-> "absent", attached |-> FALSE, routes |-> {}]

\* Where a packet of a tool goes: the policy rule sends it to the tunnel, the
\* main table to the platform's own uplink, unless the kill-switch drops it.
Path ==
    IF net.rule /\ net.route /\ net.iface = "up"
    THEN IF net.peer = "live" THEN "vpn" ELSE "nowhere"
    ELSE IF net.attached /\ net.chain = "closed" THEN "blocked" ELSE "direct"

-----------------------------------------------------------------------------
(* Set-up                                                                  *)

\* A process starts in a fresh network namespace, or in the one it left.
Start ==
    /\ proc = "stopped"
    /\ proc' = IF kind = "vpn" THEN "chain" ELSE "iface"
    /\ net' \in {Bare, net}
    /\ exitip' = "none"
    /\ UNCHANGED <<kind, site, scan, faults>>

\* Every refusal and every failed command of the set-up ends the process.
SetupFails ==
    /\ proc \notin {"stopped", "serving"}
    /\ proc' = "stopped"
    /\ UNCHANGED <<kind, net, exitip, site, scan, faults>>

\* install_killswitch: create and flush the chain, ...
FlushChain ==
    /\ proc = "chain"
    /\ net' = [net EXCEPT !.chain = "open"]
    /\ proc' = "rules"
    /\ UNCHANGED <<kind, exitip, site, scan, faults>>

\* ... append the rules, the DROP last, ...
AppendRules ==
    /\ proc = "rules"
    /\ net' = [net EXCEPT !.chain = "closed"]
    /\ proc' = "attach"
    /\ UNCHANGED <<kind, exitip, site, scan, faults>>

\* ... and hook it into OUTPUT, all before there is a tunnel.
AttachChain ==
    /\ proc = "attach"
    /\ net' = [net EXCEPT !.attached = TRUE]
    /\ proc' = "iface"
    /\ UNCHANGED <<kind, exitip, site, scan, faults>>

\* build_allowed_ips: no default route, and not nothing.
build_allowed_ips(c) == c # {} /\ "default" \notin c

\* bring_up: the interface, its peer and address; a tunnel to a site also
\* gets a route for every authorized network, read from the manager.
BringUp ==
    /\ proc = "iface"
    /\ kind = "private" => build_allowed_ips(site)
    /\ \E peer \in {"live", "stale"} :
          net' = [net EXCEPT !.iface = "up", !.peer = peer,
                             !.routes = IF kind = "private" THEN site ELSE @]
    /\ proc' = IF kind = "vpn" THEN "routing" ELSE "verify"
    /\ UNCHANGED <<kind, exitip, site, scan, faults>>

\* install_policy_routing: the table's default route, then the rules.
InstallRoute ==
    /\ proc = "routing"
    /\ net' = [net EXCEPT !.route = net.iface = "up"]
    /\ proc' = "rule"
    /\ UNCHANGED <<kind, exitip, site, scan, faults>>

InstallRule ==
    /\ proc = "rule"
    /\ net' = [net EXCEPT !.rule = TRUE]
    /\ proc' = "verify"
    /\ UNCHANGED <<kind, exitip, site, scan, faults>>

-----------------------------------------------------------------------------
(* Health                                                                  *)

\* Mutant: an attached chain is taken for a closed one.
killswitch_activeAttached == net.attached
killswitch_active == net.attached /\ net.chain = "closed"

\* observe_exit_ip, over whatever path the packet takes
observe_exit_ip == IF Path \in {"vpn", "direct"} THEN Path ELSE "none"

\* _exit_ip: the cached observation while it lasts, otherwise a new one
_exit_ip == IF exitip # "none" THEN exitip ELSE observe_exit_ip

\* assert_egress_healthy; a handshake grows stale only some time after the
\* peer is lost.
EgressHealthy(ip) ==
    /\ net.iface = "up" /\ net.peer # "stale"
    /\ net.route /\ net.rule /\ ~net.hijacked
    /\ killswitch_active
    /\ ip # "none" /\ (Pinned => ip = "vpn")

\* assert_tunnel_healthy: every authorized network has its route.
TunnelHealthy(c) ==
    /\ net.iface = "up" /\ net.peer # "stale"
    /\ build_allowed_ips(c) /\ c \subseteq net.routes

\* The preflight that ends the set-up; then the worker serves.
SetupVerified ==
    /\ proc = "verify"
    /\ IF kind = "vpn" THEN EgressHealthy(_exit_ip) /\ exitip' = _exit_ip
                       ELSE TunnelHealthy(site) /\ "default" \notin net.routes /\ UNCHANGED exitip
    /\ proc' = "serving"
    /\ UNCHANGED <<kind, net, site, scan, faults>>

-----------------------------------------------------------------------------
(* Jobs                                                                    *)

\* _handle_job: both preflights, then the executor.  The job carries the
\* networks its site authorizes at the time of the lease.
ScanStarts ==
    /\ proc = "serving" /\ scan.st # "running"
    /\ IF kind = "vpn" THEN EgressHealthy(_exit_ip) /\ exitip' = _exit_ip
                       ELSE TunnelHealthy(site) /\ UNCHANGED exitip
    /\ scan' = [st |-> "running", cidrs |-> IF kind = "private" THEN site ELSE {}]
    /\ faults' = {}
    /\ UNCHANGED <<kind, proc, net, site>>

\* The job is reported failed with the reason of the preflight.
ScanRefused ==
    /\ proc = "serving" /\ scan.st # "running"
    /\ ~IF kind = "vpn" THEN EgressHealthy(_exit_ip) ELSE TunnelHealthy(site)
    /\ exitip' = IF kind = "vpn" /\ net.iface = "up" THEN _exit_ip ELSE exitip
    /\ scan' = [NoScan EXCEPT !.st = "refused"]
    /\ UNCHANGED <<kind, proc, net, site, faults>>

ScanEnds ==
    /\ scan.st = "running"
    /\ scan' = [NoScan EXCEPT !.st = "ended"]
    /\ UNCHANGED <<kind, proc, net, exitip, site, faults>>

\* _watch_egress_while_running: a fresh observation, and the executor is
\* cancelled the moment the path cannot be proven.
Watch ==
    /\ kind = "vpn" /\ scan.st = "running"
    /\ exitip' = observe_exit_ip
    /\ scan' = IF EgressHealthy(observe_exit_ip) THEN scan ELSE [NoScan EXCEPT !.st = "lost"]
    /\ UNCHANGED <<kind, proc, net, site, faults>>

-----------------------------------------------------------------------------
(* The environment                                                         *)

\* exit_ip_ttl_s elapses.
ExitIpExpires ==
    /\ exitip # "none" /\ exitip' = "none"
    /\ UNCHANGED <<kind, proc, net, site, scan, faults>>

\* An interface that goes down takes its routes along.
Breaks(f) ==
    CASE f = "interface" -> [net EXCEPT !.iface = "down", !.route = FALSE, !.routes = {}]
      [] f = "peer"      -> [net EXCEPT !.peer = "lost"]
      [] f = "rule"      -> [net EXCEPT !.rule = FALSE]
      [] f = "firewall"  -> [net EXCEPT !.chain = "open"]
      [] f = "main"      -> [net EXCEPT !.hijacked = TRUE]

Fault(f) ==
    /\ proc = "serving" /\ f \notin faults /\ Cardinality(faults) < MaxFaults
    /\ net' = Breaks(f) /\ net' # net
    /\ faults' = faults \cup {f}
    /\ UNCHANGED <<kind, proc, exitip, site, scan>>

HandshakeAges ==
    /\ net.peer = "lost" /\ net' = [net EXCEPT !.peer = "stale"]
    /\ UNCHANGED <<kind, proc, exitip, site, scan, faults>>

\* The operator changes the site; the routes of a running worker stay.
SiteChanges(c) ==
    /\ kind = "private" /\ site' = c /\ c # site
    /\ UNCHANGED <<kind, proc, net, exitip, scan, faults>>

\* The process dies or is replaced.
Dies ==
    /\ proc = "serving"
    /\ proc' = "stopped" /\ scan' = NoScan /\ faults' = {}
    /\ UNCHANGED <<kind, net, exitip, site>>

Breakable == {"interface", "peer", "rule", "firewall", "main"}

EgressInit ==
    /\ kind \in {"vpn", "private"} /\ proc = "stopped" /\ net = Bare /\ exitip = "none"
    /\ site = Cidrs /\ scan = NoScan /\ faults = {}

EgressNext ==
    \/ Start \/ SetupFails \/ FlushChain \/ AppendRules \/ AttachChain \/ BringUp
    \/ InstallRoute \/ InstallRule \/ SetupVerified
    \/ ScanStarts \/ ScanRefused \/ ScanEnds \/ Watch
    \/ ExitIpExpires \/ HandshakeAges \/ Dies
    \/ \E f \in Breakable : Fault(f)
    \/ \E c \in SUBSET (Cidrs \cup {"default"}) : SiteChanges(c)

\* The watchdog's timer always fires again.
EgressFairness == WF_egressVars(Watch)

-----------------------------------------------------------------------------
(* Properties                                                              *)

EgressTypeOK ==
    /\ kind \in {"vpn", "private"} /\ exitip \in {"none", "vpn", "direct"}
    /\ net.iface \in {"absent", "down", "up"} /\ net.peer \in {"live", "lost", "stale"}
    /\ net.chain \in {"absent", "open", "closed"} /\ scan.cidrs \subseteq Cidrs

(* "fail closed when the VPN drops": while a scan runs on a VPN worker, no *)
(* single loss -- tunnel, peer, rule or firewall -- makes target traffic   *)
(* leave over the platform's own uplink, whatever happened before it began *)
OneFaultNeverLeaks ==
    kind = "vpn" /\ scan.st = "running" /\ Cardinality(faults) <= 1 => Path # "direct"

PathLost == kind = "vpn" /\ scan.st = "running" /\ Path # "vpn"
LossOver == scan.st # "running" \/ Path = "vpn"

(* A loss of the egress path during a scan does not go unnoticed: the scan *)
(* ends, unless the path is there again first.                             *)
LossStopsScan == PathLost ~> LossOver

(* A tunnel to a customer's network never carries a default route, however *)
(* the site's list is edited while workers come and go.                    *)
NoDefaultRoute == "default" \notin net.routes

(* No worker's traffic strays: not to the uplink, not into a whole network.*)
TrafficContained == OneFaultNeverLeaks /\ NoDefaultRoute
=============================================================================

------------------------------ MODULE Ruleset ------------------------------
(***************************************************************************)
(* What a plan turns into: the steps, the generated firewall table, the    *)
(* kernel's choice of a way out, and the engine's choice of an outbound    *)
(* (internal/netcfg: route.go, nftables.go; internal/xcfg/build.go).       *)
(*                                                                         *)
(* A packet is [in, out, fam, src, dst, svc, ct]: the interfaces ("" for   *)
(* the box itself), the addresses, what its ports say, and what connection *)
(* tracking says.  A chain is the sequence of its rules, each a pair of    *)
(* whether it matches and what it says; the first that matches decides.    *)
(***************************************************************************)
EXTENDS Planner

CONSTANTS
    Private,        \* prefixes that are not the internet's
    Loopback,       \* the box's own address on itself
    Multicast       \* multicast and broadcast addresses

Decide(rules, policy) == First(rules, LAMBDA r : r[1], <<TRUE, policy>>)[2]

-----------------------------------------------------------------------------
(* The generated table (nftables.go, RulesetFor).                           *)

InputChain(p, k) ==
    LET hot == k.in = p.hotspot
    IN  Decide(<< <<k.in = "lo", "accept">>,
                  <<k.ct = "invalid", "drop">>,
                  <<k.in = TunName, "accept">>,
                  <<hot /\ k.ct = "established", "accept">>,
                  <<hot /\ k.svc \in {"dhcp", "resolver", "panel"}, "accept">>,
                  <<hot /\ k.fam = 4 /\ k.svc = "echo", "accept">>,
                  <<hot, "drop">> >>, "accept")

\* Mutant: what comes from a client is accepted whichever way it leaves.
TunnelOnlyAny(k) == TRUE

\* The accept of what comes from a client names the tunnel.
TunnelOnly(k) == k.out = TunName

\* The leak block first; both accepts name the tunnel, so both stop matching
\* when it is gone.  A cut table has neither.
ForwardChain(p, cut, k) ==
    LET hot == k.in = p.hotspot
    IN  Decide(<< <<hot /\ k.out = p.uplink, "drop">>,
                  <<p.opts.ipv6 = "block" /\ k.fam = 6 /\ (hot \/ k.out = p.hotspot), "drop">>,
                  <<hot /\ k.svc = "dot", "drop">>,
                  <<p.opts.isolation /\ hot /\ k.out = p.hotspot, "drop">>,
                  <<k.ct = "invalid", "drop">>,
                  <<cut, "drop">>,
                  <<k.fam = 4 /\ hot /\ TunnelOnly(k) /\ Contains(p.subnet, k.src), "accept">>,
                  <<k.fam = 4 /\ k.in = TunName /\ k.out = p.hotspot /\ Contains(p.subnet, k.dst),
                    "accept">> >>, "drop")

ServerPermit(p, a) == \E i \in 1..Len(p.servers) : p.servers[i].addr = a

OpenOutput(p, k) ==
    Decide(<< <<k.out = TunName, "accept">>,
              <<k.out = p.hotspot /\ k.svc = "ra", "drop">> >>, "accept")

\* What the appliance needs to live.
writeRestrictedOutput(p, k) ==
    Decide(<< <<k.ct = "established", "accept">>,
              <<k.out = "lo", "accept">>,
              <<k.out = TunName, "accept">>,
              <<k.out = p.hotspot /\ k.svc = "ra", "drop">>,
              <<k.svc \in {"dhcp", "ntp", "dns"}, "accept">>,
              <<ServerPermit(p, k.dst), "accept">>,
              <<k.fam = 6 /\ k.svc = "nd", "accept">> >>, "drop")

\* The box's own traffic.
OutputChain(p, k) ==
    IF p.opts.egress = "open" THEN OpenOutput(p, k) ELSE writeRestrictedOutput(p, k)

\* A client's query is answered here, whichever resolver it was for.
Prerouting(p, k) ==
    IF k.in = p.hotspot /\ k.svc = "dns" THEN [k EXCEPT !.svc = "resolver", !.dst = p.gateway]
    ELSE k

-----------------------------------------------------------------------------
(* The steps (route.go).  A step is [op, ...]; what it does to the machine  *)
(* is in Network.tla.                                                       *)

ServerRouteSteps(p) ==
    LET pinned == SelectSeq(p.servers, LAMBDA s : canPin(p, s))
    IN  [i \in 1..Len(pinned) |->
            [op |-> "pin", dst |-> pinned[i].addr,
             dev |-> IF pinned[i].fam = 6 /\ p.v6dev # "" THEN p.v6dev ELSE p.uplink]]

\* Each knob's inverse is Applier.tla's matter; only forwarding changes where
\* packets go.
SysctlSteps == << [op |-> "forward"] >>

VirtualIfaceSteps(p) ==
    IF ~p.virtual THEN <<>>
    ELSE << [op |-> "create", dev |-> p.hotspot] >>
         \o (IF p.nm THEN << [op |-> "unmanage", dev |-> p.hotspot] >> ELSE <<>>)

\* Mutant: only an interface that is taken over is taken from its manager.
ReleasesTakenOnly(p) == p.taken /\ p.manager = "networkmanager"

Releases(p) == p.manager = "networkmanager"

\* The addresses are one step here, one command each in the code.
HotspotReleaseSteps(p) ==
    (IF Releases(p) THEN << [op |-> "unmanage", dev |-> p.hotspot] >> ELSE <<>>)
    \o << [op |-> "strip", dev |-> p.hotspot, nets |-> p.station] >>
    \o (IF p.taken THEN << [op |-> "down", dev |-> p.hotspot], [op |-> "apmode", dev |-> p.hotspot] >>
        ELSE <<>>)

HotspotAddrSteps(p) ==
    << [op |-> "up", dev |-> p.hotspot],
       [op |-> "address", dev |-> p.hotspot, net |-> [addr |-> p.gateway, size |-> p.subnet.size]] >>

PreEngineSteps(p) ==
    << [op |-> "table"] >> \o SysctlSteps \o VirtualIfaceSteps(p) \o HotspotReleaseSteps(p)
    \o HotspotAddrSteps(p) \o ServerRouteSteps(p)

TunnelAddrSteps(p) ==
    << [op |-> "address", dev |-> TunName, net |-> [addr |-> p.tunaddr, size |-> p.tunsubnet.size]] >>

\* Mutant: the tunnel's table holds the tunnel's route alone.
TunnelRouteStepsBare(p) ==
    IF p.opts.strategy = "split" THEN << [op |-> "halves"] >>
    ELSE << [op |-> "tunroute"], [op |-> "rule"] >>

\* The fourth step, a rule for a mark nothing sets, moves no packet.
TunnelRouteSteps(p) ==
    IF p.opts.strategy = "split" THEN << [op |-> "halves"] >>
    ELSE << [op |-> "subnetroute"], [op |-> "tunroute"], [op |-> "rule"] >>

PostEngineSteps(p) == TunnelAddrSteps(p) \o TunnelRouteSteps(p)

-----------------------------------------------------------------------------
(* The engine's document (xcfg/build.go).                                   *)

\* The direct outbound is bound to the uplink where the host's own traffic
\* enters the tunnel (privsvc/plans.go, tunnelFactsOf).
DirectInterface(p) ==
    IF p.opts.platform = "windows" \/ p.opts.strategy = "split" THEN p.uplink ELSE ""

\* Mutant: what the tunnel alone can reach is private like the rest.
LoopGuardNone(p, a) == FALSE

LoopGuard(p, a) == Contains(p.tunsubnet, a) \/ Contains(Multicast, a)

\* The routing rules in their order; the local resolver's and the DNS app's own
\* queries are told by their inbound, before any address is looked at.
Outbound(p, inbound, k) ==
    Decide(<< <<inbound = "local-dns-in", "dns-out">>,
              <<inbound = "resolver-in", "proxy">>,
              <<k.svc = "dns", "dns-out">>,
              <<DirectInterface(p) # "" /\ k.dst = Loopback, "direct-local">>,
              <<LoopGuard(p, k.dst), "block">>,
              <<\E q \in Private : Contains(q, k.dst), "direct">> >>, "proxy")
============================================================================

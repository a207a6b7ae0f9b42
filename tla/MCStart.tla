------------------------------ MODULE MCStart ------------------------------
(* Switching the box on, from two sides: the calls, the lock and the         *)
(* accidents around a start (PrivService), and the machine one start is      *)
(* planned for and carried out on (Network).  The sides share no state: one  *)
(* is chosen at the start and only it moves, the other rests in one of its   *)
(* initial states.                                                           *)
EXTENDS MCPrivService, Sequences

CONSTANTS
    NoAddr, APIfaceName, TunName, Web, Loopback, HomeGateway, PoolFirst, PoolLast,
    JoinChannels, HotspotPool, TunnelPool, LinkLocal, Multicast, Private, PrivateUse,
    SubnetSizes, HomeNet

VARIABLES side, m, k, cfg, servers, facts, at, changes, asked, made, access, stage

K == INSTANCE Machines

MCCases == K!mcCases

N == INSTANCE Network WITH plan <- made, hp <- access, pc <- stage, Cases <- MCCases

nvars == <<m, k, asked, cfg, servers, facts, made, access, stage, at, changes>>

\* Addresses are 0..63: two hotspot networks and two tunnel networks of four addresses,
\* link-local, multicast, the internet from 32 on and the home network at 60.
Net(a, n) == [addr |-> a, size |-> n]
mcHotspotPool == <<Net(0, 4), Net(4, 4)>>
mcTunnelPool  == <<Net(16, 4), Net(20, 4)>>
mcLinkLocal   == Net(24, 4)
mcMulticast   == Net(28, 4)
mcPrivate     == {Net(0, 32), Net(60, 4)}
mcPrivateUse  == {Net(0, 16), Net(16, 8), Net(60, 4)}
mcHomeNet     == Net(62, 4)

-----------------------------------------------------------------------------
AtRest == CHOOSE c \in MCCases : c.cfg.moves = 0

MCInit ==
    /\ side \in {"service", "network"}
    /\ Init /\ (side # "service" => port = "free")
    /\ N!Init
    /\ side # "network" => [m |-> m, req |-> asked, cfg |-> cfg, servers |-> servers] = AtRest

MCNext ==
    \/ side = "service" /\ Next   /\ UNCHANGED <<side, nvars>>
    \/ side = "network" /\ N!Next /\ UNCHANGED <<side, vars>>

MCSpec == MCInit /\ [][MCNext]_<<side, vars, nvars>>

-----------------------------------------------------------------------------
\* A device's packet goes into the tunnel or nowhere (nftables.go, RulesetFor).
OnlyThroughTheTunnel == side = "network" => N!OnlyThroughTheTunnel

\* The box answers the devices it hands addresses to, and the answer gets back to
\* them (route.go, TunnelRouteSteps; nftables.go, writeRestrictedOutput).
ServesItsDevices == side = "network" => N!ServesItsDevices

\* The engine reaches its server and never itself (plans.go, tunnelFactsOf; build.go).
ReachesItsServer == side = "network" => N!ReachesItsServer

\* The networks the box adds overlap none that was there (plan.go, PlanNetwork).
SparesWhatIsThere == side = "network" => N!SparesWhatIsThere

\* A running hotspot is on no other network (verify.go; HotspotReleaseSteps).
RunsOnItsOwn == side = "network" => N!RunsOnItsOwn
=============================================================================

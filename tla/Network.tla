------------------------------ MODULE Network ------------------------------
(***************************************************************************)
(* One start of the appliance on Linux, from detection to the running      *)
(* hotspot, on a machine that keeps moving underneath it: the plan is made *)
(* from what detection read, its steps are run one at a time, and meanwhile*)
(* NetworkManager joins and leaves networks, the cable is pulled, the      *)
(* radio refuses an interface, the engine dies (privsvc: start.go,         *)
(* validate.go, plans.go, readback.go; netcfg: detect.go, verify.go).      *)
(*                                                                         *)
(* m is the machine itself, in the shape of what detection reports of it;  *)
(* the manager of an interface is here who really holds it.  k is what the *)
(* steps put into the kernel beside that.                                  *)
(***************************************************************************)
EXTENDS Ruleset

CONSTANTS
    Cases,          \* [m, req, cfg, servers]: machines, and what is asked of them;
                    \* cfg.moves bounds the changes of the machine during one start
    PrivateUse,     \* the prefixes netip.Addr.IsPrivate knows
    SubnetSizes,    \* of the networks that may be chosen by hand, /30 to /8
    PoolFirst, PoolLast,    \* the DHCP range, as offsets into the hotspot's network
    JoinChannels,   \* channels of the network around,
    HomeNet, HomeGateway,   \* the address it gives, and its gateway
    Web             \* somewhere on the internet

Channels2GHz == 1..13
Channels5GHz == {36, 40, 44, 48, 149, 153, 157, 161, 165}
OurSSID == "caspian"

VARIABLES
    m, k,
    asked, cfg, servers,    \* the request, the configuration, the server's addresses
    facts,                  \* what detection last read
    plan, hp,               \* the plan, and the access point made from it
    pc, at,                 \* where the start is, and the step it is at
    changes

vars == <<m, k, asked, cfg, servers, facts, plan, hp, pc, at, changes>>

Untouched == [table |-> "none", forward |-> FALSE, pins |-> {}, tun |-> FALSE,
              tunnet |-> NoNet, subnetroute |-> FALSE, tunroute |-> FALSE, rule |-> FALSE,
              halves |-> FALSE]
NoAP == [iface |-> "", channel |-> 0, band |-> "", first |-> NoAddr, last |-> NoAddr]

-----------------------------------------------------------------------------
(* Detection.  Two of its questions may go unanswered: who manages an       *)
(* interface, and whether it is joined.                                     *)

Seen(w, nm, probe) ==
    [w EXCEPT !.manager = IF ~nm THEN "unknown" ELSE w.manager,
              !.known = probe /\ w.type # "AP",
              !.assoc = probe /\ w.type # "AP" /\ w.assoc]

Detect(nm, probe) ==
    [m EXCEPT !.nm = nm,
              !.wireless = [i \in 1..Len(m.wireless) |-> Seen(m.wireless[i], nm, probe)]]

Readings == {Detect(nm, probe) : nm \in {FALSE, m.nm}, probe \in BOOLEAN}

-----------------------------------------------------------------------------
(* Validation, and the access point made from a plan.                       *)

\* Before anything is read.  r.sound: the policies, the log level, the country, the name
\* and the password are among those this build takes.  Of a network chosen by hand the
\* address has to be private and the size one with room; the rest of the network is
\* not looked at.
validateStatic(r) ==
    /\ r.sound
    /\ r.band \in {"", Band2GHz, Band5GHz}
    /\ r.subnet # NoNet => /\ \E q \in PrivateUse : Contains(q, r.subnet.addr)
                           /\ r.subnet.size \in SubnetSizes

\* The name of the interface to be created is no override.
netOptionsFor(r, c) ==
    [platform |-> c.platform, strategy |-> c.strategy, egress |-> c.egress,
     isolation |-> c.isolation, ipv6 |-> "block", uplink |-> r.uplink,
     hotspot |-> IF r.hotspot = APIfaceName THEN "" ELSE r.hotspot,
     band |-> r.band, subnet |-> r.subnet]

apCapable(f, name) ==
    \E i \in 1..Len(f.phys) :
        /\ SupportsAP(f.phys[i])
        /\ \/ f.phys[i].name = name
           \/ Some(f.wireless, LAMBDA w : w.phy = f.phys[i].name /\ w.name = name)

validateAgainstFacts(r, f) ==
    /\ r.uplink # "" => /\ LinkByName(f, r.uplink) # NoLink
                        /\ Some(f.routes, LAMBDA x : x.fam = 4 /\ x.dev = r.uplink /\ ~x.down)
    /\ r.hotspot \notin {"", APIfaceName} => apCapable(f, r.hotspot)

validateAgainstPlan(r, p) ==
    r.channel # 0 => /\ p.pinned => r.channel = p.channel
                     /\ p.usable # {} => r.channel \in p.usable

bandForChannel(ch) == IF ch > 14 THEN Band5GHz ELSE Band2GHz

validChannel(band, ch) == ch \in (IF band = Band2GHz THEN Channels2GHz ELSE Channels5GHz)

\* What the radio reported, compared with what is asked of it.
RadioCheck(f, p, ch) ==
    LET phy == PhyByName(f, p.phy)
        combo == APWithStation(phy)
    IN  /\ SupportsAP(phy)
        /\ p.pinned /\ combo.channels <= 1 => ch = p.channel
        /\ UsableChannels(phy) # {} => ch \in UsableChannels(phy)

\* NoAP stands for a refusal.
hotspotPlanFor(p, f, r) ==
    LET ch   == IF r.channel # 0 /\ ~p.pinned THEN r.channel ELSE p.channel
        band == bandForChannel(ch)
        a    == Base(p.subnet)
    IN  IF /\ r.country # ""
           /\ PoolLast < p.subnet.size
           /\ validChannel(band, ch)
           /\ RadioCheck(f, p, ch)
        THEN [iface |-> p.hotspot, channel |-> ch, band |-> band,
              first |-> a + PoolFirst, last |-> a + PoolLast]
        ELSE NoAP

-----------------------------------------------------------------------------
Init ==
    /\ \E c \in Cases : m = c.m /\ asked = c.req /\ cfg = c.cfg /\ servers = c.servers
    /\ k = Untouched
    /\ facts = m
    /\ plan = Blank(m, netOptionsFor(asked, cfg)) /\ hp = NoAP
    /\ pc = "idle" /\ at = 1 /\ changes = 0

\* The start failed; what it did is undone (PrivService.tla, Applier.tla).
Halt == /\ pc' = "refused" /\ hp' = NoAP /\ k' = Untouched /\ at' = 1
        /\ UNCHANGED <<m, facts, plan, asked, cfg, servers, changes>>

Go(next) == pc' = next /\ at' = 1

\* A plan that validation and the access point's own checks accept is applied.
TakeUp(p, f) ==
    LET h == hotspotPlanFor(p, f, asked)
    IN  IF p.err = "" /\ validateAgainstPlan(asked, p) /\ h # NoAP
        THEN plan' = p /\ hp' = h /\ Go("apply")
        ELSE pc' = "refused" /\ UNCHANGED <<plan, hp, at>>

\* What can never work is refused with nothing read.
PlanRefused ==
    /\ pc = "idle" /\ ~validateStatic(asked) /\ pc' = "refused"
    /\ UNCHANGED <<m, k, asked, cfg, servers, facts, plan, hp, at, changes>>

\* Detect, validate, plan.
Plan ==
    /\ pc = "idle" /\ validateStatic(asked)
    /\ \E f \in Readings :
         /\ facts' = f
         /\ IF validateAgainstFacts(asked, f)
            THEN TakeUp(PlanNetwork(f, servers, netOptionsFor(asked, cfg)), f)
            ELSE pc' = "refused" /\ UNCHANGED <<plan, hp, at>>
    /\ UNCHANGED <<m, k, asked, cfg, servers, changes>>

-----------------------------------------------------------------------------
(* What a step does.                                                        *)

Iface(name, F(_)) ==
    [m EXCEPT !.wireless = [i \in 1..Len(m.wireless) |->
        IF m.wireless[i].name = name THEN F(m.wireless[i]) ELSE m.wireless[i]]]

Link(mm, name, F(_)) ==
    [mm EXCEPT !.links = [i \in 1..Len(mm.links) |->
        IF mm.links[i].name = name THEN F(mm.links[i]) ELSE mm.links[i]]]

\* An interface goes down: every route through it goes with it.
Unrouted(dev, mm) == [mm EXCEPT !.routes = SelectSeq(@, LAMBDA r : r.dev # dev)]

Parted(w) == [w EXCEPT !.assoc = FALSE, !.ssid = ""]

Created(name) ==
    [m EXCEPT !.wireless = Append(@, [NoIface EXCEPT !.name = name, !.phy = plan.phy, !.type = "AP",
                                      !.manager = IF m.nm THEN "networkmanager" ELSE "nothing"]),
              !.links = Append(@, [NoLink EXCEPT !.name = name])]

OnMachine(s) ==
    CASE s.op = "create"   -> Created(s.dev)
      [] s.op = "unmanage" -> Iface(s.dev, LAMBDA w : [w EXCEPT !.manager = "nothing"])
      [] s.op = "strip"    -> Link(m, s.dev, LAMBDA l : [l EXCEPT !.prefixes = @ \ s.nets])
      [] s.op = "down"     -> Link(Unrouted(s.dev, Iface(s.dev, Parted)), s.dev,
                                   LAMBDA l : [l EXCEPT !.up = FALSE])
      [] s.op = "apmode"   -> Iface(s.dev, LAMBDA w : [Parted(w) EXCEPT !.type = "AP"])
      [] s.op = "up"       -> Link(m, s.dev, LAMBDA l : [l EXCEPT !.up = TRUE])
      [] s.op = "address" /\ s.dev # TunName ->
             Link(m, s.dev, LAMBDA l : [l EXCEPT !.prefixes = @ \cup {s.net}])
      [] OTHER -> m

InKernel(s) ==
    CASE s.op = "table"       -> [k EXCEPT !.table = "normal"]
      [] s.op = "forward"     -> [k EXCEPT !.forward = TRUE]
      [] s.op = "pin"         -> [k EXCEPT !.pins = @ \cup {[dst |-> s.dst, dev |-> s.dev]}]
      [] s.op = "address" /\ s.dev = TunName -> [k EXCEPT !.tunnet = s.net]
      [] s.op = "subnetroute" -> [k EXCEPT !.subnetroute = TRUE]
      [] s.op = "tunroute"    -> [k EXCEPT !.tunroute = TRUE]
      [] s.op = "rule"        -> [k EXCEPT !.rule = TRUE]
      [] s.op = "halves"      -> [k EXCEPT !.halves = TRUE]
      [] OTHER -> k

\* The commands the kernel refuses: an address or a route on a device that is
\* gone, a type set on an interface that is up.
Possible(s) ==
    CASE s.op \in {"tunroute", "halves"} -> k.tun
      [] s.op = "address" /\ s.dev = TunName -> k.tun
      [] s.op = "pin" -> LinkByName(m, s.dev).up
      [] s.op = "apmode" -> ~LinkByName(m, s.dev).up
      [] OTHER -> TRUE

Steps == CASE pc = "apply" -> PreEngineSteps(plan)
           [] pc = "post"  -> PostEngineSteps(plan)
           [] OTHER -> <<>>

Apply ==
    /\ pc \in {"apply", "post"} /\ at <= Len(Steps)
    /\ Possible(Steps[at])
    /\ m' = OnMachine(Steps[at]) /\ k' = InKernel(Steps[at])
    /\ at' = at + 1
    /\ UNCHANGED <<pc, asked, cfg, servers, facts, plan, hp, changes>>

\* Any step may fail; what was done is undone as Applier.tla says.
StepFails ==
    /\ pc \in {"apply", "post"} /\ at <= Len(Steps)
    /\ Halt

\* The radio would not create the interface: what was done is undone, the machine
\* is read again, and the plan is moved onto the interface that is there.
CreateRefused ==
    /\ pc = "apply" /\ at <= Len(Steps) /\ Steps[at].op \in {"create", "apmode"}
    /\ k' = Untouched
    /\ \E f \in Readings :
         /\ facts' = f
         /\ IF plan.virtual
            THEN TakeUp(HotspotTakeover(plan, f), f)
            ELSE pc' = "refused" /\ UNCHANGED <<plan, hp, at>>
    /\ UNCHANGED <<m, asked, cfg, servers, changes>>

Applied ==
    /\ pc \in {"apply", "post"} /\ at > Len(Steps)
    /\ Go(IF pc = "apply" THEN "released" ELSE "ap")
    /\ UNCHANGED <<m, k, asked, cfg, servers, facts, plan, hp, changes>>

-----------------------------------------------------------------------------
(* Reading back.                                                            *)

Foreign == {q \in LinkByName(m, plan.hotspot).prefixes :
                ~IsLinkLocal(q) /\ ~Contains(plan.subnet, q.addr)}

AssertReleased ==
    LET w == WirelessByName(m, plan.hotspot)
    IN  w # NoIface /\ ~w.assoc /\ w.ssid = "" /\ Foreign = {}

AssertAccessPoint ==
    LET w == WirelessByName(m, plan.hotspot) IN w.type = "AP" /\ w.ssid = OurSSID

Check ==
    /\ pc = "released"
    /\ IF AssertReleased
       THEN Go("engine") /\ UNCHANGED <<m, k, facts, plan, hp, asked, cfg, servers, changes>>
       ELSE Halt

\* The engine creates the tunnel device, or does not start.
EngineUp ==
    /\ pc = "engine"
    /\ k' = [k EXCEPT !.tun = TRUE] /\ Go("post")
    /\ UNCHANGED <<m, facts, plan, hp, asked, cfg, servers, changes>>

\* The access point's own process puts the interface into its mode.
AccessPointUp ==
    /\ pc = "ap"
    /\ m' = Iface(hp.iface, LAMBDA w : [w EXCEPT !.type = "AP", !.ssid = OurSSID,
                                                !.assoc = FALSE, !.chan = hp.channel])
    /\ Go("readback")
    /\ UNCHANGED <<k, facts, plan, hp, asked, cfg, servers, changes>>

Unable == pc \in {"engine", "ap"} /\ Halt

ReadBack ==
    /\ pc = "readback"
    /\ IF AssertAccessPoint
       THEN Go("running") /\ UNCHANGED <<m, k, facts, plan, hp, asked, cfg, servers, changes>>
       ELSE Halt

\* The panel's switch for the devices' traffic.
Cut ==
    /\ pc = "running" /\ k.table = "normal"
    /\ k' = [k EXCEPT !.table = "cut"]
    /\ UNCHANGED <<m, pc, at, facts, plan, hp, asked, cfg, servers, changes>>

Restore ==
    /\ pc = "running" /\ k.table = "cut"
    /\ k' = [k EXCEPT !.table = "normal"]
    /\ UNCHANGED <<m, pc, at, facts, plan, hp, asked, cfg, servers, changes>>

-----------------------------------------------------------------------------
(* The machine moves.                                                       *)

Moves == changes < cfg.moves /\ changes' = changes + 1 /\ pc # "refused"
         /\ UNCHANGED <<pc, at, asked, cfg, servers, facts, plan, hp>>

WifiRoute(dev) == [NoRoute EXCEPT !.dev = dev, !.gw = HomeGateway, !.metric = 600]

\* NetworkManager joins a network with an interface it holds.
Joins ==
    /\ Moves
    /\ \E i \in 1..Len(m.wireless), ch \in JoinChannels :
         LET w == m.wireless[i]
             j == Iface(w.name, LAMBDA x : [x EXCEPT !.assoc = TRUE, !.ssid = "home", !.chan = ch])
         IN  /\ w.manager = "networkmanager" /\ w.type = "managed" /\ ~w.assoc /\ m.nm
             /\ m' = [Link(j, w.name, LAMBDA l : [l EXCEPT !.up = TRUE, !.prefixes = @ \cup {HomeNet}])
                      EXCEPT !.routes = Append(@, WifiRoute(w.name))]
    /\ UNCHANGED k

\* A network goes away, its addresses and every route through it with it.  An interface
\* its manager has let go keeps the address, and the route, the steps gave it.
Lost ==
    /\ Moves
    /\ \E r \in {m.routes[i] : i \in 1..Len(m.routes)} :
         LET held == WirelessByName(m, r.dev).manager # "nothing"
             own  == [addr |-> plan.gateway, size |-> plan.subnet.size]
         IN  /\ m' = Link(Unrouted(r.dev, Iface(r.dev, Parted)), r.dev,
                          LAMBDA l : [l EXCEPT !.up = FALSE,
                                               !.prefixes = IF held THEN {} ELSE @ \cap {own}])
             /\ k' = [k EXCEPT !.pins = {q \in @ : q.dev # r.dev},
                               !.subnetroute = @ /\ ~(held /\ r.dev = plan.hotspot)]

\* The engine dies: the device goes, and every route through it.
EngineDies ==
    /\ Moves /\ k.tun
    /\ k' = [k EXCEPT !.tun = FALSE, !.tunnet = NoNet, !.tunroute = FALSE, !.halves = FALSE]
    /\ UNCHANGED m

Next == \/ PlanRefused \/ Plan \/ Apply \/ StepFails \/ CreateRefused \/ Applied \/ Check \/ EngineUp
        \/ AccessPointUp \/ Unable \/ ReadBack \/ Cut \/ Restore
        \/ Joins \/ Lost \/ EngineDies

Spec == Init /\ [][Next]_vars

-----------------------------------------------------------------------------
(* Where the kernel sends a packet.                                         *)

Connected(dst) == First(m.links, LAMBDA l : \E q \in l.prefixes : Contains(q, dst), NoLink).name

\* The main table: the longest match, then the uplink's default.
MainWay(fam, dst) ==
    LET pinned == {q \in k.pins : q.dst = dst}
    IN  CASE pinned # {} -> (CHOOSE q \in pinned : TRUE).dev
          [] pinned = {} /\ Connected(dst) # "" -> Connected(dst)
          [] pinned = {} /\ Connected(dst) = "" /\ k.tunnet # NoNet
             /\ Contains(k.tunnet, dst) -> TunName
          [] pinned = {} /\ Connected(dst) = "" /\ fam = 4 /\ k.halves -> TunName
          [] OTHER -> BestRoute(m, fam).dev

\* A packet from the hotspot's network asks the tunnel's table first, and so does
\* what the box sends from its own address there.
ClientWay(q) ==
    LET own == k.rule /\ q.fam = 4 /\ Contains(plan.subnet, q.src)
    IN  CASE own /\ k.subnetroute /\ Contains(plan.subnet, q.dst) -> plan.hotspot
          [] own /\ ~(k.subnetroute /\ Contains(plan.subnet, q.dst)) /\ k.tunroute -> TunName
          [] OTHER -> MainWay(q.fam, q.dst)

-----------------------------------------------------------------------------
(* Properties.                                                              *)

\* The plan was moved onto an interface the radio already had.
Replanned == plan.fallback # "" /\ ~plan.virtual

Started == pc \notin {"idle", "refused"}

\* Addresses worth sending to: every network there is, the servers, and the web.
Places ==
    {plan.gateway, plan.gateway + 2, plan.peer, Base(Multicast), HomeGateway, Loopback}
    \cup {m.routes[i].gw : i \in 1..Len(m.routes)}
    \cup {servers[i].addr : i \in 1..Len(servers)} \cup {Web}

Packets(in, dsts, services, states) ==
    [in : {in}, out : {""}, fam : {4, 6}, src : {plan.gateway + 1, Web}, dst : dsts,
     svc : services, ct : states]

\* What forwarding does with a packet; "" when it goes nowhere.
ForwardedTo(q) ==
    LET r == [q EXCEPT !.out = IF q.in = plan.hotspot THEN ClientWay(q) ELSE MainWay(q.fam, q.dst)]
    IN  IF k.forward /\ (k.table = "none" \/ ForwardChain(plan, k.table = "cut", r) = "accept")
        THEN r.out ELSE ""

\* A device's packet that is forwarded goes into the tunnel, with an address of
\* the hotspot's network and IPv4, and only the tunnel's packets come back: at
\* every moment from the first step on, whatever happens to the tunnel, to the
\* uplink and to the routes (nftables.go, RulesetFor; route.go).
OnlyThroughTheTunnel ==
    Started /\ k.forward =>
        /\ \A q \in Packets(plan.hotspot, Places, {"web"}, {"new"})
                    \cup Packets(plan.hotspot, {Web}, {"dns", "dot"}, {"new"}) :
             LET r  == Prerouting(plan, q)
                 to == ForwardedTo(r)
             IN  r.svc # "resolver" /\ to # "" =>
                     /\ to = TunName /\ r.fam = 4 /\ r.svc = "web"
                     /\ Contains(plan.subnet, r.src) /\ k.table = "normal"
        /\ \A q \in Packets(plan.uplink, {plan.gateway + 1}, {"web"}, {"new", "established"}) :
             ForwardedTo(q) # plan.hotspot

\* The box's answer to a device.  Connection tracking knows the request it belongs
\* to, but not a lease's.
Answer(svc, d) ==
    [in |-> "", out |-> "", fam |-> 4, src |-> plan.gateway, dst |-> d, svc |-> svc,
     ct |-> IF svc = "dhcp" THEN "new" ELSE "established"]

\* Where NetworkManager was asked and answered, every address the hotspot hands out
\* is served by the box itself, the traffic cut or not and the engine dead or alive,
\* whatever networks came and went while the start was under way: the device's request for a lease, the panel
\* or a name, whichever resolver it was for, is let in, and the answer leaves by the
\* hotspot and is let out.  The answer comes from the hotspot's network, so the rule
\* for that network sends it to the tunnel's table, and where a network chosen by hand
\* lies over the uplink's it is not the main table that brings it home (route.go,
\* TunnelRouteSteps: "without this route the rule below sends it to the tunnel table";
\* nftables.go, writeRestrictedOutput: "without this line the hotspot beacons, devices
\* associate, and not one of them gets an address").
ServesItsDevices ==
    pc \in {"readback", "running"} /\ (facts.nm \/ ~m.nm) =>
        \A d \in hp.first..hp.last, svc \in {"dhcp", "panel", "dns"} :
            LET q == [Answer(svc, Web) EXCEPT !.in = plan.hotspot, !.src = d, !.ct = "new"]
                a == Answer(svc, d)
            IN  /\ \A dst \in {plan.gateway, Web} :
                       InputChain(plan, Prerouting(plan, [q EXCEPT !.dst = dst])) = "accept"
                /\ ClientWay(a) = plan.hotspot
                /\ OutputChain(plan, [a EXCEPT !.out = plan.hotspot]) = "accept"

\* The uplink the plan was made for is still as it was.
UplinkKept == \A i \in 1..Len(PinnedServers(plan)) :
                  \E q \in k.pins : q.dst = PinnedServers(plan)[i].addr

\* The engine reaches its server and never itself.  Where it is up and the uplink is as
\* it was, every address it is given for its server is reached through the uplink and
\* let out by the table: the routes, the rules and the document name the same
\* addresses.  And nothing it sends comes back to it: neither its connection to the
\* server nor what it sends out directly takes the tunnel's route, which under two half
\* defaults rests on the pinned routes (plans.go, tunnelFactsOf; build.go).
ReachesItsServer ==
    LET pinned == PinnedServers(plan)
        direct(dst) == IF DirectInterface(plan) # "" THEN DirectInterface(plan) ELSE MainWay(4, dst)
        from(dst) == [in |-> TunName, out |-> "", fam |-> 4, src |-> plan.gateway + 1, dst |-> dst,
                      svc |-> "web", ct |-> "new"]
    IN  /\ k.tun /\ UplinkKept =>
             \A i \in 1..Len(pinned) :
                LET way == MainWay(pinned[i].fam, pinned[i].addr)
                    q == [in |-> "", out |-> way, fam |-> pinned[i].fam, src |-> NoAddr,
                          dst |-> pinned[i].addr, svc |-> "web", ct |-> "new"]
                IN  way \in {plan.uplink, plan.v6dev} /\ OutputChain(plan, q) = "accept"
        /\ k.tun /\ (plan.opts.strategy = "policy" \/ UplinkKept) =>
             \A dst \in Places :
                /\ Outbound(plan, "tun-in", from(dst)) = "direct" => direct(dst) # TunName
                /\ Outbound(plan, "tun-in", from(dst)) = "proxy" =>
                       \A i \in 1..Len(pinned) : MainWay(pinned[i].fam, pinned[i].addr) # TunName

\* The interface the hotspot is on is not the one the internet comes in by, and the
\* two networks the appliance adds overlap neither each other nor, unless chosen
\* by hand, a network the machine was on when the plan was made.
SparesWhatIsThere ==
    Started =>
        /\ plan.hotspot # plan.uplink
        /\ ~Overlaps(plan.subnet, plan.tunsubnet)
        /\ ~Replanned => \A q \in OccupiedPrefixes(facts) :
               /\ ~Overlaps(q, plan.tunsubnet)
               /\ plan.opts.subnet = NoNet => ~Overlaps(q, plan.subnet)

\* Where NetworkManager was asked and answered, a hotspot that is running carries
\* no address of another network and is not joined to one, however often
\* NetworkManager joined networks meanwhile (verify.go; HotspotReleaseSteps).
RunsOnItsOwn ==
    pc = "running" /\ (facts.nm \/ ~m.nm) =>
        /\ Foreign = {} /\ ~WirelessByName(m, plan.hotspot).assoc
        /\ WirelessByName(m, plan.hotspot).ssid = OurSSID
============================================================================

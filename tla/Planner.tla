------------------------------ MODULE Planner ------------------------------
(***************************************************************************)
(* The plan (internal/netcfg/plan.go): from what detection reports, the    *)
(* server's addresses and the options to one arrangement of uplink, radio, *)
(* channel, networks and pinned routes, or to a refusal.                   *)
(*                                                                         *)
(* A plan is a record; its field err is "" or the reason of the refusal.   *)
(* An option is [platform, uplink, hotspot, band, subnet, strategy,        *)
(* egress], with "" and NoNet for what was not chosen.  A server address   *)
(* is [fam, addr].                                                         *)
(***************************************************************************)
EXTENDS Machine

CONSTANTS
    APIfaceName,      \* the interface created for the access point
    TunName,          \* the tunnel device
    HotspotPool, TunnelPool     \* candidate networks, in order

\* What a plan holds before anything is decided.
Blank(f, o) ==
    [err |-> "", opts |-> o, nm |-> f.nm,
     uplink |-> "", gw |-> NoAddr, onlink |-> FALSE, v6gw |-> NoAddr, v6dev |-> "",
     phy |-> "", hotspot |-> "", virtual |-> FALSE, parent |-> "", fallback |-> "",
     taken |-> FALSE, manager |-> "unknown", usable |-> {}, channel |-> 0, pinned |-> FALSE,
     subnet |-> NoNet, gateway |-> NoAddr, station |-> {},
     tunsubnet |-> NoNet, tunaddr |-> NoAddr, peer |-> NoAddr,
     servers |-> <<>>, unpinnable |-> <<>>]

Refuse(p, why) == [p EXCEPT !.err = why]

-----------------------------------------------------------------------------
(* The uplink.                                                              *)

\* An uplink chosen by hand is taken with the first route it has, live or not.
UplinkRoute(f, o) ==
    IF o.uplink = "" THEN PrimaryDefault(f)
    ELSE First(f.routes, LAMBDA r : r.dev = o.uplink /\ r.fam = 4, NoRoute)

ChooseUplink(f, o, p) ==
    LET r  == UplinkRoute(f, o)
        v6 == DefaultV6(f)
    IN  IF r.dev = "" THEN Refuse(p, "NoUplink")
        ELSE [p EXCEPT !.uplink = r.dev, !.gw = r.gw, !.onlink = r.onlink,
                       !.v6gw = v6.gw, !.v6dev = v6.dev]

-----------------------------------------------------------------------------
(* The radio.                                                               *)

\* The interface of the radio whose link must not be disturbed: the uplink,
\* whatever its state, or else the first that is joined to a network.
StationOf(f, phy, uplink) ==
    LET mine(w) == w.phy = phy.name
    IN  First(f.wireless, LAMBDA w : mine(w) /\ w.name = uplink,
              First(f.wireless, LAMBDA w : mine(w) /\ StationLink(w), NoIface))

Candidate(f, phy, uplink) ==
    LET iface == First(f.wireless, LAMBDA w : w.phy = phy.name, NoIface)
    IN  [phy |-> phy, iface |-> iface, station |-> StationOf(f, phy, uplink),
         bus |-> LinkByName(f, iface.name).bus]

apCandidates(f, uplink) ==
    LET able == SelectSeq(f.phys, SupportsAP)
    IN  [i \in 1..Len(able) |-> Candidate(f, able[i], uplink)]

\* Auto prefers 2.4 GHz; a band that was asked for is met or refused.
chooseChannel(p, phy, band) ==
    LET in == UsableChannelsIn(phy, band)
        g  == UsableChannelsIn(phy, Band2GHz)
    IN  IF band # BandAuto
        THEN IF in = {} THEN Refuse(p, "BandUnavailable") ELSE [p EXCEPT !.channel = Lowest(in)]
        ELSE CASE g # {} -> [p EXCEPT !.channel = Lowest(g)]
               [] g = {} /\ p.usable # {} -> [p EXCEPT !.channel = Lowest(p.usable)]
               [] OTHER -> p

\* The radio can be on one channel only: the joined network's.
PinChannel(p, phy, station, band) ==
    LET q == [p EXCEPT !.channel = station.chan, !.pinned = TRUE]
        on == BandOfChannel(phy, station.chan)
    IN  IF band = BandAuto \/ band = (IF on = BandAuto THEN BandOf(station.mhz) ELSE on) THEN q
        ELSE Refuse(q, "BandUnavailable")

\* The radio cannot do both, and what it is joined to is not the uplink.
takeOver(p, c) ==
    chooseChannel([p EXCEPT !.hotspot = c.station.name, !.taken = TRUE,
                            !.manager = c.station.manager], c.phy, p.opts.band)

\* Mutant: the uplink too.
FallbackAny(p, c) == c.station.name

\* The interface to take over if the radio will not create one; never the uplink.
FallbackOf(p, c) == IF c.station.name # p.uplink THEN c.station.name ELSE ""

\* An access point beside a station that keeps its link.
BesideStation(p, c) ==
    LET q == IF p.opts.platform = "windows"
             THEN [p EXCEPT !.hotspot = c.station.name, !.manager = c.station.manager]
             ELSE [p EXCEPT !.hotspot = APIfaceName, !.virtual = TRUE, !.parent = c.station.name,
                            !.fallback = FallbackOf(p, c)]
    IN  CASE ~DeclaresAPWithStation(c.phy) -> Refuse(q, "APConflictsWithUplink")
          [] DeclaresAPWithStation(c.phy) /\ APWithStation(c.phy).channels = 1
             /\ StationLink(c.station) -> PinChannel(q, c.phy, c.station, p.opts.band)
          [] OTHER -> chooseChannel(q, c.phy, p.opts.band)

acceptHotspot(p0, c) ==
    LET p == [p0 EXCEPT !.phy = c.phy.name, !.usable = UsableChannels(c.phy)]
    IN  CASE c.station.name # "" /\ ~DeclaresAPWithStation(c.phy) /\ c.station.name # p.uplink ->
               takeOver(p, c)
          [] c.station.name # "" /\ (DeclaresAPWithStation(c.phy) \/ c.station.name = p.uplink) ->
               BesideStation(p, c)
          [] c.station.name = "" /\ c.iface.name # "" ->
               chooseChannel([p EXCEPT !.hotspot = c.iface.name, !.manager = c.iface.manager],
                             c.phy, p.opts.band)
          [] OTHER ->
               chooseChannel([p EXCEPT !.hotspot = APIfaceName, !.virtual = TRUE],
                             c.phy, p.opts.band)

preferUSB(cands) == First(cands, LAMBDA c : c.bus = "usb", cands[1])

\* The radios in order of what the hotspot costs: nothing; room beside a network;
\* a network that ends; room beside the internet connection.
Ladder(cands, uplink) ==
    LET shares(c) == DeclaresAPWithStation(c.phy)
    IN  << SelectSeq(cands, LAMBDA c : c.station.name = ""),
           SelectSeq(cands, LAMBDA c : c.station.name \notin {"", uplink} /\ shares(c)),
           SelectSeq(cands, LAMBDA c : c.station.name \notin {"", uplink} /\ ~shares(c)),
           SelectSeq(cands, LAMBDA c : c.station.name = uplink /\ shares(c)) >>

chooseHotspot(f, p) ==
    LET cands == apCandidates(f, p.uplink)
        named(c) == p.opts.hotspot \in {c.iface.name, c.phy.name}
        rungs == SelectSeq(Ladder(cands, p.uplink), LAMBDA s : s # <<>>)
    IN  CASE cands = <<>> -> Refuse(p, "NoAPCapableInterface")
          [] cands # <<>> /\ p.opts.hotspot # "" ->
               IF Some(cands, named) THEN acceptHotspot(p, First(cands, named, cands[1]))
               ELSE Refuse(p, "NoAPCapableInterface")
          [] cands # <<>> /\ p.opts.hotspot = "" /\ rungs # <<>> ->
               acceptHotspot(p, preferUSB(rungs[1]))
          [] OTHER -> Refuse(p, "APConflictsWithUplink")

-----------------------------------------------------------------------------
(* The networks and the server.                                             *)

\* The addresses an existing interface must lose before anything binds to it.
foreignPrefixes(f, name, hotspot) ==
    {q \in LinkByName(f, name).prefixes : ~IsLinkLocal(q) /\ ~Contains(hotspot, q.addr)}

TunnelAvoids(taken, hotspot) == taken \cup {hotspot}

\* A network chosen by hand is used as it is, even over one the machine is on.
ChooseNetworks(f, p) ==
    LET taken == OccupiedPrefixes(f)
        sub   == IF p.opts.subnet # NoNet THEN Masked(p.opts.subnet)
                 ELSE ChooseSubnet(HotspotPool, taken)
        tun   == ChooseSubnet(TunnelPool, TunnelAvoids(taken, sub))
    IN  CASE sub = NoNet -> Refuse(p, "NoFreeSubnet")
          [] sub # NoNet /\ GatewayAddr(sub) = NoAddr -> Refuse(p, "SubnetTooSmall")
          [] sub # NoNet /\ GatewayAddr(sub) # NoAddr /\ tun = NoNet -> Refuse(p, "NoFreeSubnet")
          [] OTHER -> [p EXCEPT !.subnet = sub, !.gateway = GatewayAddr(sub),
                                !.station = IF p.virtual THEN {}
                                            ELSE foreignPrefixes(f, p.hotspot, sub),
                                !.tunsubnet = tun, !.tunaddr = GatewayAddr(tun),
                                !.peer = PeerAddr(tun)]

canPin(p, s) == IF s.fam = 4 THEN p.uplink # "" ELSE p.v6gw # NoAddr \/ p.v6dev # ""

PinServers(p, servers) ==
    LET q == [p EXCEPT !.servers = servers,
                       !.unpinnable = SelectSeq(servers, LAMBDA s : ~canPin(p, s))]
    IN  CASE servers = <<>> -> Refuse(q, "NoServerAddress")
          [] servers # <<>> /\ Len(q.unpinnable) = Len(servers) ->
               Refuse(q, "ServerFamilyUnreachable")
          [] OTHER -> q

\* The addresses the pre-engine steps pin, and the ones the engine is told.
PinnedServers(p) ==
    SelectSeq(p.servers,
              LAMBDA s : canPin(p, s) /\ ~(p.opts.platform = "windows" /\ s.fam = 6))

\* The first refusal is the answer.
PlanNetwork(f, servers, o) ==
    LET p1 == ChooseUplink(f, o, Blank(f, o))
        p2 == IF p1.err # "" THEN p1 ELSE chooseHotspot(f, p1)
        p3 == IF p2.err # "" THEN p2 ELSE ChooseNetworks(f, p2)
    IN  IF p3.err # "" THEN p3 ELSE PinServers(p3, servers)

-----------------------------------------------------------------------------
(* The fallback when the radio would not create the interface.              *)

\* Released by its manager, or held by nobody and used by nobody.
Takeable(f, w) ==
    LET down == LinkByName(f, w.name) # NoLink /\ ~LinkByName(f, w.name).up
    IN  w.manager = "networkmanager" \/ (w.manager = "nothing" /\ (~InUse(w) \/ down))

\* Decided on facts read again, the uplink and the networks kept from the plan.
HotspotTakeover(p, f) ==
    LET w == WirelessByName(f, p.fallback)
    IN  CASE ~p.virtual -> Refuse(p, "NoFallback")
          [] p.virtual /\ p.fallback = "" -> Refuse(p, "NoTakeoverCandidate")
          [] p.virtual /\ p.fallback # "" /\ (w = NoIface \/ ~Takeable(f, w)) ->
               Refuse(p, "InterfaceOwnerUnknown")
          [] OTHER ->
               [p EXCEPT !.hotspot = p.fallback, !.virtual = FALSE, !.parent = "",
                         !.taken = TRUE, !.manager = w.manager,
                         !.station = {q \in LinkByName(f, w.name).prefixes : ~IsLinkLocal(q)},
                         !.pinned = FALSE,
                         !.channel = IF p.usable = {} THEN 0 ELSE Lowest(p.usable)]
============================================================================

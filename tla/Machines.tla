------------------------------ MODULE Machines ------------------------------
(***************************************************************************)
(* Machines, and what is asked of them: the cases Network is checked on.   *)
(***************************************************************************)
EXTENDS Planner

CONSTANTS HomeNet, HomeGateway      \* the network around, and its gateway

Net(a, n) == [addr |-> a, size |-> n]

-----------------------------------------------------------------------------
Freq(ch, mhz) == [chan |-> ch, mhz |-> mhz, disabled |-> FALSE, noir |-> FALSE, radar |-> FALSE]
F24 == <<[Freq(1, 2412) EXCEPT !.noir = TRUE], Freq(6, 2437)>>
F5  == <<Freq(36, 5180), Freq(40, 5200)>>
F6  == <<Freq(1, 5955)>>

Limit(n, types) == [max |-> n, types |-> types]
Beside(n) == <<[limits |-> <<Limit(1, {"managed"}), Limit(1, {"AP"})>>, total |-> 2, channels |-> n]>>
OneOf == <<[limits |-> <<Limit(1, {"managed", "AP"})>>, total |-> 2, channels |-> 2]>>

Phy(name, freqs, combos) ==
    [name |-> name, modes |-> {"managed", "AP"}, combos |-> combos, freqs |-> freqs]
Deaf == [Phy("phy0", F24, <<>>) EXCEPT !.modes = {"managed"}]

Iface0(name, phy) == [NoIface EXCEPT !.name = name, !.phy = phy, !.manager = "networkmanager"]
Idle(w) == w
Leftover(w) == [w EXCEPT !.chan = 36, !.mhz = 5180]
On(w, ch) == [w EXCEPT !.chan = ch, !.mhz = IF ch > 14 THEN 5000 + 5 * ch ELSE 2407 + 5 * ch,
                       !.assoc = TRUE, !.ssid = "home"]

Eth(net) == [name |-> "eth0", up |-> TRUE, bus |-> "", prefixes |-> {net, Net(25, 4)}]
EthRoute(net) == [NoRoute EXCEPT !.dev = "eth0", !.gw = Base(net) + 1, !.metric = 100]
Route6(dev) == [NoRoute EXCEPT !.fam = 6, !.dev = dev, !.gw = 50, !.metric = 100]

WLink(w, bus) == [name |-> w.name, up |-> TRUE, bus |-> bus,
                  prefixes |-> IF w.assoc THEN {HomeNet} ELSE {}]
WRoute(w) ==
    IF w.assoc THEN <<[NoRoute EXCEPT !.dev = w.name, !.gw = HomeGateway, !.metric = 600]>> ELSE <<>>

\* wired: the address of eth0, or NoNet for a box without a cable; usb: a second radio, or not.
Box(phy, w, wired, usb, nm) ==
    [phys     |-> <<phy>> \o (IF usb = NoIface THEN <<>> ELSE <<Phy("phy1", F24, <<>>)>>),
     wireless |-> <<w>> \o (IF usb = NoIface THEN <<>> ELSE <<usb>>),
     links    |-> (IF wired = NoNet THEN <<>> ELSE <<Eth(wired)>>)
                  \o <<WLink(w, "")>> \o (IF usb = NoIface THEN <<>> ELSE <<WLink(usb, "usb")>>),
     routes   |-> (IF wired = NoNet THEN <<>> ELSE <<Route6("eth0"), EthRoute(wired)>>)
                  \o WRoute(w) \o WRoute(usb),
     nm       |-> nm]

Away == Net(10, 4)     \* a network that clashes with nothing
Clash == Net(2, 2)     \* one inside the first hotspot network

Wlan0 == Iface0("wlan0", "phy0")
Wlan1 == Iface0("wlan1", "phy1")
Unmanaged(w) == [w EXCEPT !.manager = "nothing"]

-----------------------------------------------------------------------------
Ask == [uplink |-> "", hotspot |-> "", band |-> "", channel |-> 0, subnet |-> NoNet,
        country |-> "GB", sound |-> TRUE]
Conf == [platform |-> "linux", strategy |-> "policy", egress |-> "restricted",
         isolation |-> TRUE, moves |-> 0]
Srv4 == [fam |-> 4, addr |-> 41]
Srv6 == [fam |-> 6, addr |-> 45]

Case(mm, r, c, s) == [m |-> mm, req |-> r, cfg |-> c, servers |-> s]

\* Which radio, which interface, which channel: many machines that stand still.
Radios ==
    {Phy("phy0", F24 \o F5, co) : co \in {<<>>, Beside(1), Beside(2), OneOf}}
    \cup {Phy("phy0", fr, co) : fr \in {F5, F6 \o F24}, co \in {<<>>, Beside(1)}}
    \cup {Deaf}
Stations == {Idle(Wlan0), Leftover(Wlan0), On(Wlan0, 6), On(Wlan0, 36), On(Unmanaged(Wlan0), 36)}
Boxes(radios, usbs) ==
    {Box(phy, w, wired, usb, TRUE) :
        phy \in radios, w \in Stations, wired \in {NoNet, Away}, usb \in usbs}
Bands == {[Ask EXCEPT !.band = b] : b \in {"", Band2GHz, Band5GHz}}
Overrides == {[Ask EXCEPT !.hotspot = h] : h \in {"wlan0", "phy1", "ap0"}}
             \cup {[Ask EXCEPT !.channel = ch] : ch \in {6, 36}}
             \cup {[Ask EXCEPT !.uplink = "wlan0"], [Ask EXCEPT !.country = ""]}
Still == {Case(b, r, Conf, <<Srv4>>) : b \in Boxes(Radios, {NoIface, On(Wlan1, 6)}),
                                      r \in Bands}
         \cup {Case(b, r, Conf, <<Srv4>>) : b \in Boxes({Phy("phy0", F24 \o F5, Beside(1))}, {Idle(Wlan1)}),
                                           r \in Overrides}

\* Few machines that move, under every strategy and table.
Movers ==
    {Case(Box(Phy("phy0", F24 \o F5, co), w, wired, NoIface, TRUE),
          Ask,
          [Conf EXCEPT !.strategy = st, !.egress = eg, !.isolation = eg = "open", !.moves = 2], <<Srv4, Srv6>>) :
        co \in {<<>>, Beside(1)}, w \in {Idle(Wlan0), On(Wlan0, 36)},
        wired \in {Away, Clash},
        st \in {"policy", "split"}, eg \in {"restricted", "open"}}

ByHand == {Case(Box(Phy("phy0", F24, <<>>), Idle(Wlan0), wired, NoIface, nm),
                [Ask EXCEPT !.subnet = sub], Conf, s) :
              wired \in {Away, Clash}, sub \in {Net(1, 8), Net(8, 4), Net(4, 2)},
              nm \in BOOLEAN, s \in {<<>>, <<Srv6>>, <<Srv4>>}}

\* Requests that are refused unseen, and a network whose address is private and whose
\* other end is not.
Wrong == {Case(Box(Phy("phy0", F24, <<>>), Idle(Wlan0), Away, NoIface, TRUE), r, Conf, <<Srv4>>) :
             r \in {[Ask EXCEPT !.sound = FALSE], [Ask EXCEPT !.band = "6"]}
                  \cup {[Ask EXCEPT !.subnet = sub] : sub \in {Net(32, 4), Net(24, 4), Net(0, 32), Net(60, 16)}}}

mcCases == Still \cup Movers \cup ByHand \cup Wrong

============================================================================

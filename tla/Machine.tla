------------------------------ MODULE Machine ------------------------------
(***************************************************************************)
(* What detection reports of the machine, and the questions the planner    *)
(* asks of it (internal/netcfg: facts.go, subnet.go).                      *)
(*                                                                         *)
(*   phy       [name, modes, combos, freqs]                                *)
(*   combo     [limits, total, channels]; a limit is [max, types]          *)
(*   wireless  [name, phy, type, ssid, chan, mhz, known, assoc, manager]   *)
(*   link      [name, up, bus, prefixes]                                   *)
(*   route     [fam, dev, gw, metric, down, onlink]                        *)
(*   facts     [phys, wireless, links, routes, nm]                         *)
(*                                                                         *)
(* Phys, wireless, links and routes are sequences: detection keeps the     *)
(* order of its tools, and several choices take the first that fits.  An   *)
(* address is a number, a prefix [addr, size] with size a power of two.    *)
(***************************************************************************)
EXTENDS Integers, Sequences, FiniteSets

CONSTANTS
    NoAddr,        \* the address a route or a plan does not have
    LinkLocal      \* the prefix of addresses every interface gives itself

\* The first element of s that satisfies P, or other.
First(s, P(_), other) ==
    LET I == {i \in 1..Len(s) : P(s[i])}
    IN  IF I = {} THEN other ELSE s[CHOOSE i \in I : \A j \in I : i <= j]

Some(s, P(_)) == \E i \in 1..Len(s) : P(s[i])

-----------------------------------------------------------------------------
(* Networks.                                                                *)

Base(p) == p.addr - (p.addr % p.size)
Masked(p) == [p EXCEPT !.addr = Base(p)]
Contains(p, a) == a # NoAddr /\ Base(p) <= a /\ a < Base(p) + p.size
Overlaps(p, q) == Base(p) < Base(q) + q.size /\ Base(q) < Base(p) + p.size

\* A plan's prefix is NoNet when there is none.
NoNet == [addr |-> 0, size |-> 0]

ChooseSubnet(pool, taken) ==
    LET c == First(pool, LAMBDA p : \A t \in taken : ~Overlaps(p, t), NoNet)
    IN  IF c = NoNet THEN c ELSE Masked(c)

\* A /31 or a /32 holds no gateway.
GatewayAddr(p) == IF p.size < 4 THEN NoAddr ELSE Base(p) + 1
PeerAddr(p) == IF p.size < 4 THEN NoAddr ELSE Base(p) + 2

-----------------------------------------------------------------------------
(* Wireless interfaces.                                                     *)

NoIface == [name |-> "", phy |-> "", type |-> "managed", ssid |-> "", chan |-> 0, mhz |-> 0,
            known |-> FALSE, assoc |-> FALSE, manager |-> "unknown"]

\* Joined to a network, as "iw dev link" said where it was asked.
StationLink(w) == w.type # "AP" /\ IF w.known THEN w.assoc ELSE w.ssid # ""

InUse(w) == IF w.type = "AP" THEN w.ssid # "" ELSE StationLink(w)

-----------------------------------------------------------------------------
(* Radios.                                                                  *)

Band2GHz == "2.4GHz"
Band5GHz == "5GHz"
BandAuto == ""

BandOf(mhz) ==
    CASE 2400 <= mhz /\ mhz <= 2500 -> Band2GHz
      [] 4900 <= mhz /\ mhz <= 5895 -> Band5GHz
      [] OTHER -> BandAuto

Usable(q) == ~q.disabled /\ ~q.noir /\ ~q.radar

BandOfChannel(phy, ch) ==
    BandOf(First(phy.freqs, LAMBDA q : q.chan = ch, [mhz |-> 0]).mhz)

UsableChannelsIn(phy, band) ==
    {phy.freqs[i].chan : i \in {j \in 1..Len(phy.freqs) :
        /\ Usable(phy.freqs[j]) /\ phy.freqs[j].chan > 0
        /\ band # BandAuto => BandOf(phy.freqs[j].mhz) = band}}

UsableChannels(phy) == UsableChannelsIn(phy, BandAuto)

Lowest(S) == CHOOSE x \in S : \A y \in S : x <= y

\* One interface of each type at a time: every type is charged to a group that
\* names it, and no group is charged more than its limit.
Allows(c, types) ==
    /\ c.total > 0 => Cardinality(types) <= c.total
    /\ \E charge \in [types -> 1..Len(c.limits)] :
         /\ \A t \in types : t \in c.limits[charge[t]].types
         /\ \A g \in 1..Len(c.limits) :
              Cardinality({t \in types : charge[t] = g}) <= c.limits[g].max

SupportsAP(phy) == "AP" \in phy.modes

NoCombo == [limits |-> <<>>, total |-> 0, channels |-> 0]

\* The combination that lets an access point run beside a station.
APWithStation(phy) ==
    First(phy.combos, LAMBDA c : Allows(c, {"managed", "AP"}), NoCombo)

DeclaresAPWithStation(phy) == Some(phy.combos, LAMBDA c : Allows(c, {"managed", "AP"}))

-----------------------------------------------------------------------------
(* The machine.                                                             *)

NoLink  == [name |-> "", up |-> FALSE, bus |-> "", prefixes |-> {}]
NoPhy   == [name |-> "", modes |-> {}, combos |-> <<>>, freqs |-> <<>>]
NoRoute == [fam |-> 4, dev |-> "", gw |-> NoAddr, metric |-> 0, down |-> FALSE, onlink |-> FALSE]

LinkByName(f, n) == First(f.links, LAMBDA l : l.name = n, NoLink)
WirelessByName(f, n) == First(f.wireless, LAMBDA w : w.name = n, NoIface)
PhyByName(f, n) == First(f.phys, LAMBDA p : p.name = n, NoPhy)

LiveRoute(r, fam) == r.fam = fam /\ ~r.down /\ r.dev # ""

\* The lowest metric among the routes that carry traffic; the first of equals.
BestRoute(f, fam) ==
    First(f.routes,
          LAMBDA r : LiveRoute(r, fam) /\ \A i \in 1..Len(f.routes) :
                         LiveRoute(f.routes[i], fam) => r.metric <= f.routes[i].metric,
          NoRoute)

PrimaryDefault(f) == BestRoute(f, 4)
DefaultV6(f) == BestRoute(f, 6)

\* Every network the machine is on; the gateways count as networks of one address.
OccupiedPrefixes(f) ==
    UNION {{Masked(p) : p \in f.links[i].prefixes} : i \in 1..Len(f.links)}
    \cup {[addr |-> f.routes[i].gw, size |-> 1] :
            i \in {j \in 1..Len(f.routes) : f.routes[j].fam = 4 /\ f.routes[j].gw # NoAddr}}

IsLinkLocal(p) == Contains(LinkLocal, p.addr)
============================================================================

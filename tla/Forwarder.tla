----------------------------- MODULE Forwarder -----------------------------
(***************************************************************************)
(* The loopback forwarder in front of the server (internal/snispoof:       *)
(* forwarder.go, packet.go, split.go).  Five kinds of goroutine meet here: *)
(* the accept loop, one handler per connection, one loop that reads the    *)
(* interface's packets, one injector per handshake, and whoever calls      *)
(* Close.  A handler relays nothing until the packets have shown that the  *)
(* opening frame was sent and answered.                                    *)
(*                                                                         *)
(* A packet is [port, kind, of]: of is the connection whose sequence       *)
(* numbers it carries, which is not always the one now on that port.  A    *)
(* stream is a sequence of tokens, <<"h", n>> for the header of a record   *)
(* of n bytes and <<"b", i>> for a byte.                                   *)
(***************************************************************************)
EXTENDS Integers, FiniteSets, SequencesExt

CONSTANTS
    Conns,              \* connections the engine makes to the forwarder
    Ports,              \* local ports towards the server
    maxConnections,
    Setups,             \* [name, tcp, records, hello, calls, troubles]: the options, what each
                        \* client says first ([sizes, head, names, tail, sound]), and bounds on
                        \* connections and on losses, refusals, resets and timeouts
    NoConn

VARIABLES
    mode,               \* the setup
    accepting,          \* the accept loop: "accept", "dead", or the connection in its hands
    capturing,          \* the packet loop: "run" or "dead"
    down, waiting, closed,      \* shutdown: "no", "cancelled", "shut"; Close called; Close returned
    at, inject,         \* the handlers and the injectors
    slots, clients, client,     \* the limit, the registered connections, the open ones
    server, port,       \* the socket towards the server, and its port
    flows, flow,        \* the map, and the state of each handshake
    seen, fake,         \* packets waiting for the loop; where the opening frame is
    out,                \* what has been written to the server
    troubles

fvars == <<mode, accepting, capturing, down, waiting, closed, at, inject, slots, clients,
           client, server, port, flows, flow, seen, fake, out, troubles>>

listening == <<accepting, slots, clients>>
sockets   == <<server, port, client>>
packets   == <<flows, flow, seen, fake, inject>>
ending    == <<capturing, down, waiting, closed>>

-----------------------------------------------------------------------------
(* The client's first message (split.go).                                   *)

Sum(s, n) == LET f[i \in 0..n] == IF i = 0 THEN 0 ELSE f[i - 1] + s[i] IN f[n]

\* A name takes one byte of framing here, three on the wire.
Widths(h) == [i \in 1..Len(h.names) |-> h.names[i].size + 1]
Need(h) == h.head + Sum(Widths(h), Len(h.names)) + h.tail

\* Inside the last host name, or after the first byte when there is none.
helloSplitPosition(h) ==
    LET hosts == {i \in 1..Len(h.names) : h.names[i].host}
        last  == CHOOSE i \in hosts : \A j \in hosts : j <= i
    IN  IF hosts = {} THEN 1
        ELSE h.head + Sum(Widths(h), last - 1) + 1 + h.names[last].size \div 2

Record(from, n) == << <<"h", n>> >> \o [i \in 1..n |-> <<"b", from + i>>]

\* The records as the client sent them.
Records(sizes) == FlattenSeq([i \in 1..Len(sizes) |-> Record(Sum(sizes, i - 1), sizes[i])])

\* The records that had to be read for the whole hello.
Read(h) == CHOOSE n \in 1..Len(h.sizes) : /\ Sum(h.sizes, n) >= Need(h)
                                         /\ \A i \in 1..(n - 1) : Sum(h.sizes, i) < Need(h)

\* Mutant: the second record announces the size of the whole.
RecutLong(sizes, r, part) ==
    SubSeq(sizes, 1, r - 1) \o <<part, sizes[r]>> \o SubSeq(sizes, r + 1, Len(sizes))

\* One record becomes two.
Recut(sizes, r, part) ==
    SubSeq(sizes, 1, r - 1) \o <<part, sizes[r] - part>> \o SubSeq(sizes, r + 1, Len(sizes))

\* What is written for the hello, and where the first write ends.
splitHello(h, records) ==
    LET cut   == helloSplitPosition(h)
        sizes == SubSeq(h.sizes, 1, Read(h))
        r     == CHOOSE i \in 1..Len(sizes) : Sum(sizes, i - 1) <= cut /\ cut < Sum(sizes, i)
        part  == cut - Sum(sizes, r - 1)
    IN  IF records /\ part > 0
        THEN [wire |-> Records(Recut(sizes, r, part)), at |-> cut + r + 1]
        ELSE [wire |-> Records(sizes), at |-> cut + r]

Remainder(h) == LET all == Records(h.sizes)
                IN  SubSeq(all, Len(Records(SubSeq(h.sizes, 1, Read(h)))) + 1, Len(all))

-----------------------------------------------------------------------------
(* The handshake as the packets show it (packet.go).                        *)

NewFlow == [syn |-> NoConn, synack |-> NoConn, scheduled |-> FALSE, sent |-> FALSE,
            finished |-> FALSE, err |-> FALSE]

finish(f, err) == IF f.finished THEN f ELSE [f EXCEPT !.finished = TRUE, !.err = err]

OwnFrame(f, p) == f.sent /\ p.kind = "fake" /\ p.of = f.syn

\* The handshake's order is checked packet by packet; the numbers of another
\* connection end it.
observe(f, p) ==
    CASE f.finished \/ OwnFrame(f, p) -> f
      [] ~f.finished /\ p.kind = "syn" /\ f.syn \in {NoConn, p.of} -> [f EXCEPT !.syn = p.of]
      [] ~f.finished /\ p.kind = "synack" /\ f.syn = p.of /\ f.synack \in {NoConn, p.of} ->
           [f EXCEPT !.synack = p.of]
      [] ~f.finished /\ p.kind = "ack" /\ f.synack = p.of -> [f EXCEPT !.scheduled = TRUE]
      [] ~f.finished /\ p.kind = "answer" /\ ~f.sent -> f
      [] ~f.finished /\ p.kind = "answer" /\ f.sent -> finish(f, p.of # f.syn)
      [] OTHER -> finish(f, TRUE)

-----------------------------------------------------------------------------
ForwarderInit ==
    /\ mode \in Setups
    /\ accepting = "accept"
    /\ capturing = IF mode.name THEN "run" ELSE "dead"
    /\ down = "no" /\ waiting = FALSE /\ closed = FALSE
    /\ at = [c \in Conns |-> "away"] /\ inject = {}
    /\ slots = 0 /\ clients = {} /\ client = {}
    /\ server = [c \in Conns |-> "none"] /\ port = [c \in Conns |-> NoConn]
    /\ flows = [p \in Ports |-> NoConn] /\ flow = [c \in Conns |-> NewFlow]
    /\ seen = <<>> /\ fake = [c \in Conns |-> "none"]
    /\ out = [c \in Conns |-> <<>>]
    /\ troubles = 0

Trouble == troubles < mode.troubles /\ troubles' = troubles + 1

Reaches(c, next) == at' = [at EXCEPT ![c] = next]
Socket(c, s) == server' = [server EXCEPT ![c] = s]
Packet(c, kind) == [port |-> port[c], kind |-> kind, of |-> c]

\* The shutdown closes the packet socket.
Show(c, kind) == seen' = IF down = "no" THEN Append(seen, Packet(c, kind)) ELSE seen

\* A closed socket tells the peer, and the loop sees that too.
Shut(c) == /\ Socket(c, "closed")
           /\ IF mode.name /\ server[c] = "open" THEN Show(c, "fin") ELSE UNCHANGED seen

-----------------------------------------------------------------------------
(* The accept loop.                                                         *)

Arrive(c) ==
    /\ at[c] = "away" /\ down = "no" /\ Cardinality({x \in Conns : at[x] # "away"}) < mode.calls
    /\ Reaches(c, "backlog") /\ client' = client \cup {c}
    /\ UNCHANGED <<mode, ending, listening, server, port, packets, out, troubles>>

\* Over the limit a connection is closed without a word.
Accept(c) ==
    /\ accepting = "accept" /\ at[c] = "backlog" /\ down = "no"
    /\ IF slots < maxConnections
       THEN slots' = slots + 1 /\ accepting' = c /\ UNCHANGED <<at, client>>
       ELSE Reaches(c, "done") /\ client' = client \ {c} /\ UNCHANGED <<slots, accepting>>
    /\ UNCHANGED <<mode, ending, clients, server, port, packets, out, troubles>>

\* Registered under the lock, unless the shutdown came first.
Register(c) ==
    /\ accepting = c
    /\ IF down = "no"
       THEN /\ clients' = clients \cup {c} /\ Reaches(c, "connect") /\ accepting' = "accept"
            /\ UNCHANGED <<client, slots>>
       ELSE /\ client' = client \ {c} /\ slots' = slots - 1 /\ Reaches(c, "done")
            /\ accepting' = "dead" /\ UNCHANGED clients
    /\ UNCHANGED <<mode, ending, server, port, packets, out, troubles>>

\* Accept fails once the listener is closed; both loops wait for the shutdown.
AcceptEnds ==
    /\ accepting = "accept" /\ down = "shut"
    /\ accepting' = "dead"
    /\ UNCHANGED <<mode, ending, slots, clients, at, sockets, packets, out, troubles>>

CaptureEnds ==
    /\ capturing = "run" /\ down = "shut"
    /\ capturing' = "dead"
    /\ UNCHANGED <<mode, down, waiting, closed, listening, at, sockets, packets, out, troubles>>

-----------------------------------------------------------------------------
(* Shutdown and Close.                                                      *)

\* Close, or a loop whose socket failed: no new connection, no new packet.
Shutdown ==
    /\ down = "no"
    /\ \/ waiting' = TRUE /\ UNCHANGED troubles
       \/ Trouble /\ UNCHANGED waiting
    /\ down' = "cancelled" /\ seen' = <<>>
    /\ UNCHANGED <<mode, capturing, closed, listening, at, sockets, flows, flow, fake, inject, out>>

CloseLate ==
    /\ down # "no" /\ ~waiting
    /\ waiting' = TRUE
    /\ UNCHANGED <<mode, capturing, down, closed, listening, at, sockets, packets, out, troubles>>

CloseClients ==
    /\ down = "cancelled"
    /\ down' = "shut" /\ client' = client \ clients
    /\ UNCHANGED <<mode, capturing, waiting, closed, listening, at, server, port, packets, out,
                   troubles>>

CloseReturns ==
    /\ waiting /\ ~closed /\ down = "shut"
    /\ accepting = "dead" /\ capturing = "dead" /\ inject = {}
    /\ \A c \in Conns : at[c] \in {"away", "backlog", "done"}
    /\ closed' = TRUE
    /\ UNCHANGED <<mode, capturing, down, waiting, listening, at, sockets, packets, out, troubles>>

-----------------------------------------------------------------------------
(* A handler: the connection to the server.                                 *)

Opens(c) == IF mode.tcp \/ mode.records THEN "hello" ELSE "relay"

DialPlain(c) ==
    /\ at[c] = "connect" /\ ~mode.name
    /\ \/ down = "no" /\ Reaches(c, Opens(c)) /\ Socket(c, "open") /\ UNCHANGED troubles
       \/ down # "no" /\ Reaches(c, "leave") /\ UNCHANGED <<server, troubles>>
       \/ Trouble /\ Reaches(c, "leave") /\ UNCHANGED server
    /\ UNCHANGED <<mode, ending, listening, client, port, packets, out>>

\* A port is free again at once when its connection never came to be; after a
\* connection it rests.
Taken == {port[c] : c \in {x \in Conns : server[x] \in {"syn", "synack", "open", "closed"}}}

\* The socket is bound and its handshake registered before the first packet.
Reserve(c) ==
    /\ at[c] = "connect" /\ mode.name
    /\ \E p \in Ports \ Taken :
         /\ port' = [port EXCEPT ![c] = p]
         /\ IF down = "no"
            THEN /\ flows' = [flows EXCEPT ![p] = c] /\ Socket(c, "syn") /\ Reaches(c, "dial")
                 /\ seen' = Append(seen, [port |-> p, kind |-> "syn", of |-> c])
            ELSE Reaches(c, "forget") /\ UNCHANGED <<flows, server, seen>>
    /\ UNCHANGED <<mode, ending, listening, client, flow, fake, inject, out, troubles>>

PeerAnswers(c) ==
    /\ server[c] = "syn"
    /\ Socket(c, "synack") /\ Show(c, "synack")
    /\ UNCHANGED <<mode, ending, listening, at, client, port, flows, flow, fake, inject, out,
                   troubles>>

DialReturns(c) ==
    /\ at[c] = "dial" /\ server[c] = "synack"
    /\ Socket(c, "open") /\ Show(c, "ack") /\ Reaches(c, "wait")
    /\ UNCHANGED <<mode, ending, listening, client, port, flows, flow, fake, inject, out, troubles>>

\* Refused, timed out or cancelled.
DialFails(c) ==
    /\ at[c] = "dial"
    /\ \/ down # "no" /\ UNCHANGED <<troubles, seen>>
       \/ Trouble /\ Show(c, "rst")
    /\ Socket(c, "failed") /\ Reaches(c, "forget")
    /\ UNCHANGED <<mode, ending, listening, client, port, flows, flow, fake, inject, out>>

\* Mutant: the timer's expiry is taken for a confirmation.
ConfirmedAnyway(c) == TRUE

Confirmed(c) == flow[c].finished /\ ~flow[c].err

\* The handshake is confirmed: the map lets go of it and the handler goes on.
Proceed(c) ==
    /\ at[c] = "wait" /\ Confirmed(c)
    /\ flows' = [flows EXCEPT ![port[c]] = NoConn]
    /\ Reaches(c, Opens(c))
    /\ UNCHANGED <<mode, ending, listening, sockets, flow, seen, fake, inject, out, troubles>>

\* It failed, took too long, or the forwarder is closing.
GiveUp(c) ==
    /\ at[c] = "wait"
    /\ \/ flow[c].finished /\ flow[c].err /\ UNCHANGED troubles
       \/ down # "no" /\ UNCHANGED troubles
       \/ Trouble
    /\ Shut(c) /\ Reaches(c, "forget")
    /\ UNCHANGED <<mode, ending, listening, client, port, flows, flow, fake, inject, out>>

\* After the socket is closed: whatever the map holds for the port goes.
Forget(c) ==
    /\ at[c] = "forget"
    /\ flow' = [flow EXCEPT ![c] = finish(@, TRUE)]
    /\ flows' = [flows EXCEPT ![port[c]] = NoConn]
    /\ Reaches(c, "leave")
    /\ UNCHANGED <<mode, ending, listening, sockets, seen, fake, inject, out, troubles>>

-----------------------------------------------------------------------------
(* A handler: the stream.                                                   *)

Sends(c, tokens) == out' = [out EXCEPT ![c] = @ \o tokens]

\* Read whole, within its deadline, and written in one piece or in two.
Hello(c) ==
    /\ at[c] = "hello" /\ c \in client /\ down = "no" /\ mode.hello.sound
    /\ LET s == splitHello(mode.hello, mode.records)
       IN  IF mode.tcp THEN Sends(c, SubSeq(s.wire, 1, s.at)) /\ Reaches(c, "rest")
           ELSE Sends(c, s.wire) /\ Reaches(c, "relay")
    /\ UNCHANGED <<mode, ending, listening, sockets, packets, troubles>>

Rest(c) ==
    /\ at[c] = "rest" /\ down = "no"
    /\ LET s == splitHello(mode.hello, mode.records)
       IN  Sends(c, SubSeq(s.wire, s.at + 1, Len(s.wire)))
    /\ Reaches(c, "relay")
    /\ UNCHANGED <<mode, ending, listening, sockets, packets, troubles>>

\* One copy of what follows; with neither option, of everything.
Relay(c) ==
    /\ at[c] = "relay" /\ down = "no" /\ c \in client
    /\ Sends(c, IF mode.tcp \/ mode.records THEN Remainder(mode.hello) ELSE Records(mode.hello.sizes))
    /\ Reaches(c, "relayed")
    /\ UNCHANGED <<mode, ending, listening, sockets, packets, troubles>>

\* Both copies are over, the hello was refused, or either side went.
StreamEnds(c) ==
    /\ at[c] \in {"hello", "rest", "relay", "relayed"}
    /\ \/ at[c] = "relayed" /\ UNCHANGED troubles
       \/ at[c] = "hello" /\ ~mode.hello.sound /\ UNCHANGED troubles
       \/ down # "no" /\ UNCHANGED troubles
       \/ Trouble
    /\ Shut(c) /\ Reaches(c, "leave")
    /\ UNCHANGED <<mode, ending, listening, client, port, flows, flow, fake, inject, out>>

\* Mutant: a connection that failed keeps its slot.
ReleaseOnSuccess(c) == IF out[c] # <<>> THEN slots - 1 ELSE slots

Release(c) == slots - 1

Leave(c) ==
    /\ at[c] = "leave"
    /\ client' = client \ {c} /\ clients' = clients \ {c} /\ slots' = Release(c)
    /\ Reaches(c, "done")
    /\ UNCHANGED <<mode, ending, accepting, server, port, packets, out, troubles>>

-----------------------------------------------------------------------------
(* The packet loop, the injectors, and the network.                         *)

\* The handshake is looked up by its port, and its third packet starts an injector.
Capture ==
    /\ capturing = "run" /\ down = "no" /\ seen # <<>>
    /\ LET p == Head(seen)
           c == flows[p.port]
           f == observe(flow[c], p)
       IN  IF c = NoConn THEN UNCHANGED <<flow, inject>>
           ELSE /\ flow' = [flow EXCEPT ![c] = f]
                /\ inject' = IF f.scheduled /\ ~flow[c].scheduled THEN inject \cup {c} ELSE inject
    /\ seen' = Tail(seen)
    /\ UNCHANGED <<mode, ending, listening, at, sockets, flows, fake, out, troubles>>

Drop ==
    /\ seen # <<>> /\ Trouble
    /\ seen' = Tail(seen)
    /\ UNCHANGED <<mode, ending, listening, at, sockets, flows, flow, fake, inject, out>>

\* Sent and marked as sent under the handshake's lock.
Inject(c) ==
    /\ c \in inject
    /\ inject' = inject \ {c}
    /\ \/ /\ flow[c].finished \/ down # "no"
          /\ UNCHANGED <<flow, fake, seen, troubles>>
       \/ /\ ~flow[c].finished /\ down = "no"
          /\ \/ /\ flow' = [flow EXCEPT ![c].sent = TRUE]
                /\ fake' = [fake EXCEPT ![c] = "sent"] /\ Show(c, "fake") /\ UNCHANGED troubles
             \/ /\ Trouble /\ flow' = [flow EXCEPT ![c] = finish(@, TRUE)]
                /\ UNCHANGED <<fake, seen>>
    /\ UNCHANGED <<mode, ending, listening, at, sockets, flows, out>>

\* The peer acknowledges again what it had.
FakeArrives(c) ==
    /\ fake[c] = "sent"
    /\ fake' = [fake EXCEPT ![c] = "answered"]
    /\ IF server[c] = "open" THEN Show(c, "answer") ELSE UNCHANGED seen
    /\ UNCHANGED <<mode, ending, listening, at, sockets, flows, flow, inject, out, troubles>>

\* Unasked, the peer acknowledges or resets.
PeerStirs(c) ==
    /\ server[c] = "open" /\ mode.name /\ Trouble
    /\ \E kind \in {"answer", "rst"} : Show(c, kind)
    /\ UNCHANGED <<mode, ending, listening, at, sockets, flows, flow, fake, inject, out>>

ForwarderNext ==
    \/ AcceptEnds \/ CaptureEnds \/ Shutdown \/ CloseLate \/ CloseClients \/ CloseReturns
    \/ Capture \/ Drop
    \/ \E c \in Conns :
         \/ Arrive(c) \/ Accept(c) \/ Register(c) \/ DialPlain(c) \/ Reserve(c) \/ PeerAnswers(c)
         \/ DialReturns(c) \/ DialFails(c) \/ Proceed(c) \/ GiveUp(c) \/ Forget(c)
         \/ Hello(c) \/ Rest(c) \/ Relay(c) \/ StreamEnds(c) \/ Leave(c)
         \/ Inject(c) \/ FakeArrives(c) \/ PeerStirs(c)

ForwarderSpec == ForwarderInit /\ [][ForwarderNext]_fvars

-----------------------------------------------------------------------------
(* Properties.                                                              *)

Bytes(tokens) == SelectSeq(tokens, LAMBDA t : t[1] = "b")

\* Nothing of a client's stream reaches the server before the opening frame of this
\* very connection was sent: "Both streams remain untouched until the packet-level
\* confirmation" (forwarder.go).  And a handshake is refused only for a reason: as long
\* as nothing goes wrong on the network and nobody closes the forwarder, neither the
\* forwarder's own frame nor an answer read before its frame is marked as sent ends one
\* (observe, inject).
ConfirmedRightly ==
    \A c \in Conns :
        /\ mode.name /\ out[c] # <<>> => fake[c] # "none" /\ flow[c].syn = c
        /\ troubles = 0 /\ down = "no" => at[c] # "forget" /\ ~flow[c].err

\* What the server gets is what the client said, byte for byte and in order,
\* however it was cut: every record announces the bytes that follow it, and a
\* hello sent in two pieces is parted at the middle of its name, which for a name of one
\* byte is before it (splitHello, forwardHello).
StreamIsWhole ==
    \A c \in Conns :
        LET got  == out[c]
            hdrs == {i \in 1..Len(got) : got[i][1] = "h"}
        IN  /\ IsPrefix(Bytes(got), Bytes(Records(mode.hello.sizes)))
            /\ at[c] = "relayed" => Len(Bytes(got)) = Len(Bytes(Records(mode.hello.sizes)))
            /\ \A i \in hdrs :
                 LET next == {j \in hdrs : j > i}
                     end  == IF next = {} THEN Len(got) + 1
                             ELSE CHOOSE j \in next : \A k \in next : j <= k
                 IN  IF next = {} /\ at[c] # "relayed" THEN end - i - 1 <= got[i][2]
                     ELSE end - i - 1 = got[i][2]
            /\ at[c] = "rest" => Len(Bytes(got)) = helloSplitPosition(mode.hello)

\* When Close has returned nothing of the forwarder is left: no handler, no
\* injector, no handshake in the map, no socket on either side, and every slot is
\* free again; and until then no more connections than the limit are served.
NothingOutlivesClose ==
    /\ slots <= maxConnections /\ Cardinality(clients) <= slots
    /\ closed => /\ slots = 0 /\ clients = {}
                 /\ \A p \in Ports : flows[p] = NoConn
                 /\ \A c \in Conns : /\ server[c] \in {"none", "failed", "closed"}
                                     /\ at[c] = "done" => c \notin client
============================================================================

-------------------------------- MODULE Wire --------------------------------
(***************************************************************************)
(* The socket between the panel and the privileged service                 *)
(* (internal/privsvc: server.go, client.go, wire.go, faults.go, peer.go,   *)
(* transport_unix.go): a copy of the service takes the path and serves it, *)
(* a caller connects for every call, sends one request and reads one       *)
(* answer, and either end may go away at any point in between.             *)
(*                                                                         *)
(* A message is [from, frame, json, version, action, start, refresh,       *)
(* patience]: who connects, what it puts on the wire, and how long it      *)
(* waits (0 for no deadline).  What an operation does is PrivService.tla's *)
(* matter; here it begins, and ends well or with an error.                 *)
(***************************************************************************)
EXTENDS Integers, FiniteSets, Sequences

CONSTANTS
    Copies,         \* processes of the privileged service
    Calls,
    Permitted,      \* the accounts AllowedFor found
    Errors,         \* what an operation can fail with: [from, text, unit, is]
    maxConcurrent, MinDeadline, MaxDeadline, defaultDeadline, ReadTimeout,
    Occasions,      \* [copies, messages, calls, horizon, upsets]: the copies that are started (the
                    \* service manager restarts one, a second is a person's), what is sent, and
                    \* bounds on the calls, on the clock, and on crashes and failures
    Nobody

VARIABLES
    occasion, now, upsets,
    life,           \* each copy: "off", "replay", "look", "dial", "remove", "bind", "secure",
                    \* "serve", "closing", "drain"; or how it gave up: "busy", "blocked", "failed"
    path,           \* what is at the path: "none", "file", or the copy whose socket it is
    journal, mine,  \* whose changes the journal lists; the copies that hold they are set up
    sem,            \* the slots taken, for each copy
    message, due,   \* a call's message, and when its caller stops waiting
    caller, result, \* a call's caller: "new", "waits", "done"; and what it was told
    to,             \* the copy it is connected to
    handler, since, \* a call's handler, and since when it reads or runs
    until,          \* its operation's deadline
    begun, outcome, \* the operations begun for it, and how the last ended
    answer          \* what was sent back

wvars == <<occasion, now, upsets, life, path, journal, mine, sem, message, due, caller, result, to,
           handler, since, until, begun, outcome, answer>>

time     == <<occasion, now, upsets>>
box      == <<journal, mine>>
asking   == <<message, due, caller, result, to>>
running  == <<until, begun, outcome>>
serving  == <<sem, handler, since, answer>>

-----------------------------------------------------------------------------
(* Requests and answers (wire.go).                                          *)

Actions == {"detect", "status", "start", "stop", "cut", "restore", "recover", "engine-log", "refresh"}

\* The checks in their order; "" when all of them pass.
decodeRequest(m) ==
    LET wantStart   == m.action \in {"start", "recover"}
        wantRefresh == m.action = "refresh"
    IN  CASE ~m.json -> "bad-json"
          [] m.json /\ m.version # 1 -> "bad-version"
          [] m.json /\ m.version = 1 /\ m.action \notin Actions -> "unknown-action"
          [] OTHER ->
               IF (wantStart /\ ~m.start) \/ (wantRefresh /\ ~m.refresh) THEN "missing-argument"
               ELSE IF (~wantStart /\ m.start) \/ (~wantRefresh /\ m.refresh)
                    THEN "unexpected-argument" ELSE ""

\* The caller's deadline, kept between the two bounds.
deadlineFrom(d, t) ==
    IF d = 0 THEN t + defaultDeadline
    ELSE t + (IF d - t < MinDeadline THEN MinDeadline
              ELSE IF d - t > MaxDeadline THEN MaxDeadline ELSE d - t)

\* The result an answer must carry for the caller to take it.
Shape(action) == IF action \in {"detect", "status", "engine-log", "refresh"} THEN action ELSE "none"

Answer(fault, refusal, shape) ==
    [sent |-> FALSE, fault |-> fault, refusal |-> refusal, shape |-> shape]

Silence    == Answer("", "", "none")
Ok(action) == Answer("", "", Shape(action))
Refuse(r)  == Answer("", r, "none")

-----------------------------------------------------------------------------
(* The one word an error becomes (faults.go).  An error is [from, text,     *)
(* unit, is]: the package that gave it, what its text says, the unit that   *)
(* failed, and the sentinels it wraps; "nil" in from is no error at all,    *)
(* only a status with a reason.                                             *)

\* A sentinel and its word, in the order they are asked for.
Words == << <<"deadline", "unavailable">>, <<"no-uplink", "no-internet-interface">>,
            <<"no-ap", "no-ap-adapter">>, <<"no-takeover", "no-ap-adapter">>,
            <<"not-ap", "hotspot-failed">>, <<"not-released", "hotspot-interface-busy">>,
            <<"old-windows", "windows-too-old">>, <<"unsupported", "software-missing">>,
            <<"disallowed", "unknown">>, <<"not-found", "software-missing">>,
            <<"permission", "permission-denied">> >>

faultOf(e) ==
    LET hits == {i \in 1..Len(Words) : Words[i][1] \in e.is}
    IN  IF e.from = "nil" THEN ""
        ELSE IF hits = {} THEN "unknown"
        ELSE Words[CHOOSE i \in hits : \A j \in hits : i <= j][2]

\* Mutant: the error is asked for its word whether there is one or not.
hotspotFaultUnguarded(e) ==
    IF e.text # "other" THEN e.text
    ELSE IF faultOf(e) # "unknown" THEN faultOf(e)
    ELSE IF e.unit = "dhcp" THEN "dhcp-failed" ELSE "hotspot-failed"

\* The sentence decides, then the error if there is one, then the unit.
hotspotFault(e) ==
    IF e.text # "other" THEN e.text
    ELSE IF e.from # "nil" /\ faultOf(e) # "unknown" THEN faultOf(e)
    ELSE IF e.unit = "dhcp" THEN "dhcp-failed" ELSE "hotspot-failed"

engineFault(e) == IF e.text = "other" THEN "engine-rejected-config" ELSE e.text

\* What crosses the socket: the word of a classified failure, or of its cause.
faultResponse(e) ==
    Answer(CASE e.unit \in {"ap", "dhcp"} -> hotspotFault(e)
             [] e.unit = "engine" -> engineFault(e)
             [] OTHER -> faultOf(e), "", "none")

Expired == [from |-> "ctx", text |-> "other", unit |-> "none", is |-> {"deadline"}]

-----------------------------------------------------------------------------
WireInit ==
    /\ occasion \in Occasions /\ now = 0 /\ upsets = 0
    /\ life = [s \in Copies |-> "off"] /\ path \in {"none", "file"}
    /\ journal = Nobody /\ mine = {}
    /\ sem = [s \in Copies |-> 0]
    /\ message = [c \in Calls |-> Nobody] /\ due = [c \in Calls |-> 0]
    /\ caller = [c \in Calls |-> "new"] /\ result = [c \in Calls |-> ""]
    /\ to = [c \in Calls |-> Nobody]
    /\ handler = [c \in Calls |-> "none"] /\ since = [c \in Calls |-> 0]
    /\ until = [c \in Calls |-> 0]
    /\ begun = [c \in Calls |-> 0] /\ outcome = [c \in Calls |-> "none"]
    /\ answer = [c \in Calls |-> Silence]

Upset == upsets < occasion.upsets /\ upsets' = upsets + 1 /\ UNCHANGED <<occasion, now>>

Tick == /\ now < occasion.horizon /\ now' = now + 1
        /\ UNCHANGED <<occasion, upsets, life, path, box, asking, serving, running>>

-----------------------------------------------------------------------------
(* Taking the path (serve_priv.go; server.go: Listen, prepareSocketPath).   *)

Become(s, l) == life' = [life EXCEPT ![s] = l]
Apart == UNCHANGED <<asking, serving, running>>

Listening(s) == life[s] \in {"secure", "serve", "drain"}
Absent(s) == life[s] \in {"off", "busy", "blocked", "failed"}

Launch(s) ==
    /\ Absent(s) /\ s \in occasion.copies
    /\ Become(s, "replay")
    /\ UNCHANGED <<time, path, box>> /\ Apart

\* The journal is replayed before the socket is looked at.
ReplayJournal(s) ==
    /\ life[s] = "replay"
    /\ journal' = Nobody /\ Become(s, "look")
    /\ UNCHANGED <<time, path, mine>> /\ Apart

\* Nothing there, a socket, or something that is not removed.
Look(s) ==
    /\ life[s] = "look"
    /\ Become(s, CASE path = "none" -> "bind" [] path = "file" -> "blocked" [] OTHER -> "dial")
    /\ UNCHANGED <<time, path, box>> /\ Apart

Answers(p) == p \in Copies /\ Listening(p)

\* Mutant: a socket is there, so a copy is running.
AliveAlways(p) == TRUE

Alive(p) == Answers(p)

\* A socket that answers belongs to a running copy.
DialFirst(s) ==
    /\ life[s] = "dial"
    /\ Become(s, IF Alive(path) THEN "busy" ELSE "remove")
    /\ UNCHANGED <<time, path, box>> /\ Apart

RemoveStale(s) ==
    /\ life[s] = "remove"
    /\ Become(s, IF path = "none" THEN "failed" ELSE "bind") /\ path' = "none"
    /\ UNCHANGED <<time, box>> /\ Apart

Bind(s) ==
    /\ life[s] = "bind"
    /\ IF path = "none" THEN Become(s, "secure") /\ path' = s
       ELSE Become(s, "failed") /\ UNCHANGED path
    /\ UNCHANGED <<time, box>> /\ Apart

\* The socket's mode and group; when that fails it is closed, which unlinks it.
Secure(s) ==
    /\ life[s] = "secure"
    /\ \/ Become(s, "serve") /\ UNCHANGED <<time, path>>
       \/ Become(s, "failed") /\ path' = "none" /\ Upset
    /\ UNCHANGED box /\ Apart

-----------------------------------------------------------------------------
(* The end of a copy (server.go: Serve, Close).                             *)

\* Asked to stop: the calls under way are cancelled, and Close unlinks the path,
\* whoever's socket is there by now.
Close(s) ==
    /\ life[s] = "serve"
    /\ Become(s, "closing") /\ path' = "none"
    /\ UNCHANGED <<time, box>> /\ Apart

\* Accepting fails: the socket stays where it is.
AcceptFails(s) ==
    /\ life[s] = "serve" /\ Upset
    /\ Become(s, "drain")
    /\ UNCHANGED <<path, box>> /\ Apart

ConnectedTo(s) == {c \in Calls : to[c] = s /\ handler[c] # "over"}

Ends(cs) == handler' = [c \in Calls |-> IF c \in cs THEN "over" ELSE handler[c]]

\* Serve waits for its handlers, and the last stop puts the box back.
ServeReturns(s) ==
    /\ life[s] \in {"closing", "drain"} /\ sem[s] = 0
    /\ Become(s, "off") /\ Ends({c \in ConnectedTo(s) : handler[c] = "backlog"})
    /\ mine' = mine \ {s} /\ journal' = IF journal = s THEN Nobody ELSE journal
    /\ UNCHANGED <<time, path, asking, sem, since, answer, running>>

\* Killed: every connection of it is closed, the socket and the journal stay.
CopyDies(s) ==
    /\ ~Absent(s) /\ Upset
    /\ Become(s, "off") /\ Ends(ConnectedTo(s)) /\ sem' = [sem EXCEPT ![s] = 0]
    /\ outcome' = [c \in Calls |-> IF c \in ConnectedTo(s) /\ handler[c] = "run" THEN "cut" ELSE outcome[c]]
    /\ mine' = mine \ {s}
    /\ UNCHANGED <<path, journal, asking, since, answer, until, begun>>

-----------------------------------------------------------------------------
(* The client (client.go: call).                                            *)

Told(c, r) == caller' = [caller EXCEPT ![c] = "done"] /\ result' = [result EXCEPT ![c] = r]

\* A request that is too large is never sent, but the connection was made.
Call(c, m) ==
    /\ caller[c] = "new" /\ Cardinality({x \in Calls : caller[x] # "new"}) < occasion.calls
    /\ message' = [message EXCEPT ![c] = m]
    /\ due' = [due EXCEPT ![c] = now + (IF m.patience = 0 THEN MaxDeadline ELSE m.patience)]
    /\ IF Answers(path)
       THEN /\ to' = [to EXCEPT ![c] = path] /\ handler' = [handler EXCEPT ![c] = "backlog"]
            /\ IF m.from = "panel" /\ m.frame = "over" THEN Told(c, "too-large")
               ELSE caller' = [caller EXCEPT ![c] = "waits"] /\ UNCHANGED result
       ELSE Told(c, "unavailable") /\ UNCHANGED <<to, handler>>
    /\ UNCHANGED <<time, life, path, box, sem, since, answer, running>>

\* The caller's own deadline, or the one every connection has.
StopsWaiting(c) ==
    /\ caller[c] = "waits" /\ now >= due[c]
    /\ Told(c, IF message[c].patience = 0 THEN "unavailable" ELSE "gave-up")
    /\ UNCHANGED <<time, life, path, box, message, due, to, serving, running>>

\* An answer, or the connection closed without one.
Receive(c) ==
    /\ caller[c] = "waits" /\ handler[c] = "over"
    /\ LET a == answer[c]
       IN  Told(c, CASE ~a.sent -> "unavailable"
                     [] a.sent /\ a.refusal # "" -> a.refusal
                     [] a.sent /\ a.refusal = "" /\ a.fault # "" -> a.fault
                     [] OTHER -> IF a.shape = Shape(message[c].action) THEN "ok" ELSE "unexpected")
    /\ UNCHANGED <<time, life, path, box, message, due, to, serving, running>>

-----------------------------------------------------------------------------
(* The handler (server.go: Serve, handle, dispatch).                        *)

Serves(c) == to[c] \in Copies /\ life[to[c]] \in {"serve", "closing", "drain"}
Slot(c, n) == sem' = [sem EXCEPT ![to[c]] = @ + n]
Goes(c, h) == handler' = [handler EXCEPT ![c] = h]

\* Over the limit a connection is closed without a word.
AcceptCall(c) ==
    /\ handler[c] = "backlog" /\ life[to[c]] = "serve"
    /\ IF sem[to[c]] < maxConcurrent
       THEN Slot(c, 1) /\ Goes(c, "read") /\ since' = [since EXCEPT ![c] = now]
       ELSE Goes(c, "over") /\ UNCHANGED <<sem, since>>
    /\ UNCHANGED <<time, life, path, box, asking, answer, running>>

\* An account that may not call is told nothing, and nothing it sent is read.
Stranger(c) ==
    /\ handler[c] = "read" /\ Serves(c) /\ message[c].from \notin Permitted
    /\ Goes(c, "over") /\ Slot(c, -1)
    /\ UNCHANGED <<time, life, path, box, asking, since, answer, running>>

Reads(c) == handler[c] = "read" /\ Serves(c) /\ message[c].from \in Permitted

Gone(c) == caller[c] = "done"

\* What was sent before the peer went can still be read.
Whole(c) == message[c].frame = "whole"

\* The peer closed, its frame is no frame, or it took too long.
ReadFails(c) ==
    /\ Reads(c)
    /\ LET f == message[c].frame
           r == CASE f = "over" /\ message[c].from # "panel" -> "too-large"
                  [] f \in {"silent", "over"} /\ Gone(c) -> "EOF"
                  [] f = "zero" \/ (f = "part" /\ Gone(c)) -> "bad-frame"
                  [] f \in {"silent", "part"} /\ now >= since[c] + ReadTimeout -> "bad-frame"
                  [] OTHER -> ""
       IN  /\ r # ""
           /\ IF r = "EOF" THEN Goes(c, "over") /\ Slot(c, -1) /\ UNCHANGED answer
              ELSE Goes(c, "reply") /\ answer' = [answer EXCEPT ![c] = Refuse(r)] /\ UNCHANGED sem
    /\ UNCHANGED <<time, life, path, box, asking, since, running>>

\* Nothing of the service is touched before the request has passed every check.
Refusal(c) ==
    /\ Reads(c) /\ Whole(c) /\ decodeRequest(message[c]) # ""
    /\ Goes(c, "reply") /\ answer' = [answer EXCEPT ![c] = Refuse(decodeRequest(message[c]))]
    /\ UNCHANGED <<time, life, path, box, asking, sem, since, running>>

\* The operation begins, whether or not its caller still waits.
Dispatch(c) ==
    /\ Reads(c) /\ Whole(c) /\ decodeRequest(message[c]) = ""
    /\ Goes(c, "run") /\ since' = [since EXCEPT ![c] = now]
    /\ begun' = [begun EXCEPT ![c] = @ + 1]
    /\ until' = [until EXCEPT
            ![c] = deadlineFrom(IF message[c].patience = 0 THEN 0 ELSE due[c], now)]
    /\ UNCHANGED <<time, life, path, box, asking, sem, answer, outcome>>

Finish(c, how, a) ==
    /\ handler[c] = "run" /\ Serves(c)
    /\ Goes(c, "reply") /\ answer' = [answer EXCEPT ![c] = a]
    /\ outcome' = [outcome EXCEPT ![c] = how]
    /\ UNCHANGED <<time, life, path, asking, sem, since, until, begun>>

\* The two actions that leave something behind are those that set the box up and
\* put it back.
Succeed(c) ==
    /\ Finish(c, "ok", Ok(message[c].action))
    /\ LET s == to[c]
       IN  CASE message[c].action \in {"start", "recover"} -> journal' = s /\ mine' = mine \cup {s}
             [] message[c].action = "stop" -> journal' = Nobody /\ mine' = mine \ {s}
             [] OTHER -> UNCHANGED box

Fail(c) == \E e \in Errors : Finish(c, "failed", faultResponse(e)) /\ UNCHANGED box

\* The deadline passed, or the copy is closing.
CutShort(c) ==
    /\ handler[c] = "run"
    /\ \/ now >= until[c] /\ Finish(c, "expired", faultResponse(Expired))
       \/ life[to[c]] = "closing" /\ Finish(c, "cancelled", faultResponse(Expired))
    /\ UNCHANGED box

\* Mutant: a caller that has gone takes its slot along.
ReplySlotWaiting(c) == IF caller[c] = "done" THEN 0 ELSE -1

ReplySlot(c) == -1

\* The answer is written or lost; then the slot is free and the connection closed.
Reply(c) ==
    /\ handler[c] = "reply" /\ Serves(c)
    /\ Goes(c, "over") /\ Slot(c, ReplySlot(c))
    /\ \/ answer' = [answer EXCEPT ![c].sent = TRUE] /\ UNCHANGED time
       \/ Upset /\ UNCHANGED answer
    /\ UNCHANGED <<life, path, box, asking, since, running>>

WireNext ==
    \/ Tick
    \/ \E s \in Copies :
         \/ Launch(s) \/ ReplayJournal(s) \/ Look(s) \/ DialFirst(s) \/ RemoveStale(s) \/ Bind(s)
         \/ Secure(s) \/ Close(s) \/ AcceptFails(s) \/ ServeReturns(s) \/ CopyDies(s)
    \/ \E c \in Calls :
         \/ \E m \in occasion.messages : Call(c, m)
         \/ StopsWaiting(c) \/ Receive(c) \/ AcceptCall(c) \/ Stranger(c) \/ ReadFails(c) \/ Refusal(c)
         \/ Dispatch(c) \/ Succeed(c) \/ Fail(c) \/ CutShort(c) \/ Reply(c)

WireSpec == WireInit /\ [][WireNext]_wvars

-----------------------------------------------------------------------------
(* Properties.                                                              *)

Refusals == {"bad-frame", "too-large", "bad-json", "bad-version", "unknown-action",
             "missing-argument", "unexpected-argument"}

\* What a caller is told is what happened: "ok" only when its operation ran and
\* succeeded, a refusal only when nothing was run for it, a word of the service only
\* when its operation failed; no operation runs twice for one call, and none for an
\* account that may not call (handle, dispatch, faultResponse, call).  Nothing is said of
\* a caller that gave up or lost its service: its operation may have run, or run yet.
AnswerIsTrue ==
    \A c \in Calls :
        /\ begun[c] <= 1
        /\ begun[c] = 1 => message[c].from \in Permitted /\ decodeRequest(message[c]) = ""
        /\ result[c] = "ok" => begun[c] = 1 /\ outcome[c] = "ok"
        /\ result[c] \in Refusals => begun[c] = 0
        /\ result[c] \notin Refusals \cup {"", "ok", "unavailable", "gave-up"} =>
             outcome[c] = "failed"

\* Serve returns after the last of its handlers, so the stop that follows it meets no
\* operation still under way; and never are more connections served than the limit
\* (Serve's wait group and its semaphore).
ServeReturnsLast ==
    \A s \in Copies :
        LET served == {c \in Calls : to[c] = s /\ handler[c] \in {"read", "run", "reply"}}
        IN  /\ Cardinality(served) = sem[s] /\ sem[s] <= maxConcurrent
            /\ Absent(s) => served = {}

\* When nobody starts a second copy by hand, the copy that serves is the one the path
\* leads to, the journal lists what it has set up, and no crash leaves anything that makes
\* the next copy take itself for the second (prepareSocketPath, Close, ReplayJournal).
ReachesTheLiveOne ==
    Cardinality(occasion.copies) = 1 =>
        \A s \in Copies :
            /\ life[s] # "busy"
            /\ life[s] = "serve" => path = s
            /\ s \in mine => journal = s

\* "A journal on disk means a previous process was killed" (cmd/caspian/serve_priv.go):
\* replaying it never takes away what a copy that is running has set up.
JournalMeansKilled ==
    \A s \in mine : life[s] = "serve" => journal = s
=============================================================================

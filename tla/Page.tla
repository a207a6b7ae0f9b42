-------------------------------- MODULE Page --------------------------------
(***************************************************************************)
(* The status page (internal/panel: view.go, words.go, events.go, the GET  *)
(* handlers, assets/panel.js; privsvc/service.go, Status): one browser     *)
(* that loads the page, polls /status.json beside it and posts its forms,  *)
(* and the panel, which reads the box's status in pieces and keeps the     *)
(* list of events.  The box and other browsers act by themselves.          *)
(*                                                                         *)
(* Words, labels and classes are their keys.  A pasted text is the         *)
(* sequence of its entries, each of them whether this build accepts it.    *)
(***************************************************************************)
EXTENDS Integers, Sequences, FiniteSets

CONSTANTS
    Polls,              \* requests for the status that can be under way at once
    eventCapacity,
    Visits              \* what may be stored, [text, sel, named, dpi], and what may happen
                        \* in a visit to the page, [moves, presses, turns, losses]

VARIABLES
    box,                \* what the box really does
    stored,             \* what the panel has stored
    flash,              \* the session's message is a problem
    log,                \* the events: [ring, next, full, seen, connected]
    page,               \* the document: what it shows, and from which status
    gen, busy, timer, visible,
    poll, post,         \* the requests under way
    at,                 \* how often the box has changed
    flips,              \* how often it began or ceased to be connected
    straight,           \* the box has not changed while its status was being read
    may                 \* what may still happen

pvars == <<box, stored, flash, log, page, gen, busy, timer, visible, poll, post, at, flips, straight,
           may>>

-----------------------------------------------------------------------------
(* What the panel makes of a status.                                        *)

Connected(s) == s.phase = "running" /\ s.ap /\ ~s.cut
Running(s) == s.phase = "running" /\ s.ap

Zero == [phase |-> "stopped", cut |-> FALSE, det |-> "", ap |-> FALSE, devs |-> 0, fault |-> "", at |-> 0]

\* linkAt for every entry; no entry at all is an error like no usable one.
ParseAll(text) == {i \in 1..Len(text) : text[i]}

\* Select: an index past the end is the first entry's.
Chosen(text, sel) == IF sel < Len(text) THEN sel + 1 ELSE 1

\* fillConfig's problems: nothing in the text is usable, or the chosen entry is not.
ConfigProblem(st) ==
    st.text # <<>> /\ (ParseAll(st.text) = {} \/ ~st.text[Chosen(st.text, st.sel)])

heroClass(cut, connected, starting) ==
    IF cut THEN "cut" ELSE IF connected THEN "ok" ELSE IF starting THEN "wait" ELSE "off"

powerClass(connected, running) == IF connected THEN "ok" ELSE IF running THEN "danger" ELSE "go"

powerLabel(running) == IF running THEN "power.off" ELSE "power.on"

\* The most blocking thing first.
nextStep(problem, st, s, connected) ==
    CASE s.cut                    -> "resume"
      [] ~s.cut /\ problem        -> "problem"
      [] ~s.cut /\ ~problem       ->
           IF st.text = <<>> THEN "addconfig"
           ELSE IF ~st.named THEN "setwifi"
           ELSE IF s.phase = "starting" THEN "starting"
           ELSE IF connected THEN (IF s.devs > 0 THEN "joined" ELSE "join") ELSE "switchon"

StatusWord(s, connected) ==
    IF s.fault # "" THEN <<"notworking", "off">>
    ELSE IF s.cut THEN <<"cut", "trouble">>
    ELSE IF connected THEN <<"connected", "on">>
    ELSE CASE s.phase = "starting" -> <<"starting", "working">>
           [] s.phase = "failed"   -> <<"notconnected", "off">>
           [] OTHER                -> <<"off", "off">>

\* fillStatus, fillTiles and fillNextStep, over a page that has a problem of its
\* own already, or none.
fillStatus(s, st, own) ==
    LET connected == s.fault = "" /\ Connected(s)
        problem == own \/ s.fault # "" \/ (s.phase = "running" /\ ~s.ap) \/ (~connected /\ s.det # "")
    IN  [status  |-> StatusWord(s, connected),
         running |-> Running(s), connected |-> connected, cut |-> s.cut,
         proxy   |-> connected, dpi |-> connected /\ st.dpi, devs |-> s.devs,
         hero    |-> heroClass(s.cut, connected, s.phase = "starting"),
         power   |-> powerClass(connected, Running(s)),
         next    |-> nextStep(problem, st, s, connected)]

\* templates/index.html: the cut's control only on a running box, its banner only
\* on a cut one.
Template(d) ==
    [status |-> d.status, hero |-> d.hero, next |-> d.next, devs |-> d.devs,
     proxy |-> d.proxy, dpi |-> d.dpi,
     power |-> [class |-> d.power, posts |-> IF d.running THEN "off" ELSE "on", label |-> powerLabel(d.running)],
     cut    |-> IF d.running THEN {IF d.cut THEN "restore" ELSE "cut"} ELSE {},
     banner |-> IF d.cut THEN {TRUE} ELSE {}]

\* newStatusJSON.
newStatusJSON(s, st) == fillStatus(s, st, FALSE)

PowerPosts(j) == IF j.running THEN "off" ELSE "on"

\* panel.js, apply: an element the page was not drawn with is not made.
apply(shown, j) ==
    [status |-> j.status, hero |-> j.hero, next |-> j.next, devs |-> j.devs,
     proxy |-> j.proxy, dpi |-> j.dpi,
     power |-> [class |-> j.power, posts |-> PowerPosts(j), label |-> powerLabel(j.running)],
     cut    |-> {IF j.cut THEN "restore" ELSE "cut" : x \in shown.cut},
     banner |-> {j.cut : x \in shown.banner}]

-----------------------------------------------------------------------------
(* The list of events.                                                      *)

addLocked(l, kind) ==
    LET n == (l.next + 1) % eventCapacity
    IN  [l EXCEPT !.ring[l.next] = kind, !.next = n, !.full = l.full \/ n = 0]

\* Mutant: a service that does not answer counts as a box that is off.
observeBlind(l, s) ==
    IF ~l.seen THEN [l EXCEPT !.seen = TRUE, !.connected = Connected(s)]
    ELSE IF Connected(s) = l.connected THEN l
    ELSE [addLocked(l, IF Connected(s) THEN "connected" ELSE "disconnected") EXCEPT !.connected = Connected(s)]

\* Only a change is recorded, and nothing when the service did not answer.
observe(l, s) ==
    IF s.fault # "" THEN l
    ELSE IF ~l.seen THEN [l EXCEPT !.seen = TRUE, !.connected = Connected(s)]
    ELSE IF Connected(s) = l.connected THEN l
    ELSE [addLocked(l, IF Connected(s) THEN "connected" ELSE "disconnected") EXCEPT !.connected = Connected(s)]

entries(l) ==
    LET n == IF l.full THEN eventCapacity ELSE l.next
    IN  [i \in 1..n |-> l.ring[(l.next - i + 2 * eventCapacity) % eventCapacity]]

-----------------------------------------------------------------------------

NoRequest == [step |-> "idle"]

\* The page's first load; nothing else is under way.
PageInit ==
    /\ box \in {Zero, [Zero EXCEPT !.phase = "running", !.ap = TRUE]}
    /\ \E v \in Visits : stored = v.stored /\ may = v.may
    /\ flash = FALSE
    /\ log = [ring |-> [i \in 0..(eventCapacity - 1) |-> ""], next |-> 0, full |-> FALSE,
              seen |-> TRUE, connected |-> Connected(box)]
    /\ page = [shows |-> Template(fillStatus(box, stored, ConfigProblem(stored))), from |-> box,
               own |-> ConfigProblem(stored), loaded |-> 0, st |-> stored]
    /\ gen = 0 /\ busy = FALSE /\ timer = TRUE /\ visible = TRUE
    /\ poll = [i \in Polls |-> NoRequest] /\ post = NoRequest
    /\ at = 0 /\ flips = 0 /\ straight = TRUE

\* Readings that are not yet observed.
Reading == {i \in Polls : poll[i].step \in {"half", "read"}}
           \cup (IF post.step \in {"half", "read"} THEN {"post"} ELSE {})

Spends(what) == may[what] > 0 /\ may' = [may EXCEPT ![what] = @ - 1]

Moves(b) ==
    /\ box' = [b EXCEPT !.at = at + 1] /\ at' = at + 1
    /\ flips' = flips + (IF Connected(b) = Connected(box) THEN 0 ELSE 1)
    /\ straight' = (straight /\ (Reading = {} \/ [b EXCEPT !.at = box.at] = box))

-----------------------------------------------------------------------------
(* The box, by itself or for somebody else.                                 *)

BoxMoves ==
    /\ Spends("moves")
    /\ \/ box.phase # "running" /\ Moves([box EXCEPT !.phase = "starting", !.ap = FALSE])
       \/ box.phase = "starting" /\ Moves([box EXCEPT !.phase = "running", !.ap = TRUE])
       \/ box.phase = "starting" /\ Moves([box EXCEPT !.phase = "failed"])
       \/ box.phase = "running" /\ Moves([Zero EXCEPT !.det = box.det])
       \/ box.phase = "running" /\ ~box.cut /\ Moves([box EXCEPT !.ap = ~box.ap, !.devs = 0])
       \/ Running(box) /\ Moves([box EXCEPT !.cut = ~box.cut])
       \/ Running(box) /\ Moves([box EXCEPT !.devs = 1 - box.devs])
       \/ Moves([box EXCEPT !.det = IF box.det = "" THEN "noradio" ELSE ""])
    /\ UNCHANGED <<stored, flash, log, page, gen, busy, timer, visible, poll, post>>

-----------------------------------------------------------------------------
(* Service.Status, in two readings: the engine, the detection and the cut,   *)
(* and then the access point.                                               *)

\* What a second reading completes.
Looks(r) == [step |-> "read", gen |-> r.gen, kind |-> r.kind,
             st |-> r.st, own |-> r.own, s |-> [r.s EXCEPT !.ap = box.ap, !.devs = box.devs]]

Begins(r) == [r EXCEPT !.step = "half", !.s = [Zero EXCEPT !.phase = box.phase, !.cut = box.cut,
                                                           !.det = box.det, !.at = at]]

Refused(r) == [r EXCEPT !.step = "read", !.s = [Zero EXCEPT !.fault = "unavailable", !.at = at]]

Loses == Spends("losses")

\* handleStatusJSON.
PollIsRead(i) ==
    /\ \/ poll[i].step = "sent" /\ poll' = [poll EXCEPT ![i] = Begins(poll[i])] /\ UNCHANGED may
       \/ poll[i].step = "half" /\ poll' = [poll EXCEPT ![i] = Looks(poll[i])] /\ UNCHANGED may
       \/ poll[i].step = "sent" /\ Loses /\ poll' = [poll EXCEPT ![i] = Refused(poll[i])]
    /\ UNCHANGED <<box, stored, flash, log, page, gen, busy, timer, visible, post, at, flips, straight>>

PollIsObserved(i) ==
    /\ poll[i].step = "read" /\ log' = observe(log, poll[i].s)
    /\ poll' = [poll EXCEPT ![i].step = "answered", ![i].st = stored]
    /\ UNCHANGED <<box, stored, flash, page, gen, busy, timer, visible, post, at, flips, straight,
                   may>>

-----------------------------------------------------------------------------
(* The script.                                                              *)

Sends(i) ==
    /\ timer /\ poll[i].step = "idle"
    /\ poll' = [poll EXCEPT ![i] = [step |-> "sent", gen |-> gen, kind |-> "poll", st |-> stored, own |-> FALSE,
                                    s |-> Zero]]
    /\ timer' = FALSE
    /\ UNCHANGED <<box, stored, flash, log, page, gen, busy, visible, post, at, flips, straight, may>>

\* Mutant: the answer of a page that was replaced is taken.
CurrentAlways(r) == TRUE

Current(r) == r.gen = gen

\* The answer, and the next poll.  What is wrong with the stored text is kept beside
\* the document (own): a load at this moment would find it, and no message any more.
Arrives(i) ==
    /\ poll[i].step = "answered" /\ poll' = [poll EXCEPT ![i] = NoRequest]
    /\ page' = IF Current(poll[i]) /\ ~busy
               THEN [page EXCEPT !.shows = apply(page.shows, newStatusJSON(poll[i].s, poll[i].st)),
                                 !.from = poll[i].s, !.own = ConfigProblem(poll[i].st),
                                 !.st = poll[i].st]
               ELSE page
    /\ timer' = (timer \/ Current(poll[i]))
    /\ UNCHANGED <<box, stored, flash, log, gen, busy, visible, post, at, flips, straight, may>>

\* No answer within eight seconds.
Aborts(i) ==
    /\ poll[i].step # "idle" /\ Loses /\ poll' = [poll EXCEPT ![i] = NoRequest]
    /\ timer' = (timer \/ Current(poll[i]))
    /\ UNCHANGED <<box, stored, flash, log, page, gen, busy, visible, post, at, flips, straight>>

\* The tab is hidden, and shown again: schedule(0), whatever is under way.
Turns ==
    /\ Spends("turns")
    /\ visible' = ~visible /\ timer' = ~visible
    /\ UNCHANGED <<box, stored, flash, log, page, gen, busy, poll, post, at, flips, straight>>

\* A form is posted as it is shown; nothing else is while it is under way.
Presses(k) ==
    /\ visible /\ ~busy /\ Spends("presses") /\ busy' = TRUE
    /\ k \in {page.shows.power.posts} \cup page.shows.cut \cup {"select"}
    /\ post' = [step |-> "posted", gen |-> gen, kind |-> k, st |-> stored, own |-> FALSE, s |-> Zero]
    /\ UNCHANGED <<box, stored, flash, log, page, gen, timer, visible, poll, at, flips, straight>>

CanStart(st) == st.text # <<>> /\ ~ConfigProblem(st) /\ st.named

\* handlePower, handleCut and handleSelect: the call, the event and the message.
Handled(b, st, problem, kind) ==
    /\ Moves(b) /\ stored' = st /\ flash' = problem
    /\ log' = IF kind = "" THEN log ELSE addLocked(log, kind)
    /\ post' = [post EXCEPT !.step = "handled"]
    /\ UNCHANGED <<page, gen, busy, timer, visible, poll>>

Down(b) == [b EXCEPT !.phase = "failed", !.ap = FALSE, !.cut = FALSE, !.devs = 0]

HandlePower ==
    /\ post.step = "posted" /\ UNCHANGED may
    /\ \/ /\ post.kind = "off"
          /\ \/ Handled([Zero EXCEPT !.det = box.det], stored, FALSE, "switched-off")
             \/ Handled([Zero EXCEPT !.det = box.det], stored, TRUE, "")
       \/ post.kind = "on" /\ ~CanStart(stored) /\ Handled(box, stored, TRUE, "")
       \/ /\ post.kind = "on" /\ CanStart(stored)
          /\ \/ Handled([box EXCEPT !.phase = "running", !.ap = TRUE, !.cut = FALSE], stored, FALSE, "switched-on")
             \/ Handled(Down(box), stored, TRUE, "start-failed")

HandleCut ==
    /\ post.step = "posted" /\ UNCHANGED may /\ post.kind \in {"cut", "restore"}
    /\ \/ Running(box) /\ Handled([box EXCEPT !.cut = (post.kind = "cut")], stored, FALSE, "traffic-" \o post.kind)
       \/ ~Running(box) /\ Handled(box, stored, TRUE, "")

\* Another entry of the list as it is now, and a running box is restarted with it.
HandleSelect ==
    /\ post.step = "posted" /\ UNCHANGED may /\ post.kind = "select"
    /\ \/ Handled(box, stored, TRUE, "")
       \/ stored.sel + 1 \in ParseAll(stored.text) /\ Handled(box, stored, FALSE, "")
       \/ \E i \in ParseAll(stored.text) \ {stored.sel + 1} :
            LET st == [stored EXCEPT !.sel = i - 1]
            IN  \/ Handled(IF Running(box) THEN [box EXCEPT !.cut = FALSE, !.devs = 0] ELSE box, st, FALSE,
                           "config-changed")
                \/ Running(box) /\ Handled(Down(box), st, TRUE, "config-changed")

\* The redirect home: handleIndex takes the message and the stored state, reads the
\* status, and draws.
HomeIsRead ==
    /\ \/ /\ post.step = "handled"
          /\ post' = Begins([post EXCEPT !.st = stored, !.own = flash \/ ConfigProblem(stored)])
          /\ UNCHANGED may
       \/ post.step = "half" /\ post' = Looks(post) /\ UNCHANGED may
       \/ /\ post.step = "handled" /\ Loses
          /\ post' = Refused([post EXCEPT !.st = stored, !.own = flash \/ ConfigProblem(stored)])
    /\ UNCHANGED <<box, stored, flash, log, page, gen, busy, timer, visible, poll, at, flips, straight>>

HomeIsObserved ==
    /\ post.step = "read" /\ log' = observe(log, post.s) /\ post' = [post EXCEPT !.step = "answered"]
    /\ UNCHANGED <<box, stored, flash, page, gen, busy, timer, visible, poll, at, flips, straight, may>>

\* The answer takes the document's place, with a script of its own.
Replaces ==
    /\ post.step = "answered" /\ post' = NoRequest
    /\ page' = [shows |-> Template(fillStatus(post.s, post.st, post.own)), from |-> post.s, own |-> post.own,
                loaded |-> post.s.at, st |-> post.st]
    /\ gen' = gen + 1 /\ busy' = FALSE /\ timer' = TRUE
    /\ UNCHANGED <<box, stored, flash, log, visible, poll, at, flips, straight, may>>

\* "A timeout is an unknown result": the document stays.
PressIsLost ==
    /\ post.step \in {"posted", "handled", "answered"} /\ Loses /\ post' = NoRequest /\ busy' = FALSE
    /\ UNCHANGED <<box, stored, flash, log, page, gen, timer, visible, poll, at, flips, straight>>

PageNext ==
    \/ BoxMoves
    \/ \E i \in Polls : Sends(i) \/ PollIsRead(i) \/ PollIsObserved(i) \/ Arrives(i) \/ Aborts(i)
    \/ Turns
    \/ \E k \in {"on", "off", "cut", "restore", "select"} : Presses(k)
    \/ HandlePower \/ HandleCut \/ HandleSelect
    \/ HomeIsRead \/ HomeIsObserved \/ Replaces \/ PressIsLost

-----------------------------------------------------------------------------
(* Properties.                                                              *)

\* What a load of the page from the same status and the same stored state shows.
AsLoaded == Template(fillStatus(page.from, page.st, page.own))

\* "A second opinion about which is which is how the page and the box start
\* disagreeing" (panel.js, apply): whether it was loaded or updated in place, and
\* whatever page an answer was meant for, the page shows what a load from one and
\* the same status and store would show, and no status from before the page itself
\* was loaded.
\*
\* Two things are left aside.  nextStep "is computed on the server so the page and
\* the poll agree" (words.go:576), and they do not while the stored text has a
\* problem: fillConfig, which finds it, "is not run here" for the poll (view.go:882), so a
\* load says "problem" and the next poll takes it off the page.  And within one
\* page, a second poll sent when the tab is shown again may be answered before the
\* first: the page then goes back to the older status, and stays whole.
OneOpinion ==
    /\ LET Rest(d) == [d EXCEPT !.cut = {}, !.banner = {}, !.next = ""]
       IN  Rest(page.shows) = Rest(AsLoaded)
    /\ ConfigProblem(page.st) \/ page.shows.next = AsLoaded.next
    /\ page.shows.cut # {} /\ AsLoaded.cut # {} => page.shows.cut = AsLoaded.cut
    /\ page.shows.banner # {} => page.shows.banner = {page.from.cut}
    /\ page.from.at >= page.loaded

ConnectionEvents == {i \in DOMAIN entries(log) : entries(log)[i] \in {"connected", "disconnected"}}

\* "Ten concurrent pollers seeing the same transition record one event between
\* them" (events.go, observe): however many readings overlap, and in whatever order
\* they are observed, the list never tells of two drops, or of two connections, in a
\* row; and as long as the box did not change under a reading, it tells of no more of
\* them than there were.  (A reading the box changed under may be observed after a
\* newer one: the list then tells of a drop and a connection that were not.)
EventsAreReal ==
    /\ \A i, j \in ConnectionEvents :
         i < j /\ (\A n \in (i + 1)..(j - 1) : n \notin ConnectionEvents)
            => entries(log)[i] # entries(log)[j]
    /\ straight => Cardinality(ConnectionEvents) <= flips
=============================================================================

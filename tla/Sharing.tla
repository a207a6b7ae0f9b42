------------------------------ MODULE Sharing ------------------------------
(***************************************************************************)
(* The access points of the desktop systems (internal/hotspot): Internet   *)
(* Sharing on macOS (internetsharing.go), asked for through a preferences  *)
(* file that configd reads when it is told to, and Mobile Hotspot on       *)
(* Windows (mobilehotspot.go), asked for through a helper program that     *)
(* does one thing and exits (tools/caspian-tethering).  Both outlive the   *)
(* service that asked.                                                     *)
(*                                                                         *)
(* Calls come in the order the privileged service makes them in, as in     *)
(* Supervisor.tla.  A network is [name, password]; all are given the same  *)
(* gateway, so the address on the bridge does not tell one from another.   *)
(***************************************************************************)
EXTENDS Integers, FiniteSets

CONSTANTS
    Networks,
    NoNetwork,
    MaxTasks, MaxMishaps, MaxEnds       \* bounds on calls, failures and deaths of the service

VARIABLES
    backend,            \* "mac" or "win"
    task, step, asked,  \* the call under way ("start", "stop", "none"), its step, its network
    believes, undo,     \* the service: what it believes runs; a Stop is owed
    lapsed, wrong,      \* the call's context has expired; an error was met
    unseen,             \* a look at the machine failed and was taken for an answer
    memory, powered,    \* the plan Start was given; the radio is on by this program's doing
    airport, radioWas,  \* the radio's power, and as it was found
    file, changed2,     \* the preferences, or Windows' configuration; what writeIfChanged said
    air, was,           \* the network on the air, and the one there, or coming, when the call began
    told, acting, target,   \* the system: it has been told; it carries out what it read
    tasks, mishaps, ends

deal   == <<task, asked, believes, undo, lapsed, was>>
driver == <<memory, powered>>
power  == <<airport, radioWas>>
apple  == <<told, acting, target>>
most   == <<backend, deal, wrong, tasks, ends>>
svars  == <<backend, deal, step, wrong, unseen, driver, power, file, changed2, air, apple, tasks,
            mishaps, ends>>

\* What a call looks at, told apart from what it changes.
still  == <<unseen, driver, power, file, changed2, air, apple>>

Mishap   == mishaps < MaxMishaps /\ mishaps' = mishaps + 1
NoMishap == UNCHANGED mishaps
Works    == ~lapsed /\ NoMishap
Fails    == Mishap \/ (lapsed /\ NoMishap)

SharingInit ==
    /\ backend \in {"mac", "win"}
    /\ task = "none" /\ step = "idle" /\ asked = NoNetwork
    /\ believes = NoNetwork /\ undo = FALSE /\ lapsed = FALSE /\ wrong = FALSE /\ unseen = FALSE
    /\ memory = NoNetwork /\ powered = FALSE
    /\ airport \in {TRUE} \cup {b \in BOOLEAN : backend = "mac"} /\ radioWas = airport
    /\ file = [net |-> NoNetwork, on |-> FALSE, ours |-> FALSE] /\ changed2 = FALSE
    /\ air = NoNetwork /\ was = NoNetwork
    /\ told = FALSE /\ acting = FALSE /\ target = NoNetwork
    /\ tasks = 0 /\ mishaps = 0 /\ ends = 0

-----------------------------------------------------------------------------
(* Calls.                                                                   *)

Asks(t, n, l) ==
    /\ step = "idle" /\ tasks < MaxTasks /\ tasks' = tasks + 1
    /\ task' = t /\ asked' = n /\ step' = l
    /\ lapsed' = FALSE /\ wrong' = FALSE
    /\ was' = IF backend = "win" /\ acting THEN target ELSE air
    /\ UNCHANGED <<backend, believes, undo, still, mishaps, ends>>

StartSharing(n) ==
    /\ ~undo /\ believes \in {NoNetwork, n}
    /\ Asks("start", n, IF backend = "mac" THEN "radio" ELSE "status")
StopSharing == Asks("stop", NoNetwork, IF backend = "mac" THEN "render" ELSE "helperStop")

Ended(w) ==
    /\ step' = "idle" /\ task' = "none" /\ asked' = NoNetwork /\ wrong' = w
    /\ believes' = IF task = "stop" THEN NoNetwork ELSE IF w THEN believes ELSE asked
    /\ undo' = (task = "start" /\ w /\ believes = NoNetwork)
    /\ UNCHANGED <<backend, lapsed, was, tasks, ends>>

To(l) == step' = l /\ UNCHANGED most
On(l) == step = l

\* The caller's deadline passes: no command runs any more.
Lapse ==
    /\ task # "none" /\ ~lapsed /\ lapsed' = TRUE /\ Mishap
    /\ UNCHANGED <<backend, task, step, asked, believes, undo, was, wrong, still, tasks, ends>>

-----------------------------------------------------------------------------
(* macOS: the pieces.                                                       *)

\* Mutant: the radio is this program's to switch off however it was found.
PoweredAlways(known) == TRUE

\* A radio that says it is on is left alone; any other answer is followed by
\* switching it on, and by the record that says so.
Powered(known) == ~(known /\ airport)

\* ensureRadioOn.  A power that could not be read is taken for off.
EnsureRadioOn ==
    /\ On("radio")
    /\ \/ /\ Works /\ UNCHANGED unseen
          /\ powered' = (powered \/ Powered(TRUE)) /\ airport' = TRUE /\ To("service")
       \/ /\ ~lapsed /\ Mishap /\ unseen' = TRUE
          /\ powered' = (powered \/ Powered(FALSE)) /\ airport' = TRUE /\ To("service")
       \/ /\ ~airport \/ lapsed
          /\ Fails /\ UNCHANGED <<unseen, powered, airport>> /\ Ended(TRUE)
    /\ UNCHANGED <<memory, radioWas, file, changed2, air, apple>>

\* uplinkService.
UplinkService ==
    /\ On("service")
    /\ (Works /\ To("compare")) \/ (Fails /\ Ended(TRUE))
    /\ UNCHANGED still

\* renderNATPrefs, and whether the file is that, byte for byte.
Prefs(n, on) == [net |-> n, on |-> on, ours |-> TRUE]

\* A live network under other preferences goes off first.
OffFirst(n) == file # Prefs(n, TRUE) /\ air # NoNetwork

\* A file or a bridge that cannot be read stands in the way of nothing.
Compare ==
    /\ On("compare")
    /\ \/ Works /\ UNCHANGED unseen /\ To(IF OffFirst(asked) THEN "off" ELSE "write")
       \/ Fails /\ unseen' = TRUE /\ To("write")
    /\ UNCHANGED <<driver, power, file, changed2, air, apple>>

\* writeIfChanged.
Write(p) == file' = p /\ changed2' = (file # p)

\* nudge: scutil saves the file again, in its own form, and configd is told.
Nudged == told' = TRUE /\ file' = [file EXCEPT !.ours = FALSE]

\* A step that writes, and one that nudges, and where each goes.
WriteStep(p, next, failed) ==
    \/ Write(p) /\ NoMishap /\ next
    \/ UNCHANGED <<file, changed2>> /\ Mishap /\ failed

NudgeStep(next, failed) ==
    \/ Nudged /\ Works /\ next
    \/ UNCHANGED <<told, file>> /\ Fails /\ failed

\* awaitBridge: the bridge is as wanted, or a look at it that failed is taken for
\* "gone", or the tries run out, or the context.
Awaits(up, next, failed) ==
    \/ (air # NoNetwork) = up /\ Works /\ UNCHANGED unseen /\ next
    \/ ~up /\ air # NoNetwork /\ ~lapsed /\ Mishap /\ unseen' = TRUE /\ next
    \/ Fails /\ UNCHANGED unseen /\ failed

\* launchctl kickstart: the daemon starts afresh and reads the file.
Kickstart(next, failed) ==
    \/ /\ Works /\ next
       /\ told' = TRUE /\ acting' = FALSE /\ air' = NoNetwork /\ UNCHANGED target
    \/ Fails /\ UNCHANGED <<apple, air>> /\ failed

-----------------------------------------------------------------------------
(* macOS: Start and Stop.                                                   *)

TurnOff ==
    /\ On("off") /\ WriteStep(Prefs(asked, FALSE), To("offNudge"), Ended(TRUE))
    /\ UNCHANGED <<unseen, driver, power, air, apple>>

OffNudge ==
    /\ On("offNudge") /\ NudgeStep(To("offAwait"), Ended(TRUE))
    /\ UNCHANGED <<unseen, driver, power, changed2, air, acting, target>>

OffAwait ==
    /\ On("offAwait") /\ Awaits(FALSE, To("write"), Ended(TRUE))
    /\ UNCHANGED <<driver, power, file, changed2, air, apple>>

\* The plan is remembered before its preferences are written.
WritePrefs ==
    /\ On("write") /\ memory' = asked
    /\ WriteStep(Prefs(asked, TRUE), To("look"), Ended(TRUE))
    /\ UNCHANGED <<unseen, powered, power, air, apple>>

\* Up with these preferences already: nothing to do.
LookAgain ==
    /\ On("look")
    /\ \/ ~changed2 /\ air # NoNetwork /\ Works /\ Ended(FALSE)
       \/ (changed2 \/ air = NoNetwork) /\ NoMishap /\ To("nudge")
       \/ ~changed2 /\ Fails /\ To("nudge")
    /\ UNCHANGED still

Nudge ==
    /\ On("nudge") /\ NudgeStep(To("await"), Ended(TRUE))
    /\ UNCHANGED <<unseen, driver, power, changed2, air, acting, target>>

AwaitBridge ==
    /\ \/ On("await") /\ Awaits(TRUE, Ended(FALSE), To("kick"))
       \/ On("awaitAgain") /\ Awaits(TRUE, Ended(FALSE), Ended(TRUE))
    /\ UNCHANGED <<driver, power, file, changed2, air, apple>>

KickAndWait ==
    /\ On("kick") /\ Kickstart(To("awaitAgain"), Ended(TRUE))
    /\ UNCHANGED <<unseen, driver, power, file, changed2>>

Errs(l) == step' = l /\ wrong' = TRUE /\ UNCHANGED <<backend, deal, tasks, ends>>

\* Mutant: only what this process started is turned off.
RenderOffOwn ==
    /\ On("render") /\ NoMishap /\ To(IF memory # NoNetwork THEN "stopWrite" ELSE "power")
    /\ UNCHANGED still

\* From the plan, or from the file when a process before this one wrote it or the
\* uplink's service is not found; with neither there is nothing to write, and that is
\* no error.
RenderOff ==
    /\ On("render")
    /\ \/ Works /\ UNCHANGED unseen /\ To("stopWrite")
       \/ memory # NoNetwork /\ ~lapsed /\ Mishap /\ UNCHANGED unseen /\ To("stopWrite")
       \/ Fails /\ unseen' = TRUE /\ To("power")
    /\ UNCHANGED <<driver, power, file, changed2, air, apple>>

\* Off, and on with the rest whatever fails.
StopWrite ==
    /\ On("stopWrite")
    /\ WriteStep(IF memory # NoNetwork THEN Prefs(memory, FALSE)
                 ELSE [file EXCEPT !.on = FALSE, !.ours = FALSE],
                 To("stopNudge"), Errs("stopNudge"))
    /\ UNCHANGED <<unseen, driver, power, air, apple>>

StopNudge ==
    /\ On("stopNudge") /\ NudgeStep(To("stopAwait"), Errs("stopAwait"))
    /\ UNCHANGED <<unseen, driver, power, changed2, air, acting, target>>

StopAwait ==
    /\ \/ On("stopAwait") /\ Awaits(FALSE, To("power"), To("stopKick"))
       \/ On("stopAgain") /\ Awaits(FALSE, To("power"), Errs("power"))
    /\ UNCHANGED <<driver, power, file, changed2, air, apple>>

StopKick ==
    /\ On("stopKick") /\ Kickstart(To("stopAgain"), Errs("power"))
    /\ UNCHANGED <<unseen, driver, power, file, changed2>>

\* The radio goes off if the record says so; the record was dropped at the start
\* of the call.
PowerOff ==
    /\ On("power") /\ powered' = FALSE
    /\ \/ powered /\ Works /\ airport' = FALSE /\ air' = NoNetwork /\ Ended(wrong)
       \/ powered /\ Fails /\ UNCHANGED <<airport, air>> /\ Ended(TRUE)
       \/ ~powered /\ NoMishap /\ UNCHANGED <<airport, air>> /\ Ended(wrong)
    /\ UNCHANGED <<unseen, memory, radioWas, file, changed2, apple>>

-----------------------------------------------------------------------------
(* Windows: the helper and its caller.                                      *)

\* On already means on under this name; the name is the configuration's.
OnAlready == air # NoNetwork /\ ~acting /\ file.net # NoNetwork /\ file.net.name = asked.name

\* Start: the plan is remembered; then one Status call.
HelperStatus ==
    /\ On("status") /\ memory' = asked
    /\ \/ OnAlready /\ Works /\ Ended(FALSE)
       \/ ~OnAlready /\ Works /\ To("configure")
       \/ Fails /\ To("configure")
    /\ UNCHANGED <<unseen, powered, power, file, changed2, air, apple>>

\* ConfigureAccessPointAsync; a hotspot that is on may or may not take it up.
Configure ==
    /\ On("configure")
    /\ \/ /\ Works /\ file' = Prefs(asked, FALSE)
          /\ air' \in {air, IF air = NoNetwork THEN air ELSE asked}
          /\ To("tether")
       \/ Fails /\ UNCHANGED <<file, air>> /\ Ended(TRUE)
    /\ UNCHANGED <<unseen, driver, power, changed2, apple>>

\* StartTetheringAsync, unless it is on.
Tether ==
    /\ On("tether")
    /\ \/ air # NoNetwork /\ Works /\ UNCHANGED apple /\ To("poll")
       \/ air = NoNetwork /\ Works /\ acting' = TRUE /\ target' = file.net /\ UNCHANGED told /\ To("poll")
       \/ Fails /\ UNCHANGED apple /\ Ended(TRUE)
    /\ UNCHANGED <<unseen, driver, power, file, changed2, air>>

\* Status until it says on, or the tries run out.
Poll ==
    /\ On("poll")
    /\ \/ air # NoNetwork /\ ~acting /\ Works /\ Ended(FALSE)
       \/ Fails /\ Ended(TRUE)
    /\ UNCHANGED still

HelperStop ==
    /\ On("helperStop")
    /\ \/ Works /\ air' = NoNetwork /\ acting' = FALSE /\ Ended(FALSE)
       \/ Fails /\ UNCHANGED <<air, acting>> /\ Ended(TRUE)
    /\ UNCHANGED <<unseen, driver, power, file, changed2, told, target>>

-----------------------------------------------------------------------------
(* The system.                                                              *)

\* configd reads the file some time after it was told,
SystemReads ==
    /\ told /\ told' = FALSE /\ acting' = TRUE
    /\ target' = IF file.on THEN file.net ELSE NoNetwork
    /\ UNCHANGED <<backend, deal, step, wrong, unseen, driver, power, file, changed2, air, tasks,
                   mishaps, ends>>

\* and acts on what it read some time after that, or turns it down.
SystemActs ==
    /\ acting /\ acting' = FALSE
    /\ \/ air' = (IF airport THEN target ELSE NoNetwork) /\ NoMishap
       \/ target # NoNetwork /\ air' = NoNetwork /\ Mishap
    /\ UNCHANGED <<backend, deal, step, wrong, unseen, driver, power, file, changed2, told, target,
                   tasks, ends>>

\* The service dies; what it asked the system for stays.
ServiceEnds ==
    /\ ends < MaxEnds /\ ends' = ends + 1
    /\ task' = "none" /\ step' = "idle" /\ asked' = NoNetwork /\ believes' = NoNetwork /\ undo' = FALSE
    /\ lapsed' = FALSE /\ was' = NoNetwork /\ wrong' = TRUE
    /\ memory' = NoNetwork /\ powered' = FALSE /\ changed2' = FALSE
    /\ UNCHANGED <<backend, unseen, power, file, air, apple, tasks, mishaps>>

SharingNext ==
    \/ StopSharing \/ (\E n \in Networks : StartSharing(n)) \/ Lapse
    \/ EnsureRadioOn \/ UplinkService \/ Compare \/ TurnOff \/ OffNudge \/ OffAwait
    \/ WritePrefs \/ LookAgain \/ Nudge \/ AwaitBridge \/ KickAndWait
    \/ RenderOff \/ StopWrite \/ StopNudge \/ StopAwait \/ StopKick \/ PowerOff
    \/ HelperStatus \/ Configure \/ Tether \/ Poll \/ HelperStop
    \/ SystemReads \/ SystemActs \/ ServiceEnds

SharingSpec == SharingInit /\ [][SharingNext]_svars

-----------------------------------------------------------------------------
(* Properties.                                                              *)

\* Once the system has done what it was told, the network on the air is the one
\* the last call that ended well left there, through calls that failed, deaths of the
\* service and a system that is late (internetsharing.go, Start: "A live bridge can
\* belong to the previous SSID/password"; Stop: "so that a fresh start after a crash
\* still stops what is running").  Three cases are left out: a look at the machine that
\* failed and was taken for an answer; a Windows hotspot that was on with another
\* network when asked; and preferences the system was never told of, where Start's own
\* comment is not kept.  A start that writes them and dies before the nudge, while the
\* system is late to bring up the network before, makes the next start find an unchanged
\* file and a live bridge, and report the old network as the new one.
SharingIsAsBelieved ==
    /\ step = "idle" /\ tasks > 0 /\ ~wrong /\ ~undo /\ ~unseen
    /\ mishaps + ends = 0 \/ (~told /\ ~acting)
    /\ backend = "win" => was \in {NoNetwork, believes}
    /\ backend = "mac" => ~file.ours
    => air = believes \/ (air = NoNetwork /\ mishaps > 0)

\* The driver never switches off a radio that was found on, and gives back one that
\* was found off (internetsharing.go, poweredOn: "undoing our own change, not switching
\* off a radio the user had on").  The first is not claimed where the power could not
\* be read: it is then taken for off.  The second holds as long as nothing has failed
\* and the service has not died: poweredOn is in memory only, and a death loses it.
RadioIsKept ==
    /\ radioWas /\ ~unseen => airport
    /\ step = "idle" /\ believes = NoNetwork /\ ~undo /\ mishaps + ends = 0 => airport = radioWas
=============================================================================

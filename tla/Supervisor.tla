----------------------------- MODULE Supervisor -----------------------------
(***************************************************************************)
(* The hotspot's supervisor (internal/hotspot, supervisor.go): it starts   *)
(* and stops hostapd and dnsmasq through their configuration files and pid *)
(* files, and switches a blocked radio on for as long as the hotspot runs. *)
(*                                                                         *)
(* Start and Stop come in the order the privileged service calls them in   *)
(* (PrivService.tla): one at a time, a different plan only after a Stop,   *)
(* and a Stop after a start that failed.                                   *)
(***************************************************************************)
EXTENDS Integers, FiniteSets

CONSTANTS
    Plans,      \* hotspot plans
    Devs,       \* wireless devices rfkill lists
    None,       \* no plan
    MaxOps, MaxFaults, MaxCrashes, MaxTouches     \* bounds

ASSUME PlansAssumption == None \notin Plans

Units == {"ap", "dhcp"}     \* hostapd and dnsmasq

VARIABLES
    op, pc, unit,    \* the call under way ("start", "stop" or "none"), its step, its unit
    plan,            \* the plan of the start under way
    current, owes,   \* the service: what it believes runs; a Stop is owed
    dead,            \* the call's context has expired
    bad,             \* an error was met
    hurt, blind,     \* something went wrong during this call; a search for strays failed
    conf, changed,   \* the configuration files; what writeIfChanged answered
    daemon, pid,     \* the plan each live daemon read; its pid file: "none", "live", "stale", "reused"
    soft, hard,      \* the blocked devices
    were, unblocked, \* the devices seen blocked; the supervisor's record
    found,           \* the devices that were blocked when the program first ran
    ops, faults, crashes, touches

call   == <<op, unit, plan, current, owes, dead>>
procs  == <<conf, changed, daemon, pid>>
radio  == <<soft, hard, were, unblocked, found>>
bounds == <<ops, crashes, touches>>
vars   == <<call, pc, bad, hurt, blind, procs, radio, bounds, faults>>

Fault   == faults < MaxFaults /\ faults' = faults + 1 /\ hurt' = TRUE
NoFault == UNCHANGED <<faults, hurt>>

Init ==
    /\ op = "none" /\ pc = "idle" /\ unit = "ap" /\ plan = None
    /\ current = None /\ owes = FALSE /\ dead = FALSE /\ bad = FALSE /\ hurt = FALSE /\ blind = FALSE
    /\ conf = [u \in Units |-> None] /\ changed = [u \in Units |-> FALSE]
    /\ daemon = [u \in Units |-> None] /\ pid = [u \in Units |-> "none"]
    /\ soft \in SUBSET Devs /\ hard = {} /\ were = {} /\ unblocked = {} /\ found = soft
    /\ ops = 0 /\ faults = 0 /\ crashes = 0 /\ touches = 0

-----------------------------------------------------------------------------
(* Calls.                                                                   *)

At(l) == pc = l
Begin(o, p, l) ==
    /\ pc = "idle" /\ ops < MaxOps
    /\ ops' = ops + 1
    /\ op' = o /\ plan' = p /\ pc' = l /\ unit' = "ap"
    /\ dead' = FALSE /\ bad' = FALSE /\ hurt' = FALSE /\ blind' = FALSE
    /\ UNCHANGED <<current, owes, procs, radio, faults, crashes, touches>>

Start(p) == ~owes /\ current \in {None, p} /\ Begin("start", p, "radio")
Stop == Begin("stop", None, "stopPid")

\* The call returns.  The service remembers what runs and undoes a failed start.
Return(b) ==
    /\ pc' = "idle" /\ op' = "none" /\ plan' = None /\ bad' = b /\ unit' = "ap"
    /\ \/ op = "stop" /\ current' = None /\ owes' = FALSE
       \/ op = "start" /\ ~b /\ current' = plan /\ UNCHANGED owes
       \/ op = "start" /\ b /\ owes' = (current = None) /\ UNCHANGED current
    /\ UNCHANGED <<dead, bounds>>

Step(l) == pc' = l /\ UNCHANGED <<call, bad, bounds>>

\* The caller's deadline passes during the call.
Expire ==
    /\ op # "none" /\ ~dead /\ ~owes /\ dead' = TRUE /\ Fault
    /\ UNCHANGED <<op, unit, plan, current, owes, pc, bad, blind, procs, radio, bounds>>

-----------------------------------------------------------------------------
(* The radio.                                                               *)

\* ensureRadioUnblocked: rfkill that cannot be read is no reason to stop; a hard
\* block is.
ReadRadio ==
    /\ At("radio")
    /\ \/ ~dead /\ hard # {} /\ Return(TRUE) /\ hurt' = TRUE /\ UNCHANGED <<were, faults>>
       \/ ~dead /\ hard = {} /\ soft # {} /\ were' = soft /\ Step("unblock") /\ NoFault
       \/ ~dead /\ hard = {} /\ soft = {} /\ Step("write") /\ UNCHANGED were /\ NoFault
       \/ ~dead /\ Step("write") /\ UNCHANGED were /\ Fault
       \/ dead /\ Step("write") /\ UNCHANGED were /\ NoFault
    /\ UNCHANGED <<soft, hard, unblocked, found, procs, blind>>

Unblock ==
    /\ At("unblock")
    /\ \/ ~dead /\ soft' = {} /\ Step("confirm") /\ NoFault
       \/ ~dead /\ UNCHANGED soft /\ Return(TRUE) /\ Fault
       \/ dead /\ UNCHANGED soft /\ Return(TRUE) /\ NoFault
    /\ UNCHANGED <<hard, were, unblocked, found, procs, blind>>

\* Mutant: every device is recorded, blocked before or not.
ConfirmByType ==
    /\ At("confirm")
    /\ unblocked' = Devs /\ Step("write") /\ NoFault
    /\ UNCHANGED <<soft, hard, were, found, procs, blind>>

\* The change is read back before it is recorded as this program's own.
Confirm ==
    /\ At("confirm")
    /\ \/ ~dead /\ soft \cup hard = {} /\ unblocked' = were /\ Step("write") /\ NoFault
       \/ ~dead /\ soft \cup hard # {} /\ UNCHANGED unblocked /\ Return(TRUE) /\ hurt' = TRUE /\ UNCHANGED faults
       \/ ~dead /\ UNCHANGED unblocked /\ Step("write") /\ Fault
       \/ dead /\ UNCHANGED unblocked /\ Step("write") /\ NoFault
    /\ UNCHANGED <<soft, hard, were, found, procs, blind>>

\* reblockRadio: the record is dropped, then the recorded devices that are on are
\* switched off again.
Reblock ==
    /\ At("reblock")
    /\ unblocked' = {}
    /\ \/ unblocked = {} /\ UNCHANGED soft /\ Return(bad) /\ NoFault
       \/ /\ unblocked # {} /\ ~dead /\ Return(bad) /\ NoFault
          /\ soft' = soft \cup (unblocked \ hard)
       \/ /\ unblocked # {} /\ ~dead /\ Return(TRUE) /\ Fault
          /\ \E b \in SUBSET unblocked : soft' = soft \cup b
       \/ unblocked # {} /\ dead /\ UNCHANGED soft /\ Return(TRUE) /\ NoFault
    /\ UNCHANGED <<hard, were, found, procs, blind>>

-----------------------------------------------------------------------------
(* The daemons.                                                             *)

\* writeIfChanged.
WriteIfChanged(u) ==
    conf' = [conf EXCEPT ![u] = plan] /\ changed' = [changed EXCEPT ![u] = (conf[u] # plan)]

\* Both files are written before either daemon is looked at.
WriteConf ==
    /\ At("write")
    /\ \/ /\ WriteIfChanged(unit) /\ NoFault
          /\ unit' = IF unit = "ap" THEN "dhcp" ELSE "ap"
          /\ pc' = IF unit = "ap" THEN "write" ELSE "process"
          /\ UNCHANGED <<op, plan, current, owes, dead, bad, bounds>>
       \/ UNCHANGED <<conf, changed>> /\ Return(TRUE) /\ Fault
    /\ UNCHANGED <<daemon, pid, radio, blind>>

\* terminate: SIGTERM, a wait that needs a live context, SIGKILL.
Terminated(u) == daemon' = [daemon EXCEPT ![u] = None] /\ NoFault
GaveUp(u) == daemon' \in {daemon, [daemon EXCEPT ![u] = None]} /\ (Fault \/ (dead /\ NoFault))

\* livePID asks whether the process exists, not whose it is.
Live(u) == pid[u] \in {"live", "reused"}
PidGone(u) == pid' = [pid EXCEPT ![u] = "none"]
PidAfter(u) == pid' = [pid EXCEPT ![u] = IF @ = "live" /\ daemon'[u] = None THEN "stale" ELSE @]

\* stopStrays: whatever names our configuration file is terminated; a search that
\* fails finds nothing.
Strays(u) ==
    \/ Terminated(u) /\ ~dead /\ UNCHANGED blind
    \/ UNCHANGED daemon /\ blind' = TRUE /\ (Fault \/ (dead /\ NoFault))

\* Mutant: strays are left to Stop.
ProcessOverStray ==
    /\ At("process")
    /\ \/ Live(unit) /\ ~changed[unit] /\ Step("next") /\ UNCHANGED <<daemon, pid>> /\ NoFault
       \/ Live(unit) /\ changed[unit] /\ Terminated(unit) /\ PidGone(unit) /\ Step("spawn")
       \/ ~Live(unit) /\ PidGone(unit) /\ Step("spawn") /\ UNCHANGED daemon /\ NoFault
    /\ UNCHANGED <<conf, changed, radio, blind>>

\* startProcess: a daemon that runs this configuration is left alone, one that runs
\* another goes first, and so does one no pid file names.
Process ==
    /\ At("process")
    /\ \/ /\ Live(unit) /\ ~changed[unit]
          /\ Step("next") /\ UNCHANGED <<daemon, pid, blind>> /\ NoFault
       \/ /\ Live(unit) /\ changed[unit] /\ UNCHANGED blind
          /\ \/ Terminated(unit) /\ PidGone(unit) /\ Step("spawn")
             \/ GaveUp(unit) /\ PidAfter(unit) /\ Return(TRUE)
       \/ ~Live(unit) /\ Strays(unit) /\ PidGone(unit) /\ Step("spawn")
       \/ /\ ~Live(unit) /\ ~dead /\ GaveUp(unit) /\ UNCHANGED blind
          /\ PidGone(unit) \/ UNCHANGED pid
          /\ Return(TRUE)
    /\ UNCHANGED <<conf, changed, radio>>

\* The daemon reads its file and goes into the background.  A second one does not
\* get the radio or port 53.
Spawn ==
    /\ At("spawn")
    /\ \/ /\ ~dead /\ daemon[unit] = None /\ NoFault
          /\ daemon' = [daemon EXCEPT ![unit] = conf[unit]]
          /\ Step("await")
       \/ ~dead /\ daemon[unit] # None /\ UNCHANGED <<daemon, faults>> /\ hurt' = (hurt \/ blind) /\ Return(TRUE)
       \/ UNCHANGED daemon /\ Return(TRUE) /\ (Fault \/ (dead /\ NoFault))
    /\ UNCHANGED <<conf, changed, pid, radio, blind>>

\* awaitPID: the pid file appears, or the daemon died or could not write it.
Await ==
    /\ At("await")
    /\ \/ pid' = [pid EXCEPT ![unit] = "live"] /\ UNCHANGED daemon /\ Step("next") /\ NoFault
       \/ /\ daemon' \in {daemon, [daemon EXCEPT ![unit] = None]} /\ UNCHANGED pid
          /\ Return(TRUE) /\ (Fault \/ (dead /\ NoFault))
    /\ UNCHANGED <<conf, changed, radio, blind>>

\* The other daemon, then whether hostapd says it is beaconing.
NextUnit ==
    /\ At("next")
    /\ \/ unit = "ap" /\ unit' = "dhcp" /\ pc' = "process" /\ UNCHANGED <<op, plan, current, owes, dead, bad, bounds>> /\ NoFault
       \/ unit = "dhcp" /\ ~dead /\ Return(daemon["ap"] = None) /\ NoFault
       \/ unit = "dhcp" /\ Return(TRUE) /\ (Fault \/ (dead /\ NoFault))
    /\ UNCHANGED <<procs, radio, blind>>

\* Mutant: the error of a daemon that could not be stopped is dropped.
StopByPIDFileQuietly ==
    /\ At("stopPid")
    /\ \/ Live(unit) /\ (Terminated(unit) \/ GaveUp(unit)) /\ PidGone(unit)
       \/ ~Live(unit) /\ UNCHANGED daemon /\ PidGone(unit) /\ NoFault
    /\ pc' = "remove"
    /\ UNCHANGED <<call, bad, conf, changed, radio, blind, bounds>>

\* Stop: by the pid file; it goes with the daemon,
StopByPIDFile ==
    /\ At("stopPid")
    /\ \/ /\ ~Live(unit) \/ Terminated(unit)
          /\ Live(unit) \/ (UNCHANGED daemon /\ NoFault)
          /\ PidGone(unit) /\ UNCHANGED bad
       \/ Live(unit) /\ GaveUp(unit) /\ PidAfter(unit) /\ bad' = TRUE
       \/ ~Live(unit) /\ Fault /\ UNCHANGED <<daemon, pid>> /\ bad' = TRUE
    /\ pc' = "strays"
    /\ UNCHANGED <<call, conf, changed, radio, blind, bounds>>

\* then by the configuration file's name,
StopStrays ==
    /\ At("strays")
    /\ \/ Strays(unit) /\ UNCHANGED bad
       \/ daemon[unit] # None /\ ~dead /\ GaveUp(unit) /\ bad' = TRUE /\ UNCHANGED blind
    /\ PidAfter(unit)
    /\ pc' = "remove"
    /\ UNCHANGED <<call, conf, changed, radio, bounds>>

\* and the file itself, whatever became of the daemon.  The radio is last.
RemoveConf ==
    /\ At("remove")
    /\ \/ conf' = [conf EXCEPT ![unit] = None] /\ UNCHANGED bad /\ NoFault
       \/ UNCHANGED conf /\ bad' = TRUE /\ Fault
    /\ unit' = "dhcp" /\ pc' = IF unit = "ap" THEN "stopPid" ELSE "reblock"
    /\ UNCHANGED <<op, plan, current, owes, dead, changed, daemon, pid, radio, blind, bounds>>

-----------------------------------------------------------------------------
(* The machine.                                                             *)

\* A daemon dies on its own.
DaemonDies(u) ==
    /\ daemon[u] # None /\ Fault
    /\ daemon' = [daemon EXCEPT ![u] = None] /\ PidAfter(u)
    /\ UNCHANGED <<call, pc, bad, blind, conf, changed, radio, bounds>>

\* Another program comes by the number of a daemon that died.
PidReused(u) ==
    /\ pid[u] = "stale" /\ Fault
    /\ pid' = [pid EXCEPT ![u] = "reused"]
    /\ UNCHANGED <<call, pc, bad, blind, conf, changed, daemon, radio, bounds>>

\* The service dies and the unit's daemons with it; the files stay.
Crash ==
    /\ crashes < MaxCrashes /\ crashes' = crashes + 1
    /\ op' = "none" /\ pc' = "idle" /\ unit' = "ap" /\ plan' = None /\ current' = None /\ owes' = FALSE
    /\ dead' = FALSE /\ bad' = TRUE /\ hurt' = TRUE /\ blind' = FALSE
    /\ daemon' = [u \in Units |-> None]
    /\ pid' = [u \in Units |-> IF pid[u] = "live" THEN "stale" ELSE pid[u]]
    /\ unblocked' = {} /\ were' = {} /\ changed' = [u \in Units |-> FALSE]
    /\ UNCHANGED <<conf, soft, hard, found, ops, faults, touches>>

\* Somebody flips a switch: the soft one or the one on the machine.
Touch(d) ==
    /\ touches < MaxTouches /\ touches' = touches + 1
    /\ \/ soft' = (IF d \in soft THEN soft \ {d} ELSE soft \cup {d}) /\ UNCHANGED hard
       \/ hard' = (IF d \in hard THEN hard \ {d} ELSE hard \cup {d}) /\ UNCHANGED soft
    /\ UNCHANGED <<call, pc, bad, hurt, blind, procs, were, unblocked, found, ops, crashes, faults>>

Next ==
    \/ Stop \/ (\E p \in Plans : Start(p))
    \/ Expire
    \/ ReadRadio \/ Unblock \/ Confirm \/ Reblock
    \/ WriteConf \/ Process \/ Spawn \/ Await \/ NextUnit
    \/ StopByPIDFile \/ StopStrays \/ RemoveConf
    \/ (\E u \in Units : DaemonDies(u) \/ PidReused(u)) \/ Crash \/ (\E d \in Devs : Touch(d))

Spec == Init /\ [][Next]_vars

-----------------------------------------------------------------------------
(* Properties.                                                              *)

\* A call that ends well did what it says.  A start left no daemon that runs another
\* plan, whatever earlier calls left behind (supervisor.go, writeIfChanged: "an
\* unchanged file means the running process is running this configuration"); a stop
\* left no daemon, no pid file and no configuration, unless it could not search for
\* strays (Stop).
CallsMeanIt ==
    pc = "idle" /\ ~bad =>
        \A u \in Units :
            /\ current # None => daemon[u] \in {current, None}
            /\ current = None /\ ~owes /\ ops > 0 =>
                 pid[u] = "none" /\ conf[u] = None /\ (daemon[u] = None \/ blind)

\* A start with nothing going wrong during it succeeds, over strays, stale pid
\* files and half-done calls alike (supervisor.go, Stop: "a hostapd holding the
\* radio with no usable pid file").  The one exception is what startProcess calls
\* worse, a pid "reused by an unrelated process": it is taken for the daemon.
FaultlessStartWorks ==
    pc = "idle" /\ owes => hurt \/ (\E u \in Units : pid[u] = "reused")

\* With nobody touching the switches, no radio is ever blocked that was not found
\* blocked, whatever fails; and those found blocked are blocked again once the hotspot
\* is off (supervisor.go, reblockRadio: "a box found with its radio switched off was
\* left with it switched on"), as long as nothing has failed and the service has not
\* died: its record of what it unblocked is in memory only.
RadioAsFound ==
    touches = 0 =>
        /\ soft \subseteq found
        /\ pc = "idle" /\ current = None /\ ~owes /\ faults + crashes = 0 => soft = found
=============================================================================

-------------------------------- MODULE Panel --------------------------------
(***************************************************************************)
(* The panel's handlers that change what the box runs (internal/panel,     *)
(* handlers.go and sni.go): each request reads the store, edits it through *)
(* Update, asks the privileged service whether the box is on, and restarts *)
(* it if so.  The service is the switch PowerSwitch.tla promises: a call   *)
(* takes effect at one instant, may fail, and may outlive the panel's wait *)
(* for it.                                                                 *)
(***************************************************************************)
EXTENDS Store

CONSTANTS
    Entries,                             \* the number of entries of each configuration
    Off,
    MaxRequests, MaxFaults, MaxCrashes   \* bounds

ASSUME EntriesAssumption == Entries \in [Configs -> Nat \ {0}]

VARIABLES
    on,         \* what the box runs
    req,        \* the request each browser waits for
    orphans,    \* starts and stops whose caller has given up
    clean,      \* no failure so far, and no two requests at once
    requests, faults, crashes

bounds == <<requests, faults, crashes>>
vars   == <<store, on, req, orphans, clean, bounds>>

Idle == [kind |-> "none", pc |-> "idle"]

Init ==
    /\ StoreInit /\ on = Off
    /\ req = [b \in Writers |-> Idle] /\ orphans = {} /\ clean = TRUE
    /\ requests = 0 /\ faults = 0 /\ crashes = 0

\* bringUp: link.Select, which falls back to the first entry, and the request.
StartRequest(st) ==
    [cfg  |-> st.cfg, entry |-> IF st.sel < Entries[st.cfg] THEN st.sel ELSE 0,
     dpi  |-> st.dpi, ssid  |-> st.ssid]

Startable(st) == IsConfigured(st) /\ st.ssid # None

-----------------------------------------------------------------------------
(* Requests.                                                                *)

At(b, l) == req[b].pc = l
Goto(b, l) == req' = [req EXCEPT ![b].pc = l]
Quiet == \A b \in Writers : At(b, "idle")
Rest == UNCHANGED <<requests, crashes>>

Answer(b) == req' = [req EXCEPT ![b] = Idle]
Fine == UNCHANGED <<faults, clean>>
Fails == faults < MaxFaults /\ faults' = faults + 1 /\ clean' = FALSE

Arrive(b, k, x) ==
    /\ At(b, "idle") /\ requests < MaxRequests /\ requests' = requests + 1
    /\ req' = [req EXCEPT ![b] = [kind |-> k, arg |-> x,
                 pc |-> IF k \in {"on", "recover"} THEN "snapshot"
                        ELSE IF k = "off" THEN "stop"
                        ELSE IF k \in {"select", "sni", "refresh"} THEN "read" ELSE "save"]]
    /\ clean' = (clean /\ Quiet)
    /\ UNCHANGED <<store, on, orphans, faults, crashes>>

\* handleSelect, handleSNI and handleRefresh look at the stored configuration
\* before they go on: the entry has to be in its list and another than the one
\* chosen; there has to be an address to refresh from.
Read(b) ==
    /\ At(b, "read")
    /\ \/ req[b].kind = "select" /\ IsConfigured(mem) /\ req[b].arg < Entries[mem.cfg] /\ req[b].arg # mem.sel
          /\ Goto(b, "save")
       \/ req[b].kind = "select" /\ (IsConfigured(mem) => req[b].arg >= Entries[mem.cfg] \/ req[b].arg = mem.sel)
          /\ Answer(b)
       \/ req[b].kind = "sni" /\ IsConfigured(mem) /\ Goto(b, "save")
       \/ req[b].kind = "sni" /\ Answer(b)
       \/ req[b].kind = "refresh" /\ mem.sub /\ Goto(b, "fetch")
       \/ req[b].kind = "refresh" /\ ~mem.sub /\ Answer(b)
    /\ Fine /\ Rest /\ UNCHANGED <<store, on, orphans>>

\* The fetch through the tunnel: the service refuses when the engine is not
\* running; what comes back is parsed and validated like a paste.
Fetch(b) ==
    /\ At(b, "fetch")
    /\ \/ on # Off /\ Goto(b, "save")
       \/ Answer(b)
    /\ Fine /\ Rest /\ UNCHANGED <<store, on, orphans>>

\* Update, in the store's steps.
SaveBegins(b) ==
    /\ At(b, "save")
    /\ \/ Copy(b, [kind |-> req[b].kind, arg |-> req[b].arg], TRUE) /\ Goto(b, "saving")
       \/ Copy(b, [kind |-> req[b].kind, arg |-> req[b].arg], FALSE) /\ Answer(b)
    /\ Fine /\ Rest /\ UNCHANGED <<on, orphans>>

SaveReplaces(b) ==
    /\ At(b, "saving") /\ Replace(b)
    /\ UNCHANGED <<on, req, orphans, clean, bounds>>

\* Saved.  Only the address changes nothing a start is made from.
SaveEnds(b) ==
    /\ At(b, "saving") /\ Publish(b)
    /\ IF req[b].kind = "address" THEN Answer(b) ELSE Goto(b, "poll")
    /\ Fine /\ Rest /\ UNCHANGED <<on, orphans>>

SaveFails(b) ==
    /\ At(b, "saving") /\ WriteFails(b) /\ Answer(b)
    /\ Fails /\ Rest /\ UNCHANGED <<on, orphans>>

\* Mutant: a box that is running is left as it is.
PollOnly(b) ==
    /\ At(b, "poll") /\ Answer(b)
    /\ Fine /\ Rest /\ UNCHANGED <<store, on, orphans>>

\* afterConfigChange, and the end of handleHotspot: a box that is off, or does not
\* say, is left as it is.
Poll(b) ==
    /\ At(b, "poll")
    /\ \/ on # Off /\ Goto(b, "stop") /\ Fine
       \/ on = Off /\ Answer(b) /\ Fine
       \/ Answer(b) /\ Fails
    /\ Rest /\ UNCHANGED <<store, on, orphans>>

\* A stop that reports a failure has switched the box off all the same.
StopBox(b) ==
    /\ At(b, "stop") /\ on' = Off
    /\ \/ IF req[b].kind = "off" THEN Answer(b) /\ Fine ELSE Goto(b, "snapshot") /\ Fine
       \/ Answer(b) /\ Fails
    /\ Rest /\ UNCHANGED <<store, orphans>>

\* Mutant: the configuration and the other settings are read one after the other.
SnapshotTwice(b) ==
    /\ At(b, "snapshot") /\ Startable(mem)
    /\ \/ /\ "start" \notin DOMAIN req[b]
          /\ req' = [req EXCEPT ![b] = [kind |-> "on", pc |-> "snapshot", start |-> StartRequest(mem)]]
       \/ /\ "start" \in DOMAIN req[b]
          /\ req' = [req EXCEPT ![b].pc = "start", ![b].start.dpi = mem.dpi, ![b].start.ssid = mem.ssid]
    /\ Fine /\ Rest /\ UNCHANGED <<store, on, orphans>>

\* store.Snapshot, taken whole; nothing is started without a configuration and a name.
Snapshot(b) ==
    /\ At(b, "snapshot")
    /\ \/ Startable(mem) /\ req' = [req EXCEPT ![b] = [kind |-> "on", pc |-> "start", start |-> StartRequest(mem)]]
       \/ ~Startable(mem) /\ Answer(b)
    /\ Fine /\ Rest /\ UNCHANGED <<store, on, orphans>>

\* Start and Recover end alike: on, or refused with the box as it was, or undone.
StartBox(b) ==
    /\ At(b, "start") /\ Answer(b)
    /\ \/ on' = req[b].start /\ Fine
       \/ on' \in {on, Off} /\ Fails
    /\ Rest /\ UNCHANGED <<store, orphans>>

\* The panel's deadline passes first: the call may still take effect.
GiveUp(b) ==
    /\ req[b].pc \in {"stop", "start"} /\ Answer(b)
    /\ orphans' = orphans \cup {IF At(b, "stop") THEN Off ELSE req[b].start}
    /\ Fails /\ Rest /\ UNCHANGED <<store, on>>

Late(r) ==
    /\ r \in orphans /\ orphans' = orphans \ {r} /\ on' \in {on, r, Off}
    /\ UNCHANGED <<store, req, clean, bounds>>

-----------------------------------------------------------------------------
(* Crashes.                                                                 *)

Crash == crashes < MaxCrashes /\ crashes' = crashes + 1 /\ clean' = FALSE /\ UNCHANGED <<requests, faults>>

\* The panel dies alone; calls it had made go on without it.
PanelDies ==
    /\ Crash /\ Restart /\ req' = [b \in Writers |-> Idle] /\ UNCHANGED on
    /\ orphans' = orphans \cup {req[b].start : b \in {x \in Writers : At(x, "start")}}
                          \cup {Off : b \in {x \in Writers : At(x, "stop")}}

\* The privileged process dies and takes the engine and the hotspot along.
BoxDies ==
    /\ Crash /\ on # Off /\ on' = Off
    /\ UNCHANGED <<store, req, orphans>>

\* The power goes.
MachineDies ==
    /\ Crash /\ PowerCut /\ req' = [b \in Writers |-> Idle]
    /\ on' = Off /\ orphans' = {}

Next ==
    \/ \E b \in Writers :
         \/ \E k \in {"on", "off", "recover", "address"} : Arrive(b, k, None)
         \/ \E k \in {"paste", "refresh"}, c \in Configs : Arrive(b, k, c)
         \/ \E i \in 0 .. 1 : Arrive(b, "select", i)
         \/ \E d \in BOOLEAN : Arrive(b, "sni", d)
         \/ \E h \in Names : Arrive(b, "hotspot", h)
         \/ Read(b) \/ Fetch(b)
         \/ SaveBegins(b) \/ SaveReplaces(b) \/ SaveEnds(b) \/ SaveFails(b)
         \/ Poll(b) \/ StopBox(b) \/ Snapshot(b) \/ StartBox(b) \/ GiveUp(b)
    \/ \E r \in orphans : Late(r)
    \/ PanelDies \/ BoxDies \/ MachineDies

Spec == Init /\ [][Next]_vars

-----------------------------------------------------------------------------
(* Properties.                                                              *)

\* Whatever fails or dies between any two steps, the file holds, and after a power cut
\* would hold, a whole state: the last one reported saved, or one whose saving did not
\* get to its end once the file had been replaced.  A change that was reported saved
\* survives (store.go, writeAtomic).  That a save which failed may have replaced the
\* file all the same is left to it; FailedSaveChangesNothing is about that.
SavedSurvives == {file} \cup Remains \subseteq {acked} \cup unsettled

\* "If fn or the write fails, nothing changes: neither the file nor what other
\* goroutines can see" (store.go, Update): as long as nothing dies, the file is what
\* readers see whenever nobody is saving.
FailedSaveChangesNothing == mu = None => file = mem

\* No change that was reported saved is lost to another: memory is every one of them
\* applied to the one before (store.go, Update).
NoLostUpdate == mem = acked

\* The box only ever runs settings that were the stored ones, all of them, at one
\* moment (bringUp takes one Snapshot).
RunsAStoredWhole == on \in {Off} \cup {StartRequest(st) : st \in {x \in hist : Startable(x)}}

Agrees == on # Off => on = StartRequest(mem)

\* Used by one person at a time, without failures, the box that is on runs what the
\* panel shows as stored, whatever they change (afterConfigChange).
OneAtATime == (Quiet /\ clean) => Agrees

\* "Doing nothing here would leave the panel saying one thing and the box doing
\* another" (handlers.go, afterConfigChange): without failures, whenever no request is
\* under way the box that is on runs what is stored.
SaysWhatItDoes == (Quiet /\ faults = 0 /\ crashes = 0) => Agrees
=============================================================================

-------------------------------- MODULE Store --------------------------------
(***************************************************************************)
(* The panel's state file (internal/state): one copy in memory that        *)
(* readers take whole, and Update, which edits a copy under the mutex,     *)
(* replaces the file through a temporary one, and publishes the copy last. *)
(*                                                                         *)
(* The state keeps the fields a start is made from: the pasted             *)
(* configuration and the entry chosen in it, the settings against traffic  *)
(* inspection, the hotspot's name, and whether a subscription address is   *)
(* known.                                                                  *)
(***************************************************************************)
EXTENDS Integers, FiniteSets

CONSTANTS Writers, Configs, Names, None, Torn

VARIABLES
    mem,            \* what readers see
    file, flushed,  \* what the name state.json points at; its bytes are on the medium
    durable,        \* what the name points at on the medium
    mu, upd,        \* the mutex's holder; its step, edit and edited copy
    acked,          \* the edits that were reported saved, applied to one another
    unsettled,      \* other states the name has pointed at since an edit was last reported saved
    hist            \* every state ever published

store == <<mem, file, flushed, durable, mu, upd, acked, unsettled, hist>>

NoUpdate == [step |-> "none"]

\* defaultState, and asFirstRun.
Fresh == [cfg |-> None, sel |-> 0, dpi |-> FALSE, ssid |-> None, sub |-> FALSE]

\* A first run, or a panel that was set up in an earlier one.
StoreInit ==
    /\ mem \in {Fresh} \cup {[Fresh EXCEPT !.cfg = c, !.ssid = h, !.sub = TRUE] : c \in Configs, h \in Names}
    /\ file = mem /\ flushed = TRUE /\ durable = mem
    /\ mu = None /\ upd = NoUpdate
    /\ acked = mem /\ unsettled = {} /\ hist = {mem}

-----------------------------------------------------------------------------
(* Edits.                                                                   *)

IsConfigured(st) == st.cfg # None

SetProxyConfig(st, c) == [st EXCEPT !.cfg = c, !.sel = 0, !.dpi = FALSE]
SelectProxyEntry(st, i) == [st EXCEPT !.sel = i]
SetDPISettings(st, d) == [st EXCEPT !.dpi = d]
SetHotspot(st, h) == [st EXCEPT !.ssid = h]
SetSubscriptionURL(st) == [st EXCEPT !.sub = TRUE]
RecordRefresh(st, c) == [st EXCEPT !.cfg = c, !.sel = 0]

Apply(e, st) ==
    CASE e.kind = "paste"   -> SetProxyConfig(st, e.arg)
      [] e.kind = "select"  -> SelectProxyEntry(st, e.arg)
      [] e.kind = "sni"     -> SetDPISettings(st, e.arg)
      [] e.kind = "hotspot" -> SetHotspot(st, e.arg)
      [] e.kind = "address" -> SetSubscriptionURL(st)
      [] e.kind = "refresh" -> RecordRefresh(st, e.arg)

\* The edit's own refusals, and validate's.
Refuses(e, st) ==
    \/ e.kind \in {"select", "sni"} /\ ~IsConfigured(st)
    \/ e.kind = "refresh" /\ ~st.sub

-----------------------------------------------------------------------------
(* Update.                                                                  *)

\* Mutant: the edit is applied to what the file holds.
CopyFromFile(w, e, ok) ==
    /\ mu = None /\ ok = ~Refuses(e, file)
    /\ IF ok THEN mu' = w /\ upd' = [step |-> "write", edit |-> e, next |-> Apply(e, file)]
             ELSE UNCHANGED <<mu, upd>>
    /\ UNCHANGED <<mem, file, flushed, durable, acked, unsettled, hist>>

\* The mutex, the copy, the edit, validate.
Copy(w, e, ok) ==
    /\ mu = None /\ ok = ~Refuses(e, mem)
    /\ IF ok THEN mu' = w /\ upd' = [step |-> "write", edit |-> e, next |-> Apply(e, mem)]
             ELSE UNCHANGED <<mu, upd>>
    /\ UNCHANGED <<mem, file, flushed, durable, acked, unsettled, hist>>

\* Mutant: the temporary file is renamed before its bytes are flushed.
ReplaceUnflushed(w) ==
    /\ mu = w /\ upd.step = "write" /\ upd' = [upd EXCEPT !.step = "sync"]
    /\ file' = upd.next /\ flushed' = FALSE /\ unsettled' = unsettled \cup {upd.next}
    /\ UNCHANGED <<mem, durable, mu, acked, hist>>

\* The temporary file, which takes the name; before it does, failures leave nothing.
Replace(w) ==
    /\ mu = w /\ upd.step = "write" /\ upd' = [upd EXCEPT !.step = "sync"]
    /\ file' = upd.next /\ flushed' = TRUE /\ unsettled' = unsettled \cup {upd.next}
    /\ UNCHANGED <<mem, durable, mu, acked, hist>>

\* The directory is synced, and the copy published.
Publish(w) ==
    /\ mu = w /\ upd.step = "sync"
    /\ durable' = file /\ mem' = upd.next /\ hist' = hist \cup {mem'}
    /\ acked' = Apply(upd.edit, acked) /\ unsettled' = {}
    /\ mu' = None /\ upd' = NoUpdate /\ UNCHANGED <<file, flushed>>

\* A step of writeAtomic fails.  After the rename the file stays replaced.
WriteFails(w) ==
    /\ mu = w /\ mu' = None /\ upd' = NoUpdate
    /\ UNCHANGED <<mem, file, flushed, durable, acked, unsettled, hist>>

-----------------------------------------------------------------------------
(* The process ends, by itself or with the machine's power, and starts      *)
(* again: Load.  A power cut leaves the name as it was, or as it was last    *)
(* given, and bytes that were not flushed are lost.                         *)

Load(f) ==
    /\ file' = f /\ mem' = f /\ hist' = hist \cup {f}
    /\ acked' = f /\ mu' = None /\ upd' = NoUpdate

Restart == Load(file) /\ unsettled' = unsettled \cup {acked} /\ UNCHANGED <<flushed, durable>>

\* What a power cut at this moment could leave behind.
Remains == {durable, IF flushed THEN file ELSE Torn}

PowerCut ==
    \E f \in Remains :
        Load(f) /\ durable' = f /\ flushed' = TRUE /\ unsettled' = {}
=============================================================================

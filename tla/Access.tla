------------------------------- MODULE Access -------------------------------
(***************************************************************************)
(* Who may use the panel (internal/panel: session.go and the setup, login, *)
(* logout and password handlers): the sessions and the panel's password.   *)
(* Each request is a process; authMu is the mutex the three handlers that  *)
(* touch the password hold from their first line to their last.            *)
(*                                                                         *)
(* The instants sessions carry are abstracted to the order of last use, as *)
(* a session may expire at any time.  Limiter.tla models the limit on      *)
(* attempts; here it may refuse any.  Form tokens, cookies' attributes and *)
(* pages are left out: a request they refuse changes nothing.              *)
(***************************************************************************)
EXTENDS Integers, FiniteSets, SequencesExt

CONSTANTS
    Browsers, Passwords,
    NoOne,                                \* no password, no browser
    MaxSessions,
    MaxVisits, MaxSlips, MaxRestarts      \* bounds

VARIABLES
    up,                 \* the panel runs
    password, disk,     \* the password the panel checks, and the one in the state file
    seed,               \* the password in the file the installer left
    sessions,           \* the live tokens, least recently used first
    born,               \* the password in force when each token was issued
    cookie,             \* the token each browser holds, or 0
    authMu, visit,      \* the mutex's holder; the request each browser waits for
    visits, slips, restarts

credentials == <<password, disk, seed>>
counts      == <<visits, slips, restarts>>
avars       == <<up, credentials, sessions, born, cookie, authMu, visit, counts>>

AtRest == [kind |-> "page", pc |-> "idle", token |-> 0]

AccessInit ==
    /\ up = FALSE /\ password = NoOne
    /\ disk \in Passwords \cup {NoOne} /\ seed \in Passwords \cup {NoOne}
    /\ sessions = <<>> /\ born = <<>> /\ cookie = [b \in Browsers |-> 0]
    /\ authMu = NoOne /\ visit = [b \in Browsers |-> AtRest]
    /\ visits = 0 /\ slips = 0 /\ restarts = 0

-----------------------------------------------------------------------------
(* Sessions.                                                                *)

Live == ToSet(sessions)
Without(t) == SelectSeq(sessions, LAMBDA x : x # t)

\* evictOldestLocked: the least recently used session makes room.
Room == IF Len(sessions) >= MaxSessions THEN Tail(sessions) ELSE sessions

NewToken == Len(born) + 1

\* create.
CreateSession == sessions' = Append(Room, NewToken) /\ born' = Append(born, password)

\* lookup: found, and marked as just used; or not found.
Lookup(t, found) ==
    /\ found = (t \in Live)
    /\ sessions' = IF found THEN Append(Without(t), t) ELSE sessions

\* pruneLocked, which every lookup and create begins with: a session past its
\* lifetime or its idle time is gone.
Expire(t) ==
    /\ up /\ t \in Live /\ sessions' = Without(t)
    /\ UNCHANGED <<up, credentials, born, cookie, authMu, visit, counts>>

-----------------------------------------------------------------------------
(* Requests.                                                                *)

StandsAt(b, l) == up /\ visit[b].pc = l
MovesTo(b, l) == visit' = [visit EXCEPT ![b].pc = l]
Answered(b) == visit' = [visit EXCEPT ![b] = AtRest]
Unlock == authMu' = NoOne

\* A request with the password typed and, to change it, the next one.  The public
\* routes are setup and login.
Comes(b, k, given, next) ==
    /\ StandsAt(b, "idle") /\ visits < MaxVisits
    /\ visits' = visits + 1
    /\ visit' = [visit EXCEPT ![b] = [kind |-> k, token |-> cookie[b], given |-> given, next |-> next,
                                  pc |-> IF k \in {"setup", "login"} THEN "lock" ELSE "gate"]]
    /\ UNCHANGED <<up, credentials, sessions, born, cookie, authMu, slips, restarts>>

\* requireSession.
Gate(b) ==
    /\ StandsAt(b, "gate")
    /\ \/ password = NoOne /\ Answered(b) /\ UNCHANGED sessions
       \/ /\ password # NoOne
          /\ \E found \in BOOLEAN :
                /\ Lookup(visit[b].token, found)
                /\ \/ (~found \/ visit[b].kind = "page") /\ Answered(b)
                   \/ found /\ visit[b].kind = "logout" /\ MovesTo(b, "logout")
                   \/ found /\ visit[b].kind = "password" /\ MovesTo(b, "lock")
    /\ UNCHANGED <<up, credentials, born, cookie, authMu, counts>>

\* handleLogout does not take authMu.
Logout(b) ==
    /\ StandsAt(b, "logout")
    /\ sessions' = Without(visit[b].token)
    /\ cookie' = [cookie EXCEPT ![b] = 0] /\ Answered(b)
    /\ UNCHANGED <<up, credentials, born, authMu, counts>>

\* Mutant: setup reads its gate before it has the mutex, and not again.
EnterSetupUnread(b) ==
    /\ StandsAt(b, "lock") /\ authMu = NoOne
    /\ authMu' = b /\ MovesTo(b, IF visit[b].kind = "setup" THEN "set" ELSE "verify")
    /\ UNCHANGED <<up, credentials, sessions, born, cookie, counts>>

\* The mutex is taken and the handler's gate read: setup runs only while there
\* is no password, login only once there is one, and a change of password asks
\* for its session again.
Enter(b) ==
    /\ StandsAt(b, "lock") /\ authMu = NoOne
    /\ \/ /\ visit[b].kind = "setup" /\ UNCHANGED sessions
          /\ \/ password = NoOne /\ authMu' = b /\ MovesTo(b, "set")
             \/ password # NoOne /\ Answered(b) /\ UNCHANGED authMu
       \/ /\ visit[b].kind = "login" /\ UNCHANGED sessions
          /\ \/ password # NoOne /\ authMu' = b /\ MovesTo(b, "verify")
             \/ password = NoOne /\ Answered(b) /\ UNCHANGED authMu
       \/ /\ visit[b].kind = "password"
          /\ \/ Lookup(visit[b].token, TRUE) /\ authMu' = b /\ MovesTo(b, "verify")
             \/ Lookup(visit[b].token, FALSE) /\ Answered(b) /\ UNCHANGED authMu
    /\ UNCHANGED <<up, credentials, born, cookie, counts>>

\* The limiter, VerifyPanelPassword, and the checks of the next password: one that
\* is too short or mistyped (None) is refused.
Verify(b) ==
    /\ StandsAt(b, "verify")
    /\ \/ Answered(b) /\ Unlock
       \/ visit[b].given = password /\ visit[b].kind = "login" /\ MovesTo(b, "create") /\ UNCHANGED authMu
       \/ /\ visit[b].given = password /\ visit[b].kind = "password" /\ visit[b].next # NoOne
          /\ MovesTo(b, "set") /\ UNCHANGED authMu
    /\ UNCHANGED <<up, credentials, sessions, born, cookie, counts>>

\* SetPanelPassword.  The write may fail before the file is replaced, or after
\* it (the directory's fsync): the panel then keeps the old password.
Set(b) ==
    /\ StandsAt(b, "set")
    /\ \/ /\ password' = visit[b].next /\ disk' = visit[b].next
          /\ MovesTo(b, IF visit[b].kind = "setup" THEN "create" ELSE "destroy")
          /\ UNCHANGED <<authMu, slips>>
       \/ /\ slips < MaxSlips /\ slips' = slips + 1
          /\ disk' \in {disk, visit[b].next} /\ UNCHANGED password
          /\ Answered(b) /\ Unlock
    /\ UNCHANGED <<up, seed, sessions, born, cookie, visits, restarts>>

\* startSession, which fails when no random token is to be had.
Create(b) ==
    /\ StandsAt(b, "create") /\ Answered(b) /\ Unlock
    /\ \/ CreateSession /\ cookie' = [cookie EXCEPT ![b] = NewToken] /\ UNCHANGED slips
       \/ slips < MaxSlips /\ slips' = slips + 1 /\ UNCHANGED <<sessions, born, cookie>>
    /\ UNCHANGED <<up, credentials, visits, restarts>>

DestroyAll(b) ==
    /\ StandsAt(b, "destroy") /\ sessions' = <<>>
    /\ cookie' = [cookie EXCEPT ![b] = 0]
    /\ Answered(b) /\ Unlock
    /\ UNCHANGED <<up, credentials, born, counts>>

-----------------------------------------------------------------------------
(* The panel's process.                                                     *)

\* The panel dies or is stopped: sessions and requests are memory.
PanelStops ==
    /\ up /\ restarts < MaxRestarts /\ restarts' = restarts + 1
    /\ up' = FALSE /\ sessions' = <<>>
    /\ authMu' = NoOne /\ visit' = [b \in Browsers |-> AtRest]
    /\ UNCHANGED <<credentials, born, cookie, visits, slips>>

\* caspian reset-password writes the file only while the panel is stopped.
ResetPassword(p) ==
    /\ ~up /\ disk' = p
    /\ UNCHANGED <<up, password, seed, sessions, born, cookie, authMu, visit, counts>>

\* consumeFirstRunPassword: without a password, the installer's is taken, and its file
\* removed; a file left behind is removed unused.  The file may not be readable, the
\* password not be saved, the file not be removed, or the panel die between the two.
Handoff ==
    LET first == disk = NoOne /\ seed # NoOne
        next  == IF first THEN seed ELSE disk
    IN  \/ password' = next /\ disk' = next /\ seed' = NoOne /\ up' = TRUE /\ UNCHANGED <<slips, restarts>>
        \/ /\ seed # NoOne /\ slips < MaxSlips /\ slips' = slips + 1 /\ UNCHANGED <<seed, restarts>>
           /\ \/ password' = next /\ disk' = next
              \/ first /\ password' = NoOne /\ disk' \in {NoOne, seed}
           /\ up' = TRUE
        \/ /\ first /\ restarts < MaxRestarts /\ restarts' = restarts + 1
           /\ disk' = seed /\ UNCHANGED <<up, password, seed, slips>>

\* state.Load, and a panel that starts empty.
PanelStarts ==
    /\ ~up /\ Handoff
    /\ UNCHANGED <<sessions, born, cookie, authMu, visit, visits>>

AccessNext ==
    \/ \E b \in Browsers :
         \/ \E k \in {"logout", "page"} : Comes(b, k, NoOne, NoOne)
         \/ \E n \in Passwords : Comes(b, "setup", NoOne, n)
         \/ \E g \in Passwords : Comes(b, "login", g, NoOne)
         \/ \E g \in Passwords, n \in Passwords \cup {NoOne} : Comes(b, "password", g, n)
         \/ Gate(b) \/ Logout(b) \/ Enter(b) \/ Verify(b)
         \/ Set(b) \/ Create(b) \/ DestroyAll(b)
    \/ PanelStops \/ PanelStarts
    \/ \E t \in Live : Expire(t)
    \/ \E p \in Passwords : ResetPassword(p)

AccessSpec == AccessInit /\ [][AccessNext]_avars

-----------------------------------------------------------------------------
(* Properties.                                                              *)

\* A session never outlives the password it was opened with: once the handler that
\* changed the password has let authMu go, every live session was issued under the
\* password in force (handlePassword's destroyAll against startSession and lookup).
\* And that password changes only while the panel is down, or by a setup that found
\* none, or by a request that typed it and whose session was issued under it: two
\* setups, or two changes waiting on authMu with one session, never both win.  A panel
\* that starts checks the password that was stored, and the installer's only if none
\* was, however its handoff was cut short before (consumeFirstRunPassword).  The map
\* of sessions keeps to its bound all the while (create, evictOldestLocked).
SessionsKnowThePassword ==
    /\ [](Len(sessions) <= MaxSessions)
    /\ [](authMu = NoOne => \A t \in Live : born[t] = password)
    /\ [][(~up /\ up') => password' = disk \/ (disk = NoOne /\ password' = seed)]_avars
    /\ [][(password' # password /\ up) =>
             \E b \in Browsers :
                /\ visit[b].pc = "set" /\ password' = visit[b].next
                /\ \/ visit[b].kind = "setup" /\ password = NoOne
                   \/ /\ visit[b].kind = "password" /\ visit[b].given = password
                      /\ born[visit[b].token] = password]_avars
=============================================================================

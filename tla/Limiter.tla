------------------------------ MODULE Limiter ------------------------------
(***************************************************************************)
(* The limit on password attempts (internal/panel, ratelimit.go): a token  *)
(* bucket for each address and one for the whole panel, as the login and   *)
(* password handlers use them, one at a time under authMu: allow, then the *)
(* password is checked, then succeed if it was right.                      *)
(***************************************************************************)
EXTENDS Integers, FiniteSets, Functions

CONSTANTS
    Addrs, NoAddr,
    AttemptBurst, AttemptRefill,      \* the allowance of one address
    GlobalBurst, GlobalRefill,        \* the allowance of the whole panel
    MaxLimiterKeys,
    MaxTime                           \* bound

ASSUME LimitsAssumption ==
    /\ AttemptBurst \in Nat \ {0} /\ AttemptRefill \in Nat \ {0}
    /\ GlobalBurst \in Nat \ {0} /\ GlobalRefill \in Nat \ {0}
    /\ NoAddr \notin Addrs

\* ratelimit.go's numbers: 4096 * 15 s > 20 * 15 s + 5 * 60 s.
ASSUME KeysAssumption ==
    MaxLimiterKeys * GlobalRefill > GlobalBurst * GlobalRefill + AttemptBurst * AttemptRefill

VARIABLES
    now,                \* the time since the panel started
    global, byAddr,     \* the instants at which the buckets are full
    trying,             \* the address whose password is being checked
    wrong, wrongs       \* wrong passwords checked, by address and in all

limiter == <<global, byAddr>>
lvars    == <<now, limiter, trying, wrong, wrongs>>

LimiterInit ==
    /\ now = 0 /\ global = 0 /\ byAddr = [a \in {} |-> 0]
    /\ trying = NoAddr /\ wrong = [a \in Addrs |-> 0] /\ wrongs = 0

AtLeast(x, y) == IF x < y THEN y ELSE x

Tokens(full, t, burst, refill) ==
    LET missing == ((full - t) + refill - 1) \div refill
    IN  IF t >= full THEN burst ELSE IF missing > burst THEN 0 ELSE burst - missing

MayTake(full, burst, refill) == Tokens(AtLeast(full, now), now, burst, refill) > 0
Taken(full, refill) == AtLeast(full, now) + refill

\* Mutant: the wait is reckoned to a full bucket less the whole burst.
RetryEarly(full, burst, refill) == AtLeast(full, now) - now - burst * refill

\* take's second result: how long until the next attempt.
RetryAfter(full, burst, refill) == AtLeast(full, now) - now - (burst - 1) * refill

\* Mutant: one entry goes, whether the map is full or not.
PruneAlways(f) == {f} \cup {Restrict(f, DOMAIN f \ {a}) : a \in DOMAIN f}

\* pruneLocked: refilled entries go; if the map is full still, the fullest goes.
PruneAddrs(f) ==
    LET g == Restrict(f, {a \in DOMAIN f : now < f[a]})
    IN  IF Cardinality(DOMAIN f) < MaxLimiterKeys THEN {f}
        ELSE IF Cardinality(DOMAIN g) < MaxLimiterKeys THEN {g}
        ELSE {Restrict(g, DOMAIN g \ {a}) : a \in {x \in DOMAIN g : \A y \in DOMAIN g : g[x] <= g[y]}}

\* allow: the panel's bucket pays before the address's is asked.
Allow(a, ok) ==
    \/ /\ ~MayTake(global, GlobalBurst, GlobalRefill)
       /\ ok = FALSE /\ global' = AtLeast(global, now) /\ UNCHANGED byAddr
    \/ /\ MayTake(global, GlobalBurst, GlobalRefill)
       /\ global' = Taken(global, GlobalRefill)
       /\ \E f \in IF a \in DOMAIN byAddr THEN {byAddr} ELSE PruneAddrs(byAddr) :
             LET full == IF a \in DOMAIN f THEN f[a] ELSE now
                 may  == MayTake(full, AttemptBurst, AttemptRefill)
             IN  /\ ok = may
                 /\ byAddr' = [x \in DOMAIN f \cup {a} |->
                                 IF x # a THEN f[x]
                                 ELSE IF may THEN Taken(full, AttemptRefill) ELSE AtLeast(full, now)]

\* succeed: the attempt a right password took is given back.
Succeed(a) ==
    /\ byAddr' = [x \in DOMAIN byAddr |->
                    IF x = a THEN AtLeast(byAddr[x] - AttemptRefill, now) ELSE byAddr[x]]
    /\ global' = AtLeast(global - GlobalRefill, now)

-----------------------------------------------------------------------------
(* Attempts.                                                                *)

\* The attempt is paid for before the password is looked at.
Attempt(a) ==
    /\ trying = NoAddr
    /\ \/ Allow(a, TRUE) /\ trying' = a
       \/ Allow(a, FALSE) /\ UNCHANGED trying
    /\ UNCHANGED <<now, wrong, wrongs>>

\* Mutant: the attempt is given back whatever the password.
WrongForgiven ==
    /\ trying # NoAddr /\ trying' = NoAddr /\ Succeed(trying)
    /\ wrong' = [wrong EXCEPT ![trying] = @ + 1] /\ wrongs' = wrongs + 1
    /\ UNCHANGED now

Wrong ==
    /\ trying # NoAddr /\ trying' = NoAddr
    /\ wrong' = [wrong EXCEPT ![trying] = @ + 1] /\ wrongs' = wrongs + 1
    /\ UNCHANGED <<now, limiter>>

Right ==
    /\ trying # NoAddr /\ trying' = NoAddr /\ Succeed(trying)
    /\ UNCHANGED <<now, wrong, wrongs>>

Tick == now < MaxTime /\ now' = now + 1 /\ UNCHANGED <<limiter, trying, wrong, wrongs>>

LimiterNext == (\E a \in Addrs : Attempt(a)) \/ Wrong \/ Right \/ Tick

LimiterSpec == LimiterInit /\ [][LimiterNext]_lvars

-----------------------------------------------------------------------------
(* Properties.                                                              *)

\* The panel never checks more wrong passwords than the whole panel's burst and its
\* refills since it started, whatever addresses they came from and although right
\* passwords give their attempt back.
PanelBounded == wrongs <= GlobalBurst + now \div GlobalRefill

\* Nor more from one address than its burst and refills, although entries are pruned
\* from the map to make room: no address regains its allowance through the others.
AddressBounded == \A a \in Addrs : wrong[a] <= AttemptBurst + now \div AttemptRefill

\* A bucket that refuses has an attempt after the wait it announces, and none sooner.
ExactWait(full, burst, refill) ==
    ~MayTake(full, burst, refill) =>
        LET t == now + RetryAfter(full, burst, refill)
        IN  /\ t > now /\ Tokens(full, t, burst, refill) > 0
            /\ \A u \in now .. t - 1 : ~(Tokens(full, u, burst, refill) > 0)

\* The wait a refused attempt is told is exact, for the panel's bucket and for every
\* address's (bucket.take's retryAfter, which the login page shows).
WaitIsExact ==
    /\ ExactWait(global, GlobalBurst, GlobalRefill)
    /\ \A a \in DOMAIN byAddr : ExactWait(byAddr[a], AttemptBurst, AttemptRefill)
=============================================================================

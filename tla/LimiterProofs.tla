--------------------------- MODULE LimiterProofs ---------------------------
(***************************************************************************)
(* For every burst, refill and set of addresses: the whole panel's bound   *)
(* on wrong passwords, and the exactness of the wait a refusal announces.  *)
(***************************************************************************)
EXTENDS Limiter, TLAPS

\* Every wrong password, and the one being checked, has pushed the instant at which
\* the panel's bucket is full one refill further; and allow never lets that instant
\* run further ahead of the clock than the burst.
Paid == wrongs + (IF trying = NoAddr THEN 0 ELSE 1)

LimiterInv ==
    /\ now \in Nat /\ global \in Nat /\ wrongs \in Nat
    /\ trying \in Addrs \cup {NoAddr}
    /\ Paid * GlobalRefill <= AtLeast(global, now)
    /\ global <= now + GlobalBurst * GlobalRefill

-----------------------------------------------------------------------------
(* Arithmetic.                                                              *)

\* A quotient rounded up that is at most k: bucket.tokens' missing attempts.
LEMMA RoundedUp ==
    ASSUME NEW x \in Nat, NEW r \in Nat \ {0}, NEW k \in Nat
    PROVE  ((x + r - 1) \div r <= k) <=> (x <= k * r)
<1> DEFINE q == (x + r - 1) \div r
<1>1. q \in Int /\ x + r - 1 \in Nat
  OBVIOUS
<1>2. q * r <= x + r - 1 /\ x + r - 1 < q * r + r
  BY Z3
<1>3. ASSUME q <= k PROVE x <= k * r
  <2>1. q * r <= k * r
    BY <1>1, <1>3, Z3
  <2> QED
    BY <1>1, <1>2, <2>1, Z3
<1>4. ASSUME x <= k * r PROVE q <= k
  <2>1. SUFFICES ASSUME q >= k + 1 PROVE FALSE
    BY <1>1
  <2>2. q * r >= (k + 1) * r
    BY <1>1, <2>1, Z3
  <2>3. (k + 1) * r = k * r + r
    BY Z3
  <2> QED
    BY <1>1, <1>2, <1>4, <2>2, <2>3, Z3
<1> QED
  BY <1>3, <1>4

\* A bucket with an attempt left is at most burst - 1 refills from full.
LEMMA MayTakeBound ==
    ASSUME NEW full \in Nat, NEW burst \in Nat \ {0}, NEW refill \in Nat \ {0}, now \in Nat
    PROVE  MayTake(full, burst, refill) <=> (AtLeast(full, now) - now <= (burst - 1) * refill)
<1> DEFINE f == AtLeast(full, now)
           x == f - now
           m == (x + refill - 1) \div refill
<1>1. f \in Nat /\ f >= now /\ x \in Nat
  BY DEF AtLeast
<1>2. burst - 1 \in Nat /\ m \in Int /\ (burst - 1) * refill \in Nat
  BY <1>1
<1>3. CASE f = now
  <2>1. MayTake(full, burst, refill)
    BY <1>1, <1>3 DEF MayTake, Tokens
  <2> QED
    BY <1>1, <1>2, <1>3, <2>1
<1>4. CASE f # now
  <2>1. ~(now >= f)
    BY <1>1, <1>4
  <2>2. MayTake(full, burst, refill) <=> (IF m > burst THEN 0 ELSE burst - m) > 0
    BY <2>1 DEF MayTake, Tokens
  <2>3. (IF m > burst THEN 0 ELSE burst - m) > 0 <=> m <= burst - 1
    BY <1>2
  <2>4. m <= burst - 1 <=> x <= (burst - 1) * refill
    BY <1>1, <1>2, RoundedUp
  <2> QED
    BY <2>2, <2>3, <2>4
<1> QED
  BY <1>3, <1>4

\* Taking an attempt keeps the bucket within its burst of the clock.
LEMMA TakenBound ==
    ASSUME NEW full \in Nat, NEW burst \in Nat \ {0}, NEW refill \in Nat \ {0}, now \in Nat,
           MayTake(full, burst, refill)
    PROVE  Taken(full, refill) \in Nat /\ Taken(full, refill) <= now + burst * refill
<1>1. AtLeast(full, now) \in Nat
  BY DEF AtLeast
<1>2. AtLeast(full, now) - now <= (burst - 1) * refill
  BY MayTakeBound
<1>3. (burst - 1) * refill = burst * refill - refill /\ burst * refill \in Nat
  BY Z3
<1> QED
  BY <1>1, <1>2, <1>3 DEF Taken

-----------------------------------------------------------------------------
(* The invariant.                                                           *)

\* Initially nothing is paid and the bucket is full.
LEMMA InitIInv == LimiterInit => LimiterInv
<1> SUFFICES ASSUME LimiterInit PROVE LimiterInv
  OBVIOUS
<1>1. GlobalBurst * GlobalRefill \in Nat /\ 0 * GlobalRefill = 0
  BY LimitsAssumption, Z3 DEF LimitsAssumption
<1>2. Paid = 0
  BY DEF LimiterInit, Paid
<1> QED
  BY <1>1, <1>2, LimitsAssumption DEF LimiterInit, LimiterInv, AtLeast, LimitsAssumption

\* Every step of the login and password handlers and of the clock keeps it.
LEMMA NextIInv == LimiterInv /\ [LimiterNext]_lvars => LimiterInv'
<1> SUFFICES ASSUME LimiterInv, [LimiterNext]_lvars PROVE LimiterInv'
  OBVIOUS
<1> DEFINE R == GlobalRefill
           B == GlobalBurst
<1>0. /\ R \in Nat \ {0} /\ B \in Nat \ {0} /\ NoAddr \notin Addrs
      /\ now \in Nat /\ global \in Nat /\ wrongs \in Nat /\ trying \in Addrs \cup {NoAddr}
      /\ B * R \in Nat
  BY LimitsAssumption, Z3 DEF LimiterInv, LimitsAssumption
<1>p. Paid \in Nat /\ Paid * R \in Nat /\ (Paid + 1) * R = Paid * R + R /\ (Paid - 1) * R = Paid * R - R
  <2>1. Paid \in Nat
    BY <1>0 DEF Paid
  <2> QED
    BY <1>0, <2>1, Z3
<1>b. Paid * R <= AtLeast(global, now) /\ global <= now + B * R
  BY DEF LimiterInv
<1>1. ASSUME NEW a \in Addrs, Attempt(a) PROVE LimiterInv'
  <2>1. trying = NoAddr /\ now' = now /\ wrongs' = wrongs
    BY <1>1 DEF Attempt
  <2>2. CASE Allow(a, TRUE) /\ trying' = a
    <3>1. MayTake(global, B, R) /\ global' = Taken(global, R)
      BY <2>2 DEF Allow
    <3>2. global' \in Nat /\ global' <= now + B * R
      BY <1>0, <3>1, TakenBound
    <3>3. Paid' = Paid + 1
      BY <1>0, <2>1, <2>2 DEF Paid
    <3>4. (Paid + 1) * R <= AtLeast(global', now)
      BY <1>0, <1>p, <1>b, <3>1 DEF Taken, AtLeast
    <3> QED
      BY <1>0, <2>1, <2>2, <3>2, <3>3, <3>4 DEF LimiterInv
  <2>3. CASE Allow(a, FALSE) /\ UNCHANGED trying
    <3>1. \/ global' = AtLeast(global, now)
          \/ MayTake(global, B, R) /\ global' = Taken(global, R)
      BY <2>3 DEF Allow
    <3>2. global' \in Nat /\ global' <= now + B * R
      BY <1>0, <1>b, <3>1, TakenBound DEF AtLeast
    <3>3. Paid' = Paid
      BY <2>1, <2>3 DEF Paid
    <3>4. Paid * R <= AtLeast(global', now)
      <4>1. AtLeast(global', now) \in Nat /\ AtLeast(global', now) >= AtLeast(global, now)
        BY <1>0, <3>1, <3>2 DEF Taken, AtLeast
      <4>2. AtLeast(global, now) \in Nat
        BY <1>0 DEF AtLeast
      <4> QED
        BY <1>p, <1>b, <4>1, <4>2
    <3> QED
      BY <1>0, <2>1, <2>3, <3>2, <3>3, <3>4 DEF LimiterInv
  <2> QED
    BY <1>1, <2>2, <2>3 DEF Attempt
<1>2. ASSUME Wrong PROVE LimiterInv'
  <2>1. trying \in Addrs /\ trying' = NoAddr /\ wrongs' = wrongs + 1 /\ now' = now /\ global' = global
    BY <1>0, <1>2 DEF Wrong, limiter
  <2>2. Paid' = Paid
    BY <1>0, <2>1 DEF Paid
  <2> QED
    BY <1>0, <1>b, <2>1, <2>2 DEF LimiterInv
<1>3. ASSUME Right PROVE LimiterInv'
  <2>1. trying \in Addrs /\ trying' = NoAddr /\ wrongs' = wrongs /\ now' = now
        /\ global' = AtLeast(global - R, now)
    BY <1>0, <1>3 DEF Right, Succeed
  <2>2. Paid' = Paid - 1
    BY <1>0, <2>1 DEF Paid
  <2>3. global' \in Nat /\ global' <= now + B * R
    BY <1>0, <1>b, <2>1 DEF AtLeast
  <2>4. (Paid - 1) * R <= AtLeast(global', now)
    BY <1>0, <1>p, <1>b, <2>1 DEF AtLeast
  <2> QED
    BY <1>0, <2>1, <2>2, <2>3, <2>4 DEF LimiterInv
<1>4. ASSUME Tick PROVE LimiterInv'
  <2>1. now' = now + 1 /\ UNCHANGED <<global, trying, wrongs>>
    BY <1>4 DEF Tick, limiter
  <2>2. Paid' = Paid
    BY <2>1 DEF Paid
  <2>3. Paid * R <= AtLeast(global, now + 1)
    BY <1>0, <1>p, <1>b DEF AtLeast
  <2> QED
    BY <1>0, <1>b, <2>1, <2>2, <2>3 DEF LimiterInv
<1>5. ASSUME UNCHANGED lvars PROVE LimiterInv'
  BY <1>5 DEF lvars, limiter, LimiterInv, Paid, AtLeast
<1> QED
  BY <1>1, <1>2, <1>3, <1>4, <1>5 DEF LimiterNext

\* The invariant gives the bound: paid refills fit between the start and the clock's
\* lead of at most the burst.
LEMMA IInvBounds == LimiterInv => PanelBounded
<1> SUFFICES ASSUME LimiterInv PROVE PanelBounded
  OBVIOUS
<1> DEFINE R == GlobalRefill
           B == GlobalBurst
           q == now \div R
<1>1. R \in Nat \ {0} /\ B \in Nat \ {0} /\ now \in Nat /\ global \in Nat /\ wrongs \in Nat /\ Paid \in Nat
  BY LimitsAssumption DEF LimiterInv, LimitsAssumption, Paid
<1>2. q \in Int /\ now < q * R + R /\ q >= 0
  BY <1>1, Z3
<1>3. wrongs * R <= Paid * R
  <2>1. wrongs <= Paid
    BY <1>1 DEF Paid
  <2> QED
    BY <1>1, <2>1, Z3
<1>4. wrongs * R <= now + B * R
  BY <1>1, <1>3, Z3 DEF LimiterInv, AtLeast
<1>5. SUFFICES ASSUME wrongs >= B + q + 1 PROVE FALSE
  BY <1>1, <1>2 DEF PanelBounded
<1>6. wrongs * R >= (B + q + 1) * R
  BY <1>1, <1>2, <1>5, Z3
<1>7. (B + q + 1) * R = B * R + q * R + R
  BY <1>1, <1>2, Z3
<1> QED
  BY <1>1, <1>2, <1>4, <1>6, <1>7, Z3

\* For every set of addresses and every burst and refill, the panel never checks more
\* wrong passwords than the whole panel's burst and its refills since it started.
THEOREM PanelIsBounded == LimiterSpec => []PanelBounded
<1>1. LimiterSpec => []LimiterInv
  BY InitIInv, NextIInv, PTL DEF LimiterSpec
<1> QED
  BY <1>1, IInvBounds, PTL

-----------------------------------------------------------------------------
(* The wait.                                                                *)

\* What Tokens makes of a bucket d short of full.
LEMMA TokensShort ==
    ASSUME NEW full \in Int, NEW d \in Nat, NEW burst \in Nat \ {0}, NEW refill \in Nat \ {0}
    PROVE  (Tokens(full, full - d, burst, refill) > 0) <=> (d <= (burst - 1) * refill)
<1> DEFINE m == (d + refill - 1) \div refill
           t == full - d
<1>1. m \in Int /\ burst - 1 \in Nat /\ (burst - 1) * refill \in Nat /\ full - t = d
  OBVIOUS
<1>2. (t >= full) <=> (d = 0)
  OBVIOUS
<1>3. Tokens(full, t, burst, refill) =
        IF t >= full THEN burst ELSE IF m > burst THEN 0 ELSE burst - m
  BY <1>1 DEF Tokens
<1>4. CASE d = 0
  BY <1>1, <1>2, <1>3, <1>4
<1>5. CASE d # 0
  <2>1. m <= burst - 1 <=> d <= (burst - 1) * refill
    BY <1>1, RoundedUp
  <2>2. (IF m > burst THEN 0 ELSE burst - m) > 0 <=> m <= burst - 1
    BY <1>1
  <2> QED
    BY <1>2, <1>3, <1>5, <2>1, <2>2
<1> QED
  BY <1>4, <1>5

\* take's retryAfter is the least wait after which the bucket has an attempt.
LEMMA RetryIsExact ==
    ASSUME NEW full \in Nat, NEW burst \in Nat \ {0}, NEW refill \in Nat \ {0}, now \in Nat
    PROVE  ExactWait(full, burst, refill)
<1> DEFINE k == (burst - 1) * refill
           t == now + RetryAfter(full, burst, refill)
<1> SUFFICES ASSUME ~MayTake(full, burst, refill)
             PROVE  /\ t > now /\ Tokens(full, t, burst, refill) > 0
                    /\ \A u \in now .. t - 1 : ~(Tokens(full, u, burst, refill) > 0)
  BY DEF ExactWait
<1>1. k \in Nat
  BY Z3
<1>2. AtLeast(full, now) \in Nat /\ AtLeast(full, now) - now > k
  BY <1>1, MayTakeBound DEF AtLeast
<1>3. AtLeast(full, now) = full
  BY <1>1, <1>2 DEF AtLeast
<1>4. t = full - k /\ t > now
  BY <1>1, <1>2, <1>3 DEF RetryAfter
<1>i. full \in Int
  OBVIOUS
<1>5. ASSUME NEW d \in Nat
      PROVE  (Tokens(full, full - d, burst, refill) > 0) <=> (d <= k)
  BY <1>i, TokensShort, Zenon
<1> HIDE DEF k, t
<1>6. Tokens(full, t, burst, refill) > 0
  BY <1>1, <1>4, <1>5
<1>7. ASSUME NEW u \in now .. t - 1 PROVE ~(Tokens(full, u, burst, refill) > 0)
  <2>1. full - u \in Nat /\ ~(full - u <= k) /\ full - (full - u) = u
    BY <1>1, <1>4
  <2> QED
    BY <1>5, <2>1
<1> QED
  BY <1>4, <1>6, <1>7

\* The instants in the limiter's map stay numbers through pruning, takes and refunds.
Instants == \A a \in DOMAIN byAddr : byAddr[a] \in Nat

\* Pruning only drops entries.
LEMMA PrunedInstants ==
    ASSUME Instants, NEW f \in PruneAddrs(byAddr)
    PROVE  \A a \in DOMAIN f : f[a] \in Nat
<1> DEFINE g == Restrict(byAddr, {a \in DOMAIN byAddr : now < byAddr[a]})
<1>1. \A a \in DOMAIN g : g[a] \in Nat
  BY DEF Instants, Restrict
<1>2. f \in {byAddr} \cup {g} \cup {Restrict(g, DOMAIN g \ {a}) : a \in DOMAIN g}
  BY DEF PruneAddrs
<1>3. CASE f \in {byAddr} \cup {g}
  BY <1>1, <1>3 DEF Instants
<1>4. CASE f \in {Restrict(g, DOMAIN g \ {a}) : a \in DOMAIN g}
  BY <1>1, <1>4 DEF Restrict
<1> QED
  BY <1>2, <1>3, <1>4

\* An attempt, granted or refused, keeps the instants numbers.
LEMMA AllowInstants ==
    ASSUME Instants, now \in Nat, AttemptRefill \in Nat, NEW a, NEW ok, Allow(a, ok)
    PROVE  Instants'
<1>1. CASE UNCHANGED byAddr
  BY <1>1 DEF Instants
<1>2. CASE \E f \in IF a \in DOMAIN byAddr THEN {byAddr} ELSE PruneAddrs(byAddr) :
             LET full == IF a \in DOMAIN f THEN f[a] ELSE now
                 may  == MayTake(full, AttemptBurst, AttemptRefill)
             IN  byAddr' = [x \in DOMAIN f \cup {a} |->
                              IF x # a THEN f[x]
                              ELSE IF may THEN Taken(full, AttemptRefill) ELSE AtLeast(full, now)]
  <2>1. PICK f \in IF a \in DOMAIN byAddr THEN {byAddr} ELSE PruneAddrs(byAddr) :
             LET full == IF a \in DOMAIN f THEN f[a] ELSE now
                 may  == MayTake(full, AttemptBurst, AttemptRefill)
             IN  byAddr' = [x \in DOMAIN f \cup {a} |->
                              IF x # a THEN f[x]
                              ELSE IF may THEN Taken(full, AttemptRefill) ELSE AtLeast(full, now)]
    BY <1>2
  <2>2. \A x \in DOMAIN f : f[x] \in Nat
    BY PrunedInstants DEF Instants
  <2> DEFINE full == IF a \in DOMAIN f THEN f[a] ELSE now
  <2>3. full \in Nat /\ Taken(full, AttemptRefill) \in Nat /\ AtLeast(full, now) \in Nat
    BY <2>2 DEF Taken, AtLeast
  <2>4. \A x \in DOMAIN byAddr' : byAddr'[x] \in Nat
    BY <2>1, <2>2, <2>3
  <2> QED
    BY <2>4 DEF Instants
<1> QED
  BY <1>1, <1>2 DEF Allow

\* For every burst and refill, the wait a refusal announces is exact, whatever
\* attempts, refunds and prunings came before.
THEOREM TheWaitIsExact == LimiterSpec => []WaitIsExact
<1>1. LimiterSpec => []LimiterInv
  BY InitIInv, NextIInv, PTL DEF LimiterSpec
<1>2. LimiterInit => Instants
  BY DEF LimiterInit, Instants
<1>3. LimiterInv /\ Instants /\ [LimiterNext]_lvars => Instants'
  <2> SUFFICES ASSUME LimiterInv, Instants, [LimiterNext]_lvars PROVE Instants'
    OBVIOUS
  <2>1. now \in Nat /\ AttemptRefill \in Nat
    BY LimitsAssumption DEF LimiterInv, LimitsAssumption
  <2>2. ASSUME NEW a \in Addrs, Attempt(a) PROVE Instants'
    BY <2>1, <2>2, AllowInstants DEF Attempt
  <2>3. ASSUME Right PROVE Instants'
    BY <2>1, <2>3 DEF Right, Succeed, AtLeast, Instants
  <2>4. ASSUME UNCHANGED byAddr PROVE Instants'
    BY <2>4 DEF Instants
  <2> QED
    BY <2>2, <2>3, <2>4 DEF LimiterNext, Wrong, Tick, lvars, limiter
<1>4. LimiterInv /\ Instants => WaitIsExact
  BY LimitsAssumption, RetryIsExact DEF LimiterInv, Instants, WaitIsExact, LimitsAssumption
<1> QED
  BY <1>1, <1>2, <1>3, <1>4, PTL DEF LimiterSpec
=============================================================================

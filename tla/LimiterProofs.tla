----------------------------- MODULE LimiterProofs -----------------------------
(***************************************************************************)
(* Theorems about RateLimiterManager for any number of callers and every   *)
(* rate, burst, window and bound.                                          *)
(***************************************************************************)
EXTENDS RateLimiterManager, FiniteSetTheorems, SequenceTheorems, WellFoundedInduction, TLAPS

\* The records of callers have the field that matters; where it points is
\* OneLimiter, which needs nothing else: a limiter that is replaced or removed is
\* retired in the same step.
Record(r) == "limiter" \in DOMAIN r
CallersHold == DOMAIN caller = Callers /\ \A c \in Callers : Record(caller[c])
HoldInv == CallersHold /\ OneLimiter

\* everybody goes on with the limiter he has
LimitersKept == CallersHold' /\ \A c \in Callers : caller'[c].limiter = caller[c].limiter

-----------------------------------------------------------------------------
(* Callers.                                                                 *)

\* a step of one caller leaves the others with what they have
LEMMA SetIsOnes ==
    ASSUME CallersHold, NEW c \in Callers, NEW r, Record(r), Set(c, r)
    PROVE  /\ CallersHold' /\ caller'[c] = r
           /\ \A d \in Callers \ {c} : caller'[d] = caller[d]
BY DEF CallersHold, Set

\* what a call makes of its caller's record
LEMMA CallsKeepLimiter ==
    ASSUME CallersHold, NEW c \in Callers
    PROVE  /\ Record(caller[c]) /\ Record(Returned(c)) /\ Returned(c).limiter = caller[c].limiter
           /\ \A pc : /\ Record([caller[c] EXCEPT !.pc = pc])
                      /\ [caller[c] EXCEPT !.pc = pc].limiter = caller[c].limiter
           /\ \A pc, left : /\ Record([caller[c] EXCEPT !.pc = pc, !.left = left])
                            /\ [caller[c] EXCEPT !.pc = pc, !.left = left].limiter = caller[c].limiter
           /\ \A left, slept : /\ Record([caller[c] EXCEPT !.left = left, !.slept = slept])
                               /\ [caller[c] EXCEPT !.left = left, !.slept = slept].limiter = caller[c].limiter
           /\ \A lost : /\ Record([caller[c] EXCEPT !.lost = lost])
                        /\ [caller[c] EXCEPT !.lost = lost].limiter = caller[c].limiter
           /\ \A pc, bucket, n :
                 /\ Record([Returned(c) EXCEPT !.pc = pc, !.bucket = bucket, !.n = n])
                 /\ [Returned(c) EXCEPT !.pc = pc, !.bucket = bucket, !.n = n].limiter = caller[c].limiter
           /\ \A pc, want :
                 /\ Record([Returned(c) EXCEPT !.pc = pc, !.want = want])
                 /\ [Returned(c) EXCEPT !.pc = pc, !.want = want].limiter = caller[c].limiter
BY DEF CallersHold, Record, Returned, Idle

\* a record for the caller itself with the limiter it has
LEMMA SetKeeps ==
    ASSUME CallersHold, NEW c \in Callers, NEW r, Record(r), r.limiter = caller[c].limiter, Set(c, r)
    PROVE  LimitersKept
BY SetIsOnes DEF LimitersKept

\* AllowN makes those lose who wait, and they keep their limiter too.
LEMMA AttemptKeeps ==
    ASSUME CallersHold, NEW c \in Callers, NEW l, NEW n, NEW granted, NEW refused,
           Record(granted), granted.limiter = caller[c].limiter,
           Record(refused), refused.limiter = caller[c].limiter,
           Attempt(c, l, n, granted, refused)
    PROVE  LimitersKept
<1> DEFINE f == [caller EXCEPT ![c] = granted]
<1>1. \/ caller' = Losing(f, c, l, n)
      \/ Set(c, refused)
  BY DEF Attempt
<1>2. CASE Set(c, refused)
  BY <1>2, SetKeeps
<1>3. CASE caller' = Losing(f, c, l, n)
  <2>1. \A d \in Callers : Record(f[d]) /\ f[d].limiter = caller[d].limiter
    BY DEF CallersHold
  <2> HIDE DEF f
  <2>2. ASSUME NEW d \in Callers, NEW lost
        PROVE  Record([f[d] EXCEPT !.lost = lost]) /\ [f[d] EXCEPT !.lost = lost].limiter = f[d].limiter
    BY <2>1 DEF Record
  <2>3. \A d \in Callers : \/ caller'[d] = f[d]
                           \/ \E lost : caller'[d] = [f[d] EXCEPT !.lost = lost]
    BY <1>3 DEF Losing
  <2>4. DOMAIN caller' = Callers
    BY <1>3 DEF Losing
  <2>5. ASSUME NEW d \in Callers
        PROVE  Record(caller'[d]) /\ caller'[d].limiter = caller[d].limiter
    <3>1. CASE caller'[d] = f[d]
      BY <2>1, <3>1
    <3>2. CASE \E lost : caller'[d] = [f[d] EXCEPT !.lost = lost]
      BY <2>1, <2>2, <3>2
    <3> QED
      BY <2>3, <3>1, <3>2
  <2> QED
    BY <2>4, <2>5 DEF LimitersKept, CallersHold
<1> QED
  BY <1>1, <1>2, <1>3

\* No call of a limiter changes which one its caller holds.
LEMMA CallsKeep ==
    ASSUME CallersHold, LimiterNext
    PROVE  LimitersKept
<1>1. ASSUME UNCHANGED caller PROVE LimitersKept
  BY <1>1 DEF LimitersKept, CallersHold
<1>2. ASSUME NEW c \in Callers, NEW n \in Sizes, AllowN(c, n) PROVE LimitersKept
  BY <1>2, AttemptKeeps, CallsKeepLimiter DEF AllowN
<1>3. ASSUME NEW c \in Callers, NEW n \in Sizes, WaitN(c, n) PROVE LimitersKept
  BY <1>3, SetKeeps, CallsKeepLimiter DEF WaitN
<1>4. ASSUME NEW c \in Callers, Ask(c) PROVE LimitersKept
  BY <1>4, AttemptKeeps, CallsKeepLimiter DEF Ask
<1>5. ASSUME NEW c \in Callers, NEW ticks, Sleep(c, ticks) PROVE LimitersKept
  BY <1>5, SetKeeps, CallsKeepLimiter DEF Sleep
<1>6. ASSUME NEW c \in Callers, Calculate(c) PROVE LimitersKept
  <2>1. CASE \E ticks : Sleep(c, ticks)
    BY <1>5, <2>1
  <2>2. CASE Set(c, [caller[c] EXCEPT !.pc = "first"])
    BY <2>2, SetKeeps, CallsKeepLimiter
  <2> QED
    BY <1>6, <2>1, <2>2 DEF Calculate
<1>7. ASSUME NEW c \in Callers, First(c) PROVE LimitersKept
  <2>1. CASE \E ticks : Sleep(c, ticks)
    BY <1>5, <2>1
  <2>2. CASE Set(c, [caller[c] EXCEPT !.pc = "panic"])
    BY <2>2, SetKeeps, CallsKeepLimiter
  <2> QED
    BY <1>7, <2>1, <2>2 DEF First
<1>8. ASSUME NEW c \in Callers, Wake(c) \/ Cancel(c) PROVE LimitersKept
  BY <1>8, SetKeeps, CallsKeepLimiter DEF Wake, Cancel
<1>9. ASSUME NEW c \in Callers, TokensRemaining(c) PROVE LimitersKept
  <2>1. UNCHANGED caller \/ Set(c, [caller[c] EXCEPT !.pc = "stuck"])
    BY <1>9 DEF TokensRemaining, Peek
  <2> QED
    BY <1>1, <2>1, SetKeeps, CallsKeepLimiter
<1>10. CASE Tick
  <2>1. \A c \in Callers : \/ caller'[c] = caller[c]
                           \/ \E left, slept : caller'[c] = [caller[c] EXCEPT !.left = left, !.slept = slept]
    BY <1>10 DEF Tick
  <2>2. DOMAIN caller' = Callers
    BY <1>10 DEF Tick
  <2>3. ASSUME NEW c \in Callers
        PROVE  Record(caller'[c]) /\ caller'[c].limiter = caller[c].limiter
    <3>1. CASE caller'[c] = caller[c]
      BY <1>1, <3>1 DEF CallersHold
    <3>2. CASE \E left, slept : caller'[c] = [caller[c] EXCEPT !.left = left, !.slept = slept]
      <4>1. PICK left, slept : caller'[c] = [caller[c] EXCEPT !.left = left, !.slept = slept]
        BY <3>2
      <4>2. Record(caller[c])
        BY DEF CallersHold
      <4> QED
        BY <4>1, <4>2 DEF Record
    <3> QED
      BY <2>1, <3>1, <3>2
  <2> QED
    BY <2>2, <2>3 DEF LimitersKept, CallersHold
<1>11. CASE \E c \in Callers : \E load \in {"over", "under"} : AdjustRate(c, load)
  BY <1>1, <1>11 DEF AdjustRate
<1> QED
  BY <1>2, <1>3, <1>4, <1>6, <1>7, <1>8, <1>9, <1>10, <1>11 DEF LimiterNext, CallerStep

-----------------------------------------------------------------------------
(* The manager.                                                             *)

\* Create and Remove retire what they take away, and everybody else's limiter is
\* either that or was retired before.
LEMMA HoldStep == HoldInv /\ [Next]_managerVars => HoldInv'
<1> SUFFICES ASSUME HoldInv, [Next]_managerVars PROVE HoldInv'
  OBVIOUS
<1>1. CallersHold /\ OneLimiter
  BY DEF HoldInv
<1>2. ASSUME LimitersKept, UNCHANGED <<registered, retired>>
      PROVE  HoldInv'
  BY <1>1, <1>2 DEF LimitersKept, HoldInv, OneLimiter
<1>3. ASSUME UNCHANGED caller PROVE LimitersKept
  BY <1>1, <1>3 DEF LimitersKept, CallersHold
<1>4. CASE LimiterNext /\ UNCHANGED <<registered, readers, retired>>
  BY <1>1, <1>2, <1>4, CallsKeep
\* a caller that takes the limiter that is there
<1>5. ASSUME NEW c \in Callers, Set(c, [Idle EXCEPT !.limiter = registered']),
             UNCHANGED <<registered, retired>>
      PROVE  HoldInv'
  <2> DEFINE r == [Idle EXCEPT !.limiter = registered']
  <2>1. Record(r) /\ r.limiter = registered'
    BY DEF Record, Idle
  <2> HIDE DEF r
  <2>2. /\ CallersHold' /\ caller'[c] = r
        /\ \A d \in Callers \ {c} : caller'[d] = caller[d]
    BY <1>1, <1>5, <2>1, SetIsOnes DEF r
  <2> QED
    BY <1>1, <1>5, <2>1, <2>2 DEF HoldInv, OneLimiter
<1>6. ASSUME NEW c \in Callers, NEW kind \in Kinds, Lookup(c, kind) PROVE HoldInv'
  <2>1. UNCHANGED <<registered, retired>>
    BY <1>6 DEF Lookup
  <2>2. CASE Fits(kind)
    <3>1. Set(c, [Idle EXCEPT !.limiter = registered'])
      BY <1>6, <2>1, <2>2 DEF Lookup
    <3> QED
      BY <1>5, <2>1, <3>1
  <2>3. CASE ~Fits(kind)
    <3>1. Set(c, [Returned(c) EXCEPT !.pc = "create", !.want = kind])
      BY <1>6, <2>3 DEF Lookup
    <3>2. LimitersKept
      BY <1>1, <3>1, SetKeeps, CallsKeepLimiter
    <3> QED
      BY <1>2, <2>1, <3>2
  <2> QED
    BY <2>2, <2>3
<1>7. ASSUME NEW c \in Callers, Create(c) PROVE HoldInv'
  <2>1. CASE Fits(caller[c].want)
    <3>1. Set(c, [Idle EXCEPT !.limiter = registered']) /\ UNCHANGED <<registered, retired>>
      BY <1>7, <2>1 DEF Create
    <3> QED
      BY <1>5, <3>1
  <2>2. CASE ~Fits(caller[c].want)
    <3>1. /\ Set(c, [Idle EXCEPT !.limiter = registered'])
          /\ retired' = (retired \cup {registered}) \ {None}
      BY <1>7, <2>2 DEF Create, Register
    <3> DEFINE r == [Idle EXCEPT !.limiter = registered']
    <3>2. Record(r) /\ r.limiter = registered'
      BY DEF Record, Idle
    <3> HIDE DEF r
    <3>3. /\ CallersHold' /\ caller'[c] = r
          /\ \A d \in Callers \ {c} : caller'[d] = caller[d]
      BY <1>1, <3>1, <3>2, SetIsOnes DEF r
    <3> QED
      BY <1>1, <3>1, <3>2, <3>3 DEF HoldInv, OneLimiter
  <2> QED
    BY <2>1, <2>2
<1>8. ASSUME NEW c \in Callers, Remove(c) PROVE HoldInv'
  BY <1>1, <1>8 DEF Remove, HoldInv, CallersHold, OneLimiter
<1>9. ASSUME NEW c \in Callers, GetStats(c) PROVE HoldInv'
  <2>1. UNCHANGED caller \/ Set(c, [caller[c] EXCEPT !.pc = "stuck"])
    BY <1>9 DEF GetStats, Peek
  <2>2. LimitersKept
    BY <1>1, <1>3, <2>1, SetKeeps, CallsKeepLimiter
  <2> QED
    BY <1>2, <1>9, <2>2 DEF GetStats
<1>10. CASE UNCHANGED managerVars
  BY <1>2, <1>3, <1>10 DEF managerVars
<1> QED
  BY <1>4, <1>6, <1>7, <1>8, <1>9, <1>10 DEF Next

\* However many callers look, create and remove at the same time, nobody holds
\* another limiter than the one registered, or one that was taken away from the
\* name (rate_limiter.go:433-524).
THEOREM CallersShareOneLimiter == Spec => []OneLimiter
<1>1. Init => HoldInv
  BY DEF Init, Idle, HoldInv, CallersHold, Record, OneLimiter
<1>2. HoldInv => OneLimiter
  BY DEF HoldInv
<1> QED
  BY <1>1, <1>2, HoldStep, PTL DEF Spec

-----------------------------------------------------------------------------
(* Induction and division.                                                  *)

\* A finite set of numbers has a least one.
LEMMA LeastOne ==
    ASSUME NEW S \in SUBSET Nat, IsFiniteSet(S), S # {}
    PROVE  \E m \in S : \A x \in S : m <= x
<1> DEFINE Below(x) == {y \in S : y < x}
           R == StrictSubsetOrdering(S)
<1>1. IsWellFoundedOn(R, SUBSET S)
  BY FS_StrictSubsetOrderingWellFounded, FS_FiniteSubsetsOfFinite
<1>2. PICK U \in {Below(x) : x \in S} : \A V \in {Below(x) : x \in S} : ~(<<V, U>> \in R)
  <2>1. {Below(x) : x \in S} \subseteq SUBSET S /\ {Below(x) : x \in S} # {}
    OBVIOUS
  <2> HIDE DEF R, Below
  <2> QED
    BY <1>1, <2>1, WFMin
<1>3. PICK m \in S : U = Below(m)
  BY <1>2
<1>4. ASSUME NEW x \in S, x < m
      PROVE  FALSE
  <2>1. \A y \in S : (y < x => y < m) /\ ~(x < x)
    BY <1>4
  <2>2. Below(x) \subseteq Below(m) /\ x \in Below(m) /\ x \notin Below(x)
    BY <1>4, <2>1
  <2>3. <<Below(x), Below(m)>> \in R
    BY <2>2 DEF StrictSubsetOrdering
  <2> QED
    BY <1>2, <1>3, <2>3
<1> QED
  BY <1>4

\* Induction from 0 to n, for a set.
LEMMA UpTo ==
    ASSUME NEW n \in Nat, NEW T, 0 \in T, \A k \in 1 .. n : k - 1 \in T => k \in T
    PROVE  0 .. n \subseteq T
<1> DEFINE S == (0 .. n) \ T
<1> SUFFICES ASSUME S # {} PROVE FALSE
  OBVIOUS
<1>1. S \in SUBSET Nat /\ IsFiniteSet(S)
  <2>1. IsFiniteSet(0 .. n) /\ S \in SUBSET (0 .. n)
    BY FS_Interval
  <2>2. S \in SUBSET Nat
    OBVIOUS
  <2> HIDE DEF S
  <2> QED
    BY <2>1, <2>2, FS_Subset
<1>2. PICK m \in S : \A x \in S : m <= x
  <2> HIDE DEF S
  <2> QED
    BY <1>1, LeastOne
<1>3. m \in 1 .. n /\ m - 1 \in 0 .. n
  BY <1>2
<1>4. m - 1 \in T
  BY <1>2, <1>3
<1> QED
  BY <1>2, <1>3, <1>4

\* A positive factor can be canceled.
LEMMA Cancels ==
    ASSUME NEW d \in Nat \ {0}, NEW p \in Int, NEW q \in Int, d * p < d * q
    PROVE  p < q
<1> SUFFICES ASSUME q <= p PROVE FALSE
  OBVIOUS
<1>1. p - q \in Nat /\ d * (p - q) = d * p - d * q
  OBVIOUS
<1>2. d * (p - q) >= 0
  BY <1>1
<1> QED
  BY <1>1, <1>2

\* Rounded down and rounded up.
LEMMA Divided ==
    ASSUME NEW a \in Int, NEW d \in Nat \ {0}
    PROVE  /\ a \div d \in Int
           /\ d * (a \div d) <= a /\ a < d * (a \div d) + d
           /\ Ceiling(a, d) \in Int
           /\ a <= d * Ceiling(a, d) /\ d * Ceiling(a, d) < a + d
<1>1. ASSUME NEW x \in Int
      PROVE  x \div d \in Int /\ d * (x \div d) <= x /\ x < d * (x \div d) + d
  OBVIOUS
<1>2. a + d - 1 \in Int
  OBVIOUS
<1> QED
  BY <1>1, <1>2 DEF Ceiling
LEMMA CeilingType ==
    ASSUME NEW a \in Nat, NEW d \in Nat \ {0}
    PROVE  Ceiling(a, d) \in Nat
<1> DEFINE c == Ceiling(a, d)
<1>1. c \in Int /\ a <= d * c
  BY Divided
<1> HIDE DEF c
<1>2. d * (-1) < d * c
  BY <1>1
<1>3. -1 < c
  BY <1>1, <1>2, Cancels
<1> QED
  BY <1>1, <1>3 DEF c

\* A product with a factor that is not negative keeps the order.
LEMMA Scaled ==
    ASSUME NEW c \in Nat, NEW p \in Int, NEW q \in Int, p <= q
    PROVE  c * p <= c * q
<1>1. q - p \in Nat /\ c * (q - p) = c * q - c * p
  OBVIOUS
<1>2. c * (q - p) >= 0
  BY <1>1
<1> QED
  BY <1>1, <1>2

LEMMA RoundingGrows ==
    ASSUME NEW a \in Int, NEW b \in Int, a <= b, NEW d \in Nat \ {0}
    PROVE  a \div d <= b \div d /\ Ceiling(a, d) <= Ceiling(b, d)
<1> DEFINE fa == a \div d  fb == b \div d  ca == Ceiling(a, d)  cb == Ceiling(b, d)
<1>1. /\ fa \in Int /\ fb \in Int /\ ca \in Int /\ cb \in Int
      /\ d * fa <= a /\ b < d * fb + d /\ d * ca < a + d /\ b <= d * cb
  BY Divided
<1> HIDE DEF fa, fb, ca, cb
<1>2. d * fa < d * (fb + 1) /\ d * ca < d * (cb + 1)
  BY <1>1
<1>3. fa < fb + 1 /\ ca < cb + 1
  BY <1>1, <1>2, Cancels
<1> QED
  BY <1>1, <1>3 DEF fa, fb, ca, cb

\* What is dropped in one place covers what is added in the other.
LEMMA CeilingAdds ==
    ASSUME NEW x \in Int, NEW y \in Int, NEW d \in Nat \ {0}
    PROVE  Ceiling(x, d) + y \div d <= Ceiling(x + y, d)
<1> DEFINE c == Ceiling(x, d)  f == y \div d  s == Ceiling(x + y, d)
<1>1. /\ c \in Int /\ f \in Int /\ s \in Int
      /\ d * c < x + d /\ d * f <= y /\ x + y <= d * s
  BY Divided
<1> HIDE DEF c, f, s
<1>2. d * (c + f) < d * (s + 1)
  BY <1>1
<1>3. c + f < s + 1
  BY <1>1, <1>2, Cancels
<1> QED
  BY <1>1, <1>3 DEF c, f, s

\* x reaches less than one unit beyond y.
LEMMA WithinOne ==
    ASSUME NEW x \in Int, NEW y \in Int, NEW d \in Nat \ {0}, x < d + y
    PROVE  x \div d <= Ceiling(y, d)
<1> DEFINE f == x \div d  c == Ceiling(y, d)
<1>1. f \in Int /\ c \in Int /\ d * f <= x /\ y <= d * c
  BY Divided
<1> HIDE DEF f, c
<1>2. d * f < d * (c + 1)
  BY <1>1
<1>3. f < c + 1
  BY <1>1, <1>2, Cancels
<1> QED
  BY <1>1, <1>3 DEF f, c

-----------------------------------------------------------------------------
(* Times and tokens: a rate of r tokens in d ticks.                         *)

\* the ticks that a refill may take for each token it adds
Twice(d, r) == Ceiling(2 * d, r)

LEMMA TwiceType ==
    ASSUME NEW d \in Nat \ {0}, NEW r \in Nat \ {0}
    PROVE  /\ Twice(d, r) \in Nat /\ 2 * d <= r * Twice(d, r)
           /\ Ceiling(d, r) \in Nat \ {0} /\ Ceiling(d, r) <= Twice(d, r)
<1>1. 2 * d \in Nat /\ d \in Int /\ d <= 2 * d /\ 2 * d \in Int
  OBVIOUS
<1>2. /\ Ceiling(2 * d, r) \in Int /\ Ceiling(d, r) \in Int
      /\ 2 * d <= r * Ceiling(2 * d, r) /\ d <= r * Ceiling(d, r)
  BY <1>1, Divided
<1>3. Ceiling(d, r) <= Ceiling(2 * d, r)
  BY <1>1, RoundingGrows
<1>4. r * 0 < r * Ceiling(d, r)
  BY <1>2
<1>5. 0 < Ceiling(d, r)
  BY <1>2, <1>4, Cancels
<1> QED
  BY <1>2, <1>3, <1>5 DEF Twice

\* A refill comes in at most twice the time its tokens take.
LEMMA RefillTime ==
    ASSUME NEW d \in Nat \ {0}, NEW r \in Nat \ {0}, NEW e \in Nat
    PROVE  (e * r) \div d \in Nat /\ (e <= Twice(d, r) * ((e * r) \div d) \/ (e * r) \div d = 0)
<1> DEFINE k == (e * r) \div d  c == Twice(d, r)
<1>1. e * r \in Nat /\ e * r = r * e
  OBVIOUS
<1>2. k \in Int /\ d * k <= e * r /\ e * r < d * k + d
  BY <1>1, Divided
<1>3. c \in Nat /\ 2 * d <= r * c
  BY TwiceType
<1> HIDE DEF k, c
<1>4. k \in Nat
  <2>1. d * 0 < d * (k + 1)
    BY <1>1, <1>2
  <2>2. 0 < k + 1
    BY <1>2, <2>1, Cancels
  <2> QED
    BY <1>2, <2>2
<1>5. ASSUME k # 0 PROVE e <= c * k
  <2>1. d * 1 <= d * k
    BY <1>4, <1>5, Scaled
  <2>2. k * (2 * d) <= k * (r * c)
    BY <1>3, <1>4, Scaled
  <2>3. k * (2 * d) = d * k + d * k /\ k * (r * c) = r * (c * k) /\ c * k \in Int
    BY <1>3, <1>4
  <2>4. r * e < r * (c * k)
    BY <1>1, <1>2, <1>4, <2>1, <2>2, <2>3
  <2>5. e < c * k
    BY <2>3, <2>4, Cancels
  <2> QED
    BY <2>3, <2>5
<1> QED
  BY <1>4, <1>5 DEF k, c

\* Without a token to add, less than the time of one has passed.
LEMMA NoTokenYet ==
    ASSUME NEW d \in Nat \ {0}, NEW r \in Nat \ {0}, NEW e \in Nat, (e * r) \div d <= 0
    PROVE  e <= Ceiling(d, r) - 1
<1> DEFINE k == (e * r) \div d  c == Ceiling(d, r)
<1>1. e * r \in Nat /\ e * r = r * e
  OBVIOUS
<1>2. k \in Int /\ e * r < d * k + d /\ c \in Int /\ d <= r * c /\ k <= 0
  BY <1>1, Divided
<1> HIDE DEF k, c
<1>3. d * k <= d * 0
  BY <1>2, Scaled
<1>4. r * e < r * c
  BY <1>1, <1>2, <1>3
<1>5. e < c
  BY <1>2, <1>4, Cancels
<1> QED
  BY <1>2, <1>5 DEF c

\* A bucket left alone for long is full.
LEMMA FullInTime ==
    ASSUME NEW d \in Nat \ {0}, NEW r \in Nat \ {0}, NEW e \in Nat, NEW burst \in Nat,
           e >= Ceiling(d * burst, r)
    PROVE  burst <= (e * r) \div d
<1> DEFINE k == (e * r) \div d  f == Ceiling(d * burst, r)
<1>1. e * r \in Nat /\ e * r = r * e /\ d * burst \in Nat
  OBVIOUS
<1>2. k \in Int /\ e * r < d * k + d /\ f \in Int /\ d * burst <= r * f /\ f <= e
  BY <1>1, Divided
<1> HIDE DEF k, f
<1>3. r * f <= r * e
  BY <1>2, Scaled
<1>4. d * burst < d * (k + 1)
  BY <1>1, <1>2, <1>3
<1>5. burst < k + 1
  BY <1>2, <1>4, Cancels
<1> QED
  BY <1>2, <1>5 DEF k

\* What calculateWaitTime says for j tokens, and what passed since the last
\* refill, is no more than twice the time of the tokens.
LEMMA SleepTime ==
    ASSUME NEW sec \in Nat \ {0}, NEW r \in Nat \ {0}, NEW j \in Nat \ {0}
    PROVE  LET left == Most(1, ((j * 10) \div r) * sec)
           IN  left \in Nat /\ Ceiling(10 * sec, r) - 1 + left <= Twice(10 * sec, r) * j
<1> DEFINE d == 10 * sec
           q == (j * 10) \div r
           c == Ceiling(d, r)
           t == Twice(d, r)
           x == c - 1 + q * sec
<1>1. d \in Nat \ {0} /\ j * 10 \in Nat
  OBVIOUS
<1>2. q \in Int /\ r * q <= j * 10 /\ j * 10 < r * q + r
  BY <1>1, Divided
<1>3. /\ t \in Nat /\ 2 * d <= r * t /\ c \in Nat \ {0} /\ c <= t /\ r * c < d + r
  <2>1. d \in Int /\ r \in Nat \ {0}
    BY <1>1
  <2> QED
    BY <1>1, <2>1, TwiceType, Divided
<1> HIDE DEF d, q, c, t
<1>4. t * 1 <= t * j /\ t * j \in Nat
  BY <1>3, Scaled
<1>5. x \in Int /\ q * sec \in Int
  BY <1>2, <1>3
<1>6. x <= t * j
  <2>1. sec * (r * q) <= sec * (j * 10)
    BY <1>2, Scaled
  <2>2. sec * (r * q) = r * (q * sec) /\ sec * (j * 10) = j * d
    BY <1>2 DEF d
  <2>3. r * x = r * c - r + r * (q * sec)
    BY <1>2, <1>3
  <2>4. d * 1 <= d * j /\ d * j = j * d /\ d * j \in Int
    BY <1>1, Scaled
  <2>5. j * (2 * d) <= j * (r * t)
    BY <1>1, <1>3, Scaled
  <2>6. j * (2 * d) = j * d + j * d /\ j * (r * t) = r * (t * j)
    BY <1>1, <1>3
  <2>7. r * c \in Int /\ r * (q * sec) \in Int /\ j * d \in Int
    BY <1>1, <1>2, <1>3
  <2> HIDE DEF x
  <2>8. r * x < r * (t * j)
    BY <1>1, <1>3, <2>1, <2>2, <2>3, <2>4, <2>5, <2>6, <2>7
  <2>9. x < t * j
    BY <1>4, <1>5, <2>8, Cancels
  <2> QED
    BY <1>4, <1>5, <2>9
<1> DEFINE left == Most(1, q * sec)
<1>7. left \in Nat
  BY <1>5 DEF Most
<1>8. c - 1 + left <= t * j
  BY <1>3, <1>4, <1>5, <1>6 DEF Most
<1> QED
  BY <1>7, <1>8 DEF d, q, c, t
-----------------------------------------------------------------------------
(* What passed.                                                             *)

Grants == [0 .. Horizon -> Nat]

\* the sums of the first j + 1 grants of g
Sums(g, j) == {u \in [0 .. j -> Nat] : u[0] = g[0] /\ \A k \in 1 .. j : u[k] = u[k - 1] + g[k]}

LEMMA SumsExist ==
    ASSUME NEW g \in Grants
    PROVE  Sums(g, Horizon) # {}
<1> DEFINE T == {j \in 0 .. Horizon : Sums(g, j) # {}}
<1>1. Horizon \in Nat /\ \A k \in 0 .. Horizon : g[k] \in Nat
  BY RateAssumption DEF Grants
<1>2. 0 \in T
  <2>1. [k \in 0 .. 0 |-> g[0]] \in Sums(g, 0)
    BY <1>1 DEF Sums
  <2> QED
    BY <1>1, <2>1
<1>3. ASSUME NEW j \in 1 .. Horizon, j - 1 \in T PROVE j \in T
  <2>1. PICK u \in Sums(g, j - 1) : TRUE
    BY <1>3
  <2>2. /\ j - 1 \in Nat /\ u \in [0 .. j - 1 -> Nat] /\ u[0] = g[0] /\ g[j] \in Nat
        /\ \A k \in 1 .. j - 1 : u[k] = u[k - 1] + g[k]
    BY <1>1, <2>1 DEF Sums
  <2> DEFINE w == [k \in 0 .. j |-> IF k = j THEN u[j - 1] + g[j] ELSE u[k]]
  <2>3. w \in [0 .. j -> Nat]
    BY <1>1, <2>2
  <2>4. w[0] = g[0] /\ \A k \in 1 .. j : w[k] = w[k - 1] + g[k]
    BY <1>1, <2>2
  <2> HIDE DEF w
  <2>5. w \in Sums(g, j)
    BY <2>3, <2>4 DEF Sums
  <2>6. j \in 0 .. Horizon
    BY <1>1
  <2> QED
    BY <2>5, <2>6
<1>4. Horizon \in T
  <2> HIDE DEF T
  <2> QED
    BY <1>1, <1>2, <1>3, UpTo
<1> QED
  BY <1>4

LEMMA PassedSums ==
    ASSUME NEW b, b.granted \in Grants
    PROVE  /\ \A t \in 0 .. Horizon : Passed(b, t) \in Nat
           /\ Passed(b, 0) = b.granted[0]
           /\ \A t \in 1 .. Horizon : Passed(b, t) = Passed(b, t - 1) + b.granted[t]
<1> DEFINE g == b.granted
           H == Horizon
           upTo == CHOOSE f : f = [k \in 0 .. H |-> g[k] + (IF k = 0 THEN 0 ELSE f[k - 1])]
<1>1. H \in Nat /\ g \in [0 .. H -> Nat]
  BY RateAssumption DEF Grants
<1>2. \A t : Passed(b, t) = upTo[t]
  BY DEF Passed
<1>3. PICK u \in Sums(g, H) : TRUE
  BY SumsExist
<1>4. u \in [0 .. H -> Nat] /\ u[0] = g[0] /\ \A k \in 1 .. H : u[k] = u[k - 1] + g[k]
  BY <1>3 DEF Sums
<1> HIDE DEF g, H
<1>5. u = [k \in 0 .. H |-> g[k] + (IF k = 0 THEN 0 ELSE u[k - 1])]
  <2>1. \A k \in 0 .. H : u[k] = g[k] + (IF k = 0 THEN 0 ELSE u[k - 1])
    BY <1>1, <1>4
  <2> QED
    BY <1>4, <2>1
<1>6. upTo = [k \in 0 .. H |-> g[k] + (IF k = 0 THEN 0 ELSE upTo[k - 1])]
  BY <1>5
<1> HIDE DEF upTo
<1>7. upTo[0] = g[0] /\ \A k \in 1 .. H : upTo[k] = g[k] + upTo[k - 1]
  BY <1>1, <1>6
<1> DEFINE T == {k \in 0 .. H : upTo[k] \in Nat}
<1>8. 0 \in T /\ \A k \in 1 .. H : k - 1 \in T => k \in T
  BY <1>1, <1>7
<1>9. 0 .. H \subseteq T
  <2> HIDE DEF T
  <2> QED
    BY <1>1, <1>8, UpTo
<1>10. \A k \in 0 .. H : upTo[k] \in Nat
  BY <1>9
<1>11. \A k \in 1 .. H : upTo[k] = upTo[k - 1] + g[k]
  BY <1>1, <1>7, <1>10
<1>12. 0 \in 0 .. H
  BY <1>1
<1> QED
  BY <1>2, <1>7, <1>10, <1>11, <1>12 DEF g, H

\* A new limiter let nothing pass.
LEMMA PassedNothing ==
    ASSUME NEW b, b.granted = NoGrants, NEW t \in 0 .. Horizon
    PROVE  b.granted \in Grants /\ Passed(b, t) = 0
<1>1. Horizon \in Nat /\ b.granted \in Grants /\ \A k \in 0 .. Horizon : b.granted[k] = 0
  BY RateAssumption DEF Grants, NoGrants
<1>2. /\ Passed(b, 0) = 0
      /\ \A k \in 1 .. Horizon : Passed(b, k) = Passed(b, k - 1) + 0 /\ Passed(b, k - 1) \in Nat
  BY <1>1, PassedSums
<1> DEFINE T == {k \in 0 .. Horizon : Passed(b, k) = 0}
<1>3. 0 \in T /\ \A k \in 1 .. Horizon : k - 1 \in T => k \in T
  BY <1>1, <1>2
<1>4. 0 .. Horizon \subseteq T
  <2> HIDE DEF T
  <2> QED
    BY <1>1, <1>3, UpTo
<1> QED
  BY <1>1, <1>4

\* What passed in some time is somewhere in it.
LEMMA PassedSome ==
    ASSUME NEW b, b.granted \in Grants, NEW t \in 0 .. Horizon, Passed(b, t) > 0
    PROVE  \E a \in 0 .. t : b.granted[a] > 0
<1> SUFFICES ASSUME \A a \in 0 .. t : ~(b.granted[a] > 0) PROVE FALSE
  OBVIOUS
<1>1. Horizon \in Nat /\ t \in Nat /\ \A k \in 0 .. t : k \in 0 .. Horizon /\ b.granted[k] = 0
  BY RateAssumption DEF Grants
<1>2. /\ Passed(b, 0) = 0
      /\ \A k \in 1 .. t : Passed(b, k) = Passed(b, k - 1) + 0 /\ Passed(b, k - 1) \in Nat
  <2>1. \A k \in 1 .. t : k \in 1 .. Horizon /\ k \in 0 .. t /\ k - 1 \in 0 .. Horizon
    BY <1>1
  <2>2. 0 \in 0 .. t
    BY <1>1
  <2> QED
    BY <1>1, <2>1, <2>2, PassedSums
<1> DEFINE T == {k \in 0 .. t : Passed(b, k) = 0}
<1>3. 0 \in T /\ \A k \in 1 .. t : k - 1 \in T => k \in T
  BY <1>1, <1>2
<1>4. 0 .. t \subseteq T
  <2> HIDE DEF T
  <2> QED
    BY <1>1, <1>3, UpTo
<1>5. t \in 0 .. t
  BY <1>1
<1> QED
  BY <1>4, <1>5

\* A tick later, all of it is a tick older.
LEMMA PassedOlder ==
    ASSUME NEW b, b.granted \in Grants, NEW a, a.granted = Older(b.granted)
    PROVE  /\ a.granted \in Grants /\ a.granted[0] = 0
           /\ \A t \in 1 .. Horizon : a.granted[t] = b.granted[t - 1]
           /\ Passed(a, 0) = 0 /\ \A t \in 1 .. Horizon : Passed(a, t) = Passed(b, t - 1)
<1>1. /\ Horizon \in Nat /\ a.granted \in Grants /\ a.granted[0] = 0
      /\ \A k \in 1 .. Horizon : a.granted[k] = b.granted[k - 1]
  BY RateAssumption DEF Grants, Older
<1>2. Passed(a, 0) = 0 /\ \A k \in 1 .. Horizon : Passed(a, k) = Passed(a, k - 1) + b.granted[k - 1]
  BY <1>1, PassedSums
<1>3. /\ \A k \in 0 .. Horizon : Passed(b, k) \in Nat
      /\ Passed(b, 0) = b.granted[0]
      /\ \A k \in 1 .. Horizon : Passed(b, k) = Passed(b, k - 1) + b.granted[k]
  BY PassedSums
<1> DEFINE T == {k \in 0 .. Horizon : k # 0 => Passed(a, k) = Passed(b, k - 1)}
<1>4. ASSUME NEW k \in 1 .. Horizon, k - 1 \in T PROVE k \in T
  <2>1. CASE k = 1
    <3>1. Passed(a, 1) = 0 + b.granted[0] /\ b.granted[0] \in Nat
      BY <1>1, <1>2, <1>3, <2>1 DEF Grants
    <3> QED
      BY <1>3, <2>1, <3>1
  <2>2. CASE k # 1
    <3>1. k - 1 \in 1 .. Horizon /\ k \in 0 .. Horizon
      BY <1>1, <2>2
    <3>2. Passed(a, k - 1) = Passed(b, k - 1 - 1)
      BY <1>4, <3>1
    <3>3. Passed(b, k - 1) = Passed(b, k - 1 - 1) + b.granted[k - 1]
      BY <1>3, <3>1
    <3> QED
      BY <1>2, <3>1, <3>2, <3>3
  <2> QED
    BY <2>1, <2>2
<1>5. 0 \in T
  BY <1>1
<1>6. 0 .. Horizon \subseteq T
  <2> HIDE DEF T
  <2> QED
    BY <1>1, <1>4, <1>5, UpTo
<1>7. \A k \in 1 .. Horizon : Passed(a, k) = Passed(b, k - 1)
  BY <1>1, <1>6
<1> QED
  BY <1>1, <1>2, <1>7

\* What passes now counts in every time that ends now.
LEMMA PassedMore ==
    ASSUME NEW b, b.granted \in Grants, NEW n \in Nat,
           NEW a, a.granted = [b.granted EXCEPT ![0] = b.granted[0] + n]
    PROVE  /\ a.granted \in Grants /\ a.granted[0] = b.granted[0] + n
           /\ \A t \in 1 .. Horizon : a.granted[t] = b.granted[t]
           /\ \A t \in 0 .. Horizon : Passed(a, t) = Passed(b, t) + n
<1>1. /\ Horizon \in Nat /\ a.granted \in Grants /\ a.granted[0] = b.granted[0] + n
      /\ \A k \in 1 .. Horizon : a.granted[k] = b.granted[k] /\ b.granted[k] \in Nat
  BY RateAssumption DEF Grants
<1>2. /\ Passed(a, 0) = b.granted[0] + n
      /\ \A k \in 1 .. Horizon : Passed(a, k) = Passed(a, k - 1) + b.granted[k]
  BY <1>1, PassedSums
<1>3. /\ \A k \in 0 .. Horizon : Passed(b, k) \in Nat
      /\ Passed(b, 0) = b.granted[0]
      /\ \A k \in 1 .. Horizon : Passed(b, k) = Passed(b, k - 1) + b.granted[k]
  BY PassedSums
<1> DEFINE T == {k \in 0 .. Horizon : Passed(a, k) = Passed(b, k) + n}
<1>4. 0 \in T
  BY <1>1, <1>2, <1>3
<1>5. ASSUME NEW k \in 1 .. Horizon, k - 1 \in T PROVE k \in T
  <2>1. k \in 0 .. Horizon /\ k - 1 \in 0 .. Horizon
    BY <1>1
  <2>2. Passed(a, k - 1) = Passed(b, k - 1) + n /\ b.granted[k] \in Nat /\ Passed(b, k - 1) \in Nat
    BY <1>1, <1>3, <1>5, <2>1
  <2> QED
    BY <1>2, <1>3, <2>1, <2>2
<1>6. 0 .. Horizon \subseteq T
  <2> HIDE DEF T
  <2> QED
    BY <1>1, <1>4, <1>5, UpTo
<1>7. \A k \in 0 .. Horizon : Passed(a, k) = Passed(b, k) + n
  BY <1>6
<1> QED
  BY <1>1, <1>7
-----------------------------------------------------------------------------
(* The token bucket.                                                        *)

Tenths == 10 * Second
TokenBuckets == [kind : {"token_bucket"}, rate : Nat \ {0}, burst : Nat \ {0}, tokens : Nat,
                 elapsed : Nat, readers : SUBSET Callers, granted : Grants]

\* What passed in some time, and the tokens at hand, came from a burst and from
\* the refills in that time, up to the last one; and a grant after the last
\* refill came too early to bring one itself.
Accounts(b) ==
    /\ b.tokens <= b.burst
    /\ b.elapsed <= FullAfter(b)
    /\ \A t \in 0 .. Horizon :
          Passed(b, t) + b.tokens <=
              b.burst + (IF b.elapsed <= t THEN Ceiling((t - b.elapsed) * b.rate, Tenths) ELSE 0)
    /\ \A a \in 0 .. Horizon :
          a < b.elapsed /\ b.granted[a] > 0 => TokensIn(b, b.elapsed - a) = 0

LEMMA TicksType ==
    /\ Horizon \in Nat /\ Tenths \in Nat \ {0} /\ 10 * Second = Tenths /\ 20 * Second = 2 * Tenths
    /\ Second \in Nat \ {0}
BY RateAssumption DEF Tenths

LEMMA FullAfterType ==
    ASSUME NEW b \in TokenBuckets
    PROVE  FullAfter(b) \in Nat \ {0} /\ FullAfter(b) = Ceiling(Tenths * b.burst, b.rate)
<1>1. b.rate \in Nat \ {0} /\ b.burst \in Nat \ {0}
  BY DEF TokenBuckets
<1> DEFINE x == Tenths * b.burst  f == Ceiling(x, b.rate)
<1>2. x \in Nat \ {0}
  BY <1>1, TicksType
<1> HIDE DEF x
<1>3. f \in Int /\ x <= b.rate * f
  <2>1. x \in Int /\ b.rate \in Nat \ {0}
    BY <1>1, <1>2
  <2> QED
    BY <2>1, Divided
<1> HIDE DEF f
<1>4. b.rate * 0 < b.rate * f
  BY <1>1, <1>2, <1>3
<1>5. 0 < f
  BY <1>1, <1>3, <1>4, Cancels
<1>6. FullAfter(b) = f
  BY TicksType DEF FullAfter, f, x
<1> QED
  BY <1>3, <1>5, <1>6 DEF f, x

\* a bucket with other tokens or another time, and the same rate
LEMMA SameRate ==
    ASSUME NEW b \in TokenBuckets, NEW a \in TokenBuckets, a.rate = b.rate, a.burst = b.burst
    PROVE  FullAfter(a) = FullAfter(b) /\ \A t : TokensIn(a, t) = TokensIn(b, t)
BY DEF FullAfter, TokensIn

LEMMA RefilledFields ==
    ASSUME NEW b \in TokenBuckets
    PROVE  LET k == TokensIn(b, b.elapsed)
               r == Refilled(b)
           IN  /\ k \in Nat
               /\ r \in TokenBuckets
               /\ r.kind = b.kind /\ r.rate = b.rate /\ r.burst = b.burst /\ r.granted = b.granted
               /\ r.readers = b.readers
               /\ k = 0 => r = b
               /\ k # 0 => r.elapsed = 0 /\ r.tokens = Least(b.burst, b.tokens + k)
               /\ TokensIn(r, r.elapsed) = 0
<1> DEFINE k == TokensIn(b, b.elapsed)
           m == Least(b.burst, b.tokens + k)
           r == Refilled(b)
<1>1. b.rate \in Nat \ {0} /\ b.elapsed \in Nat /\ b.tokens \in Nat /\ b.burst \in Nat \ {0}
  BY DEF TokenBuckets
<1>2. k \in Nat
  BY <1>1, TicksType, RefillTime DEF TokensIn
<1> HIDE DEF k
<1>3. m \in Nat
  BY <1>1, <1>2 DEF Least
<1> HIDE DEF m
<1>4. CASE k = 0
  <2>1. r = b
    BY <1>4 DEF Refilled, k
  <2> QED
    BY <1>2, <1>4, <2>1 DEF k
<1>5. CASE k # 0
  <2>1. r = [b EXCEPT !.tokens = m, !.elapsed = 0]
    BY <1>2, <1>5 DEF Refilled, k, m
  <2> HIDE DEF r
  <2>2. /\ r \in TokenBuckets
        /\ r.kind = b.kind /\ r.rate = b.rate /\ r.burst = b.burst /\ r.granted = b.granted
        /\ r.readers = b.readers /\ r.elapsed = 0 /\ r.tokens = m
    BY <1>3, <2>1 DEF TokenBuckets
  <2>3. 0 * b.rate = 0 /\ 0 \div Tenths = 0
    BY <1>1, TicksType
  <2>4. TokensIn(r, 0) = 0
    BY <2>2, <2>3, TicksType DEF TokensIn
  <2> QED
    BY <1>2, <1>5, <2>2, <2>4 DEF k, m, r
<1> QED
  BY <1>4, <1>5 DEF k, r

\* refillTokens keeps the accounts: what it adds passed the time it took, or came
\* back to a full bucket.
LEMMA RefilledAccounts ==
    ASSUME NEW b \in TokenBuckets, Accounts(b)
    PROVE  Accounts(Refilled(b))
<1> DEFINE k == TokensIn(b, b.elapsed)
           r == Refilled(b)
           e == b.elapsed
           d == Tenths
<1>1. /\ b.rate \in Nat \ {0} /\ e \in Nat /\ b.tokens \in Nat /\ b.burst \in Nat \ {0}
      /\ b.granted \in Grants
  BY DEF TokenBuckets
<1>2. d \in Nat \ {0} /\ Horizon \in Nat
  BY TicksType
<1>3. /\ k \in Nat /\ k = (e * b.rate) \div d
      /\ r \in TokenBuckets /\ r.rate = b.rate /\ r.burst = b.burst /\ r.granted = b.granted
      /\ k = 0 => r = b
      /\ k # 0 => r.elapsed = 0 /\ r.tokens = Least(b.burst, b.tokens + k)
  BY RefilledFields, TicksType DEF TokensIn
<1>4. /\ b.tokens <= b.burst
      /\ \A t \in 0 .. Horizon :
            Passed(b, t) + b.tokens <=
                b.burst + (IF e <= t THEN Ceiling((t - e) * b.rate, d) ELSE 0)
      /\ \A a \in 0 .. Horizon : a < e /\ b.granted[a] > 0 => ((e - a) * b.rate) \div d = 0
  BY TicksType DEF Accounts, TokensIn
<1>5. \A t \in 0 .. Horizon : Passed(b, t) \in Nat
  BY <1>1, PassedSums
<1> HIDE DEF k, r, e, d
<1>6. CASE k = 0
  BY <1>3, <1>6 DEF r
<1>7. CASE k # 0
  <2>1. r.elapsed = 0 /\ r.tokens \in Nat /\ r.tokens <= b.burst /\ r.tokens <= b.tokens + k
    BY <1>1, <1>3, <1>7 DEF Least
  <2>2. FullAfter(r) \in Nat
    BY <1>3, FullAfterType
  <2>3. \A t : Passed(r, t) = Passed(b, t)
    BY <1>3 DEF Passed
  <2>4. ASSUME NEW t \in 0 .. Horizon
        PROVE  Passed(b, t) + r.tokens <= b.burst + Ceiling(t * b.rate, d)
    <3>1. t \in Nat /\ t * b.rate \in Nat
      BY <1>1, <1>2, <2>4
    <3>2. Ceiling(t * b.rate, d) \in Nat
      BY <1>2, <3>1, CeilingType
    <3>3. CASE e <= t
      <4> DEFINE x == (t - e) * b.rate  y == e * b.rate
      <4>1. x \in Int /\ y \in Int /\ x + y = t * b.rate
        BY <1>1, <3>1, <3>3
      <4> HIDE DEF x, y
      <4>2. Ceiling(x, d) + k <= Ceiling(t * b.rate, d) /\ Ceiling(x, d) \in Int
        BY <1>2, <1>3, <4>1, CeilingAdds, Divided DEF y
      <4>3. Passed(b, t) + b.tokens <= b.burst + Ceiling(x, d)
        BY <1>4, <3>3 DEF x
      <4> QED
        BY <1>1, <1>3, <1>5, <2>1, <3>2, <4>2, <4>3
    <3>4. CASE e > t /\ Passed(b, t) = 0
      BY <1>1, <2>1, <3>1, <3>2, <3>4
    <3>5. CASE e > t /\ Passed(b, t) # 0
      <4>1. PICK a \in 0 .. t : b.granted[a] > 0
        BY <1>1, <1>5, <3>5, PassedSome
      <4>2. a \in 0 .. Horizon /\ a \in Nat /\ a < e /\ a <= t
        BY <1>1, <1>2, <3>1, <3>5, <4>1
      <4>3. ((e - a) * b.rate) \div d = 0
        BY <1>4, <4>1, <4>2
      <4> DEFINE z == (e - a) * b.rate
      <4>4. z \in Int /\ z = e * b.rate - a * b.rate /\ a * b.rate \in Int /\ e * b.rate \in Int
        BY <1>1, <4>2
      <4>5. z \div d = 0
        BY <4>3
      <4> HIDE DEF z
      <4>6. z < d
        <5>1. z < d * (z \div d) + d
          BY <1>2, <4>4, Divided
        <5> QED
          BY <1>2, <4>4, <4>5, <5>1
      <4>7. k <= Ceiling(a * b.rate, d)
        <5> DEFINE x == e * b.rate  y == a * b.rate
        <5>1. x \in Int /\ y \in Int /\ x < d + y /\ k = x \div d
          BY <1>2, <1>3, <4>4, <4>6
        <5> HIDE DEF x, y
        <5>2. x \div d <= Ceiling(y, d)
          BY <1>2, <5>1, WithinOne
        <5> QED
          BY <5>1, <5>2 DEF y
      <4>8. Ceiling(a * b.rate, d) <= Ceiling(t * b.rate, d)
        <5>1. a * b.rate <= t * b.rate
          <6>1. b.rate * a <= b.rate * t
            BY <1>1, <3>1, <4>2, Scaled
          <6> QED
            BY <1>1, <3>1, <4>2, <6>1
        <5> QED
          BY <1>2, <3>1, <4>4, <5>1, RoundingGrows
      <4>9. Passed(b, t) + b.tokens <= b.burst
        BY <1>1, <1>4, <3>1, <3>5
      <4>10. Ceiling(a * b.rate, d) \in Int
        BY <1>2, <4>4, Divided
      <4> QED
        BY <1>1, <1>3, <1>5, <2>1, <3>2, <4>7, <4>8, <4>9, <4>10
    <3> QED
      BY <1>1, <1>5, <3>1, <3>3, <3>4, <3>5
  <2>5. ASSUME NEW t \in 0 .. Horizon
        PROVE  Passed(r, t) + r.tokens <=
                   r.burst + (IF r.elapsed <= t THEN Ceiling((t - r.elapsed) * r.rate, d) ELSE 0)
    <3>1. r.elapsed <= t /\ t - r.elapsed = t
      BY <1>2, <2>1, <2>5
    <3> QED
      BY <1>3, <2>3, <2>4, <3>1
  <2>6. \A a \in 0 .. Horizon : ~(a < r.elapsed)
    BY <1>2, <2>1
  <2> QED
    BY <1>3, <2>1, <2>2, <2>5, <2>6 DEF Accounts, r, d
<1> QED
  BY <1>6, <1>7
\* AllowN takes its tokens from a bucket that has just been refilled.
LEMMA TakenFields ==
    ASSUME NEW b \in TokenBuckets, NEW n \in Nat, n <= b.tokens
    PROVE  LET a == Taken(b, n)
           IN  /\ a \in TokenBuckets
               /\ a.kind = b.kind /\ a.rate = b.rate /\ a.burst = b.burst /\ a.elapsed = b.elapsed
               /\ a.readers = b.readers /\ a.tokens = b.tokens - n
               /\ a.granted = [b.granted EXCEPT ![0] = b.granted[0] + n]
<1> DEFINE h == [b.granted EXCEPT ![0] = b.granted[0] + n]
           g == [b EXCEPT !.granted = h]
           a == Taken(b, n)
<1>1. b.kind = "token_bucket" /\ b.tokens - n \in Nat /\ b.granted \in Grants
  BY DEF TokenBuckets
<1>2. h \in Grants
  BY <1>1, TicksType DEF Grants
<1>3. [b EXCEPT !.granted[0] = b.granted[0] + n] = g
  BY DEF TokenBuckets
<1> HIDE DEF h
<1>4. g \in TokenBuckets /\ g.kind = b.kind
  BY <1>2 DEF TokenBuckets
<1>5. a = [g EXCEPT !.tokens = b.tokens - n]
  BY <1>1, <1>3 DEF Taken
<1> HIDE DEF a
<1>6. /\ a \in TokenBuckets /\ a.granted = h
      /\ a.kind = b.kind /\ a.rate = b.rate /\ a.burst = b.burst /\ a.elapsed = b.elapsed
      /\ a.readers = b.readers /\ a.tokens = b.tokens - n
  BY <1>1, <1>2, <1>5 DEF TokenBuckets
<1> QED
  BY <1>6 DEF a, h

LEMMA TakenAccounts ==
    ASSUME NEW b \in TokenBuckets, Accounts(b), TokensIn(b, b.elapsed) = 0,
           NEW n \in Nat, n <= b.tokens
    PROVE  Accounts(Taken(b, n))
<1> DEFINE a == Taken(b, n)
<1>1. /\ a \in TokenBuckets
      /\ a.rate = b.rate /\ a.burst = b.burst /\ a.elapsed = b.elapsed /\ a.tokens = b.tokens - n
      /\ a.granted = [b.granted EXCEPT ![0] = b.granted[0] + n]
  BY TakenFields
<1>2. b.granted \in Grants /\ b.elapsed \in Nat /\ b.tokens \in Nat /\ b.burst \in Nat
  BY DEF TokenBuckets
<1> HIDE DEF a
<1>3. /\ \A t \in 1 .. Horizon : a.granted[t] = b.granted[t]
      /\ \A t \in 0 .. Horizon : Passed(a, t) = Passed(b, t) + n /\ Passed(b, t) \in Nat
  BY <1>1, <1>2, PassedMore, PassedSums
<1>4. FullAfter(a) = FullAfter(b) /\ \A t : TokensIn(a, t) = TokensIn(b, t)
  BY <1>1, SameRate
<1>5. a.tokens <= a.burst /\ a.elapsed <= FullAfter(a)
  BY <1>1, <1>2, <1>4 DEF Accounts
<1>6. ASSUME NEW t \in 0 .. Horizon
      PROVE  Passed(a, t) + a.tokens <=
                 a.burst + (IF a.elapsed <= t THEN Ceiling((t - a.elapsed) * a.rate, Tenths) ELSE 0)
  <2>1. Passed(a, t) + a.tokens = Passed(b, t) + b.tokens
    BY <1>1, <1>2, <1>3
  <2> QED
    BY <1>1, <2>1 DEF Accounts
<1>7. ASSUME NEW k \in 0 .. Horizon, k < a.elapsed, a.granted[k] > 0
      PROVE  TokensIn(a, a.elapsed - k) = 0
  <2>1. CASE k = 0
    BY <1>1, <1>2, <1>4, <2>1
  <2>2. CASE k # 0
    <3>1. k \in 1 .. Horizon
      BY <2>2, TicksType
    <3>2. TokensIn(b, b.elapsed - k) = 0
      BY <1>1, <1>3, <1>7, <3>1 DEF Accounts
    <3> QED
      BY <1>1, <1>4, <3>2
  <2> QED
    BY <2>1, <2>2
<1> QED
  BY <1>5, <1>6, <1>7 DEF Accounts, a

LEMMA AgedFields ==
    ASSUME NEW b \in TokenBuckets
    PROVE  LET a == Aged(b)
           IN  /\ a \in TokenBuckets
               /\ a.kind = b.kind /\ a.rate = b.rate /\ a.burst = b.burst /\ a.tokens = b.tokens
               /\ a.elapsed = Least(b.elapsed + 1, FullAfter(b)) /\ a.granted = Older(b.granted)
<1> DEFINE e == Least(b.elapsed + 1, FullAfter(b))
           g == Older(b.granted)
           a == Aged(b)
<1>1. b.kind = "token_bucket" /\ b.elapsed \in Nat /\ b.granted \in Grants
  BY DEF TokenBuckets
<1>2. e \in Nat
  BY <1>1, FullAfterType DEF Least
<1>3. g \in Grants
  BY <1>1, PassedOlder, TicksType DEF Older, Grants
<1>4. a = [b EXCEPT !.elapsed = e, !.granted = g]
  BY <1>1 DEF Aged, TokenBuckets
<1> HIDE DEF e, g, a
<1>5. /\ a \in TokenBuckets
      /\ a.kind = b.kind /\ a.rate = b.rate /\ a.burst = b.burst /\ a.tokens = b.tokens
      /\ a.elapsed = e /\ a.granted = g
  BY <1>2, <1>3, <1>4 DEF TokenBuckets
<1> QED
  BY <1>5 DEF e, g, a

\* x ticks of the rate come to no more when they are fewer
LEMMA FewerTicks ==
    ASSUME NEW r \in Nat, NEW p \in Nat, NEW q \in Nat, p <= q
    PROVE  /\ Ceiling(p * r, Tenths) \in Nat /\ Ceiling(q * r, Tenths) \in Nat
           /\ Ceiling(p * r, Tenths) <= Ceiling(q * r, Tenths)
           /\ (q * r) \div Tenths = 0 => (p * r) \div Tenths = 0
<1> DEFINE x == p * r  y == q * r
<1>1. x \in Nat /\ y \in Nat
  OBVIOUS
<1>2. x <= y
  <2>1. r * p <= r * q
    BY Scaled
  <2> QED
    BY <2>1
<1> HIDE DEF x, y
<1>3. /\ Ceiling(x, Tenths) \in Nat /\ Ceiling(y, Tenths) \in Nat
      /\ Ceiling(x, Tenths) <= Ceiling(y, Tenths) /\ x \div Tenths <= y \div Tenths
  <2>1. x \in Int /\ y \in Int /\ Tenths \in Nat \ {0}
    BY <1>1, TicksType
  <2>2. Ceiling(x, Tenths) \in Nat /\ Ceiling(y, Tenths) \in Nat
    BY <1>1, <2>1, CeilingType
  <2> QED
    BY <1>2, <2>1, <2>2, RoundingGrows
<1>4. x \div Tenths \in Nat
  <2>1. x \div Tenths \in Int /\ x < Tenths * (x \div Tenths) + Tenths
    BY <1>1, TicksType, Divided
  <2> DEFINE f == x \div Tenths
  <2>2. f \in Int /\ x < Tenths * f + Tenths
    BY <2>1
  <2> HIDE DEF f
  <2>3. Tenths * (-1) < Tenths * f
    BY <1>1, <2>2, TicksType
  <2>4. -1 < f
    BY <2>2, <2>3, Cancels, TicksType
  <2> QED
    BY <2>2, <2>4 DEF f
<1>5. y \div Tenths = 0 => x \div Tenths = 0
  BY <1>3, <1>4
<1> QED
  BY <1>3, <1>5 DEF x, y

\* A tick makes everything older, the last refill and what passed since.
LEMMA AgedAccounts ==
    ASSUME NEW b \in TokenBuckets, Accounts(b)
    PROVE  Accounts(Aged(b))
<1> DEFINE a == Aged(b)
           F == FullAfter(b)
<1>1. /\ a \in TokenBuckets
      /\ a.rate = b.rate /\ a.burst = b.burst /\ a.tokens = b.tokens
      /\ a.elapsed = Least(b.elapsed + 1, F) /\ a.granted = Older(b.granted)
  BY AgedFields
<1>2. /\ b.granted \in Grants /\ b.elapsed \in Nat /\ b.tokens \in Nat /\ b.burst \in Nat
      /\ b.rate \in Nat /\ F \in Nat \ {0} /\ b.elapsed <= F /\ b.tokens <= b.burst
      /\ Horizon \in Nat
  BY FullAfterType, TicksType DEF TokenBuckets, Accounts
<1>3. /\ a.granted[0] = 0
      /\ \A t \in 1 .. Horizon : a.granted[t] = b.granted[t - 1]
      /\ Passed(a, 0) = 0 /\ \A t \in 1 .. Horizon : Passed(a, t) = Passed(b, t - 1)
  BY <1>1, <1>2, PassedOlder
<1>4. FullAfter(a) = F /\ \A t : TokensIn(a, t) = TokensIn(b, t)
  BY <1>1, SameRate
<1> HIDE DEF a, F
<1>5. /\ a.elapsed \in Nat \ {0} /\ a.elapsed <= F
      /\ b.elapsed <= a.elapsed /\ a.elapsed <= b.elapsed + 1
  BY <1>1, <1>2 DEF Least
<1>6. ASSUME NEW t \in 0 .. Horizon
      PROVE  Passed(a, t) + a.tokens <=
                 a.burst + (IF a.elapsed <= t THEN Ceiling((t - a.elapsed) * a.rate, Tenths) ELSE 0)
  <2>1. CASE t = 0
    BY <1>1, <1>2, <1>3, <1>5, <2>1
  <2>2. CASE t # 0
    <3>1. t \in 1 .. Horizon /\ t - 1 \in 0 .. Horizon /\ t \in Nat
      BY <1>2, <2>2
    <3>2. Passed(a, t) = Passed(b, t - 1) /\ Passed(b, t - 1) \in Nat
      BY <1>2, <1>3, <3>1, PassedSums
    <3>3. Passed(b, t - 1) + b.tokens <=
              b.burst + (IF b.elapsed <= t - 1
                         THEN Ceiling(((t - 1) - b.elapsed) * b.rate, Tenths) ELSE 0)
      BY <3>1 DEF Accounts
    <3>4. CASE a.elapsed <= t
      <4> DEFINE q == t - a.elapsed  p == (t - 1) - b.elapsed  cq == Ceiling(q * b.rate, Tenths)
      <4>1. q \in Nat
        BY <1>5, <3>1, <3>4
      <4>2. cq \in Nat
        BY <1>2, <4>1, FewerTicks
      <4>3. CASE b.elapsed <= t - 1
        <5>1. p \in Nat /\ p <= q
          BY <1>2, <1>5, <3>1, <4>3
        <5> HIDE DEF p, q
        <5>2. Ceiling(p * b.rate, Tenths) \in Nat /\ Ceiling(p * b.rate, Tenths) <= cq
          BY <1>2, <4>1, <5>1, FewerTicks
        <5>3. Passed(b, t - 1) + b.tokens <= b.burst + Ceiling(p * b.rate, Tenths)
          BY <3>3, <4>3 DEF p
        <5> HIDE DEF cq
        <5>4. Passed(a, t) + a.tokens <= a.burst + cq
          BY <1>1, <1>2, <3>2, <4>2, <5>2, <5>3
        <5> QED
          BY <1>1, <3>4, <5>4 DEF cq, q
      <4>4. CASE ~(b.elapsed <= t - 1)
        <5>1. Passed(b, t - 1) + b.tokens <= b.burst
          BY <1>2, <3>3, <4>4
        <5> HIDE DEF cq
        <5>2. Passed(a, t) + a.tokens <= a.burst + cq
          BY <1>1, <1>2, <3>2, <4>2, <5>1
        <5> QED
          BY <1>1, <3>4, <5>2 DEF cq, q
      <4> QED
        BY <4>3, <4>4
    <3>5. CASE ~(a.elapsed <= t)
      <4>1. ~(b.elapsed <= t - 1)
        BY <1>2, <1>5, <3>1, <3>5
      <4> QED
        BY <1>1, <1>2, <3>2, <3>3, <3>5, <4>1
    <3> QED
      BY <3>4, <3>5
  <2> QED
    BY <2>1, <2>2
<1>7. ASSUME NEW k \in 0 .. Horizon, k < a.elapsed, a.granted[k] > 0
      PROVE  TokensIn(a, a.elapsed - k) = 0
  <2>1. k \in 1 .. Horizon /\ k - 1 \in 0 .. Horizon /\ k \in Nat
    BY <1>2, <1>3, <1>7
  <2>2. b.granted[k - 1] > 0
    BY <1>3, <1>7, <2>1
  <2>3. k - 1 < b.elapsed
    BY <1>2, <1>5, <1>7, <2>1
  <2>4. TokensIn(b, b.elapsed - (k - 1)) = 0
    BY <2>1, <2>2, <2>3 DEF Accounts
  <2> DEFINE p == a.elapsed - k  q == b.elapsed - (k - 1)
  <2>5. p \in Nat /\ q \in Nat /\ p <= q
    BY <1>2, <1>5, <1>7, <2>1, <2>3
  <2>6. (q * b.rate) \div Tenths = 0
    BY <2>4, TicksType DEF TokensIn
  <2> HIDE DEF p, q
  <2>7. (p * b.rate) \div Tenths = 0
    BY <1>2, <2>5, <2>6, FewerTicks
  <2>8. TokensIn(b, p) = 0
    BY <2>7, TicksType DEF TokensIn
  <2> QED
    BY <1>4, <2>8 DEF p
<1>8. a.tokens <= a.burst /\ a.elapsed <= FullAfter(a)
  BY <1>1, <1>2, <1>4, <1>5
<1> QED
  BY <1>6, <1>7, <1>8 DEF Accounts, a

\* A new bucket is full and owes nothing.
LEMMA NewBucket ==
    ASSUME NEW rate \in Int, NEW burst \in Int
    PROVE  LET b == NewTokenBucketLimiter(rate, burst)
           IN  b \in TokenBuckets /\ Accounts(b) /\ b.kind = "token_bucket"
<1> DEFINE b == NewTokenBucketLimiter(rate, burst)
<1>1. /\ b \in TokenBuckets /\ b.tokens = b.burst /\ b.elapsed = 0 /\ b.granted = NoGrants
      /\ b.kind = "token_bucket"
  <2>1. NoGrants \in Grants
    BY DEF NoGrants, Grants
  <2> QED
    BY <2>1 DEF NewTokenBucketLimiter, TokenBuckets
<1> HIDE DEF b
<1>2. b.rate \in Nat /\ b.burst \in Nat
  BY <1>1 DEF TokenBuckets
<1>3. ASSUME NEW t \in 0 .. Horizon
      PROVE  Passed(b, t) + b.tokens <=
                 b.burst + (IF b.elapsed <= t THEN Ceiling((t - b.elapsed) * b.rate, Tenths) ELSE 0)
  <2>1. t \in Nat /\ t - b.elapsed = t /\ b.elapsed <= t
    BY <1>1, TicksType
  <2>2. Ceiling(t * b.rate, Tenths) \in Nat
    BY <1>2, <2>1, FewerTicks
  <2>3. Passed(b, t) = 0
    BY <1>1, PassedNothing
  <2> QED
    BY <1>1, <1>2, <2>1, <2>2, <2>3
<1>4. FullAfter(b) \in Nat \ {0}
  BY <1>1, FullAfterType
<1>5. \A k \in 0 .. Horizon : ~(k < b.elapsed)
  BY <1>1, TicksType
<1> QED
  BY <1>1, <1>2, <1>3, <1>4, <1>5 DEF Accounts, b

\* What the accounts are for.
LEMMA AccountsBound ==
    ASSUME NEW b \in TokenBuckets, Accounts(b), NEW t \in 0 .. Horizon
    PROVE  Passed(b, t) <= b.burst + Ceiling(t * b.rate, 10 * Second)
<1>1. /\ b.granted \in Grants /\ b.elapsed \in Nat /\ b.tokens \in Nat /\ b.burst \in Nat
      /\ b.rate \in Nat /\ t \in Nat /\ Passed(b, t) \in Nat
  BY TicksType, PassedSums DEF TokenBuckets
<1>2. Passed(b, t) + b.tokens <=
          b.burst + (IF b.elapsed <= t THEN Ceiling((t - b.elapsed) * b.rate, Tenths) ELSE 0)
  BY DEF Accounts
<1>3. Ceiling(t * b.rate, Tenths) \in Nat
  BY <1>1, FewerTicks
<1>4. CASE b.elapsed <= t
  <2> DEFINE p == t - b.elapsed
  <2>1. p \in Nat /\ p <= t
    BY <1>1, <1>4
  <2>2. Passed(b, t) + b.tokens <= b.burst + Ceiling(p * b.rate, Tenths)
    BY <1>2, <1>4
  <2> HIDE DEF p
  <2>3. Ceiling(p * b.rate, Tenths) \in Nat /\ Ceiling(p * b.rate, Tenths) <= Ceiling(t * b.rate, Tenths)
    BY <1>1, <2>1, FewerTicks
  <2> QED
    BY <1>1, <1>3, <2>2, <2>3 DEF Tenths
<1>5. CASE ~(b.elapsed <= t)
  BY <1>1, <1>2, <1>3, <1>5 DEF Tenths
<1> QED
  BY <1>4, <1>5
-----------------------------------------------------------------------------
(* Who waits at a bucket.                                                   *)

Numbers(w) == w.n \in Nat /\ w.left \in Nat /\ w.slept \in Nat /\ w.lost \in Nat

\* A waiter sleeps, at most, twice the time that its tokens and the lost ones
\* take, with the sleep it has begun; unless the bucket has had the time to fill
\* up, it slept for tokens that came and went, or since the last refill; and it
\* works out a sleep for tokens that were not there when it asked.
BucketWaiter(w, b) ==
    LET each == Twice(Tenths, b.rate)
    IN  /\ Numbers(w)
        /\ w.n <= b.burst
        /\ w.slept + w.left <= each * (w.n + w.lost)
        /\ b.elapsed >= FullAfter(b) \/ w.slept <= each * (b.tokens + w.lost) + b.elapsed
        /\ w.pc = "calculate" =>
              w.slept <= each * (Least(b.tokens, w.n - 1) + w.lost) + Ceiling(Tenths, b.rate) - 1

\* Time is as good as tokens: a refill brings in what the time since the last
\* one stood for, or fills the bucket.
LEMMA RefilledWaiter ==
    ASSUME NEW b \in TokenBuckets, Accounts(b), NEW w, BucketWaiter(w, b)
    PROVE  BucketWaiter(w, Refilled(b))
<1> DEFINE k == TokensIn(b, b.elapsed)
           r == Refilled(b)
           c == Twice(Tenths, b.rate)
           e == b.elapsed
           one == Ceiling(Tenths, b.rate)
<1>1. /\ b.rate \in Nat \ {0} /\ e \in Nat /\ b.tokens \in Nat /\ b.burst \in Nat \ {0}
      /\ b.tokens <= b.burst
  BY DEF TokenBuckets, Accounts
<1>2. c \in Nat /\ one \in Nat
  BY <1>1, TicksType, TwiceType
<1>3. /\ k \in Nat /\ r \in TokenBuckets /\ r.rate = b.rate /\ r.burst = b.burst
      /\ k = 0 => r = b
      /\ k # 0 => r.elapsed = 0 /\ r.tokens = Least(b.burst, b.tokens + k)
  BY RefilledFields
<1>4. k # 0 => e <= c * k
  BY <1>1, TicksType, RefillTime DEF TokensIn
<1>5. FullAfter(b) <= e => b.burst <= k
  <2>1. FullAfter(b) = Ceiling(Tenths * b.burst, b.rate)
    BY FullAfterType
  <2> QED
    BY <1>1, <2>1, TicksType, FullInTime DEF TokensIn
<1>6. /\ Numbers(w) /\ w.n <= b.burst /\ w.slept + w.left <= c * (w.n + w.lost)
      /\ FullAfter(b) <= e \/ w.slept <= c * (b.tokens + w.lost) + e
      /\ w.pc = "calculate" => w.slept <= c * (Least(b.tokens, w.n - 1) + w.lost) + one - 1
  <2>1. FullAfter(b) \in Nat
    BY FullAfterType
  <2> QED
    BY <1>1, <2>1 DEF BucketWaiter
<1>7. FullAfter(b) \in Nat
  BY FullAfterType
<1> HIDE DEF k, r, c, e, one
<1>8. CASE k = 0
  BY <1>3, <1>8 DEF r
<1>9. CASE k # 0
  <2>1. w.n \in Nat /\ w.left \in Nat /\ w.slept \in Nat /\ w.lost \in Nat
    BY <1>6 DEF Numbers
  <2>2. /\ r.tokens \in Nat /\ b.tokens <= r.tokens
        /\ r.tokens = b.burst \/ r.tokens = b.tokens + k
    BY <1>1, <1>3, <1>9 DEF Least
  <2>3. w.slept <= c * (r.tokens + w.lost)
    <3>1. CASE r.tokens = b.burst
      <4>1. c * (w.n + w.lost) <= c * (r.tokens + w.lost)
        BY <1>2, <1>6, <2>1, <2>2, <3>1, Scaled
      <4>2. c * (w.n + w.lost) \in Int /\ c * (r.tokens + w.lost) \in Int
        BY <1>2, <2>1, <2>2
      <4> QED
        BY <1>6, <2>1, <4>1, <4>2
    <3>2. CASE r.tokens = b.tokens + k /\ r.tokens # b.burst
      <4>1. ~(FullAfter(b) <= e)
        BY <1>1, <1>3, <1>5, <1>9, <2>2, <3>2 DEF Least
      <4>2. c * (r.tokens + w.lost) = c * (b.tokens + w.lost) + c * k
        BY <1>1, <1>2, <1>3, <2>1, <3>2
      <4>3. c * (b.tokens + w.lost) \in Int /\ c * k \in Int
        BY <1>1, <1>2, <1>3, <2>1
      <4> QED
        BY <1>1, <1>4, <1>6, <1>9, <2>1, <4>1, <4>2, <4>3
    <3> QED
      BY <2>2, <3>1, <3>2
  <2>4. w.slept <= c * (r.tokens + w.lost) + r.elapsed
    BY <1>2, <1>3, <1>9, <2>1, <2>2, <2>3
  <2>5. ASSUME w.pc = "calculate"
        PROVE  w.slept <= c * (Least(r.tokens, w.n - 1) + w.lost) + one - 1
    <3> DEFINE p == Least(b.tokens, w.n - 1) + w.lost  q == Least(r.tokens, w.n - 1) + w.lost
    <3>1. p \in Int /\ q \in Int /\ p <= q
      BY <1>1, <2>1, <2>2 DEF Least
    <3>2. w.slept <= c * p + one - 1
      BY <1>6, <2>5
    <3> HIDE DEF p, q
    <3>3. c * p <= c * q /\ c * p \in Int /\ c * q \in Int
      BY <1>2, <3>1, Scaled
    <3>4. w.slept <= c * q + one - 1
      BY <1>2, <2>1, <3>2, <3>3
    <3> QED
      BY <3>4 DEF q
  <2> QED
    BY <1>3, <1>6, <2>4, <2>5 DEF BucketWaiter, r, c, one
<1> QED
  BY <1>8, <1>9

\* What another takes is lost.
LEMMA TakenWaiter ==
    ASSUME NEW b \in TokenBuckets, NEW w, BucketWaiter(w, b), NEW m \in Nat, m <= b.tokens,
           NEW v, v.pc = w.pc, v.n = w.n, v.left = w.left, v.slept = w.slept, v.lost = w.lost + m
    PROVE  BucketWaiter(v, Taken(b, m))
<1> DEFINE a == Taken(b, m)
           c == Twice(Tenths, b.rate)
           one == Ceiling(Tenths, b.rate)
<1>1. /\ b.rate \in Nat \ {0} /\ b.elapsed \in Nat /\ b.tokens \in Nat /\ b.burst \in Nat
  BY DEF TokenBuckets
<1>2. c \in Nat /\ one \in Nat
  BY <1>1, TicksType, TwiceType
<1>3. /\ a \in TokenBuckets /\ a.rate = b.rate /\ a.burst = b.burst /\ a.elapsed = b.elapsed
      /\ a.tokens = b.tokens - m
  BY TakenFields
<1>4. FullAfter(a) = FullAfter(b)
  BY <1>3, SameRate
<1>5. /\ Numbers(w) /\ w.n <= b.burst /\ w.slept + w.left <= c * (w.n + w.lost)
      /\ b.elapsed >= FullAfter(b) \/ w.slept <= c * (b.tokens + w.lost) + b.elapsed
      /\ w.pc = "calculate" => w.slept <= c * (Least(b.tokens, w.n - 1) + w.lost) + one - 1
  BY DEF BucketWaiter
<1> HIDE DEF a, c, one
<1>6. w.n \in Nat /\ w.left \in Nat /\ w.slept \in Nat /\ w.lost \in Nat
  BY <1>5 DEF Numbers
<1>7. Numbers(v) /\ v.n <= a.burst
  BY <1>3, <1>5, <1>6 DEF Numbers
<1>8. v.slept + v.left <= c * (v.n + v.lost)
  <2>1. c * (w.n + w.lost) <= c * (v.n + v.lost)
    BY <1>2, <1>6, Scaled
  <2>2. c * (w.n + w.lost) \in Int /\ c * (v.n + v.lost) \in Int
    BY <1>2, <1>6
  <2> QED
    BY <1>5, <1>6, <2>1, <2>2
<1>9. a.tokens + v.lost = b.tokens + w.lost
  BY <1>1, <1>3, <1>6
<1>10. ASSUME v.pc = "calculate"
       PROVE  v.slept <= c * (Least(a.tokens, v.n - 1) + v.lost) + one - 1
  <2> DEFINE p == Least(b.tokens, w.n - 1) + w.lost  q == Least(a.tokens, v.n - 1) + v.lost
  <2>1. p \in Int /\ q \in Int /\ p <= q
    BY <1>1, <1>3, <1>6 DEF Least
  <2>2. w.slept <= c * p + one - 1
    BY <1>5, <1>10
  <2> HIDE DEF p, q
  <2>3. c * p <= c * q /\ c * p \in Int /\ c * q \in Int
    BY <1>2, <2>1, Scaled
  <2>4. v.slept <= c * q + one - 1
    BY <1>2, <1>6, <2>2, <2>3
  <2> QED
    BY <2>4 DEF q
<1>11. a.elapsed >= FullAfter(a) \/ v.slept <= c * (a.tokens + v.lost) + a.elapsed
  BY <1>3, <1>4, <1>5, <1>9
<1> QED
  BY <1>3, <1>7, <1>8, <1>10, <1>11 DEF BucketWaiter, a, c, one

\* Refused by a bucket just refilled, it has slept less than one token's time
\* beyond the tokens that came.
LEMMA RefusedWaiter ==
    ASSUME NEW b \in TokenBuckets, TokensIn(b, b.elapsed) = 0, NEW w, BucketWaiter(w, b),
           b.tokens < w.n,
           NEW v, Numbers(v), v.n = w.n, v.left = w.left, v.slept = w.slept, v.lost = w.lost
    PROVE  BucketWaiter(v, b)
<1> DEFINE c == Twice(Tenths, b.rate)
           one == Ceiling(Tenths, b.rate)
<1>1. /\ b.rate \in Nat \ {0} /\ b.elapsed \in Nat /\ b.tokens \in Nat /\ b.burst \in Nat \ {0}
      /\ FullAfter(b) = Ceiling(Tenths * b.burst, b.rate) /\ FullAfter(b) \in Nat
  BY FullAfterType DEF TokenBuckets
<1>2. c \in Nat /\ one \in Nat
  BY <1>1, TicksType, TwiceType
<1>3. (b.elapsed * b.rate) \div Tenths = 0
  BY TicksType DEF TokensIn
<1>4. ~(b.elapsed >= FullAfter(b))
  <2> DEFINE f == (b.elapsed * b.rate) \div Tenths
  <2> SUFFICES ASSUME b.elapsed >= FullAfter(b) PROVE FALSE
    OBVIOUS
  <2>1. b.burst <= f
    BY <1>1, TicksType, FullInTime
  <2>2. f = 0
    BY <1>3
  <2> HIDE DEF f
  <2> QED
    BY <1>1, <2>1, <2>2
<1>5. b.elapsed <= one - 1
  <2> DEFINE f == (b.elapsed * b.rate) \div Tenths
  <2>1. f <= 0
    BY <1>3
  <2> QED
    BY <1>1, <2>1, TicksType, NoTokenYet
<1>6. /\ w.n <= b.burst /\ w.slept + w.left <= c * (w.n + w.lost)
      /\ w.slept <= c * (b.tokens + w.lost) + b.elapsed
  BY <1>4 DEF BucketWaiter
<1> HIDE DEF c, one
<1>7. v.n \in Nat /\ v.left \in Nat /\ v.slept \in Nat /\ v.lost \in Nat
  BY DEF Numbers
<1>8. Least(b.tokens, v.n - 1) = b.tokens
  BY <1>1, <1>7 DEF Least
<1>9. c * (b.tokens + v.lost) \in Int
  BY <1>1, <1>2, <1>7
<1>10. v.slept <= c * (Least(b.tokens, v.n - 1) + v.lost) + one - 1
  BY <1>1, <1>2, <1>5, <1>6, <1>7, <1>8, <1>9
<1> QED
  BY <1>6, <1>10 DEF BucketWaiter, c, one

\* The sleep it works out is within the bound.
LEMMA SleepingWaiter ==
    ASSUME NEW b \in TokenBuckets, NEW w, BucketWaiter(w, b), w.pc = "calculate",
           NEW v, v.pc # "calculate", v.n = w.n, v.slept = w.slept, v.lost = w.lost,
           v.left = BucketWait(b, w.n)
    PROVE  BucketWaiter(v, b)
<1> DEFINE c == Twice(Tenths, b.rate)
           one == Ceiling(Tenths, b.rate)
<1>1. /\ b.rate \in Nat \ {0} /\ b.elapsed \in Nat /\ b.tokens \in Nat /\ b.burst \in Nat
  BY DEF TokenBuckets
<1>2. c \in Nat /\ one \in Nat \ {0} /\ one <= c
  BY <1>1, TicksType, TwiceType
<1>3. /\ Numbers(w) /\ w.n <= b.burst /\ w.slept + w.left <= c * (w.n + w.lost)
      /\ b.elapsed >= FullAfter(b) \/ w.slept <= c * (b.tokens + w.lost) + b.elapsed
      /\ w.slept <= c * (Least(b.tokens, w.n - 1) + w.lost) + one - 1
  BY DEF BucketWaiter
<1>4. w.n \in Nat /\ w.slept \in Nat /\ w.lost \in Nat
  BY <1>3 DEF Numbers
<1>5. CASE w.n <= b.tokens
  <2>1. v.left = 0
    BY <1>5 DEF BucketWait
  <2>2. Least(b.tokens, w.n - 1) = w.n - 1
    BY <1>1, <1>4, <1>5 DEF Least
  <2> HIDE DEF c, one
  <2>3. c * (w.n - 1 + w.lost) = c * (w.n + w.lost) - c /\ c * (w.n + w.lost) \in Int
    BY <1>2, <1>4
  <2>4. v.slept + v.left <= c * (v.n + v.lost)
    BY <1>2, <1>3, <1>4, <2>1, <2>2, <2>3
  <2>5. Numbers(v)
    BY <1>4, <2>1 DEF Numbers
  <2> QED
    BY <1>3, <2>4, <2>5 DEF BucketWaiter, c
<1>6. CASE ~(w.n <= b.tokens)
  <2> DEFINE j == w.n - b.tokens  left == BucketWait(b, w.n)
  <2>1. j \in Nat \ {0}
    BY <1>1, <1>4, <1>6
  <2>2. left = Most(1, ((j * 10) \div b.rate) * Second)
    BY <1>6 DEF BucketWait
  <2>3. left \in Nat /\ one - 1 + left <= c * j
    BY <1>1, <2>1, <2>2, TicksType, SleepTime
  <2>4. Least(b.tokens, w.n - 1) = b.tokens /\ w.n = b.tokens + j
    BY <1>1, <1>4, <1>6 DEF Least
  <2>5. v.left = left
    OBVIOUS
  <2> HIDE DEF c, one, j, left
  <2>6. c * (w.n + w.lost) = c * (b.tokens + w.lost) + c * j
    BY <1>1, <1>2, <1>4, <2>1, <2>4
  <2>7. c * (b.tokens + w.lost) \in Int /\ c * j \in Int
    BY <1>1, <1>2, <1>4, <2>1
  <2>8. v.slept + v.left <= c * (v.n + v.lost)
    BY <1>2, <1>3, <1>4, <2>3, <2>4, <2>5, <2>6, <2>7
  <2>9. Numbers(v)
    BY <1>4, <2>3, <2>5 DEF Numbers
  <2> QED
    BY <1>3, <2>8, <2>9 DEF BucketWaiter, c
<1> QED
  BY <1>5, <1>6

\* A tick of sleep is a tick since the last refill.
LEMMA AgedWaiter ==
    ASSUME NEW b \in TokenBuckets, Accounts(b), NEW w, BucketWaiter(w, b),
           NEW v, Numbers(v), v.pc = w.pc, v.n = w.n, v.lost = w.lost,
           \/ v.slept = w.slept /\ v.left = w.left
           \/ w.pc # "calculate" /\ v.slept <= w.slept + 1 /\ v.left = w.left - 1
    PROVE  BucketWaiter(v, Aged(b))
<1> DEFINE a == Aged(b)
           c == Twice(Tenths, b.rate)
           one == Ceiling(Tenths, b.rate)
           F == FullAfter(b)
<1>1. /\ b.rate \in Nat \ {0} /\ b.elapsed \in Nat /\ b.tokens \in Nat /\ b.burst \in Nat
  BY DEF TokenBuckets
<1>2. c \in Nat /\ one \in Nat /\ F \in Nat
  BY <1>1, TicksType, TwiceType, FullAfterType
<1>3. /\ a \in TokenBuckets /\ a.rate = b.rate /\ a.burst = b.burst /\ a.tokens = b.tokens
      /\ a.elapsed = Least(b.elapsed + 1, F)
  BY AgedFields
<1>4. FullAfter(a) = F
  BY <1>3, SameRate
<1>5. /\ Numbers(w) /\ w.n <= b.burst /\ w.slept + w.left <= c * (w.n + w.lost)
      /\ b.elapsed >= F \/ w.slept <= c * (b.tokens + w.lost) + b.elapsed
      /\ w.pc = "calculate" => w.slept <= c * (Least(b.tokens, w.n - 1) + w.lost) + one - 1
  BY DEF BucketWaiter
<1>6. /\ w.n \in Nat /\ w.left \in Nat /\ w.slept \in Nat /\ w.lost \in Nat
      /\ v.left \in Nat /\ v.slept \in Nat
  BY <1>5 DEF Numbers
<1> HIDE DEF a, c, one, F
<1>7. v.slept <= w.slept + 1
  BY <1>6
<1>8. v.slept + v.left <= w.slept + w.left
  BY <1>6
<1>9. c * (w.n + w.lost) \in Int /\ c * (b.tokens + w.lost) \in Int
  BY <1>1, <1>2, <1>6
<1>10. v.slept + v.left <= c * (v.n + v.lost)
  BY <1>5, <1>6, <1>8, <1>9
<1>11. a.elapsed >= F \/ v.slept <= c * (a.tokens + v.lost) + a.elapsed
  <2>1. a.elapsed = F \/ (a.elapsed = b.elapsed + 1 /\ ~(b.elapsed >= F))
    BY <1>1, <1>2, <1>3 DEF Least
  <2>2. ASSUME a.elapsed = b.elapsed + 1, ~(b.elapsed >= F)
        PROVE  v.slept <= c * (a.tokens + v.lost) + a.elapsed
    <3> DEFINE x == c * (b.tokens + w.lost)
    <3>1. w.slept <= x + b.elapsed /\ x \in Int /\ c * (a.tokens + v.lost) = x
      BY <1>3, <1>5, <1>9, <2>2
    <3> HIDE DEF x
    <3> QED
      BY <1>1, <1>6, <1>7, <2>2, <3>1
  <2> QED
    BY <1>2, <2>1, <2>2
<1>12. v.pc = "calculate" => v.slept <= c * (Least(a.tokens, v.n - 1) + v.lost) + one - 1
  BY <1>3, <1>5
<1> QED
  BY <1>3, <1>4, <1>5, <1>10, <1>11, <1>12 DEF BucketWaiter, a, c, one

\* Other steps of a waiter keep its numbers, and start with none.
LEMMA KeptWaiter ==
    ASSUME NEW b, NEW w, BucketWaiter(w, b),
           NEW v, v.pc # "calculate", v.n = w.n, v.left = w.left, v.slept = w.slept, v.lost = w.lost
    PROVE  BucketWaiter(v, b)
BY DEF BucketWaiter, Numbers

LEMMA NewWaiter ==
    ASSUME NEW b \in TokenBuckets, NEW v, v.pc # "calculate", v.n \in Nat, v.n <= b.burst,
           v.left = 0, v.slept = 0, v.lost = 0
    PROVE  BucketWaiter(v, b)
<1>1. b.rate \in Nat \ {0} /\ b.elapsed \in Nat /\ b.tokens \in Nat
  BY DEF TokenBuckets
<1> DEFINE c == Twice(Tenths, b.rate)
<1>2. c \in Nat
  BY <1>1, TicksType, TwiceType
<1> HIDE DEF c
<1>3. c * (v.n + v.lost) \in Nat /\ c * (b.tokens + v.lost) \in Nat
  BY <1>1, <1>2
<1> QED
  BY <1>1, <1>2, <1>3 DEF BucketWaiter, Numbers, c
-----------------------------------------------------------------------------
(* The sliding window.                                                      *)

Ages == 0 .. WindowLength + 1
Windows == [kind : {"sliding_window"}, burst : {WindowLimit}, requests : Seq(Ages),
            readers : SUBSET Callers, granted : Grants]

\* The requests are in the order they came, no more than the limit, and the last
\* of them are those that passed lately.
Orderly(w) ==
    LET q == w.requests
    IN  /\ Len(q) <= WindowLimit
        /\ \A i, j \in 1 .. Len(q) : i <= j => q[j] <= q[i]
        /\ \A k \in 0 .. WindowLength :
              /\ Passed(w, k) <= Len(q)
              /\ \A i \in 1 .. Len(q) : i > Len(q) - Passed(w, k) => q[i] <= k

LEMMA WindowType ==
    /\ WindowLength \in Nat \ {0} /\ WindowLimit \in Nat \ {0} /\ Horizon \in Nat
    /\ \A k \in 0 .. WindowLength : k \in 0 .. Horizon
    /\ \A a \in Ages : a \in Nat /\ a <= WindowLength + 1
BY RateAssumption DEF Ages

\* cleanOldRequests cuts off what comes before the first request that counts.
LEMMA SinceCuts ==
    ASSUME NEW q \in Seq(Ages)
    PROVE  LET s == Since(q, 0 .. WindowLength)
           IN  /\ s \in Seq(Ages) /\ Len(s) \in Nat /\ Len(s) <= Len(q)
               /\ \A i \in 1 .. Len(s) : s[i] = q[Len(q) - Len(s) + i]
               /\ \A i \in 1 .. Len(q) - Len(s) : q[i] > WindowLength
               /\ Len(s) > 0 => s[1] <= WindowLength
<1> DEFINE n == Len(q)
           at == {i \in DOMAIN q : q[i] \in 0 .. WindowLength}
           s == Since(q, 0 .. WindowLength)
<1>1. n \in Nat /\ DOMAIN q = 1 .. n /\ \A i \in 1 .. n : q[i] \in Ages
  BY LenProperties, ElementOfSeq
<1>2. \A i \in 1 .. n : q[i] \in Nat /\ (i \notin at => q[i] > WindowLength)
  <2>1. ASSUME NEW i \in 1 .. n, i \notin at PROVE q[i] > WindowLength
    <3>1. q[i] \in Nat /\ ~(q[i] \in 0 .. WindowLength)
      BY <1>1, <2>1, WindowType
    <3> QED
      BY <3>1, WindowType
  <2> QED
    BY <1>1, <2>1, WindowType
<1>3. CASE at = {}
  <2>1. s = <<>>
    BY <1>3 DEF Since
  <2>2. \A i \in 1 .. n - 0 : q[i] > WindowLength
    BY <1>1, <1>2, <1>3
  <2> HIDE DEF s, n
  <2>3. s \in Seq(Ages) /\ Len(s) = 0
    BY <2>1, EmptySeq
  <2>4. Len(s) \in Nat /\ Len(s) <= n /\ \A i \in 1 .. n - Len(s) : q[i] > WindowLength
    BY <1>1, <2>2, <2>3
  <2>5. ~(Len(s) > 0) /\ \A i \in 1 .. Len(s) : s[i] = q[n - Len(s) + i]
    BY <2>3
  <2> QED
    BY <2>3, <2>4, <2>5 DEF s, n
<1>4. CASE at # {}
  <2> DEFINE m == CHOOSE i \in at : \A j \in at : i <= j
  <2>1. s = SubSeq(q, m, n)
    BY <1>4 DEF Since
  <2>2. m \in at /\ \A j \in at : m <= j
    <3>1. at \subseteq 1 .. n /\ at \in SUBSET Nat /\ IsFiniteSet(1 .. n)
      BY <1>1, FS_Interval
    <3>2. IsFiniteSet(at)
      <4> HIDE DEF at
      <4> QED
        BY <3>1, FS_Subset
    <3>3. \E i \in at : \A j \in at : i <= j
      <4> HIDE DEF at
      <4> QED
        BY <1>4, <3>1, <3>2, LeastOne
    <3> QED
      BY <3>3
  <2>3. m \in 1 .. n /\ q[m] <= WindowLength
    BY <1>1, <2>2, WindowType
  <2>4. \A i \in 1 .. m - 1 : i \in 1 .. n /\ i \notin at
    BY <1>1, <2>2, <2>3
  <2> HIDE DEF m, n, s, at
  <2>5. \A i \in m .. n : q[i] \in Ages
    BY <1>1, <2>3
  <2>6. s \in Seq(Ages) /\ Len(s) = n - m + 1 /\ \A i \in 1 .. n - m + 1 : s[i] = q[m + i - 1]
    BY <1>1, <2>1, <2>3, <2>5, SubSeqProperties
  <2>7. Len(s) \in Nat /\ Len(s) <= n /\ Len(s) > 0 /\ n - Len(s) = m - 1
    BY <1>1, <2>3, <2>6
  <2>8. \A i \in 1 .. Len(s) : s[i] = q[n - Len(s) + i]
    BY <1>1, <2>3, <2>6, <2>7
  <2>9. s[1] <= WindowLength
    BY <1>1, <2>3, <2>6, <2>7
  <2>10. \A i \in 1 .. n - Len(s) : q[i] > WindowLength
    BY <1>2, <2>4, <2>7
  <2> QED
    BY <2>6, <2>7, <2>8, <2>9, <2>10 DEF s, n
<1> QED
  BY <1>3, <1>4

LEMMA CleanedFields ==
    ASSUME NEW w \in Windows
    PROVE  LET a == Cleaned(w)
           IN  /\ a \in Windows
               /\ a.kind = w.kind /\ a.burst = w.burst /\ a.granted = w.granted
               /\ a.requests = Since(w.requests, 0 .. WindowLength)
<1> DEFINE s == Since(w.requests, 0 .. WindowLength)
           a == Cleaned(w)
<1>1. w.requests \in Seq(Ages)
  BY DEF Windows
<1>2. s \in Seq(Ages)
  BY <1>1, SinceCuts
<1>3. a = [w EXCEPT !.requests = s]
  BY DEF Cleaned
<1> HIDE DEF s, a
<1>4. /\ a \in Windows /\ a.requests = s
      /\ a.kind = w.kind /\ a.burst = w.burst /\ a.granted = w.granted
  BY <1>2, <1>3 DEF Windows
<1> QED
  BY <1>4 DEF a, s

LEMMA CleanedOrderly ==
    ASSUME NEW w \in Windows, Orderly(w)
    PROVE  /\ Orderly(Cleaned(w))
           /\ \A i \in 1 .. Len(Cleaned(w).requests) : Cleaned(w).requests[i] <= WindowLength
<1> DEFINE a == Cleaned(w)
           q == w.requests
           s == a.requests
<1>1. /\ q \in Seq(Ages) /\ s \in Seq(Ages) /\ a.granted = w.granted /\ w.granted \in Grants
      /\ s = Since(q, 0 .. WindowLength)
  BY CleanedFields DEF Windows
<1>2. Len(q) \in Nat /\ \A i \in 1 .. Len(q) : q[i] \in Nat
  <2>1. Len(q) \in Nat /\ \A i \in 1 .. Len(q) : q[i] \in Ages
    BY <1>1, LenProperties, ElementOfSeq
  <2> QED
    BY <2>1, WindowType
<1>3. /\ Len(s) \in Nat /\ Len(s) <= Len(q)
      /\ \A i \in 1 .. Len(s) : s[i] = q[Len(q) - Len(s) + i]
      /\ \A i \in 1 .. Len(q) - Len(s) : q[i] > WindowLength
      /\ Len(s) > 0 => s[1] <= WindowLength
  BY <1>1, SinceCuts
<1>4. /\ Len(q) <= WindowLimit
      /\ \A i, j \in 1 .. Len(q) : i <= j => q[j] <= q[i]
      /\ \A k \in 0 .. WindowLength :
            /\ Passed(w, k) <= Len(q)
            /\ \A i \in 1 .. Len(q) : i > Len(q) - Passed(w, k) => q[i] <= k
  BY DEF Orderly
<1>5. \A k : Passed(a, k) = Passed(w, k)
  BY <1>1 DEF Passed
<1>6. \A k \in 0 .. WindowLength : Passed(w, k) \in Nat
  BY <1>1, WindowType, PassedSums
<1> HIDE DEF a, q, s
<1>7. Len(s) <= WindowLimit
  BY <1>2, <1>3, <1>4, WindowType
<1>8. \A i \in 1 .. Len(s) : Len(q) - Len(s) + i \in 1 .. Len(q)
  BY <1>2, <1>3
<1>9. ASSUME NEW i \in 1 .. Len(s), NEW j \in 1 .. Len(s), i <= j PROVE s[j] <= s[i]
  <2>1. Len(q) - Len(s) + i <= Len(q) - Len(s) + j
    BY <1>2, <1>3, <1>9
  <2> QED
    BY <1>3, <1>4, <1>8, <2>1
<1>10. ASSUME NEW k \in 0 .. WindowLength
       PROVE  /\ Passed(a, k) <= Len(s)
              /\ \A i \in 1 .. Len(s) : i > Len(s) - Passed(a, k) => s[i] <= k
  <2> DEFINE p == Passed(w, k)
  <2>1. p \in Nat /\ p <= Len(q) /\ \A i \in 1 .. Len(q) : i > Len(q) - p => q[i] <= k
    BY <1>4, <1>6
  <2> HIDE DEF p
  <2>2. p <= Len(s)
    <3> SUFFICES ASSUME p > Len(s) PROVE FALSE
      BY <1>3, <2>1
    <3>1. Len(q) - Len(s) \in 1 .. Len(q) /\ Len(q) - Len(s) > Len(q) - p
      BY <1>2, <1>3, <2>1
    <3>2. q[Len(q) - Len(s)] <= k /\ q[Len(q) - Len(s)] > WindowLength
      BY <1>3, <2>1, <3>1
    <3> QED
      BY <1>2, <3>1, <3>2, WindowType
  <2>3. ASSUME NEW i \in 1 .. Len(s), i > Len(s) - p PROVE s[i] <= k
    <3>1. Len(q) - Len(s) + i > Len(q) - p
      BY <1>2, <1>3, <2>1, <2>3
    <3> QED
      BY <1>3, <1>8, <2>1, <3>1
  <2> QED
    BY <1>5, <2>2, <2>3 DEF p
<1>11. ASSUME NEW i \in 1 .. Len(s) PROVE s[i] <= WindowLength
  <2>1. 1 \in 1 .. Len(s) /\ 1 <= i /\ Len(s) > 0
    BY <1>3
  <2>2. s[i] <= s[1] /\ s[1] <= WindowLength
    BY <1>3, <1>9, <2>1
  <2>3. s[i] \in Nat /\ s[1] \in Nat
    BY <1>2, <1>3, <1>8, <2>1
  <2> QED
    BY <2>2, <2>3, WindowType
<1> QED
  BY <1>7, <1>9, <1>10, <1>11 DEF Orderly, a, s
\* The requests that are granted come last, with age 0.
LEMMA AdmittedFields ==
    ASSUME NEW w \in Windows, NEW n \in Nat
    PROVE  LET a == Taken(w, n)
               q == w.requests
               s == a.requests
           IN  /\ a \in Windows
               /\ a.kind = w.kind /\ a.burst = w.burst
               /\ a.granted = [w.granted EXCEPT ![0] = w.granted[0] + n]
               /\ s \in Seq(Ages) /\ Len(s) = Len(q) + n
               /\ \A i \in 1 .. Len(q) : s[i] = q[i]
               /\ \A i \in Len(q) + 1 .. Len(q) + n : s[i] = 0
<1> DEFINE h == [w.granted EXCEPT ![0] = w.granted[0] + n]
           g == [w EXCEPT !.granted = h]
           z == [i \in 1 .. n |-> 0]
           s == w.requests \o z
           a == Taken(w, n)
           q == w.requests
<1>1. w.kind = "sliding_window" /\ w.granted \in Grants /\ q \in Seq(Ages)
  BY DEF Windows
<1>2. h \in Grants
  BY <1>1, TicksType DEF Grants
<1>3. [w EXCEPT !.granted[0] = w.granted[0] + n] = g
  BY DEF Windows
<1>4. z \in Seq(Ages) /\ Len(z) = n /\ \A i \in 1 .. n : z[i] = 0
  <2>1. 0 \in Ages
    BY WindowType DEF Ages
  <2>2. z \in [1 .. n -> Ages] /\ DOMAIN z = 1 .. n
    BY <2>1
  <2>3. z \in Seq(Ages)
    BY <2>2, SeqDef
  <2>4. Len(z) = n
    <3> HIDE DEF z
    <3> QED
      BY <2>2, <2>3, LenProperties
  <2> QED
    BY <2>3, <2>4
<1> HIDE DEF z, h, q
<1>5. Len(q) \in Nat /\ DOMAIN q = 1 .. Len(q)
  BY <1>1, LenProperties
<1>6. q \o z \in Seq(Ages) /\ Len(q \o z) = Len(q) + n
      /\ \A i \in 1 .. Len(q) + n : (q \o z)[i] = IF i <= Len(q) THEN q[i] ELSE z[i - Len(q)]
  BY <1>1, <1>4, ConcatProperties
<1>7. s = q \o z
  BY DEF q
<1> HIDE DEF s
<1>8. s \in Seq(Ages) /\ Len(s) = Len(q) + n
  BY <1>6, <1>7
<1>9. \A i \in 1 .. Len(q) : s[i] = q[i]
  BY <1>5, <1>6, <1>7
<1>10. \A i \in Len(q) + 1 .. Len(q) + n : s[i] = 0
  <2>1. ASSUME NEW i \in Len(q) + 1 .. Len(q) + n PROVE s[i] = 0
    <3>1. i \in 1 .. Len(q) + n /\ ~(i <= Len(q)) /\ i - Len(q) \in 1 .. n
      BY <1>5, <2>1
    <3> QED
      BY <1>4, <1>6, <1>7, <3>1
  <2> QED
    BY <2>1
<1>11. g.kind = "sliding_window"
  BY <1>1 DEF Windows
<1>12. a = [g EXCEPT !.requests = s]
  BY <1>1, <1>3, <1>11 DEF Taken, s, z
<1> HIDE DEF a
<1>13. /\ a \in Windows /\ a.kind = w.kind /\ a.burst = w.burst /\ a.granted = h /\ a.requests = s
  BY <1>2, <1>8, <1>12 DEF Windows
<1> QED
  BY <1>8, <1>9, <1>10, <1>13 DEF a, h, q

LEMMA AdmittedOrderly ==
    ASSUME NEW w \in Windows, Orderly(w), NEW n \in Nat, Len(w.requests) + n <= WindowLimit
    PROVE  Orderly(Taken(w, n))
<1> DEFINE a == Taken(w, n)
           q == w.requests
           s == a.requests
<1>1. /\ a.granted = [w.granted EXCEPT ![0] = w.granted[0] + n] /\ w.granted \in Grants
      /\ Len(s) = Len(q) + n
      /\ \A i \in 1 .. Len(q) : s[i] = q[i]
      /\ \A i \in Len(q) + 1 .. Len(q) + n : s[i] = 0
  BY AdmittedFields DEF Windows
<1>2. Len(q) \in Nat /\ \A i \in 1 .. Len(q) : q[i] \in Nat
  <2>1. q \in Seq(Ages)
    BY DEF Windows
  <2>2. Len(q) \in Nat /\ \A i \in 1 .. Len(q) : q[i] \in Ages
    BY <2>1, LenProperties, ElementOfSeq
  <2> QED
    BY <2>2, WindowType
<1>3. \A k \in 0 .. WindowLength : Passed(a, k) = Passed(w, k) + n /\ Passed(w, k) \in Nat
  <2>1. a.granted = [w.granted EXCEPT ![0] = w.granted[0] + n] /\ w.granted \in Grants
    BY <1>1
  <2> HIDE DEF a, q, s
  <2>2. \A t \in 0 .. Horizon : Passed(a, t) = Passed(w, t) + n
    BY <2>1, PassedMore
  <2>3. \A t \in 0 .. Horizon : Passed(w, t) \in Nat
    BY <2>1, PassedSums
  <2> QED
    BY <2>2, <2>3, WindowType
<1>4. /\ \A i, j \in 1 .. Len(q) : i <= j => q[j] <= q[i]
      /\ \A k \in 0 .. WindowLength :
            /\ Passed(w, k) <= Len(q)
            /\ \A i \in 1 .. Len(q) : i > Len(q) - Passed(w, k) => q[i] <= k
  BY DEF Orderly
<1>5. Len(q) + n <= WindowLimit
  OBVIOUS
<1> HIDE DEF a, q, s
<1>6. \A i \in 1 .. Len(s) : i \in 1 .. Len(q) \/ i \in Len(q) + 1 .. Len(q) + n
  BY <1>1, <1>2
<1>7. ASSUME NEW i \in 1 .. Len(s), NEW j \in 1 .. Len(s), i <= j PROVE s[j] <= s[i]
  <2>1. CASE j \in 1 .. Len(q)
    <3>1. i \in 1 .. Len(q)
      BY <1>2, <1>7, <2>1
    <3> QED
      BY <1>1, <1>4, <1>7, <2>1, <3>1
  <2>2. CASE j \in Len(q) + 1 .. Len(q) + n
    BY <1>1, <1>2, <1>6, <2>2
  <2> QED
    BY <1>6, <2>1, <2>2
<1>8. ASSUME NEW k \in 0 .. WindowLength
      PROVE  /\ Passed(a, k) <= Len(s)
             /\ \A i \in 1 .. Len(s) : i > Len(s) - Passed(a, k) => s[i] <= k
  <2> DEFINE p == Passed(w, k)
  <2>1. /\ p \in Nat /\ p <= Len(q) /\ \A i \in 1 .. Len(q) : i > Len(q) - p => q[i] <= k
        /\ Passed(a, k) = p + n /\ k \in Nat
    BY <1>3, <1>4, WindowType
  <2> HIDE DEF p
  <2>2. ASSUME NEW i \in 1 .. Len(s), i > Len(s) - (p + n) PROVE s[i] <= k
    <3>1. CASE i \in 1 .. Len(q)
      <4>1. i > Len(q) - p
        BY <1>1, <1>2, <2>1, <2>2, <3>1
      <4> QED
        BY <1>1, <2>1, <3>1, <4>1
    <3>2. CASE i \in Len(q) + 1 .. Len(q) + n
      BY <1>1, <2>1, <3>2
    <3> QED
      BY <1>6, <3>1, <3>2
  <2> QED
    BY <1>1, <1>2, <2>1, <2>2
<1> QED
  BY <1>1, <1>5, <1>7, <1>8 DEF Orderly, a, s

LEMMA OlderFields ==
    ASSUME NEW w \in Windows
    PROVE  LET a == Aged(w)
               q == w.requests
               s == a.requests
           IN  /\ a \in Windows
               /\ a.kind = w.kind /\ a.burst = w.burst /\ a.granted = Older(w.granted)
               /\ s \in Seq(Ages) /\ Len(s) = Len(q)
               /\ \A i \in 1 .. Len(q) : s[i] = Least(q[i] + 1, WindowLength + 1)
<1> DEFINE q == w.requests
           n == Len(q)
           x == [i \in DOMAIN w.requests |-> Least(w.requests[i] + 1, WindowLength + 1)]
           g == Older(w.granted)
           a == Aged(w)
<1>1. w.kind = "sliding_window" /\ w.granted \in Grants /\ q \in Seq(Ages)
  BY DEF Windows
<1>2. n \in Nat /\ DOMAIN q = 1 .. n /\ \A i \in 1 .. n : q[i] \in Ages
  BY <1>1, LenProperties, ElementOfSeq
<1>3. \A i \in 1 .. n : Least(q[i] + 1, WindowLength + 1) \in Ages
  <2>1. ASSUME NEW i \in 1 .. n PROVE Least(q[i] + 1, WindowLength + 1) \in 0 .. WindowLength + 1
    <3>1. q[i] \in Nat
      BY <1>2, WindowType
    <3> QED
      BY <3>1, WindowType DEF Least
  <2> QED
    BY <2>1 DEF Ages
<1>4. x \in [1 .. n -> Ages] /\ \A i \in 1 .. n : x[i] = Least(q[i] + 1, WindowLength + 1)
  BY <1>2, <1>3
<1>5. x \in Seq(Ages) /\ DOMAIN x = 1 .. n
  BY <1>2, <1>4, SeqDef
<1>6. g \in Grants
  BY <1>1, TicksType DEF Older, Grants
<1>7. a = [w EXCEPT !.requests = x, !.granted = g]
  BY <1>1 DEF Aged, Windows
<1> HIDE DEF x, g, a, n
<1>8. Len(x) = n
  BY <1>2, <1>5, LenProperties
<1>9. a \in Windows /\ a.kind = w.kind /\ a.burst = w.burst /\ a.granted = g /\ a.requests = x
  BY <1>5, <1>6, <1>7 DEF Windows
<1> QED
  BY <1>4, <1>5, <1>8, <1>9 DEF a, g, n

LEMMA OlderOrderly ==
    ASSUME NEW w \in Windows, Orderly(w)
    PROVE  Orderly(Aged(w))
<1> DEFINE a == Aged(w)
           q == w.requests
           s == a.requests
<1>1. /\ a.granted = Older(w.granted) /\ w.granted \in Grants
      /\ Len(s) = Len(q)
      /\ \A i \in 1 .. Len(q) : s[i] = Least(q[i] + 1, WindowLength + 1)
  BY OlderFields DEF Windows
<1>2. Len(q) \in Nat /\ \A i \in 1 .. Len(q) : q[i] \in Nat
  <2>1. q \in Seq(Ages)
    BY DEF Windows
  <2>2. Len(q) \in Nat /\ \A i \in 1 .. Len(q) : q[i] \in Ages
    BY <2>1, LenProperties, ElementOfSeq
  <2> QED
    BY <2>2, WindowType
<1>3. Passed(a, 0) = 0 /\ \A k \in 1 .. Horizon : Passed(a, k) = Passed(w, k - 1)
  BY <1>1, PassedOlder
<1>4. /\ Len(q) <= WindowLimit
      /\ \A i, j \in 1 .. Len(q) : i <= j => q[j] <= q[i]
      /\ \A k \in 0 .. WindowLength :
            /\ Passed(w, k) <= Len(q)
            /\ \A i \in 1 .. Len(q) : i > Len(q) - Passed(w, k) => q[i] <= k
  BY DEF Orderly
<1> HIDE DEF a, q, s
<1>5. ASSUME NEW i \in 1 .. Len(s), NEW j \in 1 .. Len(s), i <= j PROVE s[j] <= s[i]
  <2>1. q[j] <= q[i] /\ q[i] \in Nat /\ q[j] \in Nat
    BY <1>1, <1>2, <1>4, <1>5
  <2>2. i \in 1 .. Len(q) /\ j \in 1 .. Len(q)
    BY <1>1
  <2>3. /\ s[i] = Least(q[i] + 1, WindowLength + 1)
        /\ s[j] = Least(q[j] + 1, WindowLength + 1)
    BY <1>1, <2>2
  <2> DEFINE x == q[i]  y == q[j]  W == WindowLength
  <2>4. x \in Nat /\ y \in Nat /\ y <= x /\ W \in Nat
    BY <2>1, WindowType
  <2> HIDE DEF x, y, W
  <2>5. Least(y + 1, W + 1) <= Least(x + 1, W + 1)
    BY <2>4 DEF Least
  <2> QED
    BY <2>3, <2>5 DEF x, y, W
<1>6. ASSUME NEW k \in 0 .. WindowLength
      PROVE  /\ Passed(a, k) <= Len(s)
             /\ \A i \in 1 .. Len(s) : i > Len(s) - Passed(a, k) => s[i] <= k
  <2>1. CASE k = 0
    BY <1>1, <1>2, <1>3, <2>1
  <2>2. CASE k # 0
    <3>1. k \in 1 .. Horizon /\ k - 1 \in 0 .. WindowLength /\ k \in Nat
      BY <2>2, WindowType
    <3>2. /\ Passed(a, k) = Passed(w, k - 1) /\ Passed(w, k - 1) <= Len(q)
          /\ \A i \in 1 .. Len(q) : i > Len(q) - Passed(w, k - 1) => q[i] <= k - 1
      BY <1>3, <1>4, <3>1
    <3>3. ASSUME NEW i \in 1 .. Len(s), i > Len(s) - Passed(a, k) PROVE s[i] <= k
      <4>1. q[i] <= k - 1 /\ q[i] \in Nat
        BY <1>1, <1>2, <3>2, <3>3
      <4> QED
        BY <1>1, <3>1, <3>3, <4>1, WindowType DEF Least
    <3> QED
      BY <1>1, <3>2, <3>3
  <2> QED
    BY <2>1, <2>2
<1> QED
  BY <1>1, <1>4, <1>5, <1>6 DEF Orderly, a, s

LEMMA NewWindow ==
    /\ NewSlidingWindowLimiter \in Windows /\ Orderly(NewSlidingWindowLimiter)
    /\ NewSlidingWindowLimiter.kind = "sliding_window"
<1> DEFINE a == NewSlidingWindowLimiter
<1>1. NoGrants \in Grants /\ <<>> \in Seq(Ages)
  BY EmptySeq DEF NoGrants, Grants
<1>2. a \in Windows /\ a.requests = <<>> /\ a.granted = NoGrants /\ a.kind = "sliding_window"
  BY <1>1 DEF NewSlidingWindowLimiter, Windows
<1> HIDE DEF a
<1>3. Len(a.requests) = 0
  BY <1>2, EmptySeq
<1>4. \A k \in 0 .. WindowLength : Passed(a, k) = 0
  BY <1>2, WindowType, PassedNothing
<1>5. Orderly(a)
  BY <1>3, <1>4, WindowType DEF Orderly
<1> QED
  BY <1>2, <1>5 DEF a
-----------------------------------------------------------------------------
(* Who waits at a window.                                                   *)

\* A waiter sleeps, at most, the length of the window for itself and for each
\* request it lost, with the sleep it has begun; unless the last request has
\* left the window, it slept for requests that came and went, or since the last
\* one came; and so it did when it was refused.
WindowWaiter(v, w) ==
    LET q == w.requests
        each == WindowLength + 1
    IN  /\ Numbers(v)
        /\ v.n <= WindowLimit
        /\ v.slept + v.left <= v.lost * each + each
        /\ \/ Len(q) = 0
           \/ q[Len(q)] > WindowLength
           \/ v.slept <= v.lost * each + q[Len(q)]
        /\ v.pc \in {"calculate", "first"} => v.slept <= v.lost * each + WindowLength

\* what the requests of a window are
LEMMA RequestsType ==
    ASSUME NEW w \in Windows
    PROVE  /\ w.requests \in Seq(Ages) /\ Len(w.requests) \in Nat
           /\ \A i \in 1 .. Len(w.requests) : w.requests[i] \in Nat /\ w.requests[i] <= WindowLength + 1
           /\ w.requests = <<>> <=> Len(w.requests) = 0
<1>1. w.requests \in Seq(Ages)
  BY DEF Windows
<1>2. /\ Len(w.requests) \in Nat
      /\ \A i \in 1 .. Len(w.requests) : w.requests[i] \in Ages
  BY <1>1, LenProperties, ElementOfSeq
<1>3. w.requests = <<>> <=> Len(w.requests) = 0
  BY <1>1, EmptySeq
<1> QED
  BY <1>1, <1>2, <1>3, WindowType

LEMMA CleanedWaiter ==
    ASSUME NEW w \in Windows, NEW v, WindowWaiter(v, w)
    PROVE  WindowWaiter(v, Cleaned(w))
<1> DEFINE q == w.requests  s == Cleaned(w).requests
<1>1. s = Since(q, 0 .. WindowLength) /\ q \in Seq(Ages)
  BY CleanedFields DEF Windows
<1>2. /\ Len(s) \in Nat /\ Len(s) <= Len(q) /\ Len(q) \in Nat
      /\ \A i \in 1 .. Len(s) : s[i] = q[Len(q) - Len(s) + i]
  BY <1>1, SinceCuts, RequestsType
<1> HIDE DEF s, q
<1>3. Len(s) = 0 \/ (Len(q) # 0 /\ s[Len(s)] = q[Len(q)])
  <2> SUFFICES ASSUME Len(s) # 0 PROVE Len(q) # 0 /\ s[Len(s)] = q[Len(q)]
    OBVIOUS
  <2>1. Len(s) \in 1 .. Len(s) /\ Len(q) - Len(s) + Len(s) = Len(q) /\ Len(q) # 0
    <3> DEFINE n == Len(s)  m == Len(q)
    <3>1. n \in Nat /\ n <= m /\ m \in Nat /\ n # 0
      BY <1>2
    <3> HIDE DEF n, m
    <3>2. n \in 1 .. n /\ m - n + n = m /\ m # 0
      BY <3>1
    <3> QED
      BY <3>2 DEF n, m
  <2> QED
    BY <1>2, <2>1
<1> QED
  BY <1>3 DEF WindowWaiter, s, q

LEMMA AdmittedWaiter ==
    ASSUME NEW w \in Windows, NEW v, WindowWaiter(v, w), NEW m \in Nat,
           NEW u, u.pc = v.pc, u.n = v.n, u.left = v.left, u.slept = v.slept, u.lost = v.lost + m
    PROVE  WindowWaiter(u, Taken(w, m))
<1> DEFINE q == w.requests  s == Taken(w, m).requests
           each == WindowLength + 1
           x == v.lost * each
           y == u.lost * each
<1>1. v.n \in Nat /\ v.left \in Nat /\ v.slept \in Nat /\ v.lost \in Nat
  BY DEF WindowWaiter, Numbers
<1>2. /\ Len(q) \in Nat /\ Len(s) = Len(q) + m
      /\ \A i \in 1 .. Len(q) : s[i] = q[i]
      /\ \A i \in Len(q) + 1 .. Len(q) + m : s[i] = 0
  BY AdmittedFields, RequestsType
<1>3. each \in Nat \ {0} /\ WindowLength \in Nat
  BY WindowType
<1>4. /\ v.n <= WindowLimit
      /\ v.slept + v.left <= x + each
      /\ Len(q) = 0 \/ q[Len(q)] > WindowLength \/ v.slept <= x + q[Len(q)]
      /\ v.pc \in {"calculate", "first"} => v.slept <= x + WindowLength
  BY DEF WindowWaiter
<1> HIDE DEF q, s, each
<1>5. x \in Nat /\ y \in Nat /\ y = x + m * each /\ m * each \in Nat
  BY <1>1, <1>3
<1> HIDE DEF x, y
<1>6. CASE m = 0
  <2>1. y = x /\ Len(s) = Len(q)
    BY <1>2, <1>3, <1>5, <1>6
  <2>2. Len(q) = 0 \/ s[Len(s)] = q[Len(q)]
    BY <1>2, <2>1
  <2>3. Len(s) = 0 \/ s[Len(s)] > WindowLength \/ u.slept <= y + s[Len(s)]
    BY <1>4, <2>1, <2>2
  <2>4. u.lost = v.lost
    BY <1>1, <1>6
  <2> QED
    BY <1>1, <1>4, <2>1, <2>3, <2>4 DEF WindowWaiter, Numbers, s, y, each
<1>7. CASE m # 0
  <2>1. each <= m * each
    <3>1. each * 1 <= each * m
      BY <1>3, <1>7, Scaled
    <3> QED
      BY <1>3, <3>1
  <2>2. u.slept + u.left <= x + each
    BY <1>4
  <2> DEFINE more == m * each
  <2>3. more \in Nat /\ each <= more /\ y = x + more
    BY <1>5, <2>1
  <2> HIDE DEF more
  <2>4. u.slept + u.left <= y
    BY <1>1, <1>3, <1>5, <2>2, <2>3
  <2>5. s[Len(s)] = 0
    BY <1>2, <1>7
  <2>6. u.slept <= y + s[Len(s)] /\ u.slept + u.left <= y + each /\ u.slept <= y + WindowLength
    <3> DEFINE a == u.slept  l == u.left  z == s[Len(s)]
    <3>1. a \in Nat /\ l \in Nat /\ a + l <= y /\ z = 0
      BY <1>1, <2>4, <2>5
    <3> HIDE DEF a, l, z
    <3>2. a <= y + z /\ a + l <= y + each /\ a <= y + WindowLength
      BY <1>3, <1>5, <3>1
    <3> QED
      BY <3>2 DEF a, l, z
  <2>7. Numbers(u) /\ u.n <= WindowLimit
    BY <1>1, <1>4 DEF Numbers
  <2> QED
    BY <2>6, <2>7 DEF WindowWaiter, s, y, each
<1> QED
  BY <1>6, <1>7

LEMMA RejectedWaiter ==
    ASSUME NEW w \in Windows, \A i \in 1 .. Len(w.requests) : w.requests[i] <= WindowLength,
           NEW v, WindowWaiter(v, w), WindowLimit - Len(w.requests) < v.n,
           NEW u, Numbers(u), u.n = v.n, u.left = v.left, u.slept = v.slept, u.lost = v.lost
    PROVE  WindowWaiter(u, w)
<1> DEFINE q == w.requests
           each == WindowLength + 1
           x == v.lost * each
<1>1. v.n \in Nat /\ v.slept \in Nat /\ v.lost \in Nat
  BY DEF WindowWaiter, Numbers
<1>2. /\ Len(q) \in Nat /\ \A i \in 1 .. Len(q) : q[i] \in Nat /\ q[i] <= WindowLength
  BY RequestsType
<1>3. each \in Nat \ {0} /\ WindowLength \in Nat /\ WindowLimit \in Nat
  BY WindowType
<1>4. /\ v.n <= WindowLimit
      /\ v.slept + v.left <= x + each
      /\ Len(q) = 0 \/ q[Len(q)] > WindowLength \/ v.slept <= x + q[Len(q)]
      /\ WindowLimit - Len(q) < v.n
  BY DEF WindowWaiter
<1> HIDE DEF q, each
<1>5. x \in Nat
  BY <1>1, <1>3
<1> HIDE DEF x
<1>6. Len(q) # 0 /\ Len(q) \in 1 .. Len(q)
  BY <1>1, <1>2, <1>3, <1>4
<1>7. q[Len(q)] \in Nat /\ q[Len(q)] <= WindowLength
  BY <1>2, <1>6
<1>8. v.slept <= x + q[Len(q)] /\ v.slept <= x + WindowLength
  <2> DEFINE z == q[Len(q)]
  <2>1. z \in Nat /\ z <= WindowLength
    BY <1>7
  <2>2. z > WindowLength \/ v.slept <= x + z
    BY <1>4, <1>6
  <2> HIDE DEF z
  <2>3. v.slept <= x + z /\ v.slept <= x + WindowLength
    BY <1>1, <1>3, <1>5, <2>1, <2>2
  <2> QED
    BY <2>3 DEF z
<1> QED
  BY <1>4, <1>8 DEF WindowWaiter, q, x, each

\* The window is asked for its first request, which came before the last.
LEMMA WindowSleeper ==
    ASSUME NEW w \in Windows, Orderly(w), NEW v, WindowWaiter(v, w), v.pc \in {"calculate", "first"},
           NEW u, u.pc \notin {"calculate", "first"}, u.n = v.n, u.slept = v.slept, u.lost = v.lost,
           u.left = 0 \/ (w.requests # <<>> /\ u.left = WindowWait(w))
    PROVE  WindowWaiter(u, w)
<1> DEFINE q == w.requests
           each == WindowLength + 1
           x == v.lost * each
<1>1. v.n \in Nat /\ v.left \in Nat /\ v.slept \in Nat /\ v.lost \in Nat
  BY DEF WindowWaiter, Numbers
<1>2. /\ q \in Seq(Ages) /\ Len(q) \in Nat /\ \A i \in 1 .. Len(q) : q[i] \in Nat
      /\ q = <<>> <=> Len(q) = 0
  BY RequestsType
<1>3. each = WindowLength + 1 /\ WindowLength \in Nat
  BY WindowType
<1>4. /\ v.n <= WindowLimit
      /\ Len(q) = 0 \/ q[Len(q)] > WindowLength \/ v.slept <= x + q[Len(q)]
      /\ v.slept <= x + WindowLength
  BY DEF WindowWaiter
<1>5. \A i, j \in 1 .. Len(q) : i <= j => q[j] <= q[i]
  BY DEF Orderly
<1>6. WindowWait(w) = LET left == WindowLength - Head(q) IN IF left < 0 THEN 1 ELSE left
  BY DEF WindowWait
<1> HIDE DEF q, each
<1>7. x \in Nat
  BY <1>1, <1>3
<1> HIDE DEF x
<1>8. u.left \in Nat /\ u.slept + u.left <= x + each
  <2>1. CASE u.left = 0
    BY <1>1, <1>3, <1>4, <1>7, <2>1
  <2>2. CASE q # <<>> /\ u.left = WindowWait(w)
    <3>1. Head(q) = q[1] /\ 1 \in 1 .. Len(q) /\ Len(q) \in 1 .. Len(q) /\ 1 <= Len(q)
      BY <1>2, <2>2, HeadTailProperties
    <3> DEFINE h == q[1]  z == q[Len(q)]
    <3>2. h \in Nat /\ z \in Nat /\ z <= h
      BY <1>2, <1>5, <3>1
    <3>3. z > WindowLength \/ v.slept <= x + z
      BY <1>4, <3>1
    <3>4. u.left = IF WindowLength - h < 0 THEN 1 ELSE WindowLength - h
      BY <1>6, <2>2, <3>1
    <3> HIDE DEF h, z
    <3>5. CASE WindowLength - h < 0
      BY <1>1, <1>3, <1>4, <1>7, <3>4, <3>5
    <3>6. CASE ~(WindowLength - h < 0)
      BY <1>1, <1>3, <1>7, <3>2, <3>3, <3>4, <3>6
    <3> QED
      BY <3>5, <3>6
  <2> QED
    BY <2>1, <2>2 DEF q
<1>9. Numbers(u)
  BY <1>1, <1>8 DEF Numbers
<1> QED
  BY <1>4, <1>8, <1>9 DEF WindowWaiter, q, x, each

LEMMA OlderWaiter ==
    ASSUME NEW w \in Windows, NEW v, WindowWaiter(v, w),
           NEW u, Numbers(u), u.pc = v.pc, u.n = v.n, u.lost = v.lost,
           \/ u.slept = v.slept /\ u.left = v.left
           \/ v.pc \notin {"calculate", "first"} /\ u.slept <= v.slept + 1 /\ u.left = v.left - 1
    PROVE  WindowWaiter(u, Aged(w))
<1> DEFINE q == w.requests  s == Aged(w).requests
           each == WindowLength + 1
           x == v.lost * each
<1>1. /\ v.n \in Nat /\ v.left \in Nat /\ v.slept \in Nat /\ v.lost \in Nat
      /\ u.left \in Nat /\ u.slept \in Nat
  BY DEF WindowWaiter, Numbers
<1>2. /\ Len(q) \in Nat /\ Len(s) = Len(q) /\ \A i \in 1 .. Len(q) : q[i] \in Nat
      /\ \A i \in 1 .. Len(q) : s[i] = Least(q[i] + 1, WindowLength + 1)
  BY OlderFields, RequestsType
<1>3. each \in Nat /\ WindowLength \in Nat
  BY WindowType
<1>4. /\ v.n <= WindowLimit
      /\ v.slept + v.left <= x + each
      /\ Len(q) = 0 \/ q[Len(q)] > WindowLength \/ v.slept <= x + q[Len(q)]
      /\ v.pc \in {"calculate", "first"} => v.slept <= x + WindowLength
  BY DEF WindowWaiter
<1> HIDE DEF q, s, each
<1>5. x \in Nat
  BY <1>1, <1>3
<1> HIDE DEF x
<1>6. u.slept <= v.slept + 1 /\ u.slept + u.left <= v.slept + v.left
  BY <1>1
<1>7. u.slept + u.left <= x + each
  <2>1. v.slept + v.left <= x + each
    BY <1>4
  <2> QED
    BY <1>1, <1>3, <1>5, <1>6, <2>1
<1>8. Len(s) = 0 \/ s[Len(s)] > WindowLength \/ u.slept <= x + s[Len(s)]
  <2> SUFFICES ASSUME Len(q) # 0
               PROVE  s[Len(s)] > WindowLength \/ u.slept <= x + s[Len(s)]
    BY <1>2
  <2> DEFINE z == q[Len(q)]  y == s[Len(s)]
  <2>1. Len(q) \in 1 .. Len(q)
    BY <1>2
  <2>2. z \in Nat /\ y = Least(z + 1, WindowLength + 1)
    BY <1>2, <2>1
  <2>3. z > WindowLength \/ v.slept <= x + z
    BY <1>4
  <2> HIDE DEF z, y
  <2>4. y > WindowLength \/ (y = z + 1 /\ z <= WindowLength)
    BY <1>3, <2>2 DEF Least
  <2>5. u.slept <= v.slept + 1
    BY <1>6
  <2>6. ASSUME y = z + 1, z <= WindowLength PROVE u.slept <= x + y
    <3> DEFINE a == u.slept  b == v.slept
    <3>1. a \in Nat /\ b \in Nat /\ a <= b + 1 /\ b <= x + z
      BY <1>1, <1>3, <2>2, <2>3, <2>5, <2>6
    <3> HIDE DEF a, b
    <3>2. a <= x + y
      BY <1>5, <2>2, <2>6, <3>1
    <3> QED
      BY <3>2 DEF a
  <2> QED
    BY <2>4, <2>6 DEF y
<1>9. u.pc \in {"calculate", "first"} => u.slept <= x + WindowLength
  BY <1>4
<1> QED
  BY <1>4, <1>7, <1>8, <1>9 DEF WindowWaiter, s, x, each

LEMMA KeptAtWindow ==
    ASSUME NEW w, NEW v, WindowWaiter(v, w),
           NEW u, u.n = v.n, u.left = v.left, u.slept = v.slept, u.lost = v.lost,
           u.pc \notin {"calculate", "first"} \/ v.pc \in {"calculate", "first"}
    PROVE  WindowWaiter(u, w)
BY DEF WindowWaiter, Numbers

LEMMA NewAtWindow ==
    ASSUME NEW w \in Windows, NEW u, u.pc \notin {"calculate", "first"}, u.n \in Nat,
           u.n <= WindowLimit, u.left = 0, u.slept = 0, u.lost = 0
    PROVE  WindowWaiter(u, w)
<1> DEFINE q == w.requests  each == WindowLength + 1
<1>1. /\ Len(q) \in Nat /\ \A i \in 1 .. Len(q) : q[i] \in Nat
  BY RequestsType
<1>2. each \in Nat
  BY WindowType
<1> HIDE DEF q, each
<1>3. u.lost * each = 0
  <2>1. 0 * each = 0
    BY <1>2
  <2> QED
    BY <2>1
<1>4. Len(q) = 0 \/ q[Len(q)] \in Nat
  <2> DEFINE n == Len(q)
  <2>1. n \in Nat /\ \A i \in 1 .. n : q[i] \in Nat
    BY <1>1
  <2> HIDE DEF n
  <2>2. n = 0 \/ q[n] \in Nat
    BY <2>1
  <2> QED
    BY <2>2 DEF n
<1>5. Len(q) = 0 \/ u.slept <= u.lost * each + q[Len(q)]
  BY <1>3, <1>4
<1>6. u.slept + u.left <= u.lost * each + each /\ Numbers(u)
  BY <1>2, <1>3 DEF Numbers
<1> QED
  BY <1>5, <1>6 DEF WindowWaiter, q, each
-----------------------------------------------------------------------------
(* Limiters of every kind.                                                  *)

Adaptives == [kind : {"adaptive"}, rate : Int, base : Nat, since : Nat]
Limiters == TokenBuckets \cup Windows \cup Adaptives

\* a bucket, in the wider sense, that keeps its books
Sound(b) == (b \in TokenBuckets /\ Accounts(b)) \/ (b \in Windows /\ Orderly(b))

\* AllowN has just looked
Fresh(b) == IF b.kind = "token_bucket" THEN TokensIn(b, b.elapsed) = 0
            ELSE \A i \in 1 .. Len(b.requests) : b.requests[i] <= WindowLength

Waiter(v, b) == IF b.kind = "token_bucket" THEN BucketWaiter(v, b) ELSE WindowWaiter(v, b)

LEMMA KindsApart ==
    /\ \A b \in TokenBuckets : b.kind = "token_bucket"
    /\ \A b \in Windows : b.kind = "sliding_window" /\ b.burst = WindowLimit
    /\ \A b \in Adaptives : b.kind = "adaptive"
BY DEF TokenBuckets, Windows, Adaptives

LEMMA CurrentSound ==
    ASSUME NEW b, Sound(b)
    PROVE  /\ Sound(Current(b)) /\ Fresh(Current(b)) /\ Current(b).kind = b.kind
           /\ \A v : Waiter(v, b) => Waiter(v, Current(b))
<1>1. CASE b \in TokenBuckets /\ Accounts(b)
  <2>1. b.kind = "token_bucket" /\ Current(b) = Refilled(b)
    BY <1>1, KindsApart DEF Current
  <2>2. /\ Refilled(b) \in TokenBuckets /\ Refilled(b).kind = b.kind
        /\ TokensIn(Refilled(b), Refilled(b).elapsed) = 0 /\ Accounts(Refilled(b))
    BY <1>1, RefilledFields, RefilledAccounts
  <2>3. \A v : BucketWaiter(v, b) => BucketWaiter(v, Refilled(b))
    BY <1>1, RefilledWaiter
  <2> QED
    BY <2>1, <2>2, <2>3 DEF Sound, Fresh, Waiter
<1>2. CASE b \in Windows /\ Orderly(b)
  <2>1. b.kind = "sliding_window" /\ Current(b) = Cleaned(b)
    BY <1>2, KindsApart DEF Current
  <2>2. /\ Cleaned(b) \in Windows /\ Cleaned(b).kind = b.kind /\ Orderly(Cleaned(b))
        /\ \A i \in 1 .. Len(Cleaned(b).requests) : Cleaned(b).requests[i] <= WindowLength
    BY <1>2, CleanedFields, CleanedOrderly
  <2>3. \A v : WindowWaiter(v, b) => WindowWaiter(v, Cleaned(b))
    BY <1>2, CleanedWaiter
  <2> QED
    BY <2>1, <2>2, <2>3 DEF Sound, Fresh, Waiter
<1> QED
  BY <1>1, <1>2 DEF Sound

LEMMA TakenSound ==
    ASSUME NEW b, Sound(b), Fresh(b), NEW n \in Nat, Room(b) >= n
    PROVE  /\ Sound(Taken(b, n)) /\ Taken(b, n).kind = b.kind
           /\ \A v, u : /\ Waiter(v, b)
                        /\ u.pc = v.pc /\ u.n = v.n /\ u.left = v.left /\ u.slept = v.slept
                        /\ u.lost = v.lost + n
                        => Waiter(u, Taken(b, n))
<1>1. CASE b \in TokenBuckets /\ Accounts(b)
  <2>1. b.kind = "token_bucket" /\ Room(b) = b.tokens /\ TokensIn(b, b.elapsed) = 0
    BY <1>1, KindsApart DEF Room, Fresh
  <2>2. b.tokens \in Nat /\ n <= b.tokens
    BY <1>1, <2>1 DEF TokenBuckets
  <2>3. Taken(b, n) \in TokenBuckets /\ Taken(b, n).kind = b.kind /\ Accounts(Taken(b, n))
    BY <1>1, <2>1, <2>2, TakenFields, TakenAccounts
  <2>4. ASSUME NEW v, NEW u, BucketWaiter(v, b), u.pc = v.pc, u.n = v.n, u.left = v.left,
               u.slept = v.slept, u.lost = v.lost + n
        PROVE  BucketWaiter(u, Taken(b, n))
    BY <1>1, <2>2, <2>4, TakenWaiter
  <2> QED
    BY <2>1, <2>3, <2>4 DEF Sound, Waiter
<1>2. CASE b \in Windows /\ Orderly(b)
  <2>1. b.kind = "sliding_window" /\ Room(b) = WindowLimit - Len(b.requests)
    BY <1>2, KindsApart DEF Room
  <2>2. Len(b.requests) \in Nat /\ WindowLimit \in Nat
    BY <1>2, RequestsType, WindowType
  <2>3. Len(b.requests) + n <= WindowLimit
    BY <2>1, <2>2
  <2>4. Taken(b, n) \in Windows /\ Taken(b, n).kind = b.kind /\ Orderly(Taken(b, n))
    BY <1>2, <2>3, AdmittedFields, AdmittedOrderly
  <2>5. ASSUME NEW v, NEW u, WindowWaiter(v, b), u.pc = v.pc, u.n = v.n, u.left = v.left,
               u.slept = v.slept, u.lost = v.lost + n
        PROVE  WindowWaiter(u, Taken(b, n))
    BY <1>2, <2>5, AdmittedWaiter
  <2> QED
    BY <2>1, <2>4, <2>5 DEF Sound, Waiter
<1> QED
  BY <1>1, <1>2 DEF Sound

LEMMA RefusedSound ==
    ASSUME NEW b, Sound(b), Fresh(b), NEW v, Waiter(v, b), ~(Room(b) >= v.n),
           NEW u, u.n = v.n, u.left = v.left, u.slept = v.slept, u.lost = v.lost
    PROVE  Waiter(u, b)
<1>1. CASE b \in TokenBuckets /\ Accounts(b)
  <2>1. b.kind = "token_bucket" /\ Room(b) = b.tokens /\ TokensIn(b, b.elapsed) = 0
    BY <1>1, KindsApart DEF Room, Fresh
  <2>2. BucketWaiter(v, b) /\ Numbers(v) /\ Numbers(u)
    BY <2>1 DEF Waiter, BucketWaiter, Numbers
  <2>3. b.tokens < v.n
    BY <1>1, <2>1, <2>2 DEF TokenBuckets, Numbers
  <2>4. BucketWaiter(u, b)
    BY <1>1, <2>1, <2>2, <2>3, RefusedWaiter
  <2> QED
    BY <2>1, <2>4 DEF Waiter
<1>2. CASE b \in Windows /\ Orderly(b)
  <2>1. b.kind = "sliding_window" /\ Room(b) = WindowLimit - Len(b.requests)
    BY <1>2, KindsApart DEF Room
  <2>2. \A i \in 1 .. Len(b.requests) : b.requests[i] <= WindowLength
    BY <2>1 DEF Fresh
  <2>3. WindowWaiter(v, b) /\ Numbers(v) /\ Numbers(u)
    BY <2>1 DEF Waiter, WindowWaiter, Numbers
  <2>4. WindowLimit - Len(b.requests) < v.n
    BY <1>2, <2>1, <2>3, RequestsType, WindowType DEF Numbers
  <2>5. WindowWaiter(u, b)
    BY <1>2, <2>2, <2>3, <2>4, RejectedWaiter
  <2> QED
    BY <2>1, <2>5 DEF Waiter
<1> QED
  BY <1>1, <1>2 DEF Sound

LEMMA AgedSound ==
    ASSUME NEW b, Sound(b)
    PROVE  /\ Sound(Aged(b)) /\ Aged(b).kind = b.kind
           /\ \A v, u : /\ Waiter(v, b) /\ Numbers(u)
                        /\ u.pc = v.pc /\ u.n = v.n /\ u.lost = v.lost
                        /\ \/ u.slept = v.slept /\ u.left = v.left
                           \/ v.pc = "asleep" /\ u.slept <= v.slept + 1 /\ u.left = v.left - 1
                        => Waiter(u, Aged(b))
<1>1. CASE b \in TokenBuckets /\ Accounts(b)
  <2>1. b.kind = "token_bucket"
    BY <1>1, KindsApart
  <2>2. Aged(b) \in TokenBuckets /\ Aged(b).kind = b.kind /\ Accounts(Aged(b))
    BY <1>1, AgedFields, AgedAccounts
  <2>3. ASSUME NEW v, NEW u, BucketWaiter(v, b), Numbers(u), u.pc = v.pc, u.n = v.n,
               u.lost = v.lost,
               \/ u.slept = v.slept /\ u.left = v.left
               \/ v.pc = "asleep" /\ u.slept <= v.slept + 1 /\ u.left = v.left - 1
        PROVE  BucketWaiter(u, Aged(b))
    <3>1. v.pc = "asleep" => v.pc # "calculate"
      OBVIOUS
    <3> QED
      BY <1>1, <2>3, <3>1, AgedWaiter
  <2> QED
    BY <2>1, <2>2, <2>3 DEF Sound, Waiter
<1>2. CASE b \in Windows /\ Orderly(b)
  <2>1. b.kind = "sliding_window"
    BY <1>2, KindsApart
  <2>2. Aged(b) \in Windows /\ Aged(b).kind = b.kind /\ Orderly(Aged(b))
    BY <1>2, OlderFields, OlderOrderly
  <2>3. ASSUME NEW v, NEW u, WindowWaiter(v, b), Numbers(u), u.pc = v.pc, u.n = v.n,
               u.lost = v.lost,
               \/ u.slept = v.slept /\ u.left = v.left
               \/ v.pc = "asleep" /\ u.slept <= v.slept + 1 /\ u.left = v.left - 1
        PROVE  WindowWaiter(u, Aged(b))
    <3>1. v.pc = "asleep" => v.pc \notin {"calculate", "first"}
      OBVIOUS
    <3> QED
      BY <1>2, <2>3, <3>1, OlderWaiter
  <2> QED
    BY <2>1, <2>2, <2>3 DEF Sound, Waiter
<1> QED
  BY <1>1, <1>2 DEF Sound

LEMMA PeekedSound ==
    ASSUME NEW b, Sound(b), NEW c \in Callers
    PROVE  b.kind = "token_bucket" =>
              LET a == [b EXCEPT !.readers = b.readers \cup {c}]
              IN  Sound(a) /\ a.kind = b.kind /\ \A v : Waiter(v, b) => Waiter(v, a)
<1> SUFFICES ASSUME b.kind = "token_bucket"
             PROVE  LET a == [b EXCEPT !.readers = b.readers \cup {c}]
                    IN  Sound(a) /\ a.kind = b.kind /\ \A v : Waiter(v, b) => Waiter(v, a)
  OBVIOUS
<1> DEFINE a == [b EXCEPT !.readers = b.readers \cup {c}]
<1>1. b \in TokenBuckets /\ Accounts(b)
  BY KindsApart DEF Sound
<1>2. b.readers \cup {c} \in SUBSET Callers
  BY <1>1 DEF TokenBuckets
<1>3. /\ a \in TokenBuckets /\ a.kind = b.kind /\ a.rate = b.rate /\ a.burst = b.burst
      /\ a.tokens = b.tokens /\ a.elapsed = b.elapsed /\ a.granted = b.granted
  BY <1>1, <1>2 DEF TokenBuckets
<1> HIDE DEF a
<1>4. FullAfter(a) = FullAfter(b) /\ \A t : TokensIn(a, t) = TokensIn(b, t)
  BY <1>1, <1>3, SameRate
<1>5. \A t : Passed(a, t) = Passed(b, t)
  BY <1>3 DEF Passed
<1>6. Accounts(a)
  BY <1>1, <1>3, <1>4, <1>5 DEF Accounts
<1>7. \A v : BucketWaiter(v, b) => BucketWaiter(v, a)
  BY <1>3, <1>4 DEF BucketWaiter
<1> QED
  BY <1>3, <1>6, <1>7 DEF Sound, Waiter, a
-----------------------------------------------------------------------------
(* The limiters and their callers.                                          *)

Waiting == {"ask", "calculate", "first", "asleep"}
Places == Nat \cup {None}
Records == [pc : {"idle", "create", "stuck", "panic"} \cup Waiting, limiter : Places,
            want : Kinds \cup {None}, bucket : Places, n : Nat, left : Nat, slept : Nat, lost : Nat]

\* every limiter keeps its books, and an adaptive one has a bucket
Placed(L) ==
    /\ L \in Seq(Limiters)
    /\ \A l \in DOMAIN L :
          IF L[l].kind = "adaptive"
          THEN /\ L[l] \in Adaptives
               /\ L[l].base \in DOMAIN L /\ L[L[l].base].kind = "token_bucket"
          ELSE Sound(L[l])

\* a caller holds a limiter that was made, and waits at a bucket that knows why
Fine(r, L) ==
    /\ r \in Records
    /\ r.limiter \in {None} \cup DOMAIN L
    /\ r.pc = "create" => r.want \in Kinds
    /\ r.pc \in Waiting =>
          /\ r.bucket \in DOMAIN L
          /\ L[r.bucket].kind # "adaptive"
          /\ Waiter(r, L[r.bucket])
    /\ r.pc = "first" => L[r.bucket].kind = "sliding_window"

KeepInv ==
    /\ Placed(limiters)
    /\ caller \in [Callers -> Records]
    /\ \A c \in Callers : Fine(caller[c], limiters)
    /\ registered \in {None} \cup DOMAIN limiters

LEMMA PlacedType ==
    ASSUME NEW L, Placed(L)
    PROVE  /\ Len(L) \in Nat /\ DOMAIN L = 1 .. Len(L)
           /\ \A l \in DOMAIN L : L[l] \in Limiters /\ l \in Nat \ {0}
<1>1. L \in Seq(Limiters)
  BY DEF Placed
<1>2. Len(L) \in Nat /\ DOMAIN L = 1 .. Len(L) /\ \A l \in 1 .. Len(L) : L[l] \in Limiters
  BY <1>1, LenProperties, ElementOfSeq
<1> QED
  BY <1>2

\* a bucket after a step of its own
LEMMA Replaced ==
    ASSUME NEW L, Placed(L), NEW l \in DOMAIN L, L[l].kind # "adaptive",
           NEW b, Sound(b), b.kind = L[l].kind
    PROVE  LET M == [L EXCEPT ![l] = b]
           IN  /\ Placed(M) /\ DOMAIN M = DOMAIN L /\ M[l] = b
               /\ \A k \in DOMAIN L : M[k].kind = L[k].kind /\ (k # l => M[k] = L[k])
<1> DEFINE M == [L EXCEPT ![l] = b]
<1>1. L \in Seq(Limiters) /\ b \in Limiters
  BY DEF Placed, Sound, Limiters
<1>2. M \in Seq(Limiters) /\ DOMAIN M = DOMAIN L
  BY <1>1, ExceptSeq
<1>3. M[l] = b /\ \A k \in DOMAIN L : k # l => M[k] = L[k]
  BY <1>1, <1>2
<1> HIDE DEF M
<1>4. \A k \in DOMAIN L : M[k].kind = L[k].kind
  BY <1>3
<1>5. ASSUME NEW k \in DOMAIN M
      PROVE  IF M[k].kind = "adaptive"
             THEN /\ M[k] \in Adaptives
                  /\ M[k].base \in DOMAIN M /\ M[M[k].base].kind = "token_bucket"
             ELSE Sound(M[k])
  <2>1. CASE k = l
    BY <1>3, <2>1
  <2>2. CASE k # l
    <3>1. M[k] = L[k] /\ k \in DOMAIN L
      BY <1>2, <1>3, <2>2
    <3>2. IF L[k].kind = "adaptive"
          THEN /\ L[k] \in Adaptives
               /\ L[k].base \in DOMAIN L /\ L[L[k].base].kind = "token_bucket"
          ELSE Sound(L[k])
      BY <3>1 DEF Placed
    <3> QED
      BY <1>2, <1>4, <3>1, <3>2
  <2> QED
    BY <2>1, <2>2
<1> QED
  BY <1>2, <1>3, <1>4, <1>5 DEF Placed, M

\* who is content with the limiters after a step that leaves its bucket alone,
\* or does it right
LEMMA StaysFine ==
    ASSUME NEW r, NEW L, NEW M, Fine(r, L), DOMAIN L \subseteq DOMAIN M,
           r.pc \in Waiting => M[r.bucket].kind = L[r.bucket].kind /\ Waiter(r, M[r.bucket])
    PROVE  Fine(r, M)
<1>1. r.pc = "first" => r.pc \in Waiting
  BY DEF Waiting
<1> QED
  BY <1>1 DEF Fine

\* AllowN, for itself or for WaitN
LEMMA AttemptSound ==
    ASSUME KeepInv, NEW c \in Callers, NEW l \in DOMAIN limiters, limiters[l].kind # "adaptive",
           NEW n \in Nat,
           NEW granted, Fine(granted, limiters), granted.pc \notin Waiting,
           NEW refused,
           \/ Fine(refused, limiters) /\ refused.pc \notin Waiting
           \/ /\ At(c, "ask") /\ caller[c].bucket = l /\ caller[c].n = n
              /\ refused = [caller[c] EXCEPT !.pc = "calculate"],
           Attempt(c, l, n, granted, refused), UNCHANGED registered
    PROVE  KeepInv'
<1> DEFINE b == Current(limiters[l])
<1>1. /\ Placed(limiters) /\ caller \in [Callers -> Records]
      /\ \A d \in Callers : Fine(caller[d], limiters)
      /\ registered \in {None} \cup DOMAIN limiters
  BY DEF KeepInv
<1>2. Sound(limiters[l])
  BY <1>1 DEF Placed
<1>3. /\ Sound(b) /\ Fresh(b) /\ b.kind = limiters[l].kind
      /\ \A v : Waiter(v, limiters[l]) => Waiter(v, b)
  BY <1>2, CurrentSound
<1>4. IF Room(b) >= n
      THEN /\ limiters' = [limiters EXCEPT ![l] = Taken(b, n)]
           /\ caller' = Losing([caller EXCEPT ![c] = granted], c, l, n)
      ELSE /\ limiters' = [limiters EXCEPT ![l] = b]
           /\ Set(c, refused)
  BY DEF Attempt
<1> HIDE DEF b
<1>5. CASE Room(b) >= n
  <2> DEFINE a == Taken(b, n)
             f == [caller EXCEPT ![c] = granted]
  <2>1. /\ Sound(a) /\ a.kind = limiters[l].kind
        /\ \A v, u : /\ Waiter(v, b)
                     /\ u.pc = v.pc /\ u.n = v.n /\ u.left = v.left /\ u.slept = v.slept
                     /\ u.lost = v.lost + n
                     => Waiter(u, a)
    BY <1>3, <1>5, TakenSound
  <2>2. limiters' = [limiters EXCEPT ![l] = a] /\ caller' = Losing(f, c, l, n)
    BY <1>4, <1>5
  <2> HIDE DEF a
  <2>3. /\ Placed(limiters') /\ DOMAIN limiters' = DOMAIN limiters /\ limiters'[l] = a
        /\ \A k \in DOMAIN limiters :
              limiters'[k].kind = limiters[k].kind /\ (k # l => limiters'[k] = limiters[k])
    BY <1>1, <2>1, <2>2, Replaced
  <2>4. f[c] = granted /\ \A d \in Callers : d # c => f[d] = caller[d]
    BY <1>1
  <2>5. caller' = [d \in Callers |-> IF d # c /\ Waits(d) /\ caller[d].bucket = l
                                     THEN [f[d] EXCEPT !.lost = f[d].lost + n] ELSE f[d]]
    BY <2>2 DEF Losing
  <2> HIDE DEF f
  <2>6. ASSUME NEW d \in Callers
        PROVE  caller'[d] \in Records /\ Fine(caller'[d], limiters')
    <3>1. CASE d = c
      <4>1. caller'[d] = granted
        BY <2>4, <2>5, <3>1
      <4>2. Fine(granted, limiters')
        BY <2>3, StaysFine
      <4> QED
        BY <4>1, <4>2 DEF Fine
    <3>2. CASE d # c /\ Waits(d) /\ caller[d].bucket = l
      <4> DEFINE v == caller[d]
                 u == [v EXCEPT !.lost = v.lost + n]
      <4>1. caller'[d] = u
        BY <2>4, <2>5, <3>2
      <4>2. v \in Records /\ Fine(v, limiters) /\ v.pc \in Waiting /\ v.bucket = l
        BY <1>1, <3>2 DEF Waits, Waiting
      <4>3. v.lost + n \in Nat
        BY <4>2 DEF Records
      <4>4. /\ u \in Records /\ u.pc = v.pc /\ u.limiter = v.limiter /\ u.want = v.want
            /\ u.bucket = v.bucket /\ u.n = v.n /\ u.left = v.left /\ u.slept = v.slept
            /\ u.lost = v.lost + n
        BY <4>2, <4>3 DEF Records
      <4> HIDE DEF v, u
      <4>5. Waiter(v, b)
        BY <1>3, <4>2 DEF Fine
      <4>6. Waiter(u, a)
        BY <2>1, <4>4, <4>5
      <4>7. Fine(u, limiters')
        BY <2>3, <4>2, <4>4, <4>6 DEF Fine
      <4> QED
        BY <4>1, <4>4, <4>7
    <3>3. CASE d # c /\ ~(Waits(d) /\ caller[d].bucket = l)
      <4>1. caller'[d] = caller[d] /\ Fine(caller[d], limiters)
        BY <1>1, <2>4, <2>5, <3>3
      <4>2. caller[d].pc \in Waiting => caller[d].bucket \in DOMAIN limiters /\ caller[d].bucket # l
                                         /\ Waiter(caller[d], limiters[caller[d].bucket])
        BY <3>3, <4>1 DEF Fine, Waits, Waiting
      <4>3. Fine(caller[d], limiters')
        BY <2>3, <4>1, <4>2, StaysFine
      <4> QED
        BY <4>1, <4>3 DEF Fine
    <3> QED
      BY <3>1, <3>2, <3>3
  <2>7. caller' \in [Callers -> Records]
    BY <2>5, <2>6
  <2> QED
    BY <1>1, <2>3, <2>6, <2>7 DEF KeepInv
<1>6. CASE ~(Room(b) >= n)
  <2>1. limiters' = [limiters EXCEPT ![l] = b] /\ caller' = [caller EXCEPT ![c] = refused]
    BY <1>4, <1>6 DEF Set
  <2>2. /\ Placed(limiters') /\ DOMAIN limiters' = DOMAIN limiters /\ limiters'[l] = b
        /\ \A k \in DOMAIN limiters :
              limiters'[k].kind = limiters[k].kind /\ (k # l => limiters'[k] = limiters[k])
    BY <1>1, <1>3, <2>1, Replaced
  <2>3. ASSUME NEW d \in Callers PROVE Fine(caller[d], limiters')
    <3>1. Fine(caller[d], limiters)
      BY <1>1
    <3>2. caller[d].pc \in Waiting =>
             Waiter(caller[d], limiters'[caller[d].bucket]) /\ caller[d].bucket \in DOMAIN limiters
      BY <1>3, <2>2, <3>1 DEF Fine
    <3> QED
      BY <2>2, <3>1, <3>2, StaysFine
  <2>4. Fine(refused, limiters')
    <3>1. CASE Fine(refused, limiters) /\ refused.pc \notin Waiting
      BY <2>2, <3>1, StaysFine
    <3>2. CASE /\ At(c, "ask") /\ caller[c].bucket = l /\ caller[c].n = n
               /\ refused = [caller[c] EXCEPT !.pc = "calculate"]
      <4> DEFINE v == caller[c]
      <4>1. v \in Records /\ Fine(v, limiters') /\ v.pc = "ask" /\ v.bucket = l /\ v.n = n
        BY <1>1, <2>3, <3>2 DEF At
      <4>2. refused = [v EXCEPT !.pc = "calculate"]
        BY <3>2
      <4> HIDE DEF v
      <4>3. /\ refused \in Records /\ refused.pc = "calculate" /\ refused.limiter = v.limiter
            /\ refused.want = v.want /\ refused.bucket = v.bucket /\ refused.n = v.n
            /\ refused.left = v.left /\ refused.slept = v.slept /\ refused.lost = v.lost
        BY <4>1, <4>2 DEF Records, Waiting
      <4>4. Waiter(v, b)
        BY <2>2, <4>1 DEF Fine, Waiting
      <4>5. Waiter(refused, b)
        BY <1>3, <1>6, <4>1, <4>3, <4>4, RefusedSound
      <4> QED
        BY <2>2, <4>1, <4>3, <4>5 DEF Fine, Waiting
    <3> QED
      BY <3>1, <3>2
  <2>5. caller' \in [Callers -> Records] /\ \A d \in Callers : Fine(caller'[d], limiters')
    <3>1. refused \in Records
      BY <2>4 DEF Fine
    <3>2. \A d \in Callers : caller'[d] = IF d = c THEN refused ELSE caller[d]
      BY <1>1, <2>1
    <3> QED
      BY <1>1, <2>1, <2>3, <2>4, <3>1, <3>2
  <2> QED
    BY <1>1, <2>2, <2>5 DEF KeepInv
<1> QED
  BY <1>5, <1>6
\* a step that leaves the buckets alone
Extended ==
    /\ Placed(limiters')
    /\ DOMAIN limiters \subseteq DOMAIN limiters'
    /\ \A k \in DOMAIN limiters : limiters[k].kind # "adaptive" => limiters'[k] = limiters[k]

LEMMA OthersFine ==
    ASSUME KeepInv, Extended, NEW d \in Callers
    PROVE  Fine(caller[d], limiters')
<1>1. Fine(caller[d], limiters)
  BY DEF KeepInv
<1>2. caller[d].pc \in Waiting =>
         /\ limiters'[caller[d].bucket] = limiters[caller[d].bucket]
         /\ Waiter(caller[d], limiters[caller[d].bucket])
  BY <1>1 DEF Fine, Extended
<1> QED
  BY <1>1, <1>2, StaysFine DEF Extended

LEMMA CallersStay ==
    ASSUME KeepInv, Extended, registered' \in {None} \cup DOMAIN limiters', UNCHANGED caller
    PROVE  KeepInv'
BY OthersFine DEF KeepInv, Extended

LEMMA CallerSteps ==
    ASSUME KeepInv, Extended, registered' \in {None} \cup DOMAIN limiters',
           NEW c \in Callers, NEW r, Set(c, r), Fine(r, limiters')
    PROVE  KeepInv'
<1>1. caller \in [Callers -> Records] /\ r \in Records
  BY DEF KeepInv, Fine
<1>2. /\ caller' \in [Callers -> Records]
      /\ \A d \in Callers : caller'[d] = IF d = c THEN r ELSE caller[d]
  BY <1>1 DEF Set
<1>3. \A d \in Callers : Fine(caller'[d], limiters')
  BY <1>2, OthersFine
<1> QED
  BY <1>2, <1>3 DEF KeepInv, Extended

LEMMA SameLimiters ==
    ASSUME KeepInv, UNCHANGED limiters
    PROVE  Extended
BY DEF KeepInv, Extended

\* what a call returns with, and what it calls
LEMMA ReturnsFine ==
    ASSUME KeepInv, NEW c \in Callers
    PROVE  /\ Fine(Returned(c), limiters) /\ Returned(c).pc = "idle"
           /\ Returned(c).limiter = caller[c].limiter
           /\ Returned(c).n = 0 /\ Returned(c).left = 0 /\ Returned(c).slept = 0 /\ Returned(c).lost = 0
<1> DEFINE r == Returned(c)
<1>1. Fine(caller[c], limiters) /\ caller[c] \in Records
  BY DEF KeepInv, Fine
<1>2. caller[c].limiter \in Places
  BY <1>1 DEF Records
<1>3. Idle \in Records /\ r = [Idle EXCEPT !.limiter = caller[c].limiter]
  BY DEF Idle, Records, Places, Returned
<1> HIDE DEF r
<1>4. /\ r \in Records /\ r.limiter = caller[c].limiter /\ r.pc = "idle"
      /\ r.n = 0 /\ r.left = 0 /\ r.slept = 0 /\ r.lost = 0
  BY <1>2, <1>3 DEF Records, Idle
<1>5. Fine(r, limiters)
  BY <1>1, <1>4 DEF Fine, Waiting
<1> QED
  BY <1>4, <1>5 DEF r

LEMMA TargetPlace ==
    ASSUME KeepInv, NEW l \in DOMAIN limiters
    PROVE  /\ Target(l) \in DOMAIN limiters /\ limiters[Target(l)].kind # "adaptive"
           /\ Sound(limiters[Target(l)])
<1>1. Placed(limiters)
  BY DEF KeepInv
<1>2. CASE limiters[l].kind = "adaptive"
  <2>1. /\ Target(l) = limiters[l].base /\ limiters[l].base \in DOMAIN limiters
        /\ limiters[limiters[l].base].kind = "token_bucket"
    BY <1>1, <1>2 DEF Placed, Target
  <2> QED
    BY <1>1, <2>1 DEF Placed
<1>3. CASE limiters[l].kind # "adaptive"
  BY <1>1, <1>3 DEF Placed, Target
<1> QED
  BY <1>2, <1>3

LEMMA SizesType == \A n \in Sizes : n \in Nat
BY RateAssumption

LEMMA AllowNSound ==
    ASSUME KeepInv, NEW c \in Callers, NEW n \in Sizes, AllowN(c, n), UNCHANGED registered
    PROVE  KeepInv'
<1>1. Fine(caller[c], limiters) /\ caller[c].pc = "idle" /\ caller[c].limiter # None
  BY DEF KeepInv, AllowN, Begins, At, Holds
<1>2. caller[c].limiter \in DOMAIN limiters /\ caller[c].pc \notin Waiting
  BY <1>1 DEF Fine, Waiting
<1> DEFINE l == Target(caller[c].limiter)
<1>3. l \in DOMAIN limiters /\ limiters[l].kind # "adaptive"
  BY <1>2, TargetPlace
<1>4. Attempt(c, l, n, caller[c], caller[c]) /\ n \in Nat
  BY SizesType DEF AllowN
<1> HIDE DEF l
<1> QED
  BY <1>1, <1>2, <1>3, <1>4, AttemptSound

LEMMA WaitNSound ==
    ASSUME KeepInv, NEW c \in Callers, NEW n \in Sizes, WaitN(c, n), UNCHANGED registered
    PROVE  KeepInv'
<1>1. Fine(caller[c], limiters) /\ caller[c].limiter # None
  BY DEF KeepInv, WaitN, Holds
<1>2. caller[c].limiter \in DOMAIN limiters
  BY <1>1 DEF Fine
<1> DEFINE l == Target(caller[c].limiter)
           e == Returned(c)
           r == [e EXCEPT !.pc = "ask", !.bucket = l, !.n = n]
           b == limiters[l]
<1>3. l \in DOMAIN limiters /\ b.kind # "adaptive" /\ Sound(b) /\ l \in Nat
  <2>1. Placed(limiters)
    BY DEF KeepInv
  <2>2. l \in DOMAIN limiters /\ b.kind # "adaptive" /\ Sound(b)
    BY <1>2, TargetPlace
  <2> QED
    BY <2>1, <2>2, PlacedType
<1>4. /\ n \in Nat /\ n <= b.burst /\ Set(c, r) /\ UNCHANGED limiters
  BY SizesType DEF WaitN
<1>5. /\ e \in Records /\ e.limiter \in {None} \cup DOMAIN limiters
      /\ e.left = 0 /\ e.slept = 0 /\ e.lost = 0
  BY ReturnsFine DEF Fine
<1> HIDE DEF l, e, b
<1>6. /\ r \in Records /\ r.pc = "ask" /\ r.bucket = l /\ r.n = n /\ r.limiter = e.limiter
      /\ r.left = 0 /\ r.slept = 0 /\ r.lost = 0
  BY <1>3, <1>4, <1>5 DEF Records, Waiting, Places
<1> HIDE DEF r
<1>7. Waiter(r, b)
  <2>1. CASE b \in TokenBuckets
    <3>1. BucketWaiter(r, b)
      BY <1>4, <1>6, <2>1, NewWaiter
    <3> QED
      BY <2>1, <3>1, KindsApart DEF Waiter
  <2>2. CASE b \in Windows
    <3>1. b.burst = WindowLimit /\ b.kind = "sliding_window"
      BY <2>2, KindsApart
    <3>2. WindowWaiter(r, b)
      BY <1>4, <1>6, <2>2, <3>1, NewAtWindow
    <3> QED
      BY <3>1, <3>2 DEF Waiter
  <2> QED
    BY <1>3, <2>1, <2>2 DEF Sound
<1>8. Fine(r, limiters')
  BY <1>3, <1>4, <1>5, <1>6, <1>7 DEF Fine, Waiting, b
<1>9. registered' \in {None} \cup DOMAIN limiters'
  BY <1>4 DEF KeepInv
<1> QED
  BY <1>4, <1>8, <1>9, SameLimiters, CallerSteps

LEMMA AskSound ==
    ASSUME KeepInv, NEW c \in Callers, Ask(c), UNCHANGED registered
    PROVE  KeepInv'
<1>1. Fine(caller[c], limiters) /\ caller[c].pc = "ask" /\ At(c, "ask")
  BY DEF KeepInv, Ask, At
<1> DEFINE l == caller[c].bucket  n == caller[c].n
<1>2. l \in DOMAIN limiters /\ limiters[l].kind # "adaptive" /\ n \in Nat
  BY <1>1 DEF Fine, Waiting, Records
<1>3. Attempt(c, l, n, Returned(c), [caller[c] EXCEPT !.pc = "calculate"])
  BY DEF Ask
<1>4. Fine(Returned(c), limiters) /\ Returned(c).pc \notin Waiting
  BY ReturnsFine DEF Waiting
<1>5. caller[c].bucket = l /\ caller[c].n = n
  OBVIOUS
<1> HIDE DEF l, n
<1> QED
  BY <1>1, <1>2, <1>3, <1>4, <1>5, AttemptSound

\* a record in another place, with other ticks to sleep
Moved(v, pc, left) == [v EXCEPT !.pc = pc, !.left = left]

\* the steps of a waiter that leave all limiters as they are
LEMMA WaiterSteps ==
    ASSUME KeepInv, NEW c \in Callers, NEW pc \in Waiting, caller[c].pc \in Waiting,
           NEW left \in Nat, UNCHANGED <<limiters, registered>>,
           Set(c, Moved(caller[c], pc, left)),
           Waiter(Moved(caller[c], pc, left), limiters[caller[c].bucket]),
           pc = "first" => limiters[caller[c].bucket].kind = "sliding_window"
    PROVE  KeepInv'
<1> DEFINE v == caller[c]
           r == Moved(v, pc, left)
<1>1. v \in Records /\ Fine(v, limiters)
  BY DEF KeepInv, Fine
<1>2. Set(c, r) /\ Waiter(r, limiters[v.bucket])
      /\ (pc = "first" => limiters[v.bucket].kind = "sliding_window") /\ v.pc \in Waiting
  OBVIOUS
<1> HIDE DEF v
<1>3. /\ r \in Records /\ r.pc = pc /\ r.limiter = v.limiter /\ r.bucket = v.bucket
  BY <1>1 DEF Records, Waiting, Moved
<1> HIDE DEF r
<1>4. pc # "create"
  BY DEF Waiting
<1>5. Fine(r, limiters')
  BY <1>1, <1>2, <1>3, <1>4 DEF Fine
<1>6. registered' \in {None} \cup DOMAIN limiters'
  BY DEF KeepInv
<1> QED
  BY <1>2, <1>5, <1>6, SameLimiters, CallerSteps

\* where a waiter is, and its record after a step of that kind
LEMMA WaiterAt ==
    ASSUME KeepInv, NEW c \in Callers, caller[c].pc \in Waiting
    PROVE  LET v == caller[c]
               b == limiters[v.bucket]
           IN  /\ v \in Records /\ Waiter(v, b)
               /\ (b \in TokenBuckets /\ Accounts(b)) \/ (b \in Windows /\ Orderly(b))
               /\ b \in TokenBuckets => b.kind = "token_bucket" /\ BucketWaiter(v, b)
               /\ b \in Windows => b.kind = "sliding_window" /\ WindowWaiter(v, b)
<1> DEFINE v == caller[c]
           b == limiters[v.bucket]
<1>1. v \in Records /\ Fine(v, limiters) /\ Placed(limiters) /\ v.pc \in Waiting
  BY DEF KeepInv, Fine
<1> HIDE DEF v
<1>2. v.bucket \in DOMAIN limiters /\ b.kind # "adaptive" /\ Waiter(v, b)
  BY <1>1 DEF Fine
<1>3. Sound(b)
  BY <1>1, <1>2 DEF Placed
<1>4. (b \in TokenBuckets => b.kind = "token_bucket") /\ (b \in Windows => b.kind = "sliding_window")
  BY KindsApart
<1> HIDE DEF b
<1> QED
  BY <1>1, <1>2, <1>3, <1>4 DEF Sound, Waiter, v, b

LEMMA MovedFields ==
    ASSUME NEW v \in Records, NEW pc, NEW left
    PROVE  /\ Moved(v, pc, left).pc = pc
           /\ Moved(v, pc, left).left = left
           /\ Moved(v, pc, left).n = v.n
           /\ Moved(v, pc, left).slept = v.slept
           /\ Moved(v, pc, left).lost = v.lost
           /\ [v EXCEPT !.pc = pc] = Moved(v, pc, v.left)
           /\ v.left \in Nat /\ v.n \in Nat
BY DEF Records, Moved

LEMMA CalculateSound ==
    ASSUME KeepInv, NEW c \in Callers, Calculate(c), UNCHANGED registered
    PROVE  KeepInv'
<1> DEFINE v == caller[c]
           b == limiters[v.bucket]
<1>1. v.pc = "calculate" /\ v.pc \in Waiting /\ UNCHANGED <<limiters, registered>>
  BY DEF Calculate, At, Waiting
<1>9. /\ v \in Records /\ Waiter(v, b)
      /\ (b \in TokenBuckets /\ Accounts(b)) \/ (b \in Windows /\ Orderly(b))
      /\ b \in TokenBuckets => b.kind = "token_bucket" /\ BucketWaiter(v, b)
      /\ b \in Windows => b.kind = "sliding_window" /\ WindowWaiter(v, b)
  BY <1>1, WaiterAt
<1>2. IF b.kind = "token_bucket" THEN Sleep(c, BucketWait(b, v.n))
      ELSE IF b.requests = <<>> THEN Sleep(c, 0)
      ELSE Set(c, [v EXCEPT !.pc = "first"])
  BY DEF Calculate
<1>3. \A left : Sleep(c, left) <=> Set(c, Moved(v, "asleep", left))
  BY DEF Sleep, Moved
<1>4. "asleep" \in Waiting /\ "first" \in Waiting
  BY DEF Waiting
<1>5. CASE b \in TokenBuckets
  <2> DEFINE left == BucketWait(b, v.n)
             r == Moved(v, "asleep", left)
  <2>1. /\ b.kind = "token_bucket" /\ BucketWaiter(v, b)
        /\ r.pc = "asleep" /\ r.left = left /\ r.n = v.n /\ r.slept = v.slept /\ r.lost = v.lost
    <3> HIDE DEF left, v, b
    <3> QED
      BY <1>9, <1>5 DEF Records, Moved
  <2>2. BucketWaiter(r, b)
    <3> HIDE DEF r, b
    <3> QED
      BY <1>1, <1>5, <2>1, SleepingWaiter
  <2>3. left \in Nat /\ Waiter(r, b)
    BY <2>1, <2>2 DEF BucketWaiter, Numbers, Waiter
  <2>4. Set(c, r)
    BY <1>2, <1>3, <2>1
  <2> HIDE DEF left
  <2> QED
    BY <1>1, <1>4, <2>3, <2>4, WaiterSteps
<1>6. CASE b \in Windows /\ Orderly(b) /\ b.requests = <<>>
  <2> DEFINE r == Moved(v, "asleep", 0)
  <2>1. /\ b.kind = "sliding_window" /\ WindowWaiter(v, b)
        /\ r.pc = "asleep" /\ r.left = 0 /\ r.n = v.n /\ r.slept = v.slept /\ r.lost = v.lost
    <3> HIDE DEF v, b
    <3> QED
      BY <1>9, <1>6 DEF Records, Moved
  <2>2. WindowWaiter(r, b)
    <3> HIDE DEF r, b
    <3> QED
      BY <1>1, <1>6, <2>1, WindowSleeper
  <2>3. Waiter(r, b)
    BY <2>1, <2>2 DEF Waiter
  <2>4. Set(c, r)
    BY <1>2, <1>3, <1>6, <2>1
  <2> QED
    BY <1>1, <1>4, <2>3, <2>4, WaiterSteps
<1>7. CASE b \in Windows /\ Orderly(b) /\ b.requests # <<>>
  <2> DEFINE r == Moved(v, "first", v.left)
  <2>1. /\ b.kind = "sliding_window" /\ WindowWaiter(v, b)
        /\ r.pc = "first" /\ r.left = v.left /\ r.n = v.n /\ r.slept = v.slept /\ r.lost = v.lost
        /\ [v EXCEPT !.pc = "first"] = r /\ v.left \in Nat
    <3> HIDE DEF v, b
    <3> QED
      BY <1>9, <1>7, MovedFields
  <2>2. WindowWaiter(r, b)
    <3> HIDE DEF r, b
    <3> QED
      BY <1>1, <2>1, KeptAtWindow
  <2>3. Waiter(r, b)
    BY <2>1, <2>2 DEF Waiter
  <2>4. Set(c, r)
    BY <1>2, <1>7, <2>1
  <2> QED
    BY <1>1, <1>4, <2>1, <2>3, <2>4, WaiterSteps
<1> QED
  BY <1>5, <1>6, <1>7, <1>9

LEMMA FirstSound ==
    ASSUME KeepInv, NEW c \in Callers, First(c), UNCHANGED registered
    PROVE  KeepInv'
<1> DEFINE v == caller[c]
           b == limiters[v.bucket]
<1>1. v.pc = "first" /\ v.pc \in Waiting /\ UNCHANGED <<limiters, registered>>
  BY DEF First, At, Waiting
<1>2. b.kind = "sliding_window"
  BY <1>1 DEF KeepInv, Fine
<1>3. b \in Windows /\ Orderly(b) /\ WindowWaiter(v, b)
  <2>1. /\ (b \in TokenBuckets /\ Accounts(b)) \/ (b \in Windows /\ Orderly(b))
        /\ b \in TokenBuckets => b.kind = "token_bucket"
        /\ b \in Windows => WindowWaiter(v, b)
    BY <1>1, WaiterAt
  <2> QED
    BY <1>2, <2>1
<1>4. CASE b.requests = <<>>
  <2> DEFINE r == [v EXCEPT !.pc = "panic"]
  <2>1. Set(c, r)
    BY <1>4 DEF First
  <2>2. v \in Records /\ Fine(v, limiters)
    BY DEF KeepInv, Fine
  <2>3. r \in Records /\ r.pc = "panic" /\ r.limiter = v.limiter
    <3> HIDE DEF v
    <3> QED
      BY <2>2 DEF Records
  <2> HIDE DEF r, v
  <2>4. Fine(r, limiters')
    BY <1>1, <2>2, <2>3 DEF Fine, Waiting
  <2>5. registered' \in {None} \cup DOMAIN limiters'
    BY <1>1 DEF KeepInv
  <2> QED
    BY <1>1, <2>1, <2>4, <2>5, SameLimiters, CallerSteps
<1>5. CASE b.requests # <<>>
  <2> DEFINE left == WindowWait(b)
             r == Moved(v, "asleep", left)
  <2>1. Set(c, r)
    BY <1>5 DEF First, Sleep, Moved
  <2>2. r.pc = "asleep" /\ r.left = left /\ r.n = v.n /\ r.slept = v.slept /\ r.lost = v.lost
    <3>1. v \in Records
      BY DEF KeepInv
    <3> HIDE DEF v, left
    <3> QED
      BY <3>1 DEF Records, Moved
  <2>3. WindowWaiter(r, b)
    <3> HIDE DEF r, b
    <3> QED
      BY <1>1, <1>3, <1>5, <2>2, WindowSleeper
  <2>4. left \in Nat /\ Waiter(r, b)
    BY <1>2, <2>2, <2>3 DEF WindowWaiter, Numbers, Waiter
  <2>5. "asleep" \in Waiting
    BY DEF Waiting
  <2> HIDE DEF left
  <2> QED
    BY <1>1, <2>1, <2>4, <2>5, WaiterSteps
<1> QED
  BY <1>4, <1>5

LEMMA WakeSound ==
    ASSUME KeepInv, NEW c \in Callers, Wake(c), UNCHANGED registered
    PROVE  KeepInv'
<1> DEFINE v == caller[c]
           b == limiters[v.bucket]
           r == Moved(v, "ask", v.left)
<1>1. v.pc = "asleep" /\ v.pc \in Waiting /\ UNCHANGED <<limiters, registered>> /\ "ask" \in Waiting
  BY DEF Wake, At, Waiting
<1>5. /\ v \in Records /\ Waiter(v, b)
      /\ (b \in TokenBuckets /\ Accounts(b)) \/ (b \in Windows /\ Orderly(b))
      /\ b \in TokenBuckets => b.kind = "token_bucket" /\ BucketWaiter(v, b)
      /\ b \in Windows => b.kind = "sliding_window" /\ WindowWaiter(v, b)
  BY <1>1, WaiterAt
<1>2. /\ r.pc = "ask" /\ r.left = v.left /\ r.n = v.n /\ r.slept = v.slept /\ r.lost = v.lost
      /\ [v EXCEPT !.pc = "ask"] = r /\ v.left \in Nat
  <2> HIDE DEF v
  <2> QED
    BY <1>5, MovedFields
<1>3. Set(c, r)
  BY <1>2 DEF Wake
<1>4. Waiter(r, b)
  <2> HIDE DEF r, b, v
  <2>1. CASE b \in TokenBuckets
    <3>1. BucketWaiter(r, b)
      BY <1>2, <1>5, <2>1, KeptWaiter
    <3> QED
      BY <1>5, <2>1, <3>1 DEF Waiter
  <2>2. CASE b \in Windows
    <3>1. WindowWaiter(r, b)
      BY <1>1, <1>2, <1>5, <2>2, KeptAtWindow
    <3> QED
      BY <1>5, <2>2, <3>1 DEF Waiter
  <2> QED
    BY <1>5, <2>1, <2>2
<1> QED
  BY <1>1, <1>2, <1>3, <1>4, WaiterSteps

LEMMA CancelSound ==
    ASSUME KeepInv, NEW c \in Callers, Cancel(c), UNCHANGED registered
    PROVE  KeepInv'
<1>1. Set(c, Returned(c)) /\ UNCHANGED limiters
  BY DEF Cancel
<1>2. Fine(Returned(c), limiters')
  BY <1>1, ReturnsFine
<1>3. registered' \in {None} \cup DOMAIN limiters'
  BY <1>1 DEF KeepInv
<1> QED
  BY <1>1, <1>2, <1>3, SameLimiters, CallerSteps

\* a caller that gets stuck
LEMMA StuckFine ==
    ASSUME KeepInv, NEW c \in Callers
    PROVE  Fine([caller[c] EXCEPT !.pc = "stuck"], limiters)
<1> DEFINE v == caller[c]
           r == [v EXCEPT !.pc = "stuck"]
<1>1. v \in Records /\ Fine(v, limiters)
  BY DEF KeepInv, Fine
<1> HIDE DEF v
<1>2. r \in Records /\ r.pc = "stuck" /\ r.limiter = v.limiter
  BY <1>1 DEF Records
<1> HIDE DEF r
<1>3. Fine(r, limiters)
  BY <1>1, <1>2 DEF Fine, Waiting
<1> QED
  BY <1>3 DEF r, v

LEMMA PeekSound ==
    ASSUME KeepInv, NEW c \in Callers, NEW l \in DOMAIN limiters, limiters[l].kind # "adaptive",
           Peek(c, l), UNCHANGED registered
    PROVE  KeepInv'
<1> DEFINE b == limiters[l]
<1>1. /\ Placed(limiters) /\ caller \in [Callers -> Records]
      /\ \A d \in Callers : Fine(caller[d], limiters)
      /\ registered \in {None} \cup DOMAIN limiters
  BY DEF KeepInv
<1>2. Sound(b) /\ b.kind # "adaptive"
  BY <1>1 DEF Placed
\* the limiters after it, with what the waiters have there
<1>3. ASSUME NEW a, Sound(a), a.kind = b.kind, \A v : Waiter(v, b) => Waiter(v, a),
             limiters' = [limiters EXCEPT ![l] = a]
      PROVE  /\ Placed(limiters') /\ DOMAIN limiters' = DOMAIN limiters
             /\ \A d \in Callers : Fine(caller[d], limiters')
             /\ Fine([caller[c] EXCEPT !.pc = "stuck"], limiters')
  <2>1. /\ Placed(limiters') /\ DOMAIN limiters' = DOMAIN limiters /\ limiters'[l] = a
        /\ \A k \in DOMAIN limiters :
              limiters'[k].kind = limiters[k].kind /\ (k # l => limiters'[k] = limiters[k])
    BY <1>1, <1>3, Replaced
  <2> HIDE DEF b
  <2>2. ASSUME NEW r, Fine(r, limiters) PROVE Fine(r, limiters')
    <3>1. r.pc \in Waiting => /\ r.bucket \in DOMAIN limiters
                              /\ Waiter(r, limiters[r.bucket])
      BY <2>2 DEF Fine
    <3>2. r.pc \in Waiting => /\ limiters'[r.bucket].kind = limiters[r.bucket].kind
                              /\ Waiter(r, limiters'[r.bucket])
      BY <1>3, <2>1, <3>1 DEF b
    <3> QED
      BY <2>1, <2>2, <3>2, StaysFine
  <2>3. Fine([caller[c] EXCEPT !.pc = "stuck"], limiters)
    BY StuckFine
  <2> QED
    BY <1>1, <2>1, <2>2, <2>3
<1>4. CASE b.kind = "token_bucket"
  <2> DEFINE a == [b EXCEPT !.readers = b.readers \cup {c}]
             r == [caller[c] EXCEPT !.pc = "stuck"]
  <2>1. Sound(a) /\ a.kind = b.kind /\ \A v : Waiter(v, b) => Waiter(v, a)
    BY <1>2, <1>4, PeekedSound
  <2>2. limiters' = [limiters EXCEPT ![l] = a] /\ Set(c, r)
    BY <1>4 DEF Peek
  <2> HIDE DEF a
  <2>3. /\ Placed(limiters') /\ DOMAIN limiters' = DOMAIN limiters
        /\ \A d \in Callers : Fine(caller[d], limiters')
        /\ Fine(r, limiters')
    BY <1>3, <2>1, <2>2
  <2> HIDE DEF r
  <2>4. \A d \in Callers : caller'[d] = IF d = c THEN r ELSE caller[d]
    BY <1>1, <2>2 DEF Set
  <2>5. caller' \in [Callers -> Records]
    BY <1>1, <2>2, <2>3 DEF Set, Fine
  <2> QED
    BY <1>1, <2>3, <2>4, <2>5 DEF KeepInv
<1>5. CASE b.kind # "token_bucket"
  <2>1. limiters' = [limiters EXCEPT ![l] = Cleaned(b)] /\ UNCHANGED caller
    BY <1>5 DEF Peek
  <2>2. Cleaned(b) = Current(b)
    BY <1>5 DEF Current
  <2>3. Sound(Cleaned(b)) /\ Cleaned(b).kind = b.kind /\ \A v : Waiter(v, b) => Waiter(v, Cleaned(b))
    BY <1>2, <2>2, CurrentSound
  <2>4. /\ Placed(limiters') /\ DOMAIN limiters' = DOMAIN limiters
        /\ \A d \in Callers : Fine(caller[d], limiters')
    BY <1>3, <2>1, <2>3
  <2> QED
    BY <1>1, <2>1, <2>4 DEF KeepInv
<1> QED
  BY <1>4, <1>5
-----------------------------------------------------------------------------
(* Steps that make limiters, and time.                                      *)

\* what a place may hold
Belongs(a, L) ==
    IF a.kind = "adaptive"
    THEN /\ a \in Adaptives
         /\ a.base \in DOMAIN L /\ L[a.base].kind = "token_bucket"
    ELSE Sound(a)

\* limiters with others behind them, and adaptive ones turned to another bucket
LEMMA Grown ==
    ASSUME NEW L, Placed(L), NEW M \in Seq(Limiters), Len(L) <= Len(M),
           \A k \in 1 .. Len(L) : /\ M[k].kind = L[k].kind
                                  /\ M[k] = L[k] \/ (L[k].kind = "adaptive" /\ Belongs(M[k], M)),
           \A k \in Len(L) + 1 .. Len(M) : Belongs(M[k], M)
    PROVE  /\ Placed(M) /\ DOMAIN L \subseteq DOMAIN M
           /\ \A k \in DOMAIN L : L[k].kind # "adaptive" => M[k] = L[k]
<1>1. /\ Len(L) \in Nat /\ DOMAIN L = 1 .. Len(L)
      /\ Len(M) \in Nat /\ DOMAIN M = 1 .. Len(M)
  BY PlacedType, LenProperties
<1>2. DOMAIN L \subseteq DOMAIN M /\ \A k \in DOMAIN L : L[k].kind # "adaptive" => M[k] = L[k]
  BY <1>1
<1>3. ASSUME NEW k \in DOMAIN M PROVE Belongs(M[k], M)
  <2>1. CASE k \in Len(L) + 1 .. Len(M)
    BY <2>1
  <2>2. CASE k \in 1 .. Len(L) /\ M[k] = L[k]
    <3>1. Belongs(L[k], L)
      BY <1>1, <2>2 DEF Placed, Belongs
    <3>2. L[k].kind = "adaptive" => M[L[k].base].kind = L[L[k].base].kind
      BY <1>1, <3>1 DEF Belongs
    <3> QED
      BY <1>2, <2>2, <3>1, <3>2 DEF Belongs
  <2>3. CASE k \in 1 .. Len(L) /\ Belongs(M[k], M)
    BY <2>3
  <2>4. k \in 1 .. Len(L) \/ k \in Len(L) + 1 .. Len(M)
    BY <1>1
  <2> QED
    BY <2>1, <2>2, <2>3, <2>4
<1> QED
  BY <1>2, <1>3 DEF Placed, Belongs

\* a limiter made, by the place it gets
LEMMA Made ==
    ASSUME NEW L, Placed(L), NEW a, Sound(a)
    PROVE  LET M == Append(L, a)
           IN  /\ Placed(M) /\ DOMAIN L \subseteq DOMAIN M
               /\ \A k \in DOMAIN L : M[k] = L[k]
               /\ Len(M) = Len(L) + 1 /\ M[Len(L) + 1] = a
               /\ Len(L) + 1 \in DOMAIN M
<1> DEFINE M == Append(L, a)
<1>1. /\ Len(L) \in Nat /\ DOMAIN L = 1 .. Len(L) /\ L \in Seq(Limiters) /\ a \in Limiters
  BY PlacedType DEF Placed, Sound, Limiters
<1>2. /\ M \in Seq(Limiters) /\ Len(M) = Len(L) + 1 /\ M[Len(L) + 1] = a
      /\ \A k \in 1 .. Len(L) : M[k] = L[k]
  BY <1>1, AppendProperties
<1> HIDE DEF M
<1>3. a.kind # "adaptive"
  BY KindsApart DEF Sound
<1>4. Belongs(a, M)
  BY <1>3 DEF Belongs
<1>5. \A k \in Len(L) + 1 .. Len(M) : k = Len(L) + 1
  BY <1>1, <1>2
<1>6. /\ Placed(M) /\ DOMAIN L \subseteq DOMAIN M
  BY <1>1, <1>2, <1>4, <1>5, Grown
<1>7. Len(L) + 1 \in DOMAIN M
  BY <1>1, <1>2, <1>6, PlacedType
<1> QED
  BY <1>1, <1>2, <1>6, <1>7 DEF M

LEMMA BaseType == BaseRate \in Int /\ (2 * BaseRate) \div 10 \in Int
<1>1. AdaptiveRate \in Int /\ AdaptiveMin \in Int /\ AdaptiveMax \in Int
  BY RateAssumption
<1>2. (AdaptiveMin + AdaptiveMax) \div 2 \in Int
  BY <1>1
<1>3. BaseRate \in Int
  BY <1>1, <1>2 DEF BaseRate
<1> QED
  BY <1>3

LEMMA AdjustSound ==
    ASSUME KeepInv, NEW c \in Callers, NEW load, AdjustRate(c, load), UNCHANGED registered
    PROVE  KeepInv'
<1> DEFINE l == caller[c].limiter
           a == limiters[l]
           rate == IF load = "over" THEN Most(AdaptiveMin, (a.rate * 9) \div 10)
                   ELSE Least(AdaptiveMax, (a.rate * 11) \div 10)
           n == Len(limiters) + 1
           e == [a EXCEPT !.rate = rate, !.base = n, !.since = 0]
           b == NewTokenBucketLimiter(rate, (2 * rate) \div 10)
           N == [limiters EXCEPT ![l] = e]
<1>1. Placed(limiters) /\ Fine(caller[c], limiters) /\ registered \in {None} \cup DOMAIN limiters
  BY DEF KeepInv
<1>2. l # None /\ a.kind = "adaptive" /\ limiters' = Append(N, b) /\ UNCHANGED <<caller, registered>>
  BY DEF AdjustRate, Holds
<1>3. l \in DOMAIN limiters
  BY <1>1, <1>2 DEF Fine
<1>4. /\ Len(limiters) \in Nat /\ DOMAIN limiters = 1 .. Len(limiters) /\ limiters \in Seq(Limiters)
      /\ a \in Adaptives
  BY <1>1, <1>2, <1>3, PlacedType DEF Placed
<1>5. rate \in Int /\ (2 * rate) \div 10 \in Int
  <2> HIDE DEF a, l
  <2>1. AdaptiveMin \in Int /\ AdaptiveMax \in Int /\ a.rate \in Int
    BY <1>4, RateAssumption DEF Adaptives
  <2>2. (a.rate * 9) \div 10 \in Int /\ (a.rate * 11) \div 10 \in Int
    BY <2>1
  <2>3. rate \in Int
    BY <2>1, <2>2 DEF Most, Least
  <2> QED
    BY <2>3
<1> HIDE DEF rate
<1>6. b \in TokenBuckets /\ Sound(b) /\ b.kind = "token_bucket" /\ b \in Limiters
  BY <1>5, NewBucket DEF Sound, Limiters
<1>7. n \in Nat
  BY <1>4
<1> HIDE DEF n, b, a
<1>8. e \in Adaptives /\ e.kind = "adaptive" /\ e.base = n /\ e \in Limiters
  BY <1>4, <1>5, <1>7 DEF Adaptives, Limiters
<1> HIDE DEF e, l
<1>9. /\ N \in Seq(Limiters) /\ DOMAIN N = DOMAIN limiters /\ Len(N) = Len(limiters)
      /\ N[l] = e /\ \A k \in DOMAIN limiters : k # l => N[k] = limiters[k]
  BY <1>3, <1>4, <1>8, ExceptSeq
<1> HIDE DEF N
<1> DEFINE M == Append(N, b)
<1>10. /\ M \in Seq(Limiters) /\ Len(M) = n /\ M[n] = b
       /\ \A k \in 1 .. Len(limiters) : M[k] = N[k]
  BY <1>6, <1>9, AppendProperties DEF n
<1> HIDE DEF M
<1>11. n \in DOMAIN M
  BY <1>7, <1>10, LenProperties DEF n
<1>12. Belongs(e, M) /\ Belongs(b, M)
  BY <1>6, <1>8, <1>10, <1>11 DEF Belongs
<1>13. ASSUME NEW k \in 1 .. Len(limiters)
       PROVE  /\ M[k].kind = limiters[k].kind
              /\ M[k] = limiters[k] \/ (limiters[k].kind = "adaptive" /\ Belongs(M[k], M))
  BY <1>2, <1>4, <1>8, <1>9, <1>10, <1>12 DEF a
<1>14. \A k \in Len(limiters) + 1 .. Len(M) : k = n
  BY <1>4, <1>10 DEF n
<1>15. Len(limiters) <= Len(M)
  BY <1>4, <1>10 DEF n
<1>16. /\ Placed(M) /\ DOMAIN limiters \subseteq DOMAIN M
       /\ \A k \in DOMAIN limiters : limiters[k].kind # "adaptive" => M[k] = limiters[k]
  BY <1>1, <1>10, <1>12, <1>13, <1>14, <1>15, Grown
<1>17. limiters' = M
  BY <1>2 DEF M
<1>18. Extended /\ registered' \in {None} \cup DOMAIN limiters'
  BY <1>1, <1>2, <1>16, <1>17 DEF Extended
<1> QED
  BY <1>2, <1>18, CallersStay
LEMMA SleepBoundType ==
    ASSUME KeepInv, NEW c \in Callers, caller[c].pc \in Waiting
    PROVE  SleepBound(c) \in Nat
<1> DEFINE v == caller[c]
           b == limiters[v.bucket]
<1>1. /\ v \in Records
      /\ (b \in TokenBuckets /\ Accounts(b)) \/ (b \in Windows /\ Orderly(b))
      /\ b \in TokenBuckets => b.kind = "token_bucket"
      /\ b \in Windows => b.kind = "sliding_window"
  BY WaiterAt
<1>2. SleepBound(c) = IF b.kind = "token_bucket" THEN (v.n + v.lost) * Ceiling(20 * Second, b.rate)
                      ELSE (v.lost + 1) * (WindowLength + 1)
  BY DEF SleepBound
<1> HIDE DEF v, b
<1>3. v.n \in Nat /\ v.lost \in Nat
  BY <1>1 DEF Records
<1>4. CASE b \in TokenBuckets
  <2>1. b.rate \in Nat \ {0} /\ 20 * Second \in Nat
    BY <1>4, RateAssumption DEF TokenBuckets
  <2> DEFINE each == Ceiling(20 * Second, b.rate)
  <2>2. each \in Nat
    BY <2>1, CeilingType
  <2> HIDE DEF each
  <2>3. (v.n + v.lost) * each \in Nat
    BY <1>3, <2>2
  <2> QED
    BY <1>1, <1>2, <1>4, <2>3 DEF each
<1>5. CASE b \in Windows
  <2>1. (v.lost + 1) * (WindowLength + 1) \in Nat
    BY <1>3, WindowType
  <2> QED
    BY <1>1, <1>2, <1>5, <2>1
<1> QED
  BY <1>1, <1>4, <1>5

\* the limiters a tick later
LEMMA TickPlaced ==
    ASSUME NEW L, Placed(L)
    PROVE  LET M == [l \in DOMAIN L |-> Aged(L[l])]
           IN  Placed(M) /\ DOMAIN M = DOMAIN L /\ \A l \in DOMAIN L : M[l].kind = L[l].kind
<1> DEFINE M == [l \in DOMAIN L |-> Aged(L[l])]
<1>1. /\ Len(L) \in Nat /\ DOMAIN L = 1 .. Len(L)
  BY PlacedType
<1>2. ASSUME NEW l \in DOMAIN L, L[l].kind = "adaptive"
      PROVE  Aged(L[l]) \in Adaptives /\ Aged(L[l]).kind = "adaptive" /\ Aged(L[l]).base = L[l].base
  <2> DEFINE a == L[l]
             s == Least(a.since + 1, AdjustEvery)
  <2>1. a \in Adaptives /\ a.kind = "adaptive"
    BY <1>2 DEF Placed
  <2>2. s \in Nat
    BY <2>1, RateAssumption DEF Adaptives, Least
  <2>3. Aged(a) = [a EXCEPT !.since = s]
    BY <2>1 DEF Aged
  <2> HIDE DEF a, s
  <2>4. Aged(a) \in Adaptives /\ Aged(a).kind = "adaptive" /\ Aged(a).base = a.base
    BY <2>1, <2>2, <2>3 DEF Adaptives
  <2> QED
    BY <2>4 DEF a
<1>3. ASSUME NEW l \in DOMAIN L, L[l].kind # "adaptive"
      PROVE  Sound(Aged(L[l])) /\ Aged(L[l]).kind = L[l].kind
  BY <1>3, AgedSound DEF Placed
<1>4. DOMAIN M = DOMAIN L /\ \A l \in DOMAIN L : M[l] = Aged(L[l])
  OBVIOUS
<1>5. \A l \in DOMAIN L : Aged(L[l]) \in Limiters /\ Aged(L[l]).kind = L[l].kind
  BY <1>2, <1>3 DEF Sound, Limiters
<1>6. M \in [1 .. Len(L) -> Limiters]
  BY <1>1, <1>5
<1>7. M \in Seq(Limiters)
  BY <1>1, <1>6, SeqDef
<1> HIDE DEF M
<1>8. ASSUME NEW l \in DOMAIN M PROVE Belongs(M[l], M)
  <2>1. CASE L[l].kind = "adaptive"
    <3>1. L[l].base \in DOMAIN L /\ L[L[l].base].kind = "token_bucket"
      BY <1>4, <2>1 DEF Placed
    <3>2. M[l] \in Adaptives /\ M[l].kind = "adaptive" /\ M[l].base = L[l].base
      BY <1>2, <1>4, <2>1
    <3>3. M[L[l].base].kind = "token_bucket"
      BY <1>4, <1>5, <3>1
    <3> QED
      BY <1>4, <3>1, <3>2, <3>3 DEF Belongs
  <2>2. CASE L[l].kind # "adaptive"
    BY <1>3, <1>4, <2>2 DEF Belongs
  <2> QED
    BY <2>1, <2>2
<1>9. Placed(M)
  BY <1>7, <1>8 DEF Placed, Belongs
<1> QED
  BY <1>4, <1>5, <1>9 DEF M

LEMMA TickSound ==
    ASSUME KeepInv, Tick, UNCHANGED registered
    PROVE  KeepInv'
<1>1. /\ Placed(limiters) /\ caller \in [Callers -> Records]
      /\ \A d \in Callers : Fine(caller[d], limiters)
      /\ registered \in {None} \cup DOMAIN limiters
  BY DEF KeepInv
<1>2. limiters' = [l \in DOMAIN limiters |-> Aged(limiters[l])]
  BY DEF Tick
<1>3. /\ Placed(limiters') /\ DOMAIN limiters' = DOMAIN limiters
      /\ \A l \in DOMAIN limiters : limiters'[l].kind = limiters[l].kind
  BY <1>1, <1>2, TickPlaced
<1>4. \A l \in DOMAIN limiters : limiters'[l] = Aged(limiters[l])
  BY <1>2
\* what a caller's record becomes, by its fields
<1>5. ASSUME NEW c \in Callers
      PROVE  /\ caller'[c] \in Records
             /\ \A f \in {"pc", "limiter", "want", "bucket", "n", "lost"} : caller'[c][f] = caller[c][f]
             /\ \/ caller'[c] = caller[c]
                \/ /\ caller[c].pc = "asleep"
                   /\ caller'[c].slept <= caller[c].slept + 1
                   /\ caller'[c].left = caller[c].left - 1
  <2> DEFINE v == caller[c]
             slept == Least(v.slept + 1, SleepBound(c) + 1)
  <2>1. caller'[c] = IF v.pc = "asleep" /\ v.left > 0
                     THEN [v EXCEPT !.left = v.left - 1, !.slept = slept] ELSE v
    BY DEF Tick, At
  <2>2. v \in Records
    BY <1>1
  <2>3. CASE v.pc = "asleep" /\ v.left > 0
    <3>1. SleepBound(c) \in Nat
      BY <2>3, SleepBoundType DEF Waiting
    <3>2. v.left - 1 \in Nat /\ v.slept \in Nat
      BY <2>2, <2>3 DEF Records
    <3>3. slept \in Nat /\ slept <= v.slept + 1
      BY <3>1, <3>2 DEF Least
    <3>4. caller'[c] = [v EXCEPT !.left = v.left - 1, !.slept = slept]
      BY <2>1, <2>3
    <3> HIDE DEF v, slept
    <3>5. /\ caller'[c] \in Records /\ caller'[c].pc = v.pc /\ caller'[c].limiter = v.limiter
          /\ caller'[c].want = v.want /\ caller'[c].bucket = v.bucket /\ caller'[c].n = v.n
          /\ caller'[c].lost = v.lost /\ caller'[c].left = v.left - 1 /\ caller'[c].slept = slept
      BY <2>2, <3>2, <3>3, <3>4 DEF Records
    <3> QED
      BY <2>3, <3>3, <3>5 DEF v
  <2>4. CASE ~(v.pc = "asleep" /\ v.left > 0)
    BY <2>1, <2>2, <2>4
  <2> QED
    BY <2>3, <2>4
<1>6. ASSUME NEW c \in Callers PROVE Fine(caller'[c], limiters')
  <2> DEFINE v == caller[c]
             u == caller'[c]
  <2>1. /\ u \in Records /\ Fine(v, limiters)
        /\ u.pc = v.pc /\ u.limiter = v.limiter /\ u.want = v.want /\ u.bucket = v.bucket
        /\ u.n = v.n /\ u.lost = v.lost
    BY <1>1, <1>5
  <2>2. \/ u = v
        \/ v.pc = "asleep" /\ u.slept <= v.slept + 1 /\ u.left = v.left - 1
    BY <1>5
  <2> HIDE DEF u, v
  <2>3. ASSUME v.pc \in Waiting
        PROVE  /\ u.bucket \in DOMAIN limiters' /\ limiters'[u.bucket].kind # "adaptive"
               /\ limiters'[u.bucket].kind = limiters[v.bucket].kind
               /\ Waiter(u, limiters'[u.bucket])
    <3>1. /\ v.bucket \in DOMAIN limiters /\ limiters[v.bucket].kind # "adaptive"
          /\ Waiter(v, limiters[v.bucket])
      BY <2>1, <2>3 DEF Fine
    <3>2. Sound(limiters[v.bucket])
      BY <1>1, <3>1 DEF Placed
    <3>3. Numbers(u)
      BY <2>1 DEF Records, Numbers
    <3>4. Waiter(u, Aged(limiters[v.bucket]))
      BY <2>1, <2>2, <3>1, <3>2, <3>3, AgedSound
    <3> QED
      BY <1>3, <1>4, <2>1, <3>1, <3>4
  <2>4. u.pc = "first" => limiters'[u.bucket].kind = "sliding_window"
    BY <2>1, <2>3 DEF Fine, Waiting
  <2>5. Fine(u, limiters')
    BY <1>3, <2>1, <2>3, <2>4 DEF Fine
  <2> QED
    BY <2>5 DEF u
<1>7. caller' \in [Callers -> Records]
  <2>1. caller' = [c \in Callers |-> caller'[c]]
    BY DEF Tick
  <2> QED
    BY <1>5, <2>1
<1> QED
  BY <1>1, <1>3, <1>6, <1>7 DEF KeepInv
-----------------------------------------------------------------------------
(* The manager, and what holds in the end.                                  *)

LEMMA TokensRemainingSound ==
    ASSUME KeepInv, NEW c \in Callers, TokensRemaining(c), UNCHANGED registered
    PROVE  KeepInv'
<1> DEFINE l == Target(caller[c].limiter)
<1>1. Fine(caller[c], limiters) /\ caller[c].limiter # None /\ Peek(c, l)
  BY DEF KeepInv, TokensRemaining, Holds
<1>2. caller[c].limiter \in DOMAIN limiters
  BY <1>1 DEF Fine
<1>3. l \in DOMAIN limiters /\ limiters[l].kind # "adaptive"
  BY <1>2, TargetPlace
<1> HIDE DEF l
<1> QED
  BY <1>1, <1>3, PeekSound

\* the record of one who just got a limiter
LEMMA GotFine ==
    ASSUME NEW L, Placed(L), NEW l \in DOMAIN L
    PROVE  Fine([Idle EXCEPT !.limiter = l], L)
<1> DEFINE r == [Idle EXCEPT !.limiter = l]
<1>1. l \in Places
  BY PlacedType DEF Places
<1>2. Idle \in Records
  BY DEF Idle, Records, Places
<1>3. r \in Records /\ r.limiter = l /\ r.pc = "idle"
  BY <1>1, <1>2 DEF Records, Idle
<1> HIDE DEF r
<1>4. Fine(r, L)
  BY <1>3 DEF Fine, Waiting
<1> QED
  BY <1>4 DEF r

LEMMA LookupSound ==
    ASSUME KeepInv, NEW c \in Callers, NEW kind \in Kinds, Lookup(c, kind)
    PROVE  KeepInv'
<1>1. Placed(limiters) /\ registered \in {None} \cup DOMAIN limiters
  BY DEF KeepInv
<1>2. UNCHANGED <<limiters, registered>>
  BY DEF Lookup
<1>3. ASSUME Fits(kind) PROVE KeepInv'
  <2> DEFINE r == [Idle EXCEPT !.limiter = registered]
  <2>1. Set(c, r)
    BY <1>3 DEF Lookup
  <2>2. registered \in DOMAIN limiters
    BY <1>1, <1>3 DEF Fits
  <2>3. Fine(r, limiters)
    BY <1>1, <2>2, GotFine
  <2> HIDE DEF r
  <2> QED
    BY <1>1, <1>2, <2>1, <2>3, SameLimiters, CallerSteps
<1>4. ASSUME ~Fits(kind) PROVE KeepInv'
  <2> DEFINE e == Returned(c)
             r == [e EXCEPT !.pc = "create", !.want = kind]
  <2>1. Set(c, r)
    BY <1>4 DEF Lookup
  <2>2. Fine(e, limiters) /\ e \in Records
    BY ReturnsFine DEF Fine
  <2> HIDE DEF e
  <2>3. r \in Records /\ r.pc = "create" /\ r.want = kind /\ r.limiter = e.limiter
    BY <2>2 DEF Records
  <2> HIDE DEF r
  <2>4. Fine(r, limiters)
    BY <2>2, <2>3 DEF Fine, Waiting
  <2> QED
    BY <1>1, <1>2, <2>1, <2>4, SameLimiters, CallerSteps
<1> QED
  BY <1>3, <1>4

\* what a Get*Limiter makes finds its place
LEMMA NewPlaced ==
    ASSUME NEW kind \in Kinds, Placed(limiters)
    PROVE  LET M == limiters \o New(kind)
           IN  /\ Placed(M) /\ DOMAIN limiters \subseteq DOMAIN M
               /\ \A k \in DOMAIN limiters : limiters[k].kind # "adaptive" => M[k] = limiters[k]
               /\ Len(M) \in DOMAIN M
<1> DEFINE n == Len(limiters)
<1>1. n \in Nat /\ DOMAIN limiters = 1 .. n /\ limiters \in Seq(Limiters)
  BY PlacedType DEF Placed
<1>2. ASSUME NEW a, Sound(a), New(kind) = <<a>>
      PROVE  LET M == limiters \o New(kind)
             IN  /\ Placed(M) /\ DOMAIN limiters \subseteq DOMAIN M
                 /\ \A k \in DOMAIN limiters : limiters[k].kind # "adaptive" => M[k] = limiters[k]
                 /\ Len(M) \in DOMAIN M
  <2> DEFINE M == Append(limiters, a)
  <2>1. a \in Limiters
    BY <1>2 DEF Sound, Limiters
  <2>2. limiters \o New(kind) = M
    BY <1>1, <1>2, <2>1, AppendIsConcat
  <2>3. /\ Placed(M) /\ DOMAIN limiters \subseteq DOMAIN M
        /\ \A k \in DOMAIN limiters : M[k] = limiters[k]
        /\ Len(M) \in DOMAIN M
    BY <1>2, Made
  <2> QED
    BY <2>2, <2>3
<1>3. CASE kind = "token_bucket"
  <2>1. New(kind) = <<NewTokenBucketLimiter(BucketRate, BucketBurst)>>
    BY <1>3 DEF New
  <2>2. Sound(NewTokenBucketLimiter(BucketRate, BucketBurst))
    BY RateAssumption, NewBucket DEF Sound
  <2> QED
    BY <1>2, <2>1, <2>2
<1>4. CASE kind = "sliding_window"
  <2>1. New(kind) = <<NewSlidingWindowLimiter>>
    BY <1>4 DEF New
  <2>2. Sound(NewSlidingWindowLimiter)
    BY NewWindow DEF Sound
  <2> QED
    BY <1>2, <2>1, <2>2
<1>5. CASE kind = "adaptive"
  <2> DEFINE b == NewTokenBucketLimiter(BaseRate, (2 * BaseRate) \div 10)
             a == NewAdaptiveLimiter(n + 1)
             M == limiters \o <<b, a>>
  <2>1. New(kind) = <<b, a>>
    BY <1>5 DEF New
  <2>2. Sound(b) /\ b.kind = "token_bucket" /\ b \in Limiters
    BY BaseType, NewBucket DEF Sound, Limiters
  <2>3. a \in Adaptives /\ a.kind = "adaptive" /\ a.base = n + 1 /\ a \in Limiters
    <3> HIDE DEF n
    <3> QED
      BY <1>1, BaseType DEF NewAdaptiveLimiter, Adaptives, Limiters
  <2> HIDE DEF n, a, b
  <2>4. <<b, a>> \in Seq(Limiters) /\ Len(<<b, a>>) = 2 /\ <<b, a>>[1] = b /\ <<b, a>>[2] = a
    BY <2>2, <2>3
  <2>5. /\ M \in Seq(Limiters) /\ Len(M) = n + 2
        /\ \A k \in 1 .. n + 2 : M[k] = IF k <= n THEN limiters[k] ELSE <<b, a>>[k - n]
    BY <1>1, <2>4, ConcatProperties DEF n
  <2>6. /\ \A k \in 1 .. n : M[k] = limiters[k]
        /\ M[n + 1] = b /\ M[n + 2] = a
    <3>1. n + 1 \in 1 .. n + 2 /\ n + 2 \in 1 .. n + 2 /\ ~(n + 1 <= n) /\ ~(n + 2 <= n)
          /\ n + 1 - n = 1 /\ n + 2 - n = 2
      BY <1>1
    <3> QED
      BY <1>1, <2>4, <2>5, <3>1
  <2> HIDE DEF M
  <2>7. DOMAIN M = 1 .. n + 2 /\ n + 1 \in DOMAIN M /\ n + 2 \in DOMAIN M
    BY <1>1, <2>5, LenProperties
  <2>8. Belongs(b, M) /\ Belongs(a, M)
    BY <2>2, <2>3, <2>6, <2>7 DEF Belongs
  <2>9. \A k \in Len(limiters) + 1 .. Len(M) : Belongs(M[k], M)
    <3>1. \A k \in n + 1 .. n + 2 : k = n + 1 \/ k = n + 2
      BY <1>1
    <3> QED
      BY <2>5, <2>6, <2>8, <3>1 DEF n
  <2>10. \A k \in 1 .. Len(limiters) : M[k].kind = limiters[k].kind /\ M[k] = limiters[k]
    BY <2>6 DEF n
  <2>11. Len(limiters) <= Len(M)
    BY <1>1, <2>5 DEF n
  <2>12. /\ Placed(M) /\ DOMAIN limiters \subseteq DOMAIN M
         /\ \A k \in DOMAIN limiters : limiters[k].kind # "adaptive" => M[k] = limiters[k]
    BY <2>5, <2>9, <2>10, <2>11, Grown
  <2>13. limiters \o New(kind) = M
    BY <2>1 DEF M
  <2> QED
    BY <2>5, <2>7, <2>12, <2>13
<1> QED
  BY <1>3, <1>4, <1>5 DEF Kinds

LEMMA CreateSound ==
    ASSUME KeepInv, NEW c \in Callers, Create(c)
    PROVE  KeepInv'
<1> DEFINE kind == caller[c].want
<1>1. /\ Placed(limiters) /\ registered \in {None} \cup DOMAIN limiters
      /\ Fine(caller[c], limiters)
  BY DEF KeepInv
<1>2. kind \in Kinds
  BY <1>1 DEF Fine, Create, At
<1>3. ASSUME Fits(kind) PROVE KeepInv'
  <2> DEFINE r == [Idle EXCEPT !.limiter = registered]
  <2>1. Set(c, r) /\ UNCHANGED <<limiters, registered>>
    BY <1>3 DEF Create
  <2>2. registered \in DOMAIN limiters
    BY <1>1, <1>3 DEF Fits
  <2>3. Fine(r, limiters)
    BY <1>1, <2>2, GotFine
  <2> HIDE DEF r
  <2> QED
    BY <1>1, <2>1, <2>3, SameLimiters, CallerSteps
<1>4. ASSUME ~Fits(kind) PROVE KeepInv'
  <2> DEFINE M == limiters \o New(kind)
             r == [Idle EXCEPT !.limiter = registered']
  <2>1. limiters' = M /\ registered' = Len(limiters') /\ Set(c, r)
    BY <1>4 DEF Create, Register
  <2> HIDE DEF kind
  <2>2. /\ Placed(M) /\ DOMAIN limiters \subseteq DOMAIN M
        /\ \A k \in DOMAIN limiters : limiters[k].kind # "adaptive" => M[k] = limiters[k]
        /\ Len(M) \in DOMAIN M
    BY <1>1, <1>2, NewPlaced
  <2> HIDE DEF M
  <2>3. Extended /\ registered' \in DOMAIN limiters' /\ Placed(limiters')
    BY <2>1, <2>2 DEF Extended
  <2>4. Fine(r, limiters')
    BY <2>3, GotFine
  <2> HIDE DEF r
  <2> QED
    BY <2>1, <2>3, <2>4, CallerSteps
<1> QED
  BY <1>3, <1>4

LEMMA RemoveSound ==
    ASSUME KeepInv, NEW c \in Callers, Remove(c)
    PROVE  KeepInv'
BY DEF KeepInv, Remove

LEMMA GetStatsSound ==
    ASSUME KeepInv, NEW c \in Callers, GetStats(c)
    PROVE  KeepInv'
<1> DEFINE l == Target(registered)
<1>1. registered \in DOMAIN limiters /\ Peek(c, l) /\ UNCHANGED registered
  BY DEF KeepInv, GetStats
<1>2. l \in DOMAIN limiters /\ limiters[l].kind # "adaptive"
  BY <1>1, TargetPlace
<1> HIDE DEF l
<1> QED
  BY <1>1, <1>2, PeekSound

LEMMA KeepStep == KeepInv /\ [Next]_managerVars => KeepInv'
<1> SUFFICES ASSUME KeepInv, [Next]_managerVars PROVE KeepInv'
  OBVIOUS
<1>1. ASSUME UNCHANGED registered, NEW c \in Callers, NEW n \in Sizes, AllowN(c, n) \/ WaitN(c, n)
      PROVE  KeepInv'
  BY <1>1, AllowNSound, WaitNSound
<1>2. ASSUME UNCHANGED registered, NEW c \in Callers, CallerStep(c) PROVE KeepInv'
  BY <1>2, AskSound, CalculateSound, FirstSound, WakeSound DEF CallerStep
<1>3. ASSUME UNCHANGED registered, NEW c \in Callers, Cancel(c) \/ TokensRemaining(c) PROVE KeepInv'
  BY <1>3, CancelSound, TokensRemainingSound
<1>4. ASSUME UNCHANGED registered, NEW c \in Callers, NEW load, AdjustRate(c, load) PROVE KeepInv'
  BY <1>4, AdjustSound
<1>5. ASSUME UNCHANGED registered, Tick PROVE KeepInv'
  BY <1>5, TickSound
<1>6. CASE LimiterNext /\ UNCHANGED <<registered, readers, retired>>
  BY <1>1, <1>2, <1>3, <1>4, <1>5, <1>6 DEF LimiterNext
<1>7. CASE \E c \in Callers : (\E kind \in Kinds : Lookup(c, kind)) \/ Create(c) \/ Remove(c) \/ GetStats(c)
  BY <1>7, LookupSound, CreateSound, RemoveSound, GetStatsSound
<1>8. CASE UNCHANGED managerVars
  BY <1>8 DEF managerVars, KeepInv
<1> QED
  BY <1>6, <1>7, <1>8 DEF Next

LEMMA KeepInit == Init => KeepInv
<1> SUFFICES ASSUME Init PROVE KeepInv
  OBVIOUS
<1>1. limiters = <<>> /\ registered = None /\ caller = [c \in Callers |-> Idle]
  BY DEF Init
<1>2. limiters \in Seq(Limiters) /\ DOMAIN limiters = {}
  BY <1>1, EmptySeq
<1>3. Placed(limiters)
  BY <1>2 DEF Placed
<1>4. Idle \in Records /\ Idle.limiter = None /\ Idle.pc = "idle"
  BY DEF Idle, Records, Places
<1>5. Fine(Idle, limiters)
  BY <1>4 DEF Fine, Waiting
<1> QED
  BY <1>1, <1>3, <1>4, <1>5 DEF KeepInv

\* the books show that no bucket passed too much, ...
LEMMA SoundBound ==
    ASSUME NEW b, Sound(b)
    PROVE  IF b.kind = "token_bucket"
           THEN \A t \in 0 .. Horizon : Passed(b, t) <= b.burst + Ceiling(t * b.rate, 10 * Second)
           ELSE Passed(b, WindowLength) <= WindowLimit
<1>1. CASE b \in TokenBuckets /\ Accounts(b)
  BY <1>1, KindsApart, AccountsBound
<1>2. CASE b \in Windows /\ Orderly(b)
  <2>1. b.kind = "sliding_window" /\ WindowLength \in 0 .. WindowLength /\ WindowLimit \in Nat
    BY <1>2, KindsApart, WindowType
  <2>2. Passed(b, WindowLength) <= Len(b.requests) /\ Len(b.requests) <= WindowLimit
    BY <1>2, <2>1 DEF Orderly
  <2>3. Passed(b, WindowLength) \in Int /\ Len(b.requests) \in Int
    <3>1. b.granted \in Grants /\ WindowLength \in 0 .. Horizon
      BY <1>2, <2>1, WindowType DEF Windows
    <3>2. Passed(b, WindowLength) \in Nat
      BY <3>1, PassedSums
    <3>3. Len(b.requests) \in Nat
      BY <1>2, RequestsType
    <3> QED
      BY <3>2, <3>3
  <2> QED
    BY <2>1, <2>2, <2>3
<1> QED
  BY <1>1, <1>2 DEF Sound

\* ... and what a waiter has slept stands in its record
LEMMA WaiterBound ==
    ASSUME KeepInv, NEW c \in Callers, caller[c].pc \in Waiting
    PROVE  caller[c].slept <= SleepBound(c)
<1> DEFINE v == caller[c]
           b == limiters[v.bucket]
<1>1. /\ v \in Records
      /\ (b \in TokenBuckets /\ Accounts(b)) \/ (b \in Windows /\ Orderly(b))
      /\ b \in TokenBuckets => b.kind = "token_bucket" /\ BucketWaiter(v, b)
      /\ b \in Windows => b.kind = "sliding_window" /\ WindowWaiter(v, b)
  BY WaiterAt
<1>2. SleepBound(c) = IF b.kind = "token_bucket" THEN (v.n + v.lost) * Ceiling(20 * Second, b.rate)
                      ELSE (v.lost + 1) * (WindowLength + 1)
  BY DEF SleepBound
<1> HIDE DEF v, b
<1>3. v.n \in Nat /\ v.lost \in Nat /\ v.slept \in Nat /\ v.left \in Nat
  BY <1>1 DEF Records
<1>4. CASE b \in TokenBuckets
  <2>1. b.rate \in Nat \ {0} /\ 20 * Second \in Nat /\ 20 * Second = 2 * Tenths
    BY <1>4, RateAssumption DEF TokenBuckets, Tenths
  <2> DEFINE each == Ceiling(20 * Second, b.rate)
             m == v.n + v.lost
  <2>2. each \in Nat /\ each = Twice(Tenths, b.rate)
    BY <2>1, CeilingType DEF Twice
  <2>3. v.slept + v.left <= each * m
    BY <1>1, <1>4, <2>2 DEF BucketWaiter
  <2>4. m \in Nat
    BY <1>3
  <2> HIDE DEF each, m
  <2>5. each * m = m * each /\ each * m \in Nat
    BY <2>2, <2>4
  <2>6. v.slept <= m * each
    BY <1>3, <2>3, <2>5
  <2> QED
    BY <1>1, <1>2, <1>4, <2>6 DEF each, m, v
<1>5. CASE b \in Windows
  <2> DEFINE each == WindowLength + 1
  <2>1. each \in Nat
    BY WindowType
  <2>2. v.slept + v.left <= v.lost * each + each
    BY <1>1, <1>5 DEF WindowWaiter
  <2> HIDE DEF each
  <2>3. (v.lost + 1) * each = v.lost * each + each /\ v.lost * each \in Nat
    BY <1>3, <2>1
  <2>4. v.slept <= (v.lost + 1) * each
    BY <1>3, <2>1, <2>2, <2>3
  <2> QED
    BY <1>1, <1>2, <1>5, <2>4 DEF each, v
<1> QED
  BY <1>1, <1>4, <1>5

\* A bucket keeps its rate and a window its limit, whatever rate, burst and
\* window they are given, and however many callers use them: no stretch of time
\* sees more than a burst and what the rate adds to it, or more than the window
\* allows (an adaptive limiter is bounded bucket by bucket, not over the buckets
\* that AdjustRate gives it one after the other); and a caller of WaitN sleeps no longer than twice what its tokens and the lost ones take to
\* come, or the window, with a millisecond more, for itself and each request it
\* lost (rate_limiter.go:59-138, 198-279).
THEOREM EveryBucketKeepsItsRate == Spec => []BucketKeepsItsRate
<1>1. KeepInv => BucketKeepsItsRate
  <2> SUFFICES ASSUME KeepInv PROVE BucketKeepsItsRate
    OBVIOUS
  <2>1. ASSUME NEW l \in Buckets PROVE Sound(limiters[l])
    BY DEF Buckets, KeepInv, Placed
  <2>2. NeverTooMany
    BY <2>1, SoundBound DEF NeverTooMany
  <2>3. SleepsNoLonger
    BY WaiterBound DEF SleepsNoLonger, Waits, Waiting
  <2> QED
    BY <2>2, <2>3 DEF BucketKeepsItsRate
<1> QED
  BY KeepInit, KeepStep, <1>1, PTL DEF Spec

=============================================================================

----------------------------- MODULE RateLimiter -----------------------------
(***************************************************************************)
(* The rate limiters of pkg/utils/backpressure/rate_limiter.go: a token    *)
(* bucket, a sliding window, and an adaptive limiter that puts a fresh     *)
(* token bucket in place of its own when the load changes.                 *)
(*                                                                         *)
(* Time passes in ticks, Second of them a second, and is kept as ages      *)
(* (ticks since a refill, since a request, since an adjustment), each held *)
(* at the value from which nothing depends on it any more.  Rates are in   *)
(* tenths of a token per second.  A critical section is a step; a caller   *)
(* of WaitN locks twice, once to ask and once to work out its next sleep,  *)
(* and anything may happen in between.                                     *)
(***************************************************************************)
EXTENDS Integers, Sequences, FiniteSets

CONSTANTS
    Callers,       \* goroutines
    Sizes,         \* the n of AllowN and WaitN
    BucketRate, BucketBurst,                  \* arguments of the constructors
    WindowLimit, WindowLength,                \* (a window is in ticks)
    AdaptiveRate, AdaptiveMin, AdaptiveMax,
    Second,        \* ticks in a second
    AdjustEvery,   \* ticks between two adjustments of an adaptive limiter
    Horizon,       \* bound: how many ticks of grants are remembered
    MaxLimiters,   \* bound: limiters ever made
    MaxCalls,      \* bound: calls ever made
    None

ASSUME RateAssumption ==
    /\ Second \in Nat \ {0} /\ Horizon \in Nat /\ AdjustEvery \in Nat /\ Sizes \subseteq Nat
    /\ BucketRate \in Int /\ BucketBurst \in Int
    /\ WindowLimit \in Nat \ {0} /\ WindowLength \in 1 .. Horizon
    /\ AdaptiveRate \in Int /\ AdaptiveMax \in Nat /\ AdaptiveMin \in 1 .. AdaptiveMax

VARIABLES
    limiters,  \* every limiter made, by its address
    caller,    \* what each goroutine does, and the limiter it holds
    peeked,    \* history: somebody asked for the remaining tokens
    calls      \* bound: the calls begun

vars == <<limiters, caller, peeked, calls>>

Least(a, b) == IF a < b THEN a ELSE b
Most(a, b) == IF a > b THEN a ELSE b
Ceiling(a, b) == (a + b - 1) \div b

NoGrants == [age \in 0 .. Horizon |-> 0]
Idle == [pc |-> "idle", limiter |-> None, want |-> None, bucket |-> None, n |-> 0,
         left |-> 0, slept |-> 0, lost |-> 0]

-----------------------------------------------------------------------------
(* The limiters.                                                            *)

\* granted is history: what the bucket let pass, by age
NewTokenBucketLimiter(rate, burst) ==
    LET b == IF burst <= 0 THEN 1 ELSE burst
    IN  [kind |-> "token_bucket", rate |-> IF rate <= 0 THEN 10 ELSE rate, burst |-> b,
         tokens |-> b, elapsed |-> 0, readers |-> {}, granted |-> NoGrants]

NewSlidingWindowLimiter ==
    [kind |-> "sliding_window", burst |-> WindowLimit, requests |-> <<>>, readers |-> {},
     granted |-> NoGrants]

\* NewAdaptiveRateLimiter, with the bucket at address base
BaseRate == IF AdaptiveRate \in AdaptiveMin .. AdaptiveMax THEN AdaptiveRate
            ELSE (AdaptiveMin + AdaptiveMax) \div 2
NewAdaptiveLimiter(base) == [kind |-> "adaptive", rate |-> BaseRate, base |-> base, since |-> 0]

\* an adaptive limiter calls the bucket it has at the moment, without its mutex
Target(l) == IF limiters[l].kind = "adaptive" THEN limiters[l].base ELSE l

\* int64(elapsed.Seconds() * tb.rate)
TokensIn(b, ticks) == (ticks * b.rate) \div (10 * Second)
FullAfter(b) == Ceiling(10 * Second * b.burst, b.rate)

\* (faulty variant: Refilled that moves lastUpdate on with nothing to add)
ForgetsFractions(b) ==
    [b EXCEPT !.tokens = Least(b.burst, b.tokens + TokensIn(b, b.elapsed)), !.elapsed = 0]

\* refillTokens: only whole tokens move lastUpdate, and the fraction is lost
Refilled(b) ==
    IF TokensIn(b, b.elapsed) > 0
    THEN [b EXCEPT !.tokens = Least(b.burst, b.tokens + TokensIn(b, b.elapsed)), !.elapsed = 0]
    ELSE b

\* requests from the first one of an age on
Since(requests, ages) ==
    LET at == {i \in DOMAIN requests : requests[i] \in ages}
    IN  IF at = {} THEN <<>>
        ELSE SubSeq(requests, CHOOSE i \in at : \A j \in at : i <= j, Len(requests))

\* (faulty variant: Cleaned of requests as old as the window)
ForgetsEarly(w) == [w EXCEPT !.requests = Since(w.requests, 0 .. WindowLength - 1)]

\* cleanOldRequests: a request as old as the window still counts
Cleaned(w) == [w EXCEPT !.requests = Since(w.requests, 0 .. WindowLength)]

Current(b) == IF b.kind = "token_bucket" THEN Refilled(b) ELSE Cleaned(b)
Room(b) == IF b.kind = "token_bucket" THEN b.tokens ELSE b.burst - Len(b.requests)

Taken(b, n) ==
    LET g == [b EXCEPT !.granted[0] = b.granted[0] + n]
    IN  IF b.kind = "token_bucket" THEN [g EXCEPT !.tokens = b.tokens - n]
        ELSE [g EXCEPT !.requests = b.requests \o [i \in 1 .. n |-> 0]]

\* calculateWaitTime: whole seconds, but at least a millisecond (here: a tick)
BucketWait(b, n) ==
    IF n <= b.tokens THEN 0 ELSE Most(1, (((n - b.tokens) * 10) \div b.rate) * Second)
WindowWait(w) ==
    LET left == WindowLength - Head(w.requests) IN IF left < 0 THEN 1 ELSE left

\* the mutex of a bucket is never held between steps, but by those that ask
\* for it twice
Free(l) == limiters[l].readers = {}

-----------------------------------------------------------------------------
(* The calls.                                                               *)

At(c, pc) == caller[c].pc = pc
Holds(c) == caller[c].limiter # None
Set(c, r) == caller' = [caller EXCEPT ![c] = r]
Returned(c) == [Idle EXCEPT !.limiter = caller[c].limiter]
Begins(c) == At(c, "idle") /\ calls < MaxCalls /\ calls' = calls + 1
\* bound: room for n limiters and for those that are being made
MayMake(n) == Len(limiters) + 2 * Cardinality({c \in Callers : At(c, "create")}) + n <= MaxLimiters
Waits(c) == caller[c].pc \in {"ask", "calculate", "first", "asleep"}

\* whoever waits at l has lost n tokens to c
Losing(f, c, l, n) ==
    [d \in Callers |-> IF d # c /\ Waits(d) /\ caller[d].bucket = l
                       THEN [f[d] EXCEPT !.lost = f[d].lost + n] ELSE f[d]]

\* AllowN(n) of bucket l by c, whose state is r after it
Attempt(c, l, n, granted, refused) ==
    LET b == Current(limiters[l])
    IN  /\ Free(l)
        /\ IF Room(b) >= n
           THEN /\ limiters' = [limiters EXCEPT ![l] = Taken(b, n)]
                /\ caller' = Losing([caller EXCEPT ![c] = granted], c, l, n)
           ELSE /\ limiters' = [limiters EXCEPT ![l] = b]
                /\ Set(c, refused)

AllowN(c, n) ==
    /\ Begins(c) /\ Holds(c)
    /\ Attempt(c, Target(caller[c].limiter), n, caller[c], caller[c])
    /\ UNCHANGED peeked

\* WaitN: too large a request is refused at once (and changes nothing); a call
\* stays with its bucket, whatever becomes of the limiter
WaitN(c, n) ==
    /\ Begins(c) /\ Holds(c)
    /\ LET l == Target(caller[c].limiter)
       IN  /\ n <= limiters[l].burst
           /\ Set(c, [Returned(c) EXCEPT !.pc = "ask", !.bucket = l, !.n = n])
    /\ UNCHANGED <<limiters, peeked>>

Ask(c) ==
    /\ At(c, "ask")
    /\ Attempt(c, caller[c].bucket, caller[c].n, Returned(c), [caller[c] EXCEPT !.pc = "calculate"])
    /\ UNCHANGED <<peeked, calls>>

Sleep(c, ticks) == Set(c, [caller[c] EXCEPT !.pc = "asleep", !.left = ticks])

\* calculateWaitTime takes the mutex again, to read; the window's looks at its
\* requests twice
Calculate(c) ==
    /\ At(c, "calculate")
    /\ LET b == limiters[caller[c].bucket]
       IN  /\ Free(caller[c].bucket)
           /\ IF b.kind = "token_bucket" THEN Sleep(c, BucketWait(b, caller[c].n))
              ELSE IF b.requests = <<>> THEN Sleep(c, 0)
              ELSE Set(c, [caller[c] EXCEPT !.pc = "first"])
    /\ UNCHANGED <<limiters, peeked, calls>>

First(c) ==
    /\ At(c, "first")
    /\ LET b == limiters[caller[c].bucket]
       IN  IF b.requests = <<>> THEN Set(c, [caller[c] EXCEPT !.pc = "panic"])
           ELSE Sleep(c, WindowWait(b))
    /\ UNCHANGED <<limiters, peeked, calls>>

Wake(c) ==
    /\ At(c, "asleep") /\ caller[c].left = 0
    /\ Set(c, [caller[c] EXCEPT !.pc = "ask"])
    /\ UNCHANGED <<limiters, peeked, calls>>

\* ctx.Done()
Cancel(c) ==
    /\ At(c, "asleep")
    /\ Set(c, Returned(c))
    /\ UNCHANGED <<limiters, peeked, calls>>

\* TokensRemaining: a bucket locks its mutex for reading and then, to refill,
\* for writing, which waits for every reader and so for itself; a window
\* cleans its requests up under the lock for reading
Peek(c, l) ==
    /\ peeked' = TRUE
    /\ IF limiters[l].kind = "token_bucket"
       THEN /\ limiters' = [limiters EXCEPT ![l].readers = limiters[l].readers \cup {c}]
            /\ Set(c, [caller[c] EXCEPT !.pc = "stuck"])
       ELSE /\ limiters' = [limiters EXCEPT ![l] = Cleaned(limiters[l])]
            /\ UNCHANGED caller

TokensRemaining(c) ==
    /\ Begins(c) /\ Holds(c)
    /\ Peek(c, Target(caller[c].limiter))

\* AdjustRate: with the load too high or too low for long enough, the bucket
\* is replaced by one that is full
AdjustRate(c, load) ==
    /\ Begins(c) /\ Holds(c)
    /\ LET l == caller[c].limiter
           a == limiters[l]
           rate == IF load = "over" THEN Most(AdaptiveMin, (a.rate * 9) \div 10)
                   ELSE Least(AdaptiveMax, (a.rate * 11) \div 10)
       IN  /\ a.kind = "adaptive"
           /\ a.since = AdjustEvery
           /\ MayMake(1)
           /\ limiters' = Append([limiters EXCEPT ![l] =
                                    [a EXCEPT !.rate = rate, !.base = Len(limiters) + 1, !.since = 0]],
                                 NewTokenBucketLimiter(rate, (2 * rate) \div 10))
    /\ UNCHANGED <<caller, peeked>>

-----------------------------------------------------------------------------
\* what a caller of WaitN may have to sleep (SleepsNoLonger)
SleepBound(c) ==
    LET b == limiters[caller[c].bucket]
    IN  IF b.kind = "token_bucket" THEN (caller[c].n + caller[c].lost) * Ceiling(20 * Second, b.rate)
        ELSE (caller[c].lost + 1) * (WindowLength + 1)

\* the grants a tick later
Older(g) == [age \in 0 .. Horizon |-> IF age = 0 THEN 0 ELSE g[age - 1]]

Aged(l) ==
    CASE l.kind = "token_bucket" -> [l EXCEPT !.elapsed = Least(@ + 1, FullAfter(l)), !.granted = Older(@)]
      [] l.kind = "sliding_window" ->
            [l EXCEPT !.requests = [i \in DOMAIN @ |-> Least(@[i] + 1, WindowLength + 1)],
                      !.granted = Older(@)]
      [] l.kind = "adaptive" -> [l EXCEPT !.since = Least(@ + 1, AdjustEvery)]

Tick ==
    /\ limiters' = [l \in DOMAIN limiters |-> Aged(limiters[l])]
    /\ caller' = [c \in Callers |->
                    IF At(c, "asleep") /\ caller[c].left > 0
                    THEN [caller[c] EXCEPT !.left = caller[c].left - 1,
                                           !.slept = Least(caller[c].slept + 1, SleepBound(c) + 1)]
                    ELSE caller[c]]
    /\ UNCHANGED <<peeked, calls>>

CallerStep(c) == Ask(c) \/ Calculate(c) \/ First(c) \/ Wake(c)

LimiterNext ==
    \/ \E c \in Callers :
          \/ \E n \in Sizes : AllowN(c, n) \/ WaitN(c, n)
          \/ CallerStep(c) \/ Cancel(c) \/ TokensRemaining(c)
          \/ \E load \in {"over", "under"} : AdjustRate(c, load)
    \/ Tick

-----------------------------------------------------------------------------
Buckets == {l \in DOMAIN limiters : limiters[l].kind # "adaptive"}
Passed(b, ticks) ==
    LET upTo[age \in 0 .. Horizon] == b.granted[age] + (IF age = 0 THEN 0 ELSE upTo[age - 1])
    IN  upTo[ticks]

\* A bucket keeps its rate, and a window its limit: no stretch of time, wherever
\* it begins, sees more than a burst and what the rate adds to it, a started
\* token included (rate_limiter.go:59-72, 103-120), or more than the window
\* allows (rate_limiter.go:198-213, 243-260).  Each bucket of an adaptive limiter
\* is one by itself.  The adaptive limiter as a whole is not bounded: AdjustRate
\* puts a full bucket in place of one that callers still wait at, and both pass
\* their burst (rate_limiter.go:390).
NeverTooMany ==
    \A l \in Buckets :
        LET b == limiters[l]
        IN  IF b.kind = "token_bucket"
            THEN \A t \in 0 .. Horizon : Passed(b, t) <= b.burst + Ceiling(t * b.rate, 10 * Second)
            ELSE Passed(b, WindowLength) <= WindowLimit

\* Nor does either hand out less: a caller of WaitN sleeps no longer than twice the
\* time that its tokens and those it lost to others take to come, since a refill
\* may drop almost as much as it adds; or, at a window, than the window is long,
\* with a millisecond more, for itself and for each request it lost to others
\* (rate_limiter.go:103-138, 243-279).
SleepsNoLonger == \A c \in Callers : Waits(c) => caller[c].slept <= SleepBound(c)

BucketKeepsItsRate == NeverTooMany /\ SleepsNoLonger
=============================================================================

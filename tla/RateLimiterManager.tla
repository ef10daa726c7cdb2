-------------------------- MODULE RateLimiterManager --------------------------
(***************************************************************************)
(* RateLimiterManager of pkg/utils/backpressure/rate_limiter.go together   *)
(* with the limiters it hands out, for one name: callers get a limiter by  *)
(* double-checked locking and then use it.  The mutex of the manager is    *)
(* held between steps only by a GetStats that does not come back.          *)
(***************************************************************************)
EXTENDS RateLimiter

VARIABLES
    registered,  \* rm.limiters[name]
    readers,     \* who holds rm.mutex for reading and never gives it back
    retired      \* history: limiters that were removed or replaced

managerVars == <<limiters, caller, peeked, calls, registered, readers, retired>>
Kinds == {"token_bucket", "sliding_window", "adaptive"}

Init ==
    /\ limiters = <<>>
    /\ caller = [c \in Callers |-> Idle]
    /\ peeked = FALSE
    /\ calls = 0
    /\ registered = None
    /\ readers = {}
    /\ retired = {}

\* GetAdaptiveLimiter does with no other kind; the other two take what they find
Fits(kind) == /\ registered # None
              /\ kind = "adaptive" => limiters[registered].kind = "adaptive"

\* a reader gets in unless a writer waits behind a reader
Readable == readers = {} \/ \A c \in Callers : ~At(c, "create")

\* Get*Limiter: look under the lock for reading ...
Lookup(c, kind) ==
    /\ Begins(c) /\ Readable
    /\ IF Fits(kind) THEN Set(c, [Idle EXCEPT !.limiter = registered])
       ELSE MayMake(2) /\ Set(c, [Returned(c) EXCEPT !.pc = "create", !.want = kind])
    /\ UNCHANGED <<limiters, peeked, registered, readers, retired>>

New(kind) ==
    CASE kind = "token_bucket" -> <<NewTokenBucketLimiter(BucketRate, BucketBurst)>>
      [] kind = "sliding_window" -> <<NewSlidingWindowLimiter>>
      [] kind = "adaptive" ->
            <<NewTokenBucketLimiter(BaseRate, (2 * BaseRate) \div 10),
              NewAdaptiveLimiter(Len(limiters) + 1)>>

Register(c, kind) ==
    /\ limiters' = limiters \o New(kind)
    /\ registered' = Len(limiters')
    /\ Set(c, [Idle EXCEPT !.limiter = registered'])

\* (faulty variant: Create without the second look)
CreatesAnyway(c) ==
    /\ At(c, "create") /\ readers = {}
    /\ Register(c, caller[c].want)
    /\ UNCHANGED <<retired, peeked, calls, readers>>

\* ... and again under the lock for writing
Create(c) ==
    /\ At(c, "create") /\ readers = {}
    /\ IF Fits(caller[c].want)
       THEN Set(c, [Idle EXCEPT !.limiter = registered]) /\ UNCHANGED <<limiters, registered, retired>>
       ELSE Register(c, caller[c].want) /\ retired' = (retired \cup {registered}) \ {None}
    /\ UNCHANGED <<peeked, calls, readers>>

\* Remove, and Clear with its one name
Remove(c) ==
    /\ Begins(c) /\ readers = {}
    /\ registered # None
    /\ registered' = None
    /\ retired' = retired \cup {registered}
    /\ UNCHANGED <<limiters, caller, peeked, readers>>

\* GetStats asks the limiter for its tokens with the mutex held
GetStats(c) ==
    /\ Begins(c) /\ Readable
    /\ registered # None
    /\ Peek(c, Target(registered))
    /\ readers' = readers \cup {d \in {c} : caller'[d].pc = "stuck"}
    /\ UNCHANGED <<registered, retired>>

Next ==
    \/ LimiterNext /\ UNCHANGED <<registered, readers, retired>>
    \/ \E c \in Callers :
          \/ \E kind \in Kinds : Lookup(c, kind)
          \/ Create(c) \/ Remove(c) \/ GetStats(c)

Spec == Init /\ [][Next]_managerVars

\* Time passes and goroutines run on; nobody need cancel, call or come back.
FairSpec ==
    /\ Spec
    /\ WF_managerVars(Tick /\ UNCHANGED <<registered, readers, retired>>)
    /\ \A c \in Callers :
          /\ WF_managerVars(CallerStep(c) /\ UNCHANGED <<registered, readers, retired>>)
          /\ WF_managerVars(Create(c))

-----------------------------------------------------------------------------
\* Callers of one name share one limiter, so that the limit is for all of them
\* together: nobody holds another than the one registered, unless that was
\* removed or GetAdaptiveLimiter put one of its own kind in its place
\* (rate_limiter.go:433-515).
OneLimiter == \A c \in Callers : caller[c].limiter \in {None, registered} \cup retired

\* Where callers come only so often (MaxCalls), every call ends, with its tokens
\* or with its context: a waiter finds them once the others are content.  Others
\* that come for ever may take every token before a waiter for two finds both,
\* which the code permits and MaxCalls excludes.  Excluded, too, is that somebody
\* asks for the tokens that remain: that locks a bucket for good, or trims the
\* requests of a window that another caller has just found not empty
\* (rate_limiter.go:80-100, 151-159, 263-299, 527-541).
WaitersReturn == \A c \in Callers : ~At(c, "idle") ~> At(c, "idle") \/ peeked
=============================================================================

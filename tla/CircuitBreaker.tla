---------------------------- MODULE CircuitBreaker ----------------------------
(***************************************************************************)
(* The circuit breaker of pkg/utils/circuit/breaker.go.                    *)
(*                                                                         *)
(* Execute takes the mutex twice, in beforeRequest and in afterRequest,    *)
(* and runs the protected function in between without it.  A result can    *)
(* therefore come back long after the state its request was admitted in    *)
(* is over; the code does not tell such a result from a current one.  The  *)
(* model does, in `call`, for the properties only.                         *)
(***************************************************************************)
EXTENDS Naturals, FiniteSets

CONSTANTS
    Callers,       \* the goroutines that call Execute
    MaxFailures,   \* config.MaxFailures
    MaxRequests,   \* config.MaxRequests
    FailureBound   \* bound: failures beyond it are not counted

ASSUME CallersAssumption == IsFiniteSet(Callers)
ASSUME ConfigAssumption == MaxFailures \in Nat /\ MaxRequests \in Nat
ASSUME BoundAssumption == FailureBound \in Nat /\ FailureBound > MaxFailures

VARIABLES
    state,     \* cb.state
    failures,  \* cb.failures
    requests,  \* cb.requests, counted while half-open
    expired,   \* time.Since(cb.lastFailureTime) >= cb.config.Timeout
    call,      \* what each goroutine does; history: "late" once the state changed
    streak     \* history: failures in a row since the breaker closed

breakerVars == <<state, failures, requests, expired, call, streak>>

States == {"Closed", "HalfOpen", "Open"}

\* running "fresh": admitted in the present period of the present state
Running(c) == call[c] # "idle"
Fresh == {c \in Callers : call[c] = "fresh"}

Aged == [c \in Callers |-> IF Running(c) THEN "late" ELSE "idle"]
Bump(n) == IF n < FailureBound THEN n + 1 ELSE n

BreakerInit ==
    /\ state = "Closed"
    /\ failures = 0
    /\ requests = 0
    /\ expired = TRUE      \* lastFailureTime is the zero time
    /\ call = [c \in Callers |-> "idle"]
    /\ streak = 0

-----------------------------------------------------------------------------
(* beforeRequest.  A request that is turned away changes nothing.           *)

AdmitClosed(c) ==
    /\ state = "Closed"
    /\ call' = [call EXCEPT ![c] = "fresh"]
    /\ UNCHANGED <<state, failures, requests, expired, streak>>

\* the first request after the timeout; toHalfOpen resets the counter and
\* this request is not counted
AdmitOpen(c) ==
    /\ state = "Open"
    /\ expired
    /\ state' = "HalfOpen"
    /\ requests' = 0
    /\ call' = [Aged EXCEPT ![c] = "fresh"]
    /\ UNCHANGED <<failures, expired, streak>>

\* (faulty variant: AdmitHalfOpen that does not count)
AdmitsWithoutCount(c) ==
    /\ state = "HalfOpen"
    /\ requests < MaxRequests
    /\ call' = [call EXCEPT ![c] = "fresh"]
    /\ UNCHANGED <<state, failures, requests, expired, streak>>

AdmitHalfOpen(c) ==
    /\ state = "HalfOpen"
    /\ requests < MaxRequests
    /\ requests' = requests + 1
    /\ call' = [call EXCEPT ![c] = "fresh"]
    /\ UNCHANGED <<state, failures, expired, streak>>

Begin(c) == ~Running(c) /\ (AdmitClosed(c) \/ AdmitOpen(c) \/ AdmitHalfOpen(c))

-----------------------------------------------------------------------------
(* afterRequest.  A panic of the protected function counts as a failure.    *)

\* (faulty variant: ToClosed without the reset)
KeepsFailures ==
    /\ state' = "Closed"
    /\ requests' = 0
    /\ UNCHANGED failures

ToClosed ==
    /\ state' = "Closed"
    /\ failures' = 0
    /\ requests' = 0

\* onSuccess
Succeed(c) ==
    /\ Running(c)
    /\ \/ /\ state = "HalfOpen"
          /\ ToClosed
          /\ call' = [Aged EXCEPT ![c] = "idle"]
       \/ /\ state # "HalfOpen"
          /\ failures' = IF state = "Closed" THEN 0 ELSE failures
          /\ call' = [call EXCEPT ![c] = "idle"]
          /\ UNCHANGED <<state, requests>>
    /\ streak' = 0
    /\ UNCHANGED expired

\* (faulty variant: Trips with an off-by-one)
TripsLate == \/ state = "Closed" /\ failures >= MaxFailures
             \/ state = "HalfOpen"
\* (faulty variant: Trips that tolerates a failed probe)
ProbeMayFail == state = "Closed" /\ failures + 1 >= MaxFailures

\* the states onFailure opens the breaker from
Trips == \/ state = "Closed" /\ failures + 1 >= MaxFailures
         \/ state = "HalfOpen"

\* onFailure
Fail(c) ==
    /\ Running(c)
    /\ failures' = Bump(failures)
    /\ expired' = FALSE
    /\ streak' = Bump(streak)
    /\ IF Trips
       THEN /\ state' = "Open"
            /\ requests' = 0
            /\ call' = [Aged EXCEPT ![c] = "idle"]
       ELSE /\ call' = [call EXCEPT ![c] = "idle"]
            /\ UNCHANGED <<state, requests>>

-----------------------------------------------------------------------------
\* time passes
Expire ==
    /\ ~expired
    /\ expired' = TRUE
    /\ UNCHANGED <<state, failures, requests, call, streak>>

\* Reset: an operator closes the breaker by hand
Reset ==
    /\ ToClosed
    /\ call' = Aged
    /\ streak' = 0
    /\ UNCHANGED expired

BreakerNext ==
    \/ \E c \in Callers : Begin(c) \/ Succeed(c) \/ Fail(c)
    \/ Expire
    \/ Reset

BreakerSpec == BreakerInit /\ [][BreakerNext]_breakerVars

\* Time passes, the protected functions return, and requests keep coming.
BreakerFairSpec ==
    /\ BreakerSpec
    /\ WF_breakerVars(Expire)
    /\ WF_breakerVars(\E c \in Callers : Begin(c))
    /\ \A c \in Callers : WF_breakerVars(Succeed(c) \/ Fail(c))

-----------------------------------------------------------------------------
BreakerTypeOK ==
    /\ state \in States
    /\ failures \in 0 .. FailureBound
    /\ requests \in 0 .. MaxRequests
    /\ expired \in BOOLEAN
    /\ call \in [Callers -> {"idle", "fresh", "late"}]
    /\ streak \in 0 .. FailureBound

\* A half-open breaker cannot get stuck: it turns requests away because of
\* probes that are still running, never because of probes that came back, so
\* the result of one of them will decide (breaker.go:131-136, 153-174).
ProbesInFlight == state = "HalfOpen" => Cardinality(Fresh) = requests + 1

\* A closed breaker has seen fewer failures in a row than it may: it trips no
\* later than with the last of MaxFailures (breaker.go:167-170).
TripsInTime == state = "Closed" => streak = 0 \/ streak < MaxFailures

\* It trips no sooner either: whatever was counted while it was open or
\* half-open, a closed breaker opens only after MaxFailures failures in a row
\* since it closed, those of requests admitted in an earlier state, which the
\* code counts too, among them (breaker.go:153-183).
TripsOnlyInARow == [][state = "Closed" /\ state' = "Open" => streak' >= MaxFailures]_breakerVars

\* The breaker always leaves half-open, though only its own probes count as
\* requests and any result may decide; and once the protected function stops
\* failing it closes and stays closed (breaker.go:125-136, 157-158).
Recovers ==
    /\ state = "HalfOpen" ~> state # "HalfOpen"
    /\ <>[][~\E c \in Callers : Fail(c)]_breakerVars => <>[](state = "Closed")
=============================================================================

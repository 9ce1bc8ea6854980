---------------------------- MODULE RateLimiter ----------------------------
(***************************************************************************)
(* The limiter of requests to one LLM provider (RateLimiter).  Threads     *)
(* acquire permission, call the provider and release; a thread that may    *)
(* block polls until it is let in.  Every check runs under one lock and is *)
(* one step.  The limits: requests under way, requests per minute (a token *)
(* bucket) and tokens per day (a counter that is zeroed when it is next    *)
(* used after a day).  The tokens-per-minute bucket is filled and compared *)
(* but never drawn from, so it only bounds what one request may ask for.   *)
(***************************************************************************)
EXTENDS Integers, FiniteSets, FiniteSetsExt

CONSTANTS
    Caller,              \* threads that make requests
    MaxConcurrent,       \* the largest concurrent_requests ever configured
    RequestsPerMinute,   \* capacity of the request bucket
    TokensPerMinute,     \* capacity of the token bucket
    TokensPerDay,
    MaxTokens,           \* bound on what one request declares
    MaxUse,              \* bound on what one request uses
    MaxDayTokens,        \* bound on the tokens counted before another request
    Honest               \* TRUE: no reset or disabling while requests are under way

ASSUME LimiterAssumption ==
    /\ IsFiniteSet(Caller)
    /\ {MaxConcurrent, RequestsPerMinute, TokensPerDay} \subseteq Nat \ {0}
    /\ {TokensPerMinute, MaxTokens, MaxUse, MaxDayTokens} \subseteq Nat

VARIABLES
    caller,       \* caller[c]: where thread c stands
    need,         \* need[c]: the tokens its request declares
    strategy,     \* _strategy
    limit,        \* concurrent_requests of the provider
    enabled,      \* its limits are enabled
    concurrent,   \* _concurrent
    requests,     \* the request bucket
    dayTokens,    \* _daily_tokens
    dayOver,      \* a day has passed since _daily_reset was set
    loose,        \* history: the limits were lifted or forgotten at some time
    overdrawn     \* history: a request used more tokens than it had declared

limiterVars == <<caller, need, strategy, limit, enabled, concurrent,
                 requests, dayTokens, dayOver, loose, overdrawn>>

setup   == <<strategy, limit, enabled>>

InFlight == {c \in Caller : caller[c] \in {"flying", "degraded"}}

LimiterTypeOK ==
    /\ caller \in [Caller -> {"idle", "waiting", "trying", "flying", "degraded"}]
    /\ need \in [Caller -> 0 .. MaxTokens]
    /\ strategy \in {"block", "reject", "degrade"}
    /\ limit \in 1 .. MaxConcurrent
    /\ enabled \in BOOLEAN
    /\ concurrent \in 0 .. Cardinality(Caller)
    /\ requests \in 0 .. RequestsPerMinute
    /\ dayTokens \in Nat
    /\ dayOver \in BOOLEAN
    /\ loose \in BOOLEAN
    /\ overdrawn \in BOOLEAN

-----------------------------------------------------------------------------
(* What check() answers *)

(* The limits that are looked at before the daily one.                     *)
Crowded(c) ==
    \/ concurrent >= limit
    \/ requests < 1
    \/ need[c] > TokensPerMinute

(* The daily counter is zeroed when it is looked at after its day.         *)
UsedToday == IF dayOver THEN 0 ELSE dayTokens

(* A check that forgets the requests under way.                            *)
AllowedAnyNumber(c) ==
    enabled => /\ requests >= 1
               /\ need[c] <= TokensPerMinute
               /\ UsedToday + need[c] <= TokensPerDay

(* A check of the tokens used so far, not of those asked for.              *)
AllowedIfAnyLeft(c) ==
    enabled => /\ ~Crowded(c)
               /\ UsedToday <= TokensPerDay

Allowed(c) ==
    enabled => /\ ~Crowded(c)
               /\ UsedToday + need[c] <= TokensPerDay

(* What a check leaves in the daily counter.                               *)
CheckDay(c) ==
    IF enabled /\ ~Crowded(c)
    THEN dayTokens' = UsedToday /\ dayOver' = FALSE
    ELSE UNCHANGED <<dayTokens, dayOver>>

Move(c, to) ==
    /\ caller' = [caller EXCEPT ![c] = to]
    /\ UNCHANGED need

(* acquire or release returns for good.                                    *)
Return(c) ==
    /\ caller' = [caller EXCEPT ![c] = "idle"]
    /\ need' = [need EXCEPT ![c] = 0]

-----------------------------------------------------------------------------
LimiterInit ==
    /\ caller = [c \in Caller |-> "idle"]
    /\ need = [c \in Caller |-> 0]
    /\ strategy = "block"
    /\ limit \in 1 .. MaxConcurrent
    /\ enabled = TRUE
    /\ concurrent = 0
    /\ requests = RequestsPerMinute
    /\ dayTokens = 0
    /\ dayOver = FALSE
    /\ loose = FALSE
    /\ overdrawn = FALSE

(* acquire is called; `block` is given or follows from the strategy.       *)
Ask(c, tokens, block) ==
    /\ caller[c] = "idle"
    /\ dayTokens <= MaxDayTokens
    /\ caller' = [caller EXCEPT ![c] = IF block THEN "waiting" ELSE "trying"]
    /\ need' = [need EXCEPT ![c] = tokens]
    /\ UNCHANGED <<setup, concurrent, requests, dayTokens, dayOver, loose, overdrawn>>

(* It is allowed: one request is drawn (if the bucket still holds one: the *)
(* limits may be disabled) and counted.                                    *)
Admit(c) ==
    /\ caller[c] \in {"waiting", "trying"}
    /\ Allowed(c)
    /\ Move(c, "flying")
    /\ requests' = IF requests >= 1 THEN requests - 1 ELSE requests
    /\ concurrent' = concurrent + 1
    /\ CheckDay(c)
    /\ UNCHANGED <<setup, loose, overdrawn>>

(* It is not, and the strategy is to degrade: the request goes ahead, but  *)
(* is not counted.                                                         *)
Degrade(c) ==
    /\ caller[c] = "trying"
    /\ ~Allowed(c)
    /\ strategy = "degrade"
    /\ Move(c, "degraded")
    /\ CheckDay(c)
    /\ loose' = TRUE
    /\ UNCHANGED <<setup, concurrent, requests, overdrawn>>

(* It is not, and is told so, by an exception or by a result.              *)
Refuse(c) ==
    /\ caller[c] = "trying"
    /\ ~Allowed(c)
    /\ strategy # "degrade"
    /\ Return(c)
    /\ CheckDay(c)
    /\ UNCHANGED <<setup, concurrent, requests, loose, overdrawn>>

(* A blocked request with a timeout, over after one more check in vain.    *)
TimeOut(c) ==
    /\ caller[c] = "waiting"
    /\ ~Allowed(c)
    /\ Return(c)
    /\ CheckDay(c)
    /\ UNCHANGED <<setup, concurrent, requests, loose, overdrawn>>

(* A blocked request polls in vain; the check may zero the day's counter.  *)
Poll(c) ==
    /\ caller[c] = "waiting"
    /\ ~Allowed(c)
    /\ CheckDay(c)
    /\ UNCHANGED <<caller, need, setup, concurrent, requests, loose, overdrawn>>

(* A release that leaves the counter of requests alone.                    *)
ReleaseTokensOnly(c, used) ==
    /\ c \in InFlight
    /\ Return(c)
    /\ IF used > 0
       THEN dayTokens' = UsedToday + used /\ dayOver' = FALSE
       ELSE UNCHANGED <<dayTokens, dayOver>>
    /\ overdrawn' = (overdrawn \/ used > need[c])
    /\ UNCHANGED <<setup, concurrent, requests, loose>>

(* A release that counts below zero.                                       *)
ReleaseUnclamped(c, used) ==
    /\ c \in InFlight
    /\ Return(c)
    /\ concurrent' = concurrent - 1
    /\ IF used > 0
       THEN dayTokens' = UsedToday + used /\ dayOver' = FALSE
       ELSE UNCHANGED <<dayTokens, dayOver>>
    /\ overdrawn' = (overdrawn \/ used > need[c])
    /\ UNCHANGED <<setup, requests, loose>>

(* The request is over: the count goes down, whoever had been counted, and *)
(* the tokens it really used are added to the day's, however many it had   *)
(* declared.                                                               *)
Release(c, used) ==
    /\ c \in InFlight
    /\ Return(c)
    /\ concurrent' = IF concurrent > 0 THEN concurrent - 1 ELSE 0
    /\ IF used > 0
       THEN dayTokens' = UsedToday + used /\ dayOver' = FALSE
       ELSE UNCHANGED <<dayTokens, dayOver>>
    /\ overdrawn' = (overdrawn \/ used > need[c])
    /\ UNCHANGED <<setup, requests, loose>>

SetStrategy(s) ==
    /\ strategy' = s
    /\ UNCHANGED <<caller, need, limit, enabled, concurrent, requests,
                   dayTokens, dayOver, loose, overdrawn>>

(* New limits; the buckets are made anew, the counters stay.               *)
Configure(n, on) ==
    /\ Honest => on
    /\ limit' = n
    /\ enabled' = on
    /\ requests' = RequestsPerMinute
    /\ loose' = (loose \/ ~on)
    /\ UNCHANGED <<caller, need, strategy, concurrent, dayTokens, dayOver,
                   overdrawn>>

(* reset forgets the requests under way.                                   *)
Reset ==
    /\ Honest => InFlight = {}
    /\ requests' = RequestsPerMinute
    /\ dayTokens' = 0
    /\ dayOver' = FALSE
    /\ concurrent' = 0
    /\ loose' = (loose \/ InFlight # {})
    /\ UNCHANGED <<caller, need, setup, overdrawn>>

(* Time passes: the bucket has room for one request more ...               *)
Refill ==
    /\ requests < RequestsPerMinute
    /\ requests' = requests + 1
    /\ UNCHANGED <<caller, need, setup, concurrent, dayTokens, dayOver, loose, overdrawn>>

(* ... and days end.                                                       *)
EndOfDay ==
    /\ ~dayOver
    /\ dayOver' = TRUE
    /\ UNCHANGED <<caller, need, setup, concurrent, requests, dayTokens, loose, overdrawn>>

Request(c) ==
    \/ \E t \in 0 .. MaxTokens, b \in BOOLEAN : Ask(c, t, b)
    \/ Admit(c)
    \/ Degrade(c)
    \/ Refuse(c)
    \/ TimeOut(c)
    \/ Poll(c)
    \/ \E u \in 0 .. MaxUse : Release(c, u)

LimiterNext ==
    \/ \E c \in Caller : Request(c)
    \/ \E s \in {"block", "reject", "degrade"} : SetStrategy(s)
    \/ \E n \in 1 .. MaxConcurrent, on \in BOOLEAN : Configure(n, on)
    \/ Reset
    \/ Refill
    \/ EndOfDay

LimiterSpec == LimiterInit /\ [][LimiterNext]_limiterVars

-----------------------------------------------------------------------------
(* Properties *)

(* No slot is ever lost: whatever was degraded, reset or reconfigured, no  *)
(* more requests are counted than are under way, so that a provider nobody *)
(* is calling never refuses a request as one too many.                     *)
NoSlotLost == concurrent <= Cardinality(InFlight)

(* "concurrent_requests: Maximum concurrent requests": unless limits were  *)
(* lifted, or forgotten by a reset under way or a degraded request, every  *)
(* request is counted, and no more are under way than were ever allowed.   *)
LimitHolds ==
    ~loose => /\ concurrent = Cardinality(InFlight)
              /\ concurrent <= MaxConcurrent

(* The day's tokens are checked when a request starts and counted when it  *)
(* ends.  What is spent over the limit is what the requests then under way *)
(* really use, at most; and as long as none uses more than it declared, it *)
(* is what the others then under way had declared.                         *)
Overshoot == (MaxConcurrent - 1) * MaxTokens

DayBudget ==
    ~loose =>
       /\ dayTokens + Cardinality(InFlight) * MaxUse
             <= TokensPerDay + MaxConcurrent * MaxUse
       /\ ~overdrawn =>
             dayTokens + MapThenSumSet(LAMBDA c : need[c], InFlight)
                <= TokensPerDay + Overshoot
=============================================================================

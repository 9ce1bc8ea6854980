--------------------------- MODULE Services_proofs ---------------------------
(***************************************************************************)
(* Proofs about the services that guard resources: the rate limiter, the   *)
(* cost tracker, the two caches and the client of a language server, for   *)
(* any number of callers, thresholds, keys, processes and starts, and any  *)
(* limits.                                                                 *)
(***************************************************************************)
EXTENDS RateLimiter, CostTracker, MemoryCache, RedisCache, LanguageServer,
        Lists_proofs, FiniteSetTheorems, SequenceTheorems, TLAPS

-----------------------------------------------------------------------------
Standing == {"idle", "waiting", "trying", "flying", "degraded"}

(* The caller's own part of a step: it comes in, it leaves, or the others  *)
(* do not see it move.                                                     *)
LEMMA InFlightFinite ==
    /\ IsFiniteSet(InFlight)
    /\ Cardinality(InFlight) \in 0 .. Cardinality(Caller)
<1>1. InFlight \subseteq Caller
  BY DEF InFlight
<1>2. IsFiniteSet(InFlight) /\ Cardinality(InFlight) <= Cardinality(Caller)
  BY <1>1, FS_Subset, LimiterAssumption DEF LimiterAssumption
<1>3. Cardinality(InFlight) \in Nat /\ Cardinality(Caller) \in Nat
  BY <1>2, FS_CardinalityType, LimiterAssumption DEF LimiterAssumption
<1> QED
  BY <1>2, <1>3

LEMMA LimiterConstants ==
    /\ MaxConcurrent \in Nat \ {0}
    /\ RequestsPerMinute \in Nat \ {0}
    /\ MaxTokens \in Nat /\ MaxUse \in Nat
  BY LimiterAssumption DEF LimiterAssumption

LEMMA TakesOff ==
    ASSUME NEW c \in Caller, caller \in [Caller -> Standing],
           caller[c] \notin {"flying", "degraded"},
           NEW to \in {"flying", "degraded"}, caller' = [caller EXCEPT ![c] = to]
    PROVE  Cardinality(InFlight') = Cardinality(InFlight) + 1
<1>1. InFlight' = InFlight \cup {c} /\ c \notin InFlight
  BY DEF InFlight
<1> QED
  BY <1>1, InFlightFinite, FS_AddElement

LEMMA Lands ==
    ASSUME NEW c \in InFlight, caller \in [Caller -> Standing],
           caller' = [caller EXCEPT ![c] = "idle"]
    PROVE  Cardinality(InFlight') = Cardinality(InFlight) - 1
<1>1. InFlight' = InFlight \ {c}
  BY DEF InFlight
<1> QED
  BY <1>1, InFlightFinite, FS_RemoveElement

LEMMA StaysDown ==
    ASSUME NEW c \in Caller, caller \in [Caller -> Standing],
           caller[c] \notin {"flying", "degraded"},
           NEW to \in {"idle", "waiting", "trying"},
           caller' = [caller EXCEPT ![c] = to]
    PROVE  InFlight' = InFlight
  BY DEF InFlight

-----------------------------------------------------------------------------
(* Types, apart from those that follow from the count.                     *)
Types ==
    /\ caller \in [Caller -> Standing]
    /\ need \in [Caller -> 0 .. MaxTokens]
    /\ strategy \in {"block", "reject", "degrade"}
    /\ limit \in 1 .. MaxConcurrent
    /\ enabled \in BOOLEAN
    /\ concurrent \in Nat
    /\ requests \in 0 .. RequestsPerMinute
    /\ dayTokens \in Nat
    /\ dayOver \in BOOLEAN
    /\ loose \in BOOLEAN
    /\ overdrawn \in BOOLEAN

(* As long as nothing was forgotten the limits are enabled, so that        *)
(* whoever is let in was compared with the limit.                          *)
Strict == ~loose => enabled

LimiterInv == Types /\ NoSlotLost /\ Strict /\ LimitHolds

LEMMA LimiterInitInv == LimiterInit => LimiterInv
<1> SUFFICES ASSUME LimiterInit PROVE LimiterInv
  OBVIOUS
<1>1. InFlight = {}
  BY DEF LimiterInit, InFlight
<1>2. Cardinality(InFlight) = 0
  BY <1>1, FS_EmptySet
<1>3. caller \in [Caller -> Standing]
  BY DEF LimiterInit, Standing
<1>4. 0 \in 0 .. MaxTokens /\ RequestsPerMinute \in 0 .. RequestsPerMinute
  BY LimiterConstants
<1>5. need \in [Caller -> 0 .. MaxTokens]
  BY <1>4 DEF LimiterInit
<1>6. Types
  BY <1>3, <1>4, <1>5 DEF LimiterInit, Types
<1> QED
  BY <1>2, <1>6, LimiterConstants
     DEF LimiterInv, NoSlotLost, Strict, LimitHolds, LimiterInit

(* The day's counter stays a number.                                       *)
LEMMA DayTyped ==
    ASSUME Types, NEW c \in Caller, CheckDay(c)
    PROVE  dayTokens' \in Nat /\ dayOver' \in BOOLEAN
<1>1. UsedToday \in Nat
  BY DEF Types, UsedToday
<1>2. dayTokens \in Nat /\ dayOver \in BOOLEAN
  BY DEF Types
<1> QED
  BY <1>1, <1>2, Zenon DEF CheckDay

LEMMA LimiterStepInv == LimiterInv /\ [LimiterNext]_limiterVars => LimiterInv'
<1> SUFFICES ASSUME LimiterInv, [LimiterNext]_limiterVars PROVE LimiterInv'
  OBVIOUS
<1> USE DEF LimiterInv
<1>n. Cardinality(InFlight) \in Nat
  BY InFlightFinite
<1>s. caller \in [Caller -> Standing]
  BY DEF Types
<1>1. ASSUME NEW c \in Caller, NEW t \in 0 .. MaxTokens, NEW b \in BOOLEAN, Ask(c, t, b)
      PROVE  LimiterInv'
  <2>1. InFlight' = InFlight
    BY <1>1, <1>s, StaysDown DEF Ask
  <2>2. Types'
    BY <1>1 DEF Ask, Types, Standing, setup
  <2> QED
    BY <1>1, <2>1, <2>2 DEF Ask, NoSlotLost, Strict, LimitHolds, setup
<1>2. ASSUME NEW c \in Caller, Admit(c)
      PROVE  LimiterInv'
  <2>1. Cardinality(InFlight') = Cardinality(InFlight) + 1
    BY <1>2, <1>s, TakesOff DEF Admit, Move
  <2>2. dayTokens' \in Nat /\ dayOver' \in BOOLEAN
    BY <1>2, DayTyped DEF Admit
  <2>3. requests' \in 0 .. RequestsPerMinute
    BY <1>2, LimiterConstants DEF Admit, Types
  <2>4. Types'
    BY <1>2, <2>2, <2>3 DEF Admit, Move, Types, Standing, setup
  <2>5. NoSlotLost'
    BY <1>2, <1>n, <2>1 DEF Admit, NoSlotLost, Types
  <2>6. ~loose => concurrent < limit
    BY <1>2 DEF Admit, Allowed, Crowded, Strict, Types
  <2>7. LimitHolds'
    BY <1>2, <1>n, LimiterConstants, <2>1, <2>6 DEF Admit, LimitHolds, Types
  <2> QED
    BY <1>2, <2>4, <2>5, <2>7 DEF Admit, Strict, setup
<1>3. ASSUME NEW c \in Caller, Degrade(c)
      PROVE  LimiterInv'
  <2>1. Cardinality(InFlight') = Cardinality(InFlight) + 1
    BY <1>3, <1>s, TakesOff DEF Degrade, Move
  <2>2. Types'
    BY <1>3, DayTyped DEF Degrade, Move, Types, Standing, setup
  <2> QED
    BY <1>3, <1>n, <2>1, <2>2 DEF Degrade, NoSlotLost, Strict, LimitHolds, Types
<1>4. ASSUME NEW c \in Caller, Refuse(c) \/ TimeOut(c)
      PROVE  LimiterInv'
  <2>1. InFlight' = InFlight
    BY <1>4, <1>s, StaysDown DEF Refuse, TimeOut, Return
  <2>2. Types'
    BY <1>4, LimiterConstants, DayTyped
       DEF Refuse, TimeOut, Return, Types, Standing, setup
  <2> QED
    BY <1>4, <2>1, <2>2 DEF Refuse, TimeOut, NoSlotLost, Strict, LimitHolds, setup
<1>5. ASSUME NEW c \in Caller, Poll(c)
      PROVE  LimiterInv'
  <2>1. Types'
    BY <1>5, DayTyped DEF Poll, Types, Standing, setup
  <2> QED
    BY <1>5, <2>1 DEF Poll, InFlight, NoSlotLost, Strict, LimitHolds, setup
<1>6. ASSUME NEW c \in Caller, NEW u \in 0 .. MaxUse, Release(c, u)
      PROVE  LimiterInv'
  <2>1. Cardinality(InFlight') = Cardinality(InFlight) - 1
    BY <1>6, <1>s, Lands DEF Release, Return
  <2>2. Types'
    <3>1. caller' \in [Caller -> Standing] /\ need' \in [Caller -> 0 .. MaxTokens]
      BY <1>6, LimiterConstants DEF Release, Return, Types, Standing
    <3>2. concurrent' \in Nat
      BY <1>6 DEF Release, Types
    <3>3. UsedToday \in Nat /\ UsedToday + u \in Nat
      BY LimiterConstants DEF Types, UsedToday
    <3>4. dayTokens' \in Nat /\ dayOver' \in BOOLEAN
      <4>1. dayTokens \in Nat /\ dayOver \in BOOLEAN
        BY DEF Types
      <4> QED
        BY <1>6, <3>3, <4>1, Zenon DEF Release
    <3>5. overdrawn' \in BOOLEAN
      BY <1>6, Zenon DEF Release, Types
    <3> QED
      BY <1>6, <3>1, <3>2, <3>4, <3>5 DEF Release, Types, setup
  <2>3. c \in InFlight
    BY <1>6 DEF Release
  <2>4. Cardinality(InFlight) > 0
    BY <2>3, InFlightFinite, FS_EmptySet
  <2> QED
    <3>1. concurrent' = (IF concurrent > 0 THEN concurrent - 1 ELSE 0)
          /\ loose' = loose /\ enabled' = enabled
      BY <1>6 DEF Release, setup
    <3>2. concurrent \in Nat
      BY DEF Types
    <3>3. NoSlotLost'
      BY <1>n, <2>1, <2>4, <3>1, <3>2 DEF NoSlotLost
    <3>4. LimitHolds'
      BY <1>n, <2>1, <2>4, <3>1, <3>2, LimiterConstants DEF LimitHolds
    <3>5. Strict'
      BY <3>1 DEF Strict
    <3> QED
      BY <2>2, <3>3, <3>4, <3>5
<1>7. ASSUME NEW n \in 1 .. MaxConcurrent, NEW on \in BOOLEAN, Configure(n, on)
      PROVE  LimiterInv'
  BY <1>7, LimiterConstants
     DEF Configure, Types, InFlight, NoSlotLost, Strict, LimitHolds
<1>8. ASSUME Reset
      PROVE  LimiterInv'
  <2>1. InFlight' = InFlight
    BY <1>8 DEF Reset, InFlight
  <2>2. InFlight = {} => Cardinality(InFlight) = 0
    BY FS_EmptySet
  <2>3. Types'
    <3>1. loose' \in BOOLEAN
      BY <1>8, Zenon DEF Reset
    <3>2. requests' \in 0 .. RequestsPerMinute
      BY <1>8, LimiterConstants DEF Reset
    <3> QED
      BY <1>8, <3>1, <3>2 DEF Reset, Types, setup
  <2> QED
    BY <1>8, <1>n, LimiterConstants, <2>1, <2>2, <2>3
       DEF Reset, NoSlotLost, Strict, LimitHolds, setup, Types
<1>9. CASE Refill
  BY <1>9, LimiterConstants
     DEF Refill, setup, Types, InFlight, NoSlotLost, Strict, LimitHolds
<1>10. CASE EndOfDay
  BY <1>10 DEF EndOfDay, setup, Types, InFlight, NoSlotLost, Strict, LimitHolds
<1>11. ASSUME NEW s \in {"block", "reject", "degrade"}, SetStrategy(s)
       PROVE  LimiterInv'
  BY <1>11 DEF SetStrategy, Types, InFlight, NoSlotLost, Strict, LimitHolds
<1>12. CASE UNCHANGED limiterVars
  BY <1>12 DEF limiterVars, Types, InFlight, NoSlotLost, Strict, LimitHolds
<1> QED
  BY <1>1, <1>2, <1>3, <1>4, <1>5, <1>6, <1>7, <1>8, <1>9, <1>10, <1>11,
     <1>12 DEF LimiterNext, Request

-----------------------------------------------------------------------------
LEMMA LimiterInvariance == LimiterSpec => []LimiterInv
  BY LimiterInitInv, LimiterStepInv, PTL DEF LimiterSpec

LEMMA LimiterTyped == LimiterInv => LimiterTypeOK
<1> SUFFICES ASSUME LimiterInv PROVE LimiterTypeOK
  OBVIOUS
<1>1. concurrent \in Nat /\ concurrent <= Cardinality(InFlight)
  BY DEF LimiterInv, Types, NoSlotLost
<1>2. Cardinality(Caller) \in Nat
  BY FS_CardinalityType, LimiterAssumption DEF LimiterAssumption
<1>3. concurrent \in 0 .. Cardinality(Caller)
  BY <1>1, <1>2, InFlightFinite
<1> QED
  BY <1>3 DEF LimiterInv, Types, Standing, LimiterTypeOK

(* The counters of check, release and reset stay in their ranges: none is  *)
(* negative, and no more requests are counted than there are callers.      *)
THEOREM LimiterTyping == LimiterSpec => []LimiterTypeOK
  BY LimiterTyped, LimiterInvariance, PTL

(* No slot is ever lost: release, which does not know who was counted, and *)
(* reset, which forgets the requests under way, never leave more requests  *)
(* counted than are under way, under any strategy and any reconfiguration. *)
THEOREM SlotsComeBack == LimiterSpec => []NoSlotLost
  BY LimiterInvariance, PTL DEF LimiterInv

(* The limit of requests under way holds as long as no request was         *)
(* degraded, and no limit disabled or forgotten by reset.                  *)
THEOREM ConcurrencyIsLimited == LimiterSpec => []LimitHolds
  BY LimiterInvariance, PTL DEF LimiterInv

(* The day's tokens: those that were counted, and those the requests under *)
(* way have declared, as long as each keeps to what it declared.           *)
Budget == TokensPerDay + Overshoot

BudgetInv == ~loose /\ ~overdrawn => dayTokens + Total(need, InFlight) <= Budget

LEMMA BudgetTyped ==
    /\ TokensPerDay \in Nat /\ Overshoot \in Nat /\ Budget \in Nat
    /\ \A n \in Nat : n <= MaxConcurrent - 1 => n * MaxTokens <= Overshoot
<1>1. TokensPerDay \in Nat /\ MaxConcurrent - 1 \in Nat /\ MaxTokens \in Nat
  BY LimiterAssumption, LimiterConstants DEF LimiterAssumption
<1>2. \A m, n, k \in Nat : n <= m => n * k <= m * k
  <2> SUFFICES ASSUME NEW m \in Nat, NEW n \in Nat, NEW k \in Nat, n <= m
               PROVE  n * k <= m * k
    OBVIOUS
  <2>1. m - n \in Nat /\ (m - n) * k \in Nat
    OBVIOUS
  <2>2. m * k = n * k + (m - n) * k
    OBVIOUS
  <2> QED
    BY <2>1, <2>2
<1>3. \A m, k \in Nat : m * k \in Nat
  OBVIOUS
<1> QED
  BY <1>1, <1>2, <1>3 DEF Overshoot, Budget

LEMMA DeclaredTyped ==
    ASSUME LimiterInv
    PROVE  /\ IsFiniteSet(InFlight) /\ \A c \in Caller : need[c] \in 0 .. MaxTokens
           /\ Total(need, InFlight) \in Nat
           /\ Total(need, InFlight) <= Cardinality(InFlight) * MaxTokens
<1>1. IsFiniteSet(InFlight) /\ MaxTokens \in Nat
  BY InFlightFinite, LimiterConstants
<1>2. \A c \in Caller : need[c] \in 0 .. MaxTokens
  BY DEF LimiterInv, Types
<1>3. \A c \in InFlight : need[c] \in 0 .. MaxTokens /\ need[c] \in Nat
  BY <1>2 DEF InFlight
<1> QED
  BY <1>1, <1>2, <1>3, TotalIsNumber, TotalBound

LEMMA BudgetStep ==
    ASSUME LimiterInv, BudgetInv, [LimiterNext]_limiterVars PROVE BudgetInv'
<1> SUFFICES ASSUME ~loose', ~overdrawn' PROVE dayTokens' + Total(need', InFlight') <= Budget
  BY DEF BudgetInv, Budget, Overshoot
<1>t. /\ caller \in [Caller -> Standing] /\ need \in [Caller -> 0 .. MaxTokens]
      /\ dayTokens \in Nat /\ dayOver \in BOOLEAN
      /\ loose \in BOOLEAN /\ overdrawn \in BOOLEAN
      /\ concurrent \in Nat /\ limit \in 1 .. MaxConcurrent
  BY DEF LimiterInv, Types
<1>d. /\ IsFiniteSet(InFlight) /\ Total(need, InFlight) \in Nat
      /\ Total(need, InFlight) <= Cardinality(InFlight) * MaxTokens
  BY DeclaredTyped
<1>u. UsedToday \in Nat /\ UsedToday <= dayTokens
  BY <1>t DEF UsedToday
<1>k. ASSUME ~loose, ~overdrawn, InFlight' = InFlight, dayTokens' \in Nat, dayTokens' <= dayTokens,
             \A c \in InFlight : need'[c] = need[c]
      PROVE  dayTokens' + Total(need', InFlight') <= Budget
  <2>1. Total(need', InFlight) = Total(need, InFlight)
    BY <1>d, <1>k, TotalKept
  <2>2. dayTokens + Total(need, InFlight) <= Budget
    BY <1>k DEF BudgetInv
  <2> QED
    BY <1>d, <1>k, <1>t, <2>1, <2>2, BudgetTyped
<1>c. ASSUME NEW c \in Caller, CheckDay(c) PROVE dayTokens' \in Nat /\ dayTokens' <= dayTokens
  BY <1>c, <1>t, <1>u DEF CheckDay
<1>1. ASSUME NEW c \in Caller, NEW n \in 0 .. MaxTokens, NEW b \in BOOLEAN, Ask(c, n, b)
      PROVE  dayTokens' + Total(need', InFlight') <= Budget
  <2>1. InFlight' = InFlight /\ c \notin InFlight
    BY <1>1, <1>t, StaysDown DEF Ask, InFlight
  <2>2. \A e \in InFlight : need'[e] = need[e]
    BY <1>1, <1>t, <2>1 DEF Ask, InFlight
  <2> QED
    BY <1>1, <1>k, <1>t, <2>1, <2>2 DEF Ask
<1>2. ASSUME NEW c \in Caller, Admit(c)
      PROVE  dayTokens' + Total(need', InFlight') <= Budget
  <2>1. /\ ~loose /\ ~overdrawn /\ enabled /\ need' = need
        /\ ~Crowded(c) /\ UsedToday + need[c] <= TokensPerDay
    BY <1>2 DEF Admit, Move, Allowed, LimiterInv, Strict
  <2>2. dayTokens' = UsedToday
    BY <1>2, <2>1 DEF Admit, CheckDay
  <2>3. InFlight' = InFlight \cup {c} /\ c \notin InFlight
    BY <1>2, <1>t DEF Admit, Move, InFlight
  <2>4. need[c] \in Nat /\ \A e \in InFlight \cup {c} : need[e] \in Nat
    BY <1>t, LimiterConstants DEF InFlight
  <2>5. Total(need, InFlight') = need[c] + Total(need, InFlight)
    BY <1>d, <2>3, <2>4, TotalGrows
  <2>6. Cardinality(InFlight) \in Nat /\ Cardinality(InFlight) <= MaxConcurrent - 1
    BY <1>t, <2>1, InFlightFinite, LimiterConstants DEF Crowded, LimiterInv, LimitHolds
  <2>7. Cardinality(InFlight) * MaxTokens <= Overshoot
    BY <2>6, BudgetTyped
  <2>8. Cardinality(InFlight) * MaxTokens \in Nat
    BY <2>6, LimiterConstants
  <2>9. Total(need, InFlight) <= Overshoot
    BY <1>d, <2>7, <2>8, BudgetTyped
  <2> QED
    BY <1>d, <1>u, <2>1, <2>2, <2>4, <2>5, <2>9, BudgetTyped DEF Budget
<1>3. ASSUME NEW c \in Caller, Refuse(c) \/ TimeOut(c) \/ Poll(c)
      PROVE  dayTokens' + Total(need', InFlight') <= Budget
  <2>1. dayTokens' \in Nat /\ dayTokens' <= dayTokens /\ ~loose /\ ~overdrawn
    BY <1>3, <1>c DEF Refuse, TimeOut, Poll
  <2>2. InFlight' = InFlight
    BY <1>3, <1>t DEF Refuse, TimeOut, Poll, Return, InFlight
  <2>3. \A e \in InFlight : need'[e] = need[e]
    BY <1>3, <1>t DEF Refuse, TimeOut, Poll, Return, InFlight
  <2> QED
    BY <1>k, <2>1, <2>2, <2>3
<1>4. ASSUME NEW c \in Caller, NEW n \in 0 .. MaxUse, Release(c, n)
      PROVE  dayTokens' + Total(need', InFlight') <= Budget
  <2>0. need[c] \in Nat /\ n \in Nat /\ ~(n > need[c])
    <3>1. need[c] \in Nat /\ n \in Nat
      BY <1>t, LimiterConstants
    <3>2. ~(n > need[c])
      BY <1>4, Zenon DEF Release
    <3> QED
      BY <3>1, <3>2
  <2>1. /\ c \in InFlight /\ n <= need[c] /\ ~loose /\ ~overdrawn
        /\ InFlight' = InFlight \ {c} /\ \A e \in InFlight' : need'[e] = need[e]
    BY <1>4, <1>t, <2>0 DEF Release, Return, InFlight
  <2>2. dayTokens' \in Nat /\ dayTokens' <= dayTokens + n
    BY <1>4, <1>t, <1>u, LimiterConstants DEF Release
  <2>3. IsFiniteSet(InFlight') /\ c \notin InFlight' /\ InFlight' \cup {c} = InFlight
    BY <1>d, <2>1, FS_RemoveElement
  <2>4. need[c] \in Nat /\ \A e \in InFlight : need[e] \in Nat
    BY <1>t, LimiterConstants DEF InFlight
  <2>5. /\ Total(need', InFlight') = Total(need, InFlight')
        /\ Total(need, InFlight) = need[c] + Total(need, InFlight')
        /\ Total(need, InFlight') \in Nat
    <3> DEFINE S == InFlight'
    <3>1. /\ IsFiniteSet(S) /\ c \notin S /\ S \cup {c} = InFlight
          /\ \A e \in S : need'[e] = need[e]
      BY <2>1, <2>3
    <3>2. \A e \in S \cup {c} : need[e] \in Nat
      BY <2>4, <3>1
    <3> HIDE DEF S
    <3>3. Total(need', S) = Total(need, S)
      BY <3>1, TotalKept
    <3>4. Total(need, S \cup {c}) = need[c] + Total(need, S) /\ Total(need, S) \in Nat
      BY <3>1, <3>2, TotalGrows, TotalIsNumber
    <3> QED
      BY <3>1, <3>3, <3>4 DEF S
  <2>6. dayTokens + Total(need, InFlight) <= Budget
    BY <2>1 DEF BudgetInv
  <2> QED
    BY <1>t, <2>1, <2>2, <2>4, <2>5, <2>6, BudgetTyped
<1>5. CASE Reset
  <2>1. InFlight = {} /\ InFlight' = {} /\ dayTokens' = 0
    BY <1>5, <1>t DEF Reset, InFlight
  <2> QED
    BY <2>1, TotalOfNone, BudgetTyped
<1>6. CASE (\E n \in 1 .. MaxConcurrent, on \in BOOLEAN : Configure(n, on)) \/ Refill \/ EndOfDay
           \/ (\E s \in {"block", "reject", "degrade"} : SetStrategy(s)) \/ UNCHANGED limiterVars
  <2>1. ~loose /\ ~overdrawn /\ dayTokens' = dayTokens /\ need' = need /\ caller' = caller
    BY <1>6, <1>t DEF Configure, Refill, EndOfDay, SetStrategy, limiterVars
  <2>2. InFlight' = InFlight
    BY <2>1 DEF InFlight
  <2> QED
    BY <1>k, <1>t, <2>1, <2>2
<1>7. ASSUME NEW c \in Caller, Degrade(c) PROVE FALSE
  BY <1>7 DEF Degrade
<1> QED
  BY <1>1, <1>2, <1>3, <1>4, <1>5, <1>6, <1>7 DEF LimiterNext, Request

(* The day's tokens, and all that the requests under way may still use.    *)
UseBudget == TokensPerDay + MaxConcurrent * MaxUse

UseInv == ~loose => dayTokens + Cardinality(InFlight) * MaxUse <= UseBudget

LEMMA Products ==
    /\ \A m, k \in Nat : m * k \in Nat
    /\ \A m, n, k \in Nat : n <= m => n * k <= m * k
    /\ \A m, k \in Nat : m > 0 => (m - 1) * k + k = m * k
<1>1. \A m, n, k \in Nat : n <= m => n * k <= m * k
  <2> SUFFICES ASSUME NEW m \in Nat, NEW n \in Nat, NEW k \in Nat, n <= m
               PROVE  n * k <= m * k
    OBVIOUS
  <2>1. m - n \in Nat /\ (m - n) * k \in Nat /\ m * k = n * k + (m - n) * k
    OBVIOUS
  <2> QED
    BY <2>1
<1>2. \A m, k \in Nat : m * k \in Nat
  OBVIOUS
<1>3. \A m, k \in Nat : m > 0 => (m - 1) * k + k = m * k
  OBVIOUS
<1> QED
  BY <1>1, <1>2, <1>3

LEMMA UseStep ==
    ASSUME LimiterInv, UseInv, [LimiterNext]_limiterVars PROVE UseInv'
<1> DEFINE Within == dayTokens' + Cardinality(InFlight') * MaxUse <= UseBudget
           n == Cardinality(InFlight)
<1> SUFFICES ASSUME ~loose' PROVE Within
  BY DEF UseInv, UseBudget
<1>t. /\ caller \in [Caller -> Standing] /\ need \in [Caller -> 0 .. MaxTokens]
      /\ dayTokens \in Nat /\ dayOver \in BOOLEAN /\ loose \in BOOLEAN
      /\ concurrent \in Nat /\ limit \in 1 .. MaxConcurrent
  BY DEF LimiterInv, Types
<1>n. n \in Nat /\ n * MaxUse \in Nat /\ MaxUse \in Nat
  BY InFlightFinite, LimiterConstants, Products
<1>b. TokensPerDay \in Nat /\ MaxConcurrent * MaxUse \in Nat /\ UseBudget \in Nat
  <2>1. TokensPerDay \in Nat /\ MaxConcurrent * MaxUse \in Nat
    BY LimiterAssumption, LimiterConstants, Products DEF LimiterAssumption
  <2> QED
    BY <2>1 DEF UseBudget
<1>u. UsedToday \in Nat /\ UsedToday <= dayTokens
  BY <1>t DEF UsedToday
<1>k. ASSUME ~loose, InFlight' = InFlight, dayTokens' \in Nat, dayTokens' <= dayTokens
      PROVE  Within
  <2>1. dayTokens + n * MaxUse <= UseBudget
    BY <1>k DEF UseInv
  <2> QED
    BY <1>b, <1>k, <1>n, <1>t, <2>1
<1>1. ASSUME NEW c \in Caller, NEW m \in 0 .. MaxTokens, NEW b \in BOOLEAN, Ask(c, m, b)
      PROVE  Within
  <2>1. InFlight' = InFlight
    BY <1>1, <1>t, StaysDown DEF Ask
  <2> QED
    BY <1>1, <1>k, <1>t, <2>1 DEF Ask
<1>2. ASSUME NEW c \in Caller, Admit(c) PROVE Within
  <2>1. ~loose /\ enabled /\ ~Crowded(c) /\ UsedToday + need[c] <= TokensPerDay
    BY <1>2 DEF Admit, Allowed, LimiterInv, Strict
  <2>2. dayTokens' \in Nat /\ dayTokens' <= TokensPerDay
    <3>1. need[c] \in Nat
      BY <1>t, LimiterConstants
    <3> QED
      BY <1>2, <1>b, <1>u, <2>1, <3>1 DEF Admit, CheckDay
  <2>3. Cardinality(InFlight') = n + 1 /\ n + 1 <= MaxConcurrent
    <3>1. Cardinality(InFlight') = n + 1
      BY <1>2, <1>t, TakesOff DEF Admit, Move
    <3>2. concurrent = n /\ concurrent < limit
      BY <1>n, <1>t, <2>1 DEF Crowded, LimiterInv, LimitHolds
    <3> QED
      BY <1>n, <1>t, <3>1, <3>2, LimiterConstants
  <2>4. (n + 1) * MaxUse \in Nat /\ (n + 1) * MaxUse <= MaxConcurrent * MaxUse
    BY <1>n, <2>3, LimiterConstants, Products
  <2> QED
    BY <1>b, <2>2, <2>3, <2>4 DEF UseBudget
<1>3. ASSUME NEW c \in Caller, Refuse(c) \/ TimeOut(c) \/ Poll(c) PROVE Within
  <2>1. dayTokens' \in Nat /\ dayTokens' <= dayTokens /\ ~loose
    BY <1>3, <1>t, <1>u DEF Refuse, TimeOut, Poll, CheckDay
  <2>2. InFlight' = InFlight
    BY <1>3, <1>t DEF Refuse, TimeOut, Poll, Return, InFlight
  <2> QED
    BY <1>k, <2>1, <2>2
<1>4. ASSUME NEW c \in Caller, NEW used \in 0 .. MaxUse, Release(c, used) PROVE Within
  <2>1. c \in InFlight /\ ~loose /\ n > 0
    BY <1>4, <1>n, InFlightFinite, FS_EmptySet DEF Release
  <2>2. Cardinality(InFlight') = n - 1
    BY <1>4, <1>t, <2>1, Lands DEF Release, Return
  <2>3. dayTokens' \in Nat /\ dayTokens' <= dayTokens + MaxUse
    BY <1>4, <1>n, <1>t, <1>u DEF Release
  <2>4. (n - 1) * MaxUse \in Nat /\ (n - 1) * MaxUse + MaxUse = n * MaxUse
    BY <1>n, <2>1, Products
  <2>5. dayTokens + n * MaxUse <= UseBudget
    BY <2>1 DEF UseInv
  <2> QED
    BY <1>b, <1>n, <1>t, <2>2, <2>3, <2>4, <2>5
<1>5. CASE Reset
  <2>1. InFlight' = {} /\ dayTokens' = 0
    BY <1>5, <1>t DEF Reset, InFlight
  <2>2. Cardinality(InFlight') * MaxUse = 0
    BY <1>n, <2>1, FS_EmptySet
  <2> QED
    BY <1>b, <2>1, <2>2
<1>6. CASE (\E m \in 1 .. MaxConcurrent, on \in BOOLEAN : Configure(m, on)) \/ Refill \/ EndOfDay
           \/ (\E s \in {"block", "reject", "degrade"} : SetStrategy(s)) \/ UNCHANGED limiterVars
  <2>1. ~loose /\ dayTokens' = dayTokens /\ caller' = caller
    BY <1>6, <1>t DEF Configure, Refill, EndOfDay, SetStrategy, limiterVars
  <2>2. InFlight' = InFlight
    BY <2>1 DEF InFlight
  <2> QED
    BY <1>k, <1>t, <2>1, <2>2
<1>7. ASSUME NEW c \in Caller, Degrade(c) PROVE FALSE
  BY <1>7 DEF Degrade
<1> QED
  BY <1>1, <1>2, <1>3, <1>4, <1>5, <1>6, <1>7 DEF LimiterNext, Request

(* The day's limit is exceeded by no more than the requests let in under   *)
(* it at once really use; and, as long as each request keeps to what it    *)
(* declared, by no more than the other requests had declared.              *)
THEOREM DayIsBudgeted == LimiterSpec => []DayBudget
<1>1. LimiterInit => BudgetInv /\ UseInv
  <2> SUFFICES ASSUME LimiterInit PROVE BudgetInv /\ UseInv
    OBVIOUS
  <2>1. InFlight = {} /\ dayTokens = 0
    BY DEF LimiterInit, InFlight
  <2>2. BudgetInv
    BY <2>1, TotalOfNone, BudgetTyped DEF BudgetInv
  <2>3. TokensPerDay \in Nat /\ MaxConcurrent * MaxUse \in Nat /\ 0 * MaxUse = 0
    BY LimiterAssumption, LimiterConstants, Products DEF LimiterAssumption
  <2> QED
    BY <2>1, <2>2, <2>3, FS_EmptySet DEF UseInv, UseBudget
<1>2. LimiterInv /\ BudgetInv /\ UseInv /\ [LimiterNext]_limiterVars => (BudgetInv /\ UseInv)'
  BY BudgetStep, UseStep
<1>3. BudgetInv /\ UseInv => DayBudget
  <2>1. Total(need, InFlight) = MapThenSumSet(LAMBDA c : need[c], InFlight)
    BY Zenon DEF Total, MapThenSumSet, MapThenFoldSet
  <2> QED
    BY <2>1, Zenon DEF BudgetInv, UseInv, DayBudget, Budget, UseBudget
<1> QED
  BY <1>1, <1>2, <1>3, LimiterInvariance, PTL DEF LimiterSpec

-----------------------------------------------------------------------------
(* The cost tracker.  A comparison under way will still come to t, and     *)
(* find it exceeded: the i-th has t before it, with a sum that reaches it, *)
(* or has yet to compute the month's.                                      *)
WillFind(c, t) ==
    \/ c.period = "daily" /\ t.period = "monthly"
    \/ c.period = t.period /\ c.passed < t.amount /\ t.amount <= c.current

Due(t) == \E i \in 1 .. Len(stack) : WillFind(stack[i], t)

Overdue(t) == t \in thresholds \ (uncompared \cup triggered) /\ t.amount <= spent[t.period]

CostInv ==
    /\ CostTypeOK
    /\ spent["daily"] <= spent["monthly"]
    /\ \A t \in Threshold : alerts[t] = IF t \in triggered THEN 1 ELSE 0
    /\ \A t \in Threshold : Overdue(t) => Due(t)

LEMMA CostFacts ==
    /\ Threshold \subseteq [period : Period, amount : Nat]
    /\ MaxCost \in Nat /\ MaxDepth \in Nat /\ Cap \in [Period -> Nat]
    /\ \A t \in Threshold : t.period \in Period /\ t.amount \in Nat
    /\ \A s, t \in Threshold : s.period = t.period /\ s.amount = t.amount => s = t
    /\ Period = {"daily", "monthly"}
  BY CostAssumption DEF CostAssumption, Period

LEMMA ComparisonTyped ==
    \A c \in Comparison : c.period \in Period /\ c.current \in Nat /\ c.passed \in Int
  BY CostFacts DEF Comparison

(* A comparison that begins, on top of the others.                         *)
LEMMA Pushed ==
    ASSUME NEW s \in Seq(Comparison), NEW c \in Comparison
    PROVE  /\ <<c>> \o s \in Seq(Comparison)
           /\ Len(<<c>> \o s) = Len(s) + 1
           /\ (<<c>> \o s)[1] = c
           /\ \A i \in 1 .. Len(s) : (<<c>> \o s)[i + 1] = s[i]
<1>1. <<c>> \in Seq(Comparison) /\ Len(<<c>>) = 1 /\ <<c>>[1] = c
  OBVIOUS
<1>2. Len(s) \in Nat
  OBVIOUS
<1>3. /\ <<c>> \o s \in Seq(Comparison)
      /\ Len(<<c>> \o s) = 1 + Len(s)
      /\ \A i \in 1 .. 1 + Len(s) : (<<c>> \o s)[i] = IF i <= 1 THEN <<c>>[i] ELSE s[i - 1]
  BY <1>1, ConcatProperties
<1>4. \A i \in 1 .. Len(s) : i + 1 \in 1 .. 1 + Len(s) /\ ~(i + 1 <= 1) /\ (i + 1) - 1 = i
  BY <1>2
<1>5. \A i \in 1 .. Len(s) : (<<c>> \o s)[i + 1] = s[i]
  BY <1>3, <1>4
<1> QED
  BY <1>1, <1>2, <1>3, <1>5

(* The innermost comparison and those around it.                           *)
LEMMA Popped ==
    ASSUME NEW s \in Seq(Comparison), s # <<>>
    PROVE  /\ Head(s) \in Comparison /\ Head(s) = s[1] /\ Tail(s) \in Seq(Comparison)
           /\ Len(s) \in Nat \ {0} /\ Len(Tail(s)) = Len(s) - 1
           /\ \A i \in 1 .. Len(s) - 1 : Tail(s)[i] = s[i + 1]
<1>1. Len(s) \in Nat \ {0} /\ Head(s) = s[1]
  OBVIOUS
<1> QED
  BY <1>1, HeadTailProperties

LEMMA CostInitInv == CostInit => CostInv
<1> SUFFICES ASSUME CostInit PROVE CostInv
  OBVIOUS
<1>1. CostTypeOK
  BY CostFacts DEF CostInit, CostTypeOK
<1>2. spent["daily"] <= spent["monthly"]
  BY CostFacts DEF CostInit
<1> QED
  BY <1>1, <1>2 DEF CostInit, CostInv, Overdue

(* What spends no more and changes no comparison leaves nothing overdue.   *)
LEMMA StaysDue ==
    ASSUME CostInv, CostTypeOK',
           \A p \in Period : spent'[p] <= spent[p],
           \A t \in Threshold :
               t \in thresholds' \ (uncompared' \cup triggered') =>
                   t \in thresholds \ (uncompared \cup triggered),
           stack' = stack
    PROVE  \A t \in Threshold : Overdue(t)' => Due(t)'
<1> SUFFICES ASSUME NEW t \in Threshold, Overdue(t)' PROVE Due(t)
  BY DEF Due
<1>1. t.period \in Period /\ t.amount \in Nat
  BY CostFacts
<1>2. spent[t.period] \in Nat /\ spent'[t.period] \in Nat
  BY <1>1 DEF CostInv, CostTypeOK
<1>3. Overdue(t)
  BY <1>1, <1>2 DEF Overdue
<1> QED
  BY <1>3 DEF CostInv

LEMMA CostStepInv == CostInv /\ [CostNext]_costVars => CostInv'
<1> SUFFICES ASSUME CostInv, [CostNext]_costVars PROVE CostInv'
  OBVIOUS
<1> USE CostFacts
<1>t. CostTypeOK /\ (\A t \in Threshold : alerts[t] = IF t \in triggered THEN 1 ELSE 0)
      /\ stack \in Seq(Comparison)
      /\ spent["daily"] \in Nat /\ spent["monthly"] \in Nat /\ spent["daily"] <= spent["monthly"]
  BY DEF CostInv, CostTypeOK
<1>u. ASSUME spent' = spent PROVE spent'["daily"] <= spent'["monthly"]
  BY <1>t, <1>u
<1>1. ASSUME NEW cost \in 1 .. MaxCost, Record(cost) PROVE CostInv'
  <2> DEFINE c == [period |-> "daily", current |-> spent'["daily"], passed |-> -1]
  <2>1. spent' \in [Period -> Nat] /\ c \in Comparison
    BY <1>1, <1>t DEF Record, Added, CostTypeOK, Comparison
  <2>2. stack' = <<c>> \o stack /\ uncompared' = {}
        /\ UNCHANGED <<capOf, thresholds, triggered, alerts>>
    BY <1>1 DEF Record
  <2>3. c.period = "daily" /\ c.current = spent'["daily"] /\ c.passed = -1
    OBVIOUS
  <2> HIDE DEF c
  <2>4. stack' \in Seq(Comparison) /\ Len(stack') \in Nat \ {0} /\ stack'[1] = c
    BY <1>t, <2>1, <2>2, Pushed
  <2>5. CostTypeOK'
    BY <1>t, <2>1, <2>2, <2>4 DEF CostTypeOK
  <2>6. ASSUME NEW t \in Threshold, Overdue(t)' PROVE Due(t)'
    <3>1. WillFind(c, t)
      BY <2>1, <2>3, <2>6 DEF WillFind, Overdue
    <3> QED
      BY <2>4, <3>1 DEF Due
  <2>7. spent'["daily"] <= spent'["monthly"]
    BY <1>1, <1>t DEF Record, Added
  <2> QED
    BY <1>t, <2>7, <2>2, <2>5, <2>6 DEF CostInv
<1>2. CASE Alert
  <2> DEFINE t == CHOOSE x \in Exceeded : \A y \in Exceeded : x.amount <= y.amount
             c == [Head(stack) EXCEPT !.passed = t.amount]
  <2>1. stack # <<>> /\ Exceeded # {} /\ Exceeded \subseteq Threshold
    BY <1>2, <1>t DEF Alert, Exceeded, CostTypeOK
  <2>2. t \in Exceeded /\ \A y \in Exceeded : t.amount <= y.amount
    <3>1. {x.amount : x \in Exceeded} \subseteq Nat /\ {x.amount : x \in Exceeded} # {}
      BY <2>1
    <3>2. \E x \in Exceeded : \A y \in Exceeded : x.amount <= y.amount
      <4>1. PICK m \in {x.amount : x \in Exceeded} : \A n \in {x.amount : x \in Exceeded} : m <= n
        BY <3>1, LeastNumber
      <4>2. PICK x \in Exceeded : x.amount = m
        OBVIOUS
      <4> QED
        BY <4>1, <4>2
    <3> QED
      BY <3>2
  <2>3. /\ triggered' = triggered \cup {t} /\ alerts' = [alerts EXCEPT ![t] = @ + 1]
        /\ stack' = <<c>> \o Tail(stack)
        /\ UNCHANGED <<spent, capOf, thresholds, uncompared>>
    BY <1>2 DEF Alert, Passed
  <2> HIDE DEF t
  <2>4. /\ Head(stack) \in Comparison /\ Head(stack) = stack[1]
        /\ Tail(stack) \in Seq(Comparison)
        /\ Len(stack) \in Nat \ {0} /\ Len(Tail(stack)) = Len(stack) - 1
        /\ \A i \in 1 .. Len(stack) - 1 : Tail(stack)[i] = stack[i + 1]
    BY <1>t, <2>1, Popped
  <2>5. /\ t \in Threshold /\ t \in thresholds \ triggered /\ t.period = Head(stack).period
        /\ t.amount \in Nat
    BY <2>1, <2>2 DEF Exceeded
  <2>6. c \in Comparison /\ c.period = Head(stack).period /\ c.current = Head(stack).current
        /\ c.passed = t.amount
    BY <2>4, <2>5 DEF Comparison
  <2> HIDE DEF c
  <2>7. /\ stack' \in Seq(Comparison) /\ Len(stack') = Len(stack) /\ stack'[1] = c
        /\ \A i \in 1 .. Len(stack) - 1 : stack'[i + 1] = stack[i + 1]
    BY <2>3, <2>4, <2>6, Pushed
  <2>8. \A i \in 2 .. Len(stack) : stack'[i] = stack[i]
    <3> SUFFICES ASSUME NEW i \in 2 .. Len(stack) PROVE stack'[i] = stack[i]
      OBVIOUS
    <3>1. i - 1 \in 1 .. Len(stack) - 1 /\ (i - 1) + 1 = i
      BY <2>4
    <3> QED
      BY <2>7, <3>1
  <2>9. /\ alerts' \in [Threshold -> Nat]
        /\ \A x \in Threshold : alerts'[x] = IF x \in triggered' THEN 1 ELSE 0
    BY <1>t, <2>3, <2>5 DEF CostTypeOK
  <2>10. CostTypeOK'
    BY <1>t, <2>3, <2>5, <2>7, <2>9 DEF CostTypeOK
  <2>11. ASSUME NEW x \in Threshold, Overdue(x)' PROVE Due(x)'
    <3>1. x # t /\ Overdue(x) /\ x \in thresholds \ triggered
      BY <2>3, <2>11 DEF Overdue
    <3>2. PICK i \in 1 .. Len(stack) : WillFind(stack[i], x)
      BY <3>1 DEF CostInv, Due
    <3>3. CASE i = 1
      <4>1. CASE Head(stack).period = "daily" /\ x.period = "monthly"
        BY <2>4, <2>6, <2>7, <4>1 DEF Due, WillFind
      <4>2. CASE Head(stack).period = x.period
        <5>0. Head(stack).passed < x.amount /\ x.amount <= Head(stack).current
          BY <2>4, <3>2, <3>3, <4>2 DEF WillFind
        <5>1. x \in Exceeded
          BY <3>1, <4>2, <5>0 DEF Exceeded
        <5>2. t.amount <= x.amount /\ t.amount # x.amount
          BY <2>2, <2>5, <3>1, <4>2, <5>1
        <5>3. t.amount < x.amount /\ x.amount <= c.current /\ c.period = x.period
          BY <2>5, <2>6, <4>2, <5>0, <5>2
        <5> QED
          BY <2>4, <2>6, <2>7, <5>3 DEF Due, WillFind
      <4> QED
        BY <2>4, <3>2, <3>3, <4>1, <4>2 DEF WillFind
    <3>4. CASE i # 1
      <4>1. i \in 2 .. Len(stack) /\ i \in 1 .. Len(stack')
        BY <2>4, <2>7, <3>4
      <4> QED
        BY <2>8, <3>2, <4>1 DEF Due
    <3> QED
      BY <3>3, <3>4
  <2> QED
    BY <1>u, <2>3, <2>9, <2>10, <2>11 DEF CostInv
<1>3. CASE NextPeriod
  <2>1. /\ stack # <<>> /\ Exceeded = {}
        /\ UNCHANGED <<spent, capOf, thresholds, triggered, alerts, uncompared>>
    BY <1>3 DEF NextPeriod
  <2>2. /\ Head(stack) \in Comparison /\ Head(stack) = stack[1]
        /\ Tail(stack) \in Seq(Comparison)
        /\ Len(stack) \in Nat \ {0} /\ Len(Tail(stack)) = Len(stack) - 1
        /\ \A i \in 1 .. Len(stack) - 1 : Tail(stack)[i] = stack[i + 1]
    BY <1>t, <2>1, Popped
  <2>3. \A x \in Threshold : x.period = Head(stack).period /\ Overdue(x) =>
            ~WillFind(Head(stack), x)
    BY <2>1 DEF Exceeded, Overdue, WillFind
  <2>4. ASSUME NEW x \in Threshold, Overdue(x), Head(stack).period = "monthly" \/ x.period = "daily"
        PROVE  \E i \in 1 .. Len(stack) - 1 : WillFind(Tail(stack)[i], x)
    <3>1. PICK i \in 1 .. Len(stack) : WillFind(stack[i], x)
      BY <2>4 DEF CostInv, Due
    <3>2. i # 1
      BY <2>2, <2>3, <2>4, <3>1 DEF WillFind
    <3>3. i - 1 \in 1 .. Len(stack) - 1 /\ (i - 1) + 1 = i
      BY <2>2, <3>2
    <3> QED
      BY <2>2, <3>1, <3>3
  <2>5. CASE Head(stack).period = "daily"
    <3> DEFINE c == [period |-> "monthly", current |-> spent["monthly"], passed |-> -1]
    <3>1. c \in Comparison /\ c.period = "monthly" /\ c.current = spent["monthly"] /\ c.passed = -1
      BY <1>t DEF Comparison, CostTypeOK
    <3>2. stack' = <<c>> \o Tail(stack)
      BY <1>3, <2>5 DEF NextPeriod
    <3> HIDE DEF c
    <3>3. /\ stack' \in Seq(Comparison) /\ Len(stack') = Len(stack) /\ stack'[1] = c
          /\ \A i \in 1 .. Len(stack) - 1 : stack'[i + 1] = Tail(stack)[i]
      BY <2>2, <3>1, <3>2, Pushed
    <3>4. CostTypeOK'
      BY <1>t, <2>1, <3>3 DEF CostTypeOK
    <3>5. ASSUME NEW x \in Threshold, Overdue(x) PROVE Due(x)'
      <4>1. CASE x.period = "daily"
        <5>1. PICK i \in 1 .. Len(stack) - 1 : WillFind(Tail(stack)[i], x)
          BY <2>4, <3>5, <4>1
        <5>2. i + 1 \in 1 .. Len(stack') /\ stack'[i + 1] = Tail(stack)[i]
          BY <2>2, <3>3
        <5> QED
          BY <5>1, <5>2 DEF Due
      <4>2. CASE x.period = "monthly"
        <5>1. WillFind(c, x)
          BY <3>1, <3>5, <4>2 DEF WillFind, Overdue
        <5> QED
          BY <2>2, <3>3, <5>1 DEF Due
      <4> QED
        BY <4>1, <4>2
    <3>6. \A x \in Threshold : Overdue(x)' => Overdue(x)
      BY <2>1 DEF Overdue
    <3> QED
      BY <1>t, <2>1, <3>4, <3>5, <3>6 DEF CostInv
  <2>6. CASE Head(stack).period = "monthly"
    <3>1. stack' = Tail(stack)
      BY <1>3, <2>6 DEF NextPeriod
    <3>2. CostTypeOK'
      BY <1>t, <2>1, <2>2, <3>1 DEF CostTypeOK
    <3>3. \A x \in Threshold : Overdue(x)' => Due(x)'
      BY <2>1, <2>2, <2>4, <2>6, <3>1 DEF Overdue, Due
    <3> QED
      BY <1>t, <2>1, <3>2, <3>3 DEF CostInv
  <2> QED
    BY <2>2, <2>5, <2>6, ComparisonTyped
<1>4. ASSUME NEW t \in Threshold, AddThreshold(t) PROVE CostInv'
  <2>1. CostTypeOK' /\ triggered' = triggered /\ alerts' = alerts
    BY <1>4, <1>t DEF AddThreshold, CostTypeOK
  <2>2. \A p \in Period : spent'[p] <= spent[p]
    BY <1>4, <1>t DEF AddThreshold, CostTypeOK
  <2>3. \A x \in Threshold : Overdue(x)' => Due(x)'
    BY <1>4, <2>1, <2>2, StaysDue DEF AddThreshold
  <2>4. spent' = spent
    BY <1>4 DEF AddThreshold
  <2> QED
    BY <1>t, <1>u, <2>1, <2>3, <2>4 DEF CostInv
<1>5. ASSUME NEW periods \in SUBSET Period, ResetThresholds(periods) PROVE CostInv'
  <2> DEFINE armed == {t \in thresholds : t.period \in periods}
  <2>1. /\ triggered' = triggered \ armed
        /\ alerts' = [t \in Threshold |-> IF t \in armed THEN 0 ELSE alerts[t]]
        /\ uncompared' = uncompared \cup armed
        /\ UNCHANGED <<spent, capOf, thresholds, stack>> /\ armed \subseteq thresholds
    BY <1>5 DEF ResetThresholds
  <2> HIDE DEF armed
  <2>2. CostTypeOK'
    BY <1>t, <2>1 DEF CostTypeOK
  <2>3. \A p \in Period : spent'[p] <= spent[p]
    BY <1>t, <2>1 DEF CostTypeOK
  <2>4. \A x \in Threshold : Overdue(x)' => Due(x)'
    BY <2>1, <2>2, <2>3, StaysDue
  <2>5. \A x \in Threshold : alerts'[x] = IF x \in triggered' THEN 1 ELSE 0
    BY <1>t, <2>1
  <2> QED
    BY <1>u, <2>1, <2>2, <2>4, <2>5 DEF CostInv
<1>6. ASSUME NEW p \in Period, NEW amount \in 0 .. Cap[p], SetLimit(p, amount)
      PROVE CostInv'
  <2>1. CostTypeOK' /\ UNCHANGED <<spent, thresholds, triggered, alerts, stack, uncompared>>
    BY <1>6, <1>t DEF SetLimit, CostTypeOK
  <2>2. \A q \in Period : spent'[q] <= spent[q]
    BY <1>t, <2>1 DEF CostTypeOK
  <2>3. \A x \in Threshold : Overdue(x)' => Due(x)'
    BY <2>1, <2>2, StaysDue
  <2> QED
    BY <1>t, <1>u, <2>1, <2>3 DEF CostInv
(* Records are cleared, days and months end: less is spent.                *)
<1>7. ASSUME spent' \in [Period -> Nat], spent'["daily"] <= spent'["monthly"],
             \A p \in Period : spent'[p] <= spent[p],
             UNCHANGED <<capOf, thresholds, triggered, alerts, stack, uncompared>>
      PROVE  CostInv'
  <2>1. CostTypeOK'
    BY <1>7, <1>t DEF CostTypeOK
  <2>2. \A x \in Threshold : Overdue(x)' => Due(x)'
    BY <1>7, <2>1, StaysDue
  <2> QED
    BY <1>7, <1>t, <2>1, <2>2 DEF CostInv
<1>8. ASSUME NEW all \in BOOLEAN, ClearRecords(all) PROVE CostInv'
  <2>1. /\ spent' \in [Period -> Nat] /\ spent'["daily"] <= spent'["monthly"]
        /\ \A p \in Period : spent'[p] <= spent[p]
    BY <1>8, <1>t DEF ClearRecords, CostTypeOK
  <2> QED
    BY <1>7, <1>8, <2>1 DEF ClearRecords
<1>9. CASE NextDay
  <2>1. /\ spent' \in [Period -> Nat] /\ spent'["daily"] <= spent'["monthly"]
        /\ \A p \in Period : spent'[p] <= spent[p]
    BY <1>9, <1>t DEF NextDay, CostTypeOK
  <2> QED
    BY <1>7, <1>9, <2>1 DEF NextDay
<1>10. CASE NextMonth
  <2>1. /\ spent' \in [Period -> Nat] /\ spent'["daily"] <= spent'["monthly"]
        /\ \A p \in Period : spent'[p] <= spent[p]
    BY <1>10, <1>t DEF NextMonth, CostTypeOK
  <2> QED
    BY <1>7, <1>10, <2>1 DEF NextMonth
<1>11. CASE UNCHANGED costVars
  BY <1>7, <1>11, <1>t DEF costVars, CostTypeOK
<1> QED
  BY <1>1, <1>2, <1>3, <1>4, <1>5, <1>6, <1>8, <1>9, <1>10, <1>11 DEF CostNext

LEMMA CostInvariance == CostSpec => []CostInv
  BY CostInitInv, CostStepInv, PTL DEF CostSpec

(* Sums, thresholds and comparisons keep their types.                      *)
THEOREM CostTyping == CostSpec => []CostTypeOK
  BY CostInvariance, PTL DEF CostInv

(* For any thresholds, costs and handlers within handlers: a threshold     *)
(* gives one alert until it is armed again, and when no comparison is      *)
(* under way it has given it if the spending had reached it at the last    *)
(* record.                                                                 *)
THEOREM AlertsAreTrue == CostSpec => []AlertsMatchSpending
<1>1. CostInv => AlertsMatchSpending
  <2> SUFFICES ASSUME CostInv PROVE AlertsMatchSpending
    OBVIOUS
  <2>1. ASSUME NEW t \in Threshold PROVE alerts[t] <= 1
    <3>1. alerts[t] = IF t \in triggered THEN 1 ELSE 0
      BY DEF CostInv
    <3> QED
      BY <3>1
  <2>2. ASSUME stack = <<>>, NEW t \in thresholds \ uncompared, spent[t.period] >= t.amount
        PROVE  t \in triggered /\ alerts[t] = 1
    <3>1. t \in Threshold /\ ~Due(t)
      BY <2>2 DEF CostInv, CostTypeOK, Due
    <3>2. t.amount <= spent[t.period]
      BY <2>2, <3>1, CostFacts DEF CostInv, CostTypeOK
    <3>3. t \in triggered
      BY <2>2, <3>1, <3>2 DEF CostInv, Overdue
    <3> QED
      BY <3>1, <3>3 DEF CostInv
  <2> QED
    BY <2>1, <2>2 DEF AlertsMatchSpending
<1> QED
  BY <1>1, CostInvariance, PTL

-----------------------------------------------------------------------------
(* The memory cache.  Its keys are in the order of their last use: since   *)
(* the use of one, all behind it were used.                                *)
InOrderOfUse ==
    \A i, j \in 1 .. Len(order) : i < j => order[j] \in since[order[i]]

MemoryCacheInv == MemoryCacheTypeOK /\ Len(order) <= MaxSize /\ InOrderOfUse

(* What a step may evict.                                                  *)
Evicting ==
    /\ Len(order') <= MaxSize
    /\ \A k \in Cached :
         k \notin Cached' /\ Len(order') >= Len(order) =>
             /\ Len(order) = MaxSize
             /\ Cached \ {k} \subseteq since[k]

LEMMA OrderTyped ==
    ASSUME NEW list \in Seq(CacheKey)
    PROVE  /\ Len(list) \in Nat /\ DOMAIN list = 1 .. Len(list)
           /\ ToSet(list) = {list[i] : i \in 1 .. Len(list)} /\ ToSet(list) \subseteq CacheKey
           /\ \A i \in 1 .. Len(list) : list[i] \in CacheKey
           /\ IsInjective(list) <=> \A i, j \in 1 .. Len(list) : i # j => list[i] # list[j]
  BY DEF ToSet, IsInjective

(* The same, of what is left of the order.                                 *)
LEMMA OrderWithout ==
    ASSUME MemoryCacheInv, NEW set
    PROVE  LET left == Without(order, set)
           IN  /\ left \in Seq(CacheKey) /\ IsInjective(left) /\ Len(left) <= Len(order)
               /\ ToSet(left) = Cached \ set
               /\ Cached \cap set = {} => left = order
               /\ Cached \cap set # {} => Len(left) < Len(order)
               /\ \A i, j \in 1 .. Len(left) : i < j => left[j] \in since[left[i]]
<1> DEFINE left == Without(order, set)
<1>t. order \in Seq(CacheKey) /\ IsInjective(order) /\ Len(order) \in Nat
  BY OrderTyped DEF MemoryCacheInv, MemoryCacheTypeOK
<1>1. /\ left \in Seq(CacheKey)
      /\ ToSet(left) = ToSet(order) \ set
      /\ ToSet(order) \cap set = {} => left = order
      /\ ToSet(order) \cap set # {} => Len(left) < Len(order)
      /\ \A i, j \in 1 .. Len(left) : i < j =>
             \E p, q \in 1 .. Len(order) : p < q /\ left[i] = order[p] /\ left[j] = order[q]
  BY <1>t, WithoutProperties
<1> HIDE DEF left
<1>2. Len(left) <= Len(order)
  BY <1>t, <1>1, OrderTyped
<1>3. ASSUME NEW i \in 1 .. Len(left), NEW j \in 1 .. Len(left), i < j
      PROVE  left[i] # left[j] /\ left[j] \in since[left[i]]
  <2>1. PICK p \in 1 .. Len(order), q \in 1 .. Len(order) :
               p < q /\ left[i] = order[p] /\ left[j] = order[q]
    BY <1>1, <1>3
  <2>2. p # q
    BY <1>t, <2>1
  <2> QED
    BY <1>t, <2>1, <2>2, OrderTyped DEF MemoryCacheInv, InOrderOfUse
<1>4. \A i, j \in 1 .. Len(left) : i # j => i < j \/ j < i
  BY <1>1, OrderTyped
<1>5. IsInjective(left)
  BY <1>1, <1>3, <1>4, OrderTyped
<1> QED
  BY <1>1, <1>2, <1>3, <1>5 DEF left, Cached

(* A key is put behind others that are in the order of their last use.     *)
LEMMA Used ==
    ASSUME MemoryCacheInv, NEW k \in CacheKey, NEW m \in Seq(CacheKey), Use(k),
           IsInjective(m), k \notin ToSet(m), order' = Append(m, k),
           \A i, j \in 1 .. Len(m) : i < j => m[j] \in since[m[i]]
    PROVE  /\ order' \in Seq(CacheKey) /\ IsInjective(order')
           /\ Len(order') = Len(m) + 1 /\ Cached' = ToSet(m) \cup {k}
           /\ since' \in [CacheKey -> SUBSET CacheKey] /\ InOrderOfUse'
<1>1. /\ Len(m) \in Nat /\ order' \in Seq(CacheKey) /\ Len(order') = Len(m) + 1
      /\ order'[Len(m) + 1] = k /\ \A i \in 1 .. Len(m) : order'[i] = m[i]
  OBVIOUS
<1>2. \A i \in 1 .. Len(order') : i = Len(m) + 1 \/ i \in 1 .. Len(m)
  BY <1>1
<1>3. \A i \in 1 .. Len(m) : m[i] # k /\ m[i] \in CacheKey /\ i \in 1 .. Len(order')
  BY <1>1, OrderTyped
<1>4. IsInjective(order')
  <2>1. \A i, j \in 1 .. Len(m) : i # j => m[i] # m[j]
    BY OrderTyped
  <2>2. \A i, j \in 1 .. Len(order') : i # j => order'[i] # order'[j]
    BY <1>1, <1>2, <1>3, <2>1
  <2> QED
    BY <1>1, <2>2, OrderTyped
<1>5. Cached' = ToSet(m) \cup {k}
  <2>1. ToSet(order') = {order'[i] : i \in 1 .. Len(order')} /\ ToSet(m) = {m[i] : i \in 1 .. Len(m)}
    BY <1>1, OrderTyped
  <2>2. Len(m) + 1 \in 1 .. Len(order')
    BY <1>1
  <2>3. ToSet(order') = ToSet(m) \cup {k}
    BY <1>1, <1>2, <1>3, <2>1, <2>2
  <2> QED
    BY <2>3 DEF Cached
<1>6. since' = [j \in CacheKey |-> IF j = k THEN {} ELSE since[j] \cup {k}]
      /\ since \in [CacheKey -> SUBSET CacheKey]
  BY DEF Use, MemoryCacheInv, MemoryCacheTypeOK
<1>7. since' \in [CacheKey -> SUBSET CacheKey]
  BY <1>6
<1>8. ASSUME NEW i \in 1 .. Len(order'), NEW j \in 1 .. Len(order'), i < j
      PROVE  order'[j] \in since'[order'[i]]
  <2>1. i \in 1 .. Len(m)
    BY <1>1, <1>2, <1>8
  <2>2. order'[i] = m[i] /\ since'[order'[i]] = since[m[i]] \cup {k}
    BY <1>1, <1>3, <1>6, <2>1
  <2> QED
    BY <1>1, <1>2, <2>1, <2>2, <1>8
<1> QED
  BY <1>1, <1>4, <1>5, <1>7, <1>8 DEF InOrderOfUse

LEMMA MemoryCacheInitInv == MemoryCacheInit => MemoryCacheInv
<1> SUFFICES ASSUME MemoryCacheInit PROVE MemoryCacheInv
  OBVIOUS
<1>1. order = <<>> /\ order \in Seq(CacheKey) /\ Len(order) = 0
  BY DEF MemoryCacheInit
<1>2. IsInjective(order) /\ InOrderOfUse
  <2>1. \A i \in 1 .. Len(order) : FALSE
    BY <1>1
  <2> QED
    BY <1>1, <2>1, OrderTyped DEF InOrderOfUse
<1>3. MemoryCacheTypeOK
  BY <1>1, <1>2 DEF MemoryCacheInit, MemoryCacheTypeOK
<1> QED
  BY <1>1, <1>2, <1>3, MemoryCacheAssumption DEF MemoryCacheInv

LEMMA MemoryCacheStep ==
    MemoryCacheInv /\ [MemoryCacheNext]_memoryVars =>
        MemoryCacheInv' /\ (UNCHANGED memoryVars \/ Evicting)
<1> SUFFICES ASSUME MemoryCacheInv, [MemoryCacheNext]_memoryVars
             PROVE  MemoryCacheInv' /\ (UNCHANGED memoryVars \/ Evicting)
  OBVIOUS
<1> USE MemoryCacheAssumption
<1>t. /\ MemoryCacheTypeOK /\ order \in Seq(CacheKey) /\ IsInjective(order) /\ Len(order) \in Nat
      /\ Len(order) <= MaxSize /\ InOrderOfUse /\ Cached \subseteq CacheKey
      /\ Cached = {order[i] : i \in 1 .. Len(order)} /\ MaxSize \in Nat
  BY OrderTyped DEF MemoryCacheInv, MemoryCacheTypeOK, Cached
<1>1. ASSUME NEW set, Drop(set), UNCHANGED <<value, since>>
      PROVE  MemoryCacheInv' /\ Evicting
  <2>1. /\ order' = Without(order, set) /\ expired' = expired \ set
        /\ value' = value /\ since' = since
    BY <1>1 DEF Drop
  <2>2. /\ order' \in Seq(CacheKey) /\ IsInjective(order') /\ Len(order') <= Len(order)
        /\ Cached' = Cached \ set /\ InOrderOfUse'
        /\ Cached \cap set # {} => Len(order') < Len(order)
    BY <2>1, OrderWithout DEF Cached, InOrderOfUse
  <2>3. MemoryCacheTypeOK'
    BY <1>t, <2>1, <2>2 DEF MemoryCacheTypeOK
  <2>4. Len(order') \in Nat /\ Len(order') <= MaxSize
    BY <1>t, <2>2, OrderTyped
  <2>5. Evicting
    BY <1>t, <2>2, <2>4 DEF Evicting
  <2> QED
    BY <2>2, <2>3, <2>4, <2>5 DEF MemoryCacheInv
<1>2. ASSUME NEW k \in CacheKey, MemoryGet(k) PROVE MemoryCacheInv' /\ Evicting
  <2>1. CASE k \in expired
    BY <1>1, <1>2, <2>1 DEF MemoryGet
  <2>2. CASE k \notin expired
    <3> DEFINE m == Without(order, {k})
    <3>1. /\ k \in Cached /\ order' = Append(m, k) /\ Use(k)
          /\ expired' = expired /\ value' = value
      BY <1>2, <2>2 DEF MemoryGet
    <3>2. /\ m \in Seq(CacheKey) /\ IsInjective(m) /\ ToSet(m) = Cached \ {k}
          /\ Len(m) < Len(order) /\ Len(m) \in Nat
          /\ \A i, j \in 1 .. Len(m) : i < j => m[j] \in since[m[i]]
      BY <3>1, OrderWithout, OrderTyped
    <3> HIDE DEF m
    <3>3. /\ order' \in Seq(CacheKey) /\ IsInjective(order')
          /\ Len(order') = Len(m) + 1 /\ Cached' = ToSet(m) \cup {k}
          /\ since' \in [CacheKey -> SUBSET CacheKey] /\ InOrderOfUse'
      BY <3>1, <3>2, Used
    <3>4. Cached' = Cached /\ Len(order') <= MaxSize
      BY <1>t, <3>1, <3>2, <3>3
    <3>5. MemoryCacheTypeOK'
      BY <1>t, <3>1, <3>3, <3>4 DEF MemoryCacheTypeOK
    <3> QED
      BY <3>3, <3>4, <3>5 DEF MemoryCacheInv, Evicting
  <2> QED
    BY <2>1, <2>2
<1>3. ASSUME NEW k \in CacheKey, NEW v \in CacheValue, MemorySet(k, v)
      PROVE  MemoryCacheInv' /\ Evicting
  <2> DEFINE others == Without(order, {k})
             excess == IF Len(others) >= MaxSize THEN Len(others) - MaxSize + 1 ELSE 0
             m == SubSeq(others, 1 + excess, Len(others))
  <2>1. /\ others \in Seq(CacheKey) /\ IsInjective(others) /\ Len(others) \in Nat
        /\ Len(others) <= Len(order) /\ ToSet(others) = Cached \ {k}
        /\ k \notin Cached => others = order
        /\ k \in Cached => Len(others) < Len(order)
        /\ \A i, j \in 1 .. Len(others) : i < j => others[j] \in since[others[i]]
    <3>1. others \in Seq(CacheKey)
      BY OrderWithout
    <3>2. Len(others) \in Nat
      BY <3>1
    <3> QED
      BY <3>1, <3>2, OrderWithout
  <2>2. /\ order' = Append(m, k) /\ Use(k) /\ value' = [value EXCEPT ![k] = v]
        /\ expired' = (expired \cap {order'[i] : i \in DOMAIN order'}) \ {k}
    BY <1>3 DEF MemorySet
  <2> HIDE DEF others
  <2>3. /\ excess \in {0, 1} /\ excess <= Len(others)
        /\ excess = 1 <=> Len(others) = MaxSize
        /\ Len(others) - excess < MaxSize
    BY <1>t, <2>1
  <2> HIDE DEF excess
  <2>4. /\ m \in Seq(CacheKey) /\ Len(m) = Len(others) - excess /\ Len(m) \in Nat
        /\ \A i \in 1 .. Len(m) : m[i] = others[i + excess] /\ i + excess \in 1 .. Len(others)
    BY <2>1, <2>3
  <2> HIDE DEF m
  <2>5. /\ ToSet(m) = {m[i] : i \in 1 .. Len(m)}
        /\ Cached \ {k} = {others[i] : i \in 1 .. Len(others)}
        /\ ToSet(m) \subseteq Cached \ {k} /\ k \notin ToSet(m)
    <3>1. ToSet(m) = {m[i] : i \in 1 .. Len(m)}
      BY <2>4, OrderTyped
    <3>2. Cached \ {k} = {others[i] : i \in 1 .. Len(others)}
      BY <2>1, OrderTyped
    <3> QED
      BY <2>4, <3>1, <3>2
  <2>6. \A i, j \in 1 .. Len(m) : i < j => m[j] \in since[m[i]]
    BY <2>1, <2>3, <2>4
  <2>7. IsInjective(m)
    <3>1. \A i, j \in 1 .. Len(others) : i # j => others[i] # others[j]
      BY <2>1, OrderTyped
    <3>2. \A i, j \in 1 .. Len(m) : i # j => m[i] # m[j]
      BY <2>3, <2>4, <3>1
    <3> QED
      BY <2>4, <3>2, OrderTyped
  <2>8. /\ order' \in Seq(CacheKey) /\ IsInjective(order')
        /\ Len(order') = Len(m) + 1 /\ Cached' = ToSet(m) \cup {k}
        /\ since' \in [CacheKey -> SUBSET CacheKey] /\ InOrderOfUse'
    BY <2>2, <2>4, <2>5, <2>6, <2>7, Used
  <2>9. expired' \subseteq Cached'
    BY <2>2, <2>8, OrderTyped DEF Cached
  <2>10. MemoryCacheTypeOK'
    BY <1>t, <2>2, <2>8, <2>9 DEF MemoryCacheTypeOK
  <2>11. Len(order') <= MaxSize
    BY <1>t, <2>1, <2>3, <2>4, <2>8
  <2>12. ASSUME NEW j \in Cached, j \notin Cached'
         PROVE  Len(order) = MaxSize /\ Cached \ {j} \subseteq since[j]
    <3>1. PICK i \in 1 .. Len(others) : j = others[i]
      BY <2>5, <2>8, <2>12
    <3>2. excess = 1 /\ i = 1
      <4>1. ASSUME i - excess \in 1 .. Len(m) PROVE FALSE
        <5>1. m[i - excess] = others[(i - excess) + excess] /\ (i - excess) + excess = i
          BY <2>3, <2>4, <4>1
        <5> QED
          BY <2>5, <2>8, <2>12, <3>1, <4>1, <5>1
      <4> QED
        BY <2>1, <2>3, <2>4, <4>1
    <3>3. Len(others) = MaxSize /\ others = order /\ Len(order) = MaxSize
      BY <1>t, <2>1, <2>3, <3>2
    <3>4. \A p \in 1 .. Len(order) : p # 1 => order[p] \in since[order[1]]
      BY <1>t, <3>3 DEF InOrderOfUse
    <3> QED
      BY <1>t, <3>1, <3>2, <3>3, <3>4
  <2> QED
    BY <2>8, <2>10, <2>11, <2>12 DEF MemoryCacheInv, Evicting
<1>4. ASSUME NEW k \in CacheKey, Expire(k) PROVE MemoryCacheInv' /\ Evicting
  <2>1. UNCHANGED <<order, value, since>> /\ expired' \subseteq Cached'
    BY <1>4, <1>t DEF Expire, MemoryCacheTypeOK, Cached
  <2> QED
    BY <1>t, <2>1 DEF MemoryCacheInv, MemoryCacheTypeOK, InOrderOfUse, Evicting, Cached
<1>5. CASE UNCHANGED memoryVars
  BY <1>5, <1>t DEF memoryVars, MemoryCacheInv, MemoryCacheTypeOK, InOrderOfUse, Cached
<1>6. ASSUME NEW k \in CacheKey, MemoryDelete(k) \/ Has(k)
      PROVE MemoryCacheInv' /\ Evicting
  BY <1>1, <1>6 DEF MemoryDelete, Has
<1>7. ASSUME NEW v \in CacheValue, InvalidateByHash(v) PROVE MemoryCacheInv' /\ Evicting
  BY <1>1, <1>7 DEF InvalidateByHash
<1>8. CASE CleanupExpired \/ MemoryClear
  BY <1>1, <1>8 DEF CleanupExpired, MemoryClear
<1> QED
  BY <1>2, <1>3, <1>4, <1>5, <1>6, <1>7, <1>8 DEF MemoryCacheNext

LEMMA MemoryCacheInvariance == MemoryCacheSpec => []MemoryCacheInv
  BY MemoryCacheInitInv, MemoryCacheStep, PTL DEF MemoryCacheSpec

(* Keys, values and the order keep their types.                            *)
THEOREM MemoryCacheTyping == MemoryCacheSpec => []MemoryCacheTypeOK
  BY MemoryCacheInvariance, PTL DEF MemoryCacheInv

(* For any keys and any size: the cache never outgrows max_size, and a key *)
(* that makes room for another had gone unused the longest, at a time when *)
(* the cache was full.                                                     *)
THEOREM LeastRecentGoesFirst == MemoryCacheSpec => EvictsLeastRecent
  BY MemoryCacheInvariance, MemoryCacheStep, PTL
     DEF MemoryCacheSpec, EvictsLeastRecent, Evicting

-----------------------------------------------------------------------------
(* The Redis cache.  Only an operation that has read or made an entry goes *)
(* on with one.                                                            *)
HasEntry == {"ttl", "rewrite", "drop", "index", "unindex", "invalidate", "dropIndex"}

CopiesOK == \A p \in Process : busy[p] \in HasEntry => copy[p] \in Entry

(* An entry that is not listed under its hash is the one an operation is   *)
(* about to list, or to delete.                                            *)
Excused(p, k) ==
    \/ busy[p] = "index" /\ k = onKey[p] /\ store[k].value = copy[p].value
    \/ busy[p] = "delete" /\ k = onKey[p]

(* What an operation has still to find as it left it, or read it.          *)
Prepared(p) ==
    /\ busy[p] \in {"ttl", "rewrite"} => onKey[p] \in index[copy[p].value]
    /\ busy[p] = "invalidate" =>
           \A k \in Key : store[k] # NoEntry /\ store[k].value = copy[p].value => k \in todo[p]
    /\ busy[p] = "dropIndex" =>
           \A k \in Key : store[k] # NoEntry => store[k].value # copy[p].value
    /\ busy[p] = "clear" => \A k \in Key : store[k] # NoEntry => k \in todo[p]

Alone == \A p, q \in Process : busy[p] # "idle" /\ busy[q] # "idle" => p = q

ListedOrExcused ==
    \A k \in Key : store[k] # NoEntry =>
        k \in index[store[k].value] \/ \E p \in Process : Excused(p, k)

RedisInv ==
    /\ RedisTypeOK
    /\ CopiesOK
    /\ ~mixed => Alone /\ ListedOrExcused /\ \A p \in Process : Prepared(p)

LEMMA EntryFacts ==
    /\ NoEntry \notin Entry
    /\ \A e \in Entry : e.value \in Value
    /\ \A e \in Entry : Age(e) \in Entry /\ Age(e).value = e.value
    /\ Age(NoEntry) = NoEntry
    /\ NoEntry.kept = TRUE
  BY RedisAssumption DEF Entry, NoEntry, Age

LEMMA RedisInitInv == RedisInit => RedisInv
<1> SUFFICES ASSUME RedisInit PROVE RedisInv
  OBVIOUS
<1>1. RedisTypeOK
  BY DEF RedisInit, RedisTypeOK, Steps
<1>2. CopiesOK /\ Alone /\ ListedOrExcused /\ \A p \in Process : Prepared(p)
  BY DEF RedisInit, CopiesOK, HasEntry, Alone, ListedOrExcused, Prepared
<1> QED
  BY <1>1, <1>2 DEF RedisInv

(* What the beginning of an operation does to its own process.             *)
LEMMA BeginTyped ==
    ASSUME RedisTypeOK, NEW p \in Process, NEW k \in Key, NEW entry \in Entry \cup {NoEntry},
           NEW keys \in SUBSET (Key \cup Value), NEW step \in Steps,
           Begin(p, k, entry, keys, step)
    PROVE  /\ busy' \in [Process -> Steps] /\ onKey' \in [Process -> Key]
           /\ copy' \in [Process -> Entry \cup {NoEntry}]
           /\ todo' \in [Process -> SUBSET (Key \cup Value)] /\ mixed' \in BOOLEAN
           /\ busy[p] = "idle" /\ busy'[p] = step /\ onKey'[p] = k
           /\ copy'[p] = entry /\ todo'[p] = keys
           /\ \A q \in Process \ {p} :
                /\ busy'[q] = busy[q] /\ onKey'[q] = onKey[q]
                /\ copy'[q] = copy[q] /\ todo'[q] = todo[q]
           /\ ~mixed' => ~mixed /\ \A q \in Process : busy[q] = "idle"
  BY DEF Begin, RedisTypeOK

(* An operation that begins leaves the others as they are; if it begins    *)
(* alone, every entry is listed.                                           *)
LEMMA BeginInv ==
    ASSUME RedisInv, NEW p \in Process, NEW k \in Key, NEW entry \in Entry \cup {NoEntry},
           NEW keys \in SUBSET (Key \cup Value), NEW step \in Steps,
           Begin(p, k, entry, keys, step), step \in HasEntry => entry \in Entry
    PROVE  /\ CopiesOK'
           /\ ~mixed' => Alone'
           /\ ~mixed' => \A j \in Key : store[j] # NoEntry => j \in index[store[j].value]
           /\ ~mixed' /\ Prepared(p)' => \A q \in Process : Prepared(q)'
<1>1. RedisTypeOK
  BY DEF RedisInv
<1>2. /\ busy[p] = "idle" /\ busy'[p] = step /\ copy'[p] = entry
      /\ \A q \in Process \ {p} :
           /\ busy'[q] = busy[q] /\ onKey'[q] = onKey[q]
           /\ copy'[q] = copy[q] /\ todo'[q] = todo[q]
      /\ ~mixed' => ~mixed /\ \A q \in Process : busy[q] = "idle"
  BY <1>1 DEF Begin, RedisTypeOK
<1>3. CopiesOK'
  BY <1>2 DEF CopiesOK, RedisInv
<1>4. ~mixed' => Alone'
  BY <1>2 DEF Alone
<1>5. ~mixed' => \A j \in Key : store[j] # NoEntry => j \in index[store[j].value]
  BY <1>2 DEF RedisInv, ListedOrExcused, Excused
<1>6. ~mixed' => \A q \in Process \ {p} : Prepared(q)'
  BY <1>2 DEF Prepared
<1> QED
  BY <1>3, <1>4, <1>5, <1>6

LEMMA RedisStepInv == RedisInv /\ [RedisNext]_redisVars => RedisInv'
<1> SUFFICES ASSUME RedisInv, [RedisNext]_redisVars PROVE RedisInv'
  OBVIOUS
<1> USE EntryFacts
<1>t. RedisTypeOK /\ CopiesOK
  BY DEF RedisInv
<1>1. ASSUME NEW p \in Process, NEW k \in Key, Get(p, k) PROVE RedisInv'
  <2> DEFINE step == IF store[k].deadline = "past" THEN "drop" ELSE "ttl"
  <2>1. /\ store[k] \in Entry /\ step \in {"drop", "ttl"} /\ step \in Steps
        /\ Begin(p, k, store[k], {}, step) /\ UNCHANGED <<store, index>>
        /\ store[k] # NoEntry
    BY <1>1, <1>t DEF Get, RedisTypeOK, Steps
  <2> HIDE DEF step
  <2>2. RedisTypeOK'
    BY <2>1, <1>t, BeginTyped DEF RedisTypeOK
  <2>3. busy'[p] = step /\ onKey'[p] = k /\ copy'[p] = store[k]
    BY <2>1, <1>t DEF Begin, RedisTypeOK
  <2>4. /\ CopiesOK' /\ (~mixed' => Alone')
        /\ ~mixed' => \A j \in Key : store[j] # NoEntry => j \in index[store[j].value]
        /\ ~mixed' /\ Prepared(p)' => \A q \in Process : Prepared(q)'
    BY <2>1, BeginInv
  <2>5. ~mixed' => Prepared(p)'
    BY <2>1, <2>3, <2>4 DEF Prepared
  <2> QED
    BY <2>1, <2>2, <2>4, <2>5 DEF RedisInv, ListedOrExcused
<1>2. ASSUME NEW p \in Process, NEW k \in Key, BeginDelete(p, k) PROVE RedisInv'
  <2> DEFINE step == IF store[k] = NoEntry THEN "delete" ELSE "unindex"
  <2>1. /\ store[k] \in Entry \cup {NoEntry} /\ step \in {"delete", "unindex"} /\ step \in Steps
        /\ Begin(p, k, store[k], {}, step) /\ UNCHANGED <<store, index>>
        /\ step \in HasEntry => store[k] \in Entry
    BY <1>2, <1>t DEF BeginDelete, RedisTypeOK, Steps, HasEntry
  <2> HIDE DEF step
  <2>2. RedisTypeOK'
    BY <2>1, <1>t, BeginTyped DEF RedisTypeOK
  <2>3. busy'[p] = step
    BY ZenonT(30), <2>1, <1>t, BeginTyped
  <2>4. /\ CopiesOK' /\ (~mixed' => Alone')
        /\ ~mixed' => \A j \in Key : store[j] # NoEntry => j \in index[store[j].value]
        /\ ~mixed' /\ Prepared(p)' => \A q \in Process : Prepared(q)'
    BY <2>1, BeginInv
  <2>5. Prepared(p)'
    BY <2>1, <2>3 DEF Prepared
  <2> QED
    BY <2>1, <2>2, <2>4, <2>5 DEF RedisInv, ListedOrExcused
<1>3. ASSUME NEW p \in Process, NEW k \in Key, NEW v \in Value, NEW ttl \in BOOLEAN,
             Set(p, k, v, ttl)
      PROVE  RedisInv'
  <2> DEFINE entry == [value |-> v, deadline |-> IF ttl THEN "later" ELSE "never", kept |-> ~ttl]
  <2>1. /\ entry \in Entry /\ entry.value = v /\ "index" \in Steps
        /\ Begin(p, k, entry, {}, "index")
        /\ store' = [store EXCEPT ![k] = entry] /\ index' = index
    BY <1>3 DEF Set, Put, Entry, Steps
  <2> HIDE DEF entry
  <2>2. RedisTypeOK'
    BY <2>1, <1>t, BeginTyped DEF RedisTypeOK
  <2>3. busy'[p] = "index" /\ onKey'[p] = k /\ copy'[p] = entry
    BY <2>1, <1>t, BeginTyped
  <2>4. /\ CopiesOK' /\ (~mixed' => Alone')
        /\ ~mixed' => \A j \in Key : store[j] # NoEntry => j \in index[store[j].value]
        /\ ~mixed' /\ Prepared(p)' => \A q \in Process : Prepared(q)'
    BY <2>1, BeginInv
  <2>5. Prepared(p)'
    BY <2>3 DEF Prepared
  <2>6. store'[k] = entry /\ \A j \in Key \ {k} : store'[j] = store[j]
    BY <2>1, <1>t DEF RedisTypeOK
  <2>7. Excused(p, k)'
    BY <2>3, <2>6 DEF Excused
  <2>8. ~mixed' => ListedOrExcused'
    BY <2>1, <2>4, <2>6, <2>7 DEF ListedOrExcused
  <2> QED
    BY <2>2, <2>4, <2>5, <2>8 DEF RedisInv
<1>4. ASSUME NEW p \in Process, NEW v \in Value, BeginInvalidate(p, v) PROVE RedisInv'
  <2>1. PICK k \in Key :
          Begin(p, k, [value |-> v, deadline |-> "never", kept |-> TRUE], index[v], "invalidate")
    BY <1>4 DEF BeginInvalidate
  <2> DEFINE entry == [value |-> v, deadline |-> "never", kept |-> TRUE]
  <2>2. /\ entry \in Entry /\ entry.value = v /\ "invalidate" \in Steps
        /\ Begin(p, k, entry, index[v], "invalidate") /\ UNCHANGED <<store, index>>
        /\ index[v] \in SUBSET (Key \cup Value)
    BY <1>4, <1>t, <2>1 DEF BeginInvalidate, Entry, Steps, RedisTypeOK
  <2> HIDE DEF entry
  <2>3. RedisTypeOK'
    BY <2>2, <1>t, BeginTyped DEF RedisTypeOK
  <2>4. busy'[p] = "invalidate" /\ copy'[p] = entry /\ todo'[p] = index[v]
    BY <2>2, <1>t, BeginTyped
  <2>5. /\ CopiesOK' /\ (~mixed' => Alone')
        /\ ~mixed' => \A j \in Key : store[j] # NoEntry => j \in index[store[j].value]
        /\ ~mixed' /\ Prepared(p)' => \A q \in Process : Prepared(q)'
    BY <2>2, BeginInv
  <2>6. ~mixed' => Prepared(p)'
    BY <2>2, <2>4, <2>5 DEF Prepared
  <2> QED
    BY <2>2, <2>3, <2>5, <2>6 DEF RedisInv, ListedOrExcused
<1>5. ASSUME NEW p \in Process, BeginClear(p) PROVE RedisInv'
  <2> DEFINE keys == {j \in Key : store[j] # NoEntry} \cup {v \in Value : index[v] # {}}
  <2>1. PICK k \in Key : Begin(p, k, NoEntry, keys, "clear")
    BY <1>5 DEF BeginClear
  <2>2. /\ "clear" \in Steps /\ "clear" \notin HasEntry /\ UNCHANGED <<store, index>>
        /\ keys \in SUBSET (Key \cup Value)
        /\ \A j \in Key : store[j] # NoEntry => j \in keys
    BY <1>5 DEF BeginClear, Steps, HasEntry
  <2> HIDE DEF keys
  <2>3. RedisTypeOK'
    BY <2>1, <2>2, <1>t, BeginTyped DEF RedisTypeOK
  <2>4. busy'[p] = "clear" /\ todo'[p] = keys
    BY <2>1, <2>2, <1>t, BeginTyped
  <2>5. /\ CopiesOK' /\ (~mixed' => Alone')
        /\ ~mixed' => \A j \in Key : store[j] # NoEntry => j \in index[store[j].value]
        /\ ~mixed' /\ Prepared(p)' => \A q \in Process : Prepared(q)'
    BY <2>1, <2>2, BeginInv
  <2>6. Prepared(p)'
    BY <2>2, <2>4 DEF Prepared
  <2> QED
    BY <2>2, <2>3, <2>5, <2>6 DEF RedisInv, ListedOrExcused
<1>6. ASSUME NEW p \in Process, NEW step \in Steps, GoOn(p, step), busy[p] # "idle",
             step \in HasEntry => busy[p] \in HasEntry
      PROVE  /\ busy' \in [Process -> Steps] /\ onKey' = onKey /\ todo' = todo /\ mixed' = mixed
             /\ copy' \in [Process -> Entry \cup {NoEntry}] /\ CopiesOK'
             /\ busy'[p] = step /\ \A q \in Process \ {p} : busy'[q] = busy[q] /\ copy'[q] = copy[q]
             /\ ~mixed => Alone' /\ \A q \in Process \ {p} : busy[q] = "idle"
             /\ ~mixed /\ Prepared(p)' => \A q \in Process : Prepared(q)'
  <2>1. /\ busy' = [busy EXCEPT ![p] = step]
        /\ copy' = [copy EXCEPT ![p] = IF step = "idle" THEN NoEntry ELSE copy[p]]
        /\ onKey' = onKey /\ todo' = todo /\ mixed' = mixed
    BY <1>6 DEF GoOn
  <2>2. /\ busy' \in [Process -> Steps] /\ copy' \in [Process -> Entry \cup {NoEntry}]
        /\ busy'[p] = step /\ copy'[p] = IF step = "idle" THEN NoEntry ELSE copy[p]
        /\ \A q \in Process \ {p} : busy'[q] = busy[q] /\ copy'[q] = copy[q]
    BY <2>1, <1>t DEF RedisTypeOK
  <2>3. CopiesOK'
    BY <2>2, <1>t, <1>6 DEF CopiesOK, HasEntry
  <2>4. ~mixed => Alone' /\ \A q \in Process \ {p} : busy[q] = "idle"
    BY <2>2, <1>6 DEF RedisInv, Alone
  <2>5. ~mixed => \A q \in Process \ {p} : Prepared(q)'
    BY <2>2, <2>4 DEF Prepared
  <2> QED
    BY <2>1, <2>2, <2>3, <2>4, <2>5
<1>i. "idle" \in Steps /\ "delete" \in Steps /\ "rewrite" \in Steps /\ "dropIndex" \in Steps
      /\ "idle" \notin HasEntry /\ "delete" \notin HasEntry
  BY DEF Steps, HasEntry
<1>7. ASSUME NEW p \in Process, DropExpired(p) PROVE RedisInv'
  <2>1. /\ GoOn(p, "idle") /\ busy[p] = "drop" /\ index' = index /\ onKey[p] \in Key
        /\ store' = [store EXCEPT ![onKey[p]] = NoEntry]
    BY <1>7, <1>t DEF DropExpired, Put, RedisTypeOK
  <2>2. /\ RedisTypeOK' /\ \A j \in Key : store'[j] # NoEntry => store'[j] = store[j]
    BY <2>1, <1>t, <1>6, <1>i DEF RedisTypeOK
  <2>3. Prepared(p)' /\ onKey' = onKey
    BY <2>1, <1>6, <1>i DEF Prepared
  <2>4. ~mixed => ListedOrExcused'
    BY <2>1, <2>2, <2>3, <1>6, <1>i DEF RedisInv, ListedOrExcused, Excused
  <2> QED
    BY <2>1, <2>2, <2>3, <2>4, <1>6, <1>i DEF RedisInv
<1>8. ASSUME NEW p \in Process, AskTtl(p) PROVE RedisInv'
  <2>1. PICK kept \in {store[onKey[p]].kept, TRUE} : copy' = [copy EXCEPT ![p].kept = kept]
    BY <1>8 DEF AskTtl
  <2> DEFINE after == [copy[p] EXCEPT !.kept = kept]
  <2>2. /\ copy[p] \in Entry /\ onKey[p] \in Key /\ store[onKey[p]] \in Entry \cup {NoEntry}
        /\ busy[p] = "ttl"
    BY <1>8, <1>t DEF AskTtl, CopiesOK, HasEntry, RedisTypeOK
  <2>3. after \in Entry /\ after.value = copy[p].value
    BY <2>2 DEF Entry, NoEntry
  <2>4. copy' = [copy EXCEPT ![p] = after]
    BY <2>1
  <2> HIDE DEF after
  <2>5. /\ copy' \in [Process -> Entry \cup {NoEntry}] /\ copy'[p] = after
        /\ \A q \in Process \ {p} : copy'[q] = copy[q]
        /\ busy' \in [Process -> Steps] /\ busy'[p] = "rewrite"
        /\ \A q \in Process \ {p} : busy'[q] = busy[q]
        /\ UNCHANGED <<store, index, onKey, todo, mixed>>
    BY <1>8, <1>i, <1>t, <2>3, <2>4 DEF AskTtl, RedisTypeOK
  <2>6. RedisTypeOK'
    BY <2>5, <1>t DEF RedisTypeOK
  <2>7. CopiesOK'
    BY <2>3, <2>5, <1>t DEF CopiesOK
  <2>8. ASSUME ~mixed
        PROVE Alone' /\ ListedOrExcused' /\ \A q \in Process : Prepared(q)'
    <3>1. Alone /\ ListedOrExcused /\ \A q \in Process : Prepared(q)
      BY <2>8 DEF RedisInv
    <3>2. Alone' /\ \A q \in Process \ {p} : busy[q] = "idle"
      BY <2>2, <2>5, <3>1 DEF Alone
    <3>3. ListedOrExcused'
      BY <2>2, <2>5, <3>1, <3>2 DEF ListedOrExcused, Excused
    <3>4. \A q \in Process : Prepared(q)'
      BY <2>2, <2>3, <2>5, <3>1, <3>2 DEF Prepared
    <3> QED
      BY <3>2, <3>3, <3>4
  <2> QED
    BY <2>5, <2>6, <2>7, <2>8 DEF RedisInv
<1>9. ASSUME NEW p \in Process, Rewrite(p) PROVE RedisInv'
  <2>1. /\ GoOn(p, "idle") /\ busy[p] = "rewrite" /\ index' = index /\ onKey[p] \in Key
        /\ copy[p] \in Entry /\ store' = [store EXCEPT ![onKey[p]] = copy[p]]
    BY <1>9, <1>t DEF Rewrite, Put, RedisTypeOK, CopiesOK, HasEntry
  <2>2. /\ RedisTypeOK' /\ store'[onKey[p]] = copy[p]
        /\ \A j \in Key \ {onKey[p]} : store'[j] = store[j]
    BY <2>1, <1>t, <1>6, <1>i DEF RedisTypeOK
  <2>3. Prepared(p)' /\ onKey' = onKey
    BY <2>1, <1>6, <1>i DEF Prepared
  <2>4. ~mixed => ListedOrExcused'
    BY <2>1, <2>2, <2>3, <1>6, <1>i DEF RedisInv, ListedOrExcused, Excused, Prepared
  <2> QED
    BY <2>1, <2>2, <2>3, <2>4, <1>6, <1>i DEF RedisInv
<1>10. ASSUME NEW p \in Process, AddToIndex(p) PROVE RedisInv'
  <2> DEFINE v == copy[p].value
  <2>1. /\ GoOn(p, "idle") /\ busy[p] = "index" /\ store' = store /\ onKey[p] \in Key
        /\ v \in Value /\ index' = [index EXCEPT ![v] = @ \cup {onKey[p]}]
    BY <1>10, <1>t DEF AddToIndex, RedisTypeOK, CopiesOK, HasEntry
  <2>2. /\ RedisTypeOK' /\ onKey[p] \in index'[v]
        /\ \A w \in Value : index[w] \subseteq index'[w]
    BY <2>1, <1>t, <1>6, <1>i DEF RedisTypeOK
  <2>3. Prepared(p)' /\ onKey' = onKey
    BY <2>1, <1>6, <1>i DEF Prepared
  <2>4. \A k \in Key : store[k] # NoEntry => store[k].value \in Value
    BY <1>t DEF RedisTypeOK
  <2>5. ~mixed => ListedOrExcused'
    BY <2>1, <2>2, <2>3, <2>4, <1>6, <1>i DEF RedisInv, ListedOrExcused, Excused
  <2> QED
    BY <2>1, <2>2, <2>3, <2>5, <1>6, <1>i DEF RedisInv
<1>11. ASSUME NEW p \in Process, Unindex(p) PROVE RedisInv'
  <2> DEFINE v == copy[p].value
  <2>1. /\ GoOn(p, "delete") /\ busy[p] = "unindex" /\ store' = store /\ onKey[p] \in Key
        /\ v \in Value /\ index' = [index EXCEPT ![v] = @ \ {onKey[p]}]
    BY <1>11, <1>t DEF Unindex, RedisTypeOK, CopiesOK, HasEntry
  <2>2. /\ RedisTypeOK' /\ busy'[p] = "delete"
        /\ \A w \in Value : index[w] \ {onKey[p]} \subseteq index'[w]
    BY <2>1, <1>t, <1>6, <1>i DEF RedisTypeOK
  <2>3. Prepared(p)' /\ onKey' = onKey
    BY <2>1, <1>6, <1>i DEF Prepared
  <2>4. \A k \in Key : store[k] # NoEntry => store[k].value \in Value
    BY <1>t DEF RedisTypeOK
  <2>5. ~mixed => ListedOrExcused'
    BY <2>1, <2>2, <2>3, <2>4, <1>6, <1>i DEF RedisInv, ListedOrExcused, Excused
  <2> QED
    BY <2>1, <2>2, <2>3, <2>5, <1>6, <1>i DEF RedisInv
<1>12. ASSUME NEW p \in Process, Delete(p) PROVE RedisInv'
  <2>1. /\ GoOn(p, "idle") /\ busy[p] = "delete" /\ index' = index /\ onKey[p] \in Key
        /\ store' = [store EXCEPT ![onKey[p]] = NoEntry]
    BY <1>12, <1>t DEF Delete, Put, RedisTypeOK
  <2>2. /\ RedisTypeOK' /\ store'[onKey[p]] = NoEntry
        /\ \A j \in Key : store'[j] # NoEntry => store'[j] = store[j]
    BY <2>1, <1>t, <1>6, <1>i DEF RedisTypeOK
  <2>3. Prepared(p)' /\ onKey' = onKey
    BY <2>1, <1>6, <1>i DEF Prepared
  <2>4. ~mixed => ListedOrExcused'
    BY <2>1, <2>2, <2>3, <1>6, <1>i DEF RedisInv, ListedOrExcused, Excused
  <2> QED
    BY <2>1, <2>2, <2>3, <2>4, <1>6, <1>i DEF RedisInv
<1>13. ASSUME NEW p \in Process, NEW k \in Key, Invalidate(p, k) PROVE RedisInv'
  <2> DEFINE step == IF todo[p] = {k} THEN "dropIndex" ELSE busy[p]
  <2>1. /\ busy[p] = "invalidate" /\ copy[p] \in Entry
        /\ step \in Steps /\ step \in {"dropIndex", "invalidate"}
        /\ step = "dropIndex" => todo[p] = {k}
    BY <1>13, <1>t, <1>i DEF Invalidate, RedisTypeOK, CopiesOK, HasEntry
  <2>2. /\ busy' = [busy EXCEPT ![p] = step]
        /\ todo' = [todo EXCEPT ![p] = @ \ {k}]
        /\ store' = [store EXCEPT ![k] = NoEntry]
        /\ UNCHANGED <<index, onKey, copy, mixed>>
    BY <1>13 DEF Invalidate, Put
  <2> HIDE DEF step
  <2>3. /\ RedisTypeOK' /\ busy'[p] = step /\ todo'[p] = todo[p] \ {k}
        /\ \A q \in Process \ {p} : busy'[q] = busy[q] /\ todo'[q] = todo[q]
        /\ store'[k] = NoEntry /\ \A j \in Key \ {k} : store'[j] = store[j]
    BY <2>1, <2>2, <1>t DEF RedisTypeOK
  <2>4. CopiesOK'
    BY <2>1, <2>2, <2>3, <1>t DEF CopiesOK
  <2>5. ASSUME ~mixed
        PROVE Alone' /\ ListedOrExcused' /\ \A q \in Process : Prepared(q)'
    <3>1. Alone /\ ListedOrExcused /\ \A q \in Process : Prepared(q)
      BY <2>5 DEF RedisInv
    <3>2. Alone' /\ \A q \in Process \ {p} : busy[q] = "idle"
      BY <2>1, <2>3, <3>1 DEF Alone
    <3>3. ListedOrExcused'
      BY <2>1, <2>2, <2>3, <3>1, <3>2 DEF ListedOrExcused, Excused
    <3>4. \A j \in Key : store[j] # NoEntry /\ store[j].value = copy[p].value => j \in todo[p]
      BY <2>1, <3>1 DEF Prepared
    <3>5. Prepared(p)'
      BY <2>1, <2>2, <2>3, <3>4 DEF Prepared
    <3>6. \A q \in Process \ {p} : Prepared(q)'
      BY <2>3, <3>2 DEF Prepared
    <3> QED
      BY <3>2, <3>3, <3>5, <3>6
  <2> QED
    BY <2>2, <2>3, <2>4, <2>5 DEF RedisInv
<1>14. ASSUME NEW p \in Process, DropIndex(p) PROVE RedisInv'
  <2> DEFINE v == copy[p].value
  <2>1. /\ GoOn(p, "idle") /\ busy[p] = "dropIndex" /\ store' = store
        /\ v \in Value /\ index' = [index EXCEPT ![v] = {}]
    BY <1>14, <1>t DEF DropIndex, RedisTypeOK, CopiesOK, HasEntry
  <2>2. /\ RedisTypeOK' /\ \A w \in Value \ {v} : index'[w] = index[w]
    BY <2>1, <1>t, <1>6, <1>i DEF RedisTypeOK
  <2>3. Prepared(p)' /\ onKey' = onKey
    BY <2>1, <1>6, <1>i DEF Prepared
  <2>4. \A k \in Key : store[k] # NoEntry => store[k].value \in Value
    BY <1>t DEF RedisTypeOK
  <2>5. ~mixed => ListedOrExcused'
    BY <2>1, <2>2, <2>3, <2>4, <1>6, <1>i
       DEF RedisInv, ListedOrExcused, Excused, Prepared
  <2> QED
    BY <2>1, <2>2, <2>3, <2>5, <1>6, <1>i DEF RedisInv
<1>15. ASSUME NEW p \in Process, Clear(p) PROVE RedisInv'
  <2>1. RedisTypeOK' /\ mixed' = mixed
    BY <1>15, <1>t, <1>i DEF Clear, RedisTypeOK
  <2>2. CopiesOK'
    BY <1>15, <1>t, <1>i DEF Clear, RedisTypeOK, CopiesOK
  <2>3. ASSUME ~mixed
        PROVE Alone' /\ ListedOrExcused' /\ \A q \in Process : Prepared(q)'
    <3>1. Alone /\ \A q \in Process : Prepared(q)
      BY <2>3 DEF RedisInv
    <3>2. busy[p] = "clear" /\ \A q \in Process : busy'[q] = "idle"
      BY <1>15, <1>t, <3>1 DEF Clear, RedisTypeOK, Alone
    <3>3. \A k \in Key : store'[k] = NoEntry
      BY <1>15, <3>1, <3>2 DEF Clear, Prepared
    <3> QED
      BY <3>2, <3>3 DEF Alone, ListedOrExcused, Prepared
  <2> QED
    BY <2>1, <2>2, <2>3 DEF RedisInv
<1>16. ASSUME NEW p \in Process, Fail(p) PROVE RedisInv'
  <2>1. RedisTypeOK' /\ mixed'
    BY <1>16, <1>t, <1>i DEF Fail, RedisTypeOK
  <2>2. CopiesOK'
    BY <1>16, <1>t, <1>i DEF Fail, RedisTypeOK, CopiesOK
  <2> QED
    BY <2>1, <2>2 DEF RedisInv
<1>17. CASE TimePasses
  <2>1. /\ store' \in [Key -> Entry \cup {NoEntry}]
        /\ \A k \in Key : store'[k] # NoEntry =>
               store[k] # NoEntry /\ store'[k].value = store[k].value
    BY <1>17, <1>t DEF TimePasses, RedisTypeOK
  <2>2. /\ copy' \in [Process -> Entry \cup {NoEntry}]
        /\ \A p \in Process : copy[p] \in Entry =>
               copy'[p] \in Entry /\ copy'[p].value = copy[p].value
    BY <1>17, <1>t DEF TimePasses, RedisTypeOK
  <2>3. UNCHANGED <<index, busy, onKey, todo, mixed>>
    BY <1>17 DEF TimePasses
  <2>4. RedisTypeOK'
    BY <2>1, <2>2, <2>3, <1>t DEF RedisTypeOK
  <2>5. CopiesOK'
    BY <2>2, <2>3, <1>t DEF CopiesOK
  <2>6. ASSUME ~mixed
        PROVE Alone' /\ ListedOrExcused' /\ \A q \in Process : Prepared(q)'
    <3>1. Alone /\ ListedOrExcused /\ \A q \in Process : Prepared(q)
      BY <2>6 DEF RedisInv
    <3>2. \A q \in Process : busy[q] \in HasEntry => copy'[q].value = copy[q].value
      BY <2>2, <1>t DEF CopiesOK
    <3>3. ListedOrExcused'
      BY <2>1, <2>3, <3>1, <3>2 DEF ListedOrExcused, Excused, HasEntry
    <3>4. \A q \in Process : Prepared(q)'
      BY <2>1, <2>3, <3>1, <3>2 DEF Prepared, HasEntry
    <3>5. Alone'
      BY <2>3, <3>1 DEF Alone
    <3> QED
      BY <3>3, <3>4, <3>5
  <2> QED
    BY <2>3, <2>4, <2>5, <2>6 DEF RedisInv
<1>18. CASE UNCHANGED redisVars
  BY <1>18
     DEF redisVars, RedisInv, RedisTypeOK, CopiesOK, Alone, ListedOrExcused, Excused, Prepared
<1> QED
  BY <1>1, <1>2, <1>3, <1>4, <1>5, <1>7, <1>8, <1>9, <1>10, <1>11, <1>12, <1>13, <1>14,
     <1>15, <1>16, <1>17, <1>18 DEF RedisNext

LEMMA RedisInvariance == RedisSpec => []RedisInv
  BY RedisInitInv, RedisStepInv, PTL DEF RedisSpec

(* Entries, indexes and the operations of the processes keep their types.  *)
THEOREM RedisTyping == RedisSpec => []RedisTypeOK
  BY RedisInvariance, PTL DEF RedisInv

(* For any number of processes, keys and values: unless operations         *)
(* overlapped or one was cut short, invalidate_by_hash finds every entry,  *)
(* however often keys were set anew, deleted, invalidated or expired.      *)
THEOREM EntriesStayIndexed == RedisSpec => []AllIndexed
<1>1. RedisInv => AllIndexed
  BY DEF RedisInv, AllIndexed, ListedOrExcused, Excused
<1> QED
  BY <1>1, RedisInvariance, PTL

-----------------------------------------------------------------------------
(* The language server.  The client has a process from its start until it  *)
(* has stopped it; with psutil, it is the only one that may be alive, and  *)
(* its manager watches it as long as it is.                                *)
ServerInv ==
    /\ ServerTypeOK
    /\ current = 0 <=> client = "down"
    /\ Psutil => \A n \in Starts : server[n] = "alive" => n = current /\ watched[n]

LEMMA StartsTyped ==
    /\ MaxStarts \in Nat /\ Psutil \in BOOLEAN
    /\ Starts \subseteq Nat /\ 0 \notin Starts /\ 0 \in 0 .. MaxStarts
    /\ Starts \subseteq 0 .. MaxStarts
  BY ServerAssumption DEF ServerAssumption, Starts

LEMMA ServerInitInv == ServerInit => ServerInv
<1> SUFFICES ASSUME ServerInit PROVE ServerInv
  OBVIOUS
<1>1. ServerTypeOK
  BY StartsTyped DEF ServerInit, ServerTypeOK
<1> QED
  BY <1>1 DEF ServerInit, ServerInv

LEMMA ServerStepInv == ServerInv /\ [ServerNext]_serverVars => ServerInv'
<1> SUFFICES ASSUME ServerInv, [ServerNext]_serverVars PROVE ServerInv'
  OBVIOUS
<1> USE StartsTyped DEF ServerTypeOK
<1>t. ServerTypeOK
  BY DEF ServerInv
<1>1. CASE Launch
  <2> DEFINE n == started + 1
  <2>1. n \in Starts /\ n \in 0 .. MaxStarts
    BY <1>1, <1>t DEF Launch, Starts
  <2>2. watched' = [watched EXCEPT ![n] = Psutil] /\ watched' \in [Starts -> BOOLEAN]
    BY <1>1, <1>t, Zenon DEF Launch
  <2>3. watched'[n] = Psutil
    BY <1>t, <2>1, <2>2, Zenon
  <2>4. ServerTypeOK'
    BY <1>1, <1>t, <2>1, <2>2 DEF Launch
  <2>5. Psutil => \A m \in Starts : server'[m] = "alive" => m = n
    BY <1>1, <1>t, <2>1 DEF Launch, ServerInv
  <2> QED
    BY <1>1, <2>1, <2>3, <2>4, <2>5 DEF Launch, ServerInv
<1>2. ASSUME NEW b \in BOOLEAN, Initialized(b) PROVE ServerInv'
  BY <1>2 DEF Initialized, ServerInv
<1>3. CASE Stop
  BY <1>3 DEF Stop, ServerInv
<1>4. ASSUME NEW b \in BOOLEAN, Quit(b) PROVE ServerInv'
  BY <1>4 DEF Quit, ServerInv
<1>5. CASE Terminate
  <2>1. current \in Starts
    BY <1>5, <1>t DEF Terminate, ServerInv, Starts
  <2>2. Psutil => \A m \in Starts : server'[m] # "alive"
    BY <1>5, <1>t, <2>1 DEF Terminate, ServerInv
  <2>3. ServerTypeOK'
    BY <1>5, <1>t, <2>1 DEF Terminate
  <2> QED
    BY <1>5, <2>2, <2>3 DEF Terminate, ServerInv
<1>6. ASSUME NEW n \in Starts, Die(n) PROVE ServerInv'
  BY <1>6 DEF Die, ServerInv
<1>7. ASSUME NEW n \in Starts, NEW b \in BOOLEAN, Look(n, b) PROVE ServerInv'
  <2>1. monitor' \in [Starts -> {"none", "watching", "exceeding", "ended"}]
    BY <1>7, <1>t DEF Look
  <2> QED
    BY <1>7, <2>1 DEF Look, ServerInv
<1>8. ASSUME NEW n \in Starts, Exceed(n) PROVE ServerInv'
  BY <1>8 DEF Exceed, ServerInv
<1>9. CASE UNCHANGED serverVars
  BY <1>9 DEF serverVars, ServerInv
<1> QED
  BY <1>1, <1>2, <1>3, <1>4, <1>5, <1>6, <1>7, <1>8, <1>9 DEF ServerNext

LEMMA ServerInvariance == ServerSpec => []ServerInv
  BY ServerInitInv, ServerStepInv, PTL DEF ServerSpec

(* The client, its processes and their monitors keep their types.          *)
THEOREM ServerTyping == ServerSpec => []ServerTypeOK
  BY ServerInvariance, PTL DEF ServerInv

(* With psutil, no server process is alive but the client's current one,   *)
(* after a failed start, a kill for its memory, its own death or a stop it *)
(* did not heed, however often the client starts one again.                *)
THEOREM ServersDieWithClient == ServerSpec => []NoOrphanServer
<1>1. ServerInv => NoOrphanServer
  BY DEF ServerInv, NoOrphanServer
<1> QED
  BY <1>1, ServerInvariance, PTL
==============================================================================

---------------------------- MODULE CostTracker ----------------------------
(***************************************************************************)
(* The accounting of LLM costs (CostTracker).  A recorded cost is checked  *)
(* against the caps of the day and of the month, added, and then compared  *)
(* with the alert thresholds.  An alert calls its handlers while the       *)
(* tracker's lock is held; the lock is reentrant, so a handler may itself  *)
(* record a cost (of the message it sends, say) or add a threshold, in the *)
(* middle of the comparison it was called from: `stack` holds the          *)
(* comparisons under way.  Other threads wait for the outermost one.       *)
(***************************************************************************)
EXTENDS Integers, Sequences

CONSTANTS
    Threshold,      \* records [period, amount]
    Cap,            \* Cap[period]: the largest hard limit ever set
    MaxCost,        \* bound on one recorded cost
    MaxDepth        \* bound on comparisons within comparisons

Period == {"daily", "monthly"}

ASSUME CostAssumption ==
    /\ Threshold \subseteq [period : Period, amount : Nat]
    /\ Cap \in [Period -> Nat]
    /\ {MaxCost, MaxDepth} \subseteq Nat

VARIABLES
    spent,       \* spent[p]: the records of the current period p, summed
    capOf,       \* hard_limit of each period
    thresholds,  \* the thresholds that were added
    triggered,   \* those that are marked triggered
    alerts,      \* history: alerts of a threshold since it was last armed
    stack,       \* the comparisons under way, the innermost first
    uncompared   \* history: thresholds armed, and not compared since

costVars == <<spent, capOf, thresholds, triggered, alerts, stack, uncompared>>

(* One comparison: the period it is in, what was spent in it when it came  *)
(* to that period, and the amount it has passed, -1 if none.               *)
Comparison == [period : Period, current : Nat, passed : {-1} \cup {t.amount : t \in Threshold}]

CostTypeOK ==
    /\ spent \in [Period -> Nat]
    /\ capOf \in [Period -> Nat]
    /\ triggered \subseteq thresholds /\ thresholds \subseteq Threshold
    /\ alerts \in [Threshold -> Nat]
    /\ stack \in Seq(Comparison)
    /\ uncompared \subseteq Threshold

-----------------------------------------------------------------------------
CostInit ==
    /\ spent = [p \in Period |-> 0]
    /\ capOf = Cap
    /\ thresholds = {}
    /\ triggered = {}
    /\ alerts = [t \in Threshold |-> 0]
    /\ stack = <<>>
    /\ uncompared = {}

(* Who holds the lock may call: anybody when it is free, otherwise the     *)
(* handler of an alert that was just given.                                *)
MayCall == stack # <<>> => Head(stack).passed # -1

WithinCaps(cost) == \A p \in Period : spent[p] + cost <= capOf[p]

Added(cost) == [p \in Period |-> spent[p] + cost]

(* A record that compares what was spent before it.                        *)
RecordLate(cost) ==
    /\ MayCall /\ Len(stack) < MaxDepth
    /\ WithinCaps(cost)
    /\ spent' = Added(cost)
    /\ stack' = <<[period |-> "daily", current |-> spent["daily"], passed |-> -1]>> \o stack
    /\ uncompared' = {}
    /\ UNCHANGED <<capOf, thresholds, triggered, alerts>>

(* A cost over a cap raises and is not recorded.                           *)
Record(cost) ==
    /\ MayCall /\ Len(stack) < MaxDepth
    /\ WithinCaps(cost)
    /\ spent' = Added(cost)
    /\ stack' = <<[period |-> "daily", current |-> spent'["daily"], passed |-> -1]>> \o stack
    /\ uncompared' = {}
    /\ UNCHANGED <<capOf, thresholds, triggered, alerts>>

(* The thresholds, in the order of their amounts, that the innermost       *)
(* comparison has before it and that it will find exceeded.                *)
Exceeded ==
    LET top == Head(stack) IN
    {t \in thresholds \ triggered :
        /\ t.period = top.period
        /\ t.amount > top.passed
        /\ t.amount <= top.current}

Passed(amount) == <<[Head(stack) EXCEPT !.passed = amount]>> \o Tail(stack)

(* The next one is marked first; then its handlers are called.             *)
Alert ==
    /\ stack # <<>> /\ Exceeded # {}
    /\ LET t == CHOOSE x \in Exceeded : \A y \in Exceeded : x.amount <= y.amount IN
         /\ triggered' = triggered \cup {t}
         /\ alerts' = [alerts EXCEPT ![t] = @ + 1]
         /\ stack' = Passed(t.amount)
    /\ UNCHANGED <<spent, capOf, thresholds, uncompared>>

(* No more in this period: the month, computed now, or back to the caller. *)
NextPeriod ==
    /\ stack # <<>> /\ Exceeded = {}
    /\ stack' =
         IF Head(stack).period = "daily"
         THEN <<[period |-> "monthly", current |-> spent["monthly"], passed |-> -1]>>
                \o Tail(stack)
         ELSE Tail(stack)
    /\ UNCHANGED <<spent, capOf, thresholds, triggered, alerts, uncompared>>

(* add_threshold compares nothing: it waits for the next record.           *)
AddThreshold(t) ==
    /\ MayCall
    /\ t \notin thresholds
    /\ thresholds' = thresholds \cup {t}
    /\ uncompared' = uncompared \cup {t}
    /\ UNCHANGED <<spent, capOf, triggered, alerts, stack>>

(* Nor does reset_thresholds, which arms the thresholds of some periods.   *)
ResetThresholds(periods) ==
    /\ MayCall
    /\ LET armed == {t \in thresholds : t.period \in periods} IN
         /\ triggered' = triggered \ armed
         /\ alerts' = [t \in Threshold |-> IF t \in armed THEN 0 ELSE alerts[t]]
         /\ uncompared' = uncompared \cup armed
    /\ UNCHANGED <<spent, capOf, thresholds, stack>>

(* set_daily_limit, set_monthly_limit.                                     *)
SetLimit(p, amount) ==
    /\ MayCall
    /\ capOf' = [capOf EXCEPT ![p] = amount]
    /\ UNCHANGED <<spent, thresholds, triggered, alerts, stack, uncompared>>

(* clear_records, of all, or of what was before today.                     *)
ClearRecords(all) ==
    /\ MayCall
    /\ spent' = IF all THEN [p \in Period |-> 0]
                ELSE [spent EXCEPT !["monthly"] = spent["daily"]]
    /\ UNCHANGED <<capOf, thresholds, triggered, alerts, stack, uncompared>>

(* Time passes, even while alerts are being handled.                       *)
NextDay ==
    /\ spent' = [spent EXCEPT !["daily"] = 0]
    /\ UNCHANGED <<capOf, thresholds, triggered, alerts, stack, uncompared>>

NextMonth ==
    /\ spent' = [p \in Period |-> 0]
    /\ UNCHANGED <<capOf, thresholds, triggered, alerts, stack, uncompared>>

CostNext ==
    \/ \E cost \in 1 .. MaxCost : Record(cost)
    \/ Alert
    \/ NextPeriod
    \/ \E t \in Threshold : AddThreshold(t)
    \/ \E periods \in SUBSET Period : ResetThresholds(periods)
    \/ \E p \in Period : \E amount \in 0 .. Cap[p] : SetLimit(p, amount)
    \/ \E all \in BOOLEAN : ClearRecords(all)
    \/ NextDay
    \/ NextMonth

CostSpec == CostInit /\ [][CostNext]_costVars

-----------------------------------------------------------------------------
(* Properties *)

(* Alerts tell what was spent.  A threshold gives one alert until it is    *)
(* armed again, even when a handler records costs while the comparison     *)
(* that called it is under way; and with no comparison under way, a        *)
(* threshold the period's spending has reached has given it, unless it was *)
(* added or armed after the last record.  A handler's own record may be    *)
(* the one that crosses it, while the comparison outside it still has an   *)
(* older sum in hand.                                                      *)
AlertsMatchSpending ==
    /\ \A t \in Threshold : alerts[t] <= 1
    /\ stack = <<>> =>
           \A t \in thresholds \ uncompared :
               spent[t.period] >= t.amount => t \in triggered /\ alerts[t] = 1
=============================================================================

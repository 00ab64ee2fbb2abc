----------------------------- MODULE Analysis ------------------------------
(***************************************************************************)
(* What internal/analysis derives from one cached usage: the pace of an    *)
(* item (usage_analysis.go) and the quota that will expire unused          *)
(* (expiring_usage.go).                                                    *)
(*                                                                         *)
(* Times and durations are in quarters of an hour.  Amounts are whole in   *)
(* the items (`used`, `remaining`, `limit`) and in thousandths in what is  *)
(* derived, which is the three decimals the code rounds to; so are         *)
(* percentages and scores.  Beyond the fields of History an item has       *)
(*   limit, percentUsed, state, severity, failed (its Error is set),       *)
(*   visible, bank (a banked reset credit), tiers and tags (sets) and      *)
(*   base, its id without the window suffix ("" when the id has none).     *)
(***************************************************************************)
EXTENDS Integers, FiniteSets, FiniteSetsExt

Hour  == 4
Milli == 1000

Round(num, den)   == (2 * num + den) \div (2 * den)
Clamp(v, lo, hi)  == IF v < lo THEN lo ELSE IF v > hi THEN hi ELSE v
AtLeastZero(v)    == IF v < 0 THEN 0 ELSE v
Smaller(a, b)     == IF a < b THEN a ELSE b
Greater(a, b)     == IF a < b THEN b ELSE a

(***************************************************************************)
(* Readings of one item.                                                   *)
(***************************************************************************)
\* Mutant: a balance without a limit is an item like another.
IsCreditBalanceItemNever(item) == item.kind = "credit" /\ item.limit < 0

IsCreditBalanceItem(item) == item.kind = "credit" /\ item.limit = 0

PercentRemaining(item) ==
  IF IsCreditBalanceItem(item) THEN 0
  ELSE IF item.limit > 0 THEN Clamp(Round(item.remaining * 100 * Milli, item.limit), 0, 100 * Milli)
  ELSE IF item.unit = "percent" THEN Clamp(item.remaining * Milli, 0, 100 * Milli)
  ELSE IF item.percentUsed > 0 \/ item.used > 0 THEN Clamp((100 - item.percentUsed) * Milli, 0, 100 * Milli)
  ELSE IF item.remaining > 0 THEN 100 * Milli ELSE 0

\* 0 when no length can be inferred.
InferWindowDuration(item) ==
  CASE item.kind \in {"session", "rolling"} -> 5 * Hour
    [] item.kind = "weekly"  -> 168 * Hour
    [] item.kind = "daily"   -> 24 * Hour
    [] item.kind = "monthly" -> 720 * Hour
    [] OTHER -> 0

\* The analysis knows "extra" credits too, and a month only with a reset.
InferAnalysisWindowDuration(item) ==
  CASE item.kind \in {"monthly", "extra"} -> IF item.resetAt > 0 THEN 720 * Hour ELSE 0
    [] OTHER -> InferWindowDuration(item)

(***************************************************************************)
(* AnalyzeUsage: pace, pressure and projected exhaustion of one item.      *)
(***************************************************************************)
NoPace == [found |-> FALSE]

PressureLevel(value, timeRemaining) ==
  CASE timeRemaining <= 0 -> "expired"
    [] timeRemaining > 0 /\ value <= 750 -> "low"
    [] timeRemaining > 0 /\ value > 750  /\ value <= 1250 -> "steady"
    [] timeRemaining > 0 /\ value > 1250 /\ value <= 2000 -> "elevated"
    [] OTHER -> "high"

\* exhaustsAt is in thousandths of the time unit.
PacePressureProjection(item, elapsed, timeRemaining, now) ==
  LET required == IF timeRemaining > 0 THEN item.remaining ELSE 0
      value    == Round(required * elapsed * Milli, item.used * Greater(timeRemaining, 1))
      at       == Milli * now + IF item.remaining <= 0 THEN 0
                                ELSE (item.remaining * elapsed * Milli) \div item.used
  IN  [found       |-> TRUE,
       pressure    |-> IF item.used > 0 THEN PressureLevel(value, timeRemaining) ELSE "none",
       projected   |-> item.remaining <= 0 \/ item.used > 0,
       exhaustsAt  |-> IF item.remaining <= 0 \/ item.used > 0 THEN at ELSE 0,
       beforeReset |-> \/ item.remaining <= 0
                       \/ item.used > 0 /\ item.resetAt > 0 /\ at <= Milli * item.resetAt]

AnalyzeItem(item, now) ==
  LET percent       == PercentRemaining(item)
      hasReset      == item.resetAt > 0
      timeRemaining == item.resetAt - now
      duration      == InferAnalysisWindowDuration(item)
      elapsed       == duration - timeRemaining
      doubtful      == \/ percent = 0 /\ item.remaining > 0
                       \/ item.state \in {"stale", "error"} \/ item.severity = "error" \/ item.failed
                       \/ ~hasReset \/ timeRemaining <= 0
                       \/ duration = 0 \/ elapsed <= 0
  IN  [item |-> item, percent |-> percent,
       confidence |-> IF doubtful THEN "low" ELSE "medium",
       pace |-> IF hasReset /\ duration > 0 /\ elapsed > 0
                THEN PacePressureProjection(item, elapsed, timeRemaining, now)
                ELSE NoPace]

(***************************************************************************)
(* The window of an item, for the overlap of short and long windows.       *)
(***************************************************************************)
Total(item) == item.remaining + item.used

\* Mutant: the pace is taken over the whole window, not what has elapsed.
EstimateNaturalUseWhole(item, duration, timeRemaining) ==
  IF duration <= 0 \/ timeRemaining >= duration THEN 0
  ELSE Clamp(Round(item.used * timeRemaining * Milli, duration), 0, Total(item) * Milli)

EstimateNaturalUse(item, duration, timeRemaining) ==
  LET elapsed == duration - timeRemaining
  IN  IF duration <= 0 \/ elapsed <= 0 THEN 0
      ELSE Clamp(Round(item.used * timeRemaining * Milli, elapsed), 0, Total(item) * Milli)

QuotaWindowInfo(item, now) ==
  LET duration == InferWindowDuration(item)
  IN  [item |-> item, resetAt |-> item.resetAt, timeRemaining |-> item.resetAt - now,
       duration  |-> duration,
       startedAt |-> IF duration > 0 THEN item.resetAt - duration ELSE 0,
       elapsed   |-> IF duration > 0 THEN duration - (item.resetAt - now) ELSE 0,
       parentDemand |-> EstimateNaturalUse(item, duration, item.resetAt - now)]

QuotaWindowInfos(items, now) ==
  {QuotaWindowInfo(item, now) :
     item \in {i \in items : /\ i.visible /\ i.remaining >= 0 /\ ~i.bank
                                    /\ i.resetAt > now /\ InferWindowDuration(i) > 0}}

OverlapFamily(item) == <<item.provider, item.base>>
HasOverlapFamily(item) == item.base # ""

WindowsOverlap(a, b) == a.startedAt < b.resetAt /\ b.startedAt < a.resetAt

ParentWindows(child, infos) ==
  {p \in infos : /\ HasOverlapFamily(child.item) /\ HasOverlapFamily(p.item)
                 /\ child.duration > 0
                 /\ p.item.id # child.item.id
                 /\ OverlapFamily(p.item) = OverlapFamily(child.item)
                 /\ p.item.unit = child.item.unit
                 /\ p.duration > child.duration
                 /\ WindowsOverlap(child, p)}

\* The shortest of them, the first to reset among equals.
BestParentWindow(parents) ==
  CHOOSE p \in parents : \A q \in parents : \/ p.duration < q.duration
                                            \/ p.duration = q.duration /\ p.resetAt <= q.resetAt

FutureShortWindows(child, parent) ==
  IF parent.resetAt <= child.resetAt THEN 0
  ELSE (parent.resetAt - child.resetAt) \div child.duration

FutureShortCapacity(child, windows) ==
  windows * (IF child.item.limit > 0 THEN child.item.limit ELSE Total(child.item))

(***************************************************************************)
(* ExpiringUsage: one opportunity for each item that will lose quota.      *)
(***************************************************************************)
UrgencyRank(d) == CASE d <= Hour -> 3
                    [] d > Hour /\ d <= 6 * Hour -> 2
                    [] d > 6 * Hour /\ d <= 24 * Hour -> 1
                    [] OTHER -> 0
UrgencyWeight    == <<35, 65, 85, 100>>                \* low, normal, high, extreme
ConfidenceWeight == [low |-> 45, medium |-> 75, high |-> 100]

\* percent and waste in thousandths; the product is rounded in steps.
OpportunityScore(percent, remaining, wasted, urgency, confidence) ==
  LET underuse == IF remaining > 0 THEN Clamp(Round(wasted, remaining), 0, Milli) ELSE 0
  IN  Round(Round((percent \div 100) * underuse, Milli)
              * UrgencyWeight[1 + urgency] * ConfidenceWeight[confidence], 10000)

EstimatedWastedPercent(item, wasted) ==
  IF item.limit > 0 THEN Clamp(Round(wasted * 100, item.limit), 0, 100 * Milli)
  ELSE IF item.unit = "percent" THEN Clamp(wasted, 0, 100 * Milli)
  ELSE IF Total(item) > 0 THEN Clamp(Round(wasted * 100, Total(item)), 0, 100 * Milli) ELSE 0

\* Mutant: the parent's remaining capacity does not cap the waste.
OverlapAdjustedUncapped(child, parent, raw, urgency) ==
  [actionable |-> raw, urgency |-> Greater(urgency, UrgencyRank(parent.timeRemaining))]

\* The actionable part of `raw` beside the parent window, and its urgency.
OverlapAdjusted(child, parent, raw, urgency) ==
  LET percent     == PercentRemaining(parent.item)
      windows     == FutureShortWindows(child, parent)
      capacity    == FutureShortCapacity(child, windows)
      demand      == Clamp(parent.parentDemand, 0, Total(parent.item) * Milli)
      ratio       == Clamp(Round(parent.timeRemaining * Milli, parent.duration), 0, Milli)
      nearReset   == parent.timeRemaining <= child.duration \/ ratio <= 150
      constrained == percent > 0 /\ percent <= 25 * Milli
      fresh       == ratio >= 500 /\ percent >= 40 * Milli /\ ~nearReset /\ ~constrained
      capped      == Smaller(raw, AtLeastZero(parent.item.remaining) * Milli)
      satisfied   == windows > 0 /\ capacity * Milli >= Greater(demand, child.item.remaining * Milli)
  IN  [actionable |-> Clamp(IF fresh /\ satisfied THEN Round(capped, 4) ELSE capped, 0, raw),
       urgency    |-> IF nearReset \/ constrained
                      THEN Greater(urgency, UrgencyRank(parent.timeRemaining)) ELSE urgency]

\* opts: [within (0 for any), minimum, providers, tiers, tags ({} for any),
\* lowToo]; rate: a rate of History.

ConfidenceOf(info, rate) ==
  IF info.item.state = "stale" THEN "low"
  ELSE IF rate.found THEN rate.confidence
  ELSE IF info.duration > 0 /\ info.elapsed > 0 THEN "medium" ELSE "low"

NaturalUse(info, rate) ==
  Clamp(IF rate.found THEN Round(rate.delta * info.timeRemaining * Milli, rate.time)
        ELSE IF info.elapsed > 0 THEN EstimateNaturalUse(info.item, info.duration, info.timeRemaining)
        ELSE 0,
        0, Total(info.item) * Milli)

Considered(item, opts, now) ==
  /\ item.visible /\ item.remaining > 0 /\ ~item.bank
  /\ opts.providers = {} \/ item.provider \in opts.providers
  /\ \A f \in {"tiers", "tags"} : opts[f] = {} \/ item[f] \cap opts[f] # {}
  /\ PercentRemaining(item) > 0 /\ PercentRemaining(item) >= opts.minimum * Milli
  /\ item.resetAt > now
  /\ opts.within > 0 => item.resetAt - now <= opts.within

Opportunity(item, rate, infos, now) ==
  LET info     == QuotaWindowInfo(item, now)
      natural  == NaturalUse(info, rate)
      raw      == AtLeastZero(item.remaining * Milli - natural)
      parents  == ParentWindows(info, infos)
      own      == UrgencyRank(info.timeRemaining)
      adjusted == IF parents = {} THEN [actionable |-> raw, urgency |-> own]
                  ELSE OverlapAdjusted(info, BestParentWindow(parents), raw, own)
      conf     == ConfidenceOf(info, rate)
  IN  [provider |-> item.provider, item |-> item.id, resetAt |-> item.resetAt,
       natural |-> natural, raw |-> raw, actionable |-> adjusted.actionable,
       actionablePercent |-> EstimatedWastedPercent(item, adjusted.actionable),
       confidence |-> conf, inferred |-> ~rate.found /\ info.elapsed > 0,
       score |-> OpportunityScore(PercentRemaining(item), item.remaining,
                                  adjusted.actionable, adjusted.urgency, conf)]

\* The set of opportunities; rates is a function of the item ids.
ExpiringUsage(items, rates, opts, now) ==
  LET infos == QuotaWindowInfos(items, now)
  IN  {op \in {Opportunity(item, rates[item.id], infos, now) :
                 item \in {i \in items : Considered(i, opts, now)}} :
         /\ opts.lowToo \/ op.confidence # "low"
         /\ op.raw > 0 /\ op.actionable > 0 /\ op.score > 0}
=============================================================================

------------------------------ MODULE History ------------------------------
(***************************************************************************)
(* The usage history of src/internal/history/history.go: the samples a     *)
(* refresh adds, the retention and the bound per series, and the burn rate *)
(* read back from them.                                                    *)
(*                                                                         *)
(* A quota item is a record with at least the fields                       *)
(*   provider, id, unit, window, kind, resetAt, resetMs, used, remaining;  *)
(* "" and 0 stand for a field the provider left out.  Time is counted in   *)
(* quarters of an hour; resetMs is the rest of the reset time, below that  *)
(* grain, which only the comparison of two reset times sees.  A sample has *)
(* the item's fields, `at`, the time it was recorded, and `burned`, a      *)
(* ghost: what had really been consumed when the provider answered.        *)
(***************************************************************************)
EXTENDS Integers, FiniteSets, FiniteSetsExt

CONSTANTS Retention,     \* how long a sample is kept
          MaxPerSeries   \* how many samples a series keeps

ASSUME HistoryAssumption == Retention \in Nat \ {0} /\ MaxPerSeries \in Nat \ {0}

RecentHorizons == <<1, 4, 24>>          \* 15 minutes, 1 hour, 6 hours

(***************************************************************************)
(* Samples and series.                                                     *)
(***************************************************************************)
SampleFromItem(item, at, burned) ==
  [provider |-> item.provider, id |-> item.id, unit |-> item.unit,
   window |-> item.window, kind |-> item.kind, resetAt |-> item.resetAt,
   resetMs |-> item.resetMs, used |-> item.used, remaining |-> item.remaining, at |-> at, burned |-> burned]

SeriesKey(s) == <<s.provider, s.id, s.unit, s.window, s.kind>>

\* Two optional values agree unless both are given and differ.
Agree(a, b, none) == a = none \/ b = none \/ a = b

SamplesShareWindow(prev, cur) ==
  /\ \/ prev.resetAt = 0 \/ cur.resetAt = 0
     \/ prev.resetAt = cur.resetAt /\ prev.resetMs = cur.resetMs
  /\ Agree(prev.unit, cur.unit, "") /\ Agree(prev.window, cur.window, "") /\ Agree(prev.kind, cur.kind, "")

SampleCompatible(s, item) ==
  /\ s.provider = item.provider /\ s.id = item.id
  /\ SamplesShareWindow(s, item)

(***************************************************************************)
(* Record: append, drop what is older than the retention, keep the newest  *)
(* MaxPerSeries of each series.  A provider is not refreshed twice at one  *)
(* time, so that the samples of a series have different times: the list    *)
(* that the code keeps sorted by time is a set here, ordered by `at`.      *)
(***************************************************************************)
Newer(samples, s) == {r \in samples : SeriesKey(r) = SeriesKey(s) /\ r.at > s.at}

PruneSamples(samples, cutoff, max) ==
  LET kept == {s \in samples : s.at >= cutoff}
  IN  {s \in kept : Cardinality(Newer(kept, s)) < max}

Record(samples, items, now, burned) ==
  PruneSamples(samples \cup {SampleFromItem(i, now, burned[i.id]) : i \in items},
               now - Retention, MaxPerSeries)

(***************************************************************************)
(* Rates.  A rate is `delta` per `time`; NoRate when no two samples of one *)
(* window lie far enough apart.                                            *)
(***************************************************************************)
NoRate == [found |-> FALSE]

\* Mutant: any change of the counter is consumption.
ConsumptionDeltaAbsolute(prev, cur) ==
  IF cur.used > prev.used THEN cur.used - prev.used ELSE prev.used - cur.used

\* -1 when the pair says nothing: the quota went back up inside the window.
ConsumptionDelta(prev, cur) ==
  LET usedDelta == cur.used - prev.used
      remainingDelta == prev.remaining - cur.remaining
  IN  IF usedDelta > 0 THEN usedDelta
      ELSE IF remainingDelta >= 0 THEN remainingDelta
      ELSE IF usedDelta = 0 THEN 0 ELSE -1

Consecutive(S, prev, cur) == prev.at < cur.at /\ \A s \in S : s.at <= prev.at \/ cur.at <= s.at

UsablePairs(S) ==
  {p \in S \X S : /\ Consecutive(S, p[1], p[2]) /\ SamplesShareWindow(p[1], p[2])
                  /\ ConsumptionDelta(p[1], p[2]) >= 0}

\* since = 0 takes the whole series.
RateFromSamples(compatible, since) ==
  LET filtered == {s \in compatible : since <= 0 \/ s.at >= since}
      pairs    == UsablePairs(filtered)
  IN  IF pairs = {} THEN NoRate
      ELSE [found      |-> TRUE,
            delta      |-> SumFunction([p \in pairs |-> ConsumptionDelta(p[1], p[2])]),
            time       |-> SumFunction([p \in pairs |-> p[2].at - p[1].at]),
            confidence |-> IF Cardinality(pairs) >= 2 \/ Cardinality(filtered) >= 3
                           THEN "high" ELSE "medium",
            since      |-> Min({s.at : s \in filtered}),
            until      |-> Max({s.at : s \in filtered})]

\* The shortest recent horizon with a usable pair, or the window to date.
RateForItem(samples, item, now) ==
  LET compatible == {s \in samples : SampleCompatible(s, item)}
      At(h)      == RateFromSamples(compatible, now - RecentHorizons[h])
      usable     == {h \in DOMAIN RecentHorizons : At(h).found}
  IN  IF Cardinality(compatible) < 2 THEN NoRate
      ELSE IF usable # {} THEN At(Min(usable))
      ELSE RateFromSamples(compatible, 0)
=============================================================================

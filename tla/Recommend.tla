---------------------------- MODULE Recommend ------------------------------
(***************************************************************************)
(* The provider level views of internal/analysis: the reset calendar and   *)
(* the availability summary (reset_availability.go) and the ranking of     *)
(* providers for a task profile (provider_recommendations.go).  A usage is *)
(*   [providers |-> a sequence of [id, state, tiers, tags],                *)
(*    items |-> a set of items]                                            *)
(***************************************************************************)
EXTENDS Analysis

ItemsOf(usage, id) == {i \in usage.items : i.provider = id}

(***************************************************************************)
(* ResetCalendar: visible items with a reset time; their order, the        *)
(* soonest first, is left out.                                             *)
(***************************************************************************)
ResetCalendar(usage) == {i \in usage.items : i.visible /\ i.resetAt > 0}

(***************************************************************************)
(* ProviderAvailabilitySummary.                                            *)
(***************************************************************************)
Usable(item) == item.remaining > 0 /\ item.state # "error" /\ item.severity # "error"

Constrains(item) == \/ PercentRemaining(item) <= 10 * Milli \/ item.remaining <= 0
                    \/ item.severity \in {"warning", "error"}
                    \/ item.state \in {"stale", "error"}

\* How much worse each finding makes an "ok" severity, in the code's order.
AvailabilityForProvider(provider, items) ==
  LET visible     == {i \in items : i.visible}
      constraints == {i \in visible : Constrains(i)}
      resets      == {i.resetAt : i \in {c \in constraints : c.resetAt > 0}}
      noUsable    == visible # {} /\ \A i \in visible : ~Usable(i)
  IN  [provider |-> provider.id,
       available |-> /\ items # {} /\ provider.state \notin {"stale", "error"}
                     /\ visible # {} /\ ~noUsable,
       severity |-> IF provider.state = "error" THEN "error"
                    ELSE IF items = {} THEN "unknown"
                    ELSE IF provider.state = "stale" THEN "warning"
                    ELSE IF visible = {} THEN "unknown"
                    ELSE IF noUsable THEN "critical"
                    ELSE IF constraints # {} THEN "warning" ELSE "ok",
       constrainedBy |-> {i.id : i \in constraints},
       nextImprovementAt |-> IF resets = {} THEN 0 ELSE Min(resets)]

ProviderAvailabilitySummary(usage) ==
  [n \in DOMAIN usage.providers |->
     AvailabilityForProvider(usage.providers[n],
       {i \in ItemsOf(usage, usage.providers[n].id) : ~IsCreditBalanceItem(i)})]

(***************************************************************************)
(* RecommendProvider.  opts has the fields of the expiring usage options   *)
(* and `unit` ("" for any).                                                *)
(***************************************************************************)
MetadataMatches(provider, labels, opts) ==
  \A f \in {"tiers", "tags"} : opts[f] = {} \/ (provider[f] \cup labels[f]) \cap opts[f] # {}

NoLabels == [tiers |-> {}, tags |-> {}]

RankedItems(provider, items, opts) ==
  {i \in items : /\ i.visible /\ ~i.bank /\ ~IsCreditBalanceItem(i)
                 /\ MetadataMatches(provider, i, opts)
                 /\ opts.unit = "" \/ i.unit = opts.unit}

\* In percent: the worst of the provider's state and its items'.
AvailabilityScore(provider, items) ==
  LET own  == CASE provider.state = "error" -> 10
                [] provider.state = "stale" -> 45
                [] provider.state = "fresh" -> 100
                [] OTHER -> 70
      errs == \E i \in items : i.state = "error" \/ i.severity = "error" \/ i.failed
      old  == \E i \in items : i.state = "stale"
  IN  Min({own} \cup (IF errs THEN {15} ELSE {}) \cup (IF old THEN {45} ELSE {}))

\* In thousandths of one: the most constrained item and the average.
Headroom(items) ==
  IF items = {} THEN 0 ELSE Min({PercentRemaining(i) \div 100 : i \in items})
AverageHeadroom(items) ==
  IF items = {} THEN 0
  ELSE Round(SumFunction([i \in items |-> PercentRemaining(i) \div 100]), Cardinality(items))

\* Weights in hundredths: headroom, average, expiring, availability itself.
\* Mutant: every profile gives a share to the availability itself.
WeightsAvailable == [general |-> <<70, 15, 10, 5>>, cheap |-> <<75, 0, 20, 5>>,
                     longRunning |-> <<85, 5, 5, 5>>, latencyInsensitive |-> <<65, 0, 30, 5>>,
                     useItOrLoseIt |-> <<15, 0, 80, 5>>]

Weights == [general |-> <<75, 15, 10, 0>>, cheap |-> <<80, 0, 20, 0>>,
            longRunning |-> <<90, 5, 5, 0>>, latencyInsensitive |-> <<70, 0, 30, 0>>,
            useItOrLoseIt |-> <<15, 0, 80, 5>>]

\* All of it in thousandths, scaled by the availability score in percent.
RecommendationScore(profile, headroom, average, expiring, availability) ==
  LET w == Weights[profile]
  IN  Round((w[1] * headroom + w[2] * average + w[3] * expiring + w[4] * Milli) * availability, 10000)

BestExpiring(opportunities, provider, opts, items) ==
  LET own == {op \in opportunities :
                op.provider = provider.id
                /\ (opts.unit = "" \/ \E i \in items : i.id = op.item /\ i.unit = opts.unit)}
  IN  IF own = {} THEN 0 ELSE Max({op.score : op \in own})

RecommendationCandidate(usage, n, opportunities, profile, opts) ==
  LET provider == usage.providers[n]
      items    == ItemsOf(usage, provider.id)
      ranked   == RankedItems(provider, items, opts)
      expiring == BestExpiring(opportunities, provider, opts, items)
  IN  [provider |-> provider.id, n |-> n, ranked |-> ranked, expiring |-> expiring,
       ok |-> /\ opts.providers = {} \/ provider.id \in opts.providers
              /\ opts.unit # "" => ranked # {}
              /\ ranked # {} \/ MetadataMatches(provider, NoLabels, opts)
              /\ opts.minimum > 0 => ranked # {} /\ Headroom(ranked) >= 10 * opts.minimum,
       score |-> RecommendationScore(profile, Headroom(ranked), AverageHeadroom(ranked), expiring,
                                     AvailabilityScore(provider, ranked))]

RankedCandidates(usage, opportunities, profile, opts) ==
  {c \in {RecommendationCandidate(usage, n, opportunities, profile, opts) : n \in DOMAIN usage.providers} :
     c.ok}

\* The first of the ranking; ties go to the lower id, as Providers lists them.
Best(candidates) ==
  CHOOSE c \in candidates :
    \A d \in candidates : c.score > d.score \/ (c.score = d.score /\ c.n <= d.n)

Nobody == [provider |-> "", n |-> 0, ok |-> FALSE, ranked |-> {}, expiring |-> 0, score |-> 0]

SelectedProvider(usage, opportunities, profile, opts) ==
  LET ranking == RankedCandidates(usage, opportunities, profile, opts)
  IN  IF ranking # {} /\ Best(ranking).score > 0 THEN Best(ranking) ELSE Nobody
=============================================================================

------------------------------- MODULE Advice ------------------------------
(***************************************************************************)
(* What the daemon tells its readers about the quotas it polled.           *)
(*                                                                         *)
(* Polls fill the snapshot cache (internal/cache) and the usage history    *)
(* (internal/history); the endpoints /v1/usage/analysis, /v1/resets,       *)
(* /v1/availability, /v1/expiring-usage and /v1/recommendations/provider   *)
(* are functions of those two and of the clock (Analysis, Recommend), so   *)
(* the properties quantify over every answer the state can give.           *)
(* Quotas are consumed, windows end and credits are redeemed upstream.     *)
(***************************************************************************)
EXTENDS History, Recommend

CONSTANTS Providers,      \* a sequence of [id, tiers, tags], in id order
          Quota,          \* item id -> [provider, kind, base, bank, span, relative, burn]
          CreditId,       \* the id of the credit balance
          Balances,       \* the balances it may have
          RefreshAfter, StaleAfter,   \* timings.RefreshMs and StaleMs
          Steps,          \* how far the clock may jump
          Usages,         \* the sets of providers used meanwhile
          MaxTicks, MaxPolls, MaxMishaps   \* bounds

ASSUME AdviceAssumption ==
  /\ RefreshAfter \in Nat \ {0} /\ StaleAfter \in Nat \ {0} /\ Steps \subseteq Nat \ {0}
  /\ {MaxTicks, MaxPolls, MaxMishaps} \subseteq Nat
  /\ Balances \subseteq Nat /\ CreditId \notin DOMAIN Quota /\ IsFiniteSet(DOMAIN Quota)
  /\ \A q \in DOMAIN Quota : /\ Quota[q].span \in Nat \ {0} /\ Quota[q].burn \in Nat \ {0}
                             /\ {Quota[q].bank, Quota[q].relative} \subseteq BOOLEAN
  /\ DOMAIN Providers \subseteq Nat /\ IsFiniteSet(DOMAIN Providers)
  /\ \A n \in DOMAIN Providers : Providers[n].id # ""

ProviderIds == {Providers[n].id : n \in DOMAIN Providers}
Windows(p) == {q \in DOMAIN Quota : Quota[q].provider = p}

VARIABLES now,        \* the clock
          upstream,   \* item id -> [used, resetAt, burned]: the providers' truth
          balance,    \* the spending credits
          cache,      \* provider -> ProviderSnapshot
          samples,    \* the usage history
          spent       \* the bounds used up: ticks, polls, failures and reliefs

vars == <<now, upstream, balance, cache, samples, spent>>

Spend(what, max) == spent[what] < max /\ spent' = [spent EXCEPT ![what] = @ + 1]

NoSnapshot == [items |-> {}, staleAt |-> 0, nextRefreshAt |-> 0, failed |-> FALSE, at |-> 0]

Init ==
  /\ now = 1
  /\ upstream = [q \in DOMAIN Quota |-> [used |-> 0, resetAt |-> 1 + Quota[q].span, burned |-> 0]]
  /\ balance \in Balances
  /\ cache = [p \in ProviderIds |-> NoSnapshot]
  /\ samples = {}
  /\ spent = [w \in {"ticks", "polls", "mishaps"} |-> 0]

(***************************************************************************)
(* Upstream.                                                               *)
(***************************************************************************)
\* Time passes; windows that have ended start again, and the providers in
\* `busy` are used.
Tick(d, busy) ==
  /\ Spend("ticks", MaxTicks)
  /\ now' = now + d
  /\ upstream' = [q \in DOMAIN Quota |->
       LET u     == upstream[q]
           ended == u.resetAt <= now + d
           used  == IF ended THEN 0 ELSE u.used
           n     == IF Quota[q].provider \in busy THEN Smaller(Quota[q].burn, 100 - used) ELSE 0
       IN  [used |-> used + n, burned |-> u.burned + n,
            resetAt |-> IF ended
                        THEN u.resetAt + Quota[q].span * (1 + (now + d - u.resetAt) \div Quota[q].span)
                        ELSE u.resetAt]]
  /\ UNCHANGED <<balance, cache, samples>>

\* A banked reset is redeemed: the provider's windows are emptied, and either
\* go on or are renewed.
Relieve(p) ==
  /\ Spend("mishaps", MaxMishaps)
  /\ \E q \in Windows(p) : upstream[q].used > 0
  /\ \E renewed \in BOOLEAN :
       upstream' = [q \in DOMAIN Quota |->
         IF q \notin Windows(p) THEN upstream[q]
         ELSE [upstream[q] EXCEPT !.used = 0,
                                  !.resetAt = IF renewed THEN now + Quota[q].span ELSE @]]
  /\ UNCHANGED <<now, balance, cache, samples>>

(***************************************************************************)
(* A poll.  ChatGPT's reset time is the poll's own clock plus the seconds  *)
(* left, so its last milliseconds differ from poll to poll; the others     *)
(* report an absolute time.                                                *)
(***************************************************************************)
SeverityForPercent(used) == IF used >= 100 THEN "critical" ELSE IF used >= 80 THEN "warning" ELSE "ok"

WindowItem(q, ms) ==
  LET w == Quota[q]  u == upstream[q]
  IN  [provider |-> w.provider, id |-> q, unit |-> "percent", window |-> w.kind, kind |-> w.kind,
       resetAt |-> u.resetAt, resetMs |-> IF w.relative THEN ms ELSE 0,
       limit |-> 100, used |-> u.used, remaining |-> 100 - u.used, percentUsed |-> u.used,
       state |-> "fresh", severity |-> SeverityForPercent(u.used), failed |-> FALSE,
       visible |-> TRUE, bank |-> w.bank, tiers |-> {}, tags |-> {}, base |-> w.base]

SpendingCreditsItem ==
  [provider |-> "chatgpt", id |-> CreditId, unit |-> "credits", window |-> "spendingCredits",
   kind |-> "credit", resetAt |-> 0, resetMs |-> 0, limit |-> 0, used |-> 0, remaining |-> balance,
   percentUsed |-> 0, state |-> "fresh", severity |-> "ok", failed |-> FALSE,
   visible |-> TRUE, bank |-> FALSE, tiers |-> {}, tags |-> {}, base |-> ""]

Normalize(p, ms) == {WindowItem(q, ms) : q \in Windows(p)}
                      \cup (IF p = "chatgpt" THEN {SpendingCreditsItem} ELSE {})

Burned == [q \in DOMAIN Quota \cup {CreditId} |-> IF q = CreditId THEN 0 ELSE upstream[q].burned]

NeedsRefresh(p) == now >= cache[p].nextRefreshAt

\* recordRefresh of a successful refresh: UpsertSuccess, then History.Record.
Poll(p) ==
  /\ NeedsRefresh(p) /\ Spend("polls", MaxPolls)
  /\ \E ms \in IF \E q \in Windows(p) : Quota[q].relative THEN {0, 1} ELSE {0} :
       LET items == Normalize(p, ms)
       IN  /\ cache' = [cache EXCEPT ![p] = [items |-> items, failed |-> FALSE, at |-> now,
                       nextRefreshAt |-> now + RefreshAfter, staleAt |-> now + StaleAfter]]
           /\ samples' = Record(samples, items, now, Burned)
  /\ UNCHANGED <<now, upstream, balance>>

\* recordRefresh of a failed one: MarkFailure keeps the items as stale.
MarkStale(item, failed) ==
  [item EXCEPT !.state = "stale", !.failed = @ \/ failed,
               !.severity = IF @ = "ok" THEN "warning" ELSE @]

PollFails(p) ==
  /\ NeedsRefresh(p) /\ Spend("mishaps", MaxMishaps)
  /\ cache' = [cache EXCEPT ![p].failed = TRUE, ![p].nextRefreshAt = now + RefreshAfter,
                            ![p].items = {MarkStale(i, TRUE) : i \in @}]
  /\ UNCHANGED <<now, upstream, balance, samples>>

Next == \/ \E p \in ProviderIds : Poll(p) \/ PollFails(p) \/ Relieve(p)
        \/ \E d \in Steps, busy \in Usages : Tick(d, busy)

Spec == Init /\ [][Next]_vars

(***************************************************************************)
(* The usage a reader gets: Store.Snapshot and Store.Overview.             *)
(***************************************************************************)
Snapshot(p) ==
  LET ps == cache[p]
  IN  IF ps.staleAt > 0 /\ now >= ps.staleAt
      THEN {MarkStale(i, ps.failed) : i \in ps.items} ELSE ps.items

ProviderState(p) ==
  LET items == Snapshot(p)
  IN  IF cache[p].failed THEN "error"
      ELSE IF items = {} THEN "stale"
      ELSE IF \E i \in items : i.state = "error" \/ i.severity = "error" THEN "error"
      ELSE IF \E i \in items : i.state = "stale" THEN "stale" ELSE "fresh"

Overview ==
  [providers |-> [n \in DOMAIN Providers |->
                    [id |-> Providers[n].id, state |-> ProviderState(Providers[n].id),
                     tiers |-> Providers[n].tiers, tags |-> Providers[n].tags]],
   items |-> UNION {Snapshot(p) : p \in ProviderIds}]

BurnRateEstimates(items) ==
  [id \in {i.id : i \in items} |-> RateForItem(samples, CHOOSE i \in items : i.id = id, now)]

DefaultOptions == [within |-> 0, minimum |-> 0, providers |-> {}, tiers |-> {}, tags |-> {},
                   unit |-> "", lowToo |-> FALSE]
AllOptions == [DefaultOptions EXCEPT !.lowToo = TRUE]

Opportunities(opts) ==
  LET items == Overview.items
  IN  ExpiringUsage(items, BurnRateEstimates(items), opts, now)

(***************************************************************************)
(* Properties.                                                             *)
(***************************************************************************)
\* The state has its shape: at most MaxPerSeries samples of a series, taken at
\* different times.
TypeOK ==
  /\ now \in Nat /\ balance \in Balances
  /\ \A q \in DOMAIN Quota : upstream[q].used \in 0..100 /\ upstream[q].resetAt > now
  /\ \A p \in ProviderIds : cache[p].at <= now /\ cache[p].failed \in BOOLEAN
  /\ \A s \in samples : /\ s.at <= now
                        /\ Cardinality({r \in samples : SeriesKey(r) = SeriesKey(s)}) <= MaxPerSeries
                        /\ \A r \in samples : r.id = s.id /\ r.at = s.at => r = s

\* A burn rate never counts more than was really consumed between its first
\* and its last sample, nor more time than lies between them: windows that
\* ended, quota that was given back and pruned samples add nothing (history.go
\* rateFromSamples, consumptionDelta).
BurnIsReal ==
  \A i \in Overview.items :
    LET rate == RateForItem(samples, i, now)
    IN  rate.found => \E first, last \in samples :
                        /\ first.id = i.id /\ first.at = rate.since
                        /\ last.id = i.id /\ last.at = rate.until
                        /\ 0 <= rate.delta /\ rate.delta <= last.burned - first.burned
                        /\ 0 < rate.time /\ rate.time <= last.at - first.at

\* Two polls of one running window, at two times and with no quota given
\* back between them, yield a burn rate (rateForItem), if the provider reports
\* absolute reset times.
HasPair(i) == \E s \in samples :
                 /\ s.id = i.id /\ s.resetAt = i.resetAt /\ i.resetAt > 0
                 /\ s.at < cache[i.provider].at /\ s.used <= i.used
                 /\ \A r \in samples : r.id = i.id => r.used <= i.used
AbsoluteRatesAreFound ==
  \A i \in Overview.items :
    i.id \in DOMAIN Quota /\ ~Quota[i.id].relative /\ HasPair(i) => RateForItem(samples, i, now).found

\* The history has its shape, and a rate is found where there was consumption
\* to see, and never exceeds it.
RatesAreReal == TypeOK /\ BurnIsReal /\ AbsoluteRatesAreFound

\* Nothing read from a refresh that has failed since, or that is older than
\* the stale limit, is offered as expiring unless low confidence is asked for
\* (cache MarkFailure and Snapshot, analysis expiringOpportunity).
FreshOnly ==
  \A op \in Opportunities(DefaultOptions) :
    ~cache[op.provider].failed /\ now < cache[op.provider].at + StaleAfter

\* A longer window of the same family that runs at the same time.
LongerWindow(i, j) ==
  /\ j.visible /\ ~j.bank /\ j.provider = i.provider /\ j.id # i.id
  /\ j.base = i.base /\ i.base # "" /\ j.unit = i.unit /\ j.resetAt > now
  /\ 0 < InferWindowDuration(i) /\ InferWindowDuration(i) < InferWindowDuration(j)
  /\ i.resetAt - InferWindowDuration(i) < j.resetAt
  /\ j.resetAt - InferWindowDuration(j) < i.resetAt

\* What is offered is there: the actionable part is within the raw waste, that
\* within what remains, what is raw waste and what will be used before the
\* reset add up to no more than the quota, and a shortest of the longer windows
\* that the use would count against has room for it (expiringOpportunity and
\* applyOverlapAdjustments, clamp after clamp).
WasteIsBounded ==
  LET items == Overview.items
  IN  \A op \in Opportunities(AllOptions), i \in items : i.id = op.item =>
      /\ 0 < op.actionable /\ op.actionable <= op.raw /\ op.raw <= i.remaining * Milli
      /\ op.raw + op.natural <= Total(i) * Milli
      /\ LET longer == {j \in items : LongerWindow(i, j)}
         IN  longer # {} => \E j \in longer :
               /\ op.actionable <= j.remaining * Milli
               /\ \A k \in longer : InferWindowDuration(j) <= InferWindowDuration(k)

\* What is offered as expiring is known to be there, and is there.
OffersAreReal == FreshOnly /\ WasteIsBounded

\* The two views of one snapshot agree on its pace: an item the expiring view
\* says will be left over, from the pace the snapshot implies, is not one the
\* analysis projects to run out before the reset, and the item the analysis
\* puts under high pressure is not one it projects to run out
\* (usage_analysis.go pacePressureProjection, expiring_usage.go
\* estimateNaturalUse: two independent computations).
ViewsAgree ==
  LET offered == Opportunities(AllOptions)
  IN  \A i \in Overview.items :
        LET view == AnalyzeItem(i, now).pace
        IN  view.found => /\ \A op \in offered : op.item = i.id /\ op.inferred => ~view.beforeReset
                          /\ view.pressure \in {"elevated", "high"} => ~view.beforeReset
                          /\ view.projected /\ ~view.beforeReset => view.exhaustsAt > Milli * i.resetAt

Profiles == DOMAIN Weights

\* Every profile's choice from one usage.
Recommended(usage, rates) ==
  LET opportunities == ExpiringUsage(usage.items, rates, AllOptions, now)
  IN  [profile \in Profiles |-> SelectedProvider(usage, opportunities, profile, DefaultOptions)]

\* An optional spending balance decides nothing: with any balance, and without
\* the item, every reader gets the same availability, recommendation, reset
\* calendar and opportunities (docs/CHATGPT_CREDITS.md:41).
CreditBalanceNeverDecides ==
  LET usage  == Overview
      others == [usage EXCEPT !.items = {i \in @ : i.id # CreditId}]
      rates  == BurnRateEstimates(usage.items)
  IN  /\ ProviderAvailabilitySummary(usage) = ProviderAvailabilitySummary(others)
      /\ Recommended(usage, rates) = Recommended(others, rates)
      /\ ResetCalendar(usage) = ResetCalendar(others)
      /\ ExpiringUsage(usage.items, rates, AllOptions, now)
           = ExpiringUsage(others.items, rates, AllOptions, now)

\* Every profile but use-it-or-lose-it selects a provider that has quota left,
\* whatever is stale or in error, and every profile selects one as long as some
\* provider has a window and none of its windows is used up
\* (provider_recommendations.go headroomSignals, recommendationScore).
SelectedHasQuota ==
  LET usage  == Overview
      chosen == Recommended(usage, BurnRateEstimates(usage.items))
      Counts(i)   == i.visible /\ ~i.bank /\ ~IsCreditBalanceItem(i)
      Unexhausted == \E p \in ProviderIds :
                       /\ \E i \in ItemsOf(usage, p) : Counts(i)
                       /\ \A i \in ItemsOf(usage, p) : Counts(i) => i.remaining > 0
  IN  \A profile \in Profiles :
        LET p == chosen[profile].provider
        IN  /\ p # "" /\ profile # "useItOrLoseIt" =>
                 \E i \in ItemsOf(usage, p) : Counts(i) /\ i.remaining > 0
            /\ Unexhausted => p # ""
=============================================================================

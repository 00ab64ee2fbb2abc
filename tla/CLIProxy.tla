------------------------------ MODULE CLIProxy ------------------------------
(***************************************************************************)
(* The account pool of a CLIProxyAPI instance (internal/providers/cliproxy *)
(* cliproxy.go and accounts.go), with what the cache keeps of its answers. *)
(*                                                                         *)
(* One fetch lists the credentials, runs a goroutine per account, at most  *)
(* MaxConcurrent of them calling, and joins them.  An account's vendor     *)
(* decides which calls are made and which of them may fail.  The whole     *)
(* pool is one provider: the cache replaces all rows or marks all stale.   *)
(* Quota is one level per account; windows and wording are left out.       *)
(***************************************************************************)
EXTENDS Integers, Sequences, FiniteSets

CONSTANTS Account,
          Vendors,        \* the vendors the accounts may belong to, as functions
          Level,          \* levels of remaining quota
          MaxConcurrent,  \* maxConcurrentAccounts
          MaxChanges,     \* bound: changes of quota and of the management key
          MaxInterrupts   \* bound: fetches whose context ends

ASSUME PoolAssumption == /\ MaxConcurrent \in Nat \ {0} /\ IsFiniteSet(Account)
                         /\ Level \subseteq Nat /\ {MaxChanges, MaxInterrupts} \subseteq Nat

VARIABLES vendor,         \* by account, the normalized kind of its credential
          quota,          \* what each account's vendor would answer now
          key,            \* the management key as the server sees it: good, bad, none
          phase,          \* of the fetch: idle, list, run
          accounts,       \* the accounts selected from the listing
          at,             \* where each goroutine is: out, queued, calling, done
          tried,          \* the outcomes of an account's calls, in order
          got,            \* the level its answers gave, or None
          ctxDone,        \* the fetch's context has ended
          rows,           \* the cached row of each account
          pause,          \* until the next fetch: interval or hour
          logins,         \* history: rejected calls since the last hour's pause
          held,           \* history: the levels each account had in this fetch
          midway,         \* history: the key changed while accounts were fetched
          changes, interrupts

env  == << quota, key, midway, changes >>
vars == << vendor, env, phase, accounts, at, tried, got, ctxDone, rows, pause, logins, held, interrupts >>

None == -1
NoRow == [kind |-> "none", level |-> None, stale |-> FALSE]
Kinds == {"claude", "codex", "antigravity", "devin", "kimi", "meta", "xai"}

ASSUME VendorsAssumption == Vendors \subseteq [Account -> Kinds]

Init ==
  /\ vendor \in Vendors
  /\ quota \in [Account -> Level]
  /\ key = "good" /\ phase = "idle" /\ accounts = {}
  /\ at = [a \in Account |-> "out"]
  /\ tried = [a \in Account |-> <<>>] /\ got = [a \in Account |-> None]
  /\ ctxDone = FALSE /\ midway = FALSE
  /\ rows = [a \in Account |-> NoRow]
  /\ pause = "interval" /\ logins = 0
  /\ held = [a \in Account |-> {}]
  /\ changes = 0 /\ interrupts = 0

(***************************************************************************)
(* The calls of each vendor.  An outcome is items, empty (an answer that   *)
(* reports no quota), failed, or rejected (the management key was refused).*)
(***************************************************************************)
LastOf(t) == t[Len(t)]

\* Whether another call may follow the outcomes t.
Continues(kind, t) ==
  CASE kind \in {"codex", "meta"} -> t = << "items" >>
    [] kind = "antigravity"       -> Len(t) < 3 /\ LastOf(t) # "items"
    [] kind = "xai"               -> Len(t) < 2
    [] OTHER                      -> FALSE

\* Codex lists its banked resets only if it has some; the others go on.
MayStop(kind, t) == ~Continues(kind, t) \/ kind = "codex"

\* Mutant: a failed listing of banked resets fails the account.
SucceedsAll(kind, t) ==
  IF kind \in {"codex", "meta", "claude", "devin", "kimi"}
  THEN \A i \in DOMAIN t : t[i] = "items"
  ELSE "items" \in {t[i] : i \in DOMAIN t}

\* What makes an account's calls a success.
Succeeds(kind, t) ==
  /\ t # <<>>
  /\ CASE kind = "meta" -> t = << "items", "items" >>
       [] kind = "xai"  -> "items" \in {t[i] : i \in DOMAIN t}
       [] kind = "antigravity" -> LastOf(t) = "items"
       [] OTHER         -> t[1] = "items"

\* Meta's first call brings the token only, Codex's second an expiry only.
BringsQuota(kind, n) == (kind = "meta" => n = 2) /\ (kind = "codex" => n = 1)

(***************************************************************************)
(* The cache: MarkFailure keeps the rows and marks them stale.             *)
(***************************************************************************)

Reset == /\ phase' = "idle" /\ accounts' = {}
         /\ at' = [a \in Account |-> "out"]
         /\ tried' = [a \in Account |-> <<>>] /\ got' = [a \in Account |-> None]
         /\ ctxDone' = FALSE

FetchFails(wait) ==
  /\ rows' = [a \in Account |-> [rows[a] EXCEPT !.stale = @ \/ rows[a].kind # "none"]]
  /\ pause' = wait
  /\ Reset

(***************************************************************************)
(* Fetch.                                                                  *)
(***************************************************************************)
\* The pause passes; an hour forgets the rejected logins.
Start ==
  /\ phase = "idle"
  /\ logins' = IF pause = "hour" THEN 0 ELSE logins
  /\ held' = [a \in Account |-> {quota[a]}]
  /\ IF key = "none"
     THEN FetchFails("interval")
     ELSE /\ phase' = "list" /\ pause' = "interval"
          /\ UNCHANGED << accounts, at, tried, got, ctxDone, rows >>
  /\ UNCHANGED << vendor, env, interrupts >>

\* The subscriptions that are enabled and of a known vendor; none is an error.
List ==
  /\ phase = "list" /\ key = "good" /\ ~ctxDone
  /\ \E chosen \in SUBSET Account \ {{}} :
       /\ accounts' = chosen
       /\ at' = [a \in Account |-> IF a \in chosen THEN "queued" ELSE "out"]
  /\ phase' = "run"
  /\ UNCHANGED << vendor, env, tried, got, ctxDone, rows, pause, logins, held, interrupts >>

ListFails ==
  /\ phase = "list"
  /\ FetchFails("interval")
  /\ UNCHANGED << vendor, env, logins, held, interrupts >>

\* Mutant: a rejected key is retried like any failure.
ListRejectedSoon ==
  /\ phase = "list" /\ key # "good" /\ ~ctxDone
  /\ logins' = logins + 1
  /\ FetchFails("interval")
  /\ UNCHANGED << vendor, env, held, interrupts >>

ListRejected ==
  /\ phase = "list" /\ key # "good" /\ ~ctxDone
  /\ logins' = logins + 1
  /\ FetchFails("hour")
  /\ UNCHANGED << vendor, env, held, interrupts >>

Calling == {a \in Account : at[a] = "calling"}

Take(a) ==
  /\ phase = "run" /\ at[a] = "queued"
  /\ Cardinality(Calling) < MaxConcurrent
  /\ at' = [at EXCEPT ![a] = "calling"]
  /\ UNCHANGED << vendor, env, phase, accounts, tried, got, ctxDone, rows, pause, logins, held, interrupts >>

Outcome(a, o) ==
  CASE o = "rejected" -> key # "good" /\ ~ctxDone
    [] o = "failed"   -> TRUE
    [] OTHER          -> key = "good" /\ ~ctxDone

\* One call of an account is answered; it goes on, or gives the account up.
Call(a) ==
  /\ phase = "run" /\ at[a] = "calling"
  /\ \E o \in {"items", "empty", "failed", "rejected"} :
       LET t == Append(tried[a], o) IN
       /\ Outcome(a, o)
       /\ tried' = [tried EXCEPT ![a] = t]
       /\ got' = IF o = "items" /\ BringsQuota(vendor[a], Len(t)) THEN [got EXCEPT ![a] = quota[a]] ELSE got
       /\ logins' = IF o = "rejected" THEN logins + 1 ELSE logins
       /\ \/ Continues(vendor[a], t) /\ UNCHANGED at
          \/ MayStop(vendor[a], t) /\ at' = [at EXCEPT ![a] = "done"]
  /\ UNCHANGED << vendor, env, phase, accounts, ctxDone, rows, pause, held, interrupts >>

\* A credential without a project, or without a file, needs no call to fail.
Unready(a) ==
  /\ phase = "run" /\ at[a] = "calling" /\ tried[a] = <<>>
  /\ vendor[a] \in {"antigravity", "meta"}
  /\ at' = [at EXCEPT ![a] = "done"]
  /\ UNCHANGED << vendor, env, phase, accounts, tried, got, ctxDone, rows, pause, logins, held, interrupts >>

Joined == phase = "run" /\ \A a \in accounts : at[a] = "done"
Failed == {a \in accounts : ~Succeeds(vendor[a], tried[a])}

NewRow(a) ==
  IF a \notin accounts THEN NoRow
  ELSE IF a \in Failed THEN [kind |-> "error", level |-> None, stale |-> FALSE]
  ELSE [kind |-> "quota", level |-> got[a], stale |-> FALSE]

\* Mutant: the end of the context is not looked at after the join.
RecordLate ==
  /\ Joined /\ Failed # accounts
  /\ rows' = [a \in Account |-> NewRow(a)]
  /\ pause' = "interval"
  /\ Reset
  /\ UNCHANGED << vendor, env, logins, held, interrupts >>

\* Mutant: a fully failed pool is recorded like a partly failed one.
RecordAlways ==
  /\ Joined /\ ~ctxDone
  /\ rows' = [a \in Account |-> NewRow(a)]
  /\ pause' = "interval"
  /\ Reset
  /\ UNCHANGED << vendor, env, logins, held, interrupts >>

Record ==
  /\ Joined /\ ~ctxDone /\ Failed # accounts
  /\ rows' = [a \in Account |-> NewRow(a)]
  /\ pause' = "interval"
  /\ Reset
  /\ UNCHANGED << vendor, env, logins, held, interrupts >>

PoolFails ==
  /\ Joined /\ (ctxDone \/ Failed = accounts)
  /\ FetchFails("interval")
  /\ UNCHANGED << vendor, env, logins, held, interrupts >>

(***************************************************************************)
(* The environment.                                                        *)
(***************************************************************************)
QuotaChanges(a) ==
  /\ changes < MaxChanges /\ changes' = changes + 1
  /\ \E l \in Level \ {quota[a]} :
       /\ quota' = [quota EXCEPT ![a] = l]
       /\ held' = [held EXCEPT ![a] = @ \cup {l}]
  /\ UNCHANGED << vendor, key, midway, phase, accounts, at, tried, got, ctxDone, rows, pause, logins, interrupts >>

KeyChanges ==
  /\ changes < MaxChanges /\ changes' = changes + 1
  /\ \E k \in {"good", "bad", "none"} \ {key} : key' = k
  /\ midway' = (midway \/ phase = "run")
  /\ UNCHANGED << vendor, quota, phase, accounts, at, tried, got, ctxDone, rows, pause, logins, held, interrupts >>

\* A client's timeout, or the daemon is stopped.
Interrupt ==
  /\ phase # "idle" /\ ~ctxDone
  /\ interrupts < MaxInterrupts /\ interrupts' = interrupts + 1
  /\ ctxDone' = TRUE
  /\ UNCHANGED << vendor, env, phase, accounts, at, tried, got, rows, pause, logins, held >>

Fetch ==
  \/ List \/ ListFails \/ ListRejected \/ Record \/ PoolFails
  \/ \E a \in Account : Take(a) \/ Call(a) \/ Unready(a)

Next ==
  \/ Start \/ Fetch
  \/ \E a \in Account : QuotaChanges(a)
  \/ KeyChanges \/ Interrupt

Spec == Init /\ [][Next]_vars

(***************************************************************************)
(* Properties.                                                             *)
(***************************************************************************)
Rows == [kind : {"none", "quota", "error"}, level : Level \cup {None}, stale : BOOLEAN]

\* Every variable keeps its kind; a goroutine runs only for a selected account.
TypeOK ==
  /\ vendor \in [Account -> Kinds] /\ quota \in [Account -> Level]
  /\ key \in {"good", "bad", "none"} /\ phase \in {"idle", "list", "run"}
  /\ at \in [Account -> {"out", "queued", "calling", "done"}]
  /\ \A a \in Account : (at[a] # "out") <=> (a \in accounts)
  /\ \A a \in Account : Len(tried[a]) <= 3 /\ got[a] \in Level \cup {None}
  /\ rows \in [Account -> Rows] /\ \A a \in Account : rows[a].kind = "quota" => rows[a].level \in Level
  /\ pause \in {"interval", "hour"} /\ logins \in Nat /\ ctxDone \in BOOLEAN /\ midway \in BOOLEAN

\* cliproxy.go:32: a large pool does not burst the usage endpoints.
CallsAreBounded == Cardinality(Calling) <= MaxConcurrent

\* cliproxy.go:150-151, README.md:281: a recorded fetch shows each selected
\* account once, with a level its vendor gave during this very fetch, or with
\* an error row of its own; and shows at least one level.
RowsAreItsOwn ==
  [][ (phase = "run" /\ phase' = "idle" /\ pause' = "interval" /\ \E a \in Account : rows'[a] # NoRow /\ ~rows'[a].stale) =>
        /\ \A a \in Account : rows'[a].kind = "none" <=> a \notin accounts
        /\ \A a \in accounts : rows'[a].kind = "quota" => rows'[a].level \in held[a]
        /\ \E a \in accounts : rows'[a].kind = "quota" ]_vars

\* cliproxy.go:150-151, snapshot.go:125: a level leaves the cache only when a
\* whole fetch replaced it: not for an interrupted fetch, nor for a pool of
\* which nothing could be read.
OutageKeepsLevels ==
  [][ \A a \in Account :
        (rows[a].kind = "quota" /\ rows'[a].kind # "quota") =>
          ~ctxDone /\ phase = "run" /\ Failed # accounts ]_vars

\* accounts.go:55-56: best effort calls never hide an account's quota; an
\* alternative endpoint, and one of two views, is enough.
OneAnswerIsEnough ==
  \A a \in Account :
    (at[a] = "done" /\ got[a] # None) => Succeeds(vendor[a], tried[a])

\* The calls of a fetch stay within bounds, and one that failed costs no answer.
FetchIsSound == TypeOK /\ CallsAreBounded /\ OneAnswerIsEnough

\* README.md:285: a rejected key is tried once in an hour, unless it was
\* replaced while a listing it had already allowed was being worked through.
RejectionsAreRare == midway \/ logins <= 1
=============================================================================

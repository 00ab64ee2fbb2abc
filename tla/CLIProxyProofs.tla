--------------------------- MODULE CLIProxyProofs ---------------------------
(***************************************************************************)
(* Theorems about the account pool, for any number of accounts, vendors,   *)
(* levels, concurrent calls, changes and interruptions.                    *)
(*                                                                         *)
(* The invariant says what the outcomes of an account's calls have to do   *)
(* with the level it will show: while it is calling, the calls made so far *)
(* ask for another one; when it is done, it has a level exactly if its     *)
(* vendor's calls count as a success; and that level is one the vendor had *)
(* during this very fetch.  The cache follows from it.                     *)
(***************************************************************************)
EXTENDS CLIProxy, FiniteSetTheorems, SequenceTheorems, TLAPS

Outcomes == {"items", "empty", "failed", "rejected"}

(* What the variables hold, as far as TypeOK leaves it open. *)
PoolTypeInv ==
  /\ vendor \in [Account -> Kinds] /\ quota \in [Account -> Level]
  /\ key \in {"good", "bad", "none"} /\ phase \in {"idle", "list", "run"}
  /\ at \in [Account -> {"out", "queued", "calling", "done"}]
  /\ accounts \in SUBSET Account
  /\ tried \in [Account -> Seq(Outcomes)]
  /\ got \in [Account -> Level \cup {None}]
  /\ rows \in [Account -> Rows]
  /\ pause \in {"interval", "hour"} /\ logins \in Nat
  /\ ctxDone \in BOOLEAN /\ midway \in BOOLEAN
  /\ held \in [Account -> SUBSET Level]

(* A goroutine runs for a selected account, and only while a fetch runs. *)
SelectedInv ==
  /\ \A a \in Account : (at[a] # "out") <=> (a \in accounts)
  /\ phase # "run" => accounts = {}

(* How far the calls of an account are. *)
TriedInv ==
  \A a \in Account :
    /\ at[a] \in {"out", "queued"} => tried[a] = <<>>
    /\ at[a] = "calling" => tried[a] = <<>> \/ Continues(vendor[a], tried[a])
    /\ Len(tried[a]) <= 3

(* An account has a level exactly if its calls brought one. *)
GotInv ==
  \A a \in Account :
    /\ at[a] \in {"out", "queued"} => got[a] = None
    /\ at[a] = "calling" =>
         (got[a] # None <=> /\ vendor[a] \in {"codex", "xai"}
                            /\ tried[a] # <<>> /\ tried[a][1] = "items")
    /\ at[a] = "done" => (got[a] # None <=> Succeeds(vendor[a], tried[a]))

(* The level is one of this fetch. *)
HeldInv ==
  \A a \in Account : /\ phase # "idle" => quota[a] \in held[a]
                     /\ got[a] # None => got[a] \in held[a]

(* A row shows a level, or nothing at all. *)
RowInv ==
  \A a \in Account : /\ rows[a].kind = "quota" => rows[a].level \in Level
                     /\ rows[a].kind = "none" => rows[a] = NoRow

(* Unless the key changed under a running fetch, a rejected login belongs to *)
(* the pause of an hour that follows it.                                     *)
LoginInv ==
  ~midway => /\ phase = "run" => key = "good"
             /\ phase # "idle" \/ pause # "hour" => logins = 0
             /\ logins <= 1

PoolInv ==
  /\ PoolTypeInv /\ SelectedInv /\ TriedInv /\ GotInv /\ HeldInv /\ RowInv
  /\ LoginInv /\ CallsAreBounded

ParameterFacts == /\ MaxConcurrent \in Nat \ {0} /\ IsFiniteSet(Account) /\ Level \subseteq Nat
                  /\ Vendors \subseteq [Account -> Kinds]

LEMMA Parameters == ParameterFacts
BY PoolAssumption, VendorsAssumption DEF ParameterFacts

(* A level is not the missing one. *)
LEMMA NoneIsNoLevel == None \notin Level
BY PoolAssumption, SMT DEF None

-----------------------------------------------------------------------------
(* The calls of one account.                                               *)

(* After another call the outcomes are one more, and the earlier ones stay. *)
LEMMA AppendFacts ==
  ASSUME NEW t \in Seq(Outcomes), NEW o \in Outcomes
  PROVE  LET n == Append(t, o) IN
         /\ n \in Seq(Outcomes) /\ n # <<>> /\ Len(n) = Len(t) + 1
         /\ n[Len(n)] = o
         /\ \A i \in 1 .. Len(t) : n[i] = t[i]
         /\ DOMAIN n = 1 .. Len(t) + 1
         /\ Len(t) \in Nat /\ (Len(t) = 0 <=> t = <<>>)
BY SMT

(* Another call brings a level, or an earlier one did.                      *)
Brings(kind, t, o) == o = "items" /\ BringsQuota(kind, Len(Append(t, o)))
Brought(kind, t) == kind \in {"codex", "xai"} /\ t # <<>> /\ t[1] = "items"

(* Whichever call goes on, the pool has counted what it brought. *)
LEMMA CallGoesOn ==
  ASSUME NEW kind \in Kinds, NEW t \in Seq(Outcomes), NEW o \in Outcomes,
         t = <<>> \/ Continues(kind, t), Continues(kind, Append(t, o))
  PROVE  Brings(kind, t, o) \/ Brought(kind, t) <=>
           kind \in {"codex", "xai"} /\ Append(t, o)[1] = "items"
<1> DEFINE n == Append(t, o)
<1>0. /\ n \in Seq(Outcomes) /\ n # <<>> /\ Len(n) = Len(t) + 1 /\ n[Len(n)] = o
      /\ \A i \in 1 .. Len(t) : n[i] = t[i]
      /\ Len(t) \in Nat /\ (Len(t) = 0 <=> t = <<>>)
  BY AppendFacts
<1>1. CASE kind \in {"codex", "meta"}
  <2>1. n = << "items" >>
    BY <1>1, SMT DEF Continues
  <2>2. Len(n) = 1 /\ Len(t) = 0 /\ o = "items" /\ n[1] = "items"
    BY <2>1, <1>0, SMT
  <2> QED
    BY <1>1, <2>2, <1>0, SMT DEF Brings, Brought, BringsQuota
<1>2. CASE kind = "antigravity"
  <2>1. o # "items"
    BY <1>2, <1>0, SMT DEF Continues, LastOf
  <2> QED
    BY <1>2, <2>1, SMT DEF Brings, Brought
<1>3. CASE kind = "xai"
  <2>1. Len(t) = 0 /\ n[1] = o /\ t = <<>>
    BY <1>3, <1>0, SMT DEF Continues
  <2> QED
    BY <1>3, <2>1, SMT DEF Brings, Brought, BringsQuota
<1>4. CASE kind \in {"claude", "devin", "kimi"}
  BY <1>4, SMT DEF Continues
<1> QED
  BY <1>1, <1>2, <1>3, <1>4 DEF Kinds

(* Whichever call is the last, the account has a level exactly if it         *)
(* succeeded.                                                                *)
LEMMA CallIsLast ==
  ASSUME NEW kind \in Kinds, NEW t \in Seq(Outcomes), NEW o \in Outcomes,
         t = <<>> \/ Continues(kind, t), MayStop(kind, Append(t, o))
  PROVE  Brings(kind, t, o) \/ Brought(kind, t) <=> Succeeds(kind, Append(t, o))
<1> DEFINE n == Append(t, o)
<1>0. /\ n \in Seq(Outcomes) /\ n # <<>> /\ Len(n) = Len(t) + 1 /\ n[Len(n)] = o
      /\ \A i \in 1 .. Len(t) : n[i] = t[i]
      /\ DOMAIN n = 1 .. Len(t) + 1
      /\ Len(t) \in Nat /\ (Len(t) = 0 <=> t = <<>>)
  BY AppendFacts
<1>1. CASE kind = "codex"
  <2>1. CASE t = <<>>
    BY <1>1, <2>1, <1>0, SMT DEF Brings, Brought, BringsQuota, Succeeds
  <2>2. CASE t # <<>>
    <3>1. t = << "items" >> /\ Len(t) = 1 /\ t[1] = "items"
      BY <1>1, <2>2, SMT DEF Continues
    <3>2. Len(n) = 2 /\ n[1] = "items"
      BY <3>1, <1>0, SMT
    <3> QED
      BY <1>1, <3>1, <3>2, <1>0, SMT DEF Brings, Brought, BringsQuota, Succeeds
  <2> QED
    BY <2>1, <2>2
<1>2. CASE kind = "meta"
  <2>1. CASE t = <<>>
    <3>1. Len(n) = 1 /\ n # << "items", "items" >>
      BY <2>1, <1>0, SMT
    <3> QED
      BY <1>2, <2>1, <3>1, <1>0, SMT DEF Brings, Brought, BringsQuota, Succeeds
  <2>2. CASE t # <<>>
    <3>1. t = << "items" >> /\ Len(t) = 1 /\ t[1] = "items"
      BY <1>2, <2>2, SMT DEF Continues
    <3>2. Len(n) = 2 /\ n[1] = "items" /\ n[2] = o
      BY <3>1, <1>0, SMT
    <3>3. n = << "items", "items" >> <=> o = "items"
      <4>1. Append(<< "items" >>, o) = << "items", o >>
        <5> DEFINE a == Append(<< "items" >>, o)
                   b == << "items", o >>
        <5>1. a \in Seq(Outcomes) /\ Len(a) = 2 /\ a[1] = "items" /\ a[2] = o
          BY SMT DEF Outcomes
        <5>2. b \in Seq(Outcomes) /\ Len(b) = 2 /\ b[1] = "items" /\ b[2] = o
          BY SMT DEF Outcomes
        <5>3. \A i \in 1 .. Len(a) : a[i] = b[i]
          <6> HIDE DEF a, b
          <6> QED
            BY <5>1, <5>2, SMT
        <5> HIDE DEF a, b
        <5>4. a = b
          BY <5>1, <5>2, <5>3, SeqEqual, Zenon
        <5> QED
          BY <5>4 DEF a, b
      <4>2. n = << "items", o >>
        BY <3>1, <4>1, Zenon
      <4> HIDE DEF n
      <4> QED
        BY <4>2, SMT
    <3> QED
      BY <1>2, <3>1, <3>2, <3>3, <1>0, SMT DEF Brings, Brought, BringsQuota, Succeeds
  <2> QED
    BY <2>1, <2>2
<1>3. CASE kind = "antigravity"
  BY <1>3, <1>0, SMT DEF Brings, Brought, BringsQuota, Succeeds, LastOf
<1>4. CASE kind = "xai"
  <2>1. CASE t = <<>>
    BY <1>4, <2>1, <1>0, SMT DEF Brings, Brought, BringsQuota, Succeeds
  <2>2. CASE t # <<>>
    <3>0. Len(t) = 1
      <4>1. Len(t) < 2
        BY <1>4, <2>2, Zenon DEF Continues
      <4>2. Len(t) \in Nat /\ Len(t) # 0
        BY <1>0, <2>2, Zenon
      <4>3. \A x \in Nat : x < 2 /\ x # 0 => x = 1
        OBVIOUS
      <4> QED
        BY <4>1, <4>2, <4>3, Zenon
    <3>1. n[1] = t[1] /\ n[2] = o /\ 1 \in DOMAIN n /\ 2 \in DOMAIN n
           /\ \A i \in DOMAIN n : i = 1 \/ i = 2
      BY <3>0, <1>0, SMT
    <3>2. Succeeds(kind, n) <=> ("items" = t[1] \/ "items" = o)
      <4> HIDE DEF n
      <4>1. Succeeds(kind, n) <=> \E i \in DOMAIN n : n[i] = "items"
        BY <1>4, <1>0, SMT DEF Succeeds
      <4> QED
        BY <4>1, <3>1
    <3> QED
      BY <1>4, <2>2, <3>2, SMT DEF Brings, Brought, BringsQuota
  <2> QED
    BY <2>1, <2>2
<1>5. CASE kind \in {"claude", "devin", "kimi"}
  <2>1. t = <<>>
    BY <1>5, SMT DEF Continues
  <2> QED
    BY <1>5, <2>1, <1>0, SMT DEF Brings, Brought, BringsQuota, Succeeds
<1> QED
  BY <1>1, <1>2, <1>3, <1>4, <1>5 DEF Kinds

(* No account is asked more than three times. *)
LEMMA ThreeCalls ==
  ASSUME NEW kind \in Kinds, NEW t \in Seq(Outcomes), NEW o \in Outcomes,
         t = <<>> \/ Continues(kind, t)
  PROVE  Len(Append(t, o)) <= 3
<1>1. Len(t) <= 2
  BY SMT DEF Continues, LastOf, Kinds
<1> QED
  BY <1>1, AppendFacts, SMT

-----------------------------------------------------------------------------
(* The invariant.                                                          *)

LEMMA PoolInitially == Init => PoolInv
<1> SUFFICES ASSUME Init PROVE PoolInv
  OBVIOUS
<1>0. ParameterFacts
  BY Parameters
<1>1. PoolTypeInv
  <2>1. /\ vendor \in [Account -> Kinds] /\ quota \in [Account -> Level]
        /\ key \in {"good", "bad", "none"} /\ phase \in {"idle", "list", "run"}
        /\ pause \in {"interval", "hour"} /\ logins \in Nat
        /\ ctxDone \in BOOLEAN /\ midway \in BOOLEAN
    BY <1>0 DEF Init, ParameterFacts
  <2>2. NoRow \in Rows
    BY DEF NoRow, Rows
  <2>3. rows \in [Account -> Rows]
    BY <2>2 DEF Init
  <2>4. /\ at \in [Account -> {"out", "queued", "calling", "done"}]
        /\ accounts \in SUBSET Account
        /\ got \in [Account -> Level \cup {None}] /\ held \in [Account -> SUBSET Level]
    BY DEF Init
  <2>5. tried \in [Account -> Seq(Outcomes)]
    BY DEF Init
  <2> QED
    BY <2>1, <2>3, <2>4, <2>5 DEF PoolTypeInv
<1>2. SelectedInv /\ TriedInv /\ GotInv /\ HeldInv /\ RowInv /\ LoginInv
  <2>1. SelectedInv
    BY SMT DEF Init, SelectedInv
  <2>2. TriedInv
    BY SMT DEF Init, TriedInv
  <2>3. GotInv
    BY SMT DEF Init, GotInv
  <2>4. HeldInv /\ RowInv
    BY SMT DEF Init, HeldInv, RowInv, NoRow
  <2>5. LoginInv
    BY SMT DEF Init, LoginInv
  <2> QED
    BY <2>1, <2>2, <2>3, <2>4, <2>5
<1>3. CallsAreBounded
  <2>1. Calling = {}
    BY DEF Init, Calling
  <2> QED
    BY <2>1, <1>0, FS_EmptySet, SMT DEF CallsAreBounded, ParameterFacts
<1> QED
  BY <1>1, <1>2, <1>3 DEF PoolInv

(* When a fetch ends, nothing is left of its goroutines. *)
LEMMA ResetKeeps ==
  ASSUME PoolInv, Reset
  PROVE  /\ phase' = "idle" /\ phase' \in {"idle", "list", "run"}
         /\ at' \in [Account -> {"out", "queued", "calling", "done"}]
         /\ accounts' \in SUBSET Account
         /\ tried' \in [Account -> Seq(Outcomes)]
         /\ got' \in [Account -> Level \cup {None}]
         /\ ctxDone' \in BOOLEAN
         /\ SelectedInv' /\ TriedInv' /\ GotInv' /\ CallsAreBounded'
         /\ \A a \in Account : got'[a] = None
<1>1. SelectedInv'
  BY SMT DEF Reset, SelectedInv
<1>2. TriedInv' /\ GotInv'
  BY SMT DEF Reset, TriedInv, GotInv
<1>3. CallsAreBounded'
  <2>1. Calling' = {}
    BY DEF Reset, Calling
  <2> QED
    BY <2>1, Parameters, FS_EmptySet, SMT DEF CallsAreBounded, ParameterFacts
<1>4. tried' \in [Account -> Seq(Outcomes)] /\ got' \in [Account -> Level \cup {None}]
  BY SMT DEF Reset
<1>5. at' \in [Account -> {"out", "queued", "calling", "done"}] /\ accounts' \in SUBSET Account
  BY SMT DEF Reset
<1>6. \A a \in Account : got'[a] = None
  BY DEF Reset
<1>7. phase' = "idle" /\ ctxDone' = FALSE
  BY DEF Reset
<1> QED
  BY <1>1, <1>2, <1>3, <1>4, <1>5, <1>6, <1>7

(* A failed fetch marks the rows and shows nothing new. *)
LEMMA FailingKeepsRows ==
  ASSUME PoolInv, NEW wait \in {"interval", "hour"}, FetchFails(wait)
  PROVE  /\ rows' \in [Account -> Rows] /\ RowInv' /\ pause' = wait /\ Reset
         /\ \A a \in Account : /\ rows'[a].kind = rows[a].kind
                               /\ rows'[a] # NoRow => rows'[a].stale
<1>1. rows \in [Account -> Rows] /\ RowInv
  BY DEF PoolInv, PoolTypeInv
<1>2. \A a \in Account :
        rows'[a] = [rows[a] EXCEPT !.stale = rows[a].stale \/ rows[a].kind # "none"]
  BY DEF FetchFails
<1>3. ASSUME NEW a \in Account
      PROVE  /\ rows'[a] \in Rows /\ rows'[a].kind = rows[a].kind /\ rows'[a].level = rows[a].level
             /\ rows[a].kind # "none" => rows'[a].stale
             /\ rows[a].kind = "none" => rows'[a] = rows[a]
  <2>1. rows[a] \in Rows
    BY <1>1
  <2>2. rows[a] = [kind |-> rows[a].kind, level |-> rows[a].level, stale |-> rows[a].stale]
    BY <2>1 DEF Rows
  <2>3. rows'[a] = [rows[a] EXCEPT !.stale = rows[a].stale \/ rows[a].kind # "none"]
    BY <1>2
  <2>4. rows'[a] = [kind |-> rows[a].kind, level |-> rows[a].level,
                    stale |-> rows[a].stale \/ rows[a].kind # "none"]
    BY <2>2, <2>3
  <2>5. rows'[a].stale = (rows[a].stale \/ rows[a].kind # "none")
    BY <2>4
  <2>6. rows'[a].kind = rows[a].kind /\ rows'[a].level = rows[a].level
    BY <2>4
  <2>7. rows'[a].stale \in BOOLEAN /\ rows[a].stale \in BOOLEAN
    BY <2>1, <2>5 DEF Rows
  <2>8. rows'[a] \in Rows
    BY <2>1, <2>4, <2>5, <2>7 DEF Rows
  <2>9. rows[a].kind = "none" => rows'[a].stale = rows[a].stale
    BY <2>5, <2>7
  <2>10. rows[a].kind = "none" => rows'[a] = rows[a]
    BY <2>1, <2>6, <2>8, <2>9 DEF Rows
  <2> QED
    BY <2>5, <2>6, <2>8, <2>10
<1>4. rows' \in [Account -> Rows]
  BY <1>3 DEF FetchFails
<1>5. RowInv'
  BY <1>1, <1>3 DEF RowInv
<1>6. \A a \in Account : rows'[a].kind = rows[a].kind /\ (rows'[a] # NoRow => rows'[a].stale)
  BY <1>1, <1>3 DEF RowInv
<1> QED
  BY <1>4, <1>5, <1>6 DEF FetchFails

(* Every action, and a stutter, preserves the invariant. *)

LEMMA StartKeeps ==
  ASSUME PoolInv, Start
  PROVE  PoolInv'
<1>0. PoolTypeInv /\ SelectedInv /\ TriedInv /\ GotInv /\ HeldInv /\ RowInv /\ LoginInv
      /\ CallsAreBounded
  BY DEF PoolInv
<1>1. /\ phase = "idle" /\ logins' = IF pause = "hour" THEN 0 ELSE logins
      /\ held' = [a \in Account |-> {quota[a]}]
      /\ UNCHANGED << vendor, quota, key, midway >>
  BY DEF Start, env
<1>2. held' \in [Account -> SUBSET Level] /\ logins' \in Nat
      /\ \A a \in Account : quota'[a] \in held'[a]
  BY <1>0, <1>1 DEF PoolTypeInv
<1>3. ~midway => logins' = 0
  BY <1>0, <1>1 DEF LoginInv, PoolTypeInv
<1>4. CASE FetchFails("interval")
  <2>1. Reset /\ rows' \in [Account -> Rows] /\ RowInv' /\ pause' = "interval"
    BY <1>4, FailingKeepsRows
  <2>2. PoolTypeInv' /\ SelectedInv' /\ TriedInv' /\ GotInv' /\ CallsAreBounded'
        /\ phase' = "idle" /\ \A a \in Account : got'[a] = None
    BY <1>0, <1>1, <1>2, <2>1, ResetKeeps DEF PoolTypeInv
  <2>3. HeldInv' /\ LoginInv'
    BY <1>1, <1>2, <1>3, <2>1, <2>2 DEF HeldInv, LoginInv
  <2> QED
    BY <2>1, <2>2, <2>3 DEF PoolInv
<1>5. CASE /\ phase' = "list" /\ pause' = "interval"
           /\ UNCHANGED << accounts, at, tried, got, ctxDone, rows >>
  <2>1. PoolTypeInv'
    BY <1>0, <1>1, <1>2, <1>5 DEF PoolTypeInv
  <2>2. SelectedInv' /\ TriedInv' /\ GotInv' /\ RowInv'
    BY <1>0, <1>1, <1>5 DEF SelectedInv, TriedInv, GotInv, RowInv
  <2>3. HeldInv'
    <3>1. \A a \in Account : got[a] = None
      BY <1>0, <1>1 DEF SelectedInv, GotInv
    <3> QED
      BY <1>2, <1>5, <3>1 DEF HeldInv
  <2>4. LoginInv'
    BY <1>1, <1>3, <1>5 DEF LoginInv
  <2>5. CallsAreBounded'
    BY <1>0, <1>5 DEF CallsAreBounded, Calling
  <2> QED
    BY <2>1, <2>2, <2>3, <2>4, <2>5 DEF PoolInv
<1> QED
  BY <1>4, <1>5 DEF Start

(* A fetch that fails, whatever it was doing. *)
LEMMA FailingKeeps ==
  ASSUME PoolInv, phase # "idle", NEW wait \in {"interval", "hour"}, FetchFails(wait),
         UNCHANGED << vendor, env, held, interrupts >>,
         \/ logins' = logins
         \/ wait = "hour" /\ phase = "list" /\ logins' = logins + 1
  PROVE  PoolInv'
<1>0. PoolTypeInv /\ LoginInv
  BY DEF PoolInv
<1>1. Reset /\ rows' \in [Account -> Rows] /\ RowInv' /\ pause' = wait
  BY FailingKeepsRows
<1>2. logins' \in Nat
  BY <1>0 DEF PoolTypeInv
<1>3. PoolTypeInv' /\ SelectedInv' /\ TriedInv' /\ GotInv' /\ CallsAreBounded'
      /\ phase' = "idle" /\ \A a \in Account : got'[a] = None
  BY <1>0, <1>1, <1>2, ResetKeeps DEF PoolTypeInv, env
<1>4. HeldInv'
  BY <1>3 DEF HeldInv
<1>5. LoginInv'
  BY <1>0, <1>1, <1>3 DEF LoginInv, env
<1> QED
  BY <1>1, <1>3, <1>4, <1>5 DEF PoolInv

LEMMA FetchEndsKeep ==
  ASSUME PoolInv, ListFails \/ ListRejected \/ PoolFails
  PROVE  PoolInv'
<1>1. CASE ListFails
  BY <1>1, FailingKeeps DEF ListFails
<1>2. CASE ListRejected
  BY <1>2, FailingKeeps DEF ListRejected
<1>3. CASE PoolFails
  BY <1>3, FailingKeeps DEF PoolFails, Joined
<1> QED
  BY <1>1, <1>2, <1>3

LEMMA ListKeeps ==
  ASSUME PoolInv, List
  PROVE  PoolInv'
<1>0. PoolTypeInv /\ SelectedInv /\ TriedInv /\ GotInv /\ HeldInv /\ RowInv /\ LoginInv
  BY DEF PoolInv
<1>1. PICK chosen \in SUBSET Account \ {{}} :
        /\ accounts' = chosen
        /\ at' = [a \in Account |-> IF a \in chosen THEN "queued" ELSE "out"]
  BY DEF List
<1>2. /\ phase = "list" /\ phase' = "run" /\ key = "good"
      /\ UNCHANGED << vendor, quota, key, midway, tried, got, ctxDone, rows, pause, logins, held >>
  BY DEF List, env
<1>3. \A a \in Account : at[a] = "out" /\ tried[a] = <<>> /\ got[a] = None
  BY <1>0, <1>2 DEF SelectedInv, TriedInv, GotInv
<1>4. PoolTypeInv'
  BY <1>0, <1>1, <1>2 DEF PoolTypeInv
<1>5. SelectedInv'
  BY <1>1, <1>2 DEF SelectedInv
<1>6. TriedInv' /\ GotInv'
  BY <1>0, <1>1, <1>2, <1>3 DEF TriedInv, GotInv
<1>7. HeldInv' /\ RowInv' /\ LoginInv'
  BY <1>0, <1>2 DEF HeldInv, RowInv, LoginInv
<1>8. CallsAreBounded'
  <2>1. Calling' = {}
    BY <1>1 DEF Calling
  <2> QED
    BY <2>1, Parameters, FS_EmptySet, SMT DEF CallsAreBounded, ParameterFacts
<1> QED
  BY <1>4, <1>5, <1>6, <1>7, <1>8 DEF PoolInv

LEMMA TakeKeeps ==
  ASSUME PoolInv, NEW a \in Account, Take(a)
  PROVE  PoolInv'
<1>0. PoolTypeInv /\ SelectedInv /\ TriedInv /\ GotInv /\ HeldInv /\ RowInv /\ LoginInv
  BY DEF PoolInv
<1>1. /\ at[a] = "queued" /\ at' = [at EXCEPT ![a] = "calling"]
      /\ Cardinality(Calling) < MaxConcurrent
      /\ UNCHANGED << vendor, quota, key, midway, phase, accounts, tried, got, ctxDone, rows,
                      pause, logins, held >>
  BY DEF Take, env
<1>2. PoolTypeInv' /\ SelectedInv'
  BY <1>0, <1>1 DEF PoolTypeInv, SelectedInv
<1>3. TriedInv' /\ GotInv'
  BY <1>0, <1>1 DEF TriedInv, GotInv, PoolTypeInv
<1>4. HeldInv' /\ RowInv' /\ LoginInv'
  BY <1>0, <1>1 DEF HeldInv, RowInv, LoginInv
<1>5. CallsAreBounded'
  <2>1. Calling' = Calling \cup {a} /\ a \notin Calling
    BY <1>0, <1>1 DEF Calling, PoolTypeInv
  <2>2. IsFiniteSet(Calling)
    BY PoolAssumption, FS_Subset DEF Calling
  <2>3. Cardinality(Calling') = Cardinality(Calling) + 1 /\ Cardinality(Calling) \in Nat
    BY <2>1, <2>2, FS_AddElement, FS_CardinalityType
  <2> QED
    BY <1>1, <2>3, Parameters DEF CallsAreBounded, ParameterFacts
<1> QED
  BY <1>2, <1>3, <1>4, <1>5 DEF PoolInv

(* A goroutine that stops calling makes room. *)
LEMMA LessCalling ==
  ASSUME PoolInv, Calling' \subseteq Calling
  PROVE  CallsAreBounded'
<1>1. IsFiniteSet(Calling)
  BY PoolAssumption, FS_Subset DEF Calling
<1>2. Cardinality(Calling') <= Cardinality(Calling)
  BY <1>1, FS_Subset
<1>3. Cardinality(Calling) \in Nat /\ Cardinality(Calling') \in Nat
  BY <1>1, FS_Subset, FS_CardinalityType
<1> QED
  BY <1>2, <1>3, Parameters DEF PoolInv, CallsAreBounded, ParameterFacts

LEMMA CallKeeps ==
  ASSUME PoolInv, NEW a \in Account, Call(a)
  PROVE  PoolInv'
<1>0. PoolTypeInv /\ SelectedInv /\ TriedInv /\ GotInv /\ HeldInv /\ RowInv /\ LoginInv
  BY DEF PoolInv
<1>1. PICK o \in Outcomes :
        /\ Outcome(a, o)
        /\ tried' = [tried EXCEPT ![a] = Append(tried[a], o)]
        /\ got' = IF o = "items" /\ BringsQuota(vendor[a], Len(Append(tried[a], o)))
                  THEN [got EXCEPT ![a] = quota[a]] ELSE got
        /\ logins' = IF o = "rejected" THEN logins + 1 ELSE logins
        /\ \/ Continues(vendor[a], Append(tried[a], o)) /\ UNCHANGED at
           \/ MayStop(vendor[a], Append(tried[a], o)) /\ at' = [at EXCEPT ![a] = "done"]
  BY DEF Call, Outcomes
<1>2. /\ phase = "run" /\ at[a] = "calling"
      /\ UNCHANGED << vendor, quota, key, midway, phase, accounts, ctxDone, rows, pause, held >>
  BY DEF Call, env
<1> DEFINE t == tried[a]
           n == Append(tried[a], o)
<1>3. /\ vendor[a] \in Kinds /\ t \in Seq(Outcomes) /\ n \in Seq(Outcomes)
      /\ quota[a] \in Level /\ quota[a] # None
  BY <1>0, NoneIsNoLevel, AppendFacts DEF PoolTypeInv
<1>4. (t = <<>> \/ Continues(vendor[a], t)) /\ Len(n) <= 3
  BY <1>0, <1>2, <1>3, ThreeCalls DEF TriedInv
<1>5. /\ \A b \in Account \ {a} : tried'[b] = tried[b] /\ got'[b] = got[b] /\ at'[b] = at[b]
      /\ tried'[a] = n
      /\ got'[a] = IF o = "items" /\ BringsQuota(vendor[a], Len(n)) THEN quota[a] ELSE got[a]
      /\ \/ Continues(vendor[a], n) /\ at'[a] = "calling"
         \/ MayStop(vendor[a], n) /\ at'[a] = "done"
  BY <1>0, <1>1, <1>2 DEF PoolTypeInv
<1>6. PoolTypeInv'
  <2>1. tried' \in [Account -> Seq(Outcomes)]
    BY <1>0, <1>1, <1>3 DEF PoolTypeInv
  <2>2. got' \in [Account -> Level \cup {None}]
    BY <1>0, <1>1, <1>3 DEF PoolTypeInv
  <2>3. at' \in [Account -> {"out", "queued", "calling", "done"}]
    BY <1>0, <1>1 DEF PoolTypeInv
  <2>4. logins' \in Nat
    BY <1>0, <1>1 DEF PoolTypeInv
  <2> QED
    BY <1>0, <1>2, <2>1, <2>2, <2>3, <2>4 DEF PoolTypeInv
<1>7. SelectedInv'
  BY <1>0, <1>2, <1>5 DEF SelectedInv
<1>8. TriedInv'
  <2> SUFFICES ASSUME NEW b \in Account
               PROVE  /\ at'[b] \in {"out", "queued"} => tried'[b] = <<>>
                      /\ at'[b] = "calling" => tried'[b] = <<>> \/ Continues(vendor[b], tried'[b])
                      /\ Len(tried'[b]) <= 3
    BY <1>2 DEF TriedInv
  <2>1. CASE b = a
    <3> HIDE DEF n
    <3> QED
      BY <2>1, <1>4, <1>5
  <2>2. CASE b # a
    BY <2>2, <1>0, <1>5 DEF TriedInv
  <2> QED
    BY <2>1, <2>2
<1>9. GotInv'
  <2>1. got[a] # None <=> (vendor[a] \in {"codex", "xai"} /\ t # <<>> /\ t[1] = "items")
    BY <1>0, <1>2 DEF GotInv
  <2>2. Brought(vendor[a], t) <=> got[a] # None
    BY <2>1 DEF Brought
  <2>3. got'[a] # None <=> (Brings(vendor[a], t, o) \/ Brought(vendor[a], t))
    BY <1>3, <1>5, <2>2 DEF Brings
  <2>7. Continues(vendor[a], n) =>
          (got'[a] # None <=> (vendor[a] \in {"codex", "xai"} /\ n[1] = "items"))
    BY <1>1, <1>3, <1>4, <2>3, CallGoesOn
  <2>8. MayStop(vendor[a], n) => (got'[a] # None <=> Succeeds(vendor[a], n))
    BY <1>1, <1>3, <1>4, <2>3, CallIsLast
  <2>4. n # <<>>
    BY <1>3, AppendFacts
  <2>5. /\ at'[a] = "calling" => (got'[a] # None <=>
             /\ vendor[a] \in {"codex", "xai"} /\ tried'[a] # <<>> /\ tried'[a][1] = "items")
        /\ at'[a] = "done" => (got'[a] # None <=> Succeeds(vendor[a], tried'[a]))
        /\ at'[a] \notin {"out", "queued"}
    <3> HIDE DEF n
    <3> QED
      BY <1>5, <2>7, <2>8, <2>4
  <2>6. ASSUME NEW b \in Account, b # a
        PROVE  /\ at'[b] \in {"out", "queued"} => got'[b] = None
               /\ at'[b] = "calling" => (got'[b] # None <=>
                    /\ vendor[b] \in {"codex", "xai"} /\ tried'[b] # <<>> /\ tried'[b][1] = "items")
               /\ at'[b] = "done" => (got'[b] # None <=> Succeeds(vendor[b], tried'[b]))
    BY <2>6, <1>0, <1>5 DEF GotInv
  <2> QED
    BY <1>2, <2>5, <2>6 DEF GotInv
<1>10. HeldInv'
  <2>1. got'[a] # None => got'[a] \in held[a]
    BY <1>0, <1>2, <1>5 DEF HeldInv
  <2> QED
    BY <1>0, <1>2, <1>5, <2>1 DEF HeldInv
<1>11. RowInv'
  BY <1>0, <1>2 DEF RowInv
<1>12. LoginInv'
  <2>1. ~midway => o # "rejected"
    BY <1>0, <1>1, <1>2 DEF LoginInv, Outcome
  <2> QED
    BY <1>0, <1>1, <1>2, <2>1 DEF LoginInv
<1>13. CallsAreBounded'
  <2>1. Calling' \subseteq Calling
    BY <1>2, <1>5 DEF Calling
  <2> QED
    BY <2>1, LessCalling
<1> QED
  BY <1>6, <1>7, <1>8, <1>9, <1>10, <1>11, <1>12, <1>13 DEF PoolInv

LEMMA UnreadyKeeps ==
  ASSUME PoolInv, NEW a \in Account, Unready(a)
  PROVE  PoolInv'
<1>0. PoolTypeInv /\ SelectedInv /\ TriedInv /\ GotInv /\ HeldInv /\ RowInv /\ LoginInv
  BY DEF PoolInv
<1>1. /\ phase = "run" /\ at[a] = "calling" /\ tried[a] = <<>>
      /\ at' = [at EXCEPT ![a] = "done"]
      /\ UNCHANGED << vendor, quota, key, midway, phase, accounts, tried, got, ctxDone, rows,
                      pause, logins, held >>
  BY DEF Unready, env
<1>2. /\ at'[a] = "done" /\ \A b \in Account \ {a} : at'[b] = at[b]
      /\ at' \in [Account -> {"out", "queued", "calling", "done"}]
  BY <1>0, <1>1 DEF PoolTypeInv
<1>3. PoolTypeInv' /\ SelectedInv'
  BY <1>0, <1>1, <1>2 DEF PoolTypeInv, SelectedInv
<1>4. TriedInv'
  BY <1>0, <1>1, <1>2 DEF TriedInv
<1>5. GotInv'
  <2>1. got[a] = None /\ ~Succeeds(vendor[a], tried[a])
    BY <1>0, <1>1 DEF GotInv, Succeeds
  <2> QED
    BY <1>0, <1>1, <1>2, <2>1 DEF GotInv
<1>6. HeldInv' /\ RowInv' /\ LoginInv'
  BY <1>0, <1>1 DEF HeldInv, RowInv, LoginInv
<1>7. CallsAreBounded'
  <2>1. Calling' \subseteq Calling
    BY <1>1, <1>2 DEF Calling
  <2> QED
    BY <2>1, LessCalling
<1> QED
  BY <1>3, <1>4, <1>5, <1>6, <1>7 DEF PoolInv

(* A recorded row is of the account's own level, of this fetch. *)
LEMMA NewRows ==
  ASSUME PoolInv, Joined, NEW a \in Account
  PROVE  /\ NewRow(a) \in Rows
         /\ (NewRow(a).kind = "none") <=> (a \notin accounts)
         /\ NewRow(a).kind = "none" => NewRow(a) = NoRow
         /\ NewRow(a).kind = "quota" => NewRow(a).level \in Level /\ NewRow(a).level \in held[a]
         /\ a \in accounts /\ a \notin Failed => NewRow(a).kind = "quota"
<1>0. PoolTypeInv /\ SelectedInv /\ GotInv /\ HeldInv
  BY DEF PoolInv
<1>1. CASE a \notin accounts
  BY <1>1 DEF NewRow, NoRow, Rows, Failed
<1>2. CASE a \in Failed
  BY <1>2 DEF NewRow, NoRow, Rows, Failed
<1>3. CASE a \in accounts /\ a \notin Failed
  <2>1. at[a] = "done" /\ Succeeds(vendor[a], tried[a])
    BY <1>3 DEF Joined, Failed
  <2>2. got[a] # None /\ got[a] \in held[a] /\ got[a] \in Level
    BY <1>0, <2>1 DEF GotInv, HeldInv, PoolTypeInv
  <2>3. NewRow(a) = [kind |-> "quota", level |-> got[a], stale |-> FALSE]
    BY <1>3 DEF NewRow
  <2> QED
    BY <1>3, <2>2, <2>3 DEF Rows
<1> QED
  BY <1>1, <1>2, <1>3

LEMMA RecordKeeps ==
  ASSUME PoolInv, Record
  PROVE  PoolInv'
<1>0. PoolTypeInv /\ LoginInv
  BY DEF PoolInv
<1>1. /\ Joined /\ rows' = [a \in Account |-> NewRow(a)] /\ pause' = "interval" /\ Reset
      /\ UNCHANGED << vendor, quota, key, midway, logins, held >>
  BY DEF Record, env
<1>2. rows' \in [Account -> Rows] /\ RowInv'
  <2>1. \A a \in Account : /\ rows'[a] = NewRow(a) /\ NewRow(a) \in Rows
                           /\ NewRow(a).kind = "none" => NewRow(a) = NoRow
                           /\ NewRow(a).kind = "quota" => NewRow(a).level \in Level
    BY <1>1, NewRows
  <2> QED
    BY <1>1, <2>1 DEF RowInv
<1>3. PoolTypeInv' /\ SelectedInv' /\ TriedInv' /\ GotInv' /\ CallsAreBounded'
      /\ phase' = "idle" /\ \A a \in Account : got'[a] = None
  BY <1>0, <1>1, <1>2, ResetKeeps DEF PoolTypeInv
<1>4. HeldInv' /\ LoginInv'
  BY <1>0, <1>1, <1>3 DEF HeldInv, LoginInv, Joined
<1> QED
  BY <1>2, <1>3, <1>4 DEF PoolInv

(* Quota, key and context change beside the fetch. *)
LEMMA EnvironmentKeeps ==
  ASSUME PoolInv, (\E a \in Account : QuotaChanges(a)) \/ KeyChanges \/ Interrupt
  PROVE  PoolInv'
<1>0. PoolTypeInv /\ SelectedInv /\ TriedInv /\ GotInv /\ HeldInv /\ RowInv /\ LoginInv
      /\ CallsAreBounded
  BY DEF PoolInv
<1>1. UNCHANGED << vendor, phase, accounts, at, tried, got, rows, pause, logins >>
  BY DEF QuotaChanges, KeyChanges, Interrupt, env
<1>2. SelectedInv' /\ TriedInv' /\ GotInv' /\ RowInv' /\ CallsAreBounded'
  BY <1>0, <1>1 DEF SelectedInv, TriedInv, GotInv, RowInv, CallsAreBounded, Calling
<1>3. ASSUME NEW a \in Account, QuotaChanges(a)
      PROVE  PoolTypeInv' /\ HeldInv' /\ LoginInv'
  <2>1. PICK l \in Level : /\ quota' = [quota EXCEPT ![a] = l]
                           /\ held' = [held EXCEPT ![a] = held[a] \cup {l}]
    BY <1>3 DEF QuotaChanges
  <2>2. UNCHANGED << key, midway, ctxDone >>
    BY <1>3 DEF QuotaChanges
  <2> QED
    BY <1>0, <1>1, <2>1, <2>2 DEF PoolTypeInv, HeldInv, LoginInv
<1>4. CASE KeyChanges
  <2>1. /\ key' \in {"good", "bad", "none"} /\ midway' = (midway \/ phase = "run")
        /\ UNCHANGED << quota, ctxDone, held >>
    BY <1>4 DEF KeyChanges
  <2>2. PoolTypeInv' /\ HeldInv'
    BY <1>0, <1>1, <2>1 DEF PoolTypeInv, HeldInv
  <2>3. LoginInv'
    BY <1>0, <1>1, <2>1 DEF LoginInv, PoolTypeInv
  <2> QED
    BY <1>2, <2>2, <2>3 DEF PoolInv
<1>5. CASE Interrupt
  <2>1. ctxDone' = TRUE /\ UNCHANGED << quota, key, midway, held >>
    BY <1>5 DEF Interrupt, env
  <2>2. PoolTypeInv' /\ HeldInv' /\ LoginInv'
    BY <1>0, <1>1, <2>1 DEF PoolTypeInv, HeldInv, LoginInv
  <2> QED
    BY <1>2, <2>2 DEF PoolInv
<1> QED
  BY <1>2, <1>3, <1>4, <1>5 DEF PoolInv

LEMMA PoolStep == PoolInv /\ [Next]_vars => PoolInv'
<1> SUFFICES ASSUME PoolInv, [Next]_vars PROVE PoolInv'
  OBVIOUS
<1>1. CASE Start
  BY <1>1, StartKeeps
<1>2. CASE Fetch
  BY <1>2, FetchEndsKeep, ListKeeps, RecordKeeps, TakeKeeps, CallKeeps, UnreadyKeeps DEF Fetch
<1>3. CASE (\E a \in Account : QuotaChanges(a)) \/ KeyChanges \/ Interrupt
  BY <1>3, EnvironmentKeeps
<1>4. CASE UNCHANGED vars
  BY <1>4 DEF vars, env, PoolInv, PoolTypeInv, SelectedInv, TriedInv, GotInv, HeldInv, RowInv,
              LoginInv, CallsAreBounded, Calling
<1> QED
  BY <1>1, <1>2, <1>3, <1>4 DEF Next

LEMMA PoolAlways == Spec => []PoolInv
<1> QED
  BY PoolInitially, PoolStep, PTL DEF Spec

-----------------------------------------------------------------------------
(* Theorems.                                                               *)

(* The calls of a fetch: each account is asked at most three times and only  *)
(* while it is selected, no more than MaxConcurrent at once, and an account  *)
(* that was given a level counts as answered whatever else failed            *)
(* (cliproxy.go Fetch, accounts.go).                                         *)
THEOREM FetchesAreSound == Spec => []FetchIsSound
<1>1. PoolInv => FetchIsSound
  <2> SUFFICES ASSUME PoolInv PROVE FetchIsSound
    OBVIOUS
  <2>0. PoolTypeInv /\ SelectedInv /\ TriedInv /\ GotInv /\ RowInv /\ CallsAreBounded
    BY DEF PoolInv
  <2>1. TypeOK
    BY <2>0 DEF TypeOK, PoolTypeInv, SelectedInv, TriedInv, RowInv
  <2>2. OneAnswerIsEnough
    BY <2>0 DEF OneAnswerIsEnough, GotInv
  <2> QED
    BY <2>0, <2>1, <2>2 DEF FetchIsSound
<1> QED
  BY <1>1, PoolAlways, PTL

(* A rejected management key is tried once before an hour's pause, unless it *)
(* was replaced while a listing it had allowed was worked through            *)
(* (README.md:285).                                                          *)
THEOREM FewRejections == Spec => []RejectionsAreRare
<1>1. PoolInv => RejectionsAreRare
  BY DEF PoolInv, LoginInv, RejectionsAreRare
<1> QED
  BY <1>1, PoolAlways, PTL

(* Steps that change the cache are the ends of a fetch. *)
LEMMA CacheSteps ==
  ASSUME PoolInv, [Next]_vars
  PROVE  \/ Record
         \/ pause' \in {"interval", "hour"} /\ FetchFails(pause')
         \/ rows' = rows /\ (phase' = phase \/ phase' \in {"list", "run"})
<1>1. CASE Start
  BY <1>1 DEF Start, FetchFails
<1>2. CASE ListFails \/ ListRejected \/ PoolFails
  BY <1>2 DEF ListFails, ListRejected, PoolFails, FetchFails
<1>3. CASE List \/ \E a \in Account : Take(a) \/ Call(a) \/ Unready(a)
  BY <1>3 DEF List, Take, Call, Unready
<1>4. CASE (\E a \in Account : QuotaChanges(a)) \/ KeyChanges \/ Interrupt
  BY <1>4 DEF QuotaChanges, KeyChanges, Interrupt
<1>5. CASE UNCHANGED vars
  BY <1>5 DEF vars
<1> QED
  BY <1>1, <1>2, <1>3, <1>4, <1>5 DEF Next, Fetch

(* A recorded fetch shows each selected account's own row, with a level its  *)
(* vendor gave during this fetch or an error, and at least one level         *)
(* (cliproxy.go:150-151).                                                    *)
THEOREM RowsAreTheirOwn == Spec => RowsAreItsOwn
<1> DEFINE Recorded == /\ phase = "run" /\ phase' = "idle" /\ pause' = "interval"
                       /\ \E a \in Account : rows'[a] # NoRow /\ ~rows'[a].stale
           Own == /\ \A a \in Account : rows'[a].kind = "none" <=> a \notin accounts
                  /\ \A a \in accounts : rows'[a].kind = "quota" => rows'[a].level \in held[a]
                  /\ \E a \in accounts : rows'[a].kind = "quota"
<1>1. ASSUME PoolInv, [Next]_vars, Recorded PROVE Own
  <2>1. CASE Record
    <3>1. Joined /\ Failed # accounts /\ \A a \in Account : rows'[a] = NewRow(a)
      BY <2>1 DEF Record
    <3>2. accounts \subseteq Account /\ Failed \subseteq accounts
      BY <1>1 DEF PoolInv, PoolTypeInv, Failed
    <3>3. PICK a \in accounts : a \notin Failed
      BY <3>1, <3>2
    <3> QED
      BY <1>1, <3>1, <3>2, <3>3, NewRows
  <2>2. CASE pause' \in {"interval", "hour"} /\ FetchFails(pause')
    BY <1>1, <2>2, FailingKeepsRows
  <2>3. CASE rows' = rows /\ (phase' = phase \/ phase' \in {"list", "run"})
    BY <1>1, <2>3
  <2> QED
    BY <1>1, <2>1, <2>2, <2>3, CacheSteps
<1>2. PoolInv /\ [Next]_vars => [Recorded => Own]_vars
  BY <1>1
<1> QED
  BY <1>2, PoolAlways, PTL DEF Spec, RowsAreItsOwn

(* A level leaves the cache only when a whole fetch, uninterrupted and with  *)
(* an answer in it, replaced it (cliproxy.go:150-151, snapshot.go:125).      *)
THEOREM LevelsOutlastOutages == Spec => OutageKeepsLevels
<1> DEFINE Kept == \A a \in Account :
                     (rows[a].kind = "quota" /\ rows'[a].kind # "quota") =>
                       ~ctxDone /\ phase = "run" /\ Failed # accounts
<1>1. ASSUME PoolInv, [Next]_vars PROVE Kept
  <2>1. CASE Record
    BY <2>1 DEF Record, Joined
  <2>2. CASE pause' \in {"interval", "hour"} /\ FetchFails(pause')
    BY <1>1, <2>2, FailingKeepsRows
  <2>3. CASE rows' = rows
    BY <2>3
  <2> QED
    BY <1>1, <2>1, <2>2, <2>3, CacheSteps
<1>2. PoolInv /\ [Next]_vars => [Kept]_vars
  BY <1>1
<1> QED
  BY <1>2, PoolAlways, PTL DEF Spec, OutageKeepsLevels
=============================================================================

------------------------- MODULE ClaudeTokenProofs -------------------------
(***************************************************************************)
(* Theorems about the repair of the Claude token, for any number of calls, *)
(* lock directories, accounts, expiries and mishaps.                       *)
(*                                                                         *)
(* The invariant says where the lock directories are (who made one and has *)
(* not given it up finds it in place, as long as no running holder lost    *)
(* its own), and what a call knows of the credential file at each place:   *)
(* from the exchange to the rename the file is what it read, or a newer    *)
(* login.                                                                  *)
(***************************************************************************)
EXTENDS ClaudeToken, FiniteSetTheorems, TLAPS

Credentials == [access : Nat, refresh : Nat]
Kinds == {"expiries", "mishaps"}
Outside == {"idle", "bind", "profile", "usage", "retry", "redeem"}
Taking == {"mkdir", "stat", "drop", "remove"}
Repairs == {"reread", "exchange", "save", "write"}
Used == {"exchange", "save", "write"}

(* What the variables hold.                                                 *)
ServiceShape ==
  /\ file \in Credentials
  /\ orgFile \in Account \cup {NoOne}
  /\ login \in [account : Account, left : SUBSET {"credentials", "account"}]
  /\ readOnly \in BOOLEAN
  /\ issued \in Seq(Account)
  /\ rejected \in SUBSET Nat /\ spent \in SUBSET Nat
LockShape ==
  /\ dir \in [Path -> Process \cup {NoOne}] /\ stale \in SUBSET Path
  /\ raced \in BOOLEAN
CallShape ==
  /\ pc \in [Process -> Labels]
  /\ has \in [Process -> Credentials] /\ fresh \in [Process -> Credentials]
  /\ token \in [Process -> Nat]
  /\ own \in [Process -> Seq(Process)]
  /\ left \in [Process -> 0 .. 3]
  /\ org \in [Process -> Account \cup {NoOne}]
  /\ readFrom \in [Process -> SUBSET Account]
RestShape ==
  /\ stalled \in SUBSET Process /\ slipped \in SUBSET Process /\ lost \in SUBSET Nat
  /\ count \in [Kinds -> Nat]
  /\ \A k \in Kinds : count[k] <= Limit[k]
Shape == ServiceShape /\ LockShape /\ CallShape /\ RestShape

(* Every token that anyone holds was issued. *)
Known ==
  /\ file.access \in 1 .. Len(issued) /\ file.refresh <= Len(issued)
  /\ rejected \cup spent \cup lost \subseteq 1 .. Len(issued)
  /\ \A p \in Process : /\ has[p].access <= Len(issued) /\ has[p].refresh <= Len(issued)
                        /\ fresh[p].access <= Len(issued) /\ fresh[p].refresh <= Len(issued)
                        /\ token[p] <= Len(issued)

(* How many directories a call has taken, where it is. *)
Placed(p) ==
  /\ pc[p] \in Outside => own[p] = << >>
  /\ pc[p] \in Taking => Len(own[p]) < Len(Paths[p])
  /\ pc[p] \in Repairs => Len(own[p]) = Len(Paths[p])
  /\ pc[p] = "unlink" => own[p] # << >>
  /\ Len(own[p]) <= Len(Paths[p])

(* What a call works from, where it is. *)
Called(p) ==
  /\ IF pc[p] = "idle" THEN readFrom[p] = {} ELSE has[p].access # 0
  /\ pc[p] \notin {"idle", "bind", "profile", "redeem"} => left[p] # 0
  /\ pc[p] = "retry" => token[p] # 0
  /\ pc[p] \in Used => has[p].refresh # 0 /\ ~readOnly
  /\ pc[p] \in {"save", "write"} => fresh[p].access # 0
  /\ pc[p] \in {"bind", "profile", "redeem"} => p \in Bound
  /\ pc[p] = "redeem" => left[p] = 0 /\ org[p] = ArmedAccount
  /\ pc[p] \notin Outside \/ pc[p] = "retry" => has[p].access \in rejected
  /\ p \in Bound /\ pc[p] # "idle" /\ left[p] < 3 => readFrom[p] # {}
  /\ p \in Bound /\ pc[p] # "idle" /\ has[p].access \notin rejected
       => readFrom[p] \subseteq {issued[has[p].access]}

(* A call finds its directories in place, unless a running holder lost its  *)
(* own.                                                                     *)
Held(p) ==
  /\ pc[p] = "stat" => dir[Wanted(p)] = p
  /\ \A i \in DOMAIN own[p] : own[p][i] = p /\ dir[Paths[p][i]] = p

(* What it exchanged is what the file says, or older than a login; and its  *)
(* answer is good.                                                          *)
Answers(p) ==
  /\ pc[p] \in Used => file = has[p] \/ has[p].refresh < file.refresh
  /\ pc[p] = "exchange" /\ has[p].refresh \in spent => has[p].refresh \in lost
  /\ pc[p] \in {"save", "write"} => fresh[p].refresh \notin spent

Locked == ~raced => \A p \in Process : Held(p)
Sound == ~raced => \A p \in Process : Answers(p)
Looked == \A p \in Process : pc[p] = "write" /\ p \notin slipped => file = has[p]

Locals == \A p \in Process : Placed(p) /\ Called(p)
Inv == Shape /\ Known /\ Locals /\ Locked /\ Sound /\ Looked /\ RotationReachesFile

-----------------------------------------------------------------------------
(* Sequences of directories.                                                *)

LEMMA FrontFacts ==
  ASSUME NEW S, NEW s \in Seq(S), s # << >>
  PROVE  /\ Front(s) \in Seq(S) /\ Len(Front(s)) = Len(s) - 1
         /\ \A i \in DOMAIN Front(s) : i \in DOMAIN s /\ i < Len(s) /\ Front(s)[i] = s[i]
         /\ Len(s) \in DOMAIN s
<1>1. Len(s) \in Nat /\ Len(s) > 0 /\ DOMAIN s = 1 .. Len(s)
  OBVIOUS
<1>2. Front(s) = [i \in 1 .. Len(s) - 1 |-> s[i]]
  BY <1>1 DEF Front
<1>3. DOMAIN Front(s) = 1 .. Len(s) - 1
  BY <1>1, <1>2
<1>4. \A i \in DOMAIN Front(s) : i \in DOMAIN s /\ i < Len(s) /\ Front(s)[i] = s[i]
  BY <1>1, <1>2, <1>3
<1>5. Front(s) \in Seq(S) /\ Len(Front(s)) = Len(s) - 1
  BY <1>1 DEF Front
<1> QED
  BY <1>1, <1>4, <1>5

LEMMA AppendFacts ==
  ASSUME NEW S, NEW s \in Seq(S), NEW e \in S
  PROVE  /\ Append(s, e) \in Seq(S) /\ Len(Append(s, e)) = Len(s) + 1
         /\ \A i \in DOMAIN s : Append(s, e)[i] = s[i]
         /\ Append(s, e)[Len(s) + 1] = e
         /\ DOMAIN Append(s, e) = DOMAIN s \cup {Len(s) + 1}
  OBVIOUS

(* The paths a call takes are different.                                    *)
LEMMA PathsDiffer ==
  ASSUME NEW p \in Process, NEW i \in 1 .. Len(Paths[p]), NEW j \in 1 .. Len(Paths[p]),
         Paths[p][i] = Paths[p][j]
  PROVE  i = j
<1>1. Paths[p] \in Seq(Path) /\ IsInjective(Paths[p])
  BY PathsAssumption
<1>2. DOMAIN Paths[p] = 1 .. Len(Paths[p])
  BY <1>1
<1> QED
  BY <1>1, <1>2 DEF IsInjective

(* At most one call repairs, as long as no running holder lost its          *)
(* directory: all would hold the directory they share.                      *)
LEMMA OneAtMost ==
  ASSUME Shape, Locals, Locked, ~raced,
         NEW p \in Process, NEW q \in Process, pc[p] \in Repairs, pc[q] \in Repairs
  PROVE  p = q
<1>1. PICK l \in Path : \A r \in Process : l \in Range(Paths[r])
  BY SharedAssumption
<1>2. ASSUME NEW r \in Process, pc[r] \in Repairs
      PROVE  dir[l] = r
  <2>1. Paths[r] \in Seq(Path) /\ own[r] \in Seq(Process)
    BY PathsAssumption DEF Shape, CallShape
  <2>2. PICK i \in DOMAIN Paths[r] : Paths[r][i] = l
    BY <1>1 DEF Range
  <2>3. Len(own[r]) = Len(Paths[r])
    BY <1>2 DEF Locals, Placed
  <2>4. i \in DOMAIN own[r]
    BY <2>1, <2>2, <2>3
  <2> QED
    BY <2>2, <2>4 DEF Locked, Held
<1> QED
  BY <1>2

-----------------------------------------------------------------------------
(* What a step leaves alone.                                                *)

Same(q) == /\ pc'[q] = pc[q] /\ has'[q] = has[q] /\ fresh'[q] = fresh[q]
           /\ token'[q] = token[q] /\ own'[q] = own[q] /\ left'[q] = left[q]
           /\ org'[q] = org[q] /\ readFrom'[q] = readFrom[q]
Others(p) == \A q \in Process \ {p} : Same(q)

(* The service forgets nothing, and nobody remounts the directory.          *)
Grown == /\ Len(issued) <= Len(issued') /\ issued' \in Seq(Account)
         /\ \A n \in 1 .. Len(issued) : issued'[n] = issued[n]
         /\ rejected \subseteq rejected' /\ readOnly' = readOnly

(* The steps of a call, its accidents included.                             *)
CallStep(p) ==
  \/ Start(p) \/ BindToken(p) \/ BindOrg(p) \/ Profile(p) \/ Usage(p)
  \/ Retry(p) \/ UsageFails(p) \/ Redeem(p) \/ Mkdir(p) \/ OwnStat(p)
  \/ Drop(p) \/ SeeStale(p) \/ RemoveStale(p) \/ Timeout(p) \/ Release(p)
  \/ Unlink(p) \/ Released(p) \/ Heartbeat(p) \/ Reread(p) \/ Exchange(p)
  \/ ExchangeUnanswered(p) \/ ExchangeRefused(p) \/ Save(p) \/ Write(p) \/ WriteFails(p)
  \/ Crash(p) \/ Stall(p) \/ Resume(p)

LEMMA UseFacts ==
  ASSUME RestShape, NEW k \in Kinds, Use(k)
  PROVE  /\ count' \in [Kinds -> Nat]
         /\ \A j \in Kinds : count'[j] <= Limit[j]
<1>1. Limit \in [Kinds -> Nat]
  BY LimitAssumption DEF Limit, Kinds
<1> QED
  BY <1>1 DEF Use, RestShape, Kinds

(* Only an exchange and a rename change the files or the service.           *)
LEMMA ServiceStays ==
  ASSUME NEW p \in Process, CallStep(p)
  PROVE  \/ Exchange(p) \/ ExchangeUnanswered(p) \/ Write(p)
         \/ UNCHANGED << files, service >>
  BY DEF CallStep, Start, BindToken, BindOrg, Profile, Usage, Retry, UsageFails, Redeem,
         Mkdir, OwnStat, Drop, SeeStale, RemoveStale, Timeout, Release, Unlink, Released,
         Heartbeat, Reread, Exchange, ExchangeUnanswered, ExchangeRefused, Save, Write,
         WriteFails, Crash, Stall, Resume

(* Only a few touch the directories.                                        *)
LEMMA LocksStay ==
  ASSUME NEW p \in Process, CallStep(p)
  PROVE  \/ Mkdir(p) \/ Drop(p) \/ RemoveStale(p) \/ Unlink(p) \/ Heartbeat(p)
         \/ UNCHANGED << dir, stale, raced >>
  BY DEF CallStep, locks, history, Start, BindToken, BindOrg, Profile, Usage, Retry,
         UsageFails, Redeem, Mkdir, OwnStat, Drop, SeeStale, RemoveStale, Timeout,
         Release, Unlink, Released, Heartbeat, Reread, Exchange, ExchangeUnanswered,
         ExchangeRefused, Save, Write, WriteFails, Crash, Stall, Resume

LEMMA OwnStays ==
  ASSUME NEW p \in Process, CallStep(p)
  PROVE  OwnStat(p) \/ Release(p) \/ Unlink(p) \/ Crash(p) \/ UNCHANGED own
  BY DEF CallStep, Start, BindToken, BindOrg, Profile, Usage, Retry, UsageFails, Redeem,
         Mkdir, OwnStat, Drop, SeeStale, RemoveStale, Timeout, Release, Unlink, Released,
         Heartbeat, Reread, Exchange, ExchangeUnanswered, ExchangeRefused, Save, Write,
         WriteFails, Crash, Stall, Resume

(* How a call's own variables may change, and the others stay.              *)
LEMMA ReturnShape ==
  ASSUME CallShape, NEW p \in Process, Return(p), own' = own
  PROVE  CallShape' /\ Others(p)
  BY DEF CallShape, Others, Same, Return, Goto, NoCredentials, Credentials, Labels

LEMMA AnsweredShape ==
  ASSUME NEW p \in Process, CallShape, issued \in Seq(Account),
         NEW a \in 1 .. Len(issued), Answered(p, a), left[p] # 0, own' = own
  PROVE  CallShape' /\ Others(p)
<1>1. issued[a] \in Account
  OBVIOUS
<1>2. CASE Return(p)
  BY <1>2, ReturnShape
<1>3. CASE ~Return(p)
  <2>1. left[p] - 1 \in 0 .. 3 /\ readFrom[p] \cup {issued[a]} \in SUBSET Account
    BY <1>1 DEF CallShape
  <2>2. /\ readFrom' = [readFrom EXCEPT ![p] = readFrom[p] \cup {issued[a]}]
        /\ left' = [left EXCEPT ![p] = left[p] - 1]
        /\ token' = [token EXCEPT ![p] = 0]
        /\ fresh' = [fresh EXCEPT ![p] = NoCredentials]
        /\ UNCHANGED << has, org >>
    BY <1>3 DEF Answered
  <2>3. \E l \in {"bind", "usage"} : pc' = [pc EXCEPT ![p] = l]
    BY <1>3 DEF Answered, Goto
  <2>4. NoCredentials \in Credentials
    BY DEF NoCredentials, Credentials
  <2>5. pc' \in [Process -> Labels]
    BY <2>3 DEF CallShape, Labels
  <2>6. CallShape'
    BY <2>1, <2>2, <2>4, <2>5 DEF CallShape
  <2>7. Others(p)
    BY <2>2, <2>3 DEF CallShape, Others, Same
  <2> QED
    BY <2>6, <2>7
<1> QED
  BY <1>2, <1>3

LEMMA ServiceHolds ==
  ASSUME Shape, Known, Locals, NEW p \in Process, CallStep(p)
  PROVE  ServiceShape' /\ Grown
<1> USE DEF files, service, Shape, ServiceShape
<1>1. CASE Exchange(p) \/ ExchangeUnanswered(p)
  <2>1. has[p].refresh \in 1 .. Len(issued)
    BY <1>1 DEF Exchange, ExchangeUnanswered, At, Locals, Called, Used, Known, CallShape,
                Credentials
  <2>2. issued[has[p].refresh] \in Account /\ has[p].refresh \in Nat
    BY <2>1
  <2>3. /\ issued' = Append(issued, issued[has[p].refresh])
        /\ spent' = spent \/ spent' = spent \cup {has[p].refresh}
        /\ UNCHANGED << files, rejected >>
    BY <1>1 DEF Exchange, ExchangeUnanswered, Issue
  <2> QED
    BY <2>2, <2>3, AppendFacts DEF Grown
<1>2. CASE Write(p)
  BY <1>2 DEF Write, CallShape, Grown
<1>3. CASE UNCHANGED << files, service >>
  BY <1>3 DEF Grown
<1> QED
  BY <1>1, <1>2, <1>3, ServiceStays

LEMMA LocksHold ==
  ASSUME Shape, Locals, NEW p \in Process, CallStep(p)
  PROVE  LockShape'
<1> USE DEF Shape, LockShape
<1>1. Paths[p] \in Seq(Path) /\ own[p] \in Seq(Process)
  BY PathsAssumption DEF CallShape
<1>2. pc[p] \in Taking => Wanted(p) \in Path
  BY <1>1 DEF Locals, Placed, Wanted
<1>3. pc[p] = "unlink" => Newest(p) \in Path
  BY <1>1 DEF Locals, Placed, Newest
<1>4. CASE Mkdir(p)
  BY <1>2, <1>4 DEF Mkdir, At, Taking, history
<1>5. CASE Drop(p) \/ RemoveStale(p) \/ Unlink(p)
  <2>1. PICK l \in Path : RemoveDir(p, l)
    BY <1>2, <1>3, <1>5 DEF Drop, RemoveStale, Unlink, At, Taking
  <2> QED
    BY <2>1 DEF RemoveDir
<1>6. CASE Heartbeat(p)
  BY <1>6 DEF Heartbeat, history
<1>7. CASE UNCHANGED << dir, stale, raced >>
  BY <1>7
<1> QED
  BY <1>4, <1>5, <1>6, <1>7, LocksStay

LEMMA RestHolds ==
  ASSUME Shape, Locals, NEW p \in Process, CallStep(p)
  PROVE  RestShape'
<1> USE DEF Shape, files, service, locks, work, reset, history
<1>1. stalled' \in SUBSET Process
  BY DEF RestShape, CallStep, Start, BindToken, BindOrg, Profile, Usage, Retry,
         UsageFails, Redeem, Mkdir, OwnStat, Drop, SeeStale, RemoveStale, Timeout,
         Release, Unlink, Released, Heartbeat, Reread, Exchange, ExchangeUnanswered,
         ExchangeRefused, Save, Write, WriteFails, Crash, Stall, Resume
<1>2. slipped' \in SUBSET Process
  BY DEF RestShape, CallStep, Answered, Return, Writing, Start, BindToken, BindOrg,
         Profile, Usage, Retry, UsageFails, Redeem, Mkdir, OwnStat, Drop, SeeStale,
         RemoveStale, Timeout, Release, Unlink, Released, Heartbeat, Reread, Exchange,
         ExchangeUnanswered, ExchangeRefused, Save, Write, WriteFails, Crash, Stall,
         Resume
<1>3. has[p].refresh \in Nat
  BY DEF CallShape, Credentials
<1>4. lost' \in SUBSET Nat
  BY <1>3 DEF RestShape, CallStep, Start, BindToken, BindOrg, Profile, Usage, Retry,
              UsageFails, Redeem, Mkdir, OwnStat, Drop, SeeStale, RemoveStale, Timeout,
              Release, Unlink, Released, Heartbeat, Reread, Exchange, ExchangeUnanswered,
              ExchangeRefused, Save, Write, WriteFails, Crash, Stall, Resume
<1>5. CASE UNCHANGED count
  BY <1>1, <1>2, <1>4, <1>5 DEF RestShape
<1>6. CASE Use("mishaps")
  BY <1>1, <1>2, <1>4, <1>6, UseFacts DEF RestShape, Kinds
<1> QED
  BY <1>5, <1>6 DEF CallStep, Start, BindToken, BindOrg, Profile, Usage, Retry,
                    UsageFails, Redeem, Mkdir, OwnStat, Drop, SeeStale, RemoveStale,
                    Timeout, Release, Unlink, Released, Heartbeat, Reread, Exchange,
                    ExchangeUnanswered, ExchangeRefused, Save, Write, WriteFails, Crash,
                    Stall, Resume

(* A call that only goes on to another place, perhaps with another token.   *)
LEMMA GoesOn ==
  ASSUME CallShape, NEW p \in Process, NEW l \in Labels, NEW t \in Nat, Goto(p, l),
         token' = token \/ token' = [token EXCEPT ![p] = t],
         UNCHANGED << has, fresh, own, left, org, readFrom >>
  PROVE  CallShape' /\ Others(p)
  BY DEF CallShape, Others, Same, Goto

(* The types of a call's own variables, and those of the others.            *)
LEMMA CallsHold ==
  ASSUME Shape, Known, Locals, NEW p \in Process, CallStep(p)
  PROVE  CallShape' /\ Others(p)
<1> USE DEF files, service, locks, work, reset, history
<1>0. Placed(p) /\ Called(p) /\ CallShape
  BY DEF Locals, Shape
<1>1. /\ file \in Credentials /\ file.access \in Nat /\ file.refresh \in Nat
      /\ has[p] \in Credentials /\ fresh[p] \in Credentials
      /\ has[p].access \in Nat /\ fresh[p].access \in Nat /\ token[p] \in Nat
      /\ issued \in Seq(Account) /\ own[p] \in Seq(Process) /\ pc[p] \in Labels
      /\ left[p] \in 0 .. 3 /\ Len(issued) \in Nat
  BY DEF Shape, CallShape, ServiceShape, Credentials
<1> USE DEF GiveUp, At
<1>2. CASE Start(p)
  BY <1>0, <1>1, <1>2 DEF Start, CallShape, Labels, Others, Same, Goto
<1>3. CASE BindToken(p)
  <2>1. [access |-> file.access, refresh |-> 0] \in Credentials
    BY <1>1 DEF Credentials
  <2> QED
    BY <1>0, <2>1, <1>3 DEF BindToken, CallShape, Labels, Others, Same, Goto
<1>4. CASE BindOrg(p) \/ Profile(p)
  <2>1. CASE Return(p) /\ UNCHANGED own
    BY <1>0, <2>1, ReturnShape
  <2>2. CASE ~Return(p)
    <3>1. \/ Goto(p, "profile") /\ UNCHANGED org
          \/ /\ \E o \in Account \cup {NoOne} : org' = [org EXCEPT ![p] = o]
             /\ \E l \in {"redeem", "usage"} : Goto(p, l)
      <4>1. orgFile \in Account \cup {NoOne} /\ ArmedAccount \in Account
        BY AccountAssumption DEF Shape, ServiceShape
      <4> QED
        BY <4>1, <1>4, <2>2 DEF BindOrg, Profile
    <3>2. UNCHANGED << has, fresh, token, left, readFrom, own >>
      BY <1>4, <2>2 DEF BindOrg, Profile
    <3> QED
      BY <1>0, <3>1, <3>2 DEF CallShape, Others, Same, Goto, Labels
  <2> QED
    BY <2>1, <2>2, <1>4 DEF BindOrg, Profile
<1>5. CASE Usage(p) \/ Retry(p)
  <2>1. left[p] # 0 /\ has[p].access \in 1 .. Len(issued)
    BY <1>0, <1>1, <1>5 DEF Usage, Retry, Called, Known
  <2>2. pc[p] = "retry" => token[p] \in 1 .. Len(issued)
    BY <1>0, <1>1 DEF Called, Known
  <2>3. CASE Answered(p, has[p].access) /\ UNCHANGED own
    BY <1>0, <1>1, <2>1, <2>3, AnsweredShape
  <2>4. CASE pc[p] = "retry" /\ Answered(p, token[p]) /\ UNCHANGED own
    BY <1>0, <1>1, <2>1, <2>2, <2>4, AnsweredShape
  <2>5. CASE Return(p) /\ UNCHANGED own
    BY <1>0, <2>5, ReturnShape
  <2>6. CASE Goto(p, "mkdir") /\ UNCHANGED << work, reset, own >>
    BY <1>0, <1>1, <2>6, GoesOn DEF Labels
  <2> QED
    BY <2>3, <2>4, <2>5, <2>6, <1>5 DEF Usage, Retry
<1>6. CASE UsageFails(p) \/ Redeem(p)
  BY <1>0, <1>6, ReturnShape DEF UsageFails, Redeem
<1>7. CASE Released(p)
  <2>1. CASE Return(p) /\ UNCHANGED own
    BY <1>0, <2>1, ReturnShape
  <2>2. CASE ~Return(p)
    BY <1>0, <1>1, <1>7, <2>2, GoesOn DEF Released, Labels
  <2> QED
    BY <2>1, <2>2, <1>7 DEF Released
<1>8. CASE OwnStat(p)
  <2>1. Wanted(p) \in Path
    BY <1>0, <1>1, <1>8, PathsAssumption DEF OwnStat, Placed, Taking, Wanted
  <2>2. dir[Wanted(p)] # NoOne => Append(own[p], dir[Wanted(p)]) \in Seq(Process)
    BY <1>1, <2>1, AppendFacts DEF Shape, LockShape
  <2> QED
    BY <1>0, <1>8, <2>2 DEF OwnStat, CallShape, Labels, Others, Same, Goto
<1>9. CASE Release(p) \/ Unlink(p)
  <2>1. own[p] # << >>
    BY <1>0, <1>9 DEF Release, Unlink, Placed
  <2>2. Front(own[p]) \in Seq(Process)
    BY <1>1, <2>1, FrontFacts
  <2> QED
    BY <1>0, <1>9, <2>2 DEF Release, Unlink, CallShape, Labels, Others, Same, Goto
<1>10. CASE Mkdir(p) \/ Drop(p) \/ SeeStale(p) \/ RemoveStale(p) \/ Timeout(p)
  BY <1>0, <1>1, <1>10, GoesOn DEF Mkdir, Drop, SeeStale, RemoveStale, Timeout, Labels
<1>11. CASE Reread(p)
  <2>1. CASE UNCHANGED has
    BY <1>0, <1>1, <1>11, <2>1, GoesOn DEF Reread, Labels
  <2>2. CASE ~UNCHANGED has
    BY <1>0, <1>1, <1>11, <2>2 DEF Reread, CallShape, Labels, Others, Same, Goto
  <2> QED
    BY <2>1, <2>2
<1>12. CASE Exchange(p)
  <2>1. PICK r \in BOOLEAN : Issue(p, r)
    BY <1>12 DEF Exchange
  <2>2. has[p].refresh \in Nat /\ Len(issued) + 1 \in Nat
    BY <1>1 DEF Credentials
  <2>3. \E c \in Credentials : fresh' = [fresh EXCEPT ![p] = c]
    BY <2>1, <2>2 DEF Issue, Credentials
  <2> QED
    BY <1>0, <1>12, <2>3 DEF Exchange, CallShape, Labels, Others, Same, Goto
<1>13. CASE ExchangeUnanswered(p) \/ ExchangeRefused(p)
  BY <1>0, <1>1, <1>13, GoesOn DEF ExchangeUnanswered, ExchangeRefused, Labels
<1>14. CASE Save(p)
  BY <1>0, <1>1, <1>14, GoesOn DEF Save, Labels
<1>15. CASE Write(p) \/ WriteFails(p)
  BY <1>0, <1>1, <1>15, GoesOn DEF Write, WriteFails, Labels
<1>16. CASE Crash(p)
  BY <1>0, <1>16 DEF Crash, Return, NoCredentials, CallShape, Labels, Credentials, Others,
                     Same, Goto
<1>17. CASE Heartbeat(p) \/ Stall(p) \/ Resume(p)
  BY <1>0, <1>17 DEF Heartbeat, Stall, Resume, CallShape, Others, Same, Goto
<1> QED
  BY <1>2, <1>3, <1>4, <1>5, <1>6, <1>7, <1>8, <1>9, <1>10, <1>11, <1>12, <1>13, <1>14,
        <1>15, <1>16, <1>17 DEF CallStep

(* A call that does not move stays where its place says, whatever the others    *)
(* do.                                                                      *)
LEMMA StaysLocal ==
  ASSUME Shape, Known, NEW q \in Process, Placed(q), Called(q), Same(q), Grown
  PROVE  Placed(q)' /\ Called(q)'
<1> USE DEF Same
<1>1. Placed(q)'
  BY DEF Placed
<1>2. has[q].access \in Nat /\ has[q].access <= Len(issued)
  BY DEF Shape, CallShape, Credentials, Known
<1>3. has[q].access # 0 => issued'[has[q].access] = issued[has[q].access]
  BY <1>2 DEF Grown, Shape, ServiceShape
<1>4. Called(q)'
  BY <1>3 DEF Called, Grown
<1> QED
  BY <1>1, <1>4

LEMMA LostStays ==
  ASSUME NEW p \in Process, CallStep(p)
  PROVE  ExchangeUnanswered(p) \/ WriteFails(p) \/ Crash(p) \/ UNCHANGED lost
  BY DEF CallStep, history, Start, BindToken, BindOrg, Profile, Usage, Retry, UsageFails,
         Redeem, Mkdir, OwnStat, Drop, SeeStale, RemoveStale, Timeout, Release, Unlink,
         Released, Heartbeat, Reread, Exchange, ExchangeUnanswered, ExchangeRefused, Save,
         Write, WriteFails, Crash, Stall, Resume

(* What a call takes over was issued before.                                *)
LEMMA KnownHolds ==
  ASSUME Shape, Known, Locals, NEW p \in Process, CallStep(p), Others(p), Grown, Shape'
  PROVE  Known'
<1> USE DEF files, service, locks, work, reset, history, At
<1>0. Called(p) /\ Len(issued) \in Nat /\ Len(issued') \in Nat /\ Len(issued) <= Len(issued')
  BY DEF Locals, Grown, Shape, ServiceShape
<1>1. file.access \in 1 .. Len(issued') /\ file.refresh \in 0 .. Len(issued')
  BY <1>0 DEF Known, Shape, ServiceShape, Credentials
<1>2. /\ has[p].access \in 0 .. Len(issued) /\ has[p].refresh \in 0 .. Len(issued)
      /\ fresh[p].access \in 0 .. Len(issued) /\ fresh[p].refresh \in 0 .. Len(issued)
      /\ token[p] \in 0 .. Len(issued)
  BY <1>0 DEF Known, Shape, CallShape, Credentials
<1>3. file'.access \in 1 .. Len(issued') /\ file'.refresh <= Len(issued')
  <2>1. CASE Write(p)
    BY <1>0, <1>2, <2>1 DEF Write, Called
  <2>2. CASE UNCHANGED file
    BY <1>1, <2>2
  <2> QED
    BY <2>1, <2>2, ServiceStays DEF Exchange, ExchangeUnanswered
<1>4. rejected' \cup spent' \cup lost' \subseteq 1 .. Len(issued')
  <2>1. pc[p] \in Used => has[p].refresh \in 1 .. Len(issued')
    BY <1>0, <1>2 DEF Called
  <2>2. rejected \cup spent \cup lost \subseteq 1 .. Len(issued')
    BY <1>0 DEF Known
  <2>3. rejected' = rejected
    BY ServiceStays DEF Exchange, ExchangeUnanswered, Write
  <2>4. spent' \subseteq 1 .. Len(issued')
    BY <2>1, <2>2, ServiceStays DEF Exchange, ExchangeUnanswered, Write, Issue, Used
  <2>5. lost' # lost => /\ pc[p] \in Used
                        /\ lost' = lost \cup {has[p].refresh}
    <3>1. CASE ExchangeUnanswered(p)
      BY <3>1 DEF ExchangeUnanswered, Used
    <3>2. CASE WriteFails(p)
      BY <3>2 DEF WriteFails, Used
    <3>3. CASE Crash(p)
      BY <3>3 DEF Crash, Used
    <3> QED
      BY <3>1, <3>2, <3>3, LostStays
  <2> QED
    BY <2>1, <2>2, <2>3, <2>4, <2>5
<1>5. has'[p].access <= Len(issued') /\ has'[p].refresh <= Len(issued')
  <2>1. has'[p] \in {has[p], file, NoCredentials, [access |-> file.access, refresh |-> 0]}
    BY DEF CallStep, Answered, Return, Issue, Shape, CallShape, Start, BindToken, BindOrg,
           Profile, Usage, Retry, UsageFails, Redeem, Mkdir, OwnStat, Drop, SeeStale,
           RemoveStale, Timeout, Release, Unlink, Released, Heartbeat, Reread, Exchange,
           ExchangeUnanswered, ExchangeRefused, Save, Write, WriteFails, Crash, Stall,
           Resume
  <2> QED
    BY <1>0, <1>1, <1>2, <2>1 DEF NoCredentials
<1>6. token'[p] <= Len(issued')
  <2>1. token'[p] \in {token[p], 0, file.access, fresh[p].access}
    BY DEF CallStep, Answered, Return, Issue, GiveUp, Shape, CallShape, Start, BindToken,
           BindOrg, Profile, Usage, Retry, UsageFails, Redeem, Mkdir, OwnStat, Drop,
           SeeStale, RemoveStale, Timeout, Release, Unlink, Released, Heartbeat, Reread,
           Exchange, ExchangeUnanswered, ExchangeRefused, Save, Write, WriteFails, Crash,
           Stall, Resume
  <2> QED
    BY <1>0, <1>1, <1>2, <2>1
<1>7. fresh'[p].access <= Len(issued') /\ fresh'[p].refresh <= Len(issued')
  <2>1. CASE Exchange(p)
    <3>1. PICK r \in BOOLEAN : Issue(p, r)
      BY <2>1 DEF Exchange
    <3>2. issued[has[p].refresh] \in Account
      BY <1>0, <1>2, <2>1 DEF Exchange, Called, Used, Shape, ServiceShape
    <3>3. Len(issued') = Len(issued) + 1
      BY <3>1, <3>2, AppendFacts DEF Issue, Shape, ServiceShape
    <3> QED
      BY <1>0, <1>2, <3>1, <3>3 DEF Issue, Shape, CallShape
  <2>2. CASE ~Exchange(p)
    <3>1. fresh'[p] \in {fresh[p], NoCredentials}
      BY <2>2 DEF CallStep, Answered, Return, Issue, Shape, CallShape, Start, BindToken,
                  BindOrg, Profile, Usage, Retry, UsageFails, Redeem, Mkdir, OwnStat,
                  Drop, SeeStale, RemoveStale, Timeout, Release, Unlink, Released,
                  Heartbeat, Reread, Exchange, ExchangeUnanswered, ExchangeRefused, Save,
                  Write, WriteFails, Crash, Stall, Resume
    <3> QED
      BY <1>0, <1>2, <3>1 DEF NoCredentials
  <2> QED
    BY <2>1, <2>2
<1>8. ASSUME NEW q \in Process \ {p}
      PROVE  /\ has'[q].access <= Len(issued') /\ has'[q].refresh <= Len(issued')
             /\ fresh'[q].access <= Len(issued') /\ fresh'[q].refresh <= Len(issued')
             /\ token'[q] <= Len(issued')
  <2>1. /\ has'[q] = has[q] /\ fresh'[q] = fresh[q] /\ token'[q] = token[q]
        /\ has[q] \in Credentials /\ fresh[q] \in Credentials /\ token[q] \in Nat
    BY DEF Others, Same, Shape, CallShape
  <2>2. /\ has[q].access <= Len(issued) /\ has[q].refresh <= Len(issued)
        /\ fresh[q].access <= Len(issued) /\ fresh[q].refresh <= Len(issued)
        /\ token[q] <= Len(issued)
    BY DEF Known
  <2> QED
    BY <1>0, <2>1, <2>2 DEF Credentials
<1> QED
  BY <1>3, <1>4, <1>5, <1>6, <1>7, <1>8 DEF Known

(* The directories a call has taken go with its place.                       *)
LEMMA PlacedHolds ==
  ASSUME Shape, Locals, NEW p \in Process, CallStep(p)
  PROVE  Placed(p)'
<1> USE DEF files, service, locks, work, reset, history, At, GiveUp, Goto
<1>0. /\ Placed(p) /\ CallShape
      /\ own[p] \in Seq(Process) /\ Len(own[p]) \in Nat
      /\ Paths[p] \in Seq(Path) /\ Len(Paths[p]) \in Nat /\ Len(Paths[p]) > 0
      /\ pc[p] \in Labels
  BY PathsAssumption DEF Locals, Shape, CallShape
<1> USE DEF Outside, Taking, Repairs, Labels
<1>2. CASE UNCHANGED own /\ pc'[p] \in Outside /\ pc[p] \in Outside
  BY <1>0, <1>2 DEF Placed
<1>3. CASE UNCHANGED own /\ own[p] = << >> /\ pc'[p] \in Outside \cup {"mkdir", "release"}
  BY <1>0, <1>3 DEF Placed
<1>4. CASE UNCHANGED own /\ pc'[p] = "release"
  BY <1>0, <1>4 DEF Placed
<1>5. CASE UNCHANGED own /\ pc[p] \in Taking /\ pc'[p] \in Taking
  BY <1>0, <1>5 DEF Placed
<1>6. CASE UNCHANGED own /\ pc[p] \in Repairs /\ pc'[p] \in Repairs
  BY <1>0, <1>6 DEF Placed
<1>7. CASE UNCHANGED own /\ pc'[p] = pc[p]
  BY <1>0, <1>7 DEF Placed
<1>8. CASE own'[p] = << >> /\ pc'[p] = "idle"
  BY <1>0, <1>8 DEF Placed
<1>9. CASE OwnStat(p)
  <2>1. CASE UNCHANGED own
    BY <1>0, <1>9, <2>1 DEF OwnStat, Placed, CallShape
  <2>2. CASE ~UNCHANGED own
    <3>1. Wanted(p) \in Path
      BY <1>0, <1>9 DEF OwnStat, Placed, Wanted
    <3>2. dir[Wanted(p)] \in Process /\ own'[p] = Append(own[p], dir[Wanted(p)])
      BY <1>0, <1>9, <2>2, <3>1 DEF OwnStat, Shape, LockShape, CallShape
    <3>3. Len(own'[p]) = Len(own[p]) + 1
      BY <1>0, <3>2, AppendFacts
    <3>4. pc'[p] = IF Len(own'[p]) = Len(Paths[p]) THEN "reread" ELSE "mkdir"
      BY <1>0, <1>9, <2>2, <3>3 DEF OwnStat, CallShape
    <3> QED
      BY <1>0, <1>9, <3>3, <3>4 DEF OwnStat, Placed
  <2> QED
    BY <2>1, <2>2
<1>10. CASE Release(p) \/ Unlink(p)
  <2>1. own[p] # << >>
    BY <1>0, <1>10 DEF Release, Unlink, Placed
  <2>2. Front(own[p]) \in Seq(Process) /\ Len(Front(own[p])) = Len(own[p]) - 1
    BY <1>0, <2>1, FrontFacts
  <2>3. \/ pc'[p] = "release" /\ own'[p] = Front(own[p])
        \/ pc'[p] = "unlink" /\ own'[p] = own[p]
    BY <1>0, <1>10 DEF Release, Unlink, CallShape
  <2> QED
    BY <1>0, <2>1, <2>2, <2>3 DEF Placed
<1>11. CASE Start(p)
  BY <1>0, <1>2, <1>11 DEF Start, CallShape
<1>12. CASE BindToken(p)
  BY <1>0, <1>2, <1>12 DEF BindToken, CallShape
<1>13. CASE BindOrg(p)
  BY <1>0, <1>2, <1>13 DEF BindOrg, Return, CallShape
<1>14. CASE Profile(p)
  BY <1>0, <1>2, <1>14 DEF Profile, Return, CallShape
<1>15. CASE Usage(p)
  BY <1>0, <1>2, <1>3, <1>15 DEF Usage, Answered, Return, CallShape, Placed
<1>16. CASE Retry(p)
  BY <1>0, <1>2, <1>16 DEF Retry, Answered, Return, CallShape
<1>17. CASE UsageFails(p)
  BY <1>0, <1>2, <1>17 DEF UsageFails, Return, CallShape
<1>18. CASE Redeem(p)
  BY <1>0, <1>2, <1>18 DEF Redeem, Return, CallShape
<1>19. CASE Mkdir(p)
  BY <1>0, <1>5, <1>19 DEF Mkdir, CallShape
<1>20. CASE Drop(p)
  BY <1>0, <1>4, <1>20 DEF Drop, CallShape
<1>21. CASE SeeStale(p)
  BY <1>0, <1>5, <1>21 DEF SeeStale, CallShape
<1>22. CASE RemoveStale(p)
  BY <1>0, <1>5, <1>22 DEF RemoveStale, CallShape
<1>23. CASE Timeout(p)
  BY <1>0, <1>4, <1>23 DEF Timeout, CallShape
<1>24. CASE Released(p)
  BY <1>0, <1>3, <1>24 DEF Released, Return, CallShape
<1>25. CASE Heartbeat(p)
  BY <1>0, <1>7, <1>25 DEF Heartbeat, CallShape
<1>26. CASE Reread(p)
  BY <1>0, <1>4, <1>6, <1>26 DEF Reread, CallShape
<1>27. CASE Exchange(p)
  BY <1>0, <1>6, <1>27 DEF Exchange, CallShape
<1>28. CASE ExchangeUnanswered(p)
  BY <1>0, <1>4, <1>28 DEF ExchangeUnanswered, CallShape
<1>29. CASE ExchangeRefused(p)
  BY <1>0, <1>4, <1>29 DEF ExchangeRefused, CallShape
<1>30. CASE Save(p)
  BY <1>0, <1>4, <1>6, <1>30 DEF Save, CallShape
<1>31. CASE Write(p)
  BY <1>0, <1>4, <1>31 DEF Write, CallShape
<1>32. CASE WriteFails(p)
  BY <1>0, <1>4, <1>32 DEF WriteFails, CallShape
<1>33. CASE Crash(p)
  BY <1>0, <1>8, <1>33 DEF Crash, Return, CallShape
<1>34. CASE Stall(p)
  BY <1>0, <1>7, <1>34 DEF Stall, CallShape
<1>35. CASE Resume(p)
  BY <1>0, <1>7, <1>35 DEF Resume, CallShape
<1> QED
  BY <1>9, <1>10, <1>11, <1>12, <1>13, <1>14, <1>15, <1>16, <1>17, <1>18, <1>19, <1>20,
        <1>21, <1>22, <1>23, <1>24, <1>25, <1>26, <1>27, <1>28, <1>29, <1>30, <1>31,
        <1>32, <1>33, <1>34, <1>35 DEF CallStep

(* What a call works from goes with its place.                            *)
LEMMA AnsweredCalled ==
  ASSUME Shape, Known, NEW p \in Process, Called(p), NEW a \in 1 .. Len(issued), Answered(p, a),
         left[p] # 0, pc[p] # "idle", has[p].access \notin rejected => a = has[p].access,
         UNCHANGED << issued, rejected, readOnly >>
  PROVE  Called(p)'
<1>0. CallShape /\ issued[a] \in Account /\ left[p] \in 0 .. 3 /\ pc[p] \in Labels
  BY DEF Shape, ServiceShape, CallShape
<1>1. CASE Return(p)
  BY <1>0, <1>1 DEF Return, Goto, Called, Outside, Used, CallShape
<1>2. CASE ~Return(p)
  <2>1. /\ p \in Bound /\ has' = has /\ left'[p] = left[p] - 1
        /\ readFrom'[p] = readFrom[p] \cup {issued[a]}
        /\ pc'[p] = IF left[p] = 1 THEN "bind" ELSE "usage"
    BY <1>0, <1>2 DEF Answered, Goto, CallShape
  <2>2. left'[p] # 0 \/ pc'[p] = "bind"
    BY <1>0, <2>1
  <2> QED
    BY <1>0, <2>1, <2>2 DEF Called, Outside, Used
<1> QED
  BY <1>1, <1>2

LEMMA CalledHolds ==
  ASSUME Shape, Known, Locals, NEW p \in Process, CallStep(p), Grown
  PROVE  Called(p)'
<1> USE DEF files, service, locks, work, reset, history, At, GiveUp, Goto
<1>0. /\ Called(p) /\ Placed(p) /\ CallShape /\ readOnly' = readOnly
      /\ pc[p] \in Labels /\ left[p] \in 0 .. 3
      /\ file.access # 0 /\ has[p].access \in 0 .. Len(issued) /\ token[p] \in 0 .. Len(issued)
      /\ Len(issued) \in Nat
  BY DEF Locals, Shape, CallShape, ServiceShape, Known, Grown, Credentials
<1> USE DEF Outside, Used, Labels
<1>2. CASE Return(p) /\ UNCHANGED rejected
  BY <1>0, <1>2 DEF Return, Called, CallShape
<1>3. CASE /\ UNCHANGED << has, left, org, readFrom, rejected >>
           /\ pc'[p] \in Taking \cup {"release", "unlink"} /\ pc[p] \notin Outside
           /\ UNCHANGED issued \/ has[p].access \in rejected
  BY <1>0, <1>3 DEF Called, Taking
<1>4. CASE Start(p)
  BY <1>0, <1>4, BoundAssumption DEF Start, Called, CallShape
<1>5. CASE BindToken(p)
  <2>1. /\ pc'[p] = "bind" /\ has'[p].access = file.access /\ left'[p] = 3
        /\ UNCHANGED << rejected, readFrom, issued >>
    BY <1>0, <1>5 DEF BindToken, CallShape
  <2>2. readFrom[p] = {}
    BY <1>0, <1>5 DEF BindToken, Called
  <2> QED
    BY <1>0, <1>5, <2>1, <2>2 DEF BindToken, Called
<1>6. CASE BindOrg(p) \/ Profile(p)
  <2>1. CASE ~Return(p)
    <3>1. /\ UNCHANGED << has, left, readFrom, rejected, issued >>
          /\ p \in Bound /\ pc[p] \in {"bind", "profile"}
      BY <1>0, <1>6, <2>1 DEF BindOrg, Profile, Called
    <3>2. \/ pc'[p] = "profile"
          \/ /\ org'[p] = ArmedAccount
             /\ pc'[p] = IF left[p] = 0 THEN "redeem" ELSE "usage"
      BY <1>0, <1>6, <2>1 DEF BindOrg, Profile, CallShape
    <3> QED
      BY <1>0, <3>1, <3>2 DEF Called
  <2> QED
    BY <1>2, <2>1, <1>6 DEF BindOrg, Profile
<1>7. CASE Usage(p)
  <2>1. CASE Answered(p, has[p].access)
    BY <1>0, <1>7, <2>1, AnsweredCalled DEF Usage, Called
  <2>2. CASE ~Answered(p, has[p].access)
    BY <1>0, <1>7, <2>2 DEF Usage, Called, CallShape
  <2> QED
    BY <2>1, <2>2
<1>8. CASE Retry(p)
  <2>1. CASE Answered(p, token[p])
    BY <1>0, <1>8, <2>1, AnsweredCalled DEF Retry, Called
  <2> QED
    BY <1>2, <2>1, <1>8 DEF Retry
<1>9. CASE UsageFails(p) \/ Redeem(p) \/ Crash(p)
  BY <1>2, <1>9 DEF UsageFails, Redeem, Crash
<1>10. CASE Mkdir(p) \/ Drop(p) \/ SeeStale(p) \/ RemoveStale(p) \/ Timeout(p)
  BY <1>0, <1>3, <1>10 DEF Taking, Mkdir, Drop, SeeStale, RemoveStale, Timeout, CallShape
<1>11. CASE Release(p) \/ Unlink(p)
  BY <1>0, <1>3, <1>11 DEF Taking, Release, Unlink, CallShape
<1>12. CASE OwnStat(p)
  <2>1. /\ UNCHANGED << has, left, org, readFrom, rejected, issued >>
        /\ pc[p] = "stat" /\ pc'[p] \in {"drop", "reread", "mkdir"}
    BY <1>0, <1>12 DEF OwnStat, CallShape
  <2> QED
    BY <1>0, <2>1 DEF Called
<1>13. CASE Released(p)
  <2>1. CASE ~Return(p)
    BY <1>0, <1>13, <2>1 DEF Released, Called, CallShape
  <2> QED
    BY <1>2, <2>1, <1>13 DEF Released
<1>14. CASE Heartbeat(p) \/ Stall(p) \/ Resume(p)
  BY <1>0, <1>14 DEF Heartbeat, Stall, Resume, Called
<1>15. CASE Reread(p)
  <2>1. CASE UNCHANGED has
    BY <1>0, <1>3, <1>15, <2>1 DEF Taking, Reread, Called, CallShape
  <2>2. CASE ~UNCHANGED has
    <3>1. /\ pc[p] = "reread" /\ pc'[p] = "exchange" /\ has'[p] = file
          /\ file.access = has[p].access /\ file.refresh # 0 /\ ~readOnly
          /\ UNCHANGED << left, org, readFrom, rejected, issued >>
      BY <1>0, <1>15, <2>2 DEF Reread, CallShape
    <3> QED
      BY <1>0, <3>1 DEF Called
  <2> QED
    BY <2>1, <2>2
<1>16. CASE Exchange(p)
  <2>1. PICK r \in BOOLEAN : Issue(p, r)
    BY <1>16 DEF Exchange
  <2>2. /\ pc[p] = "exchange" /\ pc'[p] = "save" /\ fresh'[p].access = Len(issued) + 1
        /\ UNCHANGED << has, left, org, readFrom, rejected >>
    BY <1>0, <1>16, <2>1 DEF Exchange, Issue, CallShape
  <2> QED
    BY <1>0, <2>2 DEF Called
<1>17. CASE ExchangeUnanswered(p) \/ ExchangeRefused(p)
  BY <1>0, <1>3, <1>17 DEF Taking, ExchangeUnanswered, ExchangeRefused, Called, CallShape
<1>18. CASE Save(p)
  BY <1>0, <1>18 DEF Save, Called, CallShape
<1>19. CASE Write(p) \/ WriteFails(p)
  BY <1>0, <1>3, <1>19 DEF Taking, Write, WriteFails, Called, CallShape
<1> QED
  BY <1>4, <1>5, <1>6, <1>7, <1>8, <1>9, <1>10, <1>11, <1>12, <1>13, <1>14, <1>15, <1>16,
        <1>17, <1>18, <1>19 DEF CallStep

-----------------------------------------------------------------------------
(* The lock directories.                                                   *)

(* A call removes only what no running holder relies on, or it is noted.    *)
LEMMA RemovalSpares ==
  ASSUME Shape, Locals, Locked, ~raced', NEW p \in Process, NEW l \in Path, RemoveDir(p, l),
         NEW q \in Process, q # p
  PROVE  /\ pc[q] = "stat" => Wanted(q) # l
         /\ \A i \in DOMAIN own[q] : Paths[q][i] # l
<1>1. ~raced /\ ~Holding(q, l)
  BY DEF RemoveDir
<1>2. Held(q)
  BY <1>1 DEF Locked
<1> QED
  BY <1>1, <1>2 DEF Held, Holding

(* The path a call takes next, or gives up next, is none of its others.     *)
LEMMA OtherPaths ==
  ASSUME Shape, Locals, NEW p \in Process
  PROVE  /\ pc[p] \in Taking => /\ Wanted(p) \in Path
                                /\ \A i \in DOMAIN own[p] : Paths[p][i] # Wanted(p)
         /\ own[p] # << >> => /\ Newest(p) \in Path
                              /\ \A i \in DOMAIN own[p] : i < Len(own[p]) => Paths[p][i] # Newest(p)
<1>1. /\ own[p] \in Seq(Process) /\ Len(own[p]) \in Nat /\ DOMAIN own[p] = 1 .. Len(own[p])
      /\ Paths[p] \in Seq(Path) /\ Len(Paths[p]) \in Nat /\ Len(own[p]) <= Len(Paths[p])
  BY PathsAssumption DEF Locals, Placed, Shape, CallShape
<1>2. ASSUME pc[p] \in Taking
      PROVE  Wanted(p) \in Path /\ \A i \in DOMAIN own[p] : Paths[p][i] # Wanted(p)
  <2>1. Len(own[p]) + 1 \in 1 .. Len(Paths[p])
    BY <1>1, <1>2 DEF Locals, Placed
  <2>2. Wanted(p) \in Path
    BY <1>1, <2>1 DEF Wanted
  <2>3. ASSUME NEW i \in DOMAIN own[p], Paths[p][i] = Wanted(p)
        PROVE  FALSE
    <3>1. i \in 1 .. Len(Paths[p]) /\ i # Len(own[p]) + 1
      BY <1>1
    <3> QED
      BY <2>1, <2>3, <3>1, PathsDiffer DEF Wanted
  <2> QED
    BY <2>2, <2>3
<1>3. ASSUME own[p] # << >>
      PROVE  /\ Newest(p) \in Path
             /\ \A i \in DOMAIN own[p] : i < Len(own[p]) => Paths[p][i] # Newest(p)
  <2>1. Len(own[p]) \in 1 .. Len(Paths[p])
    BY <1>1, <1>3
  <2>2. Newest(p) \in Path
    BY <1>1, <2>1 DEF Newest
  <2>3. ASSUME NEW i \in DOMAIN own[p], i < Len(own[p]), Paths[p][i] = Newest(p)
        PROVE  FALSE
    <3>1. i \in 1 .. Len(Paths[p]) /\ i # Len(own[p])
      BY <1>1, <2>3
    <3> QED
      BY <2>1, <2>3, <3>1, PathsDiffer DEF Newest
  <2> QED
    BY <2>2, <2>3
<1> QED
  BY <1>2, <1>3

(* Its own step leaves a call the directories it needs.                     *)
LEMMA OwnHeld ==
  ASSUME Shape, Locals, Locked, ~raced, NEW p \in Process, CallStep(p)
  PROVE  Held(p)'
<1> USE DEF files, service, locks, work, reset, history, At, GiveUp, Goto
<1>0. Held(p) /\ CallShape /\ LockShape /\ Placed(p) /\ own[p] \in Seq(Process) /\ p # NoOne
  BY NoOneAssumption DEF Locked, Locals, Shape, CallShape
<1>1. CASE Mkdir(p)
  <2>1. /\ Wanted(p) \in Path /\ dir[Wanted(p)] = NoOne /\ dir' = [dir EXCEPT ![Wanted(p)] = p]
        /\ UNCHANGED own
    BY <1>1, OtherPaths DEF Mkdir, Taking
  <2>2. dir'[Wanted(p)] = p /\ Wanted(p)' = Wanted(p)
    BY <1>0, <2>1 DEF LockShape, Wanted
  <2>3. \A i \in DOMAIN own[p] : dir'[Paths[p][i]] = dir[Paths[p][i]]
    BY <1>0, <2>1 DEF Held, LockShape
  <2> QED
    BY <1>0, <2>1, <2>2, <2>3 DEF Held
<1>2. CASE OwnStat(p)
  <2>1. dir[Wanted(p)] = p
    BY <1>0, <1>2 DEF OwnStat, Held
  <2>2. own'[p] = Append(own[p], p) /\ pc'[p] # "stat" /\ dir' = dir
    BY <1>0, <1>2, <2>1 DEF OwnStat, CallShape
  <2>3. ASSUME NEW i \in DOMAIN own'[p]
        PROVE  own'[p][i] = p /\ dir[Paths[p][i]] = p
    <3>1. CASE i \in DOMAIN own[p]
      BY <1>0, <2>2, <3>1, AppendFacts DEF Held
    <3>2. CASE i = Len(own[p]) + 1
      BY <1>0, <2>1, <2>2, <3>2, AppendFacts DEF Wanted
    <3> QED
      BY <1>0, <2>2, <3>1, <3>2, AppendFacts
  <2> QED
    BY <2>2, <2>3 DEF Held
<1>3. CASE Drop(p) \/ RemoveStale(p)
  <2>1. /\ Wanted(p) \in Path /\ \A i \in DOMAIN own[p] : Paths[p][i] # Wanted(p)
    BY <1>3, OtherPaths DEF Drop, RemoveStale, Taking
  <2>2. dir' = [dir EXCEPT ![Wanted(p)] = NoOne] /\ UNCHANGED own /\ pc'[p] # "stat"
    BY <1>0, <1>3 DEF Drop, RemoveStale, RemoveDir, CallShape
  <2> QED
    BY <1>0, <2>1, <2>2 DEF Held, LockShape
<1>4. CASE Unlink(p)
  <2>1. own[p] # << >> /\ own'[p] = Front(own[p]) /\ pc'[p] # "stat"
    BY <1>0, <1>4 DEF Unlink, CallShape, Placed
  <2>2. dir' = [dir EXCEPT ![Newest(p)] = NoOne]
    BY <1>4 DEF Unlink, RemoveDir
  <2>3. ASSUME NEW i \in DOMAIN own'[p]
        PROVE  own'[p][i] = p /\ dir'[Paths[p][i]] = p
    <3>1. i \in DOMAIN own[p] /\ i < Len(own[p]) /\ own'[p][i] = own[p][i]
      BY <1>0, <2>1, FrontFacts
    <3>2. Paths[p][i] # Newest(p)
      BY <2>1, <3>1, OtherPaths
    <3> QED
      BY <1>0, <2>2, <3>1, <3>2 DEF Held, LockShape
  <2> QED
    BY <2>1, <2>3 DEF Held
<1>5. CASE Release(p)
  <2>1. own[p] # << >> /\ own'[p] \in {own[p], Front(own[p])} /\ pc'[p] # "stat" /\ dir' = dir
    BY <1>0, <1>5 DEF Release, CallShape
  <2>2. \A i \in DOMAIN own'[p] : i \in DOMAIN own[p] /\ own'[p][i] = own[p][i]
    BY <1>0, <2>1, FrontFacts
  <2> QED
    BY <1>0, <2>1, <2>2 DEF Held
<1>6. CASE Crash(p)
  <2>1. own'[p] = << >> /\ pc'[p] # "stat"
    BY <1>0, <1>6 DEF Crash, Return, CallShape
  <2> QED
    BY <2>1 DEF Held
<1>7. CASE UNCHANGED << dir, own >> /\ (pc'[p] # "stat" \/ pc'[p] = pc[p])
  BY <1>0, <1>7 DEF Held, Wanted
<1>8. \/ Mkdir(p) \/ OwnStat(p) \/ Drop(p) \/ RemoveStale(p) \/ Unlink(p) \/ Release(p) \/ Crash(p)
      \/ UNCHANGED << dir, own >>
  BY LocksStay, OwnStays DEF Heartbeat
<1>9. \/ Mkdir(p) \/ pc'[p] # "stat" \/ pc'[p] = pc[p]
  BY <1>0 DEF CallShape, CallStep, Answered, Return, Start, BindToken, BindOrg, Profile,
              Usage, Retry, UsageFails, Redeem, Mkdir, OwnStat, Drop, SeeStale,
              RemoveStale, Timeout, Release, Unlink, Released, Heartbeat, Reread,
              Exchange, ExchangeUnanswered, ExchangeRefused, Save, Write, WriteFails,
              Crash, Stall, Resume
<1> QED
  BY <1>1, <1>2, <1>3, <1>4, <1>5, <1>6, <1>7, <1>8, <1>9

LEMMA LockedHolds ==
  ASSUME Shape, Locals, Locked, NEW p \in Process, CallStep(p), Others(p)
  PROVE  Locked'
<1> SUFFICES ASSUME ~raced', NEW q \in Process
             PROVE  Held(q)'
  BY DEF Locked
<1>1. ~raced
  BY LocksStay DEF Mkdir, Drop, RemoveStale, Unlink, Heartbeat, RemoveDir, history
<1>2. CASE q = p
  BY <1>1, <1>2, OwnHeld
<1>3. CASE q # p
  <2>1. Held(q) /\ q # NoOne
    BY <1>1, NoOneAssumption DEF Locked
  <2>2. pc'[q] = pc[q] /\ own'[q] = own[q]
    BY <1>3 DEF Others, Same
  <2>3. /\ pc[q] = "stat" => dir'[Wanted(q)] = dir[Wanted(q)]
        /\ \A i \in DOMAIN own[q] : dir'[Paths[q][i]] = dir[Paths[q][i]]
    <3>1. CASE Mkdir(p)
      <4>1. dir[Wanted(p)] = NoOne /\ dir' = [dir EXCEPT ![Wanted(p)] = p]
        BY <3>1 DEF Mkdir
      <4> QED
        BY <2>1, <4>1 DEF Held, Shape, LockShape
    <3>2. CASE Drop(p) \/ RemoveStale(p) \/ Unlink(p)
      <4>1. PICK l \in Path : RemoveDir(p, l)
        BY <3>2, OtherPaths DEF Drop, RemoveStale, Unlink, At, Taking, Locals, Placed
      <4>2. /\ pc[q] = "stat" => Wanted(q) # l
            /\ \A i \in DOMAIN own[q] : Paths[q][i] # l
        BY <1>3, <4>1, RemovalSpares
      <4> QED
        BY <4>1, <4>2 DEF RemoveDir, Shape, LockShape
    <3>3. CASE UNCHANGED dir
      BY <3>3
    <3> QED
      BY <3>1, <3>2, <3>3, LocksStay DEF Heartbeat
  <2> QED
    BY <2>1, <2>2, <2>3 DEF Held, Wanted
<1> QED
  BY <1>2, <1>3

-----------------------------------------------------------------------------
(* The credential file.                                                   *)

(* How a call comes to a place between the reread and the rename.           *)
LEMMA ComesToUse ==
  ASSUME Shape, NEW p \in Process, CallStep(p), pc'[p] \in Used
  PROVE  \/ Reread(p) \/ Exchange(p) \/ Save(p)
         \/ /\ pc'[p] = pc[p]
            /\ UNCHANGED << file, has, fresh, spent, lost, slipped >>
<1>1. CallShape
  BY DEF Shape
<1> QED
  BY <1>1 DEF CallShape, CallStep, Answered, Return, Goto, GiveUp, Used, files, service,
              work, history, Start, BindToken, BindOrg, Profile, Usage, Retry, UsageFails,
              Redeem, Mkdir, OwnStat, Drop, SeeStale, RemoveStale, Timeout, Release,
              Unlink, Released, Heartbeat, Reread, Exchange, ExchangeUnanswered,
              ExchangeRefused, Save, Write, WriteFails, Crash, Stall, Resume

(* A rename notes the other calls that are about to write.                  *)
LEMMA LookedHolds ==
  ASSUME Shape, Looked, NEW p \in Process, CallStep(p), Others(p)
  PROVE  Looked'
<1> SUFFICES ASSUME NEW q \in Process, pc'[q] = "write", q \notin slipped'
             PROVE  file' = has'[q]
  BY DEF Looked
<1>0. CallShape
  BY DEF Shape
<1>1. CASE q = p
  <2>1. ~Reread(p) /\ ~Exchange(p)
    BY <1>0, <1>1 DEF Reread, Exchange, Goto, GiveUp, CallShape
  <2>2. CASE Save(p)
    BY <1>0, <1>1, <2>2 DEF Save, Goto, CallShape, files
  <2>3. CASE pc'[p] = pc[p] /\ UNCHANGED << file, has, fresh, spent, lost, slipped >>
    BY <1>1, <2>3 DEF Looked
  <2> QED
    BY <1>1, <2>1, <2>2, <2>3, ComesToUse DEF Used
<1>2. CASE q # p
  <2>1. pc[q] = "write" /\ has'[q] = has[q]
    BY <1>2 DEF Others, Same
  <2>2. ~Write(p)
    BY <1>2, <2>1 DEF Write, Writing
  <2>3. file' = file
    BY <2>2, ServiceStays DEF Exchange, ExchangeUnanswered, files
  <2>4. q \notin slipped
    BY <1>2, <2>2 DEF CallStep, Answered, Return, history, Start, BindToken, BindOrg,
                      Profile, Usage, Retry, UsageFails, Redeem, Mkdir, OwnStat, Drop,
                      SeeStale, RemoveStale, Timeout, Release, Unlink, Released,
                      Heartbeat, Reread, Exchange, ExchangeUnanswered, ExchangeRefused,
                      Save, Write, WriteFails, Crash, Stall, Resume
  <2> QED
    BY <2>1, <2>3, <2>4 DEF Looked
<1> QED
  BY <1>1, <1>2

(* Between its reread and its rename a call is the only one to touch file   *)
(* and service, logins apart.                                               *)
LEMMA AnswersHold ==
  ASSUME Shape, Known, Locals, Locked, Sound, RotationReachesFile, ~raced,
         NEW p \in Process, CallStep(p), Others(p), NEW q \in Process
  PROVE  Answers(q)'
<1> USE DEF files, service, work, history, At, Goto
<1>0. /\ CallShape /\ Answers(q) /\ Answers(p)
      /\ Len(issued) \in Nat /\ spent \subseteq 1 .. Len(issued)
  BY DEF Shape, ServiceShape, Sound, Known
<1>1. CASE q = p
  <2>1. CASE pc'[p] \notin Used
    BY <1>1, <2>1 DEF Answers, Used
  <2>2. CASE Reread(p) /\ pc'[p] \in Used
    <3>1. /\ pc[p] = "reread" /\ pc'[p] = "exchange" /\ has'[p] = file
          /\ UNCHANGED << file, spent, lost >>
      BY <1>0, <2>2 DEF Reread, GiveUp, CallShape, Used
    <3>2. file.refresh \in spent => file.refresh \in lost
      <4>1. ASSUME NEW r \in Process, pc[r] \in {"save", "write"}
            PROVE  FALSE
        BY <3>1, <4>1, OneAtMost DEF Repairs
      <4> QED
        BY <4>1 DEF RotationReachesFile
    <3> QED
      BY <1>1, <3>1, <3>2 DEF Answers
  <2>3. CASE Exchange(p)
    <3>1. /\ pc[p] = "exchange" /\ pc'[p] = "save" /\ has[p].refresh \notin spent
          /\ UNCHANGED << file, has >>
      BY <1>0, <2>3 DEF Exchange, CallShape
    <3>2. PICK r \in BOOLEAN : Issue(p, r)
      BY <2>3 DEF Exchange
    <3>3. has[p].refresh \in 0 .. Len(issued)
      BY <1>0 DEF CallShape, Credentials, Known
    <3>4. fresh'[p].refresh \notin spent'
      <4>1. fresh'[p].refresh = IF r THEN Len(issued) + 1 ELSE has[p].refresh
        BY <1>0, <3>2 DEF Issue, CallShape
      <4>2. spent' = IF r THEN spent \cup {has[p].refresh} ELSE spent
        BY <3>2 DEF Issue
      <4>3. Len(issued) + 1 \notin spent \cup {has[p].refresh}
        BY <1>0, <3>3
      <4> QED
        BY <3>1, <4>1, <4>2, <4>3
    <3> QED
      BY <1>0, <1>1, <3>1, <3>4 DEF Answers, Used
  <2>4. CASE Save(p)
    BY <1>0, <1>1, <2>4 DEF Save, Answers, Used, CallShape
  <2>5. CASE pc'[p] = pc[p] /\ UNCHANGED << file, has, fresh, spent, lost, slipped >>
    BY <1>0, <1>1, <2>5 DEF Answers
  <2> QED
    BY <2>1, <2>2, <2>3, <2>4, <2>5, ComesToUse
<1>2. CASE q # p
  <2>1. pc'[q] = pc[q] /\ has'[q] = has[q] /\ fresh'[q] = fresh[q]
    BY <1>2 DEF Others, Same
  <2>2. CASE pc[q] \notin Used
    BY <2>1, <2>2 DEF Answers, Used
  <2>3. CASE pc[q] \in Used
    <3>1. pc[p] \notin Repairs
      BY <1>2, <2>3, OneAtMost DEF Used, Repairs
    <3>2. UNCHANGED << file, spent >>
      BY <3>1, ServiceStays DEF Exchange, ExchangeUnanswered, Write, Repairs
    <3>3. lost \subseteq lost'
      BY LostStays DEF ExchangeUnanswered, WriteFails, Crash
    <3> QED
      BY <1>0, <2>1, <3>2, <3>3 DEF Answers
  <2> QED
    BY <2>2, <2>3
<1> QED
  BY <1>1, <1>2

(* A token that is used up is still in a living hand, or was lost.          *)
LEMMA RotationHolds ==
  ASSUME Shape, Known, Locals, Locked, Sound, RotationReachesFile, ~raced,
         NEW p \in Process, CallStep(p), Others(p)
  PROVE  RotationReachesFile'
<1> USE DEF files, service, work, history, At, Goto
<1>0. CallShape /\ Answers(p) /\ Called(p)
  BY DEF Shape, Sound, Locals
<1> DEFINE Hand(q) == pc[q] \in {"save", "write"} /\ has[q] = file
<1> SUFFICES ASSUME file'.refresh \in spent' \ lost'
             PROVE  \E q \in Process : Hand(q)'
  BY DEF RotationReachesFile
<1>1. CASE Exchange(p)
  <2>1. /\ pc[p] = "exchange" /\ pc'[p] = "save" /\ UNCHANGED << file, has, lost >>
        /\ spent' \subseteq spent \cup {has[p].refresh}
    BY <1>0, <1>1 DEF Exchange, Issue, CallShape
  <2>2. CASE file.refresh = has[p].refresh
    <3>1. ~(has[p].refresh < file.refresh)
      BY <1>0, <2>2 DEF CallShape, Credentials
    <3>2. file = has[p]
      BY <1>0, <2>1, <3>1 DEF Answers, Used
    <3> QED
      BY <2>1, <3>2
  <2>3. CASE file.refresh # has[p].refresh
    <3>1. file.refresh \in spent \ lost
      BY <2>1, <2>3
    <3>2. PICK q \in Process : Hand(q)
      BY <3>1 DEF RotationReachesFile
    <3>3. q = p
      BY <2>1, <3>2, OneAtMost DEF Repairs
    <3> QED
      BY <2>1, <3>2, <3>3
  <2> QED
    BY <2>2, <2>3
<1>2. CASE Write(p)
  <2>1. file' = fresh[p] /\ spent' = spent /\ pc[p] = "write"
    BY <1>2 DEF Write
  <2> QED
    BY <1>0, <2>1 DEF Answers
<1>3. CASE ExchangeUnanswered(p)
  <2>1. /\ file' = file /\ has' = has /\ pc[p] = "exchange"
        /\ spent' = spent \cup {has[p].refresh} /\ lost' = lost \cup {has[p].refresh}
    BY <1>3 DEF ExchangeUnanswered
  <2>2. PICK q \in Process : Hand(q)
    BY <2>1 DEF RotationReachesFile
  <2>3. q # p
    BY <2>1, <2>2
  <2> QED
    BY <2>1, <2>2, <2>3 DEF Others, Same
<1>4. CASE UNCHANGED << files, service >>
  <2>1. lost \subseteq lost'
    BY LostStays DEF ExchangeUnanswered, WriteFails, Crash
  <2>2. PICK q \in Process : Hand(q)
    BY <1>4, <2>1 DEF RotationReachesFile
  <2>3. CASE q # p
    BY <1>4, <2>2, <2>3 DEF Others, Same
  <2>4. CASE q = p
    <3>1. ~WriteFails(p)
      BY <1>0, <1>4, <2>2, <2>4 DEF WriteFails, Called, Used
    <3>2. ~Crash(p)
      BY <1>4, <2>2, <2>4 DEF Crash
    <3>3. \/ Save(p) \/ Write(p)
          \/ pc'[p] = pc[p] /\ has'[p] = has[p]
      BY <1>0, <2>2, <2>4, <3>1, <3>2 DEF CallStep, Hand, CallShape, Start, BindToken,
            BindOrg, Profile, Usage, Retry, UsageFails, Redeem, Mkdir, OwnStat, Drop,
            SeeStale, RemoveStale, Timeout, Release, Unlink, Released, Heartbeat, Reread,
            Exchange, ExchangeUnanswered, ExchangeRefused, Save, Write, WriteFails, Crash,
            Stall, Resume
    <3>4. CASE Save(p)
      BY <1>0, <1>4, <2>2, <2>4, <3>4 DEF Save, CallShape
    <3>5. CASE Write(p)
      BY <1>2, <3>5
    <3>6. CASE pc'[p] = pc[p] /\ has'[p] = has[p]
      BY <1>4, <2>2, <2>4, <3>6
    <3> QED
      BY <3>3, <3>4, <3>5, <3>6
  <2> QED
    BY <2>3, <2>4
<1> QED
  BY <1>1, <1>2, <1>3, <1>4, ServiceStays

-----------------------------------------------------------------------------
(* The invariant.                                                          *)

LEMMA InitHolds == Init => Inv
<1> SUFFICES ASSUME Init
             PROVE  Inv
  OBVIOUS
<1> USE DEF Init
<1>1. /\ ArmedAccount \in Account /\ FirstOrg \in Account \cup {NoOne}
      /\ MaxExpiries \in Nat /\ MaxMishaps \in Nat
  BY AccountAssumption, LimitAssumption
<1>2. Shape
  <2>1. ServiceShape
    BY <1>1 DEF ServiceShape, Credentials
  <2>2. LockShape
    BY DEF LockShape
  <2>3. CallShape
    BY DEF CallShape, NoCredentials, Credentials, Labels
  <2>4. RestShape
    BY <1>1 DEF RestShape, Kinds, Limit
  <2> QED
    BY <2>1, <2>2, <2>3, <2>4 DEF Shape
<1>3. Known
  BY <1>1 DEF Known, NoCredentials
<1>4. ASSUME NEW p \in Process
      PROVE  Placed(p) /\ Called(p) /\ Held(p)
  <2>1. Paths[p] \in Seq(Path) /\ Len(Paths[p]) \in Nat
    BY PathsAssumption
  <2>2. Placed(p)
    BY <2>1 DEF Placed, Outside, Taking, Repairs
  <2> QED
    BY <2>2 DEF Called, Used, Outside, Held
<1>5. Locals /\ Locked
  BY <1>4 DEF Locals, Locked
<1>6. Sound /\ Looked /\ RotationReachesFile
  BY DEF Sound, Answers, Used, Looked, RotationReachesFile
<1> QED
  BY <1>2, <1>3, <1>5, <1>6 DEF Inv

LEMMA CallKeepsInv ==
  ASSUME Inv, NEW p \in Process, CallStep(p)
  PROVE  Inv'
<1> USE DEF Inv
<1>1. ServiceShape' /\ Grown
  BY ServiceHolds
<1>2. CallShape' /\ Others(p)
  BY CallsHold
<1>3. Shape'
  BY <1>1, <1>2, LocksHold, RestHolds DEF Shape
<1>4. Known'
  BY <1>1, <1>2, <1>3, KnownHolds
<1>5. Locals'
  <2> SUFFICES ASSUME NEW q \in Process
               PROVE  Placed(q)' /\ Called(q)'
    BY DEF Locals
  <2>1. CASE q = p
    BY <1>1, <2>1, PlacedHolds, CalledHolds
  <2>2. CASE q # p
    BY <1>1, <1>2, <2>2, StaysLocal DEF Others, Locals
  <2> QED
    BY <2>1, <2>2
<1>6. Locked' /\ Looked'
  BY <1>2, LockedHolds, LookedHolds
<1>7. raced' => Sound' /\ RotationReachesFile'
  BY DEF Sound, RotationReachesFile
<1>8. ~raced' => Sound' /\ RotationReachesFile'
  <2>1. ~raced' => ~raced
    BY LocksStay DEF Mkdir, Drop, RemoveStale, Unlink, Heartbeat, RemoveDir, history
  <2> QED
    BY <1>2, <2>1, AnswersHold, RotationHolds DEF Sound
<1> QED
  BY <1>3, <1>4, <1>5, <1>6, <1>7, <1>8

(* The service, the user and time.                                          *)
LEMMA WorldKeepsInv ==
  ASSUME Inv,
         \/ \E l \in Path : Age(l)
         \/ \E n \in DOMAIN issued : Expire(n)
         \/ \E a \in Account : Login(a)
         \/ LoginWritesToken \/ LoginWritesOrg
         \/ UNCHANGED vars
  PROVE  Inv'
<1> USE DEF Inv, files, service, locks, work, reset, history, vars
<1>0. /\ ServiceShape /\ LockShape /\ CallShape /\ RestShape
      /\ Len(issued) \in Nat /\ DOMAIN issued = 1 .. Len(issued)
  BY DEF Shape, ServiceShape
<1>1. UNCHANGED << readOnly, spent, dir, pc, has, fresh, token, own, left, org, readFrom, stalled,
                   raced, lost >>
  BY DEF Age, Expire, Login, LoginWritesToken, LoginWritesOrg
<1>2. CallShape'
  BY <1>0, <1>1 DEF CallShape
<1>3. LockShape'
  BY <1>0, <1>1 DEF LockShape, Age, Expire, Login, LoginWritesToken, LoginWritesOrg
<1>4. RestShape'
  <2>1. stalled' \in SUBSET Process /\ slipped' \in SUBSET Process /\ lost' \in SUBSET Nat
    BY <1>0, <1>1 DEF RestShape, Writing, Age, Expire, Login, LoginWritesToken,
                      LoginWritesOrg
  <2>2. CASE UNCHANGED count
    BY <1>0, <2>1, <2>2 DEF RestShape
  <2>3. CASE \E k \in Kinds : Use(k)
    BY <1>0, <2>1, <2>3, UseFacts DEF RestShape
  <2> QED
    BY <2>2, <2>3 DEF Kinds, Age, Expire, Login, LoginWritesToken, LoginWritesOrg
<1>5. CASE LoginWritesToken
  <2>0. login.account \in Account
    BY <1>0 DEF ServiceShape
  <2>1. /\ issued' \in Seq(Account) /\ Len(issued') = Len(issued) + 1
        /\ \A n \in 1 .. Len(issued) : issued'[n] = issued[n]
    <3>1. issued' = Append(issued, login.account) /\ issued \in Seq(Account)
      BY <1>0, <1>5 DEF LoginWritesToken, ServiceShape
    <3>2. /\ Append(issued, login.account) \in Seq(Account)
          /\ Len(Append(issued, login.account)) = Len(issued) + 1
          /\ \A n \in DOMAIN issued : Append(issued, login.account)[n] = issued[n]
      BY <2>0, <3>1, AppendFacts
    <3> QED
      BY <1>0, <3>1, <3>2
  <2>2. /\ file' = [access |-> Len(issued) + 1, refresh |-> Len(issued) + 1]
        /\ UNCHANGED << orgFile, rejected >>
    BY <1>5 DEF LoginWritesToken
  <2>3. login' \in [account : Account, left : SUBSET {"credentials", "account"}]
    BY <1>0, <1>5 DEF LoginWritesToken, ServiceShape
  <2>4. ServiceShape' /\ Grown
    BY <1>0, <1>1, <2>1, <2>2, <2>3 DEF ServiceShape, Grown, Credentials
  <2>5. Known'
    <3>1. ASSUME NEW p \in Process
          PROVE  /\ has[p].access <= Len(issued') /\ has[p].refresh <= Len(issued')
                 /\ fresh[p].access <= Len(issued') /\ fresh[p].refresh <= Len(issued')
                 /\ token[p] <= Len(issued')
      <4>1. /\ has[p].access \in Nat /\ has[p].refresh \in Nat /\ fresh[p].access \in Nat
            /\ fresh[p].refresh \in Nat /\ token[p] \in Nat
        BY <1>0 DEF CallShape, Credentials
      <4> QED
        BY <1>0, <2>1, <4>1 DEF Known
    <3>2. rejected \cup spent \cup lost \subseteq 1 .. Len(issued')
      BY <1>0, <2>1 DEF Known
    <3> QED
      BY <1>0, <1>1, <2>1, <2>2, <3>1, <3>2 DEF Known
  <2>6. Locals'
    <3> SUFFICES ASSUME NEW q \in Process
                 PROVE  Placed(q)' /\ Called(q)'
      BY DEF Locals
    <3> QED
      BY <1>1, <2>4, StaysLocal DEF Same, Locals
  <2>7. Locked'
    BY <1>1 DEF Locked, Held, Wanted
  <2>8. Looked'
    BY <1>1, <1>5 DEF Looked, LoginWritesToken, Writing
  <2>9. Sound'
    <3>1. ASSUME NEW q \in Process
          PROVE  has[q].refresh < file'.refresh
      BY <1>0, <2>2 DEF Known, CallShape, Credentials
    <3> QED
      BY <1>1, <3>1 DEF Sound, Answers
  <2>10. RotationReachesFile'
    BY <1>0, <1>1, <2>2 DEF RotationReachesFile, Known
  <2> QED
    BY <1>2, <1>3, <1>4, <2>4, <2>5, <2>6, <2>7, <2>8, <2>9, <2>10 DEF Shape
<1>6. CASE UNCHANGED << file, issued, slipped >>
  <2>1. rejected' \in SUBSET (1 .. Len(issued)) /\ rejected \subseteq rejected'
    BY <1>0 DEF Known, Age, Expire, Login, LoginWritesToken, LoginWritesOrg
  <2>2. orgFile' \in Account \cup {NoOne}
    BY <1>0 DEF ServiceShape, Age, Expire, Login, LoginWritesToken, LoginWritesOrg
  <2>3. login' \in [account : Account, left : SUBSET {"credentials", "account"}]
    BY <1>0 DEF ServiceShape, Age, Expire, Login, LoginWritesToken, LoginWritesOrg
  <2>4. ServiceShape' /\ Grown
    BY <1>0, <1>1, <1>6, <2>1, <2>2, <2>3 DEF ServiceShape, Grown
  <2>5. Known'
    BY <1>0, <1>1, <1>6, <2>1 DEF Known
  <2>6. Locals'
    <3> SUFFICES ASSUME NEW q \in Process
                 PROVE  Placed(q)' /\ Called(q)'
      BY DEF Locals
    <3> QED
      BY <1>1, <2>4, StaysLocal DEF Same, Locals
  <2>7. Locked'
    BY <1>1 DEF Locked, Held, Wanted
  <2>8. Looked' /\ Sound' /\ RotationReachesFile'
    BY <1>1, <1>6 DEF Looked, Sound, Answers, RotationReachesFile
  <2> QED
    BY <1>2, <1>3, <1>4, <2>4, <2>5, <2>6, <2>7, <2>8 DEF Shape
<1> QED
  BY <1>5, <1>6 DEF Age, Expire, Login, LoginWritesOrg

LEMMA StepHolds == Inv /\ [Next]_vars => Inv'
<1> SUFFICES ASSUME Inv, [Next]_vars
             PROVE  Inv'
  OBVIOUS
<1>1. \/ \E p \in Process : CallStep(p)
      \/ \E l \in Path : Age(l)
      \/ \E n \in DOMAIN issued : Expire(n)
      \/ \E a \in Account : Login(a)
      \/ LoginWritesToken \/ LoginWritesOrg
      \/ UNCHANGED vars
  BY DEF Next, Step, Begin, Fault, CallStep
<1> QED
  BY <1>1, CallKeepsInv, WorldKeepsInv

LEMMA InvHolds == Spec => []Inv
  BY InitHolds, StepHolds, PTL DEF Spec

-----------------------------------------------------------------------------
(* The theorems.                                                            *)

(* At most one call repairs at a time, and none sends a refresh token that   *)
(* was exchanged before and whose replacement is not lost, unless a running  *)
(* holder lost its directory (claude.go:173-190, 536-601).                   *)
THEOREM ExclusiveRepair == Spec => []RepairIsExclusive
<1>1. Inv => RepairIsExclusive
  <2> SUFFICES ASSUME Inv
               PROVE  RepairIsExclusive
    OBVIOUS
  <2> USE DEF Inv
  <2>0. /\ ServiceShape /\ LockShape /\ CallShape /\ RestShape /\ Len(issued) \in Nat
        /\ DOMAIN issued = 1 .. Len(issued)
    BY DEF Shape, ServiceShape
  <2>1. TypeOK
    <3>1. {file.access, file.refresh} \subseteq 0 .. Len(issued) /\ file.access # 0
      BY <2>0 DEF ServiceShape, Credentials, Known
    <3>2. rejected \cup spent \cup lost \subseteq DOMAIN issued
      BY <2>0 DEF Known
    <3>3. ASSUME NEW p \in Process
          PROVE  /\ {has[p].access, has[p].refresh, fresh[p].access, fresh[p].refresh, token[p]}
                      \subseteq 0 .. Len(issued)
                 /\ Len(own[p]) <= Len(Paths[p]) /\ Range(own[p]) \subseteq Process
                 /\ readFrom[p] \subseteq Account
      <4>1. /\ has[p].access \in Nat /\ has[p].refresh \in Nat /\ fresh[p].access \in Nat
            /\ fresh[p].refresh \in Nat /\ token[p] \in Nat
        BY <2>0 DEF CallShape, Credentials
      <4>2. {has[p].access, has[p].refresh, fresh[p].access, fresh[p].refresh, token[p]}
              \subseteq 0 .. Len(issued)
        BY <2>0, <4>1 DEF Known
      <4>3. own[p] \in Seq(Process) /\ readFrom[p] \subseteq Account
        BY <2>0 DEF CallShape
      <4>4. Len(own[p]) <= Len(Paths[p])
        BY DEF Locals, Placed
      <4>5. Range(own[p]) \subseteq Process
        BY <4>3 DEF Range
      <4> QED
        BY <4>2, <4>3, <4>4, <4>5
    <3>4. \A k \in DOMAIN Limit : count[k] \in 0 .. Limit[k]
      <4>1. DOMAIN Limit = Kinds /\ \A k \in Kinds : Limit[k] \in Nat
        BY LimitAssumption DEF Limit, Kinds
      <4> QED
        BY <2>0, <4>1 DEF RestShape
    <3>5. /\ orgFile \in Account \cup {NoOne}
          /\ login \in [account : Account, left : SUBSET {"credentials", "account"}]
          /\ readOnly \in BOOLEAN /\ raced \in BOOLEAN /\ issued \in Seq(Account)
          /\ dir \in [Path -> Process \cup {NoOne}] /\ stale \subseteq Path
          /\ pc \in [Process -> Labels] /\ left \in [Process -> 0 .. 3]
          /\ org \in [Process -> Account \cup {NoOne}] /\ stalled \cup slipped \subseteq Process
      BY <2>0 DEF ServiceShape, LockShape, CallShape, RestShape
    <3> QED
      BY <3>1, <3>2, <3>3, <3>4, <3>5 DEF TypeOK
  <2>2. OneRepairs
    <3> SUFFICES ASSUME ~raced
                 PROVE  Cardinality(Repairing) <= 1
      BY DEF OneRepairs
    <3>1. \A p, q \in Repairing : p = q
      BY OneAtMost DEF Repairing, Repairs
    <3>2. CASE Repairing = {}
      BY <3>2, FS_EmptySet
    <3>3. CASE Repairing # {}
      <4>1. PICK p \in Repairing : TRUE
        BY <3>3
      <4>2. Repairing = {p}
        BY <3>1, <4>1
      <4> QED
        BY <4>2, FS_Singleton
    <3> QED
      BY <3>2, <3>3
  <2>3. ExchangedOnce
    BY DEF ExchangedOnce, Sound, Answers
  <2> QED
    BY <2>1, <2>2, <2>3 DEF RepairIsExclusive
<1> QED
  BY <1>1, InvHolds, PTL

(* A rotated refresh token reaches the file, unless it was lost by an        *)
(* accident after the exchange (claude.go:190-199).                          *)
THEOREM RotationIsSaved == Spec => []RotationReachesFile
<1>1. Inv => RotationReachesFile
  BY DEF Inv
<1> QED
  BY <1>1, InvHolds, PTL

(* A save replaces only the credentials that it exchanged, up to a login     *)
(* between its last look and the rename (claude.go:452-475).                 *)
THEOREM LoginsWin == Spec => LoginWins
<1>1. Inv /\ [Next]_vars =>
        [\A p \in Process : pc[p] = "write" /\ file' # file /\ file' = fresh[p] /\ p \notin slipped
                              => file = has[p]]_vars
  BY DEF Inv, Looked
<1> QED
  BY <1>1, InvHolds, PTL DEF Spec, LoginWins

(* What a reset redeems belongs to the account it read and was armed for     *)
(* (claude.go:134-156).                                                      *)
THEOREM RedeemsTheRead == Spec => []RedeemsWhatItRead
<1>1. Inv => RedeemsWhatItRead
  <2> SUFFICES ASSUME Inv, NEW p \in Process, pc[p] = "redeem", Accepted(p)
               PROVE  readFrom[p] = {ArmedAccount} /\ org[p] = ArmedAccount
    BY DEF RedeemsWhatItRead
  <2>1. Called(p)
    BY DEF Inv, Locals
  <2>2. p \in Bound /\ left[p] = 0 /\ org[p] = ArmedAccount /\ readFrom[p] # {}
    BY <2>1 DEF Called
  <2>3. readFrom[p] \subseteq {ArmedAccount}
    BY <2>1, <2>2 DEF Called, Accepted
  <2> QED
    BY <2>2, <2>3
<1> QED
  BY <1>1, InvHolds, PTL

=============================================================================

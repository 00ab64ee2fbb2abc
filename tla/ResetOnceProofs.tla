-------------------------- MODULE ResetOnceProofs --------------------------
(* Proofs about ResetOnce for every number of daemons, workers, accounts and *)
(* credits and every value of the bounds. *)
EXTENDS ResetOnce, TLAPS

LEMMA Constants ==
    /\ Home \in [Worker -> Daemon] /\ NoOne \notin Worker /\ NoAccount \notin Account
    /\ Credit \subseteq Nat \ {NoCredit} /\ Owner \in [Credit -> Account]
    /\ ExpiresAt \in [Credit -> Nat]
BY WorkerAssumption, AccountAssumption, CreditAssumption

LEMMA TypeInit == Init => TypeOK
BY Constants DEF Init, TypeOK, Toggle, Off, Status, Place

LEMMA ToggleTypes ==
    /\ Off \in Toggle
    /\ \A s \in Toggle, status \in Status : [s EXCEPT !.status = status] \in Toggle
    /\ \A s \in Toggle : Consumed(s) \in Toggle
    /\ \A s \in Toggle, c \in Credit \cup {NoCredit}, r \in Nat :
          [s EXCEPT !.status = "unknown", !.credit = c, !.request = r] \in Toggle
    /\ \A s \in Toggle : s.arming \in Nat /\ s.request \in Nat /\ s.status \in Status
                          /\ s.account \in Account \cup {NoAccount}
                          /\ s.credit \in Credit \cup {NoCredit}
BY Constants DEF Toggle, Off, Status, Consumed

(* The part of TypeOK about the worker's locks and locals. *)
LocalsTypeOK ==
    /\ mu \in [Daemon -> Worker \cup {NoOne}] /\ flock \in Worker \cup {NoOne}
    /\ pc \in [Worker -> Place]
    /\ mem \in [Worker -> Toggle]
    /\ acct \in [Worker -> Account \cup {NoAccount}]
    /\ pick \in [Worker -> Credit \cup {NoCredit}]
    /\ mode \in [Worker -> {"auto", "manual"}]
    /\ reply \in [Worker -> {"none", "ok", "refused"}]

LEMMA ReturnType ==
    ASSUME TypeOK, NEW w \in Worker, Return(w)
    PROVE  LocalsTypeOK'
BY Constants, ToggleTypes DEF TypeOK, LocalsTypeOK, Return, Unlock, Place

LEMMA ClaimedType == TypeOK => \A w \in Worker : Claimed(w) \in Toggle
<1> SUFFICES ASSUME TypeOK, NEW w \in Worker PROVE Claimed(w) \in Toggle
  OBVIOUS
<1>1. mem[w] \in Toggle /\ pick[w] \in Credit \cup {NoCredit} /\ claims + 1 \in Nat
  BY DEF TypeOK
<1>2. QED
  BY <1>1, ToggleTypes DEF Claimed

LEMMA SaveType ==
    ASSUME TypeOK, NEW s \in Toggle, SaveOk(s) \/ SaveFails(s)
    PROVE  disk' \in Toggle /\ survivors' \subseteq Toggle
BY DEF TypeOK, SaveOk, SaveFails, SaveUnsynced, fileVars

(* A worker about to POST holds a credit and is bound to an account. *)
PostInHand ==
    \A w \in Worker : pc[w] = "post" => pick[w] \in Credit /\ acct[w] \in Account

LEMMA TypeStep == TypeOK /\ PostInHand /\ [Next]_vars => TypeOK'
<1> SUFFICES ASSUME TypeOK, PostInHand, [Next]_vars PROVE TypeOK'
  OBVIOUS
<1> USE Constants DEF TypeOK
<1> USE DEF fileVars, lockVars, taskVars, serviceVars, envVars, historyVars
<1>1. ASSUME NEW w \in Worker, RefreshStep(w) PROVE TypeOK'
  <2>1. CASE StartRefresh(w)
    BY <2>1 DEF StartRefresh, Lock, Goto, Place
  <2>2. CASE ReadInactive(w)
    BY <2>2 DEF ReadInactive, Goto, Place
  <2>3. CASE ReadUnknown(w)
    BY <2>3 DEF ReadUnknown, Goto, Place, Binds
  <2>4. CASE ReadArmed(w)
    BY <2>4 DEF ReadArmed, Goto, Place, Binds
  <2>5. CASE PlainFetch(w)
    BY <2>5, ReturnType DEF PlainFetch, Record, LocalsTypeOK
  <2>6. CASE CheckGoesOn(w)
    BY <2>6 DEF CheckGoesOn, Record, Goto, Place
  <2>7. CASE CheckStops(w)
    BY <2>7, ReturnType DEF CheckStops, Record, LocalsTypeOK
  <2>8. CASE ListPicks(w)
    BY <2>8 DEF ListPicks, Goto, Place
  <2>9. CASE ListEmpty(w)
    BY <2>9 DEF ListEmpty, Goto, Place
  <2>10. CASE GiveUp(w)
    BY <2>10, ReturnType DEF GiveUp, Record, LocalsTypeOK
  <2>11. CASE Rebind(w)
    BY <2>11 DEF Rebind, Goto, Place
  <2>12. CASE Disarm(w)
    <3> DEFINE s == [mem[w] EXCEPT !.status = "failed"]
    <3>1. s \in Toggle
      BY ToggleTypes DEF Status
    <3>2. (SaveOk(s) \/ SaveFails(s)) /\ Return(w)
      BY <2>12 DEF Disarm
    <3> HIDE DEF s
    <3>3. LocalsTypeOK' /\ disk' \in Toggle /\ survivors' \subseteq Toggle
      BY <3>1, <3>2, ReturnType, SaveType
    <3>4. QED
      BY <2>12, <3>3 DEF Disarm, LocalsTypeOK
  <2>13. CASE ReconcileCheck(w)
    <3>1. CASE exhausted[acct[w]]
      BY <2>13, <3>1, ReturnType DEF ReconcileCheck, Record, LocalsTypeOK
    <3>2. CASE ~exhausted[acct[w]]
      BY <2>13, <3>2 DEF ReconcileCheck, Record, Goto, Place
    <3>3. QED
      BY <3>1, <3>2
  <2>14. CASE ReconcileList(w)
    BY <2>14 DEF ReconcileList, Goto, Place
  <2>15. CASE Settle(w)
    <3>1. Consumed(mem[w]) \in Toggle
      BY ToggleTypes
    <3>2. LocalsTypeOK' /\ disk' \in Toggle /\ survivors' \subseteq Toggle
      BY <2>15, <3>1, ReturnType, SaveType DEF Settle
    <3>3. QED
      BY <2>15, <3>2 DEF Settle, LocalsTypeOK
  <2>16. QED
    BY <1>1, <2>1, <2>2, <2>3, <2>4, <2>5, <2>6, <2>7, <2>8, <2>9, <2>10, <2>11, <2>12, <2>13, <2>14, <2>15 DEF RefreshStep
<1>2. ASSUME NEW w \in Worker, RedeemStep(w) PROVE TypeOK'
  <2>1. CASE ClaimOk(w)
    <3>1. Claimed(w) \in Toggle
      BY ClaimedType
    <3>2. disk' \in Toggle /\ survivors' \subseteq Toggle
      BY <2>1, <3>1, SaveType DEF ClaimOk
    <3>3. QED
      BY <2>1, <3>1, <3>2 DEF ClaimOk, Goto, Place
  <2>2. CASE ClaimFails(w)
    <3>1. Claimed(w) \in Toggle
      BY ClaimedType
    <3>2. LocalsTypeOK' /\ disk' \in Toggle /\ survivors' \subseteq Toggle
      BY <2>2, <3>1, ReturnType DEF ClaimFails, SaveUnsynced
    <3>3. QED
      BY <2>2, <3>2 DEF ClaimFails, LocalsTypeOK
  <2>3. CASE SendPost(w)
    <3>1. pick[w] \in Credit /\ acct[w] \in Account
      BY <2>3 DEF SendPost, PostInHand
    <3> DEFINE p == [request |-> mem[w].request, credit |-> pick[w], account |-> acct[w],
                     arming |-> mem[w].arming, armedAccount |-> mem[w].account, mode |-> mode[w]]
    <3>2. p \in Post
      <4>1. mem[w] \in Toggle /\ mode[w] \in {"auto", "manual"}
        OBVIOUS
      <4>2. QED
        BY <3>1, <4>1, ToggleTypes DEF Post
    <3>3. posts' = posts \cup {p} /\ net' = net \cup {p}
      BY <2>3 DEF SendPost
    <3> HIDE DEF p
    <3>4. QED
      BY <2>3, <3>2, <3>3 DEF SendPost, Goto, Place
  <2>4. CASE PostErrs(w)
    <3>1. mem[w].request \in Nat
      BY ToggleTypes
    <3>2. QED
      BY <2>4, <3>1, ReturnType DEF PostErrs, LocalsTypeOK
  <2>5. CASE PostConfirmed(w)
    BY <2>5 DEF PostConfirmed, Goto, Place
  <2>6. CASE CommitOk(w)
    <3>1. disk' \in Toggle /\ survivors' \subseteq Toggle
      BY <2>6, ToggleTypes, SaveType DEF CommitOk
    <3>2. QED
      BY <2>6, <3>1 DEF CommitOk, Goto, Place
  <2>7. CASE CommitFails(w)
    <3>1. Consumed(mem[w]) \in Toggle
      BY ToggleTypes
    <3>2. LocalsTypeOK' /\ disk' \in Toggle /\ survivors' \subseteq Toggle
      BY <2>7, <3>1, ReturnType, SaveType DEF CommitFails
    <3>3. QED
      BY <2>7, <3>2 DEF CommitFails, LocalsTypeOK
  <2>8. QED
    BY <1>2, <2>1, <2>2, <2>3, <2>4, <2>5, <2>6, <2>7 DEF RedeemStep
<1>3. ASSUME NEW w \in Worker, ControlStep(w) PROVE TypeOK'
  <2>1. CASE StartUseNow(w)
    BY <2>1 DEF StartUseNow, Lock, Goto, Place
  <2>2. CASE StartArm(w)
    BY <2>2 DEF StartArm, Lock, Goto, Place
  <2>3. CASE Arm(w)
    <3> DEFINE s == [status |-> "armed", account |-> acct[w], credit |-> NoCredit,
                     request |-> 0, arming |-> arms + 1]
    <3>1. s \in Toggle
      BY DEF Toggle, Status
    <3>2. (SaveOk(s) \/ SaveFails(s)) /\ Return(w)
      BY <2>3 DEF Arm
    <3> HIDE DEF s
    <3>3. LocalsTypeOK' /\ disk' \in Toggle /\ survivors' \subseteq Toggle
      BY <3>1, <3>2, ReturnType, SaveType
    <3>4. QED
      BY <2>3, <3>3 DEF Arm, LocalsTypeOK
  <2>4. CASE Cancel(w)
    <3> DEFINE s == [mem[w] EXCEPT !.status = "cancelled"]
    <3>1. s \in Toggle /\ s.arming \in Nat
      BY ToggleTypes DEF Status
    <3>2. (SaveOk(s) \/ SaveFails(s)) /\ Return(w) /\ (revoked' = revoked \/ revoked' = revoked \cup {s.arming})
      BY <2>4 DEF Cancel
    <3> HIDE DEF s
    <3>3. LocalsTypeOK' /\ disk' \in Toggle /\ survivors' \subseteq Toggle
      BY <3>1, <3>2, ReturnType, SaveType
    <3>4. QED
      BY <2>4, <3>1, <3>2, <3>3 DEF Cancel, LocalsTypeOK
  <2>5. ASSUME NEW acknowledged \in BOOLEAN, StartCancel(w, acknowledged) PROVE TypeOK'
    BY <2>5 DEF StartCancel, Lock, Goto, Place
  <2>6. ASSUME NEW c \in Credit, StartManual(w, c) PROVE TypeOK'
    <3>1. [disk EXCEPT !.account = cred] \in Toggle
      BY DEF Toggle
    <3>2. QED
      BY <2>6, <3>1 DEF StartManual, Lock, Goto, Place
  <2>7. QED
    BY <1>3, <2>1, <2>2, <2>3, <2>4, <2>5, <2>6 DEF ControlStep
<1>4. ASSUME NEW p \in net, ServiceRedeems(p) \/ ServiceAlreadyRedeemed(p) \/ ServiceRefuses(p) \/ PostLost(p)
      PROVE  TypeOK'
  <2>1. p \in Post
    OBVIOUS
  <2>2. QED
    BY <1>4, <2>1 DEF ServiceRedeems, ServiceAlreadyRedeemed, ServiceRefuses, PostLost, Answer, Post
<1>5. ASSUME NEW dead \in SUBSET Worker, KillWorkers(dead) PROVE LocalsTypeOK'
  BY <1>5, ToggleTypes DEF KillWorkers, LocalsTypeOK, Place
<1>6. ASSUME NEW d \in Daemon, Crash(d) PROVE TypeOK'
  BY <1>5, <1>6 DEF Crash, LocalsTypeOK
<1>7. CASE PowerLoss
  BY <1>5, <1>7 DEF PowerLoss, LocalsTypeOK
<1>8. ASSUME NEW d \in Daemon, BecomesDue(d) PROVE TypeOK'
  BY <1>8 DEF BecomesDue
<1>9. CASE Tick
  BY <1>9 DEF Tick
<1>10. ASSUME NEW a \in Account \cup {NoAccount}, SwitchAccount(a) PROVE TypeOK'
  BY <1>10 DEF SwitchAccount, Event
<1>11. ASSUME NEW a \in Account, WindowChanges(a) PROVE TypeOK'
  BY <1>11 DEF WindowChanges, Event
<1>12. ASSUME NEW c \in Credit, SpentElsewhere(c) PROVE TypeOK'
  BY <1>12 DEF SpentElsewhere, Event
<1>13. CASE UNCHANGED vars
  BY <1>13 DEF vars
<1>14. QED
  BY <1>1, <1>2, <1>3, <1>4, <1>6, <1>7, <1>8, <1>9, <1>10, <1>11, <1>12, <1>13
     DEF Next, ServiceStep, EnvStep

-----------------------------------------------------------------------------
(* The invariants over the file and the history, which a step disturbs only if *)
(* it saves the toggle, sends a POST or reports a cancellation. *)
SharedInv == FileInv /\ AuthorityInv /\ SpendAtMostOnce /\ PostsStayOnArmedAccount

sharedVars == <<fileVars, arms, claims, posts, revoked>>

LEMMA SharedKept == SharedInv /\ UNCHANGED sharedVars => SharedInv'
BY DEF SharedInv, sharedVars, fileVars, FileInv, Valid, AuthorityInv, SpendAtMostOnce,
       PostsStayOnArmedAccount

AllIdle == \A w \in Worker : pc[w] = "idle"

LEMMA OthersAreIdle ==
    ASSUME TypeOK, LockInv, NEW w \in Worker, pc[w] # "idle"
    PROVE  \A v \in Worker : v # w => pc[v] = "idle"
BY DEF LockInv

LEMMA FreeMeansIdle == TypeOK /\ LockInv /\ flock = NoOne => AllIdle
BY Constants DEF LockInv, AllIdle

(* When a worker returns, nobody is inside an operation. *)
LEMMA ReturnIdles ==
    ASSUME TypeOK, LockInv, NEW w \in Worker, pc[w] # "idle", Return(w)
    PROVE  AllIdle'
BY OthersAreIdle DEF AllIdle, Return, TypeOK

LEMMA IdleInv == AllIdle' => LockInv' /\ TaskInv'
BY DEF AllIdle, LockInv, TaskInv

(* Nothing the invariants of a worker speak about changes. *)
LEMMA TaskKept ==
    LockInv /\ TaskInv /\ UNCHANGED <<lockVars, pc, mem, acct, pick, mode, fileVars, posts, revoked>>
       => LockInv' /\ TaskInv'
BY DEF LockInv, TaskInv, lockVars, fileVars

(* A save of a record that is valid and not armed, by an operation that ends. *)
LEMMA SaveEnds ==
    ASSUME TypeOK, LockInv, SharedInv, NEW w \in Worker, pc[w] # "idle", Return(w),
           NEW s, SaveOk(s) \/ SaveFails(s),
           Valid(s), s.status # "armed", s.arming <= arms, s.request <= claims,
           UNCHANGED <<arms, claims, posts>>,
           revoked' \in {revoked, revoked \cup {s.arming}},
           revoked' # revoked => SaveOk(s)
    PROVE  LockInv' /\ TaskInv' /\ SharedInv'
<1>1. LockInv' /\ TaskInv'
  BY ReturnIdles, IdleInv
<1>2. FileInv'
  BY DEF SharedInv, FileInv, SaveOk, SaveFails, SaveUnsynced, fileVars, Valid
<1>3. AuthorityInv'
  <2>1. CASE revoked' = revoked
    BY <2>1 DEF SharedInv, AuthorityInv, SaveOk, SaveFails, SaveUnsynced, fileVars
  <2>2. CASE revoked' = revoked \cup {s.arming} /\ SaveOk(s)
    BY <2>2 DEF SharedInv, AuthorityInv, SaveOk
  <2>3. QED
    BY <2>1, <2>2
<1>4. SpendAtMostOnce' /\ PostsStayOnArmedAccount'
  BY DEF SharedInv, SpendAtMostOnce, PostsStayOnArmedAccount
<1>5. QED
  BY <1>1, <1>2, <1>3, <1>4 DEF SharedInv

(* The step lemma. *)
LEMMA InvStep ==
    ASSUME TypeOK, LockInv, TaskInv, SharedInv, [Next]_vars
    PROVE  LockInv' /\ TaskInv' /\ SharedInv'
<1> USE DEF fileVars, lockVars, taskVars, serviceVars, envVars, historyVars
<1>1. ASSUME NEW w \in Worker, pc[w] = "idle", Lock(w),
             UNCHANGED <<fileVars, historyVars>>,
             \E place \in {"read", "arm", "cancel", "claim"} : Goto(w, place),
             pc'[w] = "arm" => acct'[w] \in Account /\ disk.status \notin {"unknown", "armed"},
             pc'[w] = "cancel" => mem'[w] = disk,
             pc'[w] = "claim" =>
                /\ pick'[w] \in Credit /\ acct'[w] \in Account /\ mem'[w].account = acct'[w]
                /\ mode'[w] = "manual" /\ disk.status # "unknown" /\ mem'[w].arming = disk.arming
      PROVE  LockInv' /\ TaskInv' /\ SharedInv'
  <2>1. \A v \in Worker : v # w => pc'[v] = "idle"
    BY <1>1, FreeMeansIdle DEF Lock, AllIdle, Goto, TypeOK
  <2>2. pc'[w] \in {"read", "arm", "cancel", "claim"}
    BY <1>1 DEF Goto, TypeOK
  <2>3. flock' = w /\ mu'[Home[w]] = w
    BY <1>1, Constants DEF Lock, TypeOK
  <2>4. LockInv'
    BY <2>1, <2>3 DEF LockInv
  <2>5. TaskInv'
    BY <1>1, <2>1, <2>2 DEF TaskInv
  <2>6. QED
    BY <1>1, <2>4, <2>5, SharedKept DEF sharedVars
<1>2. ASSUME NEW w \in Worker, pc[w] # "idle", Return(w), UNCHANGED sharedVars
      PROVE  LockInv' /\ TaskInv' /\ SharedInv'
  BY <1>2, ReturnIdles, IdleInv, SharedKept
<1>3. ASSUME NEW w \in Worker, pc[w] # "idle", UNCHANGED <<lockVars, mode, sharedVars>>,
             NEW place \in Place \ {"idle", "claim", "post", "wait", "commit", "arm"}, Goto(w, place),
             place \in {"check1", "list", "check2", "rebind", "disarm"} =>
                mem'[w] = disk /\ disk.status = "armed",
             place \in {"check1", "list", "check2", "rebind"} => acct'[w] = mem'[w].account,
             place \in {"check2", "rebind"} => pick'[w] \in Credit /\ Owner[pick'[w]] = acct'[w],
             place \in {"rcheck", "rlist", "settle"} => mem'[w] = disk /\ disk.status = "unknown",
             place \in {"rcheck", "rlist"} => acct'[w] \in Account,
             place = "cancel" => mem'[w] = disk
      PROVE  LockInv' /\ TaskInv' /\ SharedInv'
  <2>1. pc'[w] = place /\ \A v \in Worker : v # w => pc'[v] = "idle"
    BY <1>3, OthersAreIdle DEF Goto, TypeOK
  <2>2. LockInv'
    BY <1>3, <2>1 DEF LockInv
  <2>3. TaskInv'
    BY <1>3, <2>1 DEF TaskInv, sharedVars
  <2>4. QED
    BY <1>3, <2>2, <2>3, SharedKept DEF sharedVars
<1>4. ASSUME NEW w \in Worker, RefreshStep(w) PROVE LockInv' /\ TaskInv' /\ SharedInv'
  <2>1. CASE StartRefresh(w)
    BY <1>1, <2>1 DEF StartRefresh, Goto, TypeOK
  <2>2. CASE ReadInactive(w)
    BY <1>3, <2>2 DEF ReadInactive, Goto, Place, sharedVars
  <2>3. CASE ReadUnknown(w)
    <3>1. CASE Binds(disk.account)
      <4>1. cred \in Account
        BY <3>1 DEF Binds, TypeOK
      <4>2. QED
        BY <1>3, <2>3, <3>1, <4>1 DEF ReadUnknown, Goto, Place, sharedVars, TypeOK
    <3>2. CASE ~Binds(disk.account)
      BY <1>3, <2>3, <3>2 DEF ReadUnknown, Goto, Place, sharedVars
    <3>3. QED
      BY <3>1, <3>2
  <2>4. CASE ReadArmed(w)
    <3>1. CASE Binds(disk.account)
      <4>1. cred = disk.account
        BY <2>4, <3>1 DEF Binds, SharedInv, FileInv, Valid, ReadArmed
      <4>2. QED
        BY <1>3, <2>4, <3>1, <4>1 DEF ReadArmed, Goto, Place, sharedVars, TypeOK
    <3>2. CASE ~Binds(disk.account)
      BY <1>3, <2>4, <3>2 DEF ReadArmed, Goto, Place, sharedVars, TypeOK
    <3>3. QED
      BY <3>1, <3>2
  <2>5. CASE PlainFetch(w)
    BY <1>2, <2>5 DEF PlainFetch, sharedVars
  <2>6. CASE CheckGoesOn(w)
    BY <1>3, <2>6 DEF CheckGoesOn, Goto, Place, sharedVars, TaskInv
  <2>7. CASE CheckStops(w)
    BY <1>2, <2>7 DEF CheckStops, sharedVars
  <2>8. CASE ListPicks(w)
    BY <1>3, <2>8 DEF ListPicks, IsEarliest, Eligible, Goto, Place, sharedVars, TaskInv, TypeOK
  <2>9. CASE ListEmpty(w)
    BY <1>3, <2>9 DEF ListEmpty, Goto, Place, sharedVars, TaskInv
  <2>10. CASE GiveUp(w)
    BY <1>2, <2>10 DEF GiveUp, sharedVars
  <2>11. CASE Rebind(w)
    <3>1. CASE Binds(mem[w].account) /\ now < ExpiresAt[pick[w]]
      <4>1. pc'[w] = "claim" /\ \A v \in Worker : v # w => pc'[v] = "idle"
        BY <2>11, <3>1, OthersAreIdle DEF Rebind, Goto, TypeOK
      <4>2. mem[w] = disk /\ disk.status = "armed" /\ acct[w] = mem[w].account
            /\ pick[w] \in Credit /\ Owner[pick[w]] = acct[w]
        BY <2>11 DEF Rebind, TaskInv
      <4>3. acct[w] \in Account
        BY <4>2, Constants
      <4>4. LockInv' /\ TaskInv'
        BY <2>11, <4>1, <4>2, <4>3 DEF Rebind, LockInv, TaskInv
      <4>5. QED
        BY <2>11, <4>4, SharedKept DEF Rebind, sharedVars
    <3>2. CASE ~(Binds(mem[w].account) /\ now < ExpiresAt[pick[w]])
      BY <1>3, <2>11, <3>2 DEF Rebind, Goto, Place, sharedVars, TaskInv
    <3>3. QED
      BY <3>1, <3>2
  <2>12. CASE Disarm(w)
    <3> DEFINE s == [mem[w] EXCEPT !.status = "failed"]
    <3>1. mem[w] = disk /\ disk \in survivors /\ disk \in Toggle
      BY <2>12 DEF Disarm, TaskInv, SharedInv, FileInv, TypeOK
    <3>2. s.status = "failed" /\ s.arming = disk.arming /\ s.request = disk.request
      BY <3>1 DEF Toggle
    <3>3. Valid(s) /\ s.arming <= arms /\ s.request <= claims
      BY <3>1, <3>2 DEF Valid, SharedInv, FileInv
    <3>4. SaveOk(s) \/ SaveFails(s)
      BY <2>12 DEF Disarm
    <3>5. pc[w] # "idle" /\ Return(w) /\ UNCHANGED <<arms, claims, posts, revoked>>
      BY <2>12 DEF Disarm
    <3> HIDE DEF s
    <3>6. QED
      BY <3>2, <3>3, <3>4, <3>5, SaveEnds
  <2>13. CASE ReconcileCheck(w)
    <3>1. CASE exhausted[acct[w]]
      BY <1>2, <2>13, <3>1 DEF ReconcileCheck, sharedVars
    <3>2. CASE ~exhausted[acct[w]]
      BY <1>3, <2>13, <3>2 DEF ReconcileCheck, Goto, Place, sharedVars, TaskInv
    <3>3. QED
      BY <3>1, <3>2
  <2>14. CASE ReconcileList(w)
    BY <1>3, <2>14 DEF ReconcileList, Goto, Place, sharedVars, TaskInv
  <2>15. CASE Settle(w)
    <3>1. mem[w] = disk /\ disk.status = "unknown" /\ disk \in survivors /\ disk \in Toggle
      BY <2>15 DEF Settle, TaskInv, SharedInv, FileInv, TypeOK
    <3>2. QED
      BY <2>15, <3>1, SaveEnds DEF Settle, Consumed, Toggle, Valid, SharedInv, FileInv
  <2>16. QED
    BY <1>4, <2>1, <2>2, <2>3, <2>4, <2>5, <2>6, <2>7, <2>8, <2>9, <2>10, <2>11,
       <2>12, <2>13, <2>14, <2>15 DEF RefreshStep
<1>5. ASSUME NEW w \in Worker, RedeemStep(w) PROVE LockInv' /\ TaskInv' /\ SharedInv'
  <2> DEFINE s == Claimed(w)
  <2>1. ASSUME pc[w] = "claim"
        PROVE  /\ s \in Toggle /\ s.status = "unknown" /\ s.credit = pick[w]
               /\ s.request = claims + 1 /\ s.arming = mem[w].arming /\ s.account = mem[w].account
               /\ Valid(s) /\ s.arming <= arms
               /\ pick[w] \in Credit /\ acct[w] \in Account /\ s.account = acct[w]
               /\ mode[w] = "auto" => Owner[pick[w]] = acct[w]
               /\ mode[w] = "auto" => disk.status = "armed" /\ disk.arming = s.arming
    <3>1. /\ pick[w] \in Credit /\ acct[w] \in Account /\ mem[w].account = acct[w]
          /\ mode[w] = "auto" => Owner[pick[w]] = acct[w]
          /\ mem[w].arming = disk.arming
          /\ mode[w] = "auto" => disk.status = "armed"
      BY <2>1 DEF TaskInv
    <3>2. mem[w] \in Toggle /\ disk \in survivors /\ claims \in Nat
      BY DEF TypeOK, SharedInv, FileInv
    <3>3. /\ s \in Toggle /\ s.status = "unknown" /\ s.credit = pick[w]
          /\ s.request = claims + 1 /\ s.arming = mem[w].arming /\ s.account = mem[w].account
      BY <3>2, ClaimedType DEF Claimed, Toggle
    <3>4. Valid(s)
      <4>1. s.account # NoAccount /\ s.credit # NoCredit
        BY <3>1, <3>3, Constants
      <4>2. s.request > 0
        BY <3>2, <3>3
      <4>3. QED
        BY <3>3, <4>1, <4>2 DEF Valid
    <3>5. disk.arming <= arms
      BY <3>2 DEF SharedInv, FileInv
    <3>6. QED
      BY <3>1, <3>3, <3>4, <3>5
  <2> HIDE DEF s
  <2>2. CASE ClaimOk(w)
    <3>1. /\ pc[w] = "claim" /\ disk' = s /\ survivors' = {s} /\ mem' = [mem EXCEPT ![w] = s]
          /\ claims' = claims + 1 /\ UNCHANGED <<arms, posts, revoked, acct, pick, mode, mu, flock>>
          /\ Goto(w, "post")
      BY <2>2 DEF ClaimOk, SaveOk, s
    <3>2. pc'[w] = "post" /\ \A v \in Worker : v # w => pc'[v] = "idle"
      BY <3>1, OthersAreIdle DEF Goto, TypeOK
    <3>3. LockInv'
      BY <3>1, <3>2 DEF LockInv
    <3>4. claims \in Nat /\ mem'[w] = s /\ \A p \in posts : p.request <= claims /\ p.request \in Nat
      BY <3>1 DEF TypeOK, SharedInv, AuthorityInv, Post
    <3>5. mode[w] = "auto" =>
             s.arming > 0 /\ s.arming \notin revoked /\ \A p \in posts : p.arming # s.arming
      BY <2>1, <3>1 DEF SharedInv, AuthorityInv, FileInv, Valid
    <3>6. TaskInv'
      BY <2>1, <3>1, <3>2, <3>4, <3>5 DEF TaskInv
    <3>7. FileInv'
      BY <2>1, <3>1, <3>4 DEF FileInv, Valid
    <3>8. AuthorityInv'
      BY <2>1, <3>1, <3>4 DEF SharedInv, AuthorityInv
    <3>9. SpendAtMostOnce' /\ PostsStayOnArmedAccount'
      BY <3>1 DEF SharedInv, SpendAtMostOnce, PostsStayOnArmedAccount
    <3>10. QED
      BY <3>3, <3>6, <3>7, <3>8, <3>9 DEF SharedInv
  <2>3. CASE ClaimFails(w)
    <3>1. pc[w] = "claim" /\ Return(w) /\ UNCHANGED <<arms, posts, revoked>>
      BY <2>3 DEF ClaimFails
    <3>2. CASE UNCHANGED <<fileVars, claims>>
      BY <1>2, <3>1, <3>2 DEF sharedVars
    <3>3. CASE SaveUnsynced(s) /\ claims' = claims + 1
      <4>1. LockInv' /\ TaskInv'
        BY <3>1, ReturnIdles, IdleInv
      <4>2. claims \in Nat /\ (\A t \in survivors : t.request \in Nat) /\ (\A p \in posts : p.request \in Nat)
        BY ToggleTypes DEF TypeOK, Post
      <4>3. FileInv'
        BY <2>1, <3>1, <3>3, <4>2 DEF SharedInv, FileInv, SaveUnsynced, Valid
      <4>4. AuthorityInv'
        BY <2>1, <3>1, <3>3, <4>2 DEF SharedInv, AuthorityInv, SaveUnsynced
      <4>5. SpendAtMostOnce' /\ PostsStayOnArmedAccount'
        BY <3>1 DEF SharedInv, SpendAtMostOnce, PostsStayOnArmedAccount
      <4>6. QED
        BY <4>1, <4>3, <4>4, <4>5 DEF SharedInv
    <3>4. QED
      BY <2>3, <3>2, <3>3 DEF ClaimFails, s
  <2>4. CASE SendPost(w)
    <3> DEFINE p == [request |-> mem[w].request, credit |-> pick[w], account |-> acct[w],
                     arming |-> mem[w].arming, armedAccount |-> mem[w].account, mode |-> mode[w]]
    <3>1. /\ mem[w] = disk /\ survivors = {disk} /\ disk.status = "unknown"
          /\ mem[w].account = acct[w]
          /\ mode[w] = "auto" => Owner[pick[w]] = acct[w]
          /\ \A q \in posts : q.request < mem[w].request
          /\ mode[w] = "auto" => \A q \in posts : q.arming # mem[w].arming
      BY <2>4 DEF SendPost, TaskInv
    <3>2. /\ posts' = posts \cup {p} /\ Goto(w, "wait") /\ pc[w] # "idle"
          /\ UNCHANGED <<fileVars, lockVars, mem, acct, pick, mode, arms, claims, revoked>>
      BY <2>4 DEF SendPost
    <3>3. pc'[w] = "wait" /\ \A v \in Worker : v # w => pc'[v] = "idle"
      BY <3>2, OthersAreIdle DEF Goto, TypeOK
    <3>4. LockInv' /\ TaskInv'
      BY <3>1, <3>2, <3>3 DEF LockInv, TaskInv
    <3>5. FileInv' /\ disk.arming <= arms /\ disk.request <= claims /\ disk.request \in Nat
      BY <3>2, ToggleTypes DEF SharedInv, FileInv, Valid, TypeOK
    <3>6. AuthorityInv'
      BY <3>1, <3>2, <3>5 DEF SharedInv, AuthorityInv
    <3>7. SpendAtMostOnce'
      <4>1. \A q \in posts : q.request \in Nat
        BY DEF TypeOK, Post
      <4>2. p.request = disk.request /\ p.mode = mode[w] /\ p.arming = mem[w].arming
        BY <3>1
      <4> HIDE DEF p
      <4>3. QED
        BY <3>1, <3>2, <3>5, <4>1, <4>2 DEF SharedInv, SpendAtMostOnce
    <3>8. PostsStayOnArmedAccount'
      BY <3>1, <3>2 DEF SharedInv, PostsStayOnArmedAccount
    <3>9. QED
      BY <3>4, <3>5, <3>6, <3>7, <3>8 DEF SharedInv
  <2>5. CASE PostErrs(w)
    BY <1>2, <2>5 DEF PostErrs, sharedVars
  <2>6. CASE PostConfirmed(w)
    <3>1. pc'[w] = "commit" /\ pc[w] = "wait" /\ \A v \in Worker : v # w => pc'[v] = "idle"
      BY <2>6, OthersAreIdle DEF PostConfirmed, Goto, TypeOK
    <3>2. LockInv' /\ TaskInv'
      BY <2>6, <3>1 DEF PostConfirmed, LockInv, TaskInv
    <3>3. QED
      BY <2>6, <3>2, SharedKept DEF PostConfirmed, sharedVars
  <2>7. ASSUME pc[w] = "commit"
        PROVE  /\ Valid(Consumed(mem[w])) /\ Consumed(mem[w]).status = "consumed"
               /\ Consumed(mem[w]).arming <= arms /\ Consumed(mem[w]).request <= claims
    <3>1. mem[w] = disk /\ disk.status = "unknown" /\ disk \in survivors /\ disk \in Toggle
      BY <2>7 DEF TaskInv, SharedInv, FileInv, TypeOK
    <3>2. QED
      BY <3>1 DEF Consumed, Toggle, Valid, SharedInv, FileInv
  <2>8. CASE CommitOk(w)
    <3>1. pc'[w] = "after" /\ pc[w] = "commit" /\ \A v \in Worker : v # w => pc'[v] = "idle"
      BY <2>8, OthersAreIdle DEF CommitOk, Goto, TypeOK
    <3>2. LockInv' /\ TaskInv'
      BY <2>8, <3>1 DEF CommitOk, LockInv, TaskInv
    <3>3. FileInv'
      BY <2>7, <2>8 DEF CommitOk, SaveOk, FileInv, Valid
    <3>4. AuthorityInv' /\ SpendAtMostOnce' /\ PostsStayOnArmedAccount'
      BY <2>7, <2>8 DEF CommitOk, SaveOk, SharedInv, AuthorityInv, SpendAtMostOnce, PostsStayOnArmedAccount
    <3>5. QED
      BY <3>2, <3>3, <3>4 DEF SharedInv
  <2>9. CASE CommitFails(w)
    <3> DEFINE t == Consumed(mem[w])
    <3>1. /\ pc[w] = "commit" /\ Return(w) /\ SaveFails(t)
          /\ UNCHANGED <<arms, claims, posts, revoked>>
      BY <2>9 DEF CommitFails
    <3>2. Valid(t) /\ t.status # "armed" /\ t.arming <= arms /\ t.request <= claims
      BY <2>7, <3>1
    <3> HIDE DEF t
    <3>3. QED
      BY <3>1, <3>2, SaveEnds
  <2>10. QED
    BY <1>5, <2>2, <2>3, <2>4, <2>5, <2>6, <2>8, <2>9 DEF RedeemStep
<1>6. ASSUME NEW w \in Worker, ControlStep(w) PROVE LockInv' /\ TaskInv' /\ SharedInv'
  <2>1. CASE StartUseNow(w)
    BY <1>1, <2>1 DEF StartUseNow, Goto, TypeOK
  <2>2. CASE StartArm(w)
    <3>1. cred \in Account
      BY <2>2 DEF StartArm, Binds, TypeOK
    <3>2. QED
      BY <1>1, <2>2, <3>1 DEF StartArm, Goto, TypeOK
  <2>3. CASE Arm(w)
    <3> DEFINE s == [status |-> "armed", account |-> acct[w], credit |-> NoCredit,
                     request |-> 0, arming |-> arms + 1]
    <3>1. /\ pc[w] = "arm" /\ arms' = arms + 1 /\ Return(w) /\ (SaveOk(s) \/ SaveFails(s))
          /\ UNCHANGED <<claims, posts, revoked>>
      BY <2>3 DEF Arm
    <3>2. /\ s.status = "armed" /\ s.arming = arms + 1 /\ s.request = 0
          /\ s.credit = NoCredit /\ s.account \in Account
      BY <3>1 DEF TaskInv
    <3> HIDE DEF s
    <3>3. arms \in Nat /\ claims \in Nat
      BY DEF TypeOK
    <3>4. Valid(s)
      BY <3>2, <3>3, Constants DEF Valid
    <3>5. LockInv' /\ TaskInv'
      BY <3>1, ReturnIdles, IdleInv
    <3>6. \A t \in survivors : t.arming \in Nat
      BY ToggleTypes DEF TypeOK
    <3>7. FileInv'
      BY <3>1, <3>2, <3>3, <3>4, <3>6
         DEF SharedInv, FileInv, SaveOk, SaveFails, SaveUnsynced, Valid
    <3>8. AuthorityInv'
      <4>1. (\A p \in posts : p.arming \in Nat) /\ (\A g \in revoked : g \in Nat)
        BY DEF TypeOK, Post
      <4>2. (\A p \in posts : p.arming # s.arming) /\ s.arming \notin revoked
        BY <3>2, <3>3, <4>1 DEF SharedInv, AuthorityInv
      <4>3. QED
        BY <3>1, <3>2, <3>3, <4>1, <4>2
           DEF SharedInv, AuthorityInv, SaveOk, SaveFails, SaveUnsynced
    <3>9. SpendAtMostOnce' /\ PostsStayOnArmedAccount'
      BY <3>1 DEF SharedInv, SpendAtMostOnce, PostsStayOnArmedAccount
    <3>10. QED
      BY <3>5, <3>7, <3>8, <3>9 DEF SharedInv
  <2>4. CASE Cancel(w)
    <3> DEFINE s == [mem[w] EXCEPT !.status = "cancelled"]
    <3>1. mem[w] = disk /\ disk \in survivors /\ disk \in Toggle
      BY <2>4 DEF Cancel, TaskInv, SharedInv, FileInv, TypeOK
    <3>2. s.status = "cancelled" /\ s.arming = disk.arming /\ s.request = disk.request
      BY <3>1 DEF Toggle
    <3>3. Valid(s) /\ s.arming <= arms /\ s.request <= claims
      BY <3>1, <3>2 DEF Valid, SharedInv, FileInv
    <3>4. \/ SaveOk(s) /\ revoked' = revoked \cup {s.arming}
          \/ SaveFails(s) /\ revoked' = revoked
      BY <2>4 DEF Cancel
    <3>5. pc[w] # "idle" /\ Return(w) /\ UNCHANGED <<arms, claims, posts>>
      BY <2>4 DEF Cancel
    <3> HIDE DEF s
    <3>6. QED
      BY <3>2, <3>3, <3>4, <3>5, SaveEnds
  <2>5. ASSUME NEW acknowledged \in BOOLEAN, StartCancel(w, acknowledged)
        PROVE  LockInv' /\ TaskInv' /\ SharedInv'
    BY <1>1, <2>5 DEF StartCancel, Goto, TypeOK
  <2>6. ASSUME NEW c \in Credit, StartManual(w, c) PROVE LockInv' /\ TaskInv' /\ SharedInv'
    <3>1. cred \in Account
      BY <2>6 DEF StartManual, Binds, TypeOK
    <3>2. /\ pc'[w] = "claim" /\ acct'[w] = cred /\ pick'[w] = c /\ mode'[w] = "manual"
          /\ mem'[w] = [disk EXCEPT !.account = cred] /\ disk.status # "unknown"
      BY <2>6 DEF StartManual, Goto, TypeOK
    <3>3. mem'[w].account = cred /\ mem'[w].arming = disk.arming
      BY <3>2 DEF TypeOK, Toggle
    <3>4. pc[w] = "idle" /\ Lock(w) /\ UNCHANGED <<fileVars, historyVars>> /\ Goto(w, "claim")
      BY <2>6 DEF StartManual
    <3>5. QED
      BY <1>1, <3>1, <3>2, <3>3, <3>4
  <2>7. QED
    BY <1>6, <2>1, <2>2, <2>3, <2>4, <2>5, <2>6 DEF ControlStep
<1>7. ASSUME NEW p \in net,
             ServiceRedeems(p) \/ ServiceAlreadyRedeemed(p) \/ ServiceRefuses(p) \/ PostLost(p)
      PROVE  LockInv' /\ TaskInv' /\ SharedInv'
  BY <1>7, TaskKept, SharedKept
     DEF ServiceRedeems, ServiceAlreadyRedeemed, ServiceRefuses, PostLost, sharedVars
<1>8. ASSUME NEW dead \in SUBSET Worker, KillWorkers(dead), UNCHANGED sharedVars,
             \A v, w \in Worker : Home[v] = Home[w] /\ v \in dead => w \in dead
      PROVE  LockInv' /\ TaskInv' /\ SharedInv'
  <2>1. \A w \in Worker : pc'[w] # "idle" =>
           w \notin dead /\ pc'[w] = pc[w] /\ flock' = w /\ mu'[Home[w]] = w
    BY <1>8, Constants DEF KillWorkers, LockInv, TypeOK
  <2>2. LockInv'
    BY <2>1 DEF LockInv
  <2>3. \A w \in Worker : w \notin dead =>
           mem'[w] = mem[w] /\ acct'[w] = acct[w] /\ pick'[w] = pick[w] /\ mode'[w] = mode[w]
    BY <1>8 DEF KillWorkers
  <2>4. TaskInv'
    BY <1>8, <2>1, <2>3 DEF TaskInv, sharedVars
  <2>5. QED
    BY <1>8, <2>2, <2>4, SharedKept
<1>9. ASSUME NEW d \in Daemon, Crash(d) PROVE LockInv' /\ TaskInv' /\ SharedInv'
  BY <1>8, <1>9 DEF Crash, sharedVars
<1>10. CASE PowerLoss
  <2>1. AllIdle' /\ disk' \in survivors /\ survivors' = {disk'} /\ UNCHANGED historyVars
    BY <1>10 DEF PowerLoss, KillWorkers, AllIdle
  <2>2. LockInv' /\ TaskInv'
    BY <2>1, IdleInv
  <2>3. SharedInv'
    BY <2>1 DEF SharedInv, FileInv, Valid, AuthorityInv, SpendAtMostOnce, PostsStayOnArmedAccount
  <2>4. QED
    BY <2>2, <2>3
<1>11. ASSUME NEW d \in Daemon, BecomesDue(d) PROVE LockInv' /\ TaskInv' /\ SharedInv'
  BY <1>11, TaskKept, SharedKept DEF BecomesDue, sharedVars
<1>12. CASE Tick
  BY <1>12, TaskKept, SharedKept DEF Tick, sharedVars
<1>13. ASSUME NEW a \in Account \cup {NoAccount}, SwitchAccount(a)
       PROVE  LockInv' /\ TaskInv' /\ SharedInv'
  BY <1>13, TaskKept, SharedKept DEF SwitchAccount, sharedVars
<1>14. ASSUME NEW a \in Account, WindowChanges(a) PROVE LockInv' /\ TaskInv' /\ SharedInv'
  BY <1>14, TaskKept, SharedKept DEF WindowChanges, sharedVars
<1>15. ASSUME NEW c \in Credit, SpentElsewhere(c) PROVE LockInv' /\ TaskInv' /\ SharedInv'
  BY <1>15, TaskKept, SharedKept DEF SpentElsewhere, sharedVars
<1>16. CASE UNCHANGED vars
  BY <1>16, TaskKept, SharedKept DEF vars, sharedVars
<1>17. QED
  BY <1>4, <1>5, <1>6, <1>7, <1>9, <1>10, <1>11, <1>12, <1>13, <1>14, <1>15, <1>16
     DEF Next, ServiceStep, EnvStep

-----------------------------------------------------------------------------
(* IInv holds initially and every step preserves it. *)
LEMMA IInvInit == Init => IInv
BY TypeInit, Constants
   DEF IInv, Init, LockInv, FileInv, TaskInv, AuthorityInv, SpendAtMostOnce,
       PostsStayOnArmedAccount, Valid, Off

LEMMA IInvStep == IInv /\ [Next]_vars => IInv'
<1> SUFFICES ASSUME IInv, [Next]_vars PROVE IInv'
  OBVIOUS
<1>1. PostInHand
  BY DEF IInv, TaskInv, PostInHand
<1>2. TypeOK'
  BY <1>1, TypeStep DEF IInv
<1>3. LockInv' /\ TaskInv' /\ SharedInv'
  BY InvStep DEF IInv, SharedInv
<1>4. QED
  BY <1>2, <1>3 DEF IInv, SharedInv

(* The inductive invariant holds of every behaviour. *)
THEOREM InductiveInvariant == Spec => []IInv
BY IInvInit, IInvStep, PTL DEF Spec

(* Every variable keeps its type, whatever the bounds. *)
THEOREM TypeCorrect == Spec => []TypeOK
<1>1. IInv => TypeOK
  BY DEF IInv
<1>2. QED
  BY <1>1, InductiveInvariant, PTL

(* At most one operation on the toggle runs at a time, over all daemons. *)
THEOREM Exclusive == Spec => []MutualExclusion
<1>1. IInv => MutualExclusion
  BY DEF IInv, LockInv, MutualExclusion
<1>2. QED
  BY <1>1, InductiveInvariant, PTL

(* No arming is spent twice: its automatic POST, if any, is its first POST. *)
THEOREM SpentAtMostOnce == Spec => []SpendAtMostOnce
<1>1. IInv => SpendAtMostOnce
  BY DEF IInv
<1>2. QED
  BY <1>1, InductiveInvariant, PTL

(* Automatic POSTs stay on the account that was armed and spend its credits. *)
THEOREM AccountPinned == Spec => []PostsStayOnArmedAccount
<1>1. IInv => PostsStayOnArmedAccount
  BY DEF IInv
<1>2. QED
  BY <1>1, InductiveInvariant, PTL

(* The toggle file never becomes one that readResetOnce rejects. *)
THEOREM AlwaysReadable == Spec => []FileStaysReadable
<1>1. IInv => FileStaysReadable
  BY DEF IInv, FileInv, FileStaysReadable
<1>2. QED
  BY <1>1, InductiveInvariant, PTL

-----------------------------------------------------------------------------
(* The action properties follow from the same invariant: only one step sends a *)
(* POST, and seven steps write the toggle. *)

LEMMA OnlySendPostPosts ==
    ASSUME [Next]_vars
    PROVE  posts' = posts \/ \E w \in Worker : SendPost(w)
<1> USE DEF fileVars, lockVars, taskVars, serviceVars, envVars, historyVars
<1>1. CASE UNCHANGED vars
  BY <1>1 DEF vars
<1>2. ASSUME NEW w \in Worker, RefreshStep(w) PROVE posts' = posts
  BY <1>2 DEF RefreshStep, StartRefresh, ReadInactive, ReadUnknown, ReadArmed, PlainFetch,
              CheckGoesOn, CheckStops, ListPicks, ListEmpty, GiveUp, Rebind, Disarm,
              ReconcileCheck, ReconcileList, Settle
<1>3. ASSUME NEW w \in Worker, RedeemStep(w) PROVE posts' = posts \/ SendPost(w)
  BY <1>3 DEF RedeemStep, ClaimOk, ClaimFails, PostErrs, PostConfirmed, CommitOk, CommitFails
<1>4. ASSUME NEW w \in Worker, ControlStep(w) PROVE posts' = posts
  BY <1>4 DEF ControlStep, StartUseNow, StartArm, Arm, StartCancel, Cancel, StartManual
<1>5. CASE ServiceStep
  BY <1>5 DEF ServiceStep, ServiceRedeems, ServiceAlreadyRedeemed, ServiceRefuses, PostLost
<1>6. CASE EnvStep
  BY <1>6 DEF EnvStep, Crash, BecomesDue, PowerLoss, Tick, SwitchAccount, WindowChanges,
              SpentElsewhere
<1>7. QED
  BY <1>1, <1>2, <1>3, <1>4, <1>5, <1>6 DEF Next

(* The POST a worker sends is the request in its hand. *)
LEMMA SentPost ==
    ASSUME NEW w \in Worker, SendPost(w), NEW p \in posts' \ posts
    PROVE  /\ p.request = mem[w].request /\ p.credit = pick[w]
           /\ p.arming = mem[w].arming /\ p.mode = mode[w]
BY DEF SendPost

(* No POST without a claim that survives a power failure. *)
THEOREM ClaimsAreDurable == Spec => ClaimDurableBeforePost
<1>1. IInv /\ [Next]_vars => [PostsAreClaimed]_vars
  <2> SUFFICES ASSUME IInv, [Next]_vars, NEW p \in posts' \ posts, NEW s \in survivors'
               PROVE  s.status = "unknown" /\ s.request = p.request /\ s.credit = p.credit
    BY DEF PostsAreClaimed
  <2>1. PICK w \in Worker : SendPost(w)
    BY OnlySendPostPosts
  <2>2. pc[w] = "post" /\ survivors' = survivors
    BY <2>1 DEF SendPost, fileVars
  <2>3. survivors = {mem[w]} /\ mem[w].status = "unknown" /\ mem[w].credit = pick[w]
    BY <2>2 DEF IInv, TaskInv
  <2>4. QED
    BY <2>1, <2>2, <2>3, SentPost
<1>2. QED
  BY <1>1, InductiveInvariant, PTL DEF Spec, ClaimDurableBeforePost

(* A cancellation that was reported as done is final. *)
THEOREM CancelledNeverSpends == Spec => CancelIsFinal
<1>1. IInv /\ [Next]_vars => [PostsAreNotRevoked]_vars
  <2> SUFFICES ASSUME IInv, [Next]_vars, NEW p \in posts' \ posts, p.mode = "auto"
               PROVE  p.arming \notin revoked
    BY DEF PostsAreNotRevoked
  <2>1. PICK w \in Worker : SendPost(w)
    BY OnlySendPostPosts
  <2>2. pc[w] = "post"
    BY <2>1 DEF SendPost
  <2>3. QED
    BY <2>1, <2>2, SentPost DEF IInv, TaskInv
<1>2. QED
  BY <1>1, InductiveInvariant, PTL DEF Spec, CancelIsFinal

Resolution(s) == s.status \in {"consumed", "cancelled"} /\ s.request = disk.request

(* A durable unknown outcome is only ever resolved. *)
LEMMA UnknownStep ==
    ASSUME IInv, [Next]_vars, disk.status = "unknown", survivors = {disk}, disk' # disk
    PROVE  Resolution(disk')
<1> USE DEF fileVars, lockVars, taskVars, serviceVars, envVars, historyVars, Resolution
<1>1. disk \in Toggle
  BY DEF IInv, TypeOK
<1>2. CASE UNCHANGED vars
  BY <1>2 DEF vars
<1>3. ASSUME NEW w \in Worker, RefreshStep(w) PROVE Resolution(disk')
  <2>1. CASE Disarm(w)
    BY <2>1 DEF Disarm, IInv, TaskInv
  <2>2. CASE Settle(w)
    BY <1>1, <2>2 DEF Settle, IInv, TaskInv, SaveOk, SaveFails, SaveUnsynced, Consumed, Toggle
  <2>3. QED
    BY <1>3, <2>1, <2>2
       DEF RefreshStep, StartRefresh, ReadInactive, ReadUnknown, ReadArmed, PlainFetch,
           CheckGoesOn, CheckStops, ListPicks, ListEmpty, GiveUp, Rebind,
           ReconcileCheck, ReconcileList
<1>4. ASSUME NEW w \in Worker, RedeemStep(w) PROVE Resolution(disk')
  <2>1. CASE ClaimOk(w) \/ ClaimFails(w)
    BY <2>1 DEF ClaimOk, ClaimFails, IInv, TaskInv
  <2>2. CASE CommitOk(w) \/ CommitFails(w)
    BY <1>1, <2>2
       DEF CommitOk, CommitFails, IInv, TaskInv, SaveOk, SaveFails, SaveUnsynced, Consumed, Toggle
  <2>3. QED
    BY <1>4, <2>1, <2>2 DEF RedeemStep, SendPost, PostErrs, PostConfirmed
<1>5. ASSUME NEW w \in Worker, ControlStep(w) PROVE Resolution(disk')
  <2>1. CASE Arm(w)
    BY <2>1 DEF Arm, IInv, TaskInv
  <2>2. CASE Cancel(w)
    BY <1>1, <2>2 DEF Cancel, IInv, TaskInv, SaveOk, SaveFails, SaveUnsynced, Toggle
  <2>3. QED
    BY <1>5, <2>1, <2>2 DEF ControlStep, StartUseNow, StartArm, StartCancel, StartManual
<1>6. CASE ServiceStep
  BY <1>6 DEF ServiceStep, ServiceRedeems, ServiceAlreadyRedeemed, ServiceRefuses, PostLost
<1>7. CASE EnvStep
  BY <1>7 DEF EnvStep, Crash, BecomesDue, PowerLoss, Tick, SwitchAccount, WindowChanges,
              SpentElsewhere
<1>8. QED
  BY <1>2, <1>3, <1>4, <1>5, <1>6, <1>7 DEF Next

(* An unknown outcome is never forgotten, re-armed or claimed again. *)
THEOREM UnknownStaysUnknown == Spec => UnknownIsSticky
<1>1. IInv /\ [Next]_vars => [UnknownIsResolved]_vars
  BY UnknownStep DEF Resolution, UnknownIsResolved
<1>2. QED
  BY <1>1, InductiveInvariant, PTL DEF Spec, UnknownIsSticky

-----------------------------------------------------------------------------
(* What a step does to the three variables of SpendOnce: a claim is sent, an *)
(* arming is written, a cancellation is reported, or nothing happens. *)
LEMMA OnlyThreeActionsCount ==
    ASSUME TypeOK, [Next]_vars
    PROVE  \/ \E w \in Worker : SendPost(w) \/ Arm(w) \/ Cancel(w)
           \/ UNCHANGED <<arms, revoked, posts>>
<1> USE DEF envVars, historyVars
<1>1. CASE UNCHANGED vars
  BY <1>1 DEF vars
<1>2. ASSUME NEW w \in Worker, RefreshStep(w) PROVE UNCHANGED <<arms, revoked, posts>>
  BY <1>2 DEF RefreshStep, StartRefresh, ReadInactive, ReadUnknown, ReadArmed, PlainFetch,
              CheckGoesOn, CheckStops, ListPicks, ListEmpty, GiveUp, Rebind, Disarm,
              ReconcileCheck, ReconcileList, Settle
<1>3. ASSUME NEW w \in Worker, RedeemStep(w), ~SendPost(w) PROVE UNCHANGED <<arms, revoked, posts>>
  BY <1>3 DEF RedeemStep, ClaimOk, ClaimFails, PostErrs, PostConfirmed, CommitOk, CommitFails
<1>4. ASSUME NEW w \in Worker, ControlStep(w), ~Arm(w), ~Cancel(w)
      PROVE  UNCHANGED <<arms, revoked, posts>>
  BY <1>4 DEF ControlStep, StartUseNow, StartArm, StartCancel, StartManual
<1>5. CASE ServiceStep
  BY <1>5 DEF ServiceStep, ServiceRedeems, ServiceAlreadyRedeemed, ServiceRefuses, PostLost
<1>6. CASE EnvStep
  BY <1>6 DEF EnvStep, Crash, BecomesDue, PowerLoss, Tick, SwitchAccount, WindowChanges,
              SpentElsewhere
<1>7. QED
  BY <1>1, <1>2, <1>3, <1>4, <1>5, <1>6 DEF Next

(* An arming is a Grant. *)
LEMMA ArmGrants ==
    ASSUME NEW w \in Worker, Arm(w)
    PROVE  Authority!Grant
BY DEF Arm, Authority!Grant, SentBy

(* A reported cancellation is a Withdraw, an unreported one nothing. *)
LEMMA CancelWithdraws ==
    ASSUME IInv, NEW w \in Worker, Cancel(w)
    PROVE  Authority!Next \/ UNCHANGED <<arms, revoked, posts>>
<1>1. pc[w] = "cancel" /\ mem[w] = disk /\ disk \in survivors
  BY DEF Cancel, IInv, TaskInv, FileInv
<1>2. disk \in Toggle /\ arms \in Nat
  BY DEF IInv, TypeOK
<1>3. mem[w].arming \in Authority!Known
  BY <1>1, <1>2 DEF IInv, FileInv, Toggle, Authority!Known
<1>4. CASE revoked' = revoked \cup {[mem[w] EXCEPT !.status = "cancelled"].arming}
  <2>1. [mem[w] EXCEPT !.status = "cancelled"].arming = mem[w].arming
    BY <1>1, <1>2 DEF Toggle
  <2>2. UNCHANGED <<arms, posts>>
    BY DEF Cancel
  <2>3. SentBy("auto")' = SentBy("auto") /\ SentBy("manual")' = SentBy("manual")
    BY <2>2 DEF SentBy
  <2>4. PICK g \in Authority!Known : g = mem[w].arming
    BY <1>3
  <2>5. Authority!Withdraw(g)
    BY <1>4, <2>1, <2>2, <2>3, <2>4 DEF Authority!Withdraw
  <2>6. QED
    BY <2>5 DEF Authority!Next
<1>5. CASE UNCHANGED revoked
  BY <1>5 DEF Cancel
<1>6. QED
  BY <1>4, <1>5 DEF Cancel

(* A POST of the guarded refresh is a Spend, one of an explicit consume is a *)
(* Withdraw. *)
LEMMA SendPostSpends ==
    ASSUME IInv, NEW w \in Worker, SendPost(w)
    PROVE  Authority!Next
<1> DEFINE p == [request |-> mem[w].request, credit |-> pick[w], account |-> acct[w],
                 arming |-> mem[w].arming, armedAccount |-> mem[w].account, mode |-> mode[w]]
<1>1. posts' = posts \cup {p} /\ UNCHANGED <<arms, revoked>> /\ pc[w] = "post"
  BY DEF SendPost
<1>2. /\ mem[w] = disk /\ disk \in survivors /\ pick[w] \in Credit
      /\ mode[w] = "auto" => /\ Owner[pick[w]] = acct[w]
                             /\ mem[w].arming > 0
                             /\ mem[w].arming \notin revoked
                             /\ \A q \in posts : q.arming # mem[w].arming
  BY <1>1 DEF IInv, TaskInv, FileInv
<1>3. disk \in Toggle /\ arms \in Nat /\ mode[w] \in {"auto", "manual"}
  BY DEF IInv, TypeOK
<1>4. p.arming \in Authority!Known
  BY <1>2, <1>3 DEF IInv, FileInv, Toggle, Authority!Known, p
<1> HIDE DEF p
<1>5. PICK g \in Authority!Known : g = p.arming
  BY <1>4
<1>6. CASE mode[w] = "manual"
  <2>1. SentBy("auto")' = SentBy("auto") /\ SentBy("manual")' = SentBy("manual") \cup {p}
    BY <1>1, <1>6 DEF SentBy, p
  <2>2. {q.arming : q \in SentBy("manual")}' = {q.arming : q \in SentBy("manual")} \cup {p.arming}
    BY <2>1
  <2>3. Authority!Withdraw(g)
    BY <1>1, <1>5, <2>1, <2>2 DEF Authority!Withdraw
  <2>4. QED
    BY <2>3 DEF Authority!Next
<1>7. CASE mode[w] = "auto"
  <2>1. SentBy("auto")' = SentBy("auto") \cup {p} /\ SentBy("manual")' = SentBy("manual")
    BY <1>1, <1>7 DEF SentBy, p
  <2>2. /\ p.arming > 0 /\ p.arming \notin revoked /\ \A q \in posts : q.arming # p.arming
        /\ p.credit \in Credit /\ p.account = Owner[p.credit]
    BY <1>2, <1>7 DEF p
  <2>3. p.arming \notin revoked \cup {q.arming : q \in SentBy("manual")}
    BY <2>2 DEF SentBy
  <2>4. p.arming \notin Authority!Used
    <3>1. SUFFICES ASSUME NEW q \in SentBy("auto") PROVE q.arming # p.arming
      BY DEF Authority!Used
    <3>2. QED
      BY <2>2 DEF SentBy
  <2>5. {[authority |-> q.arming, credit |-> q.credit, account |-> q.account]
            : q \in SentBy("auto")}'
        = {[authority |-> q.arming, credit |-> q.credit, account |-> q.account]
              : q \in SentBy("auto")}
          \cup {[authority |-> p.arming, credit |-> p.credit, account |-> Owner[p.credit]]}
    BY <2>1, <2>2
  <2>6. PICK c \in Credit : c = p.credit
    BY <2>2
  <2>7. Authority!Spend(g, c)
    BY <1>1, <1>5, <2>1, <2>2, <2>3, <2>4, <2>5, <2>6 DEF Authority!Spend
  <2>8. QED
    BY <2>7 DEF Authority!Next
<1>8. QED
  BY <1>3, <1>6, <1>7

(* The toggle implements the abstract authority to spend once. *)
THEOREM ImplementsTheAuthority == Spec => ImplementsSpendOnce
<1>1. Init => Authority!Init
  BY DEF Init, Authority!Init, SentBy
<1>2. IInv /\ [Next]_vars => [Authority!Next]_(Authority!vars)
  <2> SUFFICES ASSUME IInv, [Next]_vars PROVE [Authority!Next]_(Authority!vars)
    OBVIOUS
  <2>1. CASE UNCHANGED <<arms, revoked, posts>>
    BY <2>1 DEF Authority!vars, SentBy
  <2>2. ASSUME NEW w \in Worker, Arm(w) PROVE Authority!Next
    BY <2>2, ArmGrants DEF Authority!Next
  <2>3. QED
    BY <2>1, <2>2, CancelWithdraws, SendPostSpends, OnlyThreeActionsCount DEF IInv
<1>3. QED
  BY <1>1, <1>2, InductiveInvariant, PTL DEF Spec, ImplementsSpendOnce, Authority!Spec
=============================================================================

------------------------------ MODULE ResetOnce ------------------------------
(***************************************************************************)
(* The one-shot spending toggle "reset-once": src/internal/app/reset_once.go *)
(* (ChatGPT) and its twin claude_reset_once.go (Claude Code), with the two *)
(* provider calls it is built on, BindAccount and ConsumeResetCredit.      *)
(*                                                                         *)
(* A toggle file next to the snapshot says whether the daemon may spend    *)
(* one banked credit.  Every operation that may change it is a goroutine   *)
(* of some daemon process (a Worker) that holds two locks, the process's   *)
(* mutex and a flock on the toggle's lock file, from before it reads the   *)
(* file until after its last write.  Workers interleave at every network   *)
(* call and every file write; processes crash, the machine loses power,    *)
(* requests and answers are lost or late, the user logs in to another      *)
(* account, the quota window empties and recovers, credits expire.         *)
(***************************************************************************)
EXTENDS Naturals, FiniteSets

CONSTANTS
    Daemon,       \* daemon processes sharing one server.statePath
    Worker,       \* their goroutines: refresh loop and HTTP handlers
    Home,         \* the daemon each worker runs in
    Account,      \* upstream accounts (ChatGPT account, Claude organization)
    Credit,       \* credit identifiers; their order is the order of the IDs
    Owner,        \* the account a credit belongs to
    ExpiresAt,    \* the time a credit expires
    NoOne, NoAccount,
    AllowConsume, \* providers.*.allowResetConsume
    \* Bounds: armings, requests drawn when an explicit consume may still start,
    \* time, crashes and power failures, changes outside usagent.
    MaxArms, MaxClaims, MaxClock, MaxCrashes, MaxEvents

NoCredit == 0

ASSUME WorkerAssumption  == Home \in [Worker -> Daemon] /\ NoOne \notin Worker
ASSUME AccountAssumption == NoAccount \notin Account
ASSUME CreditAssumption  == /\ Credit \subseteq Nat \ {NoCredit}
                            /\ Owner \in [Credit -> Account]
                            /\ ExpiresAt \in [Credit -> Nat]
ASSUME BoundAssumption   == /\ AllowConsume \in BOOLEAN
                            /\ {MaxArms, MaxClaims, MaxClock, MaxCrashes, MaxEvents} \subseteq Nat

VARIABLES
    disk,       \* the toggle file as every process sees it
    survivors,  \* the contents it may have after a power failure
    mu, flock,  \* holder of each daemon's resetMu, holder of the file lock
    pc,         \* where a worker is
    mem,        \* the toggle record s in its hands
    acct,       \* the account its bound provider is pinned to
    pick,       \* the credit it is about to redeem
    mode,       \* "auto" for the guarded refresh, "manual" for an explicit consume
    reply,      \* what the service answered to its POST
    due,        \* per daemon, the provider's nextRefreshAt has come
    cred,       \* the account the credentials on disk log in to
    exhausted,  \* per account, the weekly window is used up
    spent,      \* credits the service has redeemed
    net,        \* POSTs the service has not processed yet
    now,        \* time
    arms,       \* how many times the toggle was armed (stands for ArmedAt)
    claims,     \* how many request identifiers were drawn
    posts,      \* every POST ever sent
    revoked,    \* armings whose cancellation was reported as done
    refused,    \* requests the service answered with an explicit non-spend
    crashes, events

fileVars    == <<disk, survivors>>
lockVars    == <<mu, flock>>
taskVars    == <<pc, mem, acct, pick, mode, reply>>
serviceVars == <<exhausted, spent, net>>
envVars     == <<cred, now, crashes, events>>
historyVars == <<arms, claims, posts, revoked, refused>>
vars == <<fileVars, lockVars, taskVars, due, serviceVars, envVars, historyVars>>

-----------------------------------------------------------------------------
Status == {"off", "armed", "unknown", "consumed", "cancelled", "failed"}

Toggle == [status : Status, account : Account \cup {NoAccount},
           credit : Credit \cup {NoCredit}, request : Nat, arming : Nat]

Off == [status |-> "off", account |-> NoAccount, credit |-> NoCredit,
        request |-> 0, arming |-> 0]

(* What readResetOnce accepts; anything else blocks the toggle for good. *)
Valid(s) ==
    /\ s.status = "armed" =>
          s.account # NoAccount /\ s.arming > 0 /\ s.credit = NoCredit /\ s.request = 0
    /\ s.status \in {"unknown", "consumed"} =>
          s.account # NoAccount /\ s.credit # NoCredit /\ s.request > 0

Place == {"idle", "read", "plain", "check1", "list", "check2", "rebind", "claim",
          "post", "wait", "commit", "after", "rcheck", "rlist", "settle",
          "arm", "cancel", "disarm"}

Post == [request : Nat, credit : Credit, account : Account, arming : Nat,
         armedAccount : Account \cup {NoAccount}, mode : {"auto", "manual"}]

TypeOK ==
    /\ disk \in Toggle /\ survivors \subseteq Toggle
    /\ mu \in [Daemon -> Worker \cup {NoOne}] /\ flock \in Worker \cup {NoOne}
    /\ pc \in [Worker -> Place]
    /\ mem \in [Worker -> Toggle]
    /\ acct \in [Worker -> Account \cup {NoAccount}]
    /\ pick \in [Worker -> Credit \cup {NoCredit}]
    /\ mode \in [Worker -> {"auto", "manual"}]
    /\ reply \in [Worker -> {"none", "ok", "refused"}]
    /\ due \in [Daemon -> BOOLEAN]
    /\ cred \in Account \cup {NoAccount}
    /\ exhausted \in [Account -> BOOLEAN]
    /\ spent \subseteq Credit
    /\ net \subseteq posts /\ posts \subseteq Post
    /\ now \in Nat /\ arms \in Nat /\ claims \in Nat
    /\ revoked \subseteq Nat /\ refused \subseteq Nat
    /\ crashes \in Nat /\ events \in Nat

Init ==
    /\ disk = Off /\ survivors = {Off}
    /\ mu = [d \in Daemon |-> NoOne] /\ flock = NoOne
    /\ pc = [w \in Worker |-> "idle"]
    /\ mem = [w \in Worker |-> Off]
    /\ acct = [w \in Worker |-> NoAccount]
    /\ pick = [w \in Worker |-> NoCredit]
    /\ mode = [w \in Worker |-> "auto"]
    /\ reply = [w \in Worker |-> "none"]
    /\ due = [d \in Daemon |-> TRUE]
    /\ cred \in Account
    /\ exhausted \in [Account -> BOOLEAN]
    /\ spent = {} /\ net = {}
    /\ now = 0 /\ arms = 0 /\ claims = 0 /\ posts = {} /\ revoked = {} /\ refused = {}
    /\ crashes = 0 /\ events = 0

-----------------------------------------------------------------------------
LockMutexOnly(w) ==  \* mutant: no lock between daemons
    /\ mu[Home[w]] = NoOne
    /\ mu' = [mu EXCEPT ![Home[w]] = w]
    /\ flock' = w

(* lockResetOnce: TryLock the process's mutex, then flock without waiting. *)
(* An operation that finds either lock taken is refused and changes nothing. *)
Lock(w) ==
    /\ mu[Home[w]] = NoOne /\ flock = NoOne
    /\ mu' = [mu EXCEPT ![Home[w]] = w]
    /\ flock' = w

Unlock(w) ==
    /\ mu' = [mu EXCEPT ![Home[w]] = NoOne]
    /\ flock' = NoOne

(* A worker returns: its locals die with the stack frame. *)
Return(w) ==
    /\ Unlock(w)
    /\ pc' = [pc EXCEPT ![w] = "idle"]
    /\ mem' = [mem EXCEPT ![w] = Off]
    /\ acct' = [acct EXCEPT ![w] = NoAccount]
    /\ pick' = [pick EXCEPT ![w] = NoCredit]
    /\ mode' = [mode EXCEPT ![w] = "auto"]
    /\ reply' = [reply EXCEPT ![w] = "none"]

Goto(w, place) == pc' = [pc EXCEPT ![w] = place]

SaveWithoutDirSync(s) == disk' = s /\ survivors' = survivors \cup {s}  \* mutant

(* saveResetOnce writes a temporary file, syncs it, renames it over the toggle *)
(* and syncs the directory.  An error before the rename leaves the old file; *)
(* an error after it leaves the new file visible, but a power failure may *)
(* still bring the old one back. *)
SaveOk(s)       == disk' = s /\ survivors' = {s}
SaveUnsynced(s) == disk' = s /\ survivors' = survivors \cup {s}
SaveFails(s)    == SaveUnsynced(s) \/ UNCHANGED fileVars

BindsAny(expected) == cred # NoAccount  \* mutant

(* BindAccount succeeds: there are credentials and, when an account is *)
(* expected, they log in to it. *)
Binds(expected) == cred # NoAccount /\ expected \in {NoAccount, cred}

Expected(s) == IF s.status = "armed" THEN s.account ELSE NoAccount

(* recordRefresh stores the fetch in the cache, on success and on failure, and *)
(* with it the next time the provider is due. *)
Record(w) == due' = [due EXCEPT ![Home[w]] = FALSE]

(* earliestResetCredit over what the service lists for the account. *)
Eligible(a) == {c \in Credit : Owner[c] = a /\ c \notin spent /\ now < ExpiresAt[c]}
Before(c, d) == \/ ExpiresAt[c] < ExpiresAt[d]
                \/ ExpiresAt[c] = ExpiresAt[d] /\ c < d
IsEarliest(c, a) == c \in Eligible(a) /\ \A d \in Eligible(a) \ {c} : Before(c, d)

Claimed(w) == [mem[w] EXCEPT !.status = "unknown", !.credit = pick[w], !.request = claims + 1]
Consumed(s) == [s EXCEPT !.status = "consumed"]

-----------------------------------------------------------------------------
StartRefreshUnlessUnknown(w) ==  \* mutant: an unknown outcome waits for the user
    /\ pc[w] = "idle" /\ due[Home[w]] /\ disk.status # "unknown"
    /\ Lock(w) /\ Goto(w, "read")
    /\ UNCHANGED <<fileVars, mem, acct, pick, mode, reply, due, serviceVars, envVars, historyVars>>

(* RefreshOne of a due provider, once it holds the locks. *)
StartRefresh(w) ==
    /\ pc[w] = "idle" /\ due[Home[w]]
    /\ Lock(w) /\ Goto(w, "read")
    /\ UNCHANGED <<fileVars, mem, acct, pick, mode, reply, due, serviceVars, envVars, historyVars>>

(* UseChatGPTResetOnceNow: the same guarded refresh, at the user's request. *)
StartUseNow(w) ==
    /\ pc[w] = "idle" /\ disk.status = "armed"
    /\ Lock(w) /\ Goto(w, "read")
    /\ UNCHANGED <<fileVars, mem, acct, pick, mode, reply, due, serviceVars, envVars, historyVars>>

(* refreshChatGPTResetOnceLocked reads the toggle: an unreadable file or a *)
(* toggle that authorises nothing leaves an ordinary refresh, *)
ReadInactive(w) ==
    /\ pc[w] = "read" /\ Goto(w, "plain")
    /\ UNCHANGED <<fileVars, lockVars, mem, acct, pick, mode, reply, due, serviceVars, envVars, historyVars>>

(* an unknown outcome is reconciled, if the account can be bound, *)
ReadUnknown(w) ==
    /\ pc[w] = "read" /\ disk.status = "unknown"
    /\ IF Binds(disk.account)
       THEN /\ mem' = [mem EXCEPT ![w] = disk]
            /\ acct' = [acct EXCEPT ![w] = cred]
            /\ Goto(w, "rcheck")
       ELSE Goto(w, "plain") /\ UNCHANGED <<mem, acct>>
    /\ UNCHANGED <<fileVars, lockVars, pick, mode, reply, due, serviceVars, envVars, historyVars>>

(* and an armed toggle starts the guarded redemption, or is disarmed when the *)
(* credentials no longer log in to the armed account. *)
ReadArmed(w) ==
    /\ pc[w] = "read" /\ disk.status = "armed"
    /\ mem' = [mem EXCEPT ![w] = disk]
    /\ IF Binds(disk.account)
       THEN acct' = [acct EXCEPT ![w] = cred] /\ Goto(w, "check1")
       ELSE Goto(w, "disarm") /\ UNCHANGED acct
    /\ UNCHANGED <<fileVars, lockVars, pick, mode, reply, due, serviceVars, envVars, historyVars>>

(* An ordinary Fetch and recordRefresh, whatever the Fetch returned. *)
PlainFetch(w) ==
    /\ pc[w] \in {"plain", "after"}
    /\ Record(w) /\ Return(w)
    /\ UNCHANGED <<fileVars, serviceVars, envVars, historyVars>>

(* FetchForReset with the bound account, before and after the credit listing: *)
(* the operation goes on only on a successful answer that shows exhaustion. *)
CheckGoesOn(w) ==
    /\ \/ pc[w] = "check1" /\ Goto(w, "list")
       \/ pc[w] = "check2" /\ Goto(w, "rebind")
    /\ exhausted[acct[w]]
    /\ Record(w)
    /\ UNCHANGED <<fileVars, lockVars, mem, acct, pick, mode, reply, serviceVars, envVars, historyVars>>

CheckStops(w) ==
    /\ pc[w] \in {"check1", "check2"}
    /\ Record(w) /\ Return(w)
    /\ UNCHANGED <<fileVars, serviceVars, envVars, historyVars>>

(* ListResetCredits and earliestResetCredit. *)
ListPicks(w) ==
    /\ pc[w] = "list"
    /\ \E c \in Credit : IsEarliest(c, acct[w]) /\ pick' = [pick EXCEPT ![w] = c]
    /\ Goto(w, "check2")
    /\ UNCHANGED <<fileVars, lockVars, mem, acct, mode, reply, due, serviceVars, envVars, historyVars>>

ListEmptyRefreshes(w) ==  \* mutant: stays armed without a credit
    /\ pc[w] = "list" /\ Eligible(acct[w]) = {}
    /\ Goto(w, "plain")
    /\ UNCHANGED <<fileVars, lockVars, mem, acct, pick, mode, reply, due, serviceVars, envVars, historyVars>>

ListEmpty(w) ==
    /\ pc[w] = "list" /\ Eligible(acct[w]) = {}
    /\ Goto(w, "disarm")
    /\ UNCHANGED <<fileVars, lockVars, mem, acct, pick, mode, reply, due, serviceVars, envVars, historyVars>>

(* A failed listing, or a context past its 30 seconds before the claim. *)
GiveUp(w) ==
    /\ pc[w] \in {"list", "rebind", "rcheck", "rlist"}
    /\ IF pc[w] = "rcheck" THEN Record(w) ELSE UNCHANGED due
    /\ Return(w)
    /\ UNCHANGED <<fileVars, serviceVars, envVars, historyVars>>

(* The last local checks: still the same login, credit still unexpired. *)
Rebind(w) ==
    /\ pc[w] = "rebind"
    /\ Goto(w, IF Binds(mem[w].account) /\ now < ExpiresAt[pick[w]] THEN "claim" ELSE "disarm")
    /\ UNCHANGED <<fileVars, lockVars, mem, acct, pick, mode, reply, due, serviceVars, envVars, historyVars>>

(* resetOnceFailed: a save error is only logged. *)
Disarm(w) ==
    /\ pc[w] = "disarm"
    /\ LET s == [mem[w] EXCEPT !.status = "failed"] IN SaveOk(s) \/ SaveFails(s)
    /\ Return(w)
    /\ UNCHANGED <<due, serviceVars, envVars, historyVars>>

-----------------------------------------------------------------------------
ClaimUnsynced(w) ==  \* mutant: POST after a claim that a power failure may undo
    /\ pc[w] = "claim"
    /\ SaveUnsynced(Claimed(w))
    /\ mem' = [mem EXCEPT ![w] = Claimed(w)]
    /\ claims' = claims + 1
    /\ Goto(w, "post")
    /\ UNCHANGED <<lockVars, acct, pick, mode, reply, due, serviceVars, envVars, arms, posts, revoked, refused>>

(* redeemResetCredit: persist the claim, then POST; no POST without a durable *)
(* claim. *)
ClaimOk(w) ==
    /\ pc[w] = "claim"
    /\ SaveOk(Claimed(w))
    /\ mem' = [mem EXCEPT ![w] = Claimed(w)]
    /\ claims' = claims + 1
    /\ Goto(w, "post")
    /\ UNCHANGED <<lockVars, acct, pick, mode, reply, due, serviceVars, envVars, arms, posts, revoked, refused>>

ClaimFails(w) ==
    /\ pc[w] = "claim"
    /\ \/ SaveUnsynced(Claimed(w)) /\ claims' = claims + 1
       \/ UNCHANGED <<fileVars, claims>>
    /\ Return(w)
    /\ UNCHANGED <<due, serviceVars, envVars, arms, posts, revoked, refused>>

SendPost(w) ==
    /\ pc[w] = "post"
    /\ LET p == [request |-> mem[w].request, credit |-> pick[w], account |-> acct[w],
                 arming |-> mem[w].arming, armedAccount |-> mem[w].account, mode |-> mode[w]]
       IN posts' = posts \cup {p} /\ net' = net \cup {p}
    /\ Goto(w, "wait")
    /\ UNCHANGED <<fileVars, lockVars, mem, acct, pick, mode, reply, due, exhausted, spent, envVars, arms, claims, revoked, refused>>

PostErrsRetries(w) ==  \* mutant: an error re-arms the toggle
    /\ pc[w] \in {"post", "wait"}
    /\ SaveOk([mem[w] EXCEPT !.status = "armed", !.credit = NoCredit, !.request = 0])
    /\ Return(w)
    /\ UNCHANGED <<due, serviceVars, envVars, historyVars>>

PostErrsResends(w) ==  \* mutant: no deadline, the request is sent again
    /\ pc[w] = "wait" /\ Goto(w, "post")
    /\ UNCHANGED <<fileVars, lockVars, mem, acct, pick, mode, reply, due, serviceVars, envVars, historyVars>>

(* The request never leaves, the answer does not come in time, or it is not a *)
(* success: the toggle stays unknown. *)
PostErrs(w) ==
    /\ \/ pc[w] \in {"post", "wait"} /\ UNCHANGED refused
       \/ pc[w] = "wait" /\ reply[w] = "refused" /\ refused' = refused \cup {mem[w].request}
    /\ Return(w)
    /\ UNCHANGED <<fileVars, due, serviceVars, envVars, arms, claims, posts, revoked>>

PostConfirmed(w) ==
    /\ pc[w] = "wait" /\ reply[w] = "ok"
    /\ Goto(w, "commit")
    /\ UNCHANGED <<fileVars, lockVars, mem, acct, pick, mode, reply, due, serviceVars, envVars, historyVars>>

CommitOk(w) ==
    /\ pc[w] = "commit"
    /\ SaveOk(Consumed(mem[w])) /\ Goto(w, "after")
    /\ UNCHANGED <<lockVars, mem, acct, pick, mode, reply, due, serviceVars, envVars, historyVars>>

CommitFails(w) ==
    /\ pc[w] = "commit"
    /\ SaveFails(Consumed(mem[w])) /\ Return(w)
    /\ UNCHANGED <<due, serviceVars, envVars, historyVars>>

-----------------------------------------------------------------------------
(* reconcileUnknownResetOnce: a fresh check that the window recovered, then a *)
(* listing without the claimed credit.  An exhausted window ends it whatever *)
(* the listing says.  A service may or may not list an expired credit as *)
(* available. *)
ReconcileCheck(w) ==
    /\ pc[w] = "rcheck"
    /\ Record(w)
    /\ IF exhausted[acct[w]]
       THEN Return(w)
       ELSE /\ Goto(w, "rlist")
            /\ UNCHANGED <<lockVars, mem, acct, pick, mode, reply>>
    /\ UNCHANGED <<fileVars, serviceVars, envVars, historyVars>>

MayBeUnlisted(c, a) == \/ Owner[c] # a
                       \/ c \in spent
                       \/ ExpiresAt[c] <= now

ReconcileList(w) ==
    /\ pc[w] = "rlist"
    /\ MayBeUnlisted(mem[w].credit, acct[w])
    /\ Goto(w, "settle")
    /\ UNCHANGED <<fileVars, lockVars, mem, acct, pick, mode, reply, due, serviceVars, envVars, historyVars>>

Settle(w) ==
    /\ pc[w] = "settle"
    /\ SaveOk(Consumed(mem[w])) \/ SaveFails(Consumed(mem[w]))
    /\ Return(w)
    /\ UNCHANGED <<due, serviceVars, envVars, historyVars>>

-----------------------------------------------------------------------------
StartArmAnyway(w) ==  \* mutant: an unknown outcome may be re-armed
    /\ pc[w] = "idle" /\ arms < MaxArms
    /\ disk.status # "armed"
    /\ Binds(NoAccount)
    /\ Lock(w) /\ Goto(w, "arm")
    /\ acct' = [acct EXCEPT ![w] = cred]
    /\ UNCHANGED <<fileVars, mem, pick, mode, reply, due, serviceVars, envVars, historyVars>>

(* ArmChatGPTResetOnce up to its save.  Arming an armed toggle changes nothing. *)
StartArm(w) ==
    /\ pc[w] = "idle" /\ arms < MaxArms
    /\ disk.status \notin {"unknown", "armed"}
    /\ Binds(NoAccount)
    /\ Lock(w) /\ Goto(w, "arm")
    /\ acct' = [acct EXCEPT ![w] = cred]
    /\ UNCHANGED <<fileVars, mem, pick, mode, reply, due, serviceVars, envVars, historyVars>>

Arm(w) ==
    /\ pc[w] = "arm"
    /\ arms' = arms + 1
    /\ LET s == [status |-> "armed", account |-> acct[w], credit |-> NoCredit,
                 request |-> 0, arming |-> arms + 1]
       IN SaveOk(s) \/ SaveFails(s)
    /\ Return(w)
    /\ UNCHANGED <<due, serviceVars, envVars, claims, posts, revoked, refused>>

(* CancelChatGPTResetOnce up to its save.  An unknown outcome is cancelled only *)
(* with the user's acknowledgement. *)
StartCancel(w, acknowledgeUnknown) ==
    /\ pc[w] = "idle"
    /\ disk.status = "unknown" => acknowledgeUnknown
    /\ Lock(w) /\ Goto(w, "cancel")
    /\ mem' = [mem EXCEPT ![w] = disk]
    /\ UNCHANGED <<fileVars, acct, pick, mode, reply, due, serviceVars, envVars, historyVars>>

CancelUnsaved(w) ==  \* mutant: a failed save is reported as a cancellation
    /\ pc[w] = "cancel"
    /\ LET s == [mem[w] EXCEPT !.status = "cancelled"]
       IN (SaveOk(s) \/ SaveFails(s)) /\ revoked' = revoked \cup {s.arming}
    /\ Return(w)
    /\ UNCHANGED <<due, serviceVars, envVars, arms, claims, posts, refused>>

Cancel(w) ==
    /\ pc[w] = "cancel"
    /\ LET s == [mem[w] EXCEPT !.status = "cancelled"]
       IN \/ SaveOk(s) /\ revoked' = revoked \cup {s.arming}
          \/ SaveFails(s) /\ UNCHANGED revoked
    /\ Return(w)
    /\ UNCHANGED <<due, serviceVars, envVars, arms, claims, posts, refused>>

StartManualUnpinned(w, c) ==  \* mutant: the claim names no account
    /\ pc[w] = "idle" /\ AllowConsume /\ claims < MaxClaims
    /\ disk.status # "unknown"
    /\ Binds(Expected(disk))
    /\ Lock(w) /\ Goto(w, "claim")
    /\ mem' = [mem EXCEPT ![w] = disk]
    /\ acct' = [acct EXCEPT ![w] = cred]
    /\ pick' = [pick EXCEPT ![w] = c]
    /\ mode' = [mode EXCEPT ![w] = "manual"]
    /\ UNCHANGED <<fileVars, reply, due, serviceVars, envVars, historyVars>>

(* consumeManualResetCredit up to its claim, for any credit the caller names. *)
StartManual(w, c) ==
    /\ pc[w] = "idle" /\ AllowConsume /\ claims < MaxClaims
    /\ disk.status # "unknown"
    /\ Binds(Expected(disk))
    /\ Lock(w) /\ Goto(w, "claim")
    /\ mem' = [mem EXCEPT ![w] = [disk EXCEPT !.account = cred]]
    /\ acct' = [acct EXCEPT ![w] = cred]
    /\ pick' = [pick EXCEPT ![w] = c]
    /\ mode' = [mode EXCEPT ![w] = "manual"]
    /\ UNCHANGED <<fileVars, reply, due, serviceVars, envVars, historyVars>>

-----------------------------------------------------------------------------
(* The kernel closes a dead process's lock file, which releases the flock. *)
KillWorkers(dead) ==
    /\ pc' = [w \in Worker |-> IF w \in dead THEN "idle" ELSE pc[w]]
    /\ mem' = [w \in Worker |-> IF w \in dead THEN Off ELSE mem[w]]
    /\ acct' = [w \in Worker |-> IF w \in dead THEN NoAccount ELSE acct[w]]
    /\ pick' = [w \in Worker |-> IF w \in dead THEN NoCredit ELSE pick[w]]
    /\ mode' = [w \in Worker |-> IF w \in dead THEN "auto" ELSE mode[w]]
    /\ reply' = [w \in Worker |-> IF w \in dead THEN "none" ELSE reply[w]]
    /\ mu' = [d \in Daemon |-> IF mu[d] \in dead THEN NoOne ELSE mu[d]]
    /\ flock' = IF flock \in dead THEN NoOne ELSE flock

(* A crash between operations, or a power failure with nothing unsynced, would *)
(* change nothing here. *)
Crash(d) ==
    /\ crashes < MaxCrashes /\ crashes' = crashes + 1
    /\ \E w \in Worker : Home[w] = d /\ pc[w] # "idle"
    /\ KillWorkers({w \in Worker : Home[w] = d})
    /\ UNCHANGED <<fileVars, due, serviceVars, cred, now, events, historyVars>>

PowerLoss ==
    /\ crashes < MaxCrashes /\ crashes' = crashes + 1
    /\ flock # NoOne \/ survivors # {disk}
    /\ KillWorkers(Worker)
    /\ disk' \in survivors /\ survivors' = {disk'}
    /\ UNCHANGED <<due, serviceVars, cred, now, events, historyVars>>

(* The refresh loop's clock. *)
BecomesDue(d) ==
    /\ ~due[d] /\ due' = [due EXCEPT ![d] = TRUE]
    /\ UNCHANGED <<fileVars, lockVars, taskVars, serviceVars, envVars, historyVars>>

-----------------------------------------------------------------------------
(* The upstream service, as ConsumeResetCredit and the reset docs use it. *)
Answer(p, answer) ==
    reply' = [w \in Worker |-> IF pc[w] = "wait" /\ mem[w].request = p.request
                               THEN answer ELSE reply[w]]

ServiceRedeems(p) ==
    /\ p.credit \notin spent /\ Owner[p.credit] = p.account /\ now < ExpiresAt[p.credit]
    /\ spent' = spent \cup {p.credit}
    /\ exhausted' = [exhausted EXCEPT ![p.account] = FALSE]
    /\ net' = net \ {p}
    /\ Answer(p, "ok")
    /\ UNCHANGED <<fileVars, lockVars, pc, mem, acct, pick, mode, due, envVars, historyVars>>

(* A credit spent before is answered already_redeemed, a confirmed success. *)
ServiceAlreadyRedeemed(p) ==
    /\ p.credit \in spent
    /\ net' = net \ {p}
    /\ Answer(p, "ok")
    /\ UNCHANGED <<fileVars, lockVars, pc, mem, acct, pick, mode, due, exhausted, spent, envVars, historyVars>>

ServiceRefuses(p) ==
    /\ net' = net \ {p}
    /\ Answer(p, "refused")
    /\ UNCHANGED <<fileVars, lockVars, pc, mem, acct, pick, mode, due, exhausted, spent, envVars, historyVars>>

PostLost(p) ==
    /\ net' = net \ {p}
    /\ UNCHANGED <<fileVars, lockVars, taskVars, due, exhausted, spent, envVars, historyVars>>

Event == events < MaxEvents /\ events' = events + 1

SwitchAccount(a) ==
    /\ Event /\ a # cred /\ cred' = a
    /\ UNCHANGED <<fileVars, lockVars, taskVars, due, serviceVars, now, crashes, historyVars>>

WindowChanges(a) ==
    /\ Event /\ exhausted' = [exhausted EXCEPT ![a] = ~exhausted[a]]
    /\ UNCHANGED <<fileVars, lockVars, taskVars, due, spent, net, cred, now, crashes, historyVars>>

SpentElsewhere(c) ==
    /\ Event /\ c \notin spent
    /\ spent' = spent \cup {c}
    /\ exhausted' = [exhausted EXCEPT ![Owner[c]] = FALSE]
    /\ UNCHANGED <<fileVars, lockVars, taskVars, due, net, cred, now, crashes, historyVars>>

Tick ==
    /\ now < MaxClock /\ now' = now + 1
    /\ UNCHANGED <<fileVars, lockVars, taskVars, due, serviceVars, cred, crashes, events, historyVars>>

-----------------------------------------------------------------------------
RefreshStep(w) ==
    \/ StartRefresh(w) \/ ReadInactive(w) \/ ReadUnknown(w) \/ ReadArmed(w)
    \/ PlainFetch(w) \/ CheckGoesOn(w) \/ CheckStops(w)
    \/ ListPicks(w) \/ ListEmpty(w) \/ GiveUp(w) \/ Rebind(w) \/ Disarm(w)
    \/ ReconcileCheck(w) \/ ReconcileList(w) \/ Settle(w)

RedeemStep(w) ==
    \/ ClaimOk(w) \/ ClaimFails(w) \/ SendPost(w) \/ PostErrs(w)
    \/ PostConfirmed(w) \/ CommitOk(w) \/ CommitFails(w)

ControlStep(w) ==
    \/ StartUseNow(w) \/ StartArm(w) \/ Arm(w) \/ Cancel(w)
    \/ \E acknowledged \in BOOLEAN : StartCancel(w, acknowledged)
    \/ \E c \in Credit : StartManual(w, c)

ServiceStep ==
    \E p \in net : \/ ServiceRedeems(p) \/ ServiceAlreadyRedeemed(p)
                   \/ ServiceRefuses(p) \/ PostLost(p)

EnvStep ==
    \/ \E d \in Daemon : Crash(d) \/ BecomesDue(d)
    \/ PowerLoss \/ Tick
    \/ \E a \in Account \cup {NoAccount} : SwitchAccount(a)
    \/ \E a \in Account : WindowChanges(a)
    \/ \E c \in Credit : SpentElsewhere(c)

Next ==
    \/ \E w \in Worker : RefreshStep(w) \/ RedeemStep(w) \/ ControlStep(w)
    \/ ServiceStep
    \/ EnvStep

Spec == Init /\ [][Next]_vars

-----------------------------------------------------------------------------
(* At most one worker of all daemons is inside an operation on the toggle: the *)
(* lock comment in refreshChatGPTResetOnce ("cannot interleave"). *)
MutualExclusion == \A v, w \in Worker : pc[v] # "idle" /\ pc[w] # "idle" => v = w

(* No sequence of operations, failed saves and power failures leaves a file *)
(* that readResetOnce rejects, which would block the toggle until it is *)
(* deleted by hand. *)
FileStaysReadable == \A s \in survivors \cup {disk} : Valid(s)

(* An arming authorises at most one automatic POST, and none once any POST was *)
(* sent under it (an explicit consume uses the authorisation up): across *)
(* daemons, crashes, power failures and lost answers. *)
SpendAtMostOnce ==
    \A p, q \in posts : p.mode = "auto" /\ p.arming = q.arming => p.request <= q.request

(* A POST leaves only after its claim is all that can be found on disk, even *)
(* after a power failure: redeemResetCredit, "claim not durable; no credit sent". *)
PostsAreClaimed ==
    \A p \in posts' \ posts : \A s \in survivors' :
        s.status = "unknown" /\ s.request = p.request /\ s.credit = p.credit
ClaimDurableBeforePost == [][PostsAreClaimed]_vars

(* Once a cancellation has been reported as done, its arming never spends. *)
PostsAreNotRevoked == \A p \in posts' \ posts : p.mode = "auto" => p.arming \notin revoked
CancelIsFinal == [][PostsAreNotRevoked]_vars

(* A durable unknown outcome ends only as consumed or cancelled, for the same *)
(* request; it is never forgotten, re-armed or claimed again. *)
UnknownIsResolved ==
    disk.status = "unknown" /\ survivors = {disk} /\ disk' # disk =>
        disk'.status \in {"consumed", "cancelled"} /\ disk'.request = disk.request
UnknownIsSticky == [][UnknownIsResolved]_vars

(* An automatic POST is sent as the account that was armed, for one of its own *)
(* credits, however the credentials change meanwhile (BindAccount). *)
PostsStayOnArmedAccount ==
    \A p \in posts : p.mode = "auto" => p.account = p.armedAccount /\ Owner[p.credit] = p.account

(* The toggle is the authority of SpendOnce: an arming grants it, a POST that *)
(* the daemon sends by itself spends it, and it is gone once a cancellation was *)
(* reported or an explicit consume was sent. *)
SentBy(m) == {p \in posts : p.mode = m}
Authority == INSTANCE SpendOnce WITH
    granted   <- arms,
    withdrawn <- revoked \cup {p.arming : p \in SentBy("manual")},
    spends    <- {[authority |-> p.arming, credit |-> p.credit, account |-> p.account]
                    : p \in SentBy("auto")}
ImplementsSpendOnce == Authority!Spec

-----------------------------------------------------------------------------
(* Why the properties hold: an inductive invariant, in parts. *)

(* A worker inside an operation holds both locks. *)
LockInv == \A w \in Worker : pc[w] # "idle" => flock = w /\ mu[Home[w]] = w

(* Whatever may be on disk is valid and was written by this system. *)
FileInv ==
    /\ disk \in survivors
    /\ \A s \in survivors : Valid(s) /\ s.arming <= arms /\ s.request <= claims

(* What a worker holds agrees with the file it read, which nobody else can *)
(* have changed since. *)
TaskInv ==
    \A w \in Worker :
       /\ pc[w] \in {"check1", "list", "check2", "rebind", "disarm"} =>
             mem[w] = disk /\ disk.status = "armed"
       /\ pc[w] \in {"check1", "list", "check2", "rebind"} => acct[w] = mem[w].account
       /\ pc[w] \in {"check2", "rebind"} => pick[w] \in Credit /\ Owner[pick[w]] = acct[w]
       /\ pc[w] \in {"rcheck", "rlist", "settle"} => mem[w] = disk /\ disk.status = "unknown"
       /\ pc[w] \in {"rcheck", "rlist"} => acct[w] \in Account
       /\ pc[w] = "cancel" => mem[w] = disk
       /\ pc[w] = "arm" => acct[w] \in Account /\ disk.status \notin {"unknown", "armed"}
       /\ pc[w] \in {"claim", "post"} =>
             /\ pick[w] \in Credit /\ acct[w] \in Account /\ mem[w].account = acct[w]
             /\ mode[w] = "auto" => Owner[pick[w]] = acct[w]
       /\ pc[w] = "claim" =>
             /\ disk.status # "unknown" /\ mem[w].arming = disk.arming
             /\ mode[w] = "auto" => disk.status = "armed"
       /\ pc[w] \in {"post", "wait", "commit"} =>
             /\ mem[w] = disk /\ survivors = {disk} /\ disk.status = "unknown"
       /\ pc[w] = "post" =>
             /\ mem[w].credit = pick[w]
             /\ \A p \in posts : p.request < mem[w].request
             /\ mode[w] = "auto" => /\ mem[w].arming > 0
                                    /\ mem[w].arming \notin revoked
                                    /\ \A p \in posts : p.arming # mem[w].arming

(* An armed toggle that may be on disk has neither been used nor cancelled. *)
AuthorityInv ==
    /\ \A p \in posts : p.request <= claims /\ p.arming <= arms
    /\ \A g \in revoked : g <= arms
    /\ \A s \in survivors : s.status = "armed" =>
          /\ s.arming \notin revoked
          /\ \A p \in posts : p.arming # s.arming

IInv ==
    /\ TypeOK /\ LockInv /\ FileInv /\ TaskInv /\ AuthorityInv
    /\ SpendAtMostOnce /\ PostsStayOnArmedAccount

-----------------------------------------------------------------------------
(* Scheduling.  The refresh loop ticks for ever, and a goroutine inside an *)
(* operation keeps running: its network calls are bounded by a 30 second *)
(* context. *)
WorkerRuns(w) ==
    \/ ReadInactive(w) \/ ReadUnknown(w) \/ ReadArmed(w)
    \/ PlainFetch(w) \/ CheckGoesOn(w) \/ CheckStops(w)
    \/ ListPicks(w) \/ ListEmpty(w) \/ GiveUp(w) \/ Rebind(w) \/ Disarm(w)
    \/ ReconcileCheck(w) \/ ReconcileList(w) \/ Settle(w)
    \/ RedeemStep(w) \/ Arm(w) \/ Cancel(w)

FairSpec ==
    /\ Spec
    /\ \A d \in Daemon : WF_vars(BecomesDue(d))
    /\ \A w \in Worker : WF_vars(WorkerRuns(w))

(* A file read, a usage or listing call, or a save of the toggle that fails. *)
Failure(w) ==
    \/ ReadInactive(w) /\ disk.status = "armed"
    \/ ReadInactive(w) /\ disk.status = "unknown" /\ Binds(disk.account)
    \/ CheckStops(w) /\ exhausted[acct[w]]
    \/ /\ GiveUp(w)
       /\ pc[w] = "rcheck" => ~exhausted[acct[w]]
       /\ pc[w] = "rlist" => mem[w].credit \in spent
    \/ ClaimFails(w)
    \/ (Disarm(w) \/ Settle(w)) /\ disk' = disk

(* What the next two properties take for granted: such failures stop, and the *)
(* daemon's refresh, retried every second while due, is not kept from the lock *)
(* for ever. *)
Reliable ==
    /\ \A w \in Worker : SF_vars(StartRefresh(w))
    /\ <>[][\A w \in Worker : ~Failure(w)]_vars

(* Every operation ends and frees the toggle for the next one, whether or not *)
(* the service ever answers. *)
LockIsReleased == \A w \in Worker : pc[w] # "idle" ~> pc[w] = "idle"

(* The daemon does not sit for ever on an armed toggle while the armed *)
(* account's window stays exhausted: it spends, or it disarms. *)
ArmedActs ==
    Reliable => ~<>[](disk.status = "armed" /\ exhausted[disk.account])

(* An unknown outcome whose credit was in fact redeemed does not stay unknown *)
(* once the window has recovered and the same account is logged in. *)
SpentOutcomeIsSettled ==
    Reliable => ~<>[](/\ disk.status = "unknown" /\ disk.credit \in spent
                      /\ disk.account = cred /\ ~exhausted[cred])

-----------------------------------------------------------------------------
(* docs/CLAUDE_RESET_CREDITS.md: "Other 2xx results such as not_limited, cooldown, *)
(* and ineligible are treated as a confirmed non-spend". *)
NonSpendIsConfirmed ==
    disk.status = "unknown" /\ flock = NoOne => disk.request \notin refused
=============================================================================

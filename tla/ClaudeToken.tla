---------------------------- MODULE ClaudeToken ----------------------------
(***************************************************************************)
(* The Claude Code credential file and everyone who rotates the OAuth       *)
(* token in it: usagent's daemon and command line clients, each repairing a *)
(* rejected access token under Claude Code's lock directories               *)
(* (src/internal/providers/claude/claude.go), and Claude Code itself, which *)
(* logs in at any time.  A lock directory is taken with mkdir, kept fresh   *)
(* by a heartbeat, and removed by whoever sees it untouched for a minute.   *)
(*                                                                         *)
(* Some processes work on a bound copy of the provider (BindAccount): an    *)
(* automated reset reads usage, lists credits, reads usage again, and posts *)
(* the redemption, all with the token read at the start.                    *)
(***************************************************************************)
EXTENDS Integers, Sequences, FiniteSets, SequencesExt

CONSTANTS Process,      \* calls that may run at once, in any process
          Bound,        \* those that run an automated reset of ArmedAccount
          Path,         \* lock directories
          Paths,        \* [Process -> Seq(Path)] in the order they are taken
          Account, ArmedAccount,
          FirstOrg,     \* what the account file names at first, if anything
          NoOne,        \* no directory; no organization recorded
          MaxExpiries,  \* bounds: access tokens the service stops accepting,
          MaxMishaps    \*   logins by the user, deaths of a process, suspensions
                        \*   for over a minute, failed requests and writes

ASSUME BoundAssumption == Bound \subseteq Process
ASSUME PathsAssumption ==
  /\ Paths \in [Process -> Seq(Path)]
  /\ \A p \in Process : Paths[p] # << >> /\ IsInjective(Paths[p])
\* The real directory of the credential file is locked by whoever repairs it, by
\* whichever path it was told of the file (claude.go:501-513).
ASSUME SharedAssumption == \E l \in Path : \A p \in Process : l \in Range(Paths[p])
ASSUME AccountAssumption == ArmedAccount \in Account /\ FirstOrg \in {ArmedAccount, NoOne}
ASSUME NoOneAssumption == NoOne \notin Process \cup Account
ASSUME LimitAssumption ==
  {MaxExpiries, MaxMishaps} \subseteq Nat

VARIABLES
  file,      \* claudeAiOauth in the credential file; refresh 0: it has none
  orgFile,   \* organizationUuid in the account file
  login,     \* the login under way: account and the files it has yet to write
  readOnly,  \* the credential directory is mounted read-only
  issued,    \* the service: the account of each access token, in issue order
  rejected,  \* the service: access tokens answered with 401
  spent,     \* the service: refresh tokens that were exchanged and rotated
  dir,       \* who made the lock directory at each path
  stale,     \* paths whose directory was not touched for a minute
  pc, has, fresh, token, own,  \* a call: where it is, the credentials it works
             \* from, the answer to its exchange, the token for the second
             \* try, and the directory it recorded for each path it has taken
  left, org, readFrom,  \* usage reads to go, organization, accounts answered
  stalled,   \* suspended processes
  count,     \* how much of each bound is used
  raced, lost, slipped  \* history: a running holder's directory was removed;
             \* refresh tokens whose replacement is gone; calls about to write
             \* while the file changed

files == << file, orgFile, login, readOnly >>
service == << issued, rejected, spent >>
locks == << dir, stale >>
work == << has, fresh, token >>
reset == << left, org, readFrom >>
history == << raced, lost, slipped >>
vars == << files, service, locks, pc, work, own, reset, stalled, count, history >>

Limit == [expiries |-> MaxExpiries, mishaps |-> MaxMishaps]
Use(kind) == /\ count[kind] < Limit[kind]
             /\ count' = [count EXCEPT ![kind] = @ + 1]

NoCredentials == [access |-> 0, refresh |-> 0]

Init ==
  /\ file = [access |-> 1, refresh |-> 1]
  /\ issued = << ArmedAccount >>
  /\ orgFile = FirstOrg
  /\ login = [account |-> ArmedAccount, left |-> {}]
  /\ readOnly \in BOOLEAN
  /\ rejected = {} /\ spent = {}
  /\ dir = [l \in Path |-> NoOne] /\ stale = {}
  /\ pc = [p \in Process |-> "idle"]
  /\ has = [p \in Process |-> NoCredentials]
  /\ fresh = [p \in Process |-> NoCredentials]
  /\ token = [p \in Process |-> 0]
  /\ own = [p \in Process |-> << >>]
  /\ left = [p \in Process |-> 0]
  /\ org = [p \in Process |-> NoOne]
  /\ readFrom = [p \in Process |-> {}]
  /\ stalled = {}
  /\ count = [k \in DOMAIN Limit |-> 0]
  /\ raced = FALSE /\ lost = {} /\ slipped = {}

-----------------------------------------------------------------------------
(* A call: the provider reads the file, asks for usage, and on a 401        *)
(* repairs the token and asks once more.                                    *)

At(p, label) == pc[p] = label /\ p \notin stalled
Goto(p, label) == pc' = [pc EXCEPT ![p] = label]
\* What a call forgets when it returns.
Return(p) ==
  /\ Goto(p, "idle")
  /\ has' = [has EXCEPT ![p] = NoCredentials]
  /\ fresh' = [fresh EXCEPT ![p] = NoCredentials]
  /\ token' = [token EXCEPT ![p] = 0]
  /\ left' = [left EXCEPT ![p] = 0]
  /\ org' = [org EXCEPT ![p] = NoOne]
  /\ readFrom' = [readFrom EXCEPT ![p] = {}]
  /\ slipped' = slipped \ {p}

Start(p) ==
  /\ At(p, "idle") /\ p \notin Bound
  /\ has' = [has EXCEPT ![p] = file]
  /\ left' = [left EXCEPT ![p] = 1]
  /\ Goto(p, "usage")
  /\ UNCHANGED << files, service, locks, fresh, token, own, org, readFrom,
                  stalled, count, history >>

\* credentials(): the token comes from one file and the organization from
\* another, in two reads.  A bound copy carries no refresh token.
BindToken(p) ==
  /\ At(p, "idle") /\ p \in Bound
  /\ has' = [has EXCEPT ![p] = [access |-> file.access, refresh |-> 0]]
  /\ left' = [left EXCEPT ![p] = 3]
  /\ Goto(p, "bind")
  /\ UNCHANGED << files, service, locks, fresh, token, own, org, readFrom,
                  stalled, count, history >>

\* BindAccount: without an account file the organization is asked for with a
\* request that has no deadline; another organization than the armed one ends
\* the call.
BindOrg(p) ==
  /\ At(p, "bind")
  /\ IF orgFile = NoOne
     THEN /\ Goto(p, "profile")
          /\ UNCHANGED << work, reset, slipped >>
     ELSE IF orgFile # ArmedAccount THEN Return(p)
     ELSE /\ org' = [org EXCEPT ![p] = orgFile]
          /\ Goto(p, IF left[p] = 0 THEN "redeem" ELSE "usage")
          /\ UNCHANGED << work, left, readFrom, slipped >>
  /\ UNCHANGED << files, service, locks, own, stalled, count, raced, lost >>

\* BindAccount again, just before the redemption: it reads the file anew, but
\* only the organization is compared; the bound token stays.
Profile(p) ==
  /\ At(p, "profile")
  /\ LET asked == IF left[p] = 0 THEN file.access ELSE has[p].access
         found == IF orgFile # NoOne THEN orgFile
                  ELSE IF asked \in rejected THEN NoOne ELSE issued[asked]
     IN  IF found # ArmedAccount THEN Return(p)
         ELSE /\ org' = [org EXCEPT ![p] = found]
              /\ Goto(p, IF left[p] = 0 THEN "redeem" ELSE "usage")
              /\ UNCHANGED << work, left, readFrom, slipped >>
  /\ UNCHANGED << files, service, locks, own, stalled, count, raced, lost >>

\* A successful usage read or listing.  A plain call is done; a reset goes on
\* to its next read, then binds again, unless it sees nothing to redeem.
Answered(p, access) ==
  \/ Return(p)
  \/ /\ p \in Bound
     /\ readFrom' = [readFrom EXCEPT ![p] = @ \cup {issued[access]}]
     /\ left' = [left EXCEPT ![p] = @ - 1]
     /\ token' = [token EXCEPT ![p] = 0]
     /\ fresh' = [fresh EXCEPT ![p] = NoCredentials]
     /\ Goto(p, IF left[p] = 1 THEN "bind" ELSE "usage")
     /\ UNCHANGED << has, org, slipped >>

\* Mutant: a bound copy reads the file for each request.
UsageUnbound(p) ==
  /\ At(p, "usage")
  /\ \/ file.access \notin rejected /\ Answered(p, file.access)
     \/ /\ file.access \in rejected
        /\ Goto(p, "mkdir")
        /\ UNCHANGED << work, reset, slipped >>
  /\ UNCHANGED << files, service, locks, own, stalled, count, raced, lost >>

Usage(p) ==
  /\ At(p, "usage")
  /\ \/ has[p].access \notin rejected /\ Answered(p, has[p].access)
     \/ /\ has[p].access \in rejected
        /\ Goto(p, "mkdir")
        /\ UNCHANGED << work, reset, slipped >>
  /\ UNCHANGED << files, service, locks, own, stalled, count, raced, lost >>

\* The one retry: a second 401 is returned as an error.
Retry(p) ==
  /\ At(p, "retry")
  /\ IF token[p] \in rejected THEN Return(p) ELSE Answered(p, token[p])
  /\ UNCHANGED << files, service, locks, own, stalled, count, raced, lost >>

\* Any other failure of a usage request ends the call.
UsageFails(p) ==
  /\ At(p, "usage") \/ At(p, "retry")
  /\ Use("mishaps")
  /\ Return(p)
  /\ UNCHANGED << files, service, locks, own, stalled, raced, lost >>

\* The redemption is posted with the bound token and organization; the service
\* accepts it from a token of that organization.  What follows is in ResetOnce.
Redeem(p) ==
  /\ At(p, "redeem")
  /\ Return(p)
  /\ UNCHANGED << files, service, locks, own, stalled, count, raced, lost >>
Accepted(p) == has[p].access \notin rejected /\ issued[has[p].access] = org[p]

-----------------------------------------------------------------------------
(* Lock directories (acquireLockDir, keepLockAlive, ownsLock).              *)

\* The path a call takes next, and the one it gives up next.
Wanted(p) == Paths[p][Len(own[p]) + 1]
Newest(p) == Paths[p][Len(own[p])]
\* Calls that took the directory now at l and have not given it up.
Holding(p, l) ==
  /\ dir[l] = p
  /\ \/ pc[p] = "stat" /\ Wanted(p) = l
     \/ \E i \in DOMAIN own[p] : Paths[p][i] = l /\ own[p][i] = p

\* Removing a directory whose maker still relies on it.
RemoveDir(p, l) ==
  /\ dir' = [dir EXCEPT ![l] = NoOne]
  /\ stale' = stale \ {l}
  /\ raced' = (raced \/ \E q \in Process \ {p} : Holding(q, l))

\* Mutant: a call that succeeds on an existing directory.
MkdirAll(p) ==
  /\ At(p, "mkdir") /\ Wanted(p) \notin stale
  /\ dir' = [dir EXCEPT ![Wanted(p)] = p]
  /\ Goto(p, "stat")
  /\ UNCHANGED << files, service, stale, work, own, reset, stalled, count, history >>
Mkdir(p) ==
  /\ At(p, "mkdir") /\ dir[Wanted(p)] = NoOne
  /\ dir' = [dir EXCEPT ![Wanted(p)] = p]
  /\ stale' = stale \ {Wanted(p)}
  /\ Goto(p, "stat")
  /\ UNCHANGED << files, service, work, own, reset, stalled, count, history >>

GiveUp(p) == Goto(p, "release") /\ token' = [token EXCEPT ![p] = 0]

\* The directory just made is identified by a stat of its path; if it is gone
\* by then, the call removes whatever has come in its place, and gives up.
OwnStat(p) ==
  /\ At(p, "stat")
  /\ IF dir[Wanted(p)] = NoOne
     THEN Goto(p, "drop") /\ UNCHANGED own
     ELSE /\ own' = [own EXCEPT ![p] = Append(@, dir[Wanted(p)])]
          /\ Goto(p, IF Len(own[p]) + 1 = Len(Paths[p]) THEN "reread" ELSE "mkdir")
  /\ UNCHANGED << files, service, locks, work, reset, stalled, count, history >>
Drop(p) ==
  /\ At(p, "drop")
  /\ RemoveDir(p, Wanted(p))
  /\ GiveUp(p)
  /\ UNCHANGED << files, service, has, fresh, own, reset, stalled, count, lost, slipped >>

\* Mutant: an abandoned directory is waited for like any other.
SeeStaleWaits(p) ==
  /\ At(p, "mkdir") /\ Wanted(p) \in stale
  /\ GiveUp(p)
  /\ UNCHANGED << files, service, locks, has, fresh, own, reset, stalled, count,
                  history >>

\* mkdir found a directory.  A stale one is removed by path in a later step,
\* whatever is there by then; else the call waits, ten seconds at most.
SeeStale(p) ==
  /\ At(p, "mkdir") /\ Wanted(p) \in stale
  /\ Goto(p, "remove")
  /\ UNCHANGED << files, service, locks, work, own, reset, stalled, count, history >>
RemoveStale(p) ==
  /\ At(p, "remove")
  /\ RemoveDir(p, Wanted(p))
  /\ Goto(p, "mkdir")
  /\ UNCHANGED << files, service, work, own, reset, stalled, count, lost, slipped >>
Timeout(p) ==
  /\ At(p, "mkdir") /\ dir[Wanted(p)] # NoOne /\ Wanted(p) \notin stale
  /\ GiveUp(p)
  /\ UNCHANGED << files, service, locks, has, fresh, own, reset, stalled, count,
                  history >>

\* Release in reverse order.  Each heartbeat is stopped, and the directory is
\* removed if a stat says that it is still the one recorded.
Release(p) ==
  /\ At(p, "release") /\ own[p] # << >>
  /\ IF dir[Newest(p)] = Last(own[p])
     THEN Goto(p, "unlink") /\ UNCHANGED own
     ELSE own' = [own EXCEPT ![p] = Front(@)] /\ UNCHANGED pc
  /\ UNCHANGED << files, service, locks, work, reset, stalled, count, history >>
Unlink(p) ==
  /\ At(p, "unlink")
  /\ RemoveDir(p, Newest(p))
  /\ own' = [own EXCEPT ![p] = Front(@)]
  /\ Goto(p, "release")
  /\ UNCHANGED << files, service, work, reset, stalled, count, lost, slipped >>
Released(p) ==
  /\ At(p, "release") /\ own[p] = << >>
  /\ IF token[p] = 0 THEN Return(p)
     ELSE Goto(p, "retry") /\ UNCHANGED << work, reset, slipped >>
  /\ UNCHANGED << files, service, locks, own, stalled, count, raced, lost >>

\* A heartbeat every five seconds touches the directory of a running holder; an
\* abandoned one goes untouched for a minute.
Heartbeat(p) ==
  /\ p \notin stalled
  /\ \E l \in stale : Holding(p, l) /\ stale' = stale \ {l}
  /\ UNCHANGED << files, service, dir, pc, work, own, reset, stalled, count, history >>
Age(l) ==
  /\ dir[l] # NoOne /\ l \notin stale
  /\ \A p \in Process \ stalled : ~Holding(p, l)
  /\ stale' = stale \cup {l}
  /\ UNCHANGED << files, service, dir, pc, work, own, reset, stalled, count, history >>

-----------------------------------------------------------------------------
(* Repair under the locks (recoverRejectedToken, saveRefreshedCredentials). *)

\* Mutant: a directory that cannot be written is noticed when the file is saved.
RereadUnchecked(p) ==
  /\ At(p, "reread")
  /\ IF file.access # has[p].access
     THEN /\ Goto(p, "release") /\ token' = [token EXCEPT ![p] = file.access]
          /\ UNCHANGED has
     ELSE Goto(p, "exchange") /\ has' = [has EXCEPT ![p] = file] /\ UNCHANGED token
  /\ UNCHANGED << files, service, locks, fresh, own, reset, stalled, count, history >>

\* Somebody else's repair is used as it is.  The directory is tried for writing
\* before the refresh token is used up.
Reread(p) ==
  /\ At(p, "reread")
  /\ \/ /\ file.access # has[p].access
        /\ Goto(p, "release")
        /\ token' = [token EXCEPT ![p] = file.access]
        /\ UNCHANGED has
     \/ /\ file.access = has[p].access
        /\ file.refresh = 0 \/ readOnly
        /\ GiveUp(p)
        /\ UNCHANGED has
     \/ /\ file.access = has[p].access
        /\ file.refresh # 0 /\ ~readOnly
        /\ has' = [has EXCEPT ![p] = file]
        /\ Goto(p, "exchange")
        /\ UNCHANGED token
  /\ UNCHANGED << files, service, locks, fresh, own, reset, stalled, count, history >>

\* The service answers with a new access token, and a new refresh token or none
\* (the old one stays good).
Issue(p, rotated) ==
  LET n == Len(issued) + 1 IN
  /\ issued' = Append(issued, issued[has[p].refresh])
  /\ spent' = IF rotated THEN spent \cup {has[p].refresh} ELSE spent
  /\ fresh' = [fresh EXCEPT ![p] = [access |-> n,
                                    refresh |-> IF rotated THEN n ELSE has[p].refresh]]
Exchange(p) ==
  /\ At(p, "exchange") /\ has[p].refresh \notin spent
  /\ \E rotated \in BOOLEAN : Issue(p, rotated)
  /\ Goto(p, "save")
  /\ UNCHANGED << files, rejected, locks, has, token, own, reset, stalled, count,
                  history >>
\* The answer is lost on its way.
ExchangeUnanswered(p) ==
  /\ At(p, "exchange") /\ has[p].refresh \notin spent
  /\ Use("mishaps")
  /\ issued' = Append(issued, issued[has[p].refresh])
  /\ spent' = spent \cup {has[p].refresh}
  /\ lost' = lost \cup {has[p].refresh}
  /\ GiveUp(p)
  /\ UNCHANGED << files, rejected, locks, has, fresh, own, reset, stalled, raced,
                  slipped >>
\* The service refuses a refresh token that was used up.
ExchangeRefused(p) ==
  /\ At(p, "exchange") /\ has[p].refresh \in spent
  /\ GiveUp(p)
  /\ UNCHANGED << files, service, locks, has, fresh, own, reset, stalled, count,
                  history >>

\* Mutant: the answer is written without another look.
SaveBlindly(p) ==
  /\ At(p, "save")
  /\ Goto(p, "write")
  /\ UNCHANGED << files, service, locks, work, own, reset, stalled, count, history >>
\* The file is read once more: a login since then wins.
Save(p) ==
  /\ At(p, "save")
  /\ IF file # has[p]
     THEN Goto(p, "release") /\ token' = [token EXCEPT ![p] = file.access]
     ELSE Goto(p, "write") /\ UNCHANGED token
  /\ UNCHANGED << files, service, locks, has, fresh, own, reset, stalled, count,
                  history >>

Writing == {p \in Process : pc[p] = "write"}
\* writeCredentials renames a synced temporary file over the old one; if the
\* sync of the directory fails after that, the call ends in an error.
Write(p) ==
  /\ At(p, "write") /\ ~readOnly
  /\ file' = fresh[p]
  /\ slipped' = (slipped \cup Writing) \ {p}
  /\ \/ /\ token' = [token EXCEPT ![p] = fresh[p].access]
        /\ Goto(p, "release")
        /\ UNCHANGED count
     \/ GiveUp(p) /\ Use("mishaps")
  /\ UNCHANGED << orgFile, login, readOnly, service, locks, has, fresh, own, reset,
                  stalled, raced, lost >>
WriteFails(p) ==
  /\ At(p, "write")
  /\ readOnly \/ Use("mishaps")
  /\ readOnly => UNCHANGED count
  /\ lost' = IF readOnly THEN lost ELSE lost \cup {has[p].refresh}
  /\ GiveUp(p)
  /\ UNCHANGED << files, service, locks, has, fresh, own, reset, stalled, raced,
                  slipped >>

-----------------------------------------------------------------------------
(* The world: the service, the user's logins, deaths and suspensions.       *)

Expire(n) ==
  /\ n \in DOMAIN issued \ rejected
  /\ Use("expiries")
  /\ rejected' = rejected \cup {n}
  /\ UNCHANGED << files, issued, spent, locks, pc, work, own, reset, stalled, history >>

\* Claude Code logs in without these locks: it writes the two files in either
\* order, and the account file may come to name no organization.
Login(a) ==
  /\ login.left = {} /\ ~readOnly
  /\ Use("mishaps")
  /\ login' = [account |-> a, left |-> {"credentials", "account"}]
  /\ UNCHANGED << file, orgFile, readOnly, service, locks, pc, work, own, reset,
                  stalled, history >>
LoginWritesToken ==
  /\ "credentials" \in login.left
  /\ issued' = Append(issued, login.account)
  /\ file' = [access |-> Len(issued) + 1, refresh |-> Len(issued) + 1]
  /\ login' = [login EXCEPT !.left = @ \ {"credentials"}]
  /\ slipped' = slipped \cup Writing
  /\ UNCHANGED << orgFile, readOnly, rejected, spent, locks, pc, work, own, reset,
                  stalled, count, raced, lost >>
LoginWritesOrg ==
  /\ "account" \in login.left
  /\ orgFile' \in {login.account, NoOne}
  /\ login' = [login EXCEPT !.left = @ \ {"account"}]
  /\ UNCHANGED << file, readOnly, service, locks, pc, work, own, reset, stalled,
                  count, history >>

\* A dead process leaves its lock directories, and takes an unsaved answer with
\* it.
Crash(p) ==
  /\ pc[p] # "idle"
  /\ Use("mishaps")
  /\ Return(p)
  /\ own' = [own EXCEPT ![p] = << >>]
  /\ stalled' = stalled \ {p}
  /\ lost' = IF pc[p] \in {"save", "write"} THEN lost \cup {has[p].refresh} ELSE lost
  /\ UNCHANGED << files, service, locks, raced >>
Stall(p) ==
  /\ p \notin stalled /\ pc[p] # "idle"
  /\ Use("mishaps")
  /\ stalled' = stalled \cup {p}
  /\ UNCHANGED << files, service, locks, pc, work, own, reset, history >>
Resume(p) ==
  /\ p \in stalled
  /\ stalled' = stalled \ {p}
  /\ UNCHANGED << files, service, locks, pc, work, own, reset, count, history >>

Step(p) ==
  \/ BindOrg(p) \/ Usage(p) \/ Retry(p) \/ Redeem(p)
  \/ Mkdir(p) \/ OwnStat(p) \/ Drop(p) \/ SeeStale(p) \/ RemoveStale(p) \/ Timeout(p)
  \/ Release(p) \/ Unlink(p) \/ Released(p)
  \/ Reread(p) \/ Exchange(p) \/ ExchangeRefused(p) \/ Save(p) \/ Write(p)
Begin(p) == Start(p) \/ BindToken(p)
Fault(p) == UsageFails(p) \/ ExchangeUnanswered(p) \/ WriteFails(p)

Next ==
  \/ \E p \in Process : \/ Begin(p) \/ Step(p) \/ Fault(p) \/ Profile(p)
                        \/ Heartbeat(p) \/ Crash(p) \/ Stall(p) \/ Resume(p)
  \/ \E l \in Path : Age(l)
  \/ \E n \in DOMAIN issued : Expire(n)
  \/ \E a \in Account : Login(a)
  \/ LoginWritesToken \/ LoginWritesOrg

Spec == Init /\ [][Next]_vars

\* The daemon polls for ever, requests have deadlines (the profile lookup has
\* none), a suspended process wakes up and time passes.
FairSpec ==
  /\ Spec
  /\ \A p \in Process : WF_vars(Begin(p) \/ Step(p) \/ Resume(p))
  /\ WF_vars(\E l \in Path : Age(l))

-----------------------------------------------------------------------------
(* Properties.                                                              *)

Labels == {"idle", "bind", "profile", "usage", "retry", "redeem", "mkdir", "stat", "drop",
           "remove", "release", "unlink", "reread", "exchange", "save", "write"}

\* Every variable holds a value of its kind, the file and the calls name tokens
\* the service issued, and a call records at most one directory per path.
TypeOK ==
  /\ {file.access, file.refresh} \subseteq 0 .. Len(issued) /\ file.access # 0
  /\ orgFile \in Account \cup {NoOne}
  /\ login \in [account : Account, left : SUBSET {"credentials", "account"}]
  /\ readOnly \in BOOLEAN /\ raced \in BOOLEAN
  /\ issued \in Seq(Account)
  /\ rejected \cup spent \cup lost \subseteq DOMAIN issued
  /\ dir \in [Path -> Process \cup {NoOne}] /\ stale \subseteq Path
  /\ pc \in [Process -> Labels]
  /\ \A p \in Process :
       /\ {has[p].access, has[p].refresh, fresh[p].access, fresh[p].refresh, token[p]}
            \subseteq 0 .. Len(issued)
       /\ Len(own[p]) <= Len(Paths[p]) /\ Range(own[p]) \subseteq Process
       /\ readFrom[p] \subseteq Account
  /\ left \in [Process -> 0 .. 3]
  /\ org \in [Process -> Account \cup {NoOne}]
  /\ stalled \cup slipped \subseteq Process
  /\ \A k \in DOMAIN Limit : count[k] \in 0 .. Limit[k]

Repairing == {p \in Process : pc[p] \in {"reread", "exchange", "save", "write"}}
\* Two calls repair the token at once only after the directory of a running
\* holder was removed: by a call whose stat saw the stale directory before it,
\* or because its holder was suspended past the minute (claude.go:550-551).
OneRepairs == ~raced => Cardinality(Repairing) <= 1

\* No call sends a refresh token that was exchanged already, unless its
\* replacement was lost with a process, an answer or a write, or the locks were
\* broken (claude.go:180: the file is reread under the locks).
ExchangedOnce ==
  ~raced => \A p \in Process : pc[p] = "exchange" /\ has[p].refresh \in spent
                                 => has[p].refresh \in lost

\* The state has its shape and the lock directories do their work: one call
\* repairs at a time, and sends no refresh token a second time.
RepairIsExclusive == TypeOK /\ OneRepairs /\ ExchangedOnce

\* A rotated refresh token reaches the file: while the file still holds the one
\* that was used up, a live call is about to save its replacement.  Only an
\* accident loses it, never a directory that could not be written in the first
\* place (claude.go:190, 197).
RotationReachesFile ==
  ~raced /\ file.refresh \in spent \ lost =>
    \E p \in Process : pc[p] \in {"save", "write"} /\ has[p] = file

\* A save never replaces credentials that were written after the rejected ones
\* were read, unless they slipped in between its own last look and the rename
\* (claude.go:452-457).
LoginWins ==
  [][\A p \in Process :
       pc[p] = "write" /\ file' # file /\ file' = fresh[p] /\ p \notin slipped
         => file = has[p]]_vars

\* A redemption that the service accepts is for the account whose usage and
\* credits were read, and for the organization the reset was armed on, whatever
\* is written to the two files meanwhile (claude.go:136-156).
RedeemsWhatItRead ==
  \A p \in Process : pc[p] = "redeem" /\ Accepted(p) =>
    readFrom[p] = {ArmedAccount} /\ org[p] = ArmedAccount

\* A bound call reads usage and credits of one account only, the one its token
\* belongs to (claude.go:134-135).
BoundReadsOneAccount ==
  \A p \in Bound : \A a \in readFrom[p] : a = issued[has[p].access]

\* A rejected access token whose refresh token is good is repaired or replaced,
\* past dead holders and suspended ones.  Once the directory of a running holder
\* was removed, calls may in principle go on removing each other's directories
\* between a mkdir and its stat (claude.go:541-544), so nothing is said then.
Repairable == /\ file.access \in rejected
              /\ file.refresh \notin spent
              /\ ~readOnly
TokenIsRepaired == Repairable ~> (~Repairable \/ raced)

\* A call ends, whoever holds or abandoned the locks: only the organization
\* lookup, which has no deadline, may keep it (claude.go:142).
CallsEnd ==
  \A p \in Process : pc[p] \notin {"idle", "profile"} ~> pc[p] \in {"idle", "profile"}

\* Nobody waits for ever: not the calls for the locks, nor the user for a token.
RepairEnds == TokenIsRepaired /\ CallsEnd

=============================================================================

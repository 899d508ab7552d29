-------------------------------- MODULE Startup --------------------------------
(***************************************************************************)
(* How the scraper comes up (cmd/twitter_scrapper/main.go), and comes up   *)
(* again after a panic: the migrations of FoundationDB (repo/db.go), those *)
(* from FoundationDB to Redis (repo/migrationFtoR), and the pool of        *)
(* finders with the log-in of its accounts (tweetfinder/pool.go, account_  *)
(* manager/manager.go, repo/redis/accounts.go).  The other programs write  *)
(* to Redis at any time: add_twitter_account adds accounts and cookies,    *)
(* session_store and rating_updater store the session of Telegram.         *)
(*                                                                         *)
(* An account is its login; a cookie and a session are there or not.  The  *)
(* check of the indexes between the migrations is in TweetRepo, lending    *)
(* the finders in FinderPool.  Redis has no migrations of its own.         *)
(***************************************************************************)
EXTENDS Naturals, Sequences, FiniteSets

CONSTANTS
    Account,     \* logins
    First,       \* First[S]: the account of S whose key comes first
    ProxyLists,  \* what PROXY_ADDRESSES may hold
    MaxFaults    \* model bound: crashes, and delay managers that do not start

ASSUME StartupAssumption ==
    /\ First \in [(SUBSET Account) \ {{}} -> Account]
    /\ \A S \in (SUBSET Account) \ {{}} : First[S] \in S
    /\ ProxyLists \subseteq Seq({"good", "bad"})
    /\ MaxFaults \in Nat

VARIABLES
    old,       \* the accounts, cookies and session FoundationDB came with
    version,   \* the version of the migrations, one key for both lists
    created,   \* have the rows of the first version their creation entries
    redis,     \* the accounts, cookies and session in Redis
    config,    \* the configured proxies
    refused,   \* accounts whose log-in fails at the moment
    stage,     \* what main is doing
    todo,      \* migrations the running Migrate has still to do
    step,      \* where it is in the first of them
    proxies,   \* proxies the pool has not handed out
    listed,    \* listed[a]: how often init has still to come to account a
    authAccounts,  \* accounts the manager has logged in
    opening,   \* the finder init is about to start: {} or {finder}
    finders,   \* the finders of the pool
    faults,    \* how many faults there have been
    torn,      \* history: migrations a crash has cut off after their version
    added,     \* history: accounts add_twitter_account has saved
    repeated,  \* history: accounts SCAN has returned twice in this process
    unstarted  \* history: accounts whose delay manager did not start in it

stores  == <<old, version, created, redis, config, refused>>
main    == <<stage, todo, step>>
pool    == <<proxies, listed, authAccounts, opening, finders, repeated, unstarted>>
vars == <<stores, main, pool, faults, torn, added>>
-------------------------------------------------------------------------------
(* The second list begins with an Empty migration for the one of the first. *)
FdbMigrations  == {1}
FtoRMigrations == 1 .. 4
Version == FdbMigrations \cup FtoRMigrations

Finder == [login : Account, proxy : Nat]
Direct == 0
Unlisted == [a \in Account |-> 0]

TypeOK ==
    /\ old \in [accounts : SUBSET Account, cookies : SUBSET Account, session : BOOLEAN]
    /\ version \in 0 .. 4 /\ created \in BOOLEAN
    /\ redis \in [accounts : SUBSET Account, cookies : SUBSET Account, session : BOOLEAN]
    /\ config \in ProxyLists /\ refused \subseteq Account
    /\ stage \in {"down", "fdb", "ftor", "init", "running"}
    /\ todo \subseteq Version
    /\ step \in {"up", "version", "commit", "exec"}
    /\ proxies \in 0 .. Len(config)
    /\ listed \in [Account -> 0 .. 2]
    /\ authAccounts \subseteq Account
    /\ opening \subseteq Finder /\ \A f, g \in opening : f = g
    /\ finders \in Seq(Finder)
    /\ faults \in 0 .. MaxFaults
    /\ torn \subseteq Version /\ added \subseteq Account
    /\ repeated \subseteq Account /\ unstarted \subseteq Account

(* The memory of a process that has just been started: nothing logged in,  *)
(* and all the proxies of the configuration.  proxies counts those left;   *)
(* the next one is number Len(config) - proxies + 1.                       *)
Forgotten ==
    /\ todo' = {} /\ step' = "up" /\ proxies' = Len(config) /\ listed' = Unlisted
    /\ authAccounts' = {} /\ opening' = {} /\ finders' = <<>>
    /\ repeated' = {} /\ unstarted' = {}

(* A cookie is saved for an account only, and none is ever deleted.        *)
Init ==
    /\ old \in [accounts : SUBSET Account, cookies : SUBSET Account, session : BOOLEAN]
    /\ old.cookies \subseteq old.accounts
    /\ version = 0 /\ created = FALSE
    /\ redis = [accounts |-> {}, cookies |-> {}, session |-> FALSE]
    /\ config \in ProxyLists /\ refused = {}
    /\ stage = "down" /\ todo = {} /\ step = "up"
    /\ proxies = Len(config) /\ listed = Unlisted
    /\ authAccounts = {} /\ opening = {} /\ finders = <<>>
    /\ faults = 0 /\ torn = {} /\ added = {} /\ repeated = {} /\ unstarted = {}

Fault == faults < MaxFaults /\ faults' = faults + 1
-------------------------------------------------------------------------------
(* The migrations.  At(v, s): the running Migrate is at step s of v.       *)
At(v, s) == v \in todo /\ (\A w \in todo : v <= w) /\ step = s

(* Here and below, a name with a suffix after an underscore is a faulty    *)
(* variant of the definition that follows it.                              *)
Ahead_Next(migrations) == {v \in migrations : v > version + 1}

Ahead(migrations) == {v \in migrations : v > version}

Panic ==
    /\ stage' = "down" /\ Forgotten
    /\ torn' = torn \cup {v \in todo : At(v, "commit") \/ At(v, "exec")}
    /\ UNCHANGED <<stores, added>>

Start ==
    /\ stage = "down"
    /\ stage' = "fdb" /\ todo' = Ahead(FdbMigrations)
    /\ UNCHANGED <<stores, step, pool, faults, torn, added>>

Copyable(v) ==
    /\ v = 2 => old.accounts \subseteq old.cookies
    /\ v = 4 => old.session

Up(v) ==
    /\ At(v, "up") /\ Copyable(v)
    /\ step' = "version"
    /\ UNCHANGED <<stores, stage, todo, pool, faults, torn, added>>

UpFails(v) == At(v, "up") /\ ~ Copyable(v) /\ Panic /\ UNCHANGED faults

(* The version is committed by a transaction of its own.                   *)
WriteVersion(v) ==
    /\ At(v, "version")
    /\ version' = v /\ step' = "commit"
    /\ UNCHANGED <<old, created, redis, config, refused, stage, todo, pool, faults, torn, added>>

Copied_NoCookie(v) ==
    [redis EXCEPT !.accounts = @ \cup {a \in old.accounts : v \in {2, 3}},
                  !.session = @ \/ v = 4]

(* What is written to Redis by Accounts, by Cookies, which returns in its  *)
(* first round, and by SessionStorage.                                     *)
Copied(v) ==
    [accounts |-> redis.accounts \cup
                    {a \in old.accounts : v = 2 \/ (v = 3 /\ a = First[old.accounts])},
     cookies  |-> redis.cookies \cup {a \in old.accounts : v = 2},
     session  |-> redis.session \/ v = 4]

Done(v) == step' = "up" /\ todo' = todo \ {v}

Commit(v) ==
    /\ At(v, "commit")
    /\ IF stage = "fdb" THEN created' = TRUE /\ Done(v)
       ELSE step' = "exec" /\ UNCHANGED <<created, todo>>
    /\ UNCHANGED <<old, version, redis, config, refused, stage, pool, faults, torn, added>>

Exec(v) ==
    /\ At(v, "exec")
    /\ redis' = Copied(v) /\ Done(v)
    /\ UNCHANGED <<old, version, created, config, refused, stage, pool, faults, torn, added>>

FdbMigrated ==
    /\ stage = "fdb" /\ todo = {}
    /\ stage' = "ftor" /\ todo' = Ahead(FtoRMigrations)
    /\ UNCHANGED <<stores, step, pool, faults, torn, added>>
-------------------------------------------------------------------------------
SearchUnAuthAccounts_All ==
    /\ listed' = [a \in Account |-> IF a \in redis.accounts THEN 1 ELSE 0]
    /\ UNCHANGED repeated

(* The pool.  SearchUnAuthAccounts: SCAN returns every account, in an order *)
(* of its own, and may return one twice.                                   *)
SearchUnAuthAccounts ==
    \E twice \in SUBSET (redis.accounts \ authAccounts) :
        /\ Cardinality(twice) <= 1
        /\ listed' = [a \in Account |->
                        IF a \notin redis.accounts \ authAccounts THEN 0
                        ELSE IF a \in twice THEN 2 ELSE 1]
        /\ repeated' = repeated \cup twice

FtoRMigrated ==
    /\ stage = "ftor" /\ todo = {}
    /\ stage' = "init" /\ SearchUnAuthAccounts
    /\ UNCHANGED <<stores, todo, step, proxies, authAccounts, opening, finders,
                   unstarted, faults, torn, added>>

(* reinit, every minute: an error of init is only logged then.             *)
Reinit ==
    /\ stage = "running" /\ listed = Unlisted /\ opening = {}
    /\ SearchUnAuthAccounts
    /\ UNCHANGED <<stores, main, proxies, authAccounts, opening, finders,
                   unstarted, faults, torn, added>>

(* The first error ends init, for all the accounts still listed: at the    *)
(* start main panics, later the next round of reinit tries again.          *)
InitEnds(left, failed) ==
    IF stage = "init" THEN Panic
    ELSE /\ listed' = Unlisted /\ opening' = {} /\ proxies' = left
         /\ unstarted' = unstarted \cup failed
         /\ UNCHANGED <<stores, main, authAccounts, finders, repeated, torn, added>>

NextProxy == config[Len(config) - proxies + 1]
Taken == IF proxies = 0 THEN Direct ELSE Len(config) - proxies + 1

Left_Unchecked == proxies - 1

Left == IF proxies = 0 THEN 0 ELSE proxies - 1

AtAccount(a) == opening = {} /\ listed[a] > 0

(* SetProxy does not take the proxy it refuses off the list.               *)
ProxyRefused(a) ==
    /\ AtAccount(a) /\ proxies > 0 /\ NextProxy = "bad"
    /\ InitEnds(proxies, {})
    /\ UNCHANGED faults

ProxySet(a) == AtAccount(a) /\ (proxies > 0 => NextProxy = "good")

(* AuthScrapper.  Redis reports a missing cookie with an error that the    *)
(* branch for the log-in does not know: that account never gets in.        *)
AuthScrapper(a) ==
    /\ ProxySet(a) /\ a \in redis.cookies /\ a \notin refused
    /\ opening' = {[login |-> a, proxy |-> Taken]}
    /\ proxies' = Left
    /\ listed' = [listed EXCEPT ![a] = @ - 1]
    /\ authAccounts' = authAccounts \cup {a}
    /\ UNCHANGED <<stores, main, finders, repeated, unstarted, faults, torn, added>>

AuthFails_Marked(a) ==
    /\ ProxySet(a) /\ a \in refused
    /\ listed' = [listed EXCEPT ![a] = @ - 1]
    /\ authAccounts' = authAccounts \cup {a} /\ proxies' = Left
    /\ UNCHANGED <<stores, main, opening, finders, repeated, unstarted, faults,
                   torn, added>>

AuthFails(a) ==
    /\ ProxySet(a) /\ (a \in redis.cookies => a \in refused)
    /\ InitEnds(Left, {})
    /\ UNCHANGED faults

StartFinder ==
    /\ \E f \in opening : finders' = Append(finders, f)
    /\ opening' = {}
    /\ UNCHANGED <<stores, main, proxies, listed, authAccounts, repeated, unstarted,
                   faults, torn, added>>

(* delayManager.Start: the account stays in authAccounts.                  *)
StartFails ==
    /\ opening # {} /\ Fault /\ InitEnds(proxies, {f.login : f \in opening})

InitDone ==
    /\ stage = "init" /\ listed = Unlisted /\ opening = {}
    /\ stage' = "running"
    /\ UNCHANGED <<stores, todo, step, pool, faults, torn, added>>
-------------------------------------------------------------------------------
(* The other programs; the cookies of an account come second or not at all. *)
SaveAccount(a) ==
    /\ redis' = [redis EXCEPT !.accounts = @ \cup {a}]
    /\ added' = added \cup {a}
    /\ UNCHANGED <<old, version, created, config, refused, main, pool, faults, torn>>

SaveCookie(a) ==
    /\ a \in redis.accounts
    /\ redis' = [redis EXCEPT !.cookies = @ \cup {a}]
    /\ UNCHANGED <<old, version, created, config, refused, main, pool, faults, torn, added>>

StoreSession ==
    /\ redis' = [redis EXCEPT !.session = TRUE]
    /\ UNCHANGED <<old, version, created, config, refused, main, pool, faults, torn, added>>

(* The cookies of an account expire, its password is changed, Twitter or   *)
(* Redis does not answer; or its log-in is in order again.                 *)
LogInChanges(a) ==
    /\ refused' = IF a \in refused THEN refused \ {a} ELSE refused \cup {a}
    /\ UNCHANGED <<old, version, created, redis, config, main, pool, faults, torn, added>>

Crash == stage # "down" /\ Fault /\ Panic
-------------------------------------------------------------------------------
Migrate == \E v \in Version : Up(v) \/ UpFails(v) \/ WriteVersion(v) \/ Commit(v) \/ Exec(v)

OpenPool ==
    \/ \E a \in Account : ProxyRefused(a) \/ AuthScrapper(a) \/ AuthFails(a)
    \/ StartFinder \/ StartFails \/ InitDone \/ Reinit

Main == Start \/ Migrate \/ FdbMigrated \/ FtoRMigrated \/ OpenPool

Next ==
    \/ Main \/ Crash \/ StoreSession
    \/ \E a \in Account : SaveAccount(a) \/ SaveCookie(a) \/ LogInChanges(a)

Spec == Init /\ [][Next]_vars

(* main is started again when it has panicked, and it, and later the       *)
(* goroutine of reinit, go on: one sequence of steps.                      *)
FairSpec == Spec /\ WF_vars(Main)
-------------------------------------------------------------------------------
(* A migration whose version is in the database has moved its data, unless *)
(* a crash fell between the commit of the version and the last commit of   *)
(* the migration (db.go:75-81, migrator.go:52-62).                         *)
Moved(v) ==
    /\ v = 1 => created
    /\ v = 2 => old.accounts \subseteq redis.accounts \cap redis.cookies
    /\ v = 3 /\ old.accounts # {} => First[old.accounts] \in redis.accounts
    /\ v = 4 => redis.session

SkippedOnlyIfTorn ==
    \A v \in Version : v <= version /\ v \notin todo => Moved(v) \/ v \in torn

(* An account in Redis without a cookie, which no start of the pool gets   *)
(* past, was added by hand, or Cookies has copied it after a crash in      *)
(* Accounts: an installation that is only migrated, without that crash,    *)
(* has none (01-accounts.go:46-72, 02-session.go:42).                      *)
CookielessNeedsTear ==
    \A a \in redis.accounts \ redis.cookies : a \in added \/ 2 \in torn

(* No two finders go through one proxy or serve one account, however often *)
(* init is repeated, unless SCAN has returned the account twice            *)
(* (manager.go:46-50, pool.go:219-224).                                    *)
Apart(f, g) ==
    /\ f.proxy = g.proxy => f.proxy = Direct
    /\ f.login = g.login => f.login \in repeated

FindersApart ==
    \A i, j \in DOMAIN finders : i # j => Apart(finders[i], finders[j])

(* What keeps an account out: a migration that can not succeed, an account *)
(* that cannot log in, which may always come before it, the next proxy     *)
(* when it is refused, or its delay manager, not started (pool.go:268).    *)
Blocked(a) ==
    \/ \E v \in Ahead(Version) : ~ Copyable(v)
    \/ \E b \in redis.accounts \ authAccounts : b \notin redis.cookies \/ b \in refused
    \/ proxies > 0 /\ NextProxy = "bad"
    \/ a \in unstarted

Served(a) == \E i \in DOMAIN finders : finders[i].login = a

(* An account that none of these keeps out for ever, again and again, has  *)
(* a finder, again and again, across panics, crashes and failed log-ins.   *)
EveryAccountServed ==
    \A a \in Account :
        <>[](a \in redis.accounts /\ (Blocked(a) => Served(a))) => []<>Served(a)
===============================================================================

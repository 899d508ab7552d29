------------------------------ MODULE FinderPool ------------------------------
(***************************************************************************)
(* The pool of finders (internal/tweetfinder/pool.go).  A finder is one    *)
(* entry of the pool: a logged-in account behind its rate limiters.  The   *)
(* pool keeps the last temperature it has read of every finder, and 0 has  *)
(* two meanings: the finder is lent (getFinderIndex, 176-179), and its     *)
(* limiters could not be read (limiter.Temp returns 0 on an error).  Limits *)
(* that have been read stay in the cache of the repository, and are read   *)
(* from there: what can fail is a reading before that.                     *)
(*                                                                         *)
(* releaseSignal is never made, so a release wakes nobody: a caller that   *)
(* found no finder polls on its ticker.  Temperatures are abstracted to a  *)
(* few values, finders of equal temperature are taken in any order.        *)
(***************************************************************************)
EXTENDS Integers, FiniteSets

CONSTANTS
    Caller,     \* goroutines of the watcher
    Finder,     \* accounts
    Temp,       \* temperatures a limiter computes, none of them 0
    Nobody,     \* no caller
    Outages     \* model bound: how often the repository of the limits fails

HotLimit == 4

ASSUME PoolAssumption == /\ Temp \subseteq Nat \ {0}
                         /\ \E t \in Temp : t <= HotLimit
                         /\ Outages \in Nat
                         /\ Nobody \notin Caller

VARIABLES
    started,    \* accounts whose limiters init has started
    cached,     \* accounts with a limit in the cache of the repository
    pool,       \* finders added by init
    finderTemp, \* the last temperature read, 0 for a lent finder
    waiting,    \* callers in the loop of getFinder
    holds,      \* pairs <<caller, finder>>: who uses which finder
    heat,       \* what the limiters of a finder would answer
    dbUp,       \* does the database answer every read of a limit?
    outages     \* outages there have been

env  == <<started, cached, dbUp, outages>>
vars == <<pool, finderTemp, waiting, holds, heat, env>>
-------------------------------------------------------------------------------
TypeOK ==
    /\ pool \subseteq started /\ started \subseteq Finder
    /\ cached \subseteq started
    /\ finderTemp \in [Finder -> Temp \cup {0}]
    /\ waiting \subseteq Caller
    /\ holds \subseteq Caller \X Finder
    /\ heat \in [Finder -> Temp]
    /\ dbUp \in BOOLEAN
    /\ outages \in Nat

Busy(c) == c \in waiting \/ \E f \in Finder : <<c, f>> \in holds

(* A name with a suffix after an underscore is a faulty variant of the     *)
(* definition that follows it: here, limiters that answer -1 on an error,  *)
(* and a repository without its cache.                                     *)
Readings_Negative(f, h) == IF dbUp THEN h ELSE h \cup {-1}

Readings_Uncached(f, h) ==
    IF dbUp THEN h ELSE {t \in Temp : \E u \in h : t <= u} \cup {0}

(* limiter.Temp and the maximum CurrentTemp takes over the limiters of f,  *)
(* 0 when none of them could be read.  A limit in the cache is read in an  *)
(* outage too (the commit that follows has written nothing and asks nobody);*)
(* of the others some may be, and without the hottest the finder is cooler.*)
Readings(f, h) ==
    IF dbUp THEN h
    ELSE {t \in Temp : \E u \in h : t <= u} \cup IF f \in cached THEN {} ELSE {0}

skipFinder(d) == d = 0 \/ d > HotLimit

Init ==
    /\ dbUp = TRUE /\ outages = 0
    /\ started = {} /\ cached = {} /\ pool = {}
    /\ heat \in [Finder -> Temp]
    /\ finderTemp = [f \in Finder |-> 0]
    /\ waiting = {}
    /\ holds = {}
-------------------------------------------------------------------------------
(* A refresh that trusts the temperatures read before.                     *)
Refreshed_Cached(r) == r = finderTemp

(* The temperatures after a refresh: a lent finder is left alone.          *)
Refreshed(r) ==
    \A f \in Finder : IF f \in pool /\ finderTemp[f] # 0
                      THEN r[f] \in Readings(f, {heat[f]})
                      ELSE r[f] = finderTemp[f]

(* The finders a refresh r leaves to choose from: the coolest of those     *)
(* that are neither lent nor too hot.                                      *)
Coolest(r) ==
    LET free == {f \in pool : ~ skipFinder(r[f])}
    IN  {f \in free : \A g \in free : r[f] <= r[g]}

(* getFinderIndex that does not mark the finder it lends.                  *)
getFinderIndex_Unmarked(c) ==
    \E r \in [Finder -> Temp \cup {0}] :
        /\ Refreshed(r)
        /\ finderTemp' = r
        /\ \/ /\ Coolest(r) = {}
              /\ waiting' = waiting \cup {c}
              /\ UNCHANGED holds
           \/ \E f \in Coolest(r) :
              /\ waiting' = waiting \ {c}
              /\ holds' = holds \cup {<<c, f>>}

(* getFinderIndex under the lock: refresh, choose, mark.                   *)
getFinderIndex(c) ==
    \E r \in [Finder -> Temp \cup {0}] :
        /\ Refreshed(r)
        /\ \/ /\ Coolest(r) = {}
              /\ finderTemp' = r
              /\ waiting' = waiting \cup {c}
              /\ UNCHANGED holds
           \/ \E f \in Coolest(r) :
              /\ finderTemp' = [r EXCEPT ![f] = 0]
              /\ waiting' = waiting \ {c}
              /\ holds' = holds \cup {<<c, f>>}

(* Find or FindNext: the first attempt is made before any timer is read.   *)
Find(c) == /\ ~ Busy(c)
           /\ getFinderIndex(c)
           /\ UNCHANGED <<pool, heat, env>>

Poll(c) == /\ c \in waiting
           /\ getFinderIndex(c)
           /\ UNCHANGED <<pool, heat, env>>

(* ErrTimeoutSelectFinder, or the end of the caller's context.             *)
GiveUp(c) == /\ c \in waiting
             /\ waiting' = waiting \ {c}
             /\ UNCHANGED <<pool, finderTemp, holds, heat, env>>

(* The deferred release, after any result of the request.  The request has *)
(* heated the finder, which its limiters count in a goroutine of their     *)
(* own: the temperature read here may be the one before or after that.     *)
releaseFinder(c, f) ==
    /\ <<c, f>> \in holds
    /\ holds' = holds \ {<<c, f>>}
    /\ \E h \in Temp, r \in Temp \cup {0} :
          /\ h >= heat[f] /\ r \in Readings(f, {h, heat[f]})
          /\ heat' = [heat EXCEPT ![f] = h]
          /\ finderTemp' = [finderTemp EXCEPT ![f] = r]
    /\ UNCHANGED <<pool, waiting, env>>

(* delayManager.Start asks the database for every limit and creates those  *)
(* that are missing; an error ends init.                                   *)
StartLimiters(f) ==
    /\ f \notin started /\ dbUp
    /\ started' = started \cup {f}
    /\ UNCHANGED <<pool, finderTemp, waiting, holds, heat, cached, dbUp, outages>>

(* reinit that adds an account again.                                      *)
AddFinder_Again(f) ==
    /\ f \in started
    /\ pool' = pool \cup {f}
    /\ \E r \in Readings(f, {heat[f]}) : finderTemp' = [finderTemp EXCEPT ![f] = r]
    /\ UNCHANGED <<waiting, holds, heat, env>>

(* init or reinit adds the finder with the first reading of its limits.    *)
AddFinder(f) ==
    /\ f \in started \ pool
    /\ pool' = pool \cup {f}
    /\ \E r \in Readings(f, {heat[f]}) : finderTemp' = [finderTemp EXCEPT ![f] = r]
    /\ UNCHANGED <<waiting, holds, heat, env>>

(* A reading of the pool or a cleaning of the limiters has reached the     *)
(* database, and the cache has taken the limit, in a goroutine of its own. *)
(* Nothing takes it out again.                                             *)
CacheLimits(f) ==
    /\ f \in started \ cached
    /\ cached' = cached \cup {f}
    /\ UNCHANGED <<pool, finderTemp, waiting, holds, heat, started, dbUp, outages>>

(* The windows of the limiters move on.                                    *)
Cool(f) ==
    /\ \E h \in Temp : h < heat[f] /\ heat' = [heat EXCEPT ![f] = h]
    /\ UNCHANGED <<pool, finderTemp, waiting, holds, env>>

DbFails == /\ dbUp /\ outages < Outages
           /\ dbUp' = FALSE /\ outages' = outages + 1
           /\ UNCHANGED <<pool, finderTemp, waiting, holds, heat, started, cached>>

DbRecovers == /\ ~ dbUp
              /\ dbUp' = TRUE
              /\ UNCHANGED <<pool, finderTemp, waiting, holds, heat, started, cached, outages>>
-------------------------------------------------------------------------------
Next ==
    \/ \E c \in Caller : \/ Find(c) \/ Poll(c) \/ GiveUp(c)
                         \/ \E f \in Finder : releaseFinder(c, f)
    \/ \E f \in Finder : \/ StartLimiters(f) \/ AddFinder(f)
                         \/ CacheLimits(f) \/ Cool(f)
    \/ DbFails \/ DbRecovers

Spec == Init /\ [][Next]_vars

(* The tickers of the watcher call Find again and again, the ticker of     *)
(* getFinder polls, a request ends by its client timeout, the windows of   *)
(* the limiters move with the clock, and an outage of the database ends.   *)
Fairness ==
    /\ \A c \in Caller : /\ WF_vars(Find(c)) /\ WF_vars(Poll(c))
                         /\ \A f \in Finder : WF_vars(releaseFinder(c, f))
    /\ \A f \in Finder : WF_vars(Cool(f))
    /\ WF_vars(DbRecovers)

FairSpec == Spec /\ Fairness
-------------------------------------------------------------------------------
(* Two callers never use one account at the same time: their requests      *)
(* would share the scraper's delay and be counted against one limit.       *)
OneCallerPerFinder ==
    \A p, q \in holds : p[2] = q[2] => p = q

(* A finder nobody uses that the pool takes for a lent one.                *)
Leaked == {f \in pool : finderTemp[f] = 0 /\ \A c \in Caller : <<c, f>> \notin holds}

(* A finder is lost to the pool only by a reading in an outage while none  *)
(* of its limits is in the cache: as a rule its very first one, when it is *)
(* added.  No order of calls, refreshes, releases and give-ups does it, and*)
(* no later outage.                                                        *)
LeakNeedsOutage ==
    [][\A f \in Leaked' \ Leaked : ~ dbUp /\ f \notin cached]_vars

(* The pool lends like a set of locks, one per account.                    *)
holder == [f \in Finder |-> IF \E c \in Caller : <<c, f>> \in holds
                            THEN CHOOSE c \in Caller : <<c, f>> \in holds
                            ELSE Nobody]
Leases == INSTANCE Lease
LeaseSpec == Leases!Spec

(* While one finder is not lost, callers are served again and again, though*)
(* no release wakes anybody.                                               *)
UnlostServe == []<>(pool \subseteq Leaked \/ holds # {})

(* "continuously monitors Twitter" (README.md:20): once an account is      *)
(* logged in and its finder added, the watcher gets it again and again.    *)
KeepsSearching == []<>(pool = {} \/ holds # {})
===============================================================================

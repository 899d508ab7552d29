------------------------------ MODULE TweetSearch ------------------------------
(***************************************************************************)
(* How the watcher of the scraper follows its queries (watcher.go and its  *)
(* list of requests, singlell/list.go).  For every query a goroutine       *)
(* (initSearchCursor) asks for the newest page again and again and leaves, *)
(* for what lies behind the page, a request on a list in memory; searchAll *)
(* takes the requests off the list when they have aged and starts a        *)
(* goroutine for each, which pages back to the moment the request starts.  *)
(*                                                                         *)
(* Time is counted in tweets: the tweets that match a query are numbered   *)
(* as they are posted, and a moment is the number of tweets posted before  *)
(* it, so tweet i is from after moment m when i > m.  How long a request   *)
(* ages is left out: searchAll may take one at any time.  What processTweet *)
(* does with a tweet is in Publishing, what Save does in TweetRepo.        *)
(***************************************************************************)
EXTENDS Naturals, Sequences, FiniteSets

CONSTANTS
    Query,        \* the configured queries
    PageSize,     \* tweets on a page (50 in the code)
    MaxTweets,    \* model bound: tweets posted for a query
    MaxRequests,  \* model bound: requests on the list
    MaxFaults     \* model bound: lost commits, abandoned searches, restarts

ASSUME SearchAssumption == /\ PageSize \in Nat \ {0}
                           /\ MaxTweets \in Nat /\ MaxRequests \in Nat
                           /\ MaxFaults \in Nat

VARIABLES
    posted,     \* posted[q]: how many tweets match q so far
    start,      \* start[q]: the moment the next request of q starts at
    round,      \* round[q]: where the goroutine of q is
    singleLL,   \* the list of requests
    nextObj,    \* what searchAll has taken from it: {} or {request}
    searches,   \* the running searches, as the request each has still to do
    saved,      \* saved[q]: tweets of q that Save has committed
    faults      \* how many faults there have been

mem  == <<start, round, singleLL, nextObj, searches>>
vars == <<posted, mem, saved, faults>>
-------------------------------------------------------------------------------
SearchRequest == [query : Query, start : Nat, cursor : Nat \ {0}]

Waiting == [at |-> "wait"]

TypeOK ==
    /\ posted \in [Query -> Nat]
    /\ start \in [Query -> Nat]
    /\ round \in [Query -> {Waiting} \cup [at : {"push", "save"}, from : Nat \ {0}, to : Nat]]
    /\ singleLL \in Seq(SearchRequest)
    /\ nextObj \in SUBSET SearchRequest /\ Cardinality(nextObj) <= 1
    /\ searches \in SUBSET SearchRequest
    /\ saved \in [Query -> SUBSET Nat]
    /\ faults \in Nat

(* initSearchCursor: each query starts a SearchInterval before now.        *)
Earlier == {m \in [Query -> 0 .. MaxTweets] : \A q \in Query : m[q] <= posted[q]}

Init ==
    /\ posted \in [Query -> 0 .. MaxTweets]
    /\ start \in Earlier
    /\ round = [q \in Query |-> Waiting]
    /\ singleLL = <<>> /\ nextObj = {} /\ searches = {}
    /\ saved = [q \in Query |-> {}] /\ faults = 0
-------------------------------------------------------------------------------
(* Twitter: a tweet is posted, and a page is the newest tweets before a    *)
(* cursor; behind the oldest one the pages are empty.                      *)
Post(q) ==
    /\ posted[q] < MaxTweets
    /\ posted' = [posted EXCEPT ![q] = @ + 1]
    /\ UNCHANGED <<mem, saved, faults>>

Oldest(cursor) == IF cursor > PageSize THEN cursor - PageSize ELSE 1
Page(cursor) == Oldest(cursor) .. (cursor - 1)

(* A commit that fails is only logged by Save (tweets.go:109): the tweets  *)
(* in lost are not in the database, and nobody knows.                      *)
Save(q, page) ==
    \E lost \in SUBSET page :
        /\ saved' = [saved EXCEPT ![q] = @ \cup (page \ lost)]
        /\ faults + Cardinality(lost) <= MaxFaults
        /\ faults' = faults + Cardinality(lost)
-------------------------------------------------------------------------------
(* initSearchCursor: the newest page, the request for what is behind it,   *)
(* and the tweets of the page.                                             *)
FindNewest(q) ==
    /\ round[q] = Waiting
    /\ round' = [round EXCEPT ![q] = [at |-> "push", from |-> Oldest(posted[q] + 1),
                                      to |-> posted[q]]]
    /\ UNCHANGED <<posted, start, singleLL, nextObj, searches, saved, faults>>

(* A name with a suffix after an underscore is a faulty variant of the     *)
(* definition that follows it: here, a failed round that moves the start.  *)
FindFails_Moves(q) ==
    /\ round[q] = Waiting
    /\ start' = [start EXCEPT ![q] = posted[q]]
    /\ UNCHANGED <<posted, round, singleLL, nextObj, searches, saved, faults>>

(* A search that fails, in a round or in a goroutine of searchAll, leaves  *)
(* everything as it is: the next round has the same start.                 *)
FindFails(q) ==
    /\ round[q] = Waiting \/ \E s \in searches : s.query = q
    /\ UNCHANGED vars

(* The interval of the next request starts when this one is on the list,   *)
(* and not when Twitter answered.                                          *)
PushRequest(q) ==
    /\ round[q].at = "push" /\ Len(singleLL) < MaxRequests
    /\ singleLL' = Append(singleLL, [query |-> q, start |-> start[q],
                                     cursor |-> round[q].from])
    /\ start' = [start EXCEPT ![q] = posted[q]]
    /\ round' = [round EXCEPT ![q].at = "save"]
    /\ UNCHANGED <<posted, nextObj, searches, saved, faults>>

SaveNewest(q) ==
    /\ round[q].at = "save"
    /\ Save(q, round[q].from .. round[q].to)
    /\ round' = [round EXCEPT ![q] = Waiting]
    /\ UNCHANGED <<posted, start, singleLL, nextObj, searches>>
-------------------------------------------------------------------------------
(* searchAll.                                                              *)
(* Pop that does not move the first node of the list on.                   *)
Popped_Stuck == IF singleLL = <<>> THEN nextObj' = {} /\ UNCHANGED singleLL
                ELSE nextObj' = {Head(singleLL)} /\ UNCHANGED singleLL

(* A second request taken while one is held.                               *)
Popped_Both == IF singleLL = <<>> THEN UNCHANGED <<nextObj, singleLL>>
               ELSE nextObj' = nextObj \cup {Head(singleLL)} /\ singleLL' = Tail(singleLL)

Popped == IF singleLL = <<>> THEN nextObj' = {} /\ UNCHANGED singleLL
          ELSE nextObj' = {Head(singleLL)} /\ singleLL' = Tail(singleLL)

Pop ==
    /\ nextObj = {}
    /\ Popped
    /\ UNCHANGED <<posted, start, round, searches, saved, faults>>

StartSearch ==
    /\ nextObj # {}
    /\ searches' = searches \cup nextObj
    /\ Popped
    /\ UNCHANGED <<posted, start, round, saved, faults>>
-------------------------------------------------------------------------------
(* search: page by page, until a page reaches behind the start.  An empty  *)
(* page moves neither the cursor nor the oldest moment seen: the search    *)
(* asks for it again, for ever, as nothing returns the ErrNoTops it would  *)
(* end with (tweetfinder/errors.go:6).                                     *)
Reached(s) == Page(s.cursor) # {} /\ Oldest(s.cursor) <= s.start

Continued(s) == IF Reached(s) THEN {} ELSE {[s EXCEPT !.cursor = Oldest(s.cursor)]}

SearchPage(s) ==
    /\ s \in searches
    /\ Save(s.query, Page(s.cursor))
    /\ searches' = (searches \ {s}) \cup Continued(s)
    /\ UNCHANGED <<posted, start, round, singleLL, nextObj>>

(* A search that goes on to the next page after such an error.             *)
SearchRepeats_Skips(s) ==
    /\ s \in searches
    /\ searches' = (searches \ {s}) \cup Continued(s)
    /\ \E some \in SUBSET Page(s.cursor) : saved' = [saved EXCEPT ![s.query] = @ \cup some]
    /\ UNCHANGED <<posted, start, round, singleLL, nextObj, faults>>

(* Save ends with an error after some of the tweets: the page is repeated. *)
SearchRepeats(s) ==
    /\ s \in searches
    /\ \E some \in SUBSET Page(s.cursor) : saved' = [saved EXCEPT ![s.query] = @ \cup some]
    /\ UNCHANGED <<posted, mem, faults>>

(* A search without a finder for a minute is given up.                     *)
GiveUp(s) ==
    /\ s \in searches
    /\ faults < MaxFaults /\ faults' = faults + 1
    /\ searches' = searches \ {s}
    /\ UNCHANGED <<posted, start, round, singleLL, nextObj, saved>>

(* The process ends and starts again: the list was in memory.              *)
Restart ==
    /\ faults < MaxFaults /\ faults' = faults + 1
    /\ start' \in Earlier
    /\ round' = [q \in Query |-> Waiting]
    /\ singleLL' = <<>> /\ nextObj' = {} /\ searches' = {}
    /\ UNCHANGED <<posted, saved>>
-------------------------------------------------------------------------------
Round(q) == FindNewest(q) \/ FindFails(q) \/ PushRequest(q) \/ SaveNewest(q)

Search(s) == SearchPage(s) \/ SearchRepeats(s) \/ GiveUp(s)

Next == \/ \E q \in Query : Post(q) \/ Round(q)
        \/ Pop \/ StartSearch
        \/ \E s \in searches : Search(s)
        \/ Restart

Spec == Init /\ [][Next]_vars

(* The requests a bounded timeline gives rise to.                          *)
Requests == [query : Query, start : 0 .. MaxTweets, cursor : 1 .. MaxTweets + 1]

(* Every goroutine goes on, and a search that fails is not the only kind.  *)
Fairness ==
    /\ \A q \in Query : /\ WF_vars(FindNewest(q)) /\ WF_vars(SaveNewest(q))
                        /\ SF_vars(PushRequest(q))
    /\ WF_vars(Pop) /\ WF_vars(StartSearch)
    /\ \A s \in Requests : WF_vars(SearchPage(s))

FairSpec == Spec /\ Fairness
-------------------------------------------------------------------------------
(* The tweets of q the watcher has, or is still going to see: they are     *)
(* saved, on the page of the round, behind a pending request, or newer     *)
(* than the start of the next one.                                         *)
Pending == {singleLL[k] : k \in DOMAIN singleLL} \cup nextObj \cup searches
Behind(r) == (r.start + 1) .. (r.cursor - 1)
Newest(q) == IF round[q] = Waiting THEN {} ELSE round[q].from .. round[q].to

InCare(q) ==
    saved[q] \cup Newest(q) \cup ((start[q] + 1) .. posted[q])
    \cup UNION {Behind(r) : r \in {p \in Pending : p.query = q}}

(* The intervals of the requests leave nothing out, whatever fails and is  *)
(* repeated, with one gap: a tweet posted between the answer of Twitter    *)
(* and the moment the start is moved to (watcher.go:265-277).  All else is *)
(* lost only in a fault: a commit, a search given up, a restart.           *)
NothingElseIsLost ==
    [][ \A q \in Query : \A i \in InCare(q) :
           \/ i \in InCare(q)'
           \/ PushRequest(q) /\ i > round[q].to
           \/ faults' # faults ]_vars

(* A tweet in care is saved, unless it is lost in one of these ways: the   *)
(* list is emptied in the end, and every search gets to its start.         *)
TweetIsSaved ==
    \A q \in Query, i \in 1 .. MaxTweets :
        (i \in InCare(q)) ~> (i \in saved[q] \/ i \notin InCare(q))
===============================================================================

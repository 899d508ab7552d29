------------------------------ MODULE TweetRepo -------------------------------
(***************************************************************************)
(* The tweet repository of the scraper (internal/repo/tweets.go) on top of *)
(* the buffered transactions of pkg/fdbclient/transaction.go.              *)
(*                                                                         *)
(* A client is a goroutine of the scraper that calls the repository: the   *)
(* search loops, updateOldestFast, cleanTooOld and the gauge's collector.  *)
(* A call reads the row of one tweet when it starts, buffers its writes,   *)
(* and writes them in a later step; FoundationDB rejects the commit when   *)
(* another commit has written the row in between.  Commit() then resets    *)
(* the transaction and plays the SAME buffered writes again without        *)
(* reading anything (transaction.go:85-106): the second attempt is blind.  *)
(*                                                                         *)
(* Two things are abstracted.  The creation time of a tweet never changes, *)
(* so an entry of the creation index is just the tweet.  A snapshot keeps  *)
(* its rating, which is part of a key, and the moment it was checked,      *)
(* which Save compares; the text and the counters play no role here.       *)
(***************************************************************************)
EXTENDS Integers, FiniteSets

CONSTANTS
    Tweet,       \* tweet ids
    Client,      \* goroutines that call the repository
    Rating,      \* rating growth speeds; only the positive ones are scanned
    Time,        \* moments a snapshot can have been checked at
    NoTweet,     \* the absent row
    MaxInt32     \* the largest int32: 2^31 - 1 in the code, a few in a model

Snapshot == [rating : Rating, checkedAt : Time]

ASSUME RepoAssumption == /\ Rating \subseteq Int
                         /\ Time \subseteq Int
                         /\ NoTweet \notin Snapshot
                         /\ IsFiniteSet(Tweet) /\ IsFiniteSet(Client)
                         /\ MaxInt32 \in Nat /\ Cardinality(Tweet) <= MaxInt32

VARIABLES
    tweets,        \* tweets[t]: the row of t
    ratingIdx,     \* the keys <<rating, tweet>> of the rating index
    creationIdx,   \* the tweets with a key in the creation index
    tweetsCounter, \* the cached number of tweets behind Count
    txn,           \* txn[c]: where client c is in its call
    unchecked      \* index keys CleanWrongIndexes has still to check

vars == <<tweets, ratingIdx, creationIdx, tweetsCounter, txn, unchecked>>
-------------------------------------------------------------------------------
(* The range of the counter, and what adding 1 or -1 to it gives.          *)
Width == 2 * (MaxInt32 + 1)
Int32 == (-MaxInt32 - 1) .. MaxInt32
Wrapped(n) == IF n > MaxInt32 THEN n - Width ELSE IF n \in Int32 THEN n ELSE n + Width

Row   == Snapshot \cup {NoTweet}
Entry == Rating \X Tweet
Live  == {t \in Tweet : tweets[t] # NoTweet}

(* A transaction is "valid" while nobody has written the row it read,      *)
(* "stale" once somebody has, and "blind" when it is played again after a  *)
(* reset, with no read left for the database to check.                     *)
Check == {"valid", "stale", "blind"}

Idle == [step |-> "idle"]
Tally(n) == [step |-> "tally", by |-> n]

SaveTxn   == [step : {"save"}, id : Tweet, old : Row, new : Snapshot, check : Check]
DeleteTxn == [step : {"delete"}, id : Tweet, old : Snapshot, check : Check]
OtherTxn  == {Idle}
             \cup [step : {"tally"}, by : {-1, 1}]
             \cup [step : {"lookup", "clear"}, entry : Entry]
             \cup [step : {"store"}, n : 0 .. MaxInt32]
Txn == SaveTxn \cup DeleteTxn \cup OtherTxn

Writing(c) == txn[c].step \in {"save", "delete"}

(* CleanWrongIndexes runs to its end before the watcher starts.            *)
Serving == unchecked = [rating |-> {}, creation |-> {}]

TypeOK ==
    /\ tweets \in [Tweet -> Row]
    /\ ratingIdx \in SUBSET Entry
    /\ creationIdx \in SUBSET Tweet
    /\ tweetsCounter \in Int32
    /\ txn \in [Client -> Txn]
    /\ unchecked \in [rating : SUBSET Entry, creation : SUBSET Tweet]

Init ==
    /\ tweets = [t \in Tweet |-> NoTweet]
    /\ ratingIdx = {}
    /\ creationIdx = {}
    /\ tweetsCounter = 0
    /\ txn = [c \in Client |-> Idle]
    /\ unchecked = [rating |-> {}, creation |-> {}]
-------------------------------------------------------------------------------
(* The calls: what each reads, and what it will write.                     *)

(* A name with a suffix after an underscore is a faulty variant of the     *)
(* definition that follows it: here, Save without the comparison.          *)
Skipped_Never(old, s) == FALSE

(* A snapshot older than the row is skipped: nothing is written, the call  *)
(* goes on with the next snapshot of its list.                             *)
Skipped(old, s) == old # NoTweet /\ old.checkedAt > s.checkedAt

Save(c, t, s) ==
    /\ Serving /\ txn[c] = Idle
    /\ ~ Skipped(tweets[t], s)
    /\ txn' = [txn EXCEPT ![c] = [step |-> "save", id |-> t, old |-> tweets[t],
                                  new |-> s, check |-> "valid"]]
    /\ UNCHANGED <<tweets, ratingIdx, creationIdx, tweetsCounter, unchecked>>

(* DeleteTweet that goes on after ErrTweetsNotFound.                       *)
DeleteTweet_Absent(c, t) ==
    /\ Serving /\ txn[c] = Idle
    /\ txn' = [txn EXCEPT ![c] = [step |-> "delete", id |-> t, old |-> tweets[t],
                                  check |-> "valid"]]
    /\ UNCHANGED <<tweets, ratingIdx, creationIdx, tweetsCounter, unchecked>>

DeleteTweet(c, t) ==
    /\ Serving /\ txn[c] = Idle
    /\ t \in Live
    /\ txn' = [txn EXCEPT ![c] = [step |-> "delete", id |-> t, old |-> tweets[t],
                                  check |-> "valid"]]
    /\ UNCHANGED <<tweets, ratingIdx, creationIdx, tweetsCounter, unchecked>>

(* Save that leaves the entry of the row it replaces.                      *)
WithoutOld_Kept(x) == ratingIdx

(* What is left of the rating index when a call's buffered writes have     *)
(* removed the entry of the row the call read.                             *)
WithoutOld(x) ==
    IF x.old = NoTweet THEN ratingIdx ELSE ratingIdx \ {<<x.old.rating, x.id>>}

(* Save that buffers the Clear of the old entry after the Set of the new.  *)
SaveWrites_ClearLast(x) ==
    /\ tweets' = [tweets EXCEPT ![x.id] = x.new]
    /\ ratingIdx' = (ratingIdx \cup {<<x.new.rating, x.id>>})
                    \ (IF x.old = NoTweet THEN {} ELSE {<<x.old.rating, x.id>>})
    /\ creationIdx' = creationIdx \cup {x.id}

SaveWrites(x) ==
    /\ tweets' = [tweets EXCEPT ![x.id] = x.new]
    /\ ratingIdx' = WithoutOld(x) \cup {<<x.new.rating, x.id>>}
    /\ creationIdx' = creationIdx \cup {x.id}

(* DeleteTweet that forgets the creation index.                            *)
DeleteWrites_Listed(x) ==
    /\ tweets' = [tweets EXCEPT ![x.id] = NoTweet]
    /\ ratingIdx' = WithoutOld(x)
    /\ UNCHANGED creationIdx

DeleteWrites(x) ==
    /\ tweets' = [tweets EXCEPT ![x.id] = NoTweet]
    /\ ratingIdx' = WithoutOld(x)
    /\ creationIdx' = creationIdx \ {x.id}

Write(x) == \/ x.step = "save" /\ SaveWrites(x)
            \/ x.step = "delete" /\ DeleteWrites(x)

(* The gauge moves after the commit: up for a new tweet, also when the     *)
(* commit of Save failed, which is only logged; down for a deletion that   *)
(* succeeded.                                                              *)
AfterSave_Always(x) == Tally(1)   \* every Save counts, new tweet or not
AfterSave(x) == IF x.old = NoTweet THEN Tally(1) ELSE Idle
AfterCommit(x) == IF x.step = "save" THEN AfterSave(x) ELSE Tally(-1)
AfterFailure(x) == IF x.step = "save" THEN AfterSave(x) ELSE Idle
-------------------------------------------------------------------------------
(* The commit loop of a transaction.                                       *)

(* The transactions after c has written the row of t: c goes on as x, the  *)
(* others that have read the row can no longer commit on their reads.      *)
Written(c, t, x) ==
    [d \in Client |->
        IF d = c THEN x
        ELSE IF Writing(d) /\ txn[d].id = t /\ txn[d].check = "valid"
             THEN [txn[d] EXCEPT !.check = "stale"]
             ELSE txn[d]]

Commit(c) ==
    /\ Writing(c) /\ txn[c].check # "stale"
    /\ Write(txn[c])
    /\ txn' = Written(c, txn[c].id, AfterCommit(txn[c]))
    /\ UNCHANGED <<tweetsCounter, unchecked>>

(* commit_unknown_result: the writes are in, the loop does not know it and *)
(* plays them again.                                                       *)
CommitUnknown(c) ==
    /\ Writing(c) /\ txn[c].check # "stale"
    /\ Write(txn[c])
    /\ txn' = Written(c, txn[c].id, [txn[c] EXCEPT !.check = "blind"])
    /\ UNCHANGED <<tweetsCounter, unchecked>>

(* A conflict, or another error that OnError answers with a reset.         *)
Retry(c) ==
    /\ Writing(c) /\ txn[c].check # "blind"
    /\ txn' = [txn EXCEPT ![c].check = "blind"]
    /\ UNCHANGED <<tweets, ratingIdx, creationIdx, tweetsCounter, unchecked>>

(* An error that cannot be retried, or the end of the call's context.      *)
CommitFails(c) ==
    /\ Writing(c)
    /\ txn' = [txn EXCEPT ![c] = AfterFailure(txn[c])]
    /\ UNCHANGED <<tweets, ratingIdx, creationIdx, tweetsCounter, unchecked>>

AddToCounter(c) ==
    /\ txn[c].step = "tally"
    /\ tweetsCounter' = Wrapped(tweetsCounter + txn[c].by)
    /\ txn' = [txn EXCEPT ![c] = Idle]
    /\ UNCHANGED <<tweets, ratingIdx, creationIdx, unchecked>>
-------------------------------------------------------------------------------
(* GetOldestTopReachableTweet: a scan of the positive entries in one       *)
(* transaction, the row of the chosen one in another, and, when that row   *)
(* is gone, a Clear of the scanned key in a third.  Which entry is chosen  *)
(* depends on the clock and on the top rating: any may be.                 *)
ScanRatings(c, e) ==
    /\ Serving /\ txn[c] = Idle
    /\ e \in ratingIdx /\ e[1] > 0
    /\ txn' = [txn EXCEPT ![c] = [step |-> "lookup", entry |-> e]]
    /\ UNCHANGED <<tweets, ratingIdx, creationIdx, tweetsCounter, unchecked>>

(* No Clear follows when the row is there, when reading it failed, or when *)
(* the entry was the fallback of a scan that found nothing reachable.      *)
LookupRow(c) ==
    /\ txn[c].step = "lookup"
    /\ \/ txn' = [txn EXCEPT ![c] = Idle]
       \/ /\ txn[c].entry[2] \notin Live
          /\ txn' = [txn EXCEPT ![c].step = "clear"]
    /\ UNCHANGED <<tweets, ratingIdx, creationIdx, tweetsCounter, unchecked>>

ClearEntry(c) ==
    /\ txn[c].step = "clear"
    /\ ratingIdx' \in {ratingIdx \ {txn[c].entry}, ratingIdx}   \* the Clear may fail
    /\ txn' = [txn EXCEPT ![c] = Idle]
    /\ UNCHANGED <<tweets, creationIdx, tweetsCounter, unchecked>>

(* Count answers from the counter while it is positive and recounts the    *)
(* rows otherwise; the store is a step of its own.                         *)
Count(c) ==
    /\ Serving /\ txn[c] = Idle
    /\ tweetsCounter <= 0
    /\ txn' = [txn EXCEPT ![c] = [step |-> "store", n |-> Cardinality(Live)]]
    /\ UNCHANGED <<tweets, ratingIdx, creationIdx, tweetsCounter, unchecked>>

StoreCount(c) ==
    /\ txn[c].step = "store"
    /\ tweetsCounter' = txn[c].n
    /\ txn' = [txn EXCEPT ![c] = Idle]
    /\ UNCHANGED <<tweets, ratingIdx, creationIdx, unchecked>>
-------------------------------------------------------------------------------
(* A crash loses every open call; the new process counts the rows (its     *)
(* counter stays 0 when Count gets no transaction) and scans both indexes  *)
(* before it serves (CleanWrongIndexes).                                   *)
Restart ==
    /\ txn' = [c \in Client |-> Idle]
    /\ tweetsCounter' \in {0, Cardinality(Live)}
    /\ unchecked' = [rating |-> ratingIdx, creation |-> creationIdx]
    /\ UNCHANGED <<tweets, ratingIdx, creationIdx>>

(* A worker of the pool checks one key: nobody writes rows at this time,   *)
(* so the read and the Clear are one step.  A failed check is only logged. *)
CheckRatingEntry(e) ==
    /\ e \in unchecked.rating
    /\ unchecked' = [unchecked EXCEPT !.rating = @ \ {e}]
    /\ \/ e[2] \notin Live /\ ratingIdx' = ratingIdx \ {e}
       \/ UNCHANGED ratingIdx
    /\ UNCHANGED <<tweets, creationIdx, tweetsCounter, txn>>

(* The startup check that clears whatever it reads.                        *)
CheckCreationEntry_Clears(t) ==
    /\ t \in unchecked.creation
    /\ unchecked' = [unchecked EXCEPT !.creation = @ \ {t}]
    /\ creationIdx' = creationIdx \ {t}
    /\ UNCHANGED <<tweets, ratingIdx, tweetsCounter, txn>>

CheckCreationEntry(t) ==
    /\ t \in unchecked.creation
    /\ unchecked' = [unchecked EXCEPT !.creation = @ \ {t}]
    /\ \/ t \notin Live /\ creationIdx' = creationIdx \ {t}
       \/ UNCHANGED creationIdx
    /\ UNCHANGED <<tweets, ratingIdx, tweetsCounter, txn>>
-------------------------------------------------------------------------------
Call(c) == \/ \E t \in Tweet : DeleteTweet(c, t) \/ \E s \in Snapshot : Save(c, t, s)
           \/ \E e \in Entry : ScanRatings(c, e)
           \/ Count(c)

Proceed(c) == \/ Commit(c) \/ CommitUnknown(c) \/ Retry(c) \/ CommitFails(c)
              \/ AddToCounter(c) \/ LookupRow(c) \/ ClearEntry(c) \/ StoreCount(c)

Sweep == \/ \E e \in Entry : CheckRatingEntry(e)
         \/ \E t \in Tweet : CheckCreationEntry(t)

Next == Restart \/ Sweep \/ \E c \in Client : Call(c) \/ Proceed(c)

Spec == Init /\ [][Next]_vars
-------------------------------------------------------------------------------
(* The creation index, the only thing the cleaner scans, lists exactly the *)
(* rows: Save and DeleteTweet move both in one commit, whatever was read,  *)
(* retried or lost, and the startup checks take nothing else away.         *)
CreationIndexExact == creationIdx = Live

(* Rows updateOldestFast cannot see: their rating entry is missing.        *)
Hidden == {t \in Live : <<tweets[t].rating, t>> \notin ratingIdx}

(* A live row loses its rating entry only to the late Clear of a scan that *)
(* found it absent before it was saved again (tweets.go:200-206); no       *)
(* conflict, retry, failure or startup check of an entry does it.          *)
OnlyLateClearHides ==
    [][ \/ Hidden' \subseteq Hidden
        \/ \E c \in Client : /\ ClearEntry(c)
                             /\ Hidden' \subseteq Hidden \cup {txn[c].entry[2]} ]_vars

BlindWrite(c) == Writing(c) /\ txn[c].check = "blind" /\ Write(txn[c])

(* Entries of the rating index that are not those of a row.                *)
Dangling == {e \in ratingIdx : e[2] \notin Live \/ tweets[e[2]].rating # e[1]}

(* A commit on valid reads replaces the entry of the row it replaces, so   *)
(* an entry is left behind only by writes that are played again blindly.   *)
DanglingOnlyByBlindWrite ==
    [][ Dangling' \subseteq Dangling \/ \E c \in Client : BlindWrite(c) ]_vars

OlderThanRow(t) == t \in Live /\ t \in Live' /\ tweets'[t].checkedAt < tweets[t].checkedAt

(* The comparison of Save holds at the commit as long as the reads are     *)
(* valid: only a blind replay puts an older snapshot over a newer one.     *)
OlderOnlyByBlindWrite ==
    [][ (\E t \in Tweet : OlderThanRow(t)) => \E c \in Client : BlindWrite(c) ]_vars

(* How far the gauge is from the number of rows once the clients that have *)
(* committed have moved it.                                                *)
Tallying(n) == {c \in Client : txn[c] = Tally(n)}
Drift == tweetsCounter + Cardinality(Tallying(1)) - Cardinality(Tallying(-1))
         - Cardinality(Live)

(* A commit on valid reads and its AddToCounter keep the gauge in step     *)
(* with the rows, up to the width of the counter: it drifts only by        *)
(* replays, failures and late recounts.                                    *)
GaugeFollowsRows ==
    [][ (\E c \in Client : (Commit(c) /\ txn[c].check = "valid") \/ AddToCounter(c))
        => Drift' - Drift \in {-Width, 0, Width} ]_vars

(* The rows and the creation index implement the abstract table.           *)
Table == INSTANCE TweetTable WITH rows <- tweets, listed <- creationIdx
TableSpec == Table!Spec
===============================================================================

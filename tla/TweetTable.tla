------------------------------ MODULE TweetTable ------------------------------
(***************************************************************************)
(* What the tweet repository promises its callers about the rows: every    *)
(* tweet has at most one snapshot, and the creation listing, the only      *)
(* thing cleanTooOldTweets ever scans, changes in the very step in which   *)
(* the row it points to appears or goes away.                              *)
(***************************************************************************)
CONSTANTS Tweet, Snapshot, NoTweet

VARIABLES rows,     \* rows[t]: the snapshot of t, NoTweet when there is none
          listed    \* the tweets the creation listing enumerates

Init == /\ rows = [t \in Tweet |-> NoTweet]
        /\ listed = {}

Put(t, s) == /\ rows' = [rows EXCEPT ![t] = s]
             /\ listed' = listed \cup {t}

Drop(t) == /\ rows' = [rows EXCEPT ![t] = NoTweet]
           /\ listed' = listed \ {t}

Next == \E t \in Tweet : Drop(t) \/ \E s \in Snapshot : Put(t, s)

Spec == Init /\ [][Next]_<<rows, listed>>
===============================================================================

-------------------------------- MODULE Ratings --------------------------------
(***************************************************************************)
(* How the votes of the Telegram channel become the ratings of the authors *)
(* (ratingcollector/fetcher.go, run by cmd/rating_updater/main.go; repo/   *)
(* rating.go).  At its start rating_updater pages through the history of   *)
(* the channel, marks the tweets it finds as sent and adds the votes up by *)
(* author; then it subscribes to reactions, and each reaction sets the     *)
(* rating of the author again.                                             *)
(*                                                                         *)
(* A message stands for the tweet it links to.  The parser takes a user    *)
(* from the first link of a message, whatever it leads to, so one with     *)
(* another link has a user too: the fetch asks for a link to Twitter, the  *)
(* handler of reactions does not.  The client library keeps the order of   *)
(* pages and handles one update at a time; it forgets updates that come    *)
(* without a handler.                                                      *)
(***************************************************************************)
EXTENDS Naturals, Sequences, FiniteSets

CONSTANTS
    Message,    \* messages of the channel
    Author,     \* Author[m]: the user in the first link of m
    NoAuthor,   \* the author of a message without a link
    Linked,     \* messages with a link to a tweet
    PageLimit,  \* messages on a page of the history (100 in the code)
    MaxLikes, MaxDislikes,  \* model bounds: votes of a kind for a message
    MaxFaults   \* model bound: failed calls and crashes

ASSUME RatingsAssumption ==
    /\ DOMAIN Author = Message
    /\ Linked \subseteq {m \in Message : Author[m] # NoAuthor}
    /\ PageLimit \in Nat \ {0}
    /\ MaxLikes \in Nat /\ MaxDislikes \in Nat /\ MaxFaults \in Nat

VARIABLES
    channel,   \* the messages of the channel, newest first
    votes,     \* votes[m]: the votes for m
    phase,     \* what rating_updater is doing
    offset,    \* the messages it has skipped to reach its page
    page,      \* the messages of the page it has still to count
    next,      \* what follows the page
    sums,      \* the votes counted so far, by user
    pending,   \* messages with a reaction it has still to be told of
    inHand,    \* what the handler is about to save: <<>> or <<rating>>
    ratings,   \* the ratings in the database, by user
    sent,      \* the messages whose tweets are marked as sent
    faults,    \* how many faults there have been
    seen,      \* history: the messages there when the fetch began, still there
    quiet,     \* history: has nothing happened in the channel since
    missed     \* history: has a reaction come to nothing since

chat  == <<channel, votes, seen, quiet>>
fetch == <<phase, offset, page, next, sums>>
react == <<pending, inHand, missed>>
db    == <<ratings, sent>>
vars  == <<chat, fetch, react, db, faults>>
-------------------------------------------------------------------------------
User == {Author[m] : m \in Message} \ {NoAuthor}

Votes  == [likes : 0 .. MaxLikes, dislikes : 0 .. MaxDislikes]
Rating == [likes : Nat, dislikes : Nat]
Zero   == [likes |-> 0, dislikes |-> 0]

Plus(r, s) == [likes |-> r.likes + s.likes, dislikes |-> r.dislikes + s.dislikes]

IsRatings(f) == /\ f = [u \in DOMAIN f |-> f[u]] /\ DOMAIN f \subseteq User
                /\ \A u \in DOMAIN f : f[u] \in Rating

InChannel == {channel[i] : i \in DOMAIN channel}

TypeOK ==
    /\ channel \in Seq(Message)
    /\ \A i, j \in DOMAIN channel : channel[i] = channel[j] => i = j
    /\ votes \in [Message -> Votes]
    /\ phase \in {"down", "fetching", "live"}
    /\ offset \in Nat
    /\ page \in Seq(Message \X Votes) /\ Len(page) <= PageLimit
    /\ next \in {"ask", "full", "short"}
    /\ IsRatings(sums) /\ IsRatings(ratings)
    /\ pending \subseteq Message
    /\ inHand \in Seq(User \X Votes) /\ Len(inHand) <= 1
    /\ sent \subseteq Message /\ seen \subseteq Message
    /\ faults \in 0 .. MaxFaults /\ quiet \in BOOLEAN /\ missed \in BOOLEAN

NoRatings == [u \in {} |-> Zero]

Orders == {c \in UNION {[1 .. n -> Message] : n \in 0 .. Cardinality(Message)} :
              \A i, j \in DOMAIN c : c[i] = c[j] => i = j}

Init ==
    /\ channel \in Orders
    /\ votes \in {v \in [Message -> Votes] : \A m \in Message \ InChannel : v[m] = Zero}
    /\ phase = "down" /\ offset = 0 /\ page = <<>> /\ next = "ask" /\ sums = NoRatings
    /\ pending = {} /\ inHand = <<>> /\ missed = FALSE
    /\ ratings = NoRatings /\ sent = {}
    /\ faults = 0 /\ seen = {} /\ quiet = TRUE

Fault == faults < MaxFaults /\ faults' = faults + 1
-------------------------------------------------------------------------------
(* The channel.  contentmaker posts, an administrator may delete, and the  *)
(* members give and take back their votes; who listens is told of a vote.  *)
Post(m) ==
    /\ m \notin InChannel /\ votes[m] = Zero
    /\ channel' = <<m>> \o channel
    /\ quiet' = FALSE
    /\ UNCHANGED <<votes, seen, fetch, react, db, faults>>

Without(c, i) == [j \in 1 .. Len(c) - 1 |-> IF j < i THEN c[j] ELSE c[j + 1]]

Delete(m) ==
    /\ \E i \in DOMAIN channel : channel[i] = m /\ channel' = Without(channel, i)
    /\ seen' = {} /\ quiet' = FALSE
    /\ UNCHANGED <<votes, fetch, react, db, faults>>

Vote(m) ==
    /\ m \in InChannel
    /\ \E v \in Votes \ {votes[m]} : votes' = [votes EXCEPT ![m] = v]
    /\ pending' = IF phase = "live" THEN pending \cup {m} ELSE pending
    /\ quiet' = FALSE
    /\ UNCHANGED <<channel, seen, fetch, inHand, missed, db, faults>>
-------------------------------------------------------------------------------
(* FetchRatingsAndSave.                                                    *)
Start ==
    /\ phase = "down"
    /\ phase' = "fetching" /\ offset' = 0 /\ page' = <<>> /\ next' = "ask"
    /\ sums' = NoRatings /\ missed' = FALSE
    /\ seen' = InChannel /\ quiet' = TRUE
    /\ UNCHANGED <<channel, votes, pending, inHand, db, faults>>

Behind(skip) == IF skip < Len(channel) THEN Len(channel) - skip ELSE 0

Item(i) == <<channel[i], votes[channel[i]]>>

(* A name with a suffix after an underscore is a faulty variant of the     *)
(* definition that follows it.                                             *)
GetHistory_Whole(skip) == [i \in 1 .. Behind(skip) |-> Item(skip + i)]

(* Telegram counts the messages to skip from the newest one there is now.  *)
GetHistory(skip) ==
    [i \in 1 .. (IF Behind(skip) < PageLimit THEN Behind(skip) ELSE PageLimit) |->
        Item(skip + i)]

FetchPage ==
    /\ phase = "fetching" /\ next = "ask"
    /\ page' = GetHistory(offset)
    /\ next' = IF Len(page') < PageLimit THEN "short" ELSE "full"
    /\ UNCHANGED <<chat, phase, offset, sums, react, db, faults>>

RatingOf(counted, u) == IF u \in DOMAIN counted THEN counted[u] ELSE Zero

Set(rs, u, r) == [w \in DOMAIN rs \cup {u} |-> IF w = u THEN r ELSE rs[w]]

(* A message without a link to a tweet is passed over, the tweet of any    *)
(* other is marked and its votes are added to those of its author.         *)
CountMessage ==
    /\ phase = "fetching" /\ page # <<>>
    /\ LET m == page[1][1]
           u == Author[m]
       IN  IF m \notin Linked THEN UNCHANGED <<sums, sent>>
           ELSE /\ sums' = Set(sums, u, Plus(RatingOf(sums, u), page[1][2]))
                /\ sent' = sent \cup {m}
    /\ page' = Tail(page)
    /\ UNCHANGED <<chat, phase, offset, next, react, ratings, faults>>

NextPage_Overlap ==
    /\ phase = "fetching" /\ page = <<>> /\ next = "full"
    /\ offset' = offset + PageLimit - 1 /\ next' = "ask"
    /\ UNCHANGED <<chat, phase, page, sums, react, db, faults>>

NextPage ==
    /\ phase = "fetching" /\ page = <<>> /\ next = "full"
    /\ offset' = offset + PageLimit /\ next' = "ask"
    /\ UNCHANGED <<chat, phase, page, sums, react, db, faults>>

(* SaveRatings overwrites the users the fetch has met, in one commit, and  *)
(* SubscribeAndSave follows at once.                                       *)
SaveRatings ==
    /\ phase = "fetching" /\ page = <<>> /\ next = "short"
    /\ phase' = "live"
    /\ ratings' = [u \in DOMAIN ratings \cup DOMAIN sums |->
                     IF u \in DOMAIN sums THEN sums[u] ELSE ratings[u]]
    /\ UNCHANGED <<chat, offset, page, next, sums, react, sent, faults>>
-------------------------------------------------------------------------------
(* The handler of SubscribeAndSave: it asks for the message, which may be  *)
(* gone, and sets the rating of its author to the votes of this message.   *)
ReadReaction(m) ==
    /\ phase = "live" /\ inHand = <<>> /\ m \in pending
    /\ pending' = pending \ {m}
    /\ IF m \in InChannel /\ Author[m] # NoAuthor
       THEN inHand' = <<<<Author[m], votes[m]>>>> /\ UNCHANGED missed
       ELSE UNCHANGED inHand /\ missed' = TRUE
    /\ UNCHANGED <<chat, fetch, db, faults>>

SaveReaction_Added ==
    /\ inHand # <<>>
    /\ ratings' = Set(ratings, inHand[1][1],
                      Plus(RatingOf(ratings, inHand[1][1]), inHand[1][2]))
    /\ inHand' = <<>>
    /\ UNCHANGED <<chat, fetch, pending, missed, sent, faults>>

SaveReaction ==
    /\ inHand # <<>>
    /\ ratings' = Set(ratings, inHand[1][1], inHand[1][2])
    /\ inHand' = <<>>
    /\ UNCHANGED <<chat, fetch, pending, missed, sent, faults>>

(* The update manager drops an update whose handler returns an error.      *)
ReactionFails ==
    /\ phase = "live" /\ Fault /\ missed' = TRUE
    /\ \/ inHand # <<>> /\ inHand' = <<>> /\ UNCHANGED pending
       \/ inHand = <<>> /\ (\E m \in pending : pending' = pending \ {m}) /\ UNCHANGED inHand
    /\ UNCHANGED <<chat, fetch, db>>

(* Any error of the fetch is a panic; nothing of the process remains.      *)
Crash ==
    /\ phase # "down" /\ Fault
    /\ phase' = "down" /\ pending' = {} /\ inHand' = <<>> /\ page' = <<>>
    /\ UNCHANGED <<chat, offset, next, sums, missed, db>>
-------------------------------------------------------------------------------
Fetch == Start \/ FetchPage \/ CountMessage \/ NextPage \/ SaveRatings

Handle == (\E m \in Message : ReadReaction(m)) \/ SaveReaction

Next ==
    \/ \E m \in Message : Post(m) \/ Delete(m) \/ Vote(m)
    \/ Fetch \/ Handle \/ ReactionFails \/ Crash

Spec == Init /\ [][Next]_vars
-------------------------------------------------------------------------------
By(u) == {m \in Message : Author[m] = u}

TweetsBy(u) == By(u) \cap Linked

(* The sum of the numbers f, one by one.                                   *)
Tally(f) == Cardinality(UNION {{m} \X (1 .. f[m]) : m \in DOMAIN f})

VotesFor(S) == [likes |-> Tally([m \in S |-> votes[m].likes]),
                dislikes |-> Tally([m \in S |-> votes[m].dislikes])]

Total(u) == VotesFor(TweetsBy(u) \cap InChannel)

(* What a fetch that has come to its end has recorded.  If messages were   *)
(* posted and voted on meanwhile, but none deleted, every message that was *)
(* there when it began has been met, and its tweet is marked as sent; if   *)
(* nothing happened in the channel, every author has the sum of the votes  *)
(* for his tweets, whatever the length of the history is to that of a page *)
(* (fetcher.go:104-172).                                                   *)
MeetsEveryMessage == seen \cap Linked \subseteq sent

CountsEveryVote ==
    quiet => \A u \in User : TweetsBy(u) \cap InChannel # {} => ratings'[u] = Total(u)

FetchIsComplete ==
    [][phase = "fetching" /\ phase' = "live" => MeetsEveryMessage /\ CountsEveryVote]_vars

(* When every reaction has been handled, and none has come to nothing, the *)
(* rating of a user whom the fetch has met is still the sum of the fetch,  *)
(* or the latest votes of a single message of his: the handler keeps up    *)
(* with the votes, but it does not add them up (fetcher.go:221-228).       *)
RatingIsCurrent ==
    phase = "live" /\ pending = {} /\ inHand = <<>> /\ ~ missed =>
        \A u \in DOMAIN sums :
            \/ ratings[u] = sums[u]
            \/ \E m \in By(u) : ratings[u] = votes[m]
===============================================================================

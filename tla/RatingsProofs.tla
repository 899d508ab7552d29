----------------------------- MODULE RatingsProofs -----------------------------
(***************************************************************************)
(* Proofs about Ratings, for any messages, authors and votes, any length   *)
(* of a page and any number of faults: its types, that a fetch meets every *)
(* message and counts every vote, and that a rating follows the votes.     *)
(***************************************************************************)
EXTENDS Ratings, FiniteSetTheorems, SequenceTheorems, TLAPS

(* A message cut out of the channel.                                       *)
LEMMA CutOut ==
    ASSUME NEW c \in Seq(Message), NEW i \in DOMAIN c,
           \A j, k \in DOMAIN c : c[j] = c[k] => j = k
    PROVE  /\ Without(c, i) \in Seq(Message)
           /\ \A j, k \in DOMAIN Without(c, i) : Without(c, i)[j] = Without(c, i)[k] => j = k
<1>1. /\ Len(c) \in Nat \ {0} /\ DOMAIN c = 1 .. Len(c) /\ i \in 1 .. Len(c)
      /\ \A j \in 1 .. Len(c) : c[j] \in Message
  BY LenProperties, ElementOfSeq
<1>2. Len(c) - 1 \in Nat
  BY <1>1
<1>3. \A j \in 1 .. Len(c) - 1 : (IF j < i THEN c[j] ELSE c[j + 1]) \in Message
  BY <1>1
<1>4. Without(c, i) \in Seq(Message)
  BY <1>2, <1>3 DEF Without
<1>5. \A j, k \in 1 .. Len(c) - 1 : Without(c, i)[j] = Without(c, i)[k] => j = k
  BY <1>1 DEF Without
<1> QED
  BY <1>4, <1>5 DEF Without

(* A message put in front of the channel.                                  *)
LEMMA PutInFront ==
    ASSUME NEW c \in Seq(Message), NEW m \in Message, \A i \in DOMAIN c : c[i] # m,
           \A j, k \in DOMAIN c : c[j] = c[k] => j = k,
           NEW d, d = <<m>> \o c
    PROVE  /\ d \in Seq(Message) /\ Len(d) = Len(c) + 1
           /\ \A j \in DOMAIN c : j + 1 \in DOMAIN d /\ d[j + 1] = c[j]
           /\ \A j, k \in DOMAIN d : d[j] = d[k] => j = k
<1>1. Len(c) \in Nat /\ DOMAIN c = 1 .. Len(c)
  BY LenProperties
<1>2. <<m>> \in Seq(Message) /\ Len(<<m>>) = 1 /\ <<m>>[1] = m
  OBVIOUS
<1>3. /\ d \in Seq(Message) /\ Len(d) = Len(c) + 1
      /\ \A j \in 1 .. Len(c) + 1 : d[j] = IF j <= 1 THEN m ELSE c[j - 1]
  <2>1. /\ d \in Seq(Message) /\ Len(d) = Len(<<m>>) + Len(c)
        /\ \A j \in 1 .. Len(<<m>>) + Len(c) :
              d[j] = IF j <= Len(<<m>>) THEN <<m>>[j] ELSE c[j - Len(<<m>>)]
    BY <1>2, ConcatProperties
  <2>2. ASSUME NEW j \in 1 .. Len(c) + 1 PROVE d[j] = IF j <= 1 THEN m ELSE c[j - 1]
    <3>1. d[j] = IF j <= 1 THEN <<m>>[j] ELSE c[j - 1]
      BY <1>1, <1>2, <2>1
    <3> QED
      BY <1>2, <3>1
  <2> QED
    BY <1>1, <1>2, <2>1, <2>2
<1>4. DOMAIN d = 1 .. Len(c) + 1
  BY <1>3, LenProperties
<1>5. \A j \in DOMAIN c : j + 1 \in DOMAIN d /\ d[j + 1] = c[j]
  BY <1>1, <1>3, <1>4
<1>6. ASSUME NEW j \in DOMAIN d, NEW k \in DOMAIN d, d[j] = d[k] PROVE j = k
  <2>1. j = 1 \/ j - 1 \in DOMAIN c
    BY <1>1, <1>4
  <2>2. k = 1 \/ k - 1 \in DOMAIN c
    BY <1>1, <1>4
  <2> QED
    BY <1>1, <1>3, <1>4, <1>6, <2>1, <2>2
<1> QED
  BY <1>3, <1>5, <1>6

(* What one page of the history holds.                                     *)
LEMMA PageOfHistory ==
    ASSUME TypeOK, NEW skip \in Nat
    PROVE  /\ GetHistory(skip) \in Seq(Message \X Votes)
           /\ Len(GetHistory(skip)) <= PageLimit
           /\ \A j \in DOMAIN channel : skip < j =>
                 \/ \E k \in DOMAIN GetHistory(skip) : GetHistory(skip)[k][1] = channel[j]
                 \/ skip + PageLimit < j /\ Len(GetHistory(skip)) = PageLimit
<1> DEFINE n == IF Behind(skip) < PageLimit THEN Behind(skip) ELSE PageLimit
<1>1. /\ Len(channel) \in Nat /\ DOMAIN channel = 1 .. Len(channel)
      /\ \A j \in 1 .. Len(channel) : channel[j] \in Message
  BY LenProperties, ElementOfSeq DEF TypeOK
<1>2. /\ n \in Nat /\ n <= PageLimit /\ PageLimit \in Nat
      /\ n <= Behind(skip) /\ (n = PageLimit \/ n = Behind(skip))
      /\ Behind(skip) \in Nat
      /\ skip < Len(channel) => Behind(skip) = Len(channel) - skip
      /\ ~ (skip < Len(channel)) => Behind(skip) = 0
  <2>1. PageLimit \in Nat \ {0}
    BY RatingsAssumption
  <2>2. Len(channel) \in Nat /\ skip \in Nat
    BY <1>1
  <2>3. CASE skip < Len(channel)
    <3>1. Behind(skip) = Len(channel) - skip
      BY <2>3 DEF Behind
    <3> QED
      BY <2>1, <2>2, <2>3, <3>1
  <2>4. CASE ~ (skip < Len(channel))
    <3>1. Behind(skip) = 0
      BY <2>4 DEF Behind
    <3> QED
      BY <2>1, <2>4, <3>1
  <2> QED
    BY <2>3, <2>4
<1>3. GetHistory(skip) = [i \in 1 .. n |-> Item(skip + i)]
  BY DEF GetHistory
<1>4. \A i \in 1 .. n : skip + i \in 1 .. Len(channel)
  BY <1>1, <1>2
<1>5. \A i \in 1 .. n : Item(skip + i) \in Message \X Votes
  BY <1>1, <1>4 DEF Item, TypeOK
<1>6. GetHistory(skip) \in Seq(Message \X Votes) /\ Len(GetHistory(skip)) = n
  BY <1>2, <1>3, <1>5
<1>7. ASSUME NEW j \in DOMAIN channel, skip < j
      PROVE  \/ \E k \in DOMAIN GetHistory(skip) : GetHistory(skip)[k][1] = channel[j]
             \/ skip + PageLimit < j /\ Len(GetHistory(skip)) = PageLimit
  <2>1. j - skip \in Nat \ {0} /\ skip + (j - skip) = j /\ j <= Len(channel)
    BY <1>1, <1>7
  <2>2. CASE j - skip <= n
    <3>1. GetHistory(skip)[j - skip] = Item(j) /\ j - skip \in DOMAIN GetHistory(skip)
      BY <1>2, <1>3, <2>1, <2>2
    <3> QED
      BY <3>1 DEF Item
  <2>3. CASE n < j - skip
    <3>1. n = PageLimit
      BY <1>1, <1>2, <2>1, <2>3
    <3> QED
      BY <1>1, <1>2, <1>6, <2>1, <2>3, <3>1
  <2> QED
    BY <1>2, <2>1, <2>2, <2>3
<1> QED
  BY <1>2, <1>6, <1>7
-------------------------------------------------------------------------------
LEMMA RatingTypes ==
    /\ Zero \in Rating /\ Zero \in Votes /\ Votes \subseteq Rating
    /\ \A r, s \in Rating : Plus(r, s) \in Rating
BY RatingsAssumption DEF Zero, Votes, Rating, Plus

LEMMA SetType ==
    ASSUME NEW f, IsRatings(f), NEW u \in User, NEW r \in Rating
    PROVE  IsRatings(Set(f, u, r)) /\ DOMAIN Set(f, u, r) = DOMAIN f \cup {u}
<1> DEFINE g == Set(f, u, r)
<1>1. g = [w \in DOMAIN f \cup {u} |-> IF w = u THEN r ELSE f[w]]
  BY DEF Set
<1>2. DOMAIN g = DOMAIN f \cup {u} /\ g = [w \in DOMAIN g |-> g[w]]
  BY <1>1
<1>3. \A w \in DOMAIN g : g[w] \in Rating
  BY <1>1 DEF IsRatings
<1>4. DOMAIN g \subseteq User
  BY <1>2 DEF IsRatings
<1> QED
  BY <1>2, <1>3, <1>4 DEF IsRatings

LEMMA ChannelTypes ==
    ASSUME TypeOK, NEW m \in Message, Post(m) \/ Delete(m)
    PROVE  /\ channel' \in Seq(Message)
           /\ \A i, j \in DOMAIN channel' : channel'[i] = channel'[j] => i = j
<1>1. /\ channel \in Seq(Message)
      /\ \A i, j \in DOMAIN channel : channel[i] = channel[j] => i = j
  BY DEF TypeOK
<1>2. CASE Post(m)
  <2>1. channel' = <<m>> \o channel /\ \A i \in DOMAIN channel : channel[i] # m
    BY <1>2 DEF Post, InChannel
  <2> QED
    BY <1>1, <2>1, PutInFront
<1>3. CASE Delete(m)
  <2>1. PICK i \in DOMAIN channel : channel' = Without(channel, i)
    BY <1>3 DEF Delete
  <2> QED
    BY <1>1, <2>1, CutOut
<1> QED
  BY <1>2, <1>3

(* The votes of the message at the head of the page are added up.          *)
LEMMA CountTypes ==
    ASSUME TypeOK, CountMessage
    PROVE  TypeOK'
<1>1. /\ page \in Seq(Message \X Votes) /\ page # <<>> /\ Len(page) <= PageLimit
      /\ IsRatings(sums) /\ sent \subseteq Message
  BY DEF TypeOK, CountMessage
<1>2. 1 \in 1 .. Len(page) /\ Len(page) \in Nat
  BY <1>1, EmptySeq
<1>3. page[1] \in Message \X Votes
  BY <1>1, <1>2, ElementOfSeq
<1>4. PageLimit \in Nat /\ Tail(page) \in Seq(Message \X Votes) /\ Len(Tail(page)) = Len(page) - 1
  BY <1>1, HeadTailProperties, RatingsAssumption
<1>5. page' \in Seq(Message \X Votes) /\ Len(page') <= PageLimit
  BY <1>1, <1>2, <1>4 DEF CountMessage
<1>6. PICK m \in Message : m = page[1][1]
  BY <1>3
<1>7. CASE m \notin Linked
  BY <1>5, <1>6, <1>7 DEF CountMessage, TypeOK, chat, react
<1>8. CASE m \in Linked
  <2>1. /\ sums' = Set(sums, Author[m], Plus(RatingOf(sums, Author[m]), page[1][2]))
        /\ sent' = sent \cup {m}
    BY <1>6, <1>8 DEF CountMessage
  <2>2. Author[m] \in User
    BY <1>8, RatingsAssumption DEF User
  <2>3. RatingOf(sums, Author[m]) \in Rating /\ page[1][2] \in Rating
    BY <1>1, <1>3, RatingTypes DEF RatingOf, IsRatings
  <2>4. Plus(RatingOf(sums, Author[m]), page[1][2]) \in Rating
    BY <2>3, RatingTypes
  <2>5. IsRatings(sums')
    BY <1>1, <2>1, <2>2, <2>4, SetType
  <2> QED
    BY <1>5, <2>1, <2>5 DEF CountMessage, TypeOK, chat, react
<1> QED
  BY <1>7, <1>8

LEMMA SaveTypes ==
    ASSUME TypeOK, SaveRatings
    PROVE  /\ TypeOK'
           /\ DOMAIN ratings' = DOMAIN ratings \cup DOMAIN sums
           /\ \A u \in DOMAIN sums : ratings'[u] = sums[u]
<1>1. ratings' = [u \in DOMAIN ratings \cup DOMAIN sums |->
                    IF u \in DOMAIN sums THEN sums[u] ELSE ratings[u]]
  BY DEF SaveRatings
<1>2. IsRatings(ratings')
  <2>1. IsRatings(ratings) /\ IsRatings(sums)
    BY DEF TypeOK
  <2>2. DOMAIN ratings' \subseteq User /\ ratings' = [u \in DOMAIN ratings' |-> ratings'[u]]
    BY <1>1, <2>1 DEF IsRatings
  <2>3. \A u \in DOMAIN ratings' : ratings'[u] \in Rating
    BY <1>1, <2>1 DEF IsRatings
  <2> QED
    BY <2>2, <2>3 DEF IsRatings
<1>3. TypeOK'
  BY <1>2 DEF SaveRatings, TypeOK, chat, react
<1> QED
  BY <1>1, <1>3

LEMMA ReadTypes ==
    ASSUME TypeOK, NEW m \in Message, ReadReaction(m)
    PROVE  TypeOK'
<1>1. inHand' \in Seq(User \X Votes) /\ Len(inHand') <= 1
  <2>1. CASE m \in InChannel /\ Author[m] # NoAuthor
    <3>1. PICK item \in User \X Votes : item = <<Author[m], votes[m]>>
      BY <2>1 DEF User, TypeOK
    <3>2. inHand' = <<item>>
      BY <2>1, <3>1 DEF ReadReaction
    <3> QED
      BY <3>2
  <2>2. CASE ~ (m \in InChannel /\ Author[m] # NoAuthor)
    BY <2>2 DEF ReadReaction, TypeOK
  <2> QED
    BY <2>1, <2>2
<1>2. pending' \subseteq Message /\ missed' \in BOOLEAN
  BY DEF ReadReaction, TypeOK
<1> QED
  BY <1>1, <1>2 DEF ReadReaction, TypeOK, chat, fetch, db

LEMMA InHandType ==
    ASSUME TypeOK, inHand # <<>>
    PROVE  inHand[1][1] \in User /\ inHand[1][2] \in Votes
<1>1. inHand \in Seq(User \X Votes)
  BY DEF TypeOK
<1>2. 1 \in 1 .. Len(inHand)
  BY <1>1, EmptySeq
<1>3. inHand[1] \in User \X Votes
  BY <1>1, <1>2, ElementOfSeq
<1> QED
  BY <1>3

LEMMA SaveReactionTypes ==
    ASSUME TypeOK, SaveReaction
    PROVE  /\ TypeOK'
           /\ DOMAIN ratings' = DOMAIN ratings \cup {inHand[1][1]}
<1>1. inHand[1][1] \in User /\ inHand[1][2] \in Rating
  BY InHandType, RatingTypes DEF SaveReaction
<1>2. IsRatings(ratings)
  BY DEF TypeOK
<1>3. ratings' = Set(ratings, inHand[1][1], inHand[1][2])
  BY DEF SaveReaction
<1>4. IsRatings(ratings') /\ DOMAIN ratings' = DOMAIN ratings \cup {inHand[1][1]}
  BY <1>1, <1>2, <1>3, SetType
<1>5. inHand' \in Seq(User \X Votes) /\ Len(inHand') <= 1
  BY EmptySeq DEF SaveReaction
<1> QED
  BY <1>4, <1>5 DEF SaveReaction, TypeOK, chat, fetch

LEMMA TypesHold == TypeOK /\ [Next]_vars => TypeOK'
<1> SUFFICES ASSUME TypeOK, [Next]_vars PROVE TypeOK'
  OBVIOUS
<1>1. ASSUME NEW m \in Message, Post(m) PROVE TypeOK'
  <2>1. /\ channel' \in Seq(Message)
        /\ \A i, j \in DOMAIN channel' : channel'[i] = channel'[j] => i = j
    BY <1>1, ChannelTypes
  <2> QED
    BY <1>1, <2>1 DEF Post, TypeOK, fetch, react, db
<1>2. ASSUME NEW m \in Message, Delete(m) PROVE TypeOK'
  <2>1. /\ channel' \in Seq(Message)
        /\ \A i, j \in DOMAIN channel' : channel'[i] = channel'[j] => i = j
    BY <1>2, ChannelTypes
  <2> QED
    BY <1>2, <2>1 DEF Delete, TypeOK, fetch, react, db
<1>3. ASSUME NEW m \in Message, Vote(m) PROVE TypeOK'
  <2>1. votes' \in [Message -> Votes] /\ pending' \subseteq Message
    BY <1>3 DEF Vote, TypeOK
  <2> QED
    BY <1>3, <2>1 DEF Vote, TypeOK, fetch, db
<1>4. CASE Start
  <2>1. /\ page' \in Seq(Message \X Votes) /\ Len(page') <= PageLimit
        /\ IsRatings(sums') /\ seen' \subseteq Message
    <3>1. InChannel \subseteq Message
      BY LenProperties, ElementOfSeq DEF InChannel, TypeOK
    <3>2. IsRatings(NoRatings)
      BY DEF IsRatings, NoRatings
    <3> QED
      BY <1>4, <3>1, <3>2, EmptySeq, RatingsAssumption DEF Start
  <2> QED
    BY <1>4, <2>1 DEF Start, TypeOK, db
<1>5. CASE FetchPage
  <2>1. page' \in Seq(Message \X Votes) /\ Len(page') <= PageLimit
    BY <1>5, PageOfHistory DEF FetchPage, TypeOK
  <2>2. next' \in {"ask", "full", "short"}
    BY <1>5 DEF FetchPage
  <2> QED
    BY <1>5, <2>1, <2>2 DEF FetchPage, TypeOK, chat, react, db
<1>6. CASE CountMessage
  BY <1>6, CountTypes
<1>7. CASE NextPage
  <2>1. offset' \in Nat /\ next' = "ask"
    BY <1>7, RatingsAssumption DEF NextPage, TypeOK
  <2> QED
    BY <1>7, <2>1 DEF NextPage, TypeOK, chat, react, db
<1>8. CASE SaveRatings
  BY <1>8, SaveTypes
<1>9. ASSUME NEW m \in Message, ReadReaction(m) PROVE TypeOK'
  BY <1>9, ReadTypes
<1>10. CASE SaveReaction
  BY <1>10, SaveReactionTypes
<1>11. CASE ReactionFails
  <2>1. /\ inHand' \in Seq(User \X Votes) /\ Len(inHand') <= 1
        /\ pending' \subseteq Message /\ missed' \in BOOLEAN
    <3>1. inHand' = <<>> \/ inHand' = inHand
      BY <1>11 DEF ReactionFails
    <3>2. <<>> \in Seq(User \X Votes) /\ Len(<<>>) <= 1
      BY EmptySeq
    <3>3. inHand' \in Seq(User \X Votes) /\ Len(inHand') <= 1
      BY <3>1, <3>2 DEF TypeOK
    <3> QED
      BY <1>11, <3>3 DEF ReactionFails, TypeOK
  <2>2. faults' \in 0 .. MaxFaults
    BY <1>11, RatingsAssumption DEF ReactionFails, Fault, TypeOK
  <2> QED
    BY <1>11, <2>1, <2>2 DEF ReactionFails, TypeOK, chat, fetch, db
<1>12. CASE Crash
  <2>1. /\ inHand' \in Seq(User \X Votes) /\ Len(inHand') <= 1
        /\ page' \in Seq(Message \X Votes) /\ Len(page') <= PageLimit
    BY <1>12, EmptySeq, RatingsAssumption DEF Crash
  <2>2. faults' \in 0 .. MaxFaults
    BY <1>12, RatingsAssumption DEF Crash, Fault, TypeOK
  <2> QED
    BY <1>12, <2>1, <2>2 DEF Crash, TypeOK, chat, db
<1>13. CASE UNCHANGED vars
  BY <1>13 DEF vars, chat, fetch, react, db, TypeOK
<1> QED
  BY <1>1, <1>2, <1>3, <1>4, <1>5, <1>6, <1>7, <1>8, <1>9, <1>10, <1>11, <1>12, <1>13
     DEF Next, Fetch, Handle

(* Every variable keeps its type, for any channel, any length of a page    *)
(* and any number of faults; no page of the history is too long.           *)
THEOREM RatingsTypeCorrect == Spec => []TypeOK
<1>1. Init => TypeOK
  <2> SUFFICES ASSUME Init PROVE TypeOK
    OBVIOUS
  <2>1. /\ channel \in Seq(Message)
        /\ \A i, j \in DOMAIN channel : channel[i] = channel[j] => i = j
    <3>1. PICK n \in Nat : channel \in [1 .. n -> Message]
      BY DEF Init, Orders
    <3> QED
      BY <3>1 DEF Init, Orders
  <2>2. page \in Seq(Message \X Votes) /\ Len(page) <= PageLimit
    BY EmptySeq, RatingsAssumption DEF Init
  <2>3. inHand \in Seq(User \X Votes) /\ Len(inHand) <= 1
    BY EmptySeq DEF Init
  <2>4. IsRatings(sums) /\ IsRatings(ratings)
    BY DEF Init, IsRatings, NoRatings
  <2>5. faults \in 0 .. MaxFaults /\ offset \in Nat
    BY RatingsAssumption DEF Init
  <2> QED
    BY <2>1, <2>2, <2>3, <2>4, <2>5 DEF Init, TypeOK
<1> QED
  BY <1>1, TypesHold, PTL DEF Spec
-------------------------------------------------------------------------------
(* While it fetches, every message that was there at the start has been    *)
(* counted, is on the page in hand, or is behind what has been read: the   *)
(* messages posted since only push the others back.                        *)
Unread(j) == next # "short" /\ offset + (IF next = "ask" THEN 0 ELSE PageLimit) < j

OnPage(m) == \E i \in DOMAIN page : page[i][1] = m

Behindhand(m) == \E j \in DOMAIN channel : channel[j] = m /\ Unread(j)

MeetInv ==
    /\ next = "ask" => page = <<>>
    /\ phase = "fetching" =>
          \A m \in seen : m \notin Linked \/ m \in sent \/ OnPage(m) \/ Behindhand(m)

LEMMA CountMeets ==
    ASSUME TypeOK, MeetInv, CountMessage
    PROVE  MeetInv'
<1>1. /\ page \in Seq(Message \X Votes) /\ page # <<>> /\ page' = Tail(page)
      /\ next' = next /\ offset' = offset /\ channel' = channel /\ seen' = seen
      /\ phase' = phase /\ phase = "fetching" /\ sent \subseteq sent'
  BY DEF TypeOK, CountMessage, chat
<1>2. /\ Len(page) \in Nat \ {0} /\ DOMAIN page = 1 .. Len(page)
      /\ page' \in Seq(Message \X Votes) /\ Len(page') = Len(page) - 1
      /\ \A i \in 1 .. Len(page') : page'[i] = page[i + 1]
  BY <1>1, EmptySeq, LenProperties, HeadTailProperties
<1>3. DOMAIN page' = 1 .. Len(page) - 1
  BY <1>2, LenProperties
<1>4. ASSUME NEW m \in seen, OnPage(m) PROVE m \notin Linked \/ m \in sent' \/ OnPage(m)'
  <2>1. PICK i \in 1 .. Len(page) : page[i][1] = m
    BY <1>2, <1>4 DEF OnPage
  <2>2. CASE i = 1
    BY <2>1, <2>2 DEF CountMessage
  <2>3. CASE i # 1
    <3>1. i - 1 \in DOMAIN page' /\ page'[i - 1] = page[i]
      BY <1>2, <1>3, <2>3
    <3> QED
      BY <2>1, <3>1 DEF OnPage
  <2> QED
    BY <2>2, <2>3
<1>5. \A m \in seen : Behindhand(m) => Behindhand(m)'
  BY <1>1 DEF Behindhand, Unread
<1>6. next # "ask"
  BY <1>1 DEF MeetInv
<1> QED
  BY <1>1, <1>4, <1>5, <1>6 DEF MeetInv

LEMMA PageMeets ==
    ASSUME TypeOK, MeetInv, FetchPage
    PROVE  MeetInv'
<1>1. /\ page' = GetHistory(offset) /\ offset \in Nat /\ next = "ask" /\ phase = "fetching"
      /\ next' = (IF Len(page') < PageLimit THEN "short" ELSE "full")
      /\ channel' = channel /\ seen' = seen /\ sent' = sent /\ offset' = offset
      /\ phase' = phase /\ PageLimit \in Nat
  BY RatingsAssumption DEF TypeOK, FetchPage, chat, db, react
<1>2. ASSUME NEW m \in seen, Behindhand(m) PROVE OnPage(m)' \/ Behindhand(m)'
  <2>1. PICK j \in DOMAIN channel : channel[j] = m /\ offset + 0 < j
    BY <1>1, <1>2 DEF Behindhand, Unread
  <2>2. \/ \E k \in DOMAIN page' : page'[k][1] = m
        \/ offset + PageLimit < j /\ Len(page') = PageLimit
    <3>1. offset < j
      BY <1>1, <1>2, <2>1, LenProperties DEF TypeOK
    <3>2. \A i \in DOMAIN channel : offset < i =>
             \/ \E k \in DOMAIN GetHistory(offset) : GetHistory(offset)[k][1] = channel[i]
             \/ offset + PageLimit < i /\ Len(GetHistory(offset)) = PageLimit
      BY <1>1, PageOfHistory
    <3>3. \/ \E k \in DOMAIN GetHistory(offset) : GetHistory(offset)[k][1] = channel[j]
          \/ offset + PageLimit < j /\ Len(GetHistory(offset)) = PageLimit
      BY <2>1, <3>1, <3>2, Zenon
    <3> QED
      BY <1>1, <2>1, <3>3, Zenon
  <2>3. CASE \E k \in DOMAIN page' : page'[k][1] = m
    BY <2>3 DEF OnPage
  <2>4. CASE offset + PageLimit < j /\ Len(page') = PageLimit
    <3>1. next' = "full"
      BY <1>1, <2>4
    <3> QED
      BY <1>1, <2>1, <2>4, <3>1 DEF Behindhand, Unread
  <2> QED
    BY <2>2, <2>3, <2>4
<1>3. \A m : ~ OnPage(m)
  BY <1>1 DEF MeetInv, OnPage
<1> QED
  BY <1>1, <1>2, <1>3 DEF MeetInv

(* The channel only grows at its front, or forgets what has been seen.     *)
LEMMA ChannelMeets ==
    ASSUME TypeOK, MeetInv, NEW m \in Message, Post(m) \/ Delete(m)
    PROVE  MeetInv'
<1>1. CASE Post(m)
  <2>1. /\ channel' = <<m>> \o channel /\ channel \in Seq(Message)
        /\ \A i \in DOMAIN channel : channel[i] # m
        /\ \A i, j \in DOMAIN channel : channel[i] = channel[j] => i = j
        /\ UNCHANGED <<phase, offset, page, next, seen, sent>>
        /\ offset \in Nat /\ PageLimit \in Nat
    BY <1>1, RatingsAssumption DEF Post, InChannel, TypeOK, fetch, db
  <2>2. \A j \in DOMAIN channel : j + 1 \in DOMAIN channel' /\ channel'[j + 1] = channel[j]
    BY <2>1, PutInFront
  <2>3. ASSUME NEW n \in seen, Behindhand(n) PROVE Behindhand(n)'
    <3>1. PICK j \in DOMAIN channel : channel[j] = n /\ Unread(j)
      BY <2>3 DEF Behindhand
    <3>2. j \in Nat
      BY <2>1, LenProperties
    <3>3. Unread(j + 1)'
      <4>1. offset + (IF next = "ask" THEN 0 ELSE PageLimit) \in Nat
        BY <2>1
      <4> QED
        BY <2>1, <3>1, <3>2, <4>1 DEF Unread
    <3> QED
      BY <2>2, <3>1, <3>3 DEF Behindhand
  <2>4. \A n : OnPage(n) => OnPage(n)'
    BY <2>1 DEF OnPage
  <2> QED
    BY <2>1, <2>3, <2>4 DEF MeetInv
<1>2. CASE Delete(m)
  BY <1>2 DEF Delete, MeetInv, fetch
<1> QED
  BY <1>1, <1>2

LEMMA MeetHolds == TypeOK /\ MeetInv /\ [Next]_vars => MeetInv'
<1> SUFFICES ASSUME TypeOK, MeetInv, [Next]_vars PROVE MeetInv'
  OBVIOUS
<1>1. CASE UNCHANGED <<channel, seen, phase, offset, page, next, sent>>
  BY <1>1 DEF MeetInv, OnPage, Behindhand, Unread
<1>2. ASSUME NEW m \in Message, Post(m) \/ Delete(m) PROVE MeetInv'
  BY <1>2, ChannelMeets
<1>3. ASSUME NEW m \in Message, Vote(m) \/ ReadReaction(m) PROVE MeetInv'
  BY <1>1, <1>3 DEF Vote, ReadReaction, chat, fetch, db
<1>4. CASE Start
  <2>1. channel \in Seq(Message) /\ channel' = channel
    BY <1>4 DEF Start, TypeOK
  <2>2. ASSUME NEW m \in seen' PROVE Behindhand(m)'
    <3>1. PICK j \in DOMAIN channel : channel[j] = m
      BY <1>4, <2>2 DEF Start, InChannel
    <3>2. j \in Nat \ {0}
      BY <2>1, LenProperties
    <3>3. Unread(j)'
      BY <1>4, <3>2 DEF Start, Unread
    <3> QED
      BY <2>1, <3>1, <3>3 DEF Behindhand
  <2> QED
    BY <1>4, <2>2 DEF Start, MeetInv
<1>5. CASE FetchPage
  BY <1>5, PageMeets
<1>6. CASE CountMessage
  BY <1>6, CountMeets
<1>7. CASE NextPage
  <2>1. \A m : ~ OnPage(m)
    BY <1>7 DEF NextPage, OnPage
  <2>2. \A m : Behindhand(m) => Behindhand(m)'
    <3>1. \A j : Unread(j) => Unread(j)'
      <4>1. offset \in Nat /\ PageLimit \in Nat
        BY RatingsAssumption DEF TypeOK
      <4>2. offset' = offset + PageLimit /\ next = "full" /\ next' = "ask"
        BY <1>7 DEF NextPage
      <4>3. offset' + 0 = offset + PageLimit
        BY <4>1, <4>2
      <4> QED
        BY <4>2, <4>3 DEF Unread
    <3> QED
      BY <1>7, <3>1 DEF NextPage, Behindhand, chat
  <2> QED
    BY <1>7, <2>1, <2>2 DEF NextPage, MeetInv, chat, db
<1>8. CASE SaveRatings
  BY <1>8 DEF SaveRatings, MeetInv
<1>9. CASE SaveReaction \/ ReactionFails \/ UNCHANGED vars
  BY <1>1, <1>9 DEF SaveReaction, ReactionFails, vars, chat, fetch, db
<1>10. CASE Crash
  BY <1>10 DEF Crash, MeetInv
<1> QED
  BY <1>2, <1>3, <1>4, <1>5, <1>6, <1>7, <1>8, <1>9, <1>10 DEF Next, Fetch, Handle

(* A fetch ends with nothing left on its page or behind it.                *)
LEMMA MeetsAtTheEnd == MeetInv /\ SaveRatings => MeetsEveryMessage
<1> SUFFICES ASSUME MeetInv, SaveRatings PROVE MeetsEveryMessage
  OBVIOUS
<1>1. page = <<>> /\ next = "short" /\ phase = "fetching"
  BY DEF SaveRatings
<1>2. \A m \in seen : ~ OnPage(m) /\ ~ Behindhand(m)
  BY <1>1 DEF OnPage, Behindhand, Unread
<1> QED
  BY <1>1, <1>2 DEF MeetInv, MeetsEveryMessage
-------------------------------------------------------------------------------
(* Tallies, as sets of single votes.                                       *)
OneByOne(f) == UNION {{m} \X (1 .. f[m]) : m \in DOMAIN f}

LEMMA FiniteTally ==
    ASSUME NEW S, IsFiniteSet(S), NEW n \in Nat, NEW f \in [S -> 0 .. n]
    PROVE  IsFiniteSet(OneByOne(f)) /\ Tally(f) \in Nat
<1>1. IsFiniteSet(S \X (1 .. n))
  <2>1. 1 \in Int /\ n \in Int
    OBVIOUS
  <2> QED
    BY <2>1, FS_Interval, FS_Product
<1>2. OneByOne(f) \subseteq S \X (1 .. n)
  <2> SUFFICES ASSUME NEW m \in S, NEW p \in {m} \X (1 .. f[m]) PROVE p \in S \X (1 .. n)
    BY DEF OneByOne
  <2>1. PICK i \in 1 .. f[m] : p = <<m, i>>
    OBVIOUS
  <2>2. f[m] \in 0 .. n
    OBVIOUS
  <2>3. i \in 1 .. n
    BY <2>1, <2>2
  <2> QED
    BY <2>1, <2>3
<1>3. IsFiniteSet(OneByOne(f))
  BY <1>1, <1>2, FS_Subset
<1>4. Tally(f) = Cardinality(OneByOne(f))
  BY DEF Tally, OneByOne
<1> QED
  BY <1>3, <1>4, FS_CardinalityType

LEMMA TallyMore ==
    ASSUME NEW S, IsFiniteSet(S), NEW n \in Nat, NEW m, m \notin S,
           NEW f \in [S -> 0 .. n], NEW g \in [S \cup {m} -> 0 .. n],
           \A x \in S : g[x] = f[x]
    PROVE  Tally(g) = Tally(f) + g[m]
<1> DEFINE new == {m} \X (1 .. g[m])
<1>1. g[m] \in 0 .. n /\ g[m] \in Nat
  OBVIOUS
<1>2. IsFiniteSet(new) /\ Cardinality(new) = g[m]
  <2>1. 1 \in Int /\ g[m] \in Int
    BY <1>1
  <2>2. IsFiniteSet(1 .. g[m]) /\ Cardinality(1 .. g[m]) = g[m]
    <3>1. /\ IsFiniteSet(1 .. g[m])
          /\ Cardinality(1 .. g[m]) = IF 1 > g[m] THEN 0 ELSE g[m] - 1 + 1
      BY <2>1, FS_Interval
    <3> QED
      BY <1>1, <3>1
  <2>3. IsFiniteSet({m}) /\ Cardinality({m}) = 1
    BY FS_Singleton
  <2>4. IsFiniteSet(new) /\ Cardinality(new) = Cardinality({m}) * Cardinality(1 .. g[m])
    BY <2>2, <2>3, FS_Product
  <2> QED
    BY <1>1, <2>2, <2>3, <2>4
<1>3. OneByOne(g) = OneByOne(f) \cup new
  <2>1. \A p : p \in OneByOne(g) <=> \E x \in S \cup {m} : p \in {x} \X (1 .. g[x])
    BY DEF OneByOne
  <2>2. \A p : p \in OneByOne(f) <=> \E x \in S : p \in {x} \X (1 .. f[x])
    BY DEF OneByOne
  <2> QED
    BY <2>1, <2>2
<1>4. OneByOne(f) \cap new = {}
  <2> SUFFICES ASSUME NEW x \in S, NEW p \in {x} \X (1 .. f[x]) PROVE p \notin new
    BY DEF OneByOne
  <2> QED
    OBVIOUS
<1>5. IsFiniteSet(OneByOne(f)) /\ Tally(f) \in Nat
  BY FiniteTally
<1>6. Tally(f) = Cardinality(OneByOne(f)) /\ Tally(g) = Cardinality(OneByOne(g))
  BY DEF Tally, OneByOne
<1> HIDE DEF new
<1>7. Cardinality(OneByOne(f) \cup new)
        = Cardinality(OneByOne(f)) + Cardinality(new) - Cardinality(OneByOne(f) \cap new)
  BY <1>2, <1>5, FS_Union
<1>8. Cardinality(OneByOne(f) \cap new) = 0
  BY <1>4, FS_EmptySet
<1> QED
  BY <1>1, <1>2, <1>3, <1>5, <1>6, <1>7, <1>8

LEMMA VotesForNone == VotesFor({}) = Zero
<1>1. ASSUME NEW f, DOMAIN f = {} PROVE Tally(f) = 0
  <2>1. OneByOne(f) = {}
    BY <1>1 DEF OneByOne
  <2> QED
    BY <2>1, FS_EmptySet DEF Tally, OneByOne
<1>2. Tally([m \in {} |-> votes[m].likes]) = 0 /\ Tally([m \in {} |-> votes[m].dislikes]) = 0
  BY <1>1
<1> QED
  BY <1>2 DEF VotesFor, Zero

(* One more message adds its votes.                                        *)
LEMMA VotesForMore ==
    ASSUME votes \in [Message -> Votes],
           NEW S, S \subseteq Message, IsFiniteSet(S), NEW m \in Message, m \notin S
    PROVE  VotesFor(S \cup {m}) = Plus(VotesFor(S), votes[m])
<1> DEFINE T == S \cup {m}
<1>1. MaxLikes \in Nat /\ MaxDislikes \in Nat
  BY RatingsAssumption
<1>2. \A x \in Message : votes[x].likes \in 0 .. MaxLikes /\ votes[x].dislikes \in 0 .. MaxDislikes
  BY DEF Votes
<1>3. Tally([x \in T |-> votes[x].likes]) = Tally([x \in S |-> votes[x].likes]) + votes[m].likes
  <2>1. PICK f : f = [x \in S |-> votes[x].likes]
    OBVIOUS
  <2>2. PICK g : g = [x \in T |-> votes[x].likes]
    OBVIOUS
  <2>3. f \in [S -> 0 .. MaxLikes] /\ g \in [S \cup {m} -> 0 .. MaxLikes]
    BY <1>2, <2>1, <2>2
  <2>4. (\A x \in S : g[x] = f[x]) /\ g[m] = votes[m].likes
    BY <2>1, <2>2
  <2>5. Tally(g) = Tally(f) + g[m]
    <3>1. MaxLikes \in Nat /\ IsFiniteSet(S) /\ m \notin S
      BY <1>1
    <3>2. \A x \in S : g[x] = f[x]
      BY <2>4
    <3> QED
      BY <2>3, <3>1, <3>2, TallyMore
  <2> QED
    BY <2>1, <2>2, <2>4, <2>5
<1>4. Tally([x \in T |-> votes[x].dislikes])
        = Tally([x \in S |-> votes[x].dislikes]) + votes[m].dislikes
  <2>1. PICK f : f = [x \in S |-> votes[x].dislikes]
    OBVIOUS
  <2>2. PICK g : g = [x \in T |-> votes[x].dislikes]
    OBVIOUS
  <2>3. f \in [S -> 0 .. MaxDislikes] /\ g \in [S \cup {m} -> 0 .. MaxDislikes]
    BY <1>2, <2>1, <2>2
  <2>4. (\A x \in S : g[x] = f[x]) /\ g[m] = votes[m].dislikes
    BY <2>1, <2>2
  <2>5. Tally(g) = Tally(f) + g[m]
    <3>1. MaxDislikes \in Nat /\ IsFiniteSet(S) /\ m \notin S
      BY <1>1
    <3>2. \A x \in S : g[x] = f[x]
      BY <2>4
    <3> QED
      BY <2>3, <3>1, <3>2, TallyMore
  <2> QED
    BY <2>1, <2>2, <2>4, <2>5
<1> QED
  BY <1>3, <1>4 DEF VotesFor, Plus
-------------------------------------------------------------------------------
(* While nothing happens in the channel, the fetch has counted the first   *)
(* messages of it, each of them once; those on the page in hand come next. *)
Read == offset + (IF next = "ask" THEN 0 ELSE Len(GetHistory(offset)) - Len(page))

First(n) == {channel[i] : i \in 1 .. n}

Summed(n) == \A u \in User :
    /\ RatingOf(sums, u) = VotesFor(TweetsBy(u) \cap First(n))
    /\ TweetsBy(u) \cap First(n) # {} => u \in DOMAIN sums

CountInv == phase = "fetching" /\ quiet =>
    /\ offset <= Len(channel)
    /\ next = "ask" => page = <<>>
    /\ next # "ask" =>
          /\ Len(page) <= Len(GetHistory(offset))
          /\ \A i \in DOMAIN page : page[i] = Item(Read + i)
          /\ next = "short" <=> Len(GetHistory(offset)) < PageLimit
    /\ Summed(Read)

LEMMA LengthOfPage ==
    ASSUME TypeOK, offset <= Len(channel)
    PROVE  /\ Len(GetHistory(offset)) \in Nat
           /\ offset + Len(GetHistory(offset)) <= Len(channel)
           /\ Len(GetHistory(offset)) < PageLimit =>
                 offset + Len(GetHistory(offset)) = Len(channel)
           /\ Len(GetHistory(offset)) <= PageLimit
           /\ DOMAIN GetHistory(offset) = 1 .. Len(GetHistory(offset))
           /\ \A i \in DOMAIN GetHistory(offset) : GetHistory(offset)[i] = Item(offset + i)
<1> DEFINE n == IF Behind(offset) < PageLimit THEN Behind(offset) ELSE PageLimit
<1>1. /\ Len(channel) \in Nat /\ offset \in Nat /\ PageLimit \in Nat
      /\ channel \in Seq(Message)
  BY LenProperties, RatingsAssumption DEF TypeOK
<1>2. Behind(offset) \in Nat /\ offset + Behind(offset) = Len(channel)
  <2>1. CASE offset < Len(channel)
    BY <1>1, <2>1 DEF Behind
  <2>2. CASE offset = Len(channel)
    BY <1>1, <2>2 DEF Behind
  <2> QED
    BY <1>1, <2>1, <2>2
<1>3. n \in Nat /\ n <= PageLimit /\ n <= Behind(offset) /\ (n < PageLimit => n = Behind(offset))
  BY <1>1, <1>2
<1>4. GetHistory(offset) = [i \in 1 .. n |-> Item(offset + i)]
  BY DEF GetHistory
<1>5. \A i \in 1 .. n : offset + i \in DOMAIN channel
  BY <1>1, <1>2, <1>3, LenProperties
<1>6. GetHistory(offset) \in Seq(Message \X Votes) /\ Len(GetHistory(offset)) = n
  <2>1. \A i \in 1 .. n : Item(offset + i) \in Message \X Votes
    BY <1>1, <1>5, ElementOfSeq DEF Item, TypeOK
  <2> QED
    BY <1>3, <1>4, <2>1
<1>7. DOMAIN GetHistory(offset) = 1 .. Len(GetHistory(offset))
  BY <1>4, <1>6
<1>8. \A i \in DOMAIN GetHistory(offset) : GetHistory(offset)[i] = Item(offset + i)
  BY <1>4
<1> HIDE DEF n
<1> QED
  BY <1>1, <1>2, <1>3, <1>6, <1>7, <1>8

LEMMA FirstMessages ==
    ASSUME TypeOK, NEW n \in Nat, n <= Len(channel)
    PROVE  /\ First(n) \subseteq Message /\ IsFiniteSet(First(n))
           /\ n = Len(channel) => First(n) = InChannel
           /\ n < Len(channel) => /\ channel[n + 1] \in Message
                                  /\ channel[n + 1] \notin First(n)
                                  /\ First(n + 1) = First(n) \cup {channel[n + 1]}
<1>1. /\ Len(channel) \in Nat /\ DOMAIN channel = 1 .. Len(channel)
      /\ \A j \in 1 .. Len(channel) : channel[j] \in Message
      /\ \A i, j \in DOMAIN channel : channel[i] = channel[j] => i = j
  BY LenProperties, ElementOfSeq DEF TypeOK
<1>2. 1 .. n \subseteq DOMAIN channel
  BY <1>1
<1>3. First(n) \subseteq Message
  BY <1>1, <1>2 DEF First
<1>4. IsFiniteSet(First(n))
  <2>1. IsFiniteSet(1 .. n)
    <3>1. 1 \in Int /\ n \in Int
      OBVIOUS
    <3> QED
      BY <3>1, FS_Interval
  <2> DEFINE f == [i \in 1 .. n |-> channel[i]]
  <2>2. f \in Surjection(1 .. n, First(n))
    BY DEF Surjection, First
  <2> QED
    BY <2>1, <2>2, FS_Surjection
<1>5. n = Len(channel) => First(n) = InChannel
  BY <1>1 DEF First, InChannel
<1>6. ASSUME n < Len(channel)
      PROVE  /\ channel[n + 1] \in Message
             /\ channel[n + 1] \notin First(n)
             /\ First(n + 1) = First(n) \cup {channel[n + 1]}
  <2>1. n + 1 \in 1 .. Len(channel) /\ n + 1 \notin 1 .. n /\ 1 .. n + 1 = (1 .. n) \cup {n + 1}
    BY <1>1, <1>6
  <2>2. channel[n + 1] \notin First(n)
    BY <1>1, <1>2, <2>1 DEF First
  <2>3. First(n + 1) = First(n) \cup {channel[n + 1]}
    BY <2>1 DEF First
  <2> QED
    BY <1>1, <2>1, <2>2, <2>3
<1> QED
  BY <1>3, <1>4, <1>5, <1>6

(* The message at the head of the page is the next of the channel.         *)
LEMMA CountCounts ==
    ASSUME TypeOK, CountInv, CountMessage
    PROVE  CountInv'
<1> SUFFICES ASSUME quiet PROVE CountInv'
  BY DEF CountMessage, CountInv, chat
<1>1. /\ page \in Seq(Message \X Votes) /\ page # <<>> /\ page' = Tail(page)
      /\ UNCHANGED <<channel, votes, quiet, phase, offset, next>>
      /\ phase = "fetching" /\ offset \in Nat
  BY DEF TypeOK, CountMessage, chat
<1>2. /\ Len(page) \in Nat \ {0} /\ DOMAIN page = 1 .. Len(page)
      /\ page' \in Seq(Message \X Votes) /\ Len(page') = Len(page) - 1
      /\ \A i \in 1 .. Len(page') : page'[i] = page[i + 1]
  BY <1>1, EmptySeq, LenProperties, HeadTailProperties
<1>3. DOMAIN page' = 1 .. Len(page) - 1
  BY <1>2, LenProperties
<1>4. /\ offset <= Len(channel) /\ next # "ask"
      /\ Len(page) <= Len(GetHistory(offset))
      /\ \A i \in DOMAIN page : page[i] = Item(Read + i)
      /\ next = "short" <=> Len(GetHistory(offset)) < PageLimit
      /\ Summed(Read)
  BY <1>1 DEF CountInv
<1>5. /\ Len(GetHistory(offset)) \in Nat /\ Len(channel) \in Nat
      /\ offset + Len(GetHistory(offset)) <= Len(channel)
  BY <1>1, <1>4, LengthOfPage, LenProperties DEF TypeOK
<1>6. GetHistory(offset)' = GetHistory(offset)
  BY <1>1 DEF GetHistory, Behind, Item
<1>7. /\ Read = offset + (Len(GetHistory(offset)) - Len(page))
      /\ Read' = offset + (Len(GetHistory(offset)) - Len(page'))
  BY <1>1, <1>4, <1>6 DEF Read
<1>8. Read \in Nat /\ Read < Len(channel) /\ Read' = Read + 1
  BY <1>1, <1>2, <1>4, <1>5, <1>7
<1>9. PICK m : m = channel[Read + 1]
  OBVIOUS
<1>10. /\ First(Read) \subseteq Message /\ IsFiniteSet(First(Read))
       /\ m \in Message /\ m \notin First(Read)
       /\ First(Read + 1) = First(Read) \cup {m}
  BY <1>8, <1>9, FirstMessages
<1>11. page[1] = <<m, votes[m]>>
  <2>1. 1 \in DOMAIN page
    BY <1>2
  <2> QED
    BY <1>4, <1>9, <2>1 DEF Item
<1>12. First(Read)' = First(Read) \cup {m}
  <2>1. First(Read)' = First(Read + 1)
    BY <1>1, <1>8 DEF First
  <2> QED
    BY <1>10, <2>1
<1>13. \A S : VotesFor(S)' = VotesFor(S)
  BY <1>1 DEF VotesFor
<1>14. Summed(Read)'
  <2> SUFFICES ASSUME NEW u \in User
               PROVE  /\ RatingOf(sums', u) = VotesFor(TweetsBy(u) \cap (First(Read) \cup {m}))
                      /\ TweetsBy(u) \cap (First(Read) \cup {m}) # {} => u \in DOMAIN sums'
    BY <1>12, <1>13 DEF Summed
  <2>1. /\ RatingOf(sums, u) = VotesFor(TweetsBy(u) \cap First(Read))
        /\ TweetsBy(u) \cap First(Read) # {} => u \in DOMAIN sums
    BY <1>4 DEF Summed
  <2>2. CASE m \notin TweetsBy(u)
    <3>1. TweetsBy(u) \cap (First(Read) \cup {m}) = TweetsBy(u) \cap First(Read)
      BY <2>2
    <3>2. RatingOf(sums', u) = RatingOf(sums, u) /\ DOMAIN sums \subseteq DOMAIN sums'
      <4>1. CASE m \notin Linked
        BY <1>11, <4>1 DEF CountMessage
      <4>2. CASE m \in Linked
        <5>1. m \in Message /\ Author[m] # u
          BY <2>2, <4>2, RatingsAssumption DEF TweetsBy, By
        <5> QED
          BY <1>11, <4>2, <5>1 DEF CountMessage, Set, RatingOf
      <4> QED
        BY <4>1, <4>2
    <3> QED
      BY <2>1, <3>1, <3>2
  <2>3. CASE m \in TweetsBy(u)
    <3>1. /\ TweetsBy(u) \cap (First(Read) \cup {m}) = (TweetsBy(u) \cap First(Read)) \cup {m}
          /\ m \notin TweetsBy(u) \cap First(Read) /\ TweetsBy(u) \cap First(Read) \subseteq Message
      BY <1>10, <2>3 DEF TweetsBy, By
    <3>2. IsFiniteSet(TweetsBy(u) \cap First(Read))
      BY <1>10, FS_Subset
    <3>3. VotesFor((TweetsBy(u) \cap First(Read)) \cup {m})
            = Plus(VotesFor(TweetsBy(u) \cap First(Read)), votes[m])
      BY <1>10, <3>1, <3>2, VotesForMore DEF TypeOK
    <3>4. sums' = Set(sums, u, Plus(RatingOf(sums, u), votes[m]))
      BY <1>11, <2>3 DEF CountMessage, User, TweetsBy, By
    <3>5. u \in DOMAIN sums' /\ RatingOf(sums', u) = Plus(RatingOf(sums, u), votes[m])
      BY <3>4 DEF Set, RatingOf
    <3> QED
      BY <2>1, <3>1, <3>3, <3>5
  <2> QED
    BY <2>2, <2>3
<1>15. \A i \in DOMAIN page' : page'[i] = Item(Read' + i)
  <2> TAKE i \in DOMAIN page'
  <2>1. /\ i \in Nat /\ i \in 1 .. Len(page') /\ i + 1 \in DOMAIN page
        /\ Read + (i + 1) = Read' + i
    BY <1>2, <1>3, <1>8
  <2>2. page'[i] = page[i + 1] /\ page[i + 1] = Item(Read + (i + 1))
    BY <1>2, <1>4, <2>1
  <2> QED
    BY <2>1, <2>2
<1>16. \A i : Item(i)' = <<channel[i'], votes[channel[i']]>>
  BY <1>1 DEF Item
<1>17. \A i \in DOMAIN page' : page'[i] = Item(Read + i)'
  BY <1>1, <1>15 DEF Item
<1>18. Len(page') <= Len(GetHistory(offset))
  BY <1>2, <1>4, <1>5
<1> QED
  BY <1>1, <1>4, <1>6, <1>14, <1>17, <1>18 DEF CountInv

LEMMA CountHolds == TypeOK /\ MeetInv /\ CountInv /\ [Next]_vars => CountInv'
<1> SUFFICES ASSUME TypeOK, MeetInv, CountInv, [Next]_vars, (phase = "fetching" /\ quiet)'
             PROVE  CountInv'
  BY DEF CountInv
<1>0. PageLimit \in Nat \ {0} /\ offset \in Nat /\ Len(channel) \in Nat
  BY LenProperties, RatingsAssumption DEF TypeOK
<1>1. CASE UNCHANGED <<channel, votes, quiet, phase, offset, page, next, sums>>
  <2>1. GetHistory(offset)' = GetHistory(offset) /\ Read' = Read
    BY <1>1 DEF GetHistory, Behind, Item, Read
  <2>2. Summed(Read) => Summed(Read)'
    BY <1>1, <2>1 DEF Summed, First, VotesFor
  <2>3. \A i : <<channel'[i], votes'[channel'[i]]>> = <<channel[i], votes[channel[i]]>>
    BY <1>1
  <2> QED
    BY <1>1, <2>1, <2>2, <2>3 DEF CountInv, Item
<1>2. ASSUME NEW m \in Message, Post(m) \/ Delete(m) \/ Vote(m) PROVE FALSE
  BY <1>2 DEF Post, Delete, Vote
<1>3. ASSUME NEW m \in Message, ReadReaction(m) PROVE CountInv'
  BY <1>1, <1>3 DEF ReadReaction, chat, fetch
<1>4. CASE Start
  <2>1. /\ offset' = 0 /\ page' = <<>> /\ next' = "ask" /\ sums' = NoRatings /\ channel' = channel
    BY <1>4 DEF Start
  <2>2. Read' = 0 /\ First(0)' = {}
    BY <2>1 DEF Read, First
  <2>3. VotesFor({})' = Zero
    <3>1. VotesFor({})' = VotesFor({})
      BY <1>4 DEF Start, VotesFor
    <3> QED
      BY <3>1, VotesForNone
  <2>4. Summed(Read)'
    BY <2>1, <2>2, <2>3 DEF Summed, RatingOf, NoRatings, First
  <2> QED
    BY <1>0, <2>1, <2>4 DEF CountInv
<1>5. CASE FetchPage
  <2>1. /\ UNCHANGED <<channel, votes, quiet, phase, offset, sums>> /\ next = "ask"
        /\ page' = GetHistory(offset)
        /\ next' = (IF Len(page') < PageLimit THEN "short" ELSE "full")
    BY <1>5 DEF FetchPage, chat
  <2>2. offset <= Len(channel) /\ Summed(Read) /\ Read = offset
    BY <1>0, <1>5, <2>1 DEF CountInv, Read
  <2>3. GetHistory(offset)' = GetHistory(offset)
    BY <2>1 DEF GetHistory, Behind, Item
  <2>4. Len(GetHistory(offset)) \in Nat
    BY <2>2, LengthOfPage
  <2>5. Read' = offset
    BY <1>0, <2>1, <2>3, <2>4 DEF Read
  <2>6. Summed(Read)'
    BY <2>1, <2>2, <2>5 DEF Summed, First, VotesFor
  <2>7. \A i \in DOMAIN GetHistory(offset) : GetHistory(offset)[i] = Item(offset + i)
    BY <2>2, LengthOfPage
  <2>8. \A i \in DOMAIN page' : page'[i] = Item(Read + i)'
    BY <2>1, <2>5, <2>7 DEF Item
  <2> QED
    BY <2>1, <2>2, <2>3, <2>4, <2>6, <2>8 DEF CountInv
<1>6. CASE CountMessage
  BY <1>6, CountCounts
<1>7. CASE NextPage
  <2>1. /\ UNCHANGED <<channel, votes, quiet, phase, page, sums>> /\ next = "full" /\ next' = "ask"
        /\ page = <<>> /\ offset' = offset + PageLimit
    BY <1>7 DEF NextPage, chat
  <2>2. /\ offset <= Len(channel) /\ Summed(Read)
        /\ ~ (Len(GetHistory(offset)) < PageLimit)
    BY <1>7, <2>1 DEF CountInv
  <2>3. /\ Len(GetHistory(offset)) = PageLimit
        /\ offset + PageLimit <= Len(channel)
    <3>1. /\ Len(GetHistory(offset)) \in Nat
          /\ offset + Len(GetHistory(offset)) <= Len(channel)
          /\ Len(GetHistory(offset)) <= PageLimit
      BY <2>2, LengthOfPage
    <3> QED
      BY <1>0, <2>2, <3>1
  <2>4. Read' = Read
    <3>1. Len(page) = 0
      BY <2>1
    <3> QED
      BY <1>0, <2>1, <2>3, <3>1 DEF Read
  <2>5. Summed(Read)'
    BY <2>1, <2>2, <2>4 DEF Summed, First, VotesFor
  <2> QED
    BY <2>1, <2>3, <2>5 DEF CountInv
<1>8. CASE SaveRatings \/ Crash
  BY <1>8 DEF SaveRatings, Crash
<1>9. CASE SaveReaction \/ ReactionFails \/ UNCHANGED vars
  BY <1>1, <1>9 DEF SaveReaction, ReactionFails, vars, chat, fetch
<1> QED
  BY <1>2, <1>3, <1>4, <1>5, <1>6, <1>7, <1>8, <1>9 DEF Next, Fetch, Handle

(* When the fetch saves in a channel where nothing has happened since it   *)
(* began, it has counted every message there once, on whatever pages.      *)
LEMMA SavesEveryVote ==
    ASSUME TypeOK, CountInv, SaveRatings
    PROVE  CountsEveryVote
<1> SUFFICES ASSUME quiet, NEW u \in User, TweetsBy(u) \cap InChannel # {}
             PROVE  ratings'[u] = Total(u)
  BY DEF CountsEveryVote
<1>1. /\ phase = "fetching" /\ page = <<>> /\ next = "short"
      /\ offset \in Nat /\ Len(channel) \in Nat
  BY LenProperties DEF SaveRatings, TypeOK
<1>2. /\ offset <= Len(channel) /\ Summed(Read)
      /\ Len(GetHistory(offset)) < PageLimit
  BY <1>1 DEF CountInv
<1>3. /\ Len(GetHistory(offset)) \in Nat
      /\ offset + Len(GetHistory(offset)) = Len(channel)
  BY <1>2, LengthOfPage
<1>4. Read = Len(channel)
  <2>1. Len(page) = 0
    BY <1>1
  <2> QED
    BY <1>1, <1>3, <2>1 DEF Read
<1>5. First(Read) = InChannel
  BY <1>1, <1>4, FirstMessages
<1>6. u \in DOMAIN sums /\ RatingOf(sums, u) = VotesFor(TweetsBy(u) \cap InChannel)
  BY <1>2, <1>5 DEF Summed
<1>7. ratings'[u] = sums[u]
  BY <1>6, SaveTypes
<1> QED
  BY <1>6, <1>7 DEF RatingOf, Total

(* A fetch that has come to its end has met every message that was there   *)
(* when it began, unless one has been deleted; and if nothing has happened *)
(* in the channel, every author has all votes for his messages.            *)
THEOREM FetchRecordsChannel == Spec => FetchIsComplete
<1>1. Init => MeetInv /\ CountInv
  BY DEF Init, MeetInv, CountInv
<1>2. TypeOK /\ MeetInv /\ CountInv /\ [Next]_vars
        => [phase = "fetching" /\ phase' = "live" => MeetsEveryMessage /\ CountsEveryVote]_vars
  <2> SUFFICES ASSUME TypeOK, MeetInv, CountInv, Next, phase = "fetching", phase' = "live"
               PROVE  MeetsEveryMessage /\ CountsEveryVote
    OBVIOUS
  <2>1. SaveRatings
    BY DEF Next, Fetch, Handle, Post, Delete, Vote, Start, FetchPage, CountMessage, NextPage,
           ReadReaction, SaveReaction, ReactionFails, Crash, fetch
  <2> QED
    BY <2>1, SavesEveryVote, MeetsAtTheEnd
<1> QED
  BY <1>1, <1>2, RatingsTypeCorrect, MeetHolds, CountHolds, PTL DEF Spec, FetchIsComplete
-------------------------------------------------------------------------------
(* A rating is that of the fetch, or it was set from a message whose votes *)
(* have not changed since or of which an update is still to come, or one   *)
(* such rating is about to be saved.                                       *)
Follows(r, u) == \E m \in By(u) : r = votes[m] \/ m \in pending

CurrentInv ==
    /\ phase # "live" => pending = {} /\ inHand = <<>>
    /\ phase = "live" => DOMAIN sums \subseteq DOMAIN ratings
    /\ phase = "live" /\ ~ missed =>
          /\ inHand # <<>> => Follows(inHand[1][2], inHand[1][1])
          /\ \A u \in DOMAIN sums :
                \/ ratings[u] = sums[u] \/ Follows(ratings[u], u)
                \/ inHand # <<>> /\ inHand[1][1] = u

LEMMA VoteKeepsCurrent ==
    ASSUME TypeOK, CurrentInv, NEW m \in Message, Vote(m)
    PROVE  CurrentInv'
<1>1. /\ UNCHANGED <<phase, sums, ratings, inHand, missed>>
      /\ pending' = (IF phase = "live" THEN pending \cup {m} ELSE pending)
      /\ \A n \in Message : n # m => votes'[n] = votes[n]
  BY DEF Vote, TypeOK, fetch, db
<1>2. CASE phase = "live"
  <2>1. \A r, u : Follows(r, u) => Follows(r, u)'
    BY <1>1, <1>2 DEF Follows, By
  <2> QED
    BY <1>1, <1>2, <2>1 DEF CurrentInv
<1>3. CASE phase # "live"
  BY <1>1, <1>3 DEF CurrentInv
<1> QED
  BY <1>2, <1>3

LEMMA ReadKeepsCurrent ==
    ASSUME TypeOK, CurrentInv, NEW m \in Message, ReadReaction(m)
    PROVE  CurrentInv'
<1>1. /\ UNCHANGED <<votes, phase, sums, ratings>> /\ phase = "live" /\ inHand = <<>>
      /\ pending' = pending \ {m}
  BY DEF ReadReaction, chat, fetch, db
<1>2. CASE m \in InChannel /\ Author[m] # NoAuthor
  <2>1. inHand' = <<<<Author[m], votes[m]>>>> /\ missed' = missed
    BY <1>2 DEF ReadReaction
  <2>2. inHand' # <<>> /\ inHand'[1][1] = Author[m] /\ inHand'[1][2] = votes[m]
    BY <2>1
  <2>3. Follows(inHand[1][2], inHand[1][1])'
    BY <1>1, <2>2 DEF Follows, By
  <2>4. \A r, u : Follows(r, u) => Follows(r, u)' \/ u = Author[m]
    BY <1>1 DEF Follows, By
  <2> QED
    BY <1>1, <2>1, <2>2, <2>3, <2>4 DEF CurrentInv
<1>3. CASE ~ (m \in InChannel /\ Author[m] # NoAuthor)
  BY <1>1, <1>3 DEF ReadReaction, CurrentInv
<1> QED
  BY <1>2, <1>3

LEMMA SaveKeepsCurrent ==
    ASSUME TypeOK, CurrentInv, SaveReaction
    PROVE  CurrentInv'
<1>1. /\ UNCHANGED <<votes, phase, sums, pending, missed>> /\ inHand # <<>> /\ inHand' = <<>>
      /\ ratings' = Set(ratings, inHand[1][1], inHand[1][2])
  BY DEF SaveReaction, chat, fetch
<1>2. /\ DOMAIN ratings' = DOMAIN ratings \cup {inHand[1][1]}
      /\ \A u \in DOMAIN ratings' :
            ratings'[u] = IF u = inHand[1][1] THEN inHand[1][2] ELSE ratings[u]
  BY <1>1 DEF Set
<1>3. \A r, u : Follows(r, u) => Follows(r, u)'
  BY <1>1 DEF Follows
<1>4. phase = "live"
  BY <1>1 DEF CurrentInv, TypeOK
<1>5. DOMAIN sums \subseteq DOMAIN ratings
  BY <1>4 DEF CurrentInv
<1>6. ASSUME ~ missed, NEW u \in DOMAIN sums
      PROVE  ratings'[u] = sums[u] \/ Follows(ratings'[u], u)
  <2>1. CASE u = inHand[1][1]
    BY <1>1, <1>2, <1>4, <1>5, <1>6, <2>1 DEF CurrentInv
  <2>2. CASE u # inHand[1][1]
    BY <1>1, <1>2, <1>4, <1>5, <1>6, <2>2 DEF CurrentInv
  <2> QED
    BY <2>1, <2>2
<1>7. ASSUME ~ missed, NEW u \in DOMAIN sums
      PROVE  ratings'[u] = sums[u] \/ Follows(ratings[u], u)'
  <2>1. PICK r : r = ratings'[u]
    OBVIOUS
  <2> QED
    BY <1>3, <1>6, <1>7, <2>1
<1> QED
  BY <1>1, <1>2, <1>4, <1>5, <1>7 DEF CurrentInv

LEMMA CurrentHolds == TypeOK /\ CurrentInv /\ [Next]_vars => CurrentInv'
<1> SUFFICES ASSUME TypeOK, CurrentInv, [Next]_vars PROVE CurrentInv'
  OBVIOUS
<1>1. CASE UNCHANGED <<votes, phase, sums, pending, inHand, missed, ratings>>
  BY <1>1 DEF CurrentInv, Follows
<1>2. ASSUME NEW m \in Message, Post(m) \/ Delete(m) PROVE CurrentInv'
  BY <1>1, <1>2 DEF Post, Delete, fetch, react, db
<1>3. ASSUME NEW m \in Message, Vote(m) \/ ReadReaction(m) PROVE CurrentInv'
  BY <1>3, VoteKeepsCurrent, ReadKeepsCurrent
<1>4. CASE Start \/ FetchPage \/ CountMessage \/ NextPage
  <2>1. phase # "live" /\ phase' # "live" /\ pending' = pending /\ inHand' = inHand
    BY <1>4 DEF Start, FetchPage, CountMessage, NextPage, react
  <2> QED
    BY <2>1 DEF CurrentInv
<1>5. CASE SaveRatings
  <2>1. phase # "live" /\ pending' = pending /\ inHand' = inHand /\ sums' = sums
    BY <1>5 DEF SaveRatings, react
  <2>2. DOMAIN sums \subseteq DOMAIN ratings' /\ \A u \in DOMAIN sums : ratings'[u] = sums[u]
    BY <1>5, SaveTypes
  <2> QED
    BY <2>1, <2>2 DEF CurrentInv
<1>6. CASE SaveReaction
  BY <1>6, SaveKeepsCurrent
<1>7. CASE ReactionFails
  BY <1>7 DEF ReactionFails, CurrentInv, fetch, db
<1>8. CASE Crash
  BY <1>8 DEF Crash, CurrentInv
<1>9. CASE UNCHANGED vars
  BY <1>1, <1>9 DEF vars, chat, fetch, react, db
<1> QED
  BY <1>2, <1>3, <1>4, <1>5, <1>6, <1>7, <1>8, <1>9 DEF Next, Fetch, Handle

(* In the quiet after the last reaction a rating is what the fetch counted *)
(* or the latest votes of one message: no vote is lost to the order of     *)
(* updates, of votes and of the handler's two steps.                       *)
THEOREM RatingsStayCurrent == Spec => []RatingIsCurrent
<1>1. Init => CurrentInv
  BY DEF Init, CurrentInv
<1>2. CurrentInv => RatingIsCurrent
  BY DEF CurrentInv, RatingIsCurrent, Follows
<1> QED
  BY <1>1, <1>2, RatingsTypeCorrect, CurrentHolds, PTL DEF Spec
===============================================================================

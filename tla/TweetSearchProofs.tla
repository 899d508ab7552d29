--------------------------- MODULE TweetSearchProofs ---------------------------
(***************************************************************************)
(* Proofs about TweetSearch: its types, and that a tweet in care is lost   *)
(* in no other way than NothingElseIsLost names.                           *)
(***************************************************************************)
EXTENDS TweetSearch, FiniteSetTheorems, TLAPS

Elements(s) == {s[k] : k \in DOMAIN s}

(* What is on a list after an Append, and what it was before its head was  *)
(* taken.                                                                  *)
LEMMA AppendElements ==
    ASSUME NEW S, NEW s \in Seq(S), NEW x \in S
    PROVE  /\ Append(s, x) \in Seq(S)
           /\ Elements(Append(s, x)) = Elements(s) \cup {x}
<1>1. /\ Append(s, x) \in Seq(S) /\ Len(Append(s, x)) = Len(s) + 1
      /\ \A k \in 1 .. Len(s) : Append(s, x)[k] = s[k]
      /\ Append(s, x)[Len(s) + 1] = x
      /\ DOMAIN s = 1 .. Len(s) /\ DOMAIN Append(s, x) = 1 .. Len(s) + 1
      /\ Len(s) \in Nat
  OBVIOUS
<1>2. 1 .. Len(s) + 1 = (1 .. Len(s)) \cup {Len(s) + 1}
  BY <1>1
<1> QED
  BY <1>1, <1>2 DEF Elements

LEMMA HeadElements ==
    ASSUME NEW S, NEW s \in Seq(S), s # <<>>
    PROVE  /\ Head(s) \in S /\ Tail(s) \in Seq(S)
           /\ Elements(s) = Elements(Tail(s)) \cup {Head(s)}
<1>1. /\ Len(s) \in Nat \ {0} /\ DOMAIN s = 1 .. Len(s)
      /\ Tail(s) \in Seq(S) /\ DOMAIN Tail(s) = 1 .. Len(s) - 1
      /\ \A k \in 1 .. Len(s) - 1 : Tail(s)[k] = s[k + 1]
      /\ Head(s) = s[1] /\ s[1] \in S
  OBVIOUS
<1>2. ASSUME NEW k \in DOMAIN s PROVE s[k] \in Elements(Tail(s)) \cup {Head(s)}
  <2>1. CASE k = 1
    BY <1>1, <2>1
  <2>2. CASE k # 1
    <3>1. k - 1 \in 1 .. Len(s) - 1 /\ Tail(s)[k - 1] = s[k]
      BY <1>1, <1>2, <2>2
    <3> QED
      BY <1>1, <3>1 DEF Elements
  <2> QED
    BY <2>1, <2>2
<1>3. ASSUME NEW k \in DOMAIN Tail(s) PROVE Tail(s)[k] \in Elements(s)
  <2>1. k + 1 \in DOMAIN s /\ Tail(s)[k] = s[k + 1]
    BY <1>1, <1>3
  <2> QED
    BY <2>1 DEF Elements
<1>4. Head(s) \in Elements(s)
  BY <1>1 DEF Elements
<1> QED
  BY <1>1, <1>2, <1>3, <1>4 DEF Elements

(* A cursor has a page that ends just before it.                           *)
LEMMA PageBefore ==
    ASSUME NEW c \in Nat \ {0}
    PROVE  /\ Oldest(c) \in Nat \ {0} /\ Oldest(c) <= c
           /\ IsFiniteSet(Page(c)) /\ Page(c) \subseteq Nat
<1>1. Oldest(c) \in Nat \ {0} /\ Oldest(c) <= c
  BY SearchAssumption DEF Oldest
<1>2. Oldest(c) \in Int /\ c - 1 \in Int
  BY <1>1
<1>3. IsFiniteSet(Oldest(c) .. (c - 1))
  BY <1>2, FS_Interval
<1>4. IsFiniteSet(Page(c))
  BY <1>3 DEF Page
<1>5. Page(c) \subseteq Nat
  BY <1>1 DEF Page
<1> QED
  BY <1>1, <1>4, <1>5

(* Save adds a page, or is a fault.                                        *)
LEMMA SaveAdds ==
    ASSUME TypeOK, NEW q \in Query, NEW page \in SUBSET Nat, IsFiniteSet(page),
           Save(q, page)
    PROVE  /\ saved' \in [Query -> SUBSET Nat] /\ faults' \in Nat
           /\ \A p \in Query : saved[p] \subseteq saved'[p]
           /\ faults' # faults \/ page \subseteq saved'[q]
<1>1. PICK lost \in SUBSET page :
         /\ saved' = [saved EXCEPT ![q] = @ \cup (page \ lost)]
         /\ faults' = faults + Cardinality(lost)
  BY DEF Save
<1>2. Cardinality(lost) \in Nat /\ (Cardinality(lost) = 0 => lost = {})
  BY FS_Subset, FS_CardinalityType, FS_EmptySet
<1>3. saved \in [Query -> SUBSET Nat] /\ faults \in Nat
  BY DEF TypeOK
<1>4. CASE lost = {}
  <2>1. page \ lost = page
    BY <1>4
  <2>2. faults' \in Nat
    BY <1>1, <1>2, <1>3
  <2>3. saved' = [saved EXCEPT ![q] = @ \cup page]
    BY <1>1, <2>1
  <2> QED
    BY <1>3, <2>2, <2>3
<1>5. CASE lost # {}
  <2>1. Cardinality(lost) \in Nat \ {0}
    BY <1>2, <1>5
  <2>2. \A n \in Nat \ {0} : faults + n # faults /\ faults + n \in Nat
    BY <1>3
  <2>3. faults' # faults /\ faults' \in Nat
    BY <1>1, <2>1, <2>2
  <2> QED
    BY <1>1, <1>3, <2>3
<1> QED
  BY <1>4, <1>5

(* The list and what is held between two requests.                         *)
LEMMA PoppedKeeps ==
    ASSUME TypeOK, Popped
    PROVE  /\ singleLL' \in Seq(SearchRequest)
           /\ nextObj' \in SUBSET SearchRequest /\ Cardinality(nextObj') <= 1
           /\ Elements(singleLL) = Elements(singleLL') \cup nextObj'
<1>1. CASE singleLL = <<>>
  <2>1. nextObj' = {} /\ singleLL' = singleLL /\ Elements(singleLL) = {}
    BY <1>1 DEF Popped, Elements
  <2>2. Cardinality({}) = 0
    BY FS_EmptySet
  <2> QED
    BY <2>1, <2>2 DEF TypeOK
<1>2. CASE singleLL # <<>>
  <2>1. nextObj' = {Head(singleLL)} /\ singleLL' = Tail(singleLL)
    BY <1>2 DEF Popped
  <2>2. singleLL \in Seq(SearchRequest)
    BY DEF TypeOK
  <2>3. Cardinality({Head(singleLL)}) = 1
    BY FS_Singleton
  <2> QED
    BY <1>2, <2>1, <2>2, <2>3, HeadElements
<1> QED
  BY <1>1, <1>2
-------------------------------------------------------------------------------
LEMMA InitTypeOK == Init => TypeOK
<1> SUFFICES ASSUME Init PROVE TypeOK
  OBVIOUS
<1>1. /\ posted \in [Query -> Nat] /\ start \in [Query -> Nat]
      /\ round = [q \in Query |-> Waiting]
      /\ singleLL = <<>> /\ nextObj = {} /\ searches = {}
      /\ saved = [q \in Query |-> {}] /\ faults = 0
  BY SearchAssumption DEF Init, Earlier
<1>2. Cardinality({}) = 0
  BY FS_EmptySet
<1> QED
  BY <1>1, <1>2 DEF TypeOK

(* What a search goes on with is a request again.                          *)
LEMMA ContinuedType ==
    ASSUME NEW s \in SearchRequest PROVE Continued(s) \in SUBSET SearchRequest
<1>1. s.cursor \in Nat \ {0}
  BY DEF SearchRequest
<1>2. Oldest(s.cursor) \in Nat \ {0}
  BY <1>1, PageBefore
<1> QED
  BY <1>2 DEF Continued, SearchRequest

LEMMA NextTypeOK == TypeOK /\ [Next]_vars => TypeOK'
<1> SUFFICES ASSUME TypeOK, [Next]_vars PROVE TypeOK'
  OBVIOUS
<1> USE DEF TypeOK
<1>1. ASSUME NEW q \in Query, Post(q) PROVE TypeOK'
  BY <1>1 DEF Post, mem
<1>2. ASSUME NEW q \in Query, FindNewest(q) PROVE TypeOK'
  <2>1. Oldest(posted[q] + 1) \in Nat \ {0}
    BY PageBefore
  <2> QED
    BY <1>2, <2>1 DEF FindNewest
<1>3. ASSUME NEW q \in Query, FindFails(q) PROVE TypeOK'
  BY <1>3 DEF FindFails, vars, mem
<1>4. ASSUME NEW q \in Query, PushRequest(q) PROVE TypeOK'
  <2>1. round[q] # Waiting
    BY <1>4 DEF PushRequest, Waiting
  <2>2. round[q] \in [at : {"push", "save"}, from : Nat \ {0}, to : Nat]
    BY <2>1
  <2> DEFINE r == [query |-> q, start |-> start[q], cursor |-> round[q].from]
  <2>3. r \in SearchRequest
    BY <2>2 DEF SearchRequest
  <2>4. singleLL' \in Seq(SearchRequest)
    BY <1>4, <2>3, AppendElements DEF PushRequest
  <2>5. round' \in [Query -> {Waiting} \cup [at : {"push", "save"}, from : Nat \ {0}, to : Nat]]
    BY <1>4, <2>2 DEF PushRequest
  <2>6. start' \in [Query -> Nat]
    BY <1>4 DEF PushRequest
  <2> QED
    BY <1>4, <2>4, <2>5, <2>6 DEF PushRequest
<1>5. ASSUME NEW q \in Query, SaveNewest(q) PROVE TypeOK'
  <2>1. round[q] \in [at : {"push", "save"}, from : Nat \ {0}, to : Nat]
    BY <1>5 DEF SaveNewest, Waiting
  <2>2. IsFiniteSet(round[q].from .. round[q].to)
    BY <2>1, FS_Interval
  <2>3. round[q].from .. round[q].to \in SUBSET Nat
    BY <2>1
  <2>4. saved' \in [Query -> SUBSET Nat] /\ faults' \in Nat
    BY <1>5, <2>2, <2>3, SaveAdds DEF SaveNewest
  <2> QED
    BY <1>5, <2>4 DEF SaveNewest
<1>6. CASE Pop
  BY <1>6, PoppedKeeps DEF Pop
<1>7. CASE StartSearch
  <2>1. /\ singleLL' \in Seq(SearchRequest)
        /\ nextObj' \in SUBSET SearchRequest /\ Cardinality(nextObj') <= 1
    BY <1>7, PoppedKeeps DEF StartSearch
  <2>2. searches' \in SUBSET SearchRequest
    BY <1>7 DEF StartSearch
  <2> QED
    BY <1>7, <2>1, <2>2 DEF StartSearch
<1>8. ASSUME NEW s \in searches, Search(s) PROVE TypeOK'
  <2>1. s \in SearchRequest /\ s.query \in Query /\ s.cursor \in Nat \ {0}
    BY DEF SearchRequest
  <2>2. IsFiniteSet(Page(s.cursor)) /\ Page(s.cursor) \in SUBSET Nat
    BY <2>1, PageBefore
  <2>3. CASE SearchPage(s)
    <3>1. saved' \in [Query -> SUBSET Nat] /\ faults' \in Nat
      BY <2>1, <2>2, <2>3, SaveAdds DEF SearchPage
    <3>2. searches' \in SUBSET SearchRequest
      BY <2>1, <2>3, ContinuedType DEF SearchPage
    <3> QED
      BY <2>3, <3>1, <3>2 DEF SearchPage
  <2>4. CASE SearchRepeats(s)
    BY <2>1, <2>2, <2>4 DEF SearchRepeats, mem
  <2>5. CASE GiveUp(s)
    BY <2>5 DEF GiveUp
  <2> QED
    BY <1>8, <2>3, <2>4, <2>5 DEF Search
<1>9. CASE Restart
  <2>1. start' \in [Query -> Nat]
    BY <1>9, SearchAssumption DEF Restart, Earlier
  <2>2. Cardinality({}) = 0
    BY FS_EmptySet
  <2> QED
    BY <1>9, <2>1, <2>2 DEF Restart
<1>10. CASE UNCHANGED vars
  BY <1>10 DEF vars, mem
<1> QED
  BY <1>1, <1>2, <1>3, <1>4, <1>5, <1>6, <1>7, <1>8, <1>9, <1>10 DEF Next, Round

(* The values of the variables stay in their ranges.                       *)
THEOREM SearchTypeCorrect == Spec => []TypeOK
<1> QED
  BY InitTypeOK, NextTypeOK, PTL DEF Spec
-------------------------------------------------------------------------------
(* What NothingElseIsLost says of one step.                                *)
Loss == \A q \in Query : \A i \in InCare(q) :
           \/ i \in InCare(q)'
           \/ PushRequest(q) /\ i > round[q].to
           \/ faults' # faults

(* The tweets of q that pending requests lead to.                          *)
Led(q) == UNION {Behind(r) : r \in {p \in Pending : p.query = q}}

(* A step that takes away no request, no row, no page and no interval      *)
(* loses nothing.                                                          *)
LEMMA KeepsCare ==
    ASSUME NEW q \in Query,
           saved[q] \subseteq saved'[q],
           Newest(q) \subseteq Newest(q)',
           (start[q] + 1) .. posted[q] \subseteq (start'[q] + 1) .. posted'[q],
           Pending \subseteq Pending'
    PROVE  InCare(q) \subseteq InCare(q)'
<1>1. Led(q) \subseteq Led(q)'
  BY DEF Led, Behind
<1> QED
  BY <1>1 DEF InCare, Led

LEMMA PushKeeps ==
    ASSUME TypeOK, NEW q \in Query, PushRequest(q), NEW i \in InCare(q), ~ (i > round[q].to)
    PROVE  i \in InCare(q)'
<1> DEFINE r == [query |-> q, start |-> start[q], cursor |-> round[q].from]
<1>1. round[q] # Waiting
  BY DEF PushRequest, Waiting
<1>2. /\ round[q] \in [at : {"push", "save"}, from : Nat \ {0}, to : Nat]
      /\ posted[q] \in Nat /\ start[q] \in Nat /\ singleLL \in Seq(SearchRequest)
  BY <1>1 DEF TypeOK
<1>3. r \in SearchRequest
  BY <1>2 DEF SearchRequest
<1>4. Pending' = Pending \cup {r}
  BY <1>2, <1>3, AppendElements DEF PushRequest, Pending, Elements
<1>5. round' = [round EXCEPT ![q].at = "save"] /\ saved' = saved
  BY DEF PushRequest
<1>6. round'[q].from = round[q].from /\ round'[q].to = round[q].to /\ round'[q].at = "save"
  BY <1>2, <1>5 DEF TypeOK
<1>7. Newest(q)' = round[q].from .. round[q].to /\ Newest(q) = round[q].from .. round[q].to
  BY <1>1, <1>6 DEF Newest, Waiting
<1>8. Led(q) \subseteq Led(q)'
  BY <1>4 DEF Led, Behind
<1>9. CASE i \in (start[q] + 1) .. posted[q]
  <2>1. CASE i < round[q].from
    <3>1. i \in Behind(r)
      BY <1>2, <1>9, <2>1 DEF Behind
    <3>2. Behind(r) \subseteq Led(q)'
      BY <1>4 DEF Led, Behind
    <3> QED
      BY <3>1, <3>2 DEF InCare, Led
  <2>2. CASE ~ (i < round[q].from)
    <3>1. i \in Newest(q)'
      BY <1>2, <1>7, <1>9, <2>2
    <3> QED
      BY <3>1 DEF InCare
  <2> QED
    BY <2>1, <2>2
<1>10. CASE i \in saved[q] \cup Newest(q) \cup Led(q)
  BY <1>5, <1>7, <1>8, <1>10 DEF InCare, Led
<1> QED
  BY <1>9, <1>10 DEF InCare, Led

LEMMA SaveNewestKeeps ==
    ASSUME TypeOK, NEW p \in Query, SaveNewest(p), NEW q \in Query, faults' = faults
    PROVE  InCare(q) \subseteq InCare(q)'
<1>1. round[p] \in [at : {"push", "save"}, from : Nat \ {0}, to : Nat]
  BY DEF SaveNewest, Waiting, TypeOK
<1>2. IsFiniteSet(round[p].from .. round[p].to)
  BY <1>1, FS_Interval
<1>3. round[p].from .. round[p].to \in SUBSET Nat
  BY <1>1
<1>4. saved[q] \subseteq saved'[q] /\ round[p].from .. round[p].to \subseteq saved'[p]
  BY <1>2, <1>3, SaveAdds DEF SaveNewest
<1>5. /\ round' = [round EXCEPT ![p] = Waiting] /\ round \in [Query -> {Waiting} \cup
            [at : {"push", "save"}, from : Nat \ {0}, to : Nat]]
      /\ start' = start /\ posted' = posted
  BY DEF SaveNewest, TypeOK
<1>6. Pending' = Pending
  BY DEF SaveNewest, Pending
<1>7. Led(q)' = Led(q)
  BY <1>6 DEF Led, Behind
<1>8. Newest(q) \subseteq Newest(q)' \cup saved'[q]
  BY <1>4, <1>5 DEF Newest
<1> QED
  BY <1>4, <1>5, <1>7, <1>8 DEF InCare, Led

(* A page of a search is saved and leaves the rest of it to do.            *)
LEMMA SearchKeeps ==
    ASSUME TypeOK, NEW s \in searches, SearchPage(s), NEW q \in Query, faults' = faults
    PROVE  InCare(q) \subseteq InCare(q)'
<1>1. s \in SearchRequest /\ s.query \in Query /\ s.cursor \in Nat \ {0} /\ s.start \in Nat
  BY DEF TypeOK, SearchRequest
<1>2. /\ Oldest(s.cursor) \in Nat \ {0} /\ Oldest(s.cursor) <= s.cursor
      /\ IsFiniteSet(Page(s.cursor)) /\ Page(s.cursor) \in SUBSET Nat
  BY <1>1, PageBefore
<1>3. saved[q] \subseteq saved'[q] /\ Page(s.cursor) \subseteq saved'[s.query]
  BY <1>1, <1>2, SaveAdds DEF SearchPage
<1>4. /\ start' = start /\ posted' = posted /\ Newest(q)' = Newest(q)
      /\ Pending \subseteq Pending' \cup {s} /\ Continued(s) \subseteq Pending'
  BY DEF SearchPage, Pending, Newest
<1>5. Behind(s) \subseteq Page(s.cursor) \cup UNION {Behind(r) : r \in Continued(s)}
  <2>1. SUFFICES ASSUME NEW i \in Behind(s), i \notin Page(s.cursor)
                 PROVE  i \in UNION {Behind(r) : r \in Continued(s)}
    OBVIOUS
  <2>2. i \in Int /\ i > s.start /\ i < Oldest(s.cursor)
    BY <1>1, <1>2, <2>1 DEF Behind, Page
  <2>3. ~ Reached(s)
    BY <1>1, <1>2, <2>2 DEF Reached
  <2> DEFINE r == [s EXCEPT !.cursor = Oldest(s.cursor)]
  <2>4. r \in Continued(s)
    BY <2>3 DEF Continued
  <2>5. r.start = s.start /\ r.cursor = Oldest(s.cursor)
    BY <1>1 DEF SearchRequest
  <2>6. i \in Behind(r)
    BY <1>1, <1>2, <2>2, <2>5 DEF Behind
  <2> QED
    BY <2>4, <2>6
<1>6. \A r \in Continued(s) : r.query = s.query
  BY <1>1 DEF Continued, SearchRequest
<1>7. Led(q) \subseteq Led(q)' \cup saved'[q]
  <2>1. ASSUME NEW r \in Pending, r.query = q PROVE Behind(r) \subseteq Led(q)' \cup saved'[q]
    <3>1. CASE r \in Pending'
      BY <2>1, <3>1 DEF Led, Behind
    <3>2. CASE r = s
      <4>1. \A c \in Continued(s) : Behind(c) \subseteq Led(q)'
        BY <1>4, <1>6, <2>1, <3>2 DEF Led, Behind
      <4> QED
        BY <1>3, <1>5, <2>1, <3>2, <4>1
    <3> QED
      BY <1>4, <3>1, <3>2
  <2> QED
    BY <2>1 DEF Led
<1> QED
  BY <1>3, <1>4, <1>7 DEF InCare, Led

LEMMA NextLoss == TypeOK /\ [Next]_vars => Loss
<1> SUFFICES ASSUME TypeOK, [Next]_vars, NEW q \in Query, NEW i \in InCare(q),
                    faults' = faults, ~ (PushRequest(q) /\ i > round[q].to)
             PROVE  i \in InCare(q)'
  BY DEF Loss
<1>1. ASSUME NEW p \in Query, Post(p) PROVE i \in InCare(q)'
  <2>1. /\ posted' = [posted EXCEPT ![p] = @ + 1] /\ start' = start /\ saved' = saved
        /\ round' = round /\ Pending' = Pending
    BY <1>1 DEF Post, mem, Pending
  <2>2. posted[q] \in Nat /\ start[q] \in Nat /\ posted'[q] \in Nat /\ posted[q] <= posted'[q]
    BY <2>1 DEF TypeOK
  <2>3. (start[q] + 1) .. posted[q] \subseteq (start'[q] + 1) .. posted'[q]
    BY <2>1, <2>2
  <2>4. saved[q] \subseteq saved'[q] /\ Newest(q) \subseteq Newest(q)' /\ Pending \subseteq Pending'
    BY <2>1 DEF Newest
  <2> QED
    BY <2>3, <2>4, KeepsCare
<1>2. ASSUME NEW p \in Query, FindNewest(p) PROVE i \in InCare(q)'
  <2>1. /\ posted' = posted /\ start' = start /\ saved' = saved /\ Pending' = Pending
    BY <1>2 DEF FindNewest, Pending
  <2>2. Newest(q) \subseteq Newest(q)'
    BY <1>2 DEF FindNewest, Newest, TypeOK
  <2> QED
    BY <2>1, <2>2, KeepsCare
<1>3. ASSUME NEW p \in Query, PushRequest(p) PROVE i \in InCare(q)'
  <2>1. CASE p = q
    BY <1>3, <2>1, PushKeeps
  <2>2. CASE p # q
    <3>1. /\ posted' = posted /\ saved' = saved /\ start'[q] = start[q] /\ round'[q] = round[q]
      BY <1>3, <2>2 DEF PushRequest, TypeOK
    <3>2. round[p] \in [at : {"push", "save"}, from : Nat \ {0}, to : Nat]
      BY <1>3 DEF PushRequest, Waiting, TypeOK
    <3> DEFINE r == [query |-> p, start |-> start[p], cursor |-> round[p].from]
    <3>3. r \in SearchRequest /\ singleLL \in Seq(SearchRequest)
      BY <3>2 DEF SearchRequest, TypeOK
    <3>4. Pending \subseteq Pending'
      BY <1>3, <3>3, AppendElements DEF PushRequest, Pending, Elements
    <3>5. Newest(q) \subseteq Newest(q)'
      BY <3>1 DEF Newest
    <3> QED
      BY <3>1, <3>4, <3>5, KeepsCare
  <2> QED
    BY <2>1, <2>2
<1>4. ASSUME NEW p \in Query, SaveNewest(p) PROVE i \in InCare(q)'
  BY <1>4, SaveNewestKeeps
<1>5. CASE Pop \/ StartSearch
  <2>1. /\ posted' = posted /\ saved' = saved /\ start' = start /\ round' = round
    BY <1>5 DEF Pop, StartSearch
  <2>2. /\ Elements(singleLL) = Elements(singleLL') \cup nextObj'
        /\ nextObj \subseteq searches' \/ nextObj = {}
        /\ searches \subseteq searches'
    BY <1>5, PoppedKeeps DEF Pop, StartSearch
  <2>3. Pending \subseteq Pending' /\ Newest(q) \subseteq Newest(q)'
    BY <2>1, <2>2 DEF Pending, Elements, Newest
  <2> QED
    BY <2>1, <2>3, KeepsCare
<1>6. ASSUME NEW s \in searches, SearchPage(s) PROVE i \in InCare(q)'
  BY <1>6, SearchKeeps
<1>7. ASSUME NEW s \in searches, SearchRepeats(s) PROVE i \in InCare(q)'
  <2>1. posted' = posted /\ start' = start /\ round' = round /\ Pending' = Pending
    BY <1>7 DEF SearchRepeats, mem, Pending
  <2>2. saved[q] \subseteq saved'[q]
    BY <1>7 DEF SearchRepeats, TypeOK
  <2>3. Newest(q) \subseteq Newest(q)'
    BY <2>1 DEF Newest
  <2> QED
    BY <2>1, <2>2, <2>3, KeepsCare
<1>8. ASSUME NEW s \in searches, GiveUp(s) PROVE FALSE
  BY <1>8 DEF GiveUp, TypeOK
<1>9. CASE Restart
  BY <1>9 DEF Restart, TypeOK
<1>10. CASE UNCHANGED vars
  <2>1. /\ posted' = posted /\ start' = start /\ round' = round /\ Pending' = Pending
        /\ saved' = saved
    BY <1>10 DEF vars, mem, Pending
  <2>2. Newest(q) \subseteq Newest(q)'
    BY <2>1 DEF Newest
  <2> QED
    BY <2>1, <2>2, KeepsCare
<1>11. ASSUME NEW p \in Query, FindFails(p) PROVE UNCHANGED vars
  BY <1>11 DEF FindFails
<1> QED
  BY <1>1, <1>2, <1>3, <1>4, <1>5, <1>6, <1>7, <1>8, <1>9, <1>10, <1>11
     DEF Next, Round, Search

(* Nothing in care is lost but in the gap of a round or in a fault.        *)
THEOREM NothingElseLost == Spec => NothingElseIsLost
<1>1. Loss = (\A q \in Query : \A i \in InCare(q) :
           \/ i \in InCare(q)'
           \/ PushRequest(q) /\ i > round[q].to
           \/ faults' # faults)
  BY DEF Loss
<1>2. TypeOK /\ [Next]_vars => [\A q \in Query : \A i \in InCare(q) :
           \/ i \in InCare(q)'
           \/ PushRequest(q) /\ i > round[q].to
           \/ faults' # faults]_vars
  BY NextLoss, <1>1
<1> QED
  BY <1>2, SearchTypeCorrect, PTL DEF Spec, NothingElseIsLost
===============================================================================

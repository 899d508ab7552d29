-------------------------- MODULE RequestWindowProofs --------------------------
(***************************************************************************)
(* Proofs about RequestWindow, for any window, any size of a batch, any    *)
(* room in the channel, any fineness of the clock, and any number of       *)
(* requests, failed commits and restarts.                                  *)
(***************************************************************************)
EXTENDS RequestWindow, FiniteSetTheorems, SequenceTheorems, TLAPS

(* A non-empty set of numbers has a least one: otherwise what it holds up  *)
(* to each of its members would be finite sets without a smallest.         *)
LEMMA Least ==
    ASSUME NEW T, T \subseteq Nat, T # {}
    PROVE  \E x \in T : \A y \in T : x <= y
<1> DEFINE Upto(m) == T \cap (0 .. m)
           F == {Upto(m) : m \in T}
<1>1. IsWellFoundedOn(StrictSubsetOrdering(T), FiniteSubsetsOf(T))
  BY FS_StrictSubsetOrderingWellFounded
<1>2. \A m \in T : IsFiniteSet(Upto(m))
  <2> TAKE m \in T
  <2>1. IsFiniteSet(0 .. m)
    BY FS_Interval
  <2> QED
    BY <2>1, FS_Subset
<1>3. F \subseteq FiniteSubsetsOf(T) /\ F # {}
  BY <1>2 DEF FiniteSubsetsOf
<1> HIDE DEF F
<1>4. PICK X \in F : \A Y \in F : ~ (<<Y, X>> \in StrictSubsetOrdering(T))
  BY <1>1, <1>3, WFMin, Zenon
<1> USE DEF F
<1>5. PICK m \in T : X = Upto(m)
  BY <1>4
<1>6. ASSUME NEW y \in T, y < m PROVE FALSE
  <2>1. /\ Upto(y) \in F /\ Upto(y) \subseteq Upto(m)
        /\ m \in Upto(m) /\ m \notin Upto(y)
    BY <1>6
  <2>2. <<Upto(y), Upto(m)>> \in StrictSubsetOrdering(T)
    BY <2>1 DEF StrictSubsetOrdering
  <2> QED
    BY <2>1, <2>2, <1>4, <1>5
<1> QED
  BY <1>6

LEMMA MinIsLeast ==
    ASSUME NEW T, T \subseteq Nat, T # {}
    PROVE  Min(T) \in T /\ \A y \in T : Min(T) <= y
BY Least DEF Min

LEMMA MaxIsGreatest ==
    ASSUME NEW n \in Nat, NEW T, T \subseteq 1 .. n, T # {}
    PROVE  Max(T) \in T /\ \A y \in T : Max(T) >= y
<1> DEFINE U == {n - y : y \in T}
<1>1. U \subseteq Nat /\ U # {}
  <2>1. \A y \in 1 .. n : n - y \in Nat
    OBVIOUS
  <2>2. \A y \in T : n - y \in Nat
    BY <2>1
  <2> QED
    BY <2>2
<1>t. \A y \in T : y \in Int
  <2>1. \A y \in 1 .. n : y \in Int
    OBVIOUS
  <2> QED
    BY <2>1
<1>2. PICK u \in U : \A v \in U : u <= v
  BY <1>1, Least
<1>3. PICK x \in T : u = n - x
  BY <1>2
<1>4. ASSUME NEW y \in T PROVE x >= y
  <2>1. n - y \in U
    OBVIOUS
  <2> HIDE DEF U
  <2>2. n - x <= n - y
    BY <1>2, <1>3, <2>1
  <2>3. x \in Int /\ y \in Int
    BY <1>t
  <2> QED
    BY <2>2, <2>3
<1> QED
  BY <1>4 DEF Max
-------------------------------------------------------------------------------
(* Arithmetic: whole seconds of units of time.                             *)
LEMMA Floor ==
    ASSUME NEW s \in Nat \ {0}, NEW a \in Int
    PROVE  /\ a \div s \in Int /\ s * (a \div s) <= a /\ a < s * (a \div s) + s
           /\ a >= 0 => a \div s \in Nat
OBVIOUS

LEMMA Scale ==
    ASSUME NEW s \in Nat \ {0}, NEW a \in Int, NEW b \in Int
    PROVE  /\ a <= b <=> s * a <= s * b
           /\ a < b <=> s * a < s * b
           /\ s * (a - b) = s * a - s * b /\ s * (a + b) = s * a + s * b
           /\ s * a \in Int
<1>1. /\ s * a \in Int /\ s * (b - a) = s * b - s * a
      /\ s * (a - b) = s * a - s * b /\ s * (a + b) = s * a + s * b
  OBVIOUS
<1>2. ASSUME a < b PROVE s * a < s * b
  <2>1. b - a \in Nat \ {0}
    BY <1>2
  <2>2. s * (b - a) > 0
    BY <2>1
  <2> QED
    BY <1>1, <2>2
<1>3. ASSUME b < a PROVE s * b < s * a
  <2>1. a - b \in Nat \ {0}
    BY <1>3
  <2>2. s * (a - b) > 0
    BY <2>1
  <2> QED
    BY <1>1, <2>2
<1> QED
  BY <1>1, <1>2, <1>3

(* A time in an earlier second than another.                               *)
LEMMA EarlierSecond ==
    ASSUME NEW s \in Nat \ {0}, NEW a \in Int, NEW b \in Int, a + s <= b
    PROVE  a \div s # b \div s
<1>1. /\ a \div s \in Int /\ a < s * (a \div s) + s
      /\ b \div s \in Int /\ s * (b \div s) <= b
  BY Floor
<1>2. CASE a \div s = b \div s
  BY <1>1, <1>2, Floor
<1> QED
  BY <1>2

(* A number of seconds that does not fit in the word.                      *)
LEMMA Wrap ==
    ASSUME NEW w \in Nat \ {0}, NEW a \in Int
    PROVE  /\ a % w \in 0 .. w - 1
           /\ 0 <= a /\ a < w => a % w = a
           /\ - w <= a /\ a < 0 => a % w = a + w
OBVIOUS

LEMMA Parameters ==
    /\ Sec \in Nat \ {0} /\ Window \in Nat \ {0} /\ Word \in Nat \ {0}
    /\ BatchSize \in Nat \ {0} /\ QueueLen \in Nat \ {0} /\ End \in Nat
    /\ 2 * End + Sec < Sec * Word
    /\ Sec * Window \in Nat /\ Sec <= Sec * Window
    /\ Sec * (Window + 1) = Sec * Window + Sec
    /\ Sec * Word \in Nat /\ Sec * Window <= End
<1>1. Sec \in Nat \ {0} /\ Window \in Nat \ {0} /\ Word \in Nat \ {0}
  BY WindowAssumption
<1>2. Sec * 1 <= Sec * Window /\ Sec * (Window + 1) = Sec * Window + Sec * 1
  BY <1>1, Scale
<1>3. Sec * 1 = Sec /\ Sec * Window \in Nat /\ Sec * Word \in Nat
  BY <1>1
<1> QED
  BY <1>1, <1>2, <1>3, WindowAssumption

(* A request at k seconds of a batch that starts at b is measured from n,  *)
(* when the one at j is later than n and becomes the first: it loses c     *)
(* seconds and is at r.                                                    *)
Measured(b, n, j, k, c, r) ==
    /\ b \in 0 .. End /\ n \in 0 .. End
    /\ j \in 0 .. Word - 1 /\ k \in 0 .. Word - 1
    /\ b + Sec * j > n
    /\ c \in Int /\ c = j - (((b + Sec * j) - n) \div Sec)
    /\ r = (k - j + (((b + Sec * j) - n) \div Sec)) % Word

LEMMA Remeasured ==
    ASSUME NEW b, NEW n, NEW j, NEW k, NEW c, NEW r, Measured(b, n, j, k, c, r)
    PROVE  /\ r \in 0 .. Word - 1
           /\ c <= j /\ c < Word
           /\ n - b <= Sec * c /\ Sec * c < n - b + Sec
           /\ k < c => /\ b < n
                       /\ n + Sec * r > ((b + Sec * k) - Sec) + Sec * Word
           /\ k >= c /\ (b >= n => b + Sec * k <= End) =>
                /\ r = k - c
                /\ n + Sec * r <= b + Sec * k /\ n + Sec * r > (b + Sec * k) - Sec
<1> DEFINE s == Sec
           w == Word
           e == End
<1>0. /\ s \in Nat \ {0} /\ w \in Nat \ {0} /\ e \in Nat /\ 2 * e + s < s * w
      /\ b \in 0 .. e /\ n \in 0 .. e /\ j \in 0 .. w - 1 /\ k \in 0 .. w - 1
      /\ b + s * j > n /\ c \in Int /\ c = j - (((b + s * j) - n) \div s)
      /\ r = (k - j + (((b + s * j) - n) \div s)) % w
  BY Parameters DEF Measured
<1> HIDE DEF s, w, e
<1> DEFINE v == ((b + s * j) - n) \div s
<1>1. /\ s * j \in Int /\ s * k \in Int /\ s * w \in Int /\ s * c \in Int
      /\ (b + s * j) - n \in Int
  BY <1>0, Scale
<1>2. /\ v \in Nat /\ s * v <= (b + s * j) - n /\ (b + s * j) - n < s * v + s
      /\ s * v \in Int
  BY <1>0, <1>1, Floor, Scale
<1>3. c = j - v /\ s * c = s * j - s * v /\ c <= j
  BY <1>0, <1>2, Scale
<1>4. n - b <= s * c /\ s * c < n - b + s
  BY <1>0, <1>1, <1>2, <1>3
<1>5. c < w
  <2>1. s * c < s * w
    BY <1>0, <1>1, <1>4
  <2> QED
    BY <1>0, <2>1, Scale
<1>6. - w < c
  <2>1. s * (- w) = - (s * w) /\ - w \in Int
    BY <1>0
  <2>2. s * (- w) < s * c
    BY <1>0, <1>1, <1>4, <2>1
  <2> QED
    BY <1>0, <2>1, <2>2, Scale
<1>7. PICK d \in Int : d = k - c /\ r = d % w
  <2>1. k - j + v = k - c /\ k - c \in Int
    BY <1>0, <1>2, <1>3
  <2>2. r = (k - j + v) % w
    BY <1>0
  <2> HIDE DEF v
  <2> QED
    BY <2>1, <2>2
<1>8. r \in 0 .. w - 1
  BY <1>0, <1>7, Wrap
<1>9. ASSUME k < c PROVE b < n /\ n + s * r > ((b + s * k) - s) + s * w
  <2>1. r = k - c + w
    <3>1. - w <= d /\ d < 0
      BY <1>0, <1>5, <1>7, <1>9
    <3> QED
      BY <1>0, <1>7, <3>1, Wrap
  <2>2. s * r = s * k - s * c + s * w
    BY <1>0, <1>1, <2>1, Scale
  <2>3. 0 < s * c
    <3>1. 0 < c /\ s * 0 = 0
      BY <1>0, <1>9
    <3> QED
      BY <1>0, <3>1, Scale
  <2>4. n + s * r > ((b + s * k) - s) + s * w
    BY <1>0, <1>1, <1>4, <2>2
  <2>5. b < n
    <3>1. s * 1 <= s * c /\ s * 1 = s
      BY <1>0, <1>9, Scale
    <3> QED
      BY <1>0, <1>1, <1>4, <3>1
  <2> QED
    BY <2>4, <2>5
<1>10. ASSUME k >= c, b >= n => b + s * k <= e
       PROVE  r = k - c /\ n + s * r <= b + s * k /\ n + s * r > (b + s * k) - s
  <2>1. k - c < w
    <3>1. CASE b < n
      <4>1. 0 < c
        <5>1. s * 0 < s * c /\ s * 0 = 0
          BY <1>0, <1>1, <1>4, <3>1
        <5> QED
          BY <1>0, <5>1, Scale
      <4> QED
        BY <1>0, <4>1
    <3>2. CASE b >= n
      <4>1. s * (k - c) = s * k - s * c
        BY <1>0, Scale
      <4>2. s * (k - c) < s * w
        BY <1>0, <1>1, <1>4, <1>10, <3>2, <4>1
      <4> QED
        BY <1>0, <4>2, Scale
    <3> QED
      BY <1>0, <3>1, <3>2
  <2>2. r = k - c
    <3>1. 0 <= d /\ d < w
      BY <1>0, <1>7, <1>10, <2>1
    <3> QED
      BY <1>0, <1>7, <3>1, Wrap
  <2>3. s * r = s * k - s * c
    BY <1>0, <2>2, Scale
  <2> QED
    BY <1>0, <1>1, <1>4, <2>2, <2>3
<1> QED
  BY <1>0, <1>3, <1>4, <1>5, <1>8, <1>9, <1>10 DEF s, w, e
-------------------------------------------------------------------------------
(* What the invariants say of a batch at the time n, when the ticker is    *)
(* next due at t.  A request that counts later than it was made does so at *)
(* the start of its batch, or so late that no clock gets there.            *)
AheadAt(b, i) == Time(b, i) > b.reqs[i].at

GoodFor(b, n, t) ==
    /\ b.start <= n /\ Len(b.reqs) <= BatchSize
    /\ b.reqs = <<>> => b.start <= n - Sec * Window
    /\ \A i \in DOMAIN b.reqs :
          /\ b.reqs[i].at <= n
          /\ AheadAt(b, i) => /\ b.start <= n - Sec * Window
                              /\ b.reqs[i].k = 0 \/ Time(b, i) >= Sec * Word - t
    /\ \A i, j \in DOMAIN b.reqs : i < j /\ ~ AheadAt(b, i) =>
          ~ AheadAt(b, j) /\ b.reqs[i].k <= b.reqs[j].k

GoodBatches == /\ \A i \in DOMAIN batches : GoodFor(batches[i], now, tick)
               /\ \A s \in DOMAIN saved : GoodFor(saved[s], now, tick)

(* The times in the channel are in order, and no request that has been     *)
(* counted is later, nor a batch whose start the window has not passed.    *)
QueueInv ==
    /\ \A i \in DOMAIN queue : queue[i] <= now
    /\ \A i, j \in DOMAIN queue : i < j => queue[i] <= queue[j]
    /\ \A i \in DOMAIN batches : \A x \in DOMAIN queue :
          /\ batches[i].start > newStart => batches[i].start <= queue[x]
          /\ \A j \in DOMAIN batches[i].reqs : batches[i].reqs[j].at <= queue[x]

(* A batch without requests has been emptied by a cleaning, which has      *)
(* emptied those before it too and given the next one the same start; or a *)
(* restart has read it, and no other starts in the same second.            *)
Front(bs, m) == \A l \in DOMAIN bs : l < m => bs[l].reqs = <<>>

Emptied(bs, l) ==
    /\ Front(bs, l)
    /\ \A m \in DOMAIN bs : Front(bs, m) => bs[m].start = bs[l].start

ReadEmpty(bs, l) ==
    /\ bs[l].start + Sec * (Window + 1) <= tick
    /\ \A m \in DOMAIN bs : m # l => Key(bs[m]) # Key(bs[l])
    /\ \A x \in DOMAIN queue : queue[x] \div Sec # Key(bs[l])

EmptyInv == \A l \in DOMAIN batches :
    batches[l].reqs = <<>> => Emptied(batches, l) \/ ReadEmpty(batches, l)

(* Until a commit fails, each batch in the database is one of the record,  *)
(* and the last one with its start.                                        *)
LastOf(bs, b) == \E i \in DOMAIN bs :
    /\ b = bs[i]
    /\ \A m \in DOMAIN bs : i < m => bs[m].start # bs[i].start

CountInv == fails = 0 => \A s \in DOMAIN saved : LastOf(batches, saved[s])

(* A cleaning is in time, and the count is that of the batches added up.   *)
UpTo(bs, n) == {p \in Places(bs) : p[1] <= n}

CleaningInv == summed # -1 =>
    /\ tick <= now /\ newStart \notin Starts(batches)
    /\ count = Cardinality(UpTo(batches, summed))

IndInv == TypeOK /\ GoodBatches /\ QueueInv /\ CleaningInv
-------------------------------------------------------------------------------
Req == [k : 0 .. Word - 1, at : 0 .. End]

LEMMA BatchFields ==
    ASSUME NEW b \in Batch
    PROVE  /\ b.start \in 0 .. End /\ b.reqs \in Seq(Req)
           /\ Len(b.reqs) \in Nat /\ DOMAIN b.reqs = 1 .. Len(b.reqs)
           /\ b.reqs = <<>> <=> Len(b.reqs) = 0
           /\ b = [start |-> b.start, reqs |-> b.reqs]
           /\ \A i \in DOMAIN b.reqs :
                 /\ b.reqs[i] \in Req /\ b.reqs[i].k \in 0 .. Word - 1
                 /\ b.reqs[i].at \in 0 .. End
                 /\ Sec * b.reqs[i].k \in Int /\ Time(b, i) \in Int
                 /\ Time(b, i) = b.start + Sec * b.reqs[i].k /\ b.start <= Time(b, i)
<1>1. /\ b.start \in 0 .. End /\ b.reqs \in Seq(Req)
      /\ b = [start |-> b.start, reqs |-> b.reqs]
  BY DEF Batch, Req
<1>2. /\ Len(b.reqs) \in Nat /\ DOMAIN b.reqs = 1 .. Len(b.reqs)
      /\ b.reqs = <<>> <=> Len(b.reqs) = 0
  BY <1>1, LenProperties, EmptySeq
<1>3. ASSUME NEW i \in DOMAIN b.reqs
      PROVE  /\ b.reqs[i] \in Req /\ b.reqs[i].k \in 0 .. Word - 1
             /\ b.reqs[i].at \in 0 .. End
             /\ Sec * b.reqs[i].k \in Int /\ Time(b, i) \in Int
             /\ Time(b, i) = b.start + Sec * b.reqs[i].k /\ b.start <= Time(b, i)
  <2>1. b.reqs[i] \in Req
    BY <1>1, <1>2, ElementOfSeq
  <2>2. b.reqs[i].k \in 0 .. Word - 1 /\ b.reqs[i].at \in 0 .. End
    BY <2>1 DEF Req
  <2>3. Sec * b.reqs[i].k \in Nat
    BY <2>2, Parameters
  <2> QED
    BY <1>1, <2>1, <2>2, <2>3 DEF Time
<1> QED
  BY <1>1, <1>2, <1>3

LEMMA Clock ==
    ASSUME TypeOK
    PROVE  /\ now \in 0 .. End /\ tick \in Nat /\ tick <= now + Sec
           /\ newStart \in 0 .. End /\ newStart = now - Sec * Window /\ newStart < now
<1>1. now \in Sec * Window .. End /\ tick \in Nat /\ tick <= now + Sec
  BY DEF TypeOK
<1>2. Sec * Window \in Nat \ {0} /\ End \in Nat /\ Sec \in Nat
  BY Parameters
<1>3. newStart = now - Sec * Window
  BY DEF newStart
<1> QED
  BY <1>1, <1>2, <1>3

(* What is said of a batch stays true as time passes.                      *)
LEMMA GoodLater ==
    ASSUME NEW b \in Batch, NEW n \in Nat, NEW t \in Nat, GoodFor(b, n, t),
           NEW n1 \in Nat, n <= n1, NEW t1 \in Nat, t <= t1
    PROVE  GoodFor(b, n1, t1)
<1>1. Sec * Window \in Nat /\ Sec * Word \in Nat
  BY Parameters
<1>2. b.start <= n1 /\ Len(b.reqs) <= BatchSize
  BY BatchFields DEF GoodFor
<1>3. b.reqs = <<>> => b.start <= n1 - Sec * Window
  BY <1>1, BatchFields DEF GoodFor
<1>4. ASSUME NEW i \in DOMAIN b.reqs
      PROVE  /\ b.reqs[i].at <= n1
             /\ AheadAt(b, i) => /\ b.start <= n1 - Sec * Window
                                 /\ b.reqs[i].k = 0 \/ Time(b, i) >= Sec * Word - t1
  <2>1. b.reqs[i].at \in Nat /\ Time(b, i) \in Int /\ b.start \in Nat
    BY BatchFields
  <2>2. /\ b.reqs[i].at <= n
        /\ AheadAt(b, i) => /\ b.start <= n - Sec * Window
                            /\ b.reqs[i].k = 0 \/ Time(b, i) >= Sec * Word - t
    BY DEF GoodFor
  <2>3. PICK u \in Nat, w \in Nat : u = Sec * Window /\ w = Sec * Word
    BY <1>1
  <2>4. b.reqs[i].at <= n1
    BY <2>1, <2>2
  <2>5. b.start <= n - u => b.start <= n1 - u
    BY <2>1
  <2>6. Time(b, i) >= w - t => Time(b, i) >= w - t1
    BY <2>1
  <2> QED
    BY <2>2, <2>3, <2>4, <2>5, <2>6
<1> QED
  BY <1>2, <1>3, <1>4 DEF GoodFor
-------------------------------------------------------------------------------
(* The first batch with a fresh request, cleaned: the d requests in front  *)
(* of that one go, and the others lose c seconds.  A request with fewer    *)
(* seconds than that has got before the first one; its seconds wrap.       *)
LEMMA Rebasing ==
    ASSUME TypeOK, NEW b \in Batch, GoodFor(b, now, tick),
           Fresh(b) # {}, b.start # newStart
    PROVE  /\ Rebased(b) \in Batch /\ Rebased(b).start = newStart
           /\ \E d \in 0 .. Len(b.reqs) - 1 : \E c \in Int :
                 /\ Len(Rebased(b).reqs) = Len(b.reqs) - d
                 /\ \A j \in 1 .. d : Time(b, j) <= newStart
                 /\ d + 1 \in DOMAIN b.reqs /\ Time(b, d + 1) > newStart
                 /\ c <= b.reqs[d + 1].k
                 /\ \A i \in DOMAIN Rebased(b).reqs :
                       /\ i + d \in DOMAIN b.reqs /\ d + 1 <= i + d
                       /\ Rebased(b).reqs[i].at = b.reqs[i + d].at
                       /\ b.reqs[i + d].k < c =>
                            /\ b.start < newStart
                            /\ Time(Rebased(b), i) > Time(b, i + d) - Sec + Sec * Word
                       /\ b.reqs[i + d].k >= c =>
                            /\ Rebased(b).reqs[i].k = b.reqs[i + d].k - c
                            /\ Time(Rebased(b), i) <= Time(b, i + d)
                            /\ Time(Rebased(b), i) > Time(b, i + d) - Sec
                       /\ newStart - b.start <= Sec * c
<1> DEFINE r == Rebased(b)
           n == Len(b.reqs)
<1>1. /\ n \in Nat /\ DOMAIN b.reqs = 1 .. n
      /\ newStart \in 0 .. End /\ now \in 0 .. End
  BY BatchFields, Clock
<1>2. PICK f \in 1 .. n : /\ f = Min(Fresh(b))
                          /\ Time(b, f) > newStart
                          /\ \A j \in 1 .. f - 1 : Time(b, j) <= newStart
  <2> DEFINE g == Min(Fresh(b))
  <2>1. Fresh(b) \subseteq Nat /\ Fresh(b) \subseteq 1 .. n
    BY <1>1 DEF Fresh
  <2>2. g \in Fresh(b) /\ \A j \in Fresh(b) : g <= j
    BY <2>1, MinIsLeast
  <2>3. ASSUME NEW j \in 1 .. g - 1 PROVE Time(b, j) <= newStart
    <3>1. j \notin Fresh(b) /\ j \in 1 .. n
      BY <2>1, <2>2
    <3>2. Time(b, j) \in Int /\ newStart \in Int
      BY <1>1, <3>1, BatchFields
    <3> QED
      BY <1>1, <3>1, <3>2 DEF Fresh
  <2> QED
    BY <2>1, <2>2, <2>3 DEF Fresh
<1>5. PICK v \in Int, c \in Int :
          /\ v = ((b.start + Sec * b.reqs[f].k) - newStart) \div Sec
          /\ c = b.reqs[f].k - v /\ b.reqs[f].k \in 0 .. Word - 1
  <2> DEFINE a == (b.start + Sec * b.reqs[f].k) - newStart
  <2>1. b.start + Sec * b.reqs[f].k \in Int /\ b.reqs[f].k \in 0 .. Word - 1
    BY <1>1, <1>2, BatchFields
  <2>2. a \in Int
    <3>1. PICK x \in Int : x = b.start + Sec * b.reqs[f].k
      BY <2>1
    <3>2. x - newStart \in Int
      BY <1>1
    <3> QED
      BY <3>1, <3>2
  <2> HIDE DEF a
  <2>3. a \div Sec \in Int
    BY <2>2, Parameters, Floor
  <2>4. b.reqs[f].k - (a \div Sec) \in Int
    BY <2>1, <2>3
  <2> QED
    BY <2>1, <2>3, <2>4 DEF a
<1>2t. v \in Int /\ c \in Int /\ b.reqs[f].k \in 0 .. Word - 1
  BY <1>5
<1> DEFINE new(i) == [k |-> (b.reqs[i + f - 1].k - b.reqs[f].k + v) % Word,
                      at |-> b.reqs[i + f - 1].at]
<1>3. n - f + 1 \in Nat /\ n - f + 1 = n - (f - 1)
  BY <1>1, <1>2
<1>4. \A i \in 1 .. n - f + 1 :
         /\ i + f - 1 \in 1 .. n /\ i + (f - 1) = i + f - 1 /\ f <= i + f - 1
         /\ [b.reqs[i + f - 1] EXCEPT !.k = (@ - b.reqs[f].k + v) % Word] = new(i)
  <2> TAKE i \in 1 .. n - f + 1
  <2>1. i + f - 1 \in 1 .. n /\ i + (f - 1) = i + f - 1 /\ f <= i + f - 1
    BY <1>1, <1>2
  <2>2. b.reqs[i + f - 1] \in Req
    BY <1>1, <2>1, BatchFields
  <2>3. \A q \in Req : \A x : [q EXCEPT !.k = x] = [k |-> x, at |-> q.at]
    BY DEF Req
  <2> QED
    BY <2>1, <2>2, <2>3
<1>6. \A i \in 1 .. n - f + 1 : new(i) \in Req
  <2> TAKE i \in 1 .. n - f + 1
  <2>1. b.reqs[i + f - 1].k \in 0 .. Word - 1 /\ b.reqs[i + f - 1].at \in 0 .. End
    BY <1>1, <1>4, BatchFields
  <2> DEFINE a == b.reqs[i + f - 1].k - b.reqs[f].k + v
  <2>2. a \in Int
    <3>0. \A q \in 0 .. Word - 1 : q \in Int
      BY Parameters
    <3>1. PICK x \in Int, y \in Int : x = b.reqs[i + f - 1].k /\ y = b.reqs[f].k
      BY <1>2t, <2>1, <3>0, Zenon
    <3>2. x - y + v \in Int
      BY <1>2t
    <3> QED
      BY <3>1, <3>2
  <2> HIDE DEF a
  <2>3. a % Word \in 0 .. Word - 1
    BY <2>2, Parameters, Wrap
  <2> QED
    BY <2>1, <2>3 DEF Req, a
<1>7. r = [start |-> newStart, reqs |-> [i \in 1 .. n - f + 1 |-> new(i)]]
  <2>1. v = (Time(b, f) - newStart) \div Sec
    BY <1>5 DEF Time
  <2>2. r = [start |-> newStart,
             reqs |-> [i \in 1 .. n - f + 1 |->
                         [b.reqs[i + f - 1] EXCEPT !.k = (@ - b.reqs[f].k + v) % Word]]]
    BY <1>2, <2>1, Zenon DEF Rebased
  <2> QED
    BY <1>4, <2>2
<1>8. /\ [i \in 1 .. n - f + 1 |-> new(i)] \in Seq(Req)
      /\ Len([i \in 1 .. n - f + 1 |-> new(i)]) = n - f + 1
  <2> HIDE DEF new
  <2> QED
    BY <1>3, <1>6
<1>9. r \in Batch /\ r.start = newStart /\ Len(r.reqs) = n - (f - 1)
      /\ DOMAIN r.reqs = 1 .. n - f + 1 /\ \A i \in DOMAIN r.reqs : r.reqs[i] = new(i)
  <2>1. r \in Batch
    BY <1>1, <1>7, <1>8 DEF Batch, Req
  <2>2. r.start = newStart /\ r.reqs = [i \in 1 .. n - f + 1 |-> new(i)]
    BY <1>7
  <2> QED
    BY <1>3, <1>8, <2>1, <2>2
<1> HIDE DEF r
<1>10. ASSUME NEW i \in DOMAIN r.reqs, NEW p, p = i + (f - 1)
       PROVE  /\ p \in DOMAIN b.reqs /\ f <= p
              /\ r.reqs[i].at = b.reqs[p].at
              /\ c <= b.reqs[f].k /\ newStart - b.start <= Sec * c
              /\ b.reqs[p].k < c => /\ b.start < newStart
                                    /\ Time(r, i) > Time(b, p) - Sec + Sec * Word
              /\ b.reqs[p].k >= c => /\ r.reqs[i].k = b.reqs[p].k - c
                                     /\ Time(r, i) <= Time(b, p)
                                     /\ Time(r, i) > Time(b, p) - Sec
  <2>1. p \in 1 .. n /\ p = i + f - 1 /\ r.reqs[i] = new(i) /\ f <= p
    BY <1>4, <1>9, <1>10
  <2>2. /\ b.start \in 0 .. End /\ b.reqs[p].k \in 0 .. Word - 1
        /\ Time(b, f) = b.start + Sec * b.reqs[f].k
        /\ Time(b, p) = b.start + Sec * b.reqs[p].k /\ Time(b, p) \in Int
        /\ b.reqs[p].at \in 0 .. End
    BY <1>1, <1>2, <2>1, BatchFields
  <2>3. b.start >= newStart => b.start + Sec * b.reqs[p].k <= End
    <3>1. ASSUME b.start >= newStart PROVE Time(b, p) <= End
      <4>1. ~ (b.start <= newStart)
        BY <1>1, <2>2, <3>1
      <4>2. ~ AheadAt(b, p)
        BY <1>1, <2>1, <4>1 DEF GoodFor, newStart
      <4>3. Time(b, p) <= b.reqs[p].at
        BY <2>2, <4>2 DEF AheadAt
      <4>4. b.reqs[p].at <= End /\ b.reqs[p].at \in Int /\ Time(b, p) \in Int /\ End \in Int
        BY <2>2, Parameters
      <4> QED
        BY <4>3, <4>4
    <3> QED
      BY <2>2, <3>1
  <2>3a. p \in 1 .. n /\ r.reqs[i] = new(i) /\ i + f - 1 = p
    BY <2>1
  <2>4. /\ r.reqs[i].k = (b.reqs[p].k - b.reqs[f].k + v) % Word
        /\ r.reqs[i].at = b.reqs[p].at
        /\ Time(r, i) = newStart + Sec * r.reqs[i].k
    BY <2>3a, <1>9 DEF Time
  <2>6. /\ r.reqs[i].k \in 0 .. Word - 1
        /\ c <= b.reqs[f].k /\ c < Word
        /\ newStart - b.start <= Sec * c /\ Sec * c < newStart - b.start + Sec
        /\ b.reqs[p].k < c =>
              /\ b.start < newStart
              /\ newStart + Sec * r.reqs[i].k
                   > ((b.start + Sec * b.reqs[p].k) - Sec) + Sec * Word
        /\ b.reqs[p].k >= c /\ (b.start >= newStart => b.start + Sec * b.reqs[p].k <= End) =>
              /\ r.reqs[i].k = b.reqs[p].k - c
              /\ newStart + Sec * r.reqs[i].k <= b.start + Sec * b.reqs[p].k
              /\ newStart + Sec * r.reqs[i].k > (b.start + Sec * b.reqs[p].k) - Sec
    <3>1. b.start + Sec * b.reqs[f].k > newStart
      BY <1>2, <2>2
    <3>2. /\ c = b.reqs[f].k - (((b.start + Sec * b.reqs[f].k) - newStart) \div Sec)
          /\ r.reqs[i].k = (b.reqs[p].k - b.reqs[f].k
                              + (((b.start + Sec * b.reqs[f].k) - newStart) \div Sec)) % Word
      BY <1>5, <2>4
    <3>3. Measured(b.start, newStart, b.reqs[f].k, b.reqs[p].k, c, r.reqs[i].k)
      BY <1>1, <1>2t, <2>2, <3>1, <3>2 DEF Measured
    <3> QED
      BY <3>3, Remeasured
  <2>7. /\ Sec * b.reqs[p].k \in Int /\ Sec * r.reqs[i].k \in Int
        /\ Sec * c \in Int /\ Sec * Word \in Int
    <3>1. b.reqs[p].k \in 0 .. Word - 1 /\ r.reqs[i].k \in 0 .. Word - 1
      BY <2>2, <2>6
    <3>2. Sec \in Nat \ {0} /\ Word \in Int
      BY Parameters
    <3>3. b.reqs[p].k \in Int /\ r.reqs[i].k \in Int
      BY <3>1
    <3> QED
      BY <1>2t, <3>2, <3>3, Scale
  <2> QED
    BY <1>1, <2>1, <2>2, <2>3, <2>4, <2>6, <2>7, Parameters
<1>11. c <= b.reqs[f].k
  <2>1. 1 \in DOMAIN r.reqs
    BY <1>1, <1>2, <1>9
  <2> QED
    BY <1>10, <2>1
<1>12. f - 1 \in 0 .. n - 1 /\ (f - 1) + 1 = f
  BY <1>1, <1>2
<1>13. /\ Len(r.reqs) = n - (f - 1)
       /\ \A j \in 1 .. f - 1 : Time(b, j) <= newStart
       /\ (f - 1) + 1 \in DOMAIN b.reqs /\ Time(b, (f - 1) + 1) > newStart
       /\ c <= b.reqs[(f - 1) + 1].k
       /\ \A i \in DOMAIN r.reqs : (f - 1) + 1 <= i + (f - 1)
  BY <1>1, <1>2, <1>9, <1>10, <1>11, <1>12
<1>14. ASSUME NEW i \in DOMAIN r.reqs
       PROVE  /\ i + (f - 1) \in DOMAIN b.reqs /\ (f - 1) + 1 <= i + (f - 1)
              /\ r.reqs[i].at = b.reqs[i + (f - 1)].at
              /\ b.reqs[i + (f - 1)].k < c =>
                   /\ b.start < newStart
                   /\ Time(r, i) > Time(b, i + (f - 1)) - Sec + Sec * Word
              /\ b.reqs[i + (f - 1)].k >= c =>
                   /\ r.reqs[i].k = b.reqs[i + (f - 1)].k - c
                   /\ Time(r, i) <= Time(b, i + (f - 1))
                   /\ Time(r, i) > Time(b, i + (f - 1)) - Sec
              /\ newStart - b.start <= Sec * c
  BY <1>10, <1>13, <1>14
<1> QED
  BY <1>2t, <1>9, <1>12, <1>13, <1>14, Zenon DEF r

(* Cleaned, a batch is still one the invariant speaks of: what counts late *)
(* still does, and no clock gets there before it is measured again.        *)
LEMMA GoodRebased ==
    ASSUME TypeOK, NEW b \in Batch, GoodFor(b, now, tick),
           Fresh(b) # {}, b.start # newStart, tick <= now,
           NEW t \in Nat, tick + Sec <= t
    PROVE  GoodFor(Rebased(b), now, t)
<1> DEFINE r == Rebased(b)
<1>1. r \in Batch /\ r.start = newStart
  BY Rebasing
<1>2. PICK d \in 0 .. Len(b.reqs) - 1, c \in Int :
        /\ Len(r.reqs) = Len(b.reqs) - d
        /\ \A i \in DOMAIN r.reqs :
              /\ i + d \in DOMAIN b.reqs
              /\ r.reqs[i].at = b.reqs[i + d].at
              /\ b.reqs[i + d].k < c =>
                   /\ b.start < newStart
                   /\ Time(r, i) > Time(b, i + d) - Sec + Sec * Word
              /\ b.reqs[i + d].k >= c =>
                   /\ r.reqs[i].k = b.reqs[i + d].k - c
                   /\ Time(r, i) <= Time(b, i + d)
                   /\ Time(r, i) > Time(b, i + d) - Sec
              /\ newStart - b.start <= Sec * c
  BY Rebasing, ZenonT(60)
<1> HIDE DEF r
<1>3. /\ now \in 0 .. End /\ tick \in Nat /\ newStart \in Int
      /\ newStart = now - Sec * Window /\ newStart <= now
      /\ Sec \in Nat \ {0} /\ Sec * Word \in Nat /\ End \in Nat
      /\ 2 * End + Sec < Sec * Word
  BY Clock, Parameters
<1>4. /\ Len(b.reqs) \in Nat /\ Len(b.reqs) <= BatchSize /\ BatchSize \in Nat
      /\ b.start \in Nat /\ DOMAIN r.reqs = 1 .. Len(r.reqs)
  BY <1>1, BatchFields, Parameters DEF GoodFor
<1>5. Len(r.reqs) \in Nat \ {0} /\ Len(r.reqs) <= BatchSize /\ r.reqs # <<>>
  <2>1. Len(r.reqs) \in Nat \ {0} /\ Len(r.reqs) <= BatchSize
    BY <1>2, <1>4
  <2> QED
    BY <1>1, <2>1, BatchFields
<1>6. ASSUME NEW i \in DOMAIN r.reqs
      PROVE  /\ i + d \in DOMAIN b.reqs /\ Time(r, i) \in Int /\ r.reqs[i].k \in Int
             /\ Time(b, i + d) \in Nat /\ b.reqs[i + d].k \in Nat
             /\ b.reqs[i + d].at \in 0 .. End /\ r.reqs[i].at = b.reqs[i + d].at
             /\ b.reqs[i + d].at <= now
  <2>1. i + d \in DOMAIN b.reqs /\ r.reqs[i].at = b.reqs[i + d].at
    BY <1>2
  <2>2. Time(r, i) \in Int /\ r.reqs[i].k \in Int
    BY <1>1, BatchFields
  <2>3. /\ Time(b, i + d) \in Int /\ b.start <= Time(b, i + d)
        /\ b.reqs[i + d].k \in Nat /\ b.reqs[i + d].at \in 0 .. End
    BY <2>1, BatchFields
  <2>4. b.reqs[i + d].at <= now
    BY <2>1 DEF GoodFor
  <2>5. Time(b, i + d) \in Nat
    BY <1>4, <2>3
  <2> QED
    BY <2>1, <2>2, <2>3, <2>4, <2>5
<1> DEFINE Late(i) == AheadAt(r, i) /\ Time(r, i) >= Sec * Word - t
<1>w. PICK w \in Nat : w = Sec * Word /\ 2 * End + Sec < w
  BY <1>3
<1>l. w \in Nat /\ 2 * End + Sec < w
  BY <1>w
<1>c. /\ now \in 0 .. End /\ tick \in Nat /\ tick <= now /\ newStart \in Int
      /\ newStart <= now /\ Sec \in Nat \ {0} /\ End \in Nat
  BY <1>3
<1>7. ASSUME NEW i \in DOMAIN r.reqs, b.reqs[i + d].k < c
      PROVE  Late(i)
  <2>1. Time(r, i) > Time(b, i + d) - Sec + w
    BY <1>2, <1>7, <1>w
  <2>n. /\ Time(r, i) \in Int /\ Time(b, i + d) \in Nat
        /\ r.reqs[i].at \in 0 .. End
    BY <1>6
  <2>l. PICK x \in Int, y \in Nat, z \in 0 .. End, s \in Nat :
           /\ x = Time(r, i) /\ y = Time(b, i + d) /\ z = r.reqs[i].at /\ s = Sec
    BY <2>n, <1>c
  <2>m. x > (y - s) + w /\ s <= t
    BY <1>c, <2>1, <2>l
  <2>o. End + s < w
    BY <1>c, <1>l, <2>l
  <2>p. x >= w - t
    BY <2>m
  <2>q. x > z
    BY <1>c, <2>m, <2>o
  <2>2. Time(r, i) >= w - t /\ Time(r, i) > r.reqs[i].at
    BY <2>l, <2>p, <2>q
  <2> QED
    BY <2>2, <1>w DEF AheadAt
<1>s. b.start # newStart
  OBVIOUS
<1>8. ASSUME NEW i \in DOMAIN r.reqs, b.reqs[i + d].k >= c, AheadAt(b, i + d)
      PROVE  Late(i)
  <2>1. b.start <= newStart /\ (b.reqs[i + d].k = 0 \/ Time(b, i + d) >= w - tick)
    BY <1>3, <1>6, <1>8, <1>w DEF GoodFor
  <2>2. newStart - b.start <= Sec * c
    BY <1>2
  <2>3. 0 < c
    <3>1. PICK x \in Int : x = Sec * c
      BY <1>c, Scale
    <3>2. newStart - b.start <= x /\ b.start < newStart
      BY <1>s, <2>1, <2>2, <3>1, <1>4, <1>c
    <3>3. 0 < x
      BY <3>2, <1>4, <1>c
    <3>4. Sec * 0 = 0
      BY <1>c
    <3> QED
      BY <1>c, <3>1, <3>3, <3>4, Scale
  <2>4. Time(b, i + d) >= w - tick
    BY <1>6, <1>8, <2>1, <2>3
  <2>5. Time(r, i) > Time(b, i + d) - Sec
    BY <1>2, <1>8
  <2>n. /\ Time(r, i) \in Int /\ Time(b, i + d) \in Nat
        /\ r.reqs[i].at \in 0 .. End
    BY <1>6
  <2>l. PICK x \in Int, y \in Nat, z \in 0 .. End, s \in Nat :
           /\ x = Time(r, i) /\ y = Time(b, i + d) /\ z = r.reqs[i].at /\ s = Sec
    BY <2>n, <1>c
  <2>m. y >= w - tick /\ x > y - s
    BY <2>4, <2>5, <2>l
  <2>o. tick + s <= t /\ tick <= End /\ 2 * End + s < w
    BY <1>c, <1>l, <2>l
  <2>p. x >= w - t
    BY <1>c, <2>m, <2>o
  <2>q. x > z
    BY <1>c, <2>m, <2>o
  <2>6. Time(r, i) >= w - t /\ Time(r, i) > r.reqs[i].at
    BY <2>l, <2>p, <2>q
  <2> QED
    BY <2>6, <1>w DEF AheadAt
<1>9. ASSUME NEW i \in DOMAIN r.reqs, b.reqs[i + d].k >= c, ~ AheadAt(b, i + d)
      PROVE  ~ AheadAt(r, i) /\ r.reqs[i].k = b.reqs[i + d].k - c
  <2>1. Time(r, i) <= Time(b, i + d) /\ r.reqs[i].k = b.reqs[i + d].k - c
    BY <1>2, <1>9
  <2> QED
    BY <1>6, <1>9, <2>1 DEF AheadAt
<1>10. ASSUME NEW i \in DOMAIN r.reqs
       PROVE  /\ r.reqs[i].at <= now
              /\ AheadAt(r, i) => /\ r.start <= now - Sec * Window
                                  /\ r.reqs[i].k = 0 \/ Time(r, i) >= Sec * Word - t
  <2>1. b.reqs[i + d].k < c \/ b.reqs[i + d].k >= c
    BY <1>6
  <2>2. AheadAt(r, i) => Late(i)
    BY <1>7, <1>8, <1>9, <2>1
  <2>3. r.start <= now - Sec * Window
    <3>1. r.start = now - Sec * Window /\ newStart \in Int
      BY <1>1, <1>3
    <3> QED
      BY <1>1, <1>3, <3>1
  <2> QED
    BY <1>6, <2>2, <2>3
<1>11. ASSUME NEW i \in DOMAIN r.reqs, NEW j \in DOMAIN r.reqs, i < j, ~ AheadAt(r, i)
       PROVE  ~ AheadAt(r, j) /\ r.reqs[i].k <= r.reqs[j].k
  <2>1. b.reqs[i + d].k >= c /\ ~ AheadAt(b, i + d)
    BY <1>6, <1>7, <1>8, <1>11
  <2>2. /\ i + d \in DOMAIN b.reqs /\ j + d \in DOMAIN b.reqs /\ i + d < j + d
        /\ b.reqs[i + d].k \in Nat /\ b.reqs[j + d].k \in Nat
    BY <1>4, <1>5, <1>6, <1>11
  <2>3. ~ AheadAt(b, j + d) /\ b.reqs[i + d].k <= b.reqs[j + d].k
    BY <2>1, <2>2 DEF GoodFor
  <2>4. b.reqs[j + d].k >= c
    BY <2>1, <2>2, <2>3
  <2>5. /\ ~ AheadAt(r, j) /\ r.reqs[j].k = b.reqs[j + d].k - c
        /\ r.reqs[i].k = b.reqs[i + d].k - c
    BY <1>9, <2>1, <2>3, <2>4
  <2> QED
    BY <2>2, <2>3, <2>5
<1>12. r.start <= now
  BY <1>1, <1>3
<1> QED
  BY <1>5, <1>10, <1>11, <1>12 DEF GoodFor, r

(* A batch none of whose requests counts late keeps those the window has   *)
(* not passed, in their order, each less than a second older.              *)
LEMMA RebasedInTime ==
    ASSUME TypeOK, NEW b \in Batch, GoodFor(b, now, tick),
           Fresh(b) # {}, b.start # newStart,
           \A i \in DOMAIN b.reqs : ~ AheadAt(b, i)
    PROVE  \E d \in 0 .. Len(b.reqs) - 1 :
              /\ Len(Rebased(b).reqs) = Len(b.reqs) - d
              /\ \A j \in 1 .. d : Time(b, j) <= newStart
              /\ \A i \in DOMAIN Rebased(b).reqs :
                    /\ i + d \in DOMAIN b.reqs
                    /\ Rebased(b).reqs[i].at = b.reqs[i + d].at
                    /\ b.reqs[i + d].at > newStart
                    /\ ~ AheadAt(Rebased(b), i)
                    /\ Time(Rebased(b), i) <= Time(b, i + d)
                    /\ Time(Rebased(b), i) > Time(b, i + d) - Sec
<1> DEFINE r == Rebased(b)
<1>1. r \in Batch
  BY Rebasing
<1>2. PICK d \in 0 .. Len(b.reqs) - 1, c \in Int :
        /\ Len(r.reqs) = Len(b.reqs) - d
        /\ \A j \in 1 .. d : Time(b, j) <= newStart
        /\ d + 1 \in DOMAIN b.reqs /\ Time(b, d + 1) > newStart
        /\ c <= b.reqs[d + 1].k
        /\ \A i \in DOMAIN r.reqs :
              /\ i + d \in DOMAIN b.reqs /\ d + 1 <= i + d
              /\ r.reqs[i].at = b.reqs[i + d].at
              /\ b.reqs[i + d].k >= c =>
                   /\ r.reqs[i].k = b.reqs[i + d].k - c
                   /\ Time(r, i) <= Time(b, i + d)
                   /\ Time(r, i) > Time(b, i + d) - Sec
  BY Rebasing, ZenonT(60)
<1> HIDE DEF r
<1>3. ASSUME NEW i \in DOMAIN r.reqs
      PROVE  /\ i + d \in DOMAIN b.reqs
             /\ r.reqs[i].at = b.reqs[i + d].at
             /\ b.reqs[i + d].at > newStart
             /\ ~ AheadAt(r, i)
             /\ Time(r, i) <= Time(b, i + d)
             /\ Time(r, i) > Time(b, i + d) - Sec
  <2>1. i + d \in DOMAIN b.reqs /\ d + 1 <= i + d /\ r.reqs[i].at = b.reqs[i + d].at
    BY <1>2
  <2>2. /\ b.reqs[i + d].k \in Nat /\ b.reqs[d + 1].k \in Nat /\ b.start \in Nat
        /\ Time(b, i + d) = b.start + Sec * b.reqs[i + d].k
        /\ Time(b, d + 1) = b.start + Sec * b.reqs[d + 1].k
        /\ Time(b, i + d) \in Int /\ Time(b, d + 1) \in Int
        /\ b.reqs[i + d].at \in Int
    BY <1>2, <2>1, BatchFields
  <2>3. b.reqs[d + 1].k <= b.reqs[i + d].k
    <3>1. CASE d + 1 = i + d
      BY <2>2, <3>1
    <3>2. CASE d + 1 < i + d
      BY <1>2, <2>1, <3>2 DEF GoodFor
    <3>3. d \in Int /\ i \in Int
      BY <1>1, <1>2, BatchFields
    <3>4. d + 1 = i + d \/ d + 1 < i + d
      BY <2>1, <3>3
    <3> QED
      BY <3>1, <3>2, <3>4
  <2>4. Time(b, d + 1) <= Time(b, i + d)
    <3>0. Sec \in Nat \ {0}
      BY Parameters
    <3>k. b.reqs[d + 1].k \in Int /\ b.reqs[i + d].k \in Int
      BY <2>2
    <3>1. Sec * b.reqs[d + 1].k <= Sec * b.reqs[i + d].k
      BY <2>3, <3>0, <3>k, Scale
    <3>2. Sec * b.reqs[d + 1].k \in Int /\ Sec * b.reqs[i + d].k \in Int
      BY <3>0, <3>k, Scale
    <3>3. PICK x \in Int, y \in Int :
             x = Sec * b.reqs[d + 1].k /\ y = Sec * b.reqs[i + d].k /\ x <= y
      BY <3>1, <3>2
    <3>4. PICK s \in Nat : s = b.start
      BY <2>2
    <3>5. s + x <= s + y
      BY <3>3
    <3> QED
      BY <2>2, <3>3, <3>4, <3>5
  <2>5. b.reqs[i + d].k >= c
    BY <1>2, <2>2, <2>3
  <2>6. Time(r, i) <= Time(b, i + d) /\ Time(r, i) > Time(b, i + d) - Sec
    BY <1>2, <2>5
  <2>7. Time(b, i + d) <= b.reqs[i + d].at
    BY <2>1, <2>2 DEF AheadAt
  <2>8. b.reqs[i + d].at > newStart
    BY <1>2, <2>2, <2>4, <2>7, Clock
  <2>9. Time(r, i) \in Int
    BY <1>1, BatchFields
  <2> QED
    BY <2>1, <2>2, <2>6, <2>7, <2>8, <2>9 DEF AheadAt
<1> QED
  BY <1>2, <1>3, Zenon DEF r
-------------------------------------------------------------------------------
(* What the last batch becomes when a request made at t is counted in it.  *)
Appended(b, k, t) == [start |-> b.start, reqs |-> Append(b.reqs, [k |-> k, at |-> t])]

(* A request that has come late counts at the start of the batch, or so    *)
(* late that no clock gets there; any other counts when it was made.       *)
LEMMA GoodAppended ==
    ASSUME TypeOK, NEW b \in Batch, GoodFor(b, now, tick), Len(b.reqs) < BatchSize,
           NEW t \in 0 .. End, t <= now,
           \A i \in DOMAIN b.reqs : b.reqs[i].at <= t,
           b.start > newStart => b.start <= t,
           NEW k \in Seconds(t - b.start)
    PROVE  /\ Appended(b, k, t) \in Batch /\ GoodFor(Appended(b, k, t), now, tick)
           /\ DOMAIN Appended(b, k, t).reqs = 1 .. Len(b.reqs) + 1
           /\ \A i \in DOMAIN b.reqs : Appended(b, k, t).reqs[i] = b.reqs[i]
           /\ Appended(b, k, t).reqs[Len(b.reqs) + 1] = [k |-> k, at |-> t]
           /\ b.start <= t => ~ AheadAt(Appended(b, k, t), Len(b.reqs) + 1)
<1> DEFINE r == Appended(b, k, t)
           n == Len(b.reqs)
<1>1. /\ b.start \in 0 .. End /\ b.reqs \in Seq(Req) /\ n \in Nat
      /\ DOMAIN b.reqs = 1 .. n
  BY BatchFields
<1>2. /\ now \in 0 .. End /\ tick \in Nat /\ newStart \in 0 .. End
      /\ newStart = now - Sec * Window
  BY Clock
<1>3. /\ Sec \in Nat \ {0} /\ Word \in Nat \ {0} /\ End \in Nat
      /\ BatchSize \in Nat \ {0}
  BY Parameters
<1>4. PICK w \in Nat : w = Sec * Word /\ 2 * End + Sec < w
  BY Parameters
<1>5. w \in Nat /\ End < w
  BY <1>3, <1>4
<1>6. ASSUME b.start <= t
      PROVE  /\ k \in 0 .. Word - 1 /\ b.start + Sec * k <= t
             /\ t < b.start + Sec * k + Sec
  <2>1. PICK d \in Nat : d = t - b.start /\ d >= 0 /\ d < w
    BY <1>1, <1>3, <1>5, <1>6
  <2>2. /\ d \div Sec \in Nat /\ Sec * (d \div Sec) <= d
        /\ d < Sec * (d \div Sec) + Sec
    <3>1. d \in Int /\ d >= 0 /\ Sec \in Nat \ {0}
      BY <1>3, <2>1
    <3> QED
      BY <3>1, Floor
  <2>3. PICK q \in Nat : q = d \div Sec
    BY <2>2
  <2>4. PICK x \in Int : x = Sec * q
    BY <1>3, <2>3, Scale
  <2>5. x <= d /\ d < x + Sec
    BY <2>2, <2>3, <2>4
  <2>6. q < Word
    <3>1. x < w
      BY <1>5, <2>1, <2>4, <2>5
    <3> QED
      BY <1>3, <1>4, <2>3, <2>4, <3>1, Scale
  <2>7. k = q
    <3>1. k = q % Word
      BY <2>1, <2>3 DEF Seconds
    <3>2. q \in Int /\ 0 <= q /\ Word \in Nat \ {0}
      BY <1>3, <2>3
    <3>3. q % Word = q
      BY <2>6, <3>2, Wrap
    <3> QED
      BY <3>1, <3>3
  <2> QED
    BY <1>1, <1>3, <2>1, <2>4, <2>5, <2>6, <2>7
<1>7. ASSUME ~ (b.start <= t)
      PROVE  /\ k \in 0 .. Word - 1
             /\ k = 0 \/ b.start + Sec * k >= w - tick
  <2>1. PICK d \in Nat : d = - (t - b.start) /\ ~ (t - b.start >= 0) /\ d < w
    BY <1>1, <1>3, <1>5, <1>7
  <2>2. /\ d \div Sec \in Nat /\ Sec * (d \div Sec) <= d
    <3>1. d \in Int /\ d >= 0 /\ Sec \in Nat \ {0}
      BY <1>3, <2>1
    <3> QED
      BY <3>1, Floor
  <2>3. PICK q \in Nat : q = d \div Sec
    BY <2>2
  <2>4. PICK x \in Int : x = Sec * q
    BY <1>3, <2>3, Scale
  <2>5. x <= d
    BY <2>2, <2>3, <2>4
  <2>6. q < Word
    <3>1. x < w
      BY <1>5, <2>1, <2>4, <2>5
    <3> QED
      BY <1>3, <1>4, <2>3, <2>4, <3>1, Scale
  <2>7. k = 0 \/ k = (- q) % Word
    BY <2>1, <2>3 DEF Seconds
  <2>8. CASE k = 0 \/ q = 0
    <3>0. 0 \in 0 .. Word - 1 /\ 0 \in Int /\ 0 <= 0 /\ 0 < Word
      BY <1>3
    <3>1. 0 % Word = 0 /\ 0 \in 0 .. Word - 1
      BY <1>3, <3>0, Wrap
    <3>2. k = 0
      <4>1. PICK m \in Int : m = - q /\ q + m = 0
        BY <2>3
      <4>2. k = 0 \/ k = m % Word
        BY <2>7, <4>1
      <4>3. q = 0 => m = 0
        <5>1. q + m = 0
          BY <4>1
        <5> QED
          BY <5>1
      <4> QED
        BY <2>8, <3>1, <4>2, <4>3
    <3> QED
      BY <3>1, <3>2
  <2>9. CASE k # 0 /\ q # 0
    <3>1. - Word <= - q /\ - q < 0 /\ - q \in Int
      BY <1>3, <2>3, <2>6, <2>9
    <3>2. k = - q + Word
      BY <1>3, <2>7, <2>9, <3>1, Wrap
    <3>3. k = Word - q /\ k \in 0 .. Word - 1
      BY <1>3, <2>3, <2>6, <2>9, <3>2
    <3>4. Sec * k = w - x
      BY <1>3, <1>4, <2>3, <2>4, <3>3, Scale
    <3>5. PICK y \in Int : y = Sec * k
      BY <1>3, <3>3, Scale
    <3>6. y = w - x
      BY <3>4, <3>5
    <3>7. b.start + y >= w - tick
      <4>1. x <= b.start - t
        BY <1>1, <1>2, <2>1, <2>4, <2>5
      <4>2. b.start \in Int /\ t \in Nat /\ tick \in Nat /\ w \in Int
        BY <1>1, <1>2, <1>5
      <4> QED
        BY <2>4, <3>6, <4>1, <4>2
    <3> QED
      BY <3>3, <3>5, <3>7
  <2> QED
    BY <2>8, <2>9
<1>8. k \in 0 .. Word - 1 /\ [k |-> k, at |-> t] \in Req
  BY <1>6, <1>7 DEF Req
<1>9. /\ r.reqs = Append(b.reqs, [k |-> k, at |-> t]) /\ r.start = b.start
      /\ r.reqs \in Seq(Req) /\ Len(r.reqs) = n + 1 /\ r.reqs[n + 1] = [k |-> k, at |-> t]
      /\ \A i \in 1 .. n : r.reqs[i] = b.reqs[i]
  BY <1>1, <1>8, AppendProperties DEF Appended
<1>10. r \in Batch /\ DOMAIN r.reqs = 1 .. n + 1
  <2>1. r = [start |-> r.start, reqs |-> r.reqs]
    BY <1>9 DEF Appended
  <2>2. r \in Batch
    BY <1>1, <1>9, <2>1 DEF Batch, Req
  <2> QED
    BY <1>9, <2>2, BatchFields
<1> HIDE DEF r
<1>11. Time(r, n + 1) = b.start + Sec * k
  BY <1>9 DEF Time
<1>12. \A i \in 1 .. n : Time(r, i) = Time(b, i) /\ (AheadAt(r, i) <=> AheadAt(b, i))
  BY <1>9 DEF Time, AheadAt
<1>13. b.start <= t => ~ AheadAt(r, n + 1)
  <2>1. ASSUME b.start <= t PROVE ~ (b.start + Sec * k > t)
    <3>1. PICK x \in Int : x = Sec * k
      BY <1>3, <1>8, Scale
    <3> QED
      BY <1>1, <1>6, <2>1, <3>1
  <2> QED
    BY <1>9, <1>11, <2>1 DEF AheadAt
<1>14. ~ (b.start <= t) => /\ b.start <= now - Sec * Window
                           /\ k = 0 \/ Time(r, n + 1) >= w - tick
  <2>1. ~ (b.start <= t) => b.start <= newStart
    BY <1>1, <1>2
  <2> QED
    BY <1>2, <1>7, <1>11, <2>1
<1>15. ASSUME NEW i \in DOMAIN r.reqs
       PROVE  /\ r.reqs[i].at <= now
              /\ AheadAt(r, i) => /\ r.start <= now - Sec * Window
                                  /\ r.reqs[i].k = 0 \/ Time(r, i) >= Sec * Word - tick
  <2>1. CASE i = n + 1
    BY <1>4, <1>9, <1>13, <1>14, <2>1
  <2>2. CASE i \in 1 .. n
    BY <1>1, <1>9, <1>12, <2>2 DEF GoodFor
  <2> QED
    BY <1>1, <1>10, <2>1, <2>2
<1>16. ASSUME NEW i \in DOMAIN r.reqs, NEW j \in DOMAIN r.reqs, i < j, ~ AheadAt(r, i)
       PROVE  ~ AheadAt(r, j) /\ r.reqs[i].k <= r.reqs[j].k
  <2>1. i \in 1 .. n
    BY <1>1, <1>10, <1>16
  <2>2. CASE j \in 1 .. n
    BY <1>1, <1>9, <1>12, <1>16, <2>1, <2>2 DEF GoodFor
  <2>3. CASE j = n + 1
    <3>1. /\ b.start <= Time(b, i) /\ Time(b, i) <= b.reqs[i].at /\ b.reqs[i].at <= t
          /\ Time(b, i) = b.start + Sec * b.reqs[i].k
          /\ Time(b, i) \in Int /\ b.reqs[i].at \in Int /\ b.reqs[i].k \in Int
      BY <1>1, <1>12, <1>16, <2>1, BatchFields DEF AheadAt
    <3>2. b.start <= t
      BY <1>1, <3>1
    <3>3. PICK x \in Int, y \in Int : x = Sec * b.reqs[i].k /\ y = Sec * (k + 1)
      BY <1>3, <1>8, <3>1, Scale
    <3>4. PICK z \in Int : z = Sec * k /\ y = z + Sec
      <4>1. Sec * 1 = Sec /\ k \in Int /\ 1 \in Int
        BY <1>3, <1>8
      <4>2. Sec * k \in Int /\ Sec * (k + 1) = Sec * k + Sec
        BY <1>3, <4>1, Scale
      <4> QED
        BY <3>3, <4>2
    <3>5. x < y
      <4>1. b.start + x <= t
        BY <1>1, <3>1, <3>3
      <4>2. t < b.start + z + Sec
        BY <1>6, <3>2, <3>4
      <4> QED
        BY <1>1, <1>3, <3>4, <4>1, <4>2
    <3>6. b.reqs[i].k < k + 1
      <4>1. k + 1 \in Int
        BY <1>8
      <4> QED
        BY <1>3, <3>1, <3>3, <3>5, <4>1, Scale
    <3> QED
      BY <1>8, <1>9, <1>13, <2>1, <2>3, <3>1, <3>2, <3>6
  <2> QED
    BY <1>1, <1>10, <2>2, <2>3
<1>17. Len(r.reqs) <= BatchSize /\ r.reqs # <<>> /\ r.start <= now
  <2>1. Len(r.reqs) = n + 1 /\ n < BatchSize /\ b.start <= now
    BY <1>9 DEF GoodFor
  <2>2. n + 1 <= BatchSize /\ n + 1 # 0
    BY <1>1, <1>3, <2>1
  <2>3. r.reqs # <<>>
    BY <1>10, <2>1, <2>2, BatchFields
  <2>4. r.start <= now
    BY <1>9, <2>1
  <2> QED
    BY <2>1, <2>2, <2>3, <2>4
<1> QED
  <2>1. GoodFor(r, now, tick)
    BY <1>15, <1>16, <1>17 DEF GoodFor
  <2> QED
    BY <1>1, <1>9, <1>10, <1>13, <2>1 DEF r
-------------------------------------------------------------------------------
(* A request made at t starts a batch, or is counted in the last one.      *)
Began(bs, t) ==
    /\ Len(bs) = Len(batches) + 1
    /\ bs[Len(bs)] = [start |-> t, reqs |-> <<[k |-> 0, at |-> t]>>]

Grew(bs, t) ==
    /\ batches # <<>> /\ Len(bs) = Len(batches)
    /\ \E k \in Seconds(t - batches[Len(bs)].start) :
          bs[Len(bs)] = Appended(batches[Len(bs)], k, t)

LEMMA Sizes ==
    ASSUME NEW bs \in Seq(Batch)
    PROVE  /\ Len(bs) \in Nat /\ DOMAIN bs = 1 .. Len(bs)
           /\ bs = <<>> <=> Len(bs) = 0
           /\ \A i \in DOMAIN bs : bs[i] \in Batch /\ i \in Int
           /\ bs # <<>> => Len(bs) \in DOMAIN bs
BY LenProperties, EmptySeq, ElementOfSeq

LEMMA HeadOfQueue ==
    ASSUME TypeOK, QueueInv, queue # <<>>
    PROVE  /\ 1 \in DOMAIN queue /\ Head(queue) = queue[1]
           /\ Head(queue) \in 0 .. End /\ Head(queue) <= now
           /\ \A i \in DOMAIN batches :
                 /\ batches[i].start > newStart => batches[i].start <= Head(queue)
                 /\ \A j \in DOMAIN batches[i].reqs : batches[i].reqs[j].at <= Head(queue)
<1>1. queue \in Seq(0 .. End)
  BY DEF TypeOK
<1>2. 1 \in DOMAIN queue /\ Head(queue) = queue[1] /\ Head(queue) \in 0 .. End
  <2>1. /\ Len(queue) \in Nat /\ DOMAIN queue = 1 .. Len(queue) /\ Len(queue) # 0
    BY <1>1, EmptySeq, LenProperties
  <2>2. 1 \in DOMAIN queue
    BY <2>1
  <2>3. Head(queue) = queue[1]
    BY DEF Head
  <2>4. queue[1] \in 0 .. End
    BY <1>1, <2>1, <2>2, ElementOfSeq
  <2> QED
    BY <2>2, <2>3, <2>4
<1> QED
  BY <1>2 DEF QueueInv

LEMMA AddedBatches ==
    ASSUME IndInv, queue # <<>>, NEW t, t = Head(queue), NEW bs \in Counting(t)
    PROVE  /\ bs \in Seq(Batch) /\ bs # <<>>
           /\ \A i \in DOMAIN bs : GoodFor(bs[i], now, tick)
           /\ Began(bs, t) \/ Grew(bs, t)
           /\ \A i \in DOMAIN bs : i # Len(bs) => i \in DOMAIN batches /\ bs[i] = batches[i]
           /\ DOMAIN batches \subseteq DOMAIN bs
           /\ Began(bs, t) /\ batches # <<>> =>
                 Len(batches[Len(batches)].reqs) = BatchSize
<1>1. /\ TypeOK /\ batches \in Seq(Batch) /\ now \in 0 .. End
      /\ \A i \in DOMAIN batches : GoodFor(batches[i], now, tick)
  BY Clock DEF IndInv, TypeOK, GoodBatches
<1>2. /\ t \in 0 .. End /\ t <= now
      /\ \A i \in DOMAIN batches :
            /\ batches[i].start > newStart => batches[i].start <= t
            /\ \A j \in DOMAIN batches[i].reqs : batches[i].reqs[j].at <= t
  BY <1>1, HeadOfQueue DEF IndInv
<1> DEFINE n == Len(batches)
<1>3. /\ n \in Nat /\ DOMAIN batches = 1 .. n /\ batches = <<>> <=> n = 0
      /\ batches # <<>> => n \in DOMAIN batches
  BY <1>1, Sizes
<1>4. CASE batches = <<>> \/ Len(batches[n].reqs) = BatchSize
  <2> DEFINE b == [start |-> t, reqs |-> <<[k |-> 0, at |-> t]>>]
  <2>1. bs = Append(batches, b)
    BY <1>4 DEF Counting
  <2>2. /\ [k |-> 0, at |-> t] \in Req /\ <<[k |-> 0, at |-> t]>> \in Seq(Req)
        /\ b \in Batch /\ DOMAIN b.reqs = 1 .. 1 /\ Len(b.reqs) = 1
        /\ b.reqs[1] = [k |-> 0, at |-> t]
    <3>1. [k |-> 0, at |-> t] \in Req
      BY <1>2, Parameters DEF Req
    <3>2. <<[k |-> 0, at |-> t]>> \in Seq(Req)
      BY <3>1
    <3>3. b \in Batch
      BY <1>2, <3>2 DEF Batch, Req
    <3> QED
      BY <3>1, <3>2, <3>3
  <2> HIDE DEF b
  <2>3. /\ bs \in Seq(Batch) /\ Len(bs) = n + 1 /\ bs[n + 1] = b
        /\ \A i \in 1 .. n : bs[i] = batches[i]
    BY <1>1, <2>1, <2>2, AppendProperties
  <2>4. DOMAIN bs = 1 .. n + 1 /\ bs # <<>>
    BY <1>3, <2>3, Sizes
  <2>5. Began(bs, t)
    BY <2>3 DEF Began, b
  <2>6. GoodFor(b, now, tick)
    <3>1. b.start = t /\ b.reqs # <<>> /\ BatchSize \in Nat \ {0}
      BY <2>2, Parameters, BatchFields DEF b
    <3>2. Sec * 0 = 0
      BY Parameters
    <3>3. Time(b, 1) = t + Sec * 0 /\ b.reqs[1].at = t
      BY <2>2, <3>1 DEF Time
    <3>4. ~ AheadAt(b, 1) /\ \A i \in DOMAIN b.reqs : i = 1
      BY <1>2, <2>2, <3>2, <3>3 DEF AheadAt
    <3> QED
      BY <1>2, <2>2, <3>1, <3>3, <3>4 DEF GoodFor
  <2>7. \A i \in DOMAIN bs : GoodFor(bs[i], now, tick)
    BY <1>1, <1>3, <2>3, <2>4, <2>6
  <2> QED
    BY <1>3, <1>4, <2>3, <2>4, <2>5, <2>7
<1>5. CASE ~ (batches = <<>> \/ Len(batches[n].reqs) = BatchSize)
  <2>1. PICK k \in Seconds(t - batches[n].start) : bs = Longer(k, t)
    BY <1>5 DEF Counting
  <2>2. /\ n \in DOMAIN batches /\ batches[n] \in Batch
        /\ GoodFor(batches[n], now, tick) /\ Len(batches[n].reqs) < BatchSize
    <3>1. /\ n \in DOMAIN batches /\ batches[n] \in Batch
          /\ GoodFor(batches[n], now, tick)
      BY <1>1, <1>3, <1>5, Sizes
    <3>2. /\ Len(batches[n].reqs) <= BatchSize /\ Len(batches[n].reqs) \in Nat
          /\ BatchSize \in Nat /\ Len(batches[n].reqs) # BatchSize
      BY <1>5, <3>1, Parameters, BatchFields DEF GoodFor
    <3> QED
      BY <3>1, <3>2
  <2> DEFINE b == Appended(batches[n], k, t)
  <2>3. b \in Batch /\ GoodFor(b, now, tick)
    BY <1>1, <1>2, <2>2, GoodAppended
  <2>4. bs = [batches EXCEPT ![n] = b]
    <3>1. \A q \in Batch : \A x : [q EXCEPT !.reqs = x] = [start |-> q.start, reqs |-> x]
      BY DEF Batch
    <3>2. bs = [batches EXCEPT ![n] = [batches[n] EXCEPT
                   !.reqs = Append(batches[n].reqs, [k |-> k, at |-> t])]]
      BY <2>1, <2>2 DEF Longer
    <3> QED
      BY <2>2, <3>1, <3>2 DEF Appended
  <2> HIDE DEF b
  <2>5. /\ bs \in Seq(Batch) /\ Len(bs) = n /\ bs[n] = b
        /\ \A i \in 1 .. n : i # n => bs[i] = batches[i]
    BY <1>1, <1>3, <2>2, <2>3, <2>4, ExceptSeq
  <2>6. DOMAIN bs = 1 .. n /\ bs # <<>>
    BY <1>3, <1>5, <2>5, Sizes
  <2>7. Grew(bs, t)
    BY <1>5, <2>5 DEF Grew, b
  <2>8. \A i \in DOMAIN bs : GoodFor(bs[i], now, tick)
    <3> TAKE i \in DOMAIN bs
    <3>1. CASE i = n
      BY <2>3, <2>5, <3>1
    <3>2. CASE i # n
      <4>1. i \in 1 .. n /\ i \in DOMAIN batches
        BY <1>3, <2>6
      <4>2. bs[i] = batches[i]
        BY <2>5, <3>2, <4>1
      <4> QED
        BY <1>1, <4>1, <4>2
    <3> QED
      BY <3>1, <3>2
  <2>9. \A i \in DOMAIN bs : i # Len(bs) => i \in DOMAIN batches /\ bs[i] = batches[i]
    <3> TAKE i \in DOMAIN bs
    <3>1. i \in 1 .. n /\ i \in DOMAIN batches
      BY <1>3, <2>6
    <3> QED
      BY <2>5, <3>1
  <2>10. DOMAIN batches \subseteq DOMAIN bs
    BY <1>3, <2>6
  <2>11. ~ Began(bs, t)
    BY <1>3, <2>5 DEF Began
  <2> QED
    BY <2>5, <2>6, <2>7, <2>8, <2>9, <2>10, <2>11
<1> QED
  BY <1>4, <1>5
-------------------------------------------------------------------------------
(* The ticker is next due after now, and within a second.                  *)
LEMMA NextTick ==
    ASSUME TypeOK, tick <= now, NEW t, t = tick + Sec * ((now - tick) \div Sec + 1)
    PROVE  t \in Nat /\ tick + Sec <= t /\ now < t /\ t <= now + Sec
<1>1. now \in Nat /\ tick \in Nat /\ Sec \in Nat \ {0} /\ 1 \in Int
  BY Clock, Parameters
<1>2. PICK d \in Int : d = now - tick /\ d >= 0
  BY <1>1
<1>3. PICK q \in Nat : q = d \div Sec /\ Sec * q <= d /\ d < Sec * q + Sec
  BY <1>1, <1>2, Floor
<1>4. PICK x \in Int, y \in Int : x = Sec * q /\ y = Sec * (q + 1) /\ y = x + Sec /\ x >= 0
  <2>1. q \in Int /\ Sec * 1 = Sec
    BY <1>1
  <2>2. /\ Sec * q \in Int /\ Sec * (q + 1) = Sec * q + Sec
    BY <1>1, <2>1, Scale
  <2>3. Sec * q \in Nat
    BY <1>1
  <2> QED
    BY <1>1, <2>2, <2>3
<1>5. t = tick + y
  BY <1>2, <1>3, <1>4
<1>6. x <= d /\ d < x + Sec
  BY <1>3, <1>4
<1>7. d = now - tick
  BY <1>2
<1>8. y = x + Sec /\ x >= 0
  BY <1>4
<1> QED
  BY <1>1, <1>5, <1>6, <1>7, <1>8

LEMMA CleanedBatches ==
    ASSUME IndInv, newStart \notin Starts(batches)
    PROVE  /\ Cleaned \in Seq(Batch) /\ DOMAIN Cleaned = DOMAIN batches
           /\ Len(Cleaned) = Len(batches)
           /\ Kept \subseteq DOMAIN batches
           /\ \A i \in DOMAIN batches :
                 /\ batches[i].start # newStart
                 /\ Cleaned[i] \in Batch
                 /\ i \notin Kept <=> Fresh(batches[i]) = {}
                 /\ (\E l \in Kept : l < i) => Cleaned[i] = batches[i]
                 /\ ~ (\E l \in Kept : l < i) =>
                       Cleaned[i] = IF i \in Kept THEN Rebased(batches[i])
                                    ELSE [start |-> newStart, reqs |-> <<>>]
<1>1. TypeOK /\ batches \in Seq(Batch) /\ \A i \in DOMAIN batches : GoodFor(batches[i], now, tick)
  BY DEF IndInv, TypeOK, GoodBatches
<1>2. Kept \subseteq DOMAIN batches
  BY DEF Kept
<1>3. ASSUME NEW i \in DOMAIN batches
      PROVE  /\ batches[i].start # newStart
             /\ Cleaned[i] \in Batch
             /\ i \notin Kept <=> Fresh(batches[i]) = {}
             /\ (\E l \in Kept : l < i) => Cleaned[i] = batches[i]
             /\ ~ (\E l \in Kept : l < i) =>
                   Cleaned[i] = IF i \in Kept THEN Rebased(batches[i])
                                ELSE [start |-> newStart, reqs |-> <<>>]
  <2>1. batches[i].start # newStart
    BY DEF Starts
  <2>2. i \notin Kept <=> Fresh(batches[i]) = {}
    BY DEF Kept
  <2>3. batches[i] \in Batch /\ GoodFor(batches[i], now, tick)
    BY <1>1, Sizes
  <2>4. i \in Kept => Rebased(batches[i]) \in Batch
    BY <1>1, <2>1, <2>2, <2>3, Rebasing
  <2>5. [start |-> newStart, reqs |-> <<>>] \in Batch
    <3>1. newStart \in 0 .. End
      BY <1>1, Clock
    <3>2. <<>> \in Seq(Req)
      BY EmptySeq
    <3> QED
      BY <3>1, <3>2 DEF Batch, Req
  <2>6. Cleaned[i] = IF \E l \in Kept : l < i THEN batches[i]
                     ELSE IF i \in Kept THEN Rebased(batches[i])
                     ELSE [start |-> newStart, reqs |-> <<>>]
    BY DEF Cleaned
  <2> QED
    BY <2>1, <2>2, <2>3, <2>4, <2>5, <2>6, Zenon
<1>4. /\ Len(batches) \in Nat /\ DOMAIN batches = 1 .. Len(batches)
  BY <1>1, Sizes
<1>5. DOMAIN Cleaned = 1 .. Len(batches) /\ Cleaned = [i \in 1 .. Len(batches) |-> Cleaned[i]]
  BY <1>4 DEF Cleaned
<1>6. Cleaned \in Seq(Batch) /\ Len(Cleaned) = Len(batches)
  <2>1. Cleaned \in [1 .. Len(batches) -> Batch]
    BY <1>3, <1>4, <1>5
  <2> QED
    BY <1>4, <2>1
<1> QED
  BY <1>2, <1>3, <1>4, <1>5, <1>6

(* The invariant speaks of what a cleaning leaves, too.                    *)
LEMMA GoodCleaned ==
    ASSUME IndInv, newStart \notin Starts(batches), tick <= now,
           NEW t \in Nat, tick + Sec <= t, NEW i \in DOMAIN batches
    PROVE  /\ GoodFor(Cleaned[i], now, t)
           /\ Cleaned[i].start = newStart \/ Cleaned[i] = batches[i]
           /\ \A j \in DOMAIN Cleaned[i].reqs : \E p \in DOMAIN batches[i].reqs :
                 Cleaned[i].reqs[j].at = batches[i].reqs[p].at
<1> DEFINE b == batches[i]
<1>1. TypeOK /\ b \in Batch /\ GoodFor(b, now, tick) /\ b.start # newStart
  <2>1. TypeOK /\ batches \in Seq(Batch)
    BY DEF IndInv, TypeOK
  <2> QED
    BY <2>1, Sizes DEF IndInv, GoodBatches, Starts
<1>2. CASE \E l \in Kept : l < i
  <2>1. Cleaned[i] = b
    BY <1>2, CleanedBatches
  <2>2. /\ now \in Nat /\ tick \in Nat /\ Sec \in Nat /\ now <= now /\ tick <= t
    BY <1>1, Clock, Parameters
  <2> QED
    BY <1>1, <2>1, <2>2, GoodLater
<1>3. CASE ~ (\E l \in Kept : l < i) /\ i \in Kept
  <2>1. Cleaned[i] = Rebased(b) /\ Fresh(b) # {}
    BY <1>3, CleanedBatches
  <2>2. GoodFor(Rebased(b), now, t) /\ Rebased(b).start = newStart
    BY <1>1, <2>1, GoodRebased, Rebasing
  <2>3. \A j \in DOMAIN Rebased(b).reqs : \E p \in DOMAIN b.reqs :
           Rebased(b).reqs[j].at = b.reqs[p].at
    <3>1. \E d : \A j \in DOMAIN Rebased(b).reqs :
             j + d \in DOMAIN b.reqs /\ Rebased(b).reqs[j].at = b.reqs[j + d].at
      BY <1>1, <2>1, Rebasing, ZenonT(60)
    <3> QED
      BY <3>1, Zenon
  <2> QED
    BY <2>1, <2>2, <2>3
<1>4. CASE ~ (\E l \in Kept : l < i) /\ i \notin Kept
  <2> DEFINE e == [start |-> newStart, reqs |-> <<>>]
  <2>1. Cleaned[i] = e /\ e \in Batch /\ e.start = newStart /\ e.reqs = <<>>
    BY <1>4, CleanedBatches
  <2>2. DOMAIN e.reqs = {} /\ Len(e.reqs) = 0
    BY <2>1, EmptySeq
  <2>3. newStart <= now /\ newStart <= now - Sec * Window /\ 0 <= BatchSize
    <3>1. newStart \in 0 .. End /\ newStart = now - Sec * Window /\ newStart < now /\ now \in 0 .. End
      BY <1>1, Clock
    <3> QED
      BY <3>1, Parameters
  <2> HIDE DEF e
  <2>4. GoodFor(e, now, t)
    BY <2>1, <2>2, <2>3 DEF GoodFor
  <2> QED
    BY <2>1, <2>2, <2>4
<1> QED
  BY <1>2, <1>3, <1>4

IsTable(f) == f = [s \in DOMAIN f |-> f[s]]

(* What a cleaning leaves in the database: under each key the last batch   *)
(* it writes there, or what was there and has not been dropped.            *)
Rewritten(old, new, dropped, f) ==
    /\ IsTable(f)
    /\ \A i \in Inserted(old, new) : i \in DOMAIN new /\ Key(new[i]) \in DOMAIN f
    /\ \A s \in DOMAIN f :
          /\ f[s] \in Batch /\ Key(f[s]) = s
          /\ \/ \E i \in Inserted(old, new) :
                   /\ f[s] = new[i]
                   /\ \A l \in Inserted(old, new) : Key(new[l]) = s => l <= i
             \/ /\ s \in DOMAIN saved /\ f[s] = saved[s] /\ s \notin dropped
                /\ \A i \in Inserted(old, new) : Key(new[i]) # s
    /\ \A s \in DOMAIN saved \ dropped : s \in DOMAIN f

LEMMA WrittenBatches ==
    ASSUME TypeOK, NEW old, NEW new \in Seq(Batch), NEW dropped
    PROVE  Rewritten(old, new, dropped, Written(old, new, dropped))
<1> DEFINE f == Written(old, new, dropped)
<1> DEFINE I == Inserted(old, new)
           put == {Key(new[i]) : i \in I}
           at(s) == {i \in I : Key(new[i]) = s}
<1>1. f = [s \in (DOMAIN saved \ dropped) \cup put |->
              IF s \in put THEN new[Max(at(s))] ELSE saved[s]]
  BY DEF Written
<1> HIDE DEF f
<1>2. I \subseteq DOMAIN new /\ Len(new) \in Nat /\ DOMAIN new = 1 .. Len(new)
  BY Sizes DEF Inserted
<1> HIDE DEF I
<1>3. ASSUME NEW s \in put
      PROVE  /\ Max(at(s)) \in I /\ Key(new[Max(at(s))]) = s
             /\ \A l \in I : Key(new[l]) = s => l <= Max(at(s))
  <2>1. at(s) \subseteq 1 .. Len(new) /\ at(s) # {}
    BY <1>2
  <2>2. Max(at(s)) \in at(s) /\ \A y \in at(s) : Max(at(s)) >= y
    <3> HIDE DEF at
    <3> QED
      BY <1>2, <2>1, MaxIsGreatest
  <2>3. at(s) \subseteq Int
    BY <2>1
  <2> QED
    BY <2>2, <2>3
<1>4. ASSUME NEW s \in DOMAIN f
      PROVE  /\ f[s] \in Batch /\ Key(f[s]) = s
             /\ \/ \E i \in I :
                      /\ f[s] = new[i]
                      /\ \A l \in I : Key(new[l]) = s => l <= i
                \/ /\ s \in DOMAIN saved /\ f[s] = saved[s] /\ s \notin dropped
                   /\ \A i \in I : Key(new[i]) # s
  <2>1. CASE s \in put
    <3>1. f[s] = new[Max(at(s))]
      BY <1>1, <2>1
    <3>2. Max(at(s)) \in I /\ Max(at(s)) \in DOMAIN new /\ Key(new[Max(at(s))]) = s
          /\ \A l \in I : Key(new[l]) = s => l <= Max(at(s))
      BY <1>2, <1>3, <2>1
    <3> HIDE DEF at
    <3> QED
      BY <3>1, <3>2, Sizes
  <2>2. CASE s \notin put
    <3>1. s \in DOMAIN saved /\ s \notin dropped /\ f[s] = saved[s]
      BY <1>1, <2>2
    <3> QED
      BY <2>2, <3>1 DEF TypeOK
  <2> QED
    BY <2>1, <2>2
<1>5. DOMAIN f = (DOMAIN saved \ dropped) \cup put /\ IsTable(f)
  BY <1>1 DEF IsTable
<1>6. /\ \A i \in I : Key(new[i]) \in DOMAIN f
      /\ \A s \in DOMAIN saved \ dropped : s \in DOMAIN f
  BY <1>5
<1> HIDE DEF put, at
<1> QED
  BY <1>2, <1>4, <1>5, <1>6, Zenon DEF f, I, Rewritten

LEMMA PutBatch ==
    ASSUME TypeOK, NEW b \in Batch, NEW f, f = Put(saved, b)
    PROVE  /\ IsTable(f)
           /\ DOMAIN f = DOMAIN saved \cup {Key(b)}
           /\ f[Key(b)] = b
           /\ \A s \in DOMAIN f : s # Key(b) => s \in DOMAIN saved /\ f[s] = saved[s]
           /\ \A s \in DOMAIN f : f[s] \in Batch /\ Key(f[s]) = s
BY DEF Put, TypeOK, IsTable
-------------------------------------------------------------------------------
(* The invariant holds from the start, and every step preserves it.        *)
LEMMA IndInvInit == Init => IndInv
<1> SUFFICES ASSUME Init PROVE IndInv
  OBVIOUS
<1>1. /\ Sec * Window \in Nat /\ Sec * Window <= End /\ Sec \in Nat
      /\ End \in Nat /\ QueueLen \in Nat
      /\ 0 \in 0 .. Requests /\ 0 \in 0 .. Fails /\ 0 \in 0 .. Crashes
  <2>1. /\ Sec * Window \in Nat /\ Sec * Window <= End /\ Sec \in Nat
        /\ End \in Nat /\ QueueLen \in Nat
    BY Parameters
  <2>2. Requests \in Nat /\ Fails \in Nat /\ Crashes \in Nat
    BY WindowAssumption
  <2> QED
    BY <2>1, <2>2
<1>2. /\ <<>> \in Seq(0 .. End) /\ <<>> \in Seq(Batch) /\ Len(<<>>) = 0 /\ DOMAIN <<>> = {}
  BY EmptySeq
<1>3. TypeOK
  BY <1>1, <1>2 DEF Init, TypeOK
<1>4. GoodBatches /\ QueueInv /\ CleaningInv
  BY <1>2 DEF Init, GoodBatches, QueueInv, CleaningInv
<1> QED
  BY <1>3, <1>4 DEF IndInv

LEMMA IncKeeps == IndInv /\ Inc => IndInv'
<1> SUFFICES ASSUME IndInv, Inc PROVE IndInv'
  OBVIOUS
<1>1. /\ TypeOK /\ QueueInv /\ GoodBatches
      /\ queue \in Seq(0 .. End) /\ now \in 0 .. End
      /\ queue' = Append(queue, now) /\ asked < Requests /\ asked' = asked + 1
      /\ Len(queue) < QueueLen + (IF again THEN 1 ELSE 0)
      /\ UNCHANGED <<now, tick, again, count, batches, summed, setting, marshalled,
                     savedCount, saved, fails, crashes>>
  BY Clock DEF IndInv, TypeOK, Inc, record, caller, stored
<1> DEFINE n == Len(queue)
<1>2. /\ n \in Nat /\ DOMAIN queue = 1 .. n
      /\ queue' \in Seq(0 .. End) /\ Len(queue') = n + 1 /\ DOMAIN queue' = 1 .. n + 1
      /\ queue'[n + 1] = now /\ \A i \in 1 .. n : queue'[i] = queue[i]
  <2>1. /\ queue' \in Seq(0 .. End) /\ Len(queue') = n + 1
        /\ queue'[n + 1] = now /\ \A i \in 1 .. n : queue'[i] = queue[i]
    BY <1>1, AppendProperties
  <2> QED
    BY <1>1, <2>1, LenProperties
<1>3. TypeOK'
  <2>1. queue' # <<>> /\ Len(queue') <= QueueLen + (IF again' THEN 1 ELSE 0)
    <3>1. QueueLen + (IF again THEN 1 ELSE 0) \in Int
      BY Parameters
    <3> QED
      BY <1>1, <1>2, <3>1, EmptySeq
  <2>2. asked' \in 0 .. Requests
    <3>1. asked \in 0 .. Requests /\ Requests \in Nat
      BY <1>1, WindowAssumption DEF TypeOK
    <3> QED
      BY <1>1, <3>1
  <2> QED
    BY <1>1, <1>2, <2>1, <2>2 DEF TypeOK, Key
<1>4. GoodBatches'
  BY <1>1 DEF GoodBatches
<1>5. QueueInv'
  <2>1. ASSUME NEW i \in DOMAIN queue' PROVE queue'[i] <= now
    BY <1>1, <1>2, <2>1 DEF QueueInv
  <2>2. ASSUME NEW i \in DOMAIN queue', NEW j \in DOMAIN queue', i < j
        PROVE  queue'[i] <= queue'[j]
    <3>1. i \in 1 .. n /\ (j \in 1 .. n \/ j = n + 1)
      BY <1>2, <2>2
    <3> QED
      BY <1>1, <1>2, <2>2, <3>1 DEF QueueInv
  <2>3. ASSUME NEW i \in DOMAIN batches, NEW x \in DOMAIN queue'
        PROVE  /\ batches[i].start > newStart => batches[i].start <= queue'[x]
               /\ \A j \in DOMAIN batches[i].reqs : batches[i].reqs[j].at <= queue'[x]
    <3>1. CASE x \in 1 .. n
      BY <1>1, <1>2, <3>1 DEF QueueInv
    <3>2. CASE x = n + 1
      BY <1>1, <1>2, <3>2 DEF GoodBatches, GoodFor
    <3> QED
      BY <1>2, <3>1, <3>2
  <2> QED
    BY <1>1, <2>1, <2>2, <2>3 DEF QueueInv, newStart
<1>6. CleaningInv'
  BY <1>1 DEF IndInv, CleaningInv, newStart
<1> QED
  BY <1>3, <1>4, <1>5, <1>6 DEF IndInv

LEMMA AddKeeps == IndInv /\ AddCounter => IndInv'
<1> SUFFICES ASSUME IndInv, AddCounter PROVE IndInv'
  OBVIOUS
<1> DEFINE t == Head(queue)
           b == batches'[Len(batches')]
<1>1. /\ queue # <<>> /\ batches' \in Counting(t) /\ count' = count + 1
      /\ saved' = saved \/ saved' = Put(saved, b)
      /\ savedCount' = savedCount \/ savedCount' = count'
      /\ \/ fails' = fails
         \/ fails < Fails /\ fails' = fails + 1
      /\ \/ queue' = Tail(queue) /\ again' = FALSE
         \/ queue' = queue /\ again' = TRUE
      /\ summed = -1 /\ summed' = -1
      /\ UNCHANGED <<now, tick, setting, marshalled, asked, crashes>>
  BY Zenon DEF AddCounter, Commit, CommitFails, caller, stored, Counted
<1>2. /\ TypeOK /\ QueueInv /\ GoodBatches
      /\ queue \in Seq(0 .. End) /\ now \in 0 .. End /\ batches \in Seq(Batch)
  BY Clock DEF IndInv, TypeOK
<1>3. /\ batches' \in Seq(Batch) /\ batches' # <<>>
      /\ \A i \in DOMAIN batches' : GoodFor(batches'[i], now, tick)
      /\ Began(batches', t) \/ Grew(batches', t)
      /\ \A i \in DOMAIN batches' :
            i # Len(batches') => i \in DOMAIN batches /\ batches'[i] = batches[i]
  BY <1>1, AddedBatches
<1>4. b \in Batch /\ GoodFor(b, now, tick) /\ Len(batches') \in DOMAIN batches'
  BY <1>3, Sizes
<1>5. /\ IsTable(saved')
      /\ \A s \in DOMAIN saved' :
            /\ saved'[s] \in Batch /\ Key(saved'[s]) = s
            /\ saved'[s] = b \/ (s \in DOMAIN saved /\ saved'[s] = saved[s])
  <2>1. CASE saved' = saved
    BY <1>2, <2>1 DEF TypeOK, IsTable
  <2>2. CASE saved' = Put(saved, b)
    <3> HIDE DEF b
    <3>1. /\ IsTable(saved')
          /\ saved'[Key(b)] = b
          /\ \A s \in DOMAIN saved' : s # Key(b) => s \in DOMAIN saved /\ saved'[s] = saved[s]
          /\ \A s \in DOMAIN saved' : saved'[s] \in Batch /\ Key(saved'[s]) = s
      <4>1. TypeOK /\ b \in Batch
        BY <1>2, <1>4
      <4>2. IsTable(saved')
        BY <2>2, <4>1, PutBatch
      <4>3. saved'[Key(b)] = b
        BY <2>2, <4>1, PutBatch
      <4>4. \A s \in DOMAIN saved' : saved'[s] \in Batch
        BY <2>2, <4>1, PutBatch
      <4>5. \A s \in DOMAIN saved' : Key(saved'[s]) = s
        BY <2>2, <4>1, PutBatch
      <4>6. \A s \in DOMAIN saved' : s # Key(b) => s \in DOMAIN saved /\ saved'[s] = saved[s]
        <5> TAKE s \in DOMAIN saved'
        <5> HAVE s # Key(b)
        <5>1. s \in DOMAIN saved
          BY <2>2, <4>1, PutBatch
        <5> QED
          BY <2>2, <4>1, <5>1 DEF Put
      <4> QED
        BY <4>2, <4>3, <4>4, <4>5, <4>6
    <3>2. ASSUME NEW s \in DOMAIN saved'
          PROVE  saved'[s] = b \/ (s \in DOMAIN saved /\ saved'[s] = saved[s])
      BY <3>1, Zenon
    <3> QED
      BY <3>1, <3>2, Zenon
  <2>3. saved' = saved \/ saved' = Put(saved, b)
    BY <1>1
  <2> QED
    BY <2>1, <2>2, <2>3, Zenon
<1>6. /\ queue' \in Seq(0 .. End)
      /\ Len(queue') <= QueueLen + (IF again' THEN 1 ELSE 0)
      /\ again' => queue' # <<>>
      /\ Len(queue') \in Nat /\ DOMAIN queue' = 1 .. Len(queue')
      /\ \/ \A i \in DOMAIN queue' : i \in DOMAIN queue /\ queue'[i] = queue[i]
         \/ \A i \in DOMAIN queue' : i + 1 \in DOMAIN queue /\ queue'[i] = queue[i + 1]
  <2>1. /\ Len(queue) \in Nat /\ DOMAIN queue = 1 .. Len(queue) /\ QueueLen \in Nat
        /\ Len(queue) <= QueueLen + (IF again THEN 1 ELSE 0)
    BY <1>2, LenProperties, Parameters DEF TypeOK
  <2>2. Len(queue) <= QueueLen + 1
    BY <2>1
  <2>3. CASE queue' = Tail(queue) /\ again' = FALSE
    <3>1. /\ queue' \in Seq(0 .. End) /\ Len(queue') = Len(queue) - 1
          /\ \A i \in 1 .. Len(queue') : queue'[i] = queue[i + 1]
      BY <1>1, <1>2, <2>3, HeadTailProperties
    <3>2. Len(queue') \in Nat /\ DOMAIN queue' = 1 .. Len(queue')
      BY <3>1, LenProperties
    <3> QED
      BY <2>1, <2>2, <2>3, <3>1, <3>2
  <2>4. CASE queue' = queue /\ again' = TRUE
    BY <1>1, <1>2, <2>1, <2>2, <2>4
  <2> QED
    BY <1>1, <2>3, <2>4
<1>7. TypeOK'
  <2>1. \A i \in DOMAIN batches' : Len(batches'[i].reqs) <= BatchSize
    BY <1>3 DEF GoodFor
  <2>2. count' \in Nat /\ savedCount' \in Nat /\ fails' \in 0 .. Fails
    <3>1. /\ count \in Nat /\ savedCount \in Nat /\ fails \in 0 .. Fails /\ Fails \in Nat
      BY <1>2, WindowAssumption DEF TypeOK
    <3> QED
      BY <1>1, <3>1
  <2>3. summed' \in -1 .. Len(batches')
    BY <1>1, <1>3, Sizes
  <2> QED
    BY <1>1, <1>2, <1>3, <1>5, <1>6, <2>1, <2>2, <2>3 DEF TypeOK, Key, IsTable
<1>8. GoodBatches'
  <2>1. \A s \in DOMAIN saved' : GoodFor(saved'[s], now, tick)
    BY <1>2, <1>4, <1>5 DEF GoodBatches
  <2> QED
    BY <1>1, <1>3, <2>1 DEF GoodBatches
<1>9. ASSUME NEW y \in DOMAIN queue, \A i, j \in DOMAIN queue : i < j => queue[i] <= queue[j]
      PROVE  t <= queue[y] /\ queue[y] \in Int /\ t \in Int
  <2>1. 1 \in DOMAIN queue /\ t = queue[1] /\ t \in 0 .. End
    BY <1>1, <1>2, HeadOfQueue
  <2>2. y \in 1 .. Len(queue) /\ Len(queue) \in Nat /\ queue[y] \in 0 .. End
    BY <1>2, LenProperties, ElementOfSeq
  <2> QED
    BY <1>9, <2>1, <2>2
<1>10. QueueInv'
  <2>0. /\ \A i \in DOMAIN queue : queue[i] <= now /\ queue[i] \in Int
        /\ \A i, j \in DOMAIN queue : i < j => queue[i] <= queue[j]
    <3>1. \A i \in DOMAIN queue : queue[i] \in 0 .. End
      BY <1>2, LenProperties, ElementOfSeq
    <3> QED
      BY <1>2, <3>1 DEF QueueInv
  <2>1. \A i \in DOMAIN queue' : queue'[i] <= now
    BY <1>6, <2>0
  <2>2. ASSUME NEW i \in DOMAIN queue', NEW j \in DOMAIN queue', i < j
        PROVE  queue'[i] <= queue'[j]
    <3>1. i \in Int /\ j \in Int /\ i + 1 < j + 1
      BY <1>6, <2>2
    <3> QED
      BY <1>6, <2>0, <2>2, <3>1
  <2>3. ASSUME NEW x \in DOMAIN queue'
        PROVE  \E y \in DOMAIN queue : queue'[x] = queue[y]
    BY <1>6
  <2>4. ASSUME NEW i \in DOMAIN batches', NEW y \in DOMAIN queue
        PROVE  /\ batches'[i].start > newStart => batches'[i].start <= queue[y]
               /\ \A j \in DOMAIN batches'[i].reqs : batches'[i].reqs[j].at <= queue[y]
    <3>1. CASE i # Len(batches')
      BY <1>2, <1>3, <3>1 DEF QueueInv
    <3>2. CASE i = Len(batches') /\ Began(batches', t)
      <4>1. b = [start |-> t, reqs |-> <<[k |-> 0, at |-> t]>>]
        BY <3>2 DEF Began
      <4>2. b.start = t /\ \A j \in DOMAIN b.reqs : b.reqs[j].at = t
        BY <4>1
      <4> QED
        BY <1>9, <2>0, <3>2, <4>2
    <3>3. CASE i = Len(batches') /\ Grew(batches', t)
      <4> DEFINE o == batches[Len(batches')]
      <4>1. PICK k \in Seconds(t - o.start) : b = Appended(o, k, t)
        BY <3>3 DEF Grew
      <4>2. Len(batches') = Len(batches) /\ Len(batches) \in DOMAIN batches
        BY <1>2, <3>3, Sizes DEF Grew
      <4>3. o \in Batch
        BY <1>2, <4>2, Sizes
      <4>4. /\ o.start > newStart => o.start <= queue[y]
            /\ \A j \in DOMAIN o.reqs : o.reqs[j].at <= queue[y]
        BY <1>2, <4>2 DEF QueueInv
      <4>5. b.start = o.start /\ b.reqs = Append(o.reqs, [k |-> k, at |-> t])
        BY <4>1 DEF Appended
      <4>6. \A j \in DOMAIN b.reqs : b.reqs[j].at = t \/ (j \in DOMAIN o.reqs /\ b.reqs[j] = o.reqs[j])
        <5>1. o.reqs \in Seq(Req) /\ DOMAIN o.reqs = 1 .. Len(o.reqs) /\ Len(o.reqs) \in Nat
          BY <4>3, BatchFields
        <5> HIDE DEF o, b
        <5>2. DOMAIN b.reqs = 1 .. Len(o.reqs) + 1
          BY <4>5, <5>1
        <5> QED
          BY <4>5, <5>1, <5>2
      <4> QED
        BY <1>9, <2>0, <3>3, <4>4, <4>5, <4>6
    <3> QED
      BY <1>3, <3>1, <3>2, <3>3
  <2> QED
    BY <1>1, <2>1, <2>2, <2>3, <2>4 DEF QueueInv, newStart
<1>11. CleaningInv'
  BY <1>1 DEF CleaningInv
<1> QED
  BY <1>7, <1>8, <1>10, <1>11 DEF IndInv

(* The record has room for finitely many requests only, and the database   *)
(* for finitely many batches.                                              *)
LEMMA PlaceIn ==
    ASSUME NEW bs, NEW i \in DOMAIN bs, NEW j \in DOMAIN bs[i].reqs
    PROVE  <<i, j>> \in Places(bs)
BY DEF Places

LEMMA InPlaces ==
    ASSUME NEW bs, NEW p \in Places(bs)
    PROVE  \E i \in DOMAIN bs : \E j \in DOMAIN bs[i].reqs : p = <<i, j>>
BY DEF Places

LEMMA FinitePlaces ==
    ASSUME NEW bs \in Seq(Batch), \A i \in DOMAIN bs : Len(bs[i].reqs) <= BatchSize
    PROVE  IsFiniteSet(Places(bs)) /\ Total(bs) \in Nat
<1> DEFINE P == (1 .. Len(bs)) \X (1 .. BatchSize)
<1>1. Len(bs) \in Int /\ BatchSize \in Int /\ 1 \in Int
  BY Sizes, Parameters
<1>2. IsFiniteSet(1 .. Len(bs)) /\ IsFiniteSet(1 .. BatchSize)
  BY <1>1, FS_Interval
<1>3. IsFiniteSet(P)
  BY <1>2, FS_Product
<1>4. Places(bs) \subseteq P
  <2> SUFFICES ASSUME NEW p \in Places(bs) PROVE p \in P
    OBVIOUS
  <2>1. PICK i \in DOMAIN bs : \E j \in DOMAIN bs[i].reqs : p = <<i, j>>
    BY InPlaces
  <2>2. PICK j \in DOMAIN bs[i].reqs : p = <<i, j>>
    BY <2>1
  <2>3. i \in 1 .. Len(bs) /\ bs[i] \in Batch
    BY Sizes
  <2>4. j \in 1 .. Len(bs[i].reqs) /\ Len(bs[i].reqs) \in Nat
    BY <2>3, BatchFields
  <2>5. j \in 1 .. BatchSize
    BY <1>1, <2>4
  <2> QED
    BY <2>2, <2>3, <2>5
<1>5. IsFiniteSet(Places(bs))
  BY <1>3, <1>4, FS_Subset
<1> QED
  BY <1>5, FS_CardinalityType DEF Total

LEMMA FiniteSaved ==
    ASSUME TypeOK
    PROVE  IsFiniteSet(DOMAIN saved) /\ Cardinality(DOMAIN saved) \in Nat
           /\ \A s \in DOMAIN saved : s \in Nat
<1>1. ASSUME NEW s \in DOMAIN saved PROVE s \in Nat /\ s <= End
  <2>1. saved[s] \in Batch /\ s = saved[s].start \div Sec
    BY DEF TypeOK, Key
  <2>2. PICK x \in Nat : x = saved[s].start /\ x <= End
    BY <2>1, BatchFields
  <2>3. Sec \in Nat \ {0} /\ End \in Nat /\ x \in Int /\ x >= 0
    BY <2>2, Parameters
  <2>4. x \div Sec \in Nat /\ Sec * (x \div Sec) <= x
    BY <2>3, Floor
  <2>5. PICK q \in Nat : q = x \div Sec /\ Sec * q <= x
    BY <2>4
  <2>6. q <= Sec * q
    <3>1. Sec - 1 \in Nat
      BY <2>3
    <3>2. (Sec - 1) * q \in Nat
      BY <3>1
    <3>3. (Sec - 1) * q = Sec * q - q /\ Sec * q \in Int
      BY <2>3
    <3> QED
      BY <3>2, <3>3
  <2>7. PICK y \in Int : y = Sec * q
    BY <2>3
  <2>8. q <= y /\ y <= x
    BY <2>5, <2>6, <2>7
  <2> QED
    BY <2>1, <2>2, <2>3, <2>5, <2>8
<1>2. IsFiniteSet(DOMAIN saved)
  <2>1. DOMAIN saved \in SUBSET Nat /\ End \in Nat
    BY <1>1, Parameters
  <2> QED
    BY <1>1, <2>1, FS_BoundedSetOfNaturals
<1> QED
  BY <1>1, <1>2, FS_CardinalityType

LEMMA CleanKeeps == IndInv /\ CleanCounters => IndInv'
<1> SUFFICES ASSUME IndInv, CleanCounters PROVE IndInv'
  OBVIOUS
<1>0. summed # -1
  BY Sizes DEF IndInv, TypeOK, CleanCounters
<1>1. /\ tick <= now /\ tick' = tick + Sec * ((now - tick) \div Sec + 1)
      /\ newStart \notin Starts(batches) /\ batches' = Cleaned /\ count' = count
      /\ saved' = saved \/ saved' = Replaced(batches, batches')
      /\ savedCount' = savedCount \/ savedCount' = count'
      /\ \/ fails' = fails
         \/ fails < Fails /\ fails' = fails + 1
      /\ summed' = -1
      /\ UNCHANGED <<now, queue, again, setting, marshalled, asked, crashes>>
  <2>1. tick <= now /\ newStart \notin Starts(batches)
    BY <1>0 DEF IndInv, CleaningInv
  <2> QED
    BY <2>1, Zenon DEF CleanCounters, Commit, CommitFails, caller, stored
<1>2. /\ TypeOK /\ QueueInv /\ GoodBatches
      /\ batches \in Seq(Batch) /\ now \in 0 .. End /\ tick \in Nat
  BY Clock DEF IndInv, TypeOK
<1>3. tick' \in Nat /\ tick + Sec <= tick' /\ now < tick' /\ tick' <= now + Sec
  BY <1>1, <1>2, NextTick
<1>4. /\ batches' \in Seq(Batch) /\ DOMAIN batches' = DOMAIN batches
      /\ \A i \in DOMAIN batches' :
            /\ GoodFor(batches'[i], now, tick')
            /\ batches'[i].start = newStart \/ batches'[i] = batches[i]
            /\ \A j \in DOMAIN batches'[i].reqs : \E p \in DOMAIN batches[i].reqs :
                  batches'[i].reqs[j].at = batches[i].reqs[p].at
  <2>1. batches' \in Seq(Batch) /\ DOMAIN batches' = DOMAIN batches
    BY <1>1, CleanedBatches
  <2>2. ASSUME NEW i \in DOMAIN batches
        PROVE  /\ GoodFor(batches'[i], now, tick')
               /\ batches'[i].start = newStart \/ batches'[i] = batches[i]
               /\ \A j \in DOMAIN batches'[i].reqs : \E p \in DOMAIN batches[i].reqs :
                     batches'[i].reqs[j].at = batches[i].reqs[p].at
    BY <1>1, <1>3, GoodCleaned
  <2> QED
    BY <2>1, <2>2
<1>5. /\ IsTable(saved')
      /\ \A s \in DOMAIN saved' :
            /\ saved'[s] \in Batch /\ Key(saved'[s]) = s
            /\ \/ \E i \in DOMAIN batches' : saved'[s] = batches'[i]
               \/ s \in DOMAIN saved /\ saved'[s] = saved[s]
  <2>1. CASE saved' = saved
    BY <1>2, <2>1 DEF TypeOK, IsTable
  <2>2. CASE saved' = Replaced(batches, batches')
    <3>1. saved' = Written(batches, batches', Dropped(batches, batches'))
      BY <2>2 DEF Replaced
    <3>2. Rewritten(batches, batches', Dropped(batches, batches'), saved')
      <4>1. TypeOK /\ batches' \in Seq(Batch)
        BY <1>2, <1>4
      <4> QED
        BY <3>1, <4>1, WrittenBatches, Zenon
    <3>3. ASSUME NEW s \in DOMAIN saved'
          PROVE  /\ saved'[s] \in Batch /\ Key(saved'[s]) = s
                 /\ \/ \E i \in DOMAIN batches' : saved'[s] = batches'[i]
                    \/ s \in DOMAIN saved /\ saved'[s] = saved[s]
      BY <3>2, Zenon DEF Rewritten
    <3> QED
      BY <3>2, <3>3, Zenon DEF Rewritten
  <2> QED
    BY <1>1, <2>1, <2>2, Zenon
<1>6. TypeOK'
  <2>1. \A i \in DOMAIN batches' : Len(batches'[i].reqs) <= BatchSize
    BY <1>4 DEF GoodFor
  <2>2. summed' \in -1 .. Len(batches')
    BY <1>1, <1>4, Sizes
  <2>3. count' \in Nat /\ savedCount' \in Nat /\ fails' \in 0 .. Fails
    <3>1. /\ count \in Nat /\ savedCount \in Nat
          /\ fails \in 0 .. Fails /\ Fails \in Nat
      BY <1>2, WindowAssumption DEF TypeOK
    <3> QED
      BY <1>1, <3>1
  <2> QED
    BY <1>1, <1>2, <1>3, <1>4, <1>5, <2>1, <2>2, <2>3 DEF TypeOK, Key, IsTable
<1>7. GoodBatches'
  <2>1. ASSUME NEW s \in DOMAIN saved' PROVE GoodFor(saved'[s], now, tick')
    <3>1. CASE \E i \in DOMAIN batches' : saved'[s] = batches'[i]
      BY <1>4, <3>1
    <3>2. CASE s \in DOMAIN saved /\ saved'[s] = saved[s]
      <4>1. GoodFor(saved[s], now, tick) /\ saved[s] \in Batch
        BY <1>2, <3>2 DEF GoodBatches, TypeOK
      <4>2. now \in Nat /\ tick <= tick' /\ now <= now
        BY <1>2, <1>3, Parameters
      <4> QED
        BY <1>2, <1>3, <3>2, <4>1, <4>2, GoodLater
    <3> QED
      BY <1>5, <2>1, <3>1, <3>2
  <2> QED
    BY <1>1, <1>4, <2>1 DEF GoodBatches
<1>8. QueueInv'
  <2>1. /\ \A i \in DOMAIN queue : queue[i] <= now
        /\ \A i, j \in DOMAIN queue : i < j => queue[i] <= queue[j]
    BY <1>2 DEF QueueInv
  <2>2. ASSUME NEW i \in DOMAIN batches', NEW x \in DOMAIN queue
        PROVE  /\ batches'[i].start > newStart => batches'[i].start <= queue[x]
               /\ \A j \in DOMAIN batches'[i].reqs : batches'[i].reqs[j].at <= queue[x]
    <3>1. /\ batches[i].start > newStart => batches[i].start <= queue[x]
          /\ \A p \in DOMAIN batches[i].reqs : batches[i].reqs[p].at <= queue[x]
      BY <1>2, <1>4 DEF QueueInv
    <3>2. ~ (newStart > newStart)
      BY <1>2, Clock
    <3> QED
      BY <1>4, <3>1, <3>2
  <2> QED
    BY <1>1, <2>1, <2>2 DEF QueueInv, newStart
<1>9. CleaningInv'
  BY <1>1 DEF CleaningInv
<1> QED
  BY <1>6, <1>7, <1>8, <1>9 DEF IndInv

LEMMA RestartKeeps == IndInv /\ Restart => IndInv'
<1> SUFFICES ASSUME IndInv, Restart PROVE IndInv'
  OBVIOUS
<1>1. /\ crashes < Crashes /\ crashes' = crashes + 1
      /\ queue' = <<>> /\ again' = FALSE /\ count' = savedCount
      /\ tick' = now + Sec
      /\ summed' = -1 /\ setting' = "idle" /\ marshalled' = 0
      /\ UNCHANGED <<now, savedCount, saved, asked, fails>>
  BY Zenon DEF Restart, stored
<1>2. /\ TypeOK /\ GoodBatches /\ now \in 0 .. End /\ tick \in Nat
      /\ tick <= now + Sec
  BY Clock DEF IndInv
<1>3. PICK keys \in [1 .. Cardinality(DOMAIN saved) -> DOMAIN saved] :
         batches' = [i \in DOMAIN keys |-> saved[keys[i]]]
  BY DEF Restart
<1>4. PICK n \in Nat : n = Cardinality(DOMAIN saved)
  BY <1>2, FiniteSaved
<1>5. /\ DOMAIN keys = 1 .. n /\ DOMAIN batches' = 1 .. n
      /\ \A i \in 1 .. n : keys[i] \in DOMAIN saved /\ batches'[i] = saved[keys[i]]
  BY <1>3, <1>4
<1>6. batches' \in Seq(Batch)
  <2>1. \A i \in 1 .. n : saved[keys[i]] \in Batch
    BY <1>2, <1>5 DEF TypeOK
  <2>2. batches' = [i \in 1 .. n |-> saved[keys[i]]]
    BY <1>3, <1>5
  <2> QED
    BY <2>1, <2>2
<1>7. ASSUME NEW b \in Batch, GoodFor(b, now, tick)
      PROVE  GoodFor(b, now, tick')
  <2>1. now \in Nat /\ now <= now /\ tick' \in Nat /\ tick <= tick'
    BY <1>1, <1>2, Parameters
  <2> QED
    BY <1>2, <1>7, <2>1, GoodLater
<1>8. GoodBatches'
  <2>1. \A s \in DOMAIN saved : GoodFor(saved[s], now, tick')
    BY <1>2, <1>7 DEF GoodBatches, TypeOK
  <2> QED
    BY <1>1, <1>5, <2>1 DEF GoodBatches
<1>9. TypeOK'
  <2>1. \A i \in DOMAIN batches' : Len(batches'[i].reqs) <= BatchSize
    BY <1>8 DEF GoodBatches, GoodFor
  <2>2. /\ <<>> \in Seq(0 .. End) /\ Len(<<>>) = 0
        /\ 0 <= QueueLen + (IF FALSE THEN 1 ELSE 0)
    BY EmptySeq, Parameters
  <2>3. tick' \in Nat /\ tick' <= now + Sec
    BY <1>1, <1>2, Parameters
  <2>4. crashes' \in 0 .. Crashes
    <3>1. crashes \in 0 .. Crashes /\ Crashes \in Nat
      BY <1>2, WindowAssumption DEF TypeOK
    <3> QED
      BY <1>1, <3>1
  <2>5. summed' \in -1 .. Len(batches')
    BY <1>1, <1>6, Sizes
  <2> QED
    BY <1>1, <1>2, <1>6, <2>1, <2>2, <2>3, <2>4, <2>5 DEF TypeOK, Key
<1>10. QueueInv' /\ CleaningInv'
  BY <1>1, EmptySeq DEF QueueInv, CleaningInv
<1> QED
  BY <1>8, <1>9, <1>10 DEF IndInv

LEMMA ElapseKeeps == IndInv /\ Elapse => IndInv'
<1> SUFFICES ASSUME IndInv, Elapse PROVE IndInv'
  OBVIOUS
<1>1. /\ now < End /\ now' = now + 1 /\ summed = -1
      /\ UNCHANGED <<tick, queue, again, count, batches, summed, setting, marshalled,
                     savedCount, saved, asked, fails, crashes>>
  BY Zenon DEF Elapse, record, caller, stored, bounds
<1>2. /\ TypeOK /\ GoodBatches /\ QueueInv /\ now \in 0 .. End /\ tick \in Nat
      /\ tick <= now + Sec /\ Sec \in Nat /\ Sec * Window \in Nat /\ End \in Nat
      /\ batches \in Seq(Batch)
  BY Clock, Parameters DEF IndInv, TypeOK
<1>3. ASSUME NEW b \in Batch, GoodFor(b, now, tick)
      PROVE  GoodFor(b, now', tick')
  <2>1. now \in Nat /\ now' \in Nat /\ now <= now' /\ tick' = tick /\ tick <= tick
    BY <1>1, <1>2
  <2> QED
    BY <1>2, <1>3, <2>1, GoodLater
<1>4. GoodBatches'
  BY <1>1, <1>2, <1>3, Sizes DEF GoodBatches, TypeOK
<1>5. TypeOK'
  <2>1. now' \in Sec * Window .. End /\ tick <= now' + Sec
    <3>1. PICK u \in Nat : u = Sec * Window
      BY <1>2
    <3>2. now \in u .. End
      BY <1>2, <3>1 DEF TypeOK
    <3>3. now' = now + 1 /\ now < End
      BY <1>1
    <3>4. now' \in u .. End /\ tick <= now' + Sec
      BY <1>2, <3>2, <3>3
    <3> QED
      BY <3>1, <3>4
  <2>2. /\ queue' \in Seq(0 .. End) /\ Len(queue') <= QueueLen + (IF again' THEN 1 ELSE 0)
        /\ again' => queue' # <<>>
        /\ count' \in Nat /\ savedCount' \in Nat
        /\ asked' \in 0 .. Requests /\ fails' \in 0 .. Fails /\ crashes' \in 0 .. Crashes
    BY <1>1, <1>2 DEF TypeOK
  <2>3. /\ batches' \in Seq(Batch)
        /\ \A i \in DOMAIN batches' : Len(batches'[i].reqs) <= BatchSize
    BY <1>1, <1>2 DEF TypeOK
  <2>4. /\ saved' = [s \in DOMAIN saved' |-> saved'[s]]
        /\ \A s \in DOMAIN saved' : saved'[s] \in Batch /\ Key(saved'[s]) = s
    <3>1. saved' = saved
      BY <1>1
    <3>2. /\ saved = [s \in DOMAIN saved |-> saved[s]]
          /\ \A s \in DOMAIN saved : saved[s] \in Batch /\ Key(saved[s]) = s
      BY <1>2 DEF TypeOK
    <3> QED
      BY <3>1, <3>2
  <2>5. tick' \in Nat /\ tick' <= now' + Sec
    BY <1>1, <1>2, <2>1
  <2>6. /\ summed' \in -1 .. Len(batches') /\ marshalled' \in Nat
        /\ setting' \in {"idle", "checked", "marshalled"}
    BY <1>1, <1>2 DEF TypeOK
  <2> QED
    BY <2>1, <2>2, <2>3, <2>4, <2>5, <2>6 DEF TypeOK, Key
<1>6. QueueInv'
  <2>1. newStart' \in Int /\ newStart \in Int /\ newStart <= newStart'
    BY <1>1, <1>2 DEF newStart
  <2>2. ASSUME NEW i \in DOMAIN batches, batches[i].start > newStart'
        PROVE  batches[i].start > newStart
    <3>1. batches[i].start \in Int
      BY <1>2, Sizes, BatchFields
    <3> QED
      BY <2>1, <2>2, <3>1
  <2>3. \A i \in DOMAIN queue : queue[i] <= now'
    <3>1. queue \in Seq(0 .. End)
      BY <1>2 DEF TypeOK
    <3>2. \A i \in DOMAIN queue : queue[i] \in 0 .. End
      BY <3>1, LenProperties, ElementOfSeq
    <3>3. \A i \in DOMAIN queue : queue[i] <= now
      BY <1>2 DEF QueueInv
    <3> QED
      BY <1>1, <1>2, <3>2, <3>3
  <2> QED
    BY <1>1, <1>2, <2>2, <2>3 DEF QueueInv
<1>7. CleaningInv'
  BY <1>1 DEF CleaningInv
<1> QED
  BY <1>4, <1>5, <1>6, <1>7 DEF IndInv

(* The rest of the steps are of the count alone.                           *)
Recounts == Recount \/ AddUp

Sets == SetThreshold \/ MarshalThreshold \/ SaveThreshold \/ IncreaseThresholdTo

LEMMA Counts ==
    ASSUME Recounts \/ Sets
    PROVE  UNCHANGED <<now, tick, queue, again, batches, saved, fails, crashes>>
BY Zenon DEF Recounts, Sets, Recount, AddUp, SetThreshold, MarshalThreshold,
             SaveThreshold, IncreaseThresholdTo, record, stored, bounds

(* The batches added up, when the next one is, and in the end.             *)
LEMMA NextSum ==
    ASSUME NEW bs \in Seq(Batch), \A i \in DOMAIN bs : Len(bs[i].reqs) <= BatchSize,
           NEW n \in 0 .. Len(bs) - 1
    PROVE  Cardinality(UpTo(bs, n + 1)) = Cardinality(UpTo(bs, n)) + Len(bs[n + 1].reqs)
<1> DEFINE m == Len(bs[n + 1].reqs)
           new == {n + 1} \X (1 .. m)
<1>1. /\ n \in Nat /\ n + 1 \in DOMAIN bs /\ m \in Nat
      /\ DOMAIN bs[n + 1].reqs = 1 .. m
  <2>1. n \in Nat /\ n + 1 \in 1 .. Len(bs) /\ Len(bs) \in Nat
    BY LenProperties
  <2>2. n + 1 \in DOMAIN bs /\ bs[n + 1] \in Batch
    BY <2>1, Sizes
  <2> QED
    BY <2>1, <2>2, BatchFields
<1>2. ASSUME NEW p \in Places(bs)
      PROVE  p[1] \in Nat /\ p[2] \in DOMAIN bs[p[1]].reqs /\ p = <<p[1], p[2]>>
  <2>1. PICK i \in DOMAIN bs : \E j \in DOMAIN bs[i].reqs : p = <<i, j>>
    BY InPlaces
  <2>2. PICK j \in DOMAIN bs[i].reqs : p = <<i, j>>
    BY <2>1
  <2>3. i \in 1 .. Len(bs)
    BY Sizes
  <2> QED
    BY <2>2, <2>3
<1>3. UpTo(bs, n + 1) = UpTo(bs, n) \cup new
  <2>1. ASSUME NEW p \in UpTo(bs, n + 1) PROVE p \in UpTo(bs, n) \cup new
    <3>1. p \in Places(bs) /\ p[1] \in Nat /\ p[1] <= n + 1
      BY <1>2, <2>1 DEF UpTo
    <3>2. CASE p[1] <= n
      BY <3>1, <3>2 DEF UpTo
    <3>3. CASE p[1] = n + 1
      BY <1>1, <1>2, <3>1, <3>3
    <3> QED
      BY <1>1, <3>1, <3>2, <3>3
  <2>2. ASSUME NEW p \in new PROVE p \in UpTo(bs, n + 1)
    <3>1. PICK j \in 1 .. m : p = <<n + 1, j>>
      OBVIOUS
    <3>2. p \in Places(bs)
      BY <1>1, <3>1, PlaceIn
    <3> QED
      BY <1>1, <3>1, <3>2 DEF UpTo
  <2>3. UpTo(bs, n) \subseteq UpTo(bs, n + 1)
    BY <1>1, <1>2 DEF UpTo
  <2> HIDE DEF new
  <2> QED
    BY <2>1, <2>2, <2>3
<1>4. UpTo(bs, n) \cap new = {}
  BY <1>1 DEF UpTo
<1>5. IsFiniteSet(UpTo(bs, n)) /\ Cardinality(UpTo(bs, n)) \in Nat
  <2>1. IsFiniteSet(Places(bs)) /\ UpTo(bs, n) \subseteq Places(bs)
    BY FinitePlaces DEF UpTo
  <2> QED
    BY <2>1, FS_Subset, FS_CardinalityType
<1>6. IsFiniteSet(new) /\ Cardinality(new) = m
  <2>1. IsFiniteSet({n + 1}) /\ Cardinality({n + 1}) = 1
    BY FS_Singleton
  <2>2. IsFiniteSet(1 .. m) /\ Cardinality(1 .. m) = m
    <3>1. 1 \in Int /\ m \in Int /\ m - 1 + 1 = m /\ (1 > m => m = 0)
      BY <1>1
    <3>2. /\ IsFiniteSet(1 .. m)
          /\ Cardinality(1 .. m) = IF 1 > m THEN 0 ELSE m - 1 + 1
      BY <3>1, FS_Interval
    <3> QED
      BY <3>1, <3>2
  <2>3. /\ IsFiniteSet({n + 1} \X (1 .. m))
        /\ Cardinality({n + 1} \X (1 .. m)) = Cardinality({n + 1}) * Cardinality(1 .. m)
    BY <2>1, <2>2, FS_Product
  <2> QED
    BY <1>1, <2>1, <2>2, <2>3
<1>7. Cardinality(UpTo(bs, n) \cap new) = 0
  BY <1>4, FS_EmptySet
<1> HIDE DEF m, new
<1>8. Cardinality(UpTo(bs, n) \cup new)
        = Cardinality(UpTo(bs, n)) + Cardinality(new) - Cardinality(UpTo(bs, n) \cap new)
  BY <1>5, <1>6, FS_Union
<1>9. PICK x \in Nat : x = Cardinality(UpTo(bs, n))
  BY <1>5
<1>10. PICK y \in Nat : y = m
  BY <1>1
<1>11. Cardinality(UpTo(bs, n + 1)) = x + y - 0
  BY <1>3, <1>6, <1>7, <1>8, <1>9, <1>10
<1>12. Cardinality(UpTo(bs, n + 1)) = x + y
  BY <1>11
<1> QED
  BY <1>9, <1>10, <1>12 DEF m

LEMMA FirstSum ==
    ASSUME NEW bs \in Seq(Batch)
    PROVE  Cardinality(UpTo(bs, 0)) = 0
<1>1. UpTo(bs, 0) = {}
  <2> SUFFICES ASSUME NEW p \in UpTo(bs, 0) PROVE FALSE
    OBVIOUS
  <2>1. p \in Places(bs) /\ p[1] <= 0
    BY DEF UpTo
  <2>2. PICK i \in DOMAIN bs : \E j \in DOMAIN bs[i].reqs : p = <<i, j>>
    BY <2>1, InPlaces
  <2>3. i \in 1 .. Len(bs) /\ p[1] = i
    BY <2>2, Sizes
  <2> QED
    BY <2>1, <2>3
<1> QED
  BY <1>1, FS_EmptySet

LEMMA LastSum ==
    ASSUME NEW bs \in Seq(Batch)
    PROVE  Cardinality(UpTo(bs, Len(bs))) = Total(bs)
<1>1. UpTo(bs, Len(bs)) = Places(bs)
  <2> SUFFICES ASSUME NEW p \in Places(bs) PROVE p[1] <= Len(bs)
    BY DEF UpTo
  <2>1. PICK i \in DOMAIN bs : \E j \in DOMAIN bs[i].reqs : p = <<i, j>>
    BY InPlaces
  <2>2. i \in 1 .. Len(bs) /\ p[1] = i
    BY <2>1, Sizes
  <2> QED
    BY <2>2
<1> QED
  BY <1>1 DEF Total

LEMMA CountKeeps == IndInv /\ (Recounts \/ Sets) => IndInv'
<1> SUFFICES ASSUME IndInv, Recounts \/ Sets PROVE IndInv'
  OBVIOUS
<1>1. UNCHANGED <<now, tick, queue, again, batches, saved, fails, crashes>>
  BY Counts
<1>2. /\ TypeOK /\ QueueInv /\ GoodBatches /\ CleaningInv
      /\ batches \in Seq(Batch) /\ Len(batches) \in Nat
      /\ \A i \in DOMAIN batches : Len(batches[i].reqs) <= BatchSize
      /\ count \in Nat /\ savedCount \in Nat /\ marshalled \in Nat
      /\ asked \in 0 .. Requests /\ Requests \in Nat
  BY LenProperties, WindowAssumption DEF IndInv, TypeOK
<1>3. /\ count' \in Nat
      /\ summed' \in -1 .. Len(batches)
      /\ CleaningInv'
  <2>1. CASE Recount
    <3>1. /\ count' = 0 /\ summed' = 0 /\ tick <= now
          /\ newStart \notin Starts(batches)
      BY <2>1 DEF Recount
    <3>2. Cardinality(UpTo(batches, 0)) = 0
      BY <1>2, FirstSum
    <3> QED
      BY <1>1, <1>2, <3>1, <3>2 DEF CleaningInv, newStart
  <2>2. CASE AddUp
    <3>1. /\ summed \in 0 .. Len(batches) - 1 /\ summed' = summed + 1
          /\ count' = count + Len(batches[summed + 1].reqs)
      BY <2>2 DEF AddUp
    <3>2. PICK n \in 0 .. Len(batches) - 1 : n = summed
      BY <3>1
    <3>3. n + 1 \in 0 .. Len(batches) /\ n # -1
      BY <1>2, <3>2
    <3>4. Len(batches[n + 1].reqs) \in Nat
      <4>1. n + 1 \in 1 .. Len(batches)
        BY <1>2, <3>2
      <4>2. batches[n + 1] \in Batch
        BY <1>2, <4>1, Sizes
      <4> QED
        BY <4>2, BatchFields
    <3>5. Cardinality(UpTo(batches, n + 1))
            = Cardinality(UpTo(batches, n)) + Len(batches[n + 1].reqs)
      BY <1>2, NextSum
    <3>6. /\ tick <= now /\ newStart \notin Starts(batches)
          /\ count = Cardinality(UpTo(batches, n))
      BY <1>2, <3>2, <3>3 DEF CleaningInv
    <3>7. count' = Cardinality(UpTo(batches, n + 1)) /\ summed' = n + 1
      BY <3>1, <3>2, <3>5, <3>6
    <3>8. CleaningInv'
      BY <1>1, <3>6, <3>7 DEF CleaningInv, newStart
    <3>9. count' \in Nat /\ summed' \in -1 .. Len(batches)
      BY <1>2, <3>1, <3>2, <3>3, <3>4
    <3> QED
      BY <3>8, <3>9
  <2>3. CASE Sets
    <3>1. count' = count /\ summed' = summed
      BY <2>3 DEF Sets, SetThreshold, MarshalThreshold, SaveThreshold,
                  IncreaseThresholdTo, record
    <3> QED
      BY <1>1, <1>2, <3>1 DEF TypeOK, CleaningInv, newStart
  <2> QED
    BY <2>1, <2>2, <2>3 DEF Recounts
<1>4. /\ savedCount' \in Nat /\ marshalled' \in Nat /\ asked' \in 0 .. Requests
      /\ setting' \in {"idle", "checked", "marshalled"}
  <2>1. CASE Recounts
    <3>1. UNCHANGED <<savedCount, marshalled, asked, setting>>
      BY <2>1 DEF Recounts, Recount, AddUp, stored, caller, bounds
    <3> QED
      BY <1>2, <3>1 DEF TypeOK
  <2>2. CASE Sets
    <3>1. setting \in {"idle", "checked", "marshalled"}
      BY <1>2 DEF TypeOK
    <3>2. /\ savedCount' \in {savedCount, count, marshalled}
          /\ marshalled' \in {marshalled, count, 0}
          /\ \/ asked' = asked
             \/ asked < Requests /\ asked' = asked + 1
          /\ setting' \in {setting, "idle", "checked", "marshalled"}
      BY <2>2 DEF Sets, SetThreshold, MarshalThreshold, SaveThreshold,
                  IncreaseThresholdTo, record, stored, caller, bounds
    <3> QED
      BY <1>2, <3>1, <3>2
  <2> QED
    BY <2>1, <2>2
<1>5. TypeOK'
  BY <1>1, <1>2, <1>3, <1>4 DEF TypeOK, Key
<1>6. GoodBatches' /\ QueueInv'
  BY <1>1, <1>2 DEF GoodBatches, QueueInv, newStart
<1> QED
  BY <1>3, <1>5, <1>6 DEF IndInv

LEMMA IndInvStep == IndInv /\ [Next]_vars => IndInv'
<1> SUFFICES ASSUME IndInv, [Next]_vars PROVE IndInv'
  OBVIOUS
<1>1. CASE UNCHANGED vars
  BY <1>1 DEF vars, record, caller, stored, bounds, IndInv, TypeOK, GoodBatches, QueueInv,
              CleaningInv, newStart, Key
<1> QED
  BY <1>1, IncKeeps, AddKeeps, CleanKeeps, RestartKeeps, ElapseKeeps, CountKeeps
     DEF Next, Recounts, Sets

THEOREM IndInvHolds == Spec => []IndInv
BY IndInvInit, IndInvStep, PTL DEF Spec

(* TypeOK is an invariant: the seconds of a request fit in their word.     *)
THEOREM TypeCorrect == Spec => []TypeOK
<1>1. IndInv => TypeOK
  BY DEF IndInv
<1> QED
  BY <1>1, IndInvHolds, PTL
-------------------------------------------------------------------------------
(* The record in its order: none of its requests counts late.              *)
LEMMA NotAhead ==
    ASSUME NEW bs, ~ Ahead(bs), NEW i \in DOMAIN bs, NEW j \in DOMAIN bs[i].reqs
    PROVE  ~ AheadAt(bs[i], j)
BY DEF Ahead, AheadAt

LEMMA InsideOrder ==
    ASSUME NEW b \in Batch, NEW n, NEW t, GoodFor(b, n, t),
           NEW j \in DOMAIN b.reqs, NEW l \in DOMAIN b.reqs, j < l, ~ AheadAt(b, j)
    PROVE  Time(b, j) <= Time(b, l)
<1>1. b.reqs[j].k <= b.reqs[l].k
  BY DEF GoodFor
<1>2. /\ b.reqs[j].k \in 0 .. Word - 1 /\ b.reqs[l].k \in 0 .. Word - 1
      /\ b.start \in 0 .. End
      /\ Time(b, j) = b.start + Sec * b.reqs[j].k
      /\ Time(b, l) = b.start + Sec * b.reqs[l].k
  BY BatchFields
<1>3. b.reqs[j].k \in Int /\ b.reqs[l].k \in Int /\ b.start \in Int /\ Sec \in Nat \ {0}
  BY <1>2, Parameters
<1>4. PICK x \in Int, y \in Int : x = Sec * b.reqs[j].k /\ y = Sec * b.reqs[l].k
  BY <1>3, Scale
<1>5. x <= y
  BY <1>1, <1>3, <1>4, Scale
<1> QED
  BY <1>2, <1>3, <1>4, <1>5

(* A request that has not come late does not count late.                   *)
LEMMA AddedInTime ==
    ASSUME IndInv, queue # <<>>, NEW t, t = Head(queue), NEW bs \in Counting(t),
           ~ Ahead(batches), ~ LateInc
    PROVE  /\ ~ Ahead(bs)
           /\ Began(bs, t) => bs[Len(bs)].start = t
           /\ Grew(bs, t) => /\ Len(bs) = Len(batches) /\ Len(bs) \in DOMAIN batches
                             /\ bs[Len(bs)].start = batches[Len(bs)].start
<1>1. /\ bs \in Seq(Batch) /\ bs # <<>> /\ TypeOK /\ batches \in Seq(Batch)
      /\ Began(bs, t) \/ Grew(bs, t)
      /\ \A i \in DOMAIN bs : i # Len(bs) => i \in DOMAIN batches /\ bs[i] = batches[i]
  BY AddedBatches DEF IndInv, TypeOK
<1>2. /\ t \in 0 .. End /\ t <= now
      /\ \A i \in DOMAIN batches :
            /\ batches[i].start > newStart => batches[i].start <= t
            /\ \A j \in DOMAIN batches[i].reqs : batches[i].reqs[j].at <= t
  BY <1>1, HeadOfQueue DEF IndInv
<1>3. CASE Began(bs, t)
  <2> DEFINE b == bs[Len(bs)]
  <2>1. b = [start |-> t, reqs |-> <<[k |-> 0, at |-> t]>>]
    BY <1>3 DEF Began
  <2>2. b.start = t /\ DOMAIN b.reqs = {1} /\ b.reqs[1].k = 0 /\ b.reqs[1].at = t
    BY <2>1
  <2>3. Sec * 0 = 0
    BY Parameters
  <2>4. Time(b, 1) = t
    BY <1>2, <2>2, <2>3 DEF Time
  <2>5. \A j \in DOMAIN b.reqs : ~ (Time(b, j) > b.reqs[j].at)
    BY <1>2, <2>2, <2>4
  <2>6. ~ Ahead(bs)
    BY <1>1, <2>5 DEF Ahead
  <2>7. ~ Grew(bs, t)
    <3>1. Len(batches) \in Nat
      BY <1>1, Sizes
    <3> QED
      BY <1>3, <3>1 DEF Began, Grew
  <2> QED
    BY <2>2, <2>6, <2>7
<1>4. CASE Grew(bs, t)
  <2> DEFINE n == Len(bs)
             o == batches[n]
  <2>1. batches # <<>> /\ n = Len(batches) /\ n \in DOMAIN batches
    BY <1>1, <1>4, Sizes DEF Grew
  <2>2. PICK k \in Seconds(t - o.start) : bs[n] = Appended(o, k, t)
    BY <1>4 DEF Grew
  <2>3. o \in Batch /\ GoodFor(o, now, tick) /\ o.start \in 0 .. End
    BY <1>1, <2>1, Sizes, BatchFields DEF IndInv, GoodBatches
  <2>4. o.start <= t
    <3>1. ~ (t < o.start)
      BY <2>1 DEF LateInc
    <3> QED
      BY <1>2, <2>3, <3>1
  <2>5. Len(o.reqs) < BatchSize
    <3>1. ~ (batches = <<>> \/ Len(o.reqs) = BatchSize)
      <4>1. ASSUME batches = <<>> \/ Len(o.reqs) = BatchSize PROVE FALSE
        <5>1. bs = Append(batches, [start |-> t, reqs |-> <<[k |-> 0, at |-> t]>>])
          BY <2>1, <4>1 DEF Counting
        <5>2. [start |-> t, reqs |-> <<[k |-> 0, at |-> t]>>] \in Batch
          <6>1. [k |-> 0, at |-> t] \in Req
            BY <1>2, Parameters DEF Req
          <6>2. <<[k |-> 0, at |-> t]>> \in Seq(Req)
            BY <6>1
          <6> QED
            BY <1>2, <6>2 DEF Batch, Req
        <5>3. n = Len(batches) + 1 /\ Len(batches) \in Nat
          BY <1>1, <5>1, <5>2, AppendProperties, Sizes
        <5> QED
          BY <2>1, <5>3
      <4> QED
        BY <4>1
    <3>2. Len(o.reqs) \in Nat /\ Len(o.reqs) <= BatchSize /\ BatchSize \in Nat
      BY <2>3, Parameters, BatchFields DEF GoodFor
    <3> QED
      BY <3>1, <3>2
  <2>6. /\ bs[n].start = o.start /\ Len(o.reqs) \in Nat
        /\ DOMAIN bs[n].reqs = 1 .. Len(o.reqs) + 1 /\ DOMAIN o.reqs = 1 .. Len(o.reqs)
        /\ \A i \in DOMAIN o.reqs : bs[n].reqs[i] = o.reqs[i]
        /\ ~ AheadAt(bs[n], Len(o.reqs) + 1)
    <3> HIDE DEF o
    <3>1. /\ \A i \in DOMAIN o.reqs : o.reqs[i].at <= t
          /\ o.start > newStart => o.start <= t
      BY <1>2, <2>1 DEF o
    <3>2. /\ DOMAIN Appended(o, k, t).reqs = 1 .. Len(o.reqs) + 1
          /\ \A i \in DOMAIN o.reqs : Appended(o, k, t).reqs[i] = o.reqs[i]
          /\ o.start <= t => ~ AheadAt(Appended(o, k, t), Len(o.reqs) + 1)
      BY <1>1, <1>2, <2>2, <2>3, <2>5, <3>1, GoodAppended, ZenonT(60)
    <3>3. Appended(o, k, t).start = o.start
      BY DEF Appended
    <3>4. DOMAIN o.reqs = 1 .. Len(o.reqs) /\ Len(o.reqs) \in Nat
      BY <2>3, BatchFields
    <3> QED
      BY <2>2, <2>4, <3>2, <3>3, <3>4
  <2>7. \A j \in DOMAIN bs[n].reqs : ~ (Time(bs[n], j) > bs[n].reqs[j].at)
    <3> TAKE j \in DOMAIN bs[n].reqs
    <3>1. CASE j \in DOMAIN o.reqs
      <4>1. ~ AheadAt(o, j)
        BY <2>1, <3>1, NotAhead
      <4> QED
        BY <2>6, <3>1, <4>1 DEF AheadAt, Time
    <3>2. CASE j = Len(o.reqs) + 1
      BY <2>6, <3>2 DEF AheadAt
    <3>3. j \in DOMAIN o.reqs \/ j = Len(o.reqs) + 1
      BY <2>6
    <3> QED
      BY <3>1, <3>2, <3>3
  <2>8. ~ Ahead(bs)
    BY <1>1, <2>7 DEF Ahead
  <2>9. ~ Began(bs, t)
    <3>1. Len(batches) \in Nat
      BY <1>1, Sizes
    <3> QED
      BY <1>4, <3>1 DEF Began, Grew
  <2> QED
    BY <2>1, <2>6, <2>8, <2>9
<1> QED
  BY <1>1, <1>3, <1>4

(* A cleaning takes the d requests in front of a batch.                    *)
Cleans(b, c, d) ==
    /\ Len(c.reqs) = Len(b.reqs) - d
    /\ \A j \in 1 .. d : Time(b, j) <= newStart
    /\ \A j \in DOMAIN c.reqs :
          /\ j + d \in DOMAIN b.reqs
          /\ c.reqs[j].at = b.reqs[j + d].at
          /\ ~ AheadAt(c, j)
          /\ Time(c, j) <= Time(b, j + d)
          /\ Time(c, j) > Time(b, j + d) - Sec

LEMMA CleanedInTime ==
    ASSUME IndInv, newStart \notin Starts(batches), ~ Ahead(batches),
           NEW i \in DOMAIN batches
    PROVE  /\ \E d \in 0 .. Len(batches[i].reqs) : Cleans(batches[i], Cleaned[i], d)
           /\ Cleaned[i].reqs # <<>> =>
                 \A l \in DOMAIN batches : i < l => Cleaned[l] = batches[l]
<1> DEFINE b == batches[i]
<1>1. /\ TypeOK /\ batches \in Seq(Batch) /\ b \in Batch /\ GoodFor(b, now, tick)
      /\ b.start # newStart /\ i \in Int
      /\ \A j \in DOMAIN b.reqs : ~ AheadAt(b, j)
  <2>1. TypeOK /\ batches \in Seq(Batch)
    BY DEF IndInv, TypeOK
  <2> QED
    BY <2>1, Sizes, NotAhead DEF IndInv, GoodBatches, Starts
<1>2. /\ Len(b.reqs) \in Nat /\ DOMAIN b.reqs = 1 .. Len(b.reqs)
      /\ \A j \in DOMAIN b.reqs : Time(b, j) \in Int
      /\ newStart \in Int /\ Sec \in Nat \ {0}
  <2>1. newStart \in 0 .. End /\ Sec \in Nat \ {0}
    BY <1>1, Clock, Parameters
  <2> HIDE DEF b
  <2> QED
    BY <1>1, <2>1, BatchFields
<1>3. /\ Cleaned[i] \in Batch
      /\ i \notin Kept <=> Fresh(b) = {}
      /\ (\E l \in Kept : l < i) => Cleaned[i] = b
      /\ ~ (\E l \in Kept : l < i) =>
            Cleaned[i] = IF i \in Kept THEN Rebased(b)
                         ELSE [start |-> newStart, reqs |-> <<>>]
      /\ \A l \in DOMAIN batches : (\E q \in Kept : q < l) => Cleaned[l] = batches[l]
  BY CleanedBatches
<1>4. CASE \E l \in Kept : l < i
  <2>1. Cleaned[i] = b
    BY <1>3, <1>4
  <2>2. Cleans(b, b, 0)
    <3>1. \A j \in DOMAIN b.reqs : j + 0 = j /\ Time(b, j) - Sec < Time(b, j)
      BY <1>2
    <3> QED
      BY <1>1, <1>2, <3>1 DEF Cleans
  <2>3. \A l \in DOMAIN batches : i < l => Cleaned[l] = batches[l]
    <3> TAKE l \in DOMAIN batches
    <3> HAVE i < l
    <3>1. PICK q \in Kept : q < i
      BY <1>4
    <3>2. q \in Int /\ l \in Int
      BY <1>1, <3>1, Sizes DEF Kept
    <3> QED
      BY <1>1, <1>3, <3>1, <3>2
  <2>4. 0 \in 0 .. Len(b.reqs)
    BY <1>2
  <2> QED
    BY <2>1, <2>2, <2>3, <2>4
<1>5. CASE ~ (\E l \in Kept : l < i) /\ i \in Kept
  <2>1. Cleaned[i] = Rebased(b) /\ Fresh(b) # {}
    BY <1>3, <1>5
  <2>2. PICK d \in 0 .. Len(b.reqs) - 1 : Cleans(b, Rebased(b), d)
    BY <1>1, <2>1, RebasedInTime, Zenon DEF Cleans
  <2>3. d \in 0 .. Len(b.reqs)
    BY <1>2
  <2>4. \A l \in DOMAIN batches : i < l => Cleaned[l] = batches[l]
    BY <1>3, <1>5
  <2> QED
    BY <2>1, <2>2, <2>3, <2>4
<1>6. CASE ~ (\E l \in Kept : l < i) /\ i \notin Kept
  <2>1. Cleaned[i] = [start |-> newStart, reqs |-> <<>>]
    BY <1>3, <1>6
  <2>2. Cleaned[i].reqs = <<>> /\ Len(Cleaned[i].reqs) = 0 /\ DOMAIN Cleaned[i].reqs = {}
    BY <2>1, EmptySeq
  <2>3. \A j \in 1 .. Len(b.reqs) : Time(b, j) <= newStart
    BY <1>2, <1>3, <1>6 DEF Fresh
  <2>4. Cleans(b, Cleaned[i], Len(b.reqs))
    BY <1>2, <2>2, <2>3 DEF Cleans
  <2>5. Len(b.reqs) \in 0 .. Len(b.reqs)
    BY <1>2
  <2> QED
    BY <2>2, <2>4, <2>5
<1> QED
  BY <1>4, <1>5, <1>6

(* A record in order stays so: a batch after one with a fresh request      *)
(* starts later than the window does.                                      *)
LEMMA LaterStart ==
    ASSUME IndInv, InOrder(batches), NEW i \in Kept, NEW m \in DOMAIN batches, i < m
    PROVE  newStart < batches[m].start
<1>1. TypeOK /\ batches \in Seq(Batch)
  BY DEF IndInv, TypeOK
<1>2. i \in DOMAIN batches /\ Fresh(batches[i]) # {}
  BY DEF Kept
<1>3. PICK p \in DOMAIN batches[i].reqs : Time(batches[i], p) > newStart
  BY <1>2 DEF Fresh
<1>4. Time(batches[i], p) <= batches[m].start
  BY <1>2, <1>3 DEF InOrder
<1>5. /\ Time(batches[i], p) \in Int /\ newStart \in Int /\ batches[m].start \in Int
  BY <1>1, <1>2, <1>3, Sizes, BatchFields, Clock
<1> QED
  BY <1>3, <1>4, <1>5

LEMMA CleanedOrder ==
    ASSUME IndInv, newStart \notin Starts(batches), tick <= now, ~ Ahead(batches),
           InOrder(batches)
    PROVE  /\ InOrder(Cleaned)
           /\ \A i \in DOMAIN Cleaned : \A j \in DOMAIN Cleaned[i].reqs :
                 Cleaned[i].reqs[j].at > newStart
<1>1. /\ TypeOK /\ batches \in Seq(Batch) /\ DOMAIN Cleaned = DOMAIN batches
      /\ newStart \in 0 .. End /\ now \in 0 .. End /\ tick \in Nat /\ Sec \in Nat \ {0}
  BY Clock, CleanedBatches, Parameters DEF IndInv, TypeOK
<1>2. ASSUME NEW i \in DOMAIN batches
      PROVE  /\ batches[i] \in Batch /\ Cleaned[i] \in Batch
             /\ GoodFor(batches[i], now, tick) /\ batches[i].start # newStart
             /\ GoodFor(Cleaned[i], now, tick + Sec)
             /\ Cleaned[i].start \in Int /\ batches[i].start \in Int /\ i \in Int
             /\ i \notin Kept <=> Fresh(batches[i]) = {}
             /\ \A j \in DOMAIN batches[i].reqs :
                   /\ ~ AheadAt(batches[i], j)
                   /\ Time(batches[i], j) \in Int /\ batches[i].reqs[j].at \in Int
                   /\ Time(batches[i], j) <= batches[i].reqs[j].at
                   /\ batches[i].start <= Time(batches[i], j)
             /\ \A j \in DOMAIN Cleaned[i].reqs :
                   /\ ~ AheadAt(Cleaned[i], j) /\ Time(Cleaned[i], j) \in Int
  <2>1. /\ batches[i] \in Batch /\ Cleaned[i] \in Batch /\ i \in Int
        /\ i \notin Kept <=> Fresh(batches[i]) = {}
        /\ batches[i].start # newStart /\ GoodFor(batches[i], now, tick)
    BY <1>1, Sizes, CleanedBatches DEF IndInv, GoodBatches
  <2>2. tick + Sec \in Nat /\ tick + Sec <= tick + Sec
    BY <1>1
  <2>3. GoodFor(Cleaned[i], now, tick + Sec)
    BY <2>2, GoodCleaned
  <2>4. \A j \in DOMAIN batches[i].reqs :
           /\ ~ AheadAt(batches[i], j)
           /\ Time(batches[i], j) \in Int /\ batches[i].reqs[j].at \in Int
           /\ Time(batches[i], j) <= batches[i].reqs[j].at
           /\ batches[i].start <= Time(batches[i], j)
    <3> TAKE j \in DOMAIN batches[i].reqs
    <3>1. ~ AheadAt(batches[i], j)
      BY NotAhead
    <3>2. Time(batches[i], j) \in Int /\ batches[i].reqs[j].at \in Int
          /\ batches[i].start <= Time(batches[i], j)
      BY <2>1, BatchFields
    <3> QED
      BY <3>1, <3>2 DEF AheadAt
  <2>5. \A j \in DOMAIN Cleaned[i].reqs :
           /\ ~ AheadAt(Cleaned[i], j) /\ Time(Cleaned[i], j) \in Int
    BY <2>1, BatchFields, CleanedInTime DEF Cleans
  <2>6. Cleaned[i].start \in Int /\ batches[i].start \in Int
    BY <2>1, BatchFields
  <2> QED
    BY <2>1, <2>3, <2>4, <2>5, <2>6
<1>3. ASSUME NEW i \in DOMAIN batches, NEW j \in DOMAIN Cleaned[i].reqs,
             NEW l \in DOMAIN Cleaned[i].reqs, j < l
      PROVE  Time(Cleaned[i], j) <= Time(Cleaned[i], l)
  BY <1>2, <1>3, InsideOrder
<1>4. ASSUME NEW i \in DOMAIN batches, NEW m \in DOMAIN batches, i < m
      PROVE  /\ Cleaned[i].start <= Cleaned[m].start
             /\ \A j \in DOMAIN Cleaned[i].reqs : Time(Cleaned[i], j) <= Cleaned[m].start
  <2>1. CASE \E l \in Kept : l < i
    <3>1. \E l \in Kept : l < m
      <4>1. PICK l \in Kept : l < i
        BY <2>1
      <4>2. l \in Int /\ i \in Int /\ m \in Int
        BY <1>2, <4>1 DEF Kept
      <4> QED
        BY <1>4, <4>1, <4>2
    <3>2. Cleaned[i] = batches[i] /\ Cleaned[m] = batches[m]
      BY <2>1, <3>1, CleanedBatches
    <3> QED
      BY <1>4, <3>2 DEF InOrder
  <2>2. CASE ~ (\E l \in Kept : l < i) /\ i \in Kept
    <3>1. /\ Cleaned[m] = batches[m] /\ Cleaned[i] = Rebased(batches[i])
          /\ Fresh(batches[i]) # {}
      BY <1>4, <2>2, CleanedBatches
    <3>2. Cleaned[i].start = newStart
      BY <1>1, <1>2, <3>1, Rebasing
    <3>3. newStart < batches[m].start
      BY <1>4, <2>2, LaterStart
    <3>4. ASSUME NEW j \in DOMAIN Cleaned[i].reqs
          PROVE  Time(Cleaned[i], j) <= Cleaned[m].start
      <4>1. PICK d : Cleans(batches[i], Cleaned[i], d)
        BY CleanedInTime
      <4>2. PICK p \in DOMAIN batches[i].reqs : Time(Cleaned[i], j) <= Time(batches[i], p)
        BY <4>1 DEF Cleans
      <4>3. Time(batches[i], p) <= batches[m].start
        BY <1>4 DEF InOrder
      <4>4. /\ Time(Cleaned[i], j) \in Int /\ Time(batches[i], p) \in Int
            /\ batches[m].start \in Int
        BY <1>2
      <4> QED
        BY <3>1, <4>2, <4>3, <4>4
    <3> QED
      BY <1>1, <1>2, <3>1, <3>2, <3>3, <3>4
  <2>3. CASE ~ (\E l \in Kept : l < i) /\ i \notin Kept
    <3>1. Cleaned[i] = [start |-> newStart, reqs |-> <<>>]
      BY <2>3, CleanedBatches
    <3>2. Cleaned[i].start = newStart /\ DOMAIN Cleaned[i].reqs = {}
      BY <3>1, EmptySeq
    <3>3. newStart <= Cleaned[m].start
      <4>1. CASE \E l \in Kept : l < m
        <5>1. PICK l \in Kept : l < m
          BY <4>1
        <5>2. Cleaned[m] = batches[m] /\ newStart < batches[m].start
          BY <4>1, <5>1, CleanedBatches, LaterStart
        <5> QED
          BY <1>1, <1>2, <5>2
      <4>2. CASE ~ (\E l \in Kept : l < m)
        <5>1. Cleaned[m] = IF m \in Kept THEN Rebased(batches[m])
                           ELSE [start |-> newStart, reqs |-> <<>>]
          BY <4>2, CleanedBatches
        <5>2. m \in Kept => Rebased(batches[m]).start = newStart
          BY <1>1, <1>2, Rebasing
        <5>3. Cleaned[m].start = newStart
          BY <5>1, <5>2
        <5> QED
          BY <1>1, <5>3
      <4> QED
        BY <4>1, <4>2
    <3> QED
      BY <3>2, <3>3
  <2> QED
    BY <2>1, <2>2, <2>3
<1>5. ASSUME NEW i \in DOMAIN batches, NEW j \in DOMAIN Cleaned[i].reqs
      PROVE  Cleaned[i].reqs[j].at > newStart
  <2>1. CASE \E l \in Kept : l < i
    <3>1. PICK l \in Kept : l < i
      BY <2>1
    <3>2. Cleaned[i] = batches[i] /\ newStart < batches[i].start
      BY <2>1, <3>1, CleanedBatches, LaterStart
    <3>3. batches[i].start <= Time(batches[i], j) /\ Time(batches[i], j) <= batches[i].reqs[j].at
          /\ Time(batches[i], j) \in Int /\ batches[i].reqs[j].at \in Int
          /\ batches[i].start \in Int
      BY <1>2, <3>2
    <3> QED
      BY <1>1, <3>2, <3>3
  <2>2. CASE ~ (\E l \in Kept : l < i) /\ i \in Kept
    <3>1. Cleaned[i] = Rebased(batches[i]) /\ Fresh(batches[i]) # {}
      BY <2>2, CleanedBatches
    <3>2. \A q \in DOMAIN batches[i].reqs : ~ AheadAt(batches[i], q)
      BY <1>2
    <3>3. \E d : \A q \in DOMAIN Rebased(batches[i]).reqs :
             /\ q + d \in DOMAIN batches[i].reqs
             /\ Rebased(batches[i]).reqs[q].at = batches[i].reqs[q + d].at
             /\ batches[i].reqs[q + d].at > newStart
      BY <1>1, <1>2, <3>1, <3>2, RebasedInTime, Zenon
    <3> QED
      BY <3>1, <3>3
  <2>3. CASE ~ (\E l \in Kept : l < i) /\ i \notin Kept
    <3>1. Cleaned[i] = [start |-> newStart, reqs |-> <<>>]
      BY <2>3, CleanedBatches
    <3>2. DOMAIN Cleaned[i].reqs = {}
      BY <3>1, EmptySeq
    <3> QED
      BY <3>2
  <2> QED
    BY <2>1, <2>2, <2>3
<1> QED
  BY <1>1, <1>3, <1>4, <1>5 DEF InOrder
-------------------------------------------------------------------------------
LEMMA CleansInTime ==
    ASSUME IndInv, CleanCounters
    PROVE  newStart \notin Starts(batches) /\ tick <= now /\ count = Total(batches)
<1>1. summed = Len(batches) /\ batches \in Seq(Batch) /\ Len(batches) \in Nat
  BY LenProperties DEF CleanCounters, IndInv, TypeOK
<1>2. summed # -1
  BY <1>1
<1> QED
  BY <1>1, <1>2, LastSum DEF IndInv, CleaningInv

(* What a step does to the batches.                                        *)
LEMMA Moves ==
    ASSUME IndInv, [Next]_vars
    PROVE  \/ batches' = batches
           \/ CleanCounters /\ batches' = Cleaned /\ newStart \notin Starts(batches) /\ tick <= now
           \/ AddCounter /\ queue # <<>> /\ batches' \in Counting(Head(queue))
           \/ Restart /\ crashes' = crashes + 1
<1>1. CASE UNCHANGED vars
  BY <1>1 DEF vars, record
<1>2. CASE Inc \/ Elapse
  BY <1>2 DEF Inc, Elapse, record
<1>3. CASE CleanCounters
  BY <1>3, CleansInTime DEF CleanCounters
<1>6. CASE Recounts \/ Sets
  BY <1>6, Counts
<1>4. CASE AddCounter
  BY <1>4 DEF AddCounter
<1>5. CASE Restart
  BY <1>5 DEF Restart
<1> QED
  BY <1>1, <1>2, <1>3, <1>4, <1>5, <1>6 DEF Next, Recounts, Sets

LEMMA AheadStep ==
    IndInv /\ [Next]_vars =>
        (Ahead(batches') /\ ~ Ahead(batches) => LateInc \/ crashes' # crashes)
<1> SUFFICES ASSUME IndInv, [Next]_vars, Ahead(batches'), ~ Ahead(batches),
                    ~ LateInc, crashes' = crashes
             PROVE  FALSE
  OBVIOUS
<1>1. CASE CleanCounters /\ batches' = Cleaned /\ newStart \notin Starts(batches) /\ tick <= now
  <2>1. PICK i \in DOMAIN Cleaned : \E j \in DOMAIN Cleaned[i].reqs :
           Time(Cleaned[i], j) > Cleaned[i].reqs[j].at
    BY <1>1 DEF Ahead
  <2>2. i \in DOMAIN batches
    BY <1>1, CleanedBatches
  <2>3. \E d : Cleans(batches[i], Cleaned[i], d)
    BY <1>1, <2>2, CleanedInTime
  <2> QED
    BY <2>1, <2>3 DEF Cleans, AheadAt
<1>2. CASE AddCounter /\ queue # <<>> /\ batches' \in Counting(Head(queue))
  BY <1>2, AddedInTime
<1>3. CASE Restart /\ crashes' = crashes + 1
  <2>1. crashes \in Nat
    BY DEF IndInv, TypeOK
  <2> QED
    BY <1>3, <2>1
<1> QED
  BY <1>1, <1>2, <1>3, Moves

(* No request starts to count at a later time than it was made at, but one *)
(* that has waited in the channel until the batch it is counted in starts  *)
(* after it, or at a restart.                                              *)
THEOREM AheadNeedsLate == Spec => AheadNeedsLateInc
BY IndInvHolds, AheadStep, PTL DEF Spec, AheadNeedsLateInc

LEMMA FreshStep ==
    IndInv /\ [Next]_vars =>
        (CleanCounters /\ InOrder(batches) /\ ~ Ahead(batches)
         => \A i \in DOMAIN batches' : \A j \in DOMAIN batches'[i].reqs :
               batches'[i].reqs[j].at > newStart)
<1> SUFFICES ASSUME IndInv, CleanCounters, InOrder(batches), ~ Ahead(batches)
             PROVE  \A i \in DOMAIN batches' : \A j \in DOMAIN batches'[i].reqs :
                       batches'[i].reqs[j].at > newStart
  OBVIOUS
<1>1. newStart \notin Starts(batches) /\ tick <= now /\ batches' = Cleaned
  BY CleansInTime DEF CleanCounters
<1> QED
  BY <1>1, CleanedOrder

(* A cleaning of a record in order, none of whose requests counts late,    *)
(* leaves no request that is older than the window.                        *)
THEOREM OnlyFreshAfterClean == Spec => FreshAfterClean
BY IndInvHolds, FreshStep, PTL DEF Spec, FreshAfterClean

LEMMA KeepStep ==
    IndInv /\ [Next]_vars =>
       (CleanCounters /\ ~ Ahead(batches)
       => /\ DOMAIN batches' = DOMAIN batches
          /\ \A i \in DOMAIN batches :
                LET d == Len(batches[i].reqs) - Len(batches'[i].reqs)
                IN  /\ \A j \in 1 .. d : Time(batches[i], j) <= newStart
                    /\ \A j \in DOMAIN batches'[i].reqs :
                          /\ j + d \in DOMAIN batches[i].reqs
                          /\ batches'[i].reqs[j].at = batches[i].reqs[j + d].at
                          /\ Time(batches'[i], j) <= Time(batches[i], j + d)
                          /\ Time(batches'[i], j) > Time(batches[i], j + d) - Sec
                    /\ batches'[i].reqs # <<>> =>
                          \A l \in DOMAIN batches : i < l =>
                             Len(batches'[l].reqs) = Len(batches[l].reqs))
<1> SUFFICES ASSUME IndInv, CleanCounters, ~ Ahead(batches)
             PROVE  /\ DOMAIN batches' = DOMAIN batches
                    /\ \A i \in DOMAIN batches :
                          LET d == Len(batches[i].reqs) - Len(batches'[i].reqs)
                          IN  /\ \A j \in 1 .. d : Time(batches[i], j) <= newStart
                              /\ \A j \in DOMAIN batches'[i].reqs :
                                    /\ j + d \in DOMAIN batches[i].reqs
                                    /\ batches'[i].reqs[j].at = batches[i].reqs[j + d].at
                                    /\ Time(batches'[i], j) <= Time(batches[i], j + d)
                                    /\ Time(batches'[i], j) > Time(batches[i], j + d) - Sec
                              /\ batches'[i].reqs # <<>> =>
                                    \A l \in DOMAIN batches : i < l =>
                                       Len(batches'[l].reqs) = Len(batches[l].reqs)
  OBVIOUS
<1>1. newStart \notin Starts(batches) /\ tick <= now /\ batches' = Cleaned
  BY CleansInTime DEF CleanCounters
<1>2. DOMAIN batches' = DOMAIN batches
  BY <1>1, CleanedBatches
<1>3. ASSUME NEW i \in DOMAIN batches,
             NEW d, d = Len(batches[i].reqs) - Len(batches'[i].reqs)
      PROVE  /\ \A j \in 1 .. d : Time(batches[i], j) <= newStart
             /\ \A j \in DOMAIN batches'[i].reqs :
                   /\ j + d \in DOMAIN batches[i].reqs
                   /\ batches'[i].reqs[j].at = batches[i].reqs[j + d].at
                   /\ Time(batches'[i], j) <= Time(batches[i], j + d)
                   /\ Time(batches'[i], j) > Time(batches[i], j + d) - Sec
             /\ batches'[i].reqs # <<>> =>
                   \A l \in DOMAIN batches : i < l =>
                      Len(batches'[l].reqs) = Len(batches[l].reqs)
  <2>1. PICK e \in 0 .. Len(batches[i].reqs) : Cleans(batches[i], batches'[i], e)
    BY <1>1, CleanedInTime
  <2>2. Len(batches[i].reqs) \in Nat
    <3>1. batches \in Seq(Batch)
      BY DEF IndInv, TypeOK
    <3> QED
      BY <3>1, Sizes, BatchFields
  <2>3. d = e
    BY <1>3, <2>1, <2>2 DEF Cleans
  <2>4. batches'[i].reqs # <<>> => \A l \in DOMAIN batches : i < l => batches'[l] = batches[l]
    BY <1>1, CleanedInTime
  <2> QED
    BY <2>1, <2>3, <2>4 DEF Cleans
<1> QED
  BY <1>2, <1>3

(* A cleaning drops from the front only what the window has passed, keeps  *)
(* the rest in its order, and makes each request less than a second older. *)
THEOREM RestIsKept == Spec => CleanKeepsTheRest
BY IndInvHolds, KeepStep, PTL DEF Spec, CleanKeepsTheRest

(* A request that has not come late is later than what is in the record.   *)
LEMMA AddedOrder ==
    ASSUME IndInv, queue # <<>>, NEW bs \in Counting(Head(queue)),
           ~ Ahead(batches), ~ LateInc, InOrder(batches)
    PROVE  InOrder(bs)
<1> DEFINE t == Head(queue)
           n == Len(bs)
<1>1. /\ bs \in Seq(Batch) /\ bs # <<>> /\ TypeOK /\ batches \in Seq(Batch)
      /\ \A i \in DOMAIN bs : GoodFor(bs[i], now, tick)
      /\ Began(bs, t) \/ Grew(bs, t)
      /\ \A i \in DOMAIN bs : i # n => i \in DOMAIN batches /\ bs[i] = batches[i]
  BY AddedBatches DEF IndInv, TypeOK
<1>2. /\ ~ Ahead(bs)
      /\ Began(bs, t) => bs[n].start = t
      /\ Grew(bs, t) => /\ n = Len(batches) /\ n \in DOMAIN batches
                        /\ bs[n].start = batches[n].start
  BY AddedInTime
<1>3. t \in 0 .. End /\ \A i \in DOMAIN batches : \A j \in DOMAIN batches[i].reqs :
                           batches[i].reqs[j].at <= t
  BY <1>1, HeadOfQueue DEF IndInv
<1>4. ASSUME NEW i \in DOMAIN bs, NEW j \in DOMAIN bs[i].reqs, NEW l \in DOMAIN bs[i].reqs, j < l
      PROVE  Time(bs[i], j) <= Time(bs[i], l)
  <2>1. bs[i] \in Batch /\ GoodFor(bs[i], now, tick) /\ ~ AheadAt(bs[i], j)
    BY <1>1, <1>2, Sizes, NotAhead
  <2> QED
    BY <1>4, <2>1, InsideOrder
<1>5. ASSUME NEW i \in DOMAIN bs, NEW m \in DOMAIN bs, i < m
      PROVE  /\ bs[i].start <= bs[m].start
             /\ \A j \in DOMAIN bs[i].reqs : Time(bs[i], j) <= bs[m].start
  <2>1. i # n /\ i \in Int /\ m \in Int /\ n \in Nat /\ m <= n
    BY <1>1, <1>5, Sizes
  <2>2. i \in DOMAIN batches /\ bs[i] = batches[i]
    BY <1>1, <2>1
  <2>3. CASE m # n
    BY <1>1, <1>5, <2>2, <2>3 DEF InOrder
  <2>4. CASE m = n /\ Grew(bs, t)
    BY <1>2, <1>5, <2>2, <2>4 DEF InOrder
  <2>5. CASE m = n /\ Began(bs, t)
    <3> DEFINE o == batches[Len(batches)]
    <3>1. /\ batches # <<>> /\ Len(batches) \in DOMAIN batches /\ Len(batches) \in Int
          /\ i <= Len(batches)
      BY <1>1, <2>2, Sizes
    <3>2. /\ o.start \in Int /\ batches[i].start \in Int /\ batches[i] \in Batch
      BY <1>1, <2>2, <3>1, Sizes, BatchFields
    <3>3. o.start <= t
      <4>1. ~ (t < o.start)
        BY <3>1 DEF LateInc
      <4> QED
        BY <1>3, <3>2, <4>1
    <3>4. batches[i].start <= o.start
      <4>1. CASE i = Len(batches)
        BY <3>2, <4>1
      <4>2. CASE i < Len(batches)
        BY <2>2, <3>1, <4>2 DEF InOrder
      <4> QED
        BY <2>1, <3>1, <4>1, <4>2
    <3>5. batches[i].start <= t
      BY <1>3, <3>2, <3>3, <3>4
    <3>6. ASSUME NEW j \in DOMAIN batches[i].reqs PROVE Time(batches[i], j) <= t
      <4>1. ~ AheadAt(batches[i], j)
        BY <2>2, NotAhead
      <4>2. Time(batches[i], j) \in Int /\ batches[i].reqs[j].at \in Int
        BY <3>2, BatchFields
      <4>3. batches[i].reqs[j].at <= t
        BY <1>3, <2>2
      <4> QED
        BY <1>3, <4>1, <4>2, <4>3 DEF AheadAt
    <3> QED
      BY <1>2, <2>2, <2>5, <3>5, <3>6
  <2> QED
    BY <1>1, <2>3, <2>4, <2>5
<1> QED
  BY <1>4, <1>5 DEF InOrder

LEMMA OrderStep ==
    IndInv /\ [Next]_vars =>
        (InOrder(batches) /\ ~ InOrder(batches')
         => \/ LateInc \/ Ahead(batches)
            \/ /\ crashes' # crashes
               /\ Ahead(batches') \/ \E s, u \in DOMAIN saved : s # u)
<1> SUFFICES ASSUME IndInv, [Next]_vars, InOrder(batches), ~ InOrder(batches'),
                    ~ LateInc, ~ Ahead(batches)
             PROVE  /\ crashes' # crashes
                    /\ Ahead(batches') \/ \E s, u \in DOMAIN saved : s # u
  OBVIOUS
<1>1. CASE CleanCounters /\ batches' = Cleaned /\ newStart \notin Starts(batches) /\ tick <= now
  BY <1>1, CleanedOrder
<1>2. CASE AddCounter /\ queue # <<>> /\ batches' \in Counting(Head(queue))
  BY <1>2, AddedOrder
<1>3. CASE Restart /\ crashes' = crashes + 1
  <2>1. crashes \in Nat /\ TypeOK
    BY DEF IndInv, TypeOK
  <2>2. ASSUME ~ Ahead(batches'), \A s, u \in DOMAIN saved : s = u
        PROVE  InOrder(batches')
    <3>1. IndInv'
      BY IndInvStep
    <3>2. batches' \in Seq(Batch) /\ \A i \in DOMAIN batches' : GoodFor(batches'[i], now', tick')
      BY <3>1 DEF IndInv, TypeOK, GoodBatches
    <3>3. ASSUME NEW i \in DOMAIN batches', NEW m \in DOMAIN batches', i < m
          PROVE  FALSE
      <4>1. PICK keys \in [1 .. Cardinality(DOMAIN saved) -> DOMAIN saved] :
               /\ \A q, l \in DOMAIN keys : q < l => Before(keys[q], keys[l])
               /\ batches' = [q \in DOMAIN keys |-> saved[keys[q]]]
        BY <1>3 DEF Restart
      <4>2. i \in DOMAIN keys /\ m \in DOMAIN keys
        BY <4>1
      <4>3. keys[i] \in DOMAIN saved /\ keys[m] \in DOMAIN saved /\ Before(keys[i], keys[m])
        BY <3>3, <4>1, <4>2
      <4>4. PICK s \in Nat : s = keys[i] /\ s = keys[m]
        BY <2>1, <2>2, <4>3, FiniteSaved
      <4>5. Before(s, s)
        BY <4>3, <4>4
      <4>6. s % Byte \in Int /\ s \div Byte \in Int
        BY WindowAssumption
      <4> QED
        BY <4>5, <4>6 DEF Before
    <3>4. ASSUME NEW i \in DOMAIN batches', NEW j \in DOMAIN batches'[i].reqs,
                 NEW l \in DOMAIN batches'[i].reqs, j < l
          PROVE  Time(batches'[i], j) <= Time(batches'[i], l)
      <4>1. batches'[i] \in Batch /\ GoodFor(batches'[i], now', tick')
        BY <3>2, Sizes
      <4>2. ~ AheadAt(batches'[i], j)
        BY <2>2, NotAhead
      <4> QED
        BY <3>4, <4>1, <4>2, InsideOrder
    <3> QED
      BY <3>3, <3>4 DEF InOrder
  <2> QED
    BY <1>3, <2>1, <2>2
<1> QED
  BY <1>1, <1>2, <1>3, Moves

(* The batches are in the order of time until a restart reads at least two *)
(* of them, or one that counts late, or a request comes late.              *)
THEOREM OrderedUntilRestart == Spec => DisorderNeedsRestart
BY IndInvHolds, OrderStep, PTL DEF Spec, DisorderNeedsRestart
-------------------------------------------------------------------------------
(* The count.  A commit that does not fail saves it with the batches.      *)
LEMMA MorePlaces ==
    ASSUME NEW bs \in Seq(Batch), NEW p, Places(bs) \subseteq Places(batches) \cup {p}, TypeOK
    PROVE  Total(bs) <= Total(batches) + 1
<1>1. IsFiniteSet(Places(batches)) /\ Total(batches) \in Nat
  BY FinitePlaces DEF TypeOK
<1>2. /\ IsFiniteSet(Places(batches) \cup {p})
      /\ Cardinality(Places(batches) \cup {p}) <= Total(batches) + 1
      /\ Cardinality(Places(batches) \cup {p}) \in Nat
  <2>1. /\ IsFiniteSet(Places(batches) \cup {p})
        /\ Cardinality(Places(batches) \cup {p}) =
              IF p \in Places(batches) THEN Cardinality(Places(batches))
              ELSE Cardinality(Places(batches)) + 1
    BY <1>1, FS_AddElement
  <2>2. Cardinality(Places(batches)) = Total(batches)
    BY DEF Total
  <2> QED
    BY <1>1, <2>1, <2>2
<1>3. IsFiniteSet(Places(bs)) /\ Total(bs) <= Cardinality(Places(batches) \cup {p})
  BY <1>2, FS_Subset DEF Total
<1>4. Total(bs) \in Nat
  BY <1>3, FS_CardinalityType DEF Total
<1> QED
  BY <1>1, <1>2, <1>3, <1>4

LEMMA FewerPlaces ==
    ASSUME TypeOK, NEW bs \in Seq(Batch), DOMAIN bs = DOMAIN batches,
           \A i \in DOMAIN batches : Len(bs[i].reqs) <= Len(batches[i].reqs)
    PROVE  Total(bs) <= Total(batches)
<1>1. IsFiniteSet(Places(batches))
  BY FinitePlaces DEF TypeOK
<1>2. Places(bs) \subseteq Places(batches)
  <2> SUFFICES ASSUME NEW p \in Places(bs) PROVE p \in Places(batches)
    OBVIOUS
  <2>1. PICK i \in DOMAIN bs : \E j \in DOMAIN bs[i].reqs : p = <<i, j>>
    BY InPlaces
  <2>2. PICK j \in DOMAIN bs[i].reqs : p = <<i, j>>
    BY <2>1
  <2>3. bs[i] \in Batch /\ batches[i] \in Batch /\ i \in DOMAIN batches
    BY Sizes DEF TypeOK
  <2>4. /\ j \in 1 .. Len(bs[i].reqs) /\ Len(bs[i].reqs) \in Nat
        /\ Len(batches[i].reqs) \in Nat /\ DOMAIN batches[i].reqs = 1 .. Len(batches[i].reqs)
        /\ Len(bs[i].reqs) <= Len(batches[i].reqs)
    BY <2>3, BatchFields
  <2>5. j \in DOMAIN batches[i].reqs
    BY <2>4
  <2> QED
    BY <2>2, <2>3, <2>5, PlaceIn
<1> QED
  BY <1>1, <1>2, FS_Subset DEF Total

LEMMA AddedPlaces ==
    ASSUME IndInv, queue # <<>>, NEW t, t = Head(queue), NEW bs \in Counting(t)
    PROVE  Total(bs) <= Total(batches) + 1
<1>1. /\ bs \in Seq(Batch) /\ bs # <<>> /\ TypeOK /\ batches \in Seq(Batch)
      /\ Began(bs, t) \/ Grew(bs, t)
      /\ \A i \in DOMAIN bs : i # Len(bs) => i \in DOMAIN batches /\ bs[i] = batches[i]
  BY AddedBatches DEF IndInv, TypeOK
<1>2. PICK q : \A j \in DOMAIN bs[Len(bs)].reqs :
         \/ j = q
         \/ Len(bs) \in DOMAIN batches /\ j \in DOMAIN batches[Len(bs)].reqs
  <2>1. CASE Began(bs, t)
    <3>1. bs[Len(bs)] = [start |-> t, reqs |-> <<[k |-> 0, at |-> t]>>]
      BY <2>1 DEF Began
    <3>2. \A j \in DOMAIN bs[Len(bs)].reqs : j = 1
      BY <3>1
    <3> QED
      BY <3>2
  <2>2. CASE Grew(bs, t)
    <3> DEFINE o == batches[Len(bs)]
    <3>1. Len(bs) \in DOMAIN batches
      BY <1>1, <2>2, Sizes DEF Grew
    <3>2. PICK k : bs[Len(bs)] = Appended(o, k, t)
      BY <2>2 DEF Grew
    <3>3. o.reqs \in Seq(Req) /\ DOMAIN o.reqs = 1 .. Len(o.reqs) /\ Len(o.reqs) \in Nat
      BY <1>1, <3>1, Sizes, BatchFields
    <3>4. bs[Len(bs)].reqs = Append(o.reqs, [k |-> k, at |-> t])
      BY <3>2 DEF Appended
    <3> HIDE DEF o
    <3>5. DOMAIN bs[Len(bs)].reqs = 1 .. Len(o.reqs) + 1
      BY <3>3, <3>4
    <3>6. \A j \in DOMAIN bs[Len(bs)].reqs : j = Len(o.reqs) + 1 \/ j \in DOMAIN o.reqs
      BY <3>3, <3>5
    <3> QED
      BY <3>1, <3>6 DEF o
  <2> QED
    BY <1>1, <2>1, <2>2
<1>3. Places(bs) \subseteq Places(batches) \cup {<<Len(bs), q>>}
  <2> SUFFICES ASSUME NEW p \in Places(bs), p # <<Len(bs), q>> PROVE p \in Places(batches)
    OBVIOUS
  <2>1. PICK i \in DOMAIN bs : \E j \in DOMAIN bs[i].reqs : p = <<i, j>>
    BY InPlaces
  <2>2. PICK j \in DOMAIN bs[i].reqs : p = <<i, j>>
    BY <2>1
  <2>3. i \in DOMAIN batches /\ j \in DOMAIN batches[i].reqs
    BY <1>1, <1>2, <2>2
  <2> QED
    BY <2>2, <2>3, PlaceIn
<1> QED
  BY <1>1, <1>3, MorePlaces

(* A restart reads each batch of the database once.                        *)
LEMMA Reading ==
    ASSUME TypeOK, NEW keys \in [1 .. Cardinality(DOMAIN saved) -> DOMAIN saved],
           \A i, j \in DOMAIN keys : i < j => Before(keys[i], keys[j])
    PROVE  /\ DOMAIN keys = 1 .. Cardinality(DOMAIN saved)
           /\ \A i, j \in DOMAIN keys : keys[i] = keys[j] => i = j
           /\ \A s \in DOMAIN saved : \E i \in DOMAIN keys : keys[i] = s
<1>1. PICK n \in Nat : n = Cardinality(DOMAIN saved)
  BY FiniteSaved
<1>2. keys \in [1 .. n -> DOMAIN saved] /\ DOMAIN keys = 1 .. n
  BY <1>1
<1>3. ASSUME NEW i \in 1 .. n, NEW j \in 1 .. n, keys[i] = keys[j], i < j
      PROVE  FALSE
  <2>1. PICK s \in Nat : s = keys[i] /\ s = keys[j]
    BY <1>2, <1>3, FiniteSaved
  <2>2. Before(s, s)
    BY <1>2, <1>3, <2>1
  <2>3. s % Byte \in Int /\ s \div Byte \in Int
    BY WindowAssumption
  <2> QED
    BY <2>2, <2>3 DEF Before
<1>4. ASSUME NEW i \in 1 .. n, NEW j \in 1 .. n, keys[i] = keys[j]
      PROVE  i = j
  <2>1. i < j \/ j < i \/ i = j
    OBVIOUS
  <2> QED
    BY <1>3, <1>4, <2>1
<1>5. keys \in Injection(1 .. n, DOMAIN saved)
  BY <1>2, <1>4 DEF Injection, IsInjective
<1>6. /\ IsFiniteSet(DOMAIN saved) /\ Cardinality(1 .. n) = n
  <2>1. n \in Int /\ 1 \in Int
    OBVIOUS
  <2>2. Cardinality(1 .. n) = IF 1 > n THEN 0 ELSE n - 1 + 1
    BY <2>1, FS_Interval
  <2> QED
    BY <2>1, <2>2, FiniteSaved
<1>7. keys \in Surjection(1 .. n, DOMAIN saved)
  BY <1>1, <1>5, <1>6, FS_Injection
<1> QED
  BY <1>1, <1>2, <1>4, <1>7 DEF Surjection

LEMMA CountInvInit == Init => CountInv
<1> SUFFICES ASSUME Init PROVE CountInv
  OBVIOUS
<1> QED
  BY DEF Init, CountInv

LEMMA AddCounts ==
    ASSUME IndInv, CountInv, AddCounter
    PROVE  CountInv' /\ (fails' = 0 /\ Covered => Covered')
<1> SUFFICES ASSUME fails' = 0
             PROVE  /\ Covered => Covered'
                    /\ \A s \in DOMAIN saved' : LastOf(batches', saved'[s])
  BY DEF CountInv
<1> DEFINE t == Head(queue)
           n == Len(batches')
           b == batches'[n]
<1>1. TypeOK /\ fails \in Nat /\ count \in Nat /\ batches \in Seq(Batch)
  BY DEF IndInv, TypeOK
<1>2. /\ queue # <<>> /\ batches' \in Counting(t) /\ count' = count + 1
      /\ \/ savedCount' = count' /\ saved' = Put(saved, b) /\ fails' = fails
         \/ fails' = fails + 1
  BY Zenon DEF AddCounter, Commit, CommitFails, Counted
<1>3. fails = 0 /\ savedCount' = count' /\ saved' = Put(saved, b)
  BY <1>1, <1>2
<1>4. \A s \in DOMAIN saved : LastOf(batches, saved[s])
  BY <1>3 DEF CountInv
<1>5. /\ batches' \in Seq(Batch) /\ batches' # <<>>
      /\ Began(batches', t) \/ Grew(batches', t)
      /\ \A i \in DOMAIN batches' : i # n => i \in DOMAIN batches /\ batches'[i] = batches[i]
      /\ DOMAIN batches \subseteq DOMAIN batches'
  BY <1>2, AddedBatches
<1>6. n \in DOMAIN batches' /\ b \in Batch /\ DOMAIN batches' = 1 .. n /\ n \in Nat
  BY <1>5, Sizes
<1>7. ASSUME Covered PROVE Covered'
  <2>1. Total(batches') <= Total(batches) + 1
    BY <1>2, AddedPlaces
  <2>2. Total(batches) \in Nat /\ Total(batches') \in Nat
    <3>1. Total(batches) \in Nat
      BY <1>1, FinitePlaces DEF TypeOK
    <3>2. \A i \in DOMAIN batches' : Len(batches'[i].reqs) <= BatchSize
      BY <1>2, AddedBatches DEF GoodFor
    <3>3. Total(batches') \in Nat
      BY <1>5, <3>2, FinitePlaces
    <3> QED
      BY <3>1, <3>3
  <2>3. Total(batches') <= count'
    BY <1>1, <1>2, <1>7, <2>1, <2>2 DEF Covered
  <2> QED
    BY <1>3, <2>3 DEF Covered
<1>8. ASSUME NEW s \in DOMAIN saved' PROVE LastOf(batches', saved'[s])
  <2>1. CASE s = Key(b)
    <3>1. saved'[s] = b
      BY <1>3, <2>1 DEF Put
    <3>2. \A m \in DOMAIN batches' : ~ (n < m)
      BY <1>6
    <3> QED
      BY <1>6, <3>1, <3>2 DEF LastOf
  <2>2. CASE s # Key(b)
    <3>1. s \in DOMAIN saved /\ saved'[s] = saved[s]
      BY <1>3, <1>8, <2>2 DEF Put
    <3>2. PICK i \in DOMAIN batches :
             /\ saved[s] = batches[i]
             /\ \A m \in DOMAIN batches : i < m => batches[m].start # batches[i].start
      BY <1>4, <3>1 DEF LastOf
    <3>3. Key(batches[i]) = s
      BY <1>1, <3>1, <3>2 DEF TypeOK
    <3>4. i \in DOMAIN batches' /\ i # n /\ batches'[i] = batches[i]
      <4>1. ASSUME i = n PROVE FALSE
        <5>1. CASE Began(batches', t)
          <6>1. Len(batches) \in Nat /\ i \in 1 .. Len(batches)
            BY <1>1, <3>2, Sizes
          <6> QED
            BY <4>1, <5>1, <6>1 DEF Began
        <5>2. CASE Grew(batches', t)
          <6>1. b.start = batches[n].start
            BY <5>2 DEF Grew, Appended
          <6> QED
            BY <2>2, <3>3, <4>1, <6>1 DEF Key
        <5> QED
          BY <1>5, <5>1, <5>2
      <4> QED
        BY <1>5, <3>2, <4>1
    <3>5. ASSUME NEW m \in DOMAIN batches', i < m PROVE batches'[m].start # batches'[i].start
      <4>1. CASE m = n
        BY <2>2, <3>3, <3>4, <4>1 DEF Key
      <4>2. CASE m # n
        BY <1>5, <3>2, <3>4, <3>5, <4>2
      <4> QED
        BY <4>1, <4>2
    <3> QED
      BY <3>1, <3>2, <3>4, <3>5 DEF LastOf
  <2> QED
    BY <2>1, <2>2
<1> QED
  BY <1>7, <1>8

LEMMA CleanCounts ==
    ASSUME IndInv, CountInv, CleanCounters
    PROVE  CountInv' /\ (fails' = 0 => Covered')
<1> SUFFICES ASSUME fails' = 0
             PROVE  /\ Covered'
                    /\ \A s \in DOMAIN saved' : LastOf(batches', saved'[s])
  BY DEF CountInv
<1>1. TypeOK /\ fails \in Nat /\ batches \in Seq(Batch)
  BY DEF IndInv, TypeOK
<1>2. /\ newStart \notin Starts(batches) /\ tick <= now /\ batches' = Cleaned
      /\ count' = Total(batches)
      /\ \/ savedCount' = count' /\ saved' = Replaced(batches, batches') /\ fails' = fails
         \/ fails' = fails + 1
  BY CleansInTime, Zenon DEF CleanCounters, Commit, CommitFails
<1>3. fails = 0 /\ savedCount' = count' /\ saved' = Replaced(batches, batches')
  BY <1>1, <1>2
<1>4. \A s \in DOMAIN saved : LastOf(batches, saved[s])
  BY <1>3 DEF CountInv
<1>5. /\ batches' \in Seq(Batch) /\ DOMAIN batches' = DOMAIN batches
      /\ \A i \in DOMAIN batches : batches[i].start # newStart /\ i \in Int
      /\ \A i \in DOMAIN batches : (\E l \in Kept : l < i) => batches'[i] = batches[i]
      /\ \A i \in DOMAIN batches :
            ~ (\E l \in Kept : l < i) =>
                  batches'[i] = IF i \in Kept THEN Rebased(batches[i])
                                ELSE [start |-> newStart, reqs |-> <<>>]
      /\ Kept \subseteq DOMAIN batches
  BY <1>1, <1>2, CleanedBatches, Sizes
<1>6. ASSUME NEW i \in DOMAIN batches, ~ (\E l \in Kept : l < i)
      PROVE  batches'[i].start = newStart /\ Len(batches'[i].reqs) <= Len(batches[i].reqs)
  <2>1. batches[i] \in Batch /\ Len(batches[i].reqs) \in Nat
    BY <1>1, Sizes, BatchFields
  <2>2. CASE i \in Kept
    <3>1. batches'[i] = Rebased(batches[i]) /\ Fresh(batches[i]) # {}
      BY <1>5, <1>6, <2>2 DEF Kept
    <3>2. GoodFor(batches[i], now, tick) /\ batches[i].start # newStart
      BY <1>5 DEF IndInv, GoodBatches
    <3>3. /\ Rebased(batches[i]).start = newStart
          /\ \E d \in 0 .. Len(batches[i].reqs) - 1 :
                Len(Rebased(batches[i]).reqs) = Len(batches[i].reqs) - d
      BY <1>1, <2>1, <3>1, <3>2, Rebasing, ZenonT(60)
    <3> QED
      BY <2>1, <3>1, <3>3
  <2>3. CASE i \notin Kept
    <3>1. batches'[i] = [start |-> newStart, reqs |-> <<>>]
      BY <1>5, <1>6, <2>3
    <3>2. Len(batches'[i].reqs) = 0
      BY <3>1, EmptySeq
    <3> QED
      BY <2>1, <3>1, <3>2
  <2> QED
    BY <2>2, <2>3
<1>7. Covered'
  <2>1. \A i \in DOMAIN batches : Len(batches'[i].reqs) <= Len(batches[i].reqs)
    <3> TAKE i \in DOMAIN batches
    <3>1. CASE \E l \in Kept : l < i
      <4>1. Len(batches[i].reqs) \in Nat
        BY <1>1, Sizes, BatchFields
      <4> QED
        BY <1>5, <3>1, <4>1
    <3> QED
      BY <1>6, <3>1
  <2>2. Total(batches') <= Total(batches)
    BY <1>1, <1>5, <2>1, FewerPlaces
  <2> QED
    BY <1>2, <1>3, <2>2 DEF Covered
<1>8. Rewritten(batches, batches', Dropped(batches, batches'), saved')
  <2>1. saved' = Written(batches, batches', Dropped(batches, batches'))
    BY <1>3 DEF Replaced
  <2> QED
    BY <1>1, <1>5, <2>1, WrittenBatches, Zenon
<1>9. ASSUME NEW s \in DOMAIN saved' PROVE LastOf(batches', saved'[s])
  <2>1. CASE \E i \in Inserted(batches, batches') :
                /\ saved'[s] = batches'[i]
                /\ \A l \in Inserted(batches, batches') : Key(batches'[l]) = s => l <= i
    <3>1. PICK i \in Inserted(batches, batches') :
                /\ saved'[s] = batches'[i]
                /\ \A l \in Inserted(batches, batches') : Key(batches'[l]) = s => l <= i
      BY <2>1
    <3>2. i \in DOMAIN batches' /\ i \in Int /\ Key(batches'[i]) = s
      BY <1>5, <1>8, <3>1 DEF Rewritten, Inserted
    <3>3. ASSUME NEW m \in DOMAIN batches', i < m, batches'[m].start = batches'[i].start
          PROVE  FALSE
      <4>1. m \in Int /\ i \in 1 .. m - 1
        BY <1>5, <3>2, <3>3, Sizes
      <4>2. m \in Inserted(batches, batches')
        BY <3>3, <4>1 DEF Inserted
      <4>3. Key(batches'[m]) = s
        BY <3>2, <3>3 DEF Key
      <4> QED
        BY <3>1, <3>2, <3>3, <4>1, <4>2, <4>3
    <3> QED
      BY <3>1, <3>2, <3>3 DEF LastOf
  <2>2. CASE s \in DOMAIN saved /\ saved'[s] = saved[s] /\ s \notin Dropped(batches, batches')
    <3>1. PICK i \in DOMAIN batches :
             /\ saved[s] = batches[i]
             /\ \A m \in DOMAIN batches : i < m => batches[m].start # batches[i].start
      BY <1>4, <2>2 DEF LastOf
    <3>2. s = batches[i].start \div Sec
      BY <1>1, <2>2, <3>1 DEF TypeOK, Key
    <3>3. batches[i].start \in Starts(batches')
      BY <2>2, <3>2 DEF Dropped, Starts
    <3>4. PICK m \in DOMAIN batches' : batches'[m].start = batches[i].start
      BY <3>3 DEF Starts
    <3>5. PICK l \in Kept : l < m
      BY <1>5, <1>6, <3>4
    <3>6. batches'[m] = batches[m] /\ m <= i
      <4>1. batches'[m] = batches[m]
        BY <1>5, <3>5
      <4> QED
        BY <1>5, <3>1, <3>4, <4>1
    <3>7. \A q \in DOMAIN batches : i <= q => batches'[q] = batches[q]
      <4> TAKE q \in DOMAIN batches
      <4> HAVE i <= q
      <4>1. l < q
        BY <1>5, <3>5, <3>6
      <4> QED
        BY <1>5, <4>1
    <3>8. batches'[i] = batches[i]
      BY <1>5, <3>7
    <3>9. \A q \in DOMAIN batches' : i < q => batches'[q].start # batches'[i].start
      BY <1>5, <3>1, <3>7, <3>8
    <3> QED
      BY <1>5, <2>2, <3>1, <3>8, <3>9 DEF LastOf
  <2> QED
    BY <1>8, <2>1, <2>2, Zenon DEF Rewritten
<1> QED
  BY <1>7, <1>9

LEMMA RestartCounts ==
    ASSUME IndInv, CountInv, Restart
    PROVE  CountInv' /\ (fails' = 0 /\ savedCount >= Total(batches) => Covered')
<1> SUFFICES ASSUME fails' = 0
             PROVE  /\ savedCount >= Total(batches) => Covered'
                    /\ \A s \in DOMAIN saved' : LastOf(batches', saved'[s])
  BY DEF CountInv
<1>1. TypeOK /\ batches \in Seq(Batch)
  BY DEF IndInv, TypeOK
<1>2. /\ fails = 0 /\ count' = savedCount /\ savedCount' = savedCount /\ saved' = saved
  BY Zenon DEF Restart, stored
<1>3. \A s \in DOMAIN saved : LastOf(batches, saved[s])
  BY <1>2 DEF CountInv
<1>4. PICK keys \in [1 .. Cardinality(DOMAIN saved) -> DOMAIN saved] :
         /\ \A i, j \in DOMAIN keys : i < j => Before(keys[i], keys[j])
         /\ batches' = [i \in DOMAIN keys |-> saved[keys[i]]]
  BY DEF Restart
<1>5. /\ \A i, j \in DOMAIN keys : keys[i] = keys[j] => i = j
      /\ \A s \in DOMAIN saved : \E i \in DOMAIN keys : keys[i] = s
  BY <1>1, <1>4, Reading, Zenon
<1>6. /\ DOMAIN batches' = DOMAIN keys
      /\ \A i \in DOMAIN keys :
            /\ keys[i] \in DOMAIN saved /\ batches'[i] = saved[keys[i]]
            /\ Key(batches'[i]) = keys[i]
  BY <1>1, <1>4 DEF TypeOK
<1>7. ASSUME NEW s \in DOMAIN saved PROVE LastOf(batches', saved[s])
  <2>1. PICK i \in DOMAIN keys : keys[i] = s
    BY <1>5
  <2>2. ASSUME NEW m \in DOMAIN batches', i < m, batches'[m].start = batches'[i].start
        PROVE  FALSE
    <3>1. keys[m] = keys[i]
      BY <1>6, <2>1, <2>2 DEF Key
    <3>2. m = i
      BY <1>5, <1>6, <2>1, <2>2, <3>1
    <3>3. i \in Int
      BY <1>4, <2>1
    <3> QED
      BY <2>2, <3>2, <3>3
  <2> QED
    BY <1>6, <2>1, <2>2 DEF LastOf
<1>8. Total(batches') <= Total(batches)
  <2> DEFINE from(i) == CHOOSE q \in DOMAIN batches : batches'[i] = batches[q]
             P == Places(batches')
             move == [p \in P |-> <<from(p[1]), p[2]>>]
  <2>1. ASSUME NEW i \in DOMAIN batches'
        PROVE  from(i) \in DOMAIN batches /\ batches'[i] = batches[from(i)]
    <3>1. \E q \in DOMAIN batches : batches'[i] = batches[q]
      BY <1>3, <1>6 DEF LastOf
    <3> QED
      BY <3>1
  <2>2. ASSUME NEW p \in P
        PROVE  /\ p[1] \in DOMAIN batches' /\ p[2] \in DOMAIN batches'[p[1]].reqs
               /\ p = <<p[1], p[2]>>
    <3>1. PICK i \in DOMAIN batches' : \E j \in DOMAIN batches'[i].reqs : p = <<i, j>>
      BY InPlaces
    <3> QED
      BY <3>1
  <2>3. ASSUME NEW p \in P PROVE move[p] \in Places(batches)
    <3>1. from(p[1]) \in DOMAIN batches /\ p[2] \in DOMAIN batches[from(p[1])].reqs
      BY <2>1, <2>2
    <3>2. <<from(p[1]), p[2]>> \in Places(batches)
      <4> HIDE DEF from
      <4> QED
        BY <3>1, PlaceIn
    <3> QED
      BY <3>2
  <2>4. ASSUME NEW p \in P, NEW q \in P, move[p] = move[q] PROVE p = q
    <3>1. from(p[1]) = from(q[1]) /\ p[2] = q[2]
      <4> HIDE DEF from, P
      <4>1. <<from(p[1]), p[2]>> = <<from(q[1]), q[2]>>
        BY <2>4
      <4> QED
        BY <4>1
    <3>2. batches'[p[1]] = batches'[q[1]]
      <4> HIDE DEF from
      <4> QED
        BY <2>1, <2>2, <3>1
    <3>3. p[1] = q[1]
      BY <1>5, <1>6, <2>2, <3>2
    <3> QED
      BY <2>2, <3>1, <3>3
  <2>5. move \in Injection(P, Places(batches))
    <3>1. move \in [P -> Places(batches)]
      <4>1. \A p \in P : move[p] \in Places(batches)
        BY <2>3
      <4>2. move = [p \in P |-> move[p]]
        OBVIOUS
      <4> HIDE DEF move, P
      <4> QED
        BY <4>1, <4>2
    <3>2. \A p, q \in P : move[p] = move[q] => p = q
      BY <2>4
    <3> HIDE DEF move, P
    <3> QED
      BY <3>1, <3>2 DEF Injection, IsInjective
  <2>6. IsFiniteSet(Places(batches))
    BY <1>1, FinitePlaces DEF TypeOK
  <2> HIDE DEF move
  <2> QED
    BY <2>5, <2>6, FS_Injection DEF Total
<1>9. ASSUME savedCount >= Total(batches) PROVE Covered'
  <2>1. Total(batches) \in Nat /\ savedCount \in Nat
    BY <1>1, FinitePlaces DEF TypeOK
  <2>2. TypeOK'
    BY RestartKeeps DEF IndInv
  <2>3. Total(batches') \in Nat
    BY <2>2, FinitePlaces DEF TypeOK
  <2> QED
    BY <1>2, <1>8, <1>9, <2>1, <2>3 DEF Covered
<1> QED
  BY <1>2, <1>7, <1>9

LEMMA OtherCounts ==
    ASSUME IndInv, CountInv, Inc \/ Elapse \/ Recounts \/ Sets \/ UNCHANGED vars
    PROVE  /\ CountInv'
           /\ ~ Recount /\ ~ SaveThreshold /\ Covered => Covered'
<1>1. batches' = batches /\ saved' = saved /\ fails' = fails
  BY Counts DEF Inc, Elapse, vars, record, stored, bounds
<1>2. CountInv'
  BY <1>1 DEF CountInv
<1>3. ASSUME ~ Recount, ~ SaveThreshold, Covered
      PROVE  Covered'
  <2>1. TypeOK /\ Total(batches) \in Nat /\ count \in Nat
    BY FinitePlaces DEF IndInv, TypeOK
  <2>2. CASE UNCHANGED <<count, savedCount>>
    BY <1>1, <1>3, <2>2 DEF Covered
  <2>3. CASE AddUp
    <3>1. /\ summed \in 0 .. Len(batches) - 1 /\ savedCount' = savedCount
          /\ count' = count + Len(batches[summed + 1].reqs)
      BY <2>3 DEF AddUp, stored
    <3>2. batches \in Seq(Batch) /\ summed + 1 \in DOMAIN batches
      BY <2>1, <3>1, Sizes DEF TypeOK
    <3>3. Len(batches[summed + 1].reqs) \in Nat
      BY <3>2, Sizes, BatchFields
    <3>4. count' >= Total(batches)
      BY <1>3, <2>1, <3>1, <3>3 DEF Covered
    <3> QED
      BY <1>1, <1>3, <3>1, <3>4 DEF Covered
  <2>4. CASE IncreaseThresholdTo
    <3>1. count' = count /\ savedCount' = count
      BY <2>4 DEF IncreaseThresholdTo, record
    <3> QED
      BY <1>1, <1>3, <3>1 DEF Covered
  <2>5. CASE \/ Inc \/ Elapse \/ SetThreshold \/ MarshalThreshold \/ UNCHANGED vars
    <3>1. UNCHANGED <<count, savedCount>>
      BY <2>5 DEF Inc, Elapse, SetThreshold, MarshalThreshold, vars, record, stored
    <3> QED
      BY <2>2, <3>1
  <2> QED
    BY <1>3, <2>3, <2>4, <2>5 DEF Recounts, Sets
<1> QED
  BY <1>2, <1>3

LEMMA CountInvStep == IndInv /\ CountInv /\ [Next]_vars => CountInv'
BY AddCounts, CleanCounts, RestartCounts, OtherCounts DEF Next, Recounts, Sets

LEMMA CountStep ==
    IndInv /\ CountInv /\ [Next]_vars =>
        [fails' = 0
         => /\ Covered /\ ~ Covered' => Recount \/ SaveThreshold
            /\ CleanCounters => Covered'
            /\ Restart /\ savedCount >= Total(batches) => Covered']_vars
<1> SUFFICES ASSUME IndInv, CountInv, [Next]_vars, fails' = 0
             PROVE  /\ Covered /\ ~ Covered' => Recount \/ SaveThreshold
                    /\ CleanCounters => Covered'
                    /\ Restart /\ savedCount >= Total(batches) => Covered'
  OBVIOUS
<1>1. ASSUME Covered, ~ Covered', ~ Recount, ~ SaveThreshold
      PROVE  Restart
  BY <1>1, AddCounts, CleanCounts, OtherCounts DEF Next, Recounts, Sets
<1>2. ASSUME Covered, Restart
      PROVE  Covered'
  BY <1>2, RestartCounts DEF Covered
<1> QED
  BY <1>1, <1>2, CleanCounts, RestartCounts

(* Until a commit has failed, the counts of the record and the database    *)
(* stay at the requests in the record or above, except for the reset of a  *)
(* recount and a SetThreshold that overlaps the goroutine of the window;   *)
(* a cleaning ends, and a restart from a count that is enough begins, with *)
(* both at it or above.                                                    *)
THEOREM CountIsEnough == Spec => CountCovers
BY IndInvHolds, CountInvInit, CountInvStep, CountStep, PTL DEF Spec, CountCovers
-------------------------------------------------------------------------------
(* Batches without requests.                                               *)
LEMMA EmptyInvInit == Init => EmptyInv
BY EmptySeq DEF Init, EmptyInv

(* Neither now nor the start of the window is in the second of a batch the *)
(* window passed that long ago.                                            *)
LEMMA OldSecond ==
    ASSUME TypeOK, NEW b \in Batch
    PROVE  /\ b.start <= now - Sec * Window => now \div Sec # Key(b)
           /\ b.start + Sec * (Window + 1) <= now => newStart \div Sec # Key(b)
<1>1. /\ now \in 0 .. End /\ newStart \in 0 .. End /\ b.start \in 0 .. End
      /\ newStart = now - Sec * Window
  BY Clock, BatchFields
<1>2. /\ Sec \in Nat \ {0} /\ Sec * Window \in Nat /\ Sec <= Sec * Window
      /\ Sec * (Window + 1) = Sec * Window + Sec
  BY Parameters
<1>3. PICK w \in Nat : w = Sec * Window
  BY <1>2
<1>4. ASSUME b.start <= now - w PROVE now \div Sec # b.start \div Sec
  <2>1. b.start + Sec <= now /\ b.start \in Int /\ now \in Int
    BY <1>1, <1>2, <1>3, <1>4
  <2> QED
    BY <1>2, <2>1, EarlierSecond
<1>5. ASSUME b.start + (w + Sec) <= now PROVE newStart \div Sec # b.start \div Sec
  <2>1. b.start + Sec <= newStart /\ b.start \in Int /\ newStart \in Int
    BY <1>1, <1>2, <1>3, <1>5
  <2> QED
    BY <1>2, <2>1, EarlierSecond
<1> QED
  BY <1>2, <1>3, <1>4, <1>5 DEF Key

LEMMA IncEmpties == IndInv /\ EmptyInv /\ Inc => EmptyInv'
<1> SUFFICES ASSUME IndInv, EmptyInv, Inc,
                    NEW l \in DOMAIN batches', batches'[l].reqs = <<>>
             PROVE  Emptied(batches, l)' \/ ReadEmpty(batches, l)'
  BY DEF EmptyInv
<1>1. /\ batches' = batches /\ tick' = tick /\ queue' = Append(queue, now)
      /\ TypeOK /\ queue \in Seq(0 .. End) /\ batches \in Seq(Batch) /\ now \in 0 .. End
  BY Clock DEF Inc, record, IndInv, TypeOK
<1>2. batches[l] \in Batch /\ batches[l].start <= now - Sec * Window
  BY <1>1, Sizes DEF IndInv, GoodBatches, GoodFor
<1>3. Emptied(batches, l) \/ ReadEmpty(batches, l)
  BY <1>1 DEF EmptyInv
<1>4. CASE Emptied(batches, l)
  BY <1>1, <1>4 DEF Emptied, Front
<1>5. CASE ReadEmpty(batches, l)
  <2>1. /\ DOMAIN queue' = 1 .. Len(queue) + 1 /\ DOMAIN queue = 1 .. Len(queue)
        /\ Len(queue) \in Nat
        /\ queue'[Len(queue) + 1] = now /\ \A x \in 1 .. Len(queue) : queue'[x] = queue[x]
    BY <1>1, AppendProperties, LenProperties
  <2>2. ASSUME NEW x \in DOMAIN queue' PROVE queue'[x] \div Sec # Key(batches[l])
    <3>1. CASE x = Len(queue) + 1
      BY <1>1, <1>2, <2>1, <3>1, OldSecond
    <3>2. CASE x \in 1 .. Len(queue)
      BY <1>5, <2>1, <3>2 DEF ReadEmpty
    <3> QED
      BY <2>1, <3>1, <3>2
  <2> QED
    BY <1>1, <1>5, <2>2 DEF ReadEmpty
<1> QED
  BY <1>3, <1>4, <1>5

LEMMA AddEmpties == IndInv /\ EmptyInv /\ AddCounter => EmptyInv'
<1> SUFFICES ASSUME IndInv, EmptyInv, AddCounter,
                    NEW l \in DOMAIN batches', batches'[l].reqs = <<>>
             PROVE  Emptied(batches, l)' \/ ReadEmpty(batches, l)'
  BY DEF EmptyInv
<1> DEFINE t == Head(queue)
           n == Len(batches')
<1>1. /\ queue # <<>> /\ batches' \in Counting(t) /\ tick' = tick
      /\ queue' = Tail(queue) \/ queue' = queue
      /\ TypeOK /\ queue \in Seq(0 .. End) /\ batches \in Seq(Batch)
  BY DEF AddCounter, IndInv, TypeOK
<1>2. /\ batches' \in Seq(Batch) /\ batches' # <<>>
      /\ Began(batches', t) \/ Grew(batches', t)
      /\ \A i \in DOMAIN batches' : i # n => i \in DOMAIN batches /\ batches'[i] = batches[i]
      /\ DOMAIN batches \subseteq DOMAIN batches'
      /\ Began(batches', t) /\ batches # <<>> => Len(batches[Len(batches)].reqs) = BatchSize
  BY <1>1, AddedBatches
<1>3. n \in DOMAIN batches' /\ DOMAIN batches' = 1 .. n /\ n \in Nat
      /\ Len(batches) \in Nat /\ DOMAIN batches = 1 .. Len(batches)
  BY <1>1, <1>2, Sizes
<1>4. batches'[n].reqs # <<>>
  <2>1. CASE Began(batches', t)
    <3>1. batches'[n].reqs = <<[k |-> 0, at |-> t]>>
      BY <2>1 DEF Began
    <3> QED
      BY <3>1
  <2>2. CASE Grew(batches', t)
    <3>1. n \in DOMAIN batches
      BY <1>1, <2>2, Sizes DEF Grew
    <3>2. PICK k : batches'[n] = Appended(batches[n], k, t)
      BY <2>2 DEF Grew
    <3>3. batches[n].reqs \in Seq(Req)
      BY <1>1, <3>1, Sizes, BatchFields
    <3>4. batches'[n].reqs = Append(batches[n].reqs, [k |-> k, at |-> t])
      BY <3>2 DEF Appended
    <3>5. PICK q \in Seq(Req) : q = batches[n].reqs
      BY <3>3
    <3>6. \A x : Append(q, x) # <<>>
      BY <3>5
    <3> QED
      BY <3>4, <3>5, <3>6
  <2> QED
    BY <1>2, <2>1, <2>2
<1>5. l # n /\ l \in DOMAIN batches /\ batches'[l] = batches[l] /\ l < n
  <2>1. l # n
    BY <1>4
  <2> QED
    BY <1>2, <1>3, <2>1
<1>6. Emptied(batches, l) \/ ReadEmpty(batches, l)
  BY <1>5 DEF EmptyInv
<1>7. CASE Emptied(batches, l)
  <2>1. \A q \in DOMAIN batches' : q < l => batches'[q].reqs = <<>>
    <3> TAKE q \in DOMAIN batches'
    <3> HAVE q < l
    <3>1. q # n
      BY <1>3, <1>5
    <3> QED
      BY <1>2, <1>7, <3>1 DEF Emptied, Front
  <2>2. ASSUME NEW m \in DOMAIN batches',
               \A q \in DOMAIN batches' : q < m => batches'[q].reqs = <<>>
        PROVE  batches'[m].start = batches'[l].start
    <3>1. \A q \in DOMAIN batches : q < m => batches[q].reqs = <<>>
      <4> TAKE q \in DOMAIN batches
      <4> HAVE q < m
      <4>1. q # n /\ q \in DOMAIN batches'
        BY <1>2, <1>3
      <4> QED
        BY <1>2, <2>2, <4>1
    <3>2. CASE m # n
      BY <1>2, <1>5, <1>7, <3>1, <3>2 DEF Emptied, Front
    <3>3. CASE m = n /\ Grew(batches', t)
      <4>1. n \in DOMAIN batches /\ batches'[n].start = batches[n].start
        BY <1>1, <3>3, Sizes DEF Grew, Appended
      <4> QED
        BY <1>5, <1>7, <3>1, <3>3, <4>1 DEF Emptied, Front
    <3>4. CASE m = n /\ Began(batches', t)
      <4>1. n = Len(batches) + 1 /\ Len(batches) \in DOMAIN batches /\ batches # <<>>
        BY <1>1, <1>3, <1>5, <3>4, Sizes DEF Began
      <4>2. Len(batches[Len(batches)].reqs) = BatchSize
        BY <1>2, <3>4, <4>1
      <4>3. batches[Len(batches)].reqs = <<>>
        BY <1>3, <3>1, <3>4, <4>1
      <4> QED
        BY <4>2, <4>3, Parameters, EmptySeq
    <3> QED
      BY <1>2, <3>2, <3>3, <3>4
  <2> QED
    BY <2>1, <2>2 DEF Emptied, Front
<1>8. CASE ReadEmpty(batches, l)
  <2>1. batches'[l].start + Sec * (Window + 1) <= tick'
    BY <1>1, <1>5, <1>8 DEF ReadEmpty
  <2>2. ASSUME NEW x \in DOMAIN queue' PROVE queue'[x] \div Sec # Key(batches'[l])
    <3>1. \E y \in DOMAIN queue : queue'[x] = queue[y]
      <4>1. CASE queue' = queue
        BY <4>1
      <4>2. CASE queue' = Tail(queue)
        <5>1. /\ Len(Tail(queue)) = Len(queue) - 1 /\ Tail(queue) \in Seq(0 .. End)
              /\ \A i \in 1 .. Len(Tail(queue)) : Tail(queue)[i] = queue[i + 1]
              /\ Len(queue) \in Nat /\ DOMAIN queue = 1 .. Len(queue)
          BY <1>1, HeadTailProperties, LenProperties
        <5>2. x \in 1 .. Len(queue) - 1
          BY <4>2, <5>1, LenProperties
        <5>3. x + 1 \in DOMAIN queue /\ queue'[x] = queue[x + 1]
          BY <4>2, <5>1, <5>2
        <5> QED
          BY <5>3
      <4> QED
        BY <1>1, <4>1, <4>2
    <3> QED
      BY <1>5, <1>8, <3>1 DEF ReadEmpty
  <2>3. ASSUME NEW m \in DOMAIN batches', m # l PROVE Key(batches'[m]) # Key(batches'[l])
    <3>1. CASE m # n
      BY <1>2, <1>5, <1>8, <2>3, <3>1 DEF ReadEmpty
    <3>2. CASE m = n /\ Grew(batches', t)
      <4>1. n \in DOMAIN batches /\ batches'[n].start = batches[n].start
        BY <1>1, <3>2, Sizes DEF Grew, Appended
      <4>2. Key(batches[n]) # Key(batches[l])
        BY <1>5, <1>8, <4>1 DEF ReadEmpty
      <4> QED
        BY <1>5, <3>2, <4>1, <4>2 DEF Key
    <3>3. CASE m = n /\ Began(batches', t)
      <4>1. batches'[n].start = t
        BY <3>3 DEF Began
      <4>2. 1 \in DOMAIN queue /\ t = queue[1]
        BY <1>1, HeadOfQueue DEF IndInv
      <4>3. t \div Sec # Key(batches[l])
        BY <1>8, <4>2 DEF ReadEmpty
      <4> QED
        BY <1>5, <3>3, <4>1, <4>3 DEF Key
    <3> QED
      BY <1>2, <3>1, <3>2, <3>3
  <2> QED
    BY <2>1, <2>2, <2>3 DEF ReadEmpty
<1> QED
  BY <1>6, <1>7, <1>8

(* A cleaning empties the batches before the first one it keeps, and this  *)
(* one has requests.                                                       *)
LEMMA CleanedEmpty ==
    ASSUME IndInv, newStart \notin Starts(batches), NEW l \in DOMAIN batches
    PROVE  /\ ~ (\E q \in Kept : q < l) => Cleaned[l].start = newStart
           /\ l \in Kept => batches[l].reqs # <<>> /\ Cleaned[l].reqs # <<>>
           /\ ~ (\E q \in Kept : q < l) /\ l \notin Kept => Cleaned[l].reqs = <<>>
<1>1. /\ TypeOK /\ batches[l] \in Batch /\ GoodFor(batches[l], now, tick)
      /\ batches[l].start # newStart
  <2>1. TypeOK /\ batches \in Seq(Batch)
    BY DEF IndInv, TypeOK
  <2> QED
    BY <2>1, Sizes DEF IndInv, GoodBatches, Starts
<1>2. /\ l \notin Kept <=> Fresh(batches[l]) = {}
      /\ (\E q \in Kept : q < l) => Cleaned[l] = batches[l]
      /\ ~ (\E q \in Kept : q < l) =>
            Cleaned[l] = IF l \in Kept THEN Rebased(batches[l])
                         ELSE [start |-> newStart, reqs |-> <<>>]
  BY CleanedBatches
<1>3. l \in Kept => batches[l].reqs # <<>>
  BY <1>2, EmptySeq DEF Fresh
<1>4. ASSUME l \in Kept
      PROVE  Rebased(batches[l]).start = newStart /\ Rebased(batches[l]).reqs # <<>>
  <2>1. /\ Rebased(batches[l]).start = newStart /\ Rebased(batches[l]) \in Batch
        /\ \E d \in 0 .. Len(batches[l].reqs) - 1 :
              Len(Rebased(batches[l]).reqs) = Len(batches[l].reqs) - d
    BY <1>1, <1>2, <1>4, Rebasing, ZenonT(60)
  <2>2. Len(batches[l].reqs) \in Nat
    BY <1>1, BatchFields
  <2>3. Len(Rebased(batches[l]).reqs) # 0
    BY <2>1, <2>2
  <2> QED
    BY <2>1, <2>3, BatchFields
<1> QED
  BY <1>2, <1>3, <1>4

LEMMA CleanEmpties == IndInv /\ EmptyInv /\ CleanCounters => EmptyInv'
<1> SUFFICES ASSUME IndInv, EmptyInv, CleanCounters,
                    NEW l \in DOMAIN batches', batches'[l].reqs = <<>>
             PROVE  Emptied(batches, l)' \/ ReadEmpty(batches, l)'
  BY DEF EmptyInv
<1>1. /\ newStart \notin Starts(batches) /\ tick <= now /\ batches' = Cleaned /\ queue' = queue
      /\ tick' = tick + Sec * ((now - tick) \div Sec + 1)
      /\ TypeOK /\ batches \in Seq(Batch)
  BY CleansInTime DEF CleanCounters, IndInv, TypeOK
<1>2. tick' \in Nat /\ tick + Sec <= tick' /\ tick \in Nat /\ now \in 0 .. End /\ Sec \in Nat
      /\ Sec * (Window + 1) \in Nat
  BY <1>1, NextTick, Clock, Parameters
<1>3. /\ DOMAIN batches' = DOMAIN batches
      /\ \A i \in DOMAIN batches : i \in Int /\ batches[i] \in Batch
      /\ \A i \in DOMAIN batches : (\E q \in Kept : q < i) => batches'[i] = batches[i]
      /\ Kept \subseteq DOMAIN batches
  BY <1>1, CleanedBatches, Sizes
<1>4. \A i \in DOMAIN batches :
         /\ ~ (\E q \in Kept : q < i) => batches'[i].start = newStart
         /\ i \in Kept => batches[i].reqs # <<>> /\ batches'[i].reqs # <<>>
         /\ ~ (\E q \in Kept : q < i) /\ i \notin Kept => batches'[i].reqs = <<>>
  BY <1>1, CleanedEmpty
<1>5. CASE ~ (\E q \in Kept : q < l)
  <2>1. \A q \in DOMAIN batches' : q < l => batches'[q].reqs = <<>>
    <3> TAKE q \in DOMAIN batches'
    <3> HAVE q < l
    <3>1. ~ (\E r \in Kept : r < q) /\ q \notin Kept
      BY <1>3, <1>5
    <3> QED
      BY <1>3, <1>4, <3>1
  <2>2. ASSUME NEW m \in DOMAIN batches',
               \A q \in DOMAIN batches' : q < m => batches'[q].reqs = <<>>
        PROVE  batches'[m].start = batches'[l].start
    <3>1. ~ (\E q \in Kept : q < m)
      BY <1>3, <1>4, <2>2
    <3> QED
      BY <1>3, <1>4, <1>5, <3>1
  <2> QED
    BY <2>1, <2>2 DEF Emptied, Front
<1>6. CASE \E q \in Kept : q < l
  <2>1. PICK q \in Kept : q < l
    BY <1>6
  <2>2. batches'[l] = batches[l] /\ l \in DOMAIN batches /\ batches[l].reqs = <<>>
    BY <1>3, <1>6
  <2>3. ReadEmpty(batches, l)
    <3>1. ~ Emptied(batches, l)
      BY <1>3, <1>4, <2>1 DEF Emptied, Front
    <3> QED
      BY <2>2, <3>1 DEF EmptyInv
  <2>4. /\ batches[l].start + Sec * (Window + 1) <= tick
        /\ \A m \in DOMAIN batches : m # l => Key(batches[m]) # Key(batches[l])
        /\ \A x \in DOMAIN queue : queue[x] \div Sec # Key(batches[l])
    BY <2>3 DEF ReadEmpty
  <2>5. batches[l] \in Batch /\ batches[l].start \in 0 .. End
    BY <1>3, <2>2, BatchFields
  <2>6. PICK w \in Nat : w = Sec * (Window + 1)
    BY <1>2
  <2>7. batches[l].start + w <= tick
    BY <2>4, <2>6
  <2>8. batches[l].start + w <= tick' /\ batches[l].start + w <= now
    BY <1>1, <1>2, <2>5, <2>7
  <2>9. newStart \div Sec # Key(batches[l])
    BY <1>1, <2>5, <2>6, <2>8, OldSecond
  <2>10. ASSUME NEW m \in DOMAIN batches', m # l PROVE Key(batches'[m]) # Key(batches'[l])
    <3>1. CASE \E r \in Kept : r < m
      BY <1>3, <2>2, <2>4, <2>10, <3>1
    <3>2. CASE ~ (\E r \in Kept : r < m)
      BY <1>3, <1>4, <2>2, <2>9, <3>2 DEF Key
    <3> QED
      BY <3>1, <3>2
  <2>11. batches'[l].start + Sec * (Window + 1) <= tick'
    BY <2>2, <2>6, <2>8
  <2>12. \A x \in DOMAIN queue' : queue'[x] \div Sec # Key(batches'[l])
    BY <1>1, <2>2, <2>4
  <2>13. ReadEmpty(batches, l)'
    BY <2>10, <2>11, <2>12 DEF ReadEmpty
  <2> QED
    BY <2>13
<1> QED
  BY <1>5, <1>6

LEMMA RestartEmpties == IndInv /\ Restart => EmptyInv'
<1> SUFFICES ASSUME IndInv, Restart,
                    NEW l \in DOMAIN batches', batches'[l].reqs = <<>>
             PROVE  ReadEmpty(batches, l)'
  BY DEF EmptyInv
<1>1. TypeOK /\ queue' = <<>> /\ tick' = now + Sec
  BY DEF IndInv, Restart
<1>2. PICK keys \in [1 .. Cardinality(DOMAIN saved) -> DOMAIN saved] :
         /\ \A i, j \in DOMAIN keys : i < j => Before(keys[i], keys[j])
         /\ batches' = [i \in DOMAIN keys |-> saved[keys[i]]]
  BY DEF Restart
<1>3. \A i, j \in DOMAIN keys : keys[i] = keys[j] => i = j
  BY <1>1, <1>2, Reading, Zenon
<1>4. /\ DOMAIN batches' = DOMAIN keys
      /\ \A i \in DOMAIN keys :
            /\ keys[i] \in DOMAIN saved /\ batches'[i] = saved[keys[i]]
            /\ batches'[i] \in Batch /\ Key(batches'[i]) = keys[i]
  BY <1>1, <1>2 DEF TypeOK
<1>5. batches'[l].start <= now - Sec * Window
  BY <1>4 DEF IndInv, GoodBatches, GoodFor
<1>6. batches'[l].start + Sec * (Window + 1) <= tick'
  <2>1. batches'[l] \in Batch
    BY <1>4
  <2>2. batches'[l].start \in 0 .. End
    BY <2>1, BatchFields
  <2>3. PICK w \in Nat : w = Sec * Window /\ Sec * (Window + 1) = w + Sec
    BY Parameters
  <2>4. batches'[l].start <= now - w
    BY <1>5, <2>3
  <2>5. now \in 0 .. End /\ Sec \in Nat
    BY <1>1, Clock, Parameters
  <2>6. batches'[l].start + (w + Sec) <= now + Sec
    BY <2>2, <2>4, <2>5
  <2> QED
    BY <1>1, <2>3, <2>6
<1>7. \A m \in DOMAIN batches' : m # l => Key(batches'[m]) # Key(batches'[l])
  BY <1>3, <1>4
<1> QED
  BY <1>1, <1>6, <1>7, EmptySeq DEF ReadEmpty

LEMMA EmptyInvStep == IndInv /\ EmptyInv /\ [Next]_vars => EmptyInv'
<1> SUFFICES ASSUME IndInv, EmptyInv, [Next]_vars PROVE EmptyInv'
  OBVIOUS
<1>1. CASE Elapse \/ Recounts \/ Sets \/ UNCHANGED vars
  <2>1. batches' = batches /\ queue' = queue /\ tick' = tick
    BY <1>1, Counts DEF Elapse, vars, record
  <2> QED
    BY <2>1 DEF EmptyInv, Emptied, ReadEmpty, Front
<1> QED
  BY <1>1, IncEmpties, AddEmpties, CleanEmpties, RestartEmpties DEF Next, Recounts, Sets

(* A batch with the key of one without requests has a twin: the first one  *)
(* with requests.                                                          *)
LEMMA TwinOfEmpty ==
    ASSUME NEW bs \in Seq(Batch), NEW i \in DOMAIN bs, NEW q \in DOMAIN bs,
           bs[i].reqs # <<>>, bs[i].start # bs[q].start, Key(bs[q]) = Key(bs[i]),
           Emptied(bs, q)
    PROVE  Twins(bs, bs[i])
<1> DEFINE full == {m \in DOMAIN bs : bs[m].reqs # <<>>}
<1>1. full \subseteq Nat /\ full # {} /\ full \subseteq DOMAIN bs
  BY Sizes
<1>2. PICK m \in full : \A y \in full : m <= y
  <2> HIDE DEF full
  <2> QED
    BY <1>1, Least
<1>3. Front(bs, m)
  <2> SUFFICES ASSUME NEW l \in DOMAIN bs, l < m, l \in full PROVE FALSE
    BY DEF Front
  <2>1. m <= l /\ l \in Int /\ m \in Int
    BY <1>1, <1>2
  <2> QED
    BY <2>1
<1>4. m \in DOMAIN bs /\ bs[m].reqs # <<>> /\ bs[m].start = bs[q].start
  BY <1>2, <1>3 DEF Emptied
<1>5. m # i /\ Key(bs[m]) = Key(bs[i])
  BY <1>4 DEF Key
<1> QED
  BY <1>4, <1>5 DEF Twins

LEMMA CleanSaves ==
    ASSUME IndInv, EmptyInv, CleanCounters, fails' = fails,
           NEW i \in DOMAIN batches', batches'[i].reqs # <<>>
    PROVE  \/ IsIn(saved', batches'[i]) \/ Twins(batches', batches'[i])
           \/ /\ batches'[i] \in In(batches)
              /\ ~ IsIn(saved, batches'[i]) \/ Twins(batches, batches'[i])
<1> DEFINE b == batches'[i]
           s == Key(b)
           I == Inserted(batches, batches')
           D == Dropped(batches, batches')
<1>1. /\ newStart \notin Starts(batches) /\ tick <= now /\ batches' = Cleaned
      /\ saved' = Written(batches, batches', D)
      /\ TypeOK /\ batches \in Seq(Batch) /\ fails \in Nat
  <2>1. TypeOK /\ batches \in Seq(Batch) /\ fails \in Nat
    BY DEF IndInv, TypeOK
  <2>2. saved' = Replaced(batches, batches') \/ fails' = fails + 1
    BY DEF CleanCounters, Commit, CommitFails
  <2> QED
    BY <2>1, <2>2, CleansInTime DEF CleanCounters, Replaced
<1>2. /\ batches' \in Seq(Batch) /\ DOMAIN batches' = DOMAIN batches
      /\ \A j \in DOMAIN batches : j \in Int
      /\ \A j \in DOMAIN batches : batches'[j].start = newStart \/ batches'[j] = batches[j]
  <2>1. \A j \in DOMAIN batches : batches'[j].start = newStart \/ batches'[j] = batches[j]
    BY <1>1, CleanedBatches, CleanedEmpty
  <2> QED
    BY <1>1, <2>1, CleanedBatches, Sizes
<1>3. Rewritten(batches, batches', D, saved')
  BY <1>1, <1>2, WrittenBatches, Zenon
<1>4. EmptyInv'
  BY CleanEmpties
<1>5. ASSUME NEW q \in I, Key(batches'[q]) = s, q # i, q < i => batches'[q].start # b.start
      PROVE  Twins(batches', b)
  <2>1. q \in DOMAIN batches' /\ q \in Int /\ i \in Int
    BY <1>2 DEF Inserted
  <2>2. CASE batches'[q].reqs # <<>>
    BY <1>5, <2>1, <2>2 DEF Twins
  <2>3. CASE batches'[q].reqs = <<>>
    <3>1. Emptied(batches', q) \/ ReadEmpty(batches, q)'
      BY <1>4, <2>1, <2>3 DEF EmptyInv
    <3>2. ~ ReadEmpty(batches, q)'
      BY <1>5, <2>1 DEF ReadEmpty
    <3>3. Emptied(batches', q) /\ ~ (i < q)
      BY <3>1, <3>2 DEF Emptied, Front
    <3>4. batches'[q].start # b.start
      BY <1>5, <2>1, <3>3
    <3> QED
      BY <1>2, <1>5, <2>1, <3>3, <3>4, TwinOfEmpty
  <2> QED
    BY <2>2, <2>3
<1>6. CASE i \in I
  <2>1. s \in DOMAIN saved' /\ Key(saved'[s]) = s
    BY <1>3, <1>6 DEF Rewritten
  <2>2. PICK q \in I : saved'[s] = batches'[q] /\ \A l \in I : Key(batches'[l]) = s => l <= q
    <3>1. ~ \A l \in I : Key(batches'[l]) # s
      BY <1>6
    <3> HIDE DEF s, I, D
    <3> QED
      BY <1>3, <2>1, <3>1, Zenon DEF Rewritten, I
  <2>3. i <= q /\ Key(batches'[q]) = s /\ q \in Int /\ i \in Int
    BY <1>2, <1>6, <2>1, <2>2 DEF Inserted
  <2>4. CASE q = i
    BY <2>1, <2>2, <2>4 DEF IsIn
  <2>5. CASE q # i
    BY <1>5, <2>3, <2>5
  <2> QED
    BY <2>4, <2>5
<1>7. CASE i \notin I
  <2>1. /\ b.start \in Starts(batches)
        /\ \A l \in 1 .. i - 1 : batches'[l].start # b.start
    BY <1>7 DEF Inserted
  <2>2. batches[i] = b /\ i \in DOMAIN batches /\ b \in In(batches)
    BY <1>1, <1>2, <2>1 DEF In
  <2>3. CASE ~ IsIn(saved, b)
    BY <2>2, <2>3
  <2>4. CASE IsIn(saved, b) /\ s \in DOMAIN saved'
    <3>1. CASE saved'[s] = saved[s]
      BY <2>4, <3>1 DEF IsIn
    <3>2. CASE saved'[s] # saved[s]
      <4>1. PICK q \in I : saved'[s] = batches'[q]
        <5> HIDE DEF s, I, D
        <5> QED
          BY <1>3, <2>4, <3>2, Zenon DEF Rewritten, I
      <4>2. Key(batches'[q]) = s
        BY <1>3, <2>4, <4>1 DEF Rewritten
      <4>3. q # i
        BY <1>7
      <4>4. q < i => batches'[q].start # b.start
        <5>1. q \in 1 .. Len(batches') /\ i \in Int
          BY <1>2, Sizes DEF Inserted
        <5> QED
          BY <2>1, <5>1
      <4> QED
        BY <1>5, <4>2, <4>3, <4>4
    <3> QED
      BY <3>1, <3>2
  <2>5. CASE IsIn(saved, b) /\ s \notin DOMAIN saved'
    <3>1. s \in D
      BY <1>3, <2>5 DEF Rewritten, IsIn
    <3>2. PICK x \in Starts(batches) : x \notin Starts(batches') /\ s = x \div Sec
      BY <3>1 DEF Dropped
    <3>3. PICK o \in DOMAIN batches : batches[o].start = x
      BY <3>2 DEF Starts
    <3>4. batches[o].start # batches[i].start
      BY <2>2, <3>2, <3>3 DEF Starts
    <3>5. Key(batches[o]) = Key(batches[i]) /\ Key(batches[i]) = s
      BY <2>2, <3>2, <3>3 DEF Key
    <3>6. Twins(batches, batches[i])
      <4>1. CASE batches[o].reqs # <<>>
        BY <2>2, <3>4, <3>5, <4>1 DEF Twins
      <4>2. CASE batches[o].reqs = <<>>
        <5>1. ~ ReadEmpty(batches, o)
          BY <2>2, <3>4, <3>5 DEF ReadEmpty
        <5>2. Emptied(batches, o)
          BY <4>2, <5>1 DEF EmptyInv
        <5> QED
          BY <1>1, <2>2, <3>4, <3>5, <5>2, TwinOfEmpty
      <4> QED
        BY <4>1, <4>2
    <3> QED
      BY <2>2, <3>6
  <2> QED
    BY <2>3, <2>4, <2>5
<1> QED
  BY <1>6, <1>7

LEMMA AddSaves ==
    ASSUME IndInv, AddCounter, fails' = fails,
           NEW i \in DOMAIN batches', batches'[i].reqs # <<>>
    PROVE  \/ IsIn(saved', batches'[i]) \/ Twins(batches', batches'[i])
           \/ batches'[i] \in In(batches) /\ ~ IsIn(saved, batches'[i])
<1> DEFINE n == Len(batches')
           b == batches'[i]
<1>1. fails \in Nat /\ queue # <<>> /\ batches' \in Counting(Head(queue))
      /\ batches \in Seq(Batch)
  BY DEF IndInv, TypeOK, AddCounter
<1>2. saved' = Put(saved, batches'[n])
  <2>1. saved' = Put(saved, batches'[n]) \/ fails' = fails + 1
    BY DEF AddCounter, Commit, CommitFails
  <2> QED
    BY <1>1, <2>1
<1>3. /\ batches' \in Seq(Batch) /\ batches' # <<>> /\ n \in DOMAIN batches'
      /\ Began(batches', Head(queue)) \/ Grew(batches', Head(queue))
      /\ \A j \in DOMAIN batches' : j # n => j \in DOMAIN batches /\ batches'[j] = batches[j]
  BY <1>1, AddedBatches, Sizes
<1>4. batches'[n].reqs # <<>>
  <2>1. CASE Began(batches', Head(queue))
    <3>1. batches'[n].reqs = <<[k |-> 0, at |-> Head(queue)]>>
      BY <2>1 DEF Began
    <3> QED
      BY <3>1
  <2>2. CASE Grew(batches', Head(queue))
    <3>1. n \in DOMAIN batches
      BY <1>1, <2>2, Sizes DEF Grew
    <3>2. PICK k : batches'[n] = Appended(batches[n], k, Head(queue))
      BY <2>2 DEF Grew
    <3>3. batches[n].reqs \in Seq(Req)
      BY <1>1, <3>1, Sizes, BatchFields
    <3>4. batches'[n].reqs = Append(batches[n].reqs, [k |-> k, at |-> Head(queue)])
      BY <3>2 DEF Appended
    <3> QED
      BY <3>3, <3>4
  <2> QED
    BY <1>3, <2>1, <2>2
<1>5. CASE i = n
  BY <1>2, <1>5 DEF IsIn, Put
<1>6. CASE i # n /\ Key(b) = Key(batches'[n])
  BY <1>3, <1>4, <1>6 DEF Twins
<1>7. CASE i # n /\ Key(b) # Key(batches'[n])
  <2>1. b \in In(batches)
    BY <1>3, <1>7 DEF In
  <2>2. IsIn(saved, b) => IsIn(saved', b)
    BY <1>2, <1>7 DEF IsIn, Put
  <2> QED
    BY <2>1, <2>2
<1> QED
  BY <1>5, <1>6, <1>7

LEMMA SaveStep ==
    IndInv /\ EmptyInv /\ [Next]_vars =>
      (AddCounter \/ CleanCounters
       => \/ fails' # fails
          \/ \A b \in In(batches') :
                \/ b.reqs = <<>>
                \/ IsIn(saved', b) \/ Twins(batches', b)
                \/ /\ b \in In(batches)
                   /\ ~ IsIn(saved, b) \/ Twins(batches, b))
<1> SUFFICES ASSUME IndInv, EmptyInv, AddCounter \/ CleanCounters, fails' = fails,
                    NEW b \in In(batches'), b.reqs # <<>>
             PROVE  \/ IsIn(saved', b) \/ Twins(batches', b)
                    \/ /\ b \in In(batches)
                       /\ ~ IsIn(saved, b) \/ Twins(batches, b)
  OBVIOUS
<1>1. PICK i \in DOMAIN batches' : b = batches'[i]
  BY DEF In
<1> QED
  BY <1>1, CleanSaves, AddSaves, Zenon

(* A commit saves what it has changed, and loses the copy of a batch only  *)
(* if two batches with requests start in its second.                       *)
THEOREM BatchesAreSaved == Spec => SavesBatches
BY IndInvHolds, EmptyInvInit, EmptyInvStep, SaveStep, PTL DEF Spec, SavesBatches
===============================================================================

---------------------------- MODULE TweetRepoProofs ---------------------------
(***************************************************************************)
(* Proofs about TweetRepo, for any number of tweets and clients.           *)
(***************************************************************************)
EXTENDS TweetRepo, FiniteSetTheorems, TLAPS

(* A transaction whose reads are still valid has read the row as it is.    *)
ValidReads ==
    \A c \in Client : Writing(c) /\ txn[c].check = "valid"
                      => tweets[txn[c].id] = txn[c].old

(* No Save that was started is one Save should have skipped.               *)
NoneSkipped ==
    \A c \in Client : txn[c].step = "save" => ~ Skipped(txn[c].old, txn[c].new)

IndInv == TypeOK /\ CreationIndexExact /\ ValidReads /\ NoneSkipped
-------------------------------------------------------------------------------
(* Transactions by their step.                                             *)
LEMMA TxnByStep ==
    ASSUME NEW x \in Txn
    PROVE  /\ x.step = "save" => x \in SaveTxn
           /\ x.step = "delete" => x \in DeleteTxn
           /\ x.step = "tally" => x.by \in {-1, 1}
           /\ x.step \in {"lookup", "clear"} => x.entry \in Entry
           /\ x.step = "store" => x.n \in 0 .. MaxInt32
BY DEF Txn, SaveTxn, DeleteTxn, OtherTxn, Idle

LEMMA IdleIsTxn == Idle \in Txn /\ Tally(1) \in Txn /\ Tally(-1) \in Txn
BY DEF Txn, OtherTxn, Idle, Tally

(* Marking a transaction that is going to write keeps it one.              *)
LEMMA MarkedTxn ==
    ASSUME NEW x \in Txn, x.step \in {"save", "delete"}, NEW k \in Check
    PROVE  [x EXCEPT !.check = k] \in Txn
<1>1. CASE x.step = "save"
  BY <1>1, TxnByStep DEF SaveTxn, Txn
<1>2. CASE x.step = "delete"
  BY <1>2, TxnByStep DEF DeleteTxn, Txn
<1> QED BY <1>1, <1>2

(* What a client goes on with after its commit loop is a transaction.      *)
LEMMA AfterIsTxn ==
    ASSUME NEW x \in Txn
    PROVE  AfterCommit(x) \in Txn /\ AfterFailure(x) \in Txn
BY IdleIsTxn DEF AfterCommit, AfterFailure, AfterSave

LEMMA WrittenIsTxn ==
    ASSUME TypeOK, NEW c \in Client, NEW t \in Tweet, NEW x \in Txn
    PROVE  Written(c, t, x) \in [Client -> Txn]
BY MarkedTxn DEF Written, TypeOK, Writing, Check

(* The writes of a call keep the types and the creation index exact.       *)
LEMMA WriteKeepsIndexes ==
    ASSUME TypeOK, CreationIndexExact,
           NEW x \in SaveTxn \cup DeleteTxn, Write(x)
    PROVE  /\ tweets' \in [Tweet -> Row]
           /\ ratingIdx' \in SUBSET Entry
           /\ creationIdx' \in SUBSET Tweet
           /\ CreationIndexExact'
<1>1. CASE x \in SaveTxn
  <2>1. SaveWrites(x)
    BY <1>1 DEF Write, SaveTxn
  <2>2. x.id \in Tweet /\ x.new \in Snapshot /\ x.new # NoTweet
    BY <1>1, RepoAssumption DEF SaveTxn
  <2>3. <<x.new.rating, x.id>> \in Entry
    BY <2>2 DEF Entry, Snapshot
  <2> QED BY <2>1, <2>2, <2>3 DEF SaveWrites, WithoutOld, TypeOK, CreationIndexExact, Live, Row
<1>2. CASE x \in DeleteTxn
  <2>1. DeleteWrites(x)
    BY <1>2 DEF Write, DeleteTxn
  <2>2. x.id \in Tweet
    BY <1>2 DEF DeleteTxn
  <2> QED BY <2>1, <2>2 DEF DeleteWrites, WithoutOld, TypeOK, CreationIndexExact, Live, Row
<1> QED BY <1>1, <1>2
-------------------------------------------------------------------------------
(* Steps that leave the rows and the indexes alone and move one client c   *)
(* to a transaction y that is not going to commit on valid reads.          *)
LEMMA QuietStep ==
    ASSUME IndInv, NEW c \in Client, NEW y \in Txn,
           txn' = [txn EXCEPT ![c] = y],
           y.step \in {"save", "delete"} => y.check # "valid",
           y.step = "save" => ~ Skipped(y.old, y.new),
           UNCHANGED tweets
    PROVE  /\ txn' \in [Client -> Txn] /\ ValidReads' /\ NoneSkipped'
<1> USE DEF IndInv
<1>1. txn' \in [Client -> Txn]
  BY DEF TypeOK
<1>2. \A d \in Client : txn'[d] = IF d = c THEN y ELSE txn[d]
  BY DEF TypeOK
<1>3. ValidReads'
  BY <1>2 DEF ValidReads, Writing
<1>4. NoneSkipped'
  BY <1>2 DEF NoneSkipped
<1> QED BY <1>1, <1>3, <1>4

(* A write marks every other transaction that has read the row, so those   *)
(* that stay valid have read another one.                                  *)
LEMMA WriteKeepsReads ==
    ASSUME IndInv, NEW c \in Client, Writing(c), NEW y \in Txn,
           Write(txn[c]), txn' = Written(c, txn[c].id, y),
           y.step \in {"save", "delete"} => y.check # "valid",
           y.step = "save" => ~ Skipped(y.old, y.new)
    PROVE  ValidReads' /\ NoneSkipped'
<1> DEFINE t == txn[c].id
<1>1. txn[c] \in SaveTxn \cup DeleteTxn
  BY TxnByStep DEF IndInv, TypeOK, Writing
<1>2. \A d \in Client : txn'[d] = IF d = c THEN y
                                  ELSE IF Writing(d) /\ txn[d].id = t /\ txn[d].check = "valid"
                                       THEN [txn[d] EXCEPT !.check = "stale"]
                                       ELSE txn[d]
  BY DEF Written
<1>3. \A u \in Tweet : u # t => tweets'[u] = tweets[u]
  BY <1>1 DEF Write, SaveWrites, DeleteWrites, IndInv, TypeOK
<1>4. ASSUME NEW d \in Client, Writing(d)', txn'[d].check = "valid"
      PROVE  tweets'[txn'[d].id] = txn'[d].old
  <2>1. d # c
    BY <1>2, <1>4 DEF Writing
  <2>2. ~ (Writing(d) /\ txn[d].id = t /\ txn[d].check = "valid")
    <3>1. SUFFICES ASSUME Writing(d), txn[d].id = t, txn[d].check = "valid" PROVE FALSE
      OBVIOUS
    <3>2. txn'[d] = [txn[d] EXCEPT !.check = "stale"]
      BY <1>2, <2>1, <3>1
    <3>3. txn[d] \in SaveTxn \cup DeleteTxn
      BY <3>1, TxnByStep DEF IndInv, TypeOK, Writing
    <3>4. txn'[d].check = "stale"
      BY <3>2, <3>3 DEF SaveTxn, DeleteTxn
    <3> QED BY <3>4, <1>4
  <2>3. txn'[d] = txn[d]
    BY <1>2, <2>1, <2>2
  <2>4. Writing(d) /\ txn[d].check = "valid" /\ txn[d].id # t
    BY <2>2, <2>3, <1>4 DEF Writing
  <2>5. txn[d].id \in Tweet
    BY <2>4, TxnByStep DEF IndInv, TypeOK, Writing, SaveTxn, DeleteTxn
  <2> QED BY <1>3, <2>3, <2>4, <2>5 DEF IndInv, ValidReads
<1>5. ASSUME NEW d \in Client, txn'[d].step = "save"
      PROVE  ~ Skipped(txn'[d].old, txn'[d].new)
  <2>1. CASE d = c
    BY <1>2, <1>5, <2>1
  <2>2. CASE d # c /\ txn'[d] = txn[d]
    BY <1>5, <2>2 DEF IndInv, NoneSkipped
  <2>3. CASE d # c /\ txn'[d] # txn[d]
    <3>1. Writing(d) /\ txn'[d] = [txn[d] EXCEPT !.check = "stale"]
      BY <1>2, <2>3
    <3>2. txn[d] \in SaveTxn \cup DeleteTxn
      BY <3>1, TxnByStep DEF IndInv, TypeOK, Writing
    <3>3. txn[d].step = "save" /\ txn[d] \in SaveTxn
      BY <1>5, <3>1, <3>2 DEF SaveTxn, DeleteTxn
    <3>4. txn'[d].old = txn[d].old /\ txn'[d].new = txn[d].new
      BY <3>1, <3>3 DEF SaveTxn
    <3> QED BY <3>3, <3>4 DEF IndInv, NoneSkipped
  <2> QED BY <2>1, <2>2, <2>3
<1> QED BY <1>4, <1>5 DEF ValidReads, NoneSkipped
-------------------------------------------------------------------------------
LEMMA LiveIsFinite ==
    IsFiniteSet(Live) /\ Cardinality(Live) \in Nat /\ Cardinality(Live) <= MaxInt32
<1>1. Live \subseteq Tweet
  BY DEF Live
<1>2. IsFiniteSet(Live) /\ Cardinality(Live) <= Cardinality(Tweet)
  BY <1>1, RepoAssumption, FS_Subset
<1>3. Cardinality(Live) \in Nat /\ Cardinality(Tweet) \in Nat
  BY <1>2, RepoAssumption, FS_CardinalityType
<1> QED BY <1>2, <1>3, RepoAssumption

(* Adding or subtracting one stays in range, and changes the counter by    *)
(* that much up to its width.                                              *)
LEMMA WrappedStep ==
    ASSUME NEW n \in Int32, NEW k \in {-1, 1}
    PROVE  /\ Wrapped(n + k) \in Int32
           /\ Wrapped(n + k) - (n + k) \in {-Width, 0, Width}
BY RepoAssumption DEF Wrapped, Int32, Width

LEMMA CountsInRange == 0 .. MaxInt32 \subseteq Int32 /\ Int32 \subseteq Int
BY RepoAssumption DEF Int32

LEMMA InitInd == Init => IndInv
<1> SUFFICES ASSUME Init PROVE IndInv
  OBVIOUS
<1>1. TypeOK
  BY IdleIsTxn, CountsInRange, RepoAssumption DEF Init, TypeOK, Row
<1>2. CreationIndexExact
  BY DEF Init, CreationIndexExact, Live
<1>3. ValidReads /\ NoneSkipped
  BY DEF Init, ValidReads, NoneSkipped, Writing, Idle
<1> QED BY <1>1, <1>2, <1>3 DEF IndInv

LEMMA CallKeepsInd ==
    ASSUME IndInv, NEW c \in Client, Call(c)
    PROVE  IndInv'
<1> USE DEF IndInv
<1>1. ASSUME NEW t \in Tweet, NEW s \in Snapshot, Save(c, t, s)
      PROVE  IndInv'
  <2> DEFINE y == [step |-> "save", id |-> t, old |-> tweets[t], new |-> s, check |-> "valid"]
  <2>1. y \in Txn
    BY DEF TypeOK, Txn, SaveTxn, Check
  <2>2. \A d \in Client : txn'[d] = IF d = c THEN y ELSE txn[d]
    BY <1>1 DEF Save, TypeOK
  <2>3. TypeOK'
    BY <1>1, <2>1 DEF Save, TypeOK
  <2>4. CreationIndexExact'
    BY <1>1 DEF Save, CreationIndexExact, Live
  <2>5. ValidReads'
    BY <1>1, <2>2 DEF Save, ValidReads, Writing
  <2>6. NoneSkipped'
    BY <1>1, <2>2 DEF Save, NoneSkipped
  <2> QED BY <2>3, <2>4, <2>5, <2>6
<1>2. ASSUME NEW t \in Tweet, DeleteTweet(c, t)
      PROVE  IndInv'
  <2> DEFINE y == [step |-> "delete", id |-> t, old |-> tweets[t], check |-> "valid"]
  <2>1. y \in Txn
    BY <1>2 DEF DeleteTweet, TypeOK, Txn, DeleteTxn, Check, Live, Row
  <2>2. \A d \in Client : txn'[d] = IF d = c THEN y ELSE txn[d]
    BY <1>2 DEF DeleteTweet, TypeOK
  <2>3. TypeOK'
    BY <1>2, <2>1 DEF DeleteTweet, TypeOK
  <2>4. CreationIndexExact'
    BY <1>2 DEF DeleteTweet, CreationIndexExact, Live
  <2>5. ValidReads'
    BY <1>2, <2>2 DEF DeleteTweet, ValidReads, Writing
  <2>6. NoneSkipped'
    BY <1>2, <2>2 DEF DeleteTweet, NoneSkipped
  <2> QED BY <2>3, <2>4, <2>5, <2>6
<1>3. ASSUME NEW e \in Entry, ScanRatings(c, e)
      PROVE  IndInv'
  <2> DEFINE y == [step |-> "lookup", entry |-> e]
  <2>1. y \in Txn
    BY DEF Txn, OtherTxn
  <2>2. txn' \in [Client -> Txn] /\ ValidReads' /\ NoneSkipped'
    BY <1>3, <2>1, QuietStep DEF ScanRatings
  <2> QED BY <1>3, <2>2 DEF ScanRatings, TypeOK, CreationIndexExact, Live
<1>4. ASSUME Count(c)
      PROVE  IndInv'
  <2> DEFINE y == [step |-> "store", n |-> Cardinality(Live)]
  <2>1. y \in Txn
    BY LiveIsFinite DEF Txn, OtherTxn
  <2>2. txn' \in [Client -> Txn] /\ ValidReads' /\ NoneSkipped'
    BY <1>4, <2>1, QuietStep DEF Count
  <2> QED BY <1>4, <2>2 DEF Count, TypeOK, CreationIndexExact, Live
<1> QED BY <1>1, <1>2, <1>3, <1>4 DEF Call

LEMMA ProceedKeepsInd ==
    ASSUME IndInv, NEW c \in Client, Proceed(c)
    PROVE  IndInv'
<1> USE DEF IndInv
<1>0. txn[c] \in Txn
  BY DEF TypeOK
<1>1. CASE Commit(c)
  <2> DEFINE y == AfterCommit(txn[c])
  <2>1. txn[c] \in SaveTxn \cup DeleteTxn /\ txn[c].id \in Tweet
    BY <1>0, <1>1, TxnByStep DEF Commit, Writing, SaveTxn, DeleteTxn
  <2>2. y \in Txn /\ y.step \notin {"save", "delete"}
    BY <1>0, AfterIsTxn DEF AfterCommit, AfterSave, Idle, Tally
  <2>3. ValidReads' /\ NoneSkipped'
    BY <1>1, <2>2, WriteKeepsReads DEF Commit
  <2>4. txn' \in [Client -> Txn]
    BY <1>1, <2>1, <2>2, WrittenIsTxn DEF Commit
  <2> QED BY <1>1, <2>1, <2>3, <2>4, WriteKeepsIndexes DEF Commit, TypeOK
<1>2. CASE CommitUnknown(c)
  <2> DEFINE y == [txn[c] EXCEPT !.check = "blind"]
  <2>1. txn[c] \in SaveTxn \cup DeleteTxn /\ txn[c].id \in Tweet
    BY <1>0, <1>2, TxnByStep DEF CommitUnknown, Writing, SaveTxn, DeleteTxn
  <2>2. y \in Txn
    BY <1>0, <1>2, MarkedTxn DEF CommitUnknown, Writing, Check
  <2>3. /\ y.check = "blind"
        /\ y.step = "save" => txn[c].step = "save" /\ y.old = txn[c].old /\ y.new = txn[c].new
    BY <2>1 DEF SaveTxn, DeleteTxn
  <2>4. ValidReads' /\ NoneSkipped'
    BY <1>2, <2>2, <2>3, WriteKeepsReads DEF CommitUnknown, NoneSkipped
  <2>5. txn' \in [Client -> Txn]
    BY <1>2, <2>1, <2>2, WrittenIsTxn DEF CommitUnknown
  <2> QED BY <1>2, <2>1, <2>4, <2>5, WriteKeepsIndexes DEF CommitUnknown, TypeOK
<1>3. CASE Retry(c)
  <2> DEFINE y == [txn[c] EXCEPT !.check = "blind"]
  <2>1. txn[c] \in SaveTxn \cup DeleteTxn
    BY <1>0, <1>3, TxnByStep DEF Retry, Writing
  <2>2. y \in Txn
    BY <1>0, <1>3, MarkedTxn DEF Retry, Writing, Check
  <2>3. /\ y.check = "blind"
        /\ y.step = "save" => txn[c].step = "save" /\ y.old = txn[c].old /\ y.new = txn[c].new
    BY <2>1 DEF SaveTxn, DeleteTxn
  <2>4. txn' = [txn EXCEPT ![c] = y]
    BY <1>3 DEF Retry
  <2>5. txn' \in [Client -> Txn] /\ ValidReads' /\ NoneSkipped'
    BY <1>3, <2>2, <2>3, <2>4, QuietStep DEF Retry, NoneSkipped
  <2> QED BY <1>3, <2>5 DEF Retry, TypeOK, CreationIndexExact, Live
<1>4. CASE CommitFails(c)
  <2> DEFINE y == AfterFailure(txn[c])
  <2>1. y \in Txn /\ y.step \notin {"save", "delete"}
    BY <1>0, AfterIsTxn DEF AfterFailure, AfterSave, Idle, Tally
  <2>2. txn' \in [Client -> Txn] /\ ValidReads' /\ NoneSkipped'
    BY <1>4, <2>1, QuietStep DEF CommitFails
  <2> QED BY <1>4, <2>2 DEF CommitFails, TypeOK, CreationIndexExact, Live
<1>5. CASE AddToCounter(c)
  <2>1. tweetsCounter' \in Int32
    BY <1>0, <1>5, TxnByStep, WrappedStep DEF AddToCounter, TypeOK
  <2>2. txn' \in [Client -> Txn] /\ ValidReads' /\ NoneSkipped'
    BY <1>5, IdleIsTxn, QuietStep DEF AddToCounter, Idle
  <2> QED BY <1>5, <2>1, <2>2 DEF AddToCounter, TypeOK, CreationIndexExact, Live
<1>6. CASE LookupRow(c)
  <2>1. PICK y \in {Idle, [txn[c] EXCEPT !.step = "clear"]} : txn' = [txn EXCEPT ![c] = y]
    BY <1>6 DEF LookupRow
  <2>2. txn[c] \in [step : {"lookup", "clear"}, entry : Entry]
    BY <1>0, <1>6 DEF LookupRow, Txn, SaveTxn, DeleteTxn, OtherTxn, Idle
  <2>3. y \in Txn /\ y.step \notin {"save", "delete"}
    BY <2>2, IdleIsTxn DEF Txn, OtherTxn, Idle
  <2>4. txn' \in [Client -> Txn] /\ ValidReads' /\ NoneSkipped'
    BY <1>6, <2>1, <2>3, QuietStep DEF LookupRow
  <2> QED BY <1>6, <2>4 DEF LookupRow, TypeOK, CreationIndexExact, Live
<1>7. CASE ClearEntry(c)
  <2>1. txn' \in [Client -> Txn] /\ ValidReads' /\ NoneSkipped'
    BY <1>7, IdleIsTxn, QuietStep DEF ClearEntry, Idle
  <2> QED BY <1>7, <2>1 DEF ClearEntry, TypeOK, CreationIndexExact, Live
<1>8. CASE StoreCount(c)
  <2>1. txn[c].n \in Int32
    BY <1>0, <1>8, TxnByStep, CountsInRange DEF StoreCount
  <2>2. txn' \in [Client -> Txn] /\ ValidReads' /\ NoneSkipped'
    BY <1>8, IdleIsTxn, QuietStep DEF StoreCount, Idle
  <2> QED BY <1>8, <2>1, <2>2 DEF StoreCount, TypeOK, CreationIndexExact, Live
<1> QED BY <1>1, <1>2, <1>3, <1>4, <1>5, <1>6, <1>7, <1>8 DEF Proceed

LEMMA StepKeepsInd == IndInv /\ [Next]_vars => IndInv'
<1> SUFFICES ASSUME IndInv, [Next]_vars PROVE IndInv'
  OBVIOUS
<1> USE DEF IndInv
<1>1. CASE Restart
  <2>1. tweetsCounter' \in Int32
    BY <1>1, LiveIsFinite, CountsInRange, RepoAssumption DEF Restart
  <2>2. TypeOK'
    BY <1>1, <2>1, IdleIsTxn DEF Restart, TypeOK
  <2>3. CreationIndexExact'
    BY <1>1 DEF Restart, CreationIndexExact, Live
  <2>4. ValidReads' /\ NoneSkipped'
    BY <1>1 DEF Restart, ValidReads, NoneSkipped, Writing, Idle
  <2> QED BY <2>2, <2>3, <2>4
<1>2. ASSUME NEW e \in Entry, CheckRatingEntry(e)
      PROVE  IndInv'
  BY <1>2 DEF CheckRatingEntry, TypeOK, CreationIndexExact, Live, ValidReads, NoneSkipped, Writing
<1>3. ASSUME NEW t \in Tweet, CheckCreationEntry(t)
      PROVE  IndInv'
  <2>1. TypeOK'
    BY <1>3 DEF CheckCreationEntry, TypeOK
  <2>2. CreationIndexExact'
    BY <1>3 DEF CheckCreationEntry, CreationIndexExact, Live
  <2>3. ValidReads' /\ NoneSkipped'
    BY <1>3 DEF CheckCreationEntry, ValidReads, NoneSkipped, Writing
  <2> QED BY <2>1, <2>2, <2>3
<1>4. ASSUME NEW c \in Client, Call(c) \/ Proceed(c)
      PROVE  IndInv'
  BY <1>4, CallKeepsInd, ProceedKeepsInd
<1>5. CASE UNCHANGED vars
  BY <1>5 DEF vars, TypeOK, CreationIndexExact, Live, ValidReads, NoneSkipped, Writing
<1> QED BY <1>1, <1>2, <1>3, <1>4, <1>5 DEF Next, Sweep

(* The inductive invariant holds in every reachable state.                 *)
THEOREM Inductive == Spec => []IndInv
BY InitInd, StepKeepsInd, PTL DEF Spec

(* Rows, indexes, gauge and open calls keep their types.                   *)
THEOREM TypeCorrect == Spec => []TypeOK
BY Inductive, PTL DEF IndInv

(* The creation index lists exactly the rows, whatever is retried blindly. *)
THEOREM CreationIndexIsExact == Spec => []CreationIndexExact
BY Inductive, PTL DEF IndInv
-------------------------------------------------------------------------------
(* The repository implements the abstract table: a write of a call is one  *)
(* Put or Drop, every other step changes neither rows nor listing.         *)
LEMMA WriteIsTableStep ==
    ASSUME NEW x \in SaveTxn \cup DeleteTxn, Write(x)
    PROVE  Table!Next
<1>1. CASE x \in SaveTxn
  <2>1. x.id \in Tweet /\ x.new \in Snapshot /\ SaveWrites(x)
    BY <1>1 DEF Write, SaveTxn
  <2> QED BY <2>1 DEF SaveWrites, Table!Next, Table!Put
<1>2. CASE x \in DeleteTxn
  <2>1. x.id \in Tweet /\ DeleteWrites(x)
    BY <1>2 DEF Write, DeleteTxn
  <2> QED BY <2>1 DEF DeleteWrites, Table!Next, Table!Drop
<1> QED BY <1>1, <1>2

LEMMA StepIsTableStep ==
    IndInv /\ [Next]_vars => [Table!Next]_<<tweets, creationIdx>>
<1> SUFFICES ASSUME IndInv, [Next]_vars PROVE [Table!Next]_<<tweets, creationIdx>>
  OBVIOUS
<1>1. ASSUME NEW c \in Client, Commit(c) \/ CommitUnknown(c)
      PROVE  Table!Next
  <2>1. txn[c] \in SaveTxn \cup DeleteTxn
    BY <1>1, TxnByStep DEF Commit, CommitUnknown, Writing, IndInv, TypeOK
  <2> QED BY <1>1, <2>1, WriteIsTableStep DEF Commit, CommitUnknown
<1>2. ASSUME NEW t \in Tweet, CheckCreationEntry(t)
      PROVE  UNCHANGED <<tweets, creationIdx>>
  BY <1>2 DEF CheckCreationEntry, IndInv, CreationIndexExact
<1>3. CASE Restart \/ UNCHANGED vars \/ \E e \in Entry : CheckRatingEntry(e)
  BY <1>3 DEF Restart, vars, CheckRatingEntry
<1>4. ASSUME NEW c \in Client, Call(c)
      PROVE  UNCHANGED <<tweets, creationIdx>>
  BY <1>4 DEF Call, Save, DeleteTweet, ScanRatings, Count
<1>5. ASSUME NEW c \in Client, Retry(c) \/ CommitFails(c) \/ AddToCounter(c) \/ LookupRow(c)
                               \/ ClearEntry(c) \/ StoreCount(c)
      PROVE  UNCHANGED <<tweets, creationIdx>>
  BY <1>5 DEF Retry, CommitFails, AddToCounter, LookupRow, ClearEntry, StoreCount
<1> QED BY <1>1, <1>2, <1>3, <1>4, <1>5 DEF Next, Sweep, Proceed

(* Every behaviour of the repository is one of the abstract table.         *)
THEOREM ImplementsTable == Spec => TableSpec
<1>1. Init => Table!Init
  BY DEF Init, Table!Init
<1> QED BY <1>1, Inductive, StepIsTableStep, PTL DEF Spec, TableSpec, Table!Spec
-------------------------------------------------------------------------------
(* Steps that write no row and add no entry: all but the commits.          *)
LEMMA OnlyCommitsWrite ==
    ASSUME IndInv, [Next]_vars,
           ~ \E c \in Client : Commit(c) \/ CommitUnknown(c)
    PROVE  tweets' = tweets /\ ratingIdx' \subseteq ratingIdx
<1>1. CASE Restart \/ Sweep \/ UNCHANGED vars
  BY <1>1 DEF Restart, Sweep, CheckRatingEntry, CheckCreationEntry, vars
<1>2. ASSUME NEW c \in Client, Call(c)
      PROVE  UNCHANGED <<tweets, ratingIdx>>
  BY <1>2 DEF Call, Save, DeleteTweet, ScanRatings, Count
<1>3. ASSUME NEW c \in Client, Retry(c) \/ CommitFails(c) \/ AddToCounter(c)
                               \/ LookupRow(c) \/ StoreCount(c)
      PROVE  UNCHANGED <<tweets, ratingIdx>>
  BY <1>3 DEF Retry, CommitFails, AddToCounter, LookupRow, StoreCount
<1>4. ASSUME NEW c \in Client, ClearEntry(c)
      PROVE  tweets' = tweets /\ ratingIdx' \subseteq ratingIdx
  BY <1>4 DEF ClearEntry
<1> QED BY <1>1, <1>2, <1>3, <1>4 DEF Next, Proceed

(* What a commit on valid reads writes, in terms of the row it replaces.   *)
LEMMA ValidWrite ==
    ASSUME IndInv, NEW c \in Client, Commit(c) \/ CommitUnknown(c), ~ BlindWrite(c)
    PROVE  /\ txn[c] \in SaveTxn \cup DeleteTxn
           /\ tweets[txn[c].id] = txn[c].old
           /\ Write(txn[c])
<1>1. txn[c] \in SaveTxn \cup DeleteTxn
  BY TxnByStep DEF Commit, CommitUnknown, Writing, IndInv, TypeOK
<1>2. Writing(c) /\ Write(txn[c]) /\ txn[c].check \notin {"stale", "blind"}
  BY DEF Commit, CommitUnknown, BlindWrite
<1>3. txn[c].check = "valid"
  BY <1>1, <1>2 DEF SaveTxn, DeleteTxn, Check
<1> QED BY <1>1, <1>2, <1>3 DEF IndInv, ValidReads

LEMMA DanglingStep ==
    IndInv /\ [Next]_vars
    => Dangling' \subseteq Dangling \/ \E c \in Client : BlindWrite(c)
<1> SUFFICES ASSUME IndInv, [Next]_vars, \A c \in Client : ~ BlindWrite(c)
             PROVE  Dangling' \subseteq Dangling
  OBVIOUS
<1>1. CASE ~ \E c \in Client : Commit(c) \/ CommitUnknown(c)
  BY <1>1, OnlyCommitsWrite DEF Dangling, Live
<1>2. ASSUME NEW c \in Client, Commit(c) \/ CommitUnknown(c)
      PROVE  Dangling' \subseteq Dangling
  <2> DEFINE x == txn[c]
  <2>1. x \in SaveTxn \cup DeleteTxn /\ tweets[x.id] = x.old /\ Write(x)
    BY <1>2, ValidWrite
  <2>2. tweets \in [Tweet -> Row] /\ ratingIdx \subseteq Entry
    BY DEF IndInv, TypeOK
  <2>3. CASE x \in SaveTxn
    <3>1. SaveWrites(x) /\ x.id \in Tweet /\ x.new \in Snapshot
      BY <2>1, <2>3 DEF Write, SaveTxn
    <3>2. x.new # NoTweet
      BY <3>1, RepoAssumption
    <3> QED BY <2>1, <2>2, <3>1, <3>2 DEF SaveWrites, WithoutOld, Dangling, Live, Entry
  <2>4. CASE x \in DeleteTxn
    <3>1. DeleteWrites(x) /\ x.id \in Tweet
      BY <2>1, <2>4 DEF Write, DeleteTxn
    <3>2. x.old # NoTweet
      BY <2>4, RepoAssumption DEF DeleteTxn
    <3> QED BY <2>1, <2>2, <3>1, <3>2 DEF DeleteWrites, WithoutOld, Dangling, Live, Entry
  <2> QED BY <2>1, <2>3, <2>4
<1> QED BY <1>1, <1>2

(* Only a blind replay leaves an entry of the rating index behind.         *)
THEOREM DanglingNeedsBlindWrite == Spec => DanglingOnlyByBlindWrite
BY Inductive, DanglingStep, PTL DEF Spec, DanglingOnlyByBlindWrite

LEMMA SameIsNotOlder ==
    ASSUME NEW t \in Tweet, OlderThanRow(t), tweets[t] \in Snapshot, tweets'[t] = tweets[t]
    PROVE  FALSE
<1>1. tweets[t].checkedAt \in Int
  BY RepoAssumption DEF Snapshot
<1>2. tweets[t].checkedAt < tweets[t].checkedAt
  BY DEF OlderThanRow
<1> QED BY <1>1, <1>2

LEMMA OlderStep ==
    IndInv /\ [Next]_vars
    => ((\E t \in Tweet : OlderThanRow(t)) => \E c \in Client : BlindWrite(c))
<1> SUFFICES ASSUME IndInv, [Next]_vars, \A c \in Client : ~ BlindWrite(c),
                    NEW t \in Tweet, OlderThanRow(t)
             PROVE  FALSE
  OBVIOUS
<1>1. CASE ~ \E c \in Client : Commit(c) \/ CommitUnknown(c)
  <2>1. tweets' = tweets /\ tweets[t] \in Snapshot
    BY <1>1, OnlyCommitsWrite DEF OlderThanRow, Live, IndInv, TypeOK, Row
  <2> QED BY <2>1, SameIsNotOlder
<1>2. ASSUME NEW c \in Client, Commit(c) \/ CommitUnknown(c)
      PROVE  FALSE
  <2> DEFINE x == txn[c]
  <2>1. x \in SaveTxn \cup DeleteTxn /\ tweets[x.id] = x.old /\ Write(x)
    BY <1>2, ValidWrite
  <2>2. tweets \in [Tweet -> Row] /\ tweets[t] \in Snapshot
    BY DEF IndInv, TypeOK, OlderThanRow, Live, Row
  <2>3. CASE x \in SaveTxn
    <3>1. SaveWrites(x) /\ x.new \in Snapshot /\ x.step = "save"
      BY <2>1, <2>3 DEF Write, SaveTxn
    <3>2. ~ Skipped(x.old, x.new)
      BY <3>1 DEF IndInv, NoneSkipped
    <3>3. CASE t = x.id
      <4>1. tweets'[t] = x.new /\ tweets[t] = x.old /\ x.old # NoTweet
        BY <2>1, <2>2, <3>1, <3>3 DEF SaveWrites, OlderThanRow, Live
      <4>2. ~ (x.old.checkedAt > x.new.checkedAt)
        BY <3>2, <4>1 DEF Skipped
      <4> QED BY <2>2, <3>1, <4>1, <4>2, RepoAssumption DEF OlderThanRow, Snapshot
    <3>4. CASE t # x.id
      BY <2>2, <3>1, <3>4, SameIsNotOlder DEF SaveWrites
    <3> QED BY <3>3, <3>4
  <2>4. CASE x \in DeleteTxn
    <3>1. DeleteWrites(x)
      BY <2>1, <2>4 DEF Write, DeleteTxn
    <3>2. t # x.id
      BY <2>2, <3>1 DEF DeleteWrites, OlderThanRow, Live
    <3> QED BY <2>2, <3>1, <3>2, SameIsNotOlder DEF DeleteWrites
  <2> QED BY <2>1, <2>3, <2>4
<1> QED BY <1>1, <1>2

(* Only a blind replay puts an older snapshot over a newer one.            *)
THEOREM OlderNeedsBlindWrite == Spec => OlderOnlyByBlindWrite
BY Inductive, OlderStep, PTL DEF Spec, OlderOnlyByBlindWrite
-------------------------------------------------------------------------------
LEMMA HideStep ==
    IndInv /\ [Next]_vars
    => \/ Hidden' \subseteq Hidden
       \/ \E c \in Client : /\ ClearEntry(c)
                            /\ Hidden' \subseteq Hidden \cup {txn[c].entry[2]}
<1> SUFFICES ASSUME IndInv, [Next]_vars
             PROVE  \/ Hidden' \subseteq Hidden
                    \/ \E c \in Client : /\ ClearEntry(c)
                                         /\ Hidden' \subseteq Hidden \cup {txn[c].entry[2]}
  OBVIOUS
<1>1. ASSUME NEW c \in Client, Commit(c) \/ CommitUnknown(c)
      PROVE  Hidden' \subseteq Hidden
  <2> DEFINE x == txn[c]
  <2>1. x \in SaveTxn \cup DeleteTxn /\ Write(x)
    BY <1>1, TxnByStep DEF Commit, CommitUnknown, Writing, IndInv, TypeOK
  <2>2. tweets \in [Tweet -> Row]
    BY DEF IndInv, TypeOK
  <2>3. CASE x \in SaveTxn
    <3>1. SaveWrites(x) /\ x.id \in Tweet
      BY <2>1, <2>3 DEF Write, SaveTxn
    <3> QED BY <2>2, <3>1 DEF SaveWrites, WithoutOld, Hidden, Live
  <2>4. CASE x \in DeleteTxn
    <3>1. DeleteWrites(x) /\ x.id \in Tweet
      BY <2>1, <2>4 DEF Write, DeleteTxn
    <3> QED BY <2>2, <3>1 DEF DeleteWrites, WithoutOld, Hidden, Live
  <2> QED BY <2>1, <2>3, <2>4
<1>2. ASSUME NEW c \in Client, ClearEntry(c)
      PROVE  Hidden' \subseteq Hidden \cup {txn[c].entry[2]}
  <2>1. txn[c].entry \in Entry
    BY <1>2, TxnByStep DEF ClearEntry, IndInv, TypeOK
  <2>2. txn[c].entry = <<txn[c].entry[1], txn[c].entry[2]>>
    BY <2>1 DEF Entry
  <2>3. \A t \in Tweet : <<tweets[t].rating, t>> = txn[c].entry => t = txn[c].entry[2]
    BY <2>2
  <2> QED BY <1>2, <2>3 DEF ClearEntry, Hidden, Live
<1>3. ASSUME NEW e \in Entry, CheckRatingEntry(e)
      PROVE  Hidden' \subseteq Hidden
  <2>1. \A t \in Tweet : <<tweets[t].rating, t>> = e => t = e[2]
    BY DEF Entry
  <2> QED BY <1>3, <2>1 DEF CheckRatingEntry, Hidden, Live
<1>4. CASE Restart \/ UNCHANGED vars \/ \E t \in Tweet : CheckCreationEntry(t)
  BY <1>4 DEF Restart, vars, CheckCreationEntry, Hidden, Live
<1>5. ASSUME NEW c \in Client, Call(c)
      PROVE  Hidden' \subseteq Hidden
  <2>1. UNCHANGED <<tweets, ratingIdx>>
    BY <1>5 DEF Call, Save, DeleteTweet, ScanRatings, Count
  <2> QED BY <2>1 DEF Hidden, Live
<1>6. ASSUME NEW c \in Client, Retry(c) \/ CommitFails(c) \/ AddToCounter(c)
                               \/ LookupRow(c) \/ StoreCount(c)
      PROVE  Hidden' \subseteq Hidden
  <2>1. UNCHANGED <<tweets, ratingIdx>>
    BY <1>6 DEF Retry, CommitFails, AddToCounter, LookupRow, StoreCount
  <2> QED BY <2>1 DEF Hidden, Live
<1> QED BY <1>1, <1>2, <1>3, <1>4, <1>5, <1>6 DEF Next, Sweep, Proceed

(* Only the late Clear of a scan takes a row out of updateOldestFast's     *)
(* sight.                                                                  *)
THEOREM HidingNeedsLateClear == Spec => OnlyLateClearHides
BY Inductive, HideStep, PTL DEF Spec, OnlyLateClearHides
-------------------------------------------------------------------------------
LEMMA TallyingIsFinite ==
    ASSUME NEW n \in {-1, 1}
    PROVE  IsFiniteSet(Tallying(n)) /\ Cardinality(Tallying(n)) \in Nat
BY RepoAssumption, FS_Subset, FS_CardinalityType DEF Tallying

(* The clients about to move the gauge, when only client c moves on.       *)
LEMMA TallyingMoves ==
    ASSUME TypeOK, NEW c \in Client, NEW y \in Txn, txn'[c] = y,
           \A d \in Client \ {c} : \A n \in {-1, 1} : txn'[d] = Tally(n) <=> txn[d] = Tally(n),
           NEW n \in {-1, 1}
    PROVE  /\ txn[c] # Tally(n) /\ y # Tally(n) => Tallying(n)' = Tallying(n)
           /\ txn[c] # Tally(n) /\ y = Tally(n)
              => Cardinality(Tallying(n)') = Cardinality(Tallying(n)) + 1
           /\ txn[c] = Tally(n) /\ y # Tally(n)
              => Cardinality(Tallying(n)') = Cardinality(Tallying(n)) - 1
<1>1. ASSUME txn[c] # Tally(n), y # Tally(n)
      PROVE  Tallying(n)' = Tallying(n)
  BY <1>1 DEF Tallying, Tally
<1>2. ASSUME txn[c] # Tally(n), y = Tally(n)
      PROVE  Cardinality(Tallying(n)') = Cardinality(Tallying(n)) + 1
  <2>1. Tallying(n)' = Tallying(n) \cup {c} /\ c \notin Tallying(n)
    BY <1>2 DEF Tallying, Tally
  <2> QED BY <2>1, TallyingIsFinite, FS_AddElement
<1>3. ASSUME txn[c] = Tally(n), y # Tally(n)
      PROVE  Cardinality(Tallying(n)') = Cardinality(Tallying(n)) - 1
  <2>1. Tallying(n)' = Tallying(n) \ {c} /\ c \in Tallying(n)
    BY <1>3 DEF Tallying, Tally
  <2> QED BY <2>1, TallyingIsFinite, FS_RemoveElement
<1> QED BY <1>1, <1>2, <1>3

LEMMA AddKeepsDrift ==
    ASSUME IndInv, NEW c \in Client, AddToCounter(c)
    PROVE  Drift' - Drift \in {-Width, 0, Width}
<1>1. txn[c].by \in {-1, 1} /\ txn[c] \in OtherTxn
  BY TxnByStep DEF AddToCounter, IndInv, TypeOK, Txn, SaveTxn, DeleteTxn
<1>2. txn[c] = Tally(txn[c].by)
  BY <1>1 DEF AddToCounter, OtherTxn, Idle, Tally
<1>3. txn'[c] = Idle /\ \A d \in Client \ {c} : txn'[d] = txn[d]
  BY DEF AddToCounter, IndInv, TypeOK
<1>4. Tally(1) # Tally(-1) /\ Idle # Tally(1) /\ Idle # Tally(-1)
  BY DEF Tally, Idle
<1>5. /\ Live' = Live
      /\ tweetsCounter' = Wrapped(tweetsCounter + txn[c].by)
      /\ tweetsCounter \in Int32 /\ tweetsCounter' \in Int32
  BY <1>1, WrappedStep DEF AddToCounter, Live, IndInv, TypeOK
<1>9. /\ tweetsCounter \in Int /\ tweetsCounter' \in Int /\ Width \in Int
      /\ tweetsCounter' - (tweetsCounter + txn[c].by) \in {-Width, 0, Width}
  BY <1>1, <1>5, WrappedStep, CountsInRange, RepoAssumption DEF Width
<1>6. /\ Cardinality(Tallying(1)) \in Nat /\ Cardinality(Tallying(-1)) \in Nat
      /\ Cardinality(Live) \in Nat
  BY TallyingIsFinite, LiveIsFinite
<1>7. CASE txn[c].by = 1
  <2>1. Cardinality(Tallying(1)') = Cardinality(Tallying(1)) - 1
    BY <1>2, <1>3, <1>4, <1>7, IdleIsTxn, TallyingMoves DEF IndInv
  <2>2. Tallying(-1)' = Tallying(-1)
    BY <1>2, <1>3, <1>4, <1>7, IdleIsTxn, TallyingMoves DEF IndInv
  <2> QED BY <1>5, <1>6, <1>7, <1>9, <2>1, <2>2 DEF Drift
<1>8. CASE txn[c].by = -1
  <2>1. Cardinality(Tallying(-1)') = Cardinality(Tallying(-1)) - 1
    BY <1>2, <1>3, <1>4, <1>8, IdleIsTxn, TallyingMoves DEF IndInv
  <2>2. Tallying(1)' = Tallying(1)
    BY <1>2, <1>3, <1>4, <1>8, IdleIsTxn, TallyingMoves DEF IndInv
  <2> QED BY <1>5, <1>6, <1>8, <1>9, <2>1, <2>2 DEF Drift
<1> QED BY <1>1, <1>7, <1>8

LEMMA CommitKeepsDrift ==
    ASSUME IndInv, NEW c \in Client, Commit(c), txn[c].check = "valid"
    PROVE  Drift' - Drift = 0
<1> DEFINE x == txn[c]  y == AfterCommit(x)
<1>1. x \in SaveTxn \cup DeleteTxn /\ tweets[x.id] = x.old /\ Write(x)
  BY TxnByStep DEF Commit, Writing, IndInv, TypeOK, ValidReads
<1>2. /\ y \in Txn /\ txn'[c] = y
      /\ \A d \in Client \ {c} : \A n \in {-1, 1} : txn'[d] = Tally(n) <=> txn[d] = Tally(n)
  <2>1. y \in Txn
    BY AfterIsTxn DEF IndInv, TypeOK
  <2>2. txn'[c] = y
    BY DEF Commit, Written
  <2>3. ASSUME NEW d \in Client \ {c}, NEW n \in {-1, 1}
        PROVE  txn'[d] = Tally(n) <=> txn[d] = Tally(n)
    <3>1. CASE txn'[d] = txn[d]
      BY <3>1
    <3>2. CASE txn'[d] # txn[d]
      <4>1. Writing(d) /\ txn'[d] = [txn[d] EXCEPT !.check = "stale"]
        BY <3>2 DEF Commit, Written
      <4>2. txn[d] \in SaveTxn \cup DeleteTxn
        BY <4>1, TxnByStep DEF Writing, IndInv, TypeOK
      <4>3. txn'[d].step \in {"save", "delete"}
        BY <4>1, <4>2 DEF SaveTxn, DeleteTxn
      <4> QED BY <4>1, <4>3 DEF Writing, Tally
    <3> QED BY <3>1, <3>2
  <2> QED BY <2>1, <2>2, <2>3
<1>3. /\ Tally(1) # Tally(-1) /\ Idle # Tally(1) /\ Idle # Tally(-1)
      /\ x # Tally(1) /\ x # Tally(-1)
  BY <1>1 DEF Tally, Idle, SaveTxn, DeleteTxn
<1>4. tweetsCounter' = tweetsCounter /\ tweetsCounter \in Int
  BY CountsInRange DEF Commit, IndInv, TypeOK
<1>5. /\ Cardinality(Tallying(1)) \in Nat /\ Cardinality(Tallying(-1)) \in Nat
      /\ Cardinality(Live) \in Nat /\ IsFiniteSet(Live)
  BY TallyingIsFinite, LiveIsFinite
<1>6. CASE x \in SaveTxn
  <2>1. SaveWrites(x) /\ x.id \in Tweet /\ x.new # NoTweet /\ x.step = "save"
    BY <1>1, <1>6, RepoAssumption DEF Write, SaveTxn
  <2>2. Live' = Live \cup {x.id} /\ (x.id \in Live <=> x.old # NoTweet)
    BY <1>1, <2>1 DEF SaveWrites, Live, IndInv, TypeOK
  <2>3. CASE x.old = NoTweet
    <3>1. y = Tally(1)
      BY <2>1, <2>3 DEF AfterCommit, AfterSave
    <3>2. Cardinality(Live') = Cardinality(Live) + 1
      BY <1>5, <2>2, <2>3, FS_AddElement
    <3>3. Cardinality(Tallying(1)') = Cardinality(Tallying(1)) + 1
      BY <1>2, <1>3, <3>1, TallyingMoves DEF IndInv
    <3>4. Tallying(-1)' = Tallying(-1)
      BY <1>2, <1>3, <3>1, TallyingMoves DEF IndInv
    <3> QED BY <1>4, <1>5, <3>2, <3>3, <3>4 DEF Drift
  <2>4. CASE x.old # NoTweet
    <3>1. y = Idle
      BY <2>1, <2>4 DEF AfterCommit, AfterSave
    <3>2. Live' = Live
      BY <2>2, <2>4
    <3>3. Tallying(1)' = Tallying(1) /\ Tallying(-1)' = Tallying(-1)
      BY <1>2, <1>3, <3>1, TallyingMoves DEF IndInv
    <3> QED BY <1>4, <1>5, <3>2, <3>3 DEF Drift
  <2> QED BY <2>3, <2>4
<1>7. CASE x \in DeleteTxn
  <2>1. DeleteWrites(x) /\ x.id \in Tweet /\ x.old # NoTweet /\ x.step = "delete"
    BY <1>1, <1>7, RepoAssumption DEF Write, DeleteTxn
  <2>2. Live' = Live \ {x.id} /\ x.id \in Live
    BY <1>1, <2>1 DEF DeleteWrites, Live, IndInv, TypeOK
  <2>3. y = Tally(-1)
    BY <2>1 DEF AfterCommit
  <2>4. Cardinality(Live') = Cardinality(Live) - 1
    BY <1>5, <2>2, FS_RemoveElement
  <2>5. Cardinality(Tallying(-1)') = Cardinality(Tallying(-1)) + 1
    BY <1>2, <1>3, <2>3, TallyingMoves DEF IndInv
  <2>6. Tallying(1)' = Tallying(1)
    BY <1>2, <1>3, <2>3, TallyingMoves DEF IndInv
  <2> QED BY <1>4, <1>5, <2>4, <2>5, <2>6 DEF Drift
<1> QED BY <1>1, <1>6, <1>7

(* Commits on valid reads and their AddToCounter keep the gauge in step.   *)
THEOREM GaugeFollows == Spec => GaugeFollowsRows
<1>1. IndInv /\ [Next]_vars
      => ((\E c \in Client : (Commit(c) /\ txn[c].check = "valid") \/ AddToCounter(c))
          => Drift' - Drift \in {-Width, 0, Width})
  BY CommitKeepsDrift, AddKeepsDrift
<1> QED BY <1>1, Inductive, PTL DEF Spec, GaugeFollowsRows
===============================================================================

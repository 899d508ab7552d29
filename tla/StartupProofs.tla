----------------------------- MODULE StartupProofs -----------------------------
(***************************************************************************)
(* Proofs about Startup: its types, what a crash in the migrations may     *)
(* lose, where accounts without a cookie come from, and that finders share *)
(* neither proxies nor accounts.                                           *)
(***************************************************************************)
EXTENDS Startup, TLAPS

(* Panic and the end of an init, whatever called them.                     *)
LEMMA PanicTypes ==
    ASSUME TypeOK, Panic, faults' \in 0 .. MaxFaults
    PROVE  TypeOK'
<1>1. Len(config) \in Nat /\ config' = config
  <2>1. config \in Seq({"good", "bad"})
    BY StartupAssumption DEF TypeOK
  <2> QED
    BY <2>1 DEF Panic, stores
<1>2. proxies' \in 0 .. Len(config')
  BY <1>1 DEF Panic, Forgotten
<1>3. listed' \in [Account -> 0 .. 2]
  BY DEF Panic, Forgotten, Unlisted
<1>4. torn' \subseteq Version
  BY DEF Panic, TypeOK
<1> QED
  BY <1>1, <1>2, <1>3, <1>4 DEF Panic, Forgotten, TypeOK, stores

LEMMA InitEndsTypes ==
    ASSUME TypeOK, NEW left \in 0 .. Len(config), NEW failed \in SUBSET Account,
           InitEnds(left, failed), faults' \in 0 .. MaxFaults
    PROVE  TypeOK'
<1>1. CASE stage = "init"
  BY <1>1, PanicTypes DEF InitEnds
<1>2. CASE stage # "init"
  <2>1. listed' \in [Account -> 0 .. 2] /\ proxies' \in 0 .. Len(config')
    BY <1>2 DEF InitEnds, Unlisted, stores
  <2> QED
    BY <1>2, <2>1 DEF InitEnds, TypeOK, stores, main
<1> QED
  BY <1>1, <1>2

LEMMA ScanTypes ==
    ASSUME TypeOK, SearchUnAuthAccounts
    PROVE  /\ listed' \in [Account -> 0 .. 2] /\ repeated' \subseteq Account
           /\ \A a \in Account : listed'[a] > 0 => a \notin authAccounts
           /\ \A a \in Account : listed'[a] = 2 => a \in repeated'
           /\ repeated \subseteq repeated'
<1>1. PICK twice \in SUBSET (redis.accounts \ authAccounts) :
         /\ listed' = [a \in Account |->
                         IF a \notin redis.accounts \ authAccounts THEN 0
                         ELSE IF a \in twice THEN 2 ELSE 1]
         /\ repeated' = repeated \cup twice
  BY DEF SearchUnAuthAccounts
<1>2. redis.accounts \subseteq Account /\ repeated \subseteq Account
  BY DEF TypeOK
<1> QED
  BY <1>1, <1>2

LEMMA TakenLeft ==
    ASSUME TypeOK
    PROVE  /\ Len(config) \in Nat /\ proxies \in Nat /\ proxies <= Len(config)
           /\ Left \in 0 .. Len(config) /\ Taken \in Nat
           /\ Taken # Direct => Taken = Len(config) - Left /\ Left = proxies - 1
           /\ Left <= proxies
<1>1. Len(config) \in Nat
  <2>1. config \in Seq({"good", "bad"})
    BY StartupAssumption DEF TypeOK
  <2> QED
    BY <2>1
<1> QED
  BY <1>1 DEF TypeOK, Left, Taken, Direct

LEMMA TypesHold == TypeOK /\ [Next]_vars => TypeOK'
<1> SUFFICES ASSUME TypeOK, [Next]_vars PROVE TypeOK'
  OBVIOUS
<1>1. CASE Start
  BY <1>1 DEF Start, TypeOK, Ahead, FdbMigrations, FtoRMigrations, Version, stores, pool
<1>2. ASSUME NEW v \in Version, Up(v) PROVE TypeOK'
  BY <1>2 DEF Up, TypeOK, stores, pool
<1>3. ASSUME NEW v \in Version, UpFails(v) PROVE TypeOK'
  <2>1. faults' \in 0 .. MaxFaults
    BY <1>3 DEF UpFails, TypeOK
  <2> QED
    BY <1>3, <2>1, PanicTypes DEF UpFails
<1>4. ASSUME NEW v \in Version, WriteVersion(v) PROVE TypeOK'
  <2>1. v \in 0 .. 4
    BY DEF Version, FdbMigrations, FtoRMigrations
  <2> QED
    BY <1>4, <2>1 DEF WriteVersion, TypeOK, pool
<1>5. ASSUME NEW v \in Version, Commit(v) PROVE TypeOK'
  BY <1>5 DEF Commit, Done, TypeOK, pool
<1>6. ASSUME NEW v \in Version, Exec(v) PROVE TypeOK'
  <2>1. redis' \in [accounts : SUBSET Account, cookies : SUBSET Account, session : BOOLEAN]
    <3>1. redis' = Copied(v)
      BY <1>6 DEF Exec
    <3> QED
      BY <3>1 DEF Copied, TypeOK
  <2> QED
    BY <1>6, <2>1 DEF Exec, Done, TypeOK, pool
<1>7. CASE FdbMigrated
  BY <1>7 DEF FdbMigrated, TypeOK, Ahead, Version, stores, pool
<1>8. CASE FtoRMigrated
  BY <1>8, ScanTypes DEF FtoRMigrated, TypeOK, stores
<1>9. CASE Reinit
  BY <1>9, ScanTypes DEF Reinit, TypeOK, stores, main
<1>10. ASSUME NEW a \in Account, ProxyRefused(a) PROVE TypeOK'
  <2>1. proxies \in 0 .. Len(config) /\ faults' \in 0 .. MaxFaults /\ InitEnds(proxies, {})
    BY <1>10 DEF ProxyRefused, TypeOK
  <2> QED
    BY <2>1, InitEndsTypes
<1>11. ASSUME NEW a \in Account, AuthScrapper(a) PROVE TypeOK'
  <2>1. [login |-> a, proxy |-> Taken] \in Finder
    BY TakenLeft DEF Finder
  <2>2. listed[a] > 0 /\ listed \in [Account -> 0 .. 2]
    BY <1>11 DEF AuthScrapper, ProxySet, AtAccount, TypeOK
  <2>3. listed' \in [Account -> 0 .. 2]
    BY <1>11, <2>2 DEF AuthScrapper
  <2> QED
    BY <1>11, <2>1, <2>3, TakenLeft DEF AuthScrapper, TypeOK, stores, main
<1>12. ASSUME NEW a \in Account, AuthFails(a) PROVE TypeOK'
  <2>1. faults' \in 0 .. MaxFaults
    BY <1>12 DEF AuthFails, TypeOK
  <2>2. InitEnds(Left, {})
    BY <1>12 DEF AuthFails
  <2> QED
    BY <2>1, <2>2, TakenLeft, InitEndsTypes
<1>13. CASE StartFinder
  <2>1. PICK f \in opening : finders' = Append(finders, f)
    BY <1>13 DEF StartFinder
  <2>2. finders' \in Seq(Finder)
    BY <2>1 DEF TypeOK
  <2> QED
    BY <1>13, <2>2 DEF StartFinder, TypeOK, stores, main
<1>14. CASE StartFails
  <2>1. faults' \in 0 .. MaxFaults
    BY <1>14, StartupAssumption DEF StartFails, Fault, TypeOK
  <2>2. {f.login : f \in opening} \in SUBSET Account
    BY DEF TypeOK, Finder
  <2>3. proxies \in 0 .. Len(config) /\ InitEnds(proxies, {f.login : f \in opening})
    BY <1>14 DEF StartFails, TypeOK
  <2> QED
    BY <2>1, <2>2, <2>3, InitEndsTypes
<1>15. CASE InitDone
  BY <1>15 DEF InitDone, TypeOK, stores, pool
<1>16. ASSUME NEW a \in Account, SaveAccount(a) PROVE TypeOK'
  BY <1>16 DEF SaveAccount, TypeOK, main, pool
<1>17. ASSUME NEW a \in Account, SaveCookie(a) PROVE TypeOK'
  BY <1>17 DEF SaveCookie, TypeOK, main, pool
<1>18. CASE StoreSession
  BY <1>18 DEF StoreSession, TypeOK, main, pool
<1>19. CASE Crash
  <2>1. faults' \in 0 .. MaxFaults
    BY <1>19, StartupAssumption DEF Crash, Fault, TypeOK
  <2> QED
    BY <1>19, <2>1, PanicTypes DEF Crash
<1>20. CASE UNCHANGED vars
  BY <1>20 DEF vars, stores, main, pool, TypeOK
<1>21. ASSUME NEW a \in Account, LogInChanges(a) PROVE TypeOK'
  BY <1>21 DEF LogInChanges, TypeOK, main, pool
<1> QED
  BY <1>1, <1>2, <1>3, <1>4, <1>5, <1>6, <1>7, <1>8, <1>9, <1>10, <1>11, <1>12, <1>13,
     <1>14, <1>15, <1>16, <1>17, <1>18, <1>19, <1>20, <1>21 DEF Next, Main, Migrate, OpenPool

(* Every variable keeps its type, for any number of accounts, any lists of *)
(* proxies and any number of faults.                                       *)
THEOREM StartupTypeCorrect == Spec => []TypeOK
<1>1. Init => TypeOK
  <2> SUFFICES ASSUME Init PROVE TypeOK
    OBVIOUS
  <2>1. config \in Seq({"good", "bad"})
    BY StartupAssumption DEF Init
  <2>2. Len(config) \in Nat
    BY <2>1
  <2>3. faults \in 0 .. MaxFaults /\ proxies \in 0 .. Len(config)
    BY <2>2, StartupAssumption DEF Init
  <2>4. listed \in [Account -> 0 .. 2]
    BY DEF Init, Unlisted
  <2>5. /\ old \in [accounts : SUBSET Account, cookies : SUBSET Account, session : BOOLEAN]
        /\ redis \in [accounts : SUBSET Account, cookies : SUBSET Account, session : BOOLEAN]
        /\ version \in 0 .. 4 /\ finders \in Seq(Finder) /\ opening = {}
    BY DEF Init
  <2> QED
    BY <2>3, <2>4, <2>5 DEF Init, TypeOK
<1> QED
  BY <1>1, TypesHold, PTL DEF Spec
-------------------------------------------------------------------------------
(* Between the migrations and inside of one, todo follows the version that *)
(* is in the database: what has been written there is what a crash loses.  *)
MigInv ==
    /\ stage \notin {"fdb", "ftor"} => todo = {} /\ step = "up"
    /\ stage \notin {"down", "fdb"} => version >= 1
    /\ step = "version" => todo # {}
    /\ step = "exec" => stage # "fdb"
    /\ step \in {"up", "version"} =>
          /\ stage = "fdb" => todo = Ahead(FdbMigrations)
          /\ stage = "ftor" => todo = Ahead(FtoRMigrations)
    /\ step \in {"commit", "exec"} =>
          /\ stage = "fdb" => version = 1 /\ todo = {1}
          /\ stage = "ftor" => version >= 2 /\ todo = {v \in FtoRMigrations : v >= version}

StartInv == TypeOK /\ MigInv /\ SkippedOnlyIfTorn /\ CookielessNeedsTear

(* The migration that is running is the next one before its version is     *)
(* written and the last one afterwards.                                    *)
LEMMA RunningMigration ==
    ASSUME TypeOK, MigInv, NEW v \in Version, NEW s, At(v, s)
    PROVE  /\ stage = "fdb" \/ (stage = "ftor" /\ v >= 2)
           /\ s \in {"up", "version"} => v = version + 1
           /\ s \in {"commit", "exec"} => v = version
<1>1. v \in todo /\ (\A w \in todo : v <= w) /\ step = s
  BY DEF At
<1>2. stage \in {"fdb", "ftor"}
  BY <1>1 DEF MigInv
<1>3. version \in 0 .. 4 /\ v \in 1 .. 4
  BY DEF TypeOK, Version, FdbMigrations, FtoRMigrations
<1>4. CASE s \in {"up", "version"} /\ stage = "fdb"
  BY <1>1, <1>3, <1>4 DEF MigInv, Ahead, FdbMigrations
<1>5. CASE s \in {"up", "version"} /\ stage = "ftor"
  <2>1. version >= 1 /\ v > version /\ version + 1 \in 1 .. 4 /\ version + 1 \in todo
    BY <1>1, <1>3, <1>5 DEF MigInv, Ahead, FtoRMigrations
  <2> QED
    BY <1>1, <1>3, <1>5, <2>1
<1>6. CASE s \in {"commit", "exec"} /\ stage = "fdb"
  BY <1>1, <1>6 DEF MigInv
<1>7. CASE s \in {"commit", "exec"} /\ stage = "ftor"
  <2>1. version >= 2 /\ v >= version /\ version \in todo
    BY <1>1, <1>3, <1>7 DEF MigInv, FtoRMigrations
  <2> QED
    BY <1>1, <1>3, <1>7, <2>1
<1>8. s \in {"up", "version", "commit", "exec"}
  BY <1>1 DEF TypeOK
<1> QED
  BY <1>2, <1>4, <1>5, <1>6, <1>7, <1>8

LEMMA PanicMigrations ==
    ASSUME StartInv, Panic
    PROVE  MigInv' /\ SkippedOnlyIfTorn' /\ CookielessNeedsTear'
<1>1. /\ stage' = "down" /\ todo' = {} /\ step' = "up" /\ torn \subseteq torn'
      /\ version' = version /\ created' = created /\ redis' = redis /\ old' = old
      /\ added' = added
  BY DEF Panic, Forgotten, stores
<1>2. MigInv'
  BY <1>1 DEF MigInv
<1>3. ASSUME NEW v \in Version, v <= version, v \in todo PROVE v \in torn'
  <2>1. version \in 0 .. 4 /\ v \in 1 .. 4
    BY DEF StartInv, TypeOK, Version, FdbMigrations, FtoRMigrations
  <2>2. step \in {"commit", "exec"}
    BY <1>3, <2>1 DEF StartInv, TypeOK, MigInv, Ahead
  <2>3. \A w \in todo : v <= w
    BY <1>3, <2>1, <2>2 DEF StartInv, TypeOK, MigInv, FtoRMigrations
  <2>4. At(v, "commit") \/ At(v, "exec")
    BY <1>3, <2>2, <2>3 DEF At
  <2> QED
    BY <1>3, <2>4 DEF Panic
<1>4. SkippedOnlyIfTorn'
  <2>1. \A v \in Version : Moved(v) => Moved(v)'
    BY <1>1 DEF Moved
  <2> QED
    BY <1>1, <1>3, <2>1 DEF StartInv, SkippedOnlyIfTorn
<1>5. CookielessNeedsTear'
  BY <1>1 DEF StartInv, CookielessNeedsTear
<1> QED
  BY <1>2, <1>4, <1>5

(* What leaves the migrations alone and only adds to Redis.                *)
LEMMA OthersKeep ==
    ASSUME StartInv,
           version' = version, created' = created, old' = old, todo' = todo, step' = step,
           stage' = stage \/ (stage \in {"init", "running"} /\ stage' \in {"init", "running"}),
           torn' = torn, added \subseteq added',
           redis.accounts \subseteq redis'.accounts, redis.cookies \subseteq redis'.cookies,
           redis.session => redis'.session,
           redis'.accounts \subseteq redis.accounts \cup added'
    PROVE  MigInv' /\ SkippedOnlyIfTorn' /\ CookielessNeedsTear'
<1>1. MigInv'
  BY DEF StartInv, MigInv, Ahead
<1>2. \A v \in Version : Moved(v) => Moved(v)'
  BY DEF Moved
<1>3. SkippedOnlyIfTorn'
  BY <1>2 DEF StartInv, SkippedOnlyIfTorn
<1>4. CookielessNeedsTear'
  BY DEF StartInv, CookielessNeedsTear
<1> QED
  BY <1>1, <1>3, <1>4

LEMMA InitEndsMigrations ==
    ASSUME StartInv, NEW left, NEW failed, InitEnds(left, failed)
    PROVE  MigInv' /\ SkippedOnlyIfTorn' /\ CookielessNeedsTear'
<1>1. CASE stage = "init"
  BY <1>1, PanicMigrations DEF InitEnds
<1>2. CASE stage # "init"
  BY <1>2, OthersKeep DEF InitEnds, stores, main
<1> QED
  BY <1>1, <1>2

LEMMA StartKeeps ==
    ASSUME StartInv, Start \/ FdbMigrated \/ FtoRMigrated
    PROVE  MigInv' /\ SkippedOnlyIfTorn' /\ CookielessNeedsTear'
<1>1. /\ version' = version /\ created' = created /\ redis' = redis /\ old' = old
      /\ added' = added /\ torn' = torn /\ step' = step /\ version \in 0 .. 4
  BY DEF StartInv, TypeOK, Start, FdbMigrated, FtoRMigrated, stores
<1>2. todo = {}
  BY DEF StartInv, MigInv, Start, FdbMigrated, FtoRMigrated
<1>3. step = "up"
  <2>1. step \in {"up", "version", "commit", "exec"} /\ version \in 0 .. 4
    BY DEF StartInv, TypeOK
  <2>2. CASE Start
    BY <2>2 DEF StartInv, MigInv, Start
  <2>3. CASE FdbMigrated
    BY <1>2, <2>1, <2>3 DEF StartInv, MigInv, FdbMigrated
  <2>4. CASE FtoRMigrated
    <3>1. version >= 2 => version \in {v \in FtoRMigrations : v >= version}
      BY <2>1 DEF FtoRMigrations
    <3>2. step \notin {"commit", "exec"}
      BY <1>2, <3>1, <2>4 DEF StartInv, MigInv, FtoRMigrated
    <3> QED
      BY <1>2, <2>1, <3>2 DEF StartInv, MigInv
  <2> QED
    BY <2>2, <2>3, <2>4
<1>4. MigInv'
  <2>1. CASE Start
    BY <1>1, <1>3, <2>1 DEF MigInv, Start, Ahead
  <2>2. CASE FdbMigrated
    <3>1. version >= 1
      BY <1>1, <1>2, <1>3, <2>2 DEF StartInv, MigInv, FdbMigrated, Ahead, FdbMigrations
    <3> QED
      BY <1>1, <1>3, <2>2, <3>1 DEF MigInv, FdbMigrated, Ahead
  <2>3. CASE FtoRMigrated
    BY <1>1, <1>2, <1>3, <2>3 DEF StartInv, MigInv, FtoRMigrated
  <2> QED
    BY <2>1, <2>2, <2>3
<1>5. SkippedOnlyIfTorn'
  <2>1. \A v \in Version : Moved(v) => Moved(v)'
    BY <1>1 DEF Moved
  <2> QED
    BY <1>1, <1>2, <2>1 DEF StartInv, SkippedOnlyIfTorn
<1>6. CookielessNeedsTear'
  BY <1>1 DEF StartInv, CookielessNeedsTear
<1> QED
  BY <1>4, <1>5, <1>6

LEMMA UpKeeps ==
    ASSUME StartInv, NEW v \in Version, Up(v)
    PROVE  MigInv' /\ SkippedOnlyIfTorn' /\ CookielessNeedsTear'
<1>1. /\ version' = version /\ created' = created /\ redis' = redis /\ old' = old
      /\ added' = added /\ torn' = torn /\ todo' = todo /\ stage' = stage
      /\ step = "up" /\ step' = "version" /\ v \in todo
  BY DEF Up, At, stores
<1>2. MigInv'
  BY <1>1 DEF StartInv, MigInv, Ahead
<1>3. \A w \in Version : Moved(w) => Moved(w)'
  BY <1>1 DEF Moved
<1> QED
  BY <1>1, <1>2, <1>3 DEF StartInv, SkippedOnlyIfTorn, CookielessNeedsTear

LEMMA WriteVersionKeeps ==
    ASSUME StartInv, NEW v \in Version, WriteVersion(v)
    PROVE  MigInv' /\ SkippedOnlyIfTorn' /\ CookielessNeedsTear'
<1>1. /\ version' = v /\ created' = created /\ redis' = redis /\ old' = old
      /\ added' = added /\ torn' = torn /\ todo' = todo /\ stage' = stage
      /\ At(v, "version") /\ v \in todo /\ step = "version" /\ step' = "commit"
  BY DEF WriteVersion, At
<1>2. /\ stage = "fdb" \/ (stage = "ftor" /\ v >= 2)
      /\ v = version + 1
  BY <1>1, RunningMigration DEF StartInv
<1>3. version \in 0 .. 4 /\ v \in 1 .. 4
  BY DEF StartInv, TypeOK, Version, FdbMigrations, FtoRMigrations
<1>4. MigInv'
  <2>1. CASE stage = "fdb"
    <3>1. todo = {w \in {1} : w > version}
      BY <1>1, <2>1 DEF StartInv, MigInv, Ahead, FdbMigrations
    <3>2. v = 1 /\ todo = {1}
      BY <1>1, <3>1
    <3> QED
      BY <1>1, <2>1, <3>2 DEF MigInv
  <2>2. CASE stage = "ftor"
    <3>1. todo = {w \in FtoRMigrations : w > version}
      BY <1>1, <2>2 DEF StartInv, MigInv, Ahead
    <3>2. \A w \in FtoRMigrations : w > version <=> w >= v
      BY <1>2, <1>3 DEF FtoRMigrations
    <3>3. todo = {w \in FtoRMigrations : w >= v}
      BY <3>1, <3>2
    <3> QED
      BY <1>1, <1>2, <1>3, <2>2, <3>3 DEF MigInv
  <2> QED
    BY <1>2, <2>1, <2>2
<1>5. SkippedOnlyIfTorn'
  <2>1. \A w \in Version : Moved(w) => Moved(w)'
    BY <1>1 DEF Moved
  <2> SUFFICES ASSUME NEW w \in Version, w <= v, w \notin todo
               PROVE  Moved(w)' \/ w \in torn
    BY <1>1 DEF SkippedOnlyIfTorn
  <2>2. w # v /\ w \in 1 .. 4
    BY <1>1 DEF Version, FdbMigrations, FtoRMigrations
  <2>3. w <= version
    BY <1>2, <1>3, <2>2
  <2> QED
    BY <2>1, <2>3 DEF StartInv, SkippedOnlyIfTorn
<1>6. CookielessNeedsTear'
  BY <1>1 DEF StartInv, CookielessNeedsTear
<1> QED
  BY <1>4, <1>5, <1>6

LEMMA DoneKeeps ==
    ASSUME StartInv, NEW v \in Version, At(v, step), step \in {"commit", "exec"}, Done(v),
           version' = version, stage' = stage
    PROVE  MigInv'
<1>1. /\ stage = "fdb" \/ (stage = "ftor" /\ v >= 2)
      /\ v = version
  BY RunningMigration DEF StartInv
<1>2. step' = "up" /\ todo' = todo \ {v}
  BY DEF Done
<1>3. version \in 0 .. 4
  BY DEF StartInv, TypeOK
<1>4. CASE stage = "fdb"
  <2>1. todo' = Ahead(FdbMigrations)'
    BY <1>1, <1>2, <1>4 DEF StartInv, MigInv, Ahead, FdbMigrations
  <2> QED
    BY <1>2, <1>4, <2>1 DEF MigInv
<1>5. CASE stage = "ftor"
  <2>1. \A w \in FtoRMigrations : w > version <=> w >= version /\ w # version
    BY <1>3 DEF FtoRMigrations
  <2>2. todo = {w \in FtoRMigrations : w >= version}
    BY <1>5 DEF StartInv, MigInv
  <2>3. todo' = Ahead(FtoRMigrations)'
    BY <1>1, <1>2, <2>1, <2>2 DEF Ahead
  <2> QED
    BY <1>1, <1>2, <1>3, <1>5, <2>3 DEF MigInv
<1> QED
  BY <1>1, <1>4, <1>5

(* The migration that ends has moved its data; the others have not moved.  *)
LEMMA MovedSkipped ==
    ASSUME StartInv, NEW v \in Version, v = version, Done(v), Moved(v)',
           version' = version, torn' = torn, old' = old,
           created => created',
           redis.accounts \subseteq redis'.accounts, redis.cookies \subseteq redis'.cookies,
           redis.session => redis'.session
    PROVE  SkippedOnlyIfTorn'
<1>1. \A w \in Version : Moved(w) => Moved(w)'
  BY DEF Moved
<1>2. todo' = todo \ {v}
  BY DEF Done
<1> SUFFICES ASSUME NEW w \in Version, w <= version, w \notin todo'
             PROVE  Moved(w)' \/ w \in torn
  BY DEF SkippedOnlyIfTorn
<1>3. w = v \/ w \notin todo
  BY <1>2
<1> QED
  BY <1>1, <1>3 DEF StartInv, SkippedOnlyIfTorn

LEMMA CommitKeeps ==
    ASSUME StartInv, NEW v \in Version, Commit(v)
    PROVE  MigInv' /\ SkippedOnlyIfTorn' /\ CookielessNeedsTear'
<1>1. /\ version' = version /\ redis' = redis /\ old' = old
      /\ added' = added /\ torn' = torn /\ stage' = stage
      /\ At(v, "commit") /\ v \in todo /\ step = "commit"
  BY DEF Commit, At
<1>2. v = version /\ (stage = "fdb" \/ (stage = "ftor" /\ v >= 2))
  BY <1>1, RunningMigration DEF StartInv
<1>3. CookielessNeedsTear'
  BY <1>1 DEF StartInv, CookielessNeedsTear
<1>4. CASE stage = "fdb"
  <2>1. created' = TRUE /\ Done(v) /\ v = 1
    BY <1>1, <1>2, <1>4 DEF Commit, StartInv, MigInv
  <2>2. MigInv'
    BY <1>1, <2>1, DoneKeeps
  <2>3. Moved(v)'
    BY <2>1 DEF Moved
  <2> QED
    BY <1>1, <1>2, <1>3, <2>1, <2>2, <2>3, MovedSkipped
<1>5. CASE stage = "ftor"
  <2>1. step' = "exec" /\ todo' = todo /\ created' = created
    BY <1>5 DEF Commit
  <2>2. MigInv'
    BY <1>1, <1>5, <2>1 DEF StartInv, MigInv, FtoRMigrations
  <2>3. \A w \in Version : Moved(w) => Moved(w)'
    BY <1>1, <2>1 DEF Moved
  <2> QED
    BY <1>1, <1>3, <2>1, <2>2, <2>3 DEF StartInv, SkippedOnlyIfTorn
<1> QED
  BY <1>2, <1>4, <1>5

(* The only migration that can bring an account without its cookie is      *)
(* Cookies, when Accounts has been cut off in front of it.                 *)
LEMMA ExecKeeps ==
    ASSUME StartInv, NEW v \in Version, Exec(v)
    PROVE  MigInv' /\ SkippedOnlyIfTorn' /\ CookielessNeedsTear'
<1>1. /\ version' = version /\ created' = created /\ old' = old /\ added' = added
      /\ torn' = torn /\ stage' = stage /\ redis' = Copied(v) /\ Done(v)
      /\ At(v, "exec") /\ v \in todo /\ step = "exec"
  BY DEF Exec, At
<1>2. v = version /\ v >= 2 /\ stage = "ftor"
  BY <1>1, RunningMigration DEF StartInv, MigInv
<1>3. MigInv'
  BY <1>1, DoneKeeps
<1>4. old.accounts # {} => First[old.accounts] \in old.accounts
  BY StartupAssumption DEF StartInv, TypeOK
<1>5. /\ redis'.accounts = redis.accounts \cup
            {a \in old.accounts : v = 2 \/ (v = 3 /\ a = First[old.accounts])}
      /\ redis'.cookies = redis.cookies \cup {a \in old.accounts : v = 2}
      /\ redis'.session = (redis.session \/ v = 4)
  BY <1>1 DEF Copied
<1>6. Moved(v)'
  <2>1. v # 1 /\ old' = old
    BY <1>1, <1>2
  <2>2. v = 2 => old.accounts \subseteq redis'.accounts \cap redis'.cookies
    BY <1>5
  <2>3. v = 3 /\ old.accounts # {} => First[old.accounts] \in redis'.accounts
    BY <1>4, <1>5
  <2>4. v = 4 => redis'.session
    BY <1>5
  <2> QED
    BY <2>1, <2>2, <2>3, <2>4 DEF Moved
<1>7. SkippedOnlyIfTorn'
  BY <1>1, <1>2, <1>5, <1>6, MovedSkipped
<1>8. CookielessNeedsTear'
  <2> SUFFICES ASSUME NEW a \in redis'.accounts \ redis'.cookies
               PROVE  a \in added \/ 2 \in torn
    BY <1>1 DEF CookielessNeedsTear
  <2>1. CASE a \in redis.accounts
    BY <1>5, <2>1 DEF StartInv, CookielessNeedsTear
  <2>2. CASE a \notin redis.accounts
    <3>1. v = 3 /\ a \in old.accounts
      BY <1>5, <2>2
    <3>2. 2 \in Version /\ 2 <= version /\ 2 \notin todo
      BY <1>1, <1>2, <3>1 DEF At, Version, FdbMigrations, FtoRMigrations
    <3>3. Moved(2) \/ 2 \in torn
      BY <3>2 DEF StartInv, SkippedOnlyIfTorn
    <3> QED
      BY <2>2, <3>1, <3>3 DEF Moved
  <2> QED
    BY <2>1, <2>2
<1> QED
  BY <1>3, <1>7, <1>8

LEMMA MigrationsHold == StartInv /\ [Next]_vars => StartInv'
<1> SUFFICES ASSUME StartInv, [Next]_vars
             PROVE  MigInv' /\ SkippedOnlyIfTorn' /\ CookielessNeedsTear'
  BY TypesHold DEF StartInv
<1>1. CASE Start \/ FdbMigrated \/ FtoRMigrated
  BY <1>1, StartKeeps
<1>2. ASSUME NEW v \in Version, Up(v) \/ UpFails(v) \/ WriteVersion(v) \/ Commit(v) \/ Exec(v)
      PROVE  MigInv' /\ SkippedOnlyIfTorn' /\ CookielessNeedsTear'
  BY <1>2, UpKeeps, PanicMigrations, WriteVersionKeeps, CommitKeeps, ExecKeeps DEF UpFails
<1>3. ASSUME NEW a \in Account, ProxyRefused(a) \/ AuthFails(a)
      PROVE  MigInv' /\ SkippedOnlyIfTorn' /\ CookielessNeedsTear'
  BY <1>3, InitEndsMigrations DEF ProxyRefused, AuthFails
<1>4. CASE StartFails
  BY <1>4, InitEndsMigrations DEF StartFails
<1>5. ASSUME NEW a \in Account, AuthScrapper(a)
      PROVE  MigInv' /\ SkippedOnlyIfTorn' /\ CookielessNeedsTear'
  BY <1>5, OthersKeep DEF AuthScrapper, stores, main
<1>6. CASE StartFinder \/ InitDone \/ Reinit
  BY <1>6, OthersKeep DEF StartFinder, InitDone, Reinit, stores, main
<1>7. ASSUME NEW a \in Account, SaveAccount(a) \/ SaveCookie(a)
      PROVE  MigInv' /\ SkippedOnlyIfTorn' /\ CookielessNeedsTear'
  <2>1. redis \in [accounts : SUBSET Account, cookies : SUBSET Account, session : BOOLEAN]
    BY DEF StartInv, TypeOK
  <2>2. /\ redis.accounts \subseteq redis'.accounts /\ redis.cookies \subseteq redis'.cookies
        /\ redis.session => redis'.session
        /\ added \subseteq added' /\ redis'.accounts \subseteq redis.accounts \cup added'
    BY <1>7, <2>1 DEF SaveAccount, SaveCookie
  <2> QED
    BY <1>7, <2>2, OthersKeep DEF SaveAccount, SaveCookie, main
<1>8. CASE StoreSession
  <2>1. redis \in [accounts : SUBSET Account, cookies : SUBSET Account, session : BOOLEAN]
    BY DEF StartInv, TypeOK
  <2> QED
    BY <1>8, <2>1, OthersKeep DEF StoreSession, main
<1>9. CASE Crash
  BY <1>9, PanicMigrations DEF Crash
<1>10. CASE UNCHANGED vars
  BY <1>10, OthersKeep DEF vars, stores, main
<1>11. ASSUME NEW a \in Account, LogInChanges(a)
       PROVE  MigInv' /\ SkippedOnlyIfTorn' /\ CookielessNeedsTear'
  BY <1>11, OthersKeep DEF LogInChanges, main
<1> QED
  BY <1>1, <1>2, <1>3, <1>4, <1>5, <1>6, <1>7, <1>8, <1>9, <1>10, <1>11
     DEF Next, Main, Migrate, OpenPool

LEMMA MigrationsStart == Init => MigInv /\ SkippedOnlyIfTorn /\ CookielessNeedsTear
<1> SUFFICES ASSUME Init PROVE MigInv /\ SkippedOnlyIfTorn /\ CookielessNeedsTear
  OBVIOUS
<1>1. MigInv
  BY DEF Init, MigInv
<1>2. \A v \in Version : ~ (v <= version)
  BY DEF Init, Version, FdbMigrations, FtoRMigrations
<1>3. redis.accounts = {}
  BY DEF Init
<1> QED
  BY <1>1, <1>2, <1>3 DEF SkippedOnlyIfTorn, CookielessNeedsTear

LEMMA StartInvHolds == Spec => []StartInv
<1>1. Init => MigInv /\ SkippedOnlyIfTorn /\ CookielessNeedsTear
  BY MigrationsStart
<1>2. TypeOK /\ MigInv /\ SkippedOnlyIfTorn /\ CookielessNeedsTear => StartInv
  BY DEF StartInv
<1>3. Spec => []TypeOK
  BY StartupTypeCorrect
<1>4. Init /\ TypeOK => StartInv
  BY <1>1, <1>2
<1> QED
  BY <1>3, <1>4, MigrationsHold, PTL DEF Spec

(* Data a migration has not moved although its version is in the database  *)
(* needs a crash between the two commits of that migration.                *)
THEOREM SkippedNeedsTear == Spec => []SkippedOnlyIfTorn
<1>1. StartInv => SkippedOnlyIfTorn
  BY DEF StartInv
<1> QED
  BY <1>1, StartInvHolds, PTL

(* An account without a cookie that nobody added comes from such a crash   *)
(* in the migration of the accounts.                                       *)
THEOREM CookielessComesFromTear == Spec => []CookielessNeedsTear
<1>1. StartInv => CookielessNeedsTear
  BY DEF StartInv
<1> QED
  BY <1>1, StartInvHolds, PTL
-------------------------------------------------------------------------------
(* A finder has a proxy that the pool has handed out and an account that is *)
(* logged in; what init has still to come to is neither, but for an account *)
(* SCAN has repeated.                                                      *)
Given(f) == f.login \in authAccounts /\ f.proxy <= Len(config) - proxies

ListedInv ==
    \A a \in Account :
        /\ listed[a] = 2 => a \in repeated
        /\ listed[a] > 0 /\ a \in authAccounts => a \in repeated

PoolInv ==
    /\ ListedInv
    /\ \A f \in opening : Given(f) /\ \A i \in DOMAIN finders : Apart(f, finders[i])
    /\ \A i \in DOMAIN finders : Given(finders[i])
    /\ FindersApart

(* The pool of a new process is empty.                                     *)
LEMMA EmptyPool ==
    ASSUME Forgotten
    PROVE  PoolInv'
<1>1. listed' = Unlisted /\ opening' = {} /\ DOMAIN finders' = {}
  BY DEF Forgotten
<1>2. ListedInv'
  BY <1>1 DEF ListedInv, Unlisted
<1> QED
  BY <1>1, <1>2 DEF PoolInv, FindersApart

LEMMA PoolKept ==
    ASSUME TypeOK, PoolInv,
           authAccounts' = authAccounts, finders' = finders, config' = config,
           opening' \subseteq opening,
           proxies' \in Nat, proxies' <= proxies, repeated \subseteq repeated',
           ListedInv'
    PROVE  PoolInv'
<1>1. Len(config) \in Nat /\ proxies \in Nat
  BY TakenLeft
<1>2. ASSUME NEW f \in Finder, Given(f) PROVE Given(f)'
  <2>1. f.proxy \in Nat
    BY DEF Finder
  <2> QED
    BY <1>1, <1>2, <2>1 DEF Given
<1>3. \A f, g \in Finder : Apart(f, g) => Apart(f, g)'
  BY DEF Apart
<1>4. opening \subseteq Finder /\ \A i \in DOMAIN finders : finders[i] \in Finder
  BY DEF TypeOK
<1> QED
  BY <1>2, <1>3, <1>4 DEF PoolInv, FindersApart

LEMMA InitEndsPool ==
    ASSUME TypeOK, PoolInv, NEW left \in Nat, left <= proxies, NEW failed,
           InitEnds(left, failed)
    PROVE  PoolInv'
<1>1. CASE stage = "init"
  BY <1>1, EmptyPool DEF InitEnds, Panic
<1>2. CASE stage # "init"
  <2>1. ListedInv'
    BY <1>2 DEF InitEnds, ListedInv, Unlisted
  <2> QED
    BY <1>2, <2>1, PoolKept DEF InitEnds, stores
<1> QED
  BY <1>1, <1>2

LEMMA ScanPool ==
    ASSUME TypeOK, PoolInv, SearchUnAuthAccounts,
           UNCHANGED <<config, proxies, authAccounts, opening, finders>>
    PROVE  PoolInv'
<1>1. ListedInv'
  BY ScanTypes DEF ListedInv
<1>2. proxies \in Nat
  BY TakenLeft
<1> QED
  BY <1>1, <1>2, ScanTypes, PoolKept

(* The log-in: the proxy is the next one, and an account that is logged in *)
(* already has been listed twice.                                          *)
LEMMA AuthPool ==
    ASSUME TypeOK, PoolInv, NEW a \in Account, AuthScrapper(a)
    PROVE  PoolInv'
<1>1. PICK f \in Finder : f.login = a /\ f.proxy = Taken /\ opening' = {f}
  <2>1. [login |-> a, proxy |-> Taken] \in Finder
    BY TakenLeft DEF Finder
  <2> QED
    BY <2>1 DEF AuthScrapper
<1>2. /\ opening = {} /\ listed[a] > 0
      /\ listed' = [listed EXCEPT ![a] = @ - 1] /\ proxies' = Left
      /\ authAccounts' = authAccounts \cup {a}
      /\ finders' = finders /\ config' = config /\ repeated' = repeated
  BY DEF AuthScrapper, ProxySet, AtAccount, stores
<1>3. /\ Len(config) \in Nat /\ proxies \in Nat /\ Left \in Nat /\ Taken \in Nat
      /\ Left <= proxies
      /\ Taken # Direct => Taken = Len(config) - Left /\ Left = proxies - 1
      /\ proxies <= Len(config)
  BY TakenLeft
<1>4. \A i \in DOMAIN finders : finders[i] \in Finder
  BY DEF TypeOK
<1>5. ListedInv'
  <2> SUFFICES ASSUME NEW b \in Account
               PROVE  /\ listed'[b] = 2 => b \in repeated
                      /\ listed'[b] > 0 /\ b \in authAccounts' => b \in repeated
    BY <1>2 DEF ListedInv
  <2>1. listed \in [Account -> 0 .. 2]
    BY DEF TypeOK
  <2>2. CASE b = a
    BY <1>2, <2>1, <2>2 DEF PoolInv, ListedInv
  <2>3. CASE b # a
    BY <1>2, <2>1, <2>3 DEF PoolInv, ListedInv
  <2> QED
    BY <2>2, <2>3
<1>6. ASSUME NEW i \in DOMAIN finders PROVE Given(finders[i])'
  <2>1. Given(finders[i]) /\ finders[i].proxy \in Nat
    BY <1>4 DEF PoolInv, Finder
  <2> QED
    BY <1>3, <1>2, <2>1 DEF Given
<1>7. Given(f)'
  <2>1. f.proxy = Taken /\ f.login = a /\ Taken <= Len(config) - Left
    BY <1>1, <1>3 DEF Direct
  <2> QED
    BY <1>2, <2>1 DEF Given
<1>8. ASSUME NEW i \in DOMAIN finders PROVE Apart(f, finders[i])'
  <2>1. /\ Given(finders[i]) /\ finders[i].proxy \in Nat
        /\ f.proxy = Taken /\ f.login = a
    BY <1>1, <1>4 DEF PoolInv, Finder
  <2>2. f.proxy = finders[i].proxy => f.proxy = Direct
    BY <1>3, <2>1 DEF Given
  <2>3. f.login = finders[i].login => a \in repeated
    BY <1>2, <2>1 DEF PoolInv, ListedInv, Given
  <2> QED
    BY <1>2, <2>1, <2>2, <2>3 DEF Apart
<1>9. FindersApart'
  BY <1>2 DEF PoolInv, FindersApart, Apart
<1> QED
  BY <1>1, <1>2, <1>5, <1>6, <1>7, <1>8, <1>9 DEF PoolInv

LEMMA StartFinderPool ==
    ASSUME TypeOK, PoolInv, StartFinder
    PROVE  PoolInv'
<1>1. PICK f \in opening : finders' = Append(finders, f)
  BY DEF StartFinder
<1>2. /\ opening' = {} /\ proxies' = proxies /\ listed' = listed /\ config' = config
      /\ authAccounts' = authAccounts /\ repeated' = repeated
  BY DEF StartFinder, stores
<1>3. finders \in Seq(Finder) /\ f \in Finder
  BY DEF TypeOK
<1>4. ASSUME NEW i \in DOMAIN finders'
      PROVE  (i \in DOMAIN finders /\ finders'[i] = finders[i]) \/ (i = Len(finders) + 1 /\ finders'[i] = f)
  BY <1>1, <1>3
<1>5. ListedInv'
  BY <1>2 DEF PoolInv, ListedInv
<1>6. \A g \in Finder : Given(g) => Given(g)'
  BY <1>2 DEF Given
<1>7. \A g, h \in Finder : Apart(g, h) => Apart(g, h)'
  BY <1>2 DEF Apart
<1>8. ASSUME NEW i \in DOMAIN finders' PROVE Given(finders[i])'
  <2>1. PICK g \in Finder : g = finders'[i] /\ Given(g)
    BY <1>3, <1>4 DEF PoolInv
  <2> QED
    BY <1>6, <2>1
<1>9. ASSUME NEW i \in DOMAIN finders', NEW j \in DOMAIN finders', i # j
      PROVE  Apart(finders[i], finders[j])'
  <2>1. PICK g \in Finder : g = finders'[i]
    BY <1>3, <1>4
  <2>2. PICK h \in Finder : h = finders'[j]
    BY <1>3, <1>4
  <2>3. \A k \in DOMAIN finders : Apart(f, finders[k]) /\ Apart(finders[k], f)
    BY DEF PoolInv, Apart
  <2>4. Apart(g, h)
    BY <1>4, <1>9, <2>1, <2>2, <2>3 DEF PoolInv, FindersApart
  <2> QED
    BY <1>7, <2>1, <2>2, <2>4
<1> QED
  BY <1>2, <1>5, <1>8, <1>9 DEF PoolInv, FindersApart

LEMMA PoolHolds == TypeOK /\ PoolInv /\ [Next]_vars => PoolInv'
<1> SUFFICES ASSUME TypeOK, PoolInv, [Next]_vars PROVE PoolInv'
  OBVIOUS
<1>1. proxies \in Nat /\ Left \in Nat /\ Left <= proxies
  BY TakenLeft
<1>2. CASE UNCHANGED <<config, pool>>
  <2>1. ListedInv'
    BY <1>2 DEF PoolInv, ListedInv, pool
  <2> QED
    BY <1>1, <1>2, <2>1, PoolKept DEF pool
<1>3. CASE Panic
  BY <1>3, EmptyPool DEF Panic
<1>4. CASE Start \/ FdbMigrated \/ StoreSession \/ InitDone \/ UNCHANGED vars
  BY <1>2, <1>4 DEF Start, FdbMigrated, StoreSession, InitDone, vars, stores
<1>5. ASSUME NEW v \in Version, Up(v) \/ UpFails(v) \/ WriteVersion(v) \/ Commit(v) \/ Exec(v)
      PROVE  PoolInv'
  BY <1>2, <1>3, <1>5 DEF Up, UpFails, WriteVersion, Commit, Exec, stores
<1>6. CASE FtoRMigrated \/ Reinit
  BY <1>6, ScanPool DEF FtoRMigrated, Reinit, stores
<1>7. ASSUME NEW a \in Account, ProxyRefused(a) \/ AuthScrapper(a) \/ AuthFails(a)
      PROVE  PoolInv'
  BY <1>1, <1>7, InitEndsPool, AuthPool DEF ProxyRefused, AuthFails
<1>8. CASE StartFinder
  BY <1>8, StartFinderPool
<1>9. CASE StartFails
  BY <1>1, <1>9, InitEndsPool DEF StartFails
<1>10. ASSUME NEW a \in Account, SaveAccount(a) \/ SaveCookie(a) \/ LogInChanges(a)
       PROVE  PoolInv'
  BY <1>2, <1>10 DEF SaveAccount, SaveCookie, LogInChanges
<1>11. CASE Crash
  BY <1>3, <1>11 DEF Crash
<1> QED
  BY <1>4, <1>5, <1>6, <1>7, <1>8, <1>9, <1>10, <1>11 DEF Next, Main, Migrate, OpenPool

(* However often the pool is filled, fails half-way and is filled again,   *)
(* two finders share neither a proxy nor, unless SCAN has repeated it, an  *)
(* account.                                                                *)
THEOREM FindersStayApart == Spec => []FindersApart
<1>1. Init => PoolInv
  <2> SUFFICES ASSUME Init PROVE PoolInv
    OBVIOUS
  <2>1. ListedInv
    BY DEF Init, ListedInv, Unlisted
  <2>2. opening = {} /\ DOMAIN finders = {}
    BY DEF Init
  <2> QED
    BY <2>1, <2>2 DEF PoolInv, FindersApart
<1>2. PoolInv => FindersApart
  BY DEF PoolInv
<1> QED
  BY <1>1, <1>2, StartupTypeCorrect, PoolHolds, PTL DEF Spec
===============================================================================

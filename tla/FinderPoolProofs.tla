---------------------------- MODULE FinderPoolProofs --------------------------
(***************************************************************************)
(* Proofs about FinderPool, for any number of callers and finders, any     *)
(* temperatures and any number of outages.                                 *)
(***************************************************************************)
EXTENDS FinderPool, TLAPS

(* The temperature 0 is the mark of a lent finder: as long as it stays,    *)
(* no other caller is given the finder.                                    *)
LentIsMarked == \A p \in holds : p[2] \in pool /\ finderTemp[p[2]] = 0

IndInv == TypeOK /\ OneCallerPerFinder /\ LentIsMarked
-------------------------------------------------------------------------------
LEMMA ReadingsType ==
    ASSUME NEW f, NEW h \in SUBSET Temp, NEW r \in Readings(f, h)
    PROVE  r \in Temp \cup {0} /\ (dbUp \/ f \in cached => r # 0)
BY PoolAssumption DEF Readings

(* What a refresh knows of the finder it lends: it is in the pool, its     *)
(* mark was off, and so nobody uses it.                                    *)
LEMMA ChosenIsFree ==
    ASSUME IndInv, NEW r \in [Finder -> Temp \cup {0}], Refreshed(r), NEW f \in Coolest(r)
    PROVE  /\ f \in pool /\ f \in Finder
           /\ finderTemp[f] # 0
           /\ \A c \in Caller : <<c, f>> \notin holds
<1>1. f \in pool /\ f \in Finder /\ r[f] # 0
  BY DEF Coolest, skipFinder, IndInv, TypeOK
<1>2. finderTemp[f] # 0
  BY <1>1 DEF Refreshed
<1>3. ASSUME NEW c \in Caller, <<c, f>> \in holds
      PROVE  FALSE
  BY <1>2, <1>3 DEF IndInv, LentIsMarked
<1> QED BY <1>1, <1>2, <1>3

(* A refresh leaves the mark of a lent finder.                             *)
LEMMA RefreshKeepsMarks ==
    ASSUME NEW r \in [Finder -> Temp \cup {0}], Refreshed(r),
           NEW f \in Finder, finderTemp[f] = 0
    PROVE  r[f] = 0
BY DEF Refreshed

(* getFinderIndex has two outcomes: nobody is free, or one finder is lent. *)
LEMMA LendingCases ==
    ASSUME NEW c \in Caller, getFinderIndex(c)
    PROVE  \E r \in [Finder -> Temp \cup {0}] :
              /\ Refreshed(r)
              /\ \/ /\ finderTemp' = r
                    /\ waiting' = waiting \cup {c}
                    /\ holds' = holds
                 \/ \E f \in Coolest(r) :
                       /\ finderTemp' = [r EXCEPT ![f] = 0]
                       /\ waiting' = waiting \ {c}
                       /\ holds' = holds \cup {<<c, f>>}
BY DEF getFinderIndex
-------------------------------------------------------------------------------
LEMMA InitInd == Init => IndInv
BY PoolAssumption DEF Init, IndInv, TypeOK, OneCallerPerFinder, LentIsMarked

LEMMA LendKeepsInd ==
    ASSUME IndInv, NEW c \in Caller, getFinderIndex(c), UNCHANGED <<pool, heat, env>>
    PROVE  IndInv'
<1>1. PICK r \in [Finder -> Temp \cup {0}] :
          /\ Refreshed(r)
          /\ \/ /\ finderTemp' = r
                /\ waiting' = waiting \cup {c}
                /\ holds' = holds
             \/ \E f \in Coolest(r) :
                   /\ finderTemp' = [r EXCEPT ![f] = 0]
                   /\ waiting' = waiting \ {c}
                   /\ holds' = holds \cup {<<c, f>>}
  BY LendingCases
<1>2. CASE finderTemp' = r /\ waiting' = waiting \cup {c} /\ holds' = holds
  <2>1. TypeOK' /\ OneCallerPerFinder'
    BY <1>2 DEF IndInv, TypeOK, OneCallerPerFinder, env
  <2>2. LentIsMarked'
    BY <1>1, <1>2, RefreshKeepsMarks DEF IndInv, TypeOK, LentIsMarked
  <2> QED BY <2>1, <2>2 DEF IndInv
<1>3. ASSUME NEW f \in Coolest(r), finderTemp' = [r EXCEPT ![f] = 0],
             waiting' = waiting \ {c}, holds' = holds \cup {<<c, f>>}
      PROVE  IndInv'
  <2>1. f \in pool /\ f \in Finder /\ \A d \in Caller : <<d, f>> \notin holds
    BY <1>1, ChosenIsFree
  <2>2. TypeOK'
    BY <1>3, <2>1 DEF IndInv, TypeOK, env
  <2>3. \A p \in holds : p[2] # f
    <3>1. ASSUME NEW p \in holds, p[2] = f
          PROVE  FALSE
      <4>1. p = <<p[1], f>> /\ p[1] \in Caller
        BY <3>1 DEF IndInv, TypeOK
      <4> QED BY <2>1, <4>1
    <3> QED BY <3>1
  <2>4. OneCallerPerFinder'
    BY <1>3, <2>3 DEF IndInv, OneCallerPerFinder
  <2>5. LentIsMarked'
    <3>1. ASSUME NEW p \in holds
          PROVE  p[2] \in pool' /\ finderTemp'[p[2]] = 0
      <4>1. p[2] \in Finder /\ p[2] \in pool /\ finderTemp[p[2]] = 0
        BY DEF IndInv, TypeOK, LentIsMarked
      <4>2. r[p[2]] = 0
        BY <1>1, <4>1, RefreshKeepsMarks
      <4> QED BY <1>3, <2>3, <4>1, <4>2
    <3>2. f \in pool' /\ finderTemp'[f] = 0
      BY <1>3, <2>1
    <3> QED BY <1>3, <3>1, <3>2 DEF LentIsMarked
  <2> QED BY <2>2, <2>4, <2>5 DEF IndInv
<1> QED BY <1>1, <1>2, <1>3

LEMMA ReleaseKeepsInd ==
    ASSUME IndInv, NEW c \in Caller, NEW f \in Finder, releaseFinder(c, f)
    PROVE  IndInv'
<1>1. TypeOK'
  BY DEF releaseFinder, IndInv, TypeOK, env
<1>2. OneCallerPerFinder'
  BY DEF releaseFinder, IndInv, OneCallerPerFinder
<1>3. ASSUME NEW p \in holds, p # <<c, f>>
      PROVE  p[2] # f
  BY <1>3 DEF releaseFinder, IndInv, OneCallerPerFinder
<1>4. LentIsMarked'
  BY <1>3 DEF releaseFinder, IndInv, TypeOK, LentIsMarked
<1> QED BY <1>1, <1>2, <1>4 DEF IndInv

LEMMA AddKeepsInd ==
    ASSUME IndInv, NEW f \in Finder, AddFinder(f)
    PROVE  IndInv'
<1>1. PICK r \in Readings(f, {heat[f]}) : finderTemp' = [finderTemp EXCEPT ![f] = r]
  BY DEF AddFinder
<1>2. r \in Temp \cup {0}
  BY <1>1, ReadingsType DEF IndInv, TypeOK
<1>3. TypeOK'
  BY <1>1, <1>2 DEF AddFinder, IndInv, TypeOK, env
<1>4. OneCallerPerFinder'
  BY DEF AddFinder, IndInv, OneCallerPerFinder
<1>5. LentIsMarked'
  BY <1>1 DEF AddFinder, IndInv, TypeOK, LentIsMarked
<1> QED BY <1>3, <1>4, <1>5 DEF IndInv

LEMMA StepKeepsInd == IndInv /\ [Next]_vars => IndInv'
<1> SUFFICES ASSUME IndInv, [Next]_vars PROVE IndInv'
  OBVIOUS
<1>1. ASSUME NEW c \in Caller, Find(c) \/ Poll(c)
      PROVE  IndInv'
  BY <1>1, LendKeepsInd DEF Find, Poll
<1>2. ASSUME NEW c \in Caller, GiveUp(c)
      PROVE  IndInv'
  BY <1>2 DEF GiveUp, IndInv, TypeOK, OneCallerPerFinder, LentIsMarked, env
<1>3. ASSUME NEW f \in Finder, Cool(f)
      PROVE  IndInv'
  BY <1>3 DEF Cool, IndInv, TypeOK, OneCallerPerFinder, LentIsMarked, env
<1>4. CASE DbFails \/ DbRecovers \/ UNCHANGED vars
  <2>1. UNCHANGED <<pool, finderTemp, waiting, holds, heat, started, cached>>
    BY <1>4 DEF DbFails, DbRecovers, vars, env
  <2>2. outages' \in Nat
    BY <1>4 DEF DbFails, DbRecovers, vars, env, IndInv, TypeOK
  <2>3. dbUp' \in BOOLEAN
    BY <1>4, Zenon DEF DbFails, DbRecovers, vars, env, IndInv, TypeOK
  <2> QED BY <2>1, <2>2, <2>3 DEF IndInv, TypeOK, OneCallerPerFinder, LentIsMarked
<1>5. ASSUME NEW f \in Finder, StartLimiters(f) \/ CacheLimits(f)
      PROVE  IndInv'
  <2>1. UNCHANGED <<pool, finderTemp, waiting, holds, heat, dbUp, outages>>
    BY <1>5 DEF StartLimiters, CacheLimits
  <2>2. pool \subseteq started' /\ started' \subseteq Finder /\ cached' \subseteq started'
    BY <1>5 DEF StartLimiters, CacheLimits, IndInv, TypeOK
  <2> QED BY <2>1, <2>2 DEF IndInv, TypeOK, OneCallerPerFinder, LentIsMarked
<1> QED BY <1>1, <1>2, <1>3, <1>4, <1>5, ReleaseKeepsInd, AddKeepsInd DEF Next

(* The mark protects every lent finder in every reachable state.           *)
THEOREM Inductive == Spec => []IndInv
BY InitInd, StepKeepsInd, PTL DEF Spec

(* Temperatures, loans and readings keep their types.                      *)
THEOREM TypeCorrect == Spec => []TypeOK
BY Inductive, PTL DEF IndInv

(* Two callers never use one account at the same time.                     *)
THEOREM OneCaller == Spec => []OneCallerPerFinder
BY Inductive, PTL DEF IndInv
-------------------------------------------------------------------------------
LEMMA LeakStep ==
    IndInv /\ [Next]_vars => [\A f \in Leaked' \ Leaked : ~ dbUp /\ f \notin cached]_vars
<1> SUFFICES ASSUME IndInv, [Next]_vars, NEW g \in Leaked', dbUp \/ g \in cached
             PROVE  g \in Leaked
  OBVIOUS
<1>1. /\ g \in pool' /\ finderTemp'[g] = 0
      /\ \A d \in Caller : <<d, g>> \notin holds'
  BY DEF Leaked
<1>2. ASSUME NEW c \in Caller, getFinderIndex(c), UNCHANGED <<pool, heat, env>>
      PROVE  g \in Leaked
  <2>1. PICK r \in [Finder -> Temp \cup {0}] :
            /\ Refreshed(r)
            /\ \/ /\ finderTemp' = r
                  /\ waiting' = waiting \cup {c}
                  /\ holds' = holds
               \/ \E f \in Coolest(r) :
                     /\ finderTemp' = [r EXCEPT ![f] = 0]
                     /\ waiting' = waiting \ {c}
                     /\ holds' = holds \cup {<<c, f>>}
    BY <1>2, LendingCases
  <2>2. g \in pool /\ g \in Finder /\ heat[g] \in Temp
    BY <1>1, <1>2 DEF IndInv, TypeOK
  <2>3. ASSUME r[g] = 0 PROVE finderTemp[g] = 0
    <3>1. CASE finderTemp[g] # 0
      <4>1. r[g] \in Readings(g, {heat[g]})
        BY <2>1, <2>2, <3>1 DEF Refreshed
      <4> QED BY <2>2, <2>3, <4>1, ReadingsType
    <3> QED BY <3>1
  <2>4. CASE finderTemp' = r /\ holds' = holds
    BY <1>1, <2>2, <2>3, <2>4 DEF Leaked
  <2>5. ASSUME NEW f \in Coolest(r), finderTemp' = [r EXCEPT ![f] = 0],
               holds' = holds \cup {<<c, f>>}
        PROVE  g \in Leaked
    <3>1. g # f /\ \A d \in Caller : <<d, g>> \notin holds
      BY <1>1, <2>5
    <3>2. r[g] = 0
      BY <1>1, <2>2, <2>5, <3>1
    <3> QED BY <2>2, <2>3, <3>1, <3>2 DEF Leaked
  <2> QED BY <2>1, <2>4, <2>5
<1>3. ASSUME NEW c \in Caller, NEW f \in Finder, releaseFinder(c, f)
      PROVE  g \in Leaked
  <2>1. PICK h \in Temp, r \in Temp \cup {0} :
            /\ r \in Readings(f, {h, heat[f]})
            /\ finderTemp' = [finderTemp EXCEPT ![f] = r]
    BY <1>3 DEF releaseFinder
  <2>2. {h, heat[f]} \in SUBSET Temp
    BY DEF IndInv, TypeOK
  <2>3. dbUp \/ f \in cached => r # 0
    BY <2>1, <2>2, ReadingsType
  <2>4. g \in pool /\ g \in Finder
    BY <1>1, <1>3 DEF releaseFinder, IndInv, TypeOK
  <2>5. g # f /\ finderTemp[g] = 0
    BY <1>1, <2>1, <2>3, <2>4 DEF IndInv, TypeOK
  <2>6. \A d \in Caller : <<d, g>> \notin holds
    BY <1>1, <1>3, <2>5 DEF releaseFinder
  <2> QED BY <2>4, <2>5, <2>6 DEF Leaked
<1>4. ASSUME NEW f \in Finder, AddFinder(f)
      PROVE  g \in Leaked
  <2>1. PICK r \in Readings(f, {heat[f]}) : finderTemp' = [finderTemp EXCEPT ![f] = r]
    BY <1>4 DEF AddFinder
  <2>2. dbUp \/ f \in cached => r # 0
    BY <2>1, ReadingsType DEF IndInv, TypeOK
  <2>3. g # f
    BY <1>1, <2>1, <2>2 DEF IndInv, TypeOK
  <2> QED BY <1>1, <1>4, <2>1, <2>3 DEF AddFinder, Leaked
<1>5. CASE \/ \E c \in Caller : GiveUp(c)
           \/ \E f \in Finder : StartLimiters(f) \/ CacheLimits(f) \/ Cool(f)
           \/ DbFails \/ DbRecovers \/ UNCHANGED vars
  <2>1. UNCHANGED <<pool, finderTemp, holds>>
    BY <1>5 DEF GiveUp, StartLimiters, CacheLimits, Cool, DbFails, DbRecovers, vars
  <2> QED BY <1>1, <2>1 DEF Leaked
<1> QED BY <1>2, <1>3, <1>4, <1>5 DEF Next, Find, Poll

(* A finder is lost to the pool only by a reading in an outage while none  *)
(* of its limits is in the cache.                                          *)
THEOREM LeakOnlyInOutage == Spec => LeakNeedsOutage
BY Inductive, LeakStep, PTL DEF Spec, LeakNeedsOutage
-------------------------------------------------------------------------------
(* The holder of every finder, from a set H of loans.                      *)
HolderIn(H) == [f \in Finder |-> IF \E c \in Caller : <<c, f>> \in H
                                 THEN CHOOSE c \in Caller : <<c, f>> \in H
                                 ELSE Nobody]

LEMMA HolderOf ==
    ASSUME NEW H, \A p, q \in H : p[2] = q[2] => p = q, NEW f \in Finder
    PROVE  /\ \A c \in Caller : <<c, f>> \in H => HolderIn(H)[f] = c
           /\ (\A c \in Caller : <<c, f>> \notin H) => HolderIn(H)[f] = Nobody
<1>1. ASSUME NEW c \in Caller, <<c, f>> \in H
      PROVE  HolderIn(H)[f] = c
  <2> DEFINE d == CHOOSE d \in Caller : <<d, f>> \in H
  <2>1. d \in Caller /\ <<d, f>> \in H
    BY <1>1
  <2>2. <<d, f>> = <<c, f>>
    BY <1>1, <2>1
  <2> QED BY <1>1, <2>2 DEF HolderIn
<1>2. ASSUME \A c \in Caller : <<c, f>> \notin H
      PROVE  HolderIn(H)[f] = Nobody
  BY <1>2 DEF HolderIn
<1> QED BY <1>1, <1>2

(* Adding or removing the loan of f changes no other holder.               *)
LEMMA OtherHolders ==
    ASSUME NEW H, NEW G, NEW f \in Finder, NEW g \in Finder \ {f},
           \A c \in Caller : <<c, g>> \in G <=> <<c, g>> \in H
    PROVE  HolderIn(G)[g] = HolderIn(H)[g]
<1>1. CASE \E c \in Caller : <<c, g>> \in H
  <2>1. (CHOOSE c \in Caller : <<c, g>> \in G) = (CHOOSE c \in Caller : <<c, g>> \in H)
    BY Zenon
  <2> QED BY <1>1, <2>1 DEF HolderIn
<1>2. CASE ~ \E c \in Caller : <<c, g>> \in H
  BY <1>2 DEF HolderIn
<1> QED BY <1>1, <1>2

LEMMA HolderIsHolderIn == holder = HolderIn(holds) /\ holder' = HolderIn(holds')
BY DEF holder, HolderIn

(* One loan more is a Lend, one loan less a Return.                        *)
LEMMA LendIsLend ==
    ASSUME IndInv, IndInv', NEW c \in Caller, NEW f \in Finder,
           \A d \in Caller : <<d, f>> \notin holds,
           holds' = holds \cup {<<c, f>>}
    PROVE  Leases!Lend(c, f)
<1>1. holder[f] = Nobody /\ holder'[f] = c
  <2>1. /\ \A p, q \in holds : p[2] = q[2] => p = q
        /\ \A p, q \in holds' : p[2] = q[2] => p = q
    BY DEF IndInv, OneCallerPerFinder
  <2>2. HolderIn(holds)[f] = Nobody
    BY <2>1, HolderOf
  <2>3. <<c, f>> \in holds'
    OBVIOUS
  <2>4. HolderIn(holds')[f] = c
    BY <2>1, <2>3, HolderOf
  <2> QED BY <2>2, <2>4, HolderIsHolderIn
<1>2. \A g \in Finder \ {f} : holder'[g] = holder[g]
  BY OtherHolders, HolderIsHolderIn
<1>3. holder' = [holder EXCEPT ![f] = c]
  BY <1>1, <1>2, HolderIsHolderIn DEF HolderIn
<1> QED BY <1>1, <1>3 DEF Leases!Lend

LEMMA ReleaseIsReturn ==
    ASSUME IndInv, IndInv', NEW c \in Caller, NEW f \in Finder, releaseFinder(c, f)
    PROVE  Leases!Return(c, f)
<1>1. <<c, f>> \in holds /\ holds' = holds \ {<<c, f>>}
  BY DEF releaseFinder
<1>2. \A d \in Caller : <<d, f>> \notin holds'
  BY <1>1 DEF IndInv, OneCallerPerFinder
<1>3. holder[f] = c /\ holder'[f] = Nobody
  BY <1>1, <1>2, HolderOf, HolderIsHolderIn DEF IndInv, OneCallerPerFinder
<1>4. \A g \in Finder \ {f} : holder'[g] = holder[g]
  BY <1>1, OtherHolders, HolderIsHolderIn
<1>5. holder' = [holder EXCEPT ![f] = Nobody]
  BY <1>3, <1>4, HolderIsHolderIn DEF HolderIn
<1> QED BY <1>3, <1>5 DEF Leases!Return

LEMMA StepIsLeaseStep ==
    IndInv /\ IndInv' /\ [Next]_vars => [Leases!Next]_holder
<1> SUFFICES ASSUME IndInv, IndInv', [Next]_vars PROVE [Leases!Next]_holder
  OBVIOUS
<1>1. ASSUME NEW c \in Caller, getFinderIndex(c), holds' # holds
      PROVE  Leases!Next
  <2>1. PICK r \in [Finder -> Temp \cup {0}] :
            Refreshed(r) /\ \E f \in Coolest(r) : holds' = holds \cup {<<c, f>>}
    BY <1>1, LendingCases
  <2>2. PICK f \in Coolest(r) : holds' = holds \cup {<<c, f>>}
    BY <2>1
  <2>3. f \in Finder /\ \A d \in Caller : <<d, f>> \notin holds
    BY <2>1, ChosenIsFree
  <2> QED BY <2>2, <2>3, LendIsLend DEF Leases!Next
<1>2. ASSUME NEW c \in Caller, NEW f \in Finder, releaseFinder(c, f)
      PROVE  Leases!Next
  BY <1>2, ReleaseIsReturn DEF Leases!Next
<1>3. CASE holds' = holds
  BY <1>3, HolderIsHolderIn
<1>4. CASE \/ \E c \in Caller : GiveUp(c)
           \/ \E f \in Finder : AddFinder(f) \/ StartLimiters(f) \/ CacheLimits(f) \/ Cool(f)
           \/ DbFails \/ DbRecovers \/ UNCHANGED vars
  <2>1. holds' = holds
    BY <1>4 DEF GiveUp, AddFinder, StartLimiters, CacheLimits, Cool, DbFails, DbRecovers, vars
  <2> QED BY <2>1, <1>3
<1> QED BY <1>1, <1>2, <1>3, <1>4 DEF Next, Find, Poll

(* The pool lends its finders like a set of locks.                         *)
THEOREM ImplementsLease == Spec => LeaseSpec
<1>1. Init => Leases!Init
  BY DEF Init, Leases!Init, holder
<1> QED BY <1>1, Inductive, StepIsLeaseStep, PTL DEF Spec, LeaseSpec, Leases!Spec
===============================================================================

-------------------------- MODULE DelayManagerProofs --------------------------
(***************************************************************************)
(* Proofs about DelayManager, for any number of windows of any lengths,    *)
(* any room in the channels and any number of requests and crashes.        *)
(***************************************************************************)
EXTENDS DelayManager, TLAPS

(* What a goroutine that puts out a fire has seen is a fire.               *)
SeenBurning == \A w \in Windows : loop[w].at = "putOut" => loop[w].n > 0

IndInv == TypeOK /\ SeenBurning /\ DelayBounded
-------------------------------------------------------------------------------
LEMMA DivisionShrinks ==
    ASSUME NEW a \in Nat, NEW b \in Nat \ {0}
    PROVE  a \div b \in Nat /\ a \div b <= a
OBVIOUS

(* A window recommends at most a fifth of its length.                      *)
LEMMA RecommendedType ==
    ASSUME IndInv, NEW w \in Windows
    PROVE  /\ RecommendedDelay(w) \in Nat
           /\ RecommendedDelay(w) <= Duration[w] \div 5
<1> DEFINE fifth == Duration[w] \div 5
<1>1. Duration[w] \in Nat /\ threshold[w] \in Nat /\ count[w] \in Nat
  BY DelayAssumption DEF IndInv, TypeOK
<1>2. fifth \in Nat
  BY <1>1
<1>3. CASE threshold[w] = 0
  BY <1>2, <1>3 DEF RecommendedDelay
<1>4. CASE threshold[w] # 0
  <2>1. fifth \div threshold[w] \in Nat /\ fifth \div threshold[w] <= fifth
    BY <1>1, <1>2, <1>4, DivisionShrinks
  <2> QED BY <1>1, <1>2, <2>1 DEF RecommendedDelay
<1> QED BY <1>3, <1>4

LEMMA LoweredBounds ==
    ASSUME NEW d \in Nat, d >= 1
    PROVE  Lowered(d) \in Nat /\ 1 <= Lowered(d) /\ Lowered(d) <= d
BY DEF Lowered

(* The threshold the next window allows for this one.                      *)
LEMMA ResetType ==
    ASSUME IndInv, NEW w \in Windows, w < N
    PROVE  ResetThreshold(w) \in Nat
<1>1. w + 1 \in Windows
  BY DelayAssumption DEF Windows
<1>2. /\ Duration[w] \in Nat /\ Duration[w + 1] \in Nat \ {0}
      /\ threshold[w + 1] \in Nat
  BY <1>1, DelayAssumption DEF IndInv, TypeOK
<1> DEFINE p == Duration[w] * threshold[w + 1]
<1>3. p \in Nat
  BY <1>2
<1>4. p \div Duration[w + 1] \in Nat
  BY <1>2, <1>3, DivisionShrinks
<1> QED BY <1>4 DEF ResetThreshold
-------------------------------------------------------------------------------
LEMMA InitInd == Init => IndInv
<1> SUFFICES ASSUME Init PROVE IndInv
  OBVIOUS
<1>1. 1 \in Windows
  BY DelayAssumption DEF Windows
<1>2. ASSUME NEW w \in Windows
      PROVE  Create(w) \in Nat
  <2>1. Duration[w] \in Nat /\ StartDelay \in Nat \ {0}
    BY DelayAssumption
  <2> QED BY <2>1, DivisionShrinks DEF Create
<1>3. N \in Windows
  BY DelayAssumption DEF Windows
<1>4. threshold \in [Windows -> Nat]
  BY <1>2, <1>3 DEF Init
<1>5. count \in [Windows -> Nat]
  BY DelayAssumption DEF Init
<1>6. TypeOK
  BY <1>1, <1>4, <1>5, DelayAssumption DEF Init, TypeOK, Selecting, Idle, Waiting, Entry
<1>7. SeenBurning
  BY DEF Init, SeenBurning, Selecting
<1>8. DelayBounded
  BY DelayAssumption DEF Init, DelayBounded
<1> QED BY <1>6, <1>7, <1>8 DEF IndInv

(* The caller's entry, field by field.                                     *)
LEMMA EntryFields ==
    ASSUME NEW e \in Entry
    PROVE  /\ e = [at |-> e.at, w |-> e.w, n |-> e.n, signals |-> e.signals]
           /\ e.at \in {"idle", "settle", "set", "take", "save", "burn", "inc", "signal"}
           /\ e.w \in Windows /\ e.n \in Nat /\ e.signals \in 0 .. 2
BY DEF Entry

(* What a caller starts with, and how it turns to the next level.          *)
LEMMA EntryStarts ==
    ASSUME NEW e \in Entry, NEW n \in Nat, NEW k \in 0 .. 2,
           NEW at \in {"idle", "settle", "set", "take", "save", "burn", "inc", "signal"}
    PROVE  /\ [e EXCEPT !.at = at, !.signals = k] \in Entry
           /\ [e EXCEPT !.at = at, !.n = n, !.signals = k] \in Entry
<1>1. [e EXCEPT !.at = at, !.signals = k] \in Entry
  BY DEF Entry
<1>2. [e EXCEPT !.at = at, !.n = n, !.signals = k] \in Entry
  BY DEF Entry
<1> QED BY <1>1, <1>2

LEMMA EntryTurns ==
    ASSUME NEW e \in Entry, NEW n \in Nat, NEW w \in Windows
    PROVE  [e EXCEPT !.w = w, !.n = n] \in Entry
BY DEF Entry

LEMMA IdleIsEntry == Idle \in Entry
BY DelayAssumption DEF Idle, Entry, Windows

(* The caller's steps.                                                     *)
LEMMA CallerType ==
    ASSUME TypeOK, Call
    PROVE  caller' \in Entry
<1> USE DelayAssumption
<1>0. /\ caller \in Entry /\ caller.w \in Windows /\ caller.n \in Nat
      /\ 1 \in Windows
      /\ caller.w < N => caller.w + 1 \in Windows
  <2>1. caller \in Entry
    BY DEF TypeOK
  <2>2. caller.w \in Windows /\ caller.n \in Nat
    BY <2>1, EntryFields
  <2> QED BY <2>1, <2>2 DEF Windows
<1>c. count[caller.w] \in Nat
  BY <1>0 DEF TypeOK
<1>1. CASE Answer
  <2>1. CASE caller' = [Idle EXCEPT !.at = "inc", !.signals = 1]
    <3>1. 1 \in 0 .. 2 /\ 0 \in Nat
      OBVIOUS
    <3> QED BY <2>1, <3>1, IdleIsEntry, EntryStarts
  <2>2. CASE caller' = [Idle EXCEPT !.at = "settle", !.n = 3, !.signals = 2]
    <3>1. 2 \in 0 .. 2 /\ 3 \in Nat
      OBVIOUS
    <3> QED BY <2>2, <3>1, IdleIsEntry, EntryStarts
  <2> QED BY <1>1, <2>1, <2>2 DEF Answer
<1>2. CASE TooManyRequests
  <2>1. CASE caller' = [caller EXCEPT !.at = "set"]
    BY <1>0, <2>1 DEF Entry
  <2>2. CASE caller.w < N /\ caller' = [caller EXCEPT !.w = caller.w + 1]
    BY <1>0, <2>2 DEF Entry
  <2>3. CASE caller' = [caller EXCEPT !.w = 1, !.n = caller.n + 1]
    <3>1. caller.n + 1 \in Nat
      BY <1>0
    <3> QED BY <1>0, <2>3, <3>1, EntryTurns
  <2> QED BY <1>2, <2>1, <2>2, <2>3 DEF TooManyRequests
<1>3. CASE SetThreshold
  <2>1. CASE caller' = [caller EXCEPT !.at = "burn"]
    BY <1>0, <2>1 DEF Entry
  <2>2. CASE caller' = [caller EXCEPT !.at = "take"]
    BY <1>0, <2>2 DEF Entry
  <2>3. CASE caller' = Idle
    BY <2>3, IdleIsEntry
  <2> QED BY <1>3, <2>1, <2>2, <2>3 DEF SetThreshold
<1>8. CASE TakeCount
  BY <1>0, <1>c, <1>8 DEF TakeCount, Entry
<1>4. CASE SaveThreshold
  <2>1. CASE caller' = [caller EXCEPT !.at = "burn"]
    BY <1>0, <2>1 DEF Entry
  <2>2. CASE caller' = Idle
    BY <2>2, IdleIsEntry
  <2> QED BY <1>4, <2>1, <2>2 DEF SaveThreshold
<1>5. CASE Burn
  BY <1>0, <1>5 DEF Burn, Entry
<1>6. CASE AfterRequest
  <2>1. CASE caller.w < N /\ caller' = [caller EXCEPT !.w = caller.w + 1]
    BY <1>0, <2>1 DEF Entry
  <2>2. CASE caller' = [caller EXCEPT !.at = "signal"]
    BY <1>0, <2>2 DEF Entry
  <2> QED BY <1>6, <2>1, <2>2 DEF AfterRequest
<1>7. CASE Signal
  <2>1. CASE caller' = [caller EXCEPT !.signals = 1]
    BY <1>0, <2>1 DEF Entry
  <2>2. CASE caller' = Idle
    BY <2>2, IdleIsEntry
  <2> QED BY <1>7, <2>1, <2>2 DEF Signal
<1> QED BY <1>1, <1>2, <1>3, <1>4, <1>5, <1>6, <1>7, <1>8 DEF Call

LEMMA CallType ==
    ASSUME TypeOK, Call
    PROVE  TypeOK'
<1>0. caller' \in Entry
  BY CallerType
<1>1. caller.w \in Windows /\ caller.n \in Nat
  BY EntryFields DEF TypeOK
<1>2. CASE Answer
  BY <1>0, <1>2 DEF Answer, record, TypeOK
<1>3. CASE TooManyRequests
  BY <1>0, <1>3 DEF TooManyRequests, record, budget, TypeOK
<1>4. CASE SetThreshold
  BY <1>0, <1>4 DEF SetThreshold, record, budget, TypeOK
<1>9. CASE TakeCount
  <2>1. count[caller.w] \in Nat
    BY <1>1 DEF TypeOK
  <2> QED BY <1>0, <1>1, <1>9, <2>1 DEF TakeCount, budget, TypeOK
<1>5. CASE SaveThreshold
  BY <1>0, <1>1, <1>5 DEF SaveThreshold, budget, TypeOK
<1>6. CASE Burn
  BY <1>0, <1>1, <1>6 DEF Burn, record, budget, TypeOK
<1>7. CASE AfterRequest
  BY <1>0, <1>1, <1>7, DelayAssumption DEF AfterRequest, record, budget, TypeOK
<1>8. CASE Signal
  BY <1>0, <1>8, DelayAssumption DEF Signal, record, budget, TypeOK
<1> QED BY <1>2, <1>3, <1>4, <1>5, <1>6, <1>7, <1>8, <1>9 DEF Call

LEMMA CallKeeps ==
    ASSUME IndInv, Call
    PROVE  IndInv'
<1>1. TypeOK'
  BY CallType DEF IndInv
<1>2. loop' = loop /\ delay' = delay
  BY DEF Call, Answer, TooManyRequests, SetThreshold, TakeCount, SaveThreshold, Burn,
         AfterRequest, Signal
<1> QED BY <1>1, <1>2 DEF IndInv, SeenBurning, DelayBounded

(* The steps of the goroutine of one window.                               *)
LEMMA LoopKeeps ==
    ASSUME IndInv, NEW w \in Windows, Loop(w)
    PROVE  IndInv'
<1> USE DelayAssumption DEF IndInv, Now
<1>0. /\ count[w] \in Nat /\ threshold[w] \in Nat /\ fire[w] \in Nat
      /\ incs[w] \in 0 .. QueueLen /\ loop[w].n \in Nat
      /\ loop[w].at = "putOut" => loop[w].n > 0
  BY DEF TypeOK, SeenBurning
<1>a. delay' = delay
  BY DEF Loop, AddCounter, AddCounterAgain, CleanCounters, Recount, IncreaseThresholdTo,
         Raise, Save, SaveFails, PutOut, Quench
<1>b. DelayBounded'
  BY <1>a DEF DelayBounded
<1>1. CASE AddCounter(w)
  BY <1>0, <1>1, <1>b DEF AddCounter, budget, TypeOK, SeenBurning
<1>2. CASE AddCounterAgain(w)
  BY <1>0, <1>2, <1>b DEF AddCounterAgain, budget, TypeOK, SeenBurning
<1>3. CASE CleanCounters(w)
  <2>1. PICK n \in 0 .. count[w] :
           IF n = 0 THEN Now(w, "saveClean", threshold[w]) ELSE Now(w, "recount", n)
    BY <1>3 DEF CleanCounters
  <2>2. n \in Nat
    BY <1>0
  <2>3. \/ n = 0 /\ loop' = [loop EXCEPT ![w] = [at |-> "saveClean", n |-> threshold[w]]]
        \/ n > 0 /\ loop' = [loop EXCEPT ![w] = [at |-> "recount", n |-> n]]
    BY <2>1, <2>2
  <2>5. PICK at \in {"saveClean", "recount"}, k \in Nat :
           loop' = [loop EXCEPT ![w] = [at |-> at, n |-> k]]
    BY <1>0, <2>2, <2>3
  <2>6. TypeOK'
    BY <1>0, <1>3, <2>5 DEF CleanCounters, budget, TypeOK
  <2>7. SeenBurning'
    BY <2>5 DEF TypeOK, SeenBurning
  <2> QED BY <1>b, <2>6, <2>7
<1>4. CASE Recount(w)
  <2>1. PICK n \in count[w] + 1 .. loop[w].n :
           /\ count' = [count EXCEPT ![w] = n]
           /\ IF n = loop[w].n THEN Now(w, "saveClean", threshold[w]) ELSE UNCHANGED loop
    BY <1>4 DEF Recount
  <2>2. n \in Nat
    BY <1>0, <2>1
  <2>4. \/ loop' = [loop EXCEPT ![w] = [at |-> "saveClean", n |-> threshold[w]]]
        \/ loop' = loop
    BY <2>1
  <2>3. count' \in [Windows -> Nat]
    BY <2>1, <2>2 DEF TypeOK
  <2>5. loop' \in [Windows -> [at : {"select", "recount", "raise", "putOut",
                                    "saveAdd", "saveClean", "saveRaise"}, n : Nat]]
    BY <1>0, <2>4 DEF TypeOK
  <2>6. TypeOK'
    BY <1>4, <2>3, <2>5 DEF Recount, budget, TypeOK
  <2>7. SeenBurning'
    BY <1>0, <2>4 DEF TypeOK, SeenBurning
  <2> QED BY <1>b, <2>6, <2>7
<1>5. CASE IncreaseThresholdTo(w)
  <2>1. ResetThreshold(w) \in Nat
    BY <1>5, ResetType DEF IncreaseThresholdTo
  <2> QED BY <1>0, <1>5, <1>b, <2>1
    DEF IncreaseThresholdTo, record, budget, TypeOK, SeenBurning
<1>6. CASE Raise(w)
  BY <1>0, <1>6, <1>b DEF Raise, budget, TypeOK, SeenBurning
<1>7. CASE Save(w)
  BY <1>0, <1>7, <1>b DEF Save, budget, TypeOK, SeenBurning
<1>8. CASE SaveFails(w)
  BY <1>0, <1>8, <1>b DEF SaveFails, record, budget, TypeOK, SeenBurning
<1>9. CASE PutOut(w)
  BY <1>0, <1>9, <1>b DEF PutOut, record, budget, TypeOK, SeenBurning
<1>10. CASE Quench(w)
  BY <1>0, <1>10, <1>b DEF Quench, record, budget, TypeOK, SeenBurning
<1> QED BY <1>1, <1>2, <1>3, <1>4, <1>5, <1>6, <1>7, <1>8, <1>9, <1>10 DEF Loop

(* The delay manager's steps: the delay it takes over is at most twice a   *)
(* fifth of a window, and what it lowers stays above 0.                    *)
LEMMA ManageKeeps ==
    ASSUME IndInv, Manage
    PROVE  IndInv'
<1> USE DelayAssumption DEF IndInv
<1>0. 1 \in Windows /\ manager.w \in Windows /\ delay \in Nat /\ delay >= 1
  BY DEF Windows, TypeOK, DelayBounded
<1>1. UNCHANGED <<record, fire, incs, loop, caller, budget>>
  BY DEF Manage, recalculate, recalculateFails
<1>2. PICK f \in 1 .. 2 : Factor(f)
  BY DEF Manage, recalculate, recalculateFails
<1>3. SeenBurning'
  BY <1>1 DEF SeenBurning
<1>4. signals' \in 0 .. SignalLen
  BY DEF Manage, recalculate, recalculateFails, Factor, TypeOK
<1>5. manager' \in [w : Windows, factor : 1 .. 2, decrease : BOOLEAN]
  <2>1. manager.w < N => manager.w + 1 \in Windows
    BY <1>0 DEF Windows
  <2>2. manager.decrease \in BOOLEAN
    BY DEF TypeOK
  <2>3. CASE manager' = Waiting
    BY <1>0, <2>3 DEF Waiting
  <2>4. CASE \E g \in 1 .. 2, d \in BOOLEAN :
                /\ manager.w < N
                /\ manager' = [w |-> manager.w + 1, factor |-> g, decrease |-> d]
    BY <2>1, <2>4
  <2>5. CASE recalculate
    <3>1. PICK g \in 1 .. 2 :
             \/ manager' = Waiting
             \/ /\ manager.w < N
                /\ manager' = [w |-> manager.w + 1, factor |-> g,
                               decrease |-> manager.decrease /\ RecommendedDelay(manager.w) = 0]
      BY <2>5 DEF recalculate
    <3>2. (manager.decrease /\ RecommendedDelay(manager.w) = 0) \in BOOLEAN
      OBVIOUS
    <3> QED BY <2>3, <2>4, <3>1, <3>2
  <2>6. CASE recalculateFails
    BY <2>3, <2>6 DEF recalculateFails
  <2> QED BY <2>5, <2>6 DEF Manage
<1>6. delay' \in Nat /\ DelayBounded'
  <2>1. CASE delay' = delay
    BY <1>0, <2>1 DEF DelayBounded
  <2>2. CASE delay' = Lowered(delay)
    <3>1. Lowered(delay) \in Nat /\ 1 <= Lowered(delay) /\ Lowered(delay) <= delay
      BY <1>0, LoweredBounds
    <3>2. \A w \in Windows : Duration[w] \div 5 \in Nat
      BY DivisionShrinks
    <3> QED BY <1>0, <2>2, <3>1, <3>2 DEF DelayBounded
  <2>3. CASE \E g \in 1 .. 2 : /\ RecommendedDelay(manager.w) > 0
                              /\ delay' = RecommendedDelay(manager.w) * g
    <3>1. PICK g \in 1 .. 2 : delay' = RecommendedDelay(manager.w) * g
      BY <2>3
    <3>2. /\ RecommendedDelay(manager.w) \in Nat
          /\ RecommendedDelay(manager.w) <= Duration[manager.w] \div 5
          /\ RecommendedDelay(manager.w) > 0
      BY <1>0, <2>3, RecommendedType
    <3>3. Duration[manager.w] \div 5 \in Nat
      BY <1>0, DivisionShrinks
    <3>4. delay' \in Nat /\ delay' >= 1 /\ delay' <= 2 * (Duration[manager.w] \div 5)
      BY <3>1, <3>2, <3>3
    <3> QED BY <1>0, <3>4 DEF DelayBounded
  <2> QED BY <2>1, <2>2, <2>3 DEF Manage, recalculate, recalculateFails
<1>7. TypeOK'
  BY <1>1, <1>4, <1>5, <1>6 DEF record, budget, TypeOK
<1> QED BY <1>3, <1>6, <1>7

LEMMA CrashKeeps ==
    ASSUME IndInv, Crash
    PROVE  IndInv'
<1> USE DelayAssumption DEF IndInv
<1>1. PICK c \in [Windows -> 0 .. MaxCount] : Started(c)
  BY DEF Crash
<1>2. 1 \in Windows /\ c \in [Windows -> Nat]
  BY DEF Windows
<1>3. TypeOK'
  BY <1>1, <1>2 DEF Crash, Started, TypeOK, Selecting, Idle, Waiting, Entry
<1> QED BY <1>1, <1>3 DEF Crash, Started, SeenBurning, DelayBounded, Selecting, Idle

LEMMA NextKeeps == IndInv /\ [Next]_vars => IndInv'
<1> SUFFICES ASSUME IndInv, [Next]_vars PROVE IndInv'
  OBVIOUS
<1>1. CASE Elapse
  BY <1>1, DelayAssumption
    DEF Elapse, record, IndInv, TypeOK, SeenBurning, DelayBounded
<1>2. CASE UNCHANGED vars
  BY <1>2 DEF vars, record, budget, IndInv, TypeOK, SeenBurning, DelayBounded
<1> QED BY <1>1, <1>2, CallKeeps, LoopKeeps, ManageKeeps, CrashKeeps DEF Next

LEMMA Inductive == Spec => []IndInv
BY InitInd, NextKeeps, PTL DEF Spec
-------------------------------------------------------------------------------
(* Type correctness: the channels keep their bounds, and the fire, which   *)
(* the code keeps in an unsigned integer, is never put out below 0.        *)
THEOREM TypeCorrect == Spec => []TypeOK
BY Inductive, PTL DEF IndInv

(* The delay between two requests of an account is at least a second and   *)
(* bounded by the lengths of the windows.                                  *)
THEOREM DelayStaysBounded == Spec => []DelayBounded
BY Inductive, PTL DEF IndInv

(* Only a refused request lowers a threshold, directly or by overtaking a  *)
(* raise; cleaning, counting, saving and raising never do.                 *)
THEOREM OnlyRefusalLowers == Spec => LoweredByRefusal
<1> DEFINE Lowers(w) ==
      ~ Overtaken(w) /\ (threshold'[w] < threshold[w] \/ Overtaken(w)')
        => (caller.at = "take" /\ caller.w = w) \/ crashes' # crashes
<1>1. ASSUME IndInv, Next, NEW w \in Windows
      PROVE  Lowers(w)
  <2>0. threshold[w] \in Nat /\ loop[w].n \in Nat
    BY <1>1 DEF IndInv, TypeOK
  <2>1. CASE Call \/ Manage \/ Elapse
    <3>1. loop' = loop
      BY <2>1 DEF Call, Answer, TooManyRequests, SetThreshold, TakeCount, SaveThreshold, Burn,
                  AfterRequest, Signal, Manage, recalculate, recalculateFails, Elapse
    <3>2. CASE TakeCount
      BY <1>1, <3>1, <3>2, <2>0 DEF TakeCount, Overtaken, IndInv, TypeOK, Entry
    <3>3. CASE threshold' = threshold
      BY <3>1, <3>3, <2>0 DEF Overtaken
    <3> QED BY <2>1, <3>2, <3>3
      DEF Call, Answer, TooManyRequests, SetThreshold, SaveThreshold, Burn, AfterRequest, Signal,
          Manage, recalculate, recalculateFails, Elapse, record
  <2>2. ASSUME NEW v \in Windows, Loop(v)
        PROVE  Lowers(w)
    <3>1. CASE IncreaseThresholdTo(v)
      <4>1. ResetThreshold(v) \in Nat /\ threshold[v] \in Nat
        BY <1>1, <3>1, ResetType DEF IncreaseThresholdTo, IndInv, TypeOK
      <4> QED BY <1>1, <3>1, <4>1, <2>0
        DEF IncreaseThresholdTo, Now, record, Overtaken, IndInv, TypeOK
    <3>2. CASE Raise(v)
      BY <1>1, <3>2, <2>0 DEF Raise, Now, Overtaken, IndInv, TypeOK
    <3>3. CASE ~ IncreaseThresholdTo(v) /\ ~ Raise(v)
      <4>1. threshold' = threshold
        BY <2>2, <3>3 DEF Loop, AddCounter, AddCounterAgain, CleanCounters, Recount, Save,
                          SaveFails, PutOut, Quench, record
      <4>2. loop'[w].at = "raise" => loop'[w] = loop[w]
        BY <1>1, <2>2, <3>3 DEF Loop, AddCounter, AddCounterAgain, CleanCounters, Recount, Save,
                          SaveFails, PutOut, Quench, Now, IndInv, TypeOK
      <4> QED BY <4>1, <4>2, <2>0 DEF Overtaken
    <3> QED BY <3>1, <3>2, <3>3
  <2>3. CASE Crash
    BY <1>1, <2>3 DEF Crash, IndInv, TypeOK
  <2> QED BY <1>1, <2>1, <2>2, <2>3 DEF Next
<1>2. IndInv /\ [Next]_vars => [\A w \in Windows : Lowers(w)]_vars
  BY <1>1
<1>3. [][\A w \in Windows : Lowers(w)]_vars => LoweredByRefusal
  BY DEF LoweredByRefusal
<1> HIDE DEF Lowers
<1> QED BY <1>2, <1>3, Inductive, PTL DEF Spec
===============================================================================

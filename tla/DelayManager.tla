----------------------------- MODULE DelayManager -----------------------------
(***************************************************************************)
(* The limits of one account (internal/tweetfinder/delay_manager_v2.go and *)
(* windowlimiter/limiter.go) and the record they share: the cache of the   *)
(* repository (internal/repo/request_limiter.go) hands out a pointer, and  *)
(* nobody locks it.  Per window there is a goroutine (loop); the caller    *)
(* that holds the finder and the loop of the delay manager run beside them.*)
(*                                                                         *)
(* Windows are 1..N, shorter ones first.  A step is what no other          *)
(* goroutine can see the middle of: one read or write of a shared field,   *)
(* or a commit.  What the batches of requests hold is left to              *)
(* RequestWindow: a cleaning leaves any number of them.                    *)
(***************************************************************************)
EXTENDS Integers

CONSTANTS
    N,          \* windows of an account
    Duration,   \* their lengths in seconds
    StartDelay, \* the delay the pool starts an account with
    QueueLen,   \* room in the channel count of a limiter
    SignalLen,  \* room in the channel forceRecalculate
    Requests,   \* model bound: requests the account makes
    MaxCount,   \* model bound: the largest count of a window
    Crashes     \* model bound: restarts of the process

Windows == 1 .. N

ASSUME DelayAssumption == /\ N \in Nat \ {0}
                          /\ Duration \in [Windows -> Nat \ {0}]
                          /\ StartDelay \in Nat \ {0}
                          /\ \A w \in Windows : StartDelay <= Duration[w]
                          /\ \A v, w \in Windows : v < w => Duration[v] < Duration[w]
                          /\ QueueLen \in Nat \ {0}
                          /\ SignalLen \in Nat \ {0}
                          /\ Requests \in Nat
                          /\ MaxCount \in Nat
                          /\ Crashes \in Nat

VARIABLES
    count,      \* RequestsCount of the shared record
    threshold,  \* Threshold of the shared record
    saved,      \* the threshold in the database
    fire,       \* the penalty of a window for a refused request
    incs,       \* requests in the channel count
    loop,       \* what the goroutine of a window is doing, and its local value
    caller,     \* the same for the caller
    manager,    \* the same for the loop of the delay manager
    delay,      \* seconds between two requests of the account
    signals,    \* length of forceRecalculate
    elapsed,    \* windows that have passed since startTime
    asked,      \* requests so far
    crashes     \* restarts so far

record == <<count, threshold, saved>>
budget == <<elapsed, asked, crashes>>
vars   == <<record, fire, incs, loop, caller, manager, delay, signals, budget>>

Selecting == [at |-> "select", n |-> 0]
Idle      == [at |-> "idle", w |-> 1, n |-> 0, signals |-> 0]
Waiting   == [w |-> 1, factor |-> 1, decrease |-> TRUE]

(* Start creates a record that does not exist with this threshold.         *)
Create(w) == Duration[w] \div StartDelay

(* A process starts with what earlier ones have left in the database.      *)
Started(c) ==
    /\ fire' = [w \in Windows |-> 0]
    /\ incs' = [w \in Windows |-> 0]
    /\ loop' = [w \in Windows |-> Selecting]
    /\ caller' = Idle /\ manager' = Waiting
    /\ delay' = StartDelay /\ signals' = 0
    /\ elapsed' = 0
    /\ count' = c /\ threshold' = saved

(* The process has just started the account; its record may be an old one. *)
Init ==
    /\ count \in [Windows -> 0 .. MaxCount]
    /\ threshold \in [Windows -> 1 .. Create(N)]
    /\ \A w \in Windows : threshold[w] <= Create(w)
    /\ saved = threshold
    /\ fire = [w \in Windows |-> 0]
    /\ incs = [w \in Windows |-> 0]
    /\ loop = [w \in Windows |-> Selecting]
    /\ caller = Idle /\ manager = Waiting
    /\ delay = StartDelay /\ signals = 0
    /\ elapsed = 0 /\ asked = 0 /\ crashes = 0
-------------------------------------------------------------------------------
(* The caller: what Find and FindNext tell the delay manager.              *)

(* A request has been answered, or refused for its rate; after any other   *)
(* error it is not counted and nothing changes.                            *)
Answer ==
    /\ caller.at = "idle" /\ asked < Requests
    /\ asked' = asked + 1
    /\ \/ caller' = [Idle EXCEPT !.at = "inc", !.signals = 1]
       \/ caller' = [Idle EXCEPT !.at = "settle", !.n = 3, !.signals = 2]
    /\ UNCHANGED <<record, fire, incs, loop, manager, delay, signals, elapsed, crashes>>

(* The whole part of Temp, without the fire: it is below a level exactly   *)
(* when Temp is.                                                           *)
Heat(w) == IF count[w] < threshold[w] THEN 0
           ELSE IF count[w] < 2 * threshold[w] THEN 1 ELSE 2

(* TooManyRequests looks for the first window below the level in caller.n, *)
(* level by level.  A temperature that cannot be read is 0.                *)
TooManyRequests ==
    LET w == caller.w
    IN  /\ caller.at = "settle"
        /\ \/ caller' = [caller EXCEPT !.at = "set"]
           \/ /\ Heat(w) + fire[w] >= caller.n
              /\ caller' = IF w < N THEN [caller EXCEPT !.w = w + 1]
                           ELSE [caller EXCEPT !.w = 1, !.n = caller.n + 1]
        /\ UNCHANGED <<record, fire, incs, loop, manager, delay, signals, budget>>

(* SetThreshold, for a window that has passed since the start, looks       *)
(* whether there are requests at all.  An error ends TooManyRequests, and  *)
(* the refused request is not counted.                                     *)
SetThreshold ==
    LET w == caller.w
    IN  /\ caller.at = "set"
        /\ \/ /\ w > elapsed \/ count[w] = 0
              /\ caller' = [caller EXCEPT !.at = "burn"]
           \/ /\ w <= elapsed /\ count[w] # 0
              /\ caller' = [caller EXCEPT !.at = "take"]
           \/ /\ w <= elapsed
              /\ caller' = Idle
        /\ UNCHANGED <<record, fire, incs, loop, manager, delay, signals, budget>>

(* It reads the count a second time: that one becomes the threshold, and   *)
(* is marshalled.                                                          *)
TakeCount ==
    LET w == caller.w
    IN  /\ caller.at = "take"
        /\ threshold' = [threshold EXCEPT ![w] = count[w]]
        /\ caller' = [caller EXCEPT !.at = "save", !.n = count[w]]
        /\ UNCHANGED <<count, saved, fire, incs, loop, manager, delay, signals, budget>>

(* A commit that ends in an error may be in the database all the same.     *)
SaveThreshold ==
    /\ caller.at = "save"
    /\ \/ /\ saved' = [saved EXCEPT ![caller.w] = caller.n]
          /\ caller' = [caller EXCEPT !.at = "burn"]
       \/ /\ saved' \in {saved, [saved EXCEPT ![caller.w] = caller.n]}
          /\ caller' = Idle
    /\ UNCHANGED <<count, threshold, fire, incs, loop, manager, delay, signals, budget>>

Burn ==
    /\ caller.at = "burn"
    /\ fire' = [fire EXCEPT ![caller.w] = @ + 1]
    /\ caller' = [caller EXCEPT !.at = "inc", !.w = 1]
    /\ UNCHANGED <<record, incs, loop, manager, delay, signals, budget>>

(* AfterRequest tells every window, and waits while a channel is full.     *)
AfterRequest ==
    LET w == caller.w
    IN  /\ caller.at = "inc" /\ incs[w] < QueueLen
        /\ incs' = [incs EXCEPT ![w] = @ + 1]
        /\ caller' = IF w < N THEN [caller EXCEPT !.w = w + 1]
                              ELSE [caller EXCEPT !.at = "signal"]
        /\ UNCHANGED <<record, fire, loop, manager, delay, signals, budget>>

(* One signal of AfterRequest, and another one of TooManyRequests.         *)
Signal ==
    /\ caller.at = "signal" /\ signals < SignalLen
    /\ signals' = signals + 1
    /\ caller' = IF caller.signals = 1 THEN Idle
                 ELSE [caller EXCEPT !.signals = 1]
    /\ UNCHANGED <<record, fire, incs, loop, manager, delay, budget>>
-------------------------------------------------------------------------------
(* The goroutine of a window.                                              *)

Now(w, at, n) == loop' = [loop EXCEPT ![w] = [at |-> at, n |-> n]]

(* AddCounter counts in the shared record and marshals it.                 *)
AddCounter(w) ==
    /\ loop[w].at = "select" /\ incs[w] > 0 /\ count[w] < MaxCount
    /\ incs' = [incs EXCEPT ![w] = @ - 1]
    /\ count' = [count EXCEPT ![w] = @ + 1]
    /\ Now(w, "saveAdd", threshold[w])
    /\ UNCHANGED <<threshold, saved, fire, caller, manager, delay, signals, budget>>

(* A commit that fails is tried again from the start: the request is       *)
(* counted once more.                                                      *)
AddCounterAgain(w) ==
    /\ loop[w].at = "saveAdd" /\ count[w] < MaxCount
    /\ count' = [count EXCEPT ![w] = @ + 1]
    /\ saved' \in {saved, [saved EXCEPT ![w] = loop[w].n]}
    /\ Now(w, "saveAdd", threshold[w])
    /\ UNCHANGED <<threshold, fire, incs, caller, manager, delay, signals, budget>>

(* A name with a suffix after an underscore is a faulty variant of the     *)
(* definition that follows it: here, a cleaning that counts nothing anew   *)
(* does not write.                                                         *)
CleanCounters_Idle(w) ==
    /\ loop[w].at = "select"
    /\ \E n \in 0 .. count[w] :
          /\ count' = [count EXCEPT ![w] = n]
          /\ IF n = count[w] THEN UNCHANGED loop ELSE Now(w, "saveClean", threshold[w])
    /\ UNCHANGED <<threshold, saved, fire, incs, caller, manager, delay, signals, budget>>

(* CleanCounters recounts in place, from 0, batch by batch, and marshals.  *)
(* The count it ends with is one that it held before or less.              *)
CleanCounters(w) ==
    /\ loop[w].at = "select"
    /\ count' = [count EXCEPT ![w] = 0]
    /\ \E n \in 0 .. count[w] :
          IF n = 0 THEN Now(w, "saveClean", threshold[w]) ELSE Now(w, "recount", n)
    /\ UNCHANGED <<threshold, saved, fire, incs, caller, manager, delay, signals, budget>>

Recount(w) ==
    /\ loop[w].at = "recount"
    /\ \E n \in count[w] + 1 .. loop[w].n :
          /\ count' = [count EXCEPT ![w] = n]
          /\ IF n = loop[w].n THEN Now(w, "saveClean", threshold[w]) ELSE UNCHANGED loop
    /\ UNCHANGED <<threshold, saved, fire, incs, caller, manager, delay, signals, budget>>

(* The reset ticker: what the threshold of the next window allows for this *)
(* one, 0 when it cannot be read.                                          *)
ResetThreshold(w) == (Duration[w] * threshold[w + 1]) \div Duration[w + 1]

(* IncreaseThresholdTo that does not look.                                 *)
IncreaseThresholdTo_Always(w) ==
    /\ loop[w].at = "select" /\ w < N
    /\ ResetThreshold(w) > 0
    /\ Now(w, "raise", ResetThreshold(w))
    /\ UNCHANGED <<record, fire, incs, caller, manager, delay, signals, budget>>

(* IncreaseThresholdTo keeps a larger threshold, and looks and sets in two *)
(* steps.                                                                  *)
IncreaseThresholdTo(w) ==
    /\ loop[w].at = "select" /\ w < N
    /\ ResetThreshold(w) > 0
    /\ threshold[w] <= ResetThreshold(w)
    /\ Now(w, "raise", ResetThreshold(w))
    /\ UNCHANGED <<record, fire, incs, caller, manager, delay, signals, budget>>

Raise(w) ==
    /\ loop[w].at = "raise"
    /\ threshold' = [threshold EXCEPT ![w] = loop[w].n]
    /\ Now(w, "saveRaise", loop[w].n)
    /\ UNCHANGED <<count, saved, fire, incs, caller, manager, delay, signals, budget>>

Save(w) ==
    /\ loop[w].at \in {"saveAdd", "saveClean", "saveRaise"}
    /\ saved' = [saved EXCEPT ![w] = loop[w].n]
    /\ Now(w, "select", 0)
    /\ UNCHANGED <<count, threshold, fire, incs, caller, manager, delay, signals, budget>>

(* A cleaning that is not saved is only logged; one that is saved in spite *)
(* of the error looks like Save.  A raise that is not saved is a panic:    *)
(* that is Crash.                                                          *)
SaveFails(w) ==
    /\ loop[w].at = "saveClean"
    /\ Now(w, "select", 0)
    /\ UNCHANGED <<record, fire, incs, caller, manager, delay, signals, budget>>

(* A ticker that leaves the last fire, and one that does not look.         *)
PutOut_Last(w) ==
    /\ loop[w].at = "select" /\ fire[w] > 1
    /\ Now(w, "putOut", fire[w])
    /\ UNCHANGED <<record, fire, incs, caller, manager, delay, signals, budget>>

PutOut_Blind(w) ==
    /\ loop[w].at = "select"
    /\ Now(w, "putOut", fire[w])
    /\ UNCHANGED <<record, fire, incs, caller, manager, delay, signals, budget>>

(* The ticker that puts out the fire: fire-- is a read and a write, and a  *)
(* fire++ between them is lost.  One that loses the fire-- is as if the    *)
(* ticker had not come.                                                    *)
PutOut(w) ==
    /\ loop[w].at = "select" /\ fire[w] > 0
    /\ Now(w, "putOut", fire[w])
    /\ UNCHANGED <<record, fire, incs, caller, manager, delay, signals, budget>>

Quench(w) ==
    /\ loop[w].at = "putOut"
    /\ fire' = [fire EXCEPT ![w] = loop[w].n - 1]
    /\ Now(w, "select", 0)
    /\ UNCHANGED <<record, incs, caller, manager, delay, signals, budget>>
-------------------------------------------------------------------------------
(* The loop of the delay manager.                                          *)

(* A window that has used up its threshold recommends a delay.             *)
RecommendedDelay(w) ==
    IF threshold[w] = 0 \/ threshold[w] > count[w] THEN 0
    ELSE (Duration[w] \div 5) \div threshold[w]

Lowered_Half(d) == d \div 2

Lowered_Two(d) == IF d <= 2 THEN d ELSE IF d < 6 THEN d - 1 ELSE d \div 2

Lowered(d) == IF d <= 1 THEN d ELSE IF d < 6 THEN d - 1 ELSE d \div 2

(* The ticker, or a signal, which doubles what is recommended.             *)
Factor(f) == IF manager.w > 1 THEN f = manager.factor /\ UNCHANGED signals
             ELSE \/ f = 1 /\ UNCHANGED signals
                  \/ f = 2 /\ signals > 0 /\ signals' = signals - 1

(* recalculate asks the windows in turn and stops at the first delay that  *)
(* is not the current one.  When no window recommends any, it is lowered.  *)
recalculate ==
    \E f \in 1 .. 2 :
        LET r == RecommendedDelay(manager.w)
            taken == r > 0 /\ r * f # delay
            decrease == manager.decrease /\ r = 0
        IN  /\ Factor(f)
            /\ \/ /\ taken
                  /\ delay' = r * f
                  /\ manager' = Waiting
               \/ /\ ~ taken /\ manager.w < N
                  /\ manager' = [w |-> manager.w + 1, factor |-> f, decrease |-> decrease]
                  /\ UNCHANGED delay
               \/ /\ ~ taken /\ manager.w = N
                  /\ delay' = IF decrease THEN Lowered(delay) ELSE delay
                  /\ manager' = Waiting
            /\ UNCHANGED <<record, fire, incs, loop, caller, budget>>

(* A limit that cannot be read ends the recalculation.                     *)
recalculateFails ==
    \E f \in 1 .. 2 :
        /\ Factor(f)
        /\ manager' = Waiting
        /\ UNCHANGED <<record, fire, incs, loop, caller, delay, budget>>
-------------------------------------------------------------------------------
Elapse ==
    /\ elapsed < N
    /\ elapsed' = elapsed + 1
    /\ UNCHANGED <<record, fire, incs, loop, caller, manager, delay, signals, asked, crashes>>

(* The end of the process, and its next start.                             *)
Crash ==
    /\ crashes < Crashes
    /\ crashes' = crashes + 1
    /\ \E c \in [Windows -> 0 .. MaxCount] : Started(c)
    /\ UNCHANGED <<saved, asked>>

Call == Answer \/ TooManyRequests \/ SetThreshold \/ TakeCount \/ SaveThreshold \/ Burn
            \/ AfterRequest \/ Signal

Loop(w) == \/ AddCounter(w) \/ AddCounterAgain(w)
           \/ CleanCounters(w) \/ Recount(w)
           \/ IncreaseThresholdTo(w) \/ Raise(w)
           \/ Save(w) \/ SaveFails(w) \/ PutOut(w) \/ Quench(w)

Manage == recalculate \/ recalculateFails

Next == Call \/ (\E w \in Windows : Loop(w)) \/ Manage \/ Elapse \/ Crash

Spec == Init /\ [][Next]_vars

(* A goroutine goes on; select chooses at random among what is ready; the  *)
(* database does not fail for ever.                                        *)
Fairness ==
    /\ WF_vars(Call)
    /\ \A w \in Windows :
          /\ SF_vars(manager.w = w /\ recalculate)
          /\ SF_vars(AddCounter(w)) /\ SF_vars(CleanCounters(w)) /\ SF_vars(PutOut(w))
          /\ WF_vars(Recount(w) \/ Raise(w) \/ Quench(w))
          /\ SF_vars(Save(w))

FairSpec == Spec /\ Fairness
-------------------------------------------------------------------------------
Entry == [at : {"idle", "settle", "set", "take", "save", "burn", "inc", "signal"},
          w : Windows, n : Nat, signals : 0 .. 2]

TypeOK ==
    /\ count \in [Windows -> Nat]
    /\ threshold \in [Windows -> Nat]
    /\ saved \in [Windows -> Nat]
    /\ fire \in [Windows -> Nat]
    /\ incs \in [Windows -> 0 .. QueueLen]
    /\ loop \in [Windows -> [at : {"select", "recount", "raise", "putOut",
                                   "saveAdd", "saveClean", "saveRaise"}, n : Nat]]
    /\ caller \in Entry
    /\ manager \in [w : Windows, factor : 1 .. 2, decrease : BOOLEAN]
    /\ delay \in Nat
    /\ signals \in 0 .. SignalLen
    /\ elapsed \in 0 .. N
    /\ asked \in Nat /\ crashes \in Nat

(* What the log of SetThreshold says: no threshold is set when there are   *)
(* no requests, so none is 0.  But a cleaning sets the count to 0 before   *)
(* it counts, also between the two reads of SetThreshold.                  *)
ThresholdPositive == \A w \in Windows : threshold[w] > 0

(* The account never waits longer than twice what its longest window can   *)
(* recommend, and never stops waiting between two requests.                *)
DelayBounded ==
    /\ delay >= 1
    /\ \/ delay <= StartDelay
       \/ \E w \in Windows : delay <= 2 * (Duration[w] \div 5)

(* A raise that looked at the threshold before it became a larger one.     *)
Overtaken(w) == loop[w].at = "raise" /\ loop[w].n < threshold[w]

(* A threshold is lowered by a refused request only: because the count at  *)
(* the refusal is lower, or because it is higher and a raise had looked    *)
(* before and writes after it.                                             *)
LoweredByRefusal ==
    [][ \A w \in Windows :
           ~ Overtaken(w) /\ (threshold'[w] < threshold[w] \/ Overtaken(w)')
             => (caller.at = "take" /\ caller.w = w) \/ crashes' # crashes ]_vars

(* What a goroutine marshalled before another one changed the threshold is *)
(* committed after it: the database is behind, but not for good.           *)
ThresholdIsSaved ==
    \A w \in Windows : (saved[w] # threshold[w]) ~> (saved[w] = threshold[w])

(* A refused request does not keep its account hot for ever.               *)
FireGoesOut == \A w \in Windows : (fire[w] > 0) ~> (fire[w] = 0)

(* When no window recommends a delay any more, the delay comes down to 1.  *)
DelayComesDown ==
    <>[](\A w \in Windows : RecommendedDelay(w) = 0) => <>[](delay = 1)
===============================================================================

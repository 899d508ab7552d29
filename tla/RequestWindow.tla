----------------------------- MODULE RequestWindow -----------------------------
(***************************************************************************)
(* The requests of one account in one window: batches of times in the      *)
(* shared record (internal/repo/model/request_limits.go, RequestLimitsV2), *)
(* their copies in the database (internal/repo/request_limiter.go), and    *)
(* the keys of these (internal/repo/keys/key_builder.go).  One goroutine   *)
(* counts, from a channel, and cleans; the caller whose request has been   *)
(* refused reads the count and saves the record at any time, unlocked.     *)
(* What thresholds are set to is in DelayManager.                          *)
(*                                                                         *)
(* A batch holds the time it starts at and, for each request, the seconds  *)
(* to the one before it.  Here: k, the sum of these seconds up to the      *)
(* request, which is all the code computes with, and at, when the request  *)
(* was made, which the code forgets.  Times are in units of 1 / Sec.       *)
(***************************************************************************)
EXTENDS Integers, Sequences, FiniteSetsExt

CONSTANTS
    Sec,        \* units of time in a second
    Window,     \* the length of the window in seconds
    Word,       \* values of a 32-bit integer
    Byte,       \* values of a byte of a key; a key has two of them
    BatchSize,  \* maxRequestsInBatch
    QueueLen,   \* room in the channel count
    End,        \* model bound: the last unit of time
    Requests,   \* model bound: requests the account makes, refused ones too
    Fails,      \* model bound: commits that fail
    Crashes     \* model bound: restarts of the process

ASSUME WindowAssumption == /\ Sec \in Nat \ {0} /\ Window \in Nat \ {0}
                           /\ Word \in Nat \ {0} /\ Byte \in Nat \ {0}
                           /\ BatchSize \in Nat \ {0} /\ QueueLen \in Nat \ {0}
                           /\ Requests \in Nat /\ Fails \in Nat /\ Crashes \in Nat
                           /\ End \in Nat /\ Sec * Window <= End
                           /\ End < Sec * Byte * Byte
                           /\ 2 * End + Sec < Sec * Word

VARIABLES
    now,
    tick,       \* when the ticker of the goroutine is next due
    queue,      \* the channel count: when requests were made
    again,      \* the head of queue has been taken, and is to be counted again
    count,      \* RequestsCount of the record
    batches,    \* Requests of the record
    summed,     \* batches the cleaning has added up, -1 while there is none
    setting,    \* where the caller is in SetThreshold
    marshalled, \* the count in the record it has marshalled
    savedCount, \* RequestsCount in the database
    saved,      \* the batches in the database, by key
    asked, fails, crashes

record == <<count, batches>>
caller == <<setting, marshalled>>
stored == <<savedCount, saved>>
bounds == <<asked, fails, crashes>>
vars   == <<now, tick, queue, again, record, summed, caller, stored, bounds>>

(* The process has just started the account, with an empty record; the     *)
(* clock is late enough for a window before it.                            *)
Init ==
    /\ now = Sec * Window /\ tick = now + Sec
    /\ queue = <<>> /\ again = FALSE
    /\ count = 0 /\ batches = <<>> /\ summed = -1
    /\ setting = "idle" /\ marshalled = 0
    /\ savedCount = 0 /\ saved = [s \in {} |-> <<>>]
    /\ asked = 0 /\ fails = 0 /\ crashes = 0

(* The key of a batch keeps the second it starts in.                       *)
Key(b) == b.start \div Sec

(* Where the requests are: the number of a batch and a place in it.        *)
Places(bs) == UNION {{i} \X DOMAIN bs[i].reqs : i \in DOMAIN bs}

Total(bs) == Cardinality(Places(bs))

(* A batch in the database, under the key of its start.                    *)
Put(f, b) == [s \in DOMAIN f \cup {Key(b)} |-> IF s = Key(b) THEN b ELSE f[s]]
-------------------------------------------------------------------------------
(* AfterRequest: the channel gets the time.  One caller at a time has the  *)
(* account, and a request that was refused does not come here.             *)
Inc ==
    /\ setting = "idle"
    /\ asked < Requests /\ Len(queue) < QueueLen + (IF again THEN 1 ELSE 0)
    /\ asked' = asked + 1
    /\ queue' = Append(queue, now)
    /\ UNCHANGED <<now, tick, again, record, summed, caller, stored, fails, crashes>>

(* A name with a suffix after an underscore is a faulty variant of the     *)
(* definition that follows it: here, seconds are rounded up.               *)
Seconds_Up(d) ==
    IF d >= 0 THEN {((d + Sec - 1) \div Sec) % Word}
    ELSE {(- ((- d) \div Sec)) % Word, 0}

(* uint32(d.Seconds()).  A negative number has no uint32: amd64 takes its  *)
(* last bits, arm64 takes 0.                                               *)
Seconds(d) == IF d >= 0 THEN {(d \div Sec) % Word}
              ELSE {(- ((- d) \div Sec)) % Word, 0}

(* The last batch with one more request, counted in the second k of it.    *)
Longer(k, t) == [batches EXCEPT ![Len(batches)].reqs = Append(@, [k |-> k, at |-> t])]

(* A new batch that starts with the one before it.                         *)
Counting_OldStart(t) ==
    IF batches = <<>> \/ Len(batches[Len(batches)].reqs) = BatchSize
    THEN {Append(batches, [start |-> IF batches = <<>> THEN t ELSE batches[Len(batches)].start,
                           reqs |-> <<[k |-> 0, at |-> t]>>])}
    ELSE {Longer(k, t) : k \in Seconds(t - batches[Len(batches)].start)}

(* A batch that takes one request too many.                                *)
Counting_Over(t) ==
    IF batches = <<>> \/ Len(batches[Len(batches)].reqs) > BatchSize
    THEN {Append(batches, [start |-> t, reqs |-> <<[k |-> 0, at |-> t]>>])}
    ELSE {Longer(k, t) : k \in Seconds(t - batches[Len(batches)].start)}

(* A full batch, or none, is followed by one that starts with the request. *)
Counting(t) ==
    IF batches = <<>> \/ Len(batches[Len(batches)].reqs) = BatchSize
    THEN {Append(batches, [start |-> t, reqs |-> <<[k |-> 0, at |-> t]>>])}
    ELSE {Longer(k, t) : k \in Seconds(t - batches[Len(batches)].start)}

(* RequestsCount++ after the return for a new batch.                       *)
Counted_Late == IF batches = <<>> \/ Len(batches[Len(batches)].reqs) = BatchSize
                THEN count ELSE count + 1
Counted == count + 1

Commit(new) == savedCount' = count' /\ saved' = new /\ UNCHANGED fails

(* A commit that ends in an error may be in the database all the same.     *)
CommitFails(new) ==
    /\ fails < Fails /\ fails' = fails + 1
    /\ UNCHANGED stored \/ (savedCount' = count' /\ saved' = new)

(* A commit that fails leaves the request in the record, and it is counted *)
(* again, before anything else the goroutine does.                         *)
AddCounter ==
    /\ queue # <<>> /\ summed = -1
    /\ batches' \in Counting(Head(queue))
    /\ count' = Counted
    /\ \/ /\ Commit(Put(saved, batches'[Len(batches')]))
          /\ queue' = Tail(queue) /\ again' = FALSE
       \/ /\ CommitFails(Put(saved, batches'[Len(batches')]))
          /\ again' = TRUE /\ UNCHANGED queue
    /\ UNCHANGED <<now, tick, summed, caller, asked, crashes>>
-------------------------------------------------------------------------------
(* Cleaning: time.Since is less than the window.                           *)
newStart == now - Sec * Window

Time(b, i) == b.start + Sec * b.reqs[i].k

Fresh_Inclusive(b) == {i \in DOMAIN b.reqs : Time(b, i) >= newStart}
Fresh(b) == {i \in DOMAIN b.reqs : Time(b, i) > newStart}

(* The first request that is kept is measured from the new start, in whole *)
(* seconds; the others follow it at the seconds they did.                  *)
Rebased(b) ==
    LET j == Min(Fresh(b))
        v == (Time(b, j) - newStart) \div Sec
    IN  [start |-> newStart,
         reqs |-> [i \in 1 .. Len(b.reqs) - j + 1 |->
                     [b.reqs[i + j - 1] EXCEPT !.k = (@ - b.reqs[j].k + v) % Word]]]

Kept == {i \in DOMAIN batches : Fresh(batches[i]) # {}}

(* A cleaning that forgets the batches after the first one it keeps.       *)
Cleaned_First ==
    LET last == IF Kept = {} THEN Len(batches) ELSE Min(Kept)
    IN  [i \in 1 .. last |-> IF i \in Kept THEN Rebased(batches[i])
                             ELSE [start |-> newStart, reqs |-> <<>>]]

(* Batches before the first one with a fresh request become empty, and     *)
(* those after it are kept as they are.                                    *)
Cleaned ==
    [i \in DOMAIN batches |->
        IF \E l \in Kept : l < i THEN batches[i]
        ELSE IF i \in Kept THEN Rebased(batches[i])
        ELSE [start |-> newStart, reqs |-> <<>>]]

Starts(bs) == {bs[i].start : i \in DOMAIN bs}

(* A start is struck off the old ones when a new batch has it; a batch     *)
(* whose start is not among them, or no longer, is written.                *)
Inserted(old, new) ==
    {i \in DOMAIN new : \/ new[i].start \notin Starts(old)
                         \/ \E l \in 1 .. i - 1 : new[l].start = new[i].start}

(* The database without the keys of the starts that are left, dropped, and *)
(* with the batches that are written; a later one overwrites.              *)
Written(old, new, dropped) ==
    LET put == {Key(new[i]) : i \in Inserted(old, new)}
    IN  [s \in (DOMAIN saved \ dropped) \cup put |->
            IF s \in put THEN new[Max({i \in Inserted(old, new) : Key(new[i]) = s})]
            ELSE saved[s]]

Dropped(old, new) == {s \div Sec : s \in Starts(old) \ Starts(new)}

(* The keys are cleared after the batches have been written.               *)
Replaced_Cleared(old, new) ==
    LET written == Written(old, new, Dropped(old, new))
    IN  [s \in DOMAIN written \ Dropped(old, new) |-> written[s]]

(* The keys are cleared, then the batches are written.                     *)
Replaced(old, new) == Written(old, new, Dropped(old, new))

(* The ticker.  Its channel has room for one tick, and those that find it  *)
(* full are dropped.  The count is set to 0, in place.  No two readings of *)
(* the clock, in nanoseconds, are the same.                                *)
Recount ==
    /\ ~ again /\ summed = -1 /\ tick <= now
    /\ newStart \notin Starts(batches)
    /\ count' = 0 /\ summed' = 0
    /\ UNCHANGED <<now, tick, queue, again, batches, caller, stored, bounds>>

(* The batches are added up as they are before the cleaning.               *)
AddUp ==
    /\ summed \in 0 .. Len(batches) - 1
    /\ count' = count + Len(batches[summed + 1].reqs)
    /\ summed' = summed + 1
    /\ UNCHANGED <<now, tick, queue, again, batches, caller, stored, bounds>>

(* The rest of the cleaning, which takes no time.                          *)
CleanCounters ==
    /\ summed = Len(batches) /\ summed' = -1
    /\ tick' = tick + Sec * ((now - tick) \div Sec + 1)
    /\ batches' = Cleaned
    /\ UNCHANGED count
    /\ \/ Commit(Replaced(batches, batches'))
       \/ CommitFails(Replaced(batches, batches'))
    /\ UNCHANGED <<now, queue, again, caller, asked, crashes>>
-------------------------------------------------------------------------------
(* A refused request, in the goroutine of the caller: the count is looked  *)
(* at, the record marshalled, and committed without the batches.           *)
SetThreshold ==
    /\ setting = "idle" /\ count # 0
    /\ asked < Requests /\ asked' = asked + 1
    /\ setting' = "checked"
    /\ UNCHANGED <<now, tick, queue, again, record, summed, marshalled, stored,
                   fails, crashes>>

MarshalThreshold ==
    /\ setting = "checked"
    /\ setting' = "marshalled" /\ marshalled' = count
    /\ UNCHANGED <<now, tick, queue, again, record, summed, stored, bounds>>

SaveThreshold ==
    /\ setting = "marshalled"
    /\ setting' = "idle" /\ marshalled' = 0
    /\ savedCount' \in {marshalled, savedCount}
    /\ UNCHANGED <<now, tick, queue, again, record, summed, saved, bounds>>

(* The goroutine of the window saves its record without the batches.       *)
IncreaseThresholdTo ==
    /\ ~ again /\ summed = -1
    /\ savedCount' = count
    /\ UNCHANGED <<now, tick, queue, again, record, summed, caller, saved, bounds>>
-------------------------------------------------------------------------------
(* The seconds in a key are little-endian: a range of keys comes in the    *)
(* order of the last byte first.                                           *)
Before(s, u) == \/ s % Byte < u % Byte
                \/ s % Byte = u % Byte /\ s \div Byte < u \div Byte

(* A restart: getRateLimit reads the record and its batches.               *)
Restart ==
    /\ crashes < Crashes
    /\ crashes' = crashes + 1
    /\ queue' = <<>> /\ again' = FALSE /\ summed' = -1
    /\ setting' = "idle" /\ marshalled' = 0
    /\ count' = savedCount
    /\ tick' = now + Sec
    /\ \E keys \in [1 .. Cardinality(DOMAIN saved) -> DOMAIN saved] :
          /\ \A i, j \in DOMAIN keys : i < j => Before(keys[i], keys[j])
          /\ batches' = [i \in DOMAIN keys |-> saved[keys[i]]]
    /\ UNCHANGED <<now, stored, asked, fails>>

Elapse ==
    /\ now < End /\ summed = -1
    /\ now' = now + 1
    /\ UNCHANGED <<tick, queue, again, record, summed, caller, stored, bounds>>

Next == \/ Inc \/ AddCounter \/ Restart \/ Elapse
        \/ Recount \/ AddUp \/ CleanCounters
        \/ SetThreshold \/ MarshalThreshold \/ SaveThreshold \/ IncreaseThresholdTo

Spec == Init /\ [][Next]_vars
-------------------------------------------------------------------------------
Batch == [start : 0 .. End, reqs : Seq([k : 0 .. Word - 1, at : 0 .. End])]

TypeOK ==
    /\ now \in Sec * Window .. End /\ tick \in Nat /\ tick <= now + Sec
    /\ queue \in Seq(0 .. End) /\ Len(queue) <= QueueLen + (IF again THEN 1 ELSE 0)
    /\ again => queue # <<>>
    /\ count \in Nat /\ savedCount \in Nat
    /\ summed \in -1 .. Len(batches)
    /\ setting \in {"idle", "checked", "marshalled"} /\ marshalled \in Nat
    /\ batches \in Seq(Batch)
    /\ \A i \in DOMAIN batches : Len(batches[i].reqs) <= BatchSize
    /\ saved = [s \in DOMAIN saved |-> saved[s]]
    /\ \A s \in DOMAIN saved : saved[s] \in Batch /\ Key(saved[s]) = s
    /\ asked \in 0 .. Requests /\ fails \in 0 .. Fails /\ crashes \in 0 .. Crashes

(* A request counts at a later time than it was made at.                   *)
Ahead(bs) == \E i \in DOMAIN bs : \E j \in DOMAIN bs[i].reqs :
                Time(bs[i], j) > bs[i].reqs[j].at

(* The start of each batch and then the times of its requests never go     *)
(* back.                                                                   *)
InOrder(bs) ==
    /\ \A i \in DOMAIN bs : \A j, l \in DOMAIN bs[i].reqs :
          j < l => Time(bs[i], j) <= Time(bs[i], l)
    /\ \A i, m \in DOMAIN bs : i < m =>
          /\ bs[i].start <= bs[m].start
          /\ \A j \in DOMAIN bs[i].reqs : Time(bs[i], j) <= bs[m].start

(* A request that has waited in the channel until the batch it is counted  *)
(* in starts after it.                                                     *)
LateInc == /\ queue # <<>> /\ batches # <<>>
           /\ Head(queue) < batches[Len(batches)].start

(* A request counts at the time it was made, or before it.  Later, and so  *)
(* for longer than the window or for ever, only if it has waited in the    *)
(* channel for longer than the window (or a restart reads such a record).  *)
AheadNeedsLateInc ==
    [][Ahead(batches') /\ ~ Ahead(batches) => LateInc \/ crashes' # crashes]_vars

(* The batches are in the order of time, on which a cleaning relies, until *)
(* a restart that reads at least two, or a request that came late.         *)
DisorderNeedsRestart ==
    [][InOrder(batches) /\ ~ InOrder(batches')
       => \/ LateInc \/ Ahead(batches)
          \/ /\ crashes' # crashes
             /\ Ahead(batches') \/ \E s, u \in DOMAIN saved : s # u]_vars

(* Then a cleaning leaves no request that is older than the window.        *)
FreshAfterClean ==
    [][CleanCounters /\ InOrder(batches) /\ ~ Ahead(batches)
       => \A i \in DOMAIN batches' : \A j \in DOMAIN batches'[i].reqs :
             batches'[i].reqs[j].at > newStart]_vars

(* A cleaning drops from the front only what the window has passed, keeps  *)
(* the rest in its order, and makes each request less than a second older. *)
CleanKeepsTheRest ==
    [][CleanCounters /\ ~ Ahead(batches)
       => /\ DOMAIN batches' = DOMAIN batches
          /\ \A i \in DOMAIN batches :
                LET d == Len(batches[i].reqs) - Len(batches'[i].reqs)
                IN  /\ \A j \in 1 .. d : Time(batches[i], j) <= newStart
                    /\ \A j \in DOMAIN batches'[i].reqs :
                          /\ j + d \in DOMAIN batches[i].reqs
                          /\ batches'[i].reqs[j].at = batches[i].reqs[j + d].at
                          /\ Time(batches'[i], j) <= Time(batches[i], j + d)
                          /\ Time(batches'[i], j) > Time(batches[i], j + d) - Sec
                    /\ batches'[i].reqs # <<>> =>
                          \A l \in DOMAIN batches : i < l =>
                             Len(batches'[l].reqs) = Len(batches[l].reqs)]_vars

(* The counts an account's heat is computed from, now and after a restart, *)
(* are not less than the requests in the record.                           *)
Covered == count >= Total(batches) /\ savedCount >= Total(batches)

(* Until a commit has failed, they become less only by the reset of the    *)
(* count, and by a SetThreshold that has marshalled the record in the      *)
(* middle of a recount or commits after a request it has not counted; the  *)
(* end of the cleaning mends both, and so does a restart, of the first.    *)
CountCovers ==
    [][fails' = 0
       => /\ Covered /\ ~ Covered' => Recount \/ SaveThreshold
          /\ CleanCounters => Covered'
          /\ Restart /\ savedCount >= Total(batches) => Covered']_vars

In(bs) == {bs[i] : i \in DOMAIN bs}

IsIn(f, b) == Key(b) \in DOMAIN f /\ f[Key(b)] = b

(* Two batches with requests start in the second b does.                   *)
Twins(bs, b) == \E i, j \in DOMAIN bs :
    /\ i # j /\ Key(bs[i]) = Key(b) /\ Key(bs[j]) = Key(b)
    /\ bs[i].reqs # <<>> /\ bs[j].reqs # <<>>

(* A commit saves what it has changed.  It loses the copy of a batch only  *)
(* if another batch with requests starts in the same second.               *)
SavesBatches ==
    [][AddCounter \/ CleanCounters
       => \/ fails' # fails
          \/ \A b \in In(batches') :
                \/ b.reqs = <<>>
                \/ IsIn(saved', b) \/ Twins(batches', b)
                \/ /\ b \in In(batches)
                   /\ ~ IsIn(saved, b) \/ Twins(batches, b)]_vars
===============================================================================

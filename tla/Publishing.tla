------------------------------ MODULE Publishing ------------------------------
(***************************************************************************)
(* The way of a popular tweet to the Telegram channels, across two         *)
(* processes that share the database.                                      *)
(*                                                                         *)
(* In the scraper, goroutines run processTweet (watcher.go:134-168): is    *)
(* the tweet marked as sent, is it popular, queue it for the editor, mark  *)
(* it; each question and each write is a transaction of its own.  In the   *)
(* content maker, one loop (tweetseditor/manager.go) collects the queues,  *)
(* asks the language model, pushes messages on bounded channels and then   *)
(* deletes what it collected; one goroutine per channel sends the messages *)
(* (sender.go) and ends the process after the first error.  A message is   *)
(* the set of tweets it is about; its text and length are left out, and so *)
(* is the conversation the editor keeps with the model.                    *)
(***************************************************************************)
EXTENDS Naturals, Sequences, FiniteSets

CONSTANTS
    Tweet,          \* popular tweets, and those that are not
    Worker,         \* goroutines of the scraper that run processTweet
    LongBatch,      \* tweets in a long story (20 in the code)
    QueueLen,       \* capacity of a channel (100 in the code)
    MaxSendErrors,  \* model bound: how many sends fail
    MaxCrashes      \* model bound: how often the content maker crashes

ASSUME PublishingAssumption == /\ LongBatch \in Nat \ {0}
                               /\ QueueLen \in Nat \ {0}
                               /\ MaxSendErrors \in Nat /\ MaxCrashes \in Nat

Channel == {"short", "long", "rus"}
Message == SUBSET Tweet

VARIABLES
    sent,        \* tweets with a SentTweet mark
    queue,       \* queue.short, queue.long: tweets waiting for the editor
    worker,      \* where each processTweet is
    loop,        \* where the edit loop is
    translating, \* stories being translated
    chan,        \* the three channels
    sending,     \* what each sender has taken from its channel: {} or {message}
    cancelled,   \* a sender has ended the context, main is about to return
    faults,      \* faults.send, faults.crash: how many there have been
    answered,    \* history: tweets of the batches the model has answered
    kept,        \* history: tweets the model found worth a message
    published    \* history: tweets whose own message a sender has delivered

stored   == <<sent, queue>>
scraper  == <<worker>>
maker    == <<loop, translating, chan, sending, cancelled>>
history  == <<answered, kept, published>>
vars     == <<stored, scraper, maker, faults, history>>
-------------------------------------------------------------------------------
Idle == [step |-> "idle"]

Working == [step : {"rating", "queueing", "marking"}, id : Tweet]
Editing == [step : {"ask", "askLong", "deleteLong"}, batch : SUBSET Tweet]
           \cup [step : {"push"}, batch : SUBSET Tweet, left : SUBSET Tweet]

TypeOK ==
    /\ sent \subseteq Tweet
    /\ queue \in [short : SUBSET Tweet, long : SUBSET Tweet]
    /\ worker \in [Worker -> {Idle} \cup Working]
    /\ loop \in {Idle} \cup Editing
    /\ translating \subseteq Message
    /\ chan \in [Channel -> Seq(Message)]
    /\ \A c \in Channel : Len(chan[c]) <= QueueLen
    /\ sending \in [Channel -> SUBSET Message]
    /\ cancelled \in BOOLEAN
    /\ faults \in [send : Nat, crash : Nat]
    /\ answered \in [short : SUBSET Tweet, long : SUBSET Tweet]
    /\ kept \subseteq Tweet /\ published \subseteq Tweet

Init ==
    /\ sent = {} /\ queue = [short |-> {}, long |-> {}]
    /\ worker = [w \in Worker |-> Idle]
    /\ loop = Idle /\ translating = {}
    /\ chan = [c \in Channel |-> <<>>] /\ sending = [c \in Channel |-> {}]
    /\ cancelled = FALSE /\ faults = [send |-> 0, crash |-> 0]
    /\ answered = [short |-> {}, long |-> {}] /\ kept = {} /\ published = {}
-------------------------------------------------------------------------------
(* processTweet.  Every error ends it: the step it was at is then followed *)
(* by Abandon, with or without the write of that step.                     *)
CheckIfSent(w, t) ==
    /\ worker[w] = Idle
    /\ t \notin sent
    /\ worker' = [worker EXCEPT ![w] = [step |-> "rating", id |-> t]]
    /\ UNCHANGED <<stored, maker, faults, history>>

IsPopular(w) ==
    /\ worker[w].step = "rating"
    /\ worker' = [worker EXCEPT ![w].step = "queueing"]
    /\ UNCHANGED <<stored, maker, faults, history>>

Enqueue(t) == queue' = [short |-> queue.short \cup {t}, long |-> queue.long \cup {t}]

SaveTweetForEdit(w) ==
    /\ worker[w].step = "queueing"
    /\ Enqueue(worker[w].id)
    /\ worker' = [worker EXCEPT ![w].step = "marking"]
    /\ UNCHANGED <<sent, maker, faults, history>>

SaveSentTweet(w) ==
    /\ worker[w].step = "marking"
    /\ sent' = sent \cup {worker[w].id}
    /\ worker' = [worker EXCEPT ![w] = Idle]
    /\ UNCHANGED <<queue, maker, faults, history>>

(* The tweet is not popular, a step failed, or the scraper crashed.        *)
Abandon(w) ==
    /\ worker[w] # Idle
    /\ worker' = [worker EXCEPT ![w] = Idle]
    /\ \/ UNCHANGED queue
       \/ worker[w].step = "queueing" /\ Enqueue(worker[w].id)
    /\ UNCHANGED <<sent, maker, faults, history>>
-------------------------------------------------------------------------------
(* The edit loop.                                                          *)

(* A name with a suffix after an underscore is a faulty variant of the     *)
(* definition that follows it: here, a channel without a capacity.         *)
Push_Unbounded(c, m) == chan' = [chan EXCEPT ![c] = Append(@, m)]

Push(c, m) == Len(chan[c]) < QueueLen /\ chan' = [chan EXCEPT ![c] = Append(@, m)]

GetTweetForShortEdit ==
    /\ loop = Idle /\ queue.short # {}
    /\ loop' = [step |-> "ask", batch |-> queue.short]
    /\ UNCHANGED <<stored, scraper, translating, chan, sending, cancelled, faults, history>>

(* The model answers for the batch; it leaves out, or marks as useless or  *)
(* as duplicates, whatever it likes.                                       *)
Edit ==
    /\ loop.step = "ask"
    /\ \E useful \in SUBSET loop.batch :
          /\ loop' = [step |-> "push", batch |-> loop.batch, left |-> useful]
          /\ kept' = kept \cup useful
    /\ answered' = [answered EXCEPT !.short = @ \cup loop.batch]
    /\ UNCHANGED <<stored, scraper, translating, chan, sending, cancelled, faults, published>>

(* An answer that is no JSON goes out as one message for the whole batch.  *)
EditDump ==
    /\ loop.step = "ask"
    /\ Push("short", loop.batch)
    /\ loop' = [step |-> "push", batch |-> loop.batch, left |-> {}]
    /\ answered' = [answered EXCEPT !.short = @ \cup loop.batch]
    /\ UNCHANGED <<stored, scraper, translating, sending, cancelled, faults, kept, published>>

(* A select with a default: a message that finds no room is dropped.       *)
PushTweet_Dropped(t) ==
    /\ loop.step = "push" /\ t \in loop.left
    /\ IF Len(chan["short"]) < QueueLen
       THEN chan' = [chan EXCEPT !["short"] = Append(@, {t})]
       ELSE UNCHANGED chan
    /\ loop' = [loop EXCEPT !.left = @ \ {t}]
    /\ UNCHANGED <<stored, scraper, translating, sending, cancelled, faults, history>>

PushTweet(t) ==
    /\ loop.step = "push" /\ t \in loop.left
    /\ Push("short", {t})
    /\ loop' = [loop EXCEPT !.left = @ \ {t}]
    /\ UNCHANGED <<stored, scraper, translating, sending, cancelled, faults, history>>

(* A deletion before the messages are pushed: what is left is forgotten.   *)
DeleteShortEditedTweets_Early ==
    /\ loop.step = "push"
    /\ \/ queue' = [queue EXCEPT !.short = @ \ loop.batch]
       \/ UNCHANGED queue
    /\ loop' = Idle
    /\ UNCHANGED <<sent, scraper, translating, chan, sending, cancelled, faults, history>>

(* A deletion of the whole queue instead of what was collected.            *)
DeleteShortEditedTweets_All ==
    /\ loop.step = "push" /\ loop.left = {}
    /\ \/ queue' = [queue EXCEPT !.short = {}]
       \/ UNCHANGED queue
    /\ loop' = Idle
    /\ UNCHANGED <<sent, scraper, translating, chan, sending, cancelled, faults, history>>

(* The deletion of the collected tweets, which may fail.                   *)
DeleteShortEditedTweets ==
    /\ loop.step = "push" /\ loop.left = {}
    /\ \/ queue' = [queue EXCEPT !.short = @ \ loop.batch]
       \/ UNCHANGED queue
    /\ loop' = Idle
    /\ UNCHANGED <<sent, scraper, translating, chan, sending, cancelled, faults, history>>

(* Exactly LongBatch tweets, the first by key; any are here.               *)
GetTweetForLongEdit ==
    /\ loop = Idle
    /\ \E b \in SUBSET queue.long :
          Cardinality(b) = LongBatch /\ loop' = [step |-> "askLong", batch |-> b]
    /\ UNCHANGED <<stored, scraper, translating, chan, sending, cancelled, faults, history>>

(* longStoryProcess: the story is pushed before the loop goes on, and      *)
(* translated by a goroutine of its own unless it is empty.                *)
EditLongStory ==
    /\ loop.step = "askLong"
    /\ Push("long", loop.batch)
    /\ loop' = [loop EXCEPT !.step = "deleteLong"]
    /\ translating' \in {translating, translating \cup {loop.batch}}
    /\ answered' = [answered EXCEPT !.long = @ \cup loop.batch]
    /\ UNCHANGED <<stored, scraper, sending, cancelled, faults, kept, published>>

DeleteLongEditedTweets ==
    /\ loop.step = "deleteLong"
    /\ \/ queue' = [queue EXCEPT !.long = @ \ loop.batch]
       \/ UNCHANGED queue
    /\ loop' = Idle
    /\ UNCHANGED <<sent, scraper, translating, chan, sending, cancelled, faults, history>>

(* A batch without an answer that is deleted all the same.                 *)
EditFails_Deletes ==
    /\ loop.step \in {"ask", "askLong"}
    /\ loop' = Idle
    /\ queue' = IF loop.step = "ask" THEN [queue EXCEPT !.short = @ \ loop.batch]
                ELSE [queue EXCEPT !.long = @ \ loop.batch]
    /\ UNCHANGED <<sent, scraper, translating, chan, sending, cancelled, faults, history>>

(* The model gives no answer: Edit returns its error, longStoryProcess     *)
(* after ten attempts.  Nothing has been pushed or deleted.                *)
EditFails ==
    /\ loop.step \in {"ask", "askLong"}
    /\ loop' = Idle
    /\ UNCHANGED <<stored, scraper, translating, chan, sending, cancelled, faults, history>>

TranslateLongStory(m) ==
    /\ m \in translating
    /\ translating' = translating \ {m}
    /\ Push("rus", m) \/ UNCHANGED chan      \* a failed translation is only logged
    /\ UNCHANGED <<stored, scraper, loop, sending, cancelled, faults, history>>
(* commit_unknown_result: a write of the queues is in, its caller does not *)
(* know it and plays it again, by when the queues may have changed.        *)
CommitUnknown ==
    /\ \/ \E w \in Worker : worker[w].step = "queueing" /\ Enqueue(worker[w].id)
       \/ /\ loop.step = "push" /\ loop.left = {}
          /\ queue' = [queue EXCEPT !.short = @ \ loop.batch]
       \/ /\ loop.step = "deleteLong"
          /\ queue' = [queue EXCEPT !.long = @ \ loop.batch]
    /\ UNCHANGED <<sent, scraper, maker, faults, history>>
-------------------------------------------------------------------------------
(* The senders.                                                            *)
Receive(c) ==
    /\ sending[c] = {} /\ chan[c] # <<>>
    /\ sending' = [sending EXCEPT ![c] = {Head(chan[c])}]
    /\ chan' = [chan EXCEPT ![c] = Tail(@)]
    /\ UNCHANGED <<stored, scraper, loop, translating, cancelled, faults, history>>

(* The tweets whose own message, in the short channel, c is sending.       *)
Own(c) == {t \in Tweet : c = "short" /\ {t} \in sending[c]}

Deliver(c) ==
    /\ sending[c] # {}
    /\ published' = published \cup Own(c)
    /\ sending' = [sending EXCEPT ![c] = {}]
    /\ UNCHANGED <<stored, scraper, loop, translating, chan, cancelled, faults, answered, kept>>

(* The first attempt fails; the escaped one delivers the message or fails  *)
(* as well; the context is cancelled either way.                           *)
SendFails(c) ==
    /\ sending[c] # {} /\ faults.send < MaxSendErrors
    /\ published' \in {published, published \cup Own(c)}
    /\ sending' = [sending EXCEPT ![c] = {}]
    /\ cancelled' = TRUE
    /\ faults' = [faults EXCEPT !.send = @ + 1]
    /\ UNCHANGED <<stored, scraper, loop, translating, chan, answered, kept>>

(* The process ends and is started again: what was in memory is gone.      *)
Restart ==
    /\ loop' = Idle /\ translating' = {}
    /\ chan' = [c \in Channel |-> <<>>] /\ sending' = [c \in Channel |-> {}]
    /\ cancelled' = FALSE
    /\ UNCHANGED <<stored, scraper, history>>

(* main returns once the context is cancelled.                             *)
Exit == cancelled /\ Restart /\ UNCHANGED faults

Crash == /\ faults.crash < MaxCrashes
         /\ Restart
         /\ faults' = [faults EXCEPT !.crash = @ + 1]

(* Nothing is left to do; fewer than LongBatch tweets may wait for a story. *)
Rest ==
    /\ sent = Tweet /\ \A w \in Worker : worker[w] = Idle
    /\ queue.short = {} /\ Cardinality(queue.long) < LongBatch
    /\ loop = Idle /\ translating = {} /\ ~ cancelled
    /\ \A c \in Channel : chan[c] = <<>> /\ sending[c] = {}
    /\ UNCHANGED vars
-------------------------------------------------------------------------------
ProcessTweet(w) == \/ \E t \in Tweet : CheckIfSent(w, t)
                   \/ IsPopular(w) \/ SaveTweetForEdit(w) \/ SaveSentTweet(w)
                   \/ Abandon(w)

EditLoop == \/ GetTweetForShortEdit \/ Edit \/ EditDump
            \/ \E t \in Tweet : PushTweet(t)
            \/ DeleteShortEditedTweets
            \/ GetTweetForLongEdit \/ EditLongStory \/ DeleteLongEditedTweets
            \/ EditFails
            \/ \E m \in Message : TranslateLongStory(m)

Send(c) == Receive(c) \/ Deliver(c) \/ SendFails(c)

Next == \/ \E w \in Worker : ProcessTweet(w)
        \/ EditLoop
        \/ \E c \in Channel : Send(c)
        \/ CommitUnknown \/ Exit \/ Crash \/ Rest

Spec == Init /\ [][Next]_vars

(* An outage of the language model ends, and the select of the edit loop   *)
(* takes each of its tickers again and again (strong fairness: the loop    *)
(* may be busy with the other one in between); a channel that has room is  *)
(* written, a sender that has a message sends it, and main returns.        *)
Fairness ==
    /\ SF_vars(GetTweetForShortEdit) /\ SF_vars(Edit)
    /\ WF_vars(\E t \in Tweet : PushTweet(t)) /\ WF_vars(DeleteShortEditedTweets)
    /\ WF_vars(EditLongStory) /\ WF_vars(DeleteLongEditedTweets)
    /\ \A c \in Channel : WF_vars(Receive(c)) /\ WF_vars(Deliver(c))
    /\ WF_vars(Exit)

FairSpec == Spec /\ Fairness
-------------------------------------------------------------------------------
(* A mark keeps a tweet away from the queues for good, so a marked tweet   *)
(* must be safe: each queue holds it until the model has answered for it,  *)
(* whichever process crashes and whichever transaction fails.              *)
MarkedIsSafe ==
    /\ sent \subseteq queue.short \cup answered.short
    /\ sent \subseteq queue.long \cup answered.long

(* The tweets still to be pushed, and those whose message is under way.    *)
InLoop == IF loop.step = "push" THEN loop.left ELSE {}
OnItsWay(t) == \/ \E i \in DOMAIN chan["short"] : chan["short"][i] = {t}
               \/ {t} \in sending["short"]
               \/ t \in published

(* Without a crash and a failed send the model's choice is never lost: the *)
(* queue is cleared only after every kept tweet is in the channel.         *)
KeptIsOnItsWay ==
    faults = [send |-> 0, crash |-> 0]
    => \A t \in kept \ InLoop : OnItsWay(t)

(* A queued tweet gets its answer, whatever the faults.                    *)
QueuedIsAnswered ==
    \A t \in Tweet : (t \in queue.short) ~> (t \in answered.short)

(* A kept tweet is published, unless a crash or a failed send intervenes.  *)
KeptIsPublished ==
    \A t \in Tweet : (t \in kept) ~> (t \in published \/ faults # [send |-> 0, crash |-> 0])
===============================================================================

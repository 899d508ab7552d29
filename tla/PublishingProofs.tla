---------------------------- MODULE PublishingProofs --------------------------
(***************************************************************************)
(* Proofs about Publishing, for any number of tweets and goroutines, any   *)
(* capacities, and any number of crashes and failed sends.                 *)
(***************************************************************************)
EXTENDS Publishing, TLAPS

(* Tweets that are in a queue, or that the model has answered for.         *)
Safe == (queue.short \cup answered.short) \cap (queue.long \cup answered.long)

(* A goroutine marks only what it has queued.                              *)
MarkingIsSafe ==
    \A w \in Worker : worker[w].step = "marking" => worker[w].id \in Safe

(* The loop deletes only what the model has answered.                      *)
DeletesAnswered ==
    /\ loop.step = "push" => loop.batch \subseteq answered.short
    /\ loop.step = "deleteLong" => loop.batch \subseteq answered.long

(* Only a failed send ends the context.                                    *)
CancelledByFailure == cancelled => faults.send # 0

SafeInv == TypeOK /\ MarkedIsSafe /\ MarkingIsSafe /\ DeletesAnswered
KeptInv == TypeOK /\ CancelledByFailure /\ KeptIsOnItsWay
-------------------------------------------------------------------------------
LEMMA WorkingByStep ==
    ASSUME NEW x \in {Idle} \cup Working, x # Idle
    PROVE  /\ x \in Working /\ x.id \in Tweet
           /\ [x EXCEPT !.step = "queueing"] \in Working
           /\ [x EXCEPT !.step = "marking"] \in Working
BY DEF Working, Idle

LEMMA EditingByStep ==
    ASSUME NEW x \in {Idle} \cup Editing
    PROVE  /\ x.step \in {"ask", "askLong", "deleteLong", "push"} => x.batch \subseteq Tweet
           /\ x.step = "push" => x.left \subseteq Tweet
           /\ x.step = "askLong" => [x EXCEPT !.step = "deleteLong"] \in Editing
           /\ x.step = "push" => \A t \in Tweet : [x EXCEPT !.left = @ \ {t}] \in Editing
BY DEF Editing, Idle

LEMMA PushType ==
    ASSUME TypeOK, NEW c \in Channel, NEW m \in Message, Push(c, m)
    PROVE  /\ chan' \in [Channel -> Seq(Message)]
           /\ \A d \in Channel : Len(chan'[d]) <= QueueLen
<1>1. chan' = [chan EXCEPT ![c] = Append(chan[c], m)]
  BY DEF Push, TypeOK
<1>2. chan[c] \in Seq(Message) /\ Len(chan[c]) < QueueLen
  BY DEF Push, TypeOK
<1>3. Append(chan[c], m) \in Seq(Message) /\ Len(Append(chan[c], m)) = Len(chan[c]) + 1
  BY <1>2
<1>4. Len(Append(chan[c], m)) <= QueueLen
  BY <1>2, <1>3, PublishingAssumption
<1> QED BY <1>1, <1>3, <1>4 DEF TypeOK

LEMMA ShortIsChannel == "short" \in Channel /\ "long" \in Channel /\ "rus" \in Channel
BY DEF Channel

LEMMA InitInd == Init => SafeInv /\ KeptInv
<1> SUFFICES ASSUME Init PROVE SafeInv /\ KeptInv
  OBVIOUS
<1>1. TypeOK
  <2>1. <<>> \in Seq(Message) /\ Len(<<>>) <= QueueLen
    BY PublishingAssumption
  <2>2. /\ chan \in [Channel -> Seq(Message)]
        /\ \A c \in Channel : Len(chan[c]) <= QueueLen
    BY <2>1 DEF Init
  <2>3. /\ sending \in [Channel -> SUBSET Message]
        /\ cancelled \in BOOLEAN /\ faults \in [send : Nat, crash : Nat]
    BY DEF Init
  <2> QED BY <2>2, <2>3 DEF Init, TypeOK
<1>2. MarkedIsSafe /\ MarkingIsSafe /\ DeletesAnswered
  BY DEF Init, MarkedIsSafe, MarkingIsSafe, DeletesAnswered, Idle
<1>3. CancelledByFailure /\ KeptIsOnItsWay
  BY DEF Init, CancelledByFailure, KeptIsOnItsWay
<1> QED BY <1>1, <1>2, <1>3 DEF SafeInv, KeptInv
-------------------------------------------------------------------------------
(* Every step keeps the types.                                             *)
LEMMA WorkerKeepsTypes ==
    ASSUME TypeOK, NEW w \in Worker, ProcessTweet(w)
    PROVE  TypeOK'
<1> USE DEF TypeOK
<1>1. UNCHANGED <<maker, faults, history>>
  BY DEF ProcessTweet, CheckIfSent, IsPopular, SaveTweetForEdit, SaveSentTweet, Abandon
<1>2. \E x \in {Idle} \cup Working : worker' = [worker EXCEPT ![w] = x]
  <2>1. ASSUME NEW t \in Tweet, CheckIfSent(w, t)
        PROVE  \E x \in {Idle} \cup Working : worker' = [worker EXCEPT ![w] = x]
    BY <2>1 DEF CheckIfSent, Working
  <2>2. CASE IsPopular(w)
    <3>1. worker[w] # Idle /\ worker[w] \in {Idle} \cup Working
      BY <2>2 DEF IsPopular, Idle
    <3>2. [worker[w] EXCEPT !.step = "queueing"] \in Working
      BY <3>1, WorkingByStep
    <3> QED BY <2>2, <3>2 DEF IsPopular
  <2>3. CASE SaveTweetForEdit(w)
    <3>1. worker[w] # Idle /\ worker[w] \in {Idle} \cup Working
      BY <2>3 DEF SaveTweetForEdit, Idle
    <3>2. [worker[w] EXCEPT !.step = "marking"] \in Working
      BY <3>1, WorkingByStep
    <3> QED BY <2>3, <3>2 DEF SaveTweetForEdit
  <2>4. CASE SaveSentTweet(w) \/ Abandon(w)
    BY <2>4 DEF SaveSentTweet, Abandon
  <2> QED BY <2>1, <2>2, <2>3, <2>4 DEF ProcessTweet
<1>3. worker' \in [Worker -> {Idle} \cup Working]
  BY <1>2
<1>4. sent' \subseteq Tweet /\ queue' \in [short : SUBSET Tweet, long : SUBSET Tweet]
  <2>1. CASE UNCHANGED stored
    BY <2>1 DEF stored
  <2>2. CASE SaveTweetForEdit(w) \/ Abandon(w)
    <3>1. worker[w] # Idle
      BY <2>2 DEF SaveTweetForEdit, Abandon, Idle
    <3>2. worker[w].id \in Tweet
      BY <3>1, WorkingByStep
    <3> QED BY <2>2, <3>2 DEF SaveTweetForEdit, Abandon, Enqueue
  <2>3. CASE SaveSentTweet(w)
    <3>1. worker[w] # Idle
      BY <2>3 DEF SaveSentTweet, Idle
    <3>2. worker[w].id \in Tweet
      BY <3>1, WorkingByStep
    <3> QED BY <2>3, <3>2 DEF SaveSentTweet
  <2> QED BY <2>1, <2>2, <2>3 DEF ProcessTweet, CheckIfSent, IsPopular, stored
<1> QED BY <1>1, <1>3, <1>4 DEF maker, history

(* A restart empties what is in memory.                                    *)
LEMMA RestartType ==
    ASSUME TypeOK, Restart, faults' \in [send : Nat, crash : Nat]
    PROVE  TypeOK'
<1>1. <<>> \in Seq(Message) /\ Len(<<>>) <= QueueLen
  BY PublishingAssumption
<1>2. /\ chan' \in [Channel -> Seq(Message)]
      /\ \A c \in Channel : Len(chan'[c]) <= QueueLen
  BY <1>1 DEF Restart
<1>3. sending' \in [Channel -> SUBSET Message] /\ cancelled' \in BOOLEAN
  BY DEF Restart
<1> QED BY <1>2, <1>3 DEF Restart, TypeOK, stored, scraper, history

LEMMA SenderKeepsTypes ==
    ASSUME TypeOK, NEW c \in Channel, Send(c)
    PROVE  TypeOK'
<1>1. CASE Receive(c)
  <2>1. chan[c] \in Seq(Message) /\ chan[c] # <<>> /\ Len(chan[c]) <= QueueLen
    BY <1>1 DEF Receive, TypeOK
  <2>2. /\ Head(chan[c]) \in Message /\ Tail(chan[c]) \in Seq(Message)
        /\ Len(Tail(chan[c])) <= QueueLen
    BY <2>1, PublishingAssumption
  <2>3. /\ chan' \in [Channel -> Seq(Message)]
        /\ \A d \in Channel : Len(chan'[d]) <= QueueLen
    BY <1>1, <2>2 DEF Receive, TypeOK
  <2>4. sending' \in [Channel -> SUBSET Message]
    BY <1>1, <2>2 DEF Receive, TypeOK
  <2> QED BY <1>1, <2>3, <2>4 DEF Receive, TypeOK, stored, scraper, history
<1>2. CASE Deliver(c) \/ SendFails(c)
  <2>1. UNCHANGED <<stored, scraper, loop, translating, chan, answered, kept>>
    BY <1>2 DEF Deliver, SendFails
  <2>2. sending' \in [Channel -> SUBSET Message] /\ published' \subseteq Tweet
    BY <1>2 DEF Deliver, SendFails, TypeOK, Own
  <2>3. faults' \in [send : Nat, crash : Nat]
    BY <1>2 DEF Deliver, SendFails, TypeOK
  <2>4. cancelled' \in BOOLEAN
    BY <1>2, Zenon DEF Deliver, SendFails, TypeOK
  <2> QED BY <2>1, <2>2, <2>3, <2>4 DEF TypeOK, stored, scraper
<1> QED BY <1>1, <1>2 DEF Send

LEMMA EditLoopKeepsTypes ==
    ASSUME TypeOK, EditLoop
    PROVE  TypeOK'
<1>1. loop \in {Idle} \cup Editing
  BY DEF TypeOK
<1>2. CASE GetTweetForShortEdit
  <2>1. loop' \in Editing
    BY <1>2 DEF GetTweetForShortEdit, Editing, TypeOK
  <2> QED BY <1>2, <2>1 DEF GetTweetForShortEdit, TypeOK, stored, scraper, history
<1>3. CASE Edit
  <2>1. loop.batch \subseteq Tweet
    BY <1>1, <1>3, EditingByStep DEF Edit
  <2>2. loop' \in Editing /\ kept' \subseteq Tweet
    BY <1>3, <2>1 DEF Edit, Editing, TypeOK
  <2>3. answered' \in [short : SUBSET Tweet, long : SUBSET Tweet]
    BY <1>3, <2>1 DEF Edit, TypeOK
  <2> QED BY <1>3, <2>2, <2>3 DEF Edit, TypeOK, stored, scraper
<1>4. CASE EditDump
  <2>1. loop.batch \subseteq Tweet /\ loop.batch \in Message
    BY <1>1, <1>4, EditingByStep DEF EditDump, Message
  <2>2. loop' \in Editing
    BY <1>4, <2>1 DEF EditDump, Editing
  <2>3. answered' \in [short : SUBSET Tweet, long : SUBSET Tweet]
    BY <1>4, <2>1 DEF EditDump, TypeOK
  <2>4. /\ chan' \in [Channel -> Seq(Message)]
        /\ \A d \in Channel : Len(chan'[d]) <= QueueLen
    BY <1>4, <2>1, ShortIsChannel, PushType DEF EditDump
  <2> QED BY <1>4, <2>2, <2>3, <2>4 DEF EditDump, TypeOK, stored, scraper
<1>5. ASSUME NEW t \in Tweet, PushTweet(t)
      PROVE  TypeOK'
  <2>1. loop' \in Editing
    BY <1>1, <1>5, EditingByStep DEF PushTweet
  <2>2. /\ chan' \in [Channel -> Seq(Message)]
        /\ \A d \in Channel : Len(chan'[d]) <= QueueLen
    BY <1>5, ShortIsChannel, PushType DEF PushTweet, Message
  <2> QED BY <1>5, <2>1, <2>2 DEF PushTweet, TypeOK, stored, scraper, history
<1>6. CASE DeleteShortEditedTweets \/ DeleteLongEditedTweets
  <2>1. queue' \in [short : SUBSET Tweet, long : SUBSET Tweet]
    BY <1>6 DEF DeleteShortEditedTweets, DeleteLongEditedTweets, TypeOK
  <2>2. loop' = Idle
    BY <1>6 DEF DeleteShortEditedTweets, DeleteLongEditedTweets
  <2>3. UNCHANGED <<sent, scraper, translating, chan, sending, cancelled, faults, history>>
    BY <1>6 DEF DeleteShortEditedTweets, DeleteLongEditedTweets
  <2> QED BY <2>1, <2>2, <2>3 DEF TypeOK, scraper, history
<1>7. CASE GetTweetForLongEdit
  <2>1. loop' \in Editing
    BY <1>7 DEF GetTweetForLongEdit, Editing, TypeOK
  <2> QED BY <1>7, <2>1 DEF GetTweetForLongEdit, TypeOK, stored, scraper, history
<1>8. CASE EditLongStory
  <2>1. loop.batch \subseteq Tweet /\ loop.batch \in Message
    BY <1>1, <1>8, EditingByStep DEF EditLongStory, Message
  <2>2. loop' \in Editing
    BY <1>1, <1>8, EditingByStep DEF EditLongStory
  <2>3. answered' \in [short : SUBSET Tweet, long : SUBSET Tweet]
    BY <1>8, <2>1 DEF EditLongStory, TypeOK
  <2>4. /\ chan' \in [Channel -> Seq(Message)]
        /\ \A d \in Channel : Len(chan'[d]) <= QueueLen
    BY <1>8, <2>1, ShortIsChannel, PushType DEF EditLongStory
  <2>5. translating' \subseteq Message
    BY <1>8, <2>1 DEF EditLongStory, TypeOK
  <2> QED BY <1>8, <2>2, <2>3, <2>4, <2>5 DEF EditLongStory, TypeOK, stored, scraper
<1>9. CASE EditFails
  BY <1>9 DEF EditFails, TypeOK, stored, scraper, history
<1>10. ASSUME NEW m \in Message, TranslateLongStory(m)
       PROVE  TypeOK'
  <2>1. /\ chan' \in [Channel -> Seq(Message)]
        /\ \A d \in Channel : Len(chan'[d]) <= QueueLen
    <3>1. CASE Push("rus", m)
      BY <3>1, ShortIsChannel, PushType
    <3>2. CASE UNCHANGED chan
      BY <3>2 DEF TypeOK
    <3> QED BY <1>10, <3>1, <3>2 DEF TranslateLongStory
  <2> QED BY <1>10, <2>1 DEF TranslateLongStory, TypeOK, stored, scraper, history
<1> QED BY <1>2, <1>3, <1>4, <1>5, <1>6, <1>7, <1>8, <1>9, <1>10 DEF EditLoop

LEMMA StepKeepsTypes == TypeOK /\ [Next]_vars => TypeOK'
<1> SUFFICES ASSUME TypeOK, [Next]_vars PROVE TypeOK'
  OBVIOUS
<1>1. CASE Exit
  BY <1>1, RestartType DEF Exit, TypeOK
<1>2. CASE Crash
  <2>1. faults' \in [send : Nat, crash : Nat]
    BY <1>2 DEF Crash, TypeOK
  <2> QED BY <1>2, <2>1, RestartType DEF Crash
<1>3. CASE Rest \/ UNCHANGED vars
  BY <1>3 DEF Rest, vars, stored, scraper, maker, history, TypeOK
<1>4. CASE CommitUnknown
  <2>1. queue' \in [short : SUBSET Tweet, long : SUBSET Tweet]
    <3>1. ASSUME NEW w \in Worker, worker[w].step = "queueing", Enqueue(worker[w].id)
          PROVE  queue' \in [short : SUBSET Tweet, long : SUBSET Tweet]
      <4>1. worker[w] # Idle /\ worker[w] \in {Idle} \cup Working
        BY <3>1 DEF Idle, TypeOK
      <4>2. worker[w].id \in Tweet
        BY <4>1, WorkingByStep
      <4> QED BY <3>1, <4>2 DEF Enqueue, TypeOK
    <3>2. ASSUME queue' = [queue EXCEPT !.short = @ \ loop.batch]
                 \/ queue' = [queue EXCEPT !.long = @ \ loop.batch]
          PROVE  queue' \in [short : SUBSET Tweet, long : SUBSET Tweet]
      BY <3>2 DEF TypeOK
    <3> QED BY <1>4, <3>1, <3>2 DEF CommitUnknown
  <2> QED BY <1>4, <2>1 DEF CommitUnknown, TypeOK, scraper, maker, history
<1> QED BY <1>1, <1>2, <1>3, <1>4, WorkerKeepsTypes, EditLoopKeepsTypes, SenderKeepsTypes DEF Next
-------------------------------------------------------------------------------
(* Whatever is safe stays so: a queue only loses what the model answered.  *)
LEMMA SafeStays ==
    ASSUME TypeOK, DeletesAnswered, [Next]_vars
    PROVE  /\ queue.short \cup answered.short \subseteq queue'.short \cup answered'.short
           /\ queue.long \cup answered.long \subseteq queue'.long \cup answered'.long
<1>1. CASE UNCHANGED <<queue, answered>>
  BY <1>1
<1>2. ASSUME NEW w \in Worker, SaveTweetForEdit(w) \/ Abandon(w)
      PROVE  /\ UNCHANGED answered
             /\ queue.short \subseteq queue'.short /\ queue.long \subseteq queue'.long
  BY <1>2 DEF SaveTweetForEdit, Abandon, Enqueue, history
<1>3. CASE DeleteShortEditedTweets
  <2>1. UNCHANGED answered /\ loop.batch \subseteq answered.short
    BY <1>3 DEF DeleteShortEditedTweets, DeletesAnswered, history
  <2>2. queue'.long = queue.long /\ queue.short \ loop.batch \subseteq queue'.short
    BY <1>3 DEF DeleteShortEditedTweets, TypeOK
  <2> QED BY <2>1, <2>2
<1>4. CASE DeleteLongEditedTweets
  <2>1. UNCHANGED answered /\ loop.batch \subseteq answered.long
    BY <1>4 DEF DeleteLongEditedTweets, DeletesAnswered, history
  <2>2. queue'.short = queue.short /\ queue.long \ loop.batch \subseteq queue'.long
    BY <1>4 DEF DeleteLongEditedTweets, TypeOK
  <2> QED BY <2>1, <2>2
<1>5. CASE Edit \/ EditDump \/ EditLongStory
  <2>1. queue' = queue
    BY <1>5 DEF Edit, EditDump, EditLongStory, stored
  <2>2. answered.short \subseteq answered'.short /\ answered.long \subseteq answered'.long
    BY <1>5 DEF Edit, EditDump, EditLongStory, TypeOK
  <2> QED BY <2>1, <2>2
<1>6. ASSUME NEW w \in Worker,
             (\E t \in Tweet : CheckIfSent(w, t)) \/ IsPopular(w) \/ SaveSentTweet(w)
      PROVE  UNCHANGED <<queue, answered>>
  BY <1>6 DEF CheckIfSent, IsPopular, SaveSentTweet, stored, history
<1>7. CASE \/ GetTweetForShortEdit \/ GetTweetForLongEdit \/ EditFails
           \/ \E t \in Tweet : PushTweet(t)
           \/ \E m \in Message : TranslateLongStory(m)
  BY <1>1, <1>7 DEF GetTweetForShortEdit, GetTweetForLongEdit, EditFails, PushTweet,
                    TranslateLongStory, stored, history
<1>8. ASSUME NEW c \in Channel, Send(c)
      PROVE  UNCHANGED <<queue, answered>>
  BY <1>8 DEF Send, Receive, Deliver, SendFails, stored, history
<1>9. CASE Exit \/ Crash \/ Rest \/ UNCHANGED vars
  BY <1>1, <1>9 DEF Exit, Crash, Restart, Rest, vars, stored, history
<1>10. CASE CommitUnknown
  <2>1. UNCHANGED answered
    BY <1>10 DEF CommitUnknown, history
  <2>2. CASE \E w \in Worker : Enqueue(worker[w].id)
    BY <2>1, <2>2 DEF Enqueue
  <2>3. CASE loop.step = "push" /\ queue' = [queue EXCEPT !.short = @ \ loop.batch]
    BY <2>1, <2>3 DEF DeletesAnswered, TypeOK
  <2>4. CASE loop.step = "deleteLong" /\ queue' = [queue EXCEPT !.long = @ \ loop.batch]
    BY <2>1, <2>4 DEF DeletesAnswered, TypeOK
  <2> QED BY <1>10, <2>2, <2>3, <2>4 DEF CommitUnknown
<1> QED BY <1>1, <1>2, <1>3, <1>4, <1>5, <1>6, <1>7, <1>8, <1>9, <1>10
        DEF Next, ProcessTweet, EditLoop

(* What a goroutine has just queued is in both queues.                     *)
LEMMA MarkingStaysSafe ==
    ASSUME SafeInv, [Next]_vars
    PROVE  MarkingIsSafe'
<1> USE DEF SafeInv
<1>1. Safe \subseteq Safe'
  BY SafeStays DEF Safe
<1>2. CASE UNCHANGED worker
  BY <1>1, <1>2 DEF MarkingIsSafe
<1>3. ASSUME NEW w \in Worker, NEW v \in Worker, ProcessTweet(w), v # w,
             worker'[v].step = "marking"
      PROVE  worker'[v].id \in Safe'
  <2>1. worker'[v] = worker[v]
    BY <1>3 DEF ProcessTweet, CheckIfSent, IsPopular, SaveTweetForEdit, SaveSentTweet, Abandon,
                TypeOK
  <2> QED BY <1>1, <1>3, <2>1 DEF MarkingIsSafe
<1>4. ASSUME NEW w \in Worker, SaveTweetForEdit(w)
      PROVE  worker'[w].id \in Safe'
  <2>1. worker[w] # Idle /\ worker[w] \in Working
    BY <1>4, WorkingByStep DEF SaveTweetForEdit, Idle, TypeOK
  <2>2. worker'[w].id = worker[w].id
    BY <1>4, <2>1 DEF SaveTweetForEdit, TypeOK, Working
  <2>3. worker[w].id \in queue'.short /\ worker[w].id \in queue'.long
    BY <1>4 DEF SaveTweetForEdit, Enqueue
  <2> QED BY <2>2, <2>3 DEF Safe
<1>5. ASSUME NEW w \in Worker, ProcessTweet(w), ~ SaveTweetForEdit(w)
      PROVE  worker'[w].step # "marking"
  <2>1. ASSUME NEW t \in Tweet, CheckIfSent(w, t)
        PROVE  worker'[w].step # "marking"
    BY <2>1 DEF CheckIfSent, TypeOK
  <2>2. CASE IsPopular(w)
    <3>1. worker[w] # Idle /\ worker[w] \in Working
      BY <2>2, WorkingByStep DEF IsPopular, Idle, TypeOK
    <3>2. worker'[w].step = "queueing"
      BY <2>2, <3>1 DEF IsPopular, TypeOK, Working
    <3> QED BY <3>2
  <2>3. CASE SaveSentTweet(w) \/ Abandon(w)
    BY <2>3 DEF SaveSentTweet, Abandon, TypeOK, Idle
  <2> QED BY <1>5, <2>1, <2>2, <2>3 DEF ProcessTweet
<1>6. ASSUME NEW w \in Worker, ProcessTweet(w)
      PROVE  MarkingIsSafe'
  BY <1>3, <1>4, <1>5, <1>6 DEF MarkingIsSafe
<1>7. CASE ~ \E w \in Worker : ProcessTweet(w)
  <2>1. UNCHANGED worker
    <3>1. CASE EditLoop
      BY <3>1 DEF EditLoop, GetTweetForShortEdit, Edit, EditDump, PushTweet,
                  DeleteShortEditedTweets, GetTweetForLongEdit, EditLongStory,
                  DeleteLongEditedTweets, EditFails, TranslateLongStory, scraper
    <3>2. CASE \E c \in Channel : Send(c)
      BY <3>2 DEF Send, Receive, Deliver, SendFails, scraper
    <3>3. CASE Exit \/ Crash \/ CommitUnknown \/ Rest \/ UNCHANGED vars
      BY <3>3 DEF Exit, Crash, Restart, CommitUnknown, Rest, vars, scraper
    <3> QED BY <1>7, <3>1, <3>2, <3>3 DEF Next
  <2> QED BY <1>2, <2>1
<1> QED BY <1>6, <1>7

LEMMA MarkedStaysSafe ==
    ASSUME SafeInv, [Next]_vars
    PROVE  MarkedIsSafe'
<1> USE DEF SafeInv
<1>1. CASE UNCHANGED sent
  BY <1>1, SafeStays DEF MarkedIsSafe
<1>2. ASSUME NEW w \in Worker, SaveSentTweet(w)
      PROVE  MarkedIsSafe'
  <2>1. worker[w].id \in Safe /\ sent' = sent \cup {worker[w].id}
    BY <1>2 DEF SaveSentTweet, MarkingIsSafe
  <2> QED BY <2>1, SafeStays DEF MarkedIsSafe, Safe
<1>3. CASE ~ \E w \in Worker : SaveSentTweet(w)
  <2>1. CASE EditLoop
    BY <1>1, <2>1 DEF EditLoop, GetTweetForShortEdit, Edit, EditDump, PushTweet,
                      DeleteShortEditedTweets, GetTweetForLongEdit, EditLongStory,
                      DeleteLongEditedTweets, EditFails, TranslateLongStory, stored
  <2>2. CASE \E c \in Channel : Send(c)
    BY <1>1, <2>2 DEF Send, Receive, Deliver, SendFails, stored
  <2>3. CASE Exit \/ Crash \/ CommitUnknown \/ Rest \/ UNCHANGED vars
    BY <1>1, <2>3 DEF Exit, Crash, Restart, CommitUnknown, Rest, vars, stored
  <2>4. CASE \E w \in Worker : ProcessTweet(w)
    BY <1>1, <1>3, <2>4 DEF ProcessTweet, CheckIfSent, IsPopular, SaveTweetForEdit, Abandon, stored
  <2> QED BY <2>1, <2>2, <2>3, <2>4 DEF Next
<1> QED BY <1>2, <1>3

LEMMA DeletesStayAnswered ==
    ASSUME SafeInv, [Next]_vars
    PROVE  DeletesAnswered'
<1> USE DEF SafeInv
<1>1. CASE UNCHANGED <<loop, answered>>
  BY <1>1 DEF DeletesAnswered
<1>2. CASE loop' = Idle
  BY <1>2 DEF DeletesAnswered, Idle
<1>3. CASE Edit \/ EditDump
  <2>1. loop'.step = "push" /\ loop'.batch = loop.batch
    BY <1>3 DEF Edit, EditDump
  <2>2. answered'.short = answered.short \cup loop.batch
    BY <1>3 DEF Edit, EditDump, TypeOK
  <2> QED BY <2>1, <2>2 DEF DeletesAnswered
<1>4. CASE EditLongStory
  <2>1. loop \in Editing
    BY <1>4 DEF EditLongStory, TypeOK, Idle
  <2>2. loop'.step = "deleteLong" /\ loop'.batch = loop.batch
    BY <1>4, <2>1 DEF EditLongStory, Editing
  <2>3. answered'.long = answered.long \cup loop.batch
    BY <1>4 DEF EditLongStory, TypeOK
  <2> QED BY <2>2, <2>3 DEF DeletesAnswered
<1>5. ASSUME NEW t \in Tweet, PushTweet(t)
      PROVE  DeletesAnswered'
  <2>1. loop \in Editing
    BY <1>5 DEF PushTweet, TypeOK, Idle
  <2>2. loop'.step = "push" /\ loop'.batch = loop.batch
    BY <1>5, <2>1 DEF PushTweet, Editing
  <2>3. UNCHANGED answered
    BY <1>5 DEF PushTweet, history
  <2> QED BY <1>5, <2>2, <2>3 DEF PushTweet, DeletesAnswered
<1>6. CASE GetTweetForShortEdit \/ GetTweetForLongEdit
  <2>1. loop'.step \in {"ask", "askLong"}
    BY <1>6 DEF GetTweetForShortEdit, GetTweetForLongEdit
  <2> QED BY <2>1 DEF DeletesAnswered
<1>7. CASE DeleteShortEditedTweets \/ DeleteLongEditedTweets \/ EditFails
  BY <1>2, <1>7 DEF DeleteShortEditedTweets, DeleteLongEditedTweets, EditFails
<1>8. CASE \/ \E m \in Message : TranslateLongStory(m)
           \/ \E c \in Channel : Send(c)
           \/ CommitUnknown \/ Rest \/ UNCHANGED vars
  BY <1>1, <1>8 DEF TranslateLongStory, Send, Receive, Deliver, SendFails, CommitUnknown, Rest,
                    vars, maker, history
<1>9. CASE Exit \/ Crash
  BY <1>2, <1>9 DEF Exit, Crash, Restart
<1>10. ASSUME NEW w \in Worker, ProcessTweet(w)
       PROVE  UNCHANGED <<loop, answered>>
  BY <1>10 DEF ProcessTweet, CheckIfSent, IsPopular, SaveTweetForEdit, SaveSentTweet, Abandon,
               maker, history
<1> QED BY <1>1, <1>3, <1>4, <1>5, <1>6, <1>7, <1>8, <1>9, <1>10 DEF Next, EditLoop

(* A marked tweet is queued or answered in every reachable state.          *)
THEOREM SafeInductive == Spec => []SafeInv
<1>1. SafeInv /\ [Next]_vars => SafeInv'
  BY StepKeepsTypes, MarkedStaysSafe, MarkingStaysSafe, DeletesStayAnswered DEF SafeInv
<1> QED BY <1>1, InitInd, PTL DEF Spec

(* Queues, channels, goroutines and counters keep their types, and no      *)
(* channel holds more than its capacity.                                   *)
THEOREM TypeCorrect == Spec => []TypeOK
BY SafeInductive, PTL DEF SafeInv

(* A mark loses no tweet: crashes, failures and races leave it in both     *)
(* queues until the model has answered for it.                             *)
THEOREM MarkedTweetIsSafe == Spec => []MarkedIsSafe
BY SafeInductive, PTL DEF SafeInv
-------------------------------------------------------------------------------
(* A message that is under way stays so while nothing fails.               *)
Faultless == faults = [send |-> 0, crash |-> 0]

LEMMA CancelledStaysByFailure ==
    ASSUME KeptInv, [Next]_vars
    PROVE  CancelledByFailure'
<1> USE DEF KeptInv
<1>1. CASE UNCHANGED <<cancelled, faults>>
  BY <1>1 DEF CancelledByFailure
<1>2. CASE Restart
  BY <1>2 DEF Restart, CancelledByFailure
<1>3. ASSUME NEW c \in Channel, SendFails(c)
      PROVE  CancelledByFailure'
  <2>1. faults.send \in Nat /\ faults'.send = faults.send + 1
    BY <1>3 DEF SendFails, TypeOK
  <2> QED BY <2>1 DEF CancelledByFailure
<1>4. CASE \/ EditLoop \/ CommitUnknown \/ Rest \/ UNCHANGED vars
           \/ \E w \in Worker : ProcessTweet(w)
           \/ \E c \in Channel : Receive(c) \/ Deliver(c)
  <2>1. CASE EditLoop
    BY <1>1, <2>1 DEF EditLoop, GetTweetForShortEdit, Edit, EditDump, PushTweet,
                      DeleteShortEditedTweets, GetTweetForLongEdit, EditLongStory,
                      DeleteLongEditedTweets, EditFails, TranslateLongStory
  <2>2. CASE CommitUnknown \/ Rest \/ UNCHANGED vars
    BY <1>1, <2>2 DEF CommitUnknown, Rest, vars, maker
  <2>3. CASE \E w \in Worker : ProcessTweet(w)
    BY <1>1, <2>3 DEF ProcessTweet, CheckIfSent, IsPopular, SaveTweetForEdit, SaveSentTweet,
                      Abandon, maker
  <2>4. CASE \E c \in Channel : Receive(c) \/ Deliver(c)
    BY <1>1, <2>4 DEF Receive, Deliver
  <2> QED BY <1>4, <2>1, <2>2, <2>3, <2>4
<1> QED BY <1>2, <1>3, <1>4 DEF Next, Send, Exit, Crash

(* Appending to a channel takes no message away from it.                   *)
LEMMA PushKeepsOnItsWay ==
    ASSUME TypeOK, NEW c \in Channel, NEW m \in Message, Push(c, m),
           UNCHANGED <<sending, published>>,
           NEW t \in Tweet, OnItsWay(t)
    PROVE  OnItsWay(t)'
<1>1. chan["short"] \in Seq(Message) /\ chan[c] \in Seq(Message)
  BY ShortIsChannel DEF TypeOK
<1>2. chan'["short"] = IF c = "short" THEN Append(chan["short"], m) ELSE chan["short"]
  BY ShortIsChannel DEF Push, TypeOK
<1>3. ASSUME NEW i \in DOMAIN chan["short"], chan["short"][i] = {t}
      PROVE  OnItsWay(t)'
  <2>1. i \in DOMAIN chan'["short"] /\ chan'["short"][i] = {t}
    BY <1>1, <1>2, <1>3
  <2> QED BY <2>1 DEF OnItsWay
<1> QED BY <1>3 DEF OnItsWay

LEMMA ReceiveKeepsOnItsWay ==
    ASSUME TypeOK, NEW c \in Channel, Receive(c), NEW t \in Tweet, OnItsWay(t)
    PROVE  OnItsWay(t)'
<1>1. published' = published
  BY DEF Receive, history
<1>2. CASE c # "short"
  <2>1. chan'["short"] = chan["short"] /\ sending'["short"] = sending["short"]
    BY <1>2, ShortIsChannel DEF Receive, TypeOK
  <2> QED BY <1>1, <2>1 DEF OnItsWay
<1>3. CASE c = "short"
  <2>1. chan["short"] \in Seq(Message) /\ chan["short"] # <<>> /\ sending["short"] = {}
    BY <1>3, ShortIsChannel DEF Receive, TypeOK
  <2>2. chan'["short"] = Tail(chan["short"]) /\ sending'["short"] = {Head(chan["short"])}
    BY <1>3, ShortIsChannel DEF Receive, TypeOK
  <2>3. CASE t \in published
    BY <1>1, <2>3 DEF OnItsWay
  <2>4. ASSUME NEW i \in DOMAIN chan["short"], chan["short"][i] = {t}
        PROVE  OnItsWay(t)'
    <3>1. CASE i = 1
      BY <2>1, <2>2, <2>4, <3>1 DEF OnItsWay
    <3>2. CASE i # 1
      <4>1. i - 1 \in DOMAIN Tail(chan["short"]) /\ Tail(chan["short"])[i - 1] = {t}
        BY <2>1, <2>4, <3>2
      <4> QED BY <2>2, <4>1 DEF OnItsWay
    <3> QED BY <3>1, <3>2
  <2> QED BY <2>1, <2>3, <2>4 DEF OnItsWay
<1> QED BY <1>2, <1>3

LEMMA DeliverKeepsOnItsWay ==
    ASSUME TypeOK, NEW c \in Channel, Deliver(c), NEW t \in Tweet, OnItsWay(t)
    PROVE  OnItsWay(t)'
<1>1. chan' = chan /\ published' = published \cup Own(c)
  BY DEF Deliver
<1>2. CASE {t} \in sending["short"]
  <2>1. CASE c = "short"
    BY <1>1, <1>2, <2>1 DEF Own, OnItsWay
  <2>2. CASE c # "short"
    <3>1. sending'["short"] = sending["short"]
      BY <2>2, ShortIsChannel DEF Deliver, TypeOK
    <3> QED BY <1>2, <3>1 DEF OnItsWay
  <2> QED BY <2>1, <2>2
<1>3. CASE {t} \notin sending["short"]
  BY <1>1, <1>3 DEF OnItsWay
<1> QED BY <1>2, <1>3

(* Without a fault after the step there was none before it, and the step   *)
(* is neither a failed send nor the end of the process.                    *)
LEMMA FaultlessStep ==
    ASSUME KeptInv, [Next]_vars, Faultless'
    PROVE  /\ UNCHANGED faults
           /\ ~ Exit /\ ~ Crash /\ \A c \in Channel : ~ SendFails(c)
<1> USE DEF KeptInv
<1>1. ~ Crash /\ \A c \in Channel : ~ SendFails(c)
  <2>1. /\ Crash => faults'.crash = faults.crash + 1
        /\ \A c \in Channel : SendFails(c) => faults'.send = faults.send + 1
    BY DEF Crash, SendFails, TypeOK
  <2>2. faults.crash \in Nat /\ faults.send \in Nat
    BY DEF TypeOK
  <2> QED BY <2>1, <2>2 DEF Faultless
<1>2. ~ Exit
  <2>1. Exit => cancelled /\ faults' = faults
    BY DEF Exit
  <2> QED BY <2>1 DEF Faultless, CancelledByFailure
<1>3. UNCHANGED faults
  <2>1. CASE EditLoop
    BY <2>1 DEF EditLoop, GetTweetForShortEdit, Edit, EditDump, PushTweet,
                DeleteShortEditedTweets, GetTweetForLongEdit, EditLongStory,
                DeleteLongEditedTweets, EditFails, TranslateLongStory
  <2>2. CASE CommitUnknown \/ Rest \/ UNCHANGED vars
    BY <2>2 DEF CommitUnknown, Rest, vars
  <2>3. CASE \E w \in Worker : ProcessTweet(w)
    BY <2>3 DEF ProcessTweet, CheckIfSent, IsPopular, SaveTweetForEdit, SaveSentTweet, Abandon
  <2>4. CASE \E c \in Channel : Receive(c) \/ Deliver(c)
    BY <2>4 DEF Receive, Deliver
  <2> QED BY <1>1, <1>2, <2>1, <2>2, <2>3, <2>4 DEF Next, Send
<1> QED BY <1>1, <1>2, <1>3

LEMMA KeptStaysOnItsWay ==
    ASSUME KeptInv, [Next]_vars
    PROVE  KeptIsOnItsWay'
<1> SUFFICES ASSUME Faultless', NEW t \in kept', t \notin InLoop'
             PROVE  OnItsWay(t)'
  BY DEF KeptIsOnItsWay, Faultless
<1> USE DEF KeptInv
<1>1. t \in Tweet
  BY StepKeepsTypes DEF TypeOK
<1>2. t \in kept /\ t \notin InLoop => OnItsWay(t)
  BY FaultlessStep DEF KeptIsOnItsWay, Faultless
<1>3. CASE UNCHANGED <<loop, chan, sending, kept, published>>
  BY <1>2, <1>3 DEF InLoop, OnItsWay
<1>4. ASSUME NEW c \in Channel, Receive(c)
      PROVE  OnItsWay(t)'
  <2>1. UNCHANGED <<loop, kept>>
    BY <1>4 DEF Receive, history
  <2> QED BY <1>1, <1>2, <1>4, <2>1, ReceiveKeepsOnItsWay DEF InLoop
<1>5. ASSUME NEW c \in Channel, Deliver(c)
      PROVE  OnItsWay(t)'
  <2>1. UNCHANGED <<loop, kept>>
    BY <1>5 DEF Deliver
  <2> QED BY <1>1, <1>2, <1>5, <2>1, DeliverKeepsOnItsWay DEF InLoop
<1>6. CASE Edit
  <2>1. loop.step = "ask" /\ UNCHANGED <<chan, sending, published>>
    BY <1>6 DEF Edit
  <2>2. t \in kept
    BY <1>6 DEF Edit, InLoop
  <2> QED BY <1>2, <2>1, <2>2 DEF InLoop, OnItsWay
<1>7. CASE EditDump
  <2>1. /\ loop.step = "ask" /\ Push("short", loop.batch)
        /\ UNCHANGED <<sending, kept, published>>
    BY <1>7 DEF EditDump
  <2>2. loop.batch \in Message
    BY <2>1, EditingByStep DEF TypeOK, Message
  <2> QED BY <1>1, <1>2, <2>1, <2>2, ShortIsChannel, PushKeepsOnItsWay DEF InLoop
<1>8. ASSUME NEW u \in Tweet, PushTweet(u)
      PROVE  OnItsWay(t)'
  <2>1. /\ loop.step = "push" /\ Push("short", {u}) /\ {u} \in Message
        /\ UNCHANGED <<sending, kept, published>>
    BY <1>8 DEF PushTweet, history, Message
  <2>2. CASE t = u
    <3>1. chan["short"] \in Seq(Message)
      BY ShortIsChannel DEF TypeOK
    <3>2. chan'["short"] = Append(chan["short"], {t})
      BY <2>1, <2>2, ShortIsChannel DEF Push, TypeOK
    <3>3. /\ Len(chan["short"]) + 1 \in DOMAIN chan'["short"]
          /\ chan'["short"][Len(chan["short"]) + 1] = {t}
      BY <2>1, <3>1, <3>2 DEF Message
    <3> QED BY <3>3 DEF OnItsWay
  <2>3. CASE t # u
    <3>1. loop \in Editing
      BY <1>8 DEF PushTweet, TypeOK, Idle
    <3>2. loop'.step = "push" /\ loop'.left = loop.left \ {u}
      BY <1>8, <3>1 DEF PushTweet, Editing
    <3>3. t \notin loop.left
      BY <2>3, <3>2 DEF InLoop
    <3> QED BY <1>1, <1>2, <2>1, <3>3, ShortIsChannel, PushKeepsOnItsWay DEF InLoop
  <2> QED BY <2>2, <2>3
<1>9. CASE DeleteShortEditedTweets
  <2>1. InLoop = {} /\ UNCHANGED <<chan, sending, kept, published>>
    BY <1>9 DEF DeleteShortEditedTweets, InLoop, history
  <2> QED BY <1>2, <2>1 DEF OnItsWay
<1>10. CASE GetTweetForShortEdit \/ GetTweetForLongEdit \/ DeleteLongEditedTweets \/ EditFails
  <2>1. loop.step # "push" /\ UNCHANGED <<chan, sending, kept, published>>
    BY <1>10 DEF GetTweetForShortEdit, GetTweetForLongEdit, DeleteLongEditedTweets, EditFails,
                 Idle, history
  <2> QED BY <1>2, <2>1 DEF InLoop, OnItsWay
<1>11. CASE EditLongStory
  <2>1. /\ loop.step = "askLong" /\ Push("long", loop.batch)
        /\ UNCHANGED <<sending, kept, published>>
    BY <1>11 DEF EditLongStory
  <2>2. loop.batch \in Message
    BY <2>1, EditingByStep DEF TypeOK, Message
  <2> QED BY <1>1, <1>2, <2>1, <2>2, ShortIsChannel, PushKeepsOnItsWay DEF InLoop
<1>12. ASSUME NEW m \in Message, TranslateLongStory(m)
       PROVE  OnItsWay(t)'
  <2>1. UNCHANGED <<loop, sending, kept, published>>
    BY <1>12 DEF TranslateLongStory, history
  <2>2. CASE Push("rus", m)
    BY <1>1, <1>2, <2>1, <2>2, ShortIsChannel, PushKeepsOnItsWay DEF InLoop
  <2> QED BY <1>3, <1>12, <2>1, <2>2 DEF TranslateLongStory
<1>13. ASSUME NEW w \in Worker, ProcessTweet(w)
       PROVE  UNCHANGED <<loop, chan, sending, kept, published>>
  BY <1>13 DEF ProcessTweet, CheckIfSent, IsPopular, SaveTweetForEdit, SaveSentTweet, Abandon,
               maker, history
<1>14. CASE CommitUnknown \/ Rest \/ UNCHANGED vars
  BY <1>3, <1>14 DEF CommitUnknown, Rest, vars, maker, history
<1> QED BY <1>3, <1>4, <1>5, <1>6, <1>7, <1>8, <1>9, <1>10, <1>11, <1>12, <1>13, <1>14,
           FaultlessStep DEF Next, EditLoop, Send

(* Without a crash and a failed send no tweet the model kept is lost       *)
(* between the edit loop and the channel.                                  *)
THEOREM KeptTweetIsOnItsWay == Spec => []KeptIsOnItsWay
<1>1. KeptInv /\ [Next]_vars => KeptInv'
  BY StepKeepsTypes, CancelledStaysByFailure, KeptStaysOnItsWay DEF KeptInv
<1>2. Spec => []KeptInv
  BY <1>1, InitInd, PTL DEF Spec
<1> QED BY <1>2, PTL DEF KeptInv
===============================================================================

# A TLA+ model of crypto-tweet-sense

The repository runs three long-lived programs that share a FoundationDB cluster and a Redis
server. This directory holds TLA+ modules of their core logic, TLC configurations that check
them on small instances, and proofs, checked by TLAPS, that carry the most important safety
properties to every value of the constants. `PROJECT.json` lists, for every definition that
models code, the lines it models; for every run, what it checks; for every property, a mutant
of the model that breaks it; and every hazard of the code with the properties that watch it.

## The system

    Twitter ──> twitter_scrapper ── tweets, indexes, sent marks, edit queues, limits ──> FoundationDB
                     │  ▲                                                                │   ▲
                     ▼  │ accounts, cookies                                    queues    ▼   │ ratings, marks
                    Redis                        Telegram <── channel_contentmaker ──────┘   │
                                                     └───────── rating_updater ──────────────┘

`cmd/twitter_scrapper` migrates the two databases, checks the indexes, logs the accounts in and
starts the watcher. `cmd/channel_contentmaker` turns queued tweets into messages with a language
model and sends them to three Telegram channels. `cmd/rating_updater` reads the reactions to the
messages and keeps a rating per author. The programs never call each other: all they share is
keys in the databases. Within a program, goroutines share memory, channels, mutexes and tickers.

### Components

| component | state | operations | what makes it hard | what makes it correct |
|---|---|---|---|---|
| tweet repository (`internal/repo/tweets.go`, `checkcleanpool`) | a row per tweet, a rating index, a creation index, a cached counter | `Save`, `DeleteTweet`, `GetOldestTopReachableTweet`, `GetTweetsOlderThen`, `Count`, `CleanWrongIndexes` | several goroutines; one call spans up to three transactions; a commit may conflict, fail, or succeed unknown to the caller, and is replayed; crashes | the creation index lists exactly the rows; rating entries are only missing or left over for known reasons; a newer snapshot is not overwritten; the counter follows the rows |
| FoundationDB client (`pkg/fdbclient`) | the buffered writes of a transaction | `Get`, `Set`, `Clear`, `Commit` with its retry loop | the retry plays the writes without the reads | a call's writes depend on reads that still hold |
| finder pool (`internal/tweetfinder/pool.go`) | finders, the last temperature of each (0 = lent), the cache of limits they are read through | `Find`, `FindNext`, `getFinder`, `releaseFinder`, `init`, `reinit` | concurrent callers, a wake-up signal that is never made, a mark that equals an error value | one caller per account; a finder is lost only when its first temperature cannot be read; the search goes on |
| watcher (`internal/watcher`) | a list of search requests with their cursors, the start of each query's next interval | `search`, `searchAll`, `initSearchCursor`, `updateOldestFast`, `cleanTooOld`, `processTweet` | four kinds of goroutines; the list is in memory only; the interval is moved on before its tweets are saved | a popular tweet is queued before it is marked; every tweet of a query is saved, unless it is lost in a way the code accepts |
| publishing (`internal/repo/editing_tweets.go`, `internal/tweetseditor`, `internal/sender`) | sent marks, two queues, three bounded channels, what the loop has collected | `SaveTweetForEdit`, `SaveSentTweet`, `editLoop`, `Edit`, `EditLongStory`, `TranslateLongStory`, `send` | two processes, no transaction around several steps, full channels, failed sends that end the process, crashes | a marked tweet is not lost; a tweet the model kept is sent |
| request limits (`internal/repo/request_limiter.go`, `model`, `windowlimiter`) | per account and window: a threshold, a count, batches of request times; a cache of all that | `AddCounter`, `CleanCounters`, `SetThreshold`, `IncreaseThresholdTo`, `Temp` | one cached record shared by goroutines and changed before the commit; widths and byte order in keys | the count covers the requests in the record again after each cleaning; no request counts for longer than the window; only a refused request lowers a threshold, and the database has it in the end |
| delay manager (`delay_manager_v2.go`, `finder.go`) | the delay of an account, the signal channel | `AfterRequest`, `TooManyRequests`, `recalculate` | unlocked sharing, a chain of blocking channels | the delay stays between a second and what a window can recommend, and comes down again |
| accounts (`internal/account_manager`, `internal/repo/redis`) | accounts, cookies, the set of logged-in accounts, the proxies left | `AddAccount`, `SearchUnAuthAccounts`, `AuthScrapper`, `init`, `reinit` | the first error ends `init`; an account is marked before its finder exists; the scan of Redis may return an account twice | finders share neither an account nor a proxy; an account gets its finder when nothing is in its way |
| migrations (`internal/repo/db.go`, `migrations`, `migrationFtoR`) | one version for two lists of migrations, two databases | `Migrate` of both migrators, `Up` of each migration | the version, FoundationDB and Redis commit one after the other | a migration whose version is written has moved its data, and no account comes without its cookie |
| ratings (`internal/ratingcollector`, `internal/repo/rating.go`) | a rating per author, the marks of sent tweets | `FetchRatingsAndSave`, `SubscribeAndSave`, `SaveRatings`, `SaveRating`, `Check` | the history moves while it is paged through; a reaction overwrites what the fetch has summed up | the fetch meets every message and counts every vote; a rating keeps up with the votes |
| the rest | `session_storage` (one key), `tweetsstorage` (used by no program), logging, escaping, the small commands | one key read or written, or none | | |

## The modules

| module | what it is |
|---|---|
| `TweetTable` | abstract: a table of rows and the listing the cleaner scans |
| `TweetRepo` | the repository on the transactions of `fdbclient`; implements `TweetTable` |
| `TweetRepoProofs` | proofs about it |
| `Lease` | abstract: one caller per account |
| `FinderPool` | the pool of finders; implements `Lease` |
| `FinderPoolProofs` | proofs about it |
| `Publishing` | `processTweet`, the queues, the edit loop, the channels, the senders |
| `PublishingProofs` | proofs about it |
| `DelayManager` | the limits and the delay of one account: the unlocked record, the goroutines, the channels |
| `DelayManagerProofs` | proofs about it |
| `RequestWindow` | the requests of one window: batches, cleaning, keys, copies in the database |
| `RequestWindowProofs` | proofs about it |
| `TweetSearch` | the rounds of the watcher, its list of requests, the searches back in time |
| `TweetSearchProofs` | proofs about it |
| `Startup` | migrations, accounts, proxies and the pool's `init`, across panics and crashes |
| `StartupProofs` | proofs about it |
| `Ratings` | the fetch of the channel's history and the handler of reactions |
| `RatingsProofs` | proofs about it |
| `MC*` | symmetry sets, lengths, functions for TLC; the other constants are in the `.cfg` files |

The modules share what the programs share. `Publishing` and `Ratings` both write the marks of sent
tweets; `TweetSearch` calls the `processTweet` of `Publishing` and the `Save` of `TweetRepo` for
every tweet of a page; `Startup` ends where `FinderPool` begins, with a list of finders, and adds
one to it where that module does (`AddFinder`); the check of the indexes between two of its stages
is `Restart` of `TweetRepo`. Each module keeps of the others what its properties need: of a save,
`TweetSearch` keeps that it may be lost; of the marks, `Publishing` keeps that they only grow.

An operator whose name ends in an underscore and a word (`SaveWrites_ClearLast`) is a faulty
variant of the definition that follows it. It is not part of the model; it is what the property
it is listed with under `mutants` must catch.

### TweetRepo

`tweets`, `ratingIdx` and `creationIdx` are the three key ranges, `tweetsCounter` the atomic
counter, `txn[c]` where the call of goroutine `c` is, `unchecked` what the startup check has
still to look at. A call is split where the code leaves the database or memory to others:

- `Save` and `DeleteTweet` read the row and buffer their writes (`tweets.go:63-107, 121-134`);
  `Commit`, `CommitUnknown`, `Retry` and `CommitFails` are the outcomes of one round of the loop
  in `transaction.go:85-106`; `AddToCounter` is the increment after it. A transaction is `valid`
  until another commit writes the row it read, then `stale` (FoundationDB refuses it), and
  `blind` after a reset, because the loop plays only the writes again.
- `ScanRatings`, `LookupRow`, `ClearEntry` are the three transactions of
  `GetOldestTopReachableTweet`; `Count` and `StoreCount` the recount and its store.
- `Restart` with `CheckRatingEntry` and `CheckCreationEntry` is a crash at any point followed by
  `CleanWrongIndexes`; nobody calls the repository before the checks end (`main.go:102`).
- `GetTweetsOlderThen` changes nothing: what it returns is the argument of later `DeleteTweet`s,
  and any argument is allowed.

Abstracted: the creation time of a tweet never changes, so an entry of the creation index is the
tweet itself; of a snapshot only the rating and the time of its check are kept; which reachable
entry a scan picks depends on clocks and is left open.

### FinderPool

`pool`, `finderTemp`, `waiting` and `holds` are the list of finders, the temperatures, the callers
in the loop of `getFinder` and who uses what. `heat` is what the limiters would compute and `dbUp`
whether the database answers them: `limiter.Temp` returns 0 on an error, and 0 is the mark of a lent
finder. An account's limits are created first (`StartLimiters`, in `started`); then its finder is
added with a first reading of its temperature (`AddFinder`, `pool.go:278-281`). A limit that has been
read stays in the repository's cache (`cached`, `CacheLimits`; `request_limiter.go:287-290, 332`), and
reading it again needs of the database only the commit of a transaction without writes, which the
client does itself. So a reading can be 0 only while no limit of the account is cached. The cache
takes a value in a goroutine of its own, which is why `CacheLimits` is a step of its own; it
never evicts one, as its cost bound (`db.go:43`) is far above what the limits cost. In an outage some
limits may be readable and some not: a finder may then seem cooler than it is.
`getFinderIndex` is one step because the code holds the mutex across refresh, choice and mark. The
counting of a request runs in the limiters' goroutines, so a release may read the temperature
before or after it. `IsHot`, which reads the temperatures without the mutex, changes only an
interval of the watcher and is left out.

### Publishing

`worker` holds the goroutines in `processTweet`; `loop`, `translating`, `chan`, `sending` and
`cancelled` are the memory of the content maker; `sent` and `queue` are in the database.
`answered`, `kept` and `published` are history variables: tweets of batches the language model has
answered for, tweets it found worth a message, tweets whose own message was delivered. A message
is the set of tweets it is about. Every read, write, push and send is a step of its own; every
write may fail, and those on the queues may be replayed after a result the client does not know.
`Exit` is the return of `main` after a failed send, `Crash` any other end; both lose the memory.

Abstracted: the conversation the editor keeps with the model (and its cleaning), the splitting of
a message into pieces of 4096 bytes (a piece that fails and pieces that do not are one `SendFails`),
an answer that names a tweet twice, and the marks `rating_updater` adds for links it finds in the
channel: those tweets are published already.

### DelayManager

The repository's cache hands out one pointer per account and window, and nobody locks what it
points to. `count`, `threshold` are that record, `saved` the threshold in the database; `loop[w]` is
where the goroutine of window `w` is and what it has read, `caller` the goroutine that has just used
the finder, `manager` the loop of the delay manager. A step is one read or write of a shared field,
or one commit; a value is carried from the step that reads or marshals it to the step that uses it.

- `Answer`, `TooManyRequests`, `SetThreshold`, `TakeCount`, `SaveThreshold`, `Burn`, `AfterRequest`,
  `Signal`: what `Find` and `FindNext` tell the delay manager (`delay_manager_v2.go:50-90`), the
  sends on the bounded channels included.
- `AddCounter`, `CleanCounters` (which counts again from 0 in place: `Recount`),
  `IncreaseThresholdTo` and `Raise`, `PutOut` and `Quench`, `Save`, `SaveFails`: `loop` of
  `windowlimiter/limiter.go:168-222`. `fire++` and `fire--` are not atomic.
- `recalculate` looks at one window per step; `Crash` is a panic or a restart.

`SetThreshold` reads `RequestsCount` twice, for its test and for the threshold. The model keeps both
reads. When the count is not 0, only the branch lies between them (the call of the logger is on the
path that returns), so a compiler may merge them; it need not, Go promises nothing to a program with
a race, and a goroutine may be descheduled between any two instructions.

Abstracted: how many requests a cleaning leaves (any number; `RequestWindow` says which), how far
the clock is (`elapsed` windows since the start), and the fraction of a temperature.

### RequestWindow

Of one account and one window: `queue` is the channel of request times, `count` and `batches` the
record, `savedCount` and `saved` the database, by key. The code keeps, per batch, a start and the
distances between requests in whole seconds; `k` is the running sum of these, the only thing the
code computes with, and `at` is a history: when the request was really made. The goroutine of the
window counts and cleans. `AddCounter` (with its repeated attempts, `again`) is one step, because the
count is incremented once and nobody else touches the batches. A cleaning is not: it sets the count
to 0 (`Recount`, `request_limiter.go:121`) and adds the batches up in place (`AddUp`, 123-125; `summed`
says how many), before `CleanCounters` marshals, commits and stores the cleaned batches. Meanwhile the
caller of a refused request looks at the count (`SetThreshold`), marshals the record
(`MarshalThreshold`) and commits it (`SaveThreshold`), so that a count that is too low reaches the
database; `IncreaseThresholdTo` saves the record too, from the goroutine of the window. `Inc` fills the
channel, `Restart` reads the record back. `tick` is when the ticker of that
goroutine is next due: its channel holds one tick, so a goroutine that was busy cleans at once and
then waits for the next whole second (`limiter.go:169, 198`). Conversions are modelled by what they
do: distances are truncated to seconds, wrap at `Word`, and a negative one is either of what amd64
and arm64 make of it; a key keeps the second of a start, its bytes in little-endian order. The clock
has units finer than a second; as it counts nanoseconds, a cleaning never starts a window exactly
where a batch starts. The count is the number of places a batch has (`Total`); `Replaced` is what
the commit of a cleaning leaves in the database: the keys of the starts no batch has any more are
cleared (`Dropped`), then the batches with a start that is new are set (`Inserted`, `Written`).
What thresholds are set to, and the rest of the record, are in `DelayManager`.

### TweetSearch

`posted[q]` numbers the tweets of a query as they appear on Twitter, and a moment is the number of
tweets before it; this is all the code compares times for. `start[q]` and `round[q]` are the locals
of `initSearchCursor` (`watcher.go:258-288`), `singleLL` the list of `singlell/list.go`, `nextObj`
the request `searchAll` has popped and holds until it is old enough (`watcher.go:290-315`),
`searches` the goroutines in `search` (`watcher.go:90-132`). `Restart` loses all of it. A page ends
before a cursor; behind the oldest tweet the pages are empty, and the code asks again.

- `FindNewest`, `PushRequest`, `SaveNewest` are a round: Twitter answers, the request is pushed and
  the interval moved on, the page is saved. A tweet posted between the first two is in no interval.
- `Pop` and `StartSearch`: a request is popped, and started when the next has been popped.
- `SearchPage`, `SearchRepeats`, `GiveUp`: a page of a search that is saved; one where `Save` ends in
  the middle, so that the page is repeated; a search that waited a minute for a finder in vain.

Abstracted: how long a request ages (any time), how long a round waits, and what happens to a tweet
on its way to `Save` (`processTweet`) and after it.

### Startup

An account is its login; a cookie and the Telegram session are there or not. `old` is what
FoundationDB held before Redis came in, `redis` what is in Redis, `version` the one key both
migrators count in. `stage`, `todo` and `step` are where `main` is (`main.go:96-175`): a migration runs
`up` (its reads), `version` (committed by itself), `commit` (FoundationDB) and, in the second list,
`exec` (the pipeline of Redis): `db.go:58-91`, `migrator.go:29-68`. `proxies`, `listed`,
`authAccounts`, `opening` and `finders` are the pool in `init` and `reinit` (`pool.go:202-300`).
`refused` are the accounts whose log-in fails at the moment, for whatever reason; `LogInChanges` puts
an account into it or takes it out, at any time and as often as it likes, and `AuthScrapper` fails
as long as it is there (`manager.go:73-77`).
`torn`, `added`, `repeated` and `unstarted` are histories that name the ways things go wrong.

- `InitEnds` is what an error of `init` does: a panic at the start, a line in the log later. A
  panic and a crash lose the memory (`Forgotten`), and `main` is started again.
- `ProxyRefused`, `AuthScrapper`, `AuthFails`, `StartFinder`, `StartFails` are the ways of one account
  through the loop of `init`; a proxy that was taken stays taken (`Left`), one that is refused stays.
- `SaveAccount`, `SaveCookie`, `StoreSession` are the other programs, at any moment.

Abstracted: the order in which `SCAN` returns accounts (any), what a cookie or a session holds, and
the check of the indexes, which is in `TweetRepo`.

### Ratings

`channel` is the channel, newest message first, with the `votes` of each; `phase`, `offset`, `page`,
`next` and `sums` are `FetchRatingsAndSave` (`fetcher.go:73-173`), `pending` and `inHand` the handler of
`SubscribeAndSave` (`fetcher.go:175-235`), `ratings` and `sent` what both write. A message stands
for the tweet it links to. The fetch asks for a link to a tweet (`ParseLink`, `fetcher.go:128`: the
messages in `Linked`), the handler of reactions only for a user (`ParseUsername`, `fetcher.go:213`:
`Author`), which any first link gives: a message with another link is passed over by the one and
rated by the other. Telegram counts the offset from the newest message of the moment, so a
post shifts the pages (a message is met twice, and its votes are counted twice) and a deletion
shifts them the other way (a message is missed). `seen`, `quiet` and `missed` are histories for what
a property may still expect. The client library handles one update at a time and forgets those that
come while no handler is there; that is external. `Crash` is any error of the fetch, a panic in
`main`.

## The runs

| run | instance | what it shows |
|---|---|---|
| `repo` | 1 tweet, 3 clients, 2 ratings, 2 check times | which step may break which index, hide a row or let an older snapshot win; `TweetTable`; with every conflict, unknown result, failure, replay and crash |
| `pool` | 3 callers, 2 finders, 3 temperatures, 1 outage | exclusive use; a finder is lost only in an outage before any of its limits is cached; `Lease`; callers are served again and again as long as a finder is left |
| `pool_outage` (violation) | 1 caller, 1 finder, 1 outage | an outage at the first reading of a new finder takes it away for good, and with it the search that README.md:20 calls continuous |
| `limits` | 2 windows, 1 request, channels of 1 | types, bounds of the delay, and what may lower a threshold, over every order of the unlocked steps |
| `limits_live` | 1 window, 2 requests, 1 restart | a threshold the database has missed reaches it; a fire goes out; the delay comes down when nothing recommends one |
| `limits_zero` (violation) | 1 window, 1 request | a cleaning between the two reads of `SetThreshold` makes the threshold 0, against request_limiter.go:170 |
| `window` | 3 requests, batches of 2, a window of 2 s in half seconds, 1 failed commit, 1 restart | what makes the counts too low and what mends them, at which times requests count, what a cleaning keeps, what the database has of it |
| `publishing` | 1 tweet, 2 goroutines, a story of 1, channels of 1, 1 crash, 1 failed send | a marked tweet is safe in the queue of short edits and in the one of long stories, with translation and full channels |
| `publishing_live` | 2 tweets, 1 goroutine, stories off, 1 crash | a kept tweet is on its way; a queued tweet is answered across a crash; a kept tweet is published unless something failed |
| `search` | 1 query, 3 tweets, pages of 1, a list of 2 requests, 2 faults | in which ways alone a tweet is never seen; every other one is saved in the end |
| `startup` | 2 accounts, any content of FoundationDB, proxies (good, good) or (good, bad), 2 crashes or delay managers that do not start, any number of failed log-ins | what a crash in a migration loses, what finders share, what alone keeps an account out |
| `ratings` | 3 messages (2 with tweets of one user, 1 with another link), pages of 2, 1 fault | what a fetch has recorded at its end, and what a rating is when all reactions are handled |

Why the bounds are enough. Every interleaving that matters in the repository is of a call, a
second one that writes the row in between, and a third that scans or counts; three clients have
room for it. Two ratings give a positive and a non-positive one (only the first is scanned) and an
update that changes the key and one that does not; two check times give older, equal and newer.
`MaxInt32 = 2` makes the counter wrap, as 2^31 - 1 does, within the steps three clients can take.
In the pool, temperatures 1 and 2 give the choice of the coolest, 5 is too hot (more than 4).
A channel of one message is full after one push. `MaxSendErrors`, `MaxCrashes` and `Outages` are
bounds of the model: one of each shows what a fault does, and the proofs hold for any number.
In `limits`, two windows are the fewest in which one takes its threshold from another; one request
that is refused meets every step of both goroutines, and channels of one message are full at once.
`Requests` counts the refused ones too, here and in `window`.
`limits_live` has a second request because a second level of heat, and a fire of 2, need two
refusals. `MaxCount` bounds how many requests a window holds; a delay of 6 passes both ways in which
the code lowers it. In `window`, three requests fill one batch and start a second; the clock runs
from one window to almost three, so that cleanings meet empty, partly fresh and fresh batches, and a
request can wait in the channel for longer than the window; half seconds make every truncation
happen; `Byte = 3` puts seconds 2 and 3 of the run in the wrong order of keys, as 255 and 256 are.
In `publishing`, two goroutines race for one tweet, and stories of one tweet make it take the long
way as well as the short one. `publishing_live` has two tweets, so that one is collected while the
other is queued; `LongBatch = 3` turns stories off there.
In `search`, three tweets on pages of one give a search of several pages, one that ends on its first,
and a round in between; a list of two holds a request behind another, and a third is held by
`searchAll`; two faults are a lost commit of the newest page and a restart, in any combination.
In `startup`, the two accounts are enough for one to stand in front of another, two proxies for one
to be refused, and two faults for a crash in a migration followed by another crash or by a delay
manager that does not start. Failed log-ins are not bounded: `refused` changes at any time.
In `ratings`, three messages are one more than a page; posts and deletions between two pages shift
them across the border, and two messages of one user make a sum that differs from either.
`window` and `ratings` may stop: nothing obliges anyone to make a request or to vote
(`CHECK_DEADLOCK FALSE`); in every other run a deadlock would be reported.

### Fairness

`FinderPool`: the tickers of the watcher call `Find` again and again, `getFinder` polls on its own
ticker, a request ends by the scraper's client timeout of a minute and the deferred release follows,
the windows of the limiters move with the clock. That an outage of the database ends is an
assumption about the environment; so it is for the language model in `Publishing`. There the edit
loop selects between two tickers, and Go picks a ready case at random: strong fairness of
`GetTweetForShortEdit` says that a ticker is not passed over for ever. Nothing is assumed of the
scraper's goroutines in `Publishing`, of crashes and of failures. `DelayManager`: a caller
that can go on does, and so does a goroutine between two steps (weak fairness). A window's loop
selects among two channels and three tickers; each case that comes up again and again is taken
(strong fairness), also because another case may take its turn just before. `Save` and `recalculate`
for a window are strongly fair because the database does not fail for ever. Raising a threshold,
crashes and refusals are not fair. `TweetSearch`: the goroutine of a query, `searchAll` and each
search go on (weak fairness), and a search does not fail for ever. Pushing on the list is strongly
fair only because the model bounds the list, which the code does not: `PushRequest` is disabled
while the list is full, and enabled again each time `searchAll` takes a request. `Startup`: `main` is
started again after a panic and then goes on, later in the goroutine of `reinit`, which is one
sequence of steps and needs one weak fairness; nothing is assumed of the programs that add accounts,
nor of log-ins. Crashes and delay managers that do not start are finitely many (`MaxFaults`), as no
account is served by a process that crashes for ever.
`TweetRepo`, `RequestWindow` and `Ratings` have no liveness: a call that fails is not repeated.

## What is proved

All theorems are about the specification with arbitrary sets of tweets and clients (callers and
finders, accounts, messages), arbitrary capacities, and any number of faults, under the assumptions
on the constants that each module names (`RepoAssumption`, `PoolAssumption`, `PublishingAssumption`,
`DelayAssumption`, `WindowAssumption`, `SearchAssumption`, `StartupAssumption`, `RatingsAssumption`).

- `TweetRepoProofs`. The inductive invariant adds to the types and to `CreationIndexExact` that a
  `valid` transaction still knows the row it will replace (`ValidReads`): without it
  nothing ties the rating entry a commit clears to the one that is there. From it: the creation
  index is exact (`CreationIndexIsExact`), rows and listing implement `TweetTable`
  (`ImplementsTable`), entries are left over only by blind replays (`DanglingNeedsBlindWrite`),
  older snapshots win only by blind replays (`OlderNeedsBlindWrite`), a row is hidden only by the
  late `Clear` of a scan (`HidingNeedsLateClear`), and the counter drifts only by replays, failures
  and recounts (`GaugeFollows`). The argument for the creation index needs no reads at all: `Save`
  and `DeleteTweet` write row and listing together, so even a blind replay keeps them equal.
- `FinderPoolProofs`. The invariant `LentIsMarked` says that a finder somebody holds is in the pool
  with temperature 0; the refresh skips it, so nobody else is given it (`OneCaller`,
  `ImplementsLease`), and a temperature becomes 0 without a holder only when a reading failed, which
  needs an outage and an account without a limit in the cache (`LeakOnlyInOutage`).
- `PublishingProofs`. `MarkingIsSafe` (a goroutine about to mark has queued) and `DeletesAnswered`
  (what the loop is about to delete has been answered) make `MarkedIsSafe` inductive.
  `CancelledByFailure` (only a failed send ends the context) makes `KeptIsOnItsWay` inductive.
- `DelayManagerProofs`, for any number of windows of any increasing lengths. `TypeOK` needs
  `SeenBurning` (the loop that is about to write `fire - 1` has read a fire above 0), or the unsigned
  fire would wrap. `DelayBounded` rests on `RecommendedType` (a window recommends at most a fifth of
  its length) and `LoweredBounds` (lowering stays above 0), `TypeOK` of the thresholds on `ResetType`.
  `OnlyRefusalLowers` then follows step by step: a raise looks before it writes, so only a threshold
  that grew in between, by a refusal, can be lowered by it. That a threshold is never 0 is not a
  theorem: it is false (`limits_zero`).

- `TweetSearchProofs`. `NothingElseIsLost` says of every step what it may take out of the care of the
  watcher. Types are enough of an invariant; the proof goes over the ways in which a tweet is in care
  and shows that a step hands it to the next one: a page that is saved together with the request
  that goes on behind it covers what the request covered before (`SearchKeeps`), for any page size.
- `StartupProofs`. `MigInv` says that the migrations still to do are exactly those after the version,
  until a version is written, and then the written one and those after it. Without it, nothing says
  that a migration `Migrate` does not do has been done, or torn. From it: a migration is skipped only
  if a crash has torn it (`SkippedNeedsTear`), and an account without a cookie comes from a torn
  migration of the accounts or was added (`CookielessComesFromTear`). `PoolInv` adds to `FindersApart`
  that every finder has an account that is marked and a proxy that has been handed out, and
  `ListedInv` that an account which is listed again although it is marked was repeated by the scan.
- `RatingsProofs`. `MeetInv` says where a message that was there at the beginning of a fetch can be:
  counted, on the page in hand, or behind what has been read; posts only push it further back, so
  the fetch meets it. `CountInv` says that in a quiet channel the messages counted are the first
  ones, each once, and that the page in hand holds the next; with a lemma on tallies
  (`VotesForMore`: one more message adds its votes) the sums are then those of the channel. Both
  make `FetchRecordsChannel`, for any length of a page. `CurrentInv` carries
  `RatingIsCurrent` through the two steps of the handler: what is in hand is outdated only if the
  message is waiting once more.
- `RequestWindowProofs`, about every property of the run `window`, for any length of a window, size
  of a batch, fineness of the clock, and any number of requests. `TypeCorrect` needs `IndInv`, because
  a start that a cleaning sets lies a window back and a distance must not wrap. `GoodBatches` says of
  each batch, in the record and in the database, that its times do not go back, and of a request that
  counts later than it was made, how: at the start of its batch, or so far ahead that no clock reaches
  it before the ticker is due. `QueueInv` orders the channel after what has been counted; it is why
  only a wait of a whole window makes a request late. From it: `AheadNeedsLate`,
  `OnlyFreshAfterClean`, `RestIsKept` and `OrderedUntilRestart`, each over the cases of `Rebased` (the
  lemma `Rebasing`, about any batch). `CleaningInv` says that in the middle of a recount the count is
  the requests of the batches added up so far, so that a cleaning ends with the count of all it has
  looked at, not less than what it keeps (`CleansInTime`); `CountInv` says that, until a commit fails,
  each batch in the database is the last of the record with its start, so that a restart reads back
  no more requests than the record had. Together they make `CountIsEnough`: which two steps alone make
  a count too low, and that a cleaning, or a restart from a count that is not too low, mends it.
  `EmptyInv` says of a batch without requests that a
  cleaning has emptied all before it as well, or a restart has read it and no other starts in its
  second; otherwise its empty copy could overwrite the one of a batch with requests
  (`BatchesAreSaved`). That the first fresh request is well defined is a lemma too (`Least`): the
  induction it needs is taken from the well-foundedness of inclusion among finite sets.
  `WindowAssumption` asks of the clock that it begins a window after 0, that its seconds fit a key
  (the code has eight bytes, the model two of any size), and that twice its time fits a word of
  seconds: with 32 bits, 68 years, before which no distance that has wrapped comes round again.

Only model-checked: the liveness properties (`UnlostServe`, `ThresholdIsSaved`, `FireGoesOut`,
`DelayComesDown`, `QueuedIsAnswered`, `KeptIsPublished`, `TweetIsSaved`, `EveryAccountServed`), which
are beyond the prover, and the violations, which are about single behaviours.

## What the checks found

- `transaction.go:85`: after a conflict the loop repeats the writes, not the read they were decided
  on. A `Save` can put an older snapshot over a newer one and leave an entry in the rating index
  that points to another rating. The startup check removes such an entry only if the row is gone.
- `tweets.go:113`: the counter goes up although the commit failed, and a recount (`tweets.go:496`)
  overwrites what happened while it read. `GaugeFollowsRows` says when the two agree.
- `pool.go:281`: if the database does not answer when the first temperature of a new finder is read,
  the finder is added with the mark of a lent one, and nobody will ever give it back. The search ends
  if it was the only one. Later outages do no such harm: the limits are in the cache then.
- `sender.go:46`: a message that cannot be sent is dropped; its tweet has left the queue.
- `request_limiter.go:174`: the count may be set to 0 by a cleaning (line 121) between the two reads
  of `SetThreshold`; the threshold is then 0, no delay is recommended for the window, until
  the reset ticker or the next refused request sets another threshold.

The first and the fourth are ways a property names (`OlderOnlyByBlindWrite`, `KeptIsOnItsWay`); the
third and the fifth are runs that end in a violation.

Not against a promise of the code, but visible in the models:

- `limiter.go:185`: each failed commit of `AddCounter` counts the same request once more.
- `limiter.go:215`: a threshold that cannot be saved is a panic, and ends all accounts.
- `delay_manager_v2.go:161`: two exhausted windows make the delay alternate between their values.
- `request_limits.go:189`: each cleaning moves the first request it keeps, and with it the whole
  batch, up to a second into the past (`CleanKeepsTheRest`). With a cleaning each second, a request
  leaves its window between half and all of its length.
- `request_limits.go:226`: a request that has waited in the channel until its batch starts after it
  may count as of a time far ahead, and is then never cleaned (`AheadNeedsLateInc`).
- `key_builder.go:92`: after a restart the batches may be in the wrong order
  (`DisorderNeedsRestart`); a cleaning then keeps old requests behind the first fresh one.
- `request_limiter.go:121`: a refused request in the middle of a recount may save a count that is
  too low; a restart before the next cleaning is committed reads it (`CountCovers`).
- `request_limiter.go:133`: two batches that start in the same second share a key, and the copy of
  one is lost until the next cleaning (`SavesBatches`).
- `watcher.go:96`: a search that gets empty pages before a tweet older than its start asks on for
  ever; `ErrNoTops` (line 99), which would end it, is returned by nothing.
- `watcher.go:277`: the next interval starts when the request is on the list; a tweet posted after
  Twitter answered and before that is in no interval (`NothingElseIsLost`).
- `manager.go:60`: the branch for an account without a cookie tests for the error of the FoundationDB
  repository, but gets that of Redis. The account is never logged in, and `main` panics at each start.
- `03-session-storage.go:22`: without a Telegram session in FoundationDB the last migration fails, at
  every start; the session that `rating_updater` stores in Redis does not help.
- `02-session.go:42`: the migration of the cookies returns in the first round of its loop, and copies
  an account. The cookies come with the accounts (`01-accounts.go`), unless that one was torn.
- `pool.go:227`: an account that cannot log in, for as long as it cannot, keeps those after it out, and
  at the start ends the program (`main.go:157`). The order of the scan is not fixed, so any account
  may be after it (`EveryAccountServed`).
- `pool.go:220`: a refused proxy stays at the head of the list and refuses every account after it; one
  that was taken for a log-in that failed is not given back (line 224).
- `pool.go:268`: an account whose delay manager did not start is marked and never tried again.
- `redis/accounts.go:26`: a scan may return a key twice; the account then gets two finders.
- `fetcher.go:213`: a reaction to a message with any link is saved as a rating of what stands before
  the first slash in it ("https:", `message_parser.go:40-47`); the fetch counts links to tweets only.
- `fetcher.go:228`: a reaction replaces the sum over all messages of an author by the votes of one.
- `fetcher.go:89`: if no dialog has the configured id, whatever the last one in the list is, is used.

## Plan

Done, in this order: `TweetRepo`, `FinderPool`, `Publishing`, `DelayManager`, `RequestWindow`;
`TweetSearch`; `Startup`; `Ratings`; two abstract specifications (`TweetTable`, `Lease`) that the
detailed ones implement; the proofs above.

What could follow: the ages of tweets, for the liveness of the cleaner and of `updateOldestFast`;
`Publishing` composed with the marks that `Ratings` writes.

## Not modelled

- `Check` of the rating checker (`rating.go`): a formula of floats over ratings; to the programs
  around it, it is a yes or no, which `Publishing` leaves open.
- The intervals of `updateOldestFast` and of the cleaner: they are clients of `TweetRepo` that save,
  scan and delete at any time, so safety does not need their timing. What a failed deletion ends, the
  next tick begins again; nothing promises that a deleted tweet stays away.
- How a process logs in at Telegram, which dialog is the channel, `LoadSession`: external calls that
  keep no state of the program.
- `Down` of the migrations, which panics and is never called; `repo/accounts.go`, the
  functions of accounts for FoundationDB, which no program calls any more.
- `tweetsstorage`, which no program uses; `limiters_reader`, which prints what it reads; metrics,
  logging, escaping of messages.
- The scraping library, Telegram, the language model: external. What the code uses of them is
  nondeterministic in the models.

# A verification development for ff-backend

ff-backend is a Telegram bot that feeds each user an endless sequence of memes. The bot runs as
several FastAPI workers behind a webhook, keeps its queues and locks in Redis and everything else
in PostgreSQL; Prefect flows parse, upload, deduplicate, broadcast and crosspost memes beside it.

This directory models the parts where steps of several actors meet, checks them with TLC on small
instances, and proves the properties that matter most with TLAPS for every value of the constants.
Source paths below are relative to `src/src/`.

## 1. The system

### Components

| Component | State | Operations | Talks to |
|---|---|---|---|
| Webhook and user lock (`tgbot/router.py`, `tgbot/app.py`, `tgbot/update_lock.py`) | Redis key `tg_update_user_lock:{user}`, background tasks of a worker | receive, acquire, process, release | every handler |
| Meme queue (`recommendations/meme_queue.py`, `redis.py`) | Redis list `meme_queue:{user}`, lock `meme_queue_lock:{user}` | check, generate, append, pop, clear | pipeline, feed, language settings, `/show`, broadcasts |
| Feed (`tgbot/handlers/reaction.py`, `tgbot/senders/next_message.py`, `tgbot/senders/meme.py`, `recommendations/service.py`) | rows of `user_meme_reaction`, the chat | react, next message, send or edit, record | queue, Telegram, popups |
| Popups (`tgbot/senders/popups.py`, `tgbot/handlers/popup.py`) | rows of `user_popup_logs`, cached counters | send, log, press | feed |
| Recommendation pipeline (`recommendations/pipeline.py`, `blender.py`, `candidates.py`, `feed_turn/planner.py`) | none of its own | plan, query engines, blend, fall back | queue |
| Meme lifecycle (`storage/etl.py`, `storage/upload.py`, `storage/service.py`, `storage/moderation.py`, `flows/storage/memes.py`) | `meme.status`, `telegram_file_id` | ETL, upload, promote, snooze, disable | parsers, dedup, feed |
| Deduplication (`storage/deduplication/`) | `meme.duplicate_of`, image hashes | find, resolve, sweep | lifecycle, feed's rows |
| Uploads and review (`tgbot/handlers/upload/`) | uploaded memes, review messages | upload, approve, reject | lifecycle, treasury |
| Source voting (`storage/source_voting.py`) | candidates, polls, votes | nominate, vote, close | parsers, lifecycle |
| Broadcasts (`broadcasts/service.py`, `flows/broadcasts/meme.py`) | Redis sets of recipients | pick, send, mark | queue, feed's rows |
| Treasury (`tgbot/handlers/treasury/`, `flows/rewards/`) | `treasury_trx` | pay once, transfer, reward | uploads, crossposting |
| Members (`tgbot/handlers/start.py`, `language.py`, `block.py`, `deep_link.py`, `tgbot/repo/`) | `user`, `user_language`, `blocked_bot_at` | start, invite, pick languages, block | feed, broadcasts, treasury |
| Crossposting (`crossposting/`, `flows/crossposting/`) | `crossposting` log | pick, publish, log, collect stats | lifecycle, treasury |
| Descriptions (`flows/storage/describe_memes*.py`) | description jobs and failures | claim, describe, give up | lifecycle |
| Database access (`database.py`) | connections | retry transient errors and deadlocks | all |
| Statistics (`stats/`, `flows/stats/`) | `meme_stats`, `user_meme_source_stats` and others | recompute hourly, refresh after a merge | feed's rows, dedup, pipeline |
| Parsers, group chats, admin, monitors, observability | raw posts, chat reactions, logs | | |

`PROJECT.json` lists every component with what is modelled of it or why it is not.

### How the core works

A button press reaches one worker as a webhook request. The worker answers 200 at once (and in that
answer strips the callback buttons off the pressed message), and runs `process_event` as a
background task. The task polls for the user's Redis lock, runs the handler chain and releases the
lock in a finally clause. `handle_reaction` records the reaction by one UPDATE and, when a row
changed, `next_message` pops memes off the user's queue until one is still `ok` and unseen, sends
it, inserts its row, and starts a background `check_queue`. An empty queue makes the chain
`check_queue` itself. `check_queue` has a lock of its own.

### How a meme gets there

A parsed post becomes a row with status `created`. The upload loop stores its picture in Telegram
and writes `telegram_file_id`, or makes the meme a duplicate at once when another has that file. The
final pipeline takes the `created` memes with a file, reads each caption, merges what has the same
file or a similar text, promotes to `ok` what is left, and then sweeps: of the circulating memes
with one file only the canonical one stays. A user upload is stored, described and matched by its
own handler and then waits for a reviewer. The describe flow gives texts to circulating memes and
merges again. Source moderation snoozes, channel posts make a meme `published`, and the feed makes
a refused meme `broken_content_link`, which the next ETL run puts back to `created`.

### Around the feed

Every database call goes through four helpers that re-run it after a broken connection or a
deadlock. The services are flows that Prefect starts on a schedule, retries and kills after their
time limit, and handlers of other users' and the moderators' updates. Channels that tracked channels
forward from are put to a daily vote of the moderators; a closed poll enables or disables the source.
Memes are posted to the channels every few hours and once a week as an album, and their uploaders
paid. Broadcasts send memes and texts to users who have not been seen for a while, without the user
lock and beside the feed. Vision models describe memes within daily budgets. Statistics are recomputed
from the reaction rows and read by the recommendation queries.

A merge is one transaction under an advisory lock: status and `duplicate_of` of the duplicate, what
pointed at it, and the reaction rows. Most other writes are `update_meme`, which looks at nothing.

### What is hard

* A worker that dies takes the update, its user lock and its refill lock along; nothing retries.
* Both locks are Redis keys with a TTL that nobody renews, so a slow owner and the next one overlap.
* Without Redis the handler runs without the user lock.
* The refill lock is released by a GET and then a DELETE.
* The language handlers and `/show` change the queue without the refill lock.
* A message is sent before its row is written, and the outcome of a send may be unknown.
* A tap, a double tap and a changed mind are separate updates in any order.
* A flow reads the table, works for minutes on what it has read, and writes; two others may do the
  same to the same memes, and each may be killed by its time limit between any two writes.
* An upload's `duplicate_of` is looked up and written outside the lock of the merges.
* A row, a mark or a payment is written after what it stands for has happened, on a connection of its
  own, by a flow that is retried from its start.
* Check-then-insert without a unique constraint, by flows whose late runs start together.
* A column is read, changed in Python and written back whole.
* Budgets and retry counts that several callers, or two kinds of error, spend at once.
* A merge moves rows from under statistics that are computed incrementally.
* A refused meme, a refused edit, an empty queue and a taken lock all have bounded retries that
  must still leave the user a way on, since the buttons are gone already.

What makes the components correct: one handler chain per user at a time (user lock); no duplicate
and no unbounded growth in the queue (queue); each meme delivered once, each reaction recorded and
never lost, one advance per press, every update ends, no dead end (feed); each payment, post and
broadcast once (treasury, crossposting, broadcasts); no merged meme and no
advertisement in circulation (lifecycle); `duplicate_of` acyclic and flat, reactions conserved, a copy
left (dedup); a decided poll says what its votes say and its effects are complete (voting); a
user is never left without a language, invited once and marked as blocked only while blocked
(members); budgets bound what is asked and a description is not lost (descriptions); a batch keeps its
rules however it falls back (pipeline); a call's rows are written together (database); figures agree
with the rows they count, and never go back (statistics, channel statistics).

## 2. Modules

| Module | Models | Notes |
|---|---|---|
| `UpdateLock` | the user lock and `process_event`'s use of it | a token is a fresh uuid, so the update stands for it |
| `UpdateLockProofs` | theorems about it | |
| `MemeQueue` | the queue, `check_queue`, `generate_recommendations`, the lockless callers | the pipeline is a choice among the batches it may return |
| `MemeQueueProofs` | theorems about it | |
| `FeedPromise` | what the feed promises one user about memes (abstract) | two variables, two actions |
| `FeedDelivery` | handlers, delivery and refills; composes the two above | its variables include theirs; each step is a step of theirs or leaves them alone |
| `FeedDeliveryProofs` | theorems about it | |
| `Dedup` | the searches, the resolver's transaction and the move of reactions, as operators on columns | no variables |
| `MemeLifecycle` | the table `meme` and the flows that write a meme's status or link, with one user's rows | uses `Dedup` |
| `MemeLifecycleProofs` | theorems about both | |
| `SourceVoting` | candidates, polls, votes, the daily cycle, the moderators' buttons | |
| `ChannelPosts` | the scheduled post, the weekly album, payments | |
| `ChannelPostsProofs` | theorems about it and `ChannelStats` | |
| `Broadcasts` | cadence and monthly memes, texts, forwards, with the feed beside them | |
| `Members` | one user's row, languages, invitation and mark of a blocked bot | |
| `Descriptions` | the vision client's budgets and keys, the describe run, an upload's call | |
| `Recommendations` | one batch: plan, queries, guards, blend, fallbacks | |
| `DatabaseCalls` | the database helpers and their retries | |
| `Statistics` | `meme_stats`, `user_meme_source_stats`, and merges under them | uses `Dedup` |
| `ChannelStats` | the collectors of channel statistics | |
| `MCUpdateLock`, `MCMemeQueue`, `MCFeedDelivery`, `MCMemeLifecycle` | TLC instances | symmetry sets |
| `MCServices` | the nine services on one instance | a behaviour is one of them, the others at rest |
| `ServicesProofs` | theorems about `Broadcasts`, `Members`, `Descriptions`, `Statistics` and `DatabaseCalls` | one section each |
| `ContentProofs` | theorems about `SourceVoting` and `Recommendations` | |
| `MCServicesProofs` | theorems about the nine services together | |

Each await of the code is a step: between two awaits a task cannot be interrupted by a task of the
same worker, and each Redis command or SQL statement is atomic, so nothing finer can be observed.

**UpdateLock.** `key` is the Redis key, `turn[u]` where `process_event` is with update `u`.
`Webhook` starts the task; `Acquire` is the successful SET NX EX (a failed attempt changes
nothing); `AcquireFails` is the exception branch, with the SET having reached Redis or not;
`Finish` is the return of `process_update`; `Release` the Lua script; `ReleaseFails` its
exception; `Crash` the worker's death; `Expire` the TTL. `evicted` is a history variable: the
updates whose key expired while they still thought they owned it.

**MemeQueue.** `at[t]` is the await a task is at, `snap` and `batch` its local variables. `TryLock`,
`Measure`, `Snapshot`, `Select`, `Push`, `ReadLock`, `DeleteLock` are the awaits of
`check_queue`/`generate_recommendations`; `Fail` the swallowed exception; `Die` the end of the
worker or a Redis failure in the finally clause; `Rebuild` a language change; `Show` the moderator's
command; `Pop` and `Drop` the consumers; `Catalogue` any change of what the user may be served.
`ousted` (tasks whose lock went away under them) and `dirty` (tasks worked side by side since the
list was last empty and idle, or `/show` appended) are history variables.

**FeedDelivery.** `req[u]` is what the user did, `step[u]` the await its handler is at, `loop[u]` the
local variables of the two nested loops; `ok`, `row` and `popup` are database columns; `offers`
is what the chat lets the user press (or the "preparing" alert); `shown[m]` counts messages with
`m`. `advanced`, `orphaned`, `failed` and `loose` are history variables. The handlers are translated
await by await: `PersistReaction`, `PersistPopup`, `Start`; `NoPopup`, `SendPopup`, `LogPopup`;
`PopMeme`, `EmptyQueue`, `Vet`, `Recheck`, `AwaitRefill`; the four answers of Telegram (`SendMeme`,
`SendRefused`, `SendUnknown`, `SendForbidden`), `InsertRow` and `SendAlert`. The constant `Faults`
says which failures the environment inflicts, so a run can ask what holds under which of them.
`Goats` are memes the user has seen over 30 days ago: the goat engine's query does not look that far
back and may put them in the queue, `_queued_meme_is_sendable` does and discards them. They cost pops
and attempts and are never delivered again; the runs show that the feed ends all the same.

**Dedup.** `links` is the column `duplicate_of`. `Chain` is the set of memes that
`_canonical_original_id` visits (the least set closed under the links: no recursion, so that it can
be proved about), `Roots` where it ends: one meme, or none when the walk raises on a cycle. `Linked`
is the two UPDATEs of `duplicate_of` in a merge, `PreferredPairs` the merge of the describe flow
with its status checks and the choice of the copy that stays, `Kept` the ON CONFLICT clause for a
reaction row, with its times. Which text is similar to which is open: any two described memes may
match, and any of several matches may be the most similar.

**MemeLifecycle.** `status`, `file`, `duplicateOf` and `described` are columns of `meme`; `file[m]` is
absent, of the meme's own, or the one file that all copies share, which is as much as the searches
tell apart. `job[w]` is a run of a flow: the await it is at and its local variables, among them what
it has listed (`todo`, `done`) and what the listed rows said (`files`, `texts`, `oks`). `row`, `screen`
and `reacted` are one user's rows, buttons and stored reactions; he is also the author of the
uploads. A merge is one step but for the rows: `MoveReactions` copies them by one statement and deletes them by
a later one, and an answer that the user's UPDATE stores in between is deleted with its row. The
history variable `lost` has the memes whose last stored answer went that way. (An INSERT cannot come
in between: its foreign key waits for the transaction's locks on both memes.) The steps follow the awaits that read or write these variables: `ListUnloaded`, `Skip`,
`Store`, `WriteDuplicate`, `WriteStored` (upload loop and handler); `AwaitReview`, `DescribeUpload`,
`MatchUpload`, `MergeUpload`, `AskReview`, `RefuseUpload` (handler); `Approve`, `AuthorLikes`, `Reject`
(review); `ListPending`, `Caption`, `SearchByFile`, `SearchByText`, `MergePending`, `Promote`, `ListSweep`,
`Sweep` (final pipeline); `PickUndescribed`, `Describe`, `MatchDescribed`, `MergeDescribed`. `Crash` ends
a run anywhere: a killed process, the flow's time limit, a call that raises. A retried flow starts
over, which is a new run. `lapses` is a history variable; it names what went wrong with a
link or a status so far, and the properties say which lapse they do not survive:

| Lapse | When |
|---|---|
| `misled` | an upload is linked to a meme that has been merged since the lookup |
| `stranded` | an upload that other memes point at is linked |
| `relinked` | a meme that has a link gets another: what it had moved went with the first |
| `revived` | a reviewer approves an upload that has been merged |
| `overwritten` | an upload loop resets an advertisement that was handled since it was listed |

These are things the code does, not assumptions about it; each of them needs at least two flows
that work on the same meme.

**SourceVoting.** `candidate`, `source`, `vote`, `poll` and `ballot` are the rows; `cycle` is the daily flow,
`moderator` a moderator's button between its read and its write. A closing holds the lock of the poll's
row while `EnableSource`, `MarkPromoted` and `AppendMetadata` (or the two writes of a rejection)
commit on connections of their own; only `CommitClose` belongs to the poll's transaction, and `CycleDies` rolls
only that back. `vote` is the part of the source's `data` that the report reads and that a status write
of `advance_meme_source` puts back as it had read it.

**ChannelPosts.** A run of the posting flow checks for recent posts, picks, sends, logs, marks the
meme published, pays its uploader and tells him, each an await; `SlotFails` starts it over while Prefect
has retries left. The weekly flow ranks, pays each place, publishes, sends the album and logs its
rows; `WeeklyTimesOut` cuts it off anywhere. `paid[k]` counts the `treasury_trx` rows with the key `k`;
`raced` (keys looked up by two payers before either inserted) is a history variable. `Insert` is
`create_treasury_trx` with the loop of `execute` around it: an INSERT whose commit was not answered is run again,
up to `InsertAttempts` times (4 in the code), each of which adds a row; `rerun` has the keys this
happened to. `DatabaseCalls` has the loop itself.

**Broadcasts.** A run asks its audience, then per user picks, sends, waits for the row that a
shielded task writes, and marks the user in Redis if the broadcast has an id. Telegram's answers,
the 20 s of `wait_for`, a lost Redis and a dead process are actions. `FeedPops`, `FeedSends` and
`FeedRecords` are the same users' feeds, as far as the rows go. The history variable `loose` records
which repeats are races or sends that did not return.

**Members.** An update waits for the user lock, which may end before its holder or not be had. `/start` is
translated await by await from the lookup to the picker; `ClearLanguages` and `InsertLanguages` are the
DELETE and the INSERT of a replacement. `barred` is whether the user has blocked the bot in truth;
`SenderStep` is a broadcast's or a forward's send, whose answer is written to the row later, or not at
all when the write fails, which the sender swallows. Forbidden comes only from a user who has blocked the
bot. A BadRequest ("not found", or any for a forward) may come for any user and marks him all the same:
the history variable `mistaken` says that the mark is such a one, until another writer writes over it.

**Descriptions.** A caller goes through the keys and models; `asked` is what an account really was
asked, `used` and `total` what the client has counted in Redis. A run picks images, describes,
saves, or records a failure by writing the whole `ocr_result` back.

**Recommendations.** `Facts` says which of the engines' conditions a meme meets; `Pool` is the set an
engine's query may return, `Returned` any sequence of it up to the limit. `PlanFor` is the planner with the
real thresholds. `batchRun` goes through the low-sent quota, segments or blended engines, the blend,
fallbacks and last resort; `UserSees` is a meme that some other sender shows in between.

**DatabaseCalls.** A call's attempt takes the row locks one by one, commits, and may break before or after the
commit or become a deadlock's victim; `Again` is the loop of `execute` and of the others with the two counters
that share one index.

**Statistics.** Rows have an age in hours, capped at the window. `TallyBegin` reads the statement's
snapshot and `TallyCommit` writes it; the same for the batch of tastes, which shares the advisory
lock with `MergeInto`.

**ChannelStats.** A collector reads the channel, writes snapshots and live columns, then the source
posts; an existing post's views only grow.

Mutations of definitions ("a plausible bug") stand before what they mutate; nothing else refers to
them. Replacing a definition by its mutation breaks a property of a run, which shows that the run
would notice the bug.

## 3. Runs

| Run | Bounds | Distinct states | Shows |
|---|---|---|---|
| `update_lock` | 3 updates | 1,944 | `OwnerKeepsKey`, `SerialTurns` |
| `meme_queue` | 2 tasks, 3 memes, low water 1, batch 1, list up to 3 | 393 k | `GenerationExclusive`, `SoloNoDuplicates`, `SoloBounded` |
| `refill_lock_release` | 2 tasks, 2 memes | - | violated: the comment of the finally clause (finding 1) |
| `feed_delivery` | 2 updates, 3 memes, one a goat, 2 reactions, 2 attempts; Redis faults, slow handlers, crashes, raising calls, unknown sends | 473 k | `NoRepeatDelivery`, `ReactionsRecorded`, `SingleAdvance` |
| `feed_promise` | 2 updates, 2 memes, 2 reactions, 2 attempts, one background refill; refused memes, a blocking user, stalled refills | 513 k | `NoDeadEnd`, the refinement `KeepsPromise`, the composition `QueueSpec` |
| `feed_overlap` | 3 updates, 1 reaction, slow handlers | 1.2 M | `ReactionsStay` |
| `feed_live` | 2 updates, 3 memes, one a goat; crashes and raising calls, with fairness | 99 k | `EveryUpdateEnds` |
| `feed_unknown` | 2 updates, unknown sends | - | violated: SPEC.md invariant 2 (finding 2) |
| `meme_lifecycle` | 2 memes, one an upload; one upload loop, handler, pipeline, post and delivery, two of them busy at once | 864 k | `MergedNotServed`, `ReactionsKept`, `LinksSound` |
| `meme_merges` | 3 memes, one an upload, one with an advertisement; one upload loop, handler, pipeline, describe run and reviewer, two busy at once | 995 k | `LinksFlat`, `AdsStayOut`, `DescribeKeepsACopy` |
| `meme_links` | 2 parsed memes; one upload loop, pipeline, post and delivery | - | violated: the comment of the advisory lock (finding 3) |
| `services` | the nine services, see below | 837 k | their 19 properties, see below |

The services share no state that their properties read, so the states of `services` are the sum of the nine,
not their product (`ServicesCompose`, section 5, proves that each behaviour of the run is a behaviour of all nine):

| Service | Instance | Shows |
|---|---|---|
| `SourceVoting` | 1 candidate, 2 voters, quorum 2 | `VotesDecide`, `PassedIsComplete` |
| `ChannelPosts` | 2 memes of one uploader, 2 late runs, or one run or midnight beside the album of 2 places, or 2 presses of a shared link; 1 retry each, 2 attempts at an INSERT | `NoSecondPost`, `PaidOnce`, `PrizesPaid`, `AlbumOnce` |
| `Broadcasts` | 2 recipients, 2 memes, 2 runs with a retry, or one beside the feed | `BroadcastOnce`, `RepeatsAreRaces` |
| `Members` | 2 updates, 2 languages, 2 sharers; somebody new, an orphan, a user at the picker, one who has blocked the bot; a send that is received, refused or forbidden | `StartLeavesALanguage`, `InvitedByTheFirstStart`, `BlockedMarkIsTrue` |
| `Descriptions` | 2 keys of 2 accounts, budgets 2 and 1, one model; an upload's image and a run of one | `BudgetsHold`, `DescriptionsLast` |
| `Recommendations` | 3 memes, limit 2, users at 0, 9, 16 and 100 memes sent | `BatchKeepsRules` |
| `DatabaseCalls` | 2 calls on 2 rows in opposite order, the real retry limits | `WritesWhole` |
| `Statistics` | 3 memes of 2 sources, 1 fan, a window of 3 hours, 2 changes, 1 statistics run | `StatsCatchUp`, `TasteHasGrounds` |
| `ChannelStats` | 1 channel, 1 post, 1 source post, 2 collectors, 2 views | `FiguresGrow` |

Deadlock is not checked where the system may stop: each update is handled once, and when the last
one is over the model has nothing left to do. A table of memes that are all settled may stay as it is.

**Why the bounds are enough to be interesting.** Two updates are what an overlap, a double tap, or
a tap on a message whose row is not written yet takes; `feed_overlap` has a third because a reaction
must come between two overlapping chains. Three lock waiters give an owner, an owner past its TTL
and a third who takes the key. Two memes are the one on screen and the next one; a low-water mark
of 0 with a batch of 1 makes a queue run empty and be refilled within one chain. Two attempts exercise
both the retry and the giving up. `MaxQueue` only bounds `/show`, which appends without looking.

Two memes are a duplicate and its original, and enough for a cycle; the third gives a duplicate of
a duplicate. Every flow occurs in one of the two lifecycle runs, and each passing run has two flows
at a time in every combination and order, each as often as it likes: `MaxBusy` bounds how many are
busy at once, not how many run. There is one upload loop, so `overwritten` comes about through the
handler and the pipeline only; with a second loop the exception in `AdsStayOut` is needed, without it TLC
finds the advertisement back in circulation. Rows have no times in the lifecycle runs (any two exposures
tie); the theorems on `Supersedes` and `Kept` are about rows with times.

In `services` two actors are what every race named in its properties takes; the second fault in a
row comes from the retry. A quorum of two voters can be reached, missed and split. Two places and
two days give a retry that finds one prize paid, today or yesterday. The four counts of sent memes
are one in each phase of the plan that behaves differently; a limit of 2 fills from a segment and a
fallback. Two attempts at an INSERT make the second row, which is all that the properties tell apart.
A deadlock takes two rows in opposite order; the two retry limits are the code's.

What the services assume of their surroundings: of the four statistics runs that are due in an hour,
of five minutes at most, one at least begins and commits in it, none outlives the next hour and none
overlaps another; a description's health check names the key's account, and cooldowns end, within
one UTC day; a payment that was committed without an answer can be seen before its payer looks again; the rankings of the recommendation queries are any order, explore mode concerns users
with at least 30 memes sent, and both experiment settings are on.

**Fairness.** A running worker's steps are weakly fair (an asyncio task that is ready is run, Redis
and the database answer or raise), and so are TTL expiries. Not assumed: that the user presses
anything, that a fault occurs or does not, that a release succeeds. `Acquire` is weakly fair only: a
waiter that polls may in principle miss the lock each time, but each update runs once, so in the end
nobody competes. `feed_live` composes the lock, so its liveness is not checked apart. `feed_live`
has no background refills: in the code each of them is started by a handler that has ended, so there
are finitely many; a model in which they may start at any time would hold the refill lock for ever
and report a livelock the code does not have. `ExpireKey` and `ExpireRefillLock` free only what a
dead task left, unless `Faults` says that tasks may be slow.

## 4. Findings

1. `refill_lock_release`: the finally clause of `check_queue` says "Only release if we still own the
   lock (token match). If TTL expired and another task acquired it, don't delete theirs."
   (`recommendations/meme_queue.py:237-238`). It reads the token by GET and deletes by a separate
   DELETE; if the TTL runs out and another task takes the lock in between, it deletes theirs.
   `update_lock.py` does the same thing in one Lua script. `GenerationExclusive` says what this costs:
   the ousted task and the next one may generate side by side, nothing more.
2. `feed_unknown`: SPEC.md:66 promises "Every reaction is persisted even if next_message() fails".
   `next_message` raises transport errors on without writing a row, for a message that may have
   arrived. The reaction to it then updates no row, is dropped, and the feed does not advance.
   `ReactionsRecorded` states what does hold: a processed reaction is on record unless the chain
   failed, the delivery left no row, or chains overlapped.
3. `meme_links`: the resolver says "One transaction lock also covers file-id and upload merges,
   preventing two workers from creating opposite links" (`storage/deduplication/resolver.py:99-100`).
   `_upload_meme_content_to_tg` looks up the file-id duplicate and writes `duplicate_of` outside that
   lock (`storage/upload.py:133-146`). In the run meme 2 is chosen for a post and at the same time refused by
   Telegram to a reader, so the upload loop lists it once more; its post goes out; the loop stores it
   again, finds meme 1 with the same file, and before it writes, the sweep merges 1 into the published
   2. Then the loop makes 2 a duplicate of 1. From then on every merge that walks over them raises. `LinksSound` states
   what does hold, and `ReactionsKept` what it costs for reactions.

Disagreements met on the way that no run states:

* The budget of a key is counted under the hash of its secret until a health check has named its creator,
  and under the creator afterwards: on such a day an account may be asked for both budgets. `BudgetsHold` bounds it
  by what the ids allow.
* The goat engine queues memes that `_queued_meme_is_sendable` never lets through (`candidates.py`,
  `recommendations/meme_queue.py`); the batch is the smaller for them, nothing worse.
* "Unreachable" (`database.py:778`): deadlocks and breaks mixed end the loop there, with a
  RuntimeError instead of the database's; `WritesWhole` names the case.
* The original of a merge is counted again by the next statistics run, says
  `storage/deduplication/resolver.py:170-176`; not if the duplicate is merged on into another original
  before that run. `StatsCatchUp` has the exception.
* "Duplicate resolution preserves one coherent live reaction row per user and canonical identity"
  (`docs/analyst/readouts/2026-09-14-dedup-history-contract.md:8`): not of a user who answers the duplicate between
  the statement that copies its rows and the one that deletes them (`storage/deduplication/resolver.py:150-153`, at
  READ COMMITTED). The answer is gone, and the feed went on as if it were stored. `ReactionsKept` has the exception.
* A payment is guarded by a look for an earlier one, not by a constraint; `execute` runs the INSERT again
  after a commit without an answer, and a single payer pays twice. `PaidOnce` and `PrizesPaid` have the exception.
* The sources of a mark are named `forbidden_...` and the log says "blocked the bot" (`tgbot/handlers/admin/forward_channel.py:33-36`,
  `broadcasts/service.py:278-284`), but a BadRequest marks as well, and the user is left out of what asks for users who have not
  blocked the bot until his next /start. `BlockedMarkIsTrue` has the exception.
* "StringSession must never run twice at once" (`flows/crossposting/stats_collector.py:430`): nothing prevents
  it. `FiguresGrow` says what it costs.

## 5. Proofs

All proofs are checked by TLAPS for arbitrary constants, from the named assumptions in the modules
only:

* An absent value (no update, task, meme, call, original, sharer) is none of the values; updates and
  refills differ; the handler of an upload is none of the flows; meme ids are natural numbers.
* Limits, retries and days are natural numbers; at least one attempt, place, model and meme of a batch.
* There are memes, candidates and recipients; the fans and the memes counted or batched are finite
  sets; English is a language; a post is in a channel.
* The window of the statistics is at least three hours (the code's is three); an account has a key,
  and no key's number is an account's name; the guarded budget is at most the full one.

**The lock, the queue and the feed.**

* `OwnerKeepsKeyHolds`, `SerialTurnsHolds` (UpdateLock). `OwnerKeepsKey` is itself inductive together
  with the type invariant: only the owner's release and the TTL remove a key, and the TTL marks the
  owner as evicted. Two protected holders would own the same key, which gives `SerialTurns`.
* `GenerationExclusiveHolds` (MemeQueue). The inductive invariant says that a task inside
  `check_queue` that is neither bare nor ousted owns the lock; a `DeleteLock` of a task that has lost
  the lock ousts the new owner, which is why the theorem survives finding 1.
* `SoloNoDuplicatesHolds`, `SoloBoundedHolds` (MemeQueue). As long as the history is clean, at most one
  task is working, its snapshot covers what is in the list (the list only shrinks while it works),
  its batch is injective and disjoint from the snapshot, and the list was at most `LowWater` long
  when it was measured. Appending the batch keeps the list injective and within
  `LowWater + BatchSize`.
* `SingleAdvanceHolds` (FeedDelivery). The strengthening `Advances` says that a reaction that advanced
  the feed is still the one on record, or a different reaction to the same meme advanced it too. No
  lock occurs in the argument: the single UPDATE with its `IS DISTINCT FROM` is what makes it true.
* `ReactionsStayHolds` (FeedDelivery). A row with a reaction keeps one: the late INSERT does nothing on
  conflict. Again without any assumption on locks or faults.
* `LockSpecHolds` (FeedDelivery): the composition implements UpdateLock's specification, so
  `SerialHandlersHolds` follows from `SerialTurnsHolds` without another induction.
* `NoRepeatDeliveryHolds`, `ReactionsRecordedHolds` (FeedDelivery). The inductive invariant `FeedInv`
  says that a meme that was shown has a row, or a chain that is about to write it, or is orphaned; that
  a meme about to be sent was found without a row by a chain that is alone; and that nobody but the lone
  chain writes. That it is alone is `SerialHandlersHolds`: the user lock enters the argument only there.
* `NoDeadEndHolds` (FeedDelivery). The invariant `HopeInv` says that while nothing has failed either the chat
  offers something whose press would bring the feed on, or a press that has arrived will, or a chain is on its
  way to the next delivery. What is offered is a meme with buttons, the popup, or the text of
  `send_queue_preparing_alert`, which has no button (a /start goes on from there). It says that all prepared memes
  have been watched, and may come while memes are left, when the attempts are spent or a refill stalls. `Live` and `Answers` say what that depends on: the meme's row is unanswered or
  about to be written, the popup is logged or about to be. Each step that takes one of the three away
  leaves another.
* `TypeOKHolds` (FeedDelivery), with the bounds of the loops in it: no search and no delivery beyond the
  last attempt.
* `KeepsPromiseHolds` (FeedDelivery). Init and every step map to FeedPromise under the assumption
  `Calm`: no faults but refused memes, a blocking user and stalled refills. A refused meme
  may have been shown, by an edit of the media whose caption was refused; it is out of circulation,
  so it is not sent again, which `CalmInv` adds to `FeedInv`.
* `QueueSpecHolds` (FeedDelivery): each step is a step of MemeQueue or leaves its variables alone, under
  any faults. The steps that change what may be served (a row, a lost status) are its `Catalogue`. What
  MemeQueueProofs proves of `MemeQueue!Spec` is thereby true of the feed's queue: `FeedQueueHolds`.

**The services.**

* `BroadcastOnceHolds`, `RepeatsAreRacesHolds` (Broadcasts). `Counted`: who has a message of a run is marked,
  or the run is about to mark them, unless a fault is on record. `ShownOnce`: a meme that was not
  raced has one holder, for whom it is new, and once it is shown its row is there or due. The first attempt at
  this proof failed on an action written as a CASE in the place of a disjunction, which disabled
  one of its branches; the model was corrected.
* `InvitedByTheFirstStartHolds`, `BlockedMarkIsTrueHolds`, `StartLeavesALanguageHolds` (Members).
  `MembersInv`: what a handler at a step has done, that nobody was a member before the first /start, that
  the lock lets one handler in, and which pending write the mark of a blocked bot waits for. A mark
  written late (`misordered`) or upon a BadRequest (`mistaken`) is excepted until the next write in time.
* `VotesDecideHolds`, `PassedIsCompleteHolds` (SourceVoting). `VotingInv`: a poll that is due takes no more votes,
  so the outcome a closing works with is the ballot's to the end; at each step of a closing what the steps before
  it write stands, whether this attempt wrote it or found it done by one that was cut off.
* `BatchKeepsRulesHolds` (Recommendations). `BatchInv`: what is picked so far keeps the rules (`Picks`,
  `KeepsRules`), and the segments left are the guarded places and those behind them (`SegmentsOK`). The place where
  a segment lands is arithmetic over what came before it; the first place is missing only if its engine has
  run dry (`Dry`).
* `StatsCatchUpHolds`, `TasteHasGroundsHolds` (Statistics). `StatsInv`: a run that began after the last change
  to a meme has found its present rows (`Fresh`), one that began before is over by the third hour; until then
  what changed keeps the meme in a run's list. A merge takes a duplicate's reactions
  away and its refresh counts again under the lock the batches take.
* `BudgetsHoldAlways` (Descriptions). Each attempt has a unit of a counter of its own: `BudgetInv` says that the
  attempts of an account, those on their way included, are at most the units counted under ids that may
  stand for it. `SumOf` is the cardinality of a set of units, so that no sum needs an
  induction. Nothing is assumed of the schedule.
* `DescriptionsLastHolds` (Descriptions), under `[]RunsInTurn`: a run is started every 15 minutes
  (`scripts/serve_flows.py:205`) and ended after 900 seconds (`describe_memes.py:133`). Two runs side by side could
  take the same image, and the failure of one would count against what the other has saved.
* `FiguresGrowHolds` (ChannelStats). `ChannelInv`: while the session is not shared one collector is
  connected, and what it holds of a post is not older than the row.
* `WritesWholeHolds` (DatabaseCalls). The invariant says that an attempt holds the locks of exactly the rows it
  has written, and accounts for each turn of the loop by an error, so that a call that is out
  of turns has met both kinds.
* `PaidOnceHolds` (ChannelPosts). A payment that no two payers raced for has at most one payer between its look
  and its insert, and then nothing is paid yet: one who looks makes the payment raced if another is there. The INSERT
  of the one payer adds a row, or several and the key to `rerun`.
* `NoSecondPostHolds` (ChannelPosts). As long as a run has anything left to do, the row of a logged post
  is recent and not the album's, so that a retry stops at the check. That the row does not age meanwhile is the
  model's assumption that an hour is longer than a run with its retries.
* `PrizesPaidHolds` (ChannelPosts). Place by place an attempt has paid, or found paid, the prizes up to the one
  it is at, each once unless its INSERT was run again; the keys of the places differ, and nobody else pays prizes.
* `AlbumOnceHolds` (ChannelPosts): after the album nothing raises, so only a cut-off leads back before it.
* The type invariant of each service (`PushTypesHold`, `MembersTypesHold`, `VotingTypesHold`, `BatchTypesHold`,
  `StatsTypesHold`, `DescribeTypesHold`, `DbTypesHold`, `PostTypesHold`, `ChannelTypesHold`). They are
  not all shapes: a payer has a payee with a key, a ranked album an author at each place, a row is written at
  most once in an attempt.
* `ServicesCompose`, `TypesOKHolds` (MCServices): a step of the composition is a step of one
  service and leaves the others' variables alone, so its behaviours satisfy the nine specifications.

**The lifecycle of a meme.**

* `TypeOKHolds` (MemeLifecycle), with `JobOK`: a run that is at a meme has one, an upload to be refused
  has its original, and what a lookup by file found is not the meme itself.
* `MergedNotServedHolds`, `LinksSoundHolds`, `LinksFlatHolds` (MemeLifecycle). The inductive invariant is
  the conjunction of the three and the types: the describe flow may make an ok meme the original, whose
  link is absent only because no merged meme is ok, and a merge into a meme without a link keeps the links
  acyclic and flat (`LinkedKeepsAcyclic`, `LinkedKeepsFlat`). Every step is either quiet (it
  leaves the links alone and puts no linked meme in circulation), a merge, or the link of an upload,
  whose lapses say what the lock would have prevented. Acyclicity is stated without recursion:
  every nonempty set of memes has one whose link leaves the set.
* `DescribeKeepsACopyHolds` (MemeLifecycle): the transaction's second look at both statuses and at the
  links is what makes it true, with `MergedNotServed` for a described meme that stays.
* `ReactionsKeptHolds` (MemeLifecycle). A merge moves every row of the duplicate along the new link, or drops it for
  a better one there, and a new link keeps the chains through other memes (`LinkedKeepsChains`); an answer that came in the
  middle is in `lost`. The one way to break a chain is to link a merged meme elsewhere, which the history `lapses` records.
* `AdsStayOutHolds` (MemeLifecycle). `AdsInv`: no pipeline holds, among the memes it has read, an
  advertisement that a promotion could take, and nobody is about to post or deliver one.
* `SupersedesIsAnOrder`, `KeptKeepsTheBest` (Dedup): the ON CONFLICT clause is a strict order on rows with
  any times, and the row that stays is the better one.

Only model-checked: `EveryUpdateEnds`, because liveness under fairness is out of the prover's reach.
Every other property of a passing run is a theorem.

## 6. Not modelled, and the plan

Left open on purpose: which memes the engines prefer within their conditions, captions, keyboards
and media types, the cached counters that decide whether a popup is due (`tgbot/user_info.py`),
logging; in the feed, an UPDATE that `execute` runs again after a lost answer (it then counts no row: the reaction
is stored and the feed does not go on); in the lifecycle, chat reactions, languages, and similarity of texts and pictures.

Not modelled: group chats (single-statement upserts of chat reactions, which nothing else reads but
statistics), the parsers (I/O in front of idempotent upserts; a new post is the lifecycle's `Parse`),
observability and texts, treasury transfers by command and the daily activity reward, the scores computed
from the counts of the statistics (floating-point formulas without a promise to state), and
the weekly report, which only reads.

Next, in this order:

1. The cached counters of `user_info` with the milestone popups, as a read-modify-write beside the feed.
2. Treasury transfers and the daily reward, with the balance as a sum of rows.
3. An abstract specification of the lifecycle (which status may follow which, one live row per
   reader and group of copies), implemented by `MemeLifecycle`.

# toontoon-backend: models, model checks and proofs

TLA+ specifications of the Toontoon backend (FastAPI, PostgreSQL, Redis, object
storage, external image providers), the TLC configurations that check them on
small instances, and proofs checked by TLAPS. Line numbers refer to the
repository at the commit these modules stand beside.

## 1. The system

A request enters FastAPI, is attributed to a user by a session token kept in
Redis, and runs in one database session (`app/db/session.py`) that commits when
the handler returns and rolls back when it raises. The isolation level is
PostgreSQL's default, READ COMMITTED, and no statement in the code selects
`FOR UPDATE`. A handler that awaits (the provider of an image, GPT, Redis,
storage) lets every other handler run. The process is one (the `Dockerfile` starts uvicorn
without workers), and what it calls without awaiting makes all of it wait.

| Component | State it keeps | Operations | What makes it correct |
|---|---|---|---|
| Wallet (`db/repositories/wallet.py`, `services/wallet.py`) | `wallet_balances` row per user, append-only `wallet_ledger` with unique idempotency keys | grant, spend, refund, daily claim, weekly quota, guest transfer; reserve / confirm / cancel | balances are the sum of the journal; every grant applies once; refunds undo charges; subscription first; free tokens never burn |
| Identity and guest sign-in (`services/identity_service.py`, `db/repositories/users.py`, `routers/auth.py`, `routers/profile.py`) | `users`, `auth_identities`, `user_preferences` | guest creation, register, login, OAuth, merge of a guest, deletion | one active account per e-mail and per identity; a guest's work follows the sign-in |
| Sessions and one-time tokens (`services/auth_service.py`, `deps.py`) | Redis keys with TTL: `session:*`, `magic:*`, `reset:*`, `oauth_state:*` | create, read, consume, delete | a token works once; an expired one never |
| Rate limiter (`core/rate_limit.py`) | a Redis counter with TTL per key | hit | at most `limit` hits a window; the window ends |
| Image generation (`routers/generate.py`) | `generations`, `media_assets`, `chat_messages`, objects, the charge | generate | charged if and only if the work is there; a failure leaves a trace and no charge |
| Provider registry (`services/generation/`) | `generation_providers` rows | candidates, run; adapters submit, poll, download | fallback in priority order, each provider once, nothing charged for an outage |
| Video worker (`services/video_gen.py`, `services/generations_service.py`, `services/video_overlay.py`) | Redis generation records and lists, asyncio tasks in memory, files, assets at Cloudinary | schedule, run, caption, refund, notify | every paid job ends DONE or FAILED with a refund; links name files that exist; nothing is left at third parties |
| Generation history (`routers/generations.py`, `db/repositories/generations.py`) | `generations` rows, share ids | list, get, delete, share | deletion erases the file and kills the link; pages neither skip nor repeat |
| Media (`db/repositories/media.py`, `storage/`, `routers/media.py`) | `media_assets`, objects in a bucket | save, deduplicate, delete, serve | no live row without its object; one upload per photo |
| Chat (`routers/chat.py`, `db/repositories/chat.py`) | `chat_messages`, a context marker on the user | send, page, clear | the model never sees what was cleared; both sides of a turn are stored |
| Catalogue (`routers/styles.py`, `db/repositories/styles.py`, `routers/tiles.py`) | `styles`, `shots_schedule`, tiles in code | list, rank, daily shots | liked directions first in our order; every style has its day; what is shown can be opened |
| Prompt building (`services/gpt.py`, `content_gen.py`, `prompt_style.py`, `*_prompts.py`) | none | build prompt, fall back; storyboards of videos | the person's face first; nothing answered is lost; no names, brands or untranslated words; options are understood |
| Push (`services/push_service.py`) | Redis JSON list per user | subscribe, unsubscribe, send | a subscription is not lost |
| Onboarding, events, profile, bootstrap, billing plans | `user_preferences`, Redis event log | upsert, append | last write wins; the log stays capped |

How they interact: `generate` hits the rate limiter (Redis, not rolled back),
charges the wallet, reads the reference photo from storage, asks the registry
for a picture while its transaction stays open, stores the object, and writes
media row, generation row, chat message and charge in the commit. Sign-in runs
the wallet's transfer and moves the guest's rows in one transaction while other
requests of the same guest may still be in flight with the user they loaded
earlier (`deps.optional_context` loads it in a session of its own).

Behaviours that are hard to test, and are listed with their lines under
`hazards` in `PROJECT.json`: requests that overlap on one wallet row, sign-ins
that overlap each other or a generation of the guest, claims that cross
midnight, Redis commands that are atomic one by one but not in pairs, a process
that dies between two of them, a background job whose memory is the process,
a failing step after an external effect (an object already stored), an exhausted
connection pool.

## 2. The modules

| Module | Models | State → code |
|---|---|---|
| `WalletOps` | the arithmetic of `db/repositories/wallet.py`: each function as an operator from a book (rows and journal) to a book | `Row` → `wallet_balances`, `Entry` → `wallet_ledger`, `Keys` → `idempotency_key` |
| `Wallet` | the wallet as requests that do not overlap observe it: one step per operation | `wallet`, `ledger`, `account`, `payment` (what `reserve` handed out), `today`, and the history `claimed` |
| `WalletTx` | the same operations as concurrent database sessions: reads, flushed statements, waits for row and index locks, commit, rollback, the pool; implements `Wallet` when sessions do not overlap | `tx[r]` is one session: its operation, its date, its identity map (`view`), what it would write (`out`) and which of its statements have been executed (`done`); history `stale`, the columns overwritten by, or left beside, a value computed from an older one |
| `Generate` | `POST /api/generate` for pictures with the registry, the photo, the result and the sign-in of three UPDATEs | `req[r]` is one handler, `rows` the committed generation, media and message rows, `enabled` the registry, `signin[g]` a running `merge_guest_into`, `objects` the bucket; histories `tried`, `steady`, `overlapped` |
| `RateLimit` | `core/rate_limit.py` for one key: INCR, EXPIRE, Redis' clock | `count`, `expiry`, `opening` (hitters between the two commands); histories `admitted`, `lost` |
| `RemoteTask` | the adapters that submit a task and poll it: kie.ai's for videos, Kling's for pictures | `task` at the provider, `client` in the adapter, `left` turns before the deadline |
| `Lists` | `Kept(list, S)`: the comprehension `[x for x in list if x in S]` | – |
| `Push` | `services/push_service.py`: a list that is read and written in two commands | `stored` (the key exists) and `subs` under it, the operation `push[x]` with what it read; `Standing`: `webpush()` keeps the process waiting; `alive` at the push service; histories `owed`, `raced` |
| `VideoJob` | a video from the request to the last notification; extends `RemoteTask` and `Push`, whose actions are steps of its task | `request[j]`, `worker[j]`, `record`, `history` (the Redis list), `files`, `assets`, `refunded`, `link`; history `fault` |
| `Accounts` | users, identities, answers, sessions and one-time tokens, every route that signs somebody up, in or out, and deletion | `user`, `identity`, `prefs` (tables), `session`, `token` (Redis), `device` (cookie jar and header), `req[r]` a handler with what it has read; histories `uses`, `shared`, `raced`, `answered`, `ended`, `crossed` |
| `Chat` | `db/repositories/chat.py` and the thread's routes: turns, pictures, Clear, the model's window, pages | `thread`, `marker`, `clock` (transaction start), `talk[c]`, `reader` |
| `Library` | uploads, finished works, deletion, share links, who may open a picture, and the sign-in that moves them; extends `Chat` | `asset`, `work`, `bytes`, `job[j]`; histories `links`, `reshared`, `cutShort` |
| `Prompts`, `Storyboards`, `Catalogue` | the pure functions: what a picture's prompt is made of, what a video tile films, what the shelf shows | – |
| `Studio` | a request to those functions and the language model between them; extends all three | `ask`, `pc`, `calls`, `result`, `negative` |
| `MC…` | constants a cfg cannot write, constraints, symmetry | |
| `WalletOpsProofs`, `WalletProofs`, `WalletTxProofs`, `GenerateProofs`, `VideoJobProofs`, `LibraryProofs`, `AccountsProofs` (also of `RateLimit`), `StudioProofs` | theorems, and the lemmas they rest on | |

`WalletTx` composes with `Wallet` through `Abstract == INSTANCE Wallet` (the
refinement mapping is the identity on the committed variables; histories
`tx` and `stale` are hidden). `Generate` uses the wallet's promise only in the
form "a charge is in the transaction, or it is not"; how charges of different
requests meet on one row is the subject of `WalletTx`.

Operators whose names begin with `Mutant` are plausible mistakes in the
definition that follows them. Nothing uses them; they are there so that one
can check that each property notices the mistake it is about (the pairs are
under `mutants` in `PROJECT.json`).

### Correspondence of actions

- `Wallet`: `CreateUser` – sign-up bonus of guests and accounts;
  `ClaimDailyReward` – `POST /api/rewards/daily`; `Reserve`, `Cancel` –
  `services/wallet.py`; `PromoteGuest` – `transfer_guest_balance` at sign-in;
  `EnsureWeeklyQuota` – `ensure_weekly_quota` and `reset_subscription_quota`;
  `NextDay` – the server's date.
- `WalletTx`: `Begin…` opens a session and takes the date; `Check` is
  `_already_applied`; `ReadRow` is `ensure`; `Execute` is one statement of a
  flush (`Updates` by primary key, then `Inserts` as they were added: `Precedes`); `Conflict` is an `IntegrityError` (caught by `grant` alone);
  `ProviderReturns`, `ProviderFails`, `RecordFailure`, `PoolTimeout` are the
  part of a generation that holds the session; `Commit`, `Close`, `Abort` end
  it.
- `Generate`: `Start` … `Commit` are the handler from the charge to the
  commit, in order; `Queue`, `Provide`, `FallThrough` are `registry.run`;
  `Fail` is `_record_failure` with the rollback; `Abort` is anything that ends
  a handler without an answer; `BeginSignIn`, `MoveTable`, `CommitSignIn`,
  `AbortSignIn` are `merge_guest_into`; `Switch` is an UPDATE of
  `generation_providers`.
- `RemoteTask`: `Call`, `Create`, `CreateFails`, `Poll`, `PollMissed`,
  `Deadline`, `Fetch`, `FetchFails` are the lines of both poll loops; `Work` is
  the provider; an adapter's clock is the number of polls it has left.
- `Push`: `Subscribe`/`Save` and `Unsubscribe`/`Delete` are the two commands of
  each operation (`ReadToDelete`: one that finds no key ends there and writes
  nothing); `ReadList`, `Send`, `Answered`, `DropStale` are `send_push_to_user`,
  `PushFails` a Redis command that raises, `Die` the end of the process.
- `VideoJob`: `Charge`, `SaveRecord`, `ListRecord`, `Schedule`, `Commit`,
  `RollBack` are the video branch of `generate` and the end of its session;
  `Begin` … `Sent` are `run_video_job`, one action per await or external effect;
  `Crash` ends the process.
- `Accounts`: one action starts each route; `ReadToken`, `SpendToken`, `ByIdentity`,
  `FindByEmail`, `ReadPrefs`, `ReadRow`, `…Finds` are its reads, `Flush` its
  statements with the unique keys they may break, `Redis` the session it
  creates before the commit, `Commit` and `Abort` the end of its transaction.
  `NoRow` is a deletion whose session belongs to no row any more.
- `Library`: `Upload`, `Store`, `Delete`, `Share`, `SignIn` start a request;
  `PutObject`, `EraseBytes` act on storage at once, `Flush` and `Commit` on rows.
- `Chat`: `Ask`, `Draw`, `Clear` with `AddMessage` and `CommitTalk`; `Open` and
  `ReadPage` are a person who scrolls back.
- `Studio`: `Home`, `Browse`, `Shots`, `Bootstrap` are the catalogue's screens;
  `WriteStyle`, `WriteBoard` prompts that need nobody; `Consult`, `Refused`,
  `TimesOut`, `Rejected`, `Reply`, `ReplyBoard` are `gpt._call` and its callers;
  `FallBack` is the mechanical builder, the refusal, or the calm video.
- `RateLimit`: `Incr`, `SetExpiry` are the two commands of `hit`, `Lose` a
  connection or process lost between them, `Tick` Redis' clock.

### Abstractions

Identifiers, bytes and wording are model values or absent. Money is a natural
number (the columns are 32-bit integers, which no bonus, price and cap in
`config.py` comes near). A day is a number and the ladder compares days only.
Priorities in the registry are a strict order; rows with equal priority, whose
order PostgreSQL may choose, are one of its instances. In `Generate` one guest
has one sign-in at a time: two of them at once are checked in `WalletTx`. The
refusals of `generate` before the charge change nothing but the rate counter and
are left out.

`Accounts` has one e-mail address and one identity per provider: what goes wrong
goes wrong between two requests of one person. Foreign keys also take a shared
lock on the user's row, which is left out: the model admits more interleavings
than PostgreSQL. Devices are browsers or apps; an app keeps both a cookie jar and a
token. Names are not empty: an e-mail sign-in would fill in an empty one, as it
would a missing one, which accounts do not have (`FindByEmail`).

In `Prompts` a text is a sequence of words, and a prompt a sequence of blocks,
of which the kind and the person's words are kept. Ten words stand for the
lists of the code: each list has one member, the names have two of which one
begins the other. The language model repeats what it was told, translated, and
may add a brand or answer nothing; it obeys when it is told not to write the
greeting. A request for a picture without a word in it is sent to the model as one
for something warm and friendly, a template's as its default words (`Told`). In
`Storyboards` a sound or an occasion that the code recognises by a part of a word
stands for every word that contains it; a description is the key it was found by; the tables
hold the English keys only (the Russian ones are synonyms for an older client).
A tile with a picture template and one with a card template stand for the rest
of their kind.

## 3. What TLC checks

A run takes from a few seconds to four minutes on two workers.

| Run | Bounds | Shows |
|---|---|---|
| `MCWallet` | guest and account on a ladder of two rungs for four days with one payment, or an account with two payments at price 0 or 3, two plans, three days | journal sums, unique keys, honest ladder, the merge, refunds, quota periods, the cap |
| `MCWalletTx_serial` | pool of one connection, guest, account, three days | `ImplementsWallet`: refinement of `Wallet` |
| `MCWalletTx_overlaps` | two overlapping requests, two connections, two guests and an account, one payment, three days | ladder, conservation and single refunds under overlap; only stale writes part balance and journal; a claim fails only when the day is paid; a request that waits for a row, meets a duplicate key or asks for a connection that never comes ends |
| `MCWalletTx_drift` | two requests, one day | **violated**, see findings |
| `MCWalletTx_streaks` | two requests of one account, four days | **violated**, see findings |
| `MCGenerate_providers` | one request, a guest, an account, a photo, a sign-in, three providers switched at any moment | fallback, preference, charge for a work, the owner's photo, why a photo is dropped, an end for every attempt |
| `MCGenerate_signin` | two requests, a guest, an account | works move whole around a sign-in of three UPDATEs |
| `MCRateLimit` | two hitters that may be lost, limit 2, window 3, eight ticks | a window ends unless its opening hit was lost; at most twice the limit in any interval of a window's length |
| `MCVideoJob` | two videos, a call of Kling, two polls, two browsers, three endpoints on lists of two, a history of one, one crash | money, record, files and third parties at the end of a job; the list of subscriptions is what was asked for, but for what two operations changed at once; a job ends, unless a push service never answers |
| `MCAccounts` | three users, three session ids, an app, two requests that overlap, up to five events | one account per address, tokens used once, deletion, answers, logout, and when a sign-in fails |
| `MCLibrary` | two works, two photographs, five requests of which two overlap; four transactions of a thread with pages of two | bytes and rows, links, deduplication; Clear, whole turns, scrolling back |
| `MCStudio` | every wish of two words, every answer to two tiles, every combination of the options of every video tile, shelves of five styles | what a provider is told, what a screen shows |

What a run checks are a few properties, some of them conjunctions whose parts
are defined, each with its own comment, in the same module:

| Property | Parts |
|---|---|
| `Wallet!BucketsKeptApart` | `RefundUndoesCharge`, `OverCapOnlyByRefunds`, `SubWithinPlan`, `MergeConserves` |
| `WalletTx!ClaimsStayHonest` | `TypeOK`, `StreakNotForged`, `ClaimFailsOnlyWhenPaid` |
| `WalletTx!TokensConserved` | `TypeOK`, `DriftOnlyByStaleWrite`, `MergeConserves`, `RefundUndoesCharge` |
| `Generate!QueueInOrder` | `TypeOK`, `EverybodyAsked`, `BestFirst` |
| `Generate!WorksMoveWhole` | `RowsTogether`, `WorkFollowsSignIn` |
| `VideoJob!MoneySettled` | `PaidIsSettled`, `RefundFollowsCharge` |
| `VideoJob!NothingDangles` | `TypeOK`, `LinkIsServed`, `HistoryReadable`, `NothingLeftOutside` |
| `Push!DevicesAsAsked` | `OneEntryPerDevice`, `ListIsWhatWasAsked` |
| `Accounts!RowsSound` | `TypeOK`, `OneAccountPerPerson` |
| `Accounts!AnswersFollow` | `OwnAnswersKept`, `AnswersTravel` |
| `Accounts!GoneIsGone` | `DeletedIsBlank`, `LogoutEnds` |
| `Library!LinksLead` | `DeletedIsGone`, `HandedLinksWork` |
| `Library!OnePhotoOneCopy` | `TypeOK`, `OneCopy`, `ErrorsAreSamePhoto` |
| `Chat!ModelIsTold` | `ChatTypeOK`, `ForgetsOnClear`, `WholeTurns` |
| `Studio!PersonKept` | `FaceFirst`, `NobodyVanishes` |
| `Studio!NothingForeign` | `NamesStayHome`, `BrandsStripped`, `NeverUntranslated` |
| `Studio!AnswersArrive` | `NothingLost`, `AnswersInPlace`, `GreetingNotDrawn` |
| `Studio!AnswersAreHeard` | `OptionsAreHeard`, `SilenceIsKept` |
| `Studio!ShelfInOrder` | `LikedOnTop`, `EverybodyHasADay`, `ShownCanBeOpened` |
| `Studio!EverybodyAnswered` | `TypeOK`, `OnePatience`, an end for every request |

Why the bounds are enough. A lost update needs two sessions on one row, a
double merge two guests and one account, a ladder its length plus a missed day,
a quota two periods, a wait for a second connection as many requests as
connections, a preference three providers (one before it, itself, one after
it), a split work two tables and a commit between two UPDATEs, a burst two
windows. A lost subscription needs two operations on one list, a full list
one more endpoint than it holds, and a subscription that an unsubscription does
not see two browsers; a poll that misses the deadline two polls; a
history that is trimmed two jobs; a page boundary inside a turn two turns; a
link that is replaced two shares. A name inside a name needs two words and a
third behind it; a template three questions; a window that wraps a pool and is
longer than it, six days and five styles. Each run has at least that many.
`MaxDay` (`Wallet`, `WalletTx`) ends the calendar, `MaxTime` and `MaxCount`
(`RateLimit`) the clock and the counter, `Polls` the clock of an adapter,
`MaxEvents`, `MaxJobs` and `MaxClock` the number of requests and transactions, and
each payment or request identifier is used once.

Five runs cut their state space with a CONSTRAINT, defined with its reason in
the MC module, because components that share no variable would multiply:
`MCWallet` looks at the ladder or at plans; `MCWalletTx_overlaps` at an account that climbs
and pays, at a guest who pays and signs in, or at two guests who sign in; `MCVideoJob` at a job alone with
caption and crash, at two jobs (which are alike: one of them comes first), at Kling, at two browsers, at a job
and a browser, or at two jobs and one device;
`MCAccounts` lets behaviours of more than three events use tokens or the quiz;
`MCLibrary` is about pictures or about the thread. Parts that do share a variable
stay together. TLC checks the states at the edge of a constraint but does not go
on from them; in `MCVideoJob` and `MCWalletTx_overlaps`, the ones of these runs with a liveness
property, that edge is reached by a step that is not fair (a start, a sign-up, a
midnight, a crash), or by one outcome of a fair step (a caption, a fault) that has
others on this side, so that no behaviour is stuck at it.

`CHECK_DEADLOCK FALSE` stands where requests, jobs, events or the clock are used
up (`Generate`, `RateLimit`, `VideoJob`, `Accounts`, `Library`, `Studio`). Symmetry
is used in safety runs only.

Fairness. `WalletTx!FairSpec`, `Generate!FairSpec` and `VideoJob!FairSpec` give
weak fairness to the steps of a running request or task, and `Studio!Spec` to the
one request it has: the event loop runs every handler that is ready,
PostgreSQL grants a lock that stays free, provider calls have timeouts
(`httpx` timeouts in every adapter, `kling_poll_timeout`), and waiting for a
connection ends by `pool_timeout`. One call has no timeout: `webpush()`
(`push_service.py:83`), to an endpoint the client named; and because it is not
awaited, the process stands still until it returns (`Standing`). It is not fair
(`Answered`), and `EveryJobEnds` says that each job ends *or* the process
stands still for ever; a job that was lost (`Lost`) is over only if it met one of the
failures below. The liveness of `WalletTx`, `Generate` and `Studio`
presupposes that no such call stands: they do not model notifications.
Nothing else is fair: no request must arrive, no provider must succeed, no day must
pass, no switch must be flipped.
In `WalletTx` a statement that waits for a lock has strong fairness: PostgreSQL
queues the waiters. A video's provider may work for ever, which the polling
deadline of its adapter ends.
In `Generate` the fairness is on the disjunction of a request's steps, so a
provider may fail for ever. What a refused or failed request did is covered by
the safety runs.

### Findings

Two runs expect a violation.

**A balance that is not the sum of its journal** (`MCWalletTx_drift`). Two overlapping requests read the same wallet row and
write constants; the later UPDATE erases the earlier amount while both journal
rows stay. `DriftOnlyByStaleWrite` shows that this is the only way it happens.

**A streak that spans a missed day** (`MCWalletTx_streaks`; `wallet.py:203` against
`wallet.py:173-174`). A claim computes date and streak together, but its UPDATE
names only the columns that changed. With a full wallet, hence without a journal
row whose key would collide, a claim that starts the ladder anew where it read a
streak of 1 stalls over midnight, while the next day's claim commits a streak of
2; then it writes its own date and leaves that 2 beside it. `StreakNotForged`
(`stale` holds the user's streak) shows that this is the only exception.

Everything else that departs from a comment or a document is written into a
property that holds as its exception, so that the run shows that there is no
other; the traces are found by removing the exception.

- *Wallet.* A second claim that overlaps the first is answered with a 500
  instead of nothing (`ClaimFailsOnlyWhenPaid`; `billing.py:84`).
- *Rate limiter.* A hitter lost between INCR and EXPIRE leaves a counter without
  expiry, which no later hit repairs (`WindowEnds`; `core/rate_limit.py:10`).
- *Pictures.* A work under way during a sign-in stays with the guest
  (`overlapped` in `RowsTogether`, `WorkFollowsSignIn`; `auth.py:43-44`). A style
  that needs the photo is drawn without it, and paid for, when the link is not
  `/api/media/…` or nobody who is switched on can edit (`PhotoDroppedForAReason`;
  `generate.py:97-98`).
- *Videos.* `run_video_job` imports `app.services.chat_service`, which is not
  in the repository, before its `try`: without it every job dies with a record
  that stays QUEUED and no refund, against its docstring (`video_gen.py:259`); a
  crash, a failing Redis command or a failing refund end the same way (`fault` in
  `PaidIsSettled`). The task is started
  before the commit of its charge and refunds without asking whether there was
  one: a rolled-back request whose video fails gives tokens away
  (`RefundFollowsCharge`). The comments at `generate.py:144-145` and `:152` say
  that the worker commits the charge before the job and that the client polls
  `GET /api/generations/{id}`, which reads PostgreSQL and does not know the
  record in Redis. An asset stays at Cloudinary when the download of the captioned
  video fails (`NothingLeftOutside`; `video_overlay.py:174`). One bad answer to a
  poll gives up a Kling task that still computes (`ReadyIsFetched`).
- *Push.* Of two overlapping operations on the list one is lost, or one that was
  lost before comes back (`raced` in `ListIsWhatWasAsked`). While a push service
  does not answer, nobody is served (`EveryJobEnds`).
- *Accounts.* A person whose account was deleted cannot come back with the same
  Apple or Google identity, whose row stays (`ErrorOnlyFromOldRows`). Tokens
  read by two requests before either deletes them are accepted twice
  (`SingleUse`). A request that overlaps a deletion writes a name or a password
  back (`DeletedIsBlank`). Logout ends the cookie's session although the header's
  was used (`LogoutEnds`; `auth.py:426` against `deps.py:36-39`). Not properties, but
  visible in the actions: a new password ends no session, deletion ends only the
  session it came with, and magic links and Google's callback fold no guest in.
- *Library.* A guest and an account that uploaded the same photo cannot be
  merged; of two overlapping uploads one is told that the image cannot be read
  (`ErrorsAreSamePhoto`). Bytes are erased before the row (`NoBrokenScreen`).
  Two overlapping shares leave one dead link (`HandedLinksWork`).
- *Thread.* A page that ends inside a turn loses its question (`ScrolledBack`).
  The model is told at most ten rows, not the twenty of the setting, nor ten turns
  (`gpt.py:439`), and a picture's row in the window leaves an answer without its
  question (`WholeTurns`). So would odd limits (an odd `chat_context_messages` of
  at most ten): nothing in the code forbids them.
- *Prompts.* A tile's template never carries the demand to keep the person's
  face, although a photo may be edited with it (`FaceFirst`), nor are brands
  stripped from it (`BrandsStripped`). Names are replaced in the wish only, and
  by the mechanical builder not at all (`NamesStayHome`; `prompt_style.py:503`).
  The paraphrases of some names contain no living keyword, so that a superhero is
  drawn with "no people, no characters" (`NobodyVanishes` names the ones it
  holds for). A question skipped moves later answers into its place
  (`AnswersInPlace`; `tiles_data.py:21-22`), and the mechanical builder drops the
  wish of a picture tile (`NothingLost`). Drawn styles get a negative of their own
  only on the catalogue's path, against `prompt_style.py:145-149`. A greeting in
  Cyrillic that will not be drawn still causes the refusal.
- *Videos' words.* `Studio` lists the questions no builder reads (`Unread`) and
  the options no table knows (`Unknown`): among others all three questions of
  `animate_pet`, all four subjects of `inspiring_video`, and the occasions
  "Jubilee" and "New Year", which film a birthday (`AnswersAreHeard` shows that the
  lists are exact, whatever else is answered). Free text for a video and a tile's own words are not
  translated without the model. JSON of another shape than the one asked for ends
  the job (`ReplyBoard`).
- *Catalogue.* A liked style behind three screens is not lifted (`LikedOnTop`),
  and the cold start (`app_meta.py`) does not lift any, against
  `repositories/styles.py:3-6`. The day's window moves by its own length, not by
  "one step a day" (`:82`). A schedule may show a style that cannot be opened
  (`ShownCanBeOpened`).

## 4. What TLAPS proves

For every set of users, requests, providers, jobs, pictures, prices, plans, ladder, cap,
limit, deadline and window allowed by the named assumptions of the modules:

| Theorem | Says |
|---|---|
| `WalletProofs!TypeCorrect` | rows keep their types; no bucket is overdrawn |
| `WalletProofs!BalanceRederivable` | operations that do not overlap keep balance = journal |
| `WalletProofs!IdempotencyKeys` | no sequence of operations repeats a key |
| `WalletProofs!LadderEarned` | a streak is as long as the days claimed in a row |
| `WalletProofs!BucketsApart` | `BucketsKeptApart`: a refund undoes its charge, the cap is passed by refunds only, a plan's bucket stays within the plan, merges conserve |
| `WalletProofs!FreeTokensStay` | `FreeNeverBurns`: free tokens leave a wallet by a charge or a merge only |
| `WalletTxProofs!DriftNeedsAStaleWrite` | overlapping sessions part balance and journal by a stale write only |
| `WalletTxProofs!HonestClaims` | under overlap and midnights no day is paid twice, no streak is forged but by the exception of the findings, and a claim fails only when the day is paid |
| `WalletTxProofs!ConservedTokens` | overlapping sign-ins, charges and cancellations neither create nor destroy tokens |
| `WalletTxProofs!OneAtATime` | with one connection the sessions implement `Wallet` |
| `AccountsProofs!SoundRows` | one active account per address; rows keep their types |
| `AccountsProofs!TokensSpentOnce` | a one-time token works once, unless two requests read it before either deletes it |
| `AccountsProofs!ErrorsHaveACause` | a sign-in fails only for an overlap or a row of an ended account |
| `AccountsProofs!AnswersFollowThePerson` | the answers of a guest are the account's after the sign-in; an account keeps its own |
| `AccountsProofs!EndsStay` | a deleted row stays blank and a logged-out session ended, but for overlaps and crossed credentials |
| `GenerateProofs!ChargeBuysWork` | a committed charge comes with a whole, stored work |
| `GenerateProofs!WorksStayWhole` | the rows of a work no sign-in overlapped have one owner |
| `GenerateProofs!WorksFollow` | a sign-in leaves no such work behind |
| `GenerateProofs!WorksMove` | both together, the property `WorksMoveWhole` of the runs |
| `GenerateProofs!EverybodyIsAsked` | `QueueInOrder`: everybody who could have made the picture is asked, in order, once |
| `GenerateProofs!PhotosAreUsed` | `PhotoDroppedForAReason`: a style that needs a photo gets it, if it is ours and somebody can edit |
| `GenerateProofs!PhotosStayTheirs` | `OwnPhoto`: a work no sign-in overlapped belongs to the owner of the photo it was made from |
| `VideoJobProofs!VideosAreSettled` | `MoneySettled`: a paid video is delivered or given back, never both, before anybody is notified, but for the failures nothing answers |
| `VideoJobProofs!VideosAreFetched` | `ReadyIsFetched`: what a provider made is not given up before the deadline |
| `VideoJobProofs!VideosDangleNothing` | `NothingDangles`: link, preview, record and history of a video lead somewhere; nothing stays at Cloudinary |
| `VideoJobProofs!ListIsKept` | `DevicesAsAsked` of `PushSpec`: however many browsers and notifications overlap, no device is listed twice, the list keeps its limit and is what was asked for, but for what two operations changed at once |
| `VideoJobProofs!DevicesAreKept` | videos implement `PushSpec`, hence the same of `VideoJob` |
| `LibraryProofs!PicturesAreThere` | `NoBrokenScreen`: a live row has its bytes, or a deletion told storage first |
| `LibraryProofs!LinksStayHonest` | `LinksLead`: links lead to their works, and nothing deleted can be seen |
| `LibraryProofs!OneCopyEach` | `OnePhotoOneCopy`: an owner has one row of a photograph, and only the same photograph makes a request fail |
| `LibraryProofs!ReadersSeeTheThread` | `ScrolledBack`: who scrolls to the end has seen what was there at the start, but for questions cut off from their answers |
| `LibraryProofs!ClearForgets` | `ForgetsOnClear`: what Clear was pressed on is not told to a turn that begins after it, whatever the limits are |
| `LibraryProofs!WholeTurnsAreTold` | `ModelIsTold`: with even limits the model is told whole turns, but for the first answer of a thread with pictures |
| `AccountsProofs!LimiterTypes`, `EveryWindowEnds` | a counter's expiry is never further away than a window; a counter has an expiry, or a hitter about to set it, unless a hitter was lost |
| `AccountsProofs!TwiceTheLimit` | `TwicePerWindow`: no interval as long as a window admits more than twice the limit |
| `StudioProofs!PersonStays` | `PersonKept`: in an edit the block that keeps the person is first, and nobody who asked for a living subject gets a scene without people, but for the cases named |
| `StudioProofs!ForeignWordsStay` | `NothingForeign`: no name of another's character, no studio and no word the provider cannot read is sent, but for the cases named |
| `StudioProofs!AnswersAreDrawn` | `AnswersArrive`: answers are in the prompt, each in the place of its question; a greeting is not drawn |
| `StudioProofs!AnswersAreFilmed` | `AnswersAreHeard`: of every combination of answers to a video tile exactly the listed ones are without effect; silence is silence |
| `StudioProofs!ShelfKeepsOrder` | `ShelfInOrder`: for a shelf of any length, liked first and our order within; every style of the pool has its day within one turn; what is shown opens |
| `StudioProofs!PatienceHolds` | types, and at most one timeout waited for: the safety half of `EverybodyAnswered` |

*Assumptions.* `WalletAssumption`, `WalletSystemAssumption`, `WalletTxAssumption`, `AccountsAssumption`,
`GenerateAssumption`, `RemoteTaskAssumption`, `VideoJobAssumption`,
`LibraryAssumption`, `ChatAssumption`, `RateLimitAssumption`, `StudioAssumption`,
`GreetingAssumption`, `TypedAssumption`: guests and accounts are disjoint,
pictures are works or photographs and not both,
absent values are not values, amounts are natural numbers, a ladder is a
sequence of naturals, a period and a window last at least one unit. The last three
say what is in a request: the catalogue's own words are Latin, a video's questions
are answered with the options of the tile except where one may type, and a
greeting or a typed word is told apart from the other words of its request (about
a greeting "cat" on a picture of a cat, "the greeting is not drawn" says nothing).

*Wallet.* `WalletOpsProofs` shows once for each operator that it takes a
balanced book (`OK`: typed rows, typed journal, balances equal to journal sums)
to a balanced book. The journal sum is a recursive function over the journal,
about which the lemmas say how one appended row changes it. The invariant is
`IInv == Sound /\ RewardInv /\ StreakEarned /\ KeyInv`. `KeysUnique` is not
inductive: most operations never look their key up, so one must know *why* the
key cannot be there: `KeyInv` ties each kind of key to the row or the payment
that would forbid a second one (a daily key to `last_reward_date`, a spend key
to the payment's price, a bonus to the existence of the account). `StreakEarned`
needs `RewardInv`: the last claim is the latest claimed day and no later than
today. What is true of money rather than of rows is a second invariant on top of
it, `MoneyInv`: sums of the journal by *kind of key* (`KeySum`), which the lemmas
compute for each operator. The refunds of a user never sum to less than nothing,
the two halves of the merges sum to nothing, a refund key means that there was
something to give back, and a user who is not there has nothing in the wallet;
without the last two `OverCapOnlyByRefunds` and `RefundUndoesCharge` are not
inductive.

*Overlapping sessions.* The invariant of `WalletTx` has five parts. `Committed`
is about the rows everybody sees. `Lifecycle` is about one session: until it has
read its rows it intends nothing, then it intends exactly what the operation
makes of the rows it read (`Computed`), and at its commit it has executed every
statement of that. `Knows` says what a session may rely on however old its
reads are: the keys it inserted are still free, its payment is still its own, a
claim that met a conflict has been paid, and a streak it read was earned.
`Apart` says that no two sessions have executed the same statement, and the last
part that no more are open than there are connections. `ResultEffect` says once
what a session intends, as a book made from an empty journal; the commit adds
that to the committed rows column by column (`OverlaidRow`), and a column that
was not stale when it was written is the balance the journal gives.

*One at a time.* The refinement holds for one connection only: that is the
theorem's hypothesis, and the two violated runs show why. `SerialInv` adds to the
invariant that the open session is alone: the rows it read are the committed
ones (`Fresh`), or it found nothing to do (`Stopped`), the users it acts for are
still there (`Entitled`), and at most one midnight has passed since it took its
date (`DateOf` is Wallet's date: the session's, else the server's). Every step
but the commit and the close is a stutter. At the commit, `Follows` relates
operation by operation what the session made of its own copy to what Wallet
makes of the committed book; the close is Wallet's midnight if one has passed.

*Accounts.* The invariant says of each table what its rows mean (`RowOK`,
`OneAddress`, `IdentityOK`, `SessionsOK`, `TokenOK`) and of each request three
things: what it knows for certain (`Knows`), what it knows as long as nobody has
committed since it read (`Believes`), and what the locks of its flushed
statements guarantee (`Holds`, `Apart`). `TokenOK` counts the requests that are
about to spend a token: one at most, until two have read it.

*Generate.* The invariant relates each running sign-in to the rows it has
moved (`Tracked`: what it moved was its guest's, and of the works that nothing
overlapped it missed none in the tables already done), and each request to the
sign-ins (`Undisturbed`: a request that is not marked as overlapped has a user
who is not signing in). At the commit of a sign-in both together say that all
rows of a work move or none. `Queues` adds what a request knows of its providers
and its photo. A provider that is able all the time (`Able`) has been asked or is
in the list that is left, and the one list after the other is in order
(`Asked`): asking moves the border between them. That the list is right to begin
with is `QueueIs`, from what the two comprehensions compute (see *Subscriptions*;
`Lists` is used by both, and by `Prompts`, `Storyboards` and `Catalogue`). `OwnPhoto` is not inductive: a photo and the works made
from it move in different UPDATEs of a sign-in, so `Taken` says which photos a
sign-in has moved and `Owned` follows the photo from the request's user to the
owner of its work.

*Videos.* `PaidIsSettled` says something of jobs that are over; the invariant
says for every place in the task what record and refund may be (`Books`): nothing
is written before the video is made or given up, a failure is written down after
its refund, and a task has a record. That a refund never precedes the decision
about its charge comes from the row lock (`Open = {}` in `Refund`). `Adapter`
relates each adapter to its provider: a video's adapter gives up a task that may
still get ready only with no time left. No step but `Begin` and `Render` moves
an adapter, so `OwnJobOnly` reduces the other fifteen to their own job. `Papers`
says the same of what the job leaves behind: which files exist and what the link
names at each place in the task, and that something stays at Cloudinary only
while the caption is laid on, or after a fault. The history can be read because
the record was written first and nothing takes one away (`Shelf`).

*Subscriptions.* Every step of `VideoJob` is a step of `PushSpec` or leaves the list alone
(a crash is `Die`), so the invariant is shown of `PushSpec` once. `Devices` says of an operation that the list it has read was a
proper one (`Proper`: no device twice, no longer than the limit); a device that
is not `raced` was on it exactly if it is on the list still, so the list that is
written back is right about it. What the comprehension computes (`KeptIs`: the
members of `S`, each at its place, in their order) is an induction over the
list. The library's induction theorems cannot be instantiated, but its
well-foundedness theorem can: `LeastElement` takes the shortest prefix for which
the claim is false.

*Library.* The invariant says what each request knows of the picture it is about
(`Knows`): one that creates works on a row and an object nobody else has
(`Apart`), a deletion that told storage is about bytes that are gone, a share
that nothing overlapped is about a work still without a link. `Whole` and
`Leads` are the two properties per picture and per link. `CommitRows` says once,
kind by kind, what a commit does to the rows; every other step leaves them alone.
`OneCopyEach` needs a second invariant on top of it: a request that has executed
its INSERT or UPDATE holds the key it will commit, no two of them hold the same
one (`KeysApart`), and what such a request found free is free still (`Knocks`).

*The thread.* `Library` is built on `Chat`, so its theorems are about all steps of
both. The two rows of a turn are written in one transaction, share its `created_at`,
which no other transaction has (the model's clock, a transaction's start, ticks
with each of them), and the question has the lower id: the thread is
always `Paired`, so is what a request is about to commit, and no two requests
write the same ids (`Distinct`). What ORDER BY ...
LIMIT returns is said by rank: a message is on a page exactly if fewer than the
limit are newer (`Page`, `Ranks`). In a paired thread without pictures the
number of messages newer than a question is odd and of those newer than its
answer even, so an even limit never separates them (`TellsWholeTurns`). That is
why `WholeTurnsAreTold` assumes that `Kept` is even and `Window` even or
larger; `chat_reply`'s 10 and the default of 20 satisfy it, and with `Window = Kept = 3`
TLC finds an answer told without its question. *Clear* leaves the rows and
moves a marker: `Forgets` says that what was there is older than the marker,
because the marker's clock was read after them. For the reader `Scrolls` says
that a message of the start is seen, or older than the cursor, or a question
whose answer ended a page: the cursor is the time of the page's oldest row, and
the question has the same time as its answer.

*Rate limiter.* `LimiterTypeOK /\ WindowEnds` is inductive: the exception for a lost
hitter is part of the property. `TwicePerWindow` needs `Windowed`: a counted key was
opened at some time from which on it has admitted no more than the limit, lasts a
whole window from there (EXPIRE counts from its own, later moment), and the
stretch of a window before it holds one limit at most. `admitted` is a running
total, so that a sum over an interval is one subtraction.

*Studio.* A behaviour is one request, so the invariant is short: `Progress` says
how far the attempts have come (whoever still waits has not run into a
timeout), `Outcome` which operator computed what a request ended in. The
properties are then about those operators, for a text, a tile and a shelf of any
length. What `StripBrands`, `Answered` and the parts of the shelf keep is `KeptSet`
(see *Subscriptions*); `Assembled` and `FilledIs` say which blocks a prompt
consists of and which comes first. `NeutralizeIp` is a scan from left to right: `Neutral`
follows it word by word (`Scanned`: what has been written is a paraphrase or a
word of the text that no name covers), and `ModelWords` and `HandWords` trace
each word of a prompt to where it came from. That the
model's prompt is made of words it was told is what `Replies` allows it: a model
that invents words is outside these theorems.
For the shelf, `RankedIs` says that liked styles come first and both parts keep
their order, `PoolIs` and `RotationIs` say which styles of the pool are shown on
which day, and `Turn` that the windows of
as many days as the pool has styles meet every place of it. For the videos
`SlotTells` says which answer a slot of a scene takes and `Laid` what is laid over
it; one lemma for each tile then compares its options with its tables.
The scan and what a comprehension keeps are recursive functions; where the
library's theorems about these take an operator, `Recursion` (a function defined by
recursion on `0..n` exists and satisfies its equation) and `UpTo` (a set that holds 0
and is closed under successor) are proved from the least element instead.

Only model-checked: the liveness properties `EveryRequestEnds`, `EveryAttemptEnds`,
`EveryJobEnds` and the second half of `EverybodyAnswered` (liveness and `ENABLED` are out
of the prover's reach). Every invariant and every action property of a passing run is a
theorem.

## 5. What is not modelled

The components and the reasons are in `PROJECT.json`. Outside the models are:

- what has no state and no choice: the app key middleware, settings, the engine's
  start, headers and certificates, the exchange with Apple and Google;
- data and wording: image decoding and resizing, the texts of prompts, templates
  and instructions (their order and the words of the person in them are
  modelled), the transformation string of the overlay, `ffmpeg`, the migrations
  and the scripts run by hand;
- the event log (`routers/events.py`): one atomic pipeline that appends to a
  capped list nothing in the program reads, behind the modelled rate limiter;
- what no request reaches: `services/boostify.py`, `routers/webhooks.py` and
  `routers/tiles.py`, which `main.py` does not include;
- the pages of the history of generations, which only read, and the polling
  client of a video, which is told 404 whatever happens.

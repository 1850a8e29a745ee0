# Warsaww in TLA+

Warsaww is a web application that searches events and places in Warsaw. A FastAPI backend (several
replicas, synchronous handlers in worker threads) stores everything in Postgres and counts requests
in Redis; a CronJob per source feeds the catalogue; a Next.js frontend streams search results and
keeps optimistic state in the browser. This directory holds TLA+ modules of the parts whose
correctness depends on order, overlap or failure, the TLC configurations that check them, and proofs
checked by TLAPS.

## How to run

    tlc -workers 2 -config accounts_serial.cfg MCAccounts    # any .cfg of the table below
    tlapm Accounts_proofs.tla                                # all proofs of a module

## Inventory of the system

| Component | State it keeps | Operations | Interacts with | What makes it correct |
| --- | --- | --- | --- | --- |
| Accounts and sign-in (`api/auth.py`, `auth/*.py`, `catalog/models.py: User`) | the `users` row (login, password, Google id, verified flag, pending email, two codes with counters), the signed session cookie | register, login, second factor, verify, resend, PATCH and DELETE `/me`, Google callback, logout | mail provider, Google, every other component through `current_user` | one way in; a verified address was proven; codes are single-use and capped; a password alone never passes two-factor; addresses belong to one account |
| Friendships and shares (`api/social.py`) | directed `friendships` rows, `shared_events` rows | request, accept, decline, remove, share, dismiss | accounts (cascade of account deletion), saved items of friends | one relation per couple; friends only by mutual wish; shares between friends; no row outlives its user |
| Presence (`api/social.py`, `lib/social.ts`) | `last_seen_at` | ping, read | heartbeat of the page | a time window only |
| Hearts (`api/saved.py`, `UserContext.tsx`, `saveGuard.ts`) | `saved_items` rows; in the page the set of saved ids, a generation per card, an epoch per session | toggle, load, late answers, login, logout, account deletion | accounts | a failed or late answer never undoes a newer click nor leaks into another session; page and server agree once answers are in |
| Ingestion (`ingestion/pipeline.py`, `dedup.py`, `runner.py`) | `items` rows, their `sources` list and embedding | fetch, deduplicate, merge, embed, upsert; one CronJob per source, overlapping with the others' | source adapters, embeddings, adjudicating model | an item is one card; what was fetched stays on record; a card whose embedding failed keeps its vector, and no vector lands on another card |
| Source adapters, taxonomy (`ingestion/adapters/*`, `taxonomy.py`, `wikidata.py`) | none | fetch pages, normalise | external feeds | paging ends |
| Search stream (`api/routes.py`, `llm/rerank.py`, `lib/api.ts`, `app/page.tsx`) | the query log row; the page's list of cards and current request | gate, quota, intent, embedding, log, search, stream, re-rank, abort | rate limit, retrieval, models, the pool of connections | each card at most once, all candidates when the re-ranker fails, every search settles, an old stream never writes into a new search, no connection is held across a model call |
| Retrieval (`retrieval/search.py`) | none | filters, two rankings, reciprocal rank fusion | Postgres | fusion is a total order that respects agreement; an exact name is kept |
| Intent and embeddings clients (`llm/*`) | none | calls with retries | external services | bounded retries, vectors line up with texts |
| Rate limits (`ratelimit.py`) | Redis counters per session and day, per address and minute | count | Redis, clock | at most the limit is admitted; counters expire |
| Attachments (`api/files.py`) | `user_files` rows | upload, list, download, delete | accounts (the lock on the user's row, the cascade), row-level security | the per-user limit holds under parallel uploads; no file outlives its account; a stored file is reported |
| Avatars (`api/avatars.py`) | `user_avatars` row, `users.avatar_url` | upload, remove, serve | accounts, Google sign-in (it writes the URL too), the browser's cache | the URL a profile shows is served, and with the newest image; requests do not deadlock |
| Row-level security (`main.py`, `auth/deps.py`) | the transaction-local `app.user_id` | set per request | every handler that commits | a handler never reads its own rows without its identity |
| Schema bootstrap (`main.py`) | DDL steps, each its own transaction | start of a replica, the admin's migration, `create_all` of a job | database, requests that meet a migration | who serves has the whole schema; everyone gets there |
| Status page, observability, configuration, deployment | none of the program's own | | | |

The hard behaviours are the same everywhere. A handler loads rows, decides on its copy, and commits
later under READ COMMITTED, so other requests commit between its steps; a process may die between a
commit and what follows it (a mail, an embedding, an expiry); answers reach the browser late or out
of order. Where more than one row is written, row locks are held to the COMMIT and two requests may
wait for each other. `PROJECT.json` lists these hazards at the lines where they bite.

## Modules

| Module | Models |
| --- | --- |
| `Orm` | what `session.commit()` writes: the columns that differ from the ones loaded |
| `Accounts` | the account endpoints |
| `AccountLife` | the abstract specification of an account: opened, proven, linked, closed, each in one step |
| `MCAccounts` | symmetry and the sets of endpoints of the configurations |
| `Accounts_proofs` | theorems about `Accounts` |
| `Friends` | friendship and share endpoints, and account deletion's cascade |
| `FriendLife` | the abstract specification of friendships: ask, agree, decline, end, leave |
| `MCFriends` | symmetry |
| `Friends_proofs` | theorems about `Friends` |
| `Hearts` | the hearts of one page, and the endpoints of the saved items |
| `MCHearts` | symmetry |
| `Hearts_proofs` | theorems about `Hearts` |
| `Uploads` | attachments and avatars by statement, with row locks; deletion of the account and Google sign-in as far as they touch the same rows |
| `FileDrawer` | the abstract specification of attachments: a drawer per account, put, take, empty |
| `MCUploads`, `Uploads_proofs` | the instance for TLC; theorems |
| `Retrieval` | reciprocal rank fusion as operators on two lists |
| `Search` | the search handler, its event stream and the page that reads it; extends `Retrieval` |
| `CardStream` | the abstract specification of a stream: open, bring a card once, end |
| `MCSearch`, `Search_proofs` | two prompts and their rankings; theorems about `Search` and `Retrieval` |
| `Quota` | the two limiters in Redis, command by command |
| `MCQuota`, `Quota_proofs` | limits and the day of the clock change; theorems |
| `Ingest` | a run of the pipeline step by step, any number of them overlapping |
| `MCIngest`, `Ingest_proofs` | names, scores and pages; theorems |
| `Bootstrap` | `_create_schema` by transactions, jobs, outages and requests of the serving role |
| `MCBootstrap`, `Bootstrap_proofs` | the instance for TLC; theorem |

### Accounts

`rows` and `status` are the `users` table, `cookie` the session cookie of each browser (`uid` is
`user_id`, `pend` is `pending_2fa`), `req` the request each browser has in flight, `mailed` what the
mail provider delivered, `expired` the codes whose time is over. `proven`, `misses` and `uses` are
history variables; no guard reads them.

A handler is two or more actions. The first loads the row and decides: its guard is the conjunction
of the handler's early returns, its effect a request record with the row it loaded (`snap`) and the
row it will write (`tgt`). `ProbeVerify` and `ProbePatch` are the query of `_email_taken`; `Commit`
is `session.commit()`, which applies `Orm!Flush` to the row as it is then and fails
(`CommitFails`) when the row is gone or a UNIQUE column clashes; `Insert` and `InsertRefused` are the
INSERT of a new account; `Issue` is the re-read between register's two commits; `Mail` sends the
code, which may not arrive; `Reply` sets the cookie. The step that ends a request sets the cookie or
does not (`Replies`): the process may die, or the connection be lost, after the COMMIT and before the
browser has the answer. `Crash` ends a request between any two steps.
Passwords are right wherever the handler asks for one: a wrong one changes nothing. A code and its
expiry are one value, because the code sets and clears them together. Name and picture are left out:
no rule depends on them. The attempts that the auth rate limit refuses are requests that do not start.

### Friends

`edge` maps an ordered pair to its row (UNIQUE on requester and addressee), `shares` is
`shared_events`, `req` the requests in flight with the rows they read, `live` the accounts. A
DELETE with a WHERE clause is one action; an INSERT, or the UPDATE of a row read before, is a second
action (`CommitInsert`, `CommitAccept`, `CommitShare`). The UPDATE finds its row by primary key, so
rows carry ids that are never reused. A decline is one DELETE and is answered "declined" whatever it
finds (`Declines`); after the accept has committed it finds nothing, and the friendship stands.
`wants` records each user's last word about another, `unheard` the declines that came too late in
this way, `raced` the couples for which a row was inserted after what the request had read changed. Reads, presence
and the text of a share are left out.

### Hearts

`saved`, `gen`, `epoch`, `user` and `leaving` are the page: `savedIdsRef`, `saveGeneration` (0 where
the map has no entry), the epoch of `saveGuard.ts`, the signed-in user, and whether `logout` awaits
its answer. `server`, `live` and `cookie` are the backend and the session cookie. `heart` has one
record per click and `load` one per sign-in: what they captured (`was`, the generation, the epoch, the
snapshot `start`), whether the server carried them out, and whether the answer was handled. A
request is three steps: sent (`Click`, `SignIn`), carried out (`HeartServed`, `LoadServed`) and
answered (`HeartAnswered`, `LoadArrives`, `LoadRejected`), and those of different requests mix freely;
a request that is answered without having been carried out was refused or lost. One that the page
gives up and the server carries out afterwards is left out: the properties except lost requests anyway. `late`, `crossed`,
`retired` and `early` are history. The dialog that deletes an account covers the hearts, so the
deletion is one step; the effect that mirrors `savedIds` after it is part of that step.

### Uploads and FileDrawer

`files`, `avatar` and `url` are the rows of `user_files` and `user_avatars` and the column
`users.avatar_url`; `locks` the row locks of open transactions, with PostgreSQL's modes as far as the
handlers take them; `cached` a browser's copies of `GET /avatars/{id}?v=...`. An action is one
statement: it waits while a lock it needs is held (`Blocks`), keeps its locks (`Acquire`) and lets go
at COMMIT or rollback (`Release`). `CountFiles` is `SELECT ... FOR UPDATE` with the count, `RefuseFile`
the 409, which keeps the lock until the session is closed, `StoreFile` INSERT and COMMIT, `ReplyFile` the `session.refresh` after it; `UpsertAvatar` and `LinkAvatar` are the
two statements of an avatar upload, `RemoveAvatar` and `UnlinkAvatar` those of a removal, `EraseUser`
and `CascadeUser` the DELETE of the account and of what depends on it. The ORM writes `avatar_url` only
when it differs from the value loaded when the request began (`Relinked`): this is what makes two
overlapping requests interesting. `Timeout` is the statement timeout or the deadlock detector,
`Crash` the death of the process. A request refused before its first lock does not start, so sizes,
types, `_sniff` and the re-encoding of images are left out. The upload handlers are coroutines and
run on the event loop of their replica, so two of them overlap on two replicas; the other handlers
have threads. `Stalls` is what follows for a 409: a waiting upload stops its event loop, and the
session of the refused one cannot be closed there until the wait is over. `last`, `rushed` and `raced` are history.

### Search, Retrieval and CardStream

`run` is what the server has of each search, `wire` the frames between it and the page, `page` the
state of `app/page.tsx`. A search waits for a connection (`Connect`), passes the gate, asks the quota
(whose counting is `Quota`; here it just allows or refuses), and goes through `ParseIntent`,
`EmbedQuery`, `LogIntent` and `Find`; each may be followed by steps of another search, the page being
left, or a failure. `OpenStream`, `RerankLine`, `RerankEnds`, `RerankFails`, `SendRest` and `Finish`
are `event_stream` with `rerank_stream`. A model's answer is any of its outcomes: on or off topic, a
vector or none, any order of picks, an end at any point. `Submit` and `Leave` abort the response the
page read; `Break` is an exception, a crash or a broken connection, which may lose frames: the reader meets an
error (`Broken`), or a response that just ends, or one that stays silent (`CutOff`), in which case the
page goes on waiting. The status line and body of a refusal are one frame, and so are `done` and the
end of the response: no step of the page comes between them that the properties tell apart.

`Retrieval` gives a card `1/(K + rank)` per list it is on, as a fraction so that comparing is exact.
The lists are those Postgres returns after the filters; ties fall in any order in `Ties`.

### Quota

`counter` is Redis: per limiter and period, as it is written in the key (a day, a minute), the count and
whether an expiry is set. `Label` says which periods are written alike: the minutes of the hour that comes
twice the night the clocks go back, for `%H-%M` has no offset. `call` is a request in
`check_search_quota` or `check_auth_rate`: `Begin` makes the key from the clock, `Incr` and `SetExpiry`
are the two commands, `RedisFails` an error before or after the command took effect, `Crash` the
death between the two, `Gone` the expiry. `Resend` is a client that sends INCR again when the
connection is lost after it took effect, up to `MaxResends` times: the call then counts twice and may miss
the first hit. How often redis-py does so by default depends on its version, so the number is a constant;
the theorems hold for any, 0 included. `Early` names the days on which the seconds to
midnight, taken from wall-clock time, are an hour short. When a minute comes again, an hour later, the
calls of the first one are over and so is its expiry of 60 seconds (`Over`); only a counter without
expiry is still there. Callers never share a key, so one caller stands for all.

### Ingest

`cards` is `items` by its unique key (source and source_url): the normalised name, the block, the run
whose text it has (`rev`), the text its vector was computed from (`vec`) and `sources`. `job` is the
run of each source: `Start` is `fetch` with the snapshot of the catalogue, `Dedup` one turn of the
loop of `deduplicate`, `CommitMerges` `_apply_merges` with its COMMIT, `Embed` one batch, and
`UpsertEmbedded` and `UpsertRest` the two upserts; `Refused` is the statement Postgres rejects because
two of its records have one key; `Crash` ends a run anywhere. `normalize_name` and the fuzzy score are
data: a table gives the score of two names, and the adjudicator may say yes, no or fail. `alone`,
`folds`, `report`, `blind`, `torn` and `unsaved` are history. The list of refs is a set: a url repeated
in one batch puts the same ref on the list twice, which no reader tells apart. The block of a stored card
is the record's. `dedup.py:57` computes it from `starts_at` as read back from the database, which is
the same for the starts in UTC that Ticketmaster and Facebook give; the fixtures, demo data, are in
local time, and one that starts soon after midnight is compared with the day before.

### Bootstrap

`schema` is what is committed, `proc` where each process is in its steps (extensions, `create_all`,
columns, indexes, constraints, policies). A step is a transaction in two halves, the look (`Check`)
and the DDL with COMMIT (`Create`); the policies come with locks taken in the order opposite to a
request's (`Lock`, `Read`, `Answer`). An OperationalError is retried up to `Retries` times
(`Retried`), any other error ends the process, and it is started again. The objects are grouped by step.
A starter is a process that runs `_create_schema`: a developer's replica, or the admin's migration. The
replicas in production have `DB_BOOTSTRAP=false` (`deploy/cloud/k8s/30-api.yml:67`) and serve without a
look at the schema (`main.py:239`); for them completeness is up to the order of the deployment.

## Runs

| Configuration | Question | Bounds |
| --- | --- | --- |
| `accounts_serial` | do the endpoints, one request at a time, keep addresses proven, and passwords behind the second factor? | 2 users, 2 addresses, 2 browsers, 3 codes, cap 1, crashes and lost replies |
| `accounts_codes` | can a code be guessed past its cap or used twice, one request at a time? | 1 user, 2 addresses, 2 browsers, 3 codes, cap 1, crashes and expiry |
| `accounts_races` | what survives when two requests overlap, also on one account? Does the refinement hold? | 2 users, 2 addresses, 2 overlapping requests, 2 codes, cap 1 |
| `friends_races` | what survives when two friend or share requests overlap with deletions? | 3 users, 1 item, 2 overlapping requests, 2 inserted rows |
| `hearts` | do late answers and loads leave newer clicks and other sessions alone, and do page and server agree afterwards? | 2 accounts, 1 card, 4 clicks and sign-ins together |
| `uploads` | does the file limit hold, is what a profile shows served and fresh, who can deadlock, and is everybody answered? | 1 user, 2 workers, limit 1, 2 files, 2 images, 2 clock readings |
| `search` | does the page get its own search's cards, once each and all of them; does it settle; who can hold up whom? | 2 prompts, 3 cards, `Limit` 2, 1 connection, 2 searches, 2 frames in flight |
| `quota` | does the limit hold, is nobody refused too early, and when does a counter stay for ever? | 2 limiters of 1, 3 calls, INCR sent twice, 3 periods: for the search one day is short, for sign-in the third is written like the first |
| `ingest` | what do overlapping and dying runs leave in the catalogue? | 2 sources, 3 urls, 3 names, 2 blocks, batches of 2, 4 runs |
| `bootstrap` | does whoever serves have the whole schema, and does everyone get there? | 2 starters, 1 job, 2 attempts, 1 outage, 1 request that meets a migration, 1 restart |
| `friends_double_row`, `uploads_reply` | the violations below | as small as the counterexample allows |

Why the bounds are enough.

* Accounts: the rules relate one row to one other claimant of an address, one challenge to one other
  cookie, and one pending request to one other commit, so two of each reach every case; three codes
  let an address code, a login code and its successor exist in one behaviour. The expiry of a code is
  left out of the two-user runs to keep them small; it only takes codes away.
* Friends: a couple of users has rows in two directions, and two inserted rows allow both directions,
  or a row withdrawn and asked for again while an accept is in flight; the third user shows that other
  couples are not disturbed.
* Hearts: cards do not affect one another (the generation, the row and the heart are per card), so one
  is enough; four turns allow three clicks in one session, where the count of a card restarts, and two
  clicks around a change of account.
* Uploads: no handler touches another user's rows. Two workers are what a lock, an overtaken request
  and a deadlock need; with a limit of one the second file is the one too many; two images and two
  clock readings allow a new version and two uploads within a second.
* Search: the second search is the one an old stream could write into, and the one that waits for the
  only connection. Three cards with a limit of two make fusion drop one, and on the first prompt the
  first cards of both legs tie below a shared one, so that either may be dropped; each stream can fail
  before, between and after its cards.
* Quota: with a limit of one the second call is the first to be refused, and the third meets what the
  others left; a third period is needed for a minute that comes again after another.
* Ingest: losing a ref takes a run whose snapshot is older than the write-back of another, and noticing
  it takes a completed report before, so three or four runs of two sources are needed; the pages
  (`Listings`) repeat a name across sources and within a page, rename a card, give one url two names
  and hold a name that is all noise. Simulation over all pages of one or two records with seven runs
  found nothing else.
* Bootstrap: two starters race for each step, one job interleaves with both, and one outage or one
  request in each phase uses up an attempt.

The theorems below hold without any of these bounds. Symmetry over users, addresses
and browsers is used only in runs without liveness, and no property names a particular one. Every run
sets CHECK_DEADLOCK FALSE: counters such as codes, rows and runs are bounded, and a behaviour that
used them up may stop.

### Fairness

The account, friend, heart, quota and ingestion modules assume none: a request or a run may always die
there, and nothing has to happen. The others assume what runs the code, never that a client comes back:

* `Uploads!Fairness`: a thread goes on with its statement, or PostgreSQL cancels a wait after
  `db_statement_timeout_ms` (`db.py:21-23`), and a refused upload closes its session unless the event
  loop is stopped (`Stalls`). Under it every request is answered (`Answered`).
* `Search!Fairness`: handler threads run, the pool hands a free connection on, and the page handles
  what arrives. It says nothing of the models: `ConnectionServed` holds even if none ever answers.
  `PageSettles` assumes in its own statement that the models' answers end (`ModelsAnswer`), as clients
  have timeouts and answers `max_tokens`, and leaves out a response cut short without an error
  (`Silenced`), for which nothing helps.
* `Bootstrap!Fairness`: a process that can go on does, and one that died is started again
  (`restart: unless-stopped`, the kubelet); the database comes back. Requests that meet a migration
  are bounded by `MaxReads`: an unending supply of them could use up the attempts of each start.

### Properties that say most

* `VerifiedEmailProven`: a verified address was proven by a code mailed to that very address, or by
  Google. It fails when a PATCH overlaps another PATCH or a resend.
* `SecondFactorGuards`: whoever becomes signed in to an account that keeps two-factor on has used up
  the code mailed for it.
* `OneWayIn`, `TwoFactorNeedsVerified`, `NoStaleRollback`: survive every overlap. The last one rests
  on the column-wise UPDATE of `Orm` (a whole-row write breaks it).
* `ImplementsAccountLife`, `ImplementsFriendLife`: the endpoints are atomic from the outside.
* `OneRowUnlessRaced`, `FriendsBothWant`, `SharedWithFriends`: hold except for couples where an
  INSERT rested on an outdated read; the condition is exact, and the next section shows it is needed.
  `FriendsBothWant` lets a user's no go unheard in one case, a decline that was sent when the request was
  no longer pending: friends are then those who said yes, or whose no came by the wrong door.
* `Agreement`: page and server agree about a card once its requests are answered. The conditions are
  what the code does not cover, each found as a counterexample: requests on one card that overlap (the
  server may carry them out in the other order), an answer lost after its request was carried out, a
  click while signing out, and the two ways a stale load wins (below).
* `AnswersYieldUnlessRestarted`: a failed answer yields to newer clicks and to a load that settled the
  card. The exception is a count that started again: the failure of a newer click deletes the entry,
  the next click gets a number the older request carries, and the older failure reverts it.
* `SignedOutEmpty`: the hearts of a session that is over stay away, except for a click between the
  click on logout and its answer, whose failure comes with the current epoch.

* `ShownIsServed`, `CacheFresh`: the avatar a profile links to exists, and the browser's copy under that
  address is the newest, except after an avatar request that committed over a change it had not seen,
  or two uploads in one second (the version is the time in seconds).
* `DeadlockNeedsErase`: avatar and file requests take their row locks in one order, so in any set of
  requests that all wait for one another, a circle of any length, one is the deletion of an account,
  which takes them the other way round. `Answered` says the timeout resolves it.
* `ConnectionServed`: no connection is held while a model is asked or a stream is written.
* `Complete`: when the page says done it has what was sent, and after a failure of the re-ranker
  every candidate.
* `ExactNameSurvives`: the card first by name stays among the candidates unless `limit` cards may go
  before it: those on both lists, which score higher, and the first by vector, which scores the same
  and may win the tie. The proof found that tie; an earlier form, which counted the shared cards
  only, is false.
* `NoEarlyRefusal`, `LeaksOnlyByFailure`: whatever calls leave behind, nobody is refused before the
  limit is used up in periods written alike, and a counter without expiry needs a failure at the one
  moment between INCR and EXPIRE, or an INCR that was sent twice.
* `PageSettles`: every search ends for the page, whatever fails on the server, as long as the response is
  not cut off without an error.
* `NoTwins`: similar cards of one block are left only by runs that overlapped, however runs were cut off
  before (`blind` are the cards written by a run that no longer saw the catalogue as it was).
* `Recorded`: what a completed run fetched is a card or a ref on a card. The two exceptions are exact:
  a list written back from an old snapshot (`torn`), and a ref folded into a record whose card exists
  already, where the upsert leaves `sources` alone (`unsaved`).
* `ServesComplete`, `BecomesReady`: tolerated errors, races for the same step, outages and deadlocks
  never let a replica serve half a schema, nor keep it down for ever.

## Where the code and its documents disagree

Two violation runs show places where a line of the repository says otherwise (`PROJECT.json`,
"findings"):

* `friends_double_row`: two users who ask each other at the same time get two rows, and
  `scalar_one_or_none` raises for the couple until a row is deleted (`social.py:182`).
* `uploads_reply`: the row of a stored file is refreshed after the COMMIT, in a transaction without
  `app.user_id`; a role that row-level security binds gets an error for a file that is stored
  (`files.py:159`).

Also seen, without a run of their own.

* Accounts, with overlapping requests: PATCH or resend leave one request's code beside another's
  pending address (`auth.py:83` against 280); wrong guesses are counted once (`auth.py:276`); two
  requests are accepted by one code; a counter is written after its code was cleared; two-factor is
  turned on for an account that a Google sign-in linked meanwhile.
* Accounts, one request at a time: an email change pending when the account is linked to Google is
  confirmed afterwards (`auth.py:288` against 71). A Google sign-in that verifies an account leaves the
  code of its registration stored.
* Hearts: a failed click drops the mark an earlier successful one had left for the load, and a body
  read before both takes the heart off (`UserContext.tsx:161` against 52). A load that finds a heart
  switched on and off again retires its generation, and a refusal of the second click is then not
  reverted; `Agreement` excludes both (`retired`, `early`).
* Friends: a decline that arrives after the accept (the same user's, from another tab, say) is answered
  "declined" and the friendship stands (`social.py:226-234`). The inbox labels every sender a friend, also after the friendship ended; a share checked
  before a removal may be inserted after it (the second disjunct of `SharedWithFriends`).
* Avatars: a removal that loaded no address clears none, so one that overlaps an upload can take the
  image and leave the address (the `raced` of `ShownIsServed`; docs/ORM.md:86 excludes it). Two uploads in
  one second have one address, and a browser may keep the first image (`rushed`; the comment of
  `avatars.py:92` says otherwise). A Google sign-in replaces the address of an uploaded avatar, whose image stays.
* Uploads: while an upload waits for the user's row its event loop stands still, and with it the close of
  the refused upload that holds the row, if it runs there; the statement timeout ends it (`files.py:141-145`).
* Search: the server ends every stream with `done` or an error, but a response that a process or a proxy
  cuts without an error, or a silent connection, leaves the page busy, since `streamSearch` just returns
  (`api.ts:97`, as docs/SEARCH.md:194 warns; docs/EVAL_QA.md:421 has it that "the spinner never hangs"). The
  re-ranker's limit of ten is part of its prompt and not enforced by the code (docs/ALGORITHMS.md:452).
  "An exact name match must survive" (`search.py:86`) holds under the condition of `ExactNameSurvives`.
* Ingestion: two records of one `source_url` in one batch, which `dedup.py:14-16` leaves to the upsert,
  make the statement fail and lose the whole upsert (`Refused`). A ref folded into a record whose card
  exists is not stored (`unsaved`), overlapping runs write a list back from an old copy (`torn`) or insert
  two cards of one event (`blind`), although `dedup.py:13` says that a duplicate is recorded on the card.
  A record that matches a card of another url is merged and no longer upserted, so its own old card, if
  it has one, is not refreshed any more, though docs/INGESTION.md:256 says "always".
* Rate limits: on the day the clocks go back the search counter expires an hour before midnight
  (`ratelimit.py:19-21`), which is the exception in `Bounded`, and a minute of sign-in attempts is
  written like the one an hour before (`ratelimit.py:45`), whose counter, if it has lost its expiry, goes on.
* Bootstrap: replicas that start together on an empty database may kill one another's first attempt,
  since a duplicate object is no OperationalError; the restart finds it.

The runs pass with all of these, because their properties name them as exceptions or, for the overlaps
on one account listed first, because `VerifiedEmailProven`, `AttemptCap`, `SingleUse` and
`SecondFactorGuards` are checked with one request at a time; `PROJECT.json` says so at these hazards.

## Proofs

All theorems hold for every value of the constants under the modules' named assumptions (the bounds
are natural numbers, `None` is no value of the other sets, thresholds and limits are positive, and in
`Quota` that the calls are finitely many). A result with a further hypothesis (the `Apart` ones of
`Accounts_proofs` and `BothLegsComeFirst`) says so below.

`Accounts_proofs`: `TypeCorrect`, `ExactlyOneWayIn`, `TwoFactorVerified`, `NothingRollsBack`,
`EndpointsImplementLife`, `AccountsMoveOnward`, `AddressesAreUnique`, `VerifiedMeansProven`,
`GuessesAreCapped`, `CodesAreSingleUse`, `NobodySkipsTheSecondFactor`. None of the properties is inductive alone, because a request may hold an
old copy of the row. `IInv` adds two relations: a live row is never earlier than the copy a request
holds (`Later`), and what a request will write differs from its copy only in ways that are right on
top of any later row (`Change`). `Flush` preserves `RowOK` under these two, which is the lemma the
commit step rests on.

`VerifiedMeansProven`, `GuessesAreCapped`, `CodesAreSingleUse` and `NobodySkipsTheSecondFactor` hold of
the behaviours in which no two requests on one account overlap (`[]Apart`), and have to be stated so:
with two under way on one account each of these properties is false, as the section above tells. Any
number of requests on other accounts may overlap with it, registrations and first sign-ins with anything.
So whatever goes wrong with codes takes two requests on the account it goes wrong for, and handling
the requests on one account one after another would be enough. `SInv` says that the row a request loaded is still the row and that
what it will commit is right for the rows, the mail and the counters as they are (`Requests`); that a
code held by a row is held by no other, was never accepted, has no more misses than its counter shows,
and can only have gone to the address it would confirm (`SafeRows`); that requests about to commit to two
accounts share no code (`CodesApart`); and that codes not yet issued were never mailed or tried
(`Unissued`). Each step has two parts: the request that takes it, and the others, which keep their rows,
codes and cookies (`OthersKept`). Only COMMIT, DELETE and the mail need `Apart`. The second factor follows
for a single step from the same invariant. With `MaxInFlight` at most 1
the hypothesis holds trivially, so `accounts_serial` and `accounts_codes` check instances of these theorems. TLC
also checked `SInv` on behaviours kept to `Apart` with two requests under way (2 users, 2 browsers, 2
codes) before it was proved.

`AccountsMoveOnward` and `AddressesAreUnique` are promises of `AccountLife` that the refinement hands down:
an account's stage never goes back, an address changes only with a proof, and two live accounts never
share one, whatever overlaps.

`Friends_proofs`: `AcceptsTheRowRead`, `NoRowOutlivesItsUsers`, `OneRowPerCouple`,
`FriendshipIsMutual`, `OnlyFriendsReceive`, `EndpointsImplementFriendLife` and, handed down from
`FriendLife`, `FriendshipIsAgreed`: a new friendship uses up a request that stood until then. `IInv` says that ids
below `nextId` identify a row: an accept that finds its id again updates the row it read, hence the requester still asks.
`WantsInv` says that an undisturbed couple has one row that goes with what both want or said too late
(`Willing`), and that an INSERT is prepared only for a couple without rows. `SharesOnFriends` says that a request to share has
read an accepted row of the couple, which is still there unless something happened to the couple since.

`Hearts_proofs`: `HeartsTyped`, `GuardsHold`, `SignedOutShowsNothing`, `AnswersYield`,
`PageAgreesWithServer`. `EpochInv` says that whatever carries the current epoch belongs to the session the page shows (or is a click
during logout), which makes `SignedOutEmpty` inductive. `GenInv` says that the generation of a card is
past every click in flight that has a newer click or was settled by a load, until another failure
restarted the count; an answer that passes `Current` has its generation, so `AnswersYield` follows.
`PageInv` is for `Agreement`, card by card. On a card nothing disturbed (`Calm`) at most one request is
under way, and it is the session's; once the load arrived or a click succeeded (`Sure`) heart and
server differ by that request at most. Until the load is done (`BeforeLoad`) a card with requests that
were not refused has a generation past the one the load began with, so the load leaves it alone, and a
card whose requests were all refused has none, so the load decides. A step that disturbs a card shows
in the flags of its requests, so a card calm after a step was calm before it (`CalmBefore`) and its
requests are as they were; this leaves one short case for each action.

`Uploads_proofs`: `CountIsRight`, `NothingOutlivesItsAccount`, `OnlyErasureDeadlocks`,
`ProfilesAreServed`, `CachesAreFresh`, `AttachmentsImplementDrawer`. `IInv` says that locks of two
workers never clash and that an upload past its count has the user's row to itself and room for one
file. `HolderInv` adds which locks a request holds in each phase: who erases an account holds its row,
and who links an avatar holds a lock the cascade has to wait for, hence no row is inserted for an
account that goes. `OnlyErasureDeadlocks` follows from the order of the locks: apart from a deletion,
a request that others wait for and that waits itself links or unlinks an avatar, and whoever stands in its
way is storing an image and waits for nobody, so a set of requests that all wait contains a deletion. `VersionInv` says that versions and cached addresses never run ahead of the last
upload, from which the freshness of caches follows.

`Quota_proofs`: `OnlyFailuresLeak`, `AtMostTheLimit`, `RefusedOnlyAtTheLimit`. `Numbered` says that
calls of one current period have read different numbers off the counter, so at most `Limit` of them
are within it; `AllBacked` that the counter is never ahead of the number of times calls raised it (`Hits`). `Underway` says that a
call raises a counter once more at most while it counts, and that who is about to set the expiry was the
first to raise it.

`Bootstrap_proofs`: `WhoServesHasAll`. `AllSound` says that a starter at step n has everything the
steps before it create committed, extensions included from `create_all` on, since nothing drops it.

`Ingest_proofs`: `VectorsAreOwn`, `VectorsAreKept`, `FetchedIsRecorded`, `TwinsNeedOverlap`. `Typed`,
`AllCards` and `AllJobs` say what a job holds in each step: canonical records of its own page with
vectors of their own text, and merges into cards of its snapshot. `AllRec` follows a ref through a
run: it is in the job's merges or canonical records while the loop runs, and after the commit in a
canonical record or on a card (`Known`), which no later step takes away unless it goes into `torn`
(`Grows`). `AllApart` is for `NoTwins`: the canonical records of a run are pairwise apart, and as
long as no other run overlapped also apart from every other card, so a run that stayed alone adds no
twin. That the loop picks a best match whenever there is one needs a maximum of a finite set, which is
proved by halving its range, because the induction theorems are out of reach.

`Search_proofs`: `SearchTyped`, `OwnCardsOnly`, `DoneIsComplete`, `ExactNamesSurvive`,
`SearchImplementsStream`, from it `StreamsGrowWhileOpen` and `PageRepeatsNoCard`, which are promises of
`CardStream` (it only appends, and never a card that is there), and for legs of any length `FusionSorts`, `FusionRespectsAgreement`,
`BothLegsComeFirst`. `Feed` says that the cards the page shows and those on the wire after them are the
cards the server sent, that a `done` comes after all of them and that only an error follows an end;
every step of server, network and page keeps it, hence the first three and, with the phases of a run,
the refinement. The fused list is defined by counting who comes before whom: `BeforeOrders` shows
that this is a strict total order and `Places` that each place is taken by one card, by comparing the
cardinalities of injections, without an induction over the list. The rest is the arithmetic of
scores: a card that no leg ranks lower than another is before it, and since `Pool` is at most `K` + 1
twice the lowest score of a leg is above its highest, so the cards of both legs come first, as
docs/ALGORITHMS.md:255 says.

Only model-checked are `Answered`, `ConnectionServed`, `PageSettles` and `BecomesReady`: liveness
under fairness, out of the prover's reach. Every invariant and action property of the runs is proved.

## Plan

Done: `Accounts` over `Orm`, refined to `AccountLife`; `Friends`, refined to `FriendLife`; `Hearts`;
`Uploads`, refined to `FileDrawer`; `Search` over `Retrieval`, refined to `CardStream`; `Quota`,
`Ingest`, `Bootstrap`.

All safety properties of the runs are proved. Left:

1. The four liveness properties, for which the prover has no rule.
2. The `Apart` theorems account by account: that requests which overlap on one account leave the
   properties of all others alone needs histories kept per account instead of per code.
3. The hearts on two tabs of one browser, where the cookie is shared and the page is not.

## Not modelled

* Presence: one unconditional UPDATE of a timestamp and a window when it is read.
* Source adapters and taxonomy: parsing of feeds and keyword tables, without state; `Ingest` takes what
  they return as pages. Their paging and retries end by a counter.
* Reads that change nothing: lists, profiles, downloads, `/upcoming`, `/ready`, the status page.
* Prompts, schemas and the back-off of the model clients; only their outcomes are.
* Image and file checks (`_sniff`, `_process_image`): functions of the bytes, before the first lock.
* The conditions of the row-level policies, which repeat the handlers' WHERE clauses; what is modelled is
  the identity that ends with the transaction, and how the policies are created.
* Row locks between an upsert and a merge of two runs: a deadlock there ends a run, as `Crash` does.
  The pool's own timeout likewise ends a search as `Break` does.
* SQL execution and vector indexes, frontend pages other than the search page and the hearts, styling,
  logging, metrics, configuration, deployment files: pure I/O, configuration or other systems' code.

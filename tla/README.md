# A TLA+ model of the gacha system

This directory is a formal model of the repository in `src/`: a NestJS backend
(Postgres through Prisma, Redis, BullMQ, MinIO) with a player's and an
administrator's Next.js application. TLC checks the modules on small instances;
TLAPS proves the most important results for every instance. The code is the
reference for every definition, and `PROJECT.json` names the lines each one
stands for.

## The system

### Components, their state and operations

| Component | State it keeps | Operations | Where |
|---|---|---|---|
| Pull service | rows of `users`, `gacha_logs` | `pull`, `pullBulk` | `backend/src/gacha/gacha.service.ts` |
| Item cache | Redis key `event:<id>:items` with a TTL | `getEventItems`, `invalidate` | `backend/src/gacha/gacha-cache.service.ts` |
| Items, administration | rows of `gacha_items`; objects in MinIO | create, update, remove, image upload and removal | `backend/src/admin/admin-items.service.ts` |
| Events, administration | rows of `gacha_events`; objects in MinIO | create, update (activation), remove, images | `backend/src/admin/admin-events.service.ts` |
| Users, administration | rows of `users` | create, overwrite coins, role and ban, remove, list | `backend/src/admin/admin-users.service.ts` |
| Authentication | refresh token hash and expiry in `users` | register, login, refresh, logout; guard per request | `backend/src/auth` |
| Admin feed | BullMQ queue, an in-process subject, open streams | emit, process, stream | `backend/src/queue`, `admin-history.controller.ts` |
| System configuration | a map read at start | get, getAll, set | `backend/src/system-config` |
| Listing | none | cursor pages over history and users | `backend/src/common/pagination.ts`, `users`, `admin` |
| Statistics | none | counts, leaderboard, rarities | `backend/src/admin/admin-stats.service.ts` |
| Player's client | localStorage, one refresh promise per tab | `apiFetch`, sign-in, sign-out | `frontend-user/src/lib` |
| Summon page | selected event, items, coins, pending reveal, timers | pull, reveal, skip, dismiss | `frontend-user/src/features/gacha` |
| Object storage | objects in a MinIO bucket | upload, get, remove | `backend/src/storage` |
| Events page | the list, an event form, an items dialog, a confirmation | load, toggle, save, delete | `frontend-admin/src/features/events` |
| Users page | rows and a cursor, a search, dialogs | search, load more, ban, edit, create, delete | `frontend-admin/src/features/users` |
| History page | the live list and its EventSource; pages of history | connect, listen, load more | `frontend-admin/src/features/history` |

### How they interact

A pull reads the event from Postgres and its items from the cache, which fills
itself from Postgres; it then deducts and records in one interactive Prisma
transaction, and afterwards hands one job per draw to the feed queue.
Administrators write items and events with check-then-act sequences outside any
transaction and delete the cached list afterwards. Removing an account, item or
event counts its history first and deletes in a second statement, while foreign
keys cascade or restrict. Every request passes the JWT guard, which reads the
account's row. The browser retries a 401 after exchanging its refresh token,
with one exchange in flight per tab and one localStorage for all tabs.

A draw's job goes from the queue to a worker, which publishes it to whatever
streams are open; an administrator's page listens through an EventSource. Images
are objects in a bucket with their key in the row, written one after the other.
The pages start requests from clicks and effects, cancel none of them, and write
each answer into their state when it arrives; a summon's answer is held back
until its reveal has played.

### What is hard

- **Interleaving.** Handlers are asynchronous and every `await` lets another
  one run: pulls of one account, pulls against removals and overwrites,
  administrators against each other, two refreshes of one token.
- **Failure between steps.** A transaction rolls back; a write is done and its
  invalidation is not; a commit takes effect and nobody hears of it; the answer
  to a refresh is lost after the token was rotated.
- **Stale reads.** A cache fill overtaken by a write; an event deactivated after
  it was read; a refresh decided on an old copy of the row.
- **Ordering and delivery** in the feed, in the pages' overlapping requests and
  in the reveal's timers.
- **Crashes** between commit and emission, and under the feed's worker; two
  stores, bucket and table, that share no transaction.
- **Handlers that outlive their dialog**: a save that is answered after its form
  was closed, a confirmation that stays open while its row changes.
- **Boundaries**: the bulk limit, the balance that pays for some of the draws,
  totals at exactly 100, the roll at a prefix-sum boundary.

`PROJECT.json` lists each hazard at its line, with the properties that cover it
or the reason why none does.

### What makes each component correct

- Pulls: balances never negative; money and history change together or not at
  all; bulk pulls are all or nothing; a history row never loses what it refers
  to, and leaves only with its account; the feed tells only what happened; every
  pull ends.
- Cache and totals: the cached list is stale only for a reason the code leaves
  open; totals go wrong only by a race or an allowed removal.
- Sessions: a refresh token is exchanged once and never comes back; a replayed
  call acts once; a waiting call waits for a refresh that is under way.
- Feed: every draw is shown or lost in a way the code leaves open; none is shown
  twice but by a job that ran twice; the stream opens again after a broken
  connection.
- Images: a row has its object and an object its row, except where a failure, a
  removal of the row or a lost race between steps leaves it otherwise.
- Pages: what is displayed at rest is what the server holds; nothing is shown
  early, created twice, changed without the confirmation, or left spinning.

## Modules

| Module | Models | State and actions |
|---|---|---|
| `PullLedger` | what a pull promises, without requests, caches or locks | `Draw`, `SetBalance`, `DropUser` on accounts, balances and history |
| `GachaPull` | `pull`, `pullBulk` and the administrator's operations on the same rows | one program counter per request, one action per `await`; row locks are read off the counters |
| `EventItems` | one event, its items, the cached copy, readers and administrators | readers and administrators are tasks with a step; one action per `await` |
| `AuthSession` | one account's refresh token and one browser | a server handler per refresh or login, a promise per tab, a step per call |
| `ImageStore` | items' and events' images in bucket and row | a task with a step per request, one action per `await`, a clock for the keys |
| `AdminFeed` | a draw's way from the commit to the administrator's page | emissions, queue, worker, stream and list; crashes and broken connections |
| `GachaPage` | the player's summon page | fetches under way, the pull, the pending reveal with its timers, what is displayed |
| `EventConsole` | the administrator's events page | dialogs, running handlers, loads under way, the server's table |
| `UsersConsole` | the administrator's users page | rows and cursor, search timer, loads, handlers, dialogs, the server's table |
| `GachaPullProofs`, `EventItemsProofs`, `AuthSessionProofs`, `ImageStoreProofs`, `AdminFeedProofs`, `GachaPageProofs`, `EventConsoleProofs`, `UsersConsoleProofs` | theorems about these modules; what several need of sequences (`Removal`) is proved in each | |
| `MCGachaPull`, `MCEventItems`, `MCAuthSession`, `MCImageStore`, `MCAdminFeed`, `MCGachaPage`, `MCEventConsole`, `MCUsersConsole` | instances for TLC: definitions for constants, symmetry | |

### GachaPull

A request goes through `Receive` (the bulk limit), `LoadEvent` (the event must be
active now), `GetItems` or `RefuseItems` (the list the cache answers with),
`Deduct` (the guarded UPDATE), `CreateLogs` (the INSERT with its foreign keys),
`Commit` and `EmitPulls`. `pull` is `pullBulk` with a count of one and without
the limit, whose check a count of one always passes. `Fail` ends a request at any step with the transaction rolled
back; `CommitUnheard` is a commit whose answer is lost.

The database is Postgres at READ COMMITTED. An uncommitted transaction is visible
only through its locks: the balance row from the UPDATE on (`BalanceLocked`), the
referenced event and items from the INSERT on (`ItemShared`, `EventShared`).
Prisma's `updateMany` is one guarded UPDATE, which waits for the lock and judges
the row as it finds it then. The history rows cascade from the account and the
event; a delete of an event cascades to its items first, where the RESTRICT of
`gacha_logs.item_id` stops it if there are rows.

Abstracted: names, rarities, dates and the choice among items, which may be any
item of the list; which list the cache answers with, which may be any non-empty
subset of the items the event ever had (what the cache really answers is
`EventItems`' subject); rows are identified by their request and draw, and
coinsSpent is the price for all of them, since the price cannot change while the
server runs.

### EventItems

A reader goes through `FindEvent`, `GetCached`, `FindItems`, `SetCached`,
`Return`. An administrator's request starts with what it asks for, reads the
event (`ReadEvent`), checks the siblings (`CheckSiblings`, `CheckActivation`),
writes (`WriteItem`, `WriteLabel`, `WriteActive`, `WriteRemoval`) and invalidates
(`Invalidate`). Any request may die between two steps (`ReaderFails`,
`AdminFails`); `Expire` is the TTL. `label` is one value for everything else the
list shows (names, rarities, image keys). Two history variables record why
something went wrong, `stranded` for the copy and `drifted` for the totals; no
guard reads them. The id of a removed item never comes back, as UUIDs do not
(`ids`). That items with history cannot be removed is `GachaPull`'s subject.

### AuthSession

An access token and the refresh secret issued with it are one numbered pair. The
server reads the row and checks it (`Login`, `CheckRefresh`), and writes it in a
later step (`Issue`), as the awaits of `bcrypt` and Prisma leave it.
`Handle` is `apiFetch` on a 401: it joins the tab's refresh or begins one.
`Refreshed`, `RefreshRefused` and `RefreshLost` settle the promise and release
every waiting call in the same turn of the event loop (`Settle`); a lost
connection leaves the handler running in the server. `SignOut` only clears
localStorage, as the navigation bar does; `Logout` is the endpoint. Bounds: each
call is made once and each login happens once, so the pairs are at most
1 + |Calls| + |Logins|; the type invariant states it, and with it that a call
refreshes at most once.

### ImageStore

`uploadImage` of items and of events are the same step for step, and so are the
two `removeImage`: read the row and make a key (`Upload`, `RemoveImage`), put the
object (`Put`), remove the old one (`Drop`), write the row (`Write`). `Fail` ends
a request at any step; `RemoveOwner` is the removal of the item or event, which
leaves its object. A key is the owner's id and the millisecond, so two uploads in
one millisecond share a key: `Tick` is the clock. Files are taken to be of one
type. `GetImage` is the public read. Histories record why something went wrong:
`collided`, `broken`, `lost`.

### AdminFeed

A committed pull begins one emission per draw (`Pull`), each of which adds a job
(`Emit`) or is logged and given up (`EmitFails`). The worker takes a job, the
processor publishes it to the streams open at that moment, BullMQ removes it
(`Take`, `Publish`, `Complete`). A crash of the backend ends emissions, subject
and streams and leaves the worker's job behind; BullMQ lets it run once more, and
fails it the second time (`Recover`; `maxStalledCount` is its default of 1). The
stream is authorised when it opens (`Admit`, `Refuse`), subscribed to
(`Subscribe`), and delivers in order (`Deliver`); the page keeps the newest
`MaxLive`. An EventSource connects again after a broken connection, with the
token of its URL. Any answer but 200 closes it for good: a refusal, or an error
though token and account are good, because the lookup of the account rejects or
a throttle or a gateway answers instead (`RequestFails`). Left out: the rate
limit, which only delays `Take`, and a worker that loses its job's lock while it
lives.

### GachaPage

`useGacha`'s state, one variable each, with the effects that React runs when
their dependencies change taken together with the change. `loads` holds the
unanswered requests for an event's items, in the order they were made; they are
answered in any order. A pull is `Pull`, `Serve` (the backend's part, which
`GachaPull` models), and `Answer` or `Fail`; an answer is applied at once, or
becomes the pending reveal. `RunSequence` is `useRevealSequence`'s effect: it
cleans up the timers and sets the new ones, again whenever skip, speed or reduced
motion changes; `Fire` is one timer. Rarities are sets of the tier words their
text contains, which is all that `matchRarity` looks at, so a text with several
or none is covered. What can be clicked in each state is `View` and `Ready`.

### EventConsole and UsersConsole

Each click runs a handler, a task with a step that goes on after its dialog is
closed. In `EventConsole` every successful handler loads the list again; a form
is saved by one request for the row and another for its image, and `onSaved` or
`onChanged` is reached only after both; a list that no longer has the event or
the item of an open dialog or row takes it away (`Rerender`). The server's rows
hold an event's status, its items and its *look*: names, dates, rarities, rates
and images of the event and its items as one value, which an edit or an image may
set to any (`Change`), so that a list asked for before an edit differs from the
server's. Which requests refuse a rate is `EventItems`'s; here any request may be
refused (`Failed`). A handler's request and its answer are one step.

In `UsersConsole` rows are patched in place, pages are appended or replace the
list, and a typed search loads after a delay; the cursor's page is
`pagination.ts`'s. The server's part of a request and its answer are separate
steps. The order of accounts, by `createdAt`, is taken as total: two accounts
made in one millisecond, whose order is the database's, are left out.

In both, `Settle` answers the one confirmation and `Escape` closes what a key
closes; an open dialog covers the page, so only its own controls can be clicked;
requests and loads may fail. Both bound the handlers started (`MaxClicks`) and the loads
under way; no dialog opens when no click is left.

## Runs

| Run | Instance | Shows |
|---|---|---|
| `pull` | 2 requests of one account, 1 event, 2 items, 1 administrator; price 2, balance 5, counts 2 and 3, bulk limit 2, overwrite to 3 | all properties of `GachaPull`, that it implements `PullLedger`, and that every pull ends |
| `pull_history` | 2 requests, 1 account | **violation**: history is not append-only |
| `items` | 2 items, rates 50 and 100, 2 labels, 1 reader, 2 administrators, failures | staleness and drift only for the known reasons |
| `items_cache` | 1 administrator, no failure | **violation**: the cache is not exact |
| `items_totals` | rates 40, 60, 100, 2 administrators, no failure | **violation**: a live event's total goes wrong |
| `auth` | 1 tab, 2 calls, 1 other login | tokens exchanged once, calls act once, nobody waits for nothing |
| `auth_tabs` | 2 tabs, 1 call each | **violation**: one token exchanged twice |
| `page` | 2 events, one of them linked; a balance of 2, price 1, bulk count 1 and 2; two rarity texts, 2 speeds, 2 item requests under way | what is shown is what was pulled, not before its time; pulls and reveals end |
| `console` | 2 events, 2 items, 2 drafts, 2 looks, 2 handlers at once, 3 clicks, 2 loads | the list ends up current after every kind of change; no duplicates, no unconfirmed deletions |
| `users` | 2 accounts, page size 1, 2 searches, 2 handlers at once, 2 clicks, 2 page requests | pages join, rows are current, changes are as confirmed |
| `images` | 1 owner, 3 requests, 3 milliseconds, failures | bucket and row agree but for the known reasons |
| `feed` | a bulk pull of 2, a list of 2, 2 crashes, 2 broken connections | draws arrive, repeats only by a stalled job, the stream returns unless refused or answered with an error |

Why the bounds are enough. The races of `GachaPull` are between two requests of
one account, or one request and one administrator; with a balance of 5 and a
price of 2 one bulk pull of two fits and a second one does not, and an overwrite
to 3 changes the answer. A count of 3 is over the bulk limit; a single pull is a
bulk of one. Nothing a pull does touches a second account, and the theorems hold
for any number of them. In `EventItems` two
items of 50 reach the total and a third value of 100 overshoots it; two
administrators are what it takes for one check to overtake another; the cache is
keyed by event and no operation spans two, so one event is enough. In
`AuthSession` two calls race for one promise, and one foreign login overtakes a
refresh. In `GachaPage` the balance pays for two single pulls, or one of two,
which is what it takes for the coins of one reveal to be overtaken by another;
two loads are an older and a newer one. In `EventConsole` three clicks are a
save, its repetition and another handler; two drafts tell a repetition from a
second creation; two looks tell an old copy from a new one. In `UsersConsole` two accounts and pages of one make a first and
a last page, and two requests for pages are the two that can overlap. In
`ImageStore` a third request overwrites what two others raced for; keys carry
their owner, so one owner is enough. In `AdminFeed` two crashes are what fails a
stalled job, and a list of two holds a repeat.

Deadlock is not checked: requests, calls, logins, clicks and the clock are
finite, and once they have ended nothing need happen.

### What disagrees with the documentation

1. `src/README.md:499` calls the history append-only with nothing that ever
   deletes a row. `AdminUsersService.remove` counts, a pull commits, the delete
   cascades (`pull_history`). What does hold, and is proved: a row leaves only
   with its account (`HistoryKept`).
2. `src/README.md:373` calls the cache absent or exactly correct. A fill that a
   write overtakes stores the old list (`items_cache`). What does hold, and is proved: staleness
   comes only from that or from a failure between write and invalidation
   (`StaleOnlyIfStranded`).
3. `src/README.md:371` says writes to a live event keep its total at 100.
   Check and write are separate statements (`items_totals`). What does hold, and is
   proved: each check alone is right, so it takes a race or a removal
   (`TotalsDriftOnlyByRace`), and with one administrator at a time the claim is
   true as written (`LoneAdministratorKeepsTotals`).
   Pulls of such an event are refused at pull time.
4. `src/README.md:548` says a presented refresh token can never be reused. Two
   refreshes that read before either writes both succeed (`auth_tabs`). What does
   hold: within one tab a token is exchanged once, and an exchanged one never
   comes back (`ExchangedOnce` in `auth`, `RetiredStaysOut`).

Read beside the code, and without a run of their own:

- `src/README.md:1047`, first half: the balance is said to update the moment the
  answer returns. In `useGacha.ts` it is committed with the outcome, at the end
  of the reveal (`Apply`).
- `src/README.md:979`: the old object is said to be deleted on replace. A failure
  or a second upload between the steps leaves it (`ObjectsAccountedFor` says when).
- `src/README.md:1103`: the search is said to reset pagination. A further page
  asked for before the search is appended if it is answered after it; `ListWhole`
  excepts it (`behind`).
- `admin-history.controller.ts:44-45`: a ban is said to take effect immediately.
  It does on the next connection; a stream that is open stays open (`SetAdmin`).
- `src/README.md:1023` and `1104`: the browser's EventSource is said to reconnect
  automatically. It does after a broken connection, not after an answer that is an
  error: a lookup that fails once (`admin-history.controller.ts:57`) ends the live
  list until the page is opened again (`RequestFails`).
- The page's label says 10x whatever `MULTI_PULL_COUNT` is; `pullTen` draws the
  configured count.
- `EventFormDialog.tsx:60`: a save answered after its dialog was closed calls
  `onClose` all the same, and closes whichever form is open by then (`Saved`).

## Fairness

- `pull`: weak fairness of each request's own steps. Node resumes every
  pending await, and Postgres grants a row lock when its holder ends. A
  transaction that hangs is ended by Prisma's timeout, which is `Fail` and needs
  no fairness. Weak fairness of the waiting UPDATE suffices because the number of
  requests is finite: the lock is free for good in the end. Administrators need
  none.
- `page`: weak fairness of the server's part of a pull, of a pull's answer or
  failure, and of the timers. A fetch is answered or fails, and the browser runs
  a timer that is set. Players owe nothing; `RevealEnds` supposes that speed and
  motion settings are changed finitely often, since each change starts the
  reveal again.
- `feed`: weak fairness of an emission's success or failure, of BullMQ's look
  for stalled jobs, of the worker, of delivery on an open connection, and of the
  EventSource's connecting and of an answer to its request, which may be a
  refusal or an error (no fairness is assumed of admission). Crashes and broken
  connections are bounded, which stands for their coming to rest. Expiry and
  bans owe nothing.

The other runs check safety only. `NoneStranded` takes the place of a liveness
property of `AuthSession`: a waiting call always has a flight whose handler is
running or ended, and the event loop settles it.

## Proofs

`GachaPullProofs` proves, from `ParametersAssumption` alone (a price and a bulk
limit above zero, counts above zero, natural balances, every item of one event)
and for any sets of requests, accounts, events, items and administrators:

| Theorem | Says |
|---|---|
| `TypeCorrect` | `Spec => []TypeOK` |
| `Invariance` | `Spec => []IInv` |
| `NoOverdraft`, `Conservation`, `Atomicity`, `Referential`, `FeedHonest` | the five safety invariants of the run `pull` |
| `HistoryOnlyGrows` | the action property `HistoryKept` |
| `PullsImplementLedger` | `Spec => ImplementsLedger`, the refinement |

None of the five invariants is inductive. `IInv` adds what they rest on:

- `OneOpenTx`: two open transactions never belong to one account. This is the
  row lock, and `Covered` needs it.
- `Covered`: while a transaction is open its account exists and its balance
  pays for it. `Deduct` establishes it, `OneOpenTx` and the lock's effect on
  overwrites and deletes keep it, and `NoOverdraft` is what it gives at COMMIT.
- `DraftOfRequest`: an uncommitted draft holds exactly one row per draw, all of
  its request and account. At COMMIT this gives `Atomicity` and, with a lemma on
  the cardinality of disjoint unions and one on distributing the price,
  `Conservation`.
- `DraftRefers`: what a draft refers to still exists, because its share locks
  hold back the deletes. At COMMIT this gives `Referential`.
- `Announceable`: the draft of a request about to emit is in the history or its
  account is gone, which gives `FeedHonest`.
- `LogOfRequest` and finiteness of the history tie rows to requests.

Each part has a lemma that its actions keep it, another for COMMIT where the work
is, and a step lemma that puts them together; `InvStep` and PTL end the argument.
The refinement maps every action but COMMIT, the overwrite and the account's
removal to a stutter; `PublishDraws` shows that COMMIT is one `Draw`.

`AuthSessionProofs` proves, from `SessionAssumption` (calls and logins are finite
and distinct) and for any number of tabs, calls and logins:

| Theorem | Says |
|---|---|
| `SessionTypeCorrect` | `Spec => []TypeOK` |
| `SessionInvariant` | `Spec => []SafeInv` |
| `RetiredNeverReturns`, `OneEffect` | the two safety invariants of the run `auth` |
| `SingleTabExchangesOnce` | `ExchangedOnce`, when all calls are of one tab |

`SafeInv` adds that every pair after the first was given to exactly one handler
(`MintedOnce`), which is what bounds the pairs, and that a handler not yet begun
has shown nothing (`Unstarted`). `IssuedOrKept` splits every step into an issue,
which stores a number never seen before, and the rest, which store none.
The assumption of one tab is needed: `auth_tabs` refutes the conclusion for two.
Its invariant, `SingleTabInv`, says that localStorage holds a pair no call has
shown, or the one the refresh in flight shows (`SessionUnspent`), and that an
answer under way carries a pair that is nowhere else (`Fresh`); hence no two
calls show the same pair (`ShownOnce`), and a pair once exchanged was shown by a
call that is past its exchange (`RetiredShown`).

`NobodyStranded` (`Spec => []NoneStranded`) rests on two more invariants: the
flight of a tab is of a call of that tab whose refresh was begun (`FlightRuns`),
and a tab with a waiting call has a flight (`WaitersAwait`).

`EventItemsProofs` proves, for any number of items, readers and administrators:

| Theorem | Says |
|---|---|
| `ItemsTypeCorrect` | `Spec => []TypeOK` |
| `ItemsInvariant` | `Spec => []IInv` |
| `NoPathForgets`, `ChecksKeepTotals` | the two safety invariants of the run `items` |
| `LoneAdministratorKeepsTotals` | if `Admins` has at most one member, `Spec => LiveWritesKeepTotal` |

`TotalsDriftOnlyByRace` is not inductive: a write is right because of what was
checked some steps before it. `Checked` says what a task that no write has
overtaken still knows (whether the event is live, and that the table with its
write is in range), `Fits` that its item and value are of its operation. A write
marks every other task (`Marking`), so that `Checked` survives it trivially; any
other step leaves the table alone (`TaskStep`). The sum of the rates stays
opaque but for the empty table, whose total is unfolded once (`EmptyTotal`).
`LiveWritesKeepTotal` fails with two administrators (the run `items_totals`); the
theorem says that this is the only way: nothing overtakes a lone administrator's
check (`Unraced`), so its write leaves the total that was checked (`LiveWrite`),
even if requests die between the steps and readers interleave with it.

`ImageStoreProofs` proves, from `ImageAssumption` and for any number of owners
and requests:

| Theorem | Says |
|---|---|
| `ImageTypeCorrect` | `Spec => []TypeOK` |
| `ImageInvariant` | `Spec => []IInv` |
| `NoDanglingKey`, `NoForgottenObject` | the two safety invariants of the run `images` |

Its invariant adds what a request knows of its keys (`Requested`), that the key
it made is in no row and no other request as long as the owner's uploads fell
into different milliseconds (`OwnKeys`), and where the objects of its old and new
key are at each of its steps (`PlacedKeys`). The last two are what makes a
removal of the old object safe for everybody else.

`GachaPageProofs` proves, from `PageAssumption` and `NoneAssumption` (a price and
a bulk count above zero, speed 1 among the speeds, `None` no answer) and for any
events, rarities, speeds, balance and number of requests:

| Theorem | Says |
|---|---|
| `PageTypeCorrect` | `Spec => []TypeOK` |
| `PageInvariant` | `Spec => []IInv` |
| `NothingLeftOver`, `NoCommitLost`, `ItemsOfSelected` | the three safety invariants of the run `page` |
| `RewardIsKept`, `NothingSpoiled` | its two action properties |

The invariant follows a pull from click to commit: while it is in flight no
outcome is displayed (`InFlight`); while its answer is pending, that answer has
the server's balance and only its own outcome may be displayed (`Revealing`);
without one the balance displayed is right, or the charge was never heard of
(`Balance`). `NewestIsSelected` ties the newest of the overlapping requests for
items to the selection. The tables of phases enter through `TimelinePhases`
alone.

`AdminFeedProofs` proves, from the assumptions of `AdminFeed` and for any draws,
any length of the list and any number of crashes and lost connections:

| Theorem | Says |
|---|---|
| `FeedTypeCorrect` | `Spec => []TypeOK`, with it that a job is in one place at a time |
| `FeedInvariant` | `Spec => []IInv` |
| `NothingRepeated` | the safety invariant of the run `feed` |
| `NoDrawVanishes` | `Spec => []Carried`, the safety half of `PullsReachFeed` |

A draw whose job did not stall is either still to be published or on the wire or
in the list, and there once; the lemmas on members of sequences say that every
step moves it forward. `Carried` is the other direction: a draw of the history is
waiting, with a dead worker, on the connection, displayed, or counted as missed,
so what `PullsReachFeed` adds under fairness is only that it moves on.

`EventConsoleProofs` proves, from `ConsoleAssumption` and for any number of
events, items, drafts, handlers and requests:

| Theorem | Says |
|---|---|
| `ConsoleTypeCorrect` | `Spec => []TypeOK` |
| `ConsoleInvariant` | `Spec => []IInv` |
| `ListComesBack`, `NothingDuplicated` | the two safety invariants of the run `console` |
| `DeletedAsAgreed` | its action property |

Its invariant is three arguments on top of the types. `Told`: unless a handler
has still its second request to make, the newest load brings the list as the
server has it, or the list displayed is right or known to be old. `DraftsOnce`:
a draft is in one form or one handler, the handler of a form that is open is of
that form and holds its Save disabled, and a row made from a draft leaves it only
in a handler that will close the form. `Asking`: a handler that deletes and is no
longer waiting was agreed to. `After` describes what closing dialogs and ending
handlers do to all the others, so that the many actions that do only this share
one lemma (`QuietKeeps`), as do the seven clicks (`StartKeeps`) and the ends of
handlers (`FinishKeeps`).

`UsersConsoleProofs` proves, from `UsersAssumption` and for any accounts, searches,
page size and number of handlers and requests:

| Theorem | Says |
|---|---|
| `UsersTypeCorrect` | `Spec => []TypeOK` |
| `UsersInvariant` | `Spec => []IInv` |
| `RowsComeBack`, `PagesJoin` | the two safety invariants of the run `users` |
| `ChangesAsConfirmed` | its action property |

Its invariant is again three arguments on top of the types and of what is known
to have been an account (`Known`).

- `Agreement`: a handler that changes more than coins and is no longer waiting
  for its confirmation was agreed to.
- `RowsInv`: of an account that is not `raced`, at most one change is done and not
  answered (`Settled`); a row displayed becomes the server's when that change is
  written into it, and is the server's when there is none (`RowRight`); an
  answered page that is still on its way has the server's rows (`PageRight`).
  `Overlapped` is exactly what would break the last two.
- `Told`: unless a search waits to be sent or an account made is not yet
  answered, the newest request brings the first page (`Replaces`), or the list
  with its page appended is whole (`Continues`), or the list is known to be
  behind. Whole means `Begins`: the rows still in the table are of the search, in
  the table's order, with none left out before the last, and the cursor is that
  last one.

`Begins` speaks of rows and positions and no recursion, so that each step is a
lemma of its own: the first page begins the list (`FirstPageBegins`), the page
after a cursor continues it (`NextPageBegins`), a deletion at the server
(`DeletionBegins`) and a row changed or removed on the page (`KeptBegins`)
disturb nothing. `BeginsIsPrefix` leads from it to the prefix that `ListWhole`
states. They rest on what `Select` keeps of a sequence: it enumerates the
positions of the chosen elements (`Selected`), which follows from their ranks
(`Ranks`) and the theorems on finite sets. `Select` takes the place of
`SelectSeq`, which is recursive and of which nothing could be proved.

Only model-checked: liveness (`EveryPullEnds`, `PullingEnds`, `RevealEnds`,
`PullsReachFeed`, `StreamReturns`), which is beyond the prover. Every safety
invariant and action property of a passing run is a theorem. The four violations
of a document are counterexamples of TLC.

## Not modelled

- Health checks, throttling, process wiring and DTO validation (declarative or
  the framework's); layout, animation and sound.
- Statistics and the dashboard: read-only aggregate queries that are refreshed;
  nothing depends on their order.
- The history's pages, the player's and the administrator's: rows of one bulk
  pull share `createdAt`, the only order, and how the database breaks the tie may
  differ from query to query. A model would be of that choice alone.
- The prefix-sum roll and decimal rates: pure functions of one input; a pull
  draws any item of its list, and rates are whole percents.
- Registration: one account exists throughout `AuthSession`. Two registrations
  of one e-mail differ in the status of an answer only.
- System configuration: its values are constants, since nothing calls `set`.
- Crashes of Postgres and Redis themselves: both are taken to keep what they
  acknowledged, and Redis losing the cached key is what `Expire` does.

## What could follow

The modules were written in the order of what depends on them: pulls, cache,
sessions, then images, pages and feed. What is left would add least:

1. The composition of `GachaPull` and `EventItems`. A pull now draws from any
   list the cache might hold, which is weaker than what it does hold.
2. `DropRates` as operators with decimals, against a reference definition.
3. More than one stream, and more than one page, under one subject.

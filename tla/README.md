# A verification project for vaqt.me

vaqt.me is a marketplace: a seeker publishes a request, providers submit offers,
the seeker selects one, the two talk in a conversation and review each other, and
a request can be promoted with paid products. The repository is a TypeScript
monorepo: `apps/api` (NestJS, Prisma over PostgreSQL, Redis, BullMQ, Socket.IO),
`apps/web` (Next.js), `packages/shared` (schemas and domain functions),
`packages/db` (the Prisma schema and the seed) and `packages/ui`.

The API is many concurrent handlers over shared rows, and the web application is
many answers that arrive over shared component state. Most of the correctness of
both is in the order in which statements and answers meet, and the tests call one
after the other. That is what the modules here model.

## Inventory

| Component | State | Operations | What makes it correct | Modules | Status |
|---|---|---|---|---|---|
| payments (`payments.service.ts`) | orders, entitlements, subscriptions, promotion columns; the provider's authorities | checkout, callback, reconciliation job, verify and finalize, product effects | granted exactly once, only what was collected, nothing left PENDING | `OrderLedger`, `Payments` | modelled, proved |
| offers (`offers.service.ts`) | offers, offerCount, request status, conversation | submit, re-submit, withdraw, select | a selection is whole, the count exact, no lock waits forever | `Market`, `Offers` | modelled, proved |
| requests (`requests.service.ts`, `request-form.tsx`, `app/requests/page.tsx`) | requests, their rank columns; form, preview, list, filters | create, publish, keyset list, get | what is published is what was previewed; pages neither skip nor repeat | `NewRequest`, `Listing` | modelled, proved |
| sessions (`session.service.ts`) | session rows in families, cookies | login, rotate, revoke one, family or all | one usable token per family; an ended family never comes back | `Sessions` | modelled, proved |
| login in the browser (`auth-context.tsx`, `api-client.ts`, `otp-form.tsx`) | the user a tab shows, calls waiting on a shared refresh | load, refetch, 401 and retry, verify, logout | what is shown is what is so | `SignIn` | modelled, proved |
| one-time codes (`auth.service.ts`, `otp/`) | code rows, pending code, cooldown, streak and block | request, resend, verify, failed guess | one live code; the text works; spent codes are closed | `Otp` | modelled, proved |
| rate limits (`rate-limit.service.ts`, `redis.service.ts`) | sorted sets | sliding-window script over two windows | no window holds more than its limit | `RateLimit` | modelled, proved |
| guards, categories, skills (caches) | a row, a Redis key, a browser copy | read-through, update, invalidate | a change takes effect in bounded time | `ReadCache` | modelled, proved |
| conversations (`conversations.service.ts`, gateway, `message-thread.tsx`) | messages, read marks, rooms; the open thread | send, list, join, broadcast, load, merge | each message is shown once and stays | `Thread` | modelled, proved |
| reviews (`reviews.service.ts`, `review-panel.tsx`) | reviews, the cached rating; panels | submit, status | one review each; the rating is the aggregate | `Reviews` | modelled, proved |
| AI drafts (`ai.service.ts`, `ai-wizard.tsx`) | message history, draft, tokens; the wizard | start, continue, extract with retry | no turn is lost | `AiDraft` | modelled, proved |
| avatars (`avatar.service.ts`) | files, the row's key | upload, delete | named files exist, others do not | `Avatars` | modelled, proved |
| request page (`request-detail-client.tsx`, `offers-panel.tsx`, `offer-submit-form.tsx`) | detail, list of offers, disabled buttons | load, select, withdraw, submit | a settled page is current | `RequestPage` | modelled, proved |
| SMS queue (`auth/sms/`) | jobs | enqueue, process, stall | every job ends | `SmsJobs` | modelled |
| QA clean-up (`cleanup-qa-data.ts`) | a plan over all tables | find, plan, delete in order | no foreign key refuses a run | `Cleanup` | partly, proved |
| seed (`seed.ts`) | the seeded rows | ordered upserts, killed and repeated | converges | `SeedRows`, `Seed` | modelled, proved |
| users (profile and skill edits), remaining pages, UI kit, shared schemas, env validation, health, audit log | | | | | not modelled |

How they interact: offers, payments and requests share the request row; offers
create the conversation that messages and reviews hang on; checkout, callbacks and
the BullMQ job meet on the order row; login ends in a session, whose cookies every
call of the browser carries; an administrator's category is read by create, cached
in the lists and written by the seed. Where two components meet in a row, the
module of each has the other's statements on that row as actions (publish in
`Payments` and `Offers`, upgrades and select in `Listing`, deactivation in
`NewRequest`, the administrator in `Seed`, the application's inserts in `Cleanup`).

The behaviours that are hard here: READ COMMITTED transactions that check with a
plain read and write by id later; external calls inside a transaction; a job that
races the callbacks it stands in for; caches filled from old reads; events sent
after a commit; clients that merge two sources; calls the browser has given up and
the server has not. PROJECT.json lists them line by line under "hazards", with the
properties that watch each.

## Modules

| Module | What it is |
|---|---|
| `OrderLedger` | Abstract: an order is opened once, may be rejected, is settled at most once and granted in the same step. |
| `Payments` | Detailed: checkout, callbacks, the job, aborts, and the publish that shares the request row. Implements `OrderLedger`. |
| `Market` | Abstract: what the marketplace promises about one request, call by call. |
| `Offers` | Detailed: submit, withdraw, select and publish as interleaved statements with row locks. Implements `Market` one call at a time. |
| `Sessions` | The login sessions of a user: rotation in its two writes, reuse detection, logout, browsers with several tabs. |
| `Otp`, `RateLimit`, `ReadCache`, `Avatars`, `SmsJobs` | The other services of an account. |
| `Thread`, `Reviews`, `Listing`, `AiDraft`, `NewRequest`, `RequestPage`, `SignIn` | A service together with the part of the browser that calls it. |
| `Cleanup`, `SeedRows`, `Seed` | The two scripts that write to a database. |
| `Accounts` | Composition: `Otp` with `RateLimit` (Rate), `ReadCache` twice (Guard, List), `Avatars` (Avatar), `RequestPage` (Page) and `SignIn` (Tab). A step of the whole is a step of one of them. |
| `Exchange` | Composition: `Reviews` with `Offers` one call at a time (Deal), `Thread` (Chat), `Listing` (Board), `AiDraft` (Wizard), `NewRequest` (Form), `Cleanup` (Script), `SmsJobs` (Sms) and `Seed` (Rows). |
| `PaymentsProofs`, `OffersProofs`, `SessionsProofs`, `OtpProofs`, `ReadCacheProofs`, `SignInProofs`, `AccountsProofs`, `ExchangeProofs` | Theorems. |
| `MCPayments`, `MCOffers`, `MCSessions` | Instances for TLC: symmetry sets and constant values. |
| `MCAccounts`, `MCExchange` | Instances of the two compositions. Their components share no state, so the interleavings of one with another say nothing: the variable `part` says which of them takes the steps of a behaviour, and the states checked are those of each, added up. |

Operators named `Mutant...` are deliberate mistakes, one for each property of a
passing run; they are part of no specification and show that the property can fail.
Variables named `overlapped`, `excused`, `disturbed`, `tangled`, `broke`,
`moved`, `late` and the like are history variables: no guard reads them, and a
property that has an exception says with them exactly which.

### Payments

A *task* is one execution of `processCallback`, or the worker of the payments
queue inside `reconcileStaleOrders`. A task takes the order row with
`SELECT ... FOR UPDATE`, so `pc[t] \in Holding` means that it owns that lock. What
the transaction writes becomes visible in `CommitPaid` or `CommitFailed`; `Abort`
is a thrown fetch, Prisma's transaction timeout or a dead process, and leaves the
row as it was (the job also drops the rest of its batch, since the exception
leaves the loop).

| State | Code |
|---|---|
| `status`, `product`, `target`, `ents`, `subscribed` | tables orders, entitlements, subscriptions |
| `listTier`, `badges`, `reqStatus` | columns of requests |
| `gateway` | the provider's record of the authority ("absent", "issued", "paid") |
| `stale` | createdAt before the cut-off of the job |
| `batch` | what `findMany` returned and the loop has not reached |
| `seenTier` | the listTier that `applyProductEffect` has read and not yet written |
| `publishing` | publish handlers between their DRAFT check and their update |

`RequestPayment` and `CreateOrder` are the halves of `checkout` (a crash between
them orphans the authority). `CallbackNotOk` and `CallbackOk` are
`processCallback`; an unknown authority and the replay of a PAID order change
nothing and are stuttering. `ReconcileScan/Take/Skip/Done` are the job.
`VerifySucceeds/Fails`, `CommitPaid/Failed` are `verifyAndFinalize` with
`applyProductEffect`; `VerifyFails` is possible for a paid order too, because the
Zarinpal adapter turns an HTTP error into `success: false`.

Left out: amounts, refId, raw, audit rows, dates beyond "stale". The job's branch
for an order without an authority cannot be reached from `checkout`, which stores
one always. Requests are only published or promoted; selecting an offer does not
touch the columns of this module. There is one reconciliation worker.

### Offers

One request (no row is shared between requests) and any number of open calls, the
`Handlers`: several tabs and several users. A step is one statement, or a run of
statements of which only the last is visible or can block. An UPDATE by id waits
while a select transaction holds the row and then writes whatever it meant to; the
`updateMany` of select re-evaluates `status = PENDING` on a row it had to wait for.
`held` are the rows a select has updated, `todo` those its updateMany still has to
reach; its writes appear in `SelectCommit`. `DeadlockVictim` is PostgreSQL
breaking a cycle of waits, `Fail` a lost connection or a timeout.

Left out: the terms of an offer, revisionCount, the system message's text, profile
completeness (Providers are complete) and the ownership guards.

### Sessions

The sessions of one user (nothing but logout-all relates two families). Every token
is named by the row it was signed for; the access and the refresh cookie are set and
cleared together, so `cookie[b]` stands for both. Requests are the `Calls`, each of
one browser; those of different tabs overlap, while a tab shares one refresh
(`tryRefresh`).

| State | Code |
|---|---|
| `family`, `signed`, `revoked`, `replacedBy` | columns of sessions; a row is `signed` once it holds its token's hash |
| `cookie` | the cookie jar of a browser |
| `pc`, `old`, `new` | the next statement of a request, the token it came with, the row it has created |
| `overtaken`, `reused` | history: what the properties need to tell apart |

`ReadRevoked`/`ReadValid` are the one read of `rotateSession`; `CreateRow` and
`SignRow` the two writes of `issueNewSessionRow`, for a login as well; `RevokeFamily`,
`RevokeOne`, `RevokeAll` the three updateMany calls; `Answer` and `Clear` the cookies
arriving; `Fail` ends a request at any point with its cookies lost.

Left out: expiry (a refusal without effect), audit rows, and the clean-up job, which
deletes rows 90 days after their end, when no token of theirs verifies any more.

### SignIn

One tab. `call[c]` is one `apiFetch` (its `at` says whether the request, the answer
or a shared refresh is awaited; `again` that it is the one retry; `here` that the
form that made it is mounted), `refresh[c]` the refresh it started. `TryRefresh` is
`refreshInFlight ??=`. `Authorize` is `JwtAuthGuard` with the handler behind it,
`Rotate` is `rotateSession` in one step: a tab never has two of them, and the races
of several tabs are in `Sessions`. `user` and `loading` are `AuthProvider`'s,
`page` and `step` what is mounted; `Bounce` is the effect of a member's page, and
`NotRefreshed` loads /login for a call with `redirectOnAuthFailure`.

### Otp, RateLimit, ReadCache

`Otp` follows one phone through `requestOtp` and `verifyOtp`. A step is one statement
on Postgres or Redis; times are what is left of them, `Tick` takes one off, and
`RedisRestart` takes all keys. The step names say the method (`RequestFind`,
`VerifyConsume`, ...); `VerifyFail` to `VerifyBlock` are `handleFailedAttempt` and
`recordInvalidatedCode`. `got[h]` is what a call has read and will use: the attempt
count, the code to text. `MaxCall < Cooldown` is an assumption: a request that takes
longer than the resend cooldown can create a second live code, and only the cooldown
keeps requests apart.

`RateLimit` has the sorted sets of the hourly and the daily window of one identifier,
as pairs of a score and a member; `Counted` is what the script leaves in one, `Allowed`
and `RetryAfter` what it answers. The clock is in milliseconds, of which there are
`Second` in a second; `InSeconds` rounds the wait up to whole seconds, one at least, as
`redis.service.ts:36` does. `Call` is the script twice, in the order of
`checkPhoneRequestLimits`, and a refusal by the first window skips the second.
Rejected calls are counted, as the script does. `accepted` (the calls let through) and
`until` (when the latest Retry-After told ends) are history.

`ReadCache` is instantiated twice: for the two guards (no write deletes the key) and
for the category and skill lists (updates delete it; the answer may be kept by the
browser for `max-age`).

### Thread, Reviews, RequestPage

`Thread` numbers messages by `(createdAt, id)` at their insert, lets transactions
commit and broadcasts leave in other orders, and keeps the component's `messages`,
cursor and pending list request; `wire` is the socket. `late` are the messages that
were on their way when the first page was read. `messages` says how often each message
is shown; the order on the screen is left out.

`Reviews` has a panel for each tab and conversation, and the submit transaction in
its statements under READ COMMITTED: an aggregate sees what is committed and its own
insert. The rating is the set of reviews it was computed from.

`RequestPage` has the page of one request for its owner and for providers: the detail
load (getById in its two reads), the owner's list, the calls of the panel with the
instance of the panel that made them (`mounted`), and the button each disables.

### Listing, AiDraft, NewRequest

`Listing` translates the keyset condition of `list` into `Below` over
`Key == <<listTier, listRankAt, id>>`, lets publish, upgrades, bumps and select move
requests between pages, and has the page with its generations of fetches and the
filter bar with its debounce timers. `items` says how often each request is shown and
`moved` (history) which were re-ranked since the first page was read. `AiDraft` has
each call's read of the history, its attempts at the model and its write. `NewRequest`
has the form's create and publish with calls that were given up, and the
administrator's deactivation in its count and its write.

### Avatars, SmsJobs, Cleanup, Seed

`Avatars` is one storage call or statement a step; every call may end after any step.
`SmsJobs` has the adapter swallow errors, as it does: a job is completed whether or
not a text went out, uses one of its three attempts, and fails only when its worker died
twice. `Cleanup` derives the
order of deletes (`Order`) and the references (`Refs`) from the script and the schema
and lets the application insert rows between the script's queries. `SeedRows` is the
data of the seed, row by row with references and unique keys; `Seed` is its main() and
an administrator beside it. `changed` are rows with a column that the seed sets and an
administrator has changed, `inactive` those he has switched off: the seed does not name
`isActive`, so no `Upsert` brings a row back. `Switch` has the guard of
`assertNoActiveRequests`.

## Runs

| Run | Checks | Shows |
|---|---|---|
| payments_safety | TypeOK, EntitledIffPaid, PaidAtGateway, VerifiedOnce, UpgradesBacked, ImplementsLedger | granted once and only what was paid for, in every interleaving |
| payments_closed | PendingIsClosed | no order stays PENDING |
| payments_downgrade (violated) | PurchaseNeverDowngrades | a lost update of listTier: the second of two simultaneous upgrades can take the tier of the first away |
| payments_honoured (violated) | PaidIsHonoured | an HTTP error of verify closes a completed payment as FAILED for good |
| offers_races | OfferCountExact, SelectionIsWhole, CallsEnd | what survives every overlap, rollback and deadlock, and that row locks never leave calls waiting on each other |
| offers_left_pending (violated) | NoneLeftPending | a submit that straddles a select leaves its offer undecided |
| offers_two_selected (violated) | OneSelected | two overlapping selects can both win |
| sessions_safety | TypeOK, TrailIsSound, OneUsable, EndedStaysEnded, LogoutEnds | tokens, trail and families under every overlap, crash and lost answer |
| sessions_reuse (violated) | ReuseEndsFamily | a rotation past its check survives the revocation of its family |
| accounts | AccountsTypeOK and, of Otp: OneLiveCode, TextedCodeWorks, SpentIsClosed; RateLimit: LimitHolds, RetryAfterNeeded; ReadCache: ChangeTakesEffect, InvalidationWorks; Avatars: NamedFilesExist, NothingLeftBehind; RequestPage: StaleOnlyByOthers; SignIn: ShownIsTrue | the services of an account under overlaps, expiry, failures and Redis restarts, and two screens against what they show |
| exchange | ExchangeTypeOK and, of Offers: ImplementsMarket; Thread: RenderedOnce; Reviews: OneReviewEach, RatingMissesOnlyOverlaps; Listing: NoneSkippedOrRepeated, ShownFits; AiDraft: TurnsSurvive; NewRequest: PreviewIsTheRow, InactiveOnlyOvertaken; Cleanup: QuietRunSucceeds; Seed: RunsConverge; SmsJobs: JobsEnd | call by call Offers is the market; rows and screens agree, scripts converge and jobs end |
| thread_lost (violated) | LiveMessagesStay | the first page takes a live message off the screen |

The six violated runs are disagreements between the code and what a comment, a
test or PROJECT_SPEC.md says of it; PROJECT.json quotes both under "findings".

### Divergences without a run

Met while modelling; the models have them, and the properties say what still holds.

- The SMS queue never retries. PROJECT_SPEC.md:212 asks for three attempts with
  backoff and `sms.module.ts` configures them, but `sms-ir.adapter.ts:73-87` returns
  `delivered: false` instead of throwing and `sms.processor.ts:13-32` ignores it.
- Changing a filter while "load more" is under way leaves that button disabled:
  `requests/page.tsx:112` resets `loadingMore` only for the generation the call
  belongs to, and nothing else resets it.
- Two submits whose transactions overlap leave a cached rating that misses one
  review, until the next submit (`reviews.service.ts:94-101` calls it the live
  aggregate). RatingMissesOnlyOverlaps and LoneSubmitRepairs bound it.
- A tab can show a guest who is signed in, or a user who is not: a verification
  answered while a refresh of an ended session is under way is followed by that
  refresh's failure (`auth-context.tsx:50-51`); a logout whose call fails clears the
  user in its `finally` and leaves the session (`auth-context.tsx:61-71`); a refresh
  answered after the logout puts new cookies into the browser. ShownIsTrue lists these
  and says there is no other way.
- The owner's page allows a second select while one is under way, shows "no offers"
  when the list could not be loaded (`offers-panel.tsx:112`), and reloads nothing after a
  refused action. StaleOnlyByOthers counts pages as settled only when their list is shown.
- The clean-up's comment at `cleanup-qa-data.ts:286-289` says that every Redis key
  expires within 30 to 60 seconds; the daily rate-limit key lives a day. Deleting a
  selected test provider leaves a real seeker's request OFFER_SELECTED without an
  offer or a conversation.
- `seed.ts:3-5` says that running it again "converges on the same state instead of
  erroring or duplicating rows". It does not set `isActive`: a category or skill that
  an administrator has switched off stays off through every run. And a run errors when an administrator's row holds the
  slug of one not yet seeded. RunsConverge speaks of the columns that the seed sets,
  and names the error.
- The seed does not set `offerCount`. Its users' phones are stored in a form that no
  login looks up.
- Retry-After is rounded up to a second, so that a call in its last second may be let
  through; and as refused calls are counted, a call after it may be refused again.

### Bounds

- Payments: two orders (the least at which two tasks meet on one request), one
  request, two callbacks and the worker (two on one order, or three on two), one
  publish in flight, and every product that has an effect of its own
  (TARGETED_NOTIFY only writes the entitlement, as any product without a request
  does). Orders and callbacks are symmetric. The liveness run keeps one product and
  one callback, and no symmetry. payments_honoured needs one order and no callback.
- Offers: two providers (two selects of different offers then wait for each other)
  and three calls, so that a third can slip between the two; liveness is checked in
  the same run, hence no symmetry. In exchange there are three providers, so that a
  select has two rows to reject, and one call at a time; the violated runs need two
  of each.
- Sessions: two browsers (logout-all must reach the other), two tabs in one of them,
  and four rows: a login and three rotations, two of one row among them, or two
  logins and a rotation each. Rows, families and the tabs are symmetric.
- accounts: two overlapping calls everywhere, since every race of these services is
  between two. Otp: two codes, two sends and two attempts of each, a streak of two, a
  time to live of three ticks over a cooldown of two: a code expires, is resent,
  spent and followed by another one. RateLimit: seconds of two ticks, windows of
  two and three of them with limits two and three, so that each is the one that
  refuses and two calls can lie within a second, where rounding shows. ReadCache: three
  versions over a time to live of two, so that a second change meets the copy of the
  first. Avatars: two keys, the old and the new. RequestPage: the owner and one
  provider look, a second provider acts elsewhere; two calls a page. SignIn: two
  sign-ins with two rotations each, and two calls, which can share a refresh.
- exchange: Thread has two old messages in pages of one and two new ones: live
  messages meet the first page and an older one. Reviews: two conversations in two
  tabs each. Listing: three requests, pages of one, two criteria that overlap,
  two events and two fetches of a first page. AiDraft: three messages, one retry.
  NewRequest: two rows, three calls. Cleanup: a doomed user and one who stays, a row
  of each table. SmsJobs: two jobs. Seed: all 100 or so rows of the seed, two edits
  of a skill or of a category that an active request refers to.
- thread_lost: one old message and one new one.
- Deadlock checking is off where the modelled system may come to rest (no call open,
  a bound reached): Offers, accounts, exchange, thread_lost. For Offers, waiting for
  each other is covered by CallsEnd. It is on for Payments and Sessions.

### Fairness

- Payments (`Fairness`): BullMQ fires the scheduler every 15 minutes and the worker
  goes on (`payments.module.ts`), so scanning and finishing are weakly fair. Taking
  and skipping an order are strongly fair: waiters of a row lock are served in order,
  and a callback's transaction ends at Prisma's timeout at the latest. The verify
  call and the commit are strongly fair: the provider is not unreachable forever.
  The last conjunct says that the process is not killed between two orders of a
  batch, or while it waits for a lock, forever. Nothing is assumed of users, of
  callbacks arriving or of publish. Without the strong fairness of verify the
  property does not hold: an order whose verify always throws ends the loop always.
- Offers (`Fairness`): an open call goes on when it can, with row-lock waiters served
  in order, and a deadlock is detected. No call needs to be made or to fail.
- SmsJobs (`MCExchange`): a worker is running, so that the next step of a waiting or
  active job is weakly fair. Workers may die; BullMQ returns a stalled job once.
- All other properties are about safety, and assume no fairness.

## Proofs

All for any value of the constants, under the `...Assumption` of the module (null
values are not ids; times to live are positive; a call is shorter than the cooldown;
the seed's plan lists its rows before the rows that refer to them). TLC evaluates
these assumptions, and the runs check the same properties on small instances; every
inductive invariant was checked by TLC before it was proved. With three exceptions the
invariants and action properties of the passing runs are all theorems of the
specification that the run checks; the exceptions are liveness (below).

**PaymentsProofs.** The core is `LockInv`: types, "a task inside the transaction
works on an order" and `VerifiedOnce`. Alone, `EntitledIffPaid` is not inductive: the
commit adds an entitlement, so it needs that the order is not PAID yet, which is true
because the task saw it so under the lock and nobody else can settle a locked order.
On it rest `TypeCorrect`, `VerificationIsExclusive`, `EntitledExactlyOnce`,
`PaidMeansCollected` (between verify and commit the provider's record stays "paid"),
`UpgradesAreBacked` (with the invariant that `seenTier` was itself backed when it was
read and PAID orders stay PAID) and `PaymentsImplementLedger`, the refinement of
OrderLedger, one ledger step or a stutter for each action.

**OffersProofs.** `IInv` adds `Working` to the properties: a call past its checks
holds no lock unless it is in select's transaction, its request was published and
its offer's row exists, none of which is ever undone. `SelectedRowsAreStable` (proved
only) is what makes the commit decide only offers that were PENDING;
`SelectionsAreWhole` and `CountIsExact` (with the cardinality facts of
FiniteSetTheorems) follow. `MarketImplemented` is the refinement of Market for one
open call, `OneCall`: with `AsRead`, what the call has read is still so, and each
statement is a step of the Market or a stutter; a select decides all offers at its
commit. The assumption cannot go: offers_left_pending and offers_two_selected show
what two overlapping calls do that the Market never does.

**SessionsProofs.** `IInv`: a row under construction belongs to one call (`OwnRow`)
and no cookie, call or trail names it before it is signed (`Working`, `Trail`). On it
rest `TypeCorrect`, `IssuedTokensMatch` (proved only) and `TrailCanBeFollowed`, where
`NoCircle` excludes circles of any length because a rotation points at a row that was
never replaced. `OneTokenPerFamily` needs `OneSeat`: in a family not yet overtaken the
usable row and the call replacing it are the same seat, and a login's row is alone.
`NoReturn` goes over all steps from an ended family. `LogoutIsFinal` adds `OneBrowser`:
the tokens of a family never leave the browser of its login.

**OtpProofs.** `OneRequest` is the core. `OneLiveCode` needs that no request reaches
its create while another is between check and create (`Apart`), which follows from the
cooldown: a request counts a call that keeps the next one away for longer than it
lasts. Around it: only the last row can be live (`LastLive`) and a request works on it
(`OnLast`), is the only one to store a code (`Alone`) and holds the one its row
verifies (`InHand`); the pending code is that of the last row or one the row check
rejects (`Kept`, `Lost`). `Closed` carries SpentIsClosed through overlapping guesses,
which write absolute counts; `Counted` and `Named` bound what calls refer to.

**ReadCacheProofs.** `Aged` says of every place a version can be in (the database, a
read under way, the key, the browser's copy) how long ago it can have been replaced
at most; the bound of ChangeTakesEffect is the sum. `Fresh` and `Current` carry
InvalidationWorks.

**SignInProofs.** The property speaks only of moments at which no call is open, so the
invariant has to say what each open call will do. `OneRefresh`: the calls of a tab
wait for one refresh. `Refreshes`: it carries the token in the jar, and its answer is a
live token or says that the jar's is not. `Alive`: until a logout is done the session
is accepted or has just been exchanged. `Shown`: a user is shown only while it is
alive, and a guest only while it is not or somebody is still asking. These hold of a
history that is not tangled; `Apart` says that in it no logout meets a refresh or a
question. `Unclaimed` keeps the family of a sign-in from every other call until its
cookies arrive.

**AccountsProofs.** A theorem for each property of Accounts, on `AccountsSpec`: the
components share no variable (`PartsOfAccounts`), so a behaviour of the whole is one of
each. Otp, ReadCache and SignIn have their proofs in modules of their own; here are

- *Avatar*: `AvatarOwn`, `AvatarSaved`, `AvatarCleaning`: a key belongs to one upload
  until the row names it, and what a call is about to delete is not what the row names,
  unless a deletion read it there. `StorageIsTidy` needs in addition what the one
  call under way has added and not yet removed, step by step (`AvatarUpheld`).
- *Rate*: `RateKept`, a call let through is still counted wherever it can count, so a
  window over time holds no more of them than the sorted set did; and `RateTold`,
  until the last second of a Retry-After one of the windows has more than its limit of
  calls none of which leaves before (`RoundedUp`: rounding adds less than a second).
- *Page*: `PageFresh`, what a page has read still is unless it is excused or the
  answer to a call of its own will load it anew. It needs `PageSolo` (a provider's
  page awaits one answer at a time) and `PageWon` (of the owner's calls one is the
  selection, and those that its reload leaves behind come too late).

**ExchangeProofs.** A theorem for each safety property of Exchange, on `ExchangeSpec`,
by the same argument (`PartsOfExchange`); definitions carry the name of the instance
they are about.

- *Reviews*: `Exclusive` (row lock), `Computed` (an aggregate misses only transactions
  open with it) and `Counted`; `LoneSubmitsRepair` (proved only) is an action property
  from them.
- *Form*: `FormHolds`, `FormMatching`: what a call carries is what its row holds, from
  create through preview to publish; `FormCountedNone`: a deactivation's count misses
  only rows in `overtaken`.
- *Rows* (the seed): `RowsInv`, a run has written what it has passed, the columns it
  sets as seeded but for later edits, and nobody holds a slug of a row that is there. That the references
  of a row are there when its turn comes follows from the order of the plan, an
  assumption that TLC evaluates on the seed's own rows.
- *Script* (the clean-up): `ScriptSchema`, the foreign keys hold and a conversation
  refers to everything its offer does; `ScriptKnown`, while nobody inserts, each query
  has found every row that refers to what was found before. `ScriptPlace` numbers the
  tables in the order of the deletes; whoever refers to a deleted row is deleted
  before it (`ScriptNotRefused`).
- *Chat*: RenderedOnce is not inductive, since a page could bring what the socket has
  brought. `ChatAbove`: all that is shown or on its way lies at or above the cursor
  but for late messages; `ChatPaging`: an older page lies below it.
- *Board*: `BoardFirstRows` and `BoardPageSound` about the pages of a total order;
  `BoardOneCurrent`, at most one fetch is current, and it asks for what is missing;
  `BoardPagesSound`, what it brings is right about requests that have not moved;
  NoneSkippedOrRepeated says the same of what is shown above the cursor.
- *Wizard*: `WizardInTurn`, a session whose calls came one after the other has the
  turns of exactly the calls that stored one, and the running call has read the history
  as it is; `WizardSessionOK`, what a session has cost is counted whatever overlapped.
- *Deal*: the theorems of OffersProofs for one call.

Model-checked only: PendingIsClosed, CallsEnd and JobsEnd, which are liveness
properties; fairness and ENABLED are outside the prover. The six violated runs are
counterexamples and have nothing to prove.

## Not modelled

- Profile and skill edits: single updates of the user's own row.
- Pages that load once and render, the UI kit, texts, metadata and SEO.
- Shared schemas, normalization and completeness: pure functions of one value. Where a
  handler depends on their outcome, its model takes either one.
- Environment validation, health, middleware, the audit log (inserts nobody reads).
- The session clean-up job (it deletes rows that no unexpired token can name) and
  expiry of sessions, which only refuses.
- The one-time ticket of the socket handshake, which the web client does not use.
- External services appear as what the code sees of them: the payment provider, the
  language model, sms.ir, S3, BullMQ's bookkeeping, PostgreSQL's locks and keys.

# SIHL ONE CRM: a TLA+ verification of its back end

SIHL ONE is a customer-relationship system for a brokerage: leads come in from events,
partners, forms and spreadsheets, are worked by sales people who visit them, are merged when
they turn out to be the same person, and become customers. The back end is a NestJS API over
PostgreSQL (Prisma, read committed); the front end is a Next.js application. Several API
processes ("pods") may run side by side on one database.

The code's difficulty is not in its algorithms. Nearly every handler *reads* rows, *decides*
from what it read, and *writes* by id in a later statement or transaction, without asking
again. What the decisions promise therefore depends on what other requests, relays and
administrators do in between. That is what this project models: each module keeps the
control flow of its handlers, splits them at the points where the database can change under
them, and abstracts the data to what the properties distinguish.

Paths below are relative to `src/`. `API` is `apps/api/src`, `contracts` is
`packages/contracts/src`.

## 1. Inventory

| Component | State | Operations | What is hard | What makes it correct |
|---|---|---|---|---|
| Outbox and relay (`API/modules/outbox`, `API/common/outbox.service.ts`) | `outbox_event` rows, a batch in the memory of each pod | publish with the business change, claim, deliver, mark, back off, dead-letter | several pods, crashes, failed updates, retries | at least once, no early dead-letter, every event settles |
| Notification router (`API/modules/notifications`) | `notification` rows | handle an event, list, mark read, purge | redelivery | one notification per event and person |
| Sessions (`API/modules/auth/auth.service.ts`) | `session` rows and their `replacedById` chain | sign in, refresh, rotate, reuse detection, sign out, revoke all | a browser racing itself, revocation racing rotation | revoked stays revoked, no false theft alarm, no cycle in a chain |
| Sign-in, lockout, password reset | failure counter, lock, reset tokens, half-finished sign-ins | sign in, answer a challenge, change a password, request and redeem a link | a slow check between reading the account and acting on it, parallel failures, links that overlap | sessions carry the proof that was asked for, a lock is due when it is set, links keep to their cap |
| Second factor (`mfa.service.ts`), service accounts | enrolment, recovery codes, client secrets | enable, verify, disable, reset for somebody | two requests that turn it on, off or over | codes are of the factor that is on, and open once |
| Authorisation | none of its own | resolve the principal, check permission and scope | what is cached for how long | access ends when it is cut |
| Lead lifecycle (`API/modules/leads/leads.service.ts`) | lead, product rows, customers, holdings | status by hand, by product, sync, conversion | roll-up from other people's rows, conversion in two ways | outcomes and dates recorded, a won product has a customer |
| Lead capture and ownership | lead rows, owners | create, capture, verify, assign, transfer, insta-lead | two forms at one time | one live lead per mobile |
| Duplicates and merging (`API/modules/duplicates`) | `mergedIntoId`, the history of a lead | preview, merge | overlapping merges, writes to a merged lead | history follows the person, merges end |
| Field visits (`API/modules/visits`) | visit, attendee, expense rows | plan, check in, check out, cancel, reschedule, attendees, expenses | phones that retry, departures | a visit that ended is a record |
| Offboarding (`API/modules/offboarding`) | user status, owners of everything | cut access, hand over leads, customers and tasks, cancel visits | a long sequence of transactions while the work moves | nothing stays with somebody who left |
| Assignment rules (`API/modules/assignment`) | rules with a cursor and a counter | resolve the owner of a lead, switch and change a rule | a rule changed or a person gone between the read and the use | nobody inactive is chosen |
| Users, hierarchy (`API/modules/users`), organisation tree (`API/modules/org-units`) | users, reporting line, `path` of each unit | create, close, move and delete units, post people | two moves of one branch, a parent deleted meanwhile | the tree stands, paths agree with parents |
| Imports (`API/modules/imports`) | batch and row states | upload, validate, commit | double commit, crash between a lead and its row | the row table tells what happened |
| One-time codes (`API/modules/leads/otp.service.ts`) | `mobile_otp` rows, the lead's tick | issue, verify, edit, tick | parallel issue and verify, an edit under a proof | a tick is of the number beside it, the caps hold |
| Activities, tasks, customers | rows | create, edit, complete | stale edits | a closed task stays closed |
| Campaigns, events, presentations, masters, partners, messaging, mail, documents, storage, geocoding, speech, audit, references, reports, dashboard | rows of their own | one read and one write each, or reads, or calls out | little | see section 7 |
| Web application | none that matters here | the user interface | it repeats requests | it is the environment of the API |

Components interact through the database. The outbox row is written in the transaction of
the business change; the relay hands it to the notification router. Offboarding revokes
sessions and cancels visits; suspension ends what a session may do; conversion creates
customers that merging must not orphan; visits write activities and tasks to a lead's history,
which merging moves. A reset or a second factor turned over ends sessions; a code that was typed in
ticks a lead; an import creates leads beside the people who work them, by the assignment rules that
the hand-over uses as well.

`PROJECT.json` lists every component with its files, and under "hazards" each place where
the code is hard to test, with the properties that guard it.

## 2. Modules

| Module | Models | Extended or used by |
|---|---|---|
| `EventDelivery` | what the outbox promises: store, deliver, acknowledge, set aside | refined by `OutboxRelay` |
| `OutboxRelay` | outbox table, relay on every pod, the consumer's notification table | `MCOutboxRelay`, `OutboxRelayProofs` |
| `Sessions` | the sessions of one user and the requests on them | `MCSessions`, `SessionsProofs` |
| `LeadLifecycle` | one lead, its products and its customers | `MCLeadLifecycle`, `LeadLifecycleProofs` |
| `LeadMerge` | several leads, their identities and their history | `MCLeadMerge`, `LeadMergeProofs` |
| `Visits` | visits, who comes along, who leaves | `MCVisits`, `VisitsProofs` |
| `OrgTree` | the organisation tree, its paths, the people posted in it | `MCOrgTree`, `OrgTreeProofs` |
| `LeadBook` | who owns leads, customers and tasks, the rules, and a hand-over | `Imports` |
| `Imports` | a batch and its rows, composed with `LeadBook` | `MCImports`, `LeadBookProofs` |
| `Credentials` | one account: password, lock, second factor, reset links | `MobileCodes` |
| `MobileCodes` | a lead's number, its codes and its tick, composed with `Credentials` | `MCMobileCodes`, `CredentialsProofs` |

`MC*` modules only define the symmetry sets of the runs. Definitions named after a mutation,
with a comment that starts with "Mutant", are the plausible bugs by which each property is
shown to be able to fail; nothing else uses them.

### How a handler becomes actions

A handler that reads, decides and writes is an action `XRead(r, ...)` that starts request `r`
with what it read, and an action `X(r)` that writes. `job[r]` (in `Sessions`: `phase`, `target`
and so on) is the local state in between. A transaction of several writes is one action, unless
what it reads inside matters (next paragraph). `Die` and `Fail` are the process dying, the
connection dropping, or a refusal for a reason the model leaves out (a missing photo, a bad
code). Retries by a client are new requests.

- **OutboxRelay.** `LockRows` and `Claim` are the claim statement: its row locks exist only
  between the two. `Publish*`, `Mark*`, `RecordFailure` and their failures follow `deliver()`.
  `AbandonPass`, `Stop`, `Crash` and `Restart` are the faults. Time is "due or not due".
- **Sessions.** One action per query, since the refresh handler makes up to eight of them. The
  rotation chain is walked one hop per action (`FollowRotationChain`) while others lengthen it.
  A rotated row is `recent` for the grace window; `idle` and `expired` rows are made so by
  `Time`. Revocations from other modules (offboarding, suspension, second factor, credentials)
  are actions of `Administer`.
- **LeadLifecycle.** A transaction is a step that locks the product rows it writes and reads up
  to the roll-up, and a `Commit`. At read committed the roll-up reads *other* transactions' old
  product rows; that is the heart of the component. A lead begins as `create()` makes it, with a row per
  interest, or as `capture()` does, with interests and no rows. `RollUp` is
  `rollUpLeadStatus()` of contracts/lead-product.ts.
- **LeadMerge.** A lead's status is open, closed, converted or deleted. `Clash` is the partial
  unique index on live mobiles and PANs. `Entry` stands for activities, tasks, documents and
  consents: what a merge moves. Product rows, profile and visits are not moved by `merge()`, in
  the code as in the model.
- **Visits.** A visit keeps how often it was checked in (each replaces the evidence of the last),
  how many meetings it put on the timeline and how many follow-up tasks it made.
  `OffboardStart` is the cut of access, `OffboardEnd` the last step of `offboard()`, one
  conditional update.
- **OrgTree.** A path is a sequence of ids, as in the code, and the rewrite of a subtree is the one
  `UPDATE` over a prefix (`Repathed`). The two look-ups of a move run side by side in the code, so
  each is a step (`MoveReadUnit`, `MoveReadParent`). Foreign keys are guards: a parent cannot be
  deleted while it has children, and a person in a deleted unit is left without one. `raced` says
  that some write relied on a read that was no longer true.
- **LeadBook.** The hand-over of `offboard()` is `CutAccess`, `ListLeads`, then for every lead in the
  list either `HandLead` (one person, in turn, or nobody) or `RouteRead` and `Route` with the rule
  that matches, then `HandCustomers` and `HandTasks`; it may die after any of them and be asked for
  again. The rest of the module is what moves work meanwhile: creation, closing, reopening,
  conversion, assignment, transfer, bulk assignment, edits of tasks and of rules, people
  switched on and off. `left[p]` keeps how far the hand-over of `p` got, and is forgotten as soon as
  something comes to `p`; `stale` keeps the requests that were overtaken.
- **Imports.** A commit walks the rows in the order of the file; a row is up to four statements
  (find the owner, route, create, mark) and each is a step that may be the last. `crossed` says that
  two requests were on the batch at one time, `adrift` which rows lost track of their lead.
- **Credentials.** Checking a password takes long enough for anything to happen between reading the
  account and acting on it; a half-finished sign-in (`challenge`) lives for minutes. `blurred` says
  that the failure counter was written while another failure was on its way, `late` that the
  password was replaced while a sign-in was. Secrets are counters: a password is how often it was
  replaced, an authenticator is its enrolment.
- **MobileCodes.** `issue` counts and reads, `retire` and `sendCode` are the two statements that
  follow; `VerifyRead` decides and `kill`, `missCode`, `accept` write. `crowded` keeps the numbers for
  which two codes were issued at one time, `slipped` that the number was written, or a code sent to
  another, while a proof of it was under way.

## 3. Runs

| Run | Bounds | Shows |
|---|---|---|
| `outbox_pods` | 2 events, 2 pods, batches of 2, 2 attempts | delivery, idempotence, dead-lettering and settling under crashes and overlapping claims; the relay implements `EventDelivery` |
| `outbox_two_publishers` (violated) | 1 event, 2 pods | two pods publish one event at one time |
| `sessions_races` | 3 sessions, 2 requests, 3 hops | chains, revocation and theft detection under races |
| `sessions_single_use` (violated) | the same | one token, two live successors |
| `lead_lifecycle` | 2 products, 2 requests, 1 customer, PAN and code | closings are recorded, conversions have customers, whatever overlaps; roll-up, holdings and outcomes agree when nothing overlaps |
| `lead_two_customers` (violated) | 2 products, 1 request, 2 customers | a lead won by product under a code and as a whole under a PAN makes two customers |
| `lead_merge` | 3 leads, 2 mobiles, 2 PANs, 1 entry, 2 requests, 4 begun | merging |
| `lead_enquiry_refused` (violated) | the same | a repeat enquiry is refused instead of attached |
| `visits` | 2 visits, 2 people, 1 date, 2 requests, 5 begun | visits and departures |
| `organisation` | 5 units, one of each kind, 1 person, 2 requests, 2 begun, every tree over them to start from | the tree stands whatever overlaps; paths are exact when nothing does; a move stays in its subtree |
| `imports` | 3 leads in 2 numbers, 3 people, 1 task, 2 rules, 2 requests, a file of 2 rows, 2 requests on it | nothing is left with who has left; the row table tells what happened; assignments, transfers and hand-overs give only to people who are there and take only where they may, conversions give to the lead's owner, and tasks that are done stay done |
| `credentials` | 2 requests, 3 links, 2 recovery codes, 3 one-time codes, 2 numbers, caps of 1 and 2, up to 6 begun | what opens an account is in order, ticks are of the number, caps give way by what overlaps and no more |

**Why the bounds are enough.** Every race in this code is between one read and the write that
follows, so two concurrent requests show it; a third adds only repetition. Three sessions give a
chain of two rotations and a fork, and never reach the hop limit, which the theorems have as any
number; three leads give a chain of merges and a shared survivor;
two products give a roll-up that mixes an open and a closed row; two events give a batch and an
order. `MaxBegun` and `MaxCustomers` bound counters that are unbounded in the code; with the
requests allowed there, every counterexample of sections 3 and 5 is found with room left,
and every mutant is caught. In `lead_lifecycle` the statuses a person may ask for by hand are
reduced to `LOST`, which is the one that demands a reason; the demonstrations use others. The
theorems of section 4 drop all of these bounds but `MaxBegun`, which they hold as an arbitrary
number. Symmetry is declared over sets of interchangeable model values and only in runs without
liveness properties.

**Mixes.** All requests of `LeadBook` at one time are more than TLC can enumerate, and most pairs
of them have nothing to do with each other. A behaviour of `imports` or `credentials` therefore
begins by choosing a *mix*: which families of requests come (`of`), how many of them in all (`max`)
and what is there at the start (leads, tasks and rules; whether the second factor is on). The mixes
of `MCImports` put the hand-over beside each of the others, and the import beside
creating, closing and routing; those of `MCMobileCodes` put sign-in beside the second factor and the
reset links, in twos and all together, and the numbers by themselves, which share nothing with the
account but the requests. What a mix leaves out is left out of the run only: the theorems are about
any set of mixes, the one that has everything included.

Two requests in `organisation` are enough for every overtaken read, and the start trees make the longer
histories: what a third request could have left behind, short of a race, is a start tree.

**Deadlock** is checked in the outbox runs, whose pods never stop for good. The others say
`CHECK_DEADLOCK FALSE`: their requests, sessions and customers are bounded and the model stops
when they are used up.

**Conditional properties.** Some properties hold
only as long as no row is written between another request's read of it and the write that
follows. The history variables `raced`, `stale`, `crossed`, `blurred`, `late`,
`crowded` and `slipped` say when that has happened and the properties
are stated for what is left. This is weaker than what the comments promise, and deliberately
so: it is what the code guarantees. The unconditional form of each is in the same module and
its counterexample in section 5. In `Visits`, `LeadLifecycle`, `OrgTree` and `LeadBook`
several properties hold whatever overlaps; they are stated without the condition.

**Fairness.** Only `OutboxRelay` has liveness. `setInterval` keeps calling `tick()` on every pod
and a stopped pod is restarted, hence weak fairness of the steps of each pod; the clock passes
`nextAttemptAt`, hence weak fairness of `BecomeDue`. No fairness is assumed of publishing
successfully, of writers, or of faults. `SettlesOnceFaultsCease` says that *if* pods stop
failing, every committed event is published or dead-lettered.

## 4. Proofs

All theorems hold for every value of the constants satisfying the named assumption of the module
(`RelayAssumption`, `SessionsAssumption`, `LeadAssumption`, `MergeAssumption`, `VisitsAssumption`,
`OrgTreeAssumption`, `LeadBookAssumption` with `ImportsAssumption`, `CredentialsAssumption` with
`MobileCodesAssumption`): typing of the bounds, distinctness of the "none" values, finiteness where
something is counted, and start states that one request at a time could have left.

- **`OutboxRelayProofs`**: type correctness; nothing is marked before it is delivered; one
  notification per event; no early dead-letter; distinct attempt numbers; settled rows are not
  claimed again; and the safety part of the refinement of `EventDelivery`. The attempt numbers
  need an invariant over everything a pod holds: a row's counter is at least the number each
  holder has, and equal for at most one.
- **`SessionsProofs`**: every step has one of five effects on the table (`EffectOfStep`), and the
  table's invariant survives each (`TableStep`). Acyclicity is that successors have larger
  numbers; finality of revocation that a live row is newer than the last revocation of all;
  `RaceIsNotTheft` needs where each walk stands in its chain. Of two properties that the code does
  not keep, it is proved when it does: a token is single-use while the user's requests are served one
  at a time (`OneAtATimeIsSingleUse`), since nobody then rotates a session that has a successor; and
  a rotation is of an account read as active unless it came in through the grace window
  (`OnlyRacesRotateUnchecked`).
- **`LeadLifecycleProofs`**: what the roll-up means for any set of products, type correctness,
  that closed leads carry their date and reason, and that converted products have a customer.
  The invariant adds what each pending transaction carries with it. `HoldingsAreMirrored`,
  `RollUpIsOfTheProducts` and `OutcomesStay` are about requests that do not overlap, and rest on a
  second invariant (`SoleInv`) that says of the one request under way what it holds locked and has
  read, and that this is still what is stored.
- **`LeadMergeProofs`**: the invariant's heart is `Fresh`: what a request computed from its read
  still holds at commit as long as nobody wrote to its leads. That merges
  do not go round is stated of sets (no set of leads points only into itself), not by
  recursion, so that it can be proved.
- **`VisitsProofs`**: `Sound` (a row and its party that make sense together) for the
  properties without a condition, `Fresh` for those with one. Nothing goes back to `PLANNED`,
  which is why a complete offboarding leaves no plans. `UnracedIsMetOnce` is what holds of `MetOnce`:
  only a check-out adds a meeting, and it ends a visit that was under way.
- **`OrgTreeProofs`**: that the tree stands whatever overlaps rests on the kinds: every path, however
  stale, goes down through them, and grafting such a path under another keeps it so
  (`GraftExtends` and the lemmas before it). That a quiet tree is exact adds one equation per unit
  (`Exact`) and needs the loop check, which the first part does not. `MovesStay` is the action
  property, for rewrites by any prefix.
- **`LeadBookProofs`**: `NothingIsLeftBehind` for the lead book, and for the lead book with
  imports. Whatever writes, goes through `Put`, and `PutKeeps` says that nobody keeps the mark of
  having left who is given something. So all that a hand-over owes is `Handing`: as long as it is
  the one that leads, its list covers what its person still owns, it gives nothing back, and when
  it comes to the tasks there is no lead or customer left. Requests overtaken by others need no
  care at all, which is why the property holds without a condition. `WorkGoesWhereItMay` is mostly
  the opposite: but for which customers and tasks a hand-over may take, all it says is of requests
  that were not overtaken. What it says of recipients is about assignments, transfers, bulk
  assignments and hand-overs. The customer of a conversion goes to the owner of the lead, who need
  not be active, and whom an edit of a task, a new task or a new lead names is not looked up by
  the code: the property says nothing of them. `Fresh` says of every request that what it has read
  and is about to rely on (who is active, what nobody owns, which lead is open, which task is not
  done) is still so, unless the request is in `stale`; from there each action has its few lines.
  `RulesHaveAnAnswer` is about `selectOwner()` alone: its answer is defined by counting places in a
  list, and that there is a person at the place a cursor names takes induction over the list, done
  here with the least and the greatest element of a finite set.
  `RowsAreTold` rests on two invariants. `Told` needs no order between requests: a row that says it
  was imported names a lead that was made from it, and each importer carries which row it is at and what it
  has made of it. `Orderly` holds while the requests on the batch come one at a time: every other lead
  of a row is that of the importer at work or of a row in `adrift`. `RefusedRowsMadeNothing`
  draws from them when the comments about refused rows and repeated commits are right.
- **`CredentialsProofs`**: `AccountStands`, from what each request under way carries: a proof of the
  second factor or a recovery code it is about to spend, the counter it has read, its place under
  the cap (`Sound`, `Counted`, the cardinality lemmas). `TickIsOfThisNumber` and `CodesAreBounded`
  from the same idea for the codes (`Fresh`, `TriesHold`, `SendsHold`, `OneByOne`). Both are proved
  of `MobileSpec`, the specification of the run; `AccountStands` of `Spec` alone as well.

Each proof has one lemma per action or family of actions, an inductive invariant shown to hold
initially and to be preserved, and temporal conclusions of a few lines.

**Only model-checked:** liveness (`SettlesOnceFaultsCease`), since it rests on fairness, which is
out of the prover's reach; and the violated properties, which are refuted by a behaviour. Every
other property of a passing run is a theorem.

## 5. Where the code departs from what it says

Four runs of the project are violations, and "findings" in `PROJECT.json` quote both sides. More
were met on the way; each has a configuration that finds it (`tlc -config X.cfg MC<Module>`).

| Configuration | What is said | What happens |
|---|---|---|
| `OutboxRelayOrder` | ordering is per aggregate by `occurredAt` (outbox-relay.service.ts:31) | backoff and late commits reorder events |
| `OutboxRelayCrashLoop` | a row whose publishing kills the process is eventually dead-lettered (136-138) | the attempt is burnt, and nobody dead-letters it |
| `SessionsSurvivesRevocation` | a password change ends all sessions (auth.service.ts:504) | a rotation in flight creates one after it |
| `SessionsUncheckedRotation` | the account is checked before a rotation (406-407) | the path through the grace window does not |
| `SessionsRefusedRace` | a racing refresh is answered (session-rotation.e2e-test.ts:65) | some interleavings refuse it |
| `LeadSkew` | a lead's status is derived from its products (lead-product.ts:54-55) | two transactions roll up from each other's old rows |
| `LeadErasedOutcome` | a closed product is not removed (leads.service.ts:2355-2358) | an edit that read it open deletes it after it closed |
| `LeadInterest` | the array of interests follows the rows (2351-2353) | a crash between the two transactions of an edit |
| `LeadConversionDate` | the first conversion date is kept (2557-2558) | every conversion that leaves the lead converted stamps it anew (1556-1559, 2788) |
| `LeadConversionFails` | a conversion fills in a missing PAN (2701-2709) | another customer has it, and the conversion fails |
| `LeadReopened` | a closed lead reopens only by hand (enums.ts:183-184) | a product change reopens it |
| `LeadMergeStranded` | history follows the person | an activity lands on a lead merged meanwhile |
| `LeadMergeMutual` | merges end at a survivor | two overlapping merges point at each other |
| `LeadMergeOverwrites` | a merge only adds | a PAN given meanwhile is overwritten |
| `LeadMergeOrphans` | a lead with a customer is never merged away | it is, when converted meanwhile |
| `LeadMergeReopened` | a merged duplicate is closed (merge.ts:17-19) | the status can be set back by hand, no race needed |
| `VisitsUnhappen` | a visit that happened cannot un-happen (contracts/visit.ts:225) | a cancellation that read `PLANNED` lands after check-out |
| `VisitsTwice` | one visit is one meeting | two check-outs are two meetings on the timeline |
| `VisitsClaims` | a cancelled visit cannot carry an expense claim (visits.service.ts:1074) | a claim made while it was planned stays |

The properties of the next table are in the modules of the runs named with them, and are found violated
when they take the place of the `INVARIANTS` of that run's configuration.

| Property and run | What is said | What happens |
|---|---|---|
| `PathsFollowParents`, `organisation` | a half-moved tree is a data-visibility incident, not a retryable error (org-units.service.ts:189-191) | a move beside another move, or beside a creation, leaves paths that are not the parents' |
| `NobodyWorksInAClosedUnit`, `organisation` | nobody is left scoped to something switched off (156-158) | a person reinstated, or posted meanwhile, is |
| `ManagersAreSenior`, `organisation` with two people and two levels | a manager is more senior than who reports to them (`validateReportingLine`) | an edit of the level alone does not look |
| `RefusedMeansNotMade`, `imports` | a row that failed was not imported, and can be retried by itself (imports.service.ts:351-353) | the lead was made and the mark failed; and a committed batch takes no retry (146, 306). True of every row not in `adrift` while requests come one at a time (`RefusedRowsMadeNothing`) |
| `ImportedOnce`, `imports` with `Mixes <- MCDoubleCommit` | a row is imported once | two commits that overlap, and a first lead that was closed between them, make two; one at a time, only a row in `adrift` can (`RefusedRowsMadeNothing`) |
| `PasswordEndsSessions`, `credentials` | changing a password ends every other session (auth.service.ts:504) | a sign-in that had passed its check, or a challenge answered later, opens one on the old password |
| `FailuresAreCounted`, `credentials` | failures are counted and lock the account (791-803) | parallel failures count once, and a late one lifts the lock |
| `OneGoodCode`, `credentials` | an earlier code does not stay valid beside a new one (otp.service.ts:107-114) | two codes issued at one time do not retire each other |
| `TickFollowsTheNumber`, `credentials` | the tick does not stay on a number nobody dialled (leads.service.ts:1114-1117) | a code sent to the old number, or a tick from a screen that shows it, ticks the lead with the new one |

Other things that the models show by what they need, without a configuration of their own:

- The comment at assignment.service.ts:175-176 says that the cursor advances atomically so that
  parallel imports rotate evenly. The increment is atomic, but the cursor that chose was read
  before it: two requests at one time choose the same person.
- `bulkAssign` hands out what nobody holds (leads.service.ts:1394-1402), and writes by id what it found
  unowned: who was assigned in between loses the lead. In `WorkChangesHandsRightly` this is the
  condition `r \notin stale`, as it is for the leads that a hand-over has listed.
- An import's `assignToUserId`, the `ownerId` of a new lead and the assignee of a task, new or edited
  (tasks.service.ts:240-252 asks for the scope of the caller alone), are never asked whether they are
  active, nor is the owner of a lead when its customer becomes theirs, and a lost lead of somebody who left can be reopened into their hands.
  `left` is forgotten for whoever is given something in this way, and `WorkChangesHandsRightly` makes no
  claim about who receives by these ways.
- With `UNASSIGN` and `RULES_ENGINE` the customers and tasks of who leaves stay with them:
  `NothingIsLeftBehind` asks for them only of the other two.
- Two requests racing with one reset link *can* both succeed (auth.service.ts:670-671): the
  transaction marks the link used without asking whether it still is unused.
- A recovery code is spent by an attempt to disable the second factor whose password was wrong
  (mfa.service.ts:170-173), and answering a challenge does not ask whether the account was locked
  since.

Also seen while reading: `MISSED` is in the visit transition table and nothing sets it; the
offboarding preview counts checked-in visits as handed over (offboarding.service.ts:63-84) while
only planned ones are cancelled (243), so a visit under way when somebody leaves stays
`CHECKED_IN` for ever.

## 6. Plan

Done, in this order: outbox, sessions, lead lifecycle, merging, visits; then the organisation
tree, the lead book with hand-over, rules and imports, and the account with its mobile codes. Each
has its runs; every property of a passing run but the one about liveness is proved, and for
some of those that the code does not keep, the condition under which it does.

Left, in the order of what it would add:

1. Campaign and event status, and the booking of presentations: the shape of `Visits` with less at
   stake.
2. The insta-lead, a lead with its visit in one request, as a composition of `LeadBook` and `Visits`.

**What the map covers.** The map names a small share of the repository's lines. Most lines are the
web application, read-only queries, validation schemas, seeds and formatting, which hold no state
that the properties could be about; of the handlers that do change state, those of campaigns,
events, presentations, masters, partners and documents are left out (section 7), as are single
writes elsewhere. "components" in `PROJECT.json` says of each part what is in and what is not.

## 7. Not modelled

- Reading and presentation: lists, dashboards, reports, exports, masking, the web interface.
- Masters, partners, campaigns, events, presentations, sales targets: one read and one write of
  one row. Campaign and event status have the stale-status hazard of `Visits` with less at stake.
- Calls out: mail, SMS, geocoding, speech, virus scanning, object storage. A failed send is
  recorded and not retried.
- The audit log is written after the fact and decides nothing. Reference numbers are one atomic
  upsert.
- Values: amounts, addresses, coordinates, scores, names, message texts. The lead score and the
  sales rating are pure functions, candidates for checking against a reference definition.
- Access decisions beyond "active" and "theirs": roles and scopes only filter reads.

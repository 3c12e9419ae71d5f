# HR agency system: a verification development

The repository is a modular monolith (.NET) for a recruitment and staffing agency, with four
services around it and a frontend (TypeScript: a server of its own and screens in the browser). Its
modules keep their state as event streams in Marten, talk to each other by
messages on Wolverine's local queues, and answer most questions from projections that an
asynchronous daemon brings up to date. Almost every hard question about it has one of three shapes:

* a handler **reads something and commits later**, and what it read was a projection that lags, or
  another stream, or its own stream read without the row;
* a message **arrives twice, late, in another order or never**, because its queue is parallel and
  in memory, or durable and at least once;
* a worker **stops, or an external system fails, between two steps** that do not share a transaction.

The frontend meets the first two again on a smaller scale: a screen shows a cached answer while calls
and reads overlap, and the browser's cookies change under requests that were sent with older ones.

This project models the parts whose correctness rests on such questions, checks them with TLC on
small instances, and proves their main properties with TLAPS for every value of the constants.

Contents: 1 inventory · 2 how commands, projections and messages are modelled · 3 the modules and
the code · 4 runs, bounds, fairness · 5 what disagrees with the repository's own words ·
6 proofs · 7 what is only model-checked and what the models leave out · 8 not modelled.

## 1. Inventory

State is an event stream per object unless said otherwise; "M" marks what the modules here model.

| Component | State | Operations | Talks to |
|---|---|---|---|
| Workers – assignments (M) | assignment streams, `AssignmentProjection` (async) | plan, update, start, end (three ways) | reads worker, project, position; sends `AssignmentPositionStaffed` / `Unstaffed` to Projects |
| Workers – people | worker streams, document / e-mail reservations, documents, authorisations | register, update, change stage, documents, authorisations, `ProjectPositionRenamed` | sends `WorkerRegisteredFromRecruitment` to Recruitment |
| Projects – seats (M) | `AssignedAssignmentIds` of a position | the two staffing messages | – |
| Projects – the rest | project and position streams | contracts, documents, contacts, compliance items; add, rename, archive, restore positions | sends `ProjectPositionRenamed` |
| Feeds (M) | table `jobs.job_feed_tasks`, two files per organization in object storage, `feeds.job_posts` | schedule, fetch a batch, generate, store XML, store JSON, complete, fail | reads posts projected from Recruitment |
| Notifications (M) | RabbitMQ queues and dead letters, `notifications.processed_events` | consume, claim, send, release, retry, dead-letter, replay | mails relayed by the monolith's outbox, SMTP host |
| Agency – chart (M) | one stream for the whole chart | create, rename, move, archive unit; add, remove member; assign, clear head | asked by time sheets who may decide |
| Agency – time sheets (M) | a stream per person and month | save / remove day, submit, approve, return, settle, comment | the chart; mails |
| Agency – employment, workbook | employment streams | start, change terms, end; Excel export | read by time sheets |
| Teams (M) | team streams, table of membership reservations with a unique index | create, rename, add / remove member, change role, `AssignUserToTeam` | sends `TeamMembershipChanged` to Identity |
| Identity – copy of the team (M) | `TeamInfo` on a user | create user with a team, `TeamMembershipChanged` | sends `AssignUserToTeam` |
| Identity – sessions (M) | rows of refresh tokens, in families | login, renew, logout, revocation with a changed password | asked by the frontend's server |
| Identity – the rest | users, login documents, reset saga, API keys | change / reset password, roles, impersonation | mails, a scheduled saga timeout |
| Recruitment | job posts, candidates, applications, interviews, notes | publish, assign recruiter, apply, move through statuses, interview, mark as worker | Workers, Company counters, mails |
| Forms – definitions (M in part) | a definition with its draft and published versions | save draft, publish, archive; create, rename | takes system fields from the catalogue |
| Forms – the rest | system-field catalogue, responses | define / archive fields, start / draft / submit / correct a response | pins a response to a version |
| Tasks (M in part) | task streams, a projection behind the boards | complete, reopen; create, edit | `OpportunityTaskCompleted` (durable) to Sales |
| Sales | opportunities and activities | stages, follow-ups, activities | hears of completed tasks |
| Company, LegalEntities, JobDescription, Organization | one stream each, reserved tax ids and slugs | create, edit, change status | Company counts published posts by messages |
| Compliance | constants | lookups | – |
| FileService, Files | object and row | store, read, delete | S3 |
| ReportsService, read model | rows for reading | – | projections |
| Frontend – server session (M) | three cookies of the browser, the map `exchanges` of renewals under way | store, renew, clear, proxy a call and retry it once | the API's refresh endpoint |
| Frontend – form builder (M) | layout on the screen, layout last sent, query cache | edit, save, publish, archive | Forms |
| Frontend – task board (M in part) | cached boards per range, ticks under way | tick; create / edit a task | Tasks |
| Frontend – a person's team (M in part) | team the drawer opened on, whether the person is said to be on none | move, change role, leave; create / edit a user | Teams, in two calls |
| Frontend – pickers (M) | text, chosen id, list, requests | type, choose, clear, open, close | suggestion endpoints |
| Frontend – the rest, with a generated API client | tables, forms, filters | one call, one answer | the API |
| Api, SharedKernel, Web, EmailTemplates, Observability, PlatformSeeder | no business state | endpoints, clients, rendering, metrics, demo data | – |

What makes each one correct:

* **Assignments and seats** – nobody works two positions at once; an ending is final; a person's
  period is a period; a position counts the people who sit on it.
* **Feeds** – every organization's files are regenerated, agree with each other, are as fresh as
  the task that made them, never go back in time; a task ends.
* **Notifications** – each committed mail is sent, once, or can be accounted for.
* **Chart** – it is a tree; a person has one place; the screen that lists subordinates and the
  check that lets somebody decide for them give the same answer.
* **Time sheets** – what payroll settles is what the owner submitted and somebody else approved.
* **Teams** – one team per person; no team without people; Identity's copy ends up right.
* **Sessions** – a session in use lasts; one signed out of is over (but for one gap, section 5);
  nobody slips into another one.
* **Form builder** – what an author typed is not dropped, and what they publish is what they saw.
* **Task board** – a tick ends as what the API made of it, however many overlap and fail.
* **A person's team** – what the drawer says after half a move is true.
* **Pickers** – the list belongs to the text above it.
* **Recruitment → Workers**, **positions' names**, **password reset**, **responses to forms** – one
  file per person, two live positions of a project with different names, a link that works once, a
  response judged by the version it was started on: section 8 says why these are not modelled.

`PROJECT.json` lists the hazards with the line where each one bites and the properties that watch
it. Four have no property, and each has a note that says why: nothing promises the contrary, or
another module models the same readers, queues and writers.

## 2. How the infrastructure is modelled

**Commands.** A Wolverine handler loads what it needs, checks, and commits events and outgoing
messages in one transaction (`AutoApplyTransactions`, `SetupMartenExtensions.cs:89`). Three cases:

* A handler that decides from its own stream alone, fetched for writing, is **one action**: the
  version it read is compared at commit, so a commit that succeeds read the current state; a
  handler with exclusive access holds the row besides.
* A handler that also decides from elsewhere (a projection, another stream, the clock) is **two
  actions**, a check that puts a record into a set of calls in flight (`calls`, `creating`,
  `saving`) and a commit. Everything may happen in between. In `Staffing` a commit removes the
  other calls on the same stream, and in `Teams` a call remembers the version it read: both say
  what Marten's version check does.
* A handler that reads its own stream **without** the row and then appends (creating a unit,
  saving a day) is two actions with nothing compared.

**Projections.** Where a handler reads an asynchronous projection, the projection is a variable of
its own with an action that brings it up to date at any later time (`ProjectAssignments`). Inline
projections and `FetchLatest` are the stream itself.

**Messages.** Local queues are parallel, so no order is kept. Queues the modules do not configure as
durable live in memory: a crash loses what waits (`Staffing!Crash`). Durable ones deliver at least
once (`Teams!HandleNotice` may leave the notice in place). No module sets a retry policy, so a handler that throws
gives its message up to the dead letters (`Staffing!GiveUp`, `Teams!GiveUpNotice`, `Teams!RefuseRequest`).

**Deletions.** A `DELETE ... WHERE` is a statement under READ COMMITTED: it sees the rows committed when
it began, waits for those among them that another transaction has locked, and takes no row that was
committed later. Where another transaction may insert such a row (`Sessions!RevokeFamily`), the model
chooses when the statement began, at or after the moment its transaction found what to delete.

**The browser.** A call of a screen is sent, served and answered in three steps, in any order with the
others, and may be refused, or lost before or after it was served. Calls through the proxy are tried
again once after a renewal; a server function that calls the API itself is not. The query cache
(TanStack Query, external) is modelled by how the screens use it: one read of a key at a time, joined
when the window gets the focus, dropped and started again when a call invalidates the key. React
state is what the last render saw: where the code keeps a `ref` beside it, so does the model.

**History.** Variables marked `history` in the modules record what happened (terms read, messages
ever sent, hours submitted). No guard of an operation reads them, except where they number something for a
bound; they let an invariant say *what kind of* execution explains a state.

**Plausible bugs.** Each module also has small operators that describe the same step with a likely
mistake (`ReservesAnyway`, `EndUnchecked`, `MayRetryForEver`). No specification uses them. They are
there to be put in place of the definition next to them, to see that the property about that step
does notice: `PROJECT.json` names, for each property of a passing run, one such replacement.

## 3. The modules and the code

`PROJECT.json` maps every definition to its lines. In outline:

**Staffing** (`Workers/Application/*Assignment*`, `Workers/Infrastructure/Query/AssignmentsQueryRepository.cs`,
`Projects/Integration/AssignmentPosition*Handler.cs`, `ProjectPositionProjection.cs`).
`CheckPlan`/`CommitPlan`, `CheckUpdate`/`CommitUpdate`, `CheckStart`/`CommitStart` are the three
handlers that look beyond their stream; `Finish` is the ending, in one step; `ProjectAssignments`
is the daemon; `Handle` is either handler in Projects: it succeeds, with the recount it triggers
(`Deliver`), or throws, and its message goes to the dead letters (`GiveUp`); `Crash` loses the queues. `HasOverlappingAssignment` reads `projected`, never `assignment`: the gap between the
two is the subject of the module. **Stay** is the abstract specification of the commands: stays that
are planned, revised, started and ended one command at a time, without checks on copies, calls in
flight or versions; `Staffing` implements it with `stay <- assignment`.

**Feeds** (`HrAgencySystem.Feeds`). `row` and `turn` (the places of the active
rows in order of `created_at`) are the task table. `Schedule` is the
scheduler's `INSERT … ON CONFLICT DO NOTHING`, `Fetch` the `UPDATE` over rows locked with
`SKIP LOCKED`, `Generate`, `StoreXml`, `StoreJson`, `MarkCompleted`, `Fail`, `MarkFailed` the steps
of `JobFeedProcessor` and `JobFeedGenerator`, `Interrupt` a stop or a database failure that ends
the batch where it is. `MarkCompleted` and `MarkFailed` may find their row closed under them.
**Publication** is what the module promises of two files and one task per organization, with one
writer and no queue; `Feeds` implements it with `asked <- since` and `task <- Task`, which forgets
who waits and who writes.

**Notifications** (`services/HrAgencySystem.NotificationWorker`, `EmailMessaging.cs`,
`MailKitEmailSender.cs`). `Commit` and `Relay` are the monolith's side; a listener goes through
`Receive`, `TryMark`, `Send`, `Acknowledge`, each with its failures: `TryMarkThrows` and
`ReleaseThrows` with or without effect, `SendThrows` before and `SendThrowsLate` after the host
accepted, `Release`, then `Retry` (a passing failure with cooldowns left) or `MoveToErrorQueue`.
`Crash` and `Replay` are the operator's part.

**OrgStructure** (`Agency/Domain/OrgStructure.cs`, `OrgUnit.cs`, `SupervisorPolicy.cs` and the
handlers under `Application/OrgUnits`). One action per command; `CheckCreate`/`CommitCreate` are
two since that handler reads without the stream's row. `Descendants` and `WalkUp` state the code's
breadth-first search and upward walk as least closed sets, which is what the loops compute on any
chart; `IsAbove`, `FirstHead`, `SupervisorOf`, `SubordinatesOf` are the four questions.

**TimeSheets** (`Agency/Domain/TimeSheets`, `Application/TimeSheets`). One action per command;
`SaveWorkDay` then `StartTimeSheet` or `AppendWorkDay` for the save that checks a copy of the sheet
first. Who stands above an owner is `MayBeAbove`, anybody but the owner, since the chart may change
between any two commands; `OrgStructure` models how it is found. **Month** is the promise: a month
for each owner that is there from the start, each day written alone by a save begun while the month
was open; `TimeSheets` implements it with `month <- MonthOf` (a sheet that does not exist yet is a
blank month) and `begun <- Begun` (a save forgets what its copy of the sheet said).

**Teams** and **Membership** (`HrAgencySystem.Teams`, `Identity/Integration/TeamMembershipChangedHandler.cs`,
`UserProjection.cs`, `CreateUserHandler.cs`). `AddTeamMember`, `RemoveTeamMember`,
`ChangeTeamMemberRole`, `RenameTeam` read and check; `Commit` compares the version (`Appends`) and
the unique index (`Reserves`) and writes events, reservations and notices together; `Abandon` is
any other end. `HandleRequest` is `AssignUserToTeam`, which goes through the same add. `Membership`
is the abstract specification: people move one at a time between no team and one team, and a team
is never left empty; `Teams` implements it with `founded <- Founded, place <- seat`.

**Sessions** (`frontend/src/server/session.ts`, `routes/api/$.ts` and the sign-in functions;
`Identity/Application/Users/Refresh`, `Logout`). `jar` is the browser's cookies; a request keeps the
ones it was sent with. `UseToken`, `Renew` and `Retry` are `currentAccessToken` and the proxy;
`RefreshSession` is `refreshSession` with `exchangeOnce`, `EndExchange` the end of a shared exchange,
after which everybody writes the outcome on an answer of their own. `ReadRow`, `Rotate`, `Refuse` are
the API's handler, read and commit apart; `FindSession` and `LogoutUser` are the sign-out, the search for
the token and the deletion of its family. A deletion takes the tokens issued before it began; if a rotation
committed since, `overlooked` notes where the rows that it left begin. `LoseAnswer`, `LoseLogout`, `LoseRenewal` the network.

**FormBuilder** (`features/forms/pages/FormBuilderPage.tsx` and its hooks, `Forms/Application` of
drafts, publications and archiving). `layout`, `sent`, `cached` are the reducer's state, the ref and
the prop; `Deliver` is a read coming back with the effect that follows; `OnPublish` is the two-step
publication, which `AfterRead` continues when its save has been read again. A layout is the set of edits
it carries and the state of the catalogue it was filled in from.

**TaskBoard** (`features/tasks/hooks/useTasks.ts`, the board's screen, completing and reopening in
`Tasks`, and the projection). `OnMutate`, `OnError`, `OnSuccess`, `OnSettled` are the callbacks of
`useToggleTask`; `previous` is the snapshot of **all** boards that an error puts back. The wait before the
reading again is a timer: `OnSettled` may come before the projection has the tick (`CaughtUp`), and `outdated`
then says so until a read shows the truth.

**TeamDrawer** (`ChangeUserTeamDrawer.tsx`, `useUsers.ts`). A move is a record that goes from step to
step (`FirstStep`, `ServeRemove`, `Continue`, `ServeAdd`, `ServeRole`, their failures). What it calls is
the promise `Teams` keeps: `Endpoint == INSTANCE Membership`, so the same abstract specification is
implemented by one module and used by the other.

**SuggestionPicker** (`components/ui/pickers/SuggestionPicker.tsx`). `After` is the chain of effects
that follows a change of the choice, the text or the list; `Send` the end of the debounce, which
supersedes earlier requests; `Answer` an answer to a request, superseded or not.

**Tab** puts the four screens side by side: the one that is open takes all the steps. They share the
rules of the cache and no state, so a property of a screen alone holds of it in the tab
(`TabIsItsScreens`), and one run explores all four.

**Composition.** `Staffing` composes Workers with Projects, and `Teams` composes Teams with Identity,
since a property spans each pair. Chart and time sheets meet only in "who may decide", mails and
their senders only in the outbox; each is therefore modelled alone with the other one free. `Sessions`
composes the frontend's server with the API's tokens, `FormBuilder` and `TaskBoard` a screen with the
aggregate behind it, `TeamDrawer` a screen with what `Teams` implements.

## 4. Runs, bounds and fairness

| Run | Instance | States | Properties |
|---|---|---|---|
| `staffing_calendar` | 1 person, 1 position, 2 assignments, 2 calls in flight | 492,939 | TypeOK, OverlapOnlyByRace, ImplementsStay |
| `staffing_seats` | 1 assignment, 2 positions, 1 call in flight, 2 equal messages waiting, crashes and failing handlers | 321,333 | SeatsAddUp, StaffedIsCounted (liveness) |
| `staffing_counts` | the same without crashes or failing handlers, 1 copy | – | SeatsAgree, *violated* |
| `feeds` | 2 organizations, 2 generators, batches of 2, 1 edit, interruptions | 74,391 | TypeOK, OneWriterPerFeed, FilesAgree, ImplementsPublication, TaskGoesOn (every step), TaskIsClosed (liveness) |
| `feeds_stopped` | 1 generator, no edits | – | QueuedAgain, *violated* (liveness, under fairness) |
| `notifications` | 1 mail, 2 listeners, 2 retries, 2 relays, 1 stop, 1 replay | 30,663 | TypeOK, TwiceOnlyAfterLateFailure, Accounted, ClaimServed, MailGoesOn (every step), CommittedIsDelivered (liveness) |
| `notifications_twice` | 1 mail, 1 listener, 1 relay, no stop | – | NoDoubleSends, *violated* |
| `orgstructure` | 4 units, 3 people, 2 names, 2 racing creations | 95,489 | TypeOK, ChartIsATree, EveryoneIsPlaced, ScreenMatchesAuthority, SupervisorMayDecide, AuthorityIsOneLine, AmbiguousOnlyAfterRace |
| `timesheets` | 1 sheet, 2 people, 3 days, 2 durations, 2 racing saves | 1,462,462 | TypeOK, HoursAreAgreed, DecisionsAreSigned, ImplementsMonth |
| `teams` | 2 teams, 2 people, 2 roles, 2 names, 3 events per team, 2 notices per person, 2 calls in flight | 2,139,322 | TypeOK, RosterMatchesSeats, CopyFollowsRoster, ImplementsMembership |
| `sessions` | 2 sign-ins, 2 requests, 3 tokens of a family, 1 loss | 2,365,889 | SessionSurvives, SignedOutIsRevoked, IdentityChangesBySignIn |
| `tab` | builder: 2 edits, 2 calls, 2 steps of others; board: 1 task, 2 ticks, 2 ranges, 1 tick elsewhere, 2 events the projection lacks; drawer: 2 teams, 2 people, 2 roles, 2 moves, 1 step of others; picker: 2 items, 2 words | 3,664,236 | EditsSurvive, PublishCarriesEdits, BoardSettles, DetachedIsTrue, PickerSettles |

Why these bounds are enough to be interesting:

* *Calendar.* Overlap is a relation of two assignments of one person, and the race needs two calls
  with one lagging row; an open-ended and a closed period give every way to overlap.
* *Seats.* A wrong count needs one assignment that leaves and comes back, or moves and ends, so one
  assignment, two positions and two waiting copies of one message.
* *Feeds.* Two replicas contend for two rows; a batch of two strands one row behind another; one
  edit separates fresh from stale; attempts go to their limit by themselves (never bounded).
* *Notifications.* Mails share nothing but listeners. Two copies in two hands, a replay and a stop
  cover each pair of failures; more retries repeat the same loop.
* *Chart.* A loop needs two or three units under a top, a wrong supervisor needs a head above a
  head, twins need two creations. The model has no counters, so nothing but the sets is bounded.
* *Time sheets.* Sheets share nothing; two saves are enough to both be first and to both be late.
* *Teams.* Both of a team of two can leave at once; one person can be wanted by two teams at once;
  two notices can pass each other. A request handled again *after* the person was removed again
  needs longer streams than the run has; the proof of the same properties has no such limit.
* *Sessions.* Sharing, overtaking and replaying are between two requests; a third token is what a
  renewal issues after one that was overtaken; a second sign-in is what a stale answer could spoil.
* *Tab.* An edit made before a call and one made after it, two calls that pass each other, two ticks of
  one task (a snapshot that holds the other's move), the board of another range, a move from team to
  team tried again, and a text that finds nothing next to one that finds something.

Symmetry is used in `staffing_calendar`, `orgstructure`, `teams`, `sessions` (sign-ins, requests) and
`tab` (edits, calls, ticks), over sets whose members the
specification never distinguishes. None of these runs checks a liveness property.
`CHECK_DEADLOCK FALSE` appears where the system may come to rest: `feeds` and `notifications`, when
every task or mail has been dealt with or given up and the bounds are used up, and `teams`, when the
version bound is reached and all messages are handled. The others never stop: a browser can always send
a request, and a screen always be read again, typed in or closed.

**Fairness.** `Staffing!FairSpec`: weak fairness of `Handle(m)` for each message – local queues
have listeners for as long as the process runs and no other traffic can keep a waiting message from
being taken; whether its handler succeeds or throws is not assumed. `Feeds!FairSpec`: `Schedule(o)`, `Fetch(g)`, `Advance(g)` – two timer loops, and a
batch in hand is worked through; whether a step succeeds is not assumed. `Notifications!FairSpec`:
`Relay(m)` (the durable outbox agent), reception of a mail by *some* listener, and progress of what
a listener has in hand, well or not. No fairness is assumed of users, of the daemon, of crashes or
of success. `OrgStructure`, `TimeSheets`, `Teams`,
`Sessions` and `Tab` make safety claims only: what their invariants say of a state at rest is said
whenever rest is reached, and nothing in the code says when a user stops.

## 5. Where the repository says something else

Each of these is a run that must find its property violated.

* `SeatsAgree` (`staffing_counts`): the comment at `UpdateAssignmentHandler.cs:91-93` wants the
  counts to describe who sits where "either way". The two message types have queues of their own; an
  assignment that ends while its *staffed* message waits can have *unstaffed* handled first, and is
  then counted for ever, without any crash or failing handler. What does hold is `SeatsAddUp`: a count is wrong only
  for an assignment that was both staffed on and unstaffed from that position, or one of whose messages was lost: to the
  dead letters, where `AssignmentPositionStaffedHandler.cs:13-17` once found five, or to a crash.
* `QueuedAgain` (`feeds_stopped`): specification 007 (lines 19-20) promises every organization a task
  every 30 seconds. A generator that stops with a batch in hand, or whose `MarkFailed` throws,
  leaves rows PROCESSING; nobody takes those up, and the unique index over active rows turns every
  later insert into nothing. What does hold is `TaskIsClosed`, for tasks not interrupted.
* `NoDoubleSends` (`notifications_twice`): `Readme.md:294` says at least once "without double
  sends". If the connection breaks after the host accepted the mail, the claim is given back and the
  retry sends again. `TwiceOnlyAfterLateFailure` says this is the only way.

Smaller differences, noted and not run:

* Specification 007 (line 20) gives up "after 3 attempts"; an attempt is counted at the fetch and again
  at the failure, so the second try is the last.
* ADR-0003 (line 47) asks `UseDurableInbox` of every cross-module message; the staffing messages,
  `ProjectPositionRenamed` and `WorkerRegisteredFromRecruitment` use in-memory queues.
* `IdentityModule.cs:68-70` counts on "that envelope's retries", and no retry policy is configured.
* Specification 014 wants a copy of the team that "never goes stale" and accepts unordered notices as
  a risk; `CopyFollowsRoster` states exactly what remains.
* `TimeSheetRules.cs:19-20` tells the owner a submitted sheet cannot change; a save that was
  already past its check still changes it, for the days named in `HoursAreAgreed`.
* `OrgStructure.cs:16-17` calls names unique among siblings; two racing creations make twins.
* `server/session.ts:124-126` shares an exchange so that no request replays a spent token; a request
  sent with the old cookies and served after the exchange ended replays it, and the family is revoked
  (the last case `SessionSurvives` excepts). So does a proxied call renewed twice: the retry after a
  401 exchanges the token the request came with.
* `server/session.ts:93-94` says a refusing API ends the session; a failed connection, which
  `requestNewSession` turns into the same `undefined`, clears the cookies too.
* `LogoutUserHandler.cs:24-25` deletes the whole family because a rotated-away token "would otherwise still
  be exchangeable after the user signed out". The replacement that a rotation commits while the `DELETE`
  runs is not deleted and stays exchangeable; likewise after a replay or a changed password.
  `SignedOutIsRevoked` says that nothing but this token and its successors does.
* `useTasks.ts:89-91` reads the board again "once the projection has caught up", and `useProjectionWait.ts`
  waits 1500 ms whatever the projection does: after a slower one the old answer stays until the next read.
* `FormBuilderPage.tsx:56-60` speaks of edits made while a save is on its way. Two overlapping saves,
  a save whose answer was lost, or a colleague's draft read again still take the place of unsaved
  edits: TLC finds each when the matching `Disturb` is dropped. That is what `EditsSurvive` leaves out.
* `useTeams.ts:129-131` knows that a rename fans out to the users, and invalidates the teams alone.
* `useTag.ts:29` invalidates `applicationKeys.list()`, whose last element is `undefined` and matches no
  list that was asked with filters; the same holds of the candidates.

## 6. Proofs

All proofs are for arbitrary sets of identities and arbitrary bounds, from the named assumption of
each module (which values lie outside which sets, which constants are numbers). TLC evaluates the
assumptions in every run.

**Staffing_proof.** `TypeCorrect`; `OverlapRace`, `PeriodsStayWellFormed` (invariants);
`FinalStays` (action property); `Implements` (every behaviour of `Staffing` is one of `Stay`);
`SeatsCount`; `StaffedIsServed`. None is inductive alone. For the calendar we add what
a call in flight knows: its own assignment is still as it saw it, since a commit removes the calls
that read the same stream, and what it read leaves its period free (`CallsInv`); committed
assignments inherit the latter (`SawInv`). The same invariant makes a commit a step of `Stay`: what
was checked still holds when it is written. `OverlapIsACommonDay` is about the calendar's question
itself: two periods overlap for it exactly when they have a day in common. For the counts, `SeatsInv`
relates, pair by pair, which kinds of message were ever issued to what waits, what is counted and what
was lost. `StaffedIsServed` is the step behind `StaffedIsCounted`: a waiting message waits on until the
seat is counted or marked as having lost one, and one handling, well or not, is enough.

**Feeds_proof.** `TypeCorrect`; `OneWriterAlways`; `FilesAlwaysAgree`; `FeedAlwaysFresh`; `FilesGrow`
(action property). `HoldInv`: a row is in the hands of one replica, once, and stays PROCESSING until its
holder closes it, so an id in a batch that is not marked closed names the present row. On top of it
`WriteInv` follows the posts: what was read covers what was published at the insert, each file is
at most as new as what its writer read, and after both are stored they are equal. Turns, not a
sequence, order the queue, so that fetching the oldest needs no induction over positions.
`Implements` (every behaviour of `Feeds` is one of `Publication`): the insert for an organization is
`Ask`, the unique index being its guard; the two stores and the completion map by `WriteInv`; a claim,
a failure that may be tried again, an interruption and whatever else happens to the queue are stutters. `TasksGoOn` (action property): a task that waits is kept until somebody has
it, and every step of who has it comes nearer to its end, by a measure that counts six steps for each
task before it in the batch and those left of the one at hand.

**Notifications_proof.** `TypeCorrect`; `NothingUnaccounted`; `NoIdleClaim`; `NoSilentDuplicate`;
`MailsGoOn`. The
trace of a mail is followed from place to place: outbox, queue, hand, dead letters, and then sent or
taken by a stop. A listener that is about to acknowledge a mail it found claimed left it to somebody
who owes it. For duplicates: a listener between its claim and its release is alone
with its mail (`Alone`), and a mail that is not claimed, or still being sent, was accepted only by
sends that then threw (`Unsent`). `MailsGoOn` (action property) follows one mail through one step: it
leaves the outbox only for a queue, the queue only for a hand, and a listener that owes it something
comes nearer to its end with each step of its own, by a measure of six steps for each retry left and
those left of this try – unless the mail is settled, queued again by a stop, or left to the listener
that has the claim, which `ClaimServed` finds.

**OrgStructure_proof.** `TypeCorrect`; `OneTree`; `OnePlaceEach`; `OnlyRacesMakeAmbiguity`;
`ScreenIsAuthority`; `SupervisorAlwaysMayDecide`; `AuthorityIsALine`. "No loop" is stated as *no non-empty set of units hangs only under itself*,
which needs no induction over paths: moving u under p keeps it because p is not a descendant of u,
and the descendants of u and u together would be the set a loop lives in. `CreatingInv` says what a
creation on an old chart may still rely on. `UpIsDown`, that a unit is below another exactly when
the other is on its way up, carries `ScreenIsAuthority`.
For the last one the nearest head is the last unit of the way up whose own walk still holds every
headed unit of the way; there being no loop, two such units would be on each other's way.
`AuthorityIsALine` follows from the tree and from every head sitting in the unit they head: the way up
has no fork and never comes back, so those above a person are in one line of command.

**TimeSheets_proof.** `TypeCorrect`; `AgreedHours`; `NoEmptyMonth`; `SignedDecisions`; `NoDayLost`;
`Implements` (every behaviour of `TimeSheets` is one of `Month`).
`ExclusiveReplaces` describes once, field by field, what each command makes of a sheet; a save that
found a sheet will find one (`SavingInv`), and hours only appear while the sheet is out of hands.
`NoDayLost` assumes the month has a day. For `Implements`, an append is a write of one day by a save
begun while the month was open, a first write the same on a blank month, a refused start a save
dropped; the commands map one to one, comments to a stutter.

**Teams_proof.** `TypeCorrect`; `OneSeatEach`; `Implements` (every behaviour of `Teams` is one of
`Membership`: initial states map to initial states, `CreateTeam` to `Found`, a commit to `Join`,
`Leave` or a stutter, everything else to a stutter); `CopyIsRight`. `RosterInv` says that *as long as
the stream is at the version a call read*, what the call checked holds and its notices are true
(`Sound`); after another commit nothing is claimed of it, and it cannot commit. `CopyInv` says that
the latest notice about a person tells where they stand (`LatestArrives`), that what was applied last
was true when numbered (`AppliedIsTrue`), and that somebody never told about has no seat.

**Sessions_proof.** `TypeCorrect`; `SignedOutStaysRevoked`; `IdentityIsKept` (action property);
`SessionAlwaysSurvives`. A
family has all its rows or none unless a deletion overlooked some (`AllOrNothing`: rotation adds a row only
where one is, revocation takes what was there when it began), its first token is issued once, and every
token in flight was issued (`IssuedInv`): once revoked, nothing brings a row back. Where a deletion did
overlook some, the rows that are left begin where it did (`LeftFrom`), and a deletion never begins before
the token it was asked to find was issued (`SinceInv`), so the first token at least is gone. For the identity, the answer a request carries is of the session it
was sent in, or clears the cookies (`AgreeInv`). `SideInv` says what each kind of request
carries, and `Lasting` why a session in use lasts. Of one that nothing out of the ordinary happened to,
the API keeps the last token alone and every earlier one was exchanged (`over`). One exchange is
under way at a time: of the last token, until the API has issued the next, which nobody knows before
the exchange ends. And the last token is in the browser or on its way to it, so an answer that
comes late never takes it away. Each action has a lemma: what it does to its own session, and that it leaves
the others aside (`Aside`).

**Tab_proof.** `TabIsItsScreens` reduces the tab to its screens. *Builder* – `FormTypeCorrect`,
`EditsAlwaysSurvive`, `PublishAlwaysCarriesEdits`: while nothing disturbs (`Calm`), what the cache, the
server and the screen hold grows in that order, and whatever the browser has not seen yet is the
author's own save, still noted as sent; a read that comes back then never has anything to take away.
*Board* – `BoardAlwaysSettles`: the last event the projection lacks says what its task is, and was
made by a tick that still waits unless a wait ran out early, which `outdated` notes; so once none waits,
a read is the truth. *Drawer* –
`DetachedIsAlwaysTrue`: one move is followed at a time, and `StepOK` says for each of its steps where
the person stands. *Picker* – `PickerAlwaysSettles`: one request counts at most, and it asks for the
text that is there unless another is about to be sent.

## 7. Only model-checked, and what the models leave out

*Only model-checked:* the liveness properties (`StaffedIsCounted`, `TaskIsClosed`,
`CommittedIsDelivered`), which need fairness and `ENABLED`, out of the prover's reach. What each
claims of single steps is proved: `StaffedIsServed`, `TasksGoOn` and `MailsGoOn` say that what waits
goes on waiting until it is dealt with, and that no step of whoever deals with it leads away from the
end; that the steps are taken is what fairness adds and TLC checks. Every invariant, action property
and refinement that a passing run checks is a theorem.

*Only proved:* `PeriodsWellFormed` and `FinalIsForever` (`Staffing`), `FeedIsFresh` and `NeverOlder`
(`Feeds`), `NeverEmpty` and `OneDayAtATime` (`TimeSheets`) say of the code's own variables what `Stay`,
`Publication` and `Month` say of the abstract ones; the runs check the refinements instead.

*Left out of the modelled parts:*

* *Assignments*: documents and obligations, which rewrite lists on their own stream. The answers of
  snapshot repositories about projects and positions are unconstrained: any may be on offer.
* *Mails, feeds, chart, sheets*: the wording of mails and feeds and the Excel workbook; titles and kinds
  of units; the duration rules of a day; tenancy, permissions and validation of fields.
* *Sessions*: a sign-in is one action (its two calls concern nobody else); the thirty days after which
  token and cookies expire together.
* *FormBuilder*: a form's creation and name; the checks of a layout, which are a refusal. The version
  number is kept as whether there is one. Publish may be pressed again while its save is under
  way, which starts a second flow; the model has it. A failed background read replaces the builder by
  the error page and drops what was not saved; it is a disturbance in `EditsSurvive`.
* *TaskBoard*: the drawer that creates and edits a task, and the sales screens a tick also refreshes. `MaxBehind`
  bounds the events the projection lacks at once, for any instance, and the proof holds for every value of
  it. A wait that runs out before the projection has the tick, a range left and visited again while its old
  read is under way, a failed read and ticks on another device leave the board behind: `outdated` says so
  until the next good read.
* *TeamDrawer*: creating and editing users. A lost answer to the second call makes "on no team" untrue
  (`meddled`); a lost answer to the first leaves the drawer on the team already left, where trying again
  is refused until it is reopened; a drawer closed during a move never tells of its failure, and a move
  that succeeds closes whichever drawer is open. The last three are in the model, and the property
  does not forbid them.
* *SuggestionPicker*: a minimum length of the query, which no picker sets, and clearing on selection, which
  one form uses. While a request is being waited for the old list stands under the new text.

## 8. Not modelled

The components marked `not_modelled` in `PROJECT.json`, each with its reason there. In short:

* *Registration* (Recruitment → Workers), *e-mail addresses, tax ids, slugs*: one transaction over a
  reservation with a unique index, which `Teams` models for seats; the messages and counters that follow
  wait in memory, as those of `Staffing` do.
* *Names of positions* and their copies: readers and queues as for the name of a team in `Teams`.
* *Password reset and the login document*: a token that checks its own window and is used once, and a
  document whose last write wins, of which a property could only repeat the assignment.
* *The catalogue and responses of forms*: a response has one author and one version; the catalogue's
  append after a stale read is `OrgStructure!CommitCreate` again.
* *Sales, JobDescription, LegalEntities, Organization, Company, employment*: one versioned stream each with
  a table of statuses, where nothing concurrent is left beyond Marten's own check.
* *Compliance, files, reports, rendering, metrics, demo data, the job board*: no state that a decision
  depends on.
* *The rest of the frontend*: screens that send one call and show one answer. About 45,000 of its 109,000
  lines are a client generated from the API's description, and most others are markup; the
  program's own logic is the C# behind them, where most of the map points.

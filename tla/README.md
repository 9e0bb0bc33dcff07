# A TLA+ model of the Dolibarr MCP server

The server (`src/src/dolibarr_mcp`) offers MCP tools that read and change records of one
Dolibarr instance. It keeps no records itself: every tool call is a coroutine that sends
HTTP requests with the caller's own API key and forgets everything when it has answered.
What is hard about it is therefore not its state but its lack of one: each decision is
taken on a copy of a record that others may change before the write arrives, several
writes of one call can fail one by one, and a write that timed out may still be executed.
This directory models that, checks it with TLC and proves the main results with TLAPS.

Paths below are relative to the repository.

## 1. The system

| Component | Source (`src/dolibarr_mcp/`) | State | Operations | What makes it correct |
|---|---|---|---|---|
| Leave requests | `leave_requests.py` | none; Dolibarr's holidays | create, update, submit, approve, refuse, cancel, reopen, get, search | writes were previewed on the state they are based on; the status follows the workflow of ADR 0004; dates stay ordered; an answer tells what became of the write |
| Sales: lead assignment | `sales.py` 1089-1174 | none; a lead's `PROJECTLEADER` contacts | `lead_assign` | the lead does not lose its last leader; success means one leader, or an explanation for each other; failures are reported |
| Sales: creates | `sales.py` 645-857 | none; third parties, projects | `thirdparty_create`, `lead_create`, `project_create` | duplicates are shown before they are confirmed; a token creates once |
| Sales: updates, stages, states | `sales.py` 563-592, 705-752, 859-1087 | none; third parties, projects | two updates, stage change, open, close | the stage that is written is the one that was previewed; drafts are not closed; `applied` means the value was seen |
| Sales: searches | `sales.py` 349-429, 594-657 | rows of one call | three searches; gets, stage list | a walk over all offsets shows every row; an owner asked for is an owner shown |
| Client: lists | `client.py` 362-452, 562-691 | rows collected so far | eight list methods, one loop | no row twice, none silently dropped, an error beyond the bound |
| Client: requests | `client.py` 784-917 | shared connection pool | one GET, POST, PUT or DELETE | each failure becomes one of the error classes |
| Tasks | `tasks.py` | none; a project's tasks and their contacts | `task_assign`, `task_create` | the outcome and the `assigned` flag agree with what was read back |
| Time reporting | `reporting.py` | rows of one report | seven reports over a fan-out of requests | a report counts each line once; refuses only what is too large or inconsistent; nothing runs on after it |
| Invoices | `invoices.py` | none | search, get | as for the other searches |
| Credential, authentication | `credentials.py`, `auth.py` | one holder per HTTP request | store, get, clear | a key is used in its own request only; a refused key is told from a Dolibarr that cannot answer |
| Tools, application | `server.py`, `app.py`, `__main__.py` | none | wiring | |
| Models, configuration, errors, logging | `models.py`, `config.py`, `errors.py`, `logging.py` | none | parsing | |
| Deployment | `deploy/lan/deploy-release.sh` | release directories | deploy, roll back | the old release runs if the new one does not |

**Interaction.** A tool (`server.py`) takes the key from the request's holder and calls
one method of a service; the service calls `DolibarrClient`, one awaited request after
another (reporting: several at a time). There are no locks, no callbacks and no retries.
Calls meet only in Dolibarr, which other people use as well.

**Confirmed mutations.** A call with `apply=false` returns a preview with a token: a SHA-256
over the operation, its inputs and the state that was just read. A call with
`apply=true` reads that state again, computes the token again and writes only if it is
the one presented. Nothing is stored between the two calls and nothing is locked
between the second read and the write.

**Hard behaviours.** Reads, decisions and writes of several calls interleave at every
`await`; an edit from outside falls between a read and a write; a reply is lost and the
write is executed later or never; a write is acknowledged and ignored; one of several writes
fails; the same token is presented twice; rows move between two pages of a listing, or between two
calls of a walk; a page is exactly full; the requests of a fan-out end in any order and one of
them fails.
`PROJECT.json` lists them by line, under "hazards".

## 2. Modules

| Module | Models |
|---|---|
| `ConfirmedWrite` | abstract: what the confirmation protocol promises for any kind of record; `LeaveRequests` and `Creates` implement it |
| `LeaveRequests` | `LeaveRequestService`: all seven mutations, several calls at a time |
| `LeadAssign` | `SalesService.lead_assign`, several calls at a time |
| `Creates` | the creates of third parties, leads, projects and tasks, on top of `Paging`, several calls at a time |
| `Updates` | the six confirmed mutations of an existing third party, lead or task, several calls at a time |
| `Paging` | Dolibarr's pages of a table |
| `Listing` | the page loop of the client's list methods |
| `Search` | the five search tools over `Listing`, walked from the first offset to the last |
| `Requests` | how one request to Dolibarr ends, as operators |
| `Reporting` | one HTTP request from its header to the end of all it started, over `Requests` and `Paging` |
| `LeaveRequestsProofs`, `LeadAssignProofs`, `PagingProofs`, `ListingProofs`, `SearchProofs`, `CreatesProofs`, `UpdatesProofs`, `ReportingProofs` | theorems and lemmas on the module in the name |
| `MCLeaveRequests`, `MCLeadAssign`, `MCCreates`, `MCUpdates`, `MCSearch`, `MCReporting` | instances for TLC (`Listing` is run as it is) |

Definitions named `Mutant...` are plausible bugs in the definition that follows them.
They take part in no run as they stand; put in place of the definition, they break the
property they are listed with in `PROJECT.json`.

### LeaveRequests

Each call `c` is a coroutine. `pc[c]` tells at which `await` it is suspended: before the
call (`idle`), the first read (`read`), the write (`write`), the second read (`reread`).
An action is the code between two awaits. A GET has no effect, so its execution in
Dolibarr is one step with the code that handles its response. A write is not: `SendWrite`
puts it on `wire[c]`, and `Persist`, `PersistCreate` or `Discard` decide its fate at
any later time, also after `CallFails` ended the call. `Reject`, `Preview`, `Conflict`,
`NoOp` and `SendWrite` are the ways in which `update` and `_transition` go on after
their read (`create` has no first read: it starts from `Blank` and cannot fail there);
`Reread` is what they do after the second one. `CallFails` stands for every exception
of `_request_typed` and for the end of the coroutine.

Of a holiday the status, the two dates and the refusal reason are kept; no rule looks at
the other fields, which are part of the token and travel with the write like the reason does.
An update is modelled when it sets a date. Tokens are records, SHA-256 being injective
as far as anybody can tell; a caller can present only tokens that a preview gave out.
Dates are compared as days: the conversion to Dolibarr's timestamps (UTC midnight and
back) is one to one on days.

`Dolibarr` is external: it executes what it is sent, may refuse, may acknowledge without
effect, and other users may put any record with ordered dates in place of another or delete
it. It is assumed to do no check of its own, so no property rests on one.

`stale` is a history variable: the calls whose write met another record than they had
read. This is the window that the code leaves open and that its documents do not claim
to close; the properties say that nothing goes wrong except through it.

### LeadAssign

The lead's leaders are read twice: by `lead_get` for the owners (`ReadOwners`) and by
`_leaders` for the relations (`ReadRelations`); both are part of the token. Then come at
most one POST (`SendAdd`, `AddReturns`, `AddFails`) and one DELETE for each relation
(`SendDelete`, `DeleteReturns`, `DeleteFails`), each failure being recorded while the
loop goes on, and the final read (`Refresh`), whose failure is not caught (`ReadFails`).
`Lost` ends a call at any await, as the cancellation of its task or the end of its process does.
Relations are told apart by user, like the DELETE route does. Which order the loop takes
is left open.

`wire` holds the writes that were sent and that Dolibarr has not answered. It may execute one
(`Execute`), also after the call gave up waiting for it, refuse it (`Refuse`), or
acknowledge it and do nothing (`Ignore`): to the code any 2xx reply is a success (`AddReturns`,
`DeleteReturns` ask for a write that is `accepted`, not for one that is `executed`), and it compares
nothing with the lead it reads at the end. So neither `applied` nor the order of the writes says by
itself what the leaders are, and the properties name the exceptions one by one. `ousted`
are the calls whose user somebody else, another user or another call, removed while they
relied on it, and `joined` the leaders that somebody else added meanwhile (history
variables). `LastLeaderKept`: a call takes a lead its last leader only if it was
ousted or its POST was acknowledged and ignored. `SuccessMeansSoleOwner`: when a call answers
`applied` or `no_op`, its user is a leader with the same two exceptions, and each other leader
has joined or is one whose DELETE was acknowledged and ignored.

### Paging and Listing

`Rank` and `PageOf` are Dolibarr's list: the rows in the order of their ids, cut at
multiples of `PageSize` at the time of the request. `Listing` is the loop of the eight
list methods, which differ in path and columns only; `PROJECT.json` maps its definitions
to different copies of the loop. `Insert` and `Delete` happen between two pages.
`before`, `deleted` and `born` describe the history of the table.
The rows come back in the order of their ids: `list_invoices` asks for that order, the
others get it as Dolibarr's default order.

### Creates

`thirdparty_create`, `lead_create`, `project_create` and `TaskService.create` share one
shape, and `Creates` models it with the kind of record as part of the request. A call reads what
the record will belong to (`ReadContext`, and `ReadParent` for a task below another one), lists
the records among which duplicates may be (`NextPage` once per page; a project's tasks come
in one response), and goes on as a confirmed mutation does. The token binds the
arguments, what was read and the ids of the duplicates. The kinds differ in what is listed
(`Listed`: leads and projects share a table), in what counts as a duplicate (`Same`) and in
the end: a task that cannot be read back, or reads differently, gives `partial` with
its id, where the other kinds raise a mere error (`RereadFails`) although the record exists.

Of a row the fields that decide on duplicates are kept; a name, title or label is a value
after `_normalize_text`, and `Mail` stands for the VAT numbers as well, since both are optional
fields that are compared when given. A context or parent is `usable`, `changed` (usable, with
other data, so that tokens differ) or `unusable` (missing, closed, of another project).
`fresh` and `shifted` are history variables: the rows that appeared or were renamed since
a call began to list or while its create was on its way, and the calls under whose listing
a row was deleted. They name the two ways in which a duplicate escapes a caller, and
`DuplicatesWereFound` says that there is no third. `CreatedTwiceOnlyByRace` does the same
for a confirmed create that is sent twice, as after a timeout: as soon as the first has
arrived, the second is refused.

`ImplementsConfirmedWrite` maps the rows to the records of `ConfirmedWrite`, an id without a row
being an absent record, the tokens to its previews, and a create in flight to the
write that its call is authorised to do. `Affect` is Dolibarr's other users, in the table as well
as in the contexts and parents.

### Updates

The six operations have one shape: read the parts of Dolibarr that the decision rests on, decide,
write once, read the result. `Plan` lists the reads in their order, one awaited request each
(`ReadPart`): a lead is two of them (the project, then its leaders), a third party that is to
replace a lead's is read only when it differs, an unlisted stage code is resolved first, from
the stages that other leads show with it. `seen` keeps each part as the code sees it, which is
not always as it is stored: `Shown` cuts notes at 4000 characters and turns empty texts into
`None`, `Sent` puts country codes in upper case. `world` is Dolibarr, cut along the same
parts. After the last read comes the code up to the next await (`Decides`): `Reject`, `Preview`,
`Conflict`, `NoOp` or `SendWrite`. What follows the write differs: `task_assign` goes on after
a POST that failed (`PostFails`) and answers without knowing when the contacts cannot be read
(`RereadContactsFails`); an update of a third party or lead does not compare what it reads; the
other three do (`Shows`), after a lead that is no longer one was given up (`RereadLead`).

An instance is about one record: calls on different records meet in nothing. `Catalog` is the
operator's list of stages; its assumptions are what `LeadStageConfig` and its settings check at
start-up. `WritesWerePreviewed` says more here than for leave requests: the token holds the
resolved stage, so a code that has come to mean another stage since the preview ends in a
conflict. `TokensAreSpent` holds for values that Dolibarr shows as they were sent (`Normal`); an
update that proposes `de` for a country, or an empty text, finds a difference for ever and can
be repeated with one token.

### Search

A search keeps nothing between two calls: each lists the table anew (`ListPage`, the action
`GetPage` of `Listing` and what the rows hold), filters (`Filter` reads the owners of a candidate
when an owner is asked for), sorts, cuts, and reads the owners of the leads it returns (`Detail`).
`Call` begins it, `Continue` is the caller asking for the next offset while `has_more` is set. The
five tools differ in whether they sort, and in what they read for a row. `seen` counts how often
the walk returned a row; `stable` is a history variable, the rows that matched ever since the
walk began. `WalkIsComplete` bounds what others can do to a walk: one row missed for each edit.

### Requests and Reporting

`ErrorOf` is the status table of `_request_typed`, by method, kind of request and reply;
`HttpStatus` is what a client of this server sees of an error. `Reporting` puts them in context. An
HTTP request `r` gets an empty holder and is authenticated with one identity request
(`Receive`, `Authenticate`); the tool takes the key from the holder (`StartReport`, `Whoami`),
and from then on it is an argument of each `job`, the requests to Dolibarr that run at the
same time. A report of a task gathers three and reads its project after them, one of a project
gathers three, one of everything gathers two and then one for each task (`StartFanout`), of which
`Fanout` at a time hold a permit (`Acquire`). The list of all tasks and that of the users are
page loops: `NextPage` is a full page, after which the next one is asked for, `JobReturns` the page
that is not full, or any other response, and `Store` keeps what it carried. `JobFails` and
`JobOverflows` raise: the first failure answers the request, the other jobs run on. A job overflows
when it carries too many lines, when a project has too many tasks, and when the last page that a
loop may ask for is full. `Build` applies the checks of `_normalize_tasks`; if a
collection has several offending lines, which one comes first is left open. `Leave` clears the
holder.

Of a line the task it is booked on is kept, of a task its project; texts, hours and dates are left
out, so are the totals, which are sums over the lines of a report. Of the users only the pages are
kept. Dolibarr's responses are taken to be well-formed beyond what `unusable` stands for: a
timestamp that is no date and a line of another task than the one asked for, which raise
`InvalidDolibarrResponse` as an unusable payload does, are left out. A response with a line's
project is told from one without (`booked`), since only the former can be compared.

Others book, move and delete lines, and create, move and delete tasks (`Edit`) while a request
collects. A request about a task that was deleted may be answered with 404, or, for its lines, with
an empty list: which of the two Dolibarr does is not in this code, and both are modelled.
`moved` and `dropped` are history variables: the lines that others edited while a request was
collecting, and how many tasks they deleted while it was listing them. Between two pages, such a
deletion moves a task up a page, past the cursor: it is not listed and its lines are not counted,
although nobody edited them. `LinesCountedOnce` allows this for as many tasks as were deleted,
and nothing else.

## 3. Runs

| Run | Instance | Distinct states | Shows |
|---|---|---|---|
| `leave_workflow` | 2 calls, all operations, 2 days, 1 holiday, 1 edit | 1,114,356 | `TypeOK`, `WritesWerePreviewed`, `AnswersSettleWrites`, `ReversedOnlyByStaleUpdate`, `WritesFollowWorkflow`, `TokensAreSpent`, `ImplementsConfirmedWrite` |
| `assign` | 2 calls, 3 users, 1 edit | 190,084 | `TypeOK`, `WritesWerePreviewed`, `AnswersSettleWrites`, `SuccessMeansSoleOwner`, `EveryCallIsAnswered` |
| `assign_crossing` | 4 calls, 2 users, no edit | 983,645 | `LastLeaderKept`, `SuccessMeansSoleOwner` |
| `assign_refresh` | 2 calls, 1 edit | (violation) | `FailureAfterWriteIsPartial` does not hold |
| `search` | 5 tools, up to 5 rows, 2 pages of 2 rows, limit 1, 1 edit | 2,436,108 | `ListedOnce`, `MissedOnlyByDeletion`, `SearchTypeOK`, `WalkIsComplete`, `OwnerIsShown` |
| `listing_bound` | 3 pages of 2 rows, up to 7 rows | (violation) | `FailsOnlyBeyondBound` does not hold |
| `creates` | 2 calls, 4 kinds, 2 pages of 1 row, 1 edit | 1,350,180 | `TypeOK`, `WritesWerePreviewed`, `DuplicatesWereFound`, `AnswersSettleWrites`, `TokensAreSpent` |
| `creates_replay` | 3 calls, leads and tasks, up to 3 rows | 105,171 | `CreatedTwiceOnlyByRace`, `ImplementsConfirmedWrite` |
| `updates` | 2 calls, 6 operations, 2 stages, 1 edit | 959,027 | `TypeOK`, `WritesWerePreviewed`, `AnswersSettleWrites`, `AppliedIsThere`, `AssignedAgrees`, `TokensAreSpent`, `WritesFollowLifecycle` |
| `updates_inactive` | the same, with an inactive stage | (violation) | `InactiveStagesAreNotWritten` does not hold |
| `reporting` | 1 request, 4 kinds, up to 4 tasks on pages of 1, 2 projects, 2 lines, limits of 1 line and 3 tasks, 1 permit, 1 edit | 1,093,881 | `TypeOK`, `LimitIsExact`, `RefusedOnlyByRace`, `SuccessLeavesNothing`, `UnauthorizedIsDolibarrs`, `LinesCountedOnce`, `EveryRequestEnds` |
| `reporting_credential` | 1 request, 3 tasks, 2 permits | (violation) | `NothingOutlivesRequest` does not hold |

**Bounds.** A confirmed write takes two calls, a preview and the call that presents its token.
Edits from outside stand for any other writer, another instance of this server included, and come
between any two steps of a call. One is enough to come between a read and its write, with any record
to start from and any to put there; the theorems hold for any number. So the runs look at one
write next to one other writer; that nothing else comes of longer sequences of calls rests on the
proofs. The third call of `creates_replay` is a second create with the same token; for the
other modules a replay is covered by `TokensAreSpent`, which looks at the write of the first. Nobody
else edits in that run; that the creates implement the protocol next to edits is proved. One
holiday, lead or task is enough because no rule relates two of them. Two days make reversed dates
possible. Three users let an assignment add one leader and remove two, so that one removal
can fail and the other succeed. Two calls are one assignment that writes, so `assign_crossing` has
four: two assignments, to two users, that add and remove each other's; there the other assignment is
the other writer, and others do not edit. Pages of one or two rows and at most three of them let the
loop end on a short page, on an empty one, and at the bound. Five rows returned one by one make
a walk of several calls, each over several pages. Two stages, one in the catalog, and one
unlisted code that leads show with any of them are enough for a code to be resolved,
refused, and resolved to something else. Four tasks on pages of one, with
three pages allowed, give a list within its bound, at it and beyond it, a project of too many
tasks, and a list from which a deletion hides a task; one page of users is within its bound or at it.
Two lines, of which a report may have one, give a report below, at and beyond that limit, reached by
one response or by two; one permit makes the requests of the fan-out wait for each other. Requests to this server share nothing in the
model, so one is enough; the theorems hold for any number.
The instances reach what they are about: reversed dates, stale writes, partial answers, applied
calls, a lead that loses its last leader, a row that is missed, a report refused for each of its
limits, a line that moves between two tasks, a report that lacks the lines of a
task hidden by a deletion, a request for the lines of a deleted task. Calls are symmetric; symmetry is not
used in runs with liveness.
Deadlock is not checked: when all calls are answered the system stops.

**Fairness.** In `LeadAssign` and `Reporting`, `Step(c)` is weakly fair for each
call or request: a started coroutine is resumed when
its awaited request ends, and a request ends because `DolibarrClient` gives every
connection, read, write and wait for the pool a timeout (`client.py` 228-233). These are
timeouts between bytes, not for a whole response: a Dolibarr that sends a byte now and then
for ever is outside of the assumption. Nothing is assumed about Dolibarr executing a
write, about calls being made, or about other users. `EveryCallIsAnswered` says that this
is enough: no sequence of failures makes a call loop or wait for something that does not
come. For a report `EveryRequestEnds` adds that a permit of the semaphore always comes back, and
that the requests left behind by a failed one end as well. The other modules wait
in the same way, each call for a fixed number of requests or for the pages of a loop that has a bound;
liveness is not checked for them.

**Findings.** Four runs show where the documents say other than the code does.
`assign_refresh`: ADR 0003 says that a failure after the first write gives `partial` with a
refreshed lead; a failing final read (`sales.py` 1166) raises a mere error, after writes
that were executed. `listing_bound`: the README of the repository says that requests fail
*beyond* 1000 tasks and that searches process *at most* 10,000 requests; a table of exactly
that size fails too, since the last page is full and the loop (`client.py` 375) cannot tell.
`updates_inactive`: `docs/architecture.md` says that a configured inactive stage is rejected before
preview; when leads show that stage with a code that the catalog does not list, the code is
resolved to it (`sales.py` 582-592) without that check. `reporting_credential`: ADR 0002 says that
no background task may retain a credential after the request completes; `asyncio.gather` raises
the first failure and leaves the other requests running, each with the key as its argument
(`reporting.py` 542, 554, 564, 574).

## 4. Proofs

All of these are theorems of the specification for every value of the constants: any set of
calls, requests, records, stages, tasks and lines, every number of edits, every page size and
bound. They state every invariant and action property that a passing run checks, and both
refinements. Their assumptions are the named `ASSUME`s (`Nil` and `Absent` are not data, days are integers,
bounds are naturals, a page has a row at least, tasks and lines are finitely many, the catalog is
as the settings check it). None of the properties is inductive; each module of proofs states an
invariant that is, shows `Init => IInv` and `IInv /\ [Next]_vars => IInv'` with one step for
each action, and draws the properties from it.

*LeaveRequestsProofs.* `TypeCorrect`, `AnswersSettle`, `ReversedOnlyByRace`,
`WritesPreviewed`, `TokensSpent`, `WorkflowFollowed`, `LeaveRequestsRefine`. The invariant adds what a call knows at each `await`:
when it is past its read it saw a record from which its operation is eligible, its token
is that of the record it saw, and the token was issued; what the wire may hold is tied to
`pc` and `answer`; every issued token has the preview call it came from; and a
record with reversed dates has a stale update. `TokensSpent` comes down to a fact about
merging: a proposal that changes a record differs from what it makes of the record,
also when the record is no longer the one it was previewed on. The refinement maps the
calls' writes in flight to the authorised writes of `ConfirmedWrite` and shows that every
step is one of its steps or none.

*LeadAssignProofs.* `TypeCorrect`, `WritesPreviewed`, `AnswersSettle`, `LastLeader`,
`SoleOwnerOnSuccess`. The invariant says which writes each call can have on the wire and which of
them were accepted, by the await it is suspended at; and it accounts for every leader a call has to
deal with: one it read is still to be removed, was removed, had its DELETE ignored, or came back
(`joined`); its own user is a leader as soon as the POST was acknowledged, unless that was ignored
or the call was `ousted`. Adding before removing is what makes this inductive: no DELETE is sent
before the POST was acknowledged.

*ListingProofs.* `TypeCorrect`, `RowsListedOnce`, `MissedByDeletion`. The invariant speaks
of ranks: a collected row that still exists has a rank within the pages that were read;
so a page never holds a row again, because deletions only lower ranks. The rows that were
not collected and have fallen behind the cursor are as many as the deletions at most:
a deletion moves exactly the row of the next rank across. The lemmas on ranks
(they number the rows, a deletion lowers them by one at most, a page that is not full has no row
behind it) are in *PagingProofs*, counted with the cardinality theorems of the library.

*SearchProofs.* `SearchTypeCorrect`, `CallListsOnce`, `WalkCompletes`, `LeadShowsOwner`.
`WalkIsComplete` looks at the end of a walk and is far from inductive: an edit may cost a row many
steps later, when the call it fell into is answered, and by shifting rows across an
offset that the walk has not reached. So a walk is measured on the `View` of its call, what it would
match if nobody edited any more: the rows it has listed, as they were when it did, and those it will
still list, as they are. A row never returned is lost when it is not in the view, or its place there
is before the walk's offset. `Loss` says that at most one row for each edit is lost, and that the places
of the view may lag behind the true ones by no more than the edits that have not lost a row
yet. One edit changes the view by one row at most, which moves each other row by one
place at most; the next call has the truth for its view, and `Loss` says what that costs.
Without edits the view is the truth, so each row is returned exactly once (`QuietInv`).

*CreatesProofs.* `TypeCorrect`, `AnswersSettle`, `WritesPreviewed`, `TokensSpent`,
`DuplicatesFound`, `CreatedTwice`: all that the two runs check. What a call knows at each await
ties its listing to the table by ranks: each duplicate that is in the table was found, is
`fresh`, or has a rank that the pages read so far do not cover; a deletion, the one thing that lowers
ranks across the cursor, is recorded in `shifted`. When the listing ends no rank is left, and what
remains is the property. `CreatedTwice` adds that two creates with one token which are not under way
together would have met: the first is in the table, of the kind that the second lists.
`CreatesImplement` shows that each step is one of `ConfirmedWrite` or none: the invariant gives the
preview of every create in flight, and Dolibarr's choice of an id that no row has makes the
arrival of one a write to an absent record.

*UpdatesProofs.* `AnswersSettle`, `WritesPreviewed`, `TokensSpent`. As for leave requests: a token
is issued by a preview that saw what the token says, and a call that is past its decision
holds the token of what it read. `TokensSpent` rests on the composition of `Sent` and `Shown`,
which is the identity on normal values only. `TypeCorrect`, `AppliedThere`, `AssignedAgree` and
`LifecycleFollowed`, the rest of what the run checks, need to know what a call has read. The parts it has seen are a prefix of
the path of its operation (`Path`, of which `Plan` never leaves out a part that was read), so a
decision taken when the plan is over rests on the target. What was seen is still so as long as
nobody wrote or edited anything (`Quiet`); without edits alone, a lead that was no draft is none, and a
role that was there is there.

*ReportingProofs.* `TypeCorrect`, `LimitExact`, `RefusedByRace`, `NothingLeft`,
`UnauthorizedByDolibarr`, `CountedOnce`. The invariant follows a line that nobody edited since
the request began to collect: it is where Dolibarr has it, in the collection of that task as soon as
that response arrived, and in no other; and a task that holds such a line is filed under its project.
Whether the response of its task is asked for at all depends on the list of tasks, read page by
page: the tasks that exist, were not listed and have fallen behind the page to come are as many as
the deletions at most (`dropped`), which is the argument of `ListingProofs` on the lemmas of
`PagingProofs`; when a page is not full, none is left ahead of it. As many tasks are known as the
full pages hold, so a list that was read to its bound has its limit of tasks. The rest is about
jobs: which of them a phase has, that one which failed has answered its request,
and that an answer other than an error needed all of them.

**Only model-checked.** `EveryCallIsAnswered` and `EveryRequestEnds`: liveness under fairness is out of
the prover's reach.

## 5. Not modelled

- *Deployment* (`deploy/lan/deploy-release.sh`): a script run by hand. Its steps are those of
  systemd, `uv` and the file system; what a model says of it would be what it assumes of them.
- *Totals and groupings of the reports*, the sums over the lines of one collection, and their
  filters by date and user: sequential arithmetic on data that nobody else changes.
- *Reads that nothing depends on*: the gets of each service, `lead_stage_list`, `leave_type_list`.
- *The application and the tool wrappers* beyond the call they make: how the ASGI application is
  assembled, and the translation of exceptions to tool errors.
- *Parsing and formatting*: payloads, headers, settings, logs, beyond the validators that a rule
  rests on.
- *Several processes of this server*: they share nothing but Dolibarr, and are calls like the others.

`Updates` and `LeadAssign` are not shown to refine `ConfirmedWrite`. That protocol previews one record as it
is at one moment; an update reads the parts of its record one after another, so
what its preview shows need not have held at any one moment, and an assignment has several writes.
`WritesWerePreviewed` states for them what a refinement would. What could be added is liveness for
`LeaveRequests`, `Creates`, `Updates` and `Search`.

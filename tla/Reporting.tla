----------------------------- MODULE Reporting -----------------------------
(***************************************************************************)
(* HTTP requests that call a report tool: the request's credential holder  *)
(* (src/src/dolibarr_mcp/credentials.py), its authentication (auth.py),    *)
(* the tool (server.py) and the collections of TimeReportingService        *)
(* (reporting.py), whose requests to Dolibarr run concurrently under       *)
(* asyncio.gather and a semaphore.  The lists of tasks and users are page  *)
(* loops (client.py), with an await for each page.                         *)
(***************************************************************************)
EXTENDS Requests, Paging

CONSTANTS
    Request,        \* HTTP requests to the MCP path, each with a key of its own
    MaxTask,        \* bound on the ids of tasks
    Project,
    MaxLine,        \* bound on the time lines
    Asked,          \* the tasks and projects that reports are asked for
    Nil,            \* Python's None
    TaskPages,      \* the page bound of list_tasks, _MAX_TASKS // _UPSTREAM_PAGE_SIZE
    UserPages,      \* the page bound of list_users, _MAX_USERS // _UPSTREAM_PAGE_SIZE
    Fanout,         \* _FANOUT_CONCURRENCY
    Failure,        \* the replies that requests other than the identity request fail with
    MaxRecords,     \* MAX_REPORT_RECORDS, _MAX_TIME_LINES
    MaxEdits,       \* bound on edits by others
    GetTask, ListTasks, GetLines, ListUsers, GetProject     \* names of jobs

Task == 1..MaxTask
Line == 1..MaxLine

\* _MAX_TASKS
MaxTasks == TaskPages * PageSize

ASSUME BoundAssumption ==
    /\ MaxTask \in Nat /\ MaxLine \in Nat /\ MaxRecords \in Nat /\ MaxEdits \in Nat
    /\ TaskPages \in Nat \ {0} /\ UserPages \in Nat \ {0} /\ Fanout \in Nat \ {0}
ASSUME AskedAssumption == Asked \subseteq Task \cup Project
ASSUME FailureAssumption == Failure \subseteq Reply \ {"ok"}
ASSUME JobAssumption ==
    /\ GetTask \notin {ListTasks, GetLines, ListUsers, GetProject}
    /\ ListTasks \notin {GetLines, ListUsers, GetProject}
    /\ GetLines \notin {ListUsers, GetProject}
    /\ ListUsers # GetProject
    /\ {GetTask, ListTasks, GetLines, ListUsers, GetProject} \cap Task = {}

\* The report tools by what they collect: everything, one project, or one task.
Tool == {"whoami", "global", "project", "task"}

ASSUME NilAssumption ==
    /\ Nil \notin Task \cup Project
    /\ Nil \notin Tool \cup Reply \cup Error \cup {"identity", "report", "unauthorized"}

VARIABLES
    home,       \* Dolibarr: the task a line is booked on, Nil for none
    project,    \* Dolibarr: the project of a task, Nil if there is no such task
    born,       \* Dolibarr: the last id given to a task
    edits,      \* edits by others so far
    phase,      \* where a request is
    tool,       \* the tool it calls
    subject,    \* the task or project that it reports on, Nil for all
    holder,     \* its credential holder: a key is stored
    jobs,       \* its requests to Dolibarr: waiting, flying, ok or failed
    page,       \* the page loops of its lists of tasks and users: full pages so far
    filed,      \* the project that a task was read with
    got,        \* the lines that were read, by task
    booked,     \* the project that the lines of a task came with, Nil for none
    reply,      \* how Dolibarr replied to its authentication
    answer,     \* identity, report, or the error it is answered with
    moved,      \* history: lines that others edited while it was collecting
    dropped     \* history: how many tasks others deleted while it was listing them

dolibarr == <<home, project, born, edits>>
read == <<filed, got, booked>>
history == <<moved, dropped>>
vars == <<dolibarr, phase, tool, subject, holder, jobs, page, read, reply, answer, history>>

Phase == {"idle", "auth", "tool", "reads", "project", "fanout", "answered", "over"}

Ended == {"answered", "over"}

\* The requests gathered first; for a single task, its project follows.
Reads(k) ==
    CASE k = "global" -> {ListTasks, ListUsers}
      [] k = "project" -> {GetProject, ListTasks, ListUsers}
      [] k = "task" -> {GetTask, GetLines, ListUsers}

\* A task as a job is the request for its lines in the fan-out.
Job == Task \cup {GetTask, ListTasks, GetLines, ListUsers, GetProject}

Status(r, s) == {j \in DOMAIN jobs[r] : jobs[r][j] = s}

PageBound(j) == IF j = ListTasks THEN TaskPages ELSE UserPages

\* Dolibarr's tasks, and those that a request has read.
Existing == {t \in Task : project[t] # Nil}

Known(r) == {t \in Task : filed[r][t] # Nil}

TypeOK ==
    /\ home \in [Line -> Task \cup {Nil}]
    /\ project \in [Task -> Project \cup {Nil}]
    /\ born \in 0..MaxTask
    /\ \A t \in Existing : t <= born
    /\ \A l \in Line : home[l] \in Existing \cup {Nil}
    /\ edits \in 0..MaxEdits
    /\ phase \in [Request -> Phase]
    /\ tool \in [Request -> Tool \cup {Nil}]
    /\ subject \in [Request -> Task \cup Project \cup {Nil}]
    /\ holder \in [Request -> BOOLEAN]
    /\ \A r \in Request :
        /\ DOMAIN jobs[r] \subseteq Job
        /\ \A j \in DOMAIN jobs[r] : jobs[r][j] \in {"waiting", "flying", "ok", "failed"}
        /\ phase[r] = "project" => jobs[r][GetProject] \in {"flying", "ok"}
        /\ phase[r] = "fanout" => Known(r) \subseteq DOMAIN jobs[r] /\ Status(r, "failed") = {}
    /\ page \in [Request -> [{ListTasks, ListUsers} -> Nat]]
    /\ \A r \in Request, j \in {ListTasks, ListUsers} : page[r][j] <= PageBound(j)
    /\ filed \in [Request -> [Task -> Project \cup {Nil}]]
    /\ got \in [Request -> [Task -> SUBSET Line]]
    /\ booked \in [Request -> [Task -> Project \cup {Nil}]]
    /\ reply \in [Request -> Reply \cup {Nil}]
    /\ answer \in [Request -> Error \cup {"identity", "report", "unauthorized", Nil}]
    /\ moved \in [Request -> SUBSET Line]
    /\ dropped \in [Request -> 0..MaxEdits]

\* Tasks are numbered without gaps, since only the order of their ids matters, and lines by
\* the tasks they are booked on, since their numbers do not.
Init ==
    /\ born \in 0..MaxTask
    /\ project \in [Task -> Project \cup {Nil}]
    /\ Existing = 1..born
    /\ home \in [Line -> Existing \cup {Nil}]
    /\ \A l, m \in Line : l < m /\ home[m] # Nil => home[l] # Nil /\ home[l] <= home[m]
    /\ edits = 0
    /\ phase = [r \in Request |-> "idle"]
    /\ tool = [r \in Request |-> Nil]
    /\ subject = [r \in Request |-> Nil]
    /\ holder = [r \in Request |-> FALSE]
    /\ jobs = [r \in Request |-> <<>>]
    /\ page = [r \in Request |-> [j \in {ListTasks, ListUsers} |-> 0]]
    /\ filed = [r \in Request |-> [t \in Task |-> Nil]]
    /\ got = [r \in Request |-> [t \in Task |-> {}]]
    /\ booked = [r \in Request |-> [t \in Task |-> Nil]]
    /\ reply = [r \in Request |-> Nil]
    /\ answer = [r \in Request |-> Nil]
    /\ moved = [r \in Request |-> {}]
    /\ dropped = [r \in Request |-> 0]

---------------------------------------------------------------------------
(* Authentication and credential *)

\* The middleware makes an empty holder.  A request with a bearer token goes on to the
\* identity request, any other is refused.
Receive(r) ==
    /\ phase[r] = "idle"
    /\ \/ phase' = [phase EXCEPT ![r] = "auth"] /\ UNCHANGED answer
       \/ /\ phase' = [phase EXCEPT ![r] = "answered"]
          /\ answer' = [answer EXCEPT ![r] = "unauthorized"]
    /\ UNCHANGED <<dolibarr, tool, subject, holder, jobs, page, read, reply, history>>

Authenticate(r) ==
    /\ phase[r] = "auth"
    /\ \E a \in Reply :
        LET e == ErrorOf("GET", TRUE, a)
        IN  /\ reply' = [reply EXCEPT ![r] = a]
            /\ holder' = [holder EXCEPT ![r] = e = "none"]
            /\ phase' = [phase EXCEPT ![r] = IF e = "none" THEN "tool" ELSE "answered"]
            /\ answer' = [answer EXCEPT ![r] = IF e = "none" THEN Nil ELSE e]
    /\ UNCHANGED <<dolibarr, tool, subject, jobs, page, read, history>>

\* The tool takes the key from the holder; from here on it is an argument.
Whoami(r) ==
    /\ phase[r] = "tool"
    /\ tool' = [tool EXCEPT ![r] = "whoami"]
    /\ answer' = [answer EXCEPT ![r] = "identity"]
    /\ phase' = [phase EXCEPT ![r] = "answered"]
    /\ UNCHANGED <<dolibarr, subject, holder, jobs, page, read, reply, history>>

StartReport(r, k, s) ==
    /\ phase[r] = "tool"
    /\ holder[r]
    /\ tool' = [tool EXCEPT ![r] = k]
    /\ subject' = [subject EXCEPT ![r] = s]
    /\ jobs' = [jobs EXCEPT ![r] = [j \in Reads(k) |-> "flying"]]
    /\ phase' = [phase EXCEPT ![r] = "reads"]
    /\ UNCHANGED <<dolibarr, holder, page, read, reply, answer, history>>

StartTool(r) ==
    \/ Whoami(r)
    \/ StartReport(r, "global", Nil)
    \/ \E p \in Asked \cap Project : StartReport(r, "project", p)
    \/ \E t \in Asked \cap Task : StartReport(r, "task", t)

\* Mutant: the holder is not cleared when the request was answered with an error.
MutantLeave(r) ==
    /\ phase[r] = "answered"
    /\ answer[r] \in {"identity", "report"}
    /\ phase' = [phase EXCEPT ![r] = "over"]
    /\ holder' = [holder EXCEPT ![r] = FALSE]
    /\ UNCHANGED <<dolibarr, tool, subject, jobs, page, read, reply, answer, history>>

\* The response was sent; the middleware clears the holder.
Leave(r) ==
    /\ phase[r] = "answered"
    /\ phase' = [phase EXCEPT ![r] = "over"]
    /\ holder' = [holder EXCEPT ![r] = FALSE]
    /\ UNCHANGED <<dolibarr, tool, subject, jobs, page, read, reply, answer, history>>

---------------------------------------------------------------------------
(* Requests to Dolibarr *)

\* list_tasks and list_users ask for one page after the other.
Paged(r, j) == j = ListUsers \/ (j = ListTasks /\ tool[r] = "global")

\* Of a page of users nothing is kept, so it is full or not, as Dolibarr likes.
FullPage(r) == Cardinality(PageOf(Existing, page[r][ListTasks])) = PageSize

MayBeFull(r, j) == j = ListUsers \/ FullPage(r)

\* Mutant: the list of tasks ends with its first page, full or not.
MutantMayBeShort(r, j) == TRUE

MayBeShort(r, j) == j = ListUsers \/ ~ FullPage(r)

\* The tasks that a response describes, and those whose lines it carries.
Described(r, j) ==
    CASE j = GetTask -> {subject[r]}
      [] j = ListTasks /\ tool[r] = "project" -> {t \in Task : project[t] = subject[r]}
      [] j = ListTasks /\ tool[r] = "global" -> PageOf(Existing, page[r][ListTasks])
      [] OTHER -> {}

Detailed(r, j) ==
    CASE j = GetLines -> {subject[r]}
      [] j = ListTasks /\ tool[r] = "project" -> Described(r, j)
      [] j \in Task -> {j}
      [] OTHER -> {}

Carried(r, j) == {l \in Line : home[l] \in Detailed(r, j)}

\* A response of more tasks or lines than may be read at once.
TooLarge(r, j) ==
    \/ Cardinality(Carried(r, j)) > MaxRecords
    \/ j = ListTasks /\ tool[r] = "project" /\ Cardinality(Described(r, j)) > MaxTasks

\* The request is about a task that was deleted.
Gone(r, j) ==
    \/ j \in {GetTask, GetLines} /\ subject[r] \notin Existing
    \/ j \in Task \ Existing

\* What is known after a response; lines come with their project or without.  What arrives
\* after the answer is dropped.
Keep(r, j) ==
    /\ filed' = [filed EXCEPT ![r] = [t \in Task |->
                    IF t \in Described(r, j) THEN project[t] ELSE filed[r][t]]]
    /\ got' = [got EXCEPT ![r] = [t \in Task |->
                    IF t \in Detailed(r, j) THEN {l \in Line : home[l] = t} ELSE got[r][t]]]
    /\ \E given \in BOOLEAN :
        booked' = [booked EXCEPT ![r] = [t \in Task |->
                    IF given /\ t \in Detailed(r, j) THEN project[t] ELSE booked[r][t]]]

Store(r, j) == IF phase[r] \in Ended THEN UNCHANGED read ELSE Keep(r, j)

TurnPage(r, j) == page' = [page EXCEPT ![r][j] = @ + 1]

\* The loop variable goes with its coroutine.
LeaveLoop(r, j) == page' = IF Paged(r, j) THEN [page EXCEPT ![r][j] = 0] ELSE page

\* Below, j is a job that is flying: see Step.

\* A full page arrives, also for a request that was answered meanwhile; the next is asked for.
NextPage(r, j) ==
    /\ Paged(r, j) /\ MayBeFull(r, j)
    /\ page[r][j] + 1 < PageBound(j)
    /\ TurnPage(r, j)
    /\ Store(r, j)
    /\ UNCHANGED <<dolibarr, phase, tool, subject, holder, jobs, reply, answer, history>>

\* A response arrives that ends its job: for a list, a page that is not full.
JobReturns(r, j) ==
    /\ Paged(r, j) => MayBeShort(r, j)
    /\ j = GetTask => subject[r] \in Existing
    /\ ~ TooLarge(r, j)
    /\ jobs' = [jobs EXCEPT ![r][j] = "ok"]
    /\ LeaveLoop(r, j)
    /\ Store(r, j)
    /\ UNCHANGED <<dolibarr, phase, tool, subject, holder, reply, answer, history>>

\* Mutant: gather returns exceptions instead of raising them.
MutantRaise(r, j, e) ==
    /\ jobs' = [jobs EXCEPT ![r][j] = "failed"]
    /\ UNCHANGED <<dolibarr, phase, tool, subject, holder, reply, answer, history>>

\* The first failure is raised by gather and answers the request.  The other jobs are
\* not cancelled, and nobody waits for them any more.
Raise(r, j, e) ==
    /\ jobs' = [jobs EXCEPT ![r][j] = "failed"]
    /\ IF phase[r] \in Ended THEN UNCHANGED <<phase, answer>>
       ELSE /\ answer' = [answer EXCEPT ![r] = e]
            /\ phase' = [phase EXCEPT ![r] = "answered"]
    /\ UNCHANGED <<dolibarr, tool, subject, holder, reply, history>>

\* Any request can fail.  One for a deleted task may be told so; one for its lines may as well
\* get none.
JobFails(r, j) ==
    /\ \E a \in Failure \cup (IF Gone(r, j) THEN {"404"} ELSE {}) :
        Raise(r, j, ErrorOf("GET", FALSE, a))
    /\ LeaveLoop(r, j)
    /\ UNCHANGED read

\* A response is too large, or the last page that may be read is full.
JobOverflows(r, j) ==
    /\ IF Paged(r, j) THEN /\ MayBeFull(r, j)
                           /\ page[r][j] + 1 = PageBound(j)
                           /\ TurnPage(r, j)
       ELSE TooLarge(r, j) /\ UNCHANGED page
    /\ Raise(r, j, "DolibarrResultLimit")
    /\ Store(r, j)

Permits(r) == Fanout - Cardinality(Task \cap Status(r, "flying"))

\* A waiting request, for the lines of t, gets a permit of the semaphore and is sent, whether
\* or not its report was answered meanwhile.
Acquire(r, t) ==
    /\ Permits(r) > 0
    /\ jobs' = [jobs EXCEPT ![r][t] = "flying"]
    /\ UNCHANGED <<dolibarr, phase, tool, subject, holder, page, read, reply, answer, history>>

---------------------------------------------------------------------------
(* Collections *)

\* Mutant: a collection goes on with the first of its responses.
MutantGathered(r, stage) == \E j \in stage : jobs[r][j] = "ok"

Gathered(r, stage) == \A j \in stage : jobs[r][j] = "ok"

Times(r, l) == Cardinality({t \in Task : l \in got[r][t]})

\* An entry came with two tasks.
Clash(r) == \E l \in Line : Times(r, l) > 1

\* Mutant: the task that was read is compared with lines that name no project.
MutantMisfiled(r) == \E t \in Task : got[r][t] # {} /\ booked[r][t] # filed[r][t]

\* An entry came with another project than its task.
Misfiled(r) == \E t \in Task : got[r][t] # {} /\ booked[r][t] \notin {filed[r][t], Nil}

Records(r) == Cardinality({tl \in Task \X Line : tl[2] \in got[r][tl[1]]})

\* Mutant: one record more than the limit.
MutantTooMany(r) == Records(r) > MaxRecords + 1

TooMany(r) == Records(r) > MaxRecords

\* _normalize_tasks: the first offending line decides, whichever it is.
Verdicts(r) ==
    {v \in {"InvalidDolibarrResponse", "DolibarrResultLimit"} :
        IF v = "DolibarrResultLimit" THEN TooMany(r) ELSE Clash(r) \/ Misfiled(r)}

Build(r) ==
    /\ phase' = [phase EXCEPT ![r] = "answered"]
    /\ \E v \in (IF Verdicts(r) = {} THEN {"report"} ELSE Verdicts(r)) :
        answer' = [answer EXCEPT ![r] = v]
    /\ UNCHANGED <<dolibarr, tool, subject, holder, jobs, page, read, reply, history>>

\* One project: its tasks come with their lines.
BuildProject(r) ==
    /\ phase[r] = "reads" /\ tool[r] = "project"
    /\ Gathered(r, Reads("project"))
    /\ Build(r)

\* The requests that follow when those gathered first have returned.
Follow(r, p, stage, s) ==
    /\ phase' = [phase EXCEPT ![r] = p]
    /\ jobs' = [jobs EXCEPT ![r] = [j \in DOMAIN jobs[r] \cup stage |->
                    IF j \in stage THEN s ELSE jobs[r][j]]]
    /\ UNCHANGED <<dolibarr, tool, subject, holder, page, read, reply, answer, history>>

\* One task: its project is read last.
ReadProject(r) ==
    /\ phase[r] = "reads" /\ tool[r] = "task"
    /\ Gathered(r, Reads("task"))
    /\ Follow(r, "project", {GetProject}, "flying")

BuildTask(r) ==
    /\ phase[r] = "project"
    /\ Gathered(r, {GetProject})
    /\ Build(r)

\* All tasks: one request for the lines of each that was listed.
StartFanout(r) ==
    /\ phase[r] = "reads" /\ tool[r] = "global"
    /\ Gathered(r, Reads("global"))
    /\ Follow(r, "fanout", Known(r), "waiting")

BuildGlobal(r) ==
    /\ phase[r] = "fanout"
    /\ Gathered(r, Known(r))
    /\ Build(r)

---------------------------------------------------------------------------
(* Other users of Dolibarr: external *)

Collecting == {"reads", "project", "fanout"}

\* The pages of the tasks are being read.
Listing(r) == phase[r] = "reads" /\ tool[r] = "global" /\ jobs[r][ListTasks] = "flying"

\* Bound: others are left out while nobody collects; where they leave Dolibarr is a state
\* to start from.
Edit(ls) ==
    /\ edits < MaxEdits
    /\ \E r \in Request : phase[r] \in Collecting
    /\ edits' = edits + 1
    /\ moved' = [r \in Request |-> IF phase[r] \in Collecting THEN moved[r] \cup ls ELSE moved[r]]
    /\ UNCHANGED <<phase, tool, subject, holder, jobs, page, read, reply, answer>>

\* A line is booked, moved to another task, or deleted.
MoveLine(l, t) ==
    /\ home[l] # t
    /\ home' = [home EXCEPT ![l] = t]
    /\ Edit({l})
    /\ UNCHANGED <<project, born, dropped>>

MoveTask(t, p) ==
    /\ project[t] # p
    /\ project' = [project EXCEPT ![t] = p]
    /\ Edit({l \in Line : home[l] = t})
    /\ UNCHANGED <<home, born, dropped>>

\* A new task comes last in the list.
CreateTask(p) ==
    /\ born < MaxTask
    /\ born' = born + 1
    /\ project' = [project EXCEPT ![born + 1] = p]
    /\ Edit({})
    /\ UNCHANGED <<home, dropped>>

\* A task is deleted with its lines.
DeleteTask(t) ==
    /\ project' = [project EXCEPT ![t] = Nil]
    /\ home' = [l \in Line |-> IF home[l] = t THEN Nil ELSE home[l]]
    /\ Edit({l \in Line : home[l] = t})
    /\ dropped' = [r \in Request |-> IF Listing(r) THEN dropped[r] + 1 ELSE dropped[r]]
    /\ UNCHANGED born

Step(r) ==
    \/ Authenticate(r) \/ StartTool(r) \/ Leave(r)
    \/ BuildProject(r) \/ ReadProject(r) \/ BuildTask(r) \/ StartFanout(r) \/ BuildGlobal(r)
    \/ \E t \in Task \cap Status(r, "waiting") : Acquire(r, t)
    \/ \E j \in Status(r, "flying") : NextPage(r, j) \/ JobReturns(r, j) \/ JobFails(r, j) \/ JobOverflows(r, j)

Next ==
    \/ \E r \in Request : Receive(r) \/ Step(r)
    \/ \E l \in Line, t \in Existing \cup {Nil} : MoveLine(l, t)
    \/ \E t \in Existing, p \in Project : MoveTask(t, p)
    \/ \E p \in Project : CreateTask(p)
    \/ \E t \in Existing : DeleteTask(t)

Spec == Init /\ [][Next]_vars

\* A coroutine that can go on is resumed, and a request to Dolibarr ends by its timeout.
FairSpec == Spec /\ \A r \in Request : WF_vars(Step(r))

---------------------------------------------------------------------------
(* What is claimed *)

\* Whether the report of r is about l, judged by Dolibarr's own data.
Concerns(r, l) ==
    /\ home[l] # Nil
    /\ tool[r] = "task" => home[l] = subject[r]
    /\ tool[r] = "project" => project[home[l]] = subject[r]

\* Tasks of the report with a line that nobody edited and that was not counted.
Overlooked(r) ==
    {t \in Task : \E l \in Line \ moved[r] : home[l] = t /\ Concerns(r, l) /\ Times(r, l) = 0}

\* reporting.py: when a report is answered, it counts no line twice, and no line that it is
\* not about, unless that one was edited while it was collecting.  A line that it is about
\* and that nobody edited is counted as well, although the requests of the fan-out run in any
\* order and Dolibarr is edited between them, with one exception: each task deleted
\* between two pages of the list of all tasks can hide one other task from it.  Stated of
\* the step that answers, since Dolibarr may be edited later.
LinesCountedOnce ==
    [][\A r \in Request : (answer[r] = Nil /\ answer'[r] = "report") =>
        /\ \A l \in Line :
            /\ Times(r, l) <= 1
            /\ l \notin moved[r] /\ Times(r, l) = 1 => Concerns(r, l)
        /\ Cardinality(Overlooked(r)) <= dropped[r]]_vars

\* What is refused for its size: too many lines, a project of too many tasks, a list of
\* tasks or of users that fills all the pages that may be read.
Beyond(r) ==
    \/ Records(r) > MaxRecords
    \/ tool[r] = "project" /\ Cardinality(Known(r)) > MaxTasks
    \/ tool[r] = "global" /\ Cardinality(Known(r)) >= MaxTasks
    \/ page[r][ListUsers] = UserPages

\* A report stays within all of its limits, and a request is refused for its size only if
\* what it read, in one response or in several, is beyond one of them.
LimitIsExact ==
    \A r \in Request :
        /\ answer[r] = "report" => ~ Beyond(r)
        /\ answer[r] = "DolibarrResultLimit" => Beyond(r)

\* What Dolibarr returned is refused as inconsistent only if lines were edited between the
\* requests of one report.
RefusedOnlyByRace ==
    \A r \in Request :
        (answer[r] = "InvalidDolibarrResponse" /\ tool[r] # Nil /\ Status(r, "failed") = {})
            => moved[r] # {}

\* A request that succeeded has left nothing running: all that uses its key has ended
\* before the holder is cleared.
SuccessLeavesNothing ==
    \A r \in Request : answer[r] \in {"identity", "report"} =>
        Status(r, "waiting") \cup Status(r, "flying") = {}

\* docs/adr/0002: no background task may retain a credential after the ASGI request completes.
NothingOutlivesRequest ==
    \A r \in Request : phase[r] = "over" =>
        Status(r, "waiting") \cup Status(r, "flying") = {}

\* A request whose key Dolibarr was asked about is answered as unauthorized if and only if
\* Dolibarr refused the key, and otherwise with one of the statuses that
\* authentication_error_response names.
UnauthorizedIsDolibarrs ==
    \A r \in Request : (phase[r] \in Ended /\ tool[r] = Nil /\ reply[r] # Nil) =>
        /\ HttpStatus(answer[r]) \in {401, 429, 502, 503}
        /\ HttpStatus(answer[r]) = 401 <=> reply[r] \in {"401", "403"}

\* Every request is answered and its holder cleared, and all that it started ends.
EveryRequestEnds ==
    \A r \in Request : phase[r] = "auth" ~>
        (phase[r] = "over" /\ Status(r, "waiting") \cup Status(r, "flying") = {})
=============================================================================

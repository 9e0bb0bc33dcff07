-------------------------- MODULE ReportingProofs --------------------------
(***************************************************************************)
(* Safety of Reporting for any number of requests, tasks, lines, pages and  *)
(* edits, and any limits.  The invariant follows a line that nobody edited  *)
(* while a report was collecting: it is where Dolibarr has it, and it is    *)
(* there once the request that carries it has returned.  It also follows    *)
(* the list of all tasks: what was read of it are as many tasks as its full *)
(* pages hold, and a task can only slip behind them when one is deleted.    *)
(***************************************************************************)
EXTENDS Reporting, PagingProofs

Gathers(r) == phase[r] \in Collecting

\* What a request has asked Dolibarr for so far.
PhaseInv(r) ==
    /\ phase[r] \in {"idle", "auth", "tool"} =>
        /\ tool[r] = Nil
        /\ got[r] = [t \in Task |-> {}]
        /\ filed[r] = [t \in Task |-> Nil] /\ booked[r] = [t \in Task |-> Nil]
        /\ page[r][ListTasks] = 0
    /\ tool[r] = Nil => DOMAIN jobs[r] = {}
    /\ phase[r] \notin Ended => answer[r] = Nil /\ \A j \in DOMAIN jobs[r] : jobs[r][j] # "failed"
    /\ phase[r] = "reads" =>
        /\ tool[r] \in {"global", "project", "task"}
        /\ DOMAIN jobs[r] = Reads(tool[r])
    /\ phase[r] = "project" =>
        /\ tool[r] = "task"
        /\ DOMAIN jobs[r] = Reads("task") \cup {GetProject}
        /\ Gathered(r, Reads("task"))
    /\ phase[r] = "fanout" =>
        /\ tool[r] = "global"
        /\ DOMAIN jobs[r] = Reads("global") \cup Known(r)
        /\ Gathered(r, Reads("global"))
    /\ tool[r] = "task" => subject[r] \in Task
    /\ tool[r] = "project" => subject[r] \in Project
    /\ \A j \in DOMAIN jobs[r] : jobs[r][j] = "waiting" => j \in Task
    /\ answer[r] \in {"identity", "report"} => \A j \in DOMAIN jobs[r] : jobs[r][j] = "ok"

LimitInv(r) ==
    /\ answer[r] = "report" => ~ Beyond(r)
    /\ answer[r] = "DolibarrResultLimit" => Beyond(r)

\* The list of users fills its pages only when its job fails for it.
UserInv(r) ==
    page[r][ListUsers] = UserPages => ListUsers \in DOMAIN jobs[r] /\ jobs[r][ListUsers] = "failed"

AuthInv(r) ==
    /\ phase[r] \in {"idle", "auth"} => reply[r] = Nil
    /\ (phase[r] \in Ended /\ tool[r] = Nil /\ reply[r] # Nil) =>
        answer[r] = ErrorOf("GET", TRUE, reply[r]) /\ answer[r] # "none"

\* The tasks that a report is about.
Within(r, t) ==
    /\ tool[r] = "task" => t = subject[r]
    /\ tool[r] = "project" => project[t] = subject[r]

\* The response that carries the lines of task t has arrived.
Arrived(r, t) ==
    \/ tool[r] = "task" /\ jobs[r][GetLines] = "ok"
    \/ tool[r] = "project" /\ jobs[r][ListTasks] = "ok"
    \/ tool[r] = "global" /\ t \in DOMAIN jobs[r] /\ jobs[r][t] = "ok"

\* A line that nobody edited since the collection began was read as Dolibarr has it.
LineInv(r, l) ==
    /\ \A t \in Task : l \in got[r][t] => home[l] = t /\ Within(r, t)
    /\ home[l] # Nil =>
        /\ booked[r][home[l]] \in {project[home[l]], Nil}
        /\ filed[r][home[l]] \in {project[home[l]], Nil}
        /\ Within(r, home[l]) /\ Arrived(r, home[l]) => l \in got[r][home[l]]

\* A task whose lines were read was read itself.
FiledInv(r) ==
    /\ tool[r] = "task" =>
        /\ jobs[r][GetTask] = "ok" => filed[r][subject[r]] # Nil
        /\ \A t \in Task : t # subject[r] => got[r][t] = {}
    /\ tool[r] \in {"project", "global"} => \A t \in Task : got[r][t] # {} => filed[r][t] # Nil

CollectInv(r) == Gathers(r) => FiledInv(r) /\ \A l \in Line \ moved[r] : LineInv(r, l)

\* The rows of the list of all tasks that the pages read so far stand for.
Cursor(r) == page[r][ListTasks] * PageSize

Unread(r) == Existing \ Known(r)

\* Tasks with unedited lines that the list of all tasks has missed.
Hidden(r) ==
    {t \in Unread(r) :
        /\ \E l \in Line \ moved[r] : home[l] = t
        /\ jobs[r][ListTasks] = "flying" => Rank(Existing, t) <= Cursor(r)}

\* How far the lists of tasks have been read.
ListInv(r) ==
    /\ Gathers(r) /\ tool[r] = "project" =>
        /\ jobs[r][ListTasks] = "flying" => Known(r) = {}
        /\ jobs[r][ListTasks] = "ok" => Cardinality(Known(r)) <= MaxTasks
    /\ Gathers(r) /\ tool[r] = "global" =>
        /\ jobs[r][ListTasks] = "flying" =>
            /\ page[r][ListTasks] < TaskPages
            /\ Cardinality(Known(r)) = Cursor(r)
            /\ \A t \in Known(r) \cap Existing : Rank(Existing, t) <= Cursor(r)
        /\ jobs[r][ListTasks] = "ok" => Cardinality(Known(r)) < MaxTasks
        /\ Cardinality(Hidden(r)) <= dropped[r]

RaceInv(r) ==
    (answer[r] = "InvalidDolibarrResponse" /\ tool[r] # Nil /\ Status(r, "failed") = {})
        => moved[r] # {}

RequestInv(r) ==
    /\ PhaseInv(r) /\ LimitInv(r) /\ UserInv(r) /\ AuthInv(r) /\ CollectInv(r) /\ ListInv(r)
    /\ RaceInv(r)
    /\ dropped[r] <= edits
    /\ \A t \in Known(r) : t <= born

Inv ==
    /\ TypeOK
    /\ DOMAIN jobs = Request
    /\ \A r \in Request : RequestInv(r)

---------------------------------------------------------------------------
(* Types *)

\* TypeOK is what holds of the variables and of the jobs of each request.
VarTypes ==
    /\ home \in [Line -> Task \cup {Nil}]
    /\ project \in [Task -> Project \cup {Nil}]
    /\ born \in 0..MaxTask
    /\ \A t \in Existing : t <= born
    /\ \A l \in Line : home[l] \in Existing \cup {Nil}
    /\ edits \in 0..MaxEdits
    /\ phase \in [Request -> Phase]
    /\ tool \in [Request -> Tool \cup {Nil}]
    /\ subject \in [Request -> Task \cup Project \cup {Nil}]
    /\ holder \in [Request -> BOOLEAN]
    /\ page \in [Request -> [{ListTasks, ListUsers} -> Nat]]
    /\ \A r \in Request, j \in {ListTasks, ListUsers} : page[r][j] <= PageBound(j)
    /\ filed \in [Request -> [Task -> Project \cup {Nil}]]
    /\ got \in [Request -> [Task -> SUBSET Line]]
    /\ booked \in [Request -> [Task -> Project \cup {Nil}]]
    /\ reply \in [Request -> Reply \cup {Nil}]
    /\ answer \in [Request -> Error \cup {"identity", "report", "unauthorized", Nil}]
    /\ moved \in [Request -> SUBSET Line]
    /\ dropped \in [Request -> 0..MaxEdits]

JobTypes(r) ==
    /\ DOMAIN jobs[r] \subseteq Job
    /\ \A j \in DOMAIN jobs[r] : jobs[r][j] \in {"waiting", "flying", "ok", "failed"}
    /\ phase[r] = "project" => jobs[r][GetProject] \in {"flying", "ok"}
    /\ phase[r] = "fanout" => Known(r) \subseteq DOMAIN jobs[r] /\ Status(r, "failed") = {}

LEMMA TypeSplit == TypeOK <=> (VarTypes /\ \A r \in Request : JobTypes(r))
BY DEF TypeOK, VarTypes, JobTypes

\* What depends on Dolibarr's data alone, and what depends on a request.
DataTypes ==
    /\ home \in [Line -> Task \cup {Nil}]
    /\ project \in [Task -> Project \cup {Nil}]
    /\ born \in 0..MaxTask
    /\ \A t \in Existing : t <= born
    /\ \A l \in Line : home[l] \in Existing \cup {Nil}
    /\ edits \in 0..MaxEdits

LEMMA DataStep ==
    ASSUME Inv, UNCHANGED dolibarr
    PROVE  DataTypes /\ DataTypes' /\ Existing' = Existing
<1>1. DataTypes
    BY DEF Inv, TypeOK, DataTypes
<1>2. home' = home /\ project' = project /\ born' = born /\ edits' = edits
    BY DEF dolibarr
<1>3. Existing' = Existing
    BY <1>2 DEF Existing
<1>. QED
    BY <1>1, <1>2, <1>3 DEF DataTypes

\* Tasks and lines are numbered.
LEMMA Numbered ==
    /\ IsFiniteSet(Task) /\ IsFiniteSet(Line) /\ MaxTask \in Nat /\ MaxLine \in Nat
    /\ Nil \notin Task /\ Nil \notin Project
<1>1. MaxTask \in Nat /\ MaxLine \in Nat
    BY BoundAssumption
<1>2. IsFiniteSet(Task) /\ IsFiniteSet(Line)
    BY <1>1, FS_Interval DEF Task, Line
<1>. QED
    BY <1>1, <1>2, NilAssumption

\* A set of tasks that holds another one is no smaller.
LEMMA FewerTasks ==
    ASSUME NEW A, NEW B \in SUBSET Task, A \subseteq B
    PROVE  /\ IsFiniteSet(A) /\ Cardinality(A) \in Nat /\ Cardinality(B) \in Nat
           /\ Cardinality(A) <= Cardinality(B)
<1>1. IsFiniteSet(B) /\ IsFiniteSet(A)
    BY Numbered, FS_Subset
<1>. QED
    BY <1>1, FS_Subset, FS_CardinalityType

\* A report reads, page by page, at most as many tasks as its limit.
LEMMA PageTypes ==
    /\ PageSize \in Nat \ {0} /\ TaskPages \in Nat \ {0} /\ UserPages \in Nat \ {0}
    /\ MaxTasks \in Nat /\ MaxRecords \in Nat /\ MaxEdits \in Nat
    /\ Inv => \A r \in Request : page[r][ListTasks] \in Nat /\ page[r][ListUsers] \in Nat
    /\ Inv => \A r \in Request : Cursor(r) \in Nat
<1>1. PageSize \in Nat \ {0} /\ TaskPages \in Nat \ {0} /\ UserPages \in Nat \ {0}
      /\ MaxRecords \in Nat /\ MaxEdits \in Nat
    BY PageSizeAssumption, BoundAssumption
<1>2. MaxTasks \in Nat
    BY <1>1 DEF MaxTasks
<1>3. ASSUME Inv, NEW r \in Request PROVE page[r][ListTasks] \in Nat /\ page[r][ListUsers] \in Nat
    BY <1>3 DEF Inv, TypeOK
<1>4. ASSUME Inv, NEW r \in Request PROVE Cursor(r) \in Nat
    BY <1>1, <1>3, <1>4 DEF Cursor
<1>. QED
    BY <1>1, <1>2, <1>3, <1>4

---------------------------------------------------------------------------
(* Counting lines *)

\* The pairs of a task and one of the lines read for it.
Pairs(r) == {tl \in Task \X Line : tl[2] \in got[r][tl[1]]}

LEMMA RecordsType ==
    ASSUME NEW r \in Request
    PROVE  IsFiniteSet(Pairs(r)) /\ Records(r) = Cardinality(Pairs(r)) /\ Records(r) \in Nat
<1>1. IsFiniteSet(Task \X Line)
    BY Numbered, FS_Product
<1>2. IsFiniteSet(Pairs(r))
    BY <1>1, FS_Subset DEF Pairs
<1>. QED
    BY <1>2, FS_CardinalityType DEF Records, Pairs

LEMMA TimesType ==
    ASSUME NEW r \in Request, NEW l \in Line
    PROVE  Times(r, l) \in Nat /\ IsFiniteSet({t \in Task : l \in got[r][t]})
<1>1. IsFiniteSet({t \in Task : l \in got[r][t]})
    BY Numbered, FS_Subset
<1>. QED
    BY <1>1, FS_CardinalityType DEF Times

\* A line that nobody edited was read for its own task at most.
LEMMA TimesOfUnedited ==
    ASSUME NEW r \in Request, NEW l \in Line, LineInv(r, l)
    PROVE  /\ Times(r, l) <= 1
           /\ Times(r, l) = 1 <=> \E t \in Task : l \in got[r][t]
           /\ Times(r, l) = 0 <=> ~ \E t \in Task : l \in got[r][t]
<1>. DEFINE S == {t \in Task : l \in got[r][t]}
<1>1. CASE S = {}
    <2>1. Times(r, l) = 0
        BY <1>1, FS_EmptySet DEF Times
    <2>. QED
        BY <1>1, <2>1
<1>2. CASE S # {}
    <2>1. PICK t \in Task : l \in got[r][t]
        BY <1>2
    <2>2. S = {t}
        BY <2>1 DEF LineInv
    <2>3. Times(r, l) = 1
        BY <2>2, FS_Singleton DEF Times
    <2>. QED
        BY <2>1, <2>3
<1>. QED
    BY <1>1, <1>2

---------------------------------------------------------------------------
(* The steps of a request *)

\* What is refused for its size depends on what was read.
LEMMA SameBeyond ==
    ASSUME NEW r \in Request, got'[r] = got[r], filed'[r] = filed[r], tool'[r] = tool[r],
           page'[r][ListUsers] = page[r][ListUsers]
    PROVE  /\ Records(r)' = Records(r) /\ Known(r)' = Known(r)
           /\ Beyond(r)' <=> Beyond(r)
<1>1. Records(r)' = Records(r) /\ Known(r)' = Known(r)
    BY DEF Records, Known
<1>. QED
    BY <1>1 DEF Beyond

\* A step of one request leaves what is known of the others as it is.
LEMMA RequestStep ==
    ASSUME Inv, NEW r \in Request, UNCHANGED dolibarr, VarTypes', DOMAIN jobs' = Request,
           JobTypes(r)', PhaseInv(r)', LimitInv(r)', UserInv(r)', AuthInv(r)', CollectInv(r)',
           ListInv(r)', RaceInv(r)',
           \A t \in Known(r)' : t <= born,
           UNCHANGED history,
           \A s \in Request \ {r} :
                /\ phase'[s] = phase[s] /\ tool'[s] = tool[s] /\ subject'[s] = subject[s]
                /\ jobs'[s] = jobs[s] /\ page'[s] = page[s] /\ filed'[s] = filed[s]
                /\ got'[s] = got[s] /\ booked'[s] = booked[s] /\ reply'[s] = reply[s]
                /\ answer'[s] = answer[s]
    PROVE  Inv'
<1>0. /\ home' = home /\ project' = project /\ born' = born /\ edits' = edits
      /\ moved' = moved /\ dropped' = dropped /\ Existing' = Existing
    BY DataStep DEF dolibarr, history
<1>1. SUFFICES ASSUME NEW s \in Request \ {r} PROVE RequestInv(s)'
    <2>1. ASSUME NEW s \in Request \ {r} PROVE JobTypes(s)'
        BY TypeSplit DEF Inv, JobTypes, Status, Known
    <2>2. (VarTypes /\ \A s \in Request : JobTypes(s))'
        BY <2>1
    <2>3. TypeOK'
        BY <2>2 DEF TypeOK, VarTypes, JobTypes
    <2>4. dropped'[r] <= edits' /\ \A t \in Known(r)' : t <= born'
        BY <1>0 DEF Inv, RequestInv
    <2>5. RequestInv(r)'
        BY <2>4 DEF RequestInv
    <2>. QED
        BY <2>3, <2>5 DEF Inv
<1>3. RequestInv(s)
    BY DEF Inv
<1>4. Records(s)' = Records(s) /\ Known(s)' = Known(s) /\ (Beyond(s)' <=> Beyond(s))
    BY SameBeyond
<1>5. PhaseInv(s)' /\ AuthInv(s)'
    <2>1. PhaseInv(s)'
        BY <1>3, <1>4 DEF RequestInv, PhaseInv, Gathered
    <2>2. AuthInv(s)'
        BY <1>3 DEF RequestInv, AuthInv
    <2>. QED
        BY <2>1, <2>2
<1>6. LimitInv(s)' /\ RaceInv(s)' /\ UserInv(s)'
    <2>1. Status(s, "failed")' = Status(s, "failed")
        BY DEF Status
    <2>. QED
        BY <1>0, <1>3, <1>4, <2>1 DEF RequestInv, LimitInv, RaceInv, UserInv
<1>7. CollectInv(s)'
    BY <1>0, <1>3 DEF RequestInv, CollectInv, Gathers, FiledInv, LineInv, Within, Arrived
<1>8. ListInv(s)'
    <2>1. Cursor(s)' = Cursor(s) /\ Hidden(s)' = Hidden(s)
        BY <1>0, <1>4 DEF Cursor, Hidden, Unread
    <2>. QED
        BY <1>0, <1>3, <1>4, <2>1 DEF RequestInv, ListInv, Gathers
<1>9. dropped'[s] <= edits' /\ \A t \in Known(s)' : t <= born'
    BY <1>0, <1>3, <1>4 DEF RequestInv
<1>. QED
    BY <1>5, <1>6, <1>7, <1>8, <1>9 DEF RequestInv

LEMMA ErrorOfType ==
    ASSUME NEW a \in Reply, NEW identity \in BOOLEAN
    PROVE  /\ ErrorOf("GET", identity, a) \in Error \cup {"none"}
           /\ ErrorOf("GET", identity, a) = "none" => a = "ok"
           /\ ErrorOf("GET", identity, a) # "DolibarrResultLimit"
BY DEF ErrorOf, Error, Reply

LEMMA ReceiveInv == ASSUME Inv, NEW r \in Request, Receive(r) PROVE Inv'
<1>. USE DEF Receive, read, history
<1>0. phase[r] = "idle" /\ tool[r] = Nil /\ reply[r] = Nil
    BY DEF Inv, RequestInv, PhaseInv, AuthInv
<1>1. /\ phase'[r] \in {"auth", "answered"}
      /\ phase'[r] = "answered" => answer'[r] = "unauthorized"
      /\ phase'[r] # "answered" => answer'[r] = answer[r]
    BY DEF Inv, TypeOK
<1>2. VarTypes' /\ JobTypes(r)'
    <2>1. VarTypes'
        BY DataStep, TypeSplit DEF Inv, VarTypes, Phase, DataTypes
    <2>2. JobTypes(r)'
        BY <1>1, TypeSplit DEF Inv, JobTypes
    <2>. QED
        BY <2>1, <2>2
<1>3. PhaseInv(r)' /\ AuthInv(r)'
    BY <1>0, <1>1, NilAssumption DEF Inv, RequestInv, PhaseInv, AuthInv, Ended, Gathered
<1>4. LimitInv(r)' /\ RaceInv(r)' /\ CollectInv(r)' /\ ListInv(r)'
    <2>1. answer'[r] \notin {"report", "DolibarrResultLimit", "InvalidDolibarrResponse"}
        BY <1>0, <1>1, NilAssumption DEF Inv, RequestInv, PhaseInv, Ended, Error
    <2>. QED
        BY <1>0, <1>1, <2>1 DEF LimitInv, RaceInv, CollectInv, ListInv, Gathers, Collecting
<1>5. UserInv(r)' /\ \A t \in Known(r)' : t <= born
    BY DEF Inv, RequestInv, UserInv, Known
<1>. QED
    BY <1>2, <1>3, <1>4, <1>5, RequestStep DEF Inv, TypeOK

LEMMA AuthenticateInv == ASSUME Inv, NEW r \in Request, Authenticate(r) PROVE Inv'
<1>. USE DEF Authenticate, read, history
<1>1. PICK a \in Reply :
        /\ reply' = [reply EXCEPT ![r] = a]
        /\ holder' = [holder EXCEPT ![r] = ErrorOf("GET", TRUE, a) = "none"]
        /\ phase' = [phase EXCEPT ![r] = IF ErrorOf("GET", TRUE, a) = "none" THEN "tool" ELSE "answered"]
        /\ answer' = [answer EXCEPT ![r] = IF ErrorOf("GET", TRUE, a) = "none" THEN Nil
                                           ELSE ErrorOf("GET", TRUE, a)]
    OBVIOUS
<1>. DEFINE e == ErrorOf("GET", TRUE, a)
<1>2. e \in Error \cup {"none"} /\ e # "DolibarrResultLimit"
    BY ErrorOfType
<1>3. /\ phase[r] = "auth" /\ tool[r] = Nil
      /\ UNCHANGED <<dolibarr, tool, subject, jobs, page, filed, got, booked, moved, dropped>>
    BY DEF Inv, TypeOK, RequestInv, PhaseInv
<1>. HIDE DEF e
<1>4. /\ reply'[r] = a /\ phase'[r] = (IF e = "none" THEN "tool" ELSE "answered")
      /\ answer'[r] = (IF e = "none" THEN Nil ELSE e)
    BY <1>1 DEF Inv, TypeOK, e
<1>5. VarTypes' /\ JobTypes(r)'
    <2>1. holder' \in [Request -> BOOLEAN]
        BY <1>1 DEF Inv, TypeOK
    <2>2. answer' \in [Request -> Error \cup {"identity", "report", "unauthorized", Nil}]
        BY <1>1, <1>2 DEF Inv, TypeOK, e
    <2>3. VarTypes'
        BY <1>1, <1>3, <2>1, <2>2, DataStep, TypeSplit DEF Inv, VarTypes, Phase, DataTypes
    <2>4. JobTypes(r)'
        BY <1>3, <1>4, TypeSplit DEF Inv, JobTypes
    <2>. QED
        BY <2>3, <2>4
<1>6. PhaseInv(r)'
    <2>1. e # "identity" /\ e # "report"
        BY <1>2 DEF Error
    <2>2. DOMAIN jobs'[r] = {} /\ tool'[r] = Nil
        BY <1>3 DEF Inv, RequestInv, PhaseInv
    <2>3. /\ got'[r] = [t \in Task |-> {}]
          /\ filed'[r] = [t \in Task |-> Nil] /\ booked'[r] = [t \in Task |-> Nil]
          /\ page'[r][ListTasks] = 0
        <3>1. /\ PhaseInv(r) /\ got' = got /\ filed' = filed /\ booked' = booked /\ page' = page
              /\ phase[r] = "auth"
            BY <1>3 DEF Inv, RequestInv
        <3>. QED
            BY <3>1, Zenon DEF PhaseInv
    <2>. QED
        BY <1>4, <2>1, <2>2, <2>3, NilAssumption DEF PhaseInv, Ended, Tool
<1>7. AuthInv(r)'
    BY <1>4 DEF AuthInv, Ended, e
<1>8. LimitInv(r)' /\ RaceInv(r)' /\ CollectInv(r)' /\ ListInv(r)'
    BY <1>2, <1>3, <1>4, NilAssumption DEF LimitInv, RaceInv, CollectInv, ListInv, Gathers, Collecting,
        Error
<1>9. UserInv(r)' /\ \A t \in Known(r)' : t <= born
    BY <1>3 DEF Inv, RequestInv, UserInv, Known
<1>. QED
    BY <1>3, <1>5, <1>6, <1>7, <1>8, <1>9, RequestStep DEF Inv, TypeOK

LEMMA WhoamiInv == ASSUME Inv, NEW r \in Request, Whoami(r) PROVE Inv'
<1>. USE DEF Whoami, read, history
<1>1. /\ phase[r] = "tool" /\ DOMAIN jobs[r] = {} /\ phase'[r] = "answered"
      /\ tool'[r] = "whoami" /\ answer'[r] = "identity"
    BY DEF Inv, TypeOK, RequestInv, PhaseInv
<1>2. VarTypes' /\ JobTypes(r)'
    <2>1. VarTypes'
        BY DataStep, TypeSplit DEF Inv, VarTypes, Phase, Tool, DataTypes
    <2>2. JobTypes(r)'
        BY <1>1, TypeSplit DEF Inv, JobTypes
    <2>. QED
        BY <2>1, <2>2
<1>3. PhaseInv(r)' /\ AuthInv(r)'
    BY <1>1, NilAssumption DEF Inv, RequestInv, PhaseInv, AuthInv, Ended, Gathered, Tool
<1>4. LimitInv(r)' /\ RaceInv(r)' /\ CollectInv(r)' /\ ListInv(r)'
    BY <1>1 DEF LimitInv, RaceInv, CollectInv, ListInv, Gathers, Collecting
<1>5. UserInv(r)' /\ \A t \in Known(r)' : t <= born
    BY DEF Inv, RequestInv, UserInv, Known
<1>. QED
    BY <1>2, <1>3, <1>4, <1>5, RequestStep DEF Inv, TypeOK

LEMMA ReadsJobs ==
    /\ \A k \in {"global", "project", "task"} : Reads(k) \subseteq Job /\ Reads(k) \cap Task = {}
    /\ GetProject \in Job /\ Task \subseteq Job
    /\ GetProject \notin Task /\ ListUsers \notin Task /\ ListTasks \notin Task
    /\ GetTask \in Reads("task") /\ GetLines \in Reads("task") /\ GetProject \notin Reads("task")
    /\ ListTasks \in Reads("project") /\ ListTasks \in Reads("global")
    /\ \A k \in {"global", "project", "task"} : ListUsers \in Reads(k)
BY JobAssumption DEF Reads, Job

LEMMA StartReportInv ==
    ASSUME Inv, NEW r \in Request, NEW k \in {"global", "project", "task"}, NEW s,
           s \in Task \cup Project \cup {Nil}, k = "task" => s \in Task, k = "project" => s \in Project,
           StartReport(r, k, s)
    PROVE  Inv'
<1>. USE DEF StartReport, read, history
<1>1. /\ phase[r] = "tool" /\ phase'[r] = "reads" /\ tool'[r] = k /\ subject'[r] = s
      /\ jobs'[r] = [j \in Reads(k) |-> "flying"] /\ answer[r] = Nil /\ DOMAIN jobs[r] = {}
      /\ got[r] = [t \in Task |-> {}] /\ filed[r] = [t \in Task |-> Nil]
      /\ booked[r] = [t \in Task |-> Nil] /\ page[r][ListTasks] = 0
      /\ UNCHANGED <<dolibarr, holder, page, filed, got, booked, reply, answer, moved, dropped>>
    BY DEF Inv, TypeOK, RequestInv, PhaseInv, Ended
<1>2. VarTypes' /\ JobTypes(r)'
    <2>1. tool' \in [Request -> Tool \cup {Nil}] /\ phase' \in [Request -> Phase]
        BY DEF Inv, TypeOK, Tool, Phase
    <2>2. subject' \in [Request -> Task \cup Project \cup {Nil}]
        BY DEF Inv, TypeOK
    <2>3. JobTypes(r)'
        BY <1>1, ReadsJobs DEF JobTypes
    <2>4. VarTypes'
        BY <1>1, <2>1, <2>2, DataStep, TypeSplit DEF Inv, VarTypes, DataTypes
    <2>. QED
        BY <2>3, <2>4
<1>3. PhaseInv(r)'
    <2>1. k # Nil
        BY NilAssumption DEF Tool
    <2>. QED
        BY <1>1, <2>1, NilAssumption DEF Inv, RequestInv, PhaseInv, Ended, Gathered
<1>4. AuthInv(r)' /\ LimitInv(r)' /\ RaceInv(r)'
    BY <1>1, NilAssumption DEF AuthInv, LimitInv, RaceInv, Ended, Error
<1>5. CollectInv(r)'
    <2>1. FiledInv(r)'
        BY <1>1, ReadsJobs DEF FiledInv
    <2>2. ASSUME NEW l \in Line PROVE LineInv(r, l)'
        <3>1. home' = home /\ project' = project /\ home[l] \in Task \cup {Nil}
            BY <1>1 DEF dolibarr, Inv, TypeOK
        <3>2. \A t \in Task : ~ Arrived(r, t)'
            BY <1>1, ReadsJobs DEF Arrived
        <3>. QED
            BY <1>1, <3>1, <3>2 DEF LineInv
    <2>. QED
        BY <2>1, <2>2 DEF CollectInv
<1>6. UserInv(r)' /\ \A t \in Known(r)' : t <= born
    BY <1>1 DEF Inv, RequestInv, UserInv, Known
<1>7. ListInv(r)'
    <2>1. Known(r)' = {} /\ Cursor(r)' = 0
        BY <1>1, PageTypes DEF Known, Cursor
    <2>2. Cardinality({}) = 0
        BY FS_EmptySet
    <2>3. jobs'[r][ListTasks] = "flying" => Hidden(r)' = {}
        <3>1. DataTypes /\ Existing' = Existing
            BY <1>1, DataStep
        <3>2. ASSUME NEW t \in Existing PROVE ~ (Rank(Existing, t) <= 0)
            <4>1. Existing \in SUBSET (1..MaxTask) /\ MaxTask \in Nat
                BY Numbered DEF Existing, Task
            <4>2. Rank(Existing, t) \in 1..Cardinality(Existing) /\ Cardinality(Existing) \in Nat
                BY <4>1, RankType, Finite
            <4>. QED
                BY <4>2
        <3>. QED
            BY <2>1, <3>1, <3>2 DEF Hidden, Unread
    <2>4. k # "task" => jobs'[r][ListTasks] = "flying"
        BY <1>1, ReadsJobs
    <2>5. dropped'[r] \in Nat /\ 0 < TaskPages
        BY <1>1, BoundAssumption DEF Inv, TypeOK
    <2>6. page'[r][ListTasks] < TaskPages /\ tool'[r] = k
        BY <1>1, <2>5
    <2>7. jobs'[r][ListTasks] = "flying" => Cardinality(Hidden(r)') <= dropped'[r]
        <3>1. ASSUME jobs'[r][ListTasks] = "flying" PROVE Cardinality(Hidden(r)') = 0
            BY <2>2, <2>3, <3>1
        <3>. QED
            BY <2>5, <3>1
    <2>8. Cardinality(Known(r)') = Cursor(r)'
        BY <2>1, <2>2
    <2>. QED
        BY <2>1, <2>4, <2>6, <2>7, <2>8 DEF ListInv
<1>. QED
    BY <1>1, <1>2, <1>3, <1>4, <1>5, <1>6, <1>7, RequestStep DEF Inv, TypeOK

LEMMA LeaveInv == ASSUME Inv, NEW r \in Request, Leave(r) PROVE Inv'
<1>. USE DEF Leave, read, history
<1>1. /\ phase[r] = "answered" /\ phase'[r] = "over"
      /\ UNCHANGED <<dolibarr, tool, subject, jobs, page, filed, got, booked, reply, answer, moved,
                     dropped>>
    BY DEF Inv, TypeOK
<1>2. VarTypes' /\ JobTypes(r)'
    <2>1. VarTypes'
        BY DataStep, TypeSplit DEF Inv, VarTypes, Phase, DataTypes
    <2>2. JobTypes(r)'
        BY <1>1, TypeSplit DEF Inv, JobTypes
    <2>. QED
        BY <2>1, <2>2
<1>3. PhaseInv(r)' /\ AuthInv(r)'
    <2>1. PhaseInv(r) /\ AuthInv(r)
        BY DEF Inv, RequestInv
    <2>. QED
        BY <1>1, <2>1 DEF PhaseInv, AuthInv, Ended, Gathered
<1>4. LimitInv(r)' /\ RaceInv(r)' /\ CollectInv(r)' /\ ListInv(r)'
    <2>1. LimitInv(r) /\ RaceInv(r)
        BY DEF Inv, RequestInv
    <2>2. (Beyond(r)' <=> Beyond(r)) /\ Status(r, "failed")' = Status(r, "failed")
        BY SameBeyond DEF Status
    <2>. QED
        BY <1>1, <2>1, <2>2 DEF LimitInv, RaceInv, CollectInv, ListInv, Gathers, Collecting
<1>5. UserInv(r)' /\ \A t \in Known(r)' : t <= born
    BY DEF Inv, RequestInv, UserInv, Known
<1>. QED
    BY <1>1, <1>2, <1>3, <1>4, <1>5, RequestStep DEF Inv, TypeOK

---------------------------------------------------------------------------
(* Responses *)

\* A request that has asked for something is collecting, or its collection is over.
LEMMA FlyingPhase ==
    ASSUME Inv, NEW r \in Request, NEW j \in DOMAIN jobs[r]
    PROVE  /\ Gathers(r) <=> phase[r] \notin Ended
           /\ tool[r] # Nil
           /\ Gathers(r) => tool[r] \in {"global", "project", "task"}
<1>1. PhaseInv(r) /\ phase[r] \in Phase
    BY DEF Inv, RequestInv, TypeOK
<1>. QED
    BY <1>1 DEF PhaseInv, Phase, Ended, Gathers, Collecting

\* Which requests a tool sends.
LEMMA JobsOfTool ==
    ASSUME Inv, NEW r \in Request, NEW j \in DOMAIN jobs[r], Gathers(r)
    PROVE  /\ j \in Job /\ tool[r] \in {"global", "project", "task"}
           /\ tool[r] = "task" => j \in Reads("task") \cup {GetProject} /\ subject[r] \in Task
           /\ tool[r] = "project" => j \in Reads("project") /\ subject[r] \in Project
           /\ tool[r] = "global" => j \in Reads("global") \cup Known(r)
<1>1. PhaseInv(r) /\ j \in Job
    BY DEF Inv, RequestInv, TypeOK
<1>. QED
    BY <1>1 DEF PhaseInv, Gathers, Collecting

LEMMA KeepTypes ==
    ASSUME Inv, NEW r \in Request, NEW j \in Job, Keep(r, j)
    PROVE  /\ filed' \in [Request -> [Task -> Project \cup {Nil}]]
           /\ got' \in [Request -> [Task -> SUBSET Line]]
           /\ booked' \in [Request -> [Task -> Project \cup {Nil}]]
           /\ \A s \in Request \ {r} :
                filed'[s] = filed[s] /\ got'[s] = got[s] /\ booked'[s] = booked[s]
<1>1. project \in [Task -> Project \cup {Nil}]
    BY DEF Inv, TypeOK
<1>2. filed' \in [Request -> [Task -> Project \cup {Nil}]]
    BY <1>1 DEF Inv, TypeOK, Keep
<1>3. got' \in [Request -> [Task -> SUBSET Line]]
    BY DEF Inv, TypeOK, Keep
<1>4. booked' \in [Request -> [Task -> Project \cup {Nil}]]
    BY <1>1 DEF Inv, TypeOK, Keep
<1>. QED
    BY <1>2, <1>3, <1>4 DEF Inv, TypeOK, Keep

LEMMA StoreTypes ==
    ASSUME Inv, NEW r \in Request, NEW j \in Job, Store(r, j)
    PROVE  /\ filed' \in [Request -> [Task -> Project \cup {Nil}]]
           /\ got' \in [Request -> [Task -> SUBSET Line]]
           /\ booked' \in [Request -> [Task -> Project \cup {Nil}]]
           /\ \A s \in Request \ {r} :
                filed'[s] = filed[s] /\ got'[s] = got[s] /\ booked'[s] = booked[s]
BY KeepTypes DEF Store, read, Inv, TypeOK

\* What a response says of a task.
LEMMA KeepOfTask ==
    ASSUME Inv, NEW r \in Request, NEW j \in Job, Keep(r, j), NEW t \in Task
    PROVE  /\ filed'[r][t] = IF t \in Described(r, j) THEN project[t] ELSE filed[r][t]
           /\ got'[r][t] = IF t \in Detailed(r, j) THEN {l \in Line : home[l] = t} ELSE got[r][t]
           /\ booked'[r][t] \in {booked[r][t], IF t \in Detailed(r, j) THEN project[t] ELSE booked[r][t]}
BY DEF Keep, Inv, TypeOK

\* Which response carries which tasks.
LEMMA DetailedTasks ==
    ASSUME NEW r \in Request, NEW j \in Job, tool[r] = "task" => subject[r] \in Task, NEW t \in Task
    PROVE  /\ tool[r] = "task" =>
                /\ j \in Reads("task") \cup {GetProject} =>
                    /\ t \in Detailed(r, j) <=> j = GetLines /\ t = subject[r]
                    /\ t \in Described(r, j) <=> j = GetTask /\ t = subject[r]
           /\ tool[r] = "project" =>
                /\ j \in Reads("project") =>
                    /\ t \in Detailed(r, j) <=> j = ListTasks /\ project[t] = subject[r]
                    /\ t \in Described(r, j) <=> j = ListTasks /\ project[t] = subject[r]
           /\ tool[r] = "global" =>
                /\ j \in Reads("global") \cup Task =>
                    /\ t \in Detailed(r, j) <=> j = t
                    /\ t \in Described(r, j) <=>
                            j = ListTasks /\ t \in PageOf(Existing, page[r][ListTasks])
BY JobAssumption DEF Detailed, Described, Reads

\* A response that is not a list of tasks, or that lists the tasks of a project.
LEMMA KeepKnown ==
    ASSUME Inv, NEW r \in Request, NEW j \in DOMAIN jobs[r], Gathers(r), Keep(r, j)
    PROVE  /\ j # ListTasks /\ tool[r] # "task" => Known(r)' = Known(r)
           /\ tool[r] = "project" /\ j = ListTasks =>
                Known(r)' = Known(r) \cup Described(r, j) /\ Described(r, j) \subseteq Task
           /\ tool[r] = "global" /\ j = ListTasks =>
                Known(r)' = Known(r) \cup PageOf(Existing, page[r][ListTasks])
           /\ \A t \in Known(r)' : t <= born
<1>1. /\ j \in Job /\ tool[r] \in {"global", "project", "task"}
      /\ tool[r] = "task" => j \in Reads("task") \cup {GetProject} /\ subject[r] \in Task
      /\ tool[r] = "project" => j \in Reads("project") /\ subject[r] \in Project
      /\ tool[r] = "global" => j \in Reads("global") \cup Task
    BY JobsOfTool DEF Known
<1>2. \A t \in Task :
        filed'[r][t] = (IF t \in Described(r, j) THEN project[t] ELSE filed[r][t])
    BY <1>1, KeepOfTask
<1>3. /\ Existing \subseteq Task /\ \A t \in Existing : project[t] # Nil /\ t <= born
      /\ \A t \in Task \ Existing : project[t] = Nil
      /\ \A t \in Known(r) : t <= born
    BY DEF Inv, TypeOK, RequestInv, Existing
<1>4. /\ Known(r) = {t \in Task : filed[r][t] # Nil}
      /\ Known(r)' = {t \in Task : filed'[r][t] # Nil}
    BY DEF Known
<1>5. CASE tool[r] = "task"
    <2>1. \A t \in Known(r)' : t \in Known(r) \/ t \in Existing
        BY <1>2, <1>3, <1>4
    <2>. QED
        BY <1>3, <1>5, <2>1
<1>6. CASE tool[r] = "project"
    <2>1. \A t \in Task : t \in Described(r, j) <=> (j = ListTasks /\ project[t] = subject[r])
        BY <1>1, <1>6, DetailedTasks
    <2>2. \A t \in Task : t \in Described(r, j) => project[t] # Nil
        BY <1>1, <1>6, <2>1, NilAssumption
    <2>3. j = ListTasks => Described(r, j) \subseteq Task
        BY <1>6, JobAssumption DEF Described
    <2>4. \A t \in Task : t \in Known(r)' <=> (t \in Known(r) \/ t \in Described(r, j))
        BY <1>2, <1>4, <2>2
    <2>5. j # ListTasks => Known(r)' = Known(r)
        BY <1>4, <2>1, <2>4
    <2>6. j = ListTasks => Known(r)' = Known(r) \cup Described(r, j)
        BY <1>4, <2>3, <2>4
    <2>7. \A t \in Known(r)' : t <= born
        BY <1>3, <1>4, <2>2, <2>4
    <2>. QED
        BY <1>6, <2>3, <2>5, <2>6, <2>7
<1>7. CASE tool[r] = "global"
    <2>1. \A t \in Task : t \in Described(r, j) <=>
                (j = ListTasks /\ t \in PageOf(Existing, page[r][ListTasks]))
        BY <1>1, <1>7, DetailedTasks
    <2>2. PageOf(Existing, page[r][ListTasks]) \subseteq Existing
        BY DEF PageOf
    <2>3. \A t \in Task : t \in Known(r)' <=> (t \in Known(r) \/ t \in Described(r, j))
        BY <1>2, <1>3, <1>4, <2>1, <2>2
    <2>4. j # ListTasks => Known(r)' = Known(r)
        BY <1>4, <2>1, <2>3
    <2>5. j = ListTasks => Known(r)' = Known(r) \cup PageOf(Existing, page[r][ListTasks])
        BY <1>3, <1>4, <2>1, <2>2, <2>3
    <2>6. \A t \in Known(r)' : t <= born
        BY <1>3, <1>4, <2>1, <2>2, <2>3
    <2>. QED
        BY <1>7, <2>4, <2>5, <2>6
<1>. QED
    BY <1>1, <1>5, <1>6, <1>7

LEMMA KeepCollects ==
    ASSUME Inv, NEW r \in Request, NEW j \in DOMAIN jobs[r], Gathers(r), Keep(r, j),
           jobs'[r] = jobs[r] \/ jobs'[r] = [jobs[r] EXCEPT ![j] = "ok"],
           j = GetTask => subject[r] \in Existing,
           UNCHANGED <<dolibarr, phase, tool, subject, moved>>
    PROVE  CollectInv(r)'
<1>0. /\ home' = home /\ project' = project /\ tool' = tool /\ subject' = subject
      /\ moved' = moved /\ project \in [Task -> Project \cup {Nil}] /\ home \in [Line -> Task \cup {Nil}]
      /\ j \in Job
    BY DEF dolibarr, Inv, TypeOK
<1>1. PhaseInv(r) /\ FiledInv(r) /\ \A l \in Line \ moved[r] : LineInv(r, l)
    BY DEF Inv, RequestInv, CollectInv
<1>2. /\ tool[r] \in {"global", "project", "task"}
      /\ tool[r] = "task" => j \in Reads("task") \cup {GetProject} /\ subject[r] \in Task
      /\ tool[r] = "project" => j \in Reads("project") /\ subject[r] \in Project
      /\ tool[r] = "global" => j \in Reads("global") \cup Known(r)
      /\ Known(r) \subseteq Task
    BY JobsOfTool DEF Known
<1>3. \A t \in Existing : project[t] # Nil
    BY DEF Existing
<1>k. \A t \in Task :
        /\ filed'[r][t] = (IF t \in Described(r, j) THEN project[t] ELSE filed[r][t])
        /\ got'[r][t] = (IF t \in Detailed(r, j) THEN {l \in Line : home[l] = t} ELSE got[r][t])
        /\ booked'[r][t] \in {booked[r][t], IF t \in Detailed(r, j) THEN project[t] ELSE booked[r][t]}
    BY <1>0, KeepOfTask
<1>d. \A t \in Task :
        /\ tool[r] = "task" =>
            /\ t \in Detailed(r, j) <=> (j = GetLines /\ t = subject[r])
            /\ t \in Described(r, j) <=> (j = GetTask /\ t = subject[r])
        /\ tool[r] = "project" =>
            /\ t \in Detailed(r, j) <=> (j = ListTasks /\ project[t] = subject[r])
            /\ t \in Described(r, j) <=> (j = ListTasks /\ project[t] = subject[r])
        /\ tool[r] = "global" =>
            /\ t \in Detailed(r, j) <=> j = t
            /\ t \in Described(r, j) <=> (j = ListTasks /\ t \in PageOf(Existing, page[r][ListTasks]))
    BY <1>0, <1>2, DetailedTasks
<1>j. /\ DOMAIN jobs'[r] = DOMAIN jobs[r]
      /\ \A i \in DOMAIN jobs[r] : jobs'[r][i] = "ok" => i = j \/ jobs[r][i] = "ok"
    <2>1. CASE jobs'[r] = jobs[r]
        BY <2>1
    <2>2. CASE jobs'[r] = [jobs[r] EXCEPT ![j] = "ok"]
        BY <2>2
    <2>. QED
        BY <2>1, <2>2
<1>r. /\ tool[r] = "task" => GetTask \in DOMAIN jobs[r] /\ GetLines \in DOMAIN jobs[r]
      /\ tool[r] \in {"project", "global"} => ListTasks \in DOMAIN jobs[r]
    BY <1>1, ReadsJobs DEF PhaseInv, Gathers, Collecting
<1>4. FiledInv(r)'
    <2>1. CASE tool[r] = "task"
        <3>1. jobs'[r][GetTask] = "ok" => j = GetTask \/ jobs[r][GetTask] = "ok"
            BY <1>j, <1>r, <2>1
        <3>2. jobs'[r][GetTask] = "ok" => filed'[r][subject[r]] # Nil
            BY <1>0, <1>1, <1>2, <1>3, <2>1, <3>1, <1>k, <1>d DEF FiledInv
        <3>3. \A t \in Task : t # subject[r] => got'[r][t] = {}
            BY <1>0, <1>1, <1>2, <2>1, <1>k, <1>d DEF FiledInv
        <3>. QED
            BY <1>0, <2>1, <3>2, <3>3 DEF FiledInv
    <2>2. CASE tool[r] = "project"
        <3>1. ASSUME NEW t \in Task, got'[r][t] # {} PROVE filed'[r][t] # Nil
            <4>1. CASE t \in Detailed(r, j)
                <5>1. filed'[r][t] = subject[r] /\ subject[r] # Nil
                    BY <1>2, <2>2, <4>1, <1>k, <1>d, Numbered
                <5>. QED
                    BY <5>1
            <4>2. CASE t \notin Detailed(r, j)
                BY <1>1, <2>2, <3>1, <4>2, <1>k, <1>d DEF FiledInv
            <4>. QED
                BY <4>1, <4>2
        <3>. QED
            BY <1>0, <2>2, <3>1 DEF FiledInv
    <2>3. CASE tool[r] = "global"
        <3>1. ASSUME NEW t \in Task, got'[r][t] # {} PROVE filed'[r][t] # Nil
            <4>1. filed[r][t] # Nil
                <5>1. CASE j = t
                    BY <1>2, <2>3, <5>1, ReadsJobs DEF Known
                <5>2. CASE j # t
                    BY <1>1, <2>3, <3>1, <5>2, <1>k, <1>d DEF FiledInv
                <5>. QED
                    BY <5>1, <5>2
            <4>2. PageOf(Existing, page[r][ListTasks]) \subseteq Existing
                BY DEF PageOf
            <4>. QED
                BY <1>3, <2>3, <4>1, <4>2, <1>k, <1>d
        <3>. QED
            BY <1>0, <2>3, <3>1 DEF FiledInv
    <2>. QED
        BY <1>2, <2>1, <2>2, <2>3
<1>5. ASSUME NEW l \in Line \ moved[r] PROVE LineInv(r, l)'
    <2>1. LineInv(r, l)
        BY <1>1
    <2>2. ASSUME NEW t \in Task, l \in got'[r][t] PROVE home[l] = t /\ Within(r, t)
        <3>1. CASE t \in Detailed(r, j)
            <4>1. got'[r][t] = {m \in Line : home[m] = t}
                BY <1>k, <3>1
            <4>2. home[l] = t
                BY <2>2, <4>1
            <4>3. Within(r, t)
                BY <1>d, <3>1 DEF Within
            <4>. QED
                BY <4>2, <4>3
        <3>2. CASE t \notin Detailed(r, j)
            BY <1>0, <2>1, <2>2, <3>2, <1>k DEF LineInv
        <3>. QED
            BY <3>1, <3>2
    <2>3. ASSUME home[l] # Nil
          PROVE  /\ booked'[r][home[l]] \in {project[home[l]], Nil}
                 /\ filed'[r][home[l]] \in {project[home[l]], Nil}
                 /\ Within(r, home[l]) /\ Arrived(r, home[l])' => l \in got'[r][home[l]]
        <3>1. home[l] \in Task
            BY <1>0, <2>3
        <3>2. /\ booked'[r][home[l]] \in {project[home[l]], Nil}
              /\ filed'[r][home[l]] \in {project[home[l]], Nil}
            BY <1>0, <2>1, <2>3, <3>1, <1>k DEF LineInv
        <3>3. CASE home[l] \in Detailed(r, j)
            BY <1>0, <3>1, <3>2, <3>3, <1>k
        <3>4. CASE home[l] \notin Detailed(r, j)
            <4>1. ASSUME Within(r, home[l]), Arrived(r, home[l])' PROVE Arrived(r, home[l])
                BY <1>0, <1>2, <1>j, <1>r, <3>1, <3>4, <4>1, <1>d DEF Within, Arrived
            <4>2. got'[r][home[l]] = got[r][home[l]]
                BY <1>0, <3>1, <3>4, <1>k
            <4>. QED
                BY <2>1, <2>3, <3>2, <4>1, <4>2 DEF LineInv
        <3>. QED
            BY <3>3, <3>4
    <2>. QED
        BY <1>0, <2>2, <2>3 DEF LineInv, Within
<1>. QED
    BY <1>0, <1>4, <1>5 DEF CollectInv

---------------------------------------------------------------------------
(* Lists of tasks *)

\* The tasks, as a table.
LEMMA Table ==
    ASSUME Inv
    PROVE  /\ MaxTask \in Nat /\ Existing \in SUBSET (1..MaxTask)
           /\ born \in Nat /\ Existing \in SUBSET (1..born)
           /\ IsFiniteSet(Existing)
           /\ \A t \in Existing : Rank(Existing, t) \in Nat
<1>1. MaxTask \in Nat /\ Existing \in SUBSET (1..MaxTask)
    BY Numbered DEF Existing, Task
<1>2. born \in Nat /\ \A t \in Existing : t <= born
    BY <1>1 DEF Inv, TypeOK
<1>3. Existing \in SUBSET (1..born)
    BY <1>1, <1>2
<1>4. IsFiniteSet(Existing) /\ \A t \in Existing : Rank(Existing, t) \in Nat
    BY <1>1, Finite, RankType
<1>. QED
    BY <1>1, <1>2, <1>3, <1>4

\* What a page adds to the tasks that were read.
LEMMA PageRead ==
    ASSUME Inv, NEW r \in Request, Gathers(r), tool[r] = "global", ListTasks \in DOMAIN jobs[r],
           jobs[r][ListTasks] = "flying", Keep(r, ListTasks)
    PROVE  LET current == PageOf(Existing, page[r][ListTasks])
           IN  /\ Known(r)' = Known(r) \cup current
               /\ current =
                    {t \in Existing : Cursor(r) < Rank(Existing, t)
                                      /\ Rank(Existing, t) <= Cursor(r) + PageSize}
               /\ Cardinality(current) \in 0..PageSize
               /\ Cardinality(Known(r)') = Cursor(r) + Cardinality(current)
               /\ Cardinality(current) < PageSize =>
                    \A t \in Existing : Rank(Existing, t) <= Cursor(r) + PageSize
<1>. DEFINE current == PageOf(Existing, page[r][ListTasks])
            p == page[r][ListTasks]
<1>1. p \in Nat /\ PageSize \in Nat \ {0} /\ Cursor(r) \in Nat
    BY PageTypes
<1>2. (p + 1) * PageSize = Cursor(r) + PageSize
    BY <1>1 DEF Cursor
<1>3. current = {t \in Existing : Cursor(r) < Rank(Existing, t)
                                  /\ Rank(Existing, t) <= Cursor(r) + PageSize}
    BY <1>2 DEF PageOf, Cursor
<1>4. /\ Cardinality(current) \in 0..PageSize
      /\ Cardinality(current) < PageSize =>
            \A t \in Existing : Rank(Existing, t) <= Cursor(r) + PageSize
    BY <1>1, <1>2, Table, PageCardinality
<1>5. Known(r)' = Known(r) \cup current
    BY KeepKnown
<1>6. /\ Cardinality(Known(r)) = Cursor(r)
      /\ \A t \in Known(r) \cap Existing : Rank(Existing, t) <= Cursor(r)
    BY DEF Inv, RequestInv, ListInv
<1>. HIDE DEF current
<1>7. Known(r) \cap current = {}
    <2>1. ASSUME NEW t \in Known(r), t \in current PROVE FALSE
        <3>1. t \in Existing /\ Cursor(r) < Rank(Existing, t) /\ Rank(Existing, t) <= Cursor(r)
            BY <1>3, <1>6, <2>1
        <3>. QED
            BY <1>1, <3>1, Table
    <2>. QED
        BY <2>1
<1>8. IsFiniteSet(Known(r)) /\ IsFiniteSet(current)
    BY <1>3, Numbered, Table, FS_Subset DEF Known
<1>9. Cardinality(Known(r) \cup current) = Cardinality(Known(r)) + Cardinality(current)
    <2>1. Cardinality(Known(r) \cup current) =
            Cardinality(Known(r)) + Cardinality(current) - Cardinality({})
        BY <1>7, <1>8, FS_Union
    <2>. QED
        BY <1>1, <1>4, <1>6, <2>1, FS_EmptySet
<1>. QED
    BY <1>3, <1>4, <1>5, <1>6, <1>9 DEF current

\* A page that was kept hides no task that was not hidden before it.
LEMMA PageHides ==
    ASSUME Inv, NEW r \in Request, Gathers(r), tool[r] = "global", ListTasks \in DOMAIN jobs[r],
           jobs[r][ListTasks] = "flying", Keep(r, ListTasks), UNCHANGED <<dolibarr, history>>,
           \A t \in Existing : Rank(Existing, t) <= Cursor(r) + PageSize
                \/ (jobs'[r][ListTasks] = "flying" /\ Cursor(r)' = Cursor(r) + PageSize)
    PROVE  Cardinality(Hidden(r)') <= dropped'[r]
<1>. DEFINE current == PageOf(Existing, page[r][ListTasks])
<1>1. home' = home /\ moved' = moved /\ dropped' = dropped /\ Existing' = Existing
    BY DataStep DEF dolibarr, history
<1>2. /\ Known(r)' = Known(r) \cup current
      /\ current = {t \in Existing : Cursor(r) < Rank(Existing, t)
                                     /\ Rank(Existing, t) <= Cursor(r) + PageSize}
    BY PageRead
<1>. HIDE DEF current
<1>3. ASSUME NEW t \in Hidden(r)' PROVE t \in Hidden(r)
    <2>1. /\ t \in Existing /\ t \notin Known(r) /\ t \notin current
          /\ \E l \in Line \ moved[r] : home[l] = t
          /\ jobs'[r][ListTasks] = "flying" => Rank(Existing, t) <= Cursor(r)'
        BY <1>1, <1>2 DEF Hidden, Unread
    <2>2. Rank(Existing, t) <= Cursor(r) + PageSize
        BY <2>1
    <2>3. Rank(Existing, t) \in Nat /\ Cursor(r) \in Nat
        BY <2>1, Table, PageTypes
    <2>4. Rank(Existing, t) <= Cursor(r)
        BY <1>2, <2>1, <2>2, <2>3
    <2>. QED
        BY <2>1, <2>4 DEF Hidden, Unread
<1>4. Hidden(r)' \subseteq Hidden(r) /\ Hidden(r) \in SUBSET Task
    BY <1>3 DEF Hidden, Unread, Existing
<1>5. /\ Cardinality(Hidden(r)') \in Nat /\ Cardinality(Hidden(r)) \in Nat
      /\ Cardinality(Hidden(r)') <= Cardinality(Hidden(r))
    BY <1>4, FewerTasks
<1>6. Cardinality(Hidden(r)) <= dropped[r] /\ dropped[r] \in Nat
    BY BoundAssumption DEF Inv, RequestInv, ListInv, TypeOK
<1>. QED
    BY <1>1, <1>5, <1>6

\* A full page, of which there is not the last one.
LEMMA NextPageLists ==
    ASSUME Inv, NEW r \in Request, Gathers(r), tool[r] = "global", ListTasks \in DOMAIN jobs[r],
           jobs[r][ListTasks] = "flying", Keep(r, ListTasks), UNCHANGED <<dolibarr, history>>,
           FullPage(r), page[r][ListTasks] + 1 < TaskPages,
           page'[r][ListTasks] = page[r][ListTasks] + 1,
           phase' = phase, tool' = tool, jobs' = jobs
    PROVE  ListInv(r)'
<1>. DEFINE current == PageOf(Existing, page[r][ListTasks])
<1>1. page[r][ListTasks] \in Nat /\ PageSize \in Nat \ {0} /\ Cursor(r) \in Nat
    BY PageTypes
<1>2. Cursor(r)' = Cursor(r) + PageSize
    BY <1>1 DEF Cursor
<1>3. /\ Known(r)' = Known(r) \cup current
      /\ current = {t \in Existing : Cursor(r) < Rank(Existing, t)
                                     /\ Rank(Existing, t) <= Cursor(r) + PageSize}
      /\ Cardinality(Known(r)') = Cursor(r) + Cardinality(current)
    BY PageRead
<1>4. Cardinality(current) = PageSize
    BY DEF FullPage
<1>. HIDE DEF current
<1>5. Cardinality(Known(r)') = Cursor(r)'
    BY <1>2, <1>3, <1>4
<1>6. Existing' = Existing
    BY DataStep
<1>7. ASSUME NEW t \in Known(r)' \cap Existing PROVE Rank(Existing, t) <= Cursor(r)'
    <2>1. CASE t \in current
        BY <1>2, <1>3, <2>1
    <2>2. CASE t \in Known(r)
        <3>1. Rank(Existing, t) <= Cursor(r) /\ Rank(Existing, t) \in Nat
            BY <2>2, Table DEF Inv, RequestInv, ListInv
        <3>. QED
            BY <1>1, <1>2, <3>1
    <2>. QED
        BY <1>3, <2>1, <2>2
<1>8. Cardinality(Hidden(r)') <= dropped'[r]
    BY <1>2, PageHides
<1>9. tool'[r] = "global" /\ jobs'[r][ListTasks] = "flying" /\ page'[r][ListTasks] < TaskPages
    OBVIOUS
<1>. QED
    BY <1>5, <1>6, <1>7, <1>8, <1>9 DEF ListInv

\* The last page, which is not full.
LEMMA LastPageLists ==
    ASSUME Inv, NEW r \in Request, Gathers(r), tool[r] = "global", ListTasks \in DOMAIN jobs[r],
           jobs[r][ListTasks] = "flying", Keep(r, ListTasks), UNCHANGED <<dolibarr, history>>,
           ~ FullPage(r), tool' = tool, jobs'[r][ListTasks] = "ok"
    PROVE  ListInv(r)'
<1>. DEFINE current == PageOf(Existing, page[r][ListTasks])
            p == page[r][ListTasks]
<1>1. /\ p \in Nat /\ PageSize \in Nat \ {0} /\ Cursor(r) \in Nat /\ TaskPages \in Nat
      /\ p < TaskPages
    BY PageTypes DEF Inv, RequestInv, ListInv
<1>2. /\ Cardinality(current) \in 0..PageSize
      /\ Cardinality(Known(r)') = Cursor(r) + Cardinality(current)
      /\ Cardinality(current) < PageSize =>
            \A t \in Existing : Rank(Existing, t) <= Cursor(r) + PageSize
    BY PageRead
<1>3. Cardinality(current) < PageSize
    BY <1>1, <1>2 DEF FullPage
<1>. HIDE DEF current
<1>4. Cardinality(Known(r)') < MaxTasks
    <2>1. p + 1 <= TaskPages
        BY <1>1
    <2>2. (p + 1) * PageSize <= TaskPages * PageSize
        BY <1>1, <2>1
    <2>3. (p + 1) * PageSize = Cursor(r) + PageSize
        BY <1>1 DEF Cursor
    <2>. QED
        BY <1>1, <1>2, <1>3, <2>2, <2>3 DEF MaxTasks
<1>5. Cardinality(Hidden(r)') <= dropped'[r]
    BY <1>2, <1>3, PageHides
<1>6. tool'[r] = "global" /\ jobs'[r][ListTasks] # "flying"
    OBVIOUS
<1>. QED
    BY <1>4, <1>5, <1>6 DEF ListInv

\* Any other response, or none: the list is as far as it was.
LEMMA SameLists ==
    ASSUME Inv, NEW r \in Request, Gathers(r), UNCHANGED <<dolibarr, tool, history>>,
           tool[r] # "task" =>
                /\ Known(r)' = Known(r) /\ jobs'[r][ListTasks] = jobs[r][ListTasks]
                /\ page'[r][ListTasks] = page[r][ListTasks]
    PROVE  ListInv(r)'
<1>1. home' = home /\ moved' = moved /\ dropped' = dropped /\ Existing' = Existing
    BY DataStep DEF dolibarr, history
<1>2. CASE tool[r] = "task"
    BY <1>2 DEF ListInv
<1>3. CASE tool[r] # "task"
    <2>1. Cursor(r)' = Cursor(r) /\ Hidden(r)' = Hidden(r)
        BY <1>1, <1>3 DEF Cursor, Hidden, Unread
    <2>. QED
        BY <1>1, <1>3, <2>1 DEF Inv, RequestInv, ListInv
<1>. QED
    BY <1>2, <1>3

\* The tasks of a project come in one response.
LEMMA ProjectLists ==
    ASSUME Inv, NEW r \in Request, Gathers(r), tool[r] = "project", ListTasks \in DOMAIN jobs[r],
           jobs[r][ListTasks] = "flying", Keep(r, ListTasks), ~ TooLarge(r, ListTasks),
           tool' = tool, jobs'[r][ListTasks] = "ok"
    PROVE  ListInv(r)'
<1>1. Known(r) = {} /\ Known(r)' = Known(r) \cup Described(r, ListTasks)
    BY KeepKnown DEF Inv, RequestInv, ListInv
<1>2. Described(r, ListTasks) \in SUBSET Task
    BY KeepKnown
<1>3. /\ Cardinality(Described(r, ListTasks)) \in Nat
      /\ ~ (Cardinality(Described(r, ListTasks)) > MaxTasks)
    BY <1>2, FewerTasks DEF TooLarge
<1>4. Cardinality(Known(r)') <= MaxTasks
    BY <1>1, <1>3, PageTypes
<1>5. tool'[r] = "project"
    OBVIOUS
<1>. QED
    BY <1>4, <1>5 DEF ListInv

---------------------------------------------------------------------------
(* Responses of every kind *)

\* The page loops of a request after a step of one of its jobs.
PageStep(r) ==
    /\ page' \in [Request -> [{ListTasks, ListUsers} -> Nat]]
    /\ \A q \in Request, i \in {ListTasks, ListUsers} : page'[q][i] <= PageBound(i)
    /\ \A s \in Request \ {r} : page'[s] = page[s]
    /\ page[r][ListUsers] = UserPages => page'[r][ListUsers] = UserPages

LEMMA TurnPageStep ==
    ASSUME Inv, NEW r \in Request, NEW j \in {ListTasks, ListUsers}, j \in Status(r, "flying"),
           page[r][j] + 1 <= PageBound(j), TurnPage(r, j)
    PROVE  /\ PageStep(r)
           /\ page'[r][j] = page[r][j] + 1
           /\ j = ListTasks => page'[r][ListUsers] = page[r][ListUsers]
           /\ j = ListUsers => page'[r][ListTasks] = page[r][ListTasks]
<1>1. /\ page \in [Request -> [{ListTasks, ListUsers} -> Nat]]
      /\ \A q \in Request, i \in {ListTasks, ListUsers} : page[q][i] <= PageBound(i)
      /\ ListTasks # ListUsers
    BY JobAssumption DEF Inv, TypeOK
<1>2. page' = [page EXCEPT ![r][j] = page[r][j] + 1]
    BY DEF TurnPage
<1>3. /\ page' \in [Request -> [{ListTasks, ListUsers} -> Nat]]
      /\ \A s \in Request \ {r} : page'[s] = page[s]
      /\ page'[r][j] = page[r][j] + 1
      /\ \A i \in {ListTasks, ListUsers} : i # j => page'[r][i] = page[r][i]
    <2>. DEFINE n == page[r][j] + 1
                f == [page[r] EXCEPT ![j] = n]
    <2>1. n \in Nat /\ page[r] \in [{ListTasks, ListUsers} -> Nat]
        BY <1>1
    <2>2. page' = [page EXCEPT ![r] = f]
        BY <1>1, <1>2
    <2>. HIDE DEF n
    <2>3. f \in [{ListTasks, ListUsers} -> Nat] /\ f[j] = n
          /\ \A i \in {ListTasks, ListUsers} : i # j => f[i] = page[r][i]
        BY <2>1
    <2>. HIDE DEF f
    <2>4. /\ page'[r] = f
          /\ \A s \in Request \ {r} : page'[s] = page[s]
          /\ page' \in [Request -> [{ListTasks, ListUsers} -> Nat]]
        BY <1>1, <2>2, <2>3
    <2>5. n = page[r][j] + 1
        BY DEF n
    <2>. QED
        BY <2>3, <2>4, <2>5
<1>4. \A q \in Request, i \in {ListTasks, ListUsers} : page'[q][i] <= PageBound(i)
    <2>1. ASSUME NEW q \in Request, NEW i \in {ListTasks, ListUsers} PROVE page'[q][i] <= PageBound(i)
        <3>1. CASE q = r /\ i = j
            BY <1>3, <3>1
        <3>2. CASE ~ (q = r /\ i = j)
            BY <1>1, <1>3, <3>2
        <3>. QED
            BY <3>1, <3>2
    <2>. QED
        BY <2>1
<1>5. j = ListUsers => page[r][ListUsers] # UserPages
    BY DEF Inv, RequestInv, UserInv, Status
<1>6. PageStep(r)
    <2>1. ListUsers # j => page'[r][ListUsers] = page[r][ListUsers]
        BY <1>3
    <2>2. page[r][ListUsers] = UserPages => page'[r][ListUsers] = UserPages
        BY <1>5, <2>1
    <2>. QED
        BY <1>3, <1>4, <2>2 DEF PageStep
<1>7. /\ j = ListTasks => page'[r][ListUsers] = page[r][ListUsers]
      /\ j = ListUsers => page'[r][ListTasks] = page[r][ListTasks]
    BY <1>1, <1>3
<1>. QED
    BY <1>3, <1>6, <1>7

LEMMA LeaveLoopStep ==
    ASSUME Inv, NEW r \in Request, NEW j \in Status(r, "flying"), LeaveLoop(r, j)
    PROVE  /\ PageStep(r)
           /\ j = ListUsers => page'[r][ListUsers] = 0
           /\ j # ListUsers => page'[r][ListUsers] = page[r][ListUsers]
           /\ j # ListTasks => page'[r][ListTasks] = page[r][ListTasks]
<1>1. /\ page \in [Request -> [{ListTasks, ListUsers} -> Nat]]
      /\ \A q \in Request, i \in {ListTasks, ListUsers} : page[q][i] <= PageBound(i)
      /\ ListTasks # ListUsers
    BY JobAssumption DEF Inv, TypeOK
<1>2. j = ListUsers => page[r][ListUsers] # UserPages
    BY DEF Inv, RequestInv, UserInv, Status
<1>3. CASE ~ Paged(r, j)
    <2>1. page' = page /\ j # ListUsers
        BY <1>3 DEF LeaveLoop, Paged
    <2>. QED
        BY <1>1, <2>1 DEF PageStep
<1>4. CASE Paged(r, j)
    <2>1. page' = [page EXCEPT ![r][j] = 0] /\ j \in {ListTasks, ListUsers}
        BY <1>4 DEF LeaveLoop, Paged
    <2>2. /\ page' \in [Request -> [{ListTasks, ListUsers} -> Nat]]
          /\ \A s \in Request \ {r} : page'[s] = page[s]
          /\ page'[r][j] = 0
          /\ \A i \in {ListTasks, ListUsers} : i # j => page'[r][i] = page[r][i]
        BY <1>1, <2>1
    <2>3. ASSUME NEW q \in Request, NEW i \in {ListTasks, ListUsers} PROVE page'[q][i] <= PageBound(i)
        <3>1. CASE q = r /\ i = j
            BY <2>2, <3>1, PageTypes DEF PageBound
        <3>2. CASE ~ (q = r /\ i = j)
            BY <1>1, <2>2, <3>2
        <3>. QED
            BY <3>1, <3>2
    <2>4. PageStep(r)
        <3>1. ListUsers # j => page'[r][ListUsers] = page[r][ListUsers]
            BY <2>2
        <3>2. page[r][ListUsers] = UserPages => page'[r][ListUsers] = UserPages
            BY <1>2, <3>1
        <3>. QED
            BY <2>2, <2>3, <3>2 DEF PageStep
    <2>5. /\ j # ListUsers => page'[r][ListUsers] = page[r][ListUsers]
          /\ j # ListTasks => page'[r][ListTasks] = page[r][ListTasks]
        BY <2>2
    <2>. QED
        BY <2>2, <2>4, <2>5
<1>. QED
    BY <1>3, <1>4

\* What was beyond a limit stays beyond it.
LEMMA BeyondKept ==
    ASSUME NEW r \in Request, UNCHANGED read, tool' = tool, PageStep(r), Beyond(r)
    PROVE  Beyond(r)'
<1>1. Records(r)' = Records(r) /\ Known(r)' = Known(r)
    BY DEF Records, Known, read
<1>. QED
    BY <1>1 DEF Beyond, PageStep

LEMMA ResponseInv ==
    ASSUME Inv, NEW r \in Request, NEW j \in Status(r, "flying"),
           jobs' = jobs \/ jobs' = [jobs EXCEPT ![r][j] = "ok"],
           Store(r, j), PageStep(r), UserInv(r)', Gathers(r) /\ Keep(r, j) => ListInv(r)',
           j = GetTask => subject[r] \in Existing,
           UNCHANGED <<dolibarr, phase, tool, subject, holder, reply, answer, history>>
    PROVE  Inv'
<1>0. /\ j \in DOMAIN jobs[r] /\ jobs[r][j] = "flying" /\ j \in Job
      /\ jobs'[r] = jobs[r] \/ jobs'[r] = [jobs[r] EXCEPT ![j] = "ok"]
      /\ DOMAIN jobs' = Request
      /\ \A s \in Request \ {r} : jobs'[s] = jobs[s]
      /\ moved' = moved /\ dropped' = dropped
    BY DEF Status, Inv, TypeOK, history
<1>1. /\ DOMAIN jobs'[r] = DOMAIN jobs[r]
      /\ \A i \in DOMAIN jobs[r] : jobs'[r][i] \in {jobs[r][i], "ok"}
    <2>1. CASE jobs'[r] = jobs[r]
        BY <2>1
    <2>2. CASE jobs'[r] = [jobs[r] EXCEPT ![j] = "ok"]
        BY <2>2
    <2>. QED
        BY <1>0, <2>1, <2>2
<1>2. /\ filed' \in [Request -> [Task -> Project \cup {Nil}]]
      /\ got' \in [Request -> [Task -> SUBSET Line]]
      /\ booked' \in [Request -> [Task -> Project \cup {Nil}]]
      /\ \A s \in Request \ {r} :
            filed'[s] = filed[s] /\ got'[s] = got[s] /\ booked'[s] = booked[s]
    BY <1>0, StoreTypes
<1>3. VarTypes'
    BY <1>0, <1>2, DataStep, TypeSplit DEF Inv, VarTypes, DataTypes, PageStep
<1>4. PhaseInv(r) /\ answer[r] \notin {"identity", "report"} /\ JobTypes(r)
    BY <1>0, TypeSplit DEF Inv, RequestInv, PhaseInv
<1>5. tool[r] # Nil /\ phase[r] \notin {"idle", "auth", "tool"}
    BY <1>0, <1>4, FlyingPhase DEF PhaseInv
<1>6. phase[r] = "fanout" => Known(r)' = Known(r)
    <2>1. ASSUME phase[r] = "fanout" PROVE Known(r)' = Known(r)
        <3>1. tool[r] = "global" /\ jobs[r][ListTasks] = "ok" /\ Gathers(r)
            BY <1>4, <2>1, ReadsJobs DEF PhaseInv, Gathered, Gathers, Collecting
        <3>2. Keep(r, j) /\ j # ListTasks
            BY <1>0, <2>1, <3>1 DEF Store, Ended
        <3>. QED
            BY <1>0, <3>1, <3>2, KeepKnown
    <2>. QED
        BY <2>1
<1>7. JobTypes(r)'
    <2>1. /\ DOMAIN jobs'[r] \subseteq Job
          /\ \A i \in DOMAIN jobs'[r] : jobs'[r][i] \in {"waiting", "flying", "ok", "failed"}
        BY <1>1, <1>4 DEF JobTypes
    <2>2. phase[r] = "project" => jobs'[r][GetProject] \in {"flying", "ok"}
        <3>1. phase[r] = "project" => GetProject \in DOMAIN jobs[r]
            BY <1>4 DEF PhaseInv
        <3>. QED
            BY <1>1, <1>4, <3>1 DEF JobTypes
    <2>3. Status(r, "failed") = {} => Status(r, "failed")' = {}
        BY <1>1 DEF Status
    <2>. QED
        BY <1>1, <1>4, <1>6, <2>1, <2>2, <2>3 DEF JobTypes
<1>8. PhaseInv(r)'
    <2>1. \A stage \in SUBSET DOMAIN jobs[r] : Gathered(r, stage) => Gathered(r, stage)'
        BY <1>1 DEF Gathered
    <2>2. /\ phase[r] = "project" => Gathered(r, Reads("task"))'
          /\ phase[r] = "fanout" => Gathered(r, Reads("global"))'
        BY <1>4, <2>1 DEF PhaseInv
    <2>3. \A i \in DOMAIN jobs'[r] :
            /\ jobs'[r][i] = "waiting" => jobs[r][i] = "waiting"
            /\ jobs'[r][i] = "failed" => jobs[r][i] = "failed"
        BY <1>1
    <2>. QED
        BY <1>1, <1>4, <1>5, <1>6, <2>2, <2>3 DEF PhaseInv
<1>9. AuthInv(r)'
    BY DEF Inv, RequestInv, AuthInv
<1>10. CASE Gathers(r)
    <2>1. Keep(r, j) /\ answer[r] = Nil
        BY <1>4, <1>10 DEF Store, Gathers, Collecting, Ended, PhaseInv
    <2>2. LimitInv(r)' /\ RaceInv(r)'
        BY <2>1, NilAssumption DEF LimitInv, RaceInv, Error
    <2>3. CollectInv(r)'
        BY <1>0, <1>10, <2>1, KeepCollects
    <2>4. \A t \in Known(r)' : t <= born
        BY <1>0, <1>10, <2>1, KeepKnown
    <2>. QED
        BY <1>0, <1>2, <1>3, <1>7, <1>8, <1>9, <1>10, <2>1, <2>2, <2>3, <2>4, RequestStep DEF PageStep
<1>11. CASE ~ Gathers(r)
    <2>1. UNCHANGED read
        BY <1>0, <1>11, FlyingPhase DEF Store
    <2>2. Status(r, "failed")' = Status(r, "failed") /\ Known(r)' = Known(r)
        <3>1. \A i \in DOMAIN jobs[r] : jobs'[r][i] = "failed" <=> jobs[r][i] = "failed"
            <4>1. CASE jobs'[r] = jobs[r]
                BY <4>1
            <4>2. CASE jobs'[r] = [jobs[r] EXCEPT ![j] = "ok"]
                BY <1>0, <4>2
            <4>. QED
                BY <1>0, <4>1, <4>2
        <3>. QED
            BY <1>1, <2>1, <3>1 DEF Status, Known, read
    <2>3. LimitInv(r)'
        BY <1>4, <2>1, BeyondKept DEF Inv, RequestInv, LimitInv
    <2>4. RaceInv(r)'
        BY <1>0, <2>2 DEF Inv, RequestInv, RaceInv
    <2>5. CollectInv(r)' /\ ListInv(r)'
        BY <1>11 DEF CollectInv, ListInv, Gathers
    <2>6. \A t \in Known(r)' : t <= born
        BY <2>2 DEF Inv, RequestInv
    <2>. QED
        BY <1>0, <1>2, <1>3, <1>7, <1>8, <1>9, <2>3, <2>4, <2>5, <2>6, RequestStep DEF PageStep
<1>. QED
    BY <1>10, <1>11

\* A paged job is a list of tasks or of users.
LEMMA PagedJobs ==
    ASSUME NEW r \in Request, NEW j, Paged(r, j)
    PROVE  j \in {ListTasks, ListUsers} /\ (j = ListTasks => tool[r] = "global")
BY JobAssumption DEF Paged

LEMMA NextPageInv ==
    ASSUME Inv, NEW r \in Request, NEW j \in Status(r, "flying"), NextPage(r, j)
    PROVE  Inv'
<1>1. /\ Paged(r, j) /\ MayBeFull(r, j) /\ page[r][j] + 1 < PageBound(j)
      /\ TurnPage(r, j) /\ Store(r, j)
      /\ UNCHANGED <<dolibarr, phase, tool, subject, holder, jobs, reply, answer, history>>
    BY DEF NextPage
<1>2. j \in {ListTasks, ListUsers} /\ (j = ListTasks => tool[r] = "global")
    BY <1>1, PagedJobs
<1>3. /\ page[r][j] \in Nat /\ PageBound(j) \in Nat
      /\ j \in DOMAIN jobs[r] /\ jobs[r][j] = "flying"
    BY <1>2, PageTypes DEF PageBound, Status
<1>4. /\ PageStep(r) /\ page'[r][j] = page[r][j] + 1
      /\ j = ListTasks => page'[r][ListUsers] = page[r][ListUsers]
      /\ j = ListUsers => page'[r][ListTasks] = page[r][ListTasks]
    BY <1>1, <1>2, <1>3, TurnPageStep
<1>5. UserInv(r)'
    <2>1. CASE j = ListUsers
        <3>1. page'[r][ListUsers] # UserPages
            BY <1>1, <1>3, <1>4, <2>1, PageTypes, JobAssumption DEF PageBound
        <3>. QED
            BY <3>1 DEF UserInv
    <2>2. CASE j = ListTasks
        BY <1>1, <1>4, <2>2 DEF Inv, RequestInv, UserInv
    <2>. QED
        BY <1>2, <2>1, <2>2
<1>6. ASSUME Gathers(r), Keep(r, j) PROVE ListInv(r)'
    <2>1. CASE j = ListTasks
        <3>1. FullPage(r) /\ page[r][ListTasks] + 1 < TaskPages
            BY <1>1, <2>1, JobAssumption DEF MayBeFull, PageBound
        <3>. QED
            BY <1>1, <1>2, <1>3, <1>4, <1>6, <2>1, <3>1, NextPageLists
    <2>2. CASE j = ListUsers
        <3>1. tool[r] # "task" => Known(r)' = Known(r)
            BY <1>3, <1>6, <2>2, JobAssumption, KeepKnown
        <3>. QED
            BY <1>1, <1>4, <1>6, <2>2, <3>1, SameLists
    <2>. QED
        BY <1>2, <2>1, <2>2
<1>. QED
    BY <1>1, <1>2, <1>4, <1>5, <1>6, JobAssumption, ResponseInv

LEMMA JobReturnsInv ==
    ASSUME Inv, NEW r \in Request, NEW j \in Status(r, "flying"), JobReturns(r, j)
    PROVE  Inv'
<1>1. /\ Paged(r, j) => MayBeShort(r, j)
      /\ j = GetTask => subject[r] \in Existing
      /\ ~ TooLarge(r, j)
      /\ jobs' = [jobs EXCEPT ![r][j] = "ok"] /\ LeaveLoop(r, j) /\ Store(r, j)
      /\ UNCHANGED <<dolibarr, phase, tool, subject, holder, reply, answer, history>>
    BY DEF JobReturns
<1>2. /\ j \in DOMAIN jobs[r] /\ jobs[r][j] = "flying"
      /\ jobs'[r] = [jobs[r] EXCEPT ![j] = "ok"]
      /\ \A i \in DOMAIN jobs[r] \ {j} : jobs'[r][i] = jobs[r][i]
      /\ jobs'[r][j] = "ok"
    BY <1>1 DEF Inv, Status
<1>3. /\ PageStep(r)
      /\ j = ListUsers => page'[r][ListUsers] = 0
      /\ j # ListUsers => page'[r][ListUsers] = page[r][ListUsers]
      /\ j # ListTasks => page'[r][ListTasks] = page[r][ListTasks]
    BY <1>1, LeaveLoopStep
<1>4. UserInv(r)'
    <2>1. CASE j = ListUsers
        BY <1>3, <2>1, PageTypes DEF UserInv
    <2>2. CASE j # ListUsers
        BY <1>2, <1>3, <2>2 DEF Inv, RequestInv, UserInv
    <2>. QED
        BY <2>1, <2>2
<1>5. ASSUME Gathers(r), Keep(r, j) PROVE ListInv(r)'
    <2>1. PhaseInv(r) /\ tool[r] \in {"global", "project", "task"}
        BY <1>2, <1>5, FlyingPhase DEF Inv, RequestInv
    <2>2. CASE j = ListTasks /\ tool[r] = "global"
        <3>1. ~ FullPage(r)
            BY <1>1, <2>2, JobAssumption DEF Paged, MayBeShort
        <3>. QED
            BY <1>1, <1>2, <1>5, <2>2, <3>1, LastPageLists
    <2>3. CASE j = ListTasks /\ tool[r] = "project"
        BY <1>1, <1>2, <1>5, <2>3, ProjectLists
    <2>4. CASE tool[r] = "task"
        BY <1>1, <1>5, <2>4, SameLists
    <2>5. CASE j # ListTasks /\ tool[r] # "task"
        <3>1. Known(r)' = Known(r)
            BY <1>2, <1>5, <2>5, KeepKnown
        <3>2. ListTasks \in DOMAIN jobs[r]
            BY <1>5, <2>1, <2>5, ReadsJobs DEF PhaseInv, Gathers, Collecting
        <3>. QED
            BY <1>1, <1>2, <1>3, <1>5, <2>5, <3>1, <3>2, SameLists
    <2>. QED
        BY <2>1, <2>2, <2>3, <2>4, <2>5
<1>. QED
    BY <1>1, <1>3, <1>4, <1>5, ResponseInv

\* The first failure answers the request, a later one is dropped.
LEMMA RaiseInv ==
    ASSUME Inv, NEW r \in Request, NEW j \in Status(r, "flying"), NEW e \in Error, Raise(r, j, e),
           /\ filed' \in [Request -> [Task -> Project \cup {Nil}]]
           /\ got' \in [Request -> [Task -> SUBSET Line]]
           /\ booked' \in [Request -> [Task -> Project \cup {Nil}]],
           \A s \in Request \ {r} :
                filed'[s] = filed[s] /\ got'[s] = got[s] /\ booked'[s] = booked[s],
           \A t \in Known(r)' : t <= born,
           PageStep(r), UserInv(r)',
           phase[r] \in Ended => UNCHANGED read,
           phase[r] \notin Ended /\ e = "DolibarrResultLimit" => Beyond(r)'
    PROVE  Inv'
<1>0. /\ j \in DOMAIN jobs[r] /\ jobs[r][j] = "flying"
      /\ jobs' = [jobs EXCEPT ![r][j] = "failed"]
      /\ UNCHANGED <<dolibarr, tool, subject, holder, reply, history>>
      /\ moved' = moved /\ dropped' = dropped
    BY DEF Raise, Status, history
<1>1. /\ jobs'[r] = [jobs[r] EXCEPT ![j] = "failed"] /\ DOMAIN jobs' = Request
      /\ \A s \in Request \ {r} : jobs'[s] = jobs[s]
    BY <1>0 DEF Inv
<1>2. PhaseInv(r) /\ answer[r] \notin {"identity", "report"} /\ JobTypes(r)
    BY <1>0, TypeSplit DEF Inv, RequestInv, PhaseInv
<1>3. /\ IF phase[r] \in Ended THEN phase'[r] = phase[r] /\ answer'[r] = answer[r]
         ELSE phase'[r] = "answered" /\ answer'[r] = e
      /\ \A s \in Request \ {r} : phase'[s] = phase[s] /\ answer'[s] = answer[s]
      /\ phase' \in [Request -> Phase]
      /\ answer' \in [Request -> Error \cup {"identity", "report", "unauthorized", Nil}]
    <2>1. CASE phase[r] \in Ended
        <3>1. phase' = phase /\ answer' = answer
            BY <2>1 DEF Raise
        <3>. QED
            BY <2>1, <3>1 DEF Inv, TypeOK
    <2>2. CASE phase[r] \notin Ended
        <3>1. phase' = [phase EXCEPT ![r] = "answered"] /\ answer' = [answer EXCEPT ![r] = e]
            BY <2>2 DEF Raise
        <3>. QED
            BY <2>2, <3>1 DEF Inv, TypeOK, Phase
    <2>. QED
        BY <2>1, <2>2
<1>4. VarTypes'
    BY <1>0, <1>3, DataStep, TypeSplit DEF Inv, VarTypes, DataTypes, PageStep
<1>5. phase'[r] \in Ended
    BY <1>3 DEF Ended
<1>6. JobTypes(r)'
    BY <1>0, <1>1, <1>2, <1>5 DEF JobTypes, Ended
<1>7. PhaseInv(r)'
    <2>1. tool[r] # Nil /\ answer'[r] \notin {"identity", "report"}
        BY <1>0, <1>2, <1>3, FlyingPhase DEF Error
    <2>. QED
        BY <1>0, <1>1, <1>2, <1>5, <2>1 DEF PhaseInv, Ended
<1>8. AuthInv(r)' /\ CollectInv(r)' /\ ListInv(r)'
    <2>1. tool[r] # Nil
        BY <1>0, FlyingPhase
    <2>. QED
        BY <1>0, <1>5, <2>1 DEF AuthInv, CollectInv, ListInv, Gathers, Collecting, Ended
<1>9. RaceInv(r)'
    <2>1. j \in Status(r, "failed")'
        BY <1>0, <1>1 DEF Status
    <2>. QED
        BY <2>1 DEF RaceInv
<1>10. LimitInv(r)'
    <2>1. CASE phase[r] \in Ended
        BY <1>0, <1>2, <1>3, <2>1, BeyondKept DEF Inv, RequestInv, LimitInv
    <2>2. CASE phase[r] \notin Ended
        BY <1>3, <2>2 DEF LimitInv, Error
    <2>. QED
        BY <2>1, <2>2
<1>11. UNCHANGED dolibarr /\ UNCHANGED history
    BY <1>0
<1>12. ASSUME NEW s \in Request \ {r}
       PROVE  /\ phase'[s] = phase[s] /\ tool'[s] = tool[s] /\ subject'[s] = subject[s]
              /\ jobs'[s] = jobs[s] /\ page'[s] = page[s] /\ filed'[s] = filed[s]
              /\ got'[s] = got[s] /\ booked'[s] = booked[s] /\ reply'[s] = reply[s]
              /\ answer'[s] = answer[s]
    <2>1. tool' = tool /\ subject' = subject /\ reply' = reply
        BY <1>0
    <2>2. page'[s] = page[s]
        BY DEF PageStep
    <2>. QED
        BY <1>1, <1>3, <2>1, <2>2
<1>. QED
    BY <1>1, <1>4, <1>6, <1>7, <1>8, <1>9, <1>10, <1>11, <1>12, RequestStep

LEMMA JobFailsInv ==
    ASSUME Inv, NEW r \in Request, NEW j \in Status(r, "flying"), JobFails(r, j)
    PROVE  Inv'
<1>1. PICK a \in Failure \cup {"404"} : Raise(r, j, ErrorOf("GET", FALSE, a))
    BY DEF JobFails
<1>2. ErrorOf("GET", FALSE, a) \in Error /\ ErrorOf("GET", FALSE, a) # "DolibarrResultLimit"
    <2>1. a \in Reply /\ a # "ok"
        BY FailureAssumption DEF Reply
    <2>. QED
        BY <2>1, ErrorOfType
<1>3. LeaveLoop(r, j) /\ UNCHANGED read /\ j \in DOMAIN jobs[r]
    BY DEF JobFails, Status
<1>4. /\ PageStep(r)
      /\ j = ListUsers => page'[r][ListUsers] = 0
      /\ j # ListUsers => page'[r][ListUsers] = page[r][ListUsers]
    BY <1>3, LeaveLoopStep
<1>5. UserInv(r)'
    <2>1. CASE j = ListUsers
        BY <1>4, <2>1, PageTypes DEF UserInv
    <2>2. CASE j # ListUsers
        <3>1. jobs' = [jobs EXCEPT ![r][j] = "failed"]
            BY <1>1 DEF Raise
        <3>. QED
            BY <1>3, <1>4, <2>2, <3>1 DEF Inv, RequestInv, UserInv
    <2>. QED
        BY <2>1, <2>2
<1>6. \A t \in Known(r)' : t <= born
    BY <1>3 DEF Inv, RequestInv, Known, read
<1>. QED
    BY <1>1, <1>2, <1>3, <1>4, <1>5, <1>6, RaiseInv DEF read, Inv, TypeOK

\* The lines of one response are among the records of the report.
LEMMA CarriedRecords ==
    ASSUME Inv, NEW r \in Request, NEW j \in DOMAIN jobs[r], Gathers(r), Keep(r, j)
    PROVE  /\ Cardinality(Carried(r, j)) \in Nat /\ Records(r)' \in Nat
           /\ Cardinality(Carried(r, j)) <= Records(r)'
<1>. DEFINE C == Carried(r, j)
            P == {tl \in Task \X Line : tl[2] \in got'[r][tl[1]]}
            f == [l \in C |-> <<home[l], l>>]
<1>1. IsFiniteSet(C) /\ Cardinality(C) \in Nat
    BY Numbered, FS_Subset, FS_CardinalityType DEF Carried
<1>2. IsFiniteSet(P) /\ Cardinality(P) \in Nat
    <2>1. IsFiniteSet(Task \X Line)
        BY Numbered, FS_Product
    <2>. QED
        BY <2>1, FS_Subset, FS_CardinalityType
<1>3. ASSUME NEW l \in C PROVE <<home[l], l>> \in P
    <2>1. l \in Line /\ home[l] \in Detailed(r, j) /\ j \in Job
        BY DEF Carried, Inv, TypeOK
    <2>2. j = GetLines => subject[r] \in Task
        BY JobsOfTool, JobAssumption DEF Reads, Known
    <2>3. home[l] \in Task
        BY <2>1, <2>2 DEF Detailed, Described
    <2>4. got'[r][home[l]] = {m \in Line : home[m] = home[l]}
        BY <2>1, <2>3, KeepOfTask
    <2>. QED
        BY <2>1, <2>3, <2>4
<1>. HIDE DEF C, P
<1>4. f \in Injection(C, P)
    BY <1>3, Fun_IsInj
<1>5. Cardinality(C) <= Cardinality(P)
    BY <1>1, <1>2, <1>4, FS_Injection
<1>. QED
    BY <1>1, <1>2, <1>5 DEF Records, C, P

\* What the code refuses for its size is beyond a limit.
LEMMA OverflowBeyond ==
    ASSUME Inv, NEW r \in Request, NEW j \in Status(r, "flying"), JobOverflows(r, j),
           Gathers(r), Keep(r, j)
    PROVE  Beyond(r)'
<1>1. /\ j \in DOMAIN jobs[r] /\ jobs[r][j] = "flying" /\ tool' = tool
    BY DEF Status, JobOverflows, Raise
<1>2. CASE Paged(r, j)
    <2>1. /\ MayBeFull(r, j) /\ page[r][j] + 1 = PageBound(j) /\ TurnPage(r, j)
          /\ j \in {ListTasks, ListUsers} /\ (j = ListTasks => tool[r] = "global")
        BY <1>2, PagedJobs DEF JobOverflows
    <2>2. CASE j = ListUsers
        <3>1. page'[r][ListUsers] = PageBound(ListUsers)
            BY <2>1, <2>2, PageTypes, TurnPageStep DEF PageBound
        <3>. QED
            BY <3>1, JobAssumption DEF Beyond, PageBound
    <2>3. CASE j = ListTasks
        <3>1. FullPage(r) /\ page[r][ListTasks] + 1 = TaskPages /\ tool[r] = "global"
            BY <2>1, <2>3, JobAssumption DEF MayBeFull, PageBound
        <3>2. Cardinality(Known(r)') = Cursor(r) + PageSize
            BY <1>1, <2>3, <3>1, PageRead DEF FullPage
        <3>3. Cursor(r) + PageSize = MaxTasks
            BY <3>1, PageTypes DEF Cursor, MaxTasks
        <3>. QED
            BY <1>1, <3>1, <3>2, <3>3, PageTypes DEF Beyond
    <2>. QED
        BY <2>1, <2>2, <2>3
<1>3. CASE ~ Paged(r, j)
    <2>1. TooLarge(r, j)
        BY <1>3 DEF JobOverflows
    <2>2. CASE Cardinality(Carried(r, j)) > MaxRecords
        <3>1. Records(r)' > MaxRecords
            BY <1>1, <2>2, CarriedRecords, PageTypes
        <3>. QED
            BY <3>1 DEF Beyond
    <2>3. CASE j = ListTasks /\ tool[r] = "project" /\ Cardinality(Described(r, j)) > MaxTasks
        <3>1. /\ Known(r)' = Known(r) \cup Described(r, j) /\ Described(r, j) \subseteq Task
            BY <1>1, <2>3, KeepKnown
        <3>2. Known(r) \subseteq Task
            BY DEF Known
        <3>3. /\ Cardinality(Described(r, j)) <= Cardinality(Known(r)')
              /\ Cardinality(Described(r, j)) \in Nat /\ Cardinality(Known(r)') \in Nat
            BY <3>1, <3>2, FewerTasks
        <3>. QED
            BY <1>1, <2>3, <3>3, PageTypes DEF Beyond
    <2>. QED
        BY <2>1, <2>2, <2>3 DEF TooLarge
<1>. QED
    BY <1>2, <1>3

LEMMA JobOverflowsInv ==
    ASSUME Inv, NEW r \in Request, NEW j \in Status(r, "flying"), JobOverflows(r, j)
    PROVE  Inv'
<1>1. /\ j \in DOMAIN jobs[r] /\ j \in Job /\ Store(r, j) /\ Raise(r, j, "DolibarrResultLimit")
      /\ jobs' = [jobs EXCEPT ![r][j] = "failed"] /\ "DolibarrResultLimit" \in Error
    BY DEF JobOverflows, Raise, Status, Error, Inv, TypeOK
<1>2. jobs'[r][j] = "failed" /\ DOMAIN jobs'[r] = DOMAIN jobs[r]
      /\ \A i \in DOMAIN jobs[r] : i # j => jobs'[r][i] = jobs[r][i]
    BY <1>1 DEF Inv
<1>3. PageStep(r) /\ UserInv(r)'
    <2>1. CASE Paged(r, j)
        <3>1. /\ page[r][j] + 1 = PageBound(j) /\ TurnPage(r, j)
              /\ j \in {ListTasks, ListUsers}
            BY <2>1, PagedJobs DEF JobOverflows
        <3>2. /\ PageStep(r)
              /\ j = ListTasks => page'[r][ListUsers] = page[r][ListUsers]
            BY <3>1, PageTypes, TurnPageStep DEF PageBound
        <3>. QED
            BY <1>1, <1>2, <3>1, <3>2 DEF Inv, RequestInv, UserInv
    <2>2. CASE ~ Paged(r, j)
        <3>1. page' = page
            BY <2>2 DEF JobOverflows
        <3>2. PageStep(r)
            BY <3>1 DEF Inv, TypeOK, PageStep
        <3>. QED
            BY <1>1, <1>2, <3>1, <3>2 DEF Inv, RequestInv, UserInv
    <2>. QED
        BY <2>1, <2>2
<1>4. CASE Gathers(r)
    <2>1. Keep(r, j) /\ phase[r] \notin Ended
        BY <1>1, <1>4 DEF Store, Gathers, Collecting, Ended
    <2>2. Beyond(r)' /\ \A t \in Known(r)' : t <= born
        BY <1>1, <1>4, <2>1, OverflowBeyond, KeepKnown
    <2>. QED
        BY <1>1, <1>3, <2>1, <2>2, KeepTypes, RaiseInv
<1>5. CASE ~ Gathers(r)
    <2>1. phase[r] \in Ended /\ UNCHANGED read
        BY <1>1, <1>5, FlyingPhase DEF Store
    <2>2. \A t \in Known(r)' : t <= born
        BY <2>1 DEF Inv, RequestInv, Known, read
    <2>. QED
        BY <1>1, <1>3, <2>1, <2>2, RaiseInv DEF read, Inv, TypeOK
<1>. QED
    BY <1>4, <1>5

\* A request that is sent changes nothing that is known.
LEMMA AcquireInv ==
    ASSUME Inv, NEW r \in Request, NEW t \in Task \cap Status(r, "waiting"), Acquire(r, t)
    PROVE  Inv'
<1>0. /\ t \in DOMAIN jobs[r] /\ jobs[r][t] = "waiting"
      /\ jobs' = [jobs EXCEPT ![r][t] = "flying"]
      /\ UNCHANGED <<dolibarr, phase, tool, subject, holder, page, read, reply, answer, history>>
      /\ moved' = moved /\ dropped' = dropped
    BY DEF Acquire, Status, history
<1>1. /\ jobs'[r] = [jobs[r] EXCEPT ![t] = "flying"] /\ DOMAIN jobs' = Request
      /\ \A s \in Request \ {r} : jobs'[s] = jobs[s]
      /\ DOMAIN jobs'[r] = DOMAIN jobs[r]
      /\ \A i \in DOMAIN jobs[r] : i # t => jobs'[r][i] = jobs[r][i]
      /\ jobs'[r][t] = "flying"
    BY <1>0 DEF Inv
<1>2. PhaseInv(r) /\ JobTypes(r) /\ answer[r] \notin {"identity", "report"}
    BY <1>0, TypeSplit DEF Inv, RequestInv, PhaseInv
<1>t. t \notin {GetTask, GetLines, ListTasks, ListUsers, GetProject}
    BY JobAssumption
<1>k. Known(r)' = Known(r) /\ Status(r, "failed")' = Status(r, "failed")
      /\ (Beyond(r)' <=> Beyond(r))
    BY <1>0, <1>1, SameBeyond DEF Known, Status, read
<1>3. VarTypes'
    BY <1>0, DataStep, TypeSplit DEF Inv, VarTypes, DataTypes, read
<1>4. JobTypes(r)'
    BY <1>0, <1>1, <1>2, <1>k, <1>t DEF JobTypes
<1>5. PhaseInv(r)'
    <2>1. \A stage \in SUBSET DOMAIN jobs[r] : Gathered(r, stage) => Gathered(r, stage)'
        BY <1>0, <1>1 DEF Gathered
    <2>2. /\ phase[r] = "project" => Gathered(r, Reads("task"))'
          /\ phase[r] = "fanout" => Gathered(r, Reads("global"))'
        BY <1>2, <2>1 DEF PhaseInv
    <2>3. \A i \in DOMAIN jobs'[r] :
            /\ jobs'[r][i] = "waiting" => jobs[r][i] = "waiting"
            /\ jobs'[r][i] = "failed" => jobs[r][i] = "failed"
        BY <1>1
    <2>. QED
        BY <1>0, <1>1, <1>2, <1>k, <2>2, <2>3 DEF PhaseInv, read
<1>6. AuthInv(r)' /\ LimitInv(r)' /\ RaceInv(r)' /\ UserInv(r)'
    <2>1. jobs'[r][ListUsers] = jobs[r][ListUsers]
        BY <1>1, <1>t
    <2>. QED
        BY <1>0, <1>1, <1>k, <2>1 DEF Inv, RequestInv, AuthInv, LimitInv, RaceInv, UserInv
<1>7. CollectInv(r)'
    <2>1. \A j \in DOMAIN jobs[r] : jobs'[r][j] = "ok" <=> jobs[r][j] = "ok"
        BY <1>0, <1>1
    <2>2. /\ jobs'[r][GetTask] = jobs[r][GetTask] /\ jobs'[r][GetLines] = jobs[r][GetLines]
          /\ jobs'[r][ListTasks] = jobs[r][ListTasks]
        BY <1>1, <1>t
    <2>3. ASSUME Gathers(r) PROVE FiledInv(r)'
        <3>1. FiledInv(r)
            BY <2>3 DEF Inv, RequestInv, CollectInv
        <3>. QED
            BY <1>0, <2>2, <3>1 DEF FiledInv, read
    <2>4. ASSUME Gathers(r), NEW l \in Line \ moved[r] PROVE LineInv(r, l)'
        <3>1. LineInv(r, l)
            BY <2>4 DEF Inv, RequestInv, CollectInv
        <3>2. \A u \in Task : Arrived(r, u)' => Arrived(r, u)
            BY <1>0, <1>1, <2>2 DEF Arrived
        <3>. QED
            BY <1>0, <3>1, <3>2 DEF LineInv, Within, read, dolibarr, Inv, TypeOK
    <2>. QED
        BY <1>0, <2>3, <2>4 DEF CollectInv, Gathers
<1>8. ListInv(r)'
    <2>1. jobs'[r][ListTasks] = jobs[r][ListTasks]
        BY <1>1, <1>t
    <2>2. CASE Gathers(r)
        BY <1>0, <1>k, <2>1, <2>2, SameLists
    <2>3. CASE ~ Gathers(r)
        BY <1>0, <2>3 DEF ListInv, Gathers
    <2>. QED
        BY <2>2, <2>3
<1>9. \A u \in Known(r)' : u <= born
    BY <1>k DEF Inv, RequestInv
<1>. QED
    BY <1>0, <1>1, <1>3, <1>4, <1>5, <1>6, <1>7, <1>8, <1>9, RequestStep DEF read

---------------------------------------------------------------------------
(* Collections *)

\* All that a report was collected from has arrived.
Complete(r) ==
    /\ Gathers(r)
    /\ \A j \in DOMAIN jobs[r] : jobs[r][j] = "ok"
    /\ tool[r] = "global" => Known(r) \subseteq DOMAIN jobs[r]

LEMMA CompleteArrived ==
    ASSUME Inv, NEW r \in Request, Complete(r)
    PROVE  /\ FiledInv(r) /\ \A l \in Line \ moved[r] : LineInv(r, l)
           /\ tool[r] \in {"global", "project", "task"}
           /\ \A t \in Known(r) : tool[r] = "global" => Arrived(r, t)
           /\ \A t \in Task : tool[r] # "global" => Arrived(r, t)
           /\ tool[r] = "task" => jobs[r][GetTask] = "ok" /\ subject[r] \in Task
           /\ tool[r] # "task" => jobs[r][ListTasks] = "ok"
           /\ page[r][ListUsers] # UserPages
<1>1. PhaseInv(r) /\ CollectInv(r) /\ UserInv(r)
    BY DEF Inv, RequestInv
<1>2. /\ tool[r] \in {"global", "project", "task"} /\ Reads(tool[r]) \subseteq DOMAIN jobs[r]
      /\ tool[r] = "task" => subject[r] \in Task
    BY <1>1 DEF Complete, Gathers, Collecting, PhaseInv
<1>3. /\ tool[r] = "task" => jobs[r][GetTask] = "ok" /\ jobs[r][GetLines] = "ok"
      /\ tool[r] # "task" => jobs[r][ListTasks] = "ok"
    BY <1>2, ReadsJobs DEF Complete
<1>4. page[r][ListUsers] # UserPages
    BY <1>1 DEF Complete, UserInv
<1>. QED
    BY <1>1, <1>2, <1>3, <1>4 DEF CollectInv, Complete, Arrived

\* What came together without an edit in between is consistent.
LEMMA UneditedConsistent ==
    ASSUME Inv, NEW r \in Request, Complete(r), moved[r] = {}
    PROVE  ~ Clash(r) /\ ~ Misfiled(r)
<1>1. \A l \in Line : LineInv(r, l)
    BY CompleteArrived
<1>2. ~ Clash(r)
    <2>1. ASSUME NEW l \in Line PROVE ~ (Times(r, l) > 1)
        <3>1. Times(r, l) <= 1 /\ Times(r, l) \in Nat
            BY <1>1, TimesOfUnedited, TimesType
        <3>. QED
            BY <3>1
    <2>. QED
        BY <2>1 DEF Clash
<1>3. ASSUME NEW t \in Task, got[r][t] # {} PROVE booked[r][t] \in {filed[r][t], Nil}
    <2>1. PICK l \in Line : l \in got[r][t]
        BY <1>3 DEF Inv, TypeOK
    <2>2. home[l] = t /\ t # Nil
        BY <1>1, <2>1, NilAssumption DEF LineInv
    <2>3. booked[r][t] \in {project[t], Nil} /\ filed[r][t] \in {project[t], Nil}
        BY <1>1, <2>2 DEF LineInv
    <2>4. filed[r][t] # Nil
        BY <1>3, CompleteArrived DEF FiledInv
    <2>. QED
        BY <2>3, <2>4
<1>. QED
    BY <1>2, <1>3 DEF Misfiled

LEMMA BuildInv == ASSUME Inv, NEW r \in Request, Complete(r), Build(r) PROVE Inv'
<1>1. PICK v \in (IF Verdicts(r) = {} THEN {"report"} ELSE Verdicts(r)) :
        answer' = [answer EXCEPT ![r] = v]
    BY DEF Build
<1>2. v \in {"report", "InvalidDolibarrResponse", "DolibarrResultLimit"}
    BY DEF Verdicts
<1>3. /\ v = "report" => ~ TooMany(r)
      /\ v = "DolibarrResultLimit" => TooMany(r)
      /\ v = "InvalidDolibarrResponse" => Clash(r) \/ Misfiled(r)
    BY DEF Verdicts
<1>4. /\ phase' = [phase EXCEPT ![r] = "answered"]
      /\ UNCHANGED <<dolibarr, tool, subject, holder, jobs, page, read, reply, history>>
      /\ moved' = moved /\ dropped' = dropped
    BY DEF Build, history
<1>5. /\ phase'[r] = "answered" /\ answer'[r] = v
      /\ \A s \in Request \ {r} : phase'[s] = phase[s] /\ answer'[s] = answer[s]
    BY <1>1, <1>4 DEF Inv, TypeOK
<1>6. VarTypes'
    <2>1. answer' \in [Request -> Error \cup {"identity", "report", "unauthorized", Nil}]
        BY <1>1, <1>2 DEF Inv, TypeOK, Error
    <2>. QED
        BY <1>4, <2>1, DataStep, TypeSplit DEF Inv, VarTypes, Phase, DataTypes, read
<1>7. JobTypes(r)'
    BY <1>4, <1>5, TypeSplit DEF Inv, JobTypes
<1>8. PhaseInv(r)' /\ AuthInv(r)' /\ CollectInv(r)' /\ ListInv(r)'
    <2>1. tool[r] # Nil /\ PhaseInv(r)
        BY CompleteArrived, NilAssumption DEF Tool, Inv, RequestInv
    <2>. QED
        BY <1>4, <1>5, <2>1 DEF PhaseInv, AuthInv, CollectInv, ListInv, Gathers, Collecting, Ended,
            Complete
<1>9. LimitInv(r)' /\ UserInv(r)' /\ \A t \in Known(r)' : t <= born
    <2>1. (Beyond(r)' <=> Beyond(r)) /\ Known(r)' = Known(r) /\ Records(r) \in Nat
        BY <1>4, SameBeyond, RecordsType DEF read
    <2>2. v = "report" => ~ Beyond(r)
        <3>1. /\ tool[r] = "project" => Cardinality(Known(r)) <= MaxTasks
              /\ tool[r] = "global" => Cardinality(Known(r)) < MaxTasks
              /\ page[r][ListUsers] # UserPages
            BY CompleteArrived DEF Inv, RequestInv, ListInv, Complete
        <3>2. Cardinality(Known(r)) \in Nat
            BY FewerTasks DEF Known
        <3>. QED
            BY <1>3, <2>1, <3>1, <3>2, PageTypes DEF Beyond, TooMany
    <2>3. v = "DolibarrResultLimit" => Beyond(r)
        BY <1>3 DEF Beyond, TooMany
    <2>. QED
        BY <1>4, <1>5, <2>1, <2>2, <2>3 DEF Inv, RequestInv, LimitInv, UserInv
<1>10. RaceInv(r)'
    BY <1>3, <1>4, <1>5, UneditedConsistent DEF RaceInv
<1>. QED
    BY <1>4, <1>5, <1>6, <1>7, <1>8, <1>9, <1>10, RequestStep DEF read, Inv

LEMMA BuildComplete ==
    ASSUME Inv, NEW r \in Request, BuildProject(r) \/ BuildTask(r) \/ BuildGlobal(r)
    PROVE  Complete(r) /\ Build(r)
<1>1. PhaseInv(r)
    BY DEF Inv, RequestInv
<1>2. CASE BuildProject(r)
    BY <1>1, <1>2 DEF BuildProject, PhaseInv, Gathered, Complete, Gathers, Collecting
<1>3. CASE BuildTask(r)
    BY <1>1, <1>3 DEF BuildTask, PhaseInv, Gathered, Complete, Gathers, Collecting
<1>4. CASE BuildGlobal(r)
    BY <1>1, <1>4 DEF BuildGlobal, PhaseInv, Gathered, Complete, Gathers, Collecting
<1>. QED
    BY <1>2, <1>3, <1>4

LEMMA FollowInv ==
    ASSUME Inv, NEW r \in Request, ReadProject(r) \/ StartFanout(r)
    PROVE  Inv'
<1>. DEFINE stage == IF tool[r] = "task" THEN {GetProject} ELSE Known(r)
            s == IF tool[r] = "task" THEN "flying" ELSE "waiting"
            p == IF tool[r] = "task" THEN "project" ELSE "fanout"
<1>1. /\ phase[r] = "reads" /\ tool[r] \in {"task", "global"} /\ Gathered(r, Reads(tool[r]))
      /\ Follow(r, p, stage, s)
    BY DEF ReadProject, StartFanout
<1>. HIDE DEF stage, s, p
<1>2. /\ phase' = [phase EXCEPT ![r] = p]
      /\ jobs' = [jobs EXCEPT ![r] = [j \in DOMAIN jobs[r] \cup stage |->
                        IF j \in stage THEN s ELSE jobs[r][j]]]
      /\ UNCHANGED <<dolibarr, tool, subject, holder, page, read, reply, answer, history>>
      /\ moved' = moved /\ dropped' = dropped
    BY <1>1 DEF Follow, history
<1>3. /\ phase'[r] = p
      /\ jobs'[r] = [j \in DOMAIN jobs[r] \cup stage |-> IF j \in stage THEN s ELSE jobs[r][j]]
      /\ DOMAIN jobs' = Request
      /\ \A q \in Request \ {r} : phase'[q] = phase[q] /\ jobs'[q] = jobs[q]
    BY <1>2 DEF Inv, TypeOK
<1>4. /\ PhaseInv(r) /\ JobTypes(r) /\ answer[r] = Nil
      /\ DOMAIN jobs[r] = Reads(tool[r]) /\ \A j \in DOMAIN jobs[r] : jobs[r][j] = "ok"
    BY <1>1, TypeSplit DEF Inv, RequestInv, PhaseInv, Gathered, Ended
<1>5. VarTypes'
    <2>1. p \in Phase
        BY DEF p, Phase
    <2>. QED
        BY <1>2, <2>1, DataStep, TypeSplit DEF Inv, VarTypes, DataTypes, read
<1>k. Known(r) \subseteq Task /\ Known(r)' = Known(r)
    BY <1>2 DEF Known, read
<1>6. /\ stage \subseteq Job /\ stage \cap Reads(tool[r]) = {}
      /\ tool[r] = "task" => stage = {GetProject} /\ s = "flying" /\ p = "project"
      /\ tool[r] = "global" => stage = Known(r) /\ s = "waiting" /\ p = "fanout"
    BY <1>1, <1>k, ReadsJobs DEF stage, s, p
<1>7. /\ \A j \in DOMAIN jobs[r] : jobs'[r][j] = "ok"
      /\ DOMAIN jobs'[r] = Reads(tool[r]) \cup stage
      /\ \A j \in DOMAIN jobs'[r] : jobs'[r][j] = IF j \in stage THEN s ELSE "ok"
    BY <1>3, <1>4, <1>6
<1>8. JobTypes(r)'
    <2>1. DOMAIN jobs'[r] \subseteq Job
        BY <1>4, <1>6, <1>7 DEF JobTypes
    <2>2. Status(r, "failed")' = {}
        BY <1>1, <1>6, <1>7 DEF Status
    <2>. QED
        BY <1>1, <1>3, <1>6, <1>7, <1>k, <2>1, <2>2 DEF JobTypes
<1>9. PhaseInv(r)'
    <2>1. Gathered(r, Reads(tool[r]))'
        BY <1>2, <1>4, <1>7 DEF Gathered
    <2>2. answer'[r] = Nil /\ tool'[r] = tool[r] /\ subject'[r] = subject[r]
        BY <1>2, <1>4
    <2>3. /\ \A j \in DOMAIN jobs'[r] : jobs'[r][j] # "failed"
          /\ \A j \in DOMAIN jobs'[r] : jobs'[r][j] = "waiting" => j \in Task
        BY <1>1, <1>6, <1>7, <1>k
    <2>4. tool[r] # Nil /\ tool[r] = "task" => subject[r] \in Task
        BY <1>1, <1>4 DEF PhaseInv
    <2>. QED
        BY <1>1, <1>3, <1>6, <1>7, <1>k, <2>1, <2>2, <2>3, <2>4, NilAssumption DEF PhaseInv, Tool
<1>10. AuthInv(r)' /\ LimitInv(r)' /\ RaceInv(r)' /\ UserInv(r)'
    <2>1. ListUsers \in DOMAIN jobs[r] /\ jobs[r][ListUsers] = "ok"
        BY <1>1, <1>4, ReadsJobs
    <2>. QED
        BY <1>1, <1>2, <1>3, <1>4, <1>6, <2>1, NilAssumption DEF AuthInv, LimitInv, RaceInv, UserInv,
            Ended, Error, Inv, RequestInv
<1>11. CollectInv(r)'
    <2>1. FiledInv(r) /\ \A l \in Line \ moved[r] : LineInv(r, l)
        BY <1>1 DEF Inv, RequestInv, CollectInv, Gathers, Collecting
    <2>2. tool[r] = "task" => jobs[r][GetTask] = "ok" /\ jobs[r][GetLines] = "ok"
        BY <1>4, ReadsJobs
    <2>3. FiledInv(r)'
        BY <1>1, <1>2, <2>1, <2>2 DEF FiledInv, read
    <2>4. \A t \in Task : Arrived(r, t)' => Arrived(r, t)
        <3>1. tool[r] = "global" => \A t \in Task \cap DOMAIN jobs'[r] : jobs'[r][t] = "waiting"
            BY <1>6, <1>7, ReadsJobs
        <3>. QED
            BY <1>1, <1>2, <2>2, <3>1 DEF Arrived
    <2>5. ASSUME NEW l \in Line \ moved[r] PROVE LineInv(r, l)'
        BY <1>2, <2>1, <2>4 DEF LineInv, Within, read, dolibarr, Inv, TypeOK
    <2>. QED
        BY <1>2, <2>3, <2>5 DEF CollectInv
<1>12. ListInv(r)'
    <2>1. tool[r] = "global" => jobs'[r][ListTasks] = jobs[r][ListTasks]
        BY <1>4, <1>7, ReadsJobs
    <2>2. Gathers(r)
        BY <1>1 DEF Gathers, Collecting
    <2>. QED
        BY <1>1, <1>2, <1>k, <2>1, <2>2, SameLists
<1>13. \A t \in Known(r)' : t <= born
    BY <1>k DEF Inv, RequestInv
<1>. QED
    BY <1>2, <1>3, <1>5, <1>8, <1>9, <1>10, <1>11, <1>12, <1>13, RequestStep DEF read

---------------------------------------------------------------------------
(* Edits by others *)

\* What an edit does not touch: lines outside ls, with their tasks.
Untouched(ls) ==
    \A l \in Line \ ls :
        home'[l] = home[l] /\ (home[l] # Nil => project'[home[l]] = project[home[l]])

\* An edit may hide tasks from a list only as it deletes them.
HidesNone(r) ==
    Gathers(r) /\ tool[r] = "global" =>
        /\ jobs[r][ListTasks] = "flying" =>
                \A t \in Known(r) \cap Existing' : Rank(Existing', t) <= Cursor(r)
        /\ Cardinality(Hidden(r)') <= dropped'[r]

LEMMA EditSteps ==
    ASSUME Inv, NEW ls \in SUBSET Line, Edit(ls), NEW r \in Request
    PROVE  /\ edits < MaxEdits /\ edits' = edits + 1
           /\ UNCHANGED <<phase, tool, subject, holder, jobs, page, read, reply, answer>>
           /\ moved' \in [Request -> SUBSET Line]
           /\ Gathers(r) => moved'[r] = moved[r] \cup ls
           /\ ~ Gathers(r) => moved'[r] = moved[r]
           /\ Known(r)' = Known(r) /\ Cursor(r)' = Cursor(r)
BY DEF Edit, Gathers, Known, Cursor, read, Inv, TypeOK

\* An edit is remembered by every collection it may have disturbed.
LEMMA EditInv ==
    ASSUME Inv, NEW ls \in SUBSET Line, Edit(ls),
           home' \in [Line -> Task \cup {Nil}], project' \in [Task -> Project \cup {Nil}],
           born' \in 0..MaxTask, born <= born',
           \A t \in Existing' : t <= born',
           \A l \in Line : home'[l] \in Existing' \cup {Nil},
           Untouched(ls),
           dropped' \in [Request -> Nat], \A r \in Request : dropped'[r] <= dropped[r] + 1,
           \A r \in Request : HidesNone(r)
    PROVE  Inv'
<1>1. /\ edits < MaxEdits /\ edits' = edits + 1
      /\ UNCHANGED <<phase, tool, subject, holder, jobs, page, read, reply, answer>>
      /\ moved' = [r \in Request |-> IF Gathers(r) THEN moved[r] \cup ls ELSE moved[r]]
    BY DEF Edit, Gathers
<1>2. \A r \in Request : dropped[r] \in Nat /\ dropped'[r] \in Nat /\ dropped'[r] <= edits'
    <2>1. edits \in Nat /\ \A r \in Request : dropped[r] \in Nat /\ dropped[r] <= edits
        BY PageTypes DEF Inv, TypeOK, RequestInv
    <2>. QED
        BY <1>1, <2>1
<1>3. TypeOK'
    <2>1. edits' \in 0..MaxEdits
        BY <1>1, PageTypes DEF Inv, TypeOK
    <2>2. moved' \in [Request -> SUBSET Line]
        BY <1>1 DEF Inv, TypeOK
    <2>3. dropped' \in [Request -> 0..MaxEdits]
        BY <1>2, <2>1, PageTypes
    <2>4. VarTypes'
        BY <1>1, <2>1, <2>2, <2>3, TypeSplit DEF Inv, VarTypes, read
    <2>5. \A r \in Request : JobTypes(r)'
        BY <1>1, TypeSplit DEF Inv, JobTypes, Status, Known, read
    <2>6. (VarTypes /\ \A r \in Request : JobTypes(r))'
        BY <2>4, <2>5
    <2>. QED
        BY <2>6 DEF TypeOK, VarTypes, JobTypes
<1>4. SUFFICES ASSUME NEW r \in Request PROVE RequestInv(r)'
    BY <1>1, <1>3 DEF Inv
<1>5. RequestInv(r)
    BY DEF Inv
<1>6. Known(r)' = Known(r) /\ (Beyond(r)' <=> Beyond(r))
    BY <1>1, SameBeyond DEF read
<1>7. PhaseInv(r)' /\ AuthInv(r)' /\ UserInv(r)'
    <2>1. PhaseInv(r)'
        BY <1>1, <1>5, <1>6 DEF RequestInv, PhaseInv, Gathered, read
    <2>2. AuthInv(r)' /\ UserInv(r)'
        BY <1>1, <1>5 DEF RequestInv, AuthInv, UserInv
    <2>. QED
        BY <2>1, <2>2
<1>8. LimitInv(r)' /\ RaceInv(r)'
    <2>1. Status(r, "failed")' = Status(r, "failed")
        BY <1>1 DEF Status
    <2>. QED
        BY <1>1, <1>5, <1>6, <2>1 DEF RequestInv, LimitInv, RaceInv
<1>9. CollectInv(r)'
    <2>1. SUFFICES ASSUME Gathers(r) PROVE CollectInv(r)'
        BY <1>1 DEF CollectInv, Gathers
    <2>2. FiledInv(r)'
        BY <1>1, <1>5, <2>1 DEF RequestInv, CollectInv, FiledInv, read
    <2>3. ASSUME NEW l \in Line \ (moved[r] \cup ls) PROVE LineInv(r, l)'
        <3>1. LineInv(r, l)
            BY <1>5, <2>1 DEF RequestInv, CollectInv
        <3>2. home'[l] = home[l] /\ (home[l] # Nil => project'[home[l]] = project[home[l]])
            BY DEF Untouched
        <3>3. home[l] # Nil => (Within(r, home[l])' <=> Within(r, home[l]))
            BY <1>1, <3>2 DEF Within
        <3>4. \A t : Arrived(r, t)' <=> Arrived(r, t)
            BY <1>1 DEF Arrived
        <3>5. ASSUME NEW t \in Task, l \in got'[r][t] PROVE home'[l] = t /\ Within(r, t)'
            <4>1. home[l] = t /\ Within(r, t) /\ t # Nil
                BY <1>1, <3>1, <3>5, NilAssumption DEF LineInv, read
            <4>. QED
                BY <1>1, <3>2, <4>1 DEF Within
        <3>6. ASSUME home'[l] # Nil
              PROVE  /\ booked'[r][home'[l]] \in {project'[home'[l]], Nil}
                     /\ filed'[r][home'[l]] \in {project'[home'[l]], Nil}
                     /\ Within(r, home[l])' /\ Arrived(r, home[l])' => l \in got'[r][home'[l]]
            BY <1>1, <3>1, <3>2, <3>3, <3>4, <3>6 DEF LineInv, Within, Arrived, read
        <3>. QED
            BY <3>5, <3>6 DEF LineInv
    <2>4. moved'[r] = moved[r] \cup ls
        BY <1>1, <2>1
    <2>. QED
        BY <2>2, <2>3, <2>4 DEF CollectInv
<1>10. ListInv(r)'
    <2>1. HidesNone(r)
        OBVIOUS
    <2>2. Cursor(r)' = Cursor(r) /\ (Gathers(r)' <=> Gathers(r))
        BY <1>1 DEF Cursor, Gathers
    <2>. QED
        BY <1>1, <1>5, <1>6, <2>1, <2>2 DEF RequestInv, ListInv, HidesNone
<1>11. dropped'[r] <= edits' /\ \A t \in Known(r)' : t <= born'
    <2>1. \A t \in Known(r) : t <= born /\ t \in Nat
        BY <1>5 DEF RequestInv, Known, Task
    <2>2. born \in Nat /\ born' \in Nat
        BY Table, Numbered
    <2>. QED
        BY <1>2, <1>6, <2>1, <2>2
<1>. QED
    BY <1>7, <1>8, <1>9, <1>10, <1>11 DEF RequestInv

\* A task that is hidden after an edit has a line that nobody edited.
LEMMA HiddenAfterEdit ==
    ASSUME Inv, NEW ls \in SUBSET Line, Edit(ls), Untouched(ls), NEW r \in Request, Gathers(r),
           NEW t \in Hidden(r)'
    PROVE  /\ t \in Existing /\ t \in Existing' /\ t \notin Known(r)
           /\ \E l \in Line \ moved[r] : home[l] = t
           /\ jobs[r][ListTasks] = "flying" => Rank(Existing', t) <= Cursor(r)
<1>1. /\ Known(r)' = Known(r) /\ Cursor(r)' = Cursor(r) /\ moved'[r] = moved[r] \cup ls
      /\ jobs' = jobs
    BY EditSteps
<1>2. /\ t \in Existing' /\ t \notin Known(r)
      /\ jobs[r][ListTasks] = "flying" => Rank(Existing', t) <= Cursor(r)
    BY <1>1 DEF Hidden, Unread
<1>3. PICK l \in Line \ moved'[r] : home'[l] = t
    BY DEF Hidden
<1>4. l \in Line \ moved[r] /\ home[l] = t
    BY <1>1, <1>3 DEF Untouched
<1>5. t # Nil
    BY <1>2, Numbered DEF Existing
<1>6. t \in Existing
    BY <1>4, <1>5 DEF Inv, TypeOK
<1>. QED
    BY <1>2, <1>4, <1>6

\* The tasks that were hidden, and one more.
LEMMA HiddenBound ==
    ASSUME Inv, NEW r \in Request, Gathers(r), tool[r] = "global", NEW x,
           Hidden(r)' \subseteq Hidden(r) \cup {x}
    PROVE  /\ Cardinality(Hidden(r)') <= dropped[r] + 1
           /\ Hidden(r)' \subseteq Hidden(r) => Cardinality(Hidden(r)') <= dropped[r]
<1>1. Hidden(r) \in SUBSET Task /\ dropped[r] \in Nat /\ Cardinality(Hidden(r)) <= dropped[r]
    <2>1. Hidden(r) \in SUBSET Task
        BY DEF Hidden, Unread, Existing
    <2>2. dropped[r] \in Nat
        BY PageTypes DEF Inv, TypeOK
    <2>3. Cardinality(Hidden(r)) <= dropped[r]
        BY DEF Inv, RequestInv, ListInv
    <2>. QED
        BY <2>1, <2>2, <2>3
<1>2. IsFiniteSet(Hidden(r)) /\ Cardinality(Hidden(r)) \in Nat
    BY <1>1, Numbered, FS_Subset, FS_CardinalityType
<1>3. /\ IsFiniteSet(Hidden(r) \cup {x})
      /\ Cardinality(Hidden(r) \cup {x}) \in {Cardinality(Hidden(r)), Cardinality(Hidden(r)) + 1}
    BY <1>2, FS_AddElement
<1>4. IsFiniteSet(Hidden(r)') /\ Cardinality(Hidden(r)') <= Cardinality(Hidden(r) \cup {x})
      /\ Cardinality(Hidden(r)') \in Nat
    <2>1. Hidden(r)' \in SUBSET (Hidden(r) \cup {x})
        OBVIOUS
    <2>. QED
        BY <1>3, <2>1, FS_Subset, FS_CardinalityType
<1>5. Hidden(r)' \subseteq Hidden(r) => Cardinality(Hidden(r)') <= Cardinality(Hidden(r))
    BY <1>2, FS_Subset
<1>. QED
    BY <1>1, <1>2, <1>3, <1>4, <1>5

\* An edit of lines or of a task's project changes no list.
LEMMA SameTasks ==
    ASSUME Inv, NEW ls \in SUBSET Line, Edit(ls), Untouched(ls), Existing' = Existing,
           born' = born, dropped' = dropped, NEW r \in Request
    PROVE  HidesNone(r)
<1>1. SUFFICES ASSUME Gathers(r), tool[r] = "global"
               PROVE  Cardinality(Hidden(r)') <= dropped[r]
    BY DEF HidesNone, Inv, RequestInv, ListInv
<1>2. ASSUME NEW t \in Hidden(r)' PROVE t \in Hidden(r)
    BY <1>1, <1>2, HiddenAfterEdit DEF Hidden, Unread
<1>. QED
    BY <1>1, <1>2, HiddenBound

LEMMA MoveLineInv ==
    ASSUME Inv, NEW l \in Line, NEW t \in Existing \cup {Nil}, MoveLine(l, t)
    PROVE  Inv'
<1>1. /\ Edit({l}) /\ home' = [home EXCEPT ![l] = t]
      /\ project' = project /\ born' = born /\ dropped' = dropped
    BY DEF MoveLine
<1>2. Existing' = Existing /\ Untouched({l}) /\ t \in Task \cup {Nil}
    BY <1>1 DEF Existing, Untouched, Inv, TypeOK
<1>3. \A r \in Request : HidesNone(r)
    BY <1>1, <1>2, SameTasks
<1>4. born \in 0..MaxTask /\ born \in Nat
    BY Table DEF Inv, TypeOK
<1>5. dropped \in [Request -> Nat] /\ \A r \in Request : dropped[r] <= dropped[r] + 1
    BY PageTypes DEF Inv, TypeOK
<1>6. /\ \A u \in Existing' : u <= born'
      /\ \A m \in Line : home'[m] \in Existing' \cup {Nil}
      /\ home' \in [Line -> Task \cup {Nil}] /\ project' \in [Task -> Project \cup {Nil}]
    BY <1>1, <1>2 DEF Inv, TypeOK
<1>. QED
    BY <1>1, <1>2, <1>3, <1>4, <1>5, <1>6, EditInv

LEMMA MoveTaskInv ==
    ASSUME Inv, NEW t \in Existing, NEW p \in Project, MoveTask(t, p)
    PROVE  Inv'
<1>. DEFINE ls == {l \in Line : home[l] = t}
<1>1. /\ Edit(ls) /\ project' = [project EXCEPT ![t] = p]
      /\ home' = home /\ born' = born /\ dropped' = dropped
    BY DEF MoveTask
<1>2. /\ Existing' = Existing /\ Untouched(ls) /\ ls \in SUBSET Line
      /\ project' \in [Task -> Project \cup {Nil}]
    <2>1. t \in Task /\ p # Nil /\ project[t] # Nil /\ project \in [Task -> Project \cup {Nil}]
        BY Numbered DEF Existing, Inv, TypeOK
    <2>2. Existing' = Existing
        BY <1>1, <2>1 DEF Existing
    <2>3. Untouched(ls)
        BY <1>1, <2>1 DEF Untouched, Inv, TypeOK
    <2>. QED
        BY <1>1, <2>1, <2>2, <2>3
<1>3. \A r \in Request : HidesNone(r)
    BY <1>1, <1>2, SameTasks
<1>4. born \in 0..MaxTask /\ born \in Nat
    BY Table DEF Inv, TypeOK
<1>5. dropped \in [Request -> Nat] /\ \A r \in Request : dropped[r] <= dropped[r] + 1
    BY PageTypes DEF Inv, TypeOK
<1>6. /\ \A u \in Existing' : u <= born'
      /\ \A m \in Line : home'[m] \in Existing' \cup {Nil}
      /\ home' \in [Line -> Task \cup {Nil}] /\ project' \in [Task -> Project \cup {Nil}]
    BY <1>1, <1>2 DEF Inv, TypeOK
<1>. QED
    BY <1>1, <1>2, <1>3, <1>4, <1>5, <1>6, EditInv

\* A new task comes behind all pages that were read.
LEMMA CreateTaskInv ==
    ASSUME Inv, NEW p \in Project, CreateTask(p)
    PROVE  Inv'
<1>1. /\ born < MaxTask /\ born' = born + 1 /\ project' = [project EXCEPT ![born + 1] = p]
      /\ Edit({}) /\ home' = home /\ dropped' = dropped
    BY DEF CreateTask
<1>2. /\ born \in Nat /\ MaxTask \in Nat /\ Existing \in SUBSET (1..born)
      /\ \A t \in Existing : Rank(Existing, t) \in Nat
    BY Table
<1>3. /\ project' \in [Task -> Project \cup {Nil}] /\ Existing' = Existing \cup {born + 1}
      /\ born' \in 0..MaxTask /\ born <= born'
    <2>1. born + 1 \in Task /\ p # Nil
        BY <1>1, <1>2, Numbered DEF Task
    <2>2. project \in [Task -> Project \cup {Nil}]
        BY DEF Inv, TypeOK
    <2>3. Existing' = Existing \cup {born + 1}
        BY <1>1, <2>1, <2>2 DEF Existing
    <2>. QED
        BY <1>1, <1>2, <2>1, <2>2, <2>3
<1>4. Untouched({})
    <2>1. ASSUME NEW l \in Line, home[l] # Nil PROVE project'[home[l]] = project[home[l]]
        <3>1. home[l] \in Existing /\ home[l] \in Task
            BY <2>1 DEF Inv, TypeOK
        <3>2. home[l] # born + 1
            BY <1>2, <3>1
        <3>. QED
            BY <1>1, <3>1, <3>2 DEF Inv, TypeOK
    <2>. QED
        BY <1>1, <2>1 DEF Untouched
<1>5. \A t \in Existing : Rank(Existing', t) = Rank(Existing, t)
    BY <1>2, <1>3, RankInsert
<1>6. ASSUME NEW r \in Request PROVE HidesNone(r)
    <2>1. SUFFICES ASSUME Gathers(r), tool[r] = "global"
                   PROVE  /\ jobs[r][ListTasks] = "flying" =>
                                \A t \in Known(r) \cap Existing' : Rank(Existing', t) <= Cursor(r)
                          /\ Cardinality(Hidden(r)') <= dropped[r]
        BY <1>1 DEF HidesNone
    <2>2. ASSUME jobs[r][ListTasks] = "flying", NEW t \in Known(r) \cap Existing'
          PROVE  Rank(Existing', t) <= Cursor(r)
        <3>1. t <= born
            BY DEF Inv, RequestInv
        <3>2. t \in Existing
            BY <1>2, <1>3, <3>1
        <3>. QED
            BY <1>5, <2>1, <2>2, <3>2 DEF Inv, RequestInv, ListInv
    <2>3. ASSUME NEW t \in Hidden(r)' PROVE t \in Hidden(r)
        BY <1>1, <1>4, <1>5, <2>1, <2>3, HiddenAfterEdit DEF Hidden, Unread
    <2>4. Cardinality(Hidden(r)') <= dropped[r]
        BY <2>1, <2>3, HiddenBound
    <2>. QED
        BY <2>2, <2>4
<1>7. dropped \in [Request -> Nat] /\ \A r \in Request : dropped[r] <= dropped[r] + 1
    BY PageTypes DEF Inv, TypeOK
<1>8. /\ \A t \in Existing' : t <= born'
      /\ \A l \in Line : home'[l] \in Existing' \cup {Nil}
    BY <1>1, <1>2, <1>3 DEF Inv, TypeOK
<1>. QED
    BY <1>1, <1>3, <1>4, <1>6, <1>7, <1>8, EditInv DEF Inv, TypeOK

\* A deleted task moves at most one other one to the pages that were read.
LEMMA DeleteTaskInv ==
    ASSUME Inv, NEW d \in Existing, DeleteTask(d)
    PROVE  Inv'
<1>. DEFINE ls == {l \in Line : home[l] = d}
<1>1. /\ project' = [project EXCEPT ![d] = Nil]
      /\ home' = [l \in Line |-> IF home[l] = d THEN Nil ELSE home[l]]
      /\ Edit(ls) /\ born' = born /\ ls \in SUBSET Line
      /\ dropped' = [r \in Request |-> IF Listing(r) THEN dropped[r] + 1 ELSE dropped[r]]
    BY DEF DeleteTask
<1>2. /\ born \in Nat /\ Existing \in SUBSET (1..born)
      /\ \A t \in Existing : Rank(Existing, t) \in Nat
    BY Table
<1>3. d \in Task /\ project[d] # Nil /\ d # Nil
    BY Numbered DEF Existing
<1>4. /\ project' \in [Task -> Project \cup {Nil}] /\ Existing' = Existing \ {d}
    <2>1. project \in [Task -> Project \cup {Nil}]
        BY DEF Inv, TypeOK
    <2>2. Existing' = Existing \ {d}
        BY <1>1, <1>3, <2>1 DEF Existing
    <2>. QED
        BY <1>1, <2>1, <2>2
<1>5. Untouched(ls)
    <2>1. ASSUME NEW l \in Line \ ls
          PROVE  home'[l] = home[l] /\ (home[l] # Nil => project'[home[l]] = project[home[l]])
        BY <1>1, <2>1 DEF Inv, TypeOK
    <2>. QED
        BY <2>1 DEF Untouched
<1>6. \A t \in Existing' : /\ Rank(Existing', t) \in Nat
                           /\ Rank(Existing', t) <= Rank(Existing, t)
                           /\ Rank(Existing, t) <= Rank(Existing', t) + 1
    <2>1. ASSUME NEW t \in Existing \ {d}
          PROVE  /\ Rank(Existing \ {d}, t) \in Nat
                 /\ Rank(Existing \ {d}, t) <= Rank(Existing, t)
                 /\ Rank(Existing, t) <= Rank(Existing \ {d}, t) + 1
        <3>1. Existing \ {d} \in SUBSET (1..born)
            BY <1>2
        <3>2. Rank(Existing \ {d}, t) \in Nat
            BY <1>2, <3>1, RankType
        <3>. QED
            BY <1>2, <3>2, RankDelete
    <2>. QED
        BY <1>4, <2>1
<1>7. \A r \in Request : dropped[r] \in Nat /\ dropped'[r] \in {dropped[r], dropped[r] + 1}
                         /\ (Listing(r) => dropped'[r] = dropped[r] + 1)
    BY <1>1, PageTypes DEF Inv, TypeOK
<1>. HIDE DEF ls
<1>8. ASSUME NEW r \in Request PROVE HidesNone(r)
    <2>1. SUFFICES ASSUME Gathers(r), tool[r] = "global"
                   PROVE  /\ jobs[r][ListTasks] = "flying" =>
                                \A t \in Known(r) \cap Existing' : Rank(Existing', t) <= Cursor(r)
                          /\ Cardinality(Hidden(r)') <= dropped'[r]
        BY DEF HidesNone
    <2>2. Cursor(r) \in Nat
        BY PageTypes
    <2>3. ASSUME jobs[r][ListTasks] = "flying", NEW t \in Known(r) \cap Existing'
          PROVE  Rank(Existing', t) <= Cursor(r)
        <3>1. t \in Existing /\ Rank(Existing, t) <= Cursor(r)
            BY <1>4, <2>1, <2>3 DEF Inv, RequestInv, ListInv
        <3>. QED
            BY <1>2, <1>6, <2>2, <2>3, <3>1
    <2>4. CASE jobs[r][ListTasks] = "flying"
        <3>. DEFINE x == CHOOSE t \in Existing : Rank(Existing, t) = Cursor(r) + 1
        <3>1. ASSUME NEW t \in Hidden(r)' PROVE t \in Hidden(r) \cup {x}
            <4>1. /\ t \in Existing /\ t \in Existing' /\ t \notin Known(r)
                  /\ \E l \in Line \ moved[r] : home[l] = t
                  /\ Rank(Existing', t) <= Cursor(r)
                BY <1>1, <1>5, <2>1, <2>4, <3>1, HiddenAfterEdit
            <4>2. Rank(Existing, t) \in Nat /\ Rank(Existing, t) <= Cursor(r) + 1
                BY <1>2, <1>6, <2>2, <4>1
            <4>3. CASE Rank(Existing, t) <= Cursor(r)
                BY <4>1, <4>3 DEF Hidden, Unread
            <4>4. CASE Rank(Existing, t) = Cursor(r) + 1
                <5>1. x \in Existing /\ Rank(Existing, x) = Cursor(r) + 1
                    BY <4>1, <4>4
                <5>2. t = x
                    BY <1>2, <4>1, <4>4, <5>1, RankInjective
                <5>. QED
                    BY <5>2
            <4>. QED
                BY <2>2, <4>2, <4>3, <4>4
        <3>. HIDE DEF x
        <3>2. Cardinality(Hidden(r)') <= dropped[r] + 1
            BY <2>1, <3>1, HiddenBound
        <3>3. Listing(r)
            BY <2>1, <2>4, ReadsJobs
                DEF Listing, Gathers, Collecting, Inv, RequestInv, PhaseInv, Gathered
        <3>. QED
            BY <1>7, <2>3, <3>2, <3>3
    <2>5. CASE jobs[r][ListTasks] # "flying"
        <3>1. ASSUME NEW t \in Hidden(r)' PROVE t \in Hidden(r)
            BY <1>1, <1>5, <2>1, <2>5, <3>1, HiddenAfterEdit DEF Hidden, Unread
        <3>2. Cardinality(Hidden(r)') <= dropped[r]
            BY <2>1, <3>1, HiddenBound
        <3>3. Cardinality(Hidden(r)') \in Nat
            <4>1. Hidden(r)' \in SUBSET Task
                BY <3>1 DEF Hidden, Unread, Existing
            <4>. QED
                BY <4>1, Numbered, FS_Subset, FS_CardinalityType
        <3>. QED
            BY <1>7, <2>5, <3>2, <3>3
    <2>. QED
        BY <2>4, <2>5
<1>9. dropped' \in [Request -> Nat] /\ \A r \in Request : dropped'[r] <= dropped[r] + 1
    BY <1>1, <1>7 DEF Inv, TypeOK
<1>10. /\ \A t \in Existing' : t <= born'
       /\ \A l \in Line : home'[l] \in Existing' \cup {Nil}
       /\ home' \in [Line -> Task \cup {Nil}]
       /\ born' \in 0..MaxTask /\ born <= born'
    BY <1>1, <1>2, <1>4 DEF Inv, TypeOK
<1>. QED
    BY <1>1, <1>4, <1>5, <1>8, <1>9, <1>10, EditInv

---------------------------------------------------------------------------
(* Every step *)

LEMMA InitInv == Init => Inv
<1>. SUFFICES ASSUME Init PROVE Inv
    OBVIOUS
<1>1. ASSUME NEW r \in Request PROVE DOMAIN jobs[r] = {} /\ JobTypes(r)
    BY <1>1 DEF Init, JobTypes
<1>2. VarTypes
    <2>1. \A t \in Existing : t <= born
        BY Numbered DEF Init
    <2>2. \A j \in {ListTasks, ListUsers} : 0 <= PageBound(j)
        BY PageTypes DEF PageBound
    <2>3. home \in [Line -> Task \cup {Nil}] /\ \A l \in Line : home[l] \in Existing \cup {Nil}
        <3>1. Existing \subseteq Task
            BY DEF Existing
        <3>. QED
            BY <3>1 DEF Init
    <2>. QED
        BY <2>1, <2>2, <2>3, BoundAssumption DEF Init, VarTypes, Phase
<1>3. TypeOK
    BY <1>1, <1>2, TypeSplit
<1>4. ASSUME NEW r \in Request PROVE RequestInv(r)
    <2>1. PhaseInv(r)
        BY <1>1, NilAssumption DEF Init, PhaseInv, Ended, Tool
    <2>2. LimitInv(r) /\ AuthInv(r) /\ CollectInv(r) /\ ListInv(r) /\ RaceInv(r)
        BY NilAssumption DEF Init, LimitInv, AuthInv, CollectInv, ListInv, Gathers, Collecting, RaceInv,
            Ended, Error
    <2>3. UserInv(r)
        BY PageTypes DEF Init, UserInv
    <2>4. Known(r) = {} /\ dropped[r] <= edits
        BY DEF Init, Known
    <2>. QED
        BY <2>1, <2>2, <2>3, <2>4 DEF RequestInv
<1>. QED
    BY <1>3, <1>4 DEF Init, Inv

LEMMA StutterInv == ASSUME Inv, UNCHANGED vars PROVE Inv'
<1>1. /\ UNCHANGED <<phase, tool, subject, holder, jobs, page, reply, answer>>
      /\ UNCHANGED <<dolibarr, filed, got, booked, history>>
      /\ moved' = moved /\ dropped' = dropped /\ Existing' = Existing /\ home' = home
      /\ project' = project /\ born' = born /\ edits' = edits
    BY DEF vars, read, dolibarr, history, Existing
<1>2. TypeOK'
    <2>1. VarTypes'
        BY <1>1, DataStep, TypeSplit DEF Inv, VarTypes, DataTypes
    <2>2. ASSUME NEW r \in Request PROVE JobTypes(r)'
        BY <1>1, TypeSplit DEF Inv, JobTypes, Status, Known
    <2>3. (VarTypes /\ \A r \in Request : JobTypes(r))'
        BY <2>1, <2>2
    <2>. QED
        BY <2>3 DEF TypeOK, VarTypes, JobTypes
<1>3. ASSUME NEW r \in Request PROVE RequestInv(r)'
    <2>1. RequestInv(r)
        BY DEF Inv
    <2>2. /\ Known(r)' = Known(r) /\ (Beyond(r)' <=> Beyond(r))
          /\ Status(r, "failed")' = Status(r, "failed")
        BY <1>1, SameBeyond DEF Status
    <2>3. PhaseInv(r)'
        BY <1>1, <2>1, <2>2 DEF RequestInv, PhaseInv, Gathered
    <2>4. LimitInv(r)' /\ AuthInv(r)' /\ RaceInv(r)' /\ UserInv(r)'
        BY <1>1, <2>1, <2>2 DEF RequestInv, LimitInv, AuthInv, RaceInv, UserInv
    <2>5. CollectInv(r)'
        BY <1>1, <2>1 DEF RequestInv, CollectInv, Gathers, FiledInv, LineInv, Within, Arrived
    <2>6. ListInv(r)'
        <3>1. Cursor(r)' = Cursor(r) /\ Hidden(r)' = Hidden(r)
            BY <1>1, <2>2 DEF Cursor, Hidden, Unread
        <3>. QED
            BY <1>1, <2>1, <2>2, <3>1 DEF RequestInv, ListInv, Gathers
    <2>. QED
        BY <1>1, <2>1, <2>2, <2>3, <2>4, <2>5, <2>6 DEF RequestInv
<1>. QED
    BY <1>1, <1>2, <1>3 DEF Inv

LEMMA StartToolInv == ASSUME Inv, NEW r \in Request, StartTool(r) PROVE Inv'
BY WhoamiInv, StartReportInv DEF StartTool

LEMMA NextInv == Inv /\ [Next]_vars => Inv'
<1>. SUFFICES ASSUME Inv, [Next]_vars PROVE Inv'
    OBVIOUS
<1>1. ASSUME NEW r \in Request, Receive(r) \/ Step(r) PROVE Inv'
    BY <1>1, ReceiveInv, AuthenticateInv, StartToolInv, LeaveInv, BuildComplete, BuildInv, FollowInv,
       AcquireInv, NextPageInv, JobReturnsInv, JobFailsInv, JobOverflowsInv DEF Step
<1>. QED
    BY <1>1, MoveLineInv, MoveTaskInv, CreateTaskInv, DeleteTaskInv, StutterInv DEF Next

THEOREM Invariance == Spec => []Inv
BY InitInv, NextInv, PTL DEF Spec

---------------------------------------------------------------------------
(* What is claimed *)

\* Phases, jobs and what was read are what the code makes of them.
THEOREM TypeCorrect == Spec => []TypeOK
BY Invariance, PTL DEF Inv

\* reporting.py, client.py: a report stays within the bounds on lines, on the tasks of a project
\* and on the pages of the lists of tasks and users, and a request is refused for its size only
\* beyond one of them, whatever is created and deleted between two pages.
THEOREM LimitExact == Spec => []LimitIsExact
<1>1. Inv => LimitIsExact
    BY DEF Inv, RequestInv, LimitInv, LimitIsExact
<1>. QED
    BY <1>1, Invariance, PTL

\* _normalize_tasks: an inconsistency between responses comes from an edit between them.
THEOREM RefusedByRace == Spec => []RefusedOnlyByRace
<1>1. Inv => RefusedOnlyByRace
    BY DEF Inv, RequestInv, RaceInv, RefusedOnlyByRace
<1>. QED
    BY <1>1, Invariance, PTL

\* collect_*: a successful collection waited for all of its requests.
THEOREM NothingLeft == Spec => []SuccessLeavesNothing
<1>1. Inv => SuccessLeavesNothing
    BY DEF Inv, RequestInv, PhaseInv, SuccessLeavesNothing, Status
<1>. QED
    BY <1>1, Invariance, PTL

\* auth.py, client.py: 401 means that Dolibarr refused the key.
THEOREM UnauthorizedByDolibarr == Spec => []UnauthorizedIsDolibarrs
<1>1. ASSUME Inv, NEW r \in Request, phase[r] \in Ended, tool[r] = Nil, reply[r] # Nil
      PROVE  /\ HttpStatus(answer[r]) \in {401, 429, 502, 503}
             /\ HttpStatus(answer[r]) = 401 <=> reply[r] \in {"401", "403"}
    <2>1. /\ reply[r] \in Reply
          /\ answer[r] = ErrorOf("GET", TRUE, reply[r]) /\ answer[r] # "none"
        BY <1>1 DEF Inv, RequestInv, AuthInv, TypeOK
    <2>2. /\ reply[r] \in {"401", "403"} => answer[r] = "InvalidDolibarrCredentials"
          /\ reply[r] \notin {"401", "403"} =>
                answer[r] \in {"DolibarrUnavailable", "DolibarrRateLimited", "InvalidDolibarrResponse"}
        BY <2>1 DEF ErrorOf, Reply
    <2>. QED
        BY <2>2 DEF HttpStatus
<1>2. Inv => UnauthorizedIsDolibarrs
    BY <1>1 DEF UnauthorizedIsDolibarrs
<1>. QED
    BY <1>2, Invariance, PTL

\* What a complete collection has counted.
LEMMA CompleteCounts ==
    ASSUME Inv, NEW r \in Request, Complete(r), ~ Clash(r)
    PROVE  /\ \A l \in Line :
                /\ Times(r, l) <= 1
                /\ l \notin moved[r] /\ Times(r, l) = 1 => Concerns(r, l)
           /\ Cardinality(Overlooked(r)) <= dropped[r]
<1>1. ASSUME NEW l \in Line PROVE Times(r, l) <= 1
    <2>1. Times(r, l) \in Nat /\ ~ (Times(r, l) > 1)
        BY TimesType DEF Clash
    <2>. QED
        BY <2>1
<1>2. home \in [Line -> Task \cup {Nil}] /\ \A t \in Task : t # Nil
    BY Numbered DEF Inv, TypeOK
<1>3. ASSUME NEW l \in Line \ moved[r], Times(r, l) = 1 PROVE Concerns(r, l)
    <2>1. LineInv(r, l)
        BY CompleteArrived
    <2>2. PICK t \in Task : l \in got[r][t]
        BY <1>3, <2>1, TimesOfUnedited
    <2>. QED
        BY <1>2, <2>1, <2>2 DEF LineInv, Within, Concerns
<1>4. ASSUME NEW t \in Overlooked(r) PROVE tool[r] = "global" /\ t \in Hidden(r)
    <2>1. PICK l \in Line \ moved[r] : home[l] = t /\ Concerns(r, l) /\ Times(r, l) = 0
        BY <1>4 DEF Overlooked
    <2>2. LineInv(r, l) /\ t \in Task
        BY <1>4, CompleteArrived DEF Overlooked
    <2>3. ~ Arrived(r, t)
        <3>1. l \notin got[r][t]
            BY <2>1, <2>2, TimesOfUnedited
        <3>2. Within(r, t) /\ t # Nil
            BY <1>2, <2>1, <2>2 DEF Concerns, Within
        <3>. QED
            BY <2>1, <2>2, <3>1, <3>2 DEF LineInv
    <2>4. tool[r] = "global" /\ t \notin Known(r) /\ jobs[r][ListTasks] = "ok"
        BY <2>2, <2>3, CompleteArrived
    <2>5. t \in Existing
        BY <1>2, <2>1, <2>2 DEF Inv, TypeOK
    <2>. QED
        BY <2>1, <2>4, <2>5 DEF Hidden, Unread
<1>5. Cardinality(Overlooked(r)) <= dropped[r]
    <2>1. dropped[r] \in Nat
        BY PageTypes DEF Inv, TypeOK
    <2>2. CASE Overlooked(r) = {}
        <3>1. Cardinality(Overlooked(r)) = 0
            BY <2>2, FS_EmptySet
        <3>. QED
            BY <2>1, <3>1
    <2>3. CASE Overlooked(r) # {}
        <3>1. tool[r] = "global" /\ Overlooked(r) \subseteq Hidden(r)
            BY <1>4, <2>3
        <3>2. Hidden(r) \in SUBSET Task
            BY DEF Hidden, Unread, Existing
        <3>3. /\ Cardinality(Overlooked(r)) \in Nat /\ Cardinality(Hidden(r)) \in Nat
              /\ Cardinality(Overlooked(r)) <= Cardinality(Hidden(r))
            BY <3>1, <3>2, FewerTasks
        <3>4. Cardinality(Hidden(r)) <= dropped[r]
            BY <3>1 DEF Inv, RequestInv, ListInv, Complete
        <3>. QED
            BY <2>1, <3>3, <3>4
    <2>. QED
        BY <2>2, <2>3
<1>. QED
    BY <1>1, <1>3, <1>5

\* A report is answered by a complete collection.
LEMMA ReportComplete ==
    ASSUME Inv, [Next]_vars, NEW r \in Request, answer[r] = Nil, answer'[r] = "report"
    PROVE  Complete(r) /\ ~ Clash(r)
<1>1. answer'[r] # answer[r]
    BY NilAssumption
<1>2. ASSUME NEW q \in Request, BuildProject(q) \/ BuildTask(q) \/ BuildGlobal(q)
      PROVE  Complete(r) /\ ~ Clash(r)
    <2>1. Complete(q) /\ Build(q)
        BY <1>2, BuildComplete
    <2>2. PICK v \in (IF Verdicts(q) = {} THEN {"report"} ELSE Verdicts(q)) :
            answer' = [answer EXCEPT ![q] = v]
        BY <2>1 DEF Build
    <2>3. q = r /\ v = "report"
        BY <1>1, <2>2 DEF Inv, TypeOK
    <2>4. Verdicts(r) = {}
        BY <2>2, <2>3 DEF Verdicts
    <2>. QED
        BY <2>1, <2>3, <2>4 DEF Verdicts
<1>3. ASSUME NEW q \in Request, Authenticate(q) PROVE FALSE
    <2>1. PICK a \in Reply :
            answer' = [answer EXCEPT ![q] = IF ErrorOf("GET", TRUE, a) = "none" THEN Nil
                                            ELSE ErrorOf("GET", TRUE, a)]
        BY <1>3 DEF Authenticate
    <2>2. ErrorOf("GET", TRUE, a) # "report"
        BY ErrorOfType DEF Error
    <2>. QED
        BY <1>1, <2>1, <2>2 DEF Inv, TypeOK
<1>4. ASSUME NEW q \in Request, NEW j, NEW e \in Error, Raise(q, j, e) PROVE FALSE
    <2>1. answer' = answer \/ answer' = [answer EXCEPT ![q] = e]
        BY <1>4 DEF Raise
    <2>2. e # "report"
        BY DEF Error
    <2>. QED
        BY <1>1, <2>1, <2>2 DEF Inv, TypeOK
<1>5. ASSUME NEW q \in Request, NEW j, JobFails(q, j) \/ JobOverflows(q, j) PROVE FALSE
    <2>1. PICK e \in Error : Raise(q, j, e)
        <3>1. CASE JobFails(q, j)
            <4>1. PICK a \in Failure \cup {"404"} : Raise(q, j, ErrorOf("GET", FALSE, a))
                BY <3>1 DEF JobFails
            <4>2. a \in Reply /\ a # "ok"
                BY FailureAssumption DEF Reply
            <4>3. ErrorOf("GET", FALSE, a) \in Error
                BY <4>2, ErrorOfType
            <4>. QED
                BY <4>1, <4>3
        <3>2. CASE JobOverflows(q, j)
            BY <3>2 DEF JobOverflows, Error
        <3>. QED
            BY <1>5, <3>1, <3>2
    <2>. QED
        BY <1>4, <2>1
<1>6. ASSUME NEW q \in Request,
             \/ Receive(q) \/ StartTool(q) \/ Leave(q) \/ ReadProject(q) \/ StartFanout(q)
             \/ \E t \in Task : Acquire(q, t)
             \/ \E j \in DOMAIN jobs[q] : NextPage(q, j) \/ JobReturns(q, j)
      PROVE  FALSE
    BY <1>1, <1>6 DEF Receive, StartTool, Whoami, StartReport, Leave, ReadProject,
        StartFanout, Follow, Acquire, NextPage, JobReturns, Inv, TypeOK
<1>7. CASE UNCHANGED answer
    BY <1>1, <1>7
<1>8. ASSUME NEW q \in Request, Step(q) PROVE Complete(r) /\ ~ Clash(r)
    BY <1>2, <1>3, <1>5, <1>6, <1>8 DEF Step, Status
<1>. QED
    BY <1>6, <1>7, <1>8 DEF Next, vars, MoveLine, MoveTask, CreateTask, DeleteTask, Edit

\* reporting.py, client.py: a report counts no line twice and, of the lines that nobody edited
\* meanwhile, every one that it is about and no other, in whatever order its requests
\* return; of the list of all tasks it misses at most as many tasks as were deleted while it
\* was read.
THEOREM CountedOnce == Spec => LinesCountedOnce
<1>1. Inv /\ [Next]_vars =>
        \A r \in Request : (answer[r] = Nil /\ answer'[r] = "report") =>
            /\ \A l \in Line :
                /\ Times(r, l) <= 1
                /\ l \notin moved[r] /\ Times(r, l) = 1 => Concerns(r, l)
            /\ Cardinality(Overlooked(r)) <= dropped[r]
    BY ReportComplete, CompleteCounts
<1>. QED
    BY <1>1, Invariance, PTL DEF Spec, LinesCountedOnce
=============================================================================

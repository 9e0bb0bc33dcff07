\* Lists of up to four tasks, read in pages of one, and one edit by others.
SPECIFICATION FairSpec
CONSTANTS
    r1 = r1  r2 = r2  p1 = p1  p2 = p2
    GetTask = GetTask  ListTasks = ListTasks  GetLines = GetLines  ListUsers = ListUsers
    GetProject = GetProject
    Nil = Nil
    Request = {r1}
    MaxTask = 4
    PageSize = 1
    TaskPages = 3
    UserPages = 1
    Project = {p1, p2}
    MaxLine = 2
    Asked = {1, p1}
    Fanout = 1
    Failure = {"unusable"}
    MaxRecords = 1
    MaxEdits = 1
INVARIANTS
    TypeOK LimitIsExact RefusedOnlyByRace SuccessLeavesNothing UnauthorizedIsDolibarrs
PROPERTIES
    LinesCountedOnce EveryRequestEnds
CHECK_DEADLOCK FALSE

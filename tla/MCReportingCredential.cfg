\* Two of the fan-out's requests at a time; the first failure answers.
SPECIFICATION FairSpec
CONSTANTS
    r1 = r1  r2 = r2  p1 = p1  p2 = p2
    GetTask = GetTask  ListTasks = ListTasks  GetLines = GetLines  ListUsers = ListUsers
    GetProject = GetProject
    Nil = Nil
    Request = {r1}
    MaxTask = 3
    PageSize = 2
    TaskPages = 2
    UserPages = 2
    Project = {p1}
    MaxLine = 1
    Asked = {1, p1}
    Fanout = 2
    Failure = {"timeout", "unusable"}
    MaxRecords = 1
    MaxEdits = 0
INVARIANT NothingOutlivesRequest
CHECK_DEADLOCK FALSE

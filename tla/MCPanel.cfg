SPECIFICATION PanelSpec
CONSTANTS
    MaxEndpoints = 3
    Nil = Nil
    Requests = {"r1", "r2"}
    Hwids = {"A"}
    Clients <- TwoClients
    MaxDevices = 2
    MaxClock = 3
    Limits = {1, 2}
    HardMode = TRUE
    RevokeCrossesToken = FALSE
    Percents = {50}
    DaysLeft = {1, 2}
    NotifyDays = TRUE
    NotifyUsage = TRUE
    DataLimits = {0, 1, 2}
    Expiries = {0, 3}
    Editors = {"e1"}
    MaxUsed = 1
    MaxDay = 4
    MaxChanges = 2
    Threads = {"t1"}
    Usernames = {"u", "v"}
    Sources = {"s1", "s2"}
    BotIds = {1, 2}
    MaxCalls = 3
    NoCall = NoCall
    \* Two nodes, one of them created as an exit.
    NodeIds = {n1, n2}
    FirstExit = n1
    Tags = {c}
    MaxRoutes = 1
    MaxEdits = 3
    MaxPushes = 1
    MaxTasks = 2
INVARIANTS
    FormatsAgree
    InjectionSound
    AnswersSound
    CoresServeRight
    ChannelsIndependent
    ServedWithinLimit
    TokensAlive
    CascadeSound
PROPERTIES
    NoNewcomerDisplaces
    DialoguesSound
    RemindersSound
    ManagedSound
CHECK_DEADLOCK FALSE

SPECIFICATION PlatformSpec
CONSTANTS
    t1 = t1
    t2 = t2
    s1 = s1
    s2 = s2
    s3 = s3
    d1 = d1
    d2 = d2
    a1 = a1
    a2 = a2
    e1 = e1
    e2 = e2
    e3 = e3
    TraceIds = {t1, t2}
    Spans = {s1, s2, s3}
    Stray = stray
    Failing = {t2}
    Blocked = {}
    QueueMax = 2
    BatchMax = 2
    Ingesters = {w1, w2}
    Writers = {q1, q2}
    Signals = {g1, g2, g3}
    MaxScopes = 2
    MaxDeliveries = 2
    MaxSweeps = 1
    Decisions = {d1, d2}
    Policies <- FewPolicies
    Worlds <- FewWorlds
    EarlierWorlds <- RichWorlds
    PolicyWriters = {a1, a2}
    AskedRules = {{"maxAlerts"}, {"maxAlerts", "minSample"}}
    MaxUpdates = 2
    MaxWorlds = 1
    MaxStarts = 3
    Texts = {x1, x2}
    Targets = {m1, m2}
    Cleared = null
    Editors = {e1, e2, e3}
    AgentRuns = {n1}
    Tools = {"calculator", "search_tool", "fetch_api", "forbidden_tool"}
    Tasks <- FewTasks
    StepKinds <- FewSteps
    MaxLength = 9
    c1 = c1
    c2 = c2
    c3 = c3
    p1 = p1
    p2 = p2
    ModelCallers = {c1}
    Rotators = {v1}
    InvokeRetries = 2
    Judged = {c1, c2, c3}
    PromptOf <- CasePrompts
    JudgeAnswers <- FewAnswers
    Concurrency = 2
    Threshold = 75
    ObservedValues = {0, 17, 19, 20}
    MaxSamples = 5
    RubricNames = {n1, n2}
    CriteriaLists = {l1, l2}
    Requesters = {u1, u2, u3}
    MaxRubrics = 3
    GradedCases = {c1, c2, c3}
    Replies <- FewReplies
    RunConfigs <- FewConfigs
    Absent = absent
    TraceForms <- FewTraces
    SpanForms <- FewSpans
    MaxTraces = 4
    MaxStatSpans = 3
INVARIANTS
    StatisticsAddUp
    FingerprintTellsConfiguration
    InvocationsTold
    JudgedConsistently
    VerdictsAgree
    RubricsAreVersioned
    GradesAddUp
    ClientAccounts
    StoredAsPosted
    DecisionsExplained
PROPERTIES
    LoopsStayFound
    ApprovalIsEarned
    ReportsAgree
CHECK_DEADLOCK FALSE

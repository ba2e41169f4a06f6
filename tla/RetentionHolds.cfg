SPECIFICATION AccountsSpec
CONSTANTS
    u1 = u1
    u2 = u2
    u3 = u3
    a1 = a1
    a2 = a2
    Users = {u1, u2, u3}
    Teams = {t1, t2}
    EnvTypes = {production}
    Requests = {q1, q2}
    Roles = {"OWNER", "ADMIN", "VIEWER"}
    FirstRoles <- StartRoles
    PolicyCalls = {p1, p2}
    Approvers = {a1, a2}
    CallUser <- CallerOf
    MaxVersions = 2
    MaxTokens = 2
    Refreshes = {f1, f2}
    MaxSessions = 3
    MaxSweeps = 1
    r1 = r1
    r2 = r2
    o1 = o1
    o2 = o2
    k1 = k1
    k2 = k2
    e1 = e1
    d1 = d1
    d2 = d2
    x1 = x1
    x2 = x2
    Orgs = {o1, o2}
    Records = {r1, r2}
    RecordOrg <- OwnerOf
    RecordKind <- KindOf
    PolicyKinds = {"candidates", "traces"}
    Days = {0}
    PolicyWriters = {p1, p2}
    Cleaners = {c1}
    MaxRules = 3
    MaxHolds = 1
    MaxCleanups = 2
    Controls = {k1, k2}
    Needs <- NeedsOf
    Automated = {k2}
    Unwatched = k2
    EvidenceTypes = {"RELEASE"}
    Authors = {x1, x2}
    Executions = {e1, e2}
    Reviewers = {u1}
    MaxFrameworks = 2
    MaxEvidence = 1
    Files = {b1}
    Dumpers = {d1, d2}
    Restorers = {x1, x2}
    MaxData = 2
    MaxBackups = 3
    MaxRestores = 2
    Fleet = {w1, w2}
    Shown = 1
    Consoles = {a1}
    Plants <- FewPlants
    HeartbeatLimit = 1
    DedupWindow = 2
    MaxPlants = 2
    Rules = {r1, r2}
    Engines = {e1, e2}
    Ackers = {a1}
    MaxAlerts = 3
    MaxEvaluations = 3
INVARIANTS
    HeldIsKept
CHECK_DEADLOCK FALSE

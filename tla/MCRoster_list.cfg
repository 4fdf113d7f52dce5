SPECIFICATION Spec
CONSTANTS
    Conns = {c1, c2}
    Fetchers = {f1}
    Jids = {j1}
    Res = {r1}
    Objs = {o1, o2, o3}
    Nil = Nil
    MaxClears = 1
SYMMETRY Symmetric
VIEW LiveState
CONSTRAINT TwoAtOnce
CHECK_DEADLOCK FALSE
INVARIANTS
    PresenceKept
    SubscriptionAgrees
    RequestsKept
PROPERTY
    OnlineChangeIsPublished

SPECIFICATION Spec
CONSTANTS
    Procs = {p1, p2, p3}
    Databases = {d1}
    Roles = {r1, r2}
    SuperuserRoles = {}
    MaxBackends = 1
    MaxPerRole = 1
    MaxPerSuperuser = 1
    Digests = {k1}
    ExpireInDrain = FALSE
    Reaper = reaper
    Closer = closer
    None = None
    Shard = shard
SYMMETRY Interchangeable
CHECK_DEADLOCK FALSE
INVARIANT SlotsAccounted
INVARIANT WaiterServed

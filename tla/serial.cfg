SPECIFICATION Spec

CONSTANTS
    web = web
    pay = pay
    payment = payment
    unknown = unknown
    database = database
    t1 = t1
    t2 = t2
    None = None
    Workloads = {web, pay}
    Identities = {payment, unknown}
    Services = {database}
    Procs = {t1}
    Ops = {"create", "confirm", "quarantine", "revoke", "scan", "comm", "tamper", "verify"}
    MaxOps = 4
    Ticks <- FineClock
    Registered = {web}
    CreateForms <- ConfirmedForm
    TTLs = {0}
    PolicyAllows <- PaymentReachesDatabase
    ProbeLimit = 1

INVARIANTS
    ReuseDetected
    VerdictExact
    Severed
    TrailChains

PROPERTY
    NothingUndone

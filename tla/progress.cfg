SPECIFICATION FairSpec

CONSTANTS
    web = web
    pay = pay
    payment = payment
    unknown = unknown
    database = database
    t1 = t1
    t2 = t2
    None = None
    Workloads = {web, pay}
    Identities = {payment, unknown}
    Services = {database}
    Procs = {t1, t2}
    Ops = {"create", "confirm", "quarantine", "revoke", "scan", "comm", "tamper", "verify"}
    MaxOps = 2
    Ticks <- FineClock
    Registered = {web, pay}
    CreateForms <- DefaultForm
    TTLs = {0}
    PolicyAllows <- PaymentReachesDatabase
    ProbeLimit = 1

PROPERTIES
    Answered
    ExpiredContained
    ConfirmVerified

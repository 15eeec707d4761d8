SPECIFICATION Spec

CONSTANTS
    web = web
    pay = pay
    payment = payment
    unknown = unknown
    database = database
    t1 = t1
    t2 = t2
    None = None
    Workloads = {web}
    Identities = {payment}
    Services = {database}
    Procs = {t1, t2}
    Ops = {"confirm", "revoke"}
    MaxOps = 2
    Ticks <- FineClock
    Registered = {web}
    CreateForms <- DefaultForm
    TTLs = {0}
    PolicyAllows <- PaymentReachesDatabase
    ProbeLimit = 1

SYMMETRY ThreadSymmetry

PROPERTIES
    ContainmentSticks

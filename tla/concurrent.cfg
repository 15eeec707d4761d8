SPECIFICATION Spec

CONSTANTS
    web = web
    pay = pay
    payment = payment
    unknown = unknown
    database = database
    t1 = t1
    t2 = t2
    None = None
    Workloads = {web}
    Identities = {payment, unknown}
    Services = {database}
    Procs = {t1, t2}
    Ops = {"confirm", "quarantine", "revoke", "scan", "comm"}
    MaxOps = 3
    Ticks <- SteppingClock
    Registered = {web}
    CreateForms <- DefaultForm
    TTLs = {0}
    PolicyAllows <- PaymentReachesDatabase
    ProbeLimit = 1

SYMMETRY ThreadSymmetry

INVARIANTS
    TypeOK
    RowConsistent
    FailClosed
    ProbesBounded
    DecisionsBacked

PROPERTY
    OnlyOverlapsUndo

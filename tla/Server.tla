------------------------------- MODULE Server -------------------------------
(***************************************************************************)
(* The request threads of the SegLabel server and the state every service  *)
(* shares.  app.run (src/app.py) serves each HTTP request on a thread of   *)
(* its own, and every service method opens its own SQLite connections, so  *)
(* a handler is a sequence of atomic database accesses and clock readings  *)
(* with arbitrary interleavings between them.  One thread is one member of *)
(* Procs; its local variables are the record job[p].                       *)
(***************************************************************************)
EXTENDS Integers, Sequences, FiniteSets

CONSTANTS
    Workloads,    \* workload ids that clients use
    Identities,   \* identity signals (service names) that clients use
    Services,     \* destinations that are not workloads (table destinations)
    None,         \* SQL NULL, Python None
    Procs,        \* request threads that can be active together
    Ops,          \* the API operations the clients of an instance call
    Ticks,        \* by how much the wall clock moves between two readings
    MaxOps        \* bound: number of requests the server receives

OpNames == {"create", "confirm", "quarantine", "revoke", "scan", "comm",
            "tamper", "verify", "reset", "restart"}

VARIABLES
    workloads,    \* table workloads: the row of each id, NoRow if there is none
    events,       \* table identity_events: the trail of each id, oldest first
    clock,        \* the wall clock at its last reading; 0 stands for NULL
    job,          \* local variables of each request thread
    served        \* number of requests received

serverVars == <<workloads, events, clock, job, served>>

-----------------------------------------------------------------------------
(* Rows and events *)

Pending   == {"STARTING", "AMBIGUOUS"}
Contained == {"QUARANTINED", "REVOKED"}
Statuses  == Pending \cup Contained \cup {"CONFIRMED"}

Destinations == Services \cup Workloads

Row == [signal      : Identities \cup {None},
        current     : Identities \cup {None},
        confirmed   : Identities \cup {None},
        status      : Statuses \cup {"ABSENT", "DEFAULT"},
        started     : Nat,
        confirmedAt : Nat]

NoRow == [signal |-> None, current |-> None, confirmed |-> None,
          status |-> "ABSENT", started |-> 0, confirmedAt |-> 0]

Present(w) == workloads[w].status # "ABSENT"

EventTypes == {"WORKLOAD_STARTED", "AMBIGUITY_DETECTED", "IDENTITY_CONFIRMED",
               "WORKLOAD_QUARANTINED", "WORKLOAD_REVOKED"}

Event == [type : EventTypes, old : Statuses \cup {None}, new : Statuses, at : Nat]

-----------------------------------------------------------------------------
(* Request threads *)

Pcs == {"idle",
        "create_check", "create_insert", "confirm_stamp", "confirm_write",
        "contain_read", "contain_stamp", "contain_write",
        "scan_list", "scan_next",
        "comm_stamp", "comm_decide", "comm_count", "comm_insert",
        "tamper_stamp", "tamper_insert",
        "verify_read", "verify_stamp", "verify_scan", "verify_store"}

DenyReasons == {"IDENTITY_QUARANTINED", "IDENTITY_REVOKED",
                "DESTINATION_AMBIGUOUS", "DESTINATION_UNAVAILABLE",
                "HOSTILE_RECONNAISSANCE_QUARANTINED", "IDENTITY_AMBIGUOUS",
                "POLICY_DENY"}
AllowReasons == {"POLICY_ALLOW", "TAMPERED_BYPASS"}
Reasons == DenyReasons \cup AllowReasons

ASSUME ConstantsAssumption ==
    /\ None \notin Workloads \cup Identities \cup Services \cup Statuses \cup Reasons
    /\ Workloads \cap Services = {}
    /\ IsFiniteSet(Procs) /\ Procs # {}
    /\ Ops \subseteq OpNames
    /\ Ticks \subseteq Int /\ 1 \in Ticks
    /\ MaxOps \in Nat

Tally == [total : Nat, allowed : Nat, wrong : Nat]

Job == [op     : OpNames \cup {"none"},
        pc     : Pcs,
        id     : Nat,                        \* uuid of the request's record
        w      : Workloads \cup {None},
        arg    : Identities \cup {None},     \* identity to confirm
        dest   : Destinations \cup {None},
        row    : Row,                        \* the row read or to be inserted
        at     : Nat,                        \* now_iso of the handler
        reused : BOOLEAN,
        old    : Statuses \cup {None},       \* old_status of a containment
        evAt   : Nat,                        \* now_iso of a containment
        win    : BOOLEAN,                    \* in_ambiguity_window
        reason : Reasons \cup {None},
        fleet  : [Workloads -> Row],         \* the snapshot of a scan
        todo   : SUBSET Workloads,           \* workloads a scan has yet to quarantine
        tally  : Tally]

Idle == [op |-> "none", pc |-> "idle", id |-> 0, w |-> None, arg |-> None,
         dest |-> None, row |-> NoRow, at |-> 0, reused |-> FALSE, old |-> None,
         evAt |-> 0, win |-> FALSE, reason |-> None,
         fleet |-> [w \in Workloads |-> NoRow], todo |-> {},
         tally |-> [total |-> 0, allowed |-> 0, wrong |-> 0]]

\* Thread p takes a request for operation op.
Accept(p, op) ==
    /\ job[p] = Idle
    /\ op \in Ops
    /\ served < MaxOps
    /\ served' = served + 1

\* The first step of a handler for workload w that goes on at pc.
Begin(op, pc, w) == [Idle EXCEPT !.op = op, !.pc = pc, !.w = w, !.id = served + 1]

Continue(p, j) == job' = [job EXCEPT ![p] = j]

\* The thread answers its request, with a result or with an error.
Finish(p) == job' = [job EXCEPT ![p] = Idle]

At(p, pc) == job[p].pc = pc

\* What datetime.now may return at the next reading.
Readings == {t \in {clock + d : d \in Ticks} : t >= 1}

=============================================================================

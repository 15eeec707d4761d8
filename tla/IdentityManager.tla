--------------------------- MODULE IdentityManager ---------------------------
(***************************************************************************)
(* services/identity_manager.py: registration with reuse detection,        *)
(* confirmation, quarantine, revocation and the attestation-timeout scan.  *)
(* The containment steps are a procedure: the two administrative routes,   *)
(* the timeout scan and the probe detector of the communication engine all *)
(* call it, and AfterContain says where each of them goes on.              *)
(***************************************************************************)
EXTENDS Server

CONSTANTS
    Registered,   \* workloads found in the database when the server starts,
                  \* each registered with a signal of its own
    CreateForms,  \* optional fields of a registration: status and confirmed_identity
    TTLs          \* values of ttl_seconds a timeout scan is asked for

ASSUME IdentityAssumption ==
    /\ Registered \subseteq Workloads
    /\ CreateForms \subseteq [status    : Statuses \cup {"DEFAULT"},
                              confirmed : Identities \cup {None}]
    /\ TTLs \subseteq Int

StartingRow(i, t) == [signal |-> i, current |-> i, confirmed |-> None,
                      status |-> "STARTING", started |-> t, confirmedAt |-> 0]

Started(status, t) == [type |-> "WORKLOAD_STARTED", old |-> None, new |-> status, at |-> t]

IdentityInit ==
    /\ workloads \in {f \in [Workloads -> {NoRow} \cup {StartingRow(i, 1) : i \in Identities}] :
                         /\ \A w \in Workloads : f[w] # NoRow <=> w \in Registered
                         /\ \A v, w \in Registered : v # w => f[v].signal # f[w].signal}
    /\ events = [w \in Workloads |->
                    IF w \in Registered THEN <<Started("STARTING", 1)>> ELSE <<>>]
    /\ clock = 1
    /\ job = [p \in Procs |-> Idle]
    /\ served = 0

\* One transaction: a new value for the row of w, and its lifecycle events.
Write(w, row, trail) ==
    /\ workloads' = [workloads EXCEPT ![w] = row]
    /\ events' = [events EXCEPT ![w] = @ \o trail]

-----------------------------------------------------------------------------
(* create_workload *)

\* A slip of Reused: only confirmed owners count.
ReusedIfConfirmed(signal, w) ==
    \E v \in Workloads \ {w} : Present(v) /\ workloads[v].confirmed = signal

\* check_identity_reuse: the signal belongs, or once belonged, to another workload.
Reused(signal, w) ==
    \E v \in Workloads \ {w} :
        /\ Present(v)
        /\ signal \in {workloads[v].signal, workloads[v].current, workloads[v].confirmed}

\* The row create_workload inserts for a draft of the client's fields.
RowToInsert(draft, reused, now) ==
    LET status == IF draft.status # "DEFAULT" THEN draft.status
                  ELSE IF reused THEN "AMBIGUOUS" ELSE "STARTING"
        owner  == IF status = "CONFIRMED" /\ draft.confirmed = None
                    THEN draft.signal ELSE draft.confirmed
    IN  [draft EXCEPT !.status = status,
                      !.confirmed = owner,
                      !.current = IF status = "CONFIRMED" THEN owner ELSE draft.signal,
                      !.confirmedAt = IF status = "CONFIRMED" THEN now ELSE 0]

\* Reads the clock; the signal is checked later, the row inserted later still.
CreateStart(p, w, i, form) ==
    /\ Accept(p, "create")
    /\ \E t \in Readings :
        /\ clock' = t
        /\ Continue(p, [Begin("create", "create_check", w) EXCEPT
                            !.at = t,
                            !.row = [NoRow EXCEPT !.signal = i, !.current = i,
                                                  !.confirmed = form.confirmed,
                                                  !.status = form.status,
                                                  !.started = t]])
    /\ UNCHANGED <<workloads, events>>

CreateCheck(p) ==
    /\ At(p, "create_check")
    /\ LET reused == Reused(job[p].row.signal, job[p].w) IN
       Continue(p, [job[p] EXCEPT !.pc = "create_insert",
                                  !.reused = reused,
                                  !.row = RowToInsert(job[p].row, reused, job[p].at)])
    /\ UNCHANGED <<workloads, events, clock, served>>

\* A second row with the same id is an integrity error.
CreateInsert(p) ==
    /\ At(p, "create_insert")
    /\ LET w   == job[p].w
           row == job[p].row
       IN  IF Present(w)
             THEN UNCHANGED <<workloads, events>>
             ELSE Write(w, row,
                        <<Started(row.status, job[p].at)>> \o
                        (IF job[p].reused /\ row.status = "AMBIGUOUS"
                           THEN <<[type |-> "AMBIGUITY_DETECTED", old |-> "STARTING",
                                   new |-> "AMBIGUOUS", at |-> job[p].at]>>
                           ELSE <<>>))
    /\ Finish(p)
    /\ UNCHANGED <<clock, served>>

-----------------------------------------------------------------------------
(* confirm_identity, as the first half of the confirm and spiffe-attest routes *)

\* A slip of ConfirmRefused: containment is forgotten.
ConfirmRefusedIfOther(row, i) ==
    row.status = "ABSENT" \/ (row.status = "CONFIRMED" /\ row.confirmed \notin {None, i})

ConfirmRefused(row, i) ==
    \/ row.status \in Contained \cup {"ABSENT"}
    \/ row.status = "CONFIRMED" /\ row.confirmed \notin {None, i}

\* Reads the row and checks it; the write that follows does not check again.
ConfirmStart(p, w, i) ==
    /\ Accept(p, "confirm")
    /\ LET row   == workloads[w]
           begun == [Begin("confirm", "confirm_stamp", w) EXCEPT !.arg = i, !.row = row]
       IN  \/ ConfirmRefused(row, i) /\ job' = job
           \/ /\ ~ConfirmRefused(row, i)
              /\ row.status = "CONFIRMED"
              /\ Continue(p, [begun EXCEPT !.pc = "verify_read"])
           \/ ~ConfirmRefused(row, i) /\ row.status # "CONFIRMED" /\ Continue(p, begun)
    /\ UNCHANGED <<workloads, events, clock>>

ConfirmStamp(p) ==
    /\ At(p, "confirm_stamp")
    /\ \E t \in Readings :
        /\ clock' = t
        /\ Continue(p, [job[p] EXCEPT !.pc = "confirm_write", !.at = t])
    /\ UNCHANGED <<workloads, events, served>>

\* A slip of ConfirmWrite: the identity in force stays the first signal.
ConfirmWriteKeepsCurrent(p) ==
    /\ At(p, "confirm_write")
    /\ Write(job[p].w, [workloads[job[p].w] EXCEPT !.confirmed = job[p].arg,
                                                   !.status = "CONFIRMED",
                                                   !.confirmedAt = job[p].at],
             <<[type |-> "IDENTITY_CONFIRMED", old |-> job[p].row.status,
                new |-> "CONFIRMED", at |-> job[p].at]>>)
    /\ Continue(p, [job[p] EXCEPT !.pc = "verify_read"])
    /\ UNCHANGED <<clock, served>>

\* A slip of ConfirmWrite: the route answers without the verification.
ConfirmWriteOnly(p) ==
    /\ At(p, "confirm_write")
    /\ Write(job[p].w, [workloads[job[p].w] EXCEPT !.confirmed = job[p].arg,
                                                   !.current = job[p].arg,
                                                   !.status = "CONFIRMED",
                                                   !.confirmedAt = job[p].at],
             <<[type |-> "IDENTITY_CONFIRMED", old |-> job[p].row.status,
                new |-> "CONFIRMED", at |-> job[p].at]>>)
    /\ Finish(p)
    /\ UNCHANGED <<clock, served>>

\* If the row is gone the event breaks its foreign key and nothing is written.
ConfirmWrite(p) ==
    /\ At(p, "confirm_write")
    /\ LET w == job[p].w
           i == job[p].arg
       IN  IF Present(w)
             THEN /\ Write(w, [workloads[w] EXCEPT !.confirmed = i, !.current = i,
                                                   !.status = "CONFIRMED",
                                                   !.confirmedAt = job[p].at],
                           <<[type |-> "IDENTITY_CONFIRMED", old |-> job[p].row.status,
                              new |-> "CONFIRMED", at |-> job[p].at]>>)
                  /\ Continue(p, [job[p] EXCEPT !.pc = "verify_read"])
             ELSE UNCHANGED <<workloads, events>> /\ Finish(p)
    /\ UNCHANGED <<clock, served>>

-----------------------------------------------------------------------------
(* quarantine_workload and revoke_workload *)

ContainStart(p, op, w) ==
    /\ Accept(p, op)
    /\ Continue(p, Begin(op, "contain_read", w))
    /\ UNCHANGED <<workloads, events, clock>>

\* A slip of AfterContain: the scan ends with its first quarantine.
AfterContainOnce(p, succeeded) ==
    IF job[p].op = "comm" /\ succeeded
      THEN Continue(p, [job[p] EXCEPT !.pc = "comm_insert", !.old = None, !.evAt = 0])
      ELSE Finish(p)

\* The scan swallows what quarantine_workload raises and takes its next
\* workload; the engine goes on only if the quarantine succeeded.
AfterContain(p, succeeded) ==
    CASE job[p].op = "scan" -> Continue(p, [job[p] EXCEPT !.pc = "scan_next", !.w = None,
                                                         !.old = None, !.evAt = 0])
      [] job[p].op = "comm" /\ succeeded ->
            Continue(p, [job[p] EXCEPT !.pc = "comm_insert", !.old = None, !.evAt = 0])
      [] OTHER -> Finish(p)

ContainRead(p) ==
    /\ At(p, "contain_read")
    /\ IF Present(job[p].w)
         THEN Continue(p, [job[p] EXCEPT !.pc = "contain_stamp",
                                         !.old = workloads[job[p].w].status])
         ELSE AfterContain(p, FALSE)
    /\ UNCHANGED <<workloads, events, clock, served>>

\* A slip of ContainStamp: the event keeps the default timestamp.
ContainStampLost(p) ==
    /\ At(p, "contain_stamp")
    /\ Continue(p, [job[p] EXCEPT !.pc = "contain_write"])
    /\ UNCHANGED <<workloads, events, clock, served>>

ContainStamp(p) ==
    /\ At(p, "contain_stamp")
    /\ \E t \in Readings :
        /\ clock' = t
        /\ Continue(p, [job[p] EXCEPT !.pc = "contain_write", !.evAt = t])
    /\ UNCHANGED <<workloads, events, served>>

ContainWrite(p) ==
    /\ At(p, "contain_write")
    /\ LET w      == job[p].w
           status == IF job[p].op = "revoke" THEN "REVOKED" ELSE "QUARANTINED"
           type   == IF job[p].op = "revoke" THEN "WORKLOAD_REVOKED"
                                             ELSE "WORKLOAD_QUARANTINED"
       IN  IF Present(w)
             THEN /\ Write(w, [workloads[w] EXCEPT !.status = status],
                           <<[type |-> type, old |-> job[p].old, new |-> status,
                              at |-> job[p].evAt]>>)
                  /\ AfterContain(p, TRUE)
             ELSE UNCHANGED <<workloads, events>> /\ AfterContain(p, FALSE)
    /\ UNCHANGED <<clock, served>>

-----------------------------------------------------------------------------
(* check_attestation_timeouts *)

ScanStart(p) ==
    /\ Accept(p, "scan")
    /\ \E t \in Readings :
        /\ clock' = t
        /\ Continue(p, [Begin("scan", "scan_list", None) EXCEPT !.at = t])
    /\ UNCHANGED <<workloads, events>>

\* A slip of Expired: any workload that is not contained yet.
ExpiredIfActive(now, ttl) ==
    {w \in Workloads : /\ Present(w) /\ workloads[w].status \notin Contained
                       /\ now - workloads[w].started > ttl}

Expired(now, ttl) ==
    {w \in Workloads : /\ workloads[w].status \in Pending
                       /\ now - workloads[w].started > ttl}

\* One snapshot of the fleet decides what will be quarantined.
ScanList(p) ==
    /\ At(p, "scan_list")
    /\ \E ttl \in TTLs :
        Continue(p, [job[p] EXCEPT !.pc = "scan_next", !.fleet = workloads,
                                   !.todo = Expired(job[p].at, ttl)])
    /\ UNCHANGED <<workloads, events, clock, served>>

\* A slip of ScanNext: the loop has no exit.
ScanNextForever(p) ==
    /\ At(p, "scan_next")
    /\ \/ \E w \in job[p].todo :
            Continue(p, [job[p] EXCEPT !.pc = "contain_read", !.w = w, !.todo = @ \ {w}])
       \/ job[p].todo = {} /\ job' = job
    /\ UNCHANGED <<workloads, events, clock, served>>

ScanNext(p) ==
    /\ At(p, "scan_next")
    /\ \/ \E w \in job[p].todo :
            Continue(p, [job[p] EXCEPT !.pc = "contain_read", !.w = w, !.todo = @ \ {w}])
       \/ job[p].todo = {} /\ Finish(p)
    /\ UNCHANGED <<workloads, events, clock, served>>

-----------------------------------------------------------------------------
\* A client's request reaches thread p.
IdentityRequest(p) ==
    \/ \E w \in Workloads, i \in Identities, form \in CreateForms : CreateStart(p, w, i, form)
    \/ \E w \in Workloads, i \in Identities : ConfirmStart(p, w, i)
    \/ \E w \in Workloads, op \in {"quarantine", "revoke"} : ContainStart(p, op, w)
    \/ ScanStart(p)

\* Thread p takes the next step of the handler it is running.
IdentityStep(p) ==
    \/ CreateCheck(p) \/ CreateInsert(p)
    \/ ConfirmStamp(p) \/ ConfirmWrite(p)
    \/ ContainRead(p) \/ ContainStamp(p) \/ ContainWrite(p)
    \/ ScanList(p) \/ ScanNext(p)

=============================================================================

------------------------------ MODULE SegLabel ------------------------------
(***************************************************************************)
(* The SegLabel server: the three services over one database, requests     *)
(* served by the threads of Procs, the reset of the database and the       *)
(* restart of the process.  The properties are about the whole.            *)
(***************************************************************************)
EXTENDS VerificationService

vars == <<workloads, events, clock, job, served, requests, results>>

Init ==
    /\ IdentityInit
    /\ requests = {}
    /\ results = {}

-----------------------------------------------------------------------------
\* reset_db: one transaction empties every table.
Reset(p) ==
    /\ Accept(p, "reset")
    /\ workloads' = [w \in Workloads |-> NoRow]
    /\ events' = [w \in Workloads |-> <<>>]
    /\ requests' = {}
    /\ results' = {}
    /\ UNCHANGED <<clock, job>>

\* The process dies and is started again: committed transactions survive,
\* the handlers in progress do not.
Restart ==
    /\ "restart" \in Ops
    /\ served < MaxOps
    /\ \E p \in Procs : job[p] # Idle
    /\ served' = served + 1
    /\ job' = [p \in Procs |-> Idle]
    /\ UNCHANGED <<workloads, events, clock, requests, results>>

\* A request arrives at thread p.
Arrive(p) ==
    \/ IdentityRequest(p) /\ UNCHANGED <<requests, results>>
    \/ EngineRequest(p) /\ UNCHANGED results
    \/ \E w \in Workloads : VerifyStart(p, w)
    \/ Reset(p)

\* Thread p goes on with the request it is serving.
Serve(p) ==
    \/ IdentityStep(p) /\ UNCHANGED <<requests, results>>
    \/ EngineStep(p) /\ UNCHANGED results
    \/ VerifyStep(p)

\* All requests of the instance have been received and answered.
Quiet ==
    /\ served = MaxOps
    /\ \A p \in Procs : job[p] = Idle
    /\ UNCHANGED vars

Next ==
    \/ \E p \in Procs : Arrive(p) \/ Serve(p)
    \/ Restart
    \/ Quiet

Spec == Init /\ [][Next]_vars

\* The scheduler lets every thread go on; no client has to send a request.
FairSpec == Spec /\ \A p \in Procs : WF_vars(Serve(p))

-----------------------------------------------------------------------------
(* What holds whatever the threads do *)

\* The shape of the tables and of the threads' local variables.
TypeOK ==
    /\ workloads \in [Workloads -> Row]
    /\ events \in [Workloads -> Seq(Event)]
    /\ clock \in Nat \ {0}
    /\ job \in [Procs -> Job]
    /\ served \in 0..MaxOps
    /\ requests \subseteq Request
    /\ results \subseteq Result

\* A row never claims more than was attested: CONFIRMED comes with an owner,
\* the owner's identity in force and a closed window; a workload that is still
\* pending reports its own first signal and has an open window; containment
\* after a confirmation keeps the window closed.
Consistent(row) ==
    /\ row.status = "CONFIRMED" => row.confirmedAt # 0
    /\ row.status \in Pending =>
          row.confirmedAt = 0 /\ row.current = row.signal /\ row.signal # None
    /\ row.confirmedAt # 0 => row.current = row.confirmed /\ row.confirmed # None

\* Every stored row is consistent, whichever handlers wrote it and in which order.
RowConsistent == \A w \in Workloads : Consistent(workloads[w])

\* Foreign keys and trail: a table refers to a workload only while its row
\* exists, and the last lifecycle event of a workload names its status, even
\* when threads write from rows they read long before, a reset empties the
\* tables under them or the process dies between two transactions.
TrailMatchesRow ==
    \A w \in Workloads :
        IF Present(w)
          THEN events[w] # <<>> /\ events[w][Len(events[w])].new = workloads[w].status
          ELSE /\ events[w] = <<>>
               /\ \A r \in requests : r.w # w
               /\ \A v \in results : v.w # w

Granted(r) == r.reason = "POLICY_ALLOW"

\* Fail-closed (README: pending workloads are denied): if a request of a
\* workload was ever allowed by policy, the workload has left the ambiguity
\* window for good, however stale the row behind the decision.
FailClosed == \A r \in requests : Granted(r) => workloads[r.w].status \notin Pending

\* Every record is backed by the trail: an ALLOW is stamped no earlier than a
\* confirmation of the workload, and a request recorded as the cause of an
\* automatic quarantine was preceded by one.
DecisionsBacked ==
    \A r \in requests :
        LET trail == events[r.w] IN
        /\ Granted(r) =>
              \E k \in DOMAIN trail : trail[k].new = "CONFIRMED" /\ trail[k].at <= r.at
        /\ r.reason = "HOSTILE_RECONNAISSANCE_QUARANTINED" =>
              \E k \in DOMAIN trail : trail[k].new = "QUARANTINED"

Probes(w) == {r \in requests : r.w = w /\ r.reason = "IDENTITY_AMBIGUOUS"}

\* The probe detector counts before it records, so requests that overlap can
\* each pass the count; the excess is at most one per other thread.
ProbesBounded ==
    \A w \in Workloads : Cardinality(Probes(w)) <= ProbeLimit + Cardinality(Procs) - 1

\* A step that takes back what was settled for w: the owner of a confirmed
\* identity, a containment, or a confirmation that nobody asked to quarantine.
Undoes(w) ==
    LET row == workloads[w]
        new == workloads'[w]
    IN  \/ row.status = "CONFIRMED" /\ new.status = "CONFIRMED"
              /\ new.confirmed # row.confirmed
        \/ row.status \in Contained /\ new.status \notin Contained \cup {"ABSENT"}
        \/ row.status = "CONFIRMED" /\ new.status = "QUARANTINED"
              /\ ~\E p \in Procs : job[p].op = "quarantine" /\ job'[p] # job[p]

\* Another handler settled w after thread p read it: the row its handler goes
\* by is one of a workload still pending, or never confirmed.
Overtaken(p, w) ==
    \/ job[p].op = "confirm" /\ job[p].row.status \in Pending
          /\ workloads[w].status \notin Pending
    \/ job[p].op = "scan" /\ job[p].fleet[w].status \in Pending
          /\ workloads[w].status \notin Pending
    \/ job[p].op = "comm" /\ job[p].row.confirmedAt = 0
          /\ workloads[w].confirmedAt # 0

\* The clock was stepped back to before the confirmation thread p has read.
ClockBack(p) == job[p].op = "comm" /\ job[p].at < job[p].row.confirmedAt

\* No write checks again what its handler read (confirm_identity:185,
\* check_attestation_timeouts:323), so a handler can undo what another one
\* settled between its read and its write.  Nothing else undoes, with one
\* exception that needs no overlap: a probe stamped before the confirmation it
\* has read counts as one of the window and may quarantine a confirmed workload.
OnlyOverlapsUndo ==
    [][\A w \in Workloads :
          Undoes(w) => \E p \in Procs :
              /\ job[p].w = w /\ job'[p] # job[p]
              /\ Overtaken(p, w) \/ ClockBack(p)]_vars

-----------------------------------------------------------------------------
(* What the code promises and keeps while requests do not overlap *)

\* Nothing that was settled is taken back: a confirmed identity is immutable
\* (confirm_identity, README edge case 11), containment is final until the
\* workload is provisioned anew, and neither the timeout scan nor the probe
\* detector quarantines a confirmed workload.
NothingUndone == [][\A w \in Workloads : ~Undoes(w)]_vars

\* A quarantined or revoked workload must be re-provisioned: no step gives it
\* another status than containment while its row exists.
ContainmentSticks ==
    [][\A w \in Workloads :
          workloads[w].status \in Contained
              => workloads'[w].status \in Contained \cup {"ABSENT"}]_vars

\* Never trust reused signals (README): of two workloads that reported the
\* same signal at most one was registered as a clean STARTING workload.
ReuseDetected ==
    \A v, w \in Workloads :
        /\ v # w /\ Present(v) /\ Present(w)
        /\ events[v][1].new = "STARTING" /\ events[w][1].new = "STARTING"
        => workloads[v].signal # workloads[w].signal

\* The verifier is exact: its verdict is FAIL if and only if a tampered
\* request had been recorded for the workload, so a decision of the engine
\* itself is never reported as a breach and a bypass is never missed.
VerdictExact ==
    \A v \in results :
        v.verdict = "FAIL" <=>
            \E r \in requests : r.w = v.w /\ r.reason = "TAMPERED_BYPASS" /\ r.at < v.at

\* Revocation and quarantine sever at once (README edge case 12): no request
\* is allowed with a later timestamp than the containment.
Severed ==
    \A r \in requests :
        Granted(r) => \A k \in DOMAIN events[r.w] :
            events[r.w][k].new \in Contained => r.at < events[r.w][k].at

\* The trail is a history: each event starts from the status the one before it
\* ended in (a detected reuse restates the registration) and time goes forward.
TrailChains ==
    \A w \in Workloads : \A k \in 2..Len(events[w]) :
        LET before == events[w][k - 1]
            event  == events[w][k]
        IN  /\ before.at <= event.at
            /\ event.type = "AMBIGUITY_DETECTED" \/ event.old = before.new

-----------------------------------------------------------------------------
(* What eventually happens, under FairSpec *)

\* Every request is answered: no handler loops or gets stuck.
Answered == \A p \in Procs : job[p] # Idle ~> job[p] = Idle

\* A workload the timeout scan found expired does leave the window.
ExpiredContained ==
    \A p \in Procs, w \in Workloads :
        w \in job[p].todo ~> workloads[w].status \notin Pending

\* A confirmation is followed by a stored verification of the closed window.
ConfirmVerified ==
    \A p \in Procs, w \in Workloads :
        job[p].pc = "confirm_write" /\ job[p].w = w
            ~> \E v \in results : v.w = w /\ v.closed

=============================================================================

------------------------- MODULE CommunicationEngine -------------------------
(***************************************************************************)
(* services/communication_engine.py: the decision on a communication       *)
(* attempt and its record.  A row of communication_requests and its copy   *)
(* in audit_logs are inserted by one transaction, so one set stands for    *)
(* both tables.  The segmentation policy is the constant PolicyAllows: no  *)
(* operation of this composition changes the policy tables.                *)
(***************************************************************************)
EXTENDS IdentityManager

CONSTANTS
    PolicyAllows, \* pairs <<source identity, destination>> with an ALLOW policy
    ProbeLimit    \* denied attempts in the window before quarantine, 5 in the code

ASSUME EngineAssumption ==
    /\ PolicyAllows \subseteq Identities \X Destinations
    /\ ProbeLimit \in Nat

VARIABLE requests \* tables communication_requests and audit_logs

Request == [id : Nat, w : Workloads, ident : Identities \cup {None}, dest : Destinations,
            status : Statuses, reason : Reasons, win : BOOLEAN, at : Nat]

IsAllow(r) == r.reason \in AllowReasons

\* A row with the id of thread p's request.
Attempt(p, ident, status) ==
    [id |-> job[p].id, w |-> job[p].w, ident |-> ident, dest |-> job[p].dest,
     status |-> status, reason |-> job[p].reason, win |-> job[p].win, at |-> job[p].at]

\* A slip of Record: the foreign key is not enforced.
RecordAlways(p, r) == requests' = requests \cup {r}

\* The rows belong to a workload: without it the foreign key refuses them.
Record(p, r) ==
    requests' = IF Present(job[p].w) THEN requests \cup {r} ELSE requests

-----------------------------------------------------------------------------
(* simulate_request *)

\* Reads the source; everything the decision knows of it comes from this row.
CommStart(p, w, d) ==
    /\ Accept(p, "comm")
    /\ IF Present(w)
         THEN Continue(p, [Begin("comm", "comm_stamp", w) EXCEPT !.dest = d,
                                                                 !.row = workloads[w]])
         ELSE job' = job
    /\ UNCHANGED <<workloads, events, clock, requests>>

\* Slips of InWindow: a STARTING workload has no window; the clock is trusted.
InWindowIfAmbiguous(row, now) ==
    row.status = "AMBIGUOUS" \/ (row.confirmedAt # 0 /\ now < row.confirmedAt)
InWindowIfPending(row, now) == row.status \in Pending

InWindow(row, now) ==
    \/ row.status \in Pending
    \/ row.confirmedAt # 0 /\ now < row.confirmedAt

CommStamp(p) ==
    /\ At(p, "comm_stamp")
    /\ \E t \in Readings :
        /\ clock' = t
        /\ Continue(p, [job[p] EXCEPT !.pc = "comm_decide", !.at = t,
                                      !.win = InWindow(job[p].row, t)])
    /\ UNCHANGED <<workloads, events, served, requests>>

PeerStatus(d) == IF d \in Workloads THEN workloads[d].status ELSE "ABSENT"

Policy(i, d) == IF <<i, d>> \in PolicyAllows THEN "POLICY_ALLOW" ELSE "POLICY_DENY"

\* A slip of Decide: revocation is forgotten.
DecideIfNotRevoked(row, win, peer, d) ==
    IF row.status = "QUARANTINED" THEN "IDENTITY_QUARANTINED"
    ELSE IF peer \in Pending THEN "DESTINATION_AMBIGUOUS"
    ELSE IF peer \in Contained THEN "DESTINATION_UNAVAILABLE"
    ELSE IF win THEN None ELSE Policy(row.current, d)

\* The decision chain, in the order of the code.  None: count the probes first.
Decide(row, win, peer, d) ==
    IF row.status = "QUARANTINED" THEN "IDENTITY_QUARANTINED"
    ELSE IF row.status = "REVOKED" THEN "IDENTITY_REVOKED"
    ELSE IF peer \in Pending THEN "DESTINATION_AMBIGUOUS"
    ELSE IF peer \in Contained THEN "DESTINATION_UNAVAILABLE"
    ELSE IF win THEN None
    ELSE Policy(row.current, d)

\* Reads the destination's row and decides.
CommDecide(p) ==
    /\ At(p, "comm_decide")
    /\ LET reason == Decide(job[p].row, job[p].win, PeerStatus(job[p].dest), job[p].dest) IN
       Continue(p, [job[p] EXCEPT !.pc = IF reason = None THEN "comm_count" ELSE "comm_insert",
                                  !.reason = reason])
    /\ UNCHANGED <<workloads, events, clock, served, requests>>

\* A slip of TooMany: one attempt more.
MoreThanTooMany(prior) == prior > ProbeLimit

TooMany(prior) == prior >= ProbeLimit

\* A slip of CommCount: the reason of the denial is not set.
CommCountNoReason(p) ==
    /\ At(p, "comm_count")
    /\ Continue(p, [job[p] EXCEPT !.pc = "comm_insert"])
    /\ UNCHANGED <<workloads, events, clock, served, requests>>

\* Counts the attempts of the window recorded so far; one too many and the
\* engine calls quarantine_workload before it records this one.
CommCount(p) ==
    /\ At(p, "comm_count")
    /\ LET prior == Cardinality({r \in requests : r.w = job[p].w /\ r.win}) IN
       IF TooMany(prior)
         THEN Continue(p, [job[p] EXCEPT !.pc = "contain_read",
                                         !.reason = "HOSTILE_RECONNAISSANCE_QUARANTINED",
                                         !.row.status = "QUARANTINED"])
         ELSE Continue(p, [job[p] EXCEPT !.pc = "comm_insert",
                                         !.reason = "IDENTITY_AMBIGUOUS"])
    /\ UNCHANGED <<workloads, events, clock, served, requests>>

CommInsert(p) ==
    /\ At(p, "comm_insert")
    /\ Record(p, Attempt(p, job[p].row.current, job[p].row.status))
    /\ Finish(p)
    /\ UNCHANGED <<workloads, events, clock, served>>

-----------------------------------------------------------------------------
(* inject_tampered_request *)

TamperStart(p, w, d) ==
    /\ Accept(p, "tamper")
    /\ IF Present(w)
         THEN Continue(p, [Begin("tamper", "tamper_stamp", w) EXCEPT
                              !.dest = d, !.row = workloads[w],
                              !.win = TRUE, !.reason = "TAMPERED_BYPASS"])
         ELSE job' = job
    /\ UNCHANGED <<workloads, events, clock, requests>>

TamperStamp(p) ==
    /\ At(p, "tamper_stamp")
    /\ \E t \in Readings :
        /\ clock' = t
        /\ Continue(p, [job[p] EXCEPT !.pc = "tamper_insert", !.at = t])
    /\ UNCHANGED <<workloads, events, served, requests>>

TamperInsert(p) ==
    /\ At(p, "tamper_insert")
    /\ Record(p, Attempt(p, job[p].row.signal, "AMBIGUOUS"))
    /\ Finish(p)
    /\ UNCHANGED <<workloads, events, clock, served>>

-----------------------------------------------------------------------------
EngineRequest(p) ==
    \E w \in Workloads, d \in Destinations : CommStart(p, w, d) \/ TamperStart(p, w, d)

EngineStep(p) ==
    \/ CommStamp(p) \/ CommDecide(p) \/ CommCount(p) \/ CommInsert(p)
    \/ TamperStamp(p) \/ TamperInsert(p)

=============================================================================

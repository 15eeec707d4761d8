------------------------- MODULE VerificationService -------------------------
(***************************************************************************)
(* services/verification_service.py: the retroactive check of a workload's *)
(* ambiguity window, called by the verify route and, after a confirmation, *)
(* by the confirm and spiffe-attest routes.                                *)
(***************************************************************************)
EXTENDS CommunicationEngine

VARIABLE results \* table verification_results

Result == [w : Workloads, closed : BOOLEAN, end : Nat, tally : Tally,
           verdict : {"PASS", "FAIL"}, at : Nat]

VerifyStart(p, w) ==
    /\ Accept(p, "verify")
    /\ Continue(p, Begin("verify", "verify_read", w))
    /\ UNCHANGED <<workloads, events, clock, requests, results>>

VerifyRead(p) ==
    /\ At(p, "verify_read")
    /\ IF Present(job[p].w)
         THEN Continue(p, [job[p] EXCEPT !.pc = "verify_stamp", !.row = workloads[job[p].w]])
         ELSE Finish(p)
    /\ UNCHANGED <<workloads, events, clock, served, requests, results>>

VerifyStamp(p) ==
    /\ At(p, "verify_stamp")
    /\ \E t \in Readings :
        /\ clock' = t
        /\ Continue(p, [job[p] EXCEPT !.pc = "verify_scan", !.at = t])
    /\ UNCHANGED <<workloads, events, served, requests, results>>

\* A slip of WindowEnd: the confirmation does not end the window.
WindowEndNow(row, now) == now

\* confirmed_at, or the present moment while the window is open.
WindowEnd(row, now) == IF row.confirmedAt # 0 THEN row.confirmedAt ELSE now

\* Flagged as in the window when it was recorded, or stamped inside it.
InAudit(r, w, row, end) ==
    /\ r.w = w
    /\ r.win \/ (row.started <= r.at /\ r.at <= end)

AuditTally(w, row, end) ==
    LET rows    == {r \in requests : InAudit(r, w, row, end)}
        allowed == {r \in rows : IsAllow(r)}
    IN  [total   |-> Cardinality(rows),
         allowed |-> Cardinality(allowed),
         wrong   |-> Cardinality({r \in allowed : r.ident # row.confirmed})]

VerifyScan(p) ==
    /\ At(p, "verify_scan")
    /\ LET row == job[p].row IN
       Continue(p, [job[p] EXCEPT
                       !.pc = "verify_store",
                       !.tally = AuditTally(job[p].w, row, WindowEnd(row, job[p].at))])
    /\ UNCHANGED <<workloads, events, clock, served, requests, results>>

Verdict(tally) == IF tally.allowed = 0 /\ tally.wrong = 0 THEN "PASS" ELSE "FAIL"

VerifyStore(p) ==
    /\ At(p, "verify_store")
    /\ LET row    == job[p].row
           result == [w |-> job[p].w, closed |-> row.confirmedAt # 0,
                      end |-> WindowEnd(row, job[p].at), tally |-> job[p].tally,
                      verdict |-> Verdict(job[p].tally), at |-> job[p].at]
       IN  results' = IF Present(job[p].w) THEN results \cup {result} ELSE results
    /\ Finish(p)
    /\ UNCHANGED <<workloads, events, clock, served, requests>>

VerifyStep(p) == VerifyRead(p) \/ VerifyStamp(p) \/ VerifyScan(p) \/ VerifyStore(p)

=============================================================================

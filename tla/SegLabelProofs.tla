--------------------------- MODULE SegLabelProofs ---------------------------
(***************************************************************************)
(* Proofs about SegLabel for every value of its constants.                 *)
(***************************************************************************)
EXTENDS SegLabel, SequenceTheorems, FiniteSetTheorems, TLAPS

ContainPcs == {"contain_read", "contain_stamp", "contain_write"}

\* The reasons of the denials that only an open window explains.
Observed == {"IDENTITY_AMBIGUOUS", "HOSTILE_RECONNAISSANCE_QUARANTINED"}

\* What a thread's local variables hold at each point of a handler.
LocalsOK(j) ==
    /\ j.pc \notin {"idle", "scan_list", "scan_next"} => j.w \in Workloads
    /\ j.pc = "create_check" =>
          /\ j.row.signal \in Identities /\ j.row.current = j.row.signal
          /\ j.row.status # "ABSENT" /\ j.row.confirmedAt = 0
    /\ j.pc = "create_insert" => j.row.status \in Statuses /\ Consistent(j.row)
    /\ j.pc \in {"create_check", "create_insert", "confirm_write"} => j.at # 0
    /\ j.pc \in {"confirm_stamp", "confirm_write"} =>
          j.arg \in Identities /\ j.row.status \in Pending
    /\ j.pc \in {"scan_list", "scan_next"} => j.op = "scan"
    /\ j.pc \in {"contain_stamp", "contain_write"} => j.old \in Statuses
    /\ j.pc \in {"comm_stamp", "comm_decide", "comm_count", "comm_insert",
                 "tamper_stamp", "tamper_insert"}
          \/ (j.pc \in ContainPcs /\ j.op = "comm") =>
          j.row.status \in Statuses /\ j.dest \in Destinations
    /\ j.pc \in {"comm_insert", "tamper_stamp", "tamper_insert"}
          \/ (j.pc \in ContainPcs /\ j.op = "comm") => j.reason \in Reasons
    /\ j.pc \in ContainPcs /\ j.op = "comm" => j.reason = "HOSTILE_RECONNAISSANCE_QUARANTINED"
    /\ j.pc \in {"tamper_stamp", "tamper_insert"} => j.reason = "TAMPERED_BYPASS" /\ j.win
    /\ j.pc \in {"confirm_stamp", "confirm_write"} => j.op = "confirm"
    /\ j.pc \in {"comm_stamp", "comm_decide", "comm_count"} => j.op = "comm"
    /\ j.pc \in ContainPcs => j.op \in {"quarantine", "revoke", "scan", "comm"}
    /\ j.pc = "comm_count" \/ (j.pc \in ContainPcs /\ j.op = "comm")
          \/ (j.pc = "comm_insert" /\ j.reason \in Observed) => j.win
    /\ j.pc = "create_insert" =>
          j.row.confirmedAt = IF j.row.status = "CONFIRMED" THEN j.at ELSE 0
    /\ j.pc \in {"comm_stamp", "comm_decide"} /\ j.row.status = "CONFIRMED" =>
          j.row.confirmedAt # 0
    /\ j.pc = "comm_decide" /\ ~j.win => j.row.status \notin Pending /\ j.row.confirmedAt <= j.at
    /\ j.pc = "comm_insert" /\ j.reason = "POLICY_ALLOW" =>
          j.row.confirmedAt # 0 /\ j.row.confirmedAt <= j.at
    /\ j.pc \in {"comm_stamp", "comm_decide"} /\ j.row.status \in Pending =>
          j.row.confirmedAt = 0
    /\ j.pc = "comm_count" \/ (j.pc = "comm_decide" /\ j.win)
          \/ (j.pc \in ContainPcs /\ j.op = "comm") =>
          j.row.confirmedAt = 0 \/ j.at < j.row.confirmedAt
    /\ j.op = "scan" => \A v \in j.todo : j.fleet[v].status \in Pending
    /\ j.op = "scan" /\ j.pc \in ContainPcs => j.fleet[j.w].status \in Pending

\* Only drafts are DEFAULT: no stored row is.
RowsOK == RowConsistent /\ \A w \in Workloads : workloads[w].status # "DEFAULT"

TablesOK == workloads \in [Workloads -> Row] /\ events \in [Workloads -> Seq(Event)] /\ RowsOK

ThreadsOK == job \in [Procs -> Job] /\ \A p \in Procs : LocalsOK(job[p])

MetersOK == clock \in Nat \ {0} /\ served \in 0..MaxOps

\* The inductive invariant behind TypeOK and RowConsistent.
IInv == /\ TablesOK /\ ThreadsOK /\ MetersOK
        /\ requests \subseteq Request /\ IsFiniteSet(requests)
        /\ results \subseteq Result

-----------------------------------------------------------------------------

LEMMA IdleOK == Idle \in Job /\ LocalsOK(Idle)
<1>1. NoRow \in Row
  BY DEF NoRow, Row
<1>2. Idle \in Job
  BY <1>1, ConstantsAssumption DEF Idle, Job, OpNames, Pcs, Tally, Statuses, Reasons
<1> QED
  BY <1>2 DEF LocalsOK, Idle, ContainPcs

\* Replacing one thread's locals by well-formed ones keeps them all well formed.
LEMMA ContinueOK ==
    ASSUME ThreadsOK, NEW p \in Procs, NEW j \in Job, LocalsOK(j), Continue(p, j)
    PROVE  ThreadsOK'
  BY DEF ThreadsOK, Continue

LEMMA FinishOK == ASSUME ThreadsOK, NEW p \in Procs, Finish(p) PROVE ThreadsOK'
  BY IdleOK DEF ThreadsOK, Finish

LEMMA AcceptOK ==
    ASSUME MetersOK, NEW p \in Procs, NEW op \in OpNames, Accept(p, op)
    PROVE  served' \in 0..MaxOps
  BY ConstantsAssumption DEF MetersOK, Accept

LEMMA BeginOK ==
    ASSUME MetersOK, NEW op \in OpNames, NEW pc \in Pcs, NEW w \in Workloads \cup {None}
    PROVE  Begin(op, pc, w) \in Job
<1>1. served + 1 \in Nat
  BY ConstantsAssumption DEF MetersOK
<1>2. op \in OpNames \cup {"none"}
  OBVIOUS
<1> QED
  BY <1>1, <1>2, IdleOK DEF Begin, Job

LEMMA ReadingsOK == ASSUME MetersOK, NEW t \in Readings PROVE t \in Nat \ {0}
  BY ConstantsAssumption DEF Readings, MetersOK

\* A transaction with a well-formed row and well-formed events.
LEMMA WriteOK ==
    ASSUME TablesOK,
           NEW w \in Workloads, NEW row \in Row, NEW trail \in Seq(Event),
           row.status # "DEFAULT", Consistent(row), Write(w, row, trail)
    PROVE  TablesOK'
<1>1. events[w] \o trail \in Seq(Event)
  BY ConcatProperties DEF TablesOK
<1> QED
  BY <1>1 DEF TablesOK, RowsOK, RowConsistent, Consistent, Write

-----------------------------------------------------------------------------
LEMMA InitOK == Init => IInv
<1> SUFFICES ASSUME Init PROVE IInv
  OBVIOUS
<1> USE DEF Init, IdentityInit
<1>1. \A i \in Identities : /\ StartingRow(i, 1) \in Row
                            /\ StartingRow(i, 1).status = "STARTING"
                            /\ Consistent(StartingRow(i, 1))
  BY ConstantsAssumption DEF StartingRow, Row, Consistent, Statuses, Pending
<1>2. NoRow \in Row /\ NoRow.status = "ABSENT" /\ Consistent(NoRow)
  BY DEF NoRow, Row, Consistent, Pending
<1>3. TablesOK
  <2>1. <<Started("STARTING", 1)>> \in Seq(Event) /\ <<>> \in Seq(Event)
    BY DEF Started, Event, EventTypes, Statuses, Pending
  <2> QED
    BY <1>1, <1>2, <2>1 DEF TablesOK, RowsOK, RowConsistent
<1>4. ThreadsOK
  BY IdleOK DEF ThreadsOK
<1> QED
  BY <1>3, <1>4, ConstantsAssumption, FS_EmptySet DEF IInv, MetersOK

-----------------------------------------------------------------------------
(* The steps of the identity manager *)

LEMMA CreateStartOK ==
    ASSUME IInv, NEW p \in Procs, NEW w \in Workloads, NEW i \in Identities,
           NEW form \in CreateForms, CreateStart(p, w, i, form)
    PROVE  TablesOK' /\ ThreadsOK' /\ MetersOK'
<1> USE DEF IInv
<1>1. PICK t \in Readings :
        /\ clock' = t
        /\ Continue(p, [Begin("create", "create_check", w) EXCEPT
                            !.at = t,
                            !.row = [NoRow EXCEPT !.signal = i, !.current = i,
                                                  !.confirmed = form.confirmed,
                                                  !.status = form.status,
                                                  !.started = t]])
  BY DEF CreateStart
<1> DEFINE draft == [NoRow EXCEPT !.signal = i, !.current = i,
                                  !.confirmed = form.confirmed,
                                  !.status = form.status, !.started = t]
           j     == [Begin("create", "create_check", w) EXCEPT !.at = t, !.row = draft]
<1>2. t \in Nat \ {0}
  BY ReadingsOK
<1>3. draft \in Row /\ draft.status # "ABSENT"
  BY <1>2, IdentityAssumption DEF NoRow, Row, Statuses, Pending, Contained
<1>4. j \in Job
  <2>1. Begin("create", "create_check", w) \in Job
    BY BeginOK DEF OpNames, Pcs
  <2> QED
    BY <1>2, <1>3, <2>1 DEF Job
<1>5. LocalsOK(j)
  BY <1>2, <1>3, ConstantsAssumption DEF LocalsOK, Begin, Idle, NoRow, ContainPcs
<1>6. ThreadsOK'
  BY <1>1, <1>4, <1>5, ContinueOK
<1>7. MetersOK'
  BY <1>1, <1>2, AcceptOK DEF CreateStart, MetersOK, OpNames
<1> QED
  BY <1>6, <1>7 DEF CreateStart, TablesOK, RowsOK, RowConsistent

LEMMA CreateCheckOK ==
    ASSUME IInv, NEW p \in Procs, CreateCheck(p)
    PROVE  TablesOK' /\ ThreadsOK' /\ MetersOK'
<1> USE DEF IInv
<1> DEFINE reused == Reused(job[p].row.signal, job[p].w)
           row    == RowToInsert(job[p].row, reused, job[p].at)
           j      == [job[p] EXCEPT !.pc = "create_insert", !.reused = reused, !.row = row]
<1>1. job[p] \in Job /\ LocalsOK(job[p]) /\ job[p].pc = "create_check"
  BY DEF ThreadsOK, CreateCheck, At
<1>2. /\ job[p].row \in Row /\ job[p].row.signal \in Identities
      /\ job[p].row.current = job[p].row.signal /\ job[p].row.confirmedAt = 0
      /\ job[p].row.status \in Statuses \cup {"DEFAULT"}
      /\ job[p].at \in Nat \ {0}
  BY <1>1 DEF LocalsOK, Job, Row
<1>3. row \in Row /\ row.status \in Statuses /\ Consistent(row)
  BY <1>2, ConstantsAssumption
     DEF RowToInsert, Row, Consistent, Statuses, Pending, Contained
<1>4. /\ reused \in BOOLEAN
      /\ row.confirmedAt = IF row.status = "CONFIRMED" THEN job[p].at ELSE 0
  BY <1>2 DEF Reused, RowToInsert, Row
<1>5. j \in Job
  BY <1>1, <1>3, <1>4 DEF Job, Pcs
<1> HIDE DEF row, reused
<1>6. LocalsOK(j)
  BY <1>1, <1>2, <1>3, <1>4 DEF LocalsOK, Job, ContainPcs
<1>7. ThreadsOK'
  BY <1>5, <1>6, ContinueOK DEF CreateCheck, row, reused
<1> QED
  BY <1>7 DEF CreateCheck, TablesOK, RowsOK, RowConsistent, MetersOK

LEMMA CreateInsertOK ==
    ASSUME IInv, NEW p \in Procs, CreateInsert(p)
    PROVE  TablesOK' /\ ThreadsOK' /\ MetersOK'
<1> USE DEF IInv
<1> DEFINE row   == job[p].row
           start == Started(row.status, job[p].at)
           found == [type |-> "AMBIGUITY_DETECTED", old |-> "STARTING",
                     new |-> "AMBIGUOUS", at |-> job[p].at]
           trail == <<start>> \o (IF job[p].reused /\ row.status = "AMBIGUOUS"
                                    THEN <<found>> ELSE <<>>)
<1>1. job[p] \in Job /\ LocalsOK(job[p]) /\ job[p].pc = "create_insert"
  BY DEF ThreadsOK, CreateInsert, At
<1>2. /\ job[p].w \in Workloads /\ row \in Row /\ job[p].at \in Nat
      /\ row.status \in Statuses /\ row.status # "DEFAULT" /\ Consistent(row)
  BY <1>1 DEF LocalsOK, Job, Statuses, Pending, Contained
<1>3. trail \in Seq(Event)
  <2>1. start \in Event /\ found \in Event
    BY <1>2 DEF Started, Event, EventTypes, Statuses, Pending
  <2>2. <<start>> \in Seq(Event) /\ <<found>> \in Seq(Event) /\ <<>> \in Seq(Event)
    BY <2>1
  <2> QED
    BY <2>2, ConcatProperties
<1>4. TablesOK'
  <2>1. CASE Present(job[p].w)
    BY <2>1 DEF CreateInsert, TablesOK, RowsOK, RowConsistent
  <2>2. CASE ~Present(job[p].w)
    BY <2>2, <1>2, <1>3, WriteOK DEF CreateInsert
  <2> QED
    BY <2>1, <2>2
<1> QED
  BY <1>4, FinishOK DEF CreateInsert, MetersOK

LEMMA ConfirmStartOK ==
    ASSUME IInv, NEW p \in Procs, NEW w \in Workloads, NEW i \in Identities,
           ConfirmStart(p, w, i)
    PROVE  TablesOK' /\ ThreadsOK' /\ MetersOK'
<1> USE DEF IInv
<1> DEFINE begun == [Begin("confirm", "confirm_stamp", w) EXCEPT !.arg = i,
                                                                 !.row = workloads[w]]
           again == [begun EXCEPT !.pc = "verify_read"]
<1>1. workloads[w] \in Row /\ workloads[w].status # "DEFAULT"
  BY DEF TablesOK, RowsOK
<1>2. begun \in Job /\ again \in Job
  <2>1. Begin("confirm", "confirm_stamp", w) \in Job
    BY BeginOK DEF OpNames, Pcs
  <2> QED
    BY <1>1, <2>1 DEF Job, Pcs
<1>3. LocalsOK(again)
  BY DEF LocalsOK, Begin, Idle, ContainPcs
<1>4. ~ConfirmRefused(workloads[w], i) /\ workloads[w].status # "CONFIRMED" => LocalsOK(begun)
  BY <1>1 DEF ConfirmRefused, LocalsOK, Begin, Idle, ContainPcs, Row, Statuses, Contained
<1>5. ThreadsOK'
  <2>1. CASE job' = job
    BY <2>1 DEF ThreadsOK
  <2>2. CASE Continue(p, again)
    BY <2>2, <1>2, <1>3, ContinueOK
  <2>3. CASE ~ConfirmRefused(workloads[w], i) /\ workloads[w].status # "CONFIRMED"
             /\ Continue(p, begun)
    BY <2>3, <1>2, <1>4, ContinueOK
  <2> QED
    BY <2>1, <2>2, <2>3 DEF ConfirmStart
<1>6. MetersOK'
  BY AcceptOK DEF ConfirmStart, MetersOK, OpNames
<1> QED
  BY <1>5, <1>6 DEF ConfirmStart, TablesOK, RowsOK, RowConsistent

LEMMA ConfirmStampOK ==
    ASSUME IInv, NEW p \in Procs, ConfirmStamp(p)
    PROVE  TablesOK' /\ ThreadsOK' /\ MetersOK'
<1> USE DEF IInv
<1>1. PICK t \in Readings :
        clock' = t /\ Continue(p, [job[p] EXCEPT !.pc = "confirm_write", !.at = t])
  BY DEF ConfirmStamp
<1> DEFINE j == [job[p] EXCEPT !.pc = "confirm_write", !.at = t]
<1>2. job[p] \in Job /\ LocalsOK(job[p]) /\ job[p].pc = "confirm_stamp" /\ t \in Nat \ {0}
  BY ReadingsOK DEF ThreadsOK, ConfirmStamp, At
<1>3. j \in Job
  BY <1>2 DEF Job, Pcs
<1>4. LocalsOK(j)
  BY <1>2 DEF LocalsOK, Job, ContainPcs
<1>5. ThreadsOK'
  BY <1>1, <1>3, <1>4, ContinueOK
<1> QED
  BY <1>1, <1>2, <1>5 DEF ConfirmStamp, TablesOK, RowsOK, RowConsistent, MetersOK

LEMMA ConfirmWriteOK ==
    ASSUME IInv, NEW p \in Procs, ConfirmWrite(p)
    PROVE  TablesOK' /\ ThreadsOK' /\ MetersOK'
<1> USE DEF IInv
<1> DEFINE w     == job[p].w
           row   == [workloads[w] EXCEPT !.confirmed = job[p].arg, !.current = job[p].arg,
                                         !.status = "CONFIRMED", !.confirmedAt = job[p].at]
           event == [type |-> "IDENTITY_CONFIRMED", old |-> job[p].row.status,
                     new |-> "CONFIRMED", at |-> job[p].at]
           j     == [job[p] EXCEPT !.pc = "verify_read"]
<1>1. job[p] \in Job /\ LocalsOK(job[p]) /\ job[p].pc = "confirm_write"
  BY DEF ThreadsOK, ConfirmWrite, At
<1>2. /\ w \in Workloads /\ job[p].arg \in Identities /\ job[p].at \in Nat \ {0}
      /\ job[p].row.status \in Pending
  BY <1>1 DEF LocalsOK, Job
<1>3. row \in Row /\ row.status # "DEFAULT" /\ Consistent(row)
  <2>1. workloads[w] \in Row
    BY <1>2 DEF TablesOK
  <2> QED
    BY <1>2, <2>1, ConstantsAssumption DEF Row, Consistent, Statuses, Pending
<1>4. <<event>> \in Seq(Event)
  BY <1>2 DEF Event, EventTypes, Statuses
<1>5. j \in Job /\ LocalsOK(j)
  <2>1. j \in Job
    BY <1>1 DEF Job, Pcs
  <2> QED
    BY <1>1, <1>2, <2>1 DEF LocalsOK, Job, ContainPcs
<1>6. CASE Present(w)
  BY <1>2, <1>3, <1>4, <1>5, <1>6, WriteOK, ContinueOK DEF ConfirmWrite, MetersOK
<1>7. CASE ~Present(w)
  BY <1>7, FinishOK DEF ConfirmWrite, MetersOK, TablesOK, RowsOK, RowConsistent
<1> QED
  BY <1>6, <1>7

LEMMA ContainStartOK ==
    ASSUME IInv, NEW p \in Procs, NEW w \in Workloads, NEW op \in {"quarantine", "revoke"},
           ContainStart(p, op, w)
    PROVE  TablesOK' /\ ThreadsOK' /\ MetersOK'
<1> USE DEF IInv
<1>1. op \in OpNames /\ op # "comm" /\ Begin(op, "contain_read", w) \in Job
  BY BeginOK DEF OpNames, Pcs
<1>2. LocalsOK(Begin(op, "contain_read", w))
  BY <1>1 DEF LocalsOK, Begin, Idle, ContainPcs
<1>3. ThreadsOK'
  BY <1>1, <1>2, ContinueOK DEF ContainStart
<1>4. MetersOK'
  BY <1>1, AcceptOK DEF ContainStart, MetersOK
<1> QED
  BY <1>3, <1>4 DEF ContainStart, TablesOK, RowsOK, RowConsistent

\* The procedure returns well-formed locals to whichever handler called it.
LEMMA AfterContainOK ==
    ASSUME ThreadsOK, NEW p \in Procs, NEW succeeded \in BOOLEAN,
           job[p].pc \in ContainPcs, AfterContain(p, succeeded)
    PROVE  ThreadsOK'
<1> DEFINE next   == [job[p] EXCEPT !.pc = "scan_next", !.w = None, !.old = None, !.evAt = 0]
           insert == [job[p] EXCEPT !.pc = "comm_insert", !.old = None, !.evAt = 0]
<1>1. job[p] \in Job /\ LocalsOK(job[p])
  BY DEF ThreadsOK
<1>2. next \in Job /\ insert \in Job
  BY <1>1 DEF Job, Pcs
<1>3. job[p].op = "scan" => LocalsOK(next)
  BY <1>1 DEF LocalsOK, Job, ContainPcs
<1>4. job[p].op = "comm" => LocalsOK(insert)
  BY <1>1 DEF LocalsOK, Job, ContainPcs, Observed
<1>5. CASE job[p].op = "scan"
  BY <1>2, <1>3, <1>5, ContinueOK DEF AfterContain
<1>6. CASE job[p].op # "scan" /\ job[p].op = "comm" /\ succeeded
  BY <1>2, <1>4, <1>6, ContinueOK DEF AfterContain
<1>7. CASE job[p].op # "scan" /\ ~(job[p].op = "comm" /\ succeeded)
  BY <1>7, FinishOK DEF AfterContain
<1> QED
  BY <1>5, <1>6, <1>7

LEMMA ContainReadOK ==
    ASSUME IInv, NEW p \in Procs, ContainRead(p)
    PROVE  TablesOK' /\ ThreadsOK' /\ MetersOK'
<1> USE DEF IInv
<1> DEFINE j == [job[p] EXCEPT !.pc = "contain_stamp", !.old = workloads[job[p].w].status]
<1>1. job[p] \in Job /\ LocalsOK(job[p]) /\ job[p].pc = "contain_read"
  BY DEF ThreadsOK, ContainRead, At
<1>2. job[p].w \in Workloads
  BY <1>1 DEF LocalsOK
<1>3. Present(job[p].w) => workloads[job[p].w].status \in Statuses
  BY <1>2 DEF TablesOK, RowsOK, Present, Row
<1>4. Present(job[p].w) => j \in Job
  BY <1>1, <1>3 DEF Job, Pcs
<1>5. Present(job[p].w) => LocalsOK(j)
  BY <1>1, <1>2, <1>3 DEF LocalsOK, Job, ContainPcs
<1>6. ThreadsOK'
  <2>1. CASE Present(job[p].w)
    BY <2>1, <1>4, <1>5, ContinueOK DEF ContainRead
  <2>2. CASE ~Present(job[p].w)
    BY <2>2, <1>1, AfterContainOK DEF ContainRead, ContainPcs
  <2> QED
    BY <2>1, <2>2
<1> QED
  BY <1>6 DEF ContainRead, TablesOK, RowsOK, RowConsistent, MetersOK

LEMMA ContainStampOK ==
    ASSUME IInv, NEW p \in Procs, ContainStamp(p)
    PROVE  TablesOK' /\ ThreadsOK' /\ MetersOK'
<1> USE DEF IInv
<1>1. PICK t \in Readings :
        clock' = t /\ Continue(p, [job[p] EXCEPT !.pc = "contain_write", !.evAt = t])
  BY DEF ContainStamp
<1> DEFINE j == [job[p] EXCEPT !.pc = "contain_write", !.evAt = t]
<1>2. job[p] \in Job /\ LocalsOK(job[p]) /\ job[p].pc = "contain_stamp" /\ t \in Nat \ {0}
  BY ReadingsOK DEF ThreadsOK, ContainStamp, At
<1>3. j \in Job
  BY <1>2 DEF Job, Pcs
<1>4. LocalsOK(j)
  BY <1>2 DEF LocalsOK, Job, ContainPcs
<1>5. ThreadsOK'
  BY <1>1, <1>3, <1>4, ContinueOK
<1> QED
  BY <1>1, <1>2, <1>5 DEF ContainStamp, TablesOK, RowsOK, RowConsistent, MetersOK

LEMMA ContainWriteOK ==
    ASSUME IInv, NEW p \in Procs, ContainWrite(p)
    PROVE  TablesOK' /\ ThreadsOK' /\ MetersOK'
<1> USE DEF IInv
<1> DEFINE w      == job[p].w
           status == IF job[p].op = "revoke" THEN "REVOKED" ELSE "QUARANTINED"
           type   == IF job[p].op = "revoke" THEN "WORKLOAD_REVOKED"
                                             ELSE "WORKLOAD_QUARANTINED"
           row    == [workloads[w] EXCEPT !.status = status]
           event  == [type |-> type, old |-> job[p].old, new |-> status, at |-> job[p].evAt]
<1>1. job[p] \in Job /\ LocalsOK(job[p]) /\ job[p].pc = "contain_write"
  BY DEF ThreadsOK, ContainWrite, At
<1>2. w \in Workloads /\ job[p].old \in Statuses /\ job[p].evAt \in Nat
  BY <1>1 DEF LocalsOK, Job
<1>3. row \in Row /\ row.status # "DEFAULT" /\ Consistent(row)
  <2>1. workloads[w] \in Row /\ Consistent(workloads[w])
    BY <1>2 DEF TablesOK, RowsOK, RowConsistent
  <2> QED
    BY <2>1 DEF Row, Consistent, Statuses, Pending, Contained
<1>4. <<event>> \in Seq(Event)
  BY <1>2 DEF Event, EventTypes, Statuses, Contained
<1>5. CASE Present(w)
  <2>1. Write(w, row, <<event>>) /\ AfterContain(p, TRUE) /\ UNCHANGED <<clock, served>>
    BY <1>5 DEF ContainWrite
  <2>2. TablesOK'
    BY <2>1, <1>2, <1>3, <1>4, WriteOK
  <2> QED
    BY <2>1, <2>2, <1>1, AfterContainOK DEF MetersOK, ContainPcs
<1>6. CASE ~Present(w)
  <2>1. AfterContain(p, FALSE) /\ UNCHANGED <<workloads, events, clock, served>>
    BY <1>6 DEF ContainWrite
  <2> QED
    BY <2>1, <1>1, AfterContainOK DEF MetersOK, ContainPcs, TablesOK, RowsOK, RowConsistent
<1> QED
  BY <1>5, <1>6

LEMMA ScanOK ==
    ASSUME IInv, NEW p \in Procs, ScanStart(p) \/ ScanList(p) \/ ScanNext(p)
    PROVE  TablesOK' /\ ThreadsOK' /\ MetersOK'
<1> USE DEF IInv
<1>1. job[p] \in Job /\ LocalsOK(job[p])
  BY DEF ThreadsOK
<1>2. CASE ScanStart(p)
  <2>1. PICK t \in Readings :
          clock' = t /\ Continue(p, [Begin("scan", "scan_list", None) EXCEPT !.at = t])
    BY <1>2 DEF ScanStart
  <2> DEFINE j == [Begin("scan", "scan_list", None) EXCEPT !.at = t]
  <2>2. t \in Nat \ {0} /\ Begin("scan", "scan_list", None) \in Job
    BY BeginOK, ReadingsOK DEF OpNames, Pcs
  <2>3. j \in Job
    BY <2>2 DEF Job
  <2>4. LocalsOK(j)
    BY DEF LocalsOK, Begin, Idle, ContainPcs
  <2>5. ThreadsOK'
    BY <2>1, <2>3, <2>4, ContinueOK
  <2>6. MetersOK'
    BY <1>2, <2>1, <2>2, AcceptOK DEF ScanStart, MetersOK, OpNames
  <2> QED
    BY <1>2, <2>5, <2>6 DEF ScanStart, TablesOK, RowsOK, RowConsistent
<1>3. CASE ScanList(p)
  <2>1. PICK ttl \in TTLs :
          Continue(p, [job[p] EXCEPT !.pc = "scan_next", !.fleet = workloads,
                                     !.todo = Expired(job[p].at, ttl)])
    BY <1>3 DEF ScanList
  <2> DEFINE j == [job[p] EXCEPT !.pc = "scan_next", !.fleet = workloads,
                                 !.todo = Expired(job[p].at, ttl)]
  <2>2. j \in Job
    BY <1>1 DEF Job, Pcs, Expired, TablesOK
  <2>3. LocalsOK(j)
    BY <1>1, <1>3 DEF LocalsOK, Job, ContainPcs, ScanList, At, Expired
  <2> QED
    BY <1>3, <2>1, <2>2, <2>3, ContinueOK DEF ScanList, TablesOK, RowsOK, RowConsistent, MetersOK
<1>4. CASE ScanNext(p)
  <2>1. CASE Finish(p)
    BY <1>4, <2>1, FinishOK DEF ScanNext, TablesOK, RowsOK, RowConsistent, MetersOK
  <2>2. CASE \E w \in job[p].todo :
              Continue(p, [job[p] EXCEPT !.pc = "contain_read", !.w = w, !.todo = @ \ {w}])
    <3>1. PICK w \in job[p].todo :
            Continue(p, [job[p] EXCEPT !.pc = "contain_read", !.w = w, !.todo = @ \ {w}])
      BY <2>2
    <3> DEFINE j == [job[p] EXCEPT !.pc = "contain_read", !.w = w, !.todo = @ \ {w}]
    <3>2. w \in Workloads
      BY <1>1 DEF Job
    <3>3. j \in Job
      BY <1>1, <3>2 DEF Job, Pcs
    <3>4. LocalsOK(j)
      BY <1>1, <1>4, <3>2 DEF LocalsOK, Job, ContainPcs, ScanNext, At
    <3> QED
      BY <1>4, <3>1, <3>3, <3>4, ContinueOK
         DEF ScanNext, TablesOK, RowsOK, RowConsistent, MetersOK
  <2> QED
    BY <1>4, <2>1, <2>2 DEF ScanNext
<1> QED
  BY <1>2, <1>3, <1>4

-----------------------------------------------------------------------------
(* The steps of the communication engine *)

\* What IInv says of everything but the engine's and the verifier's records.
CoreOK == TablesOK /\ ThreadsOK /\ MetersOK

LEMMA EngineStartOK ==
    ASSUME IInv, NEW p \in Procs, NEW w \in Workloads, NEW d \in Destinations,
           CommStart(p, w, d) \/ TamperStart(p, w, d)
    PROVE  CoreOK' /\ UNCHANGED requests
<1> USE DEF IInv
<1> DEFINE comm   == [Begin("comm", "comm_stamp", w) EXCEPT !.dest = d, !.row = workloads[w]]
           tamper == [Begin("tamper", "tamper_stamp", w) EXCEPT
                         !.dest = d, !.row = workloads[w],
                         !.win = TRUE, !.reason = "TAMPERED_BYPASS"]
<1>1. workloads[w] \in Row /\ (Present(w) => workloads[w].status \in Statuses)
  BY DEF TablesOK, RowsOK, Present, Row
<1>2. comm \in Job /\ tamper \in Job
  <2>1. Begin("comm", "comm_stamp", w) \in Job /\ Begin("tamper", "tamper_stamp", w) \in Job
    BY BeginOK DEF OpNames, Pcs
  <2>2. "TAMPERED_BYPASS" \in Reasons
    BY DEF Reasons, AllowReasons
  <2>3. comm \in Job
    BY <1>1, <2>1 DEF Job
  <2>4. tamper \in Job
    BY <1>1, <2>1, <2>2 DEF Job
  <2> QED
    BY <2>3, <2>4
<1>3. Present(w) => LocalsOK(comm) /\ LocalsOK(tamper)
  <2>1. /\ workloads[w].status = "CONFIRMED" => workloads[w].confirmedAt # 0
        /\ workloads[w].status \in Pending => workloads[w].confirmedAt = 0
    BY DEF TablesOK, RowsOK, RowConsistent, Consistent
  <2>2. Present(w) => LocalsOK(comm)
    BY <1>1, <2>1 DEF LocalsOK, Begin, Idle, ContainPcs
  <2>3. Present(w) => LocalsOK(tamper)
    BY <1>1 DEF LocalsOK, Begin, Idle, ContainPcs, Reasons, AllowReasons
  <2> QED
    BY <2>2, <2>3
<1>4. ThreadsOK'
  <2>1. CASE job' = job
    BY <2>1 DEF ThreadsOK
  <2>2. CASE Present(w) /\ Continue(p, comm)
    BY <2>2, <1>2, <1>3, ContinueOK
  <2>3. CASE Present(w) /\ Continue(p, tamper)
    BY <2>3, <1>2, <1>3, ContinueOK
  <2> QED
    BY <2>1, <2>2, <2>3 DEF CommStart, TamperStart
<1>5. MetersOK'
  BY AcceptOK DEF CommStart, TamperStart, MetersOK, OpNames
<1> QED
  BY <1>4, <1>5 DEF CommStart, TamperStart, CoreOK, TablesOK, RowsOK, RowConsistent

LEMMA EngineStampOK ==
    ASSUME IInv, NEW p \in Procs, CommStamp(p) \/ TamperStamp(p)
    PROVE  CoreOK' /\ UNCHANGED requests
<1> USE DEF IInv
<1>1. job[p] \in Job /\ LocalsOK(job[p]) /\ job[p].pc \in {"comm_stamp", "tamper_stamp"}
  BY DEF ThreadsOK, CommStamp, TamperStamp, At
<1>2. PICK t \in Readings :
        /\ clock' = t
        /\ \/ /\ job[p].pc = "comm_stamp"
              /\ Continue(p, [job[p] EXCEPT !.pc = "comm_decide", !.at = t,
                                            !.win = InWindow(job[p].row, t)])
           \/ /\ job[p].pc = "tamper_stamp"
              /\ Continue(p, [job[p] EXCEPT !.pc = "tamper_insert", !.at = t])
  BY DEF CommStamp, TamperStamp, At
<1> DEFINE comm   == [job[p] EXCEPT !.pc = "comm_decide", !.at = t,
                                    !.win = InWindow(job[p].row, t)]
           tamper == [job[p] EXCEPT !.pc = "tamper_insert", !.at = t]
<1>3. t \in Nat \ {0} /\ InWindow(job[p].row, t) \in BOOLEAN
  BY ReadingsOK DEF InWindow
<1>4. comm \in Job /\ tamper \in Job
  BY <1>1, <1>3 DEF Job, Pcs
<1>5. job[p].pc = "comm_stamp" => LocalsOK(comm)
  BY <1>1, <1>3 DEF LocalsOK, Job, Row, ContainPcs, InWindow
<1>6. job[p].pc = "tamper_stamp" => LocalsOK(tamper)
  BY <1>1, <1>3 DEF LocalsOK, Job, ContainPcs
<1>7. ThreadsOK'
  BY <1>2, <1>4, <1>5, <1>6, ContinueOK
<1> QED
  BY <1>2, <1>3, <1>7
     DEF CommStamp, TamperStamp, CoreOK, TablesOK, RowsOK, RowConsistent, MetersOK

\* The decision chain answers with a reason of its own, or asks for the count.
LEMMA DecideOK ==
    ASSUME NEW row, NEW win, NEW peer, NEW d
    PROVE  Decide(row, win, peer, d) \in
              {"IDENTITY_QUARANTINED", "IDENTITY_REVOKED", "DESTINATION_AMBIGUOUS",
               "DESTINATION_UNAVAILABLE", "POLICY_ALLOW", "POLICY_DENY", None}
  BY DEF Decide, Policy

LEMMA CommDecideOK ==
    ASSUME IInv, NEW p \in Procs, CommDecide(p)
    PROVE  CoreOK' /\ UNCHANGED requests
<1> USE DEF IInv
<1> DEFINE reason == Decide(job[p].row, job[p].win, PeerStatus(job[p].dest), job[p].dest)
           j      == [job[p] EXCEPT
                         !.pc = IF reason = None THEN "comm_count" ELSE "comm_insert",
                         !.reason = reason]
<1>1. job[p] \in Job /\ LocalsOK(job[p]) /\ job[p].pc = "comm_decide"
  BY DEF ThreadsOK, CommDecide, At
<1>2. reason \in Reasons \cup {None}
  BY DecideOK DEF Reasons, AllowReasons, DenyReasons
<1>3. /\ reason \notin Observed /\ (reason = None => job[p].win)
      /\ reason = "POLICY_ALLOW" => ~job[p].win /\ job[p].row.status \notin Contained
  BY ConstantsAssumption DEF Decide, Policy, Observed, Contained, Reasons, DenyReasons, AllowReasons
<1> HIDE DEF reason
<1>4. j \in Job
  <2>1. (IF reason = None THEN "comm_count" ELSE "comm_insert") \in Pcs
    BY DEF Pcs
  <2> QED
    BY <1>1, <1>2, <2>1 DEF Job
<1>5. LocalsOK(j)
  BY <1>1, <1>2, <1>3 DEF LocalsOK, Job, ContainPcs, Statuses
<1>6. ThreadsOK'
  BY <1>4, <1>5, ContinueOK DEF CommDecide, reason
<1> QED
  BY <1>6 DEF CommDecide, CoreOK, TablesOK, RowsOK, RowConsistent, MetersOK

LEMMA CommCountOK ==
    ASSUME IInv, NEW p \in Procs, CommCount(p)
    PROVE  CoreOK' /\ UNCHANGED requests
<1> USE DEF IInv
<1> DEFINE many == [job[p] EXCEPT !.pc = "contain_read",
                                  !.reason = "HOSTILE_RECONNAISSANCE_QUARANTINED",
                                  !.row.status = "QUARANTINED"]
           few  == [job[p] EXCEPT !.pc = "comm_insert", !.reason = "IDENTITY_AMBIGUOUS"]
<1>1. job[p] \in Job /\ LocalsOK(job[p]) /\ job[p].pc = "comm_count"
  BY DEF ThreadsOK, CommCount, At
<1>2. {"HOSTILE_RECONNAISSANCE_QUARANTINED", "IDENTITY_AMBIGUOUS"} \subseteq Reasons
  BY DEF Reasons, DenyReasons
<1>3. [job[p].row EXCEPT !.status = "QUARANTINED"] \in Row
  BY <1>1 DEF Job, Row, Statuses, Contained
<1>4. many \in Job /\ few \in Job
  BY <1>1, <1>2, <1>3 DEF Job, Pcs
<1>5. LocalsOK(many)
  BY <1>1, <1>2 DEF LocalsOK, Job, Row, ContainPcs, Statuses, Contained
<1>6. LocalsOK(few)
  BY <1>1, <1>2 DEF LocalsOK, Job, ContainPcs, Observed
<1>7. ThreadsOK'
  BY <1>4, <1>5, <1>6, ContinueOK DEF CommCount
<1> QED
  BY <1>7 DEF CommCount, CoreOK, TablesOK, RowsOK, RowConsistent, MetersOK

\* Both kinds of record are well formed.
LEMMA InsertOK ==
    ASSUME IInv, NEW p \in Procs, CommInsert(p) \/ TamperInsert(p)
    PROVE  CoreOK' /\ (requests \subseteq Request)' /\ IsFiniteSet(requests)'
<1> USE DEF IInv
<1>1. job[p] \in Job /\ LocalsOK(job[p]) /\ job[p].pc \in {"comm_insert", "tamper_insert"}
  BY DEF ThreadsOK, CommInsert, TamperInsert, At
<1>2. /\ job[p].w \in Workloads /\ job[p].dest \in Destinations /\ job[p].reason \in Reasons
      /\ job[p].row \in Row /\ job[p].row.status \in Statuses
      /\ job[p].id \in Nat /\ job[p].at \in Nat /\ job[p].win \in BOOLEAN
  BY <1>1 DEF LocalsOK, Job
<1>3. /\ Attempt(p, job[p].row.current, job[p].row.status) \in Request
      /\ Attempt(p, job[p].row.signal, "AMBIGUOUS") \in Request
  BY <1>2 DEF Attempt, Request, Row, Statuses, Pending
<1>4. (requests \subseteq Request)' /\ IsFiniteSet(requests)'
  BY <1>3, FS_AddElement DEF CommInsert, TamperInsert, Record
<1>5. ThreadsOK'
  BY FinishOK DEF CommInsert, TamperInsert
<1> QED
  BY <1>4, <1>5 DEF CommInsert, TamperInsert, CoreOK, TablesOK, RowsOK, RowConsistent, MetersOK

-----------------------------------------------------------------------------
(* The steps of the verifier *)

LEMMA VerifyStartOK ==
    ASSUME IInv, NEW p \in Procs, NEW w \in Workloads, VerifyStart(p, w)
    PROVE  CoreOK' /\ UNCHANGED <<requests, results>>
<1> USE DEF IInv
<1>1. Begin("verify", "verify_read", w) \in Job
  BY BeginOK DEF OpNames, Pcs
<1>2. LocalsOK(Begin("verify", "verify_read", w))
  BY DEF LocalsOK, Begin, Idle, ContainPcs
<1>3. ThreadsOK'
  BY <1>1, <1>2, ContinueOK DEF VerifyStart
<1>4. MetersOK'
  BY AcceptOK DEF VerifyStart, MetersOK, OpNames
<1> QED
  BY <1>3, <1>4 DEF VerifyStart, CoreOK, TablesOK, RowsOK, RowConsistent

LEMMA VerifyReadOK ==
    ASSUME IInv, NEW p \in Procs, VerifyRead(p)
    PROVE  CoreOK' /\ UNCHANGED <<requests, results>>
<1> USE DEF IInv
<1> DEFINE j == [job[p] EXCEPT !.pc = "verify_stamp", !.row = workloads[job[p].w]]
<1>1. job[p] \in Job /\ LocalsOK(job[p]) /\ job[p].pc = "verify_read"
  BY DEF ThreadsOK, VerifyRead, At
<1>2. workloads[job[p].w] \in Row
  BY <1>1 DEF LocalsOK, TablesOK
<1>3. j \in Job
  BY <1>1, <1>2 DEF Job, Pcs
<1>4. LocalsOK(j)
  BY <1>1 DEF LocalsOK, Job, ContainPcs
<1>5. ThreadsOK'
  BY <1>3, <1>4, ContinueOK, FinishOK DEF VerifyRead
<1> QED
  BY <1>5 DEF VerifyRead, CoreOK, TablesOK, RowsOK, RowConsistent, MetersOK

LEMMA VerifyStampOK ==
    ASSUME IInv, NEW p \in Procs, VerifyStamp(p)
    PROVE  CoreOK' /\ UNCHANGED <<requests, results>>
<1> USE DEF IInv
<1>1. PICK t \in Readings :
        clock' = t /\ Continue(p, [job[p] EXCEPT !.pc = "verify_scan", !.at = t])
  BY DEF VerifyStamp
<1> DEFINE j == [job[p] EXCEPT !.pc = "verify_scan", !.at = t]
<1>2. job[p] \in Job /\ LocalsOK(job[p]) /\ job[p].pc = "verify_stamp" /\ t \in Nat \ {0}
  BY ReadingsOK DEF ThreadsOK, VerifyStamp, At
<1>3. j \in Job
  BY <1>2 DEF Job, Pcs
<1>4. LocalsOK(j)
  BY <1>2 DEF LocalsOK, Job, ContainPcs
<1>5. ThreadsOK'
  BY <1>1, <1>3, <1>4, ContinueOK
<1> QED
  BY <1>1, <1>2, <1>5 DEF VerifyStamp, CoreOK, TablesOK, RowsOK, RowConsistent, MetersOK

\* The audit counts finitely many recorded requests.
LEMMA TallyOK ==
    ASSUME IsFiniteSet(requests), NEW w, NEW row, NEW end
    PROVE  AuditTally(w, row, end) \in Tally
<1> DEFINE rows    == {r \in requests : InAudit(r, w, row, end)}
           allowed == {r \in rows : IsAllow(r)}
           wrong   == {r \in allowed : r.ident # row.confirmed}
<1>1. /\ rows \subseteq requests /\ allowed \subseteq requests /\ wrong \subseteq requests
  OBVIOUS
<1> HIDE DEF rows, allowed, wrong
<1>2. Cardinality(rows) \in Nat /\ Cardinality(allowed) \in Nat /\ Cardinality(wrong) \in Nat
  BY <1>1, FS_Subset, FS_CardinalityType
<1>3. AuditTally(w, row, end) =
        [total |-> Cardinality(rows), allowed |-> Cardinality(allowed),
         wrong |-> Cardinality(wrong)]
  BY DEF AuditTally, rows, allowed, wrong
<1> QED
  BY <1>2, <1>3 DEF Tally

LEMMA VerifyScanOK ==
    ASSUME IInv, NEW p \in Procs, VerifyScan(p)
    PROVE  CoreOK' /\ UNCHANGED <<requests, results>>
<1> USE DEF IInv
<1> DEFINE tally == AuditTally(job[p].w, job[p].row, WindowEnd(job[p].row, job[p].at))
           j     == [job[p] EXCEPT !.pc = "verify_store", !.tally = tally]
<1>1. job[p] \in Job /\ LocalsOK(job[p]) /\ job[p].pc = "verify_scan"
  BY DEF ThreadsOK, VerifyScan, At
<1>2. tally \in Tally
  BY TallyOK
<1> HIDE DEF tally
<1>3. j \in Job
  BY <1>1, <1>2 DEF Job, Pcs
<1>4. LocalsOK(j)
  BY <1>1 DEF LocalsOK, Job, ContainPcs
<1>5. ThreadsOK'
  BY <1>3, <1>4, ContinueOK DEF VerifyScan, tally
<1> QED
  BY <1>5 DEF VerifyScan, CoreOK, TablesOK, RowsOK, RowConsistent, MetersOK

LEMMA VerifyStoreOK ==
    ASSUME IInv, NEW p \in Procs, VerifyStore(p)
    PROVE  CoreOK' /\ UNCHANGED requests /\ (results \subseteq Result)'
<1> USE DEF IInv
<1> DEFINE row    == job[p].row
           result == [w |-> job[p].w, closed |-> row.confirmedAt # 0,
                      end |-> WindowEnd(row, job[p].at), tally |-> job[p].tally,
                      verdict |-> Verdict(job[p].tally), at |-> job[p].at]
<1>1. job[p] \in Job /\ LocalsOK(job[p]) /\ job[p].pc = "verify_store"
  BY DEF ThreadsOK, VerifyStore, At
<1>2. /\ job[p].w \in Workloads /\ row \in Row /\ job[p].at \in Nat /\ job[p].tally \in Tally
  BY <1>1 DEF LocalsOK, Job
<1>3. WindowEnd(row, job[p].at) \in Nat /\ Verdict(job[p].tally) \in {"PASS", "FAIL"}
  BY <1>2 DEF WindowEnd, Verdict, Row
<1>4. result \in Result
  BY <1>2, <1>3 DEF Result
<1>5. (results \subseteq Result)'
  BY <1>4 DEF VerifyStore
<1>6. ThreadsOK'
  BY FinishOK DEF VerifyStore
<1> QED
  BY <1>5, <1>6 DEF VerifyStore, CoreOK, TablesOK, RowsOK, RowConsistent, MetersOK

-----------------------------------------------------------------------------
(* The whole system *)

LEMMA ResetOK ==
    ASSUME IInv, NEW p \in Procs, Reset(p)
    PROVE  IInv'
<1> USE DEF IInv
<1>1. NoRow \in Row /\ NoRow.status = "ABSENT" /\ Consistent(NoRow)
  BY DEF NoRow, Row, Consistent, Pending
<1>2. <<>> \in Seq(Event)
  OBVIOUS
<1>3. TablesOK'
  BY <1>1, <1>2 DEF Reset, TablesOK, RowsOK, RowConsistent
<1>4. MetersOK'
  BY AcceptOK DEF Reset, MetersOK, OpNames
<1> QED
  BY <1>3, <1>4, FS_EmptySet DEF Reset, ThreadsOK

LEMMA RestartOK == ASSUME IInv, Restart PROVE IInv'
<1> USE DEF IInv
<1>1. ThreadsOK'
  BY IdleOK DEF Restart, ThreadsOK
<1>2. MetersOK'
  BY ConstantsAssumption DEF Restart, MetersOK
<1> QED
  BY <1>1, <1>2 DEF Restart, TablesOK, RowsOK, RowConsistent

LEMMA ArriveOK == ASSUME IInv, NEW p \in Procs, Arrive(p) PROVE IInv'
<1>1. CASE IdentityRequest(p) /\ UNCHANGED <<requests, results>>
  <2>1. TablesOK' /\ ThreadsOK' /\ MetersOK'
    BY <1>1, CreateStartOK, ConfirmStartOK, ContainStartOK, ScanOK DEF IdentityRequest
  <2> QED
    BY <1>1, <2>1 DEF IInv
<1>2. CASE EngineRequest(p) /\ UNCHANGED results
  <2>1. CoreOK' /\ UNCHANGED requests
    BY <1>2, EngineStartOK DEF EngineRequest
  <2> QED
    BY <1>2, <2>1 DEF IInv, CoreOK
<1>3. CASE \E w \in Workloads : VerifyStart(p, w)
  <2>1. CoreOK' /\ UNCHANGED <<requests, results>>
    BY <1>3, VerifyStartOK
  <2> QED
    BY <2>1 DEF IInv, CoreOK
<1>4. CASE Reset(p)
  BY <1>4, ResetOK
<1> QED
  BY <1>1, <1>2, <1>3, <1>4 DEF Arrive

LEMMA ServeOK == ASSUME IInv, NEW p \in Procs, Serve(p) PROVE IInv'
<1>1. CASE IdentityStep(p) /\ UNCHANGED <<requests, results>>
  <2>1. TablesOK' /\ ThreadsOK' /\ MetersOK'
    BY <1>1, CreateCheckOK, CreateInsertOK, ConfirmStampOK, ConfirmWriteOK,
       ContainReadOK, ContainStampOK, ContainWriteOK, ScanOK DEF IdentityStep
  <2> QED
    BY <1>1, <2>1 DEF IInv
<1>2. CASE EngineStep(p) /\ UNCHANGED results
  <2>1. CASE CommInsert(p) \/ TamperInsert(p)
    BY <1>2, <2>1, InsertOK DEF IInv, CoreOK
  <2>2. CASE CommStamp(p) \/ TamperStamp(p) \/ CommDecide(p) \/ CommCount(p)
    <3>1. CoreOK' /\ UNCHANGED requests
      BY <2>2, EngineStampOK, CommDecideOK, CommCountOK
    <3> QED
      BY <1>2, <3>1 DEF IInv, CoreOK
  <2> QED
    BY <1>2, <2>1, <2>2 DEF EngineStep
<1>3. CASE VerifyStep(p)
  <2>1. CASE VerifyStore(p)
    BY <2>1, VerifyStoreOK DEF IInv, CoreOK
  <2>2. CASE VerifyRead(p) \/ VerifyStamp(p) \/ VerifyScan(p)
    <3>1. CoreOK' /\ UNCHANGED <<requests, results>>
      BY <2>2, VerifyReadOK, VerifyStampOK, VerifyScanOK
    <3> QED
      BY <3>1 DEF IInv, CoreOK
  <2> QED
    BY <1>3, <2>1, <2>2 DEF VerifyStep
<1> QED
  BY <1>1, <1>2, <1>3 DEF Serve

\* IInv is inductive: no step of any thread, no reset and no restart breaks it.
THEOREM InductiveInvariant == Spec => []IInv
<1>1. Init => IInv
  BY InitOK
<1>2. IInv /\ [Next]_vars => IInv'
  <2> SUFFICES ASSUME IInv, [Next]_vars PROVE IInv'
    OBVIOUS
  <2>1. CASE UNCHANGED vars
    BY <2>1 DEF vars, IInv, TablesOK, RowsOK, RowConsistent, ThreadsOK, MetersOK
  <2>2. CASE \E p \in Procs : Arrive(p) \/ Serve(p)
    BY <2>2, ArriveOK, ServeOK
  <2>3. CASE Restart
    BY <2>3, RestartOK
  <2> QED
    BY <2>1, <2>2, <2>3 DEF Next, Quiet
<1> QED
  BY <1>1, <1>2, PTL DEF Spec

\* The tables and the threads' locals keep their shape (identity_manager.py,
\* communication_engine.py and verification_service.py together).
THEOREM TypeCorrect == Spec => []TypeOK
<1>1. IInv => TypeOK
  BY DEF IInv, TypeOK, TablesOK, ThreadsOK, MetersOK
<1> QED
  BY <1>1, InductiveInvariant, PTL

\* No interleaving of the handlers stores a row that claims more than was
\* attested (the workloads table as identity_manager.py writes it).
THEOREM RowsStayConsistent == Spec => []RowConsistent
<1>1. IInv => RowConsistent
  BY DEF IInv, TablesOK, RowsOK
<1> QED
  BY <1>1, InductiveInvariant, PTL
-----------------------------------------------------------------------------
\* Fail-closed, while nobody resets the database: a policy ALLOW is only ever
\* recorded for a workload that has left the ambiguity window, although the engine
\* decides from a row it read several steps before it records the request.


\* In table rows, w exists and its window was left.
Left(rows, w) == rows[w].status \notin Pending \cup {"ABSENT"}

\* What the stale copy of the source's row in locals j says of table rows.
StaleOK(j, rows) ==
    /\ j.pc \in {"comm_stamp", "comm_decide"} /\ j.row.status \notin Pending => Left(rows, j.w)
    /\ j.pc = "comm_insert" /\ j.reason = "POLICY_ALLOW" => Left(rows, j.w)

GrantInv ==
    /\ \A p \in Procs : StaleOK(job[p], workloads)
    /\ \A r \in requests : Granted(r) => Left(workloads, r.w)

\* No step moves a workload back into its window.
Forward == \A w \in Workloads : Left(workloads, w) => Left(workloads', w)

\* A thread went on with locals j, and the records only grew by settled ones.
GoesOn(p, j) == Continue(p, j) /\ StaleOK(j, workloads') /\ UNCHANGED requests

LEMMA StaleForward ==
    ASSUME Forward, NEW j \in Job, LocalsOK(j), StaleOK(j, workloads)
    PROVE  StaleOK(j, workloads')
  BY DEF StaleOK, LocalsOK, Forward

LEMMA GoesOnOK ==
    ASSUME IInv, GrantInv, Forward, NEW p \in Procs, NEW j, GoesOn(p, j)
    PROVE  GrantInv'
<1>1. \A q \in Procs : StaleOK(job[q], workloads')
  BY StaleForward DEF GrantInv, IInv, ThreadsOK
<1>2. \A q \in Procs : StaleOK(job'[q], workloads')
  BY <1>1 DEF GoesOn, Continue, IInv, ThreadsOK
<1>3. \A r \in requests : r.w \in Workloads
  BY DEF IInv, Request
<1> QED
  BY <1>2, <1>3 DEF GrantInv, GoesOn, Forward

LEMMA IdleStale == ASSUME NEW rows PROVE StaleOK(Idle, rows)
  BY DEF StaleOK, Idle, ContainPcs

-----------------------------------------------------------------------------
\* Writing a row outside the window moves nobody back into it.
LEMMA WriteForward ==
    ASSUME TablesOK, NEW w \in Workloads, NEW row, NEW trail, Write(w, row, trail),
           row.status \notin Pending \cup {"ABSENT"}
    PROVE  Forward
  BY DEF TablesOK, Write, Forward, Left

LEMMA IdentityStepForward == ASSUME IInv, NEW p \in Procs, IdentityStep(p) PROVE Forward
<1> USE DEF IInv
<1>1. job[p] \in Job /\ LocalsOK(job[p])
  BY DEF ThreadsOK
<1>2. CASE UNCHANGED workloads
  BY <1>2 DEF Forward
<1>3. CASE CreateInsert(p)
  <2>1. job[p].w \in Workloads
    BY <1>1, <1>3 DEF CreateInsert, At, LocalsOK
  <2> QED
    BY <1>3, <2>1 DEF CreateInsert, Write, Forward, Left, Present, TablesOK
<1>4. CASE ConfirmWrite(p)
  <2> DEFINE row == [workloads[job[p].w] EXCEPT !.confirmed = job[p].arg,
                                                !.current = job[p].arg,
                                                !.status = "CONFIRMED",
                                                !.confirmedAt = job[p].at]
  <2>1. job[p].w \in Workloads
    BY <1>1, <1>4 DEF ConfirmWrite, At, LocalsOK
  <2>2. row.status \notin Pending \cup {"ABSENT"}
    BY <2>1 DEF TablesOK, Row, Pending
  <2>3. CASE \E trail : Write(job[p].w, row, trail)
    BY <2>1, <2>2, <2>3, WriteForward
  <2> QED
    BY <1>2, <1>4, <2>3 DEF ConfirmWrite
<1>5. CASE ContainWrite(p)
  <2> DEFINE row(status) == [workloads[job[p].w] EXCEPT !.status = status]
  <2>1. job[p].w \in Workloads
    BY <1>1, <1>5 DEF ContainWrite, At, LocalsOK
  <2>2. \A status \in Contained : row(status).status \notin Pending \cup {"ABSENT"}
    BY <2>1 DEF TablesOK, Row, Pending, Contained
  <2>3. CASE \E status \in Contained : \E trail : Write(job[p].w, row(status), trail)
    <3>1. PICK status \in Contained : \E trail : Write(job[p].w, row(status), trail)
      BY <2>3
    <3> QED
      BY <2>1, <2>2, <3>1, WriteForward
  <2> QED
    BY <1>2, <1>5, <2>3 DEF ContainWrite, Contained
<1> QED
  BY <1>2, <1>3, <1>4, <1>5
     DEF IdentityStep, CreateCheck, ConfirmStamp, ContainRead, ContainStamp, ScanList, ScanNext

\* The identity manager's steps never leave a thread with a grant in hand.
LEMMA IdentityStepStale ==
    ASSUME IInv, GrantInv, NEW p \in Procs, IdentityStep(p)
    PROVE  \E j : Continue(p, j) /\ StaleOK(j, workloads')
<1> USE DEF IInv
<1>1. job[p] \in Job /\ LocalsOK(job[p]) /\ StaleOK(job[p], workloads)
  BY DEF ThreadsOK, GrantInv
<1>2. ASSUME Finish(p) PROVE Continue(p, Idle) /\ StaleOK(Idle, workloads')
  BY <1>2, IdleStale DEF Finish, Continue
<1>3. ASSUME NEW succeeded, AfterContain(p, succeeded), job[p].pc \in ContainPcs
      PROVE  \E j : Continue(p, j) /\ StaleOK(j, workloads')
  <2> DEFINE next   == [job[p] EXCEPT !.pc = "scan_next", !.w = None, !.old = None, !.evAt = 0]
             insert == [job[p] EXCEPT !.pc = "comm_insert", !.old = None, !.evAt = 0]
  <2>1. StaleOK(next, workloads')
    BY <1>1 DEF StaleOK, Job, ContainPcs
  <2>2. job[p].op = "comm" => StaleOK(insert, workloads')
    BY <1>1, <1>3 DEF StaleOK, LocalsOK, Job, ContainPcs
  <2> QED
    BY <1>2, <1>3, <2>1, <2>2 DEF AfterContain
<1> HIDE DEF IInv
<1>4. CASE CreateCheck(p)
  <2>1. PICK b, row : Continue(p, [job[p] EXCEPT !.pc = "create_insert", !.reused = b,
                                                 !.row = row])
    BY <1>4 DEF CreateCheck
  <2>2. StaleOK([job[p] EXCEPT !.pc = "create_insert", !.reused = b, !.row = row], workloads')
    BY <1>1 DEF StaleOK, Job, ContainPcs
  <2> QED
    BY <2>1, <2>2
<1>5. CASE CreateInsert(p)
  BY <1>2, <1>5 DEF CreateInsert
<1>6. CASE ConfirmStamp(p)
  <2>1. PICK t : Continue(p, [job[p] EXCEPT !.pc = "confirm_write", !.at = t])
    BY <1>6 DEF ConfirmStamp
  <2>2. StaleOK([job[p] EXCEPT !.pc = "confirm_write", !.at = t], workloads')
    BY <1>1 DEF StaleOK, Job, ContainPcs
  <2> QED
    BY <2>1, <2>2
<1>7. CASE ConfirmWrite(p)
  <2>1. StaleOK([job[p] EXCEPT !.pc = "verify_read"], workloads')
    BY <1>1 DEF StaleOK, Job, ContainPcs
  <2> QED
    BY <1>2, <1>7, <2>1 DEF ConfirmWrite
<1>8. CASE ContainRead(p)
  <2>1. job[p].pc \in ContainPcs
    BY <1>8 DEF ContainRead, At, ContainPcs
  <2>2. StaleOK([job[p] EXCEPT !.pc = "contain_stamp", !.old = workloads[job[p].w].status],
                workloads')
    BY <1>1, <2>1 DEF StaleOK, Job, ContainPcs
  <2> QED
    BY <1>3, <1>8, <2>1, <2>2 DEF ContainRead
<1>9. CASE ContainStamp(p)
  <2>1. PICK t : Continue(p, [job[p] EXCEPT !.pc = "contain_write", !.evAt = t])
    BY <1>9 DEF ContainStamp
  <2>2. StaleOK([job[p] EXCEPT !.pc = "contain_write", !.evAt = t], workloads')
    BY <1>1, <1>9 DEF StaleOK, Job, ContainPcs, ContainStamp, At
  <2> QED
    BY <2>1, <2>2
<1>10. CASE ContainWrite(p)
  BY <1>3, <1>10 DEF ContainWrite, At, ContainPcs
<1>11. CASE ScanList(p)
  <2>1. PICK S : Continue(p, [job[p] EXCEPT !.pc = "scan_next", !.fleet = workloads,
                                            !.todo = S])
    BY <1>11 DEF ScanList
  <2>2. StaleOK([job[p] EXCEPT !.pc = "scan_next", !.fleet = workloads, !.todo = S],
                workloads')
    BY <1>1 DEF StaleOK, Job, ContainPcs
  <2> QED
    BY <2>1, <2>2
<1>12. CASE ScanNext(p)
  <2>1. job[p].op = "scan"
    BY <1>12 DEF ScanNext, At, IInv, ThreadsOK, LocalsOK
  <2>2. ASSUME NEW w, Continue(p, [job[p] EXCEPT !.pc = "contain_read", !.w = w,
                                                 !.todo = @ \ {w}])
        PROVE  StaleOK([job[p] EXCEPT !.pc = "contain_read", !.w = w, !.todo = @ \ {w}],
                       workloads')
    BY <1>1, <2>1 DEF StaleOK, Job, ContainPcs
  <2> QED
    BY <1>2, <1>12, <2>2 DEF ScanNext
<1> QED
  BY <1>4, <1>5, <1>6, <1>7, <1>8, <1>9, <1>10, <1>11, <1>12 DEF IdentityStep

-----------------------------------------------------------------------------
(* The engine's own steps *)

LEMMA CommStepStale ==
    ASSUME IInv, GrantInv, NEW p \in Procs,
           CommStamp(p) \/ TamperStamp(p) \/ CommDecide(p) \/ CommCount(p)
    PROVE  \E j : GoesOn(p, j)
<1>1. job[p] \in Job /\ LocalsOK(job[p]) /\ StaleOK(job[p], workloads)
  BY DEF IInv, ThreadsOK, GrantInv
<1>2. CASE CommStamp(p)
  <2>1. PICK t : Continue(p, [job[p] EXCEPT !.pc = "comm_decide", !.at = t,
                                            !.win = InWindow(job[p].row, t)])
    BY <1>2 DEF CommStamp
  <2> DEFINE j == [job[p] EXCEPT !.pc = "comm_decide", !.at = t,
                                 !.win = InWindow(job[p].row, t)]
  <2>2. ~InWindow(job[p].row, t) => job[p].row.status \notin Pending
    BY DEF InWindow
  <2>3. StaleOK(j, workloads)
    BY <1>1, <1>2, <2>2 DEF StaleOK, Job, ContainPcs, CommStamp, At
  <2> QED
    BY <1>2, <2>1, <2>3 DEF CommStamp, GoesOn
<1>3. CASE TamperStamp(p)
  <2>1. PICK t : Continue(p, [job[p] EXCEPT !.pc = "tamper_insert", !.at = t])
    BY <1>3 DEF TamperStamp
  <2>2. StaleOK([job[p] EXCEPT !.pc = "tamper_insert", !.at = t], workloads)
    BY <1>1, <1>3 DEF StaleOK, Job, ContainPcs, TamperStamp, At
  <2> QED
    BY <1>3, <2>1, <2>2 DEF TamperStamp, GoesOn
<1>4. CASE CommDecide(p)
  <2> DEFINE reason == Decide(job[p].row, job[p].win, PeerStatus(job[p].dest), job[p].dest)
             j      == [job[p] EXCEPT
                           !.pc = IF reason = None THEN "comm_count" ELSE "comm_insert",
                           !.reason = reason]
  <2>1. reason = "POLICY_ALLOW" => ~job[p].win
    BY ConstantsAssumption DEF Decide, Policy, Reasons, AllowReasons
  <2>2. job[p].row.status \notin Pending => Left(workloads, job[p].w)
    BY <1>1, <1>4 DEF StaleOK, CommDecide, At
  <2>3. ~job[p].win => job[p].row.status \notin Pending
    BY <1>1, <1>4 DEF LocalsOK, CommDecide, At
  <2> HIDE DEF reason
  <2>4. StaleOK(j, workloads)
    BY <1>1, <2>1, <2>2, <2>3 DEF StaleOK, Job, ContainPcs
  <2>5. Continue(p, j) /\ UNCHANGED <<workloads, requests>>
    BY <1>4 DEF CommDecide, reason
  <2> QED
    BY <2>4, <2>5 DEF GoesOn
<1>5. CASE CommCount(p)
  <2> DEFINE many == [job[p] EXCEPT !.pc = "contain_read",
                                    !.reason = "HOSTILE_RECONNAISSANCE_QUARANTINED",
                                    !.row.status = "QUARANTINED"]
             few  == [job[p] EXCEPT !.pc = "comm_insert", !.reason = "IDENTITY_AMBIGUOUS"]
  <2>1. StaleOK(many, workloads) /\ StaleOK(few, workloads)
    BY <1>1 DEF StaleOK, Job, ContainPcs
  <2> QED
    BY <1>5, <2>1 DEF CommCount, GoesOn
<1> QED
  BY <1>2, <1>3, <1>4, <1>5

\* A grant is recorded only for a workload that left its window.
LEMMA InsertGrant ==
    ASSUME IInv, GrantInv, NEW p \in Procs, CommInsert(p) \/ TamperInsert(p)
    PROVE  GrantInv'
<1>1. job[p] \in Job /\ LocalsOK(job[p]) /\ StaleOK(job[p], workloads)
  BY DEF IInv, ThreadsOK, GrantInv
<1>2. job' = [job EXCEPT ![p] = Idle] /\ UNCHANGED workloads
  BY DEF CommInsert, TamperInsert, Finish
<1>3. \A q \in Procs : StaleOK(job'[q], workloads')
  BY <1>2, IdleStale DEF GrantInv, IInv, ThreadsOK
<1>4. ASSUME NEW r \in requests', r \notin requests, Granted(r)
      PROVE  Left(workloads, r.w)
  <2>1. r.w = job[p].w /\ r.reason = job[p].reason
    BY <1>4 DEF CommInsert, TamperInsert, Record, Attempt
  <2>2. job[p].reason = "POLICY_ALLOW"
    BY <1>4, <2>1 DEF Granted
  <2>3. job[p].pc = "comm_insert"
    BY <1>1, <2>2 DEF CommInsert, TamperInsert, At, LocalsOK
  <2> QED
    BY <1>1, <2>1, <2>2, <2>3 DEF StaleOK
<1> QED
  BY <1>2, <1>3, <1>4 DEF GrantInv

\* The verifier's steps and every arrival leave no grant in hand.
LEMMA VerifyStepStale ==
    ASSUME IInv, GrantInv, NEW p \in Procs, VerifyStep(p)
    PROVE  \E j : GoesOn(p, j)
<1>1. job[p] \in Job
  BY DEF IInv, ThreadsOK
<1>2. CASE VerifyRead(p)
  <2>1. StaleOK([job[p] EXCEPT !.pc = "verify_stamp", !.row = workloads[job[p].w]], workloads)
    BY <1>1 DEF StaleOK, Job, ContainPcs
  <2> QED
    BY <1>2, <2>1, IdleStale DEF VerifyRead, GoesOn, Finish, Continue
<1>3. CASE VerifyStamp(p)
  <2>1. PICK t : Continue(p, [job[p] EXCEPT !.pc = "verify_scan", !.at = t])
    BY <1>3 DEF VerifyStamp
  <2>2. StaleOK([job[p] EXCEPT !.pc = "verify_scan", !.at = t], workloads)
    BY <1>1 DEF StaleOK, Job, ContainPcs
  <2> QED
    BY <1>3, <2>1, <2>2 DEF VerifyStamp, GoesOn
<1>4. CASE VerifyScan(p)
  <2>1. PICK tally : Continue(p, [job[p] EXCEPT !.pc = "verify_store", !.tally = tally])
    BY <1>4 DEF VerifyScan
  <2>2. StaleOK([job[p] EXCEPT !.pc = "verify_store", !.tally = tally], workloads)
    BY <1>1 DEF StaleOK, Job, ContainPcs
  <2> QED
    BY <1>4, <2>1, <2>2 DEF VerifyScan, GoesOn
<1>5. CASE VerifyStore(p)
  BY <1>5, IdleStale DEF VerifyStore, GoesOn, Finish, Continue
<1> QED
  BY <1>2, <1>3, <1>4, <1>5 DEF VerifyStep

\* A request arrives: only the engine keeps a copy of the row, and it is fresh.
LEMMA ArriveStale ==
    ASSUME IInv, "reset" \notin Ops, NEW p \in Procs, Arrive(p)
    PROVE  /\ UNCHANGED <<workloads, requests>>
           /\ job' = job \/ \E j : Continue(p, j) /\ StaleOK(j, workloads)
<1>1. CASE \E w \in Workloads, i \in Identities, form \in CreateForms : CreateStart(p, w, i, form)
           /\ UNCHANGED <<requests, results>>
  <2>1. PICK w \in Workloads, i \in Identities, form \in CreateForms : CreateStart(p, w, i, form)
    BY <1>1
  <2>2. PICK t, draft :
          Continue(p, [Begin("create", "create_check", w) EXCEPT !.at = t, !.row = draft])
    BY <2>1 DEF CreateStart
  <2>3. StaleOK([Begin("create", "create_check", w) EXCEPT !.at = t, !.row = draft], workloads)
    BY DEF StaleOK, Begin, Idle, ContainPcs
  <2> QED
    BY <1>1, <2>1, <2>2, <2>3 DEF CreateStart
<1>2. CASE \E w \in Workloads, i \in Identities : ConfirmStart(p, w, i)
           /\ UNCHANGED <<requests, results>>
  <2>1. PICK w \in Workloads, i \in Identities : ConfirmStart(p, w, i)
    BY <1>2
  <2> DEFINE begun == [Begin("confirm", "confirm_stamp", w) EXCEPT !.arg = i,
                                                                  !.row = workloads[w]]
             again == [begun EXCEPT !.pc = "verify_read"]
  <2>2. StaleOK(begun, workloads) /\ StaleOK(again, workloads)
    BY DEF StaleOK, Begin, Idle, ContainPcs
  <2>3. job' = job \/ Continue(p, begun) \/ Continue(p, again)
    BY <2>1 DEF ConfirmStart
  <2> QED
    BY <1>2, <2>1, <2>2, <2>3 DEF ConfirmStart
<1>3. CASE \E w \in Workloads, op \in {"quarantine", "revoke"} : ContainStart(p, op, w)
           /\ UNCHANGED <<requests, results>>
  <2>1. PICK w \in Workloads, op \in {"quarantine", "revoke"} : ContainStart(p, op, w)
    BY <1>3
  <2>2. StaleOK(Begin(op, "contain_read", w), workloads)
    BY DEF StaleOK, Begin, Idle, ContainPcs
  <2> QED
    BY <1>3, <2>1, <2>2 DEF ContainStart
<1>4. CASE ScanStart(p) /\ UNCHANGED <<requests, results>>
  <2>1. PICK t : Continue(p, [Begin("scan", "scan_list", None) EXCEPT !.at = t])
    BY <1>4 DEF ScanStart
  <2>2. StaleOK([Begin("scan", "scan_list", None) EXCEPT !.at = t], workloads)
    BY DEF StaleOK, Begin, Idle, ContainPcs
  <2> QED
    BY <1>4, <2>1, <2>2 DEF ScanStart
<1>5. CASE EngineRequest(p)
  <2>1. PICK w \in Workloads, d \in Destinations : CommStart(p, w, d) \/ TamperStart(p, w, d)
    BY <1>5 DEF EngineRequest
  <2> DEFINE comm   == [Begin("comm", "comm_stamp", w) EXCEPT !.dest = d, !.row = workloads[w]]
             tamper == [Begin("tamper", "tamper_stamp", w) EXCEPT
                           !.dest = d, !.row = workloads[w],
                           !.win = TRUE, !.reason = "TAMPERED_BYPASS"]
  <2>2. Present(w) => StaleOK(comm, workloads) /\ StaleOK(tamper, workloads)
    BY DEF StaleOK, Begin, Idle, ContainPcs, Left, Present
  <2>3. job' = job \/ (Present(w) /\ (Continue(p, comm) \/ Continue(p, tamper)))
    BY <2>1 DEF CommStart, TamperStart
  <2> QED
    BY <2>1, <2>2, <2>3 DEF CommStart, TamperStart
<1>6. CASE \E w \in Workloads : VerifyStart(p, w)
  <2>1. PICK w \in Workloads : VerifyStart(p, w)
    BY <1>6
  <2>2. StaleOK(Begin("verify", "verify_read", w), workloads)
    BY DEF StaleOK, Begin, Idle, ContainPcs
  <2> QED
    BY <2>1, <2>2 DEF VerifyStart
<1>7. ~Reset(p)
  BY DEF Reset, Accept
<1> QED
  BY <1>1, <1>2, <1>3, <1>4, <1>5, <1>6, <1>7 DEF Arrive, IdentityRequest

-----------------------------------------------------------------------------
(* The whole system *)

LEMMA ServeGrant == ASSUME IInv, GrantInv, NEW p \in Procs, Serve(p) PROVE GrantInv'
<1>1. CASE IdentityStep(p) /\ UNCHANGED <<requests, results>>
  <2>1. PICK j : Continue(p, j) /\ StaleOK(j, workloads')
    BY <1>1, IdentityStepStale
  <2>2. Forward
    BY <1>1, IdentityStepForward
  <2> QED
    BY <1>1, <2>1, <2>2, GoesOnOK DEF GoesOn
<1>2. CASE EngineStep(p)
  <2>1. CASE CommInsert(p) \/ TamperInsert(p)
    BY <2>1, InsertGrant
  <2>2. CASE CommStamp(p) \/ TamperStamp(p) \/ CommDecide(p) \/ CommCount(p)
    <3>1. Forward
      BY <2>2 DEF Forward, CommStamp, TamperStamp, CommDecide, CommCount
    <3>2. PICK j : GoesOn(p, j)
      BY <2>2, CommStepStale
    <3> QED
      BY <3>1, <3>2, GoesOnOK
  <2> QED
    BY <1>2, <2>1, <2>2 DEF EngineStep
<1>3. CASE VerifyStep(p)
  <2>1. Forward
    BY <1>3 DEF Forward, VerifyStep, VerifyRead, VerifyStamp, VerifyScan, VerifyStore
  <2>2. PICK j : GoesOn(p, j)
    BY <1>3, VerifyStepStale
  <2> QED
    BY <2>1, <2>2, GoesOnOK
<1> QED
  BY <1>1, <1>2, <1>3 DEF Serve

LEMMA ArriveGrant ==
    ASSUME IInv, GrantInv, "reset" \notin Ops, NEW p \in Procs, Arrive(p)
    PROVE  GrantInv'
<1>1. UNCHANGED <<workloads, requests>>
  BY ArriveStale
<1>2. CASE job' = job
  BY <1>1, <1>2 DEF GrantInv
<1>3. CASE \E j : Continue(p, j) /\ StaleOK(j, workloads)
  <2>1. PICK j : Continue(p, j) /\ StaleOK(j, workloads)
    BY <1>3
  <2>2. Forward
    BY <1>1 DEF Forward
  <2> QED
    BY <1>1, <2>1, <2>2, GoesOnOK DEF GoesOn
<1> QED
  BY <1>2, <1>3, ArriveStale

\* GrantInv is inductive on top of IInv as long as nobody resets the database.
THEOREM GrantsStaySettled == ASSUME "reset" \notin Ops PROVE Spec => [](IInv /\ GrantInv)
<1>1. Init => IInv /\ GrantInv
  BY InitOK, IdleStale DEF Init, IdentityInit, GrantInv
<1>2. IInv /\ GrantInv /\ [Next]_vars => GrantInv'
  <2> SUFFICES ASSUME IInv, GrantInv, [Next]_vars PROVE GrantInv'
    OBVIOUS
  <2>1. CASE UNCHANGED vars
    BY <2>1 DEF vars, GrantInv
  <2>2. CASE \E p \in Procs : Arrive(p) \/ Serve(p)
    BY <2>2, ArriveGrant, ServeGrant
  <2>3. CASE Restart
    BY <2>3, IdleStale DEF Restart, GrantInv
  <2> QED
    BY <2>1, <2>2, <2>3 DEF Next, Quiet
<1> QED
  BY <1>1, <1>2, InductiveInvariant, PTL DEF Spec

\* While nobody resets the database, a request allowed by policy belongs to a
\* workload that has left the ambiguity window for good (simulate_request of
\* communication_engine.py against every writer of identity_manager.py).
THEOREM FailsClosed == ASSUME "reset" \notin Ops PROVE Spec => []FailClosed
<1>1. GrantInv => FailClosed
  BY DEF GrantInv, FailClosed, Left
<1> QED
  BY <1>1, GrantsStaySettled, PTL
=============================================================================

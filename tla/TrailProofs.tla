----------------------------- MODULE TrailProofs -----------------------------
(***************************************************************************)
(* The trail and the records, for every number of threads, workloads and   *)
(* requests: which steps write the tables at all, that every write keeps   *)
(* the trail and the row together, that only an overlap undoes what was    *)
(* settled, and what stands behind each recorded decision.                 *)
(***************************************************************************)
EXTENDS SegLabelProofs

tables == <<workloads, events, requests, results>>

\* Handlers touch the tables in six places, and a reset empties them.
StepKinds ==
    \/ UNCHANGED tables
    \/ \E p \in Procs :
        \/ /\ CreateInsert(p) \/ ConfirmWrite(p) \/ ContainWrite(p)
           /\ UNCHANGED <<requests, results>>
        \/ (CommInsert(p) \/ TamperInsert(p)) /\ UNCHANGED results
        \/ VerifyStore(p)
        \/ Reset(p)

LEMMA OnlyWriters == ASSUME [Next]_vars PROVE StepKinds
<1> USE DEF StepKinds, tables
<1>1. CASE UNCHANGED vars \/ Restart
  BY <1>1 DEF vars, Restart
<1>2. ASSUME NEW p \in Procs, Arrive(p) PROVE StepKinds
  <2>1. CASE IdentityRequest(p) /\ UNCHANGED <<requests, results>>
    BY <2>1 DEF IdentityRequest, CreateStart, ConfirmStart, ContainStart, ScanStart
  <2>2. CASE EngineRequest(p) /\ UNCHANGED results
    BY <2>2 DEF EngineRequest, CommStart, TamperStart
  <2>3. CASE \E w \in Workloads : VerifyStart(p, w)
    BY <2>3 DEF VerifyStart
  <2> QED
    BY <1>2, <2>1, <2>2, <2>3 DEF Arrive
<1>3. ASSUME NEW p \in Procs, Serve(p) PROVE StepKinds
  <2>1. CASE IdentityStep(p) /\ UNCHANGED <<requests, results>>
    BY <2>1 DEF IdentityStep, CreateCheck, ConfirmStamp, ContainRead, ContainStamp,
                ScanList, ScanNext
  <2>2. CASE EngineStep(p) /\ UNCHANGED results
    BY <2>2 DEF EngineStep, CommStamp, CommDecide, CommCount, TamperStamp
  <2>3. CASE VerifyStep(p)
    BY <2>3 DEF VerifyStep, VerifyRead, VerifyStamp, VerifyScan
  <2> QED
    BY <1>3, <2>1, <2>2, <2>3 DEF Serve
<1> QED
  BY <1>1, <1>2, <1>3 DEF Next, Quiet

Attested(trail, t) == \E k \in DOMAIN trail : trail[k].new = "CONFIRMED" /\ trail[k].at = t

\* One transaction stores row for w with events that end in its status, and a
\* confirmation time the row did not have comes with the event that says so.
Appends(w, row, trail) ==
    /\ Write(w, row, trail)
    /\ trail \in Seq(Event) /\ trail # <<>> /\ trail[Len(trail)].new = row.status
    /\ row.status \in Statuses
    /\ row.confirmedAt \in {0, workloads[w].confirmedAt} \/ Attested(trail, row.confirmedAt)

\* The two events of a detected reuse end in the status of the row as one would.
LEMMA CreateInsertAppends ==
    ASSUME IInv, NEW p \in Procs, CreateInsert(p), ~Present(job[p].w)
    PROVE  \E trail : Appends(job[p].w, job[p].row, trail)
<1> DEFINE row   == job[p].row
           start == Started(row.status, job[p].at)
           found == [type |-> "AMBIGUITY_DETECTED", old |-> "STARTING",
                     new |-> "AMBIGUOUS", at |-> job[p].at]
           again == job[p].reused /\ row.status = "AMBIGUOUS"
<1>1. job[p] \in Job /\ LocalsOK(job[p]) /\ job[p].pc = "create_insert"
  BY DEF IInv, ThreadsOK, CreateInsert, At
<1>2. /\ row.status \in Statuses /\ job[p].at \in Nat \ {0}
      /\ row.confirmedAt = IF row.status = "CONFIRMED" THEN job[p].at ELSE 0
  BY <1>1 DEF LocalsOK, Job
<1>3. start \in Event /\ found \in Event
  BY <1>2 DEF Started, Event, EventTypes, Statuses, Pending
<1>4. start.new = row.status /\ start.at = job[p].at /\ found.new = "AMBIGUOUS"
  BY DEF Started
<1>5. Write(job[p].w, row, <<start>> \o (IF again THEN <<found>> ELSE <<>>))
  BY DEF CreateInsert
<1> HIDE DEF row, start, found
<1>6. CASE again
  <2> DEFINE trail == <<start>> \o <<found>>
  <2>1. Write(job[p].w, row, trail)
    BY <1>5, <1>6
  <2>2. <<start>> \in Seq(Event) /\ <<found>> \in Seq(Event)
    BY <1>3
  <2>3. Len(<<start>>) = 1 /\ Len(<<found>>) = 1 /\ <<found>>[1] = found
    OBVIOUS
  <2>4. trail \in Seq(Event) /\ Len(trail) = 2 /\ trail[2] = found
    BY <2>2, <2>3, ConcatProperties
  <2>5. row.status = "AMBIGUOUS" /\ row.confirmedAt = 0
    BY <1>2, <1>6
  <2> HIDE DEF trail
  <2>6. trail # <<>> /\ trail[Len(trail)].new = row.status
    BY <1>4, <2>4, <2>5
  <2> QED
    BY <1>2, <2>1, <2>4, <2>5, <2>6 DEF Appends, row
<1>7. CASE ~again
  <2> DEFINE trail == <<start>>
  <2>1. <<start>> \o <<>> = <<start>>
    BY <1>3, ConcatSimplifications
  <2>2. Write(job[p].w, row, trail)
    BY <1>5, <1>7, <2>1
  <2>3. trail \in Seq(Event) /\ Len(trail) = 1 /\ trail[1] = start
    BY <1>3
  <2> HIDE DEF trail
  <2>4. trail # <<>> /\ trail[Len(trail)].new = row.status /\ 1 \in DOMAIN trail
    BY <1>4, <2>3
  <2>5. row.confirmedAt = 0 \/ Attested(trail, row.confirmedAt)
    BY <1>2, <1>4, <2>3, <2>4 DEF Attested
  <2> QED
    BY <1>2, <2>2, <2>3, <2>4, <2>5 DEF Appends, row
<1> QED
  BY <1>6, <1>7 DEF row

\* A confirmation and a containment append one event each.
LEMMA OneEventAppends ==
    ASSUME IInv, NEW w \in Workloads, NEW row, NEW e \in Event, Write(w, row, <<e>>),
           e.new = row.status, row.status \in Statuses,
           \/ row.confirmedAt \in {0, workloads[w].confirmedAt}
           \/ e.new = "CONFIRMED" /\ e.at = row.confirmedAt
    PROVE  Appends(w, row, <<e>>)
<1> DEFINE trail == <<e>>
<1>1. trail \in Seq(Event) /\ Len(trail) = 1 /\ trail[1] = e
  OBVIOUS
<1> HIDE DEF trail
<1>2. trail # <<>> /\ 1 \in DOMAIN trail /\ trail[Len(trail)].new = row.status
  <2>1. trail # <<>> /\ 1 \in DOMAIN trail
    BY <1>1, LenProperties
  <2>2. trail[Len(trail)].new = row.status
    BY <1>1
  <2> QED
    BY <2>1, <2>2
<1>3. row.confirmedAt \in {0, workloads[w].confirmedAt} \/ Attested(trail, row.confirmedAt)
  BY <1>1, <1>2 DEF Attested
<1> QED
  BY <1>1, <1>2, <1>3 DEF Appends, trail

LEMMA ConfirmWriteAppends ==
    ASSUME IInv, NEW p \in Procs, ConfirmWrite(p), Present(job[p].w)
    PROVE  \E row, trail : Appends(job[p].w, row, trail)
<1> DEFINE w     == job[p].w
           row   == [workloads[w] EXCEPT !.confirmed = job[p].arg, !.current = job[p].arg,
                                         !.status = "CONFIRMED", !.confirmedAt = job[p].at]
           event == [type |-> "IDENTITY_CONFIRMED", old |-> job[p].row.status,
                     new |-> "CONFIRMED", at |-> job[p].at]
<1>1. job[p] \in Job /\ LocalsOK(job[p]) /\ job[p].pc = "confirm_write"
  BY DEF IInv, ThreadsOK, ConfirmWrite, At
<1>2. /\ w \in Workloads /\ job[p].at \in Nat /\ job[p].row.status \in Statuses
      /\ workloads[w] \in Row
  BY <1>1 DEF LocalsOK, Job, Statuses, IInv, TablesOK
<1>3. row.status = "CONFIRMED" /\ row.confirmedAt = job[p].at /\ "CONFIRMED" \in Statuses
  BY <1>2 DEF Row, Statuses
<1>4. event \in Event /\ event.new = "CONFIRMED" /\ event.at = job[p].at
  BY <1>2 DEF Event, EventTypes, Statuses
<1>5. Write(w, row, <<event>>)
  BY DEF ConfirmWrite
<1> HIDE DEF w, row, event
<1>6. Appends(w, row, <<event>>)
  BY <1>2, <1>3, <1>4, <1>5, OneEventAppends
<1> QED
  BY <1>6 DEF w

\* Only the administrative route revokes; every other containment quarantines.
LEMMA ContainWriteAppends ==
    ASSUME IInv, NEW p \in Procs, ContainWrite(p), Present(job[p].w)
    PROVE  \E row, trail :
              /\ Appends(job[p].w, row, trail)
              /\ row.status = IF job[p].op = "revoke" THEN "REVOKED" ELSE "QUARANTINED"
<1> DEFINE w      == job[p].w
           status == IF job[p].op = "revoke" THEN "REVOKED" ELSE "QUARANTINED"
           type   == IF job[p].op = "revoke" THEN "WORKLOAD_REVOKED"
                                             ELSE "WORKLOAD_QUARANTINED"
           row    == [workloads[w] EXCEPT !.status = status]
           event  == [type |-> type, old |-> job[p].old, new |-> status, at |-> job[p].evAt]
<1>1. job[p] \in Job /\ LocalsOK(job[p]) /\ job[p].pc = "contain_write"
  BY DEF IInv, ThreadsOK, ContainWrite, At
<1>2. /\ w \in Workloads /\ job[p].evAt \in Nat /\ job[p].old \in Statuses
      /\ workloads[w] \in Row /\ status \in Statuses
  BY <1>1 DEF LocalsOK, Job, Statuses, Contained, IInv, TablesOK
<1>3. row.status = status /\ row.confirmedAt = workloads[w].confirmedAt
  BY <1>2 DEF Row
<1>4. event \in Event /\ event.new = status
  BY <1>2 DEF Event, EventTypes
<1>5. Write(w, row, <<event>>)
  BY DEF ContainWrite
<1> HIDE DEF w, row, event, status
<1>6. Appends(w, row, <<event>>)
  BY <1>2, <1>3, <1>4, <1>5, OneEventAppends
<1> QED
  BY <1>3, <1>6 DEF w, status

\* What a writer's step does to the trails: nothing, or one well-formed write.
LEMMA WriterAppends ==
    ASSUME IInv, NEW p \in Procs, CreateInsert(p) \/ ConfirmWrite(p) \/ ContainWrite(p)
    PROVE  /\ job[p].w \in Workloads
           /\ \/ UNCHANGED <<workloads, events>>
              \/ \E row, trail : Appends(job[p].w, row, trail)
<1>1. job[p].w \in Workloads
  BY DEF IInv, ThreadsOK, LocalsOK, CreateInsert, ConfirmWrite, ContainWrite, At
<1>2. CASE Present(job[p].w)
  BY <1>1, <1>2, ConfirmWriteAppends, ContainWriteAppends DEF CreateInsert
<1>3. CASE ~Present(job[p].w)
  BY <1>1, <1>3, CreateInsertAppends DEF ConfirmWrite, ContainWrite
<1> QED
  BY <1>1, <1>2, <1>3

-----------------------------------------------------------------------------
(* The trail and the row *)

LEMMA AppendsMatch ==
    ASSUME IInv, TrailMatchesRow, NEW w \in Workloads, NEW row, NEW trail,
           Appends(w, row, trail), UNCHANGED <<requests, results>>
    PROVE  TrailMatchesRow'
<1>1. /\ workloads' = [workloads EXCEPT ![w] = row]
      /\ events' = [events EXCEPT ![w] = events[w] \o trail]
  BY DEF Appends, Write
<1>2. /\ workloads \in [Workloads -> Row] /\ events \in [Workloads -> Seq(Event)]
      /\ trail \in Seq(Event) /\ trail # <<>> /\ trail[Len(trail)].new = row.status
      /\ row.status # "ABSENT"
  BY DEF IInv, TablesOK, Appends, Statuses, Pending, Contained
<1>3. Len(trail) \in Nat \ {0}
  BY <1>2, EmptySeq, LenProperties
<1>4. events'[w] = events[w] \o trail /\ workloads'[w] = row
  BY <1>1, <1>2
<1>5. /\ events'[w] \in Seq(Event) /\ Len(events'[w]) = Len(events[w]) + Len(trail)
      /\ events'[w][Len(events'[w])] = trail[Len(trail)]
  <2>1. Len(events[w]) \in Nat /\ events[w] \in Seq(Event)
    BY <1>2
  <2> QED
    BY <1>2, <1>3, <1>4, <2>1, ConcatProperties
<1>6. events'[w] # <<>>
  <2>1. Len(events[w]) \in Nat
    BY <1>2
  <2> QED
    BY <1>3, <1>5, <2>1
<1>7. Present(w)' /\ events'[w] # <<>> /\ events'[w][Len(events'[w])].new = workloads'[w].status
  BY <1>2, <1>4, <1>5, <1>6 DEF Present
<1>8. \A v \in Workloads : v # w => workloads'[v] = workloads[v] /\ events'[v] = events[v]
  BY <1>1, <1>2
<1> QED
  BY <1>7, <1>8 DEF TrailMatchesRow, Present

\* A record is inserted only next to the row it refers to.
LEMMA RecordsMatch ==
    ASSUME TrailMatchesRow, UNCHANGED <<workloads, events>>,
           \A r \in requests' : r \in requests \/ Present(r.w),
           \A v \in results' : v \in results \/ Present(v.w)
    PROVE  TrailMatchesRow'
  BY DEF TrailMatchesRow, Present

LEMMA InitMatches == Init => TrailMatchesRow
<1> SUFFICES ASSUME Init, NEW w \in Workloads
             PROVE  IF Present(w)
                      THEN events[w] # <<>> /\ events[w][Len(events[w])].new = workloads[w].status
                      ELSE events[w] = <<>>
  BY DEF TrailMatchesRow, Init
<1>1. /\ workloads \in [Workloads -> {NoRow} \cup {StartingRow(i, 1) : i \in Identities}]
      /\ workloads[w] # NoRow <=> w \in Registered
      /\ events[w] = IF w \in Registered THEN <<Started("STARTING", 1)>> ELSE <<>>
  BY DEF Init, IdentityInit
<1>2. CASE w \in Registered
  <2>1. workloads[w].status = "STARTING"
    BY <1>1, <1>2 DEF StartingRow
  <2> DEFINE e == Started("STARTING", 1)
  <2>2. events[w] = <<e>> /\ e.new = "STARTING"
    BY <1>1, <1>2 DEF Started
  <2> HIDE DEF e
  <2> QED
    BY <2>1, <2>2 DEF Present
<1>3. CASE w \notin Registered
  BY <1>1, <1>3 DEF Present, NoRow
<1> QED
  BY <1>2, <1>3

LEMMA StepMatches == ASSUME IInv, TrailMatchesRow, [Next]_vars PROVE TrailMatchesRow'
<1>1. CASE UNCHANGED tables
  BY <1>1 DEF tables, TrailMatchesRow, Present
<1>2. ASSUME NEW p \in Procs, CreateInsert(p) \/ ConfirmWrite(p) \/ ContainWrite(p),
             UNCHANGED <<requests, results>>
      PROVE  TrailMatchesRow'
  <2>1. CASE UNCHANGED <<workloads, events>>
    BY <1>2, <2>1 DEF TrailMatchesRow, Present
  <2>2. CASE \E row, trail : Appends(job[p].w, row, trail)
    BY <1>2, <2>2, WriterAppends, AppendsMatch
  <2> QED
    BY <1>2, <2>1, <2>2, WriterAppends
<1>3. ASSUME NEW p \in Procs, CommInsert(p) \/ TamperInsert(p), UNCHANGED results
      PROVE  TrailMatchesRow'
  BY <1>3, RecordsMatch DEF CommInsert, TamperInsert, Record, Attempt
<1>4. ASSUME NEW p \in Procs, VerifyStore(p) PROVE TrailMatchesRow'
  BY <1>4, RecordsMatch DEF VerifyStore
<1>5. ASSUME NEW p \in Procs, Reset(p) PROVE TrailMatchesRow'
  BY <1>5 DEF Reset, TrailMatchesRow, Present, NoRow
<1> QED
  BY <1>1, <1>2, <1>3, <1>4, <1>5, OnlyWriters DEF StepKinds

\* Whatever the threads do, a reset and a restart included, a stored row and the
\* last event of its trail agree, and nothing refers to a workload without a
\* row (every transaction of identity_manager.py and the two recorders).
THEOREM TrailsMatchRows == Spec => []TrailMatchesRow
<1>1. IInv /\ TrailMatchesRow /\ [Next]_vars => TrailMatchesRow'
  BY StepMatches
<1> QED
  BY <1>1, InitMatches, InductiveInvariant, PTL DEF Spec

-----------------------------------------------------------------------------
(* Who can undo what was settled *)

LEMMA StepOverlaps ==
    ASSUME IInv, [Next]_vars, NEW w \in Workloads, Undoes(w)
    PROVE  \E p \in Procs :
              /\ ConfirmWrite(p) \/ ContainWrite(p)
              /\ job[p].w = w /\ job'[p] # job[p]
              /\ Overtaken(p, w) \/ ClockBack(p)
<1>1. workloads'[w] # workloads[w]
  BY DEF Undoes, Contained
<1>2. ASSUME NEW p \in Procs, Reset(p) PROVE FALSE
  BY <1>2 DEF Reset, Undoes, NoRow, Contained
<1>3. PICK p \in Procs : CreateInsert(p) \/ ConfirmWrite(p) \/ ContainWrite(p)
  BY <1>1, <1>2, OnlyWriters
     DEF StepKinds, tables, CommInsert, TamperInsert, VerifyStore
<1>4. PICK row, trail : Appends(job[p].w, row, trail)
  BY <1>1, <1>3, WriterAppends
<1>5. job[p].w = w
  BY <1>1, <1>4 DEF Appends, Write, IInv, TablesOK
<1>6. Present(w)
  BY DEF Undoes, Present, Contained
<1>7. /\ job \in [Procs -> Job] /\ LocalsOK(job[p])
      /\ job[p].pc \in {"create_insert", "confirm_write", "contain_write"}
  BY <1>3 DEF IInv, ThreadsOK, CreateInsert, ConfirmWrite, ContainWrite, At
<1>8. ~CreateInsert(p)
  BY <1>1, <1>5, <1>6 DEF CreateInsert
<1>9. workloads[w].status \notin Pending
  BY DEF Undoes, Pending, Contained
<1>10. CASE ConfirmWrite(p)
  <2>1. job[p].op = "confirm" /\ job[p].row.status \in Pending
    BY <1>7, <1>10 DEF LocalsOK, ConfirmWrite, At
  <2>2. job'[p].pc = "verify_read"
    BY <1>5, <1>6, <1>7, <1>10 DEF ConfirmWrite, Continue, Job
  <2> QED
    BY <1>5, <1>9, <1>10, <2>1, <2>2 DEF ConfirmWrite, At, Overtaken
<1>11. CASE ContainWrite(p)
  <2>1. /\ job[p].pc = "contain_write" /\ job[p].op \in {"quarantine", "revoke", "scan", "comm"}
        /\ job[p].op = "comm" =>
              job[p].row.confirmedAt = 0 \/ job[p].at < job[p].row.confirmedAt
        /\ job[p].op = "scan" => job[p].fleet[job[p].w].status \in Pending
    BY <1>7, <1>11 DEF LocalsOK, ContainWrite, At, ContainPcs
  <2>2. job'[p].pc # "contain_write"
    <3>1. AfterContain(p, TRUE)
      BY <1>5, <1>6, <1>11 DEF ContainWrite
    <3> DEFINE next   == [job[p] EXCEPT !.pc = "scan_next", !.w = None,
                                        !.old = None, !.evAt = 0]
               insert == [job[p] EXCEPT !.pc = "comm_insert", !.old = None, !.evAt = 0]
    <3>2. next.pc = "scan_next" /\ insert.pc = "comm_insert" /\ Idle.pc = "idle"
      BY <1>7 DEF Job, Idle
    <3>3. Continue(p, next) \/ Continue(p, insert) \/ Continue(p, Idle)
      BY <3>1 DEF AfterContain, Finish, Continue
    <3> HIDE DEF next, insert
    <3> QED
      BY <1>7, <3>2, <3>3 DEF Continue
  <2>3. workloads'[w].status = IF job[p].op = "revoke" THEN "REVOKED" ELSE "QUARANTINED"
    <3>1. PICK new, more :
            /\ Appends(w, new, more)
            /\ new.status = IF job[p].op = "revoke" THEN "REVOKED" ELSE "QUARANTINED"
      BY <1>5, <1>6, <1>11, ContainWriteAppends
    <3> QED
      BY <3>1 DEF Appends, Write, IInv, TablesOK
  <2>4. job[p].op \notin {"quarantine", "revoke"}
    BY <2>1, <2>2, <2>3 DEF Undoes, Contained
  <2>5. workloads[w].confirmedAt # 0 \/ job[p].op # "comm"
    BY <2>3 DEF Undoes, Contained, IInv, TablesOK, RowsOK, RowConsistent, Consistent
  <2> QED
    BY <1>5, <1>9, <1>11, <2>1, <2>2, <2>4, <2>5 DEF Overtaken, ClockBack
<1> QED
  BY <1>3, <1>8, <1>10, <1>11

\* However many requests overlap, a confirmed owner is replaced, a containment
\* lifted or a confirmed workload quarantined without an operator only by a
\* handler that another one overtook between its read and this write, or by a
\* probe stamped before the confirmation it has read because the clock went
\* back (the writes of identity_manager.py that do not read again).
THEOREM UndoneOnlyByOverlaps == Spec => OnlyOverlapsUndo
<1>1. IInv /\ [Next]_vars =>
        [\A w \in Workloads :
            Undoes(w) => \E p \in Procs :
                /\ job[p].w = w /\ job'[p] # job[p]
                /\ Overtaken(p, w) \/ ClockBack(p)]_vars
  BY StepOverlaps
<1> QED
  BY <1>1, InductiveInvariant, PTL DEF Spec, OnlyOverlapsUndo

-----------------------------------------------------------------------------
(* Which steps bring a thread to a registration or to the engine's decision *)

EnginePcs == {"comm_stamp", "comm_decide", "comm_insert"}

CreatePcs == {"create_check", "create_insert"}

\* Thread p goes on with a registration, or elsewhere.
Registers(p) == \E j : Continue(p, j) /\ j.pc \in CreatePcs
Elsewhere(p) == \E j : Continue(p, j) /\ j.pc \notin EnginePcs \cup CreatePcs

\* A step of one thread leaves the locals of the others alone.
LEMMA OneThread ==
    ASSUME IInv, NEW p \in Procs, Arrive(p) \/ Serve(p), NEW q \in Procs, q # p
    PROVE  job'[q] = job[q]
<1>1. job \in [Procs -> Job]
  BY DEF IInv, ThreadsOK
<1>2. ASSUME NEW j, job' = [job EXCEPT ![p] = j] PROVE job'[q] = job[q]
  BY <1>1, <1>2
<1>3. ASSUME NEW succeeded, AfterContain(p, succeeded) PROVE job'[q] = job[q]
  BY <1>2, <1>3 DEF AfterContain, Continue, Finish
<1>4. CASE Arrive(p)
  BY <1>2, <1>4
     DEF Arrive, IdentityRequest, CreateStart, ConfirmStart, ContainStart, ScanStart,
         EngineRequest, CommStart, TamperStart, VerifyStart, Reset, Continue
<1>5. CASE IdentityStep(p)
  BY <1>2, <1>3, <1>5
     DEF IdentityStep, CreateCheck, CreateInsert, ConfirmStamp, ConfirmWrite, ContainRead,
         ContainStamp, ContainWrite, ScanList, ScanNext, Continue, Finish
<1>6. CASE EngineStep(p) \/ VerifyStep(p)
  BY <1>2, <1>6
     DEF EngineStep, CommStamp, CommDecide, CommCount, CommInsert, TamperStamp, TamperInsert,
         VerifyStep, VerifyRead, VerifyStamp, VerifyScan, VerifyStore, Continue, Finish
<1> QED
  BY <1>4, <1>5, <1>6 DEF Serve

LEMMA FinishElsewhere == ASSUME NEW p \in Procs, Finish(p) PROVE Elsewhere(p)
<1>1. Continue(p, Idle) /\ Idle.pc = "idle"
  BY DEF Finish, Continue, Idle
<1> QED
  BY <1>1 DEF Elsewhere, EnginePcs, CreatePcs

LEMMA ArriveElsewhere ==
    ASSUME NEW p \in Procs, Arrive(p)
    PROVE  \/ job' = job \/ Elsewhere(p)
           \/ /\ Registers(p)
              /\ \E w \in Workloads, i \in Identities, form \in CreateForms :
                    CreateStart(p, w, i, form)
           \/ \E w \in Workloads, d \in Destinations : CommStart(p, w, d)
<1> USE DEF EnginePcs, CreatePcs, Elsewhere
<1>1. ASSUME NEW w \in Workloads, NEW i \in Identities, NEW form \in CreateForms,
             CreateStart(p, w, i, form)
      PROVE  Registers(p)
  <2>1. PICK t, draft :
          Continue(p, [Begin("create", "create_check", w) EXCEPT !.at = t, !.row = draft])
    BY <1>1 DEF CreateStart
  <2>2. [Begin("create", "create_check", w) EXCEPT !.at = t, !.row = draft].pc = "create_check"
    BY DEF Begin, Idle
  <2> QED
    BY <2>1, <2>2 DEF Registers
<1>2. ASSUME NEW w \in Workloads, NEW i \in Identities, ConfirmStart(p, w, i)
      PROVE  job' = job \/ Elsewhere(p)
  <2> DEFINE begun == [Begin("confirm", "confirm_stamp", w) EXCEPT !.arg = i,
                                                                  !.row = workloads[w]]
             again == [begun EXCEPT !.pc = "verify_read"]
  <2>1. begun.pc = "confirm_stamp" /\ again.pc = "verify_read"
    BY DEF Begin, Idle
  <2>2. job' = job \/ Continue(p, begun) \/ Continue(p, again)
    BY <1>2 DEF ConfirmStart
  <2> HIDE DEF begun, again
  <2> QED
    BY <2>1, <2>2
<1>3. ASSUME NEW w \in Workloads, NEW op, ContainStart(p, op, w) PROVE Elsewhere(p)
  <2>1. Continue(p, Begin(op, "contain_read", w)) /\ Begin(op, "contain_read", w).pc = "contain_read"
    BY <1>3 DEF ContainStart, Begin, Idle
  <2> QED
    BY <2>1
<1>4. ASSUME ScanStart(p) PROVE Elsewhere(p)
  <2>1. PICK t : Continue(p, [Begin("scan", "scan_list", None) EXCEPT !.at = t])
    BY <1>4 DEF ScanStart
  <2>2. [Begin("scan", "scan_list", None) EXCEPT !.at = t].pc = "scan_list"
    BY DEF Begin, Idle
  <2> QED
    BY <2>1, <2>2
<1>5. ASSUME NEW w \in Workloads, NEW d \in Destinations, TamperStart(p, w, d)
      PROVE  job' = job \/ Elsewhere(p)
  <2> DEFINE j == [Begin("tamper", "tamper_stamp", w) EXCEPT
                      !.dest = d, !.row = workloads[w],
                      !.win = TRUE, !.reason = "TAMPERED_BYPASS"]
  <2>1. j.pc = "tamper_stamp"
    BY DEF Begin, Idle
  <2>2. job' = job \/ Continue(p, j)
    BY <1>5 DEF TamperStart
  <2> HIDE DEF j
  <2> QED
    BY <2>1, <2>2
<1>6. ASSUME NEW w \in Workloads, VerifyStart(p, w) PROVE Elsewhere(p)
  <2>1. Continue(p, Begin("verify", "verify_read", w))
    BY <1>6 DEF VerifyStart
  <2>2. Begin("verify", "verify_read", w).pc = "verify_read"
    BY DEF Begin, Idle
  <2> QED
    BY <2>1, <2>2
<1>7. ASSUME Reset(p) PROVE job' = job
  BY <1>7 DEF Reset
<1> QED
  BY <1>1, <1>2, <1>3, <1>4, <1>5, <1>6, <1>7 DEF Arrive, IdentityRequest, EngineRequest


LEMMA ServeElsewhere ==
    ASSUME IInv, NEW p \in Procs, Serve(p)
    PROVE  \/ Elsewhere(p)
           \/ Registers(p) /\ CreateCheck(p)
           \/ CommStamp(p) \/ CommDecide(p) \/ CommCount(p)
           \/ ContainWrite(p) /\ job[p].op = "comm" /\ Present(job[p].w)
<1> USE DEF EnginePcs, CreatePcs
<1>1. job[p] \in Job
  BY DEF IInv, ThreadsOK
<1>2. ASSUME NEW j, Continue(p, j), j.pc \notin EnginePcs \cup CreatePcs PROVE Elsewhere(p)
  BY <1>2 DEF Elsewhere
<1>3. ASSUME Finish(p) PROVE Elsewhere(p)
  BY <1>3, FinishElsewhere
<1>4. ASSUME NEW succeeded, AfterContain(p, succeeded), ~(succeeded /\ job[p].op = "comm")
      PROVE  Elsewhere(p)
  <2> DEFINE next == [job[p] EXCEPT !.pc = "scan_next", !.w = None, !.old = None, !.evAt = 0]
  <2>1. next.pc = "scan_next"
    BY <1>1 DEF Job
  <2>2. Continue(p, next) \/ Finish(p)
    BY <1>4 DEF AfterContain
  <2> HIDE DEF next
  <2> QED
    BY <1>2, <1>3, <2>1, <2>2
<1>5. CASE CreateCheck(p)
  <2>1. PICK b, row : Continue(p, [job[p] EXCEPT !.pc = "create_insert", !.reused = b,
                                                 !.row = row])
    BY <1>5 DEF CreateCheck
  <2>2. [job[p] EXCEPT !.pc = "create_insert", !.reused = b, !.row = row].pc = "create_insert"
    BY <1>1 DEF Job
  <2> QED
    BY <1>5, <2>1, <2>2 DEF Registers
<1>6. CASE ConfirmStamp(p) \/ VerifyStamp(p) \/ TamperStamp(p)
  <2>1. ASSUME NEW t, NEW pc \in {"confirm_write", "verify_scan", "tamper_insert"},
               Continue(p, [job[p] EXCEPT !.pc = pc, !.at = t])
        PROVE  Elsewhere(p)
    <3>1. [job[p] EXCEPT !.pc = pc, !.at = t].pc = pc
      BY <1>1 DEF Job
    <3> QED
      BY <1>2, <2>1, <3>1
  <2> QED
    BY <1>6, <2>1 DEF ConfirmStamp, VerifyStamp, TamperStamp
<1>7. CASE ConfirmWrite(p)
  <2>1. [job[p] EXCEPT !.pc = "verify_read"].pc = "verify_read"
    BY <1>1 DEF Job
  <2> QED
    BY <1>2, <1>3, <1>7, <2>1 DEF ConfirmWrite
<1>8. CASE ContainRead(p)
  <2> DEFINE j == [job[p] EXCEPT !.pc = "contain_stamp", !.old = workloads[job[p].w].status]
  <2>1. j.pc = "contain_stamp"
    BY <1>1 DEF Job
  <2>2. Continue(p, j) \/ AfterContain(p, FALSE)
    BY <1>8 DEF ContainRead
  <2> HIDE DEF j
  <2> QED
    BY <1>2, <1>4, <2>1, <2>2
<1>9. CASE ContainStamp(p)
  <2>1. PICK t : Continue(p, [job[p] EXCEPT !.pc = "contain_write", !.evAt = t])
    BY <1>9 DEF ContainStamp
  <2>2. [job[p] EXCEPT !.pc = "contain_write", !.evAt = t].pc = "contain_write"
    BY <1>1 DEF Job
  <2> QED
    BY <1>2, <2>1, <2>2
<1>10. CASE ContainWrite(p)
  BY <1>4, <1>10 DEF ContainWrite
<1>11. CASE ScanList(p)
  <2>1. PICK S : Continue(p, [job[p] EXCEPT !.pc = "scan_next", !.fleet = workloads,
                                            !.todo = S])
    BY <1>11 DEF ScanList
  <2>2. [job[p] EXCEPT !.pc = "scan_next", !.fleet = workloads, !.todo = S].pc = "scan_next"
    BY <1>1 DEF Job
  <2> QED
    BY <1>2, <2>1, <2>2
<1>12. CASE ScanNext(p)
  <2>1. ASSUME NEW w, Continue(p, [job[p] EXCEPT !.pc = "contain_read", !.w = w,
                                                 !.todo = @ \ {w}])
        PROVE  Elsewhere(p)
    <3>1. [job[p] EXCEPT !.pc = "contain_read", !.w = w, !.todo = @ \ {w}].pc = "contain_read"
      BY <1>1 DEF Job
    <3> QED
      BY <1>2, <2>1, <3>1
  <2> QED
    BY <1>3, <1>12, <2>1 DEF ScanNext
<1>13. CASE VerifyRead(p)
  <2>1. [job[p] EXCEPT !.pc = "verify_stamp", !.row = workloads[job[p].w]].pc = "verify_stamp"
    BY <1>1 DEF Job
  <2> QED
    BY <1>2, <1>3, <1>13, <2>1 DEF VerifyRead
<1>14. CASE VerifyScan(p)
  <2>1. PICK tally : Continue(p, [job[p] EXCEPT !.pc = "verify_store", !.tally = tally])
    BY <1>14 DEF VerifyScan
  <2>2. [job[p] EXCEPT !.pc = "verify_store", !.tally = tally].pc = "verify_store"
    BY <1>1 DEF Job
  <2> QED
    BY <1>2, <2>1, <2>2
<1>15. CASE CreateInsert(p) \/ CommInsert(p) \/ TamperInsert(p) \/ VerifyStore(p)
  BY <1>3, <1>15 DEF CreateInsert, CommInsert, TamperInsert, VerifyStore
<1> QED
  BY <1>5, <1>6, <1>7, <1>8, <1>9, <1>10, <1>11, <1>12, <1>13, <1>14, <1>15
     DEF Serve, IdentityStep, EngineStep, VerifyStep

-----------------------------------------------------------------------------
(* What stands behind a decision, while nobody resets the database *)

Named(trail) == \E k \in DOMAIN trail : trail[k].new = "QUARANTINED"

\* The trail of its workload backs the row, and the decision, in locals j.
BackedBy(j, trail) ==
    /\ j.pc \in {"comm_stamp", "comm_decide"} /\ j.row.confirmedAt # 0 =>
          Attested(trail, j.row.confirmedAt)
    /\ j.pc = "comm_insert" /\ j.reason = "POLICY_ALLOW" => Attested(trail, j.row.confirmedAt)
    /\ j.pc = "comm_insert" /\ j.reason = "HOSTILE_RECONNAISSANCE_QUARANTINED" => Named(trail)

RowsAttested ==
    \A w \in Workloads :
        workloads[w].confirmedAt # 0 => Attested(events[w], workloads[w].confirmedAt)

BackedInv ==
    /\ RowsAttested
    /\ \A p \in Procs : BackedBy(job[p], events[job[p].w])
    /\ DecisionsBacked

\* Nothing is ever taken out of a trail.
Grows ==
    \A w \in Workloads :
        /\ \A t : Attested(events[w], t) => Attested(events'[w], t)
        /\ Named(events[w]) => Named(events'[w])

LEMMA ConcatKeeps ==
    ASSUME NEW old \in Seq(Event), NEW new \in Seq(Event)
    PROVE  /\ \A k \in DOMAIN old : k \in DOMAIN (old \o new) /\ (old \o new)[k] = old[k]
           /\ \A k \in DOMAIN new : /\ Len(old) + k \in DOMAIN (old \o new)
                                  /\ (old \o new)[Len(old) + k] = new[k]
<1>1. /\ old \o new \in Seq(Event) /\ Len(old \o new) = Len(old) + Len(new)
      /\ \A i \in 1..(Len(old) + Len(new)) :
            (old \o new)[i] = IF i <= Len(old) THEN old[i] ELSE new[i - Len(old)]
  BY ConcatProperties
<1>2. /\ DOMAIN old = 1..Len(old) /\ DOMAIN new = 1..Len(new)
      /\ DOMAIN (old \o new) = 1..(Len(old) + Len(new))
      /\ Len(old) \in Nat /\ Len(new) \in Nat
  BY <1>1, LenProperties
<1> QED
  BY <1>1, <1>2

LEMMA AppendsGrow ==
    ASSUME IInv, RowsAttested, NEW w \in Workloads, NEW row, NEW trail, Appends(w, row, trail)
    PROVE  /\ Grows /\ RowsAttested'
           /\ row.status = "QUARANTINED" => Named(events'[w])
<1>1. /\ workloads \in [Workloads -> Row] /\ events \in [Workloads -> Seq(Event)]
      /\ trail \in Seq(Event)
      /\ workloads' = [workloads EXCEPT ![w] = row]
      /\ events' = [events EXCEPT ![w] = events[w] \o trail]
  BY DEF IInv, TablesOK, Appends, Write
<1>2. /\ events[w] \in Seq(Event) /\ events'[w] = events[w] \o trail /\ workloads'[w] = row
      /\ \A v \in Workloads : v # w => workloads'[v] = workloads[v] /\ events'[v] = events[v]
  BY <1>1
<1>3. /\ \A k \in DOMAIN events[w] : k \in DOMAIN events'[w] /\ events'[w][k] = events[w][k]
      /\ \A k \in DOMAIN trail : /\ Len(events[w]) + k \in DOMAIN events'[w]
                               /\ events'[w][Len(events[w]) + k] = trail[k]
  BY <1>1, <1>2, ConcatKeeps
<1>4. Grows
  <2>1. \A t : Attested(events[w], t) => Attested(events'[w], t)
    BY <1>3 DEF Attested
  <2>2. Named(events[w]) => Named(events'[w])
    BY <1>3 DEF Named
  <2> QED
    BY <1>2, <2>1, <2>2 DEF Grows
<1>5. \A t : Attested(trail, t) => Attested(events'[w], t)
  BY <1>3 DEF Attested
<1>6. RowsAttested'
  <2>1. row.confirmedAt \in {0, workloads[w].confirmedAt} \/ Attested(trail, row.confirmedAt)
    BY DEF Appends
  <2>2. row.confirmedAt # 0 => Attested(events'[w], row.confirmedAt)
    BY <1>4, <1>5, <2>1 DEF Grows, RowsAttested
  <2> QED
    BY <1>2, <2>2 DEF RowsAttested
<1>7. row.status = "QUARANTINED" => Named(events'[w])
  <2>1. Len(trail) \in DOMAIN trail /\ trail[Len(trail)].new = row.status
    BY <1>1, EmptySeq, LenProperties DEF Appends
  <2> QED
    BY <1>3, <2>1 DEF Named
<1> QED
  BY <1>4, <1>6, <1>7

LEMMA StepGrows ==
    ASSUME IInv, RowsAttested, "reset" \notin Ops, [Next]_vars
    PROVE  Grows /\ RowsAttested'
<1>1. CASE UNCHANGED <<workloads, events>>
  BY <1>1 DEF Grows, RowsAttested
<1>2. ASSUME NEW p \in Procs, CreateInsert(p) \/ ConfirmWrite(p) \/ ContainWrite(p)
      PROVE  Grows /\ RowsAttested'
  BY <1>1, <1>2, WriterAppends, AppendsGrow
<1>3. ASSUME NEW p \in Procs, Reset(p) PROVE FALSE
  BY <1>3 DEF Reset, Accept
<1> QED
  BY <1>1, <1>2, <1>3, OnlyWriters
     DEF StepKinds, tables, CommInsert, TamperInsert, VerifyStore

LEMMA BackedGrows ==
    ASSUME Grows, NEW j \in Job, LocalsOK(j), BackedBy(j, events[j.w])
    PROVE  BackedBy(j, events'[j.w])
<1>1. CASE j.pc \in EnginePcs
  <2>1. j.w \in Workloads
    BY <1>1 DEF LocalsOK, EnginePcs
  <2> QED
    BY <2>1 DEF Grows, BackedBy
<1>2. CASE j.pc \notin EnginePcs
  BY <1>2 DEF BackedBy, EnginePcs
<1> QED
  BY <1>1, <1>2

\* The engine copies the row, keeps the copy and decides from it; the probe
\* detector records its reason only after the quarantine was stored.
LEMMA EngineBacked ==
    ASSUME IInv, BackedInv, NEW p \in Procs,
           \/ \E w \in Workloads, d \in Destinations : CommStart(p, w, d)
           \/ CommStamp(p) \/ CommDecide(p) \/ CommCount(p)
           \/ ContainWrite(p) /\ job[p].op = "comm" /\ Present(job[p].w)
    PROVE  BackedBy(job'[p], events'[job'[p].w])
<1>1. job \in [Procs -> Job] /\ job[p] \in Job /\ LocalsOK(job[p]) /\ BackedBy(job[p], events[job[p].w])
  BY DEF IInv, ThreadsOK, BackedInv
<1>2. ASSUME NEW j, Continue(p, j), BackedBy(j, events'[j.w])
      PROVE  BackedBy(job'[p], events'[job'[p].w])
  BY <1>1, <1>2 DEF Continue
<1>3. ASSUME NEW w \in Workloads, NEW d \in Destinations, CommStart(p, w, d)
      PROVE  BackedBy(job'[p], events'[job'[p].w])
  <2> DEFINE j == [Begin("comm", "comm_stamp", w) EXCEPT !.dest = d, !.row = workloads[w]]
  <2>1. j.pc = "comm_stamp" /\ j.row = workloads[w] /\ j.w = w
    BY DEF Begin, Idle
  <2>2. UNCHANGED events /\ (job' = job \/ Continue(p, j))
    BY <1>3 DEF CommStart
  <2> HIDE DEF j
  <2>3. BackedBy(j, events[j.w])
    BY <2>1 DEF BackedBy, BackedInv, RowsAttested
  <2> QED
    BY <1>1, <1>2, <2>2, <2>3
<1>4. CASE CommStamp(p)
  <2>1. PICK t : Continue(p, [job[p] EXCEPT !.pc = "comm_decide", !.at = t,
                                            !.win = InWindow(job[p].row, t)])
    BY <1>4 DEF CommStamp
  <2> DEFINE j == [job[p] EXCEPT !.pc = "comm_decide", !.at = t,
                                 !.win = InWindow(job[p].row, t)]
  <2>2. j.pc = "comm_decide" /\ j.row = job[p].row /\ j.w = job[p].w
    BY <1>1 DEF Job
  <2>3. UNCHANGED events /\ Continue(p, j)
    BY <1>4, <2>1 DEF CommStamp
  <2> HIDE DEF j
  <2>4. BackedBy(j, events[j.w])
    BY <1>1, <1>4, <2>2 DEF BackedBy, CommStamp, At
  <2> QED
    BY <1>2, <2>3, <2>4
<1>5. CASE CommDecide(p)
  <2> DEFINE reason == Decide(job[p].row, job[p].win, PeerStatus(job[p].dest), job[p].dest)
             j      == [job[p] EXCEPT
                           !.pc = IF reason = None THEN "comm_count" ELSE "comm_insert",
                           !.reason = reason]
  <2>1. /\ reason = "POLICY_ALLOW" => ~job[p].win /\ job[p].row.status \notin Contained
        /\ reason # "HOSTILE_RECONNAISSANCE_QUARANTINED"
    BY ConstantsAssumption DEF Decide, Policy, Reasons, AllowReasons, DenyReasons, Contained
  <2>2. UNCHANGED events /\ Continue(p, j)
    BY <1>5 DEF CommDecide
  <2> HIDE DEF reason
  <2>3. /\ j.pc \in {"comm_count", "comm_insert"} /\ j.reason = reason
        /\ j.row = job[p].row /\ j.w = job[p].w
    BY <1>1 DEF Job
  <2> HIDE DEF j
  <2>4. /\ job[p].pc = "comm_decide" /\ job[p].row.status \in Statuses
        /\ ~job[p].win => job[p].row.status \notin Pending
        /\ job[p].row.status = "CONFIRMED" => job[p].row.confirmedAt # 0
    BY <1>1, <1>5 DEF LocalsOK, CommDecide, At
  <2>5. reason = "POLICY_ALLOW" => job[p].row.confirmedAt # 0
    BY <2>1, <2>4 DEF Statuses
  <2>6. BackedBy(j, events[j.w])
    BY <1>1, <2>1, <2>3, <2>4, <2>5 DEF BackedBy
  <2> QED
    BY <1>2, <2>2, <2>6
<1>6. CASE CommCount(p)
  <2> DEFINE many == [job[p] EXCEPT !.pc = "contain_read",
                                    !.reason = "HOSTILE_RECONNAISSANCE_QUARANTINED",
                                    !.row.status = "QUARANTINED"]
             few  == [job[p] EXCEPT !.pc = "comm_insert", !.reason = "IDENTITY_AMBIGUOUS"]
  <2>1. many.pc = "contain_read" /\ few.pc = "comm_insert" /\ few.reason = "IDENTITY_AMBIGUOUS"
    BY <1>1 DEF Job
  <2>2. UNCHANGED events /\ (Continue(p, many) \/ Continue(p, few))
    BY <1>6 DEF CommCount
  <2> HIDE DEF many, few
  <2>3. BackedBy(many, events[many.w]) /\ BackedBy(few, events[few.w])
    BY <2>1 DEF BackedBy
  <2> QED
    BY <1>2, <2>2, <2>3
<1>7. CASE ContainWrite(p) /\ job[p].op = "comm" /\ Present(job[p].w)
  <2> DEFINE j == [job[p] EXCEPT !.pc = "comm_insert", !.old = None, !.evAt = 0]
  <2>1. j.pc = "comm_insert" /\ j.w = job[p].w /\ j.reason = job[p].reason
    BY <1>1 DEF Job
  <2>2. Continue(p, j)
    BY <1>7 DEF ContainWrite, AfterContain
  <2> HIDE DEF j
  <2>3. job[p].w \in Workloads /\ job[p].reason = "HOSTILE_RECONNAISSANCE_QUARANTINED"
    BY <1>1, <1>7 DEF LocalsOK, ContainWrite, At, ContainPcs
  <2>4. PICK row, trail : Appends(job[p].w, row, trail) /\ row.status = "QUARANTINED"
    BY <1>7, ContainWriteAppends
  <2>5. Named(events'[job[p].w])
    BY <2>3, <2>4, AppendsGrow DEF BackedInv
  <2> QED
    BY <1>2, <2>1, <2>2, <2>3, <2>5 DEF BackedBy
<1> QED
  BY <1>3, <1>4, <1>5, <1>6, <1>7

LEMMA ThreadBacked ==
    ASSUME IInv, BackedInv, Grows, [Next]_vars, NEW q \in Procs
    PROVE  BackedBy(job'[q], events'[job'[q].w])
<1>1. job \in [Procs -> Job] /\ job[q] \in Job /\ LocalsOK(job[q]) /\ BackedBy(job[q], events[job[q].w])
  BY DEF IInv, ThreadsOK, BackedInv
<1>2. CASE job'[q] = job[q]
  BY <1>1, <1>2, BackedGrows
<1>3. CASE job'[q].pc \notin EnginePcs
  BY <1>3 DEF BackedBy, EnginePcs
<1>4. ASSUME NEW p \in Procs, Elsewhere(p) \/ Registers(p)
      PROVE  job'[q] = job[q] \/ job'[q].pc \notin EnginePcs
  BY <1>1, <1>4 DEF Elsewhere, Registers, EnginePcs, CreatePcs, Continue
<1>5. ASSUME NEW p \in Procs, Arrive(p) \/ Serve(p), p # q PROVE job'[q] = job[q]
  BY <1>1, <1>5, OneThread
<1>6. CASE Restart
  BY <1>3, <1>6 DEF Restart, Idle, EnginePcs
<1>7. CASE UNCHANGED vars
  BY <1>2, <1>7 DEF vars
<1> QED
  BY <1>2, <1>3, <1>4, <1>5, <1>6, <1>7, ArriveElsewhere, ServeElsewhere, EngineBacked
     DEF Next, Quiet

\* A new record quotes the locals of the thread that inserts it.
LEMMA NewRecords ==
    ASSUME IInv, [Next]_vars, NEW r \in requests', r \notin requests
    PROVE  \E p \in Procs :
              /\ CommInsert(p) \/ TamperInsert(p)
              /\ UNCHANGED <<workloads, events>> /\ requests' = requests \cup {r}
              /\ job[p].w \in Workloads
              /\ r.w = job[p].w /\ r.reason = job[p].reason /\ r.at = job[p].at
              /\ r.win = job[p].win
              /\ job[p].pc = "comm_insert" \/ r.reason = "TAMPERED_BYPASS"
<1>1. ASSUME NEW p \in Procs, Reset(p) PROVE FALSE
  BY <1>1 DEF Reset
<1>2. PICK p \in Procs : CommInsert(p) \/ TamperInsert(p)
  BY <1>1, OnlyWriters DEF StepKinds, tables, VerifyStore
<1>3. LocalsOK(job[p]) /\ job[p].pc \in {"comm_insert", "tamper_insert"}
  BY <1>2 DEF CommInsert, TamperInsert, At, IInv, ThreadsOK
<1>4. /\ requests' = requests \cup {r}
      /\ r.w = job[p].w /\ r.reason = job[p].reason /\ r.at = job[p].at /\ r.win = job[p].win
  BY <1>2 DEF CommInsert, TamperInsert, Record, Attempt
<1>5. job[p].w \in Workloads /\ (job[p].pc = "comm_insert" \/ r.reason = "TAMPERED_BYPASS")
  BY <1>3, <1>4 DEF LocalsOK
<1> QED
  BY <1>2, <1>4, <1>5 DEF CommInsert, TamperInsert

LEMMA StepDecisions ==
    ASSUME IInv, BackedInv, Grows, [Next]_vars
    PROVE  DecisionsBacked'
<1> DEFINE Allowed(r, trail) ==
              \E k \in DOMAIN trail : trail[k].new = "CONFIRMED" /\ trail[k].at <= r.at
<1> SUFFICES ASSUME NEW r \in requests'
             PROVE  /\ Granted(r) => Allowed(r, events'[r.w])
                    /\ r.reason = "HOSTILE_RECONNAISSANCE_QUARANTINED" => Named(events'[r.w])
  BY DEF DecisionsBacked, Named, Granted
<1>1. \A trail, t : Attested(trail, t) /\ t <= r.at => Allowed(r, trail)
  BY DEF Attested
<1>2. CASE r \in requests
  <2>1. r.w \in Workloads
    BY <1>2 DEF IInv, Request
  <2>2. Granted(r) => Allowed(r, events'[r.w])
    <3>1. SUFFICES ASSUME Granted(r) PROVE Allowed(r, events'[r.w])
      OBVIOUS
    <3>2. PICK k \in DOMAIN events[r.w] : /\ events[r.w][k].new = "CONFIRMED"
                                          /\ events[r.w][k].at <= r.at
      BY <1>2, <3>1 DEF BackedInv, DecisionsBacked
    <3>3. Attested(events'[r.w], events[r.w][k].at)
      BY <2>1, <3>2 DEF Attested, Grows
    <3> QED
      BY <1>1, <3>2, <3>3
  <2>3. r.reason = "HOSTILE_RECONNAISSANCE_QUARANTINED" => Named(events'[r.w])
    BY <1>2, <2>1 DEF BackedInv, DecisionsBacked, Grows, Named
  <2> QED
    BY <2>2, <2>3
<1>3. CASE r \notin requests
  <2>1. PICK p \in Procs :
          /\ UNCHANGED events
          /\ r.w = job[p].w /\ r.reason = job[p].reason /\ r.at = job[p].at
          /\ job[p].pc = "comm_insert" \/ r.reason = "TAMPERED_BYPASS"
    BY <1>3, NewRecords
  <2>2. BackedBy(job[p], events[r.w]) /\ LocalsOK(job[p])
    BY <2>1 DEF BackedInv, IInv, ThreadsOK
  <2>3. Granted(r) => /\ Attested(events[r.w], job[p].row.confirmedAt)
                      /\ job[p].row.confirmedAt <= r.at
    BY <2>1, <2>2 DEF Granted, BackedBy, LocalsOK
  <2>4. r.reason = "HOSTILE_RECONNAISSANCE_QUARANTINED" => Named(events[r.w])
    BY <2>1, <2>2 DEF BackedBy
  <2> QED
    BY <1>1, <2>1, <2>3, <2>4
<1> QED
  BY <1>2, <1>3

\* While nobody resets the database, a policy ALLOW is stamped no earlier than a
\* confirmation in the workload's trail, and the record of an automatic
\* quarantine follows the quarantine (simulate_request of
\* communication_engine.py against the trail identity_manager.py keeps).
THEOREM RecordsBacked == ASSUME "reset" \notin Ops PROVE Spec => []DecisionsBacked
<1>1. Init => BackedInv
  <2> SUFFICES ASSUME Init PROVE BackedInv
    OBVIOUS
  <2>1. \A w \in Workloads : workloads[w].confirmedAt = 0
    BY DEF Init, IdentityInit, StartingRow, NoRow
  <2>2. \A p \in Procs : job[p] = Idle
    BY DEF Init, IdentityInit
  <2> QED
    BY <2>1, <2>2 DEF Init, BackedInv, RowsAttested, DecisionsBacked, BackedBy, Idle
<1>2. IInv /\ BackedInv /\ [Next]_vars => BackedInv'
  <2> SUFFICES ASSUME IInv, BackedInv, [Next]_vars PROVE BackedInv'
    OBVIOUS
  <2>1. Grows /\ RowsAttested'
    BY StepGrows DEF BackedInv
  <2>2. \A p \in Procs : BackedBy(job'[p], events'[job'[p].w])
    BY <2>1, ThreadBacked
  <2>3. DecisionsBacked'
    BY <2>1, StepDecisions
  <2> QED
    BY <2>1, <2>2, <2>3 DEF BackedInv
<1>3. BackedInv => DecisionsBacked
  BY DEF BackedInv
<1> QED
  BY <1>1, <1>2, <1>3, InductiveInvariant, PTL DEF Spec

-----------------------------------------------------------------------------
(* How far overlapping requests can overrun the probe limit *)

\* The threads that have counted the probes of w and not recorded their own yet.
Counted(w) ==
    {p \in Procs : /\ job[p].w = w /\ job[p].pc = "comm_insert"
                   /\ job[p].reason = "IDENTITY_AMBIGUOUS"}

\* Recorded probes and those about to be recorded share the bound; only an
\* instance that tolerates a probe at all ever lets a thread record one.
ProbesInv ==
    /\ \A r \in requests : r.reason = "IDENTITY_AMBIGUOUS" => r.win
    /\ \A w \in Workloads :
          /\ Counted(w) # {} => ProbeLimit > 0
          /\ Cardinality(Probes(w)) + Cardinality(Counted(w))
                <= ProbeLimit + Cardinality(Procs) - 1

LEMMA SizesFinite ==
    ASSUME IInv, NEW w
    PROVE  /\ IsFiniteSet(Probes(w)) /\ Cardinality(Probes(w)) \in Nat
           /\ IsFiniteSet(Counted(w)) /\ Cardinality(Counted(w)) \in Nat
           /\ Cardinality(Counted(w)) <= Cardinality(Procs)
           /\ Cardinality(Procs) \in Nat \ {0}
           /\ ProbeLimit \in Nat
<1>1. Probes(w) \subseteq requests /\ IsFiniteSet(requests)
  BY DEF Probes, IInv
<1>2. Counted(w) \subseteq Procs /\ IsFiniteSet(Procs) /\ Procs # {}
  BY ConstantsAssumption DEF Counted
<1>3. Cardinality(Procs) \in Nat \ {0}
  BY <1>2, FS_CardinalityType, FS_EmptySet
<1> QED
  BY <1>1, <1>2, <1>3, FS_Subset, FS_CardinalityType, EngineAssumption

\* A thread joins Counted only by counting.
LEMMA CountedFrom ==
    ASSUME IInv, [Next]_vars, NEW w \in Workloads, NEW q \in Procs,
           q \in Counted(w)', q \notin Counted(w)
    PROVE  CommCount(q) /\ job[q].w = w
<1>1. /\ job \in [Procs -> Job] /\ job[q] \in Job /\ LocalsOK(job[q])
      /\ job'[q].w = w /\ job'[q].pc = "comm_insert" /\ job'[q].reason = "IDENTITY_AMBIGUOUS"
  BY DEF IInv, ThreadsOK, Counted
<1>2. job'[q] # job[q]
  BY <1>1 DEF Counted
<1>3. ~Restart /\ ~UNCHANGED vars
  BY <1>1, <1>2 DEF Restart, vars, Idle
<1>4. Arrive(q) \/ Serve(q)
  BY <1>2, <1>3, OneThread DEF Next, Quiet
<1>5. ~Elsewhere(q) /\ ~Registers(q)
  BY <1>1 DEF Elsewhere, Registers, Continue, EnginePcs, CreatePcs
<1>6. ASSUME NEW v \in Workloads, NEW d \in Destinations, CommStart(q, v, d) PROVE FALSE
  <2>1. [Begin("comm", "comm_stamp", v) EXCEPT !.dest = d, !.row = workloads[v]].pc = "comm_stamp"
    BY DEF Begin, Idle
  <2> QED
    BY <1>1, <1>2, <1>6, <2>1 DEF CommStart, Continue
<1>7. ~CommStamp(q)
  <2>1. \A t : [job[q] EXCEPT !.pc = "comm_decide", !.at = t,
                              !.win = InWindow(job[q].row, t)].pc = "comm_decide"
    BY <1>1 DEF Job
  <2> QED
    BY <1>1, <2>1 DEF CommStamp, Continue
<1>8. ~CommDecide(q)
  <2>1. SUFFICES ASSUME CommDecide(q) PROVE FALSE
    OBVIOUS
  <2> DEFINE reason == Decide(job[q].row, job[q].win, PeerStatus(job[q].dest), job[q].dest)
             j      == [job[q] EXCEPT
                           !.pc = IF reason = None THEN "comm_count" ELSE "comm_insert",
                           !.reason = reason]
  <2>2. reason # "IDENTITY_AMBIGUOUS"
    BY ConstantsAssumption DEF Decide, Policy, Reasons, DenyReasons
  <2>3. Continue(q, j)
    BY <2>1 DEF CommDecide
  <2> HIDE DEF reason
  <2>4. j.reason = reason
    BY <1>1 DEF Job
  <2> QED
    BY <1>1, <2>2, <2>3, <2>4 DEF Continue
<1>9. ~(ContainWrite(q) /\ job[q].op = "comm" /\ Present(job[q].w))
  <2>1. SUFFICES ASSUME ContainWrite(q), job[q].op = "comm", Present(job[q].w) PROVE FALSE
    OBVIOUS
  <2> DEFINE j == [job[q] EXCEPT !.pc = "comm_insert", !.old = None, !.evAt = 0]
  <2>2. job[q].reason = "HOSTILE_RECONNAISSANCE_QUARANTINED"
    BY <1>1, <2>1 DEF LocalsOK, ContainWrite, At, ContainPcs
  <2>3. j.reason = job[q].reason
    BY <1>1 DEF Job
  <2>4. Continue(q, j)
    BY <2>1 DEF ContainWrite, AfterContain
  <2> QED
    BY <1>1, <2>2, <2>3, <2>4 DEF Continue
<1>10. CommCount(q)
  BY <1>2, <1>4, <1>5, <1>6, <1>7, <1>8, <1>9, ArriveElsewhere, ServeElsewhere
<1>11. job[q].w = w
  <2> DEFINE many == [job[q] EXCEPT !.pc = "contain_read",
                                    !.reason = "HOSTILE_RECONNAISSANCE_QUARANTINED",
                                    !.row.status = "QUARANTINED"]
             few  == [job[q] EXCEPT !.pc = "comm_insert", !.reason = "IDENTITY_AMBIGUOUS"]
  <2>1. many.w = job[q].w /\ few.w = job[q].w
    BY <1>1 DEF Job
  <2>2. Continue(q, many) \/ Continue(q, few)
    BY <1>10 DEF CommCount
  <2> QED
    BY <1>1, <2>1, <2>2 DEF Continue
<1> QED
  BY <1>10, <1>11

\* Who passes the count leaves room for itself and one probe of each other thread.
LEMMA CountLeavesRoom ==
    ASSUME IInv, NEW q \in Procs, NEW w, job[q].w = w, CommCount(q), q \in Counted(w)',
           \A r \in requests : r.reason = "IDENTITY_AMBIGUOUS" => r.win
    PROVE  ProbeLimit > 0 /\ Probes(w)' = Probes(w) /\ Cardinality(Probes(w)) <= ProbeLimit - 1
<1> DEFINE seen  == {r \in requests : r.w = w /\ r.win}
           prior == Cardinality(seen)
           many  == [job[q] EXCEPT !.pc = "contain_read",
                                   !.reason = "HOSTILE_RECONNAISSANCE_QUARANTINED",
                                   !.row.status = "QUARANTINED"]
<1>1. job \in [Procs -> Job] /\ job[q] \in Job /\ job'[q].pc = "comm_insert"
  BY DEF IInv, ThreadsOK, Counted
<1>2. many.pc = "contain_read"
  BY <1>1 DEF Job
<1>3. TooMany(prior) => Continue(q, many)
  BY DEF CommCount
<1>4. ~TooMany(prior)
  BY <1>1, <1>2, <1>3 DEF Continue
<1>5. seen \subseteq requests /\ IsFiniteSet(requests) /\ Probes(w) \subseteq seen
  BY DEF IInv, Probes
<1>6. prior \in Nat /\ Cardinality(Probes(w)) \in Nat /\ Cardinality(Probes(w)) <= prior
  BY <1>5, FS_Subset, FS_CardinalityType
<1> HIDE DEF prior
<1>7. prior < ProbeLimit
  BY <1>4, <1>6, EngineAssumption DEF TooMany
<1>8. Probes(w)' = Probes(w)
  BY DEF CommCount, Probes
<1> QED
  BY <1>6, <1>7, <1>8, EngineAssumption

LEMMA StepProbes ==
    ASSUME IInv, (IsFiniteSet(requests))', ProbesInv, [Next]_vars
    PROVE  ProbesInv'
<1>1. \A r \in requests' : r.reason = "IDENTITY_AMBIGUOUS" => r.win
  <2> SUFFICES ASSUME NEW r \in requests', r \notin requests, r.reason = "IDENTITY_AMBIGUOUS"
               PROVE  r.win
    BY DEF ProbesInv
  <2>1. PICK p \in Procs : /\ r.reason = job[p].reason /\ r.win = job[p].win
                            /\ job[p].pc = "comm_insert"
    BY NewRecords
  <2> QED
    BY <2>1 DEF IInv, ThreadsOK, LocalsOK, Observed
<1> SUFFICES ASSUME NEW w \in Workloads
             PROVE  /\ Counted(w)' # {} => ProbeLimit > 0
                    /\ Cardinality(Probes(w)') + Cardinality(Counted(w)')
                          <= ProbeLimit + Cardinality(Procs) - 1
  BY <1>1 DEF ProbesInv, Counted, Probes
<1> DEFINE probes  == Cardinality(Probes(w))
           counted == Cardinality(Counted(w))
           procs   == Cardinality(Procs)
           after   == Cardinality(Probes(w)')
           pending == Cardinality(Counted(w)')
<1>2. /\ Counted(w) # {} => ProbeLimit > 0
      /\ probes + counted <= ProbeLimit + procs - 1
  BY DEF ProbesInv
<1>3. /\ probes \in Nat /\ counted \in Nat /\ IsFiniteSet(Probes(w)) /\ IsFiniteSet(Counted(w))
      /\ procs \in Nat \ {0} /\ ProbeLimit \in Nat
  BY SizesFinite
<1>4. /\ after \in Nat /\ pending \in Nat /\ IsFiniteSet(Probes(w))' /\ IsFiniteSet(Counted(w))'
      /\ pending <= procs
  <2>1. Probes(w)' \subseteq requests' /\ Counted(w)' \subseteq Procs
    BY DEF Probes, Counted
  <2> QED
    BY <2>1, ConstantsAssumption, FS_Subset, FS_CardinalityType
<1> HIDE DEF probes, counted, procs, after, pending
<1>5. CASE \E q \in Procs : q \in Counted(w)' /\ q \notin Counted(w)
  <2>1. PICK q \in Procs : q \in Counted(w)' /\ CommCount(q) /\ job[q].w = w
    BY <1>5, CountedFrom
  <2>2. ProbeLimit > 0 /\ after <= ProbeLimit - 1
    BY <2>1, CountLeavesRoom DEF ProbesInv, after
  <2>3. after + pending <= ProbeLimit + procs - 1
    BY <1>3, <1>4, <2>2
  <2> QED
    BY <2>2, <2>3 DEF procs, after, pending
<1>6. CASE Counted(w)' \subseteq Counted(w) /\ Probes(w)' \subseteq Probes(w)
  <2>1. pending <= counted /\ after <= probes
    BY <1>3, <1>6, FS_Subset DEF counted, probes, after, pending
  <2>2. after + pending <= ProbeLimit + procs - 1
    BY <1>2, <1>3, <1>4, <2>1
  <2> QED
    BY <1>2, <1>6, <2>2 DEF procs, after, pending
<1>7. CASE /\ Counted(w)' \subseteq Counted(w)
           /\ \E r \in Probes(w)' : r \notin Probes(w)
  <2>1. PICK r \in Probes(w)' : r \notin Probes(w)
    BY <1>7
  <2>2. r \in requests' /\ r \notin requests /\ r.w = w /\ r.reason = "IDENTITY_AMBIGUOUS"
    BY <2>1 DEF Probes
  <2>3. PICK p \in Procs : /\ (CommInsert(p) \/ TamperInsert(p))
                            /\ requests' = requests \cup {r}
                            /\ job[p].w = w /\ job[p].reason = "IDENTITY_AMBIGUOUS"
                            /\ job[p].pc = "comm_insert"
    BY <2>2, NewRecords
  <2>4. p \in Counted(w) /\ p \notin Counted(w)'
    BY <2>3 DEF Counted, CommInsert, TamperInsert, Finish, Idle, IInv, ThreadsOK
  <2>5. Probes(w)' = Probes(w) \cup {r}
    BY <2>2, <2>3 DEF Probes
  <2>6. after = probes + 1
    BY <1>3, <2>1, <2>5, FS_AddElement DEF probes, after
  <2>7. /\ Counted(w)' \subseteq Counted(w) \ {p} /\ IsFiniteSet(Counted(w) \ {p})
        /\ Cardinality(Counted(w) \ {p}) = counted - 1
    BY <1>3, <1>7, <2>4, FS_RemoveElement DEF counted
  <2>8. pending <= counted - 1
    BY <2>7, FS_Subset DEF pending
  <2>9. after + pending <= ProbeLimit + procs - 1
    BY <1>2, <1>3, <1>4, <2>6, <2>8
  <2> QED
    BY <1>2, <2>4, <2>9 DEF procs, after, pending
<1>8. Counted(w)' \subseteq Procs
  BY DEF Counted
<1> QED
  BY <1>5, <1>6, <1>7, <1>8

\* Whatever overlaps, a workload never has more denied probes on record than
\* the limit and one for each thread but the last (simulate_request of
\* communication_engine.py counts, and only later records).
THEOREM ProbesStayBounded == Spec => []ProbesBounded
<1>1. Init => ProbesInv
  <2> SUFFICES ASSUME Init PROVE ProbesInv
    OBVIOUS
  <2>1. requests = {} /\ \A p \in Procs : job[p] = Idle
    BY DEF Init, IdentityInit
  <2>2. \A w : Probes(w) = {} /\ Counted(w) = {}
    BY <2>1 DEF Probes, Counted, Idle
  <2>3. Cardinality(Procs) \in Nat \ {0} /\ ProbeLimit \in Nat
    BY ConstantsAssumption, EngineAssumption, FS_EmptySet, FS_CardinalityType
  <2>4. Cardinality({}) = 0
    BY FS_EmptySet
  <2> QED
    BY <2>1, <2>2, <2>3, <2>4 DEF ProbesInv
<1>2. IInv /\ IInv' /\ ProbesInv /\ [Next]_vars => ProbesInv'
  BY StepProbes DEF IInv
<1>3. IInv /\ ProbesInv => ProbesBounded
  <2> SUFFICES ASSUME IInv, ProbesInv, NEW w \in Workloads
               PROVE  Cardinality(Probes(w)) <= ProbeLimit + Cardinality(Procs) - 1
    BY DEF ProbesBounded
  <2>1. Cardinality(Probes(w)) + Cardinality(Counted(w)) <= ProbeLimit + Cardinality(Procs) - 1
    BY DEF ProbesInv
  <2> QED
    BY <2>1, SizesFinite
<1> QED
  BY <1>1, <1>2, <1>3, InductiveInvariant, PTL DEF Spec

=============================================================================

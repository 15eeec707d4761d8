---------------------------- MODULE SerialProofs ----------------------------
(***************************************************************************)
(* What the server promises while requests do not overlap, proved for any  *)
(* number of threads, workloads, identities and requests: nothing settled  *)
(* is taken back, containment severs, the verdict is exact, the trail is a *)
(* history and a reused signal is detected.  The hypotheses are that no    *)
(* request arrives while another is served, whichever threads they fall    *)
(* to, and a clock that moves forward; the process may die at any point.   *)
(***************************************************************************)
EXTENDS TrailProofs

\* The clock never stands still or goes back.
Advancing == Ticks \subseteq Nat \ {0}

\* A request is taken only when none is being served: requests do not overlap.
InTurn == \A p \in Procs : Arrive(p) => \A q \in Procs : job[q] = Idle

\* The server while its clients wait their turn.
SerialSpec == Spec /\ [][InTurn]_vars

OneBusy == \A p, q \in Procs : job[p] # Idle /\ job[q] # Idle => p = q

\* Everything on record carries a time before t.
Past(t) ==
    /\ \A w \in Workloads : /\ workloads[w].confirmedAt < t
                            /\ \A k \in DOMAIN events[w] : events[w][k].at < t
    /\ \A r \in requests : r.at < t
    /\ \A v \in results : v.at < t

Tampered(w) == \E r \in requests : r.w = w /\ r.reason = "TAMPERED_BYPASS"

\* The locals hold a time read after everything that is on record.
JustStamped(j) ==
    \/ j.pc \in {"create_check", "create_insert", "confirm_write", "comm_decide", "comm_count",
                 "tamper_insert", "verify_scan", "verify_store"}
    \/ j.pc = "comm_insert" /\ j.reason = "POLICY_ALLOW"

\* The row in the locals was copied from the table.
Copied(j) ==
    \/ j.pc \in {"confirm_stamp", "confirm_write", "comm_stamp", "comm_decide", "comm_count",
                 "verify_stamp", "verify_scan", "verify_store"}
    \/ j.pc = "comm_insert" /\ j.reason = "POLICY_ALLOW"

\* What the thread at work has read is still so.
FreshLocals(j) ==
    /\ j.at <= clock
    /\ JustStamped(j) => j.at = clock /\ Past(clock)
    /\ j.pc = "contain_write" => j.evAt = clock /\ Past(clock)
    /\ Copied(j) => j.row = workloads[j.w]
    /\ j.pc \in {"contain_stamp", "contain_write"} => j.old = workloads[j.w].status
    /\ j.op = "scan" => \A v \in j.todo : workloads[v].status \in Pending
    /\ j.op = "scan" /\ j.pc \in ContainPcs => j.w \notin j.todo
    /\ j.op \in {"scan", "comm"} /\ j.pc \in ContainPcs => workloads[j.w].status \in Pending
    /\ j.pc \in {"comm_decide", "comm_count"} /\ j.win => j.row.status \in Pending
    /\ j.pc = "comm_insert" /\ j.reason = "POLICY_ALLOW" => ~j.win /\ j.row.status = "CONFIRMED"
    /\ j.pc = "comm_insert" => j.reason # "TAMPERED_BYPASS"
    /\ j.pc = "verify_store" => (Verdict(j.tally) = "FAIL" <=> Tampered(j.w))

\* A containment in the trail is a containment in force.
ContainedForGood ==
    \A w \in Workloads : \A k \in DOMAIN events[w] :
        events[w][k].new \in Contained => workloads[w].status \in Contained

\* A grant lies after the confirmation it rests on.
GrantsAfter ==
    \A r \in requests :
        /\ Granted(r) => ~r.win /\ workloads[r.w].confirmedAt \in 1..(r.at - 1)
        /\ r.reason = "TAMPERED_BYPASS" => r.win

SerialTables ==
    /\ Past(clock + 1)
    /\ ContainedForGood /\ GrantsAfter /\ Severed /\ TrailChains /\ VerdictExact

SerialInv == SerialTables /\ \A p \in Procs : FreshLocals(job[p])

-----------------------------------------------------------------------------
(* Taking turns *)

LEMMA ServesBusy == ASSUME NEW p \in Procs, Serve(p) PROVE job[p] # Idle
<1>1. ASSUME NEW pc, pc # "idle", At(p, pc) PROVE job[p] # Idle
  BY <1>1 DEF At, Idle
<1>2. CASE IdentityStep(p)
  BY <1>1, <1>2
     DEF IdentityStep, CreateCheck, CreateInsert, ConfirmStamp, ConfirmWrite, ContainRead,
         ContainStamp, ContainWrite, ScanList, ScanNext
<1>3. CASE EngineStep(p)
  BY <1>1, <1>3 DEF EngineStep, CommStamp, CommDecide, CommCount, CommInsert, TamperStamp,
                    TamperInsert
<1>4. CASE VerifyStep(p)
  BY <1>1, <1>4 DEF VerifyStep, VerifyRead, VerifyStamp, VerifyScan, VerifyStore
<1> QED
  BY <1>2, <1>3, <1>4 DEF Serve

\* While one thread works, no other has a request.
LEMMA OthersIdle ==
    ASSUME IInv, OneBusy, InTurn, NEW p \in Procs, Arrive(p) \/ Serve(p),
           NEW q \in Procs, q # p
    PROVE  job[q] = Idle /\ job'[q] = Idle
  BY OneThread, ServesBusy DEF OneBusy, InTurn

LEMMA TurnsKept == SerialSpec => []OneBusy
<1>1. Init => OneBusy
  BY DEF Init, IdentityInit, OneBusy
<1>2. IInv /\ OneBusy /\ [Next]_vars /\ [InTurn]_vars => OneBusy'
  <2> SUFFICES ASSUME IInv, OneBusy, [Next]_vars, [InTurn]_vars PROVE OneBusy'
    OBVIOUS
  <2>1. CASE UNCHANGED job
    BY <2>1 DEF OneBusy
  <2>2. CASE Restart
    BY <2>2 DEF Restart, OneBusy
  <2>3. ASSUME NEW p \in Procs, Arrive(p) \/ Serve(p), InTurn PROVE OneBusy'
    BY <2>3, OthersIdle DEF OneBusy
  <2> QED
    BY <2>1, <2>2, <2>3 DEF Next, Quiet, vars
<1> QED
  BY <1>1, <1>2, InductiveInvariant, PTL DEF Spec, SerialSpec

-----------------------------------------------------------------------------
LEMMA PastLater ==
    ASSUME IInv, NEW s \in Nat, NEW t \in Nat, s <= t, Past(s)
    PROVE  Past(t)
<1>1. /\ workloads \in [Workloads -> Row] /\ events \in [Workloads -> Seq(Event)]
      /\ requests \subseteq Request /\ results \subseteq Result
  BY DEF IInv, TablesOK
<1>2. \A w \in Workloads : workloads[w].confirmedAt < t
  BY <1>1 DEF Past, Row
<1>3. \A w \in Workloads : \A k \in DOMAIN events[w] : events[w][k].at < t
  <2> SUFFICES ASSUME NEW w \in Workloads, NEW k \in DOMAIN events[w] PROVE events[w][k].at < t
    OBVIOUS
  <2>1. events[w][k] \in Event
    BY <1>1, ElementOfSeq
  <2> QED
    BY <2>1 DEF Past, Event
<1>4. (\A r \in requests : r.at < t) /\ (\A v \in results : v.at < t)
  BY <1>1 DEF Past, Request, Result
<1> QED
  BY <1>2, <1>3, <1>4 DEF Past

\* A new reading of the clock lies after everything on record.
LEMMA ReadingPast ==
    ASSUME IInv, SerialTables, Advancing, NEW t \in Readings
    PROVE  t \in Nat /\ clock < t /\ Past(t)
<1>1. t \in Nat /\ clock \in Nat /\ clock < t
  BY DEF Readings, Advancing, IInv, MetersOK
<1> QED
  BY <1>1, PastLater DEF SerialTables

\* A step that leaves the tables alone leaves what they promise alone.
LEMMA SilentTables ==
    ASSUME IInv, IInv', SerialTables, UNCHANGED tables, clock <= clock'
    PROVE  SerialTables'
<1>1. clock \in Nat /\ clock' \in Nat
  BY DEF IInv, MetersOK
<1>2. Past(clock' + 1)
  BY <1>1, PastLater DEF SerialTables
<1>3. Past(clock + 1)'
  BY <1>2 DEF Past, tables
<1> QED
  BY <1>3 DEF SerialTables, ContainedForGood, GrantsAfter, Severed, TrailChains, VerdictExact,
              tables, Granted

\* Locals that hold no copy and no fresh time.
LEMMA PlainLocals ==
    ASSUME NEW j, j.at <= clock', j.op # "scan",
           \/ j.pc \in {"idle", "verify_read", "tamper_stamp"}
           \/ j.pc = "contain_read" /\ j.op # "comm"
           \/ j.pc = "comm_insert" /\ j.reason \notin AllowReasons
    PROVE  FreshLocals(j)'
  BY DEF FreshLocals, JustStamped, Copied, ContainPcs, AllowReasons

LEMMA SameState ==
    ASSUME UNCHANGED <<tables, clock>>, NEW j, FreshLocals(j)
    PROVE  FreshLocals(j)'
  BY DEF FreshLocals, Past, Tampered, tables

LEMMA GoesTo ==
    ASSUME IInv, NEW p \in Procs, NEW j, Continue(p, j), FreshLocals(j)'
    PROVE  FreshLocals(job[p])'
<1>1. job'[p] = j
  BY DEF IInv, ThreadsOK, Continue
<1> QED
  BY <1>1 DEF FreshLocals, JustStamped, Copied, Tampered

LEMMA AnswersNow ==
    ASSUME IInv, IInv', NEW p \in Procs, Finish(p)
    PROVE  FreshLocals(job[p])'
<1>1. Continue(p, Idle) /\ Idle.at <= clock' /\ Idle.op # "scan" /\ Idle.pc = "idle"
  BY DEF Finish, Continue, Idle, IInv, MetersOK
<1> QED
  BY <1>1, PlainLocals, GoesTo

-----------------------------------------------------------------------------
(* The steps that only read *)

\* A handler reads the clock and goes on with the reading in its locals.
LEMMA StampSerial ==
    ASSUME IInv, SerialInv, NEW p \in Procs, Advancing, UNCHANGED tables,
           NEW t \in Readings, clock' = t
    PROVE  /\ p \in Procs /\ job[p] \in Job /\ LocalsOK(job[p]) /\ FreshLocals(job[p])
           /\ t \in Nat /\ clock <= clock' /\ Past(t)'
           /\ \A w \in Workloads : workloads[w].confirmedAt < t
           /\ job[p].at <= t
<1>1. /\ p \in Procs /\ job[p] \in Job /\ LocalsOK(job[p]) /\ FreshLocals(job[p])
      /\ clock \in Nat
  BY DEF IInv, ThreadsOK, MetersOK, SerialInv
<1>2. t \in Nat /\ clock < t /\ Past(t)
  BY ReadingPast DEF SerialInv
<1>3. Past(t)'
  BY <1>2 DEF Past, tables
<1>4. job[p].at <= t
  BY <1>1, <1>2 DEF FreshLocals, Job
<1> QED
  BY <1>1, <1>2, <1>3, <1>4 DEF Past

LEMMA StartStampSerial ==
    ASSUME IInv, SerialInv, NEW p \in Procs, Advancing, UNCHANGED tables,
           \/ \E w \in Workloads, i \in Identities, form \in CreateForms :
                  CreateStart(p, w, i, form)
           \/ ScanStart(p)
    PROVE  clock <= clock' /\ FreshLocals(job[p])'
<1>1. CASE ScanStart(p)
  <2>1. PICK t \in Readings :
          clock' = t /\ Continue(p, [Begin("scan", "scan_list", None) EXCEPT !.at = t])
    BY <1>1 DEF ScanStart
  <2>j. PICK j : j = [Begin("scan", "scan_list", None) EXCEPT !.at = t]
    OBVIOUS
  <2>2. j.pc = "scan_list" /\ j.at = t /\ j.todo = {}
    BY <2>j DEF Begin, Idle
  <2>3. p \in Procs /\ t \in Nat /\ clock <= clock'
    BY <2>1, StampSerial
  <2>4. FreshLocals(j)'
    BY <2>1, <2>2, <2>3 DEF FreshLocals, JustStamped, Copied, ContainPcs
  <2> QED
    BY <2>j, <2>1, <2>3, <2>4, GoesTo
<1>2. ASSUME NEW w \in Workloads, NEW i \in Identities, NEW form \in CreateForms,
             CreateStart(p, w, i, form)
      PROVE  clock <= clock' /\ FreshLocals(job[p])'
  <2>1. PICK t \in Readings :
          /\ clock' = t
          /\ \E draft : Continue(p, [Begin("create", "create_check", w) EXCEPT !.at = t,
                                                                             !.row = draft])
    BY <1>2 DEF CreateStart
  <2>2. PICK draft : Continue(p, [Begin("create", "create_check", w) EXCEPT !.at = t,
                                                                           !.row = draft])
    BY <2>1
  <2>j. PICK j : j = [Begin("create", "create_check", w) EXCEPT !.at = t, !.row = draft]
    OBVIOUS
  <2>3. j.pc = "create_check" /\ j.at = t /\ j.op = "create"
    BY <2>j DEF Begin, Idle
  <2>4. p \in Procs /\ t \in Nat /\ clock <= clock' /\ Past(t)'
    BY <2>1, StampSerial
  <2>5. FreshLocals(j)'
    BY <2>1, <2>3, <2>4 DEF FreshLocals, JustStamped, Copied, ContainPcs
  <2> QED
    BY <2>j, <2>2, <2>4, <2>5, GoesTo
<1> QED
  BY <1>1, <1>2

LEMMA StampStepSerial ==
    ASSUME IInv, SerialInv, NEW p \in Procs, Advancing, UNCHANGED tables,
           \/ ConfirmStamp(p) \/ ContainStamp(p)
           \/ CommStamp(p) \/ TamperStamp(p) \/ VerifyStamp(p)
    PROVE  clock <= clock' /\ FreshLocals(job[p])'
<1>1. CASE ConfirmStamp(p)
  <2>1. PICK t \in Readings :
          clock' = t /\ Continue(p, [job[p] EXCEPT !.pc = "confirm_write", !.at = t])
    BY <1>1 DEF ConfirmStamp
  <2>j. PICK j : j = [job[p] EXCEPT !.pc = "confirm_write", !.at = t]
    OBVIOUS
  <2>2. /\ p \in Procs /\ t \in Nat /\ clock <= clock' /\ Past(t)'
        /\ job[p] \in Job /\ FreshLocals(job[p]) /\ LocalsOK(job[p])
    BY <2>1, StampSerial
  <2>3. /\ j.pc = "confirm_write" /\ j.at = t /\ j.op = job[p].op /\ j.row = job[p].row
        /\ j.w = job[p].w /\ job[p].pc = "confirm_stamp"
    BY <2>j, <1>1, <2>2 DEF Job, ConfirmStamp, At
  <2>4. job[p].op = "confirm"
    BY <2>2, <2>3 DEF LocalsOK
  <2>5. FreshLocals(j)'
    BY <2>1, <2>2, <2>3, <2>4 DEF FreshLocals, JustStamped, Copied, ContainPcs, tables
  <2> QED
    BY <2>j, <2>1, <2>2, <2>5, GoesTo
<1>2. CASE ContainStamp(p)
  <2>1. PICK t \in Readings :
          clock' = t /\ Continue(p, [job[p] EXCEPT !.pc = "contain_write", !.evAt = t])
    BY <1>2 DEF ContainStamp
  <2>j. PICK j : j = [job[p] EXCEPT !.pc = "contain_write", !.evAt = t]
    OBVIOUS
  <2>2. /\ p \in Procs /\ t \in Nat /\ clock <= clock' /\ Past(t)' /\ job[p].at <= t
        /\ job[p] \in Job /\ FreshLocals(job[p])
    BY <2>1, StampSerial
  <2>3. /\ j.pc = "contain_write" /\ j.evAt = t /\ j.op = job[p].op /\ j.old = job[p].old
        /\ j.at = job[p].at /\ j.todo = job[p].todo
        /\ j.w = job[p].w /\ job[p].pc = "contain_stamp"
    BY <2>j, <1>2, <2>2 DEF Job, ContainStamp, At
  <2>4. FreshLocals(j)'
    BY <2>1, <2>2, <2>3 DEF FreshLocals, JustStamped, Copied, ContainPcs, tables
  <2> QED
    BY <2>j, <2>1, <2>2, <2>4, GoesTo
<1>3. CASE CommStamp(p)
  <2>1. PICK t \in Readings :
          clock' = t /\ Continue(p, [job[p] EXCEPT !.pc = "comm_decide", !.at = t,
                                                   !.win = InWindow(job[p].row, t)])
    BY <1>3 DEF CommStamp
  <2>j. PICK j : j = [job[p] EXCEPT !.pc = "comm_decide", !.at = t, !.win = InWindow(job[p].row, t)]
    OBVIOUS
  <2>2. /\ p \in Procs /\ t \in Nat /\ clock <= clock' /\ Past(t)'
        /\ job[p] \in Job /\ FreshLocals(job[p]) /\ LocalsOK(job[p])
        /\ \A w \in Workloads : workloads[w].confirmedAt < t
    BY <2>1, StampSerial
  <2>3. /\ j.pc = "comm_decide" /\ j.at = t /\ j.op = job[p].op /\ j.row = job[p].row
        /\ j.w = job[p].w /\ job[p].pc = "comm_stamp"
    BY <2>j, <1>3, <2>2 DEF Job, CommStamp, At
  <2>4. j.win = InWindow(job[p].row, t)
    BY <2>j, <2>2 DEF Job
  <2>5. job[p].op = "comm" /\ job[p].w \in Workloads /\ job[p].row = workloads[job[p].w]
    BY <2>2, <2>3 DEF LocalsOK, FreshLocals, Copied
  <2>6. workloads[job[p].w] \in Row /\ workloads[job[p].w].confirmedAt < t
    BY <2>2, <2>5 DEF IInv, TablesOK
  <2>7. InWindow(job[p].row, t) => job[p].row.status \in Pending
    BY <2>2, <2>5, <2>6 DEF InWindow, Row
  <2>8. FreshLocals(j)'
    BY <2>1, <2>2, <2>3, <2>4, <2>5, <2>7 DEF FreshLocals, JustStamped, Copied, ContainPcs, tables
  <2> QED
    BY <2>j, <2>1, <2>2, <2>8, GoesTo
<1>4. CASE TamperStamp(p) \/ VerifyStamp(p)
  <2>1. ASSUME NEW pc \in {"tamper_insert", "verify_scan"}, NEW t \in Readings, clock' = t,
               Continue(p, [job[p] EXCEPT !.pc = pc, !.at = t]),
               job[p].pc \in {"tamper_stamp", "verify_stamp"},
               pc = "verify_scan" => job[p].pc = "verify_stamp"
        PROVE  clock <= clock' /\ FreshLocals(job[p])'
    <3>j. PICK j : j = [job[p] EXCEPT !.pc = pc, !.at = t]
    OBVIOUS
    <3>1. /\ p \in Procs /\ t \in Nat /\ clock <= clock' /\ Past(t)'
          /\ job[p] \in Job /\ FreshLocals(job[p])
      BY <2>1, StampSerial
    <3>2. /\ j.pc = pc /\ j.at = t /\ j.op = job[p].op /\ j.row = job[p].row
          /\ j.w = job[p].w /\ j.todo = job[p].todo
      BY <3>j, <3>1 DEF Job
    <3>3. FreshLocals(j)'
      BY <2>1, <3>1, <3>2 DEF FreshLocals, JustStamped, Copied, ContainPcs, tables
    <3> QED
      BY <3>j, <2>1, <3>1, <3>3, GoesTo
  <2> QED
    BY <1>4, <2>1 DEF TamperStamp, VerifyStamp, At
<1> QED
  BY <1>1, <1>2, <1>3, <1>4

\* A handler starts, or goes on, without reading the clock.
LEMMA NoStamp ==
    ASSUME IInv, SerialInv, NEW p \in Procs, Advancing
    PROVE  /\ p \in Procs /\ job[p] \in Job /\ LocalsOK(job[p]) /\ FreshLocals(job[p])
           /\ clock \in Nat \ {0} /\ job[p].at <= clock
  BY DEF IInv, ThreadsOK, MetersOK, SerialInv, FreshLocals

LEMMA StartSerial ==
    ASSUME IInv, SerialInv, NEW p \in Procs, Advancing, UNCHANGED <<tables, clock>>,
           \/ \E w \in Workloads, i \in Identities : ConfirmStart(p, w, i)
           \/ \E w \in Workloads, op \in {"quarantine", "revoke"} : ContainStart(p, op, w)
           \/ EngineRequest(p)
           \/ \E w \in Workloads : VerifyStart(p, w)
    PROVE  FreshLocals(job[p])'
<1>1. /\ p \in Procs /\ job[p] \in Job /\ FreshLocals(job[p]) /\ clock \in Nat \ {0}
  BY NoStamp
<1>2. CASE job' = job
  BY <1>1, <1>2 DEF FreshLocals, JustStamped, Copied, Past, Tampered, tables
<1>3. ASSUME NEW j, Continue(p, j), FreshLocals(j) PROVE FreshLocals(job[p])'
  BY <1>1, <1>3, SameState, GoesTo
<1>4. ASSUME NEW w \in Workloads, NEW i \in Identities, ConfirmStart(p, w, i)
      PROVE  FreshLocals(job[p])'
  <2> DEFINE begun == [Begin("confirm", "confirm_stamp", w) EXCEPT !.arg = i,
                                                                  !.row = workloads[w]]
             again == [begun EXCEPT !.pc = "verify_read"]
  <2>1. /\ begun.pc = "confirm_stamp" /\ begun.at = 0 /\ begun.op = "confirm"
        /\ begun.row = workloads[w] /\ begun.w = w
        /\ again.pc = "verify_read" /\ again.at = 0 /\ again.op = "confirm"
    BY DEF Begin, Idle
  <2>2. job' = job \/ Continue(p, begun) \/ Continue(p, again)
    BY <1>4 DEF ConfirmStart
  <2> HIDE DEF begun, again
  <2>3. FreshLocals(begun) /\ FreshLocals(again)
    BY <1>1, <2>1 DEF FreshLocals, JustStamped, Copied, ContainPcs
  <2> QED
    BY <1>2, <1>3, <2>2, <2>3
<1>5. ASSUME NEW w \in Workloads, NEW op \in {"quarantine", "revoke"}, ContainStart(p, op, w)
      PROVE  FreshLocals(job[p])'
  <2> DEFINE j == Begin(op, "contain_read", w)
  <2>1. j.pc = "contain_read" /\ j.at = 0 /\ j.op = op
    BY DEF Begin, Idle
  <2>2. Continue(p, j)
    BY <1>5 DEF ContainStart
  <2> HIDE DEF j
  <2>3. FreshLocals(j)
    BY <1>1, <2>1 DEF FreshLocals, JustStamped, Copied, ContainPcs
  <2> QED
    BY <1>3, <2>2, <2>3
<1>6. ASSUME NEW w \in Workloads, NEW d \in Destinations, CommStart(p, w, d) \/ TamperStart(p, w, d)
      PROVE  FreshLocals(job[p])'
  <2> DEFINE comm   == [Begin("comm", "comm_stamp", w) EXCEPT !.dest = d, !.row = workloads[w]]
             tamper == [Begin("tamper", "tamper_stamp", w) EXCEPT
                           !.dest = d, !.row = workloads[w],
                           !.win = TRUE, !.reason = "TAMPERED_BYPASS"]
  <2>1. /\ comm.pc = "comm_stamp" /\ comm.at = 0 /\ comm.op = "comm"
        /\ comm.row = workloads[w] /\ comm.w = w
        /\ tamper.pc = "tamper_stamp" /\ tamper.at = 0 /\ tamper.op = "tamper"
    BY DEF Begin, Idle
  <2>2. job' = job \/ Continue(p, comm) \/ Continue(p, tamper)
    BY <1>6 DEF CommStart, TamperStart
  <2> HIDE DEF comm, tamper
  <2>3. FreshLocals(comm) /\ FreshLocals(tamper)
    BY <1>1, <2>1 DEF FreshLocals, JustStamped, Copied, ContainPcs
  <2> QED
    BY <1>2, <1>3, <2>2, <2>3
<1>7. ASSUME NEW w \in Workloads, VerifyStart(p, w) PROVE FreshLocals(job[p])'
  <2> DEFINE j == Begin("verify", "verify_read", w)
  <2>1. j.pc = "verify_read" /\ j.at = 0 /\ j.op = "verify"
    BY DEF Begin, Idle
  <2>2. Continue(p, j)
    BY <1>7 DEF VerifyStart
  <2> HIDE DEF j
  <2>3. FreshLocals(j)
    BY <1>1, <2>1 DEF FreshLocals, JustStamped, Copied, ContainPcs
  <2> QED
    BY <1>3, <2>2, <2>3
<1> QED
  BY <1>4, <1>5, <1>6, <1>7 DEF EngineRequest

\* The audit of the stored row finds an allowed request in the window if and
\* only if one was tampered: grants lie after the window and carry no flag.
LEMMA AuditExact ==
    ASSUME IInv, GrantsAfter, NEW w \in Workloads, NEW now
    PROVE  LET row == workloads[w] IN
           Verdict(AuditTally(w, row, WindowEnd(row, now))) = "FAIL" <=> Tampered(w)
<1> DEFINE row     == workloads[w]
           end     == WindowEnd(row, now)
           rows    == {r \in requests : InAudit(r, w, row, end)}
           allowed == {r \in rows : IsAllow(r)}
           wrong   == {r \in allowed : r.ident # row.confirmed}
<1>1. /\ rows \subseteq requests /\ allowed \subseteq requests /\ wrong \subseteq allowed
  OBVIOUS
<1>2. \A r \in allowed : r \in requests /\ r.w = w /\ r.reason = "TAMPERED_BYPASS"
  <2> SUFFICES ASSUME NEW r \in allowed, Granted(r) PROVE FALSE
    BY DEF IsAllow, AllowReasons, Granted, InAudit
  <2>1. r \in requests /\ r.w = w /\ (r.win \/ r.at <= end)
    BY DEF InAudit
  <2>2. ~r.win /\ row.confirmedAt \in 1..(r.at - 1)
    BY <2>1 DEF GrantsAfter
  <2>3. end = row.confirmedAt
    BY <2>2 DEF WindowEnd
  <2>4. r.at \in Nat /\ row.confirmedAt \in Nat
    BY <2>1 DEF IInv, TablesOK, Request, Row
  <2> QED
    BY <2>1, <2>2, <2>3, <2>4
<1>3. \A r \in requests : r.w = w /\ r.reason = "TAMPERED_BYPASS" => r \in allowed
  BY DEF GrantsAfter, InAudit, IsAllow, AllowReasons
<1>4. allowed = {} <=> ~Tampered(w)
  BY <1>2, <1>3 DEF Tampered
<1>5. AuditTally(w, row, end) =
        [total |-> Cardinality(rows), allowed |-> Cardinality(allowed),
         wrong |-> Cardinality(wrong)]
  BY DEF AuditTally
<1> HIDE DEF rows, allowed, wrong, end, row
<1>6. IsFiniteSet(allowed) /\ (Cardinality(allowed) = 0 <=> allowed = {})
  BY <1>1, FS_Subset, FS_EmptySet DEF IInv
<1>7. allowed = {} => Cardinality(wrong) = 0
  BY <1>1, FS_EmptySet
<1>8. Verdict(AuditTally(w, row, end)) = "FAIL" <=> allowed # {}
  BY <1>5, <1>6, <1>7 DEF Verdict
<1> QED
  BY <1>4, <1>8 DEF row, end

LEMMA ReadSerial ==
    ASSUME IInv, IInv', SerialInv, NEW p \in Procs, Advancing, UNCHANGED <<tables, clock>>,
           \/ CreateCheck(p) \/ ContainRead(p) \/ ScanList(p) \/ ScanNext(p)
           \/ VerifyRead(p) \/ VerifyScan(p)
    PROVE  FreshLocals(job[p])'
<1>1. /\ p \in Procs /\ job[p] \in Job /\ LocalsOK(job[p]) /\ FreshLocals(job[p])
      /\ clock \in Nat \ {0} /\ job[p].at <= clock
  BY NoStamp
<1>2. ASSUME NEW j, Continue(p, j), FreshLocals(j) PROVE FreshLocals(job[p])'
  BY <1>1, <1>2, SameState, GoesTo
<1>3. ASSUME Finish(p) PROVE FreshLocals(job[p])'
  BY <1>1, <1>3, AnswersNow
<1>4. CASE CreateCheck(p)
  <2>1. PICK b, row : Continue(p, [job[p] EXCEPT !.pc = "create_insert", !.reused = b,
                                                 !.row = row])
    BY <1>4 DEF CreateCheck
  <2> DEFINE j == [job[p] EXCEPT !.pc = "create_insert", !.reused = b, !.row = row]
  <2>2. /\ j.pc = "create_insert" /\ j.at = job[p].at /\ j.op = job[p].op
        /\ j.todo = job[p].todo /\ job[p].pc = "create_check"
    BY <1>1, <1>4 DEF Job, CreateCheck, At
  <2> HIDE DEF j
  <2>3. FreshLocals(j)
    BY <1>1, <2>2 DEF FreshLocals, JustStamped, Copied, ContainPcs
  <2> QED
    BY <1>2, <2>1, <2>3 DEF j
<1>5. CASE ContainRead(p)
  <2> DEFINE j    == [job[p] EXCEPT !.pc = "contain_stamp", !.old = workloads[job[p].w].status]
             next == [job[p] EXCEPT !.pc = "scan_next", !.w = None, !.old = None, !.evAt = 0]
  <2>1. /\ j.pc = "contain_stamp" /\ j.old = workloads[job[p].w].status /\ j.w = job[p].w
        /\ j.at = job[p].at /\ j.op = job[p].op /\ j.todo = job[p].todo
        /\ next.pc = "scan_next" /\ next.at = job[p].at /\ next.op = job[p].op
        /\ next.todo = job[p].todo /\ job[p].pc = "contain_read"
    BY <1>1, <1>5 DEF Job, ContainRead, At
  <2>2. Continue(p, j) \/ Continue(p, next) \/ Finish(p)
    BY <1>5 DEF ContainRead, AfterContain
  <2> HIDE DEF j, next
  <2>3. FreshLocals(j) /\ FreshLocals(next)
    BY <1>1, <2>1 DEF FreshLocals, JustStamped, Copied, ContainPcs
  <2> QED
    BY <1>2, <1>3, <2>2, <2>3
<1>6. CASE ScanList(p)
  <2>1. PICK ttl \in TTLs :
          Continue(p, [job[p] EXCEPT !.pc = "scan_next", !.fleet = workloads,
                                     !.todo = Expired(job[p].at, ttl)])
    BY <1>6 DEF ScanList
  <2> DEFINE j == [job[p] EXCEPT !.pc = "scan_next", !.fleet = workloads,
                                 !.todo = Expired(job[p].at, ttl)]
  <2>2. /\ j.pc = "scan_next" /\ j.at = job[p].at /\ j.op = job[p].op
        /\ j.todo = Expired(job[p].at, ttl)
    BY <1>1 DEF Job
  <2> HIDE DEF j
  <2>3. FreshLocals(j)
    BY <1>1, <2>2 DEF FreshLocals, JustStamped, Copied, ContainPcs, Expired
  <2> QED
    BY <1>2, <2>1, <2>3 DEF j
<1>7. CASE ScanNext(p)
  <2>1. ASSUME NEW w \in job[p].todo,
               Continue(p, [job[p] EXCEPT !.pc = "contain_read", !.w = w, !.todo = @ \ {w}])
        PROVE  FreshLocals(job[p])'
    <3> DEFINE j == [job[p] EXCEPT !.pc = "contain_read", !.w = w, !.todo = @ \ {w}]
    <3>1. /\ j.pc = "contain_read" /\ j.at = job[p].at /\ j.op = job[p].op /\ j.w = w
          /\ j.todo = job[p].todo \ {w}
      BY <1>1 DEF Job
    <3>2. job[p].op = "scan"
      BY <1>1, <1>7 DEF LocalsOK, ScanNext, At
    <3> HIDE DEF j
    <3>3. FreshLocals(j)
      BY <1>1, <3>1, <3>2 DEF FreshLocals, JustStamped, Copied, ContainPcs
    <3> QED
      BY <1>2, <2>1, <3>3 DEF j
  <2> QED
    BY <1>3, <1>7, <2>1 DEF ScanNext
<1>8. CASE VerifyRead(p)
  <2> DEFINE j == [job[p] EXCEPT !.pc = "verify_stamp", !.row = workloads[job[p].w]]
  <2>1. /\ j.pc = "verify_stamp" /\ j.at = job[p].at /\ j.op = job[p].op /\ j.w = job[p].w
        /\ j.todo = job[p].todo /\ j.row = workloads[job[p].w]
    BY <1>1 DEF Job
  <2>2. Continue(p, j) \/ Finish(p)
    BY <1>8 DEF VerifyRead
  <2> HIDE DEF j
  <2>3. FreshLocals(j)
    BY <1>1, <2>1 DEF FreshLocals, JustStamped, Copied, ContainPcs
  <2> QED
    BY <1>2, <1>3, <2>2, <2>3
<1>9. CASE VerifyScan(p)
  <2> DEFINE tally == AuditTally(job[p].w, job[p].row, WindowEnd(job[p].row, job[p].at))
             j     == [job[p] EXCEPT !.pc = "verify_store", !.tally = tally]
  <2>1. job[p].pc = "verify_scan" /\ job[p].w \in Workloads /\ job[p].row = workloads[job[p].w]
    BY <1>1, <1>9 DEF VerifyScan, At, LocalsOK, FreshLocals, Copied
  <2>2. Verdict(tally) = "FAIL" <=> Tampered(job[p].w)
    BY <2>1, AuditExact DEF SerialInv, SerialTables
  <2>3. Continue(p, j)
    BY <1>9 DEF VerifyScan
  <2> HIDE DEF tally
  <2>4. /\ j.pc = "verify_store" /\ j.at = job[p].at /\ j.op = job[p].op /\ j.w = job[p].w
        /\ j.todo = job[p].todo /\ j.row = job[p].row /\ j.tally = tally
    BY <1>1 DEF Job
  <2> HIDE DEF j
  <2>5. FreshLocals(j)
    BY <1>1, <2>1, <2>2, <2>4 DEF FreshLocals, JustStamped, Copied, ContainPcs
  <2> QED
    BY <1>2, <2>3, <2>5
<1> QED
  BY <1>4, <1>5, <1>6, <1>7, <1>8, <1>9

LEMMA DecideSerial ==
    ASSUME IInv, SerialInv, NEW p \in Procs, Advancing, UNCHANGED <<tables, clock>>,
           CommDecide(p) \/ CommCount(p)
    PROVE  FreshLocals(job[p])'
<1>1. /\ p \in Procs /\ job[p] \in Job /\ LocalsOK(job[p]) /\ FreshLocals(job[p])
      /\ clock \in Nat \ {0} /\ job[p].at <= clock
  BY NoStamp
<1>2. ASSUME NEW j, Continue(p, j), FreshLocals(j) PROVE FreshLocals(job[p])'
  BY <1>1, <1>2, SameState, GoesTo
<1>3. CASE CommDecide(p)
  <2> DEFINE reason == Decide(job[p].row, job[p].win, PeerStatus(job[p].dest), job[p].dest)
             j      == [job[p] EXCEPT
                           !.pc = IF reason = None THEN "comm_count" ELSE "comm_insert",
                           !.reason = reason]
  <2>1. /\ reason = None => job[p].win
        /\ reason # "TAMPERED_BYPASS"
        /\ reason = "POLICY_ALLOW" => ~job[p].win /\ job[p].row.status \notin Contained
    BY ConstantsAssumption DEF Decide, Policy, Reasons, AllowReasons, DenyReasons, Contained
  <2>2. Continue(p, j)
    BY <1>3 DEF CommDecide
  <2> HIDE DEF reason
  <2>3. /\ j.pc = IF reason = None THEN "comm_count" ELSE "comm_insert"
        /\ j.at = job[p].at /\ j.op = job[p].op /\ j.w = job[p].w /\ j.reason = reason
        /\ j.todo = job[p].todo /\ j.row = job[p].row /\ j.win = job[p].win
    BY <1>1 DEF Job
  <2> HIDE DEF j
  <2>4. /\ job[p].pc = "comm_decide" /\ job[p].op = "comm" /\ job[p].row.status \in Statuses
        /\ ~job[p].win => job[p].row.status \notin Pending
    BY <1>1, <1>3 DEF LocalsOK, CommDecide, At
  <2>5. reason = "POLICY_ALLOW" => job[p].row.status = "CONFIRMED"
    BY <2>1, <2>4 DEF Statuses
  <2>6. FreshLocals(j)
    BY <1>1, <2>1, <2>3, <2>4, <2>5, ConstantsAssumption
       DEF FreshLocals, JustStamped, Copied, ContainPcs
  <2> QED
    BY <1>2, <2>2, <2>6
<1>4. CASE CommCount(p)
  <2> DEFINE many == [job[p] EXCEPT !.pc = "contain_read",
                                    !.reason = "HOSTILE_RECONNAISSANCE_QUARANTINED",
                                    !.row.status = "QUARANTINED"]
             few  == [job[p] EXCEPT !.pc = "comm_insert", !.reason = "IDENTITY_AMBIGUOUS"]
  <2>1. /\ many.pc = "contain_read" /\ many.at = job[p].at /\ many.w = job[p].w
        /\ many.op = job[p].op
        /\ few.pc = "comm_insert" /\ few.reason = "IDENTITY_AMBIGUOUS" /\ few.at = job[p].at
        /\ few.op = job[p].op
    BY <1>1 DEF Job
  <2>2. Continue(p, many) \/ Continue(p, few)
    BY <1>4 DEF CommCount
  <2> HIDE DEF many, few
  <2>3. /\ job[p].pc = "comm_count" /\ job[p].op = "comm" /\ job[p].win
        /\ job[p].w \in Workloads
    BY <1>1, <1>4 DEF LocalsOK, CommCount, At
  <2>4. workloads[job[p].w].status \in Pending
    BY <1>1, <2>3 DEF FreshLocals, Copied
  <2>5. FreshLocals(many) /\ FreshLocals(few)
    BY <1>1, <2>1, <2>3, <2>4 DEF FreshLocals, JustStamped, Copied, ContainPcs
  <2> QED
    BY <1>2, <2>2, <2>5
<1> QED
  BY <1>3, <1>4

-----------------------------------------------------------------------------
(* The steps that write the lifecycle *)

\* A transaction that tells the trail what the only thread found keeps all of
\* it a history, and leaves every grant after its confirmation and before any
\* containment.
LEMMA LifecycleWrite ==
    ASSUME IInv, SerialTables, Past(clock), UNCHANGED <<requests, results, clock>>,
           NEW w \in Workloads, NEW row \in Row, NEW trail \in Seq(Event), Write(w, row, trail),
           row.confirmedAt <= clock,
           \A k \in DOMAIN trail : /\ trail[k].at = clock
                                   /\ trail[k].new \in Contained => row.status \in Contained,
           \A k \in 2..Len(trail) : trail[k].type = "AMBIGUITY_DETECTED",
           1 \in DOMAIN trail /\ events[w] # <<>> =>
               trail[1].old = events[w][Len(events[w])].new,
           workloads[w].status \in Contained => row.status \in Contained,
           \A r \in requests : Granted(r) /\ r.w = w => row.confirmedAt = workloads[w].confirmedAt
    PROVE  SerialTables'
<1> DEFINE old == events[w]
           all == old \o trail
<1>1. /\ workloads \in [Workloads -> Row] /\ events \in [Workloads -> Seq(Event)]
      /\ clock \in Nat /\ requests \subseteq Request /\ results \subseteq Result
  BY DEF IInv, TablesOK, MetersOK
<1>2. /\ workloads'[w] = row /\ events'[w] = all /\ old \in Seq(Event)
      /\ \A v \in Workloads : v # w => workloads'[v] = workloads[v] /\ events'[v] = events[v]
  BY <1>1 DEF Write
<1>3. /\ all \in Seq(Event) /\ Len(all) = Len(old) + Len(trail)
      /\ \A k \in 1..Len(all) : all[k] = IF k <= Len(old) THEN old[k] ELSE trail[k - Len(old)]
      /\ Len(old) \in Nat /\ Len(trail) \in Nat
      /\ DOMAIN old = 1..Len(old) /\ DOMAIN trail = 1..Len(trail) /\ DOMAIN all = 1..Len(all)
      /\ old # <<>> <=> Len(old) # 0
  BY <1>2, ConcatProperties, LenProperties, EmptySeq
<1> HIDE DEF all
<1>4. \A k \in DOMAIN all :
          \/ k \in DOMAIN old /\ all[k] = old[k]
          \/ k - Len(old) \in DOMAIN trail /\ all[k] = trail[k - Len(old)]
  BY <1>3
<1>5. \A k \in DOMAIN old : old[k].at \in Nat /\ old[k].at < clock
  <2> TAKE k \in DOMAIN old
  <2>1. old[k] \in Event
    BY <1>2, ElementOfSeq
  <2> QED
    BY <2>1 DEF Past, Event
<1>6. Past(clock + 1)'
  <2>1. \A k \in DOMAIN all : all[k].at < clock + 1
    BY <1>1, <1>4, <1>5
  <2>2. \A v \in Workloads : workloads'[v].confirmedAt < clock + 1
    <3> TAKE v \in Workloads
    <3>1. CASE v = w
      BY <1>1, <1>2, <3>1 DEF Row
    <3>2. CASE v # w
      BY <1>2, <3>2 DEF SerialTables, Past
    <3> QED
      BY <3>1, <3>2
  <2>3. \A v \in Workloads : \A k \in DOMAIN events'[v] : events'[v][k].at < clock + 1
    BY <1>2, <2>1 DEF SerialTables, Past
  <2> QED
    BY <2>2, <2>3 DEF SerialTables, Past
<1>7. ContainedForGood'
  <2>1. \A k \in DOMAIN all : all[k].new \in Contained => row.status \in Contained
    BY <1>4 DEF SerialTables, ContainedForGood
  <2> QED
    BY <1>2, <2>1 DEF SerialTables, ContainedForGood
<1>8. GrantsAfter'
  BY <1>1, <1>2 DEF SerialTables, GrantsAfter, Request, Granted
<1>9. Severed'
  <2> SUFFICES ASSUME NEW r \in requests, Granted(r), NEW k \in DOMAIN events'[r.w],
                      events'[r.w][k].new \in Contained
               PROVE  r.at < events'[r.w][k].at
    BY DEF Severed, Granted
  <2>1. r.w \in Workloads /\ r.at < clock
    BY <1>1 DEF Request, Past
  <2>2. CASE r.w # w
    BY <1>2, <2>1, <2>2 DEF SerialTables, Severed
  <2>3. CASE r.w = w
    BY <1>2, <1>4, <2>1, <2>3 DEF SerialTables, Severed
  <2> QED
    BY <2>2, <2>3
<1>10. TrailChains'
  <2> SUFFICES ASSUME NEW k \in 2..Len(all)
               PROVE  /\ all[k - 1].at <= all[k].at
                      /\ all[k].type = "AMBIGUITY_DETECTED" \/ all[k].old = all[k - 1].new
    BY <1>2 DEF SerialTables, TrailChains
  <2>1. k \in DOMAIN all /\ k - 1 \in DOMAIN all
    BY <1>3
  <2>2. CASE k <= Len(old)
    <3>1. k \in 2..Len(old) /\ all[k] = old[k] /\ all[k - 1] = old[k - 1]
      BY <1>3, <2>1, <2>2
    <3> QED
      BY <3>1 DEF SerialTables, TrailChains
  <2>3. CASE k = Len(old) + 1
    <3>1. /\ all[k] = trail[1] /\ 1 \in DOMAIN trail /\ Len(old) \in DOMAIN old /\ old # <<>>
          /\ all[k - 1] = old[Len(old)]
      BY <1>3, <2>1, <2>3
    <3> QED
      BY <1>1, <1>5, <3>1
  <2>4. CASE k > Len(old) + 1
    <3>1. /\ k - Len(old) \in 2..Len(trail) /\ k - Len(old) \in DOMAIN trail
          /\ k - 1 - Len(old) \in DOMAIN trail
          /\ all[k] = trail[k - Len(old)] /\ all[k - 1] = trail[k - 1 - Len(old)]
      BY <1>3, <2>1, <2>4
    <3> QED
      BY <1>1, <3>1
  <2> QED
    BY <1>3, <2>2, <2>3, <2>4
<1>11. VerdictExact'
  BY DEF SerialTables, VerdictExact
<1> QED
  BY <1>6, <1>7, <1>8, <1>9, <1>10, <1>11 DEF SerialTables

LEMMA CreateInsertSerial ==
    ASSUME IInv, IInv', SerialInv, TrailMatchesRow, NEW p \in Procs, Advancing, CreateInsert(p),
           UNCHANGED <<requests, results>>
    PROVE  SerialTables' /\ FreshLocals(job[p])'
<1> DEFINE w     == job[p].w
           row   == job[p].row
           start == Started(row.status, job[p].at)
           found == [type |-> "AMBIGUITY_DETECTED", old |-> "STARTING",
                     new |-> "AMBIGUOUS", at |-> job[p].at]
           again == job[p].reused /\ row.status = "AMBIGUOUS"
<1>1. /\ p \in Procs /\ job[p] \in Job /\ LocalsOK(job[p]) /\ FreshLocals(job[p])
      /\ clock \in Nat \ {0} /\ job[p].pc = "create_insert"
  BY NoStamp DEF CreateInsert, At
<1>2. FreshLocals(job[p])'
  BY <1>1, AnswersNow DEF CreateInsert
<1>3. /\ w \in Workloads /\ row \in Row /\ row.status \in Statuses /\ job[p].at = clock
      /\ Past(clock) /\ row.confirmedAt <= clock
  BY <1>1 DEF LocalsOK, FreshLocals, JustStamped, Job
<1>4. CASE Present(w)
  BY <1>2, <1>4, SilentTables DEF CreateInsert, SerialInv, tables, IInv, MetersOK
<1>5. CASE ~Present(w)
  <2>1. start \in Event /\ found \in Event /\ start.new = row.status /\ start.at = clock
        /\ found.new = "AMBIGUOUS" /\ found.at = clock /\ found.type = "AMBIGUITY_DETECTED"
    BY <1>1, <1>3 DEF Started, Event, EventTypes, Statuses, Pending
  <2>2. /\ Write(w, row, <<start>> \o (IF again THEN <<found>> ELSE <<>>))
        /\ UNCHANGED clock
    BY <1>5 DEF CreateInsert
  <2>3. events[w] = <<>> /\ workloads[w].status \notin Contained /\ \A r \in requests : r.w # w
    BY <1>3, <1>5 DEF TrailMatchesRow, Present, Contained
  <2> HIDE DEF start, found, row
  <2> DEFINE trail == <<start>> \o (IF again THEN <<found>> ELSE <<>>)
  <2>5. /\ trail \in Seq(Event) /\ Len(trail) \in 1..2 /\ trail[1] = start
        /\ Len(trail) = 2 => trail[2] = found /\ row.status = "AMBIGUOUS"
        /\ DOMAIN trail = 1..Len(trail)
    <3>1. CASE again
      <4>1. <<start>> \in Seq(Event) /\ <<found>> \in Seq(Event)
        BY <2>1
      <4>2. /\ Len(<<start>>) = 1 /\ Len(<<found>>) = 1 /\ <<found>>[1] = found
            /\ <<start>>[1] = start
        OBVIOUS
      <4>3. /\ trail \in Seq(Event) /\ Len(trail) = 2 /\ trail[2] = found /\ trail[1] = start
            /\ DOMAIN trail = 1..2
        BY <3>1, <4>1, <4>2, ConcatProperties, LenProperties
      <4> QED
        BY <3>1, <4>3
    <3>2. CASE ~again
      <4>1. <<start>> \o <<>> = <<start>>
        BY <2>1, ConcatSimplifications
      <4>2. <<start>> \in Seq(Event) /\ Len(<<start>>) = 1 /\ <<start>>[1] = start
        BY <2>1
      <4>3. trail = <<start>>
        BY <3>2, <4>1
      <4>4. DOMAIN <<start>> = 1..1
        BY <4>2, LenProperties
      <4> HIDE DEF trail
      <4> QED
        BY <4>2, <4>3, <4>4
    <3> QED
      BY <3>1, <3>2
  <2>4. Write(w, row, trail)
    BY <2>2
  <2> HIDE DEF trail
  <2>6. \A k \in DOMAIN trail : k = 1 \/ (k = 2 /\ Len(trail) = 2)
    BY <2>5
  <2>7. /\ \A k \in DOMAIN trail : /\ trail[k].at = clock
                                   /\ trail[k].new \in Contained => row.status \in Contained
        /\ \A k \in 2..Len(trail) : trail[k].type = "AMBIGUITY_DETECTED"
    BY <2>1, <2>5, <2>6 DEF Contained
  <2>8. SerialTables
    BY DEF SerialInv
  <2> QED
    BY <1>2, <1>3, <2>2, <2>3, <2>4, <2>5, <2>7, <2>8, LifecycleWrite
<1> QED
  BY <1>4, <1>5

LEMMA ConfirmWriteSerial ==
    ASSUME IInv, IInv', SerialInv, TrailMatchesRow, NEW p \in Procs, Advancing, ConfirmWrite(p),
           UNCHANGED <<requests, results>>
    PROVE  SerialTables' /\ FreshLocals(job[p])'
<1> DEFINE w   == job[p].w
           row == [workloads[w] EXCEPT !.confirmed = job[p].arg, !.current = job[p].arg,
                                       !.status = "CONFIRMED", !.confirmedAt = job[p].at]
           event == [type |-> "IDENTITY_CONFIRMED", old |-> job[p].row.status,
                     new |-> "CONFIRMED", at |-> job[p].at]
           j   == [job[p] EXCEPT !.pc = "verify_read"]
           trail == <<event>>
<1>1. /\ p \in Procs /\ job[p] \in Job /\ LocalsOK(job[p]) /\ FreshLocals(job[p])
      /\ clock \in Nat \ {0} /\ job[p].pc = "confirm_write"
  BY NoStamp DEF ConfirmWrite, At
<1>2. /\ w \in Workloads /\ job[p].arg \in Identities /\ job[p].at = clock /\ Past(clock)
      /\ job[p].row = workloads[w] /\ job[p].row.status \in Pending /\ job[p].op = "confirm"
      /\ workloads[w] \in Row
  BY <1>1 DEF LocalsOK, FreshLocals, JustStamped, Copied, Job, IInv, TablesOK
<1>3. Present(w) /\ workloads[w].confirmedAt = 0
  BY <1>2 DEF Present, Pending, IInv, TablesOK, RowsOK, RowConsistent, Consistent
<1>4. /\ Write(w, row, trail) /\ Continue(p, j) /\ UNCHANGED clock
  BY <1>3 DEF ConfirmWrite
<1>5. row \in Row /\ row.status = "CONFIRMED" /\ row.confirmedAt = clock
  BY <1>1, <1>2 DEF Row, Statuses
<1>6. /\ event \in Event /\ event.at = clock /\ event.new = "CONFIRMED"
      /\ event.old = workloads[w].status
  BY <1>1, <1>2 DEF Event, EventTypes, Statuses
<1>7. j.pc = "verify_read" /\ j.at <= clock' /\ j.op # "scan"
  BY <1>1, <1>2, <1>4 DEF Job
<1> HIDE DEF row, event, j
<1>8. FreshLocals(job[p])'
  BY <1>1, <1>4, <1>7, PlainLocals, GoesTo
<1>9. trail \in Seq(Event) /\ Len(trail) = 1 /\ DOMAIN trail = 1..1 /\ trail[1] = event
  BY <1>6
<1> HIDE DEF trail
<1>10. /\ \A k \in DOMAIN trail : trail[k].at = clock /\ trail[k].new = "CONFIRMED"
       /\ \A k \in 2..Len(trail) : trail[k].type = "AMBIGUITY_DETECTED"
  BY <1>6, <1>9
<1>11. events[w] # <<>> => trail[1].old = events[w][Len(events[w])].new
  BY <1>2, <1>3, <1>6, <1>9 DEF TrailMatchesRow
<1>12. \A r \in requests :
           Granted(r) /\ r.w = w => row.confirmedAt = workloads[w].confirmedAt
  BY <1>3 DEF SerialInv, SerialTables, GrantsAfter
<1>13. workloads[w].status \notin Contained /\ "CONFIRMED" \notin Contained
  BY <1>2 DEF Pending, Contained
<1>14. /\ SerialTables /\ row.confirmedAt <= clock /\ UNCHANGED <<requests, results, clock>>
       /\ \A k \in DOMAIN trail : /\ trail[k].at = clock
                                  /\ trail[k].new \in Contained => row.status \in Contained
       /\ workloads[w].status \in Contained => row.status \in Contained
  BY <1>1, <1>4, <1>5, <1>10, <1>13 DEF SerialInv
<1>15. SerialTables'
  BY <1>2, <1>4, <1>5, <1>9, <1>10, <1>11, <1>12, <1>14, LifecycleWrite
<1> QED
  BY <1>8, <1>15

LEMMA ContainWriteSerial ==
    ASSUME IInv, IInv', SerialInv, TrailMatchesRow, NEW p \in Procs, Advancing, ContainWrite(p),
           UNCHANGED <<requests, results>>
    PROVE  SerialTables' /\ FreshLocals(job[p])'
<1> DEFINE w      == job[p].w
           status == IF job[p].op = "revoke" THEN "REVOKED" ELSE "QUARANTINED"
           type   == IF job[p].op = "revoke" THEN "WORKLOAD_REVOKED"
                                             ELSE "WORKLOAD_QUARANTINED"
           row    == [workloads[w] EXCEPT !.status = status]
           event  == [type |-> type, old |-> job[p].old, new |-> status, at |-> job[p].evAt]
           trail  == <<event>>
           next   == [job[p] EXCEPT !.pc = "scan_next", !.w = None, !.old = None, !.evAt = 0]
           insert == [job[p] EXCEPT !.pc = "comm_insert", !.old = None, !.evAt = 0]
<1>1. /\ p \in Procs /\ job[p] \in Job /\ LocalsOK(job[p]) /\ FreshLocals(job[p])
      /\ clock \in Nat \ {0} /\ job[p].pc = "contain_write" /\ job[p].at <= clock
  BY NoStamp DEF ContainWrite, At
<1>2. /\ w \in Workloads /\ job[p].evAt = clock /\ Past(clock) /\ job[p].old \in Statuses
      /\ job[p].old = workloads[w].status /\ workloads[w] \in Row
  BY <1>1 DEF LocalsOK, FreshLocals, IInv, TablesOK
<1>3. Present(w)
  BY <1>2 DEF Present, Statuses, Pending, Contained
<1>4. /\ Write(w, row, trail) /\ AfterContain(p, TRUE) /\ UNCHANGED clock
  BY <1>3 DEF ContainWrite
<1>5. /\ row \in Row /\ row.status \in Contained /\ row.confirmedAt = workloads[w].confirmedAt
      /\ row.confirmedAt <= clock
  BY <1>1, <1>2 DEF Row, Statuses, Contained, Past
<1>6. event \in Event /\ event.at = clock /\ event.old = workloads[w].status
  BY <1>1, <1>2 DEF Event, EventTypes, Statuses, Contained
<1>7. FreshLocals(job[p])'
  <2>1. /\ next.pc = "scan_next" /\ next.at = job[p].at /\ next.op = job[p].op
        /\ next.todo = job[p].todo
        /\ insert.pc = "comm_insert" /\ insert.at = job[p].at /\ insert.op = job[p].op
        /\ insert.reason = job[p].reason
    BY <1>1 DEF Job
  <2>2. \/ job[p].op = "scan" /\ Continue(p, next)
        \/ job[p].op = "comm" /\ Continue(p, insert)
        \/ Finish(p)
    BY <1>4 DEF AfterContain
  <2> HIDE DEF next, insert
  <2>3. CASE job[p].op = "scan" /\ Continue(p, next)
    <3>1. \A v \in job[p].todo : v # w /\ v \in Workloads /\ workloads[v].status \in Pending
      BY <1>1, <2>3 DEF FreshLocals, ContainPcs, Job
    <3>2. \A v \in job[p].todo : workloads'[v].status \in Pending
      BY <1>2, <1>4, <3>1 DEF Write, IInv, TablesOK
    <3>j. PICK j : j = next
      OBVIOUS
    <3>3. FreshLocals(j)'
      BY <1>1, <1>4, <2>1, <3>2, <3>j, <2>3 DEF FreshLocals, JustStamped, Copied, ContainPcs
    <3> QED
      BY <1>1, <2>3, <3>3, <3>j, GoesTo
  <2>4. CASE job[p].op = "comm" /\ Continue(p, insert)
    <3>1. job[p].reason \notin AllowReasons
      BY <1>1, <2>4 DEF LocalsOK, ContainPcs, AllowReasons
    <3> QED
      BY <1>1, <1>4, <2>1, <2>4, <3>1, PlainLocals, GoesTo
  <2>5. CASE Finish(p)
    BY <1>1, <2>5, AnswersNow
  <2> QED
    BY <2>2, <2>3, <2>4, <2>5
<1> HIDE DEF row, event
<1>9. trail \in Seq(Event) /\ Len(trail) = 1 /\ DOMAIN trail = 1..1 /\ trail[1] = event
  BY <1>6
<1> HIDE DEF trail
<1>10. /\ \A k \in DOMAIN trail : trail[k].at = clock
       /\ \A k \in 2..Len(trail) : trail[k].type = "AMBIGUITY_DETECTED"
  BY <1>6, <1>9
<1>11. events[w] # <<>> => trail[1].old = events[w][Len(events[w])].new
  BY <1>2, <1>3, <1>6, <1>9 DEF TrailMatchesRow
<1>12. SerialTables
  BY DEF SerialInv
<1>13. SerialTables'
  BY <1>2, <1>4, <1>5, <1>9, <1>10, <1>11, <1>12, LifecycleWrite
<1> QED
  BY <1>7, <1>13

-----------------------------------------------------------------------------
(* The steps that write the records *)

\* A grant is recorded while its confirmation is in force and nothing has
\* contained the workload; a tampered record is younger than every result.
LEMMA RecordSerial ==
    ASSUME IInv, IInv', SerialInv, NEW p \in Procs, Advancing, CommInsert(p) \/ TamperInsert(p),
           UNCHANGED results
    PROVE  SerialTables' /\ FreshLocals(job[p])'
<1>1. /\ p \in Procs /\ job[p] \in Job /\ LocalsOK(job[p]) /\ FreshLocals(job[p])
      /\ clock \in Nat \ {0} /\ job[p].pc \in {"comm_insert", "tamper_insert"}
  BY NoStamp DEF CommInsert, TamperInsert, At
<1>2. FreshLocals(job[p])' /\ UNCHANGED <<workloads, events, clock, results>>
  BY <1>1, AnswersNow DEF CommInsert, TamperInsert
<1>3. PICK ident, status : Record(p, Attempt(p, ident, status))
  BY DEF CommInsert, TamperInsert
<1>4. CASE UNCHANGED requests
  BY <1>1, <1>2, <1>4, SilentTables DEF SerialInv, tables
<1>r. PICK r : r = Attempt(p, ident, status)
  OBVIOUS
<1>5. CASE requests' = requests \cup {r}
  <2>1. /\ r.w = job[p].w /\ r.reason = job[p].reason /\ r.win = job[p].win
        /\ r.at = job[p].at /\ r.w \in Workloads /\ r.at \in Nat
    BY <1>1, <1>r DEF Attempt, LocalsOK, Job
  <2>2. SerialTables
    BY DEF SerialInv
  <2>3. /\ r.reason = "TAMPERED_BYPASS" => r.win /\ r.at = clock /\ Past(clock)
        /\ r.at <= clock
    BY <1>1, <2>1 DEF LocalsOK, FreshLocals, JustStamped
  <2>4. Granted(r) => /\ ~r.win /\ workloads[r.w].status = "CONFIRMED"
                      /\ workloads[r.w].confirmedAt \in 1..(r.at - 1)
    <3> SUFFICES ASSUME Granted(r)
                 PROVE  /\ ~r.win /\ workloads[r.w].status = "CONFIRMED"
                        /\ workloads[r.w].confirmedAt \in 1..(r.at - 1)
      OBVIOUS
    <3>1. job[p].pc = "comm_insert" /\ job[p].reason = "POLICY_ALLOW"
      BY <1>1, <2>1 DEF Granted, LocalsOK
    <3>2. /\ r.at = clock /\ Past(clock) /\ job[p].row = workloads[r.w] /\ ~r.win
          /\ job[p].row.status = "CONFIRMED" /\ job[p].row.confirmedAt # 0
      BY <1>1, <2>1, <3>1 DEF FreshLocals, JustStamped, Copied, LocalsOK
    <3>3. workloads[r.w].confirmedAt \in Nat /\ workloads[r.w].confirmedAt < clock
      BY <2>1, <3>2 DEF Past, IInv, TablesOK, Row
    <3> QED
      BY <1>1, <3>2, <3>3
  <2>5. Past(clock + 1)'
    BY <1>1, <1>2, <1>5, <2>1, <2>2, <2>3 DEF SerialTables, Past
  <2>6. GrantsAfter'
    BY <1>2, <1>5, <2>2, <2>3, <2>4 DEF SerialTables, GrantsAfter, Granted
  <2>7. Severed'
    <3>1. Granted(r) => \A k \in DOMAIN events[r.w] : events[r.w][k].new \notin Contained
      BY <2>1, <2>2, <2>4 DEF SerialTables, ContainedForGood, Contained
    <3> QED
      BY <1>2, <1>5, <2>2, <3>1 DEF SerialTables, Severed, Granted
  <2>8. VerdictExact'
    <3> SUFFICES ASSUME NEW v \in results, r.reason = "TAMPERED_BYPASS" PROVE ~(r.at < v.at)
      BY <1>2, <1>5, <2>2 DEF SerialTables, VerdictExact
    <3>1. r.at = clock /\ v.at < clock /\ v.at \in Nat
      BY <2>3 DEF Past, IInv, Result
    <3> QED
      BY <1>1, <3>1
  <2> QED
    BY <1>2, <2>2, <2>5, <2>6, <2>7, <2>8 DEF SerialTables, ContainedForGood, TrailChains
<1> QED
  BY <1>3, <1>4, <1>5, <1>r DEF Record

LEMMA VerifyStoreSerial ==
    ASSUME IInv, IInv', SerialInv, NEW p \in Procs, Advancing, VerifyStore(p)
    PROVE  SerialTables' /\ FreshLocals(job[p])'
<1>1. /\ p \in Procs /\ job[p] \in Job /\ LocalsOK(job[p]) /\ FreshLocals(job[p])
      /\ clock \in Nat \ {0} /\ job[p].pc = "verify_store"
  BY NoStamp DEF VerifyStore, At
<1>2. FreshLocals(job[p])' /\ UNCHANGED <<workloads, events, clock, requests>>
  BY <1>1, AnswersNow DEF VerifyStore
<1>3. CASE UNCHANGED results
  BY <1>1, <1>2, <1>3, SilentTables DEF SerialInv, tables
<1> DEFINE result == [w |-> job[p].w, closed |-> job[p].row.confirmedAt # 0,
                      end |-> WindowEnd(job[p].row, job[p].at), tally |-> job[p].tally,
                      verdict |-> Verdict(job[p].tally), at |-> job[p].at]
<1>v. PICK v : v = result
  OBVIOUS
<1>4. CASE results' = results \cup {v}
  <2>1. v.w = job[p].w /\ v.verdict = Verdict(job[p].tally) /\ v.at = clock /\ Past(clock)
    BY <1>1, <1>v DEF FreshLocals, JustStamped
  <2>2. v.verdict = "FAIL" <=> Tampered(v.w)
    BY <1>1, <2>1 DEF FreshLocals
  <2>3. SerialTables
    BY DEF SerialInv
  <2>4. Past(clock + 1)'
    BY <1>1, <1>2, <1>4, <2>1, <2>3 DEF SerialTables, Past
  <2>5. VerdictExact'
    <3>1. v.verdict = "FAIL" <=>
              \E r \in requests : r.w = v.w /\ r.reason = "TAMPERED_BYPASS" /\ r.at < v.at
      BY <2>1, <2>2 DEF Tampered, Past
    <3> QED
      BY <1>2, <1>4, <2>3, <3>1 DEF SerialTables, VerdictExact
  <2> QED
    BY <1>2, <2>3, <2>4, <2>5
       DEF SerialTables, ContainedForGood, GrantsAfter, Severed, TrailChains, Granted
<1> QED
  BY <1>3, <1>4, <1>v DEF VerifyStore

LEMMA ResetSerial ==
    ASSUME IInv, IInv', SerialInv, NEW p \in Procs, Advancing, Reset(p)
    PROVE  SerialTables' /\ FreshLocals(job[p])'
<1>1. clock \in Nat \ {0} /\ job[p] = Idle /\ UNCHANGED <<clock, job>>
  BY DEF IInv, MetersOK, Reset, Accept
<1>2. \A w \in Workloads : workloads'[w] = NoRow /\ events'[w] = <<>>
  BY DEF Reset
<1>3. requests' = {} /\ results' = {}
  BY DEF Reset
<1>4. Past(clock + 1)'
  BY <1>1, <1>2, <1>3, EmptySeq DEF Past, NoRow
<1>5. ContainedForGood' /\ GrantsAfter' /\ Severed' /\ VerdictExact'
  BY <1>2, <1>3, EmptySeq DEF ContainedForGood, GrantsAfter, Severed, VerdictExact
<1>6. TrailChains'
  <2>1. \A w \in Workloads : Len(events'[w]) = 0
    BY <1>2
  <2> QED
    BY <2>1 DEF TrailChains
<1>7. FreshLocals(job[p])'
  <2>1. /\ job'[p].at <= clock' /\ job'[p].op # "scan" /\ job'[p].pc = "idle"
    BY <1>1 DEF Idle
  <2> QED
    BY <2>1 DEF FreshLocals, JustStamped, Copied, ContainPcs
<1> QED
  BY <1>4, <1>5, <1>6, <1>7 DEF SerialTables

-----------------------------------------------------------------------------
LEMMA InitSerial == Init => SerialInv
<1> SUFFICES ASSUME Init PROVE SerialInv
  OBVIOUS
<1> USE DEF Init, IdentityInit
<1>1. \A w \in Workloads :
          /\ workloads[w].confirmedAt = 0
          /\ \A k \in DOMAIN events[w] : events[w][k].at = 1 /\ events[w][k].new = "STARTING"
          /\ Len(events[w]) \in 0..1
  <2> SUFFICES ASSUME NEW w \in Workloads
               PROVE  /\ workloads[w].confirmedAt = 0
                      /\ \A k \in DOMAIN events[w] :
                            events[w][k].at = 1 /\ events[w][k].new = "STARTING"
                      /\ Len(events[w]) \in 0..1
    OBVIOUS
  <2>1. workloads[w] \in {NoRow} \cup {StartingRow(i, 1) : i \in Identities}
    OBVIOUS
  <2>2. workloads[w].confirmedAt = 0
    BY <2>1 DEF NoRow, StartingRow
  <2>3. PICK e : e = Started("STARTING", 1)
    OBVIOUS
  <2>4. events[w] = <<e>> \/ events[w] = <<>>
    BY <2>3
  <2>5. e.at = 1 /\ e.new = "STARTING"
    BY <2>3 DEF Started
  <2> QED
    BY <2>2, <2>4, <2>5
<1>2. clock = 1 /\ requests = {} /\ results = {}
  OBVIOUS
<1>3. SerialTables
  BY <1>1, <1>2
     DEF SerialTables, Past, ContainedForGood, GrantsAfter, Severed, TrailChains, VerdictExact,
         Contained
<1>4. \A p \in Procs : FreshLocals(job[p])
  BY <1>2 DEF Idle, FreshLocals, JustStamped, Copied, ContainPcs
<1> QED
  BY <1>3, <1>4 DEF SerialInv

\* The step of one thread.
LEMMA ThreadSerial ==
    ASSUME IInv, IInv', SerialInv, TrailMatchesRow, NEW p \in Procs, Advancing,
           Arrive(p) \/ Serve(p)
    PROVE  SerialTables' /\ FreshLocals(job[p])'
<1>1. SerialTables /\ FreshLocals(job[p]) /\ clock \in Nat
  BY DEF SerialInv, IInv, MetersOK
<1>2. CASE Arrive(p)
  <2>1. CASE IdentityRequest(p) /\ UNCHANGED <<requests, results>>
    <3>1. UNCHANGED tables
      BY <2>1 DEF tables, IdentityRequest, CreateStart, ConfirmStart, ContainStart, ScanStart
    <3>2. CASE \/ \E w \in Workloads, i \in Identities, form \in CreateForms :
                       CreateStart(p, w, i, form)
               \/ ScanStart(p)
      BY <1>1, <3>1, <3>2, StartStampSerial, SilentTables
    <3>3. CASE \/ \E w \in Workloads, i \in Identities : ConfirmStart(p, w, i)
               \/ \E w \in Workloads, op \in {"quarantine", "revoke"} : ContainStart(p, op, w)
      <4>1. UNCHANGED clock
        BY <3>3 DEF ConfirmStart, ContainStart
      <4> QED
        BY <1>1, <3>1, <3>3, <4>1, StartSerial, SilentTables
    <3> QED
      BY <2>1, <3>2, <3>3 DEF IdentityRequest
  <2>2. CASE EngineRequest(p) /\ UNCHANGED results
    <3>1. UNCHANGED tables /\ UNCHANGED clock
      BY <2>2 DEF tables, EngineRequest, CommStart, TamperStart
    <3> QED
      BY <1>1, <2>2, <3>1, StartSerial, SilentTables
  <2>3. CASE \E w \in Workloads : VerifyStart(p, w)
    <3>1. UNCHANGED tables /\ UNCHANGED clock
      BY <2>3 DEF tables, VerifyStart
    <3> QED
      BY <1>1, <2>3, <3>1, StartSerial, SilentTables
  <2> QED
    BY <1>2, <2>1, <2>2, <2>3, ResetSerial DEF Arrive
<1>3. CASE Serve(p)
  <2>1. ASSUME ConfirmStamp(p) \/ ContainStamp(p) \/ CommStamp(p) \/ TamperStamp(p)
               \/ VerifyStamp(p), UNCHANGED tables
        PROVE  SerialTables' /\ FreshLocals(job[p])'
    BY <1>1, <2>1, StampStepSerial, SilentTables
  <2>2. ASSUME CreateCheck(p) \/ ContainRead(p) \/ ScanList(p) \/ ScanNext(p)
               \/ VerifyRead(p) \/ VerifyScan(p) \/ CommDecide(p) \/ CommCount(p),
               UNCHANGED <<tables, clock>>
        PROVE  SerialTables' /\ FreshLocals(job[p])'
    <3>1. UNCHANGED tables /\ UNCHANGED clock
      BY <2>2
    <3> QED
      BY <1>1, <2>2, <3>1, ReadSerial, DecideSerial, SilentTables
  <2>3. CASE IdentityStep(p) /\ UNCHANGED <<requests, results>>
    BY <2>1, <2>2, <2>3, CreateInsertSerial, ConfirmWriteSerial, ContainWriteSerial
       DEF IdentityStep, CreateCheck, ConfirmStamp, ContainRead, ContainStamp, ScanList,
           ScanNext, tables
  <2>4. CASE EngineStep(p) /\ UNCHANGED results
    BY <2>1, <2>2, <2>4, RecordSerial
       DEF EngineStep, CommStamp, CommDecide, CommCount, TamperStamp, tables
  <2>5. CASE VerifyStep(p)
    BY <2>1, <2>2, <2>5, VerifyStoreSerial
       DEF VerifyStep, VerifyRead, VerifyStamp, VerifyScan, tables
  <2> QED
    BY <1>3, <2>3, <2>4, <2>5 DEF Serve
<1> QED
  BY <1>2, <1>3

\* A thread without a request holds nothing.
LEMMA IdleFresh ==
    ASSUME IInv', NEW p \in Procs, job'[p] = Idle
    PROVE  FreshLocals(job[p])'
<1>1. /\ job'[p].at = 0 /\ job'[p].op = "none" /\ job'[p].pc = "idle"
  BY DEF Idle
<1>2. clock' \in Nat
  BY DEF IInv, MetersOK
<1> QED
  BY <1>1, <1>2 DEF FreshLocals, JustStamped, Copied, ContainPcs

LEMMA StepSerial ==
    ASSUME IInv, IInv', SerialInv, TrailMatchesRow, OneBusy, Advancing, [Next]_vars, [InTurn]_vars
    PROVE  SerialInv'
<1>1. SerialTables /\ clock \in Nat /\ \A p \in Procs : FreshLocals(job[p])
  BY DEF SerialInv, IInv, MetersOK
<1>2. CASE UNCHANGED vars
  <2>1. UNCHANGED <<tables, clock>> /\ job' = job
    BY <1>2 DEF vars, tables
  <2>2. ASSUME NEW p \in Procs PROVE FreshLocals(job[p])'
    BY <1>1, <2>1 DEF FreshLocals, JustStamped, Copied, Past, Tampered, tables
  <2> QED
    BY <1>1, <2>1, <2>2, SilentTables DEF SerialInv
<1>3. CASE Restart
  <2>1. UNCHANGED tables /\ UNCHANGED clock /\ \A p \in Procs : job'[p] = Idle
    BY <1>3 DEF Restart, tables
  <2> QED
    BY <1>1, <2>1, IdleFresh, SilentTables DEF SerialInv
<1>4. ASSUME NEW p \in Procs, Arrive(p) \/ Serve(p), InTurn PROVE SerialInv'
  <2>1. SerialTables' /\ FreshLocals(job[p])'
    BY <1>4, ThreadSerial
  <2>2. \A q \in Procs \ {p} : FreshLocals(job[q])'
    BY <1>4, OthersIdle, IdleFresh
  <2> QED
    BY <2>1, <2>2 DEF SerialInv
<1> QED
  BY <1>2, <1>3, <1>4 DEF Next, Quiet, vars

LEMMA SerialInvariant == ASSUME Advancing PROVE SerialSpec => []SerialInv
<1>1. IInv /\ IInv' /\ SerialInv /\ TrailMatchesRow /\ OneBusy /\ [Next]_vars /\ [InTurn]_vars
        => SerialInv'
  BY StepSerial
<1> QED
  BY <1>1, InitSerial, InductiveInvariant, TrailsMatchRows, TurnsKept, PTL DEF Spec, SerialSpec

\* Revocation and quarantine sever at once while requests do not overlap: a
\* request that simulate_request allowed carries an earlier time than every
\* containment of its workload, whatever was provisioned anew in between.
THEOREM ContainmentSevers == ASSUME Advancing PROVE SerialSpec => []Severed
<1>1. SerialInv => Severed
  BY DEF SerialInv, SerialTables
<1> QED
  BY <1>1, SerialInvariant, PTL

\* verify_workload_window is exact while requests do not overlap: a stored
\* verdict is FAIL if and only if an injected request was on record before it.
THEOREM VerdictsExact == ASSUME Advancing PROVE SerialSpec => []VerdictExact
<1>1. SerialInv => VerdictExact
  BY DEF SerialInv, SerialTables
<1> QED
  BY <1>1, SerialInvariant, PTL

\* identity_events is a history while requests do not overlap: each event
\* starts from the status the one before it ended in, and time never goes back.
THEOREM TrailsChain == ASSUME Advancing PROVE SerialSpec => []TrailChains
<1>1. SerialInv => TrailChains
  BY DEF SerialInv, SerialTables
<1> QED
  BY <1>1, SerialInvariant, PTL

\* Nothing settled is taken back while requests do not overlap: confirm_identity
\* keeps the owner of a confirmed workload, containment is final until a reset,
\* and neither the scan nor the probe detector quarantines a confirmed workload.
THEOREM SettledStaysSettled == ASSUME Advancing PROVE SerialSpec => NothingUndone
<1>1. IInv /\ SerialInv /\ [Next]_vars => [\A w \in Workloads : ~Undoes(w)]_vars
  <2> SUFFICES ASSUME IInv, SerialInv, [Next]_vars, NEW w \in Workloads, Undoes(w) PROVE FALSE
    OBVIOUS
  <2>1. PICK q \in Procs :
           /\ ConfirmWrite(q) \/ ContainWrite(q)
           /\ job[q].w = w /\ job'[q] # job[q]
           /\ Overtaken(q, w) \/ ClockBack(q)
    BY StepOverlaps
  <2>2. job[q] \in Job /\ LocalsOK(job[q]) /\ FreshLocals(job[q])
    BY DEF IInv, ThreadsOK, SerialInv
  <2>3. CASE ConfirmWrite(q)
    <3>1. job[q].row.status \in Pending /\ job[q].row = workloads[w]
      BY <2>1, <2>2, <2>3 DEF ConfirmWrite, At, LocalsOK, FreshLocals, Copied
    <3> QED
      BY <3>1 DEF Undoes, Pending, Contained
  <2>4. CASE ContainWrite(q)
    <3>1. job[q].pc = "contain_write" /\ job[q].op \in {"scan", "comm"}
      BY <2>1, <2>2, <2>4 DEF ContainWrite, At, LocalsOK, ContainPcs, Overtaken, ClockBack
    <3>2. workloads[w].status \in Pending
      BY <2>1, <2>2, <3>1 DEF FreshLocals, ContainPcs
    <3> QED
      BY <3>2 DEF Undoes, Pending, Contained
  <2> QED
    BY <2>1, <2>3, <2>4
<1> QED
  BY <1>1, SerialInvariant, InductiveInvariant, PTL DEF Spec, SerialSpec, NothingUndone

-----------------------------------------------------------------------------
(* Reuse of a signal *)

\* Between the check of a signal and the registration nobody else registers.
ReuseInv ==
    /\ ReuseDetected
    /\ \A p \in Procs :
          /\ job[p].pc = "create_check" => job[p].row.status # "STARTING"
          /\ job[p].pc = "create_insert" /\ job[p].row.status = "STARTING" =>
                ~Reused(job[p].row.signal, job[p].w)

LEMMA RegistersFrom ==
    ASSUME IInv, NEW p \in Procs, Arrive(p) \/ Serve(p), job'[p].pc \in CreatePcs, job' # job
    PROVE  \/ \E w \in Workloads, i \in Identities, form \in CreateForms :
                  CreateStart(p, w, i, form)
           \/ CreateCheck(p)
<1>1. job \in [Procs -> Job] /\ job[p] \in Job
  BY DEF IInv, ThreadsOK
<1>2. ASSUME NEW j, Continue(p, j) PROVE j.pc \in CreatePcs
  BY <1>1, <1>2 DEF Continue
<1>3. ~Elsewhere(p)
  BY <1>2 DEF Elsewhere
<1>4. ASSUME NEW v \in Workloads, NEW d \in Destinations, CommStart(p, v, d) PROVE FALSE
  <2>1. [Begin("comm", "comm_stamp", v) EXCEPT !.dest = d, !.row = workloads[v]].pc = "comm_stamp"
    BY DEF Begin, Idle
  <2> QED
    BY <1>2, <1>4, <2>1 DEF CommStart, CreatePcs
<1>5. ~CommStamp(p)
  <2>1. \A t : [job[p] EXCEPT !.pc = "comm_decide", !.at = t,
                              !.win = InWindow(job[p].row, t)].pc = "comm_decide"
    BY <1>1 DEF Job
  <2> QED
    BY <1>2, <2>1 DEF CommStamp, CreatePcs
<1>6. ~CommDecide(p)
  <2> DEFINE reason == Decide(job[p].row, job[p].win, PeerStatus(job[p].dest), job[p].dest)
             pc     == IF reason = None THEN "comm_count" ELSE "comm_insert"
             j      == [job[p] EXCEPT !.pc = pc, !.reason = reason]
  <2>1. pc \notin CreatePcs
    BY DEF CreatePcs
  <2>2. CommDecide(p) => Continue(p, j)
    BY DEF CommDecide
  <2> HIDE DEF reason, pc
  <2>3. j.pc = pc
    BY <1>1 DEF Job
  <2> HIDE DEF j
  <2> QED
    BY <1>2, <2>1, <2>2, <2>3
<1>7. ~CommCount(p)
  <2> DEFINE many == [job[p] EXCEPT !.pc = "contain_read",
                                    !.reason = "HOSTILE_RECONNAISSANCE_QUARANTINED",
                                    !.row.status = "QUARANTINED"]
             few  == [job[p] EXCEPT !.pc = "comm_insert", !.reason = "IDENTITY_AMBIGUOUS"]
  <2>1. many.pc = "contain_read" /\ few.pc = "comm_insert"
    BY <1>1 DEF Job
  <2>2. CommCount(p) => Continue(p, many) \/ Continue(p, few)
    BY DEF CommCount
  <2> HIDE DEF many, few
  <2> QED
    BY <1>2, <2>1, <2>2 DEF CreatePcs
<1>8. ~(ContainWrite(p) /\ job[p].op = "comm" /\ Present(job[p].w))
  <2> DEFINE insert == [job[p] EXCEPT !.pc = "comm_insert", !.old = None, !.evAt = 0]
  <2>1. insert.pc = "comm_insert"
    BY <1>1 DEF Job
  <2>2. ContainWrite(p) /\ job[p].op = "comm" /\ Present(job[p].w) => Continue(p, insert)
    BY DEF ContainWrite, AfterContain
  <2> HIDE DEF insert
  <2> QED
    BY <1>2, <2>1, <2>2 DEF CreatePcs
<1> QED
  BY <1>3, <1>4, <1>5, <1>6, <1>7, <1>8, ArriveElsewhere, ServeElsewhere

\* A write keeps the signal and the first event of every workload that has a
\* row, so only a new row can repeat a signal.
LEMMA SignalsKept ==
    ASSUME IInv, TrailMatchesRow, ReuseDetected,
           NEW w \in Workloads, NEW row, NEW trail, Appends(w, row, trail),
           Present(w) => workloads'[w].signal = workloads[w].signal,
           ~Present(w) =>
               /\ events'[w][1].new = workloads'[w].status
               /\ workloads'[w].status = "STARTING" => ~Reused(workloads'[w].signal, w)
    PROVE  ReuseDetected'
<1>1. /\ workloads \in [Workloads -> Row] /\ events \in [Workloads -> Seq(Event)]
      /\ trail \in Seq(Event)
      /\ workloads' = [workloads EXCEPT ![w] = row]
      /\ events' = [events EXCEPT ![w] = events[w] \o trail]
      /\ row.status \in Statuses
  BY DEF IInv, TablesOK, Appends, Write
<1>2. /\ events'[w] = events[w] \o trail /\ events[w] \in Seq(Event) /\ workloads'[w] = row
      /\ \A v \in Workloads \ {w} : workloads'[v] = workloads[v] /\ events'[v] = events[v]
  BY <1>1
<1>3. Present(w) => events'[w][1] = events[w][1]
  <2> SUFFICES ASSUME Present(w) PROVE events'[w][1] = events[w][1]
    OBVIOUS
  <2>1. events[w] # <<>>
    BY DEF TrailMatchesRow
  <2>2. 1 \in DOMAIN events[w]
    BY <1>2, <2>1, EmptySeq, LenProperties
  <2> QED
    BY <1>1, <1>2, <2>2, ConcatKeeps
<1>4. row.status # "ABSENT"
  BY <1>1 DEF Statuses, Pending, Contained
<1>5. \A v \in Workloads : Present(v)' => Present(v) \/ v = w
  BY <1>2 DEF Present
<1>6. ASSUME NEW v \in Workloads, v # w, Present(v)', events'[v][1].new = "STARTING",
             events'[w][1].new = "STARTING"
      PROVE  workloads'[v].signal # workloads'[w].signal
  <2>1. Present(v) /\ workloads'[v] = workloads[v] /\ events'[v] = events[v]
    BY <1>2, <1>6 DEF Present
  <2>2. CASE Present(w)
    BY <1>3, <1>6, <2>1, <2>2 DEF ReuseDetected
  <2>3. CASE ~Present(w)
    BY <1>6, <2>1, <2>3 DEF Reused
  <2> QED
    BY <2>2, <2>3
<1>7. ASSUME NEW u \in Workloads, NEW v \in Workloads, u # v, u # w, v # w,
             Present(u)', Present(v)',
             events'[u][1].new = "STARTING", events'[v][1].new = "STARTING"
      PROVE  workloads'[u].signal # workloads'[v].signal
  BY <1>2, <1>5, <1>7 DEF ReuseDetected
<1> QED
  BY <1>6, <1>7 DEF ReuseDetected

LEMMA WriteReuse ==
    ASSUME IInv, TrailMatchesRow, ReuseInv, NEW p \in Procs,
           CreateInsert(p) \/ ConfirmWrite(p) \/ ContainWrite(p)
    PROVE  ReuseDetected'
<1>1. job[p] \in Job /\ LocalsOK(job[p]) /\ workloads \in [Workloads -> Row]
      /\ events \in [Workloads -> Seq(Event)]
  BY DEF IInv, ThreadsOK, TablesOK
<1>2. CASE UNCHANGED <<workloads, events>>
  BY <1>2 DEF ReuseInv, ReuseDetected, Present
<1> DEFINE w == job[p].w
<1>3. ASSUME NEW row, NEW trail, w \in Workloads, Appends(w, row, trail) PROVE ReuseDetected'
  <2>1. workloads' = [workloads EXCEPT ![w] = row] /\ workloads'[w] = row
    BY <1>1, <1>3 DEF Appends, Write
  <2>2. row.status # "ABSENT"
    BY <1>3 DEF Appends, Statuses, Pending, Contained
  <2>3. CASE Present(w)
    <3>1. workloads'[w] = workloads[w] \/ workloads'[w].signal = workloads[w].signal
      <4>1. workloads[w] \in Row
        BY <1>1, <1>3
      <4>2. \A i, t : [workloads[w] EXCEPT !.confirmed = i, !.current = i, !.status = "CONFIRMED",
                                           !.confirmedAt = t].signal = workloads[w].signal
        BY <4>1 DEF Row
      <4>3. \A status : [workloads[w] EXCEPT !.status = status].signal = workloads[w].signal
        BY <4>1 DEF Row
      <4>4. ASSUME NEW r, NEW tr, Write(w, r, tr) PROVE workloads'[w] = r
        BY <1>1, <1>3, <4>4 DEF Write
      <4>5. CASE CreateInsert(p)
        <5>1. UNCHANGED workloads
          BY <2>3, <4>5 DEF CreateInsert
        <5> QED
          BY <5>1
      <4>6. CASE ConfirmWrite(p)
        <5> DEFINE new == [workloads[w] EXCEPT !.confirmed = job[p].arg, !.current = job[p].arg,
                                               !.status = "CONFIRMED", !.confirmedAt = job[p].at]
        <5>1. \E tr : Write(w, new, tr)
          BY <2>3, <4>6 DEF ConfirmWrite
        <5>2. new.signal = workloads[w].signal
          BY <4>2
        <5> HIDE DEF new
        <5> QED
          BY <4>4, <5>1, <5>2
      <4>7. CASE ContainWrite(p)
        BY <2>3, <4>3, <4>4, <4>7 DEF ContainWrite
      <4> QED
        BY <4>5, <4>6, <4>7
    <3> QED
      BY <1>3, <2>3, <3>1, SignalsKept DEF ReuseInv
  <2>4. CASE ~Present(w)
    <3>1. job[p].pc = "create_insert" /\ CreateInsert(p)
      BY <1>1, <2>1, <2>2, <2>4, <1>3 DEF CreateInsert, ConfirmWrite, ContainWrite, At, Present
    <3> DEFINE start == Started(job[p].row.status, job[p].at)
               found == [type |-> "AMBIGUITY_DETECTED", old |-> "STARTING",
                         new |-> "AMBIGUOUS", at |-> job[p].at]
               more  == IF job[p].reused /\ job[p].row.status = "AMBIGUOUS"
                          THEN <<found>> ELSE <<>>
    <3>2. Write(w, job[p].row, <<start>> \o more)
      BY <2>4, <3>1 DEF CreateInsert
    <3>3. start \in Event /\ found \in Event /\ start.new = job[p].row.status
      BY <1>1, <3>1 DEF LocalsOK, Job, Started, Event, EventTypes, Statuses, Pending
    <3> HIDE DEF start, found
    <3>4. <<start>> \in Seq(Event) /\ more \in Seq(Event) /\ 1 \in DOMAIN <<start>>
          /\ <<start>>[1] = start
      BY <3>3
    <3>5. events[w] = <<>>
      BY <1>3, <2>4 DEF TrailMatchesRow
    <3> HIDE DEF more
    <3>6. <<start>> \o more \in Seq(Event) /\ (<<start>> \o more)[1] = start
      BY <3>4, ConcatProperties, ConcatKeeps
    <3>7. events'[w] = <<start>> \o more /\ workloads'[w] = job[p].row
      BY <1>1, <1>3, <3>2, <3>5, <3>6, ConcatSimplifications DEF Write
    <3>8. /\ events'[w][1].new = workloads'[w].status
          /\ workloads'[w].status = "STARTING" => ~Reused(workloads'[w].signal, w)
      BY <3>1, <3>3, <3>6, <3>7 DEF ReuseInv
    <3> QED
      BY <1>3, <2>4, <3>8, SignalsKept DEF ReuseInv
  <2> QED
    BY <2>3, <2>4
<1> QED
  BY <1>2, <1>3, WriterAppends

LEMMA StepReuse ==
    ASSUME IInv, TrailMatchesRow, ReuseInv, OneBusy, [Next]_vars, [InTurn]_vars,
           \A form \in CreateForms : form.status # "STARTING"
    PROVE  ReuseInv'
<1>1. job \in [Procs -> Job] /\ \A p \in Procs : job[p] \in Job /\ LocalsOK(job[p])
  BY DEF IInv, ThreadsOK
<1>2. ReuseDetected'
  <2>1. CASE UNCHANGED <<workloads, events>>
    BY <2>1 DEF ReuseInv, ReuseDetected, Present
  <2>2. ASSUME NEW q \in Procs, Reset(q) PROVE ReuseDetected'
    BY <2>2 DEF Reset, ReuseDetected, Present, NoRow
  <2> QED
    BY <2>1, <2>2, OnlyWriters, WriteReuse
       DEF StepKinds, tables, CommInsert, TamperInsert, VerifyStore
<1> DEFINE Checked(p) ==
              /\ job[p].pc = "create_check" => job[p].row.status # "STARTING"
              /\ job[p].pc = "create_insert" /\ job[p].row.status = "STARTING" =>
                    ~Reused(job[p].row.signal, job[p].w)
<1>3. ASSUME NEW p \in Procs PROVE Checked(p)'
  <2>1. CASE job'[p].pc \notin CreatePcs
    BY <2>1 DEF CreatePcs
  <2>2. CASE job' = job /\ UNCHANGED workloads
    BY <1>1, <2>2 DEF ReuseInv, Reused, Present
  <2>3. ASSUME NEW w \in Workloads, NEW i \in Identities, NEW form \in CreateForms,
               CreateStart(p, w, i, form)
        PROVE  Checked(p)'
    <3>1. PICK t \in Readings :
            Continue(p, [Begin("create", "create_check", w) EXCEPT
                            !.at = t,
                            !.row = [NoRow EXCEPT !.signal = i, !.current = i,
                                                  !.confirmed = form.confirmed,
                                                  !.status = form.status,
                                                  !.started = t]])
      BY <2>3 DEF CreateStart
    <3>j. PICK j : j = [Begin("create", "create_check", w) EXCEPT
                            !.at = t,
                            !.row = [NoRow EXCEPT !.signal = i, !.current = i,
                                                  !.confirmed = form.confirmed,
                                                  !.status = form.status,
                                                  !.started = t]]
      OBVIOUS
    <3>2. j.pc = "create_check" /\ j.row.status = form.status
      BY <3>j DEF Begin, Idle, NoRow
    <3>3. job'[p] = j
      BY <1>1, <3>1, <3>j DEF Continue
    <3> QED
      BY <3>2, <3>3
  <2>4. CASE CreateCheck(p)
    <3> DEFINE reused == Reused(job[p].row.signal, job[p].w)
               row    == RowToInsert(job[p].row, reused, job[p].at)
    <3>j. PICK j : j = [job[p] EXCEPT !.pc = "create_insert", !.reused = reused, !.row = row]
      OBVIOUS
    <3>1. job[p].row \in Row /\ job[p].row.status # "STARTING" /\ job[p].pc = "create_check"
      BY <1>1, <2>4 DEF CreateCheck, At, ReuseInv, Job
    <3>2. row.status = "STARTING" => ~reused /\ row.signal = job[p].row.signal
      BY <3>1 DEF RowToInsert, Row
    <3> HIDE DEF row
    <3>3. j.pc = "create_insert" /\ j.row = row /\ j.w = job[p].w
      BY <1>1, <3>j DEF Job
    <3>4. job'[p] = j /\ UNCHANGED workloads
      BY <1>1, <2>4, <3>j DEF CreateCheck, Continue, row
    <3> QED
      BY <3>2, <3>3, <3>4 DEF Reused, Present
  <2>5. CASE UNCHANGED vars
    BY <2>2, <2>5 DEF vars
  <2>6. CASE Restart
    BY <1>1, <2>1, <2>6 DEF Restart, Idle, CreatePcs
  <2>7. CASE Arrive(p) \/ Serve(p)
    <3>1. CASE job' = job /\ ~UNCHANGED workloads
      <4>1. job[p].pc \in CreatePcs => Idle.pc # job[p].pc
        BY DEF CreatePcs, Idle
      <4>2. ASSUME job[p].pc \in CreatePcs PROVE FALSE
        <5>1. job[p] # Idle /\ InTurn
          BY <3>1, <4>1, <4>2 DEF vars
        <5>2. \A q \in Procs : ~Reset(q)
          BY <5>1 DEF InTurn, Arrive
        <5>3. ASSUME NEW q \in Procs, CreateInsert(q) \/ ConfirmWrite(q) \/ ContainWrite(q)
              PROVE  q = p
          <6>1. At(q, "create_insert") \/ At(q, "confirm_write") \/ At(q, "contain_write")
            BY <5>3 DEF CreateInsert, ConfirmWrite, ContainWrite
          <6>2. job[q] # Idle
            BY <6>1 DEF At, Idle
          <6> QED
            BY <5>1, <6>2 DEF OneBusy
        <5>4. ~CreateInsert(p)
          BY <1>1, <3>1, <5>1 DEF CreateInsert, Finish
        <5>5. ~ConfirmWrite(p) /\ ~ContainWrite(p)
          BY <4>2 DEF ConfirmWrite, ContainWrite, At, CreatePcs
        <5> QED
          BY <3>1, <5>2, <5>3, <5>4, <5>5, OnlyWriters
             DEF StepKinds, tables, CommInsert, TamperInsert, VerifyStore
      <4> QED
        BY <2>1, <3>1, <4>2
    <3> QED
      BY <1>1, <2>1, <2>2, <2>3, <2>4, <2>7, <3>1, RegistersFrom
  <2>8. ASSUME NEW q \in Procs, q # p, Arrive(q) \/ Serve(q), InTurn PROVE Checked(p)'
    BY <2>1, <2>8, OthersIdle DEF Idle, CreatePcs
  <2>9. CASE Quiet
    BY <2>5, <2>9 DEF Quiet
  <2> QED
    BY <2>5, <2>6, <2>7, <2>8, <2>9 DEF Next
<1> QED
  BY <1>2, <1>3 DEF ReuseInv

\* Reused signals are not trusted, as long as requests do not overlap: of two
\* workloads that reported the same signal check_identity_reuse let at most one
\* be registered as a clean STARTING workload.  Clients leave the status to the
\* server or pre-attest (the registration form offers nothing else): one that
\* asks for STARTING by name gets it unchecked.
THEOREM ReuseIsDetected ==
    ASSUME \A form \in CreateForms : form.status # "STARTING"
    PROVE  SerialSpec => []ReuseDetected
<1>1. Init => ReuseInv
  <2> SUFFICES ASSUME Init PROVE ReuseInv
    OBVIOUS
  <2>1. \A q \in Procs : job[q].pc = "idle"
    BY DEF Init, IdentityInit, Idle
  <2>2. \A v, w \in Workloads :
           v # w /\ Present(v) /\ Present(w) => workloads[v].signal # workloads[w].signal
    <3>1. \A w \in Workloads : Present(w) => w \in Registered
      BY DEF Init, IdentityInit, Present, NoRow
    <3> QED
      BY <3>1 DEF Init, IdentityInit
  <2> QED
    BY <2>1, <2>2 DEF ReuseInv, ReuseDetected
<1>2. IInv /\ TrailMatchesRow /\ ReuseInv /\ OneBusy /\ [Next]_vars /\ [InTurn]_vars => ReuseInv'
  BY StepReuse
<1>3. ReuseInv => ReuseDetected
  BY DEF ReuseInv
<1> QED
  BY <1>1, <1>2, <1>3, InductiveInvariant, TrailsMatchRows, TurnsKept, PTL DEF Spec, SerialSpec

=============================================================================

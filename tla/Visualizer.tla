----------------------------- MODULE Visualizer -----------------------------
(***************************************************************************)
(* The topology visualizer of the dashboard page (static/js/app.js): a     *)
(* selector, a panel that paints one workload and what it may reach, and   *)
(* buttons that post to the server.  Every handler ends at its first await *)
(* and goes on when the answer arrives, so answers meet a page that has    *)
(* moved on.  The server is abstract here: one step per request, its       *)
(* inner interleaving is that of module SegLabel.  Others use it too.      *)
(***************************************************************************)
EXTENDS Integers, FiniteSets, BagsExt, Bags

CONSTANTS
  Old, New,      \* the ids "W-OLD" and "W-NEW"
  Blank,         \* value of a selector without a matching option
  OldFound,      \* statuses W-OLD may have when the page is opened
  NewFound,      \* and W-NEW
  ProbeLimit,    \* window requests after which a probe quarantines (5)
  Lossy,         \* fetches may fail
  Shared,        \* other clients use the server
  MaxInFlight,   \* bound on requests under way when the user or a timer acts
  MaxClicks      \* bound on what users do, at this page and elsewhere

ASSUME VisualizerAssumption ==
  /\ Old # New /\ Blank \notin {Old, New}
  /\ Lossy \in BOOLEAN /\ Shared \in BOOLEAN
  /\ OldFound \cup NewFound \subseteq {"ABSENT", "AMBIGUOUS", "CONFIRMED", "QUARANTINED"}
  /\ ProbeLimit \in Nat /\ MaxInFlight \in Nat /\ MaxClicks \in Nat

VARIABLES
  server,        \* row of each workload
  net,           \* bag of requests, waiting or answered
  options,       \* options of visWorkloadSelector
  selected,      \* its value
  panel,         \* workload painted, with status, identity and life painted
  reloadDue,     \* the timer that reloads the page is set
  clicks

served == <<server, net>>
page == <<options, selected, panel, reloadDue>>
visVars == <<served, page, clicks>>

Workloads == {Old, New}
Ids == Workloads \cup {Blank}
Destinations == {"database", "payment-api", "student-api"}

(* DEFAULT_POLICIES, for the two identities of the demonstration. *)
Allows(ident, dest) ==
  \/ ident = "payment" /\ dest \in {"database", "payment-api"}
  \/ ident = "student" /\ dest = "student-api"

Statuses == {"ABSENT", "AMBIGUOUS", "CONFIRMED", "QUARANTINED"}
Identities == {"payment", "student"}

(* Pending statuses are one, contained ones are one.  No bound on probes:  *)
(* every post of the showcase may be one more.  born is history: how often *)
(* the id has been registered anew, each time with a row of its own.       *)
Row == [status : Statuses, ident : Identities, probes : Nat, breach : BOOLEAN,
        verdict : {"NONE", "PASS", "FAIL"}, born : Nat]

Fresh(status, ident, born) ==
  [status |-> status, ident |-> ident, probes |-> 0, breach |-> FALSE,
   verdict |-> "NONE", born |-> born]

Erased(row) == Fresh("ABSENT", "payment", row.born)

(* Rows a page may find: a reset leaves none, a demo W-NEW as a student.   *)
(* Under other identities rows come about elsewhere.                       *)
Servers ==
  {[w \in Ids |-> CASE w = Old -> Fresh(o, "payment", 0)
                    [] w = New -> Fresh(n, IF n = "CONFIRMED" THEN "student"
                                                              ELSE "payment", 0)
                    [] OTHER   -> Fresh("ABSENT", "payment", 0)] :
     o \in OldFound, n \in NewFound}

(* A request: what it asks, of which workload, for which step of the       *)
(* showcase (0: none), and the answer once the server has given it.        *)
Waiting == [is |-> "waiting", ident |-> "none", born |-> 0]
Request(kind, w, dest, step) ==
  [kind |-> kind, w |-> w, dest |-> dest, step |-> step, answer |-> Waiting]

Orphan == -1   \* as the step of a request: the page that sent it is gone

List       == Request("list", Blank, "none", 0)
Get(w)     == Request("get", w, "none", 0)
Confirm(w) == Request("confirm", w, "none", 0)
Reset      == Request("reset", Blank, "none", 0)

Room == BagCardinality(net) <= MaxInFlight

NoPanel == [w |-> Blank, status |-> "none", ident |-> "none", born |-> 0]

VisTypeOK ==
  /\ server \in [Ids -> Row]
  /\ IsABag(net)
  /\ options \subseteq Workloads /\ options # {}
  /\ selected \in Ids
  /\ panel \in [w : Workloads, status : Statuses \ {"ABSENT"},
                ident : Identities, born : Nat] \cup {NoPanel}
  /\ reloadDue \in BOOLEAN
  /\ clicks \in 0..MaxClicks

(* The page as served, with initHeroVisualizer's request for the list. *)
PageInit == /\ options = Workloads /\ selected = New
            /\ panel = NoPanel /\ reloadDue = FALSE

VisInit == /\ server \in Servers
           /\ net = BagAdd(EmptyBag, List)
           /\ PageInit
           /\ clicks = 0
-----------------------------------------------------------------------------
(* What the server does with a request. *)

Answered(r, is) == [r EXCEPT !.answer = [is |-> is, ident |-> "none", born |-> 0]]

Handle(r, answered) == net' = BagAdd(BagRemove(net, r), answered)

Asks(r, kind) == BagIn(r, net) /\ r.answer = Waiting /\ r.kind = kind

(* A denied request in the window is counted; past the limit it contains. *)
Probed(row) ==
  [row EXCEPT !.status = IF @ = "AMBIGUOUS" /\ row.probes >= ProbeLimit
                           THEN "QUARANTINED" ELSE @,
              !.probes = IF row.status = "AMBIGUOUS" THEN @ + 1 ELSE @]

Decision(row, dest) ==
  CASE row.status = "ABSENT" -> "ERROR"
    [] row.status = "CONFIRMED" /\ Allows(row.ident, dest) -> "ALLOW"
    [] OTHER -> "DENY"

HandleSend(r) ==
  /\ Asks(r, "send")
  /\ server' = [server EXCEPT ![r.w] = Probed(@)]
  /\ Handle(r, Answered(r, Decision(server[r.w], r.dest)))

Confirmable(row) ==
  row.status = "AMBIGUOUS" \/ (row.status = "CONFIRMED" /\ row.ident = "student")

Verdict(row) == IF row.breach THEN "FAIL" ELSE "PASS"

(* Confirmation as student, and the retroactive verification after it. *)
HandleConfirm(r) ==
  /\ Asks(r, "confirm")
  /\ IF Confirmable(server[r.w])
       THEN /\ server' = [server EXCEPT
                 ![r.w].status = "CONFIRMED", ![r.w].ident = "student",
                 ![r.w].verdict = Verdict(server[r.w])]
            /\ Handle(r, Answered(r, "OK"))
       ELSE /\ Handle(r, Answered(r, "ERROR"))
            /\ UNCHANGED server

(* inject_tampered_request records an ALLOW, a breach unless the window is *)
(* closed by then.                                                         *)
Bypassed(row) == [row EXCEPT !.breach = @ \/ row.status # "CONFIRMED",
                             !.probes = @ + 1]

HandleTamper(r) ==
  /\ Asks(r, "tamper")
  /\ IF server[r.w].status = "ABSENT"
       THEN UNCHANGED server /\ Handle(r, Answered(r, "ERROR"))
       ELSE /\ server' = [server EXCEPT ![r.w] = Bypassed(@)]
            /\ Handle(r, Answered(r, "OK"))

HandleReset(r) ==
  /\ Asks(r, "reset")
  /\ server' = [w \in Ids |-> Erased(server[w])]
  /\ Handle(r, Answered(r, "OK"))

HandleGet(r) ==
  /\ Asks(r, "get")
  /\ Handle(r, [r EXCEPT !.answer = [is    |-> server[r.w].status,
                                     ident |-> server[r.w].ident,
                                     born  |-> server[r.w].born]])
  /\ UNCHANGED server

Existing == {w \in Workloads : server[w].status # "ABSENT"}

HandleList(r) ==
  /\ Asks(r, "list")
  /\ Handle(r, Answered(r, CASE Existing = {}    -> "none"
                             [] Existing = {Old} -> "old"
                             [] Existing = {New} -> "new"
                             [] OTHER            -> "both"))
  /\ UNCHANGED server

Serve == /\ \E r \in BagToSet(net) :
              \/ HandleSend(r) \/ HandleConfirm(r) \/ HandleTamper(r)
              \/ HandleReset(r) \/ HandleGet(r) \/ HandleList(r)
         /\ UNCHANGED <<page, clicks>>
-----------------------------------------------------------------------------
(* What the page does with an answer. *)

Answers(r, kind) == /\ BagIn(r, net) /\ r.answer # Waiting /\ r.kind = kind
                    /\ r.step # Orphan

Receive(r) == net' = BagRemove(net, r)
ReceiveThenGet(r, w) == net' = BagAdd(BagRemove(net, r), Get(w))

(* Slip: of the two pending statuses one is forgotten. *)
IsStarting(status) == status = "STARTING"

(* A workload in its window; every other one is painted as confirmed. *)
IsAmbiguous(status) == status \in {"AMBIGUOUS", "STARTING"}

(* The destinations whose badge reads ALLOWED. *)
Unlocked(p) ==
  IF p = NoPanel \/ IsAmbiguous(p.status) THEN {}
  ELSE IF p.ident = "payment" THEN {"database", "payment-api"}
  ELSE {"student-api"}

(* updateHeroVisualizerState.  A workload the server does not know throws  *)
(* into the catch and leaves the panel as it was.                          *)
Paint(r) ==
  /\ Answers(r, "get")
  /\ Receive(r)
  /\ IF r.answer.is = "ABSENT"
       THEN UNCHANGED panel
       ELSE panel' = [w |-> r.w, status |-> r.answer.is,
                      ident |-> r.answer.ident, born |-> r.answer.born]
  /\ UNCHANGED <<options, selected, reloadDue>>

(* simulateVisualizerPacket and confirmVisualizerWorkload after the await, *)
(* success or not: the banner (module Stage), and the workload they were   *)
(* called for is painted again, selected or not.                           *)
Refresh(r) ==
  /\ Answers(r, "send") \/ Answers(r, "confirm")
  /\ ReceiveThenGet(r, r.w)
  /\ UNCHANGED page

ShowReset(r) ==
  /\ Answers(r, "reset")
  /\ Receive(r)
  /\ reloadDue' = TRUE
  /\ UNCHANGED <<options, selected, panel>>

(* The answer to the list replaces the options, which selects the newest   *)
(* workload whatever the user has selected meanwhile.                      *)
FillSelector(r) ==
  /\ Answers(r, "list")
  /\ IF r.answer.is = "none"
       THEN UNCHANGED <<options, selected>>
       ELSE /\ options' = CASE r.answer.is = "old"  -> {Old}
                            [] r.answer.is = "new"  -> {New}
                            [] r.answer.is = "both" -> Workloads
            /\ selected' = IF r.answer.is = "old" THEN Old ELSE New
  /\ ReceiveThenGet(r, selected')
  /\ UNCHANGED <<panel, reloadDue>>

(* The page an orphan's answer was for is gone. *)
Forget(r) == /\ BagIn(r, net) /\ r.answer # Waiting /\ r.step = Orphan
             /\ Receive(r)
             /\ UNCHANGED page

Deliver == /\ \E r \in BagToSet(net) :
                \/ Paint(r) \/ Refresh(r) \/ ShowReset(r) \/ FillSelector(r)
                \/ Forget(r)
           /\ UNCHANGED <<server, clicks>>

(* A fetch fails, before or after the server saw it: one line on the       *)
(* console.  A tampering post belongs to the showcase, which goes on.      *)
Fail == /\ \E r \in BagToSet(net) :
             /\ Lossy /\ (r.kind # "tamper" \/ r.step = Orphan)
             /\ Receive(r)
        /\ UNCHANGED <<server, page, clicks>>

(* Posts the server has not seen may still reach it after the page that    *)
(* sent them is gone.                                                      *)
Orphans == SetToBag({[r EXCEPT !.step = Orphan] :
                       r \in {q \in BagToSet(net) : /\ q.answer = Waiting
                                                    /\ q.kind \notin {"get", "list"}}})

Reload ==
  /\ reloadDue
  /\ options' = Workloads /\ selected' = New
  /\ panel' = NoPanel /\ reloadDue' = FALSE
  /\ net' = BagAdd(Orphans, List)
  /\ UNCHANGED <<server, clicks>>
-----------------------------------------------------------------------------
(* User actions. *)

Click == clicks < MaxClicks /\ clicks' = clicks + 1 /\ Room

(* Choosing w, by hand or by sel.value followed by a change event. *)
Choose(w) == IF w \in options THEN w ELSE Blank

Select(w) ==
  /\ Click /\ w \in options
  /\ selected' = w
  /\ net' = BagAdd(net, Get(w))
  /\ UNCHANGED <<server, options, panel, reloadDue>>

(* simulateVisualizerPacket and confirmVisualizerWorkload, up to the       *)
(* await: for the workload selected now.                                   *)
Send(dest, step) == Request("send", selected, dest, step)

ClickSend == /\ Click
             /\ \E d \in Destinations : net' = BagAdd(net, Send(d, 0))
             /\ UNCHANGED <<server, page>>

ClickConfirm == /\ Click
                /\ net' = BagAdd(net, Confirm(selected))
                /\ UNCHANGED <<server, page>>

ClickReset == /\ Click
              /\ net' = BagAdd(net, Reset)
              /\ UNCHANGED <<server, page>>

(* Other clients do to a workload what this page may ask, and more: delete *)
(* it (run_security_demo, reset_db), register it anew with a status of     *)
(* their choice (create_workload), confirm it under any identity, contain  *)
(* it, probe it, tamper with it.                                           *)
Elsewhere ==
  /\ Shared /\ clicks < MaxClicks /\ clicks' = clicks + 1
  /\ \E w \in Workloads, status \in Statuses \ {"ABSENT"}, ident \in Identities :
       LET row == server[w] IN
       /\ server' \in {[server EXCEPT ![w] = changed] : changed \in
            IF row.status = "ABSENT"
              THEN {Fresh(status, ident, row.born + 1)}
              ELSE {Erased(row), Probed(row), Bypassed(row),
                    [row EXCEPT !.status = "QUARANTINED"],
                    [row EXCEPT !.status = "CONFIRMED", !.ident = ident,
                                !.verdict = Verdict(row)]}}
  /\ UNCHANGED <<net, page>>

VisUser == \/ \E w \in Workloads : Select(w)
           \/ ClickSend \/ ClickConfirm \/ ClickReset
-----------------------------------------------------------------------------
(* Properties of the panel. *)

(* Fail-closed to the eye: however late or out of order answers arrive,    *)
(* the panel never paints a destination ALLOWED for a workload that is     *)
(* still in its window (updateHeroVisualizerState paints old answers)      *)
(* unless the workload painted is gone and another registered as it.       *)
PanelFailsClosed ==
  Unlocked(panel) # {} /\ panel.born = server[panel.w].born =>
    server[panel.w].status # "AMBIGUOUS"

=============================================================================

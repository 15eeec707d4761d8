----------------------------- MODULE PagesProofs -----------------------------
(***************************************************************************)
(* Proofs about the dashboard pages, for any workloads and rules, any      *)
(* number of actions, overlapping calls and answers in any order.          *)
(***************************************************************************)
EXTENDS Pages, FiniteSetTheorems, SequenceTheorems, TLAPS

Kinds == {"stats", "fleet", "events", "policies", "audit", "send", "verify", "tamper",
          "delete", "add", "reset"}

Words == {"waiting", "ok", "ALLOW", "DENY", "ERROR", "PASS", "FAIL"}

Replies == [is : Words, found : SUBSET (Workloads \cup EventKinds \cup Rules), count : Nat]

Calls == [kind : Kinds, arg : Workloads \cup {Blank} \cup Rules, nr : Nat, answer : Replies]

(* Each kind of call names what it is about and comes from one page.       *)
Addressed(c) ==
  /\ c.kind \in {"send", "verify", "tamper"} => c.arg \in Workloads
  /\ c.kind \in {"delete", "add"} => c.arg \in Rules
  /\ c.kind = "send" => page \in SimulatorPages
  /\ c.kind = "stats" => page = "index"
  /\ c.kind = "events" => page = "events"
  /\ c.kind \in {"verify", "tamper"} => page = "verification"
  /\ c.kind \in {"policies", "delete", "add"} => page = "policies"
  /\ c.kind = "policies" => c.nr \in 1..sent

(* What the answer to a call can say.                                      *)
AnsweredOK(c) ==
  c.answer # Waiting =>
    /\ c.kind = "fleet" => c.answer.found \subseteq Workloads
    /\ c.kind = "events" => c.answer.found \subseteq EventKinds
    /\ c.kind = "policies" => c.answer.found \subseteq Rules
    /\ c.kind = "stats" => c.answer.count \in 0..Cardinality(Workloads)
    /\ c.kind = "send" => c.answer.is \in {"ALLOW", "DENY", "ERROR"}
    /\ c.kind = "verify" => c.answer.is \in {"PASS", "FAIL", "ERROR"}

CallOK(c) == c \in Calls /\ Addressed(c) /\ AnsweredOK(c)

CallsOK == IsABag(calls) /\ \A c \in BagToSet(calls) : CallOK(c)

(* Nothing is under way before app.js runs.                                *)
LoadingOK ==
  /\ page \in Pages /\ running \in BOOLEAN
  /\ scripts \in {<<>>, <<"app">>, <<"inline", "app">>}
  /\ running => scripts = <<>>
  /\ ~running => calls = EmptyBag /\ astray = EmptyBag

EditsRule(c) == c.kind \in {"add", "delete"} => c.arg \in Rules

ServerOK ==
  /\ options \subseteq Workloads /\ chosen \in options \cup {Blank}
  /\ fleet \in [Workloads -> Row] /\ trail \subseteq EventKinds /\ rules \subseteq Rules
  /\ actions \in 0..MaxActions
  /\ IsABag(astray) /\ \A c \in BagToSet(astray) : EditsRule(c)

BoxOK == SimulatorTypeOK /\ DecisionsAgree

TerminalOK == terminal \in {"idle", "running", "report"} /\ unheard \in BOOLEAN

(* A count under way ends at 100%: it must not end over a lasting FAIL.    *)
GaugeOK ==
  /\ VerificationTypeOK /\ GaugeSettles
  /\ attached => running /\ page = "verification"
  /\ rising > 0 /\ verdict = "FAIL" => overrun

(* The newest count goes to the number last asked for.                     *)
CountOK ==
  /\ CountTypeOK /\ CounterSettles
  /\ counts # <<>> => Last(counts).to = goal \/ skipped

EventsOK ==
  /\ cache \subseteq EventKinds /\ listed \subseteq EventKinds
  /\ filter \in {"ALL"} \cup EventKinds
  /\ badge \in 0..Cardinality(EventKinds)
  /\ EventsFiltered

AlertOK == alert \in 0..Cardinality(Workloads) /\ shaking \in Nat /\ AlertBacked

Edits == InFlight("add") \cup InFlight("delete")

(* The last load tells what the rules are now, as its answer or shown.     *)
Latest ==
  /\ \A c \in InFlight("policies") : c.nr = sent /\ c.answer # Waiting => c.answer.found = rules
  /\ newest = sent /\ ~overtaken => table = rules

(* The last load was sent after every edit that was answered, so while no  *)
(* edit is under way nothing this tab knows of changed the rules since;    *)
(* what it does not know of is unseen.                                     *)
RulesOK ==
  /\ table \subseteq Rules /\ sent \in Nat /\ newest \in 0..sent
  /\ overtaken \in BOOLEAN /\ unseen \in BOOLEAN
  /\ ~running => sent = 1 /\ newest = 0
  /\ Live("policies") =>
       /\ unseen \/ newest = sent \/ \E c \in InFlight("policies") : c.nr = sent
       /\ InFlight("reset") # {} \/ astray # EmptyBag => unseen
       /\ Edits = {} /\ ~unseen => Latest

IInv == /\ LoadingOK /\ ServerOK /\ CallsOK /\ BoxOK /\ GaugeOK /\ CountOK
        /\ EventsOK /\ AlertOK /\ RulesOK

LEMMA Promises ==
  IInv => TablesConsistent /\ DecisionsAgree /\ AnimationsSettle /\ ReadYourWrites
<1> SUFFICES ASSUME IInv
             PROVE  TablesConsistent /\ DecisionsAgree /\ AnimationsSettle /\ ReadYourWrites
  OBVIOUS
<1> USE DEF IInv
<1>1. TypeOK
  <2>1. ShellTypeOK
    BY DEF LoadingOK, ServerOK, CallsOK, ShellTypeOK
  <2>2. TablesTypeOK
    BY DEF EventsOK, AlertOK, RulesOK, TablesTypeOK
  <2> QED
    BY <2>1, <2>2 DEF TypeOK, CountOK, BoxOK, GaugeOK
<1>2. TablesConsistent
  BY <1>1 DEF TablesConsistent, EventsOK, AlertOK
<1>3. DecisionsAgree /\ AnimationsSettle
  BY DEF BoxOK, AnimationsSettle, GaugeOK, CountOK
<1>4. ASSUME Live("policies"), RuleCalls = {}, ~overtaken, ~unseen PROVE table = rules
  <2>1. InFlight("policies") = {} /\ Edits = {}
    BY <1>4 DEF RuleCalls, Edits
  <2> QED
    BY <1>4, <2>1 DEF RulesOK, Latest
<1> QED
  BY <1>2, <1>3, <1>4 DEF ReadYourWrites
-----------------------------------------------------------------------------
(* Bags of calls. *)

LEMMA AddBag ==
  ASSUME NEW B, IsABag(B), NEW c
  PROVE  IsABag(BagAdd(B, c)) /\ BagToSet(BagAdd(B, c)) = BagToSet(B) \cup {c}
<1>1. BagToSet(BagAdd(B, c)) = BagToSet(B) \cup {c}
  BY DEF BagToSet, BagAdd
<1>2. IsABag(BagAdd(B, c))
  BY DEF IsABag, BagAdd
<1> QED
  BY <1>1, <1>2

LEMMA RemoveBag ==
  ASSUME NEW B, IsABag(B), NEW c
  PROVE  /\ IsABag(BagRemove(B, c))
         /\ BagToSet(BagRemove(B, c)) \subseteq BagToSet(B)
         /\ BagToSet(B) \subseteq BagToSet(BagRemove(B, c)) \cup {c}
<1>1. IsABag(BagRemove(B, c))
  <2>1. CASE c \notin DOMAIN B
    BY <2>1 DEF BagRemove
  <2>2. CASE c \in DOMAIN B /\ B[c] = 1
    BY <2>2 DEF IsABag, BagRemove
  <2>3. CASE c \in DOMAIN B /\ B[c] # 1
    BY <2>3 DEF IsABag, BagRemove
  <2> QED
    BY <2>1, <2>2, <2>3
<1>2. /\ BagToSet(BagRemove(B, c)) \subseteq BagToSet(B)
      /\ BagToSet(B) \subseteq BagToSet(BagRemove(B, c)) \cup {c}
  BY DEF BagToSet, BagRemove
<1> QED
  BY <1>1, <1>2

LEMMA SetBag == ASSUME NEW S PROVE IsABag(SetToBag(S)) /\ BagToSet(SetToBag(S)) = S
  BY DEF IsABag, BagToSet, SetToBag

LEMMA JoinBags ==
  ASSUME NEW B, NEW C, IsABag(B), IsABag(C)
  PROVE  IsABag(B (+) C) /\ BagToSet(B (+) C) = BagToSet(B) \cup BagToSet(C)
<1>1. BagToSet(B (+) C) = BagToSet(B) \cup BagToSet(C)
  BY DEF BagToSet, (+)
<1>2. IsABag(B (+) C)
  BY DEF IsABag, (+)
<1> QED
  BY <1>1, <1>2

LEMMA NoCalls == IsABag(EmptyBag) /\ BagToSet(EmptyBag) = {}
  BY SetBag DEF EmptyBag

(* Something under way means that app.js runs.                             *)
LEMMA Busy == ASSUME LoadingOK, NEW c \in BagToSet(calls) PROVE running /\ scripts = <<>>
  BY NoCalls DEF LoadingOK

LEMMA CallsStep ==
  ASSUME CallsOK, UNCHANGED page, sent \in Nat, sent' \in Nat, sent <= sent', IsABag(calls'),
         \A c \in BagToSet(calls') : c \in BagToSet(calls) \/ CallOK(c)'
  PROVE  CallsOK'
<1>1. ASSUME NEW c, CallOK(c) PROVE CallOK(c)'
  BY <1>1 DEF CallOK, Addressed, AnsweredOK
<1>2. ASSUME NEW c \in BagToSet(calls') PROVE CallOK(c)'
  BY <1>1, <1>2 DEF CallsOK
<1>3. BagToSet(calls)' = BagToSet(calls')
  OBVIOUS
<1> QED
  BY <1>2, <1>3 DEF CallsOK

LEMMA Waits ==
  ASSUME NEW kind \in Kinds, NEW arg \in Workloads \cup {Blank} \cup Rules, NEW nr \in Nat
  PROVE  /\ Call(kind, arg, nr) \in Calls
         /\ Call(kind, arg, nr).kind = kind /\ Call(kind, arg, nr).arg = arg
         /\ Call(kind, arg, nr).nr = nr /\ Call(kind, arg, nr).answer = Waiting
         /\ AnsweredOK(Call(kind, arg, nr))
<1>1. Waiting \in Replies
  BY DEF Waiting, Replies, Words
<1> QED
  BY <1>1 DEF Call, Calls, AnsweredOK

(* A call of a kind that any page may make.                                *)
LEMMA PlainCall ==
  ASSUME NEW kind \in {"fleet", "audit", "reset"}
  PROVE  CallOK(Call(kind, Blank, 0))'
<1>1. kind \in Kinds
  BY DEF Kinds
<1> QED
  BY <1>1, Waits DEF CallOK, Addressed, AnsweredOK

LEMMA Sent ==
  ASSUME CallsOK, UNCHANGED <<page, sent>>, sent \in Nat, NEW c, CallOK(c)', calls' = BagAdd(calls, c)
  PROVE  /\ CallsOK'
         /\ \A kind : InFlight(kind) \subseteq InFlight(kind)'
         /\ \A kind : kind # c.kind => InFlight(kind)' = InFlight(kind)
         /\ InFlight(c.kind)' = InFlight(c.kind) \cup {c}
<1>1. IsABag(calls') /\ BagToSet(calls') = BagToSet(calls) \cup {c}
  BY AddBag DEF CallsOK
<1>2. CallsOK'
  BY <1>1, CallsStep
<1> QED
  BY <1>1, <1>2 DEF InFlight

LEMMA Gotten ==
  ASSUME CallsOK, UNCHANGED <<page, sent>>, sent \in Nat, NEW c \in BagToSet(calls), calls' = Received(c)
  PROVE  /\ CallsOK'
         /\ \A kind : InFlight(kind)' \subseteq InFlight(kind)
         /\ \A kind : kind # c.kind => InFlight(kind)' = InFlight(kind)
         /\ InFlight(c.kind) \subseteq InFlight(c.kind)' \cup {c}
<1>1. /\ IsABag(calls') /\ BagToSet(calls') \subseteq BagToSet(calls)
      /\ BagToSet(calls) \subseteq BagToSet(calls') \cup {c}
  BY RemoveBag DEF CallsOK, Received
<1>2. CallsOK'
  BY <1>1, CallsStep
<1> QED
  BY <1>1, <1>2 DEF InFlight

LEMMA Exchanged ==
  ASSUME CallsOK, UNCHANGED <<page, sent>>, sent \in Nat, NEW c \in BagToSet(calls), NEW d, CallOK(d)',
         calls' = BagAdd(Received(c), d)
  PROVE  /\ CallsOK'
         /\ \A kind : InFlight(kind)' \subseteq InFlight(kind) \cup {d}
         /\ \A kind : kind \notin {c.kind, d.kind} => InFlight(kind)' = InFlight(kind)
         /\ InFlight(c.kind) \subseteq InFlight(c.kind)' \cup {c}
         /\ d \in InFlight(d.kind)'
<1>1. /\ IsABag(Received(c)) /\ BagToSet(Received(c)) \subseteq BagToSet(calls)
      /\ BagToSet(calls) \subseteq BagToSet(Received(c)) \cup {c}
  BY RemoveBag DEF CallsOK, Received
<1>2. IsABag(calls') /\ BagToSet(calls') = BagToSet(Received(c)) \cup {d}
  BY <1>1, AddBag
<1>3. CallsOK'
  BY <1>1, <1>2, CallsStep
<1> QED
  BY <1>1, <1>2, <1>3 DEF InFlight

-----------------------------------------------------------------------------
(* What a step leaves alone. *)

LEMMA SameLoading ==
  ASSUME LoadingOK, UNCHANGED loading, running \/ UNCHANGED <<calls, astray>> PROVE LoadingOK'
  BY DEF LoadingOK, loading

LEMMA SameServer ==
  ASSUME ServerOK, UNCHANGED <<selector, server>>, actions' \in 0..MaxActions PROVE ServerOK'
  BY DEF ServerOK, selector, server, records

LEMMA SameBox ==
  ASSUME BoxOK, UNCHANGED <<simulator, page>>, InFlight("send") # {} => InFlight("send")' # {}
  PROVE  BoxOK'
  BY DEF BoxOK, SimulatorTypeOK, DecisionsAgree, simulator

LEMMA SameGauge ==
  ASSUME GaugeOK, UNCHANGED <<attached, verdict, gauge, rising, overrun>>, UNCHANGED loading,
         TerminalOK'
  PROVE  GaugeOK'
  BY DEF GaugeOK, VerificationTypeOK, TerminalOK, GaugeSettles, loading

LEMMA SameCount == ASSUME CountOK, UNCHANGED counting PROVE CountOK'
  BY DEF CountOK, CountTypeOK, CounterSettles, counting

LEMMA SameEvents == ASSUME EventsOK, UNCHANGED events PROVE EventsOK'
  BY DEF EventsOK, EventsFiltered, events

LEMMA SameAlert ==
  ASSUME AlertOK, UNCHANGED <<page, stats>>, page = "index" => UNCHANGED goal PROVE AlertOK'
  BY DEF AlertOK, AlertBacked, stats

(* Only the policies page has rules to be right about.                     *)
LEMMA OtherRules ==
  ASSUME RulesOK, UNCHANGED policies, ~Live("policies")', ~running' => ~running PROVE RulesOK'
  BY DEF RulesOK, policies

LEMMA SameRules ==
  ASSUME RulesOK, UNCHANGED <<policies, loading, rules>>,
         InFlight("policies")' = InFlight("policies"),
         InFlight("reset")' \subseteq InFlight("reset"),
         astray' # EmptyBag => astray # EmptyBag \/ unseen,
         Edits # {} => Edits' # {}
  PROVE  RulesOK'
<1>1. ASSUME Latest PROVE Latest'
  BY <1>1 DEF Latest, policies
<1>2. ASSUME Live("policies")'
      PROVE  /\ unseen' \/ newest' = sent' \/ \E c \in InFlight("policies")' : c.nr = sent'
             /\ InFlight("reset")' # {} \/ astray' # EmptyBag => unseen'
             /\ Edits' = {} /\ ~unseen' => Latest'
  <2>1. Live("policies")
    BY <1>2 DEF Live, loading
  <2> QED
    BY <1>1, <2>1 DEF RulesOK, policies
<1> QED
  BY <1>2 DEF RulesOK, policies, loading

LEMMA Acted == ASSUME ServerOK, Act PROVE actions' \in 0..MaxActions
  BY ShellAssumption DEF ServerOK, Act

-----------------------------------------------------------------------------
(* Loading. *)

LEMMA Finite == IsFiniteSet(EventKinds) /\ Cardinality(Workloads) \in Nat
<1>1. IsFiniteSet({"STARTUP"})
  BY FS_Singleton
<1>2. IsFiniteSet({"STARTUP"} \cup {"COLLISION"})
  BY <1>1, FS_AddElement
<1>3. IsFiniteSet(({"STARTUP"} \cup {"COLLISION"}) \cup {"CONFIRMED"})
  BY <1>2, FS_AddElement
<1>4. EventKinds = ({"STARTUP"} \cup {"COLLISION"}) \cup {"CONFIRMED"}
  BY DEF EventKinds
<1> QED
  BY <1>3, <1>4, ShellAssumption, FS_CardinalityType

LEMMA PartOf ==
  ASSUME NEW S, IsFiniteSet(S), NEW T \in SUBSET S PROVE Cardinality(T) \in 0..Cardinality(S)
<1>1. IsFiniteSet(T) /\ Cardinality(T) <= Cardinality(S)
  BY FS_Subset
<1> QED
  BY <1>1, FS_CardinalityType

LEMMA InitOK == Init => IInv
<1> SUFFICES ASSUME Init PROVE IInv
  OBVIOUS
<1> USE DEF Init, ShellInit, CountInit, SimulatorInit, VerificationInit, TablesInit
<1>1. /\ running \in BOOLEAN /\ attached \in BOOLEAN /\ overrun \in BOOLEAN /\ skipped \in BOOLEAN
      /\ dropped \in BOOLEAN /\ unheard \in BOOLEAN /\ overtaken \in BOOLEAN /\ unseen \in BOOLEAN
  BY Zenon
<1>2. CallsOK
  BY NoCalls DEF CallsOK
<1>3. LoadingOK
  BY <1>1 DEF LoadingOK
<1>4. ServerOK
  <2>1. PICK s \in {"PENDING", "CONFIRMED"} : fleet = [w \in Workloads |-> [status |-> s, breaches |-> 0]]
    OBVIOUS
  <2>2. [status |-> s, breaches |-> 0] \in Row
    BY <2>1, ShellAssumption DEF Row, Statuses
  <2> QED
    BY <2>1, <2>2, NoCalls, ShellAssumption DEF ServerOK, EventKinds
<1>5. BoxOK
  BY DEF BoxOK, SimulatorTypeOK, DecisionsAgree
<1>6. GaugeOK
  BY <1>1 DEF GaugeOK, VerificationTypeOK, TerminalOK, GaugeSettles
<1>7. CountOK
  BY <1>1 DEF CountOK, CountTypeOK, CounterSettles
<1>8. EventsOK
  <2>1. badge = 0 /\ Cardinality({}) = 0
    BY FS_EmptySet
  <2>2. badge \in 0..Cardinality(EventKinds)
    BY <2>1, Finite, FS_CardinalityType
  <2> QED
    BY <2>1, <2>2 DEF EventsOK, EventsFiltered, Matching
<1>9. AlertOK
  BY Finite DEF AlertOK, AlertBacked
<1>10. RulesOK
  BY <1>1 DEF RulesOK, Live
<1> QED
  BY <1>2, <1>3, <1>4, <1>5, <1>6, <1>7, <1>8, <1>9, <1>10 DEF IInv

LEMMA FirstCallsOK ==
  ASSUME page \in Pages, UNCHANGED page, sent = 1, sent' = 1
  PROVE  /\ IsABag(FirstCalls)
         /\ \A c \in BagToSet(FirstCalls) : c.answer = Waiting /\ CallOK(c)' /\ c.kind # "reset"
         /\ page = "policies" => Load(1) \in BagToSet(FirstCalls)
<1> DEFINE S == CASE page = "index"    -> {Call("stats", Blank, 0), Call("fleet", Blank, 0)}
                  [] page = "events"   -> {Call("events", Blank, 0)}
                  [] page = "policies" -> {Call("policies", Blank, 1)}
                  [] page \in {"simulator", "verification", "workloads"}
                                       -> {Call("fleet", Blank, 0)}
                  [] page = "audit"    -> {Call("audit", Blank, 0)}
<1>1. FirstCalls = SetToBag(S)
  BY DEF FirstCalls
<1>2. IsABag(FirstCalls) /\ BagToSet(FirstCalls) = S
  BY <1>1, SetBag
<1>3. ASSUME NEW c \in S
      PROVE  \/ \E kind \in {"fleet", "audit"} : c = Call(kind, Blank, 0)
             \/ page = "index" /\ c = Call("stats", Blank, 0)
             \/ page = "events" /\ c = Call("events", Blank, 0)
             \/ page = "policies" /\ c = Call("policies", Blank, 1)
  BY <1>3 DEF Pages
<1>4. page = "policies" => Load(1) \in S
  BY DEF Load
<1>5. ASSUME NEW c \in S PROVE c.answer = Waiting /\ CallOK(c)' /\ c.kind # "reset"
  <2>1. ASSUME NEW kind \in {"fleet", "audit"}, c = Call(kind, Blank, 0)
        PROVE  c.answer = Waiting /\ CallOK(c)' /\ c.kind # "reset"
    BY <2>1, Waits, PlainCall DEF Kinds
  <2>2. ASSUME NEW kind \in {"stats", "events", "policies"}, NEW nr \in {0, 1}, c = Call(kind, Blank, nr),
               page = (CASE kind = "stats" -> "index" [] kind = "events" -> "events" [] OTHER -> "policies"),
               kind = "policies" => nr = 1
        PROVE  c.answer = Waiting /\ CallOK(c)' /\ c.kind # "reset"
    <3>1. /\ c \in Calls /\ c.kind = kind /\ c.nr = nr /\ c.answer = Waiting /\ AnsweredOK(c)
      <4>1. kind \in Kinds /\ nr \in Nat /\ Blank \in Workloads \cup {Blank} \cup Rules
        BY DEF Kinds
      <4> QED
        BY <2>2, <4>1, Waits
    <3>2. Addressed(c)'
      BY <2>2, <3>1 DEF Addressed
    <3> QED
      BY <2>2, <3>1, <3>2 DEF CallOK, AnsweredOK
  <2> QED
    BY <1>3, <1>5, <2>1, <2>2
<1> QED
  BY <1>2, <1>4, <1>5

LEMMA EvaluateOK == ASSUME IInv, Evaluate, Idle PROVE IInv'
<1> USE DEF IInv
<1>1. scripts # <<>> /\ ~running /\ calls = EmptyBag /\ astray = EmptyBag
  BY DEF Evaluate, LoadingOK
<1>2. UNCHANGED <<page, options, chosen, fleet, trail, rules, astray, actions>>
  BY DEF Evaluate, selector, server, records
<1>3. scripts' \in {<<>>, <<"app">>} /\ (scripts' # <<>> => Head(scripts) = "inline")
  <2>1. scripts = <<"app">> \/ scripts = <<"inline", "app">>
    BY <1>1 DEF LoadingOK
  <2>2. scripts' = Tail(scripts)
    BY DEF Evaluate
  <2>3. Tail(<<"app">>) = <<>> /\ Tail(<<"inline", "app">>) = <<"app">> /\ Head(<<"inline", "app">>) = "inline"
    OBVIOUS
  <2> QED
    BY <2>1, <2>2, <2>3
<1>4. \/ UNCHANGED <<running, calls>>
      \/ running' = (Head(scripts) = "app") /\ calls' = IF running' THEN FirstCalls ELSE calls
  BY DEF Evaluate
<1>5. running' \in BOOLEAN /\ (running' => Head(scripts) = "app" /\ calls' = FirstCalls)
      /\ (~running' => calls' = EmptyBag)
  <2>1. CASE UNCHANGED <<running, calls>>
    BY <1>1, <2>1 DEF LoadingOK
  <2>2. CASE running' = (Head(scripts) = "app") /\ calls' = IF running' THEN FirstCalls ELSE calls
    <3>1. running' \in BOOLEAN /\ (running' => Head(scripts) = "app")
      BY <2>2, Zenon
    <3> QED
      BY <1>1, <2>2, <3>1
  <2> QED
    BY <1>4, <2>1, <2>2
<1>6. LoadingOK'
  BY <1>1, <1>2, <1>3, <1>5 DEF LoadingOK
<1>7. page \in Pages /\ sent = 1 /\ newest = 0 /\ sent' = 1 /\ UNCHANGED policies
  BY <1>1 DEF LoadingOK, RulesOK, Idle, policies
<1>8. CallsOK'
  <2>1. CASE running'
    BY <1>2, <1>5, <1>7, <2>1, FirstCallsOK DEF CallsOK
  <2>2. CASE ~running'
    BY <1>5, <2>2, NoCalls DEF CallsOK
  <2> QED
    BY <2>1, <2>2
<1>9. ServerOK'
  BY <1>2 DEF ServerOK
<1>10. InFlight("send") = {} /\ ~attached
  BY <1>1, NoCalls DEF InFlight, GaugeOK
<1>11. BoxOK'
  BY <1>2, <1>10, SameBox DEF Idle
<1>12. GaugeOK'
  BY <1>10 DEF GaugeOK, VerificationTypeOK, TerminalOK, GaugeSettles, Idle, verification
<1>13. CountOK' /\ EventsOK' /\ AlertOK'
  BY <1>2, SameCount, SameEvents, SameAlert DEF Idle, counting
<1>14. RulesOK'
  <2>1. CASE ~Live("policies")'
    BY <1>7, <2>1 DEF RulesOK, policies
  <2>2. CASE Live("policies")'
    <3>1. running' /\ page = "policies" /\ calls' = FirstCalls
      BY <1>2, <1>5, <2>2 DEF Live
    <3>2. /\ \A c \in BagToSet(calls') : c.answer = Waiting /\ c.kind # "reset"
          /\ Load(1) \in BagToSet(calls')
      BY <1>2, <1>7, <3>1, FirstCallsOK
    <3>3. Load(1).kind = "policies" /\ Load(1).nr = 1
      BY DEF Load, Call
    <3>4. InFlight("reset")' = {} /\ Load(1) \in InFlight("policies")'
      BY <3>2, <3>3 DEF InFlight
    <3>5. Latest'
      BY <1>7, <3>2 DEF Latest, InFlight, policies
    <3> QED
      BY <1>1, <1>2, <1>7, <3>1, <3>3, <3>4, <3>5 DEF RulesOK, policies
  <2> QED
    BY <2>1, <2>2
<1> QED
  BY <1>6, <1>8, <1>9, <1>11, <1>12, <1>13, <1>14

-----------------------------------------------------------------------------
(* The server. *)

LEMMA AnswerTyped ==
  ASSUME ServerOK, NEW c \in Calls, Addressed(c)
  PROVE  /\ Answer(c) \in Replies
         /\ AnsweredOK([c EXCEPT !.answer = Answer(c)])
<1> DEFINE d == [c EXCEPT !.answer = Answer(c)]
<1>1. Waiting = [is |-> "waiting", found |-> {}, count |-> 0]
  BY DEF Waiting
<1>2. ASSUME NEW is \in Words PROVE Reply(is) = [is |-> is, found |-> {}, count |-> 0]
  BY <1>1 DEF Reply
<1>3. ASSUME NEW rows
      PROVE  Listing(rows) = [is |-> "ok", found |-> rows, count |-> 0]
  <2>1. Reply("ok") = [is |-> "ok", found |-> {}, count |-> 0]
    BY <1>2 DEF Words
  <2> QED
    BY <2>1 DEF Listing
<1>4. ASSUME NEW is \in Words, NEW n
      PROVE  Counted(is, n) = [is |-> is, found |-> {}, count |-> n]
  BY <1>2 DEF Counted
<1>5. d.kind = c.kind /\ d.answer = Answer(c)
  BY DEF Calls
<1>6. ASSUME NEW is \in Words, NEW rows \in SUBSET (Workloads \cup EventKinds \cup Rules), NEW n \in Nat
      PROVE  [is |-> is, found |-> rows, count |-> n] \in Replies
  BY DEF Replies
<1> HIDE DEF d
<1>7. "ok" \in Words /\ "ALLOW" \in Words /\ "DENY" \in Words /\ "ERROR" \in Words /\ "PASS" \in Words
      /\ "FAIL" \in Words
  BY DEF Words
<1>8. CASE c.kind = "fleet"
  <2>1. Answer(c) = [is |-> "ok", found |-> Existing, count |-> 0] /\ Existing \subseteq Workloads
    BY <1>3, <1>8 DEF Answer, Existing
  <2> QED
    BY <1>5, <1>6, <1>7, <1>8, <2>1 DEF AnsweredOK, d
<1>9. CASE c.kind = "events"
  <2>1. Answer(c) = [is |-> "ok", found |-> trail, count |-> 0] /\ trail \subseteq EventKinds
    BY <1>3, <1>9 DEF Answer, ServerOK
  <2> QED
    BY <1>5, <1>6, <1>7, <1>9, <2>1 DEF AnsweredOK, d
<1>10. CASE c.kind = "policies"
  <2>1. Answer(c) = [is |-> "ok", found |-> rules, count |-> 0] /\ rules \subseteq Rules
    BY <1>3, <1>10 DEF Answer, ServerOK
  <2> QED
    BY <1>5, <1>6, <1>7, <1>10, <2>1 DEF AnsweredOK, d
<1>11. CASE c.kind = "stats"
  <2>1. Answer(c) = [is |-> "ok", found |-> {}, count |-> Cardinality(Pending)]
    BY <1>4, <1>7, <1>11 DEF Answer
  <2>2. Cardinality(Pending) \in 0..Cardinality(Workloads)
    BY PartOf, ShellAssumption DEF Pending
  <2>3. Cardinality(Pending) \in Nat
    BY <2>2, Finite
  <2> QED
    BY <1>5, <1>6, <1>7, <1>11, <2>1, <2>2, <2>3 DEF AnsweredOK, d
<1>12. CASE c.kind = "send"
  <2>1. PICK is \in {"ALLOW", "DENY", "ERROR"} : Answer(c) = Reply(is)
    BY <1>12 DEF Answer
  <2>2. Answer(c) = [is |-> is, found |-> {}, count |-> 0]
    BY <1>2, <1>7, <2>1
  <2> QED
    BY <1>5, <1>6, <1>7, <1>12, <2>1, <2>2 DEF AnsweredOK, d
<1>13. CASE c.kind = "verify"
  <2>1. CASE c.arg \notin Existing
    <3>1. Answer(c) = [is |-> "ERROR", found |-> {}, count |-> 0]
      BY <1>2, <1>7, <1>13, <2>1 DEF Answer
    <3> QED
      BY <1>5, <1>6, <1>7, <1>13, <3>1 DEF AnsweredOK, d
  <2>2. CASE c.arg \in Existing
    <3>1. fleet[c.arg].breaches \in Nat
      BY <2>2, ShellAssumption DEF Existing, ServerOK, Row
    <3>2. PICK is \in {"FAIL", "PASS"} : Answer(c) = Counted(is, fleet[c.arg].breaches)
      BY <1>13, <2>2 DEF Answer
    <3>3. Answer(c) = [is |-> is, found |-> {}, count |-> fleet[c.arg].breaches]
      BY <1>4, <1>7, <3>2
    <3> QED
      BY <1>5, <1>6, <1>7, <1>13, <3>1, <3>2, <3>3 DEF AnsweredOK, d
  <2> QED
    BY <2>1, <2>2
<1>14. CASE c.kind \notin {"fleet", "events", "policies", "stats", "send", "verify"}
  <2>1. Answer(c) = [is |-> "ok", found |-> {}, count |-> 0]
    BY <1>2, <1>7, <1>14 DEF Answer
  <2> QED
    BY <1>5, <1>6, <1>7, <1>14, <2>1 DEF AnsweredOK, d
<1> QED
  BY <1>8, <1>9, <1>10, <1>11, <1>12, <1>13, <1>14

LEMMA GoneOK == Gone \in Row
  BY ShellAssumption DEF Gone, Row, Statuses

LEMMA ServedOK == ASSUME NEW row \in Row PROVE Served(row) \in Row
<1>1. (IF row.breaches < MaxBreaches THEN row.breaches + 1 ELSE row.breaches) \in 0..MaxBreaches
  BY ShellAssumption DEF Row
<1> QED
  BY <1>1 DEF Served, Row

LEMMA EffectOK ==
  ASSUME ServerOK, NEW c, EditsRule(c), Effect(c)
  PROVE  fleet' \in [Workloads -> Row] /\ trail' \subseteq EventKinds /\ rules' \subseteq Rules
<1>1. fleet' \in [Workloads -> Row]
  BY GoneOK, ServedOK DEF Effect, ServerOK, Existing
<1> QED
  BY <1>1 DEF Effect, ServerOK, EditsRule

LEMMA ServeOK == ASSUME IInv, Serve, Idle PROVE IInv'
<1> USE DEF IInv
<1>1. PICK c \in BagToSet(calls) :
        /\ c.answer = Waiting
        /\ calls' = BagAdd(Received(c), [c EXCEPT !.answer = Answer(c)])
        /\ Effect(c)
  BY DEF Serve
<1>2. /\ UNCHANGED <<loading, selector, astray, actions>>
      /\ UNCHANGED <<counting, simulator, verification, events, policies, stats>>
  BY DEF Serve, Idle
<1>3. UNCHANGED <<page, running, sent>> /\ sent \in Nat /\ running
  BY <1>2, Busy DEF loading, policies, RulesOK
<1>4. c \in Calls /\ Addressed(c)
  BY DEF CallsOK, CallOK
<1>5. PICK d : d = [c EXCEPT !.answer = Answer(c)]
  OBVIOUS
<1>6. /\ d \in Calls /\ d.kind = c.kind /\ d.arg = c.arg /\ d.nr = c.nr /\ d.answer = Answer(c)
      /\ AnsweredOK(d)
  BY <1>4, <1>5, AnswerTyped DEF Calls
<1>7. CallOK(d)'
  BY <1>3, <1>4, <1>6 DEF CallOK, Addressed, AnsweredOK
<1>8. calls' = BagAdd(Received(c), d)
  BY <1>1, <1>5
<1>9. /\ CallsOK'
      /\ \A kind : InFlight(kind)' \subseteq InFlight(kind) \cup {d}
      /\ \A kind : kind # c.kind => InFlight(kind)' = InFlight(kind)
      /\ InFlight(c.kind) \subseteq InFlight(c.kind)' \cup {c}
      /\ d \in InFlight(c.kind)'
  BY <1>3, <1>6, <1>7, <1>8, Exchanged
<1>10. LoadingOK'
  BY <1>2, <1>3, SameLoading
<1>11. ServerOK'
  <2>1. fleet' \in [Workloads -> Row] /\ trail' \subseteq EventKinds /\ rules' \subseteq Rules
    BY <1>1, <1>4, EffectOK DEF Addressed, EditsRule
  <2> QED
    BY <1>2, <2>1 DEF ServerOK, selector
<1>12. BoxOK'
  BY <1>2, <1>3, <1>9, SameBox
<1>13. GaugeOK'
  BY <1>2, SameGauge DEF verification, GaugeOK, VerificationTypeOK, TerminalOK
<1>14. CountOK' /\ EventsOK' /\ AlertOK'
  BY <1>2, <1>3, SameCount, SameEvents, SameAlert DEF counting
<1>15. RulesOK'
  <2>1. CASE ~Live("policies")
    <3>1. ~Live("policies")'
      BY <1>3, <2>1 DEF Live
    <3> QED
      BY <1>2, <1>3, <3>1, OtherRules
  <2>2. CASE Live("policies")
    <3>1. unseen \/ newest = sent \/ \E x \in InFlight("policies")' : x.nr = sent
      BY <1>6, <1>9, <2>2 DEF RulesOK
    <3>2. InFlight("reset")' # {} \/ astray # EmptyBag => unseen
      <4>1. InFlight("reset")' # {} => InFlight("reset") # {}
        BY <1>9 DEF InFlight
      <4> QED
        BY <2>2, <4>1 DEF RulesOK
    <3>3. ASSUME Edits' = {}, ~unseen PROVE Latest'
      <4>1. c.kind \notin {"add", "delete"} /\ Edits = {}
        BY <1>9, <3>3 DEF Edits
      <4>2. c.kind # "reset"
        BY <1>9, <2>2, <3>3 DEF RulesOK, InFlight
      <4>3. rules' = rules
        BY <1>1, <4>1, <4>2 DEF Effect
      <4>4. Latest
        BY <2>2, <3>3, <4>1 DEF RulesOK
      <4>5. ASSUME NEW x \in InFlight("policies")', x.nr = sent, x.answer # Waiting
            PROVE  x.answer.found = rules
        <5>1. CASE x \in InFlight("policies")
          BY <4>4, <4>5, <5>1 DEF Latest
        <5>2. CASE x = d
          <6>1. c.kind = "policies"
            BY <1>6, <4>5, <5>2 DEF InFlight
          <6>2. Answer(c).found = rules
            BY <6>1 DEF Answer, Listing, Reply, Waiting
          <6> QED
            BY <1>6, <5>2, <6>2
        <5> QED
          BY <1>9, <4>5, <5>1, <5>2
      <4> QED
        BY <1>2, <4>3, <4>4, <4>5 DEF Latest, policies
    <3> QED
      BY <1>2, <1>3, <3>1, <3>2, <3>3 DEF RulesOK, policies
  <2> QED
    BY <2>1, <2>2
<1> QED
  BY <1>9, <1>10, <1>11, <1>12, <1>13, <1>14, <1>15

LEMMA ElsewhereOK == ASSUME IInv, page # "policies", Elsewhere, Idle PROVE IInv'
<1> USE DEF IInv
<1>1. /\ Act /\ UNCHANGED <<loading, selector, calls, astray>> /\ UNCHANGED rules
      /\ UNCHANGED <<counting, simulator, verification, events, policies, stats>>
  BY DEF Elsewhere, Idle
<1>2. UNCHANGED <<page, running, sent>> /\ sent \in Nat
  BY <1>1 DEF loading, policies, RulesOK
<1>3. CallsOK'
  BY <1>1, <1>2, CallsStep DEF CallsOK
<1>4. ServerOK'
  <2>1. fleet' \in [Workloads -> Row] /\ trail' \subseteq EventKinds
    <3>1. CASE UNCHANGED fleet
      BY <3>1 DEF Elsewhere, ServerOK, EventKinds
    <3>2. CASE /\ \E w \in Workloads, s \in Statuses :
                    fleet' = [fleet EXCEPT ![w] = IF s = "ABSENT" THEN Gone ELSE [@ EXCEPT !.status = s]]
               /\ UNCHANGED trail
      <4>1. PICK w \in Workloads, s \in Statuses :
              fleet' = [fleet EXCEPT ![w] = IF s = "ABSENT" THEN Gone ELSE [fleet[w] EXCEPT !.status = s]]
        BY <3>2
      <4>2. [fleet[w] EXCEPT !.status = s] \in Row
        BY DEF ServerOK, Row
      <4> QED
        BY <3>2, <4>1, <4>2, GoneOK DEF ServerOK
    <3> QED
      BY <3>1, <3>2 DEF Elsewhere
  <2>2. actions' \in 0..MaxActions
    BY <1>1, Acted
  <2> QED
    BY <1>1, <2>1, <2>2 DEF ServerOK, selector
<1>5. LoadingOK' /\ BoxOK' /\ GaugeOK' /\ CountOK' /\ EventsOK' /\ AlertOK'
  <2>1. InFlight("send")' = InFlight("send")
    BY <1>1 DEF InFlight
  <2>2. verification' = verification /\ TerminalOK'
    BY <1>1 DEF verification, GaugeOK, VerificationTypeOK, TerminalOK
  <2> QED
    BY <1>1, <1>2, <2>1, <2>2, SameLoading, SameBox, SameGauge, SameCount, SameEvents, SameAlert
       DEF verification, counting
<1>6. RulesOK'
  BY <1>1, <1>2, OtherRules DEF Live
<1> QED
  BY <1>3, <1>4, <1>5, <1>6

(* A request thought lost reaches the server: the page does not hear of it. *)
LEMMA ServeAstrayOK == ASSUME IInv, ServeAstray, Idle PROVE IInv'
<1> USE DEF IInv
<1>1. PICK c \in BagToSet(astray) : astray' = BagRemove(astray, c) /\ Effect(c)
  BY DEF ServeAstray
<1>2. /\ UNCHANGED <<loading, selector, calls, actions>>
      /\ UNCHANGED <<counting, simulator, verification, events, policies, stats>>
  BY DEF ServeAstray, Idle
<1>3. EditsRule(c) /\ astray # EmptyBag
  BY NoCalls DEF ServerOK
<1>4. UNCHANGED <<page, running, sent>> /\ sent \in Nat /\ running
  BY <1>2, <1>3 DEF loading, policies, RulesOK, LoadingOK
<1>5. IsABag(astray') /\ BagToSet(astray') \subseteq BagToSet(astray)
  BY <1>1, RemoveBag DEF ServerOK
<1>6. ServerOK'
  <2>1. fleet' \in [Workloads -> Row] /\ trail' \subseteq EventKinds /\ rules' \subseteq Rules
    BY <1>1, <1>3, EffectOK
  <2> QED
    BY <1>2, <1>5, <2>1 DEF ServerOK, selector, EditsRule
<1>7. \A kind : InFlight(kind)' = InFlight(kind)
  BY <1>2 DEF InFlight
<1>8. CallsOK'
  BY <1>2, <1>4, CallsStep DEF CallsOK
<1>9. LoadingOK' /\ BoxOK' /\ GaugeOK' /\ CountOK' /\ EventsOK' /\ AlertOK'
  <2>1. TerminalOK'
    BY <1>2 DEF verification, GaugeOK, VerificationTypeOK, TerminalOK
  <2> QED
    BY <1>2, <1>4, <1>7, <2>1, SameLoading, SameBox, SameGauge, SameCount, SameEvents, SameAlert
       DEF verification, counting
<1>10. RulesOK'
  BY <1>2, <1>3, <1>4, <1>7 DEF RulesOK, policies, Live
<1> QED
  BY <1>6, <1>8, <1>9, <1>10

(* A call that fails is gone; the requests gone astray only edit rules.    *)
LEMMA FailedOK ==
  ASSUME IInv, UNCHANGED <<loading, selector, sent, actions>>, NEW c \in BagToSet(calls), Fails(c)
  PROVE  /\ CallsOK' /\ ServerOK' /\ LoadingOK' /\ running
         /\ UNCHANGED <<page, running, rules>> /\ sent \in Nat
         /\ \A kind : InFlight(kind)' \subseteq InFlight(kind)
         /\ \A kind : kind # c.kind => InFlight(kind)' = InFlight(kind)
         /\ InFlight(c.kind) \subseteq InFlight(c.kind)' \cup {c}
         /\ astray' = astray \/ c.kind \in Posts
<1> USE DEF IInv
<1>1. calls' = Received(c) /\ (astray' = astray \/ (c.kind \in Posts /\ astray' = BagAdd(astray, c)))
      /\ UNCHANGED <<fleet, trail, rules>>
  <2>1. astray' \in {astray} \cup (IF c.answer = Waiting /\ c.kind \in Posts
                                   THEN {BagAdd(astray, c)} ELSE {})
    BY DEF Fails
  <2>2. calls' = Received(c) /\ UNCHANGED <<fleet, trail, rules>>
    BY DEF Fails, records
  <2>3. CASE c.answer = Waiting /\ c.kind \in Posts
    BY <2>1, <2>2, <2>3
  <2>4. CASE ~(c.answer = Waiting /\ c.kind \in Posts)
    BY <2>1, <2>2, <2>4
  <2> QED
    BY <2>3, <2>4
<1>2. UNCHANGED <<page, running>> /\ sent \in Nat /\ running
  BY Busy DEF loading, RulesOK
<1>3. /\ CallsOK' /\ \A kind : InFlight(kind)' \subseteq InFlight(kind)
      /\ \A kind : kind # c.kind => InFlight(kind)' = InFlight(kind)
      /\ InFlight(c.kind) \subseteq InFlight(c.kind)' \cup {c}
  BY <1>1, <1>2, Gotten
<1>4. EditsRule(c)
  BY DEF CallsOK, CallOK, Addressed, EditsRule
<1>5. IsABag(astray') /\ \A d \in BagToSet(astray') : EditsRule(d)
  <2>1. CASE astray' = astray
    BY <2>1 DEF ServerOK
  <2>2. CASE astray' = BagAdd(astray, c)
    BY <1>4, <2>2, AddBag DEF ServerOK
  <2> QED
    BY <1>1, <2>1, <2>2
<1>6. ServerOK'
  BY <1>1, <1>5 DEF ServerOK, selector, EditsRule
<1> QED
  BY <1>1, <1>2, <1>3, <1>6, SameLoading

LEMMA CallFailsOK == ASSUME IInv, CallFails, Idle PROVE IInv'
<1> USE DEF IInv
<1>1. PICK c \in BagToSet(calls) :
        c.kind \in {"fleet", "events", "stats", "audit", "reset", "tamper"} /\ Fails(c)
  BY DEF CallFails
<1>2. /\ UNCHANGED <<loading, selector, actions>>
      /\ UNCHANGED <<counting, simulator, verification, events, policies, stats>> /\ UNCHANGED sent
  BY DEF CallFails, Idle, policies
<1>3. /\ CallsOK' /\ ServerOK' /\ LoadingOK' /\ running
      /\ UNCHANGED <<page, running, rules>> /\ sent \in Nat
      /\ \A kind : InFlight(kind)' \subseteq InFlight(kind)
      /\ \A kind : kind # c.kind => InFlight(kind)' = InFlight(kind)
      /\ astray' = astray \/ c.kind \in Posts
  BY <1>1, <1>2, FailedOK
<1>4. BoxOK' /\ GaugeOK' /\ CountOK' /\ EventsOK' /\ AlertOK'
  <2>1. TerminalOK'
    BY <1>2 DEF verification, GaugeOK, VerificationTypeOK, TerminalOK
  <2>2. InFlight("send")' = InFlight("send")
    BY <1>1, <1>3
  <2> QED
    BY <1>2, <1>3, <2>1, <2>2, SameBox, SameGauge, SameCount, SameEvents, SameAlert
       DEF verification, counting
<1>5. RulesOK'
  <2>1. CASE ~Live("policies")
    BY <1>2, <1>3, <2>1, OtherRules DEF Live
  <2>2. CASE Live("policies")
    <3>1. astray' # astray => unseen
      <4>1. c.kind = "tamper" => page = "verification"
        BY DEF CallsOK, CallOK, Addressed
      <4>2. c.kind = "reset" => unseen
        BY <2>2 DEF RulesOK, InFlight
      <4> QED
        BY <1>1, <1>3, <2>2, <4>1, <4>2 DEF Posts, Live
    <3>2. /\ InFlight("policies")' = InFlight("policies") /\ InFlight("add")' = InFlight("add")
          /\ InFlight("delete")' = InFlight("delete")
      BY <1>1, <1>3
    <3> QED
      BY <1>2, <1>3, <3>1, <3>2, SameRules DEF Edits
  <2> QED
    BY <2>1, <2>2
<1> QED
  BY <1>3, <1>4, <1>5
-----------------------------------------------------------------------------
(* The pages but the one of the rules. *)

LEMMA OffPolicies ==
  ASSUME IInv, UNCHANGED <<loading, policies>>, ~Live("policies"),
         running \/ UNCHANGED <<calls, astray>>
  PROVE  LoadingOK' /\ RulesOK' /\ sent \in Nat /\ UNCHANGED <<page, running, sent>>
<1>1. UNCHANGED <<page, running, sent>> /\ sent \in Nat
  BY DEF IInv, RulesOK, loading, policies
<1>2. ~Live("policies")'
  BY <1>1 DEF Live
<1> QED
  BY <1>1, <1>2, SameLoading, OtherRules DEF IInv

(* Without a simulator no request is under way, and the box stays empty.   *)
LEMMA NoBox ==
  ASSUME IInv, page \notin SimulatorPages, UNCHANGED <<simulator, page>> PROVE BoxOK'
<1>1. InFlight("send") = {}
  BY DEF IInv, CallsOK, CallOK, Addressed, InFlight
<1>2. box.is = "evaluating" => dropped
  BY <1>1 DEF IInv, BoxOK, DecisionsAgree
<1> QED
  BY <1>2 DEF IInv, BoxOK, SimulatorTypeOK, DecisionsAgree, simulator

LEMMA ResetOK ==
  ASSUME IInv, (~Live("policies") /\ ClickReset) \/ AfterReset, Idle PROVE IInv'
<1> USE DEF IInv
<1>1. UNCHANGED <<loading, selector, server>> /\ UNCHANGED <<counting, simulator, verification, events,
                                                             policies, stats>>
  BY DEF ClickReset, AfterReset, Idle
<1>2. UNCHANGED <<page, running, sent>> /\ sent \in Nat /\ TerminalOK'
  BY <1>1 DEF loading, policies, RulesOK, verification, GaugeOK, VerificationTypeOK, TerminalOK
<1>3. GaugeOK' /\ CountOK' /\ EventsOK' /\ AlertOK'
  BY <1>1, <1>2, SameGauge, SameCount, SameEvents, SameAlert DEF verification, counting
<1>4. CASE ~Live("policies") /\ ClickReset
  <2>1. /\ running /\ Act /\ calls' = BagAdd(calls, Call("reset", Blank, 0))
    BY <1>4 DEF ClickReset, Send
  <2>2. CallOK(Call("reset", Blank, 0))' /\ Call("reset", Blank, 0).kind = "reset"
    BY PlainCall DEF Call
  <2>3. CallsOK' /\ InFlight("send")' = InFlight("send")
    BY <1>2, <2>1, <2>2, Sent
  <2> QED
    BY <1>1, <1>2, <1>3, <1>4, <2>1, <2>3, OffPolicies, Acted, SameServer, SameBox
<1>5. CASE AfterReset
  <2>1. PICK c \in BagToSet(calls) : c.kind = "reset" /\ calls' = Received(c)
    BY <1>5 DEF AfterReset, Answers
  <2>2. /\ CallsOK' /\ InFlight("send")' = InFlight("send") /\ InFlight("policies")' = InFlight("policies")
        /\ InFlight("add")' = InFlight("add") /\ InFlight("delete")' = InFlight("delete")
        /\ InFlight("reset")' \subseteq InFlight("reset")
    BY <1>2, <2>1, Gotten
  <2>3. RulesOK'
    BY <1>1, <2>2, SameRules DEF Edits, server, records
  <2>4. LoadingOK'
    BY <1>1, <2>1, Busy, SameLoading
  <2>5. ServerOK'
    BY <1>1, <1>5, SameServer DEF AfterReset, ServerOK
  <2> QED
    BY <1>1, <1>2, <1>3, <2>2, <2>3, <2>4, <2>5, SameBox
<1> QED
  BY <1>4, <1>5

LEMMA PopulateOK ==
  ASSUME ServerOK, NEW found \in SUBSET Workloads, Populate(found), UNCHANGED <<server, actions>>
  PROVE  ServerOK' /\ chosen' \in Workloads \cup {Blank}
<1>1. chosen' \in found \cup {Blank}
  <2>1. CASE found = {}
    BY <2>1 DEF Populate
  <2>2. CASE found # {}
    BY <2>2 DEF Populate
  <2> QED
    BY <2>1, <2>2
<1> QED
  BY <1>1 DEF Populate, ServerOK, server, records

(* A request of the simulator.                                             *)
LEMMA RequestOK ==
  ASSUME IInv, SimulatorLive, NEW w \in Workloads \cup {Blank}, Request(w),
         UNCHANGED <<loading, flow, policies>>
  PROVE  CallsOK' /\ BoxOK'
<1> USE DEF IInv
<1>1. UNCHANGED <<page, sent>> /\ sent \in Nat
  BY DEF loading, policies, RulesOK
<1>2. CASE w = Blank
  <2>1. UNCHANGED <<calls, box, dropped>>
    BY <1>2 DEF Request
  <2>2. CallsOK'
    BY <1>1, <2>1, CallsStep DEF CallsOK
  <2>3. InFlight("send")' = InFlight("send")
    BY <2>1 DEF InFlight
  <2> QED
    BY <1>1, <2>1, <2>2, <2>3, SameBox DEF simulator
<1>3. CASE w # Blank
  <2>1. calls' = BagAdd(calls, Call("send", w, 0)) /\ box' = [is |-> "evaluating", of |-> Blank]
        /\ dropped' = FALSE
    BY <1>3 DEF Request, Send
  <2>2. PICK c : c = Call("send", w, 0)
    OBVIOUS
  <2>3. c \in Calls /\ c.kind = "send" /\ c.arg = w /\ AnsweredOK(c) /\ c.answer = Waiting
    BY <2>2, Waits DEF Kinds
  <2>4. CallOK(c)'
    BY <1>1, <1>3, <2>3 DEF CallOK, Addressed, AnsweredOK, SimulatorLive
  <2>5. CallsOK' /\ c \in InFlight("send")'
    BY <1>1, <2>1, <2>2, <2>3, <2>4, Sent
  <2> QED
    BY <2>1, <2>5 DEF BoxOK, SimulatorTypeOK, DecisionsAgree
<1> QED
  BY <1>2, <1>3

LEMMA SimulatorOK == ASSUME IInv, SimulatorSteps PROVE IInv'
<1> USE DEF IInv
<1>1. UNCHANGED <<counting, verification, events, policies, stats>> /\ UNCHANGED loading
  BY DEF SimulatorSteps, Listed, Simulate, ChooseSource, Preset, Decided, SimulationFails
<1>2. /\ UNCHANGED <<page, running, sent>> /\ sent \in Nat /\ SimulatorLive /\ running /\ ~Live("policies")
  <2>1. CASE Listed \/ Simulate \/ ChooseSource \/ Preset \/ Decided
    BY <1>1, <2>1 DEF loading, policies, RulesOK, Listed, Simulate, ChooseSource, Preset, Decided,
                      SimulatorLive, SimulatorPages, Live
  <2>2. CASE SimulationFails
    <3>1. PICK c \in BagToSet(calls) : c.kind = "send"
      BY <2>2 DEF SimulationFails
    <3> QED
      BY <1>1, <3>1, Busy DEF loading, policies, RulesOK, CallsOK, CallOK, Addressed, SimulatorLive,
                              SimulatorPages, Live
  <2> QED
    BY <2>1, <2>2 DEF SimulatorSteps
<1>3. GaugeOK' /\ CountOK' /\ EventsOK' /\ AlertOK' /\ LoadingOK' /\ RulesOK'
  <2>1. TerminalOK'
    BY <1>1 DEF verification, GaugeOK, VerificationTypeOK, TerminalOK
  <2> QED
    BY <1>1, <1>2, <2>1, SameGauge, SameCount, SameEvents, SameAlert, OffPolicies
       DEF verification, counting
<1>4. CASE Listed
  <2>1. PICK c \in BagToSet(calls) :
          /\ c.kind = "fleet" /\ c.answer # Waiting /\ calls' = Received(c) /\ Populate(c.answer.found)
    BY <1>4 DEF Listed, Answers
  <2>2. c.answer.found \subseteq Workloads /\ UNCHANGED <<server, actions, simulator>>
    BY <1>4, <2>1 DEF Listed, CallsOK, CallOK, AnsweredOK
  <2>3. CallsOK' /\ InFlight("send")' = InFlight("send")
    BY <1>2, <2>1, Gotten
  <2> QED
    BY <1>1, <1>2, <1>3, <2>1, <2>2, <2>3, PopulateOK, SameBox
<1>5. CASE Simulate
  <2>1. Act /\ Request(chosen) /\ UNCHANGED <<selector, server, flow>>
    BY <1>5 DEF Simulate
  <2>2. PICK w \in Workloads \cup {Blank} : w = chosen
    BY DEF ServerOK
  <2>3. CallsOK' /\ BoxOK'
    BY <1>1, <1>2, <2>1, <2>2, RequestOK
  <2> QED
    BY <1>1, <1>3, <2>1, <2>3, Acted, SameServer
<1>6. CASE ChooseSource
  <2>1. PICK w \in Workloads : Choose(w) /\ UNCHANGED <<server, calls, simulator>>
    BY <1>6 DEF ChooseSource
  <2>2. ServerOK'
    BY <1>1, <2>1, Acted DEF Choose, ServerOK, server, records
  <2>3. CallsOK'
    BY <1>2, <2>1, CallsStep DEF CallsOK
  <2>4. InFlight("send")' = InFlight("send")
    BY <2>1 DEF InFlight
  <2> QED
    BY <1>2, <1>3, <2>1, <2>2, <2>3, <2>4, SameBox
<1>7. CASE Preset
  <2>1. PICK w \in Workloads : /\ chosen' = (IF w \in options THEN w ELSE Blank)
                               /\ Request(chosen')
    BY <1>7 DEF Preset
  <2>2. Act /\ UNCHANGED <<options, server, flow>>
    BY <1>7 DEF Preset
  <2>3. ServerOK'
    BY <1>1, <2>1, <2>2, Acted DEF ServerOK, server, records
  <2>4. PICK x \in Workloads \cup {Blank} : x = chosen'
    BY <2>1
  <2>5. CallsOK' /\ BoxOK'
    BY <1>1, <1>2, <2>1, <2>2, <2>4, RequestOK
  <2> QED
    BY <1>3, <2>3, <2>5
<1>8. CASE Decided
  <2>1. PICK c \in BagToSet(calls) :
          /\ c.kind = "send" /\ c.answer # Waiting
          /\ calls' = IF page = "index" THEN BagAdd(Received(c), Call("stats", Blank, 0)) ELSE Received(c)
          /\ box' = [is |-> c.answer.is, of |-> Source(c)]
          /\ flow' = IF page = "simulator" THEN FlowRow(c) ELSE flow
          /\ UNCHANGED <<selector, server, actions, dropped>>
    BY <1>8 DEF Decided, Answers
  <2>2. c.answer.is \in {"ALLOW", "DENY", "ERROR"} /\ c.arg \in Workloads
    BY <2>1 DEF CallsOK, CallOK, AnsweredOK, Addressed
  <2>3. Source(c) \in Workloads \cup {Blank}
    BY <2>2 DEF Source
  <2>4. CallsOK'
    <3>1. CASE page = "index"
      <4>1. PICK d : d = Call("stats", Blank, 0)
        OBVIOUS
      <4>2. d \in Calls /\ d.kind = "stats" /\ d.answer = Waiting
        BY <4>1, Waits DEF Kinds
      <4>3. CallOK(d)'
        BY <1>2, <3>1, <4>2 DEF CallOK, Addressed, AnsweredOK
      <4> QED
        BY <1>2, <2>1, <3>1, <4>1, <4>3, Exchanged
    <3>2. CASE page # "index"
      BY <1>2, <2>1, <3>2, Gotten
    <3> QED
      BY <3>1, <3>2
  <2>5. BoxOK'
    <3>1. page = "simulator" => flow' = [is |-> IF c.answer.is = "DENY" THEN "denied" ELSE "allowed",
                                         of |-> Source(c)]
      BY <2>1 DEF FlowRow
    <3> QED
      BY <1>2, <2>1, <2>2, <2>3, <3>1 DEF BoxOK, SimulatorTypeOK, DecisionsAgree
  <2>6. ServerOK'
    BY <1>1, <2>1, SameServer DEF ServerOK
  <2> QED
    BY <1>3, <2>4, <2>5, <2>6
<1>9. CASE SimulationFails
  <2>1. PICK c \in BagToSet(calls) : c.kind = "send" /\ Fails(c)
    BY <1>9 DEF SimulationFails
  <2>2. dropped' = TRUE /\ UNCHANGED <<selector, actions, box, flow>>
    BY <1>9 DEF SimulationFails
  <2>3. CallsOK' /\ ServerOK'
    BY <1>1, <1>2, <2>1, <2>2, FailedOK
  <2>4. BoxOK'
    BY <1>2, <2>2 DEF BoxOK, SimulatorTypeOK, DecisionsAgree
  <2> QED
    BY <1>3, <2>3, <2>4
<1> QED
  BY <1>4, <1>5, <1>6, <1>7, <1>8, <1>9 DEF SimulatorSteps

-----------------------------------------------------------------------------
(* Numbers that count up. *)

LEMMA PassedOK == ASSUME NEW c \in [from : Nat, to : Nat] PROVE Passed(c) \subseteq Nat
  BY DEF Passed

LEMMA LastOfTail ==
  ASSUME NEW S, NEW s \in Seq(S), Len(s) > 1 PROVE Last(Tail(s)) = Last(s)
  BY DEF Last

LEMMA LastOK ==
  ASSUME NEW S, NEW s \in Seq(S), s # <<>>
  PROVE  /\ Last(s) \in S /\ Tail(s) \in Seq(S)
         /\ Len(s) = 1 => Last(s) = s[1] /\ Tail(s) = <<>>
         /\ Len(s) # 1 => Tail(s) # <<>> /\ Last(Tail(s)) = Last(s)
<1>1. Len(s) \in Nat \ {0} /\ Tail(s) \in Seq(S) /\ Len(Tail(s)) = Len(s) - 1
  OBVIOUS
<1>2. Last(s) \in S
  BY <1>1 DEF Last
<1>3. Len(s) = 1 => Last(s) = s[1]
  BY DEF Last
<1> DEFINE t == Tail(s)
<1>4. t \in Seq(S) /\ Len(t) = Len(s) - 1
  BY <1>1
<1> HIDE DEF t
<1>5. Len(s) = 1 <=> t = <<>>
  BY <1>1, <1>4, EmptySeq
<1>6. Len(s) # 1 => Last(Tail(s)) = Last(s)
  BY <1>1, LastOfTail
<1> QED
  BY <1>1, <1>2, <1>3, <1>5, <1>6 DEF t

LEMMA CountToOK == ASSUME CountOK, NEW n \in Nat, CountTo(n) PROVE CountOK' /\ goal' = n
<1>1. /\ counter \in Nat /\ counts \in Seq([from : Nat, to : Nat])
  BY DEF CountOK, CountTypeOK
<1>2. counter' = counter /\ goal' = n /\ skipped' = (n = counter /\ counts # <<>>)
  BY DEF CountTo
<1>3. skipped' \in BOOLEAN /\ (skipped' <=> n = counter /\ counts # <<>>)
  BY <1>2, Zenon
<1>4. CASE n = counter
  <2>1. counts' = counts
    BY <1>4 DEF CountTo, Started
  <2> QED
    BY <1>1, <1>2, <1>3, <1>4, <2>1 DEF CountOK, CountTypeOK, CounterSettles
<1>5. CASE n # counter
  <2>1. counts' = Append(counts, [from |-> counter, to |-> n])
    BY <1>5 DEF CountTo, Started
  <2>2. PICK c \in [from : Nat, to : Nat] : c = [from |-> counter, to |-> n]
    BY <1>1
  <2>3. counts' \in Seq([from : Nat, to : Nat]) /\ counts' # <<>> /\ Last(counts') = c
    BY <1>1, <2>1, <2>2 DEF Last
  <2>4. Last(counts)' = Last(counts')
    BY DEF Last
  <2> QED
    BY <1>1, <1>2, <1>3, <2>2, <2>3, <2>4 DEF CountOK, CountTypeOK, CounterSettles
<1> QED
  BY <1>2, <1>4, <1>5

LEMMA CountStepOK == ASSUME CountOK, CountFrame \/ CountEnds PROVE CountOK'
<1>1. /\ counter \in Nat /\ goal \in Nat /\ counts \in Seq([from : Nat, to : Nat]) /\ counts # <<>>
      /\ skipped \in BOOLEAN /\ (Last(counts).to = goal \/ skipped)
  BY DEF CountOK, CountTypeOK, CountFrame, CountEnds
<1>2. Last(counts) \in [from : Nat, to : Nat] /\ Passed(Last(counts)) \subseteq Nat
  BY <1>1, LastOK, PassedOK
<1>3. Last(counts)' = Last(counts')
  BY DEF Last
<1>4. CASE CountFrame
  BY <1>1, <1>2, <1>3, <1>4 DEF CountFrame, CountOK, CountTypeOK, CounterSettles
<1>5. CASE CountEnds
  <2>1. counts' = Tail(counts) /\ UNCHANGED <<goal, skipped>>
    BY <1>5 DEF CountEnds
  <2>2. CASE Len(counts) = 1
    <3>1. counter' = counts[1].to
      BY <1>5, <2>2 DEF CountEnds
    <3>2. counts' = <<>> /\ Last(counts) = counts[1] /\ counts' \in Seq([from : Nat, to : Nat])
      BY <1>1, <2>1, <2>2, LastOK
    <3> QED
      BY <1>1, <1>2, <2>1, <3>1, <3>2 DEF CountOK, CountTypeOK, CounterSettles
  <2>3. CASE Len(counts) # 1
    <3>1. counter' \in Nat
      BY <1>2, <1>5, <2>3 DEF CountEnds
    <3>2. counts' # <<>> /\ Last(counts') = Last(counts) /\ counts' \in Seq([from : Nat, to : Nat])
      BY <1>1, <2>1, <2>3, LastOK
    <3> QED
      BY <1>1, <1>3, <2>1, <3>1, <3>2 DEF CountOK, CountTypeOK, CounterSettles
  <2> QED
    BY <2>2, <2>3
<1> QED
  BY <1>4, <1>5

LEMMA CounterOK == ASSUME IInv, CounterSteps PROVE IInv'
<1> USE DEF IInv
<1>1. /\ UNCHANGED <<shell, simulator, verification, events, policies, stats>> /\ (CountFrame \/ CountEnds)
      /\ UNCHANGED goal
  BY DEF CounterSteps, CountFrame, CountEnds
<1>2. /\ UNCHANGED <<loading, selector, server, calls, actions>> /\ UNCHANGED <<page, sent>> /\ sent \in Nat
      /\ TerminalOK'
  BY <1>1 DEF shell, loading, policies, RulesOK, verification, GaugeOK, VerificationTypeOK, TerminalOK
<1>3. \A kind : InFlight(kind)' = InFlight(kind)
  BY <1>2 DEF InFlight
<1>4. CallsOK'
  BY <1>2, CallsStep DEF CallsOK
<1>5. RulesOK'
  BY <1>1, <1>2, <1>3, SameRules DEF Edits, server, records
<1>6. LoadingOK' /\ ServerOK' /\ BoxOK' /\ GaugeOK' /\ EventsOK' /\ AlertOK'
  BY <1>1, <1>2, <1>3, SameLoading, SameServer, SameBox, SameGauge, SameEvents, SameAlert
     DEF verification, server, ServerOK
<1> QED
  BY <1>1, <1>4, <1>5, <1>6, CountStepOK
-----------------------------------------------------------------------------
(* The verification page. *)

LEMMA RunOK ==
  ASSUME IInv, page = "verification", NEW w \in Workloads \cup {Blank}, NEW others, Run(w, others),
         IsABag(others), BagToSet(others) \subseteq BagToSet(calls), UNCHANGED <<page, sent>>
  PROVE  CallsOK' /\ TerminalOK'
<1> USE DEF IInv
<1>1. sent \in Nat /\ TerminalOK
  BY DEF RulesOK, GaugeOK, VerificationTypeOK, TerminalOK
<1>2. CASE w = Blank
  BY <1>1, <1>2, CallsStep DEF Run, TerminalOK
<1>3. CASE w # Blank
  <2>1. calls' = BagAdd(others, Call("verify", w, 0)) /\ terminal' = "running" /\ unheard' = FALSE
    BY <1>3 DEF Run
  <2>2. PICK c : c = Call("verify", w, 0)
    OBVIOUS
  <2>3. c \in Calls /\ c.kind = "verify" /\ c.arg = w /\ c.answer = Waiting
    BY <2>2, Waits DEF Kinds
  <2>4. CallOK(c)'
    BY <1>3, <2>3 DEF CallOK, Addressed, AnsweredOK
  <2>5. IsABag(calls') /\ BagToSet(calls') = BagToSet(others) \cup {c}
    BY <2>1, <2>2, AddBag
  <2>6. CallsOK'
    BY <1>1, <2>4, <2>5, CallsStep
  <2>7. TerminalOK'
    BY <2>1 DEF TerminalOK
  <2> QED
    BY <2>6, <2>7
<1> QED
  BY <1>2, <1>3

LEMMA GaugeStepsOK ==
  ASSUME IInv, GaugeFrame \/ GaugeEnds, UNCHANGED <<simulator, events, policies, stats>> PROVE IInv'
<1> USE DEF IInv
<1>1. UNCHANGED shell /\ UNCHANGED counting /\ UNCHANGED <<attached, terminal, verdict, overrun, unheard>>
  BY DEF GaugeFrame, GaugeEnds
<1>2. /\ UNCHANGED <<loading, selector, server, calls, actions>> /\ UNCHANGED <<page, running, sent, goal>>
      /\ sent \in Nat
  BY <1>1 DEF shell, loading, policies, counting, RulesOK
<1>3. \A kind : InFlight(kind)' = InFlight(kind)
  BY <1>2 DEF InFlight
<1>4. CallsOK'
  BY <1>2, CallsStep DEF CallsOK
<1>5. RulesOK'
  BY <1>2, <1>3, SameRules DEF Edits, server, records
<1>6. LoadingOK' /\ ServerOK' /\ BoxOK' /\ CountOK' /\ EventsOK' /\ AlertOK'
  BY <1>1, <1>2, <1>3, SameLoading, SameServer, SameBox, SameCount, SameEvents, SameAlert
     DEF server, ServerOK
<1>7. GaugeOK'
  BY <1>1, <1>2 DEF GaugeOK, VerificationTypeOK, TerminalOK, GaugeSettles, GaugeFrame, GaugeEnds
<1> QED
  BY <1>4, <1>5, <1>6, <1>7

LEMMA VerificationOK == ASSUME IInv, VerificationSteps PROVE IInv'
<1> USE DEF IInv
<1>1. UNCHANGED <<simulator, events, policies, stats>>
  BY DEF VerificationSteps
<1>2. CASE GaugeFrame \/ GaugeEnds
  BY <1>1, <1>2, GaugeStepsOK
<1>3. ASSUME Attach \/ Verify \/ ChooseVerified \/ Tamper \/ Tampered \/ Verified PROVE IInv'
  <2>1. UNCHANGED <<loading, server>> /\ UNCHANGED <<page, running, sent>> /\ sent \in Nat
    <3>1. UNCHANGED <<loading, server>>
      BY <1>3 DEF Attach, Verify, ChooseVerified, Tamper, Tampered, Verified
    <3> QED
      BY <1>1, <3>1 DEF loading, policies, RulesOK
  <2>2. page = "verification" /\ running
    <3>1. CASE Attach
      BY <3>1 DEF Attach, Live
    <3>2. CASE Verify \/ ChooseVerified \/ Tamper
      BY <3>2 DEF Verify, ChooseVerified, Tamper, GaugeOK
    <3>3. CASE Tampered \/ Verified
      <4>1. PICK c \in BagToSet(calls) : c.kind \in {"tamper", "verify"}
        BY <3>3 DEF Tampered, Verified, Answers
      <4> QED
        BY <4>1, Busy DEF CallsOK, CallOK, Addressed
    <3> QED
      BY <1>3, <3>1, <3>2, <3>3
  <2>3. ~Live("policies") /\ page \notin SimulatorPages /\ page # "index"
    BY <2>2 DEF Live, SimulatorPages
  <2>4. LoadingOK' /\ BoxOK' /\ EventsOK' /\ AlertOK' /\ RulesOK'
    BY <1>1, <2>1, <2>2, <2>3, OffPolicies, NoBox, SameEvents, SameAlert
  <2>5. CASE Verified
    <3>1. PICK c \in BagToSet(calls) :
            /\ c.kind = "verify" /\ calls' = Received(c)
            /\ verdict' = IF Passes(c) THEN "PASS" ELSE "FAIL"
            /\ gauge' = IF Passes(c) THEN gauge ELSE "FAIL"
            /\ rising' = IF Passes(c) THEN rising + 1 ELSE rising
            /\ overrun' = (~Passes(c) /\ rising > 0)
            /\ CountTo(c.answer.count)
            /\ terminal' = "report"
            /\ UNCHANGED <<selector, server, actions, attached, unheard>>
      BY <2>5 DEF Verified, Answers
    <3>2. c.answer.count \in Nat
      BY <3>1 DEF CallsOK, CallOK, Calls, Replies
    <3>3. overrun' \in BOOLEAN /\ (overrun' <=> ~Passes(c) /\ rising > 0)
      BY <3>1, Zenon
    <3>4. GaugeOK'
      BY <2>1, <3>1, <3>3 DEF GaugeOK, VerificationTypeOK, TerminalOK, GaugeSettles
    <3>5. CallsOK' /\ ServerOK' /\ CountOK'
      BY <2>1, <3>1, <3>2, Gotten, CountToOK, SameServer DEF ServerOK
    <3> QED
      BY <2>4, <3>4, <3>5
  <2>6. CASE Tamper
    <3>1. Act /\ chosen \in Workloads /\ calls' = BagAdd(calls, Call("tamper", chosen, 0))
          /\ UNCHANGED <<selector, server, verification, counting>>
      BY <2>6 DEF Tamper, Send, ServerOK
    <3>2. PICK w \in Workloads : w = chosen
      BY <3>1
    <3>3. PICK c : c = Call("tamper", w, 0)
      OBVIOUS
    <3>4. c \in Calls /\ c.kind = "tamper" /\ c.arg = w /\ c.answer = Waiting
      BY <3>3, Waits DEF Kinds
    <3>5. CallOK(c)'
      BY <2>1, <2>2, <3>4 DEF CallOK, Addressed, AnsweredOK
    <3>6. CallsOK'
      BY <2>1, <3>1, <3>2, <3>3, <3>5, Sent
    <3>7. GaugeOK'
      BY <2>1, <3>1, SameGauge DEF verification, GaugeOK, VerificationTypeOK, TerminalOK
    <3> QED
      BY <2>4, <3>1, <3>6, <3>7, Acted, SameServer, SameCount
  <2>7. CASE Attach \/ Verify \/ ChooseVerified \/ Tampered
    <3>1. UNCHANGED counting /\ UNCHANGED <<verdict, gauge, rising, overrun>>
      BY <2>7 DEF Attach, Verify, ChooseVerified, Tampered
    <3>2. \E w \in Workloads \cup {Blank} : \E others :
            Run(w, others) /\ IsABag(others) /\ BagToSet(others) \subseteq BagToSet(calls)
      <4>1. CASE Attach
        <5>1. PICK c \in BagToSet(calls) :
                /\ c.kind = "fleet" /\ c.answer # Waiting /\ Populate(c.answer.found)
                /\ Run(chosen', Received(c)) /\ UNCHANGED <<server, actions>>
          BY <4>1 DEF Attach, Answers
        <5>2. chosen' \in Workloads \cup {Blank}
          BY <5>1, PopulateOK DEF CallsOK, CallOK, AnsweredOK
        <5>3. IsABag(Received(c)) /\ BagToSet(Received(c)) \subseteq BagToSet(calls)
          BY RemoveBag DEF CallsOK, Received
        <5> QED
          BY <5>1, <5>2, <5>3
      <4>2. CASE Verify
        BY <4>2 DEF Verify, ServerOK, CallsOK
      <4>3. CASE ChooseVerified
        BY <4>3 DEF ChooseVerified, CallsOK
      <4>4. CASE Tampered
        <5>1. PICK c \in BagToSet(calls) : c.kind = "tamper" /\ Run(c.arg, Received(c))
          BY <4>4 DEF Tampered, Answers
        <5>2. c.arg \in Workloads
          BY <5>1 DEF CallsOK, CallOK, Addressed
        <5>3. IsABag(Received(c)) /\ BagToSet(Received(c)) \subseteq BagToSet(calls)
          BY RemoveBag DEF CallsOK, Received
        <5> QED
          BY <5>1, <5>2, <5>3
      <4> QED
        BY <2>7, <4>1, <4>2, <4>3, <4>4
    <3>3. CallsOK' /\ TerminalOK'
      BY <2>1, <2>2, <3>2, RunOK
    <3>4. ServerOK'
      <4>1. CASE Attach
        <5>1. PICK c \in BagToSet(calls) :
                c.kind = "fleet" /\ c.answer # Waiting /\ Populate(c.answer.found)
          BY <4>1 DEF Attach, Answers
        <5> QED
          BY <2>1, <4>1, <5>1, PopulateOK DEF CallsOK, CallOK, AnsweredOK, Attach
      <4>2. CASE Verify
        BY <2>1, <4>2, Acted, SameServer DEF Verify
      <4>3. CASE ChooseVerified
        BY <2>1, <4>3, Acted DEF ChooseVerified, Choose, ServerOK, server, records
      <4>4. CASE Tampered
        BY <2>1, <4>4, SameServer DEF Tampered, ServerOK
      <4> QED
        BY <2>7, <4>1, <4>2, <4>3, <4>4
    <3>5. GaugeOK'
      <4>1. attached' \in BOOLEAN
        BY <2>7 DEF Attach, Verify, ChooseVerified, Tampered, GaugeOK, VerificationTypeOK, TerminalOK
      <4> QED
        BY <2>1, <2>2, <3>1, <3>3, <4>1 DEF GaugeOK, VerificationTypeOK, TerminalOK, GaugeSettles
    <3> QED
      BY <2>4, <3>1, <3>3, <3>4, <3>5, SameCount
  <2> QED
    BY <1>3, <2>5, <2>6, <2>7
<1>4. CASE VerificationFails
  <2>1. PICK c \in BagToSet(calls) : c.kind = "verify" /\ Fails(c)
    BY <1>4 DEF VerificationFails
  <2>2. /\ UNCHANGED <<loading, selector, actions>> /\ unheard' = TRUE /\ UNCHANGED counting
        /\ UNCHANGED <<attached, terminal, verdict, gauge, rising, overrun>>
    BY <1>4 DEF VerificationFails
  <2>3. page = "verification" /\ running
    BY <2>1, Busy DEF CallsOK, CallOK, Addressed
  <2>4. TerminalOK' /\ UNCHANGED sent
    BY <1>1, <2>2 DEF TerminalOK, GaugeOK, VerificationTypeOK, policies
  <2>5. CallsOK' /\ ServerOK' /\ LoadingOK' /\ UNCHANGED <<page, running>>
    BY <2>1, <2>2, <2>4, FailedOK
  <2>6. BoxOK' /\ GaugeOK' /\ CountOK' /\ EventsOK' /\ AlertOK' /\ RulesOK'
    BY <1>1, <2>2, <2>3, <2>4, <2>5, NoBox, SameGauge, SameCount, SameEvents, SameAlert, OffPolicies
       DEF Live, SimulatorPages
  <2> QED
    BY <2>5, <2>6
<1> QED
  BY <1>2, <1>3, <1>4 DEF VerificationSteps

-----------------------------------------------------------------------------
(* The events page. *)

LEMMA EventsStepOK == ASSUME IInv, EventSteps PROVE IInv'
<1> USE DEF IInv
<1>1. /\ UNCHANGED <<counting, simulator, verification, policies, stats>>
      /\ UNCHANGED <<loading, selector, server>>
  BY DEF EventSteps, ReloadEvents, EventsLoaded, PickFilter
<1>2. /\ UNCHANGED <<page, running, sent>> /\ sent \in Nat /\ TerminalOK'
  BY <1>1 DEF loading, policies, RulesOK, verification, GaugeOK, VerificationTypeOK, TerminalOK
<1>3. page = "events" /\ running
  <2>1. CASE ReloadEvents \/ PickFilter
    BY <2>1 DEF ReloadEvents, PickFilter, Live
  <2>2. CASE EventsLoaded
    <3>1. PICK c \in BagToSet(calls) : c.kind = "events"
      BY <2>2 DEF EventsLoaded, Answers
    <3> QED
      BY <3>1, Busy DEF CallsOK, CallOK, Addressed
  <2> QED
    BY <2>1, <2>2 DEF EventSteps
<1>4. LoadingOK' /\ RulesOK' /\ BoxOK' /\ GaugeOK' /\ CountOK' /\ AlertOK'
  BY <1>1, <1>2, <1>3, OffPolicies, NoBox, SameGauge, SameCount, SameAlert
     DEF Live, SimulatorPages, verification, counting
<1>5. CASE ReloadEvents
  <2>1. Act /\ calls' = BagAdd(calls, Call("events", Blank, 0)) /\ UNCHANGED events
    BY <1>5 DEF ReloadEvents, Send
  <2>2. PICK c : c = Call("events", Blank, 0)
    OBVIOUS
  <2>3. c \in Calls /\ c.kind = "events" /\ c.answer = Waiting
    BY <2>2, Waits DEF Kinds
  <2>4. CallOK(c)'
    BY <1>2, <1>3, <2>3 DEF CallOK, Addressed, AnsweredOK
  <2>5. CallsOK'
    BY <1>2, <2>1, <2>2, <2>4, Sent
  <2> QED
    BY <1>1, <1>4, <2>1, <2>5, Acted, SameServer, SameEvents
<1>6. CASE EventsLoaded
  <2>1. PICK c \in BagToSet(calls) :
          /\ c.kind = "events" /\ c.answer # Waiting /\ calls' = Received(c) /\ cache' = c.answer.found
          /\ badge' = Cardinality(cache') /\ UNCHANGED <<filter, actions>>
          /\ listed' = Matching(cache', filter')
    BY <1>6 DEF EventsLoaded, Answers, Filtered
  <2>2. cache' \in SUBSET EventKinds
    BY <2>1 DEF CallsOK, CallOK, AnsweredOK
  <2>3. badge' \in 0..Cardinality(EventKinds)
    BY <2>1, <2>2, Finite, PartOf
  <2>4. EventsOK'
    BY <2>1, <2>2, <2>3 DEF EventsOK, EventsFiltered, Matching
  <2>5. CallsOK'
    BY <1>2, <2>1, Gotten
  <2> QED
    BY <1>1, <1>4, <2>1, <2>4, <2>5, SameServer DEF ServerOK
<1>7. CASE PickFilter
  <2>1. /\ Act /\ filter' \in {"ALL"} \cup EventKinds /\ UNCHANGED <<cache, badge, calls>>
        /\ listed' = Matching(cache', filter')
    BY <1>7 DEF PickFilter, Filtered
  <2>2. EventsOK'
    BY <2>1 DEF EventsOK, EventsFiltered, Matching
  <2>3. CallsOK'
    BY <1>2, <2>1, CallsStep DEF CallsOK
  <2> QED
    BY <1>1, <1>4, <2>1, <2>2, <2>3, Acted, SameServer
<1> QED
  BY <1>5, <1>6, <1>7 DEF EventSteps
-----------------------------------------------------------------------------
(* The alert of the index page. *)

LEMMA StatsOK == ASSUME IInv, StatsSteps PROVE IInv'
<1> USE DEF IInv
<1>1. UNCHANGED <<simulator, verification, events, policies>> /\ UNCHANGED <<loading, selector, server, actions>>
  BY DEF StatsSteps, StatsLoaded
<1>2. /\ UNCHANGED <<page, running, sent>> /\ sent \in Nat /\ TerminalOK'
  BY <1>1 DEF loading, policies, RulesOK, verification, GaugeOK, VerificationTypeOK, TerminalOK
<1>3. PICK c \in BagToSet(calls) :
        /\ c.kind = "stats" /\ c.answer # Waiting /\ calls' = Received(c) /\ CountTo(c.answer.count)
        /\ alert' = c.answer.count /\ shaking' = Shaking(c.answer.count)
  BY DEF StatsSteps, StatsLoaded, Answers
<1>4. c.answer.count \in 0..Cardinality(Workloads) /\ c.answer.count \in Nat /\ page = "index" /\ running
  BY <1>3, Finite, Busy DEF CallsOK, CallOK, Addressed, AnsweredOK
<1>5. CallsOK' /\ InFlight("send")' = InFlight("send")
  BY <1>2, <1>3, Gotten
<1>6. CountOK' /\ goal' = c.answer.count
  BY <1>3, <1>4, CountToOK
<1>7. AlertOK'
  <2>1. shaking = IF alert > 0 THEN 1 ELSE 0
    BY <1>4 DEF AlertOK, AlertBacked
  <2>2. shaking' = IF alert' > 0 THEN 1 ELSE 0
    BY <1>3, <1>4, <2>1 DEF Shaking, AlertOK
  <2> QED
    BY <1>3, <1>4, <1>6, <2>2 DEF AlertOK, AlertBacked
<1>8. LoadingOK' /\ RulesOK'
  BY <1>1, <1>4, OffPolicies DEF Live
<1>9. ServerOK' /\ BoxOK' /\ GaugeOK' /\ EventsOK'
  BY <1>1, <1>2, <1>5, SameServer, SameBox, SameGauge, SameEvents DEF verification, ServerOK
<1> QED
  BY <1>5, <1>6, <1>7, <1>8, <1>9
-----------------------------------------------------------------------------
(* The rules of the policies page. *)

(* Loads sent now are the newest: what they will say is not yet known.     *)
LEMMA LoadRulesOK ==
  ASSUME IInv, Live("policies"), UNCHANGED <<loading, server, table, newest, overtaken>>,
         NEW others, IsABag(others), BagToSet(others) \subseteq BagToSet(calls),
         NEW n \in {1, 2}, LoadRules(others, n)
  PROVE  CallsOK' /\ RulesOK'
<1> USE DEF IInv
<1>1. /\ UNCHANGED <<page, running>> /\ page = "policies" /\ running /\ sent \in Nat /\ sent' = sent + n
      /\ newest \in 0..sent /\ n > 0 /\ sent' \in Nat
  BY DEF loading, Live, RulesOK, LoadRules
<1> DEFINE New == {Load(nr) : nr \in sent + 1 .. sent + n}
<1>2. calls' = others (+) SetToBag(New)
  BY DEF LoadRules
<1>3. IsABag(calls') /\ BagToSet(calls') = BagToSet(others) \cup New
  BY <1>2, SetBag, JoinBags
<1>4. ASSUME NEW c \in New
      PROVE  CallOK(c)' /\ c.kind = "policies" /\ c.answer = Waiting
  <2>1. PICK nr \in sent + 1 .. sent + n : c = Load(nr)
    BY <1>4
  <2>2. c \in Calls /\ c.kind = "policies" /\ c.nr = nr /\ c.answer = Waiting
    BY <1>1, <2>1, Waits DEF Kinds, Load
  <2>3. nr \in 1..sent'
    BY <1>1, <2>1
  <2>4. Addressed(c)'
    BY <1>1, <2>2, <2>3 DEF Addressed
  <2> QED
    BY <2>2, <2>4 DEF CallOK, AnsweredOK
<1>5. Load(sent + n) \in New /\ Load(sent + n).nr = sent'
  BY <1>1, Waits DEF Load, Call
<1> HIDE DEF New
<1>6. CallsOK'
  BY <1>1, <1>3, <1>4, CallsStep
<1>7. unseen' = (unseen /\ (InFlight("reset") # {} \/ astray # EmptyBag)) /\ UNCHANGED astray
  BY DEF LoadRules, server
<1>8. unseen' \in BOOLEAN /\ (unseen' <=> unseen /\ (InFlight("reset") # {} \/ astray # EmptyBag))
  BY <1>7, Zenon
<1>9. InFlight("reset")' # {} \/ astray' # EmptyBag => unseen'
  <2>1. InFlight("reset")' \subseteq InFlight("reset")
    BY <1>3, <1>4 DEF InFlight
  <2>2. InFlight("reset") # {} \/ astray # EmptyBag => unseen
    BY DEF RulesOK
  <2> QED
    BY <1>7, <1>8, <2>1, <2>2
<1>10. Latest'
  <2>1. ASSUME NEW c \in InFlight("policies")', c.nr = sent' PROVE c.answer = Waiting
    <3>1. CASE c \in New
      BY <1>4, <3>1
    <3>2. CASE c \in BagToSet(calls)
      <4>1. c.nr \in 1..sent
        BY <2>1, <3>2 DEF InFlight, CallsOK, CallOK, Addressed
      <4> QED
        BY <1>1, <2>1, <4>1
    <3> QED
      BY <1>3, <3>1, <3>2 DEF InFlight
  <2>2. newest' # sent'
    BY <1>1
  <2> QED
    BY <2>1, <2>2 DEF Latest
<1>11. \E c \in InFlight("policies")' : c.nr = sent'
  BY <1>3, <1>4, <1>5 DEF InFlight
<1>12. newest' \in 0..sent'
  BY <1>1
<1> QED
  BY <1>1, <1>6, <1>8, <1>9, <1>10, <1>11, <1>12 DEF RulesOK

LEMMA RulesLoadedOK ==
  ASSUME IInv, RulesLoaded, Live("policies") PROVE CallsOK' /\ RulesOK'
<1> USE DEF IInv
<1>1. PICK c \in BagToSet(calls) :
        /\ c.kind = "policies" /\ c.answer # Waiting /\ calls' = Received(c) /\ table' = c.answer.found
        /\ overtaken' = (c.nr < newest)
        /\ newest' = IF overtaken' THEN newest ELSE c.nr
        /\ UNCHANGED <<loading, server, sent, unseen>>
  BY DEF RulesLoaded, Answers
<1>2. UNCHANGED <<page, running, sent, rules, astray, unseen>> /\ sent \in Nat /\ newest \in 0..sent
  BY <1>1 DEF loading, server, records, RulesOK
<1>3. c.nr \in 1..sent /\ c.answer.found \subseteq Rules /\ c \in InFlight("policies")
  BY <1>1 DEF CallsOK, CallOK, Addressed, AnsweredOK, InFlight
<1>4. overtaken' \in BOOLEAN /\ (overtaken' <=> c.nr < newest)
  <2>1. (c.nr < newest) \in BOOLEAN
    BY <1>2, <1>3, SMT
  <2>2. overtaken' = (c.nr < newest)
    BY <1>1
  <2>3. ASSUME NEW a, NEW b \in BOOLEAN, a = b PROVE a \in BOOLEAN /\ (a <=> b)
    BY <2>3, Zenon
  <2> QED
    BY <2>1, <2>2, <2>3, Zenon
<1>5. /\ CallsOK' /\ InFlight("policies")' \subseteq InFlight("policies")
      /\ InFlight("reset")' = InFlight("reset") /\ Edits' = Edits
      /\ InFlight("policies") \subseteq InFlight("policies")' \cup {c}
  BY <1>1, <1>2, Gotten DEF Edits
<1>6. newest' \in 0..sent /\ (newest = sent \/ c.nr = sent => newest' = sent)
  BY <1>1, <1>2, <1>3, <1>4
<1>7. unseen' \/ newest' = sent' \/ \E x \in InFlight("policies")' : x.nr = sent'
  BY <1>2, <1>5, <1>6 DEF RulesOK
<1>8. ASSUME Latest PROVE Latest'
  <2>1. newest' = sent /\ ~overtaken' => c.nr = sent
    BY <1>1, <1>2, <1>3, <1>4
  <2> QED
    BY <1>1, <1>2, <1>3, <1>5, <1>8, <2>1 DEF Latest
<1>9. Edits' = {} /\ ~unseen' => Latest'
  BY <1>2, <1>5, <1>8 DEF RulesOK
<1>10. InFlight("reset")' # {} \/ astray' # EmptyBag => unseen'
  BY <1>2, <1>5 DEF RulesOK
<1>11. table' \subseteq Rules /\ unseen' \in BOOLEAN /\ (~running' => sent' = 1 /\ newest' = 0)
  BY <1>1, <1>2, <1>3 DEF Live, RulesOK
<1> QED
  BY <1>2, <1>4, <1>5, <1>6, <1>7, <1>9, <1>10, <1>11 DEF RulesOK

(* Adding or deleting a rule is under way before anything else happens.    *)
LEMMA EditOK ==
  ASSUME IInv, Live("policies"), UNCHANGED <<loading, server, policies>>, NEW kind \in {"add", "delete"},
         NEW r \in Rules, Send(Call(kind, r, 0))
  PROVE  CallsOK' /\ RulesOK'
<1> USE DEF IInv
<1>1. UNCHANGED <<page, running, sent>> /\ sent \in Nat /\ page = "policies"
  BY DEF loading, policies, RulesOK, Live
<1>2. PICK c : c = Call(kind, r, 0)
  OBVIOUS
<1>3. c \in Calls /\ c.kind = kind /\ c.arg = r /\ c.answer = Waiting
  BY <1>2, Waits DEF Kinds
<1>4. CallOK(c)'
  BY <1>1, <1>3 DEF CallOK, Addressed, AnsweredOK
<1>5. /\ CallsOK' /\ InFlight("policies")' = InFlight("policies") /\ InFlight("reset")' = InFlight("reset")
      /\ InFlight("add") \subseteq InFlight("add")' /\ InFlight("delete") \subseteq InFlight("delete")'
  BY <1>1, <1>2, <1>3, <1>4, Sent DEF Send
<1> QED
  BY <1>5, SameRules DEF Edits, server, records

LEMMA ResetRulesOK == ASSUME IInv, ResetRules PROVE CallsOK' /\ RulesOK'
<1> USE DEF IInv
<1>1. /\ UNCHANGED <<loading, table, sent, newest, overtaken>> /\ unseen' = TRUE
      /\ calls' = BagAdd(calls, Call("reset", Blank, 0)) /\ Live("policies")
  BY DEF ResetRules, ClickReset, Send
<1>2. UNCHANGED <<page, running, sent>> /\ sent \in Nat /\ running
  BY <1>1 DEF loading, RulesOK, Live
<1>3. CallOK(Call("reset", Blank, 0))' /\ Call("reset", Blank, 0).kind = "reset"
  BY PlainCall DEF Call
<1>4. CallsOK' /\ InFlight("policies")' = InFlight("policies")
  BY <1>1, <1>2, <1>3, Sent
<1> QED
  BY <1>1, <1>2, <1>4 DEF RulesOK

(* A load that fails was the newest, or a newer one is still to come.      *)
LEMMA RulesFailOK == ASSUME IInv, RulesFail, Live("policies") PROVE CallsOK' /\ ServerOK' /\ RulesOK'
<1> USE DEF IInv
<1>1. PICK c \in BagToSet(calls) :
        /\ c.kind \in {"policies", "add", "delete"} /\ Fails(c)
        /\ unseen' = (unseen \/ c.kind # "policies" \/ c.nr = sent)
  BY DEF RulesFail
<1>2. UNCHANGED <<loading, selector, actions, table, sent, newest, overtaken>>
  BY DEF RulesFail
<1>3. /\ CallsOK' /\ ServerOK' /\ UNCHANGED <<page, running, rules>> /\ sent \in Nat
      /\ \A kind : InFlight(kind)' \subseteq InFlight(kind)
      /\ \A kind : kind # c.kind => InFlight(kind)' = InFlight(kind)
      /\ InFlight(c.kind) \subseteq InFlight(c.kind)' \cup {c}
      /\ astray' = astray \/ c.kind \in Posts
  BY <1>1, <1>2, FailedOK
<1>4. unseen' \in BOOLEAN /\ (unseen' <=> unseen \/ c.kind # "policies" \/ c.nr = sent)
  BY <1>1, Zenon DEF RulesOK
<1>5. unseen' \/ newest' = sent' \/ \E x \in InFlight("policies")' : x.nr = sent'
  BY <1>1, <1>2, <1>3, <1>4 DEF RulesOK
<1>6. InFlight("reset")' # {} \/ astray' # EmptyBag => unseen'
  BY <1>1, <1>3, <1>4 DEF RulesOK, Posts
<1>7. ASSUME Edits' = {}, ~unseen' PROVE Latest'
  <2>1. c.kind = "policies" /\ ~unseen
    BY <1>4, <1>7
  <2>2. Edits = {}
    BY <1>3, <1>7, <2>1 DEF Edits
  <2> QED
    BY <1>2, <1>3, <2>1, <2>2 DEF RulesOK, Latest
<1> QED
  BY <1>2, <1>3, <1>4, <1>5, <1>6, <1>7 DEF RulesOK, Live

LEMMA ChangedElsewhereOK ==
  ASSUME IInv, RulesChangedElsewhere
  PROVE  /\ CallsOK' /\ ServerOK' /\ LoadingOK' /\ RulesOK'
         /\ UNCHANGED <<loading, calls>> /\ page = "policies"
<1> USE DEF IInv
<1>1. /\ page = "policies" /\ Act /\ UNCHANGED <<loading, selector, calls, astray, fleet, trail>>
      /\ rules' \in {Rules} \cup {rules \cup {r} : r \in Rules} \cup {rules \ {r} : r \in Rules}
      /\ unseen' = (unseen \/ (running /\ rules' # rules))
      /\ UNCHANGED <<table, sent, newest, overtaken>>
  BY DEF RulesChangedElsewhere, Elsewhere
<1>2. UNCHANGED <<page, running>> /\ sent \in Nat
  BY <1>1 DEF loading, RulesOK
<1>3. unseen' \in BOOLEAN /\ (unseen' <=> unseen \/ (running /\ rules' # rules))
  BY <1>1, Zenon DEF RulesOK
<1>4. CallsOK'
  BY <1>1, <1>2, CallsStep DEF CallsOK
<1>5. ServerOK'
  BY <1>1, Acted DEF ServerOK, selector, EditsRule
<1>6. \A kind : InFlight(kind)' = InFlight(kind)
  BY <1>1 DEF InFlight
<1>7. RulesOK'
  BY <1>1, <1>2, <1>3, <1>6 DEF RulesOK, Live, Latest, Edits
<1> QED
  BY <1>1, <1>4, <1>5, <1>7, SameLoading

LEMMA PoliciesOK == ASSUME IInv, PolicySteps PROVE IInv'
<1> USE DEF IInv
<1>1. UNCHANGED <<counting, simulator, verification, events, stats>> /\ UNCHANGED loading
  BY DEF PolicySteps, RulesLoaded, DeleteRule, RuleDeleted, AddRule, RuleAdded, ResetRules, ClickReset,
         RulesFail, RulesChangedElsewhere, Elsewhere
<1>2. UNCHANGED <<page, running>> /\ TerminalOK'
  BY <1>1 DEF loading, verification, GaugeOK, VerificationTypeOK, TerminalOK
<1>3. page = "policies"
  <2>1. CASE DeleteRule \/ AddRule \/ ResetRules \/ RulesChangedElsewhere
    BY <2>1 DEF DeleteRule, AddRule, ResetRules, RulesChangedElsewhere, Live
  <2>2. CASE RulesLoaded \/ RuleDeleted \/ RuleAdded \/ RulesFail
    <3>1. PICK c \in BagToSet(calls) : c.kind \in {"policies", "delete", "add"}
      BY <2>2 DEF RulesLoaded, RuleDeleted, RuleAdded, RulesFail, Answers
    <3> QED
      BY <3>1 DEF CallsOK, CallOK, Addressed
  <2> QED
    BY <2>1, <2>2 DEF PolicySteps
<1>4. BoxOK' /\ GaugeOK' /\ CountOK' /\ EventsOK' /\ AlertOK'
  BY <1>1, <1>2, <1>3, NoBox, SameGauge, SameCount, SameEvents, SameAlert
     DEF SimulatorPages, verification
<1>5. CASE RulesChangedElsewhere
  BY <1>4, <1>5, ChangedElsewhereOK
<1>6. CASE RulesFail
  <2>1. running
    BY <1>6, Busy DEF RulesFail
  <2> QED
    BY <1>1, <1>3, <1>4, <1>6, <2>1, RulesFailOK, SameLoading DEF Live
<1>7. ASSUME RulesLoaded \/ DeleteRule \/ RuleDeleted \/ AddRule \/ RuleAdded \/ ResetRules
      PROVE  IInv'
  <2>1. Live("policies")
    <3>1. CASE DeleteRule \/ AddRule \/ ResetRules
      BY <3>1 DEF DeleteRule, AddRule, ResetRules
    <3>2. CASE RulesLoaded \/ RuleDeleted \/ RuleAdded
      BY <1>3, <3>2, Busy DEF RulesLoaded, RuleDeleted, RuleAdded, Live
    <3> QED
      BY <1>7, <3>1, <3>2
  <2>2. UNCHANGED <<selector, server>>
    BY <1>7 DEF RulesLoaded, DeleteRule, RuleDeleted, AddRule, RuleAdded, ResetRules, ClickReset
  <2>3. ServerOK' /\ LoadingOK'
    <3>1. actions' \in 0..MaxActions
      BY <1>7, Acted DEF RulesLoaded, DeleteRule, RuleDeleted, AddRule, RuleAdded, ResetRules,
                         ClickReset, ServerOK
    <3> QED
      BY <1>1, <2>1, <2>2, <3>1, SameServer, SameLoading DEF Live
  <2>4. CASE RulesLoaded
    BY <1>4, <2>1, <2>3, <2>4, RulesLoadedOK
  <2>5. CASE DeleteRule
    <3>1. PICK r \in Rules : Send(Call("delete", r, 0)) /\ UNCHANGED policies
      BY <2>5 DEF DeleteRule, RulesOK
    <3> QED
      BY <1>1, <1>4, <2>1, <2>2, <2>3, <3>1, EditOK
  <2>6. CASE AddRule
    <3>1. PICK r \in Rules : Send(Call("add", r, 0)) /\ UNCHANGED policies
      BY <2>6 DEF AddRule
    <3> QED
      BY <1>1, <1>4, <2>1, <2>2, <2>3, <3>1, EditOK
  <2>7. CASE RuleDeleted \/ RuleAdded
    <3>1. PICK c \in BagToSet(calls), n \in {1, 2} :
            LoadRules(Received(c), n) /\ UNCHANGED <<table, newest, overtaken>>
      BY <2>7 DEF RuleDeleted, RuleAdded
    <3>2. IsABag(Received(c)) /\ BagToSet(Received(c)) \subseteq BagToSet(calls)
      BY RemoveBag DEF CallsOK, Received
    <3> QED
      BY <1>1, <1>4, <2>1, <2>2, <2>3, <3>1, <3>2, LoadRulesOK
  <2>8. CASE ResetRules
    BY <1>4, <2>3, <2>8, ResetRulesOK
  <2> QED
    BY <1>7, <2>4, <2>5, <2>6, <2>7, <2>8
<1> QED
  BY <1>5, <1>6, <1>7 DEF PolicySteps
-----------------------------------------------------------------------------
(* Closing a dialog refreshes the page it is on. *)

LEMMA RefreshingOK ==
  ASSUME page \notin {"verification", "policies"}, UNCHANGED page
  PROVE  IsABag(Refreshing) /\ \A c \in BagToSet(Refreshing) : CallOK(c)'
<1> DEFINE S == CASE page = "index"     -> {Call("stats", Blank, 0), Call("fleet", Blank, 0)}
                  [] page = "simulator" -> {Call("fleet", Blank, 0)}
                  [] page = "events"    -> {Call("events", Blank, 0)}
                  [] OTHER              -> {}
<1>1. Refreshing = SetToBag(S)
  BY DEF Refreshing, EmptyBag
<1>2. IsABag(Refreshing) /\ BagToSet(Refreshing) = S
  BY <1>1, SetBag
<1>3. ASSUME NEW c \in S
      PROVE  \/ c = Call("fleet", Blank, 0)
             \/ page = "index" /\ c = Call("stats", Blank, 0)
             \/ page = "events" /\ c = Call("events", Blank, 0)
  BY <1>3
<1>4. ASSUME NEW kind \in {"stats", "events"}, page = IF kind = "stats" THEN "index" ELSE "events",
             NEW c, c = Call(kind, Blank, 0)
      PROVE  CallOK(c)'
  <2>1. c \in Calls /\ c.kind = kind /\ c.answer = Waiting
    BY <1>4, Waits DEF Kinds
  <2>2. Addressed(c)'
    BY <1>4, <2>1 DEF Addressed
  <2> QED
    BY <2>1, <2>2 DEF CallOK, AnsweredOK
<1>5. ASSUME NEW c \in S PROVE CallOK(c)'
  BY <1>3, <1>4, <1>5, PlainCall
<1> QED
  BY <1>2, <1>5

LEMMA ModalsOK == ASSUME IInv, CloseAllModals PROVE IInv'
<1> USE DEF IInv
<1>1. /\ running /\ Act /\ UNCHANGED <<loading, selector, server>>
      /\ UNCHANGED <<counting, simulator, events, stats>>
      /\ UNCHANGED <<attached, verdict, gauge, rising, overrun>>
  BY DEF CloseAllModals
<1>2. UNCHANGED <<page, running, goal>>
  BY <1>1 DEF loading, counting
<1>3. LoadingOK' /\ ServerOK' /\ CountOK' /\ EventsOK' /\ AlertOK'
  BY <1>1, <1>2, SameLoading, Acted, SameServer, SameCount, SameEvents, SameAlert
<1>4. CASE page = "verification" /\ Run(chosen, calls) /\ UNCHANGED policies
  <2>1. UNCHANGED sent /\ ~Live("policies")
    BY <1>4 DEF policies, Live
  <2>2. CallsOK' /\ TerminalOK'
    BY <1>2, <1>4, <2>1, RunOK DEF CallsOK, ServerOK
  <2>3. GaugeOK' /\ BoxOK' /\ RulesOK'
    BY <1>1, <1>2, <1>4, <2>1, <2>2, SameGauge, NoBox, OffPolicies DEF SimulatorPages
  <2> QED
    BY <1>3, <2>2, <2>3
<1>5. CASE page = "policies" /\ LoadRules(calls, 1) /\ UNCHANGED <<terminal, unheard, table, newest, overtaken>>
  <2>1. CallsOK' /\ RulesOK'
    BY <1>1, <1>5, LoadRulesOK DEF CallsOK, Live
  <2>2. GaugeOK' /\ BoxOK'
    BY <1>1, <1>2, <1>5, SameGauge, NoBox DEF SimulatorPages, GaugeOK, VerificationTypeOK, TerminalOK
  <2> QED
    BY <1>3, <2>1, <2>2
<1>6. CASE /\ page \notin {"verification", "policies"} /\ calls' = calls (+) Refreshing
           /\ UNCHANGED <<terminal, unheard, policies>>
  <2>1. UNCHANGED sent /\ sent \in Nat /\ ~Live("policies")
    BY <1>6 DEF policies, Live, RulesOK
  <2>2. IsABag(calls') /\ BagToSet(calls') = BagToSet(calls) \cup BagToSet(Refreshing)
    BY <1>2, <1>6, RefreshingOK, JoinBags DEF CallsOK
  <2>3. CallsOK'
    BY <1>2, <1>6, <2>1, <2>2, RefreshingOK, CallsStep
  <2>4. InFlight("send") \subseteq InFlight("send")'
    BY <2>2 DEF InFlight
  <2>5. GaugeOK' /\ BoxOK' /\ RulesOK'
    BY <1>1, <1>2, <1>6, <2>1, <2>4, SameGauge, SameBox, OffPolicies DEF GaugeOK, VerificationTypeOK, TerminalOK
  <2> QED
    BY <1>3, <2>3, <2>5
<1> QED
  BY <1>4, <1>5, <1>6 DEF CloseAllModals
-----------------------------------------------------------------------------
LEMMA StutterOK == ASSUME IInv, UNCHANGED vars PROVE IInv'
<1> USE DEF IInv
<1>1. /\ UNCHANGED <<loading, selector, server, calls, actions>>
      /\ UNCHANGED <<counting, simulator, verification, events, policies, stats>>
  BY DEF vars, shell
<1>2. /\ UNCHANGED <<page, running, sent, goal>> /\ sent \in Nat /\ TerminalOK'
  BY <1>1 DEF loading, policies, counting, RulesOK, verification, GaugeOK, VerificationTypeOK, TerminalOK
<1>3. \A kind : InFlight(kind)' = InFlight(kind)
  BY <1>1 DEF InFlight
<1>4. CallsOK'
  BY <1>1, <1>2, CallsStep DEF CallsOK
<1>5. RulesOK'
  BY <1>1, <1>3, SameRules DEF Edits, server, records
<1>6. LoadingOK' /\ ServerOK' /\ BoxOK' /\ GaugeOK' /\ CountOK' /\ EventsOK' /\ AlertOK'
  BY <1>1, <1>2, <1>3, SameLoading, SameServer, SameBox, SameGauge, SameCount, SameEvents, SameAlert
     DEF verification, server, ServerOK
<1> QED
  BY <1>4, <1>5, <1>6

LEMMA NextOK == IInv /\ [Next]_vars => IInv'
<1> SUFFICES ASSUME IInv, [Next]_vars PROVE IInv'
  OBVIOUS
<1>1. CASE Shell
  <2>1. Idle
    BY <1>1 DEF Shell, Idle
  <2> QED
    BY <1>1, <2>1, EvaluateOK, ServeOK, ServeAstrayOK, CallFailsOK, ElsewhereOK, ResetOK DEF Shell
<1>2. CASE SimulatorSteps
  BY <1>2, SimulatorOK
<1>3. CASE VerificationSteps
  BY <1>3, VerificationOK
<1>4. CASE EventSteps
  BY <1>4, EventsStepOK
<1>5. CASE PolicySteps
  BY <1>5, PoliciesOK
<1>6. CASE StatsSteps
  BY <1>6, StatsOK
<1>7. CASE CounterSteps
  BY <1>7, CounterOK
<1>8. CASE CloseAllModals
  BY <1>8, ModalsOK
<1>9. CASE UNCHANGED vars
  BY <1>9, StutterOK
<1> QED
  BY <1>1, <1>2, <1>3, <1>4, <1>5, <1>6, <1>7, <1>8, <1>9 DEF Next

(* The inductive invariant: every call under way is one its page makes,    *)
(* every animation and every row says where it comes from (app.js).        *)
THEOREM PagesInvariant == Spec => []IInv
<1>1. Init => IInv
  BY InitOK
<1>2. IInv /\ [Next]_vars => IInv'
  BY NextOK
<1> QED
  BY <1>1, <1>2, PTL DEF Spec

(* Timeline, badge and alert show one state of the page, however many      *)
(* loads overlap and in whatever order they are answered (app.js).         *)
THEOREM TablesStayConsistent == Spec => []TablesConsistent
  BY PagesInvariant, Promises, PTL

(* The result box evaluates only while a request is under way or after one *)
(* failed, and agrees with the newest row of the flow monitor (app.js).    *)
THEOREM DecisionsStayAgreed == Spec => []DecisionsAgree
  BY PagesInvariant, Promises, PTL

(* At rest gauge and number show the last answer, except where an earlier  *)
(* animation overran it or a number asked for was just being passed.       *)
THEOREM AnimationsComeToRest == Spec => []AnimationsSettle
  BY PagesInvariant, Promises, PTL

(* Once the edits and loads of the tab are over the table holds the rules  *)
(* of the server, unless answers overtook each other, or the tab sent no   *)
(* load since its reset, since a failed edit or failed newest load, or     *)
(* since a change from elsewhere (app.js).                                 *)
THEOREM WritesAreRead == Spec => []ReadYourWrites
  BY PagesInvariant, Promises, PTL

=============================================================================

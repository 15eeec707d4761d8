--------------------------- MODULE ShowcaseProofs ---------------------------
(***************************************************************************)
(* Proofs about the visualizer and the showcase, for any rows the page     *)
(* finds, any number of clicks, and any answers lost or late.              *)
(***************************************************************************)
EXTENDS Showcase, FiniteSetTheorems, TLAPS

Kinds == {"list", "get", "confirm", "reset", "send", "tamper"}
ListAnswers == {"none", "old", "new", "both"}
Answer0 == [is : Statuses \cup ListAnswers \cup {"waiting", "OK", "ERROR", "ALLOW", "DENY"},
            ident : Identities \cup {"none"}, born : Nat]

Requests == [kind : Kinds, w : Ids, dest : Destinations \cup {"none"},
             step : -1..Steps, answer : Answer0]

(* What a copy of a row, however old, says about the row: a workload once  *)
(* seen outside its window stays outside, until it is registered anew.     *)
Seen(w, status, born) ==
  /\ w = Blank => status = "ABSENT"
  /\ born <= server[w].born
  /\ status # "AMBIGUOUS" /\ born = server[w].born => server[w].status # "AMBIGUOUS"

AnswerOK(r) ==
  /\ r \in Requests
  /\ r.kind = "get" /\ r.answer # Waiting =>
       /\ r.answer.is \in Statuses /\ r.answer.ident \in Identities
       /\ Seen(r.w, r.answer.is, r.answer.born)
  /\ r.kind = "list" /\ r.answer # Waiting => r.answer.is \in ListAnswers

ServerOK == server \in [Ids -> Row] /\ server[Blank].status = "ABSENT"

NetOK == IsABag(net) /\ \A r \in BagToSet(net) : AnswerOK(r)

Painted == [w : Workloads, status : Statuses \ {"ABSENT"}, ident : Identities, born : Nat]

PageOK ==
  /\ options \subseteq Workloads /\ options # {}
  /\ selected \in Ids
  /\ panel = NoPanel \/ (panel \in Painted /\ Seen(panel.w, panel.status, panel.born))
  /\ reloadDue \in BOOLEAN

(* Only clicks come to step 1, and a show that plays has a step to go to.  *)
ShowOK ==
  /\ current \in 1..Steps /\ playing \in BOOLEAN
  /\ timer \in Nat /\ timeouts \subseteq Nat \ {0}
  /\ clicks \in 0..MaxClicks /\ sleeping \in 0..clicks
  /\ hud \in BOOLEAN /\ button \in {"Pause", "Resume", "Replay"} /\ rough \in BOOLEAN
  /\ playing => current < Steps
  /\ OneTimeout /\ ButtonHonest

IInv == ServerOK /\ NetOK /\ PageOK /\ ShowOK /\ NeverStuck

LEMMA Promises ==
  IInv => ShowConsistent /\ OneTimeout /\ NeverStuck /\ PanelFailsClosed

<1> SUFFICES ASSUME IInv
             PROVE  ShowConsistent /\ OneTimeout /\ NeverStuck /\ PanelFailsClosed
  OBVIOUS
<1> USE DEF IInv
<1>1. VisTypeOK
  <2>1. panel \in Painted \cup {NoPanel}
    BY DEF PageOK
  <2> QED
    BY <2>1 DEF ServerOK, NetOK, PageOK, ShowOK, VisTypeOK, Painted, Identities
<1>2. TypeOK
  <2>1. sleeping \in 0..MaxClicks
    BY VisualizerAssumption DEF ShowOK
  <2> QED
    BY <1>1, <2>1 DEF ShowOK, TypeOK
<1>3. ShowConsistent /\ OneTimeout /\ NeverStuck
  BY <1>2 DEF ShowOK, ShowConsistent
<1>4. PanelFailsClosed
  BY DEF PanelFailsClosed, Unlocked, PageOK, IsAmbiguous, Seen
<1> QED
  BY <1>3, <1>4
-----------------------------------------------------------------------------
(* Bags. *)

LEMMA AddBag ==
  ASSUME NEW B, IsABag(B), NEW x
  PROVE  IsABag(BagAdd(B, x)) /\ BagToSet(BagAdd(B, x)) = BagToSet(B) \cup {x}
<1>1. BagToSet(BagAdd(B, x)) = BagToSet(B) \cup {x}
  BY DEF BagToSet, BagAdd
<1>2. IsABag(BagAdd(B, x))
  BY DEF IsABag, BagAdd
<1> QED
  BY <1>1, <1>2

LEMMA RemoveBag ==
  ASSUME NEW B, IsABag(B), NEW x
  PROVE  /\ IsABag(BagRemove(B, x))
         /\ BagToSet(BagRemove(B, x)) \subseteq BagToSet(B)
         /\ BagToSet(B) \subseteq BagToSet(BagRemove(B, x)) \cup {x}
<1>1. IsABag(BagRemove(B, x))
  <2>1. CASE x \notin DOMAIN B
    BY <2>1 DEF BagRemove
  <2>2. CASE x \in DOMAIN B /\ B[x] = 1
    BY <2>2 DEF IsABag, BagRemove
  <2>3. CASE x \in DOMAIN B /\ B[x] # 1
    BY <2>3 DEF IsABag, BagRemove
  <2> QED
    BY <2>1, <2>2, <2>3
<1>2. /\ BagToSet(BagRemove(B, x)) \subseteq BagToSet(B)
      /\ BagToSet(B) \subseteq BagToSet(BagRemove(B, x)) \cup {x}
  BY DEF BagToSet, BagRemove
<1> QED
  BY <1>1, <1>2

LEMMA SetBag == ASSUME NEW S PROVE IsABag(SetToBag(S)) /\ BagToSet(SetToBag(S)) = S
  BY DEF IsABag, BagToSet, SetToBag
-----------------------------------------------------------------------------
(* Requests under way. *)

(* What may happen to a row once seen.                                     *)
Forward ==
  \A w \in Ids :
    /\ server[w].born \in Nat /\ server'[w].born \in Nat
    /\ server[w].born <= server'[w].born
    /\ server[w].status # "AMBIGUOUS" /\ server[w].born = server'[w].born =>
         server'[w].status # "AMBIGUOUS"

(* At the hands of the page no workload comes about.                       *)
NoneNew == \A w \in Ids : server[w].status = "ABSENT" => server'[w].status = "ABSENT"

LEMMA Unmoved == ASSUME ServerOK, UNCHANGED server PROVE Forward /\ NoneNew
<1>1. \A w \in Ids : server[w].born \in Nat
  BY DEF ServerOK, Row
<1> QED
  BY <1>1 DEF Forward, NoneNew

LEMMA StillSeen ==
  ASSUME Forward, NEW w \in Ids, NEW status, NEW born \in Nat, Seen(w, status, born)
  PROVE  Seen(w, status, born)'
  BY DEF Forward, Seen

LEMMA StillAnswered == ASSUME Forward, NEW r, AnswerOK(r) PROVE AnswerOK(r)'
<1>1. r \in Requests /\ r.w \in Ids /\ r.answer.born \in Nat
  BY DEF AnswerOK, Requests, Answer0
<1>2. ASSUME Seen(r.w, r.answer.is, r.answer.born)
      PROVE  Seen(r.w, r.answer.is, r.answer.born)'
  BY <1>1, <1>2 DEF Forward, Seen
<1> QED
  BY <1>1, <1>2 DEF AnswerOK

LEMMA WaitingOK ==
  ASSUME NEW r \in Requests, r.answer = Waiting
  PROVE  AnswerOK(r) /\ AnswerOK(r)'
  BY DEF AnswerOK

LEMMA RequestOK ==
  ASSUME NEW kind \in Kinds, NEW w \in Ids, NEW dest \in Destinations \cup {"none"},
         NEW step \in -1..Steps
  PROVE  /\ Request(kind, w, dest, step) \in Requests
         /\ Request(kind, w, dest, step).answer = Waiting
         /\ Request(kind, w, dest, step).kind = kind
         /\ Request(kind, w, dest, step).step = step
  BY DEF Request, Requests, Waiting, Answer0

LEMMA NetStep ==
  ASSUME NetOK, Forward, IsABag(net'),
         \A r \in BagToSet(net') : r \in BagToSet(net) \/ AnswerOK(r)'
  PROVE  NetOK'
<1>1. ASSUME NEW r \in BagToSet(net') PROVE AnswerOK(r)'
  BY <1>1, StillAnswered DEF NetOK
<1>2. BagToSet(net)' = BagToSet(net')
  OBVIOUS
<1> QED
  BY <1>1, <1>2 DEF NetOK

(* A tampering post of the page that is there.                             *)
Tampering(B) == \E r \in BagToSet(B) : r.kind = "tamper" /\ r.step # Orphan

(* One more request.                                                       *)
LEMMA Asked ==
  ASSUME NetOK, Forward, NEW x \in Requests, x.answer = Waiting, net' = BagAdd(net, x)
  PROVE  /\ NetOK'
         /\ Tampering(net) => Tampering(net')
         /\ x.kind = "tamper" /\ x.step # Orphan => Tampering(net')
<1>1. IsABag(net') /\ BagToSet(net') = BagToSet(net) \cup {x}
  BY AddBag DEF NetOK
<1>2. NetOK'
  BY <1>1, WaitingOK, NetStep
<1> QED
  BY <1>1, <1>2 DEF Tampering

(* One answered or given up, and one more.                                 *)
LEMMA Replaced ==
  ASSUME NetOK, Forward, NEW r \in BagToSet(net), NEW x, AnswerOK(x)',
         net' = BagAdd(BagRemove(net, r), x)
  PROVE  /\ NetOK'
         /\ (x.kind = r.kind /\ x.step = r.step) \/ r.kind # "tamper" \/ r.step = Orphan
              => (Tampering(net) => Tampering(net'))
<1> DEFINE B == BagRemove(net, r)
<1>1. /\ IsABag(B) /\ BagToSet(B) \subseteq BagToSet(net)
      /\ BagToSet(net) \subseteq BagToSet(B) \cup {r}
  BY RemoveBag DEF NetOK
<1>2. IsABag(net') /\ BagToSet(net') = BagToSet(B) \cup {x}
  BY <1>1, AddBag
<1>3. NetOK'
  BY <1>1, <1>2, NetStep
<1> QED
  BY <1>1, <1>2, <1>3 DEF Tampering

LEMMA Removed ==
  ASSUME NetOK, Forward, NEW r \in BagToSet(net), net' = BagRemove(net, r)
  PROVE  /\ NetOK'
         /\ r.kind # "tamper" \/ r.step = Orphan => (Tampering(net) => Tampering(net'))
<1>1. /\ IsABag(net') /\ BagToSet(net') \subseteq BagToSet(net)
      /\ BagToSet(net) \subseteq BagToSet(net') \cup {r}
  BY RemoveBag DEF NetOK
<1>2. NetOK'
  BY <1>1, NetStep
<1> QED
  BY <1>1, <1>2 DEF Tampering

-----------------------------------------------------------------------------
(* The server. *)

LEMMA FreshOK ==
  ASSUME NEW status \in Statuses, NEW ident \in Identities, NEW born \in Nat
  PROVE  /\ Fresh(status, ident, born) \in Row
         /\ Fresh(status, ident, born).status = status
         /\ Fresh(status, ident, born).born = born
  BY DEF Fresh, Row

LEMMA ErasedOK ==
  ASSUME NEW row \in Row
  PROVE  /\ Erased(row) \in Row
         /\ Erased(row).status = "ABSENT" /\ Erased(row).born = row.born
<1>1. row.born \in Nat /\ "ABSENT" \in Statuses /\ "payment" \in Identities
  BY DEF Row, Statuses, Identities
<1> QED
  BY <1>1, FreshOK DEF Erased

LEMMA InitOK == Init => IInv
<1> SUFFICES ASSUME Init PROVE IInv
  OBVIOUS
<1> USE DEF Init, VisInit, PageInit, ShowInit
<1>1. ServerOK
  <2>1. PICK o \in OldFound, n \in NewFound :
          server = [w \in Ids |-> CASE w = Old -> Fresh(o, "payment", 0)
                                    [] w = New -> Fresh(n, IF n = "CONFIRMED" THEN "student"
                                                                              ELSE "payment", 0)
                                    [] OTHER   -> Fresh("ABSENT", "payment", 0)]
    BY DEF Servers
  <2>2. o \in Statuses /\ n \in Statuses /\ "ABSENT" \in Statuses
    BY VisualizerAssumption DEF Statuses
  <2>3. "payment" \in Identities /\ (IF n = "CONFIRMED" THEN "student" ELSE "payment") \in Identities
    BY DEF Identities
  <2>4. server \in [Ids -> Row]
    BY <2>1, <2>2, <2>3, FreshOK
  <2>5. Blank \in Ids /\ Blank # Old /\ Blank # New
    BY VisualizerAssumption DEF Ids, Workloads
  <2>6. server[Blank] = Fresh("ABSENT", "payment", 0)
    BY <2>1, <2>5
  <2> QED
    BY <2>2, <2>3, <2>4, <2>6, FreshOK DEF ServerOK
<1>2. NetOK
  <2>1. IsABag(EmptyBag) /\ BagToSet(EmptyBag) = {}
    BY SetBag DEF EmptyBag
  <2>2. IsABag(net) /\ BagToSet(net) = {List}
    BY <2>1, AddBag
  <2>3. List \in Requests /\ List.answer = Waiting
    BY RequestOK DEF List, Kinds, Ids, Steps
  <2> QED
    BY <2>2, <2>3, WaitingOK DEF NetOK
<1>3. PageOK
  BY DEF PageOK, Workloads, Ids
<1>4. ShowOK
  <2>1. playing \in BOOLEAN /\ hud \in BOOLEAN /\ rough \in BOOLEAN /\ playing = FALSE /\ hud = FALSE
    BY Zenon
  <2>2. OneTimeout /\ ButtonHonest
    BY DEF OneTimeout, ButtonHonest
  <2>3. current = 1 /\ timer = 0 /\ timeouts = {} /\ clicks = 0 /\ sleeping = 0 /\ button = "Pause"
    OBVIOUS
  <2> QED
    BY <2>1, <2>2, <2>3, VisualizerAssumption DEF ShowOK, Steps
<1>5. NeverStuck
  BY DEF NeverStuck
<1> QED
  BY <1>1, <1>2, <1>3, <1>4, <1>5 DEF IInv

LEMMA ProbedOK ==
  ASSUME NEW row \in Row
  PROVE  /\ Probed(row) \in Row
         /\ Probed(row).ident = row.ident /\ Probed(row).born = row.born
         /\ row.status # "ABSENT" => Probed(row).status # "ABSENT"
         /\ row.status # "AMBIGUOUS" => Probed(row) = row
<1>1. CASE row.status = "AMBIGUOUS"
  <2>1. /\ Probed(row).status \in Statuses \ {"ABSENT"} /\ Probed(row).probes \in Nat
        /\ Probed(row).ident = row.ident /\ Probed(row).born = row.born
    BY <1>1 DEF Probed, Row, Statuses
  <2> QED
    BY <1>1, <2>1 DEF Probed, Row
<1>2. CASE row.status # "AMBIGUOUS"
  BY <1>2 DEF Probed, Row
<1> QED
  BY <1>1, <1>2

LEMMA BypassedOK ==
  ASSUME NEW row \in Row
  PROVE  /\ Bypassed(row) \in Row
         /\ Bypassed(row).status = row.status /\ Bypassed(row).ident = row.ident
         /\ Bypassed(row).born = row.born /\ Bypassed(row).probes = row.probes + 1
<1>1. ASSUME NEW b \in BOOLEAN, NEW n \in Nat
      PROVE  /\ [row EXCEPT !.breach = b, !.probes = n] \in Row
             /\ [row EXCEPT !.breach = b, !.probes = n].status = row.status
             /\ [row EXCEPT !.breach = b, !.probes = n].ident = row.ident
             /\ [row EXCEPT !.breach = b, !.probes = n].born = row.born
             /\ [row EXCEPT !.breach = b, !.probes = n].probes = n
  BY DEF Row
<1>2. PICK n \in Nat : n = row.probes + 1
  BY DEF Row
<1>3. PICK b \in BOOLEAN : b = (row.breach \/ row.status # "CONFIRMED")
  <2>1. (row.breach \/ row.status # "CONFIRMED") \in BOOLEAN
    BY Zenon
  <2> QED
    BY <2>1, Zenon
<1>4. PICK new \in Row :
        /\ new = [row EXCEPT !.breach = b, !.probes = n]
        /\ new.status = row.status /\ new.ident = row.ident
        /\ new.born = row.born /\ new.probes = n
  BY <1>1
<1>5. Bypassed(row) = new
  BY <1>2, <1>3, <1>4, Zenon DEF Bypassed
<1> QED
  BY <1>2, <1>4, <1>5, Zenon

(* Confirmation of a row under an identity, whatever it was before.        *)
LEMMA ConfirmedOK ==
  ASSUME NEW row \in Row, NEW ident \in Identities
  PROVE  LET new == [row EXCEPT !.status = "CONFIRMED", !.ident = ident, !.verdict = Verdict(row)]
         IN  new \in Row /\ new.status = "CONFIRMED" /\ new.ident = ident /\ new.born = row.born
<1>1. Verdict(row) \in {"NONE", "PASS", "FAIL"} /\ "CONFIRMED" \in Statuses
  BY DEF Verdict, Statuses
<1> QED
  BY <1>1 DEF Row

(* A change of one row.                                                    *)
ChangeOK(w, row) ==
  /\ row \in Row
  /\ w = Blank => row.status = "ABSENT"
  /\ server[w].born <= row.born
  /\ server[w].born = row.born /\ server[w].status # "AMBIGUOUS" => row.status # "AMBIGUOUS"

LEMMA RowStep ==
  ASSUME ServerOK, NEW w \in Ids, NEW row, ChangeOK(w, row),
         server' = [server EXCEPT ![w] = row]
  PROVE  /\ ServerOK' /\ Forward
         /\ (server[w].status = "ABSENT" => row.status = "ABSENT") => NoneNew
<1>1. server' \in [Ids -> Row] /\ server'[w] = row /\ \A v \in Ids \ {w} : server'[v] = server[v]
  BY DEF ServerOK, ChangeOK
<1>2. \A v \in Ids : server[v].born \in Nat /\ server'[v].born \in Nat
  BY <1>1 DEF ServerOK, Row
<1>3. Forward
  BY <1>1, <1>2 DEF Forward, ChangeOK
<1>4. Blank \in Ids
  BY DEF Ids
<1>5. ServerOK'
  BY <1>1, <1>4 DEF ServerOK, ChangeOK
<1>6. (server[w].status = "ABSENT" => row.status = "ABSENT") => NoneNew
  BY <1>1 DEF NoneNew
<1> QED
  BY <1>3, <1>5, <1>6

LEMMA AnsweredOK ==
  ASSUME NEW r \in Requests, r.kind # "get",
         NEW is \in ListAnswers \cup {"OK", "ERROR", "ALLOW", "DENY"},
         r.kind = "list" => is \in ListAnswers
  PROVE  /\ AnswerOK(Answered(r, is))'
         /\ Answered(r, is).kind = r.kind /\ Answered(r, is).step = r.step
<1>1. Answered(r, is) \in Requests
  BY DEF Answered, Requests, Answer0
<1>2. /\ Answered(r, is).kind = r.kind /\ Answered(r, is).step = r.step
      /\ Answered(r, is).answer = [is |-> is, ident |-> "none", born |-> 0]
  BY DEF Answered, Requests
<1> QED
  BY <1>1, <1>2 DEF AnswerOK

LEMMA ServeOK ==
  ASSUME IInv, Serve
  PROVE  /\ ServerOK' /\ Forward /\ NoneNew
         /\ NetOK' /\ (Tampering(net) => Tampering(net'))
<1> USE DEF IInv
<1>1. PICK r \in BagToSet(net) :
        \/ HandleSend(r) \/ HandleConfirm(r) \/ HandleTamper(r)
        \/ HandleReset(r) \/ HandleGet(r) \/ HandleList(r)
  BY DEF Serve
<1>2. /\ r \in Requests /\ r.w \in Ids /\ server[r.w] \in Row /\ server[r.w].born \in Nat
      /\ r.w = Blank => server[r.w].status = "ABSENT"
  BY DEF NetOK, AnswerOK, Requests, ServerOK, Row
<1>3. ASSUME ServerOK' /\ Forward /\ NoneNew,
             NEW is \in ListAnswers \cup {"OK", "ERROR", "ALLOW", "DENY"},
             Handle(r, Answered(r, is)), r.kind # "get", r.kind = "list" => is \in ListAnswers
      PROVE  /\ ServerOK' /\ Forward /\ NoneNew
             /\ NetOK' /\ (Tampering(net) => Tampering(net'))
  BY <1>2, <1>3, AnsweredOK, Replaced DEF Handle
<1>4. ASSUME UNCHANGED server PROVE ServerOK' /\ Forward /\ NoneNew
  BY <1>4, Unmoved DEF ServerOK
<1>5. CASE HandleSend(r)
  <2>1. server' = [server EXCEPT ![r.w] = Probed(server[r.w])]
    BY <1>5 DEF HandleSend
  <2>2. PICK row \in Row : row = Probed(server[r.w])
    BY <1>2, ProbedOK
  <2>3. /\ row.born = server[r.w].born
        /\ server[r.w].status # "AMBIGUOUS" => row.status = server[r.w].status
    BY <1>2, <2>2, ProbedOK
  <2>4. ServerOK' /\ Forward /\ NoneNew
    <3>1. ChangeOK(r.w, row)
      BY <1>2, <2>3 DEF ChangeOK
    <3> QED
      BY <1>2, <2>1, <2>2, <2>3, <3>1, RowStep
  <2>5. Decision(server[r.w], r.dest) \in {"ERROR", "ALLOW", "DENY"}
    BY DEF Decision
  <2> QED
    BY <1>3, <1>5, <2>4, <2>5 DEF HandleSend, Asks
<1>6. CASE HandleConfirm(r)
  <2>1. CASE Confirmable(server[r.w])
    <3> DEFINE changed == [server[r.w] EXCEPT !.status = "CONFIRMED", !.ident = "student",
                             !.verdict = Verdict(server[r.w])]
    <3>1. PICK row \in Row : /\ row = changed /\ row.status = "CONFIRMED"
                             /\ row.born = server[r.w].born
      BY <1>2, ConfirmedOK DEF Identities
    <3>2. server' = [server EXCEPT ![r.w] = row]
      BY <1>2, <1>6, <2>1, <3>1 DEF HandleConfirm, ServerOK
    <3>3. ServerOK' /\ Forward /\ NoneNew
      <4>1. ChangeOK(r.w, row) /\ server[r.w].status # "ABSENT"
        BY <1>2, <2>1, <3>1 DEF Confirmable, ChangeOK
      <4> QED
        BY <1>2, <3>2, <4>1, RowStep
    <3> QED
      BY <1>3, <1>6, <2>1, <3>3 DEF HandleConfirm, Asks
  <2>2. CASE ~Confirmable(server[r.w])
    BY <1>3, <1>4, <1>6, <2>2 DEF HandleConfirm, Asks
  <2> QED
    BY <2>1, <2>2
<1>7. CASE HandleTamper(r)
  <2>1. CASE server[r.w].status = "ABSENT"
    BY <1>3, <1>4, <1>7, <2>1 DEF HandleTamper, Asks
  <2>2. CASE server[r.w].status # "ABSENT"
    <3>1. PICK row \in Row : /\ row = Bypassed(server[r.w]) /\ row.status = server[r.w].status
                             /\ row.born = server[r.w].born
      BY <1>2, BypassedOK
    <3>2. server' = [server EXCEPT ![r.w] = row]
      BY <1>7, <2>2, <3>1 DEF HandleTamper
    <3>3. ServerOK' /\ Forward /\ NoneNew
      <4>1. ChangeOK(r.w, row)
        BY <1>2, <3>1 DEF ChangeOK
      <4> QED
        BY <1>2, <3>1, <3>2, <4>1, RowStep
    <3> QED
      BY <1>3, <1>7, <2>2, <3>3 DEF HandleTamper, Asks
  <2> QED
    BY <2>1, <2>2
<1>8. CASE HandleReset(r)
  <2>1. server' = [w \in Ids |-> Erased(server[w])]
    BY <1>8 DEF HandleReset
  <2>2. ASSUME NEW w \in Ids
        PROVE  /\ server[w].born \in Nat /\ server'[w] \in Row
               /\ server'[w].status = "ABSENT" /\ server'[w].born = server[w].born
    <3>1. server[w] \in Row /\ server'[w] = Erased(server[w])
      BY <2>1 DEF ServerOK
    <3> QED
      BY <3>1, ErasedOK DEF Row
  <2>3. ServerOK'
    BY <2>1, <2>2 DEF ServerOK, Ids
  <2>4. Forward /\ NoneNew
    BY <2>2 DEF Forward, NoneNew
  <2> QED
    BY <1>3, <1>8, <2>3, <2>4 DEF HandleReset, Asks
<1>9. CASE HandleGet(r)
  <2>1. PICK row \in Row : row = server[r.w]
    BY <1>2
  <2>2. PICK x : x = [r EXCEPT !.answer = [is |-> row.status, ident |-> row.ident, born |-> row.born]]
    OBVIOUS
  <2>3. ServerOK' /\ Forward /\ NoneNew
    BY <1>4, <1>9 DEF HandleGet
  <2>4. row.status \in Statuses /\ row.ident \in Identities /\ row.born \in Nat
    BY DEF Row
  <2>5. x \in Requests
    BY <1>2, <2>4, <2>2 DEF Requests, Answer0
  <2>6. /\ x.kind = r.kind /\ x.step = r.step /\ x.w = r.w
        /\ x.answer = [is |-> row.status, ident |-> row.ident, born |-> row.born]
    BY <1>2, <2>2 DEF Requests
  <2>7. x.kind = "get"
    BY <1>9, <2>6 DEF HandleGet, Asks
  <2>8. Seen(r.w, row.status, row.born)
    BY <1>2, <2>1, <2>4 DEF Seen
  <2>9. Seen(r.w, row.status, row.born)'
    BY <1>9, <2>8 DEF HandleGet, Seen
  <2>10. AnswerOK(x)'
    BY <2>4, <2>5, <2>6, <2>7, <2>9 DEF AnswerOK
  <2>11. net' = BagAdd(BagRemove(net, r), x)
    BY <1>9, <2>1, <2>2 DEF HandleGet, Handle
  <2> QED
    BY <2>3, <2>6, <2>10, <2>11, Replaced
<1>10. CASE HandleList(r)
  <2> DEFINE is == CASE Existing = {}    -> "none"
                     [] Existing = {Old} -> "old"
                     [] Existing = {New} -> "new"
                     [] OTHER            -> "both"
  <2>1. is \in ListAnswers
    BY DEF ListAnswers
  <2>2. Handle(r, Answered(r, is)) /\ r.kind = "list" /\ UNCHANGED server
    BY <1>10 DEF HandleList, Asks
  <2> HIDE DEF is
  <2> QED
    BY <1>3, <1>4, <2>1, <2>2
<1> QED
  BY <1>1, <1>5, <1>6, <1>7, <1>8, <1>9, <1>10

-----------------------------------------------------------------------------
(* The page. *)

LEMMA GetOK ==
  ASSUME NEW w \in Ids
  PROVE  Get(w) \in Requests /\ Get(w).answer = Waiting /\ AnswerOK(Get(w))'
<1>1. Get(w) \in Requests /\ Get(w).answer = Waiting
  BY RequestOK DEF Get, Kinds, Steps
<1> QED
  BY <1>1, WaitingOK

LEMMA ListOK == List \in Requests /\ List.answer = Waiting /\ AnswerOK(List)'
<1>1. List \in Requests /\ List.answer = Waiting
  BY RequestOK DEF List, Kinds, Ids, Steps
<1> QED
  BY <1>1, WaitingOK

LEMMA ChooseOK == ASSUME NEW w \in Workloads PROVE Choose(w) \in Ids
  BY DEF Choose, Ids

(* What is painted stays true of the row, and the rest is the page's.      *)
LEMMA SamePage == ASSUME PageOK, Forward, UNCHANGED page PROVE PageOK'
<1>1. CASE panel = NoPanel
  BY <1>1 DEF PageOK, page
<1>2. CASE panel \in Painted /\ Seen(panel.w, panel.status, panel.born)
  <2>1. panel.w \in Ids /\ panel.born \in Nat
    BY <1>2 DEF Painted, Ids
  <2>2. Seen(panel.w, panel.status, panel.born)'
    BY <1>2, <2>1 DEF page, Forward, Seen
  <2> QED
    BY <1>2, <2>2 DEF PageOK, page
<1> QED
  BY <1>1, <1>2 DEF PageOK

LEMMA NewSelection ==
  ASSUME PageOK, UNCHANGED <<server, panel, reloadDue>>,
         options' \subseteq Workloads, options' # {}, selected' \in Ids
  PROVE  PageOK'
  BY DEF PageOK, Seen

LEMMA DeliverOK ==
  ASSUME IInv, Deliver
  PROVE  PageOK' /\ NetOK' /\ (Tampering(net) => Tampering(net'))
<1> USE DEF IInv
<1>1. PICK r \in BagToSet(net) :
        Paint(r) \/ Refresh(r) \/ ShowReset(r) \/ FillSelector(r) \/ Forget(r)
  BY DEF Deliver
<1>2. r \in Requests /\ r.w \in Ids /\ AnswerOK(r)
  BY DEF NetOK, AnswerOK, Requests
<1>3. Forward /\ UNCHANGED server
  BY Unmoved DEF Deliver
<1>4. CASE Paint(r)
  <2>1. net' = BagRemove(net, r) /\ r.kind = "get" /\ r.answer # Waiting
    BY <1>4 DEF Paint, Receive, Answers
  <2>2. NetOK' /\ (Tampering(net) => Tampering(net'))
    BY <1>3, <2>1, Removed
  <2>3. CASE r.answer.is = "ABSENT"
    BY <1>3, <1>4, <2>2, <2>3, SamePage DEF Paint, page
  <2>4. CASE r.answer.is # "ABSENT"
    <3>1. panel' = [w |-> r.w, status |-> r.answer.is, ident |-> r.answer.ident,
                    born |-> r.answer.born]
      BY <1>4, <2>4 DEF Paint
    <3>2. /\ r.answer.is \in Statuses \ {"ABSENT"} /\ r.answer.ident \in Identities
          /\ Seen(r.w, r.answer.is, r.answer.born) /\ r.answer.born \in Nat
      BY <1>2, <2>1, <2>4 DEF AnswerOK, Requests, Answer0
    <3>3. r.w \in Workloads
      BY <1>2, <2>4, <3>2 DEF Seen, Ids
    <3>4. panel' \in Painted
      BY <3>1, <3>2, <3>3 DEF Painted
    <3>5. Seen(panel.w, panel.status, panel.born)'
      BY <1>3, <3>1, <3>2 DEF Seen
    <3> QED
      BY <1>4, <2>2, <3>4, <3>5 DEF Paint, PageOK
  <2> QED
    BY <2>3, <2>4
<1>5. CASE Refresh(r)
  <2>1. /\ net' = BagAdd(BagRemove(net, r), Get(r.w))
        /\ r.kind \in {"send", "confirm"} /\ UNCHANGED page
    BY <1>5 DEF Refresh, ReceiveThenGet, Answers
  <2> QED
    BY <1>2, <1>3, <2>1, GetOK, Replaced, SamePage
<1>6. CASE ShowReset(r)
  <2>1. net' = BagRemove(net, r) /\ r.kind = "reset"
    BY <1>6 DEF ShowReset, Receive, Answers
  <2>2. NetOK' /\ (Tampering(net) => Tampering(net'))
    BY <1>3, <2>1, Removed
  <2>3. PageOK'
    BY <1>3, <1>6 DEF ShowReset, PageOK, Seen
  <2> QED
    BY <2>2, <2>3
<1>7. CASE FillSelector(r)
  <2>1. /\ r.kind = "list" /\ r.answer # Waiting /\ UNCHANGED <<panel, reloadDue>>
        /\ net' = BagAdd(BagRemove(net, r), Get(selected'))
    BY <1>7 DEF FillSelector, ReceiveThenGet, Answers
  <2>2. r.answer.is \in ListAnswers
    BY <1>2, <2>1 DEF AnswerOK
  <2>3. options' \subseteq Workloads /\ options' # {} /\ selected' \in Ids
    <3>1. CASE r.answer.is = "none"
      BY <1>7, <3>1 DEF FillSelector, PageOK
    <3>2. CASE r.answer.is # "none"
      BY <1>7, <2>2, <3>2 DEF FillSelector, ListAnswers, Workloads, Ids
    <3> QED
      BY <3>1, <3>2
  <2>4. PageOK'
    BY <1>3, <2>1, <2>3, NewSelection
  <2>5. PICK w \in Ids : w = selected'
    BY <2>3
  <2> QED
    BY <1>3, <2>1, <2>4, <2>5, GetOK, Replaced
<1>8. CASE Forget(r)
  <2>1. net' = BagRemove(net, r) /\ r.step = Orphan /\ UNCHANGED page
    BY <1>8 DEF Forget, Receive
  <2> QED
    BY <1>3, <2>1, Removed, SamePage
<1> QED
  BY <1>1, <1>4, <1>5, <1>6, <1>7, <1>8

LEMMA FailOK ==
  ASSUME IInv, Fail
  PROVE  PageOK' /\ NetOK' /\ (Tampering(net) => Tampering(net'))
<1>1. PICK r \in BagToSet(net) : (r.kind # "tamper" \/ r.step = Orphan) /\ net' = BagRemove(net, r)
  BY DEF Fail, Receive
<1>2. Forward /\ UNCHANGED page
  BY Unmoved DEF Fail, IInv
<1> QED
  BY <1>1, <1>2, Removed, SamePage DEF IInv

LEMMA ReloadOK == ASSUME IInv, Reload PROVE PageOK' /\ NetOK'
<1> DEFINE Unseen == {q \in BagToSet(net) : q.answer = Waiting /\ q.kind \notin {"get", "list"}}
           Posts == {[r EXCEPT !.step = Orphan] : r \in Unseen}
<1>1. ASSUME NEW x \in Posts PROVE x \in Requests /\ x.answer = Waiting
  <2>1. PICK r \in Unseen : x = [r EXCEPT !.step = Orphan]
    OBVIOUS
  <2>2. r \in Requests /\ r.answer = Waiting
    BY DEF IInv, NetOK, AnswerOK
  <2> QED
    BY <2>1, <2>2 DEF Requests, Orphan, Steps
<1>2. IsABag(Orphans) /\ BagToSet(Orphans) = Posts
  BY SetBag DEF Orphans
<1> HIDE DEF Posts
<1>3. net' = BagAdd(Orphans, List)
  BY DEF Reload
<1>4. IsABag(net') /\ BagToSet(net') = Posts \cup {List}
  BY <1>2, <1>3, AddBag
<1>5. NetOK'
  <2>1. ASSUME NEW x \in BagToSet(net') PROVE AnswerOK(x)'
    BY <1>1, <1>4, ListOK, WaitingOK
  <2> QED
    BY <1>4, <2>1 DEF NetOK
<1>6. PageOK'
  BY DEF Reload, PageOK, Workloads, Ids
<1> QED
  BY <1>5, <1>6

(* Other clients.                                                          *)
LEMMA ElsewhereOK ==
  ASSUME IInv, Elsewhere
  PROVE  ServerOK' /\ PageOK' /\ NetOK' /\ (Tampering(net) => Tampering(net'))
<1> USE DEF IInv
<1>1. PICK w \in Workloads, status \in Statuses \ {"ABSENT"}, ident \in Identities :
        \E changed \in
            IF server[w].status = "ABSENT"
              THEN {Fresh(status, ident, server[w].born + 1)}
              ELSE {Erased(server[w]), Probed(server[w]), Bypassed(server[w]),
                    [server[w] EXCEPT !.status = "QUARANTINED"],
                    [server[w] EXCEPT !.status = "CONFIRMED", !.ident = ident,
                                      !.verdict = Verdict(server[w])]} :
          server' = [server EXCEPT ![w] = changed]
  BY DEF Elsewhere
<1>2. w \in Ids /\ w # Blank /\ server[w] \in Row /\ server[w].born \in Nat
  BY VisualizerAssumption DEF Workloads, Ids, ServerOK, Row
<1>3. ASSUME NEW row \in Row, server' = [server EXCEPT ![w] = row],
             \/ row.born = server[w].born + 1
             \/ /\ row.born = server[w].born
                /\ server[w].status # "AMBIGUOUS" => row.status # "AMBIGUOUS"
      PROVE  ServerOK' /\ Forward
  <2>1. ChangeOK(w, row)
    BY <1>2, <1>3 DEF ChangeOK
  <2> QED
    BY <1>2, <1>3, <2>1, RowStep
<1>4. ServerOK' /\ Forward
  <2>1. CASE server[w].status = "ABSENT"
    <3>1. server' = [server EXCEPT ![w] = Fresh(status, ident, server[w].born + 1)]
      BY <1>1, <2>1
    <3>2. server[w].born + 1 \in Nat
      BY <1>2
    <3>3. PICK row \in Row : /\ row = Fresh(status, ident, server[w].born + 1)
                             /\ row.born = server[w].born + 1
      BY <3>2, FreshOK
    <3> QED
      BY <1>3, <3>1, <3>3
  <2>2. CASE server' = [server EXCEPT ![w] = Erased(server[w])]
    <3>1. PICK row \in Row : /\ row = Erased(server[w]) /\ row.status = "ABSENT"
                             /\ row.born = server[w].born
      BY <1>2, ErasedOK
    <3> QED
      BY <1>3, <2>2, <3>1
  <2>3. CASE server' = [server EXCEPT ![w] = Probed(server[w])]
    <3>1. PICK row \in Row : /\ row = Probed(server[w]) /\ row.born = server[w].born
                             /\ server[w].status # "AMBIGUOUS" => row.status # "AMBIGUOUS"
      BY <1>2, ProbedOK
    <3> QED
      BY <1>3, <2>3, <3>1
  <2>4. CASE server' = [server EXCEPT ![w] = Bypassed(server[w])]
    <3>1. PICK row \in Row : /\ row = Bypassed(server[w]) /\ row.born = server[w].born
                             /\ row.status = server[w].status
      BY <1>2, BypassedOK
    <3> QED
      BY <1>3, <2>4, <3>1
  <2>5. CASE server' = [server EXCEPT ![w] = [server[w] EXCEPT !.status = "QUARANTINED"]]
    <3> DEFINE changed == [server[w] EXCEPT !.status = "QUARANTINED"]
    <3>2. changed \in Row /\ changed.born = server[w].born /\ changed.status = "QUARANTINED"
      BY <1>2 DEF Row, Statuses
    <3>1. PICK row \in Row : /\ row = changed
                             /\ row.born = server[w].born /\ row.status = "QUARANTINED"
      BY <3>2
    <3> QED
      BY <1>3, <2>5, <3>1
  <2>6. CASE server' = [server EXCEPT ![w] = [server[w] EXCEPT !.status = "CONFIRMED",
                          !.ident = ident, !.verdict = Verdict(server[w])]]
    <3>1. PICK row \in Row :
            /\ row = [server[w] EXCEPT !.status = "CONFIRMED", !.ident = ident,
                                       !.verdict = Verdict(server[w])]
            /\ row.born = server[w].born /\ row.status = "CONFIRMED"
      <4>1. \A row \in Row : LET new == [row EXCEPT !.status = "CONFIRMED", !.ident = ident,
                                          !.verdict = Verdict(row)]
                             IN  /\ new \in Row /\ new.status = "CONFIRMED"
                                 /\ new.born = row.born
        BY ConfirmedOK
      <4> QED
        BY <1>2, <4>1
    <3> QED
      BY <1>3, <2>6, <3>1
  <2> QED
    BY <1>1, <2>1, <2>2, <2>3, <2>4, <2>5, <2>6
<1>5. UNCHANGED <<net, page>>
  BY DEF Elsewhere
<1>6. NetOK'
  BY <1>4, <1>5, NetStep DEF NetOK
<1> QED
  BY <1>4, <1>5, <1>6, SamePage

(* The buttons, and the selector.                                          *)
LEMMA VisUserOK ==
  ASSUME IInv, VisUser
  PROVE  PageOK' /\ NetOK' /\ (Tampering(net) => Tampering(net'))
<1> USE DEF IInv
<1>1. Forward /\ UNCHANGED server
  BY Unmoved DEF VisUser, Select, ClickSend, ClickConfirm, ClickReset
<1>2. selected \in Ids
  BY DEF PageOK
<1>3. ASSUME NEW w \in Workloads, Select(w)
      PROVE  PageOK' /\ NetOK' /\ (Tampering(net) => Tampering(net'))
  <2>1. net' = BagAdd(net, Get(w)) /\ w \in Ids
    BY <1>3 DEF Select, Ids
  <2>2. PageOK'
    BY <1>1, <1>3, <2>1 DEF Select, PageOK, Seen
  <2> QED
    BY <1>1, <2>1, <2>2, GetOK, Asked
<1>4. ASSUME NEW x \in Requests, x.answer = Waiting, net' = BagAdd(net, x), UNCHANGED page
      PROVE  PageOK' /\ NetOK' /\ (Tampering(net) => Tampering(net'))
  BY <1>1, <1>4, Asked, SamePage
<1>5. CASE ClickSend
  <2>1. PICK d \in Destinations : net' = BagAdd(net, Send(d, 0))
    BY <1>5 DEF ClickSend
  <2>2. Send(d, 0) \in Requests /\ Send(d, 0).answer = Waiting
    BY <1>2, RequestOK DEF Send, Kinds, Steps
  <2>3. PICK x : x = Send(d, 0)
    OBVIOUS
  <2> QED
    BY <1>4, <1>5, <2>1, <2>2, <2>3 DEF ClickSend
<1>6. CASE ClickConfirm
  <2>1. Confirm(selected) \in Requests /\ Confirm(selected).answer = Waiting
    BY <1>2, RequestOK DEF Confirm, Kinds, Steps
  <2>2. PICK x : x = Confirm(selected)
    OBVIOUS
  <2> QED
    BY <1>4, <1>6, <2>1, <2>2 DEF ClickConfirm
<1>7. CASE ClickReset
  <2>1. Reset \in Requests /\ Reset.answer = Waiting
    BY RequestOK DEF Reset, Kinds, Ids, Steps
  <2> QED
    BY <1>4, <1>7, <2>1 DEF ClickReset
<1> QED
  BY <1>3, <1>5, <1>6, <1>7 DEF VisUser

-----------------------------------------------------------------------------
(* The show.  With one timeout at most, a new one is always the only one.  *)

LEMMA FirstTimeout == NewTimeout({}) = 1
<1>1. Cardinality({}) = 0
  BY FS_EmptySet
<1> QED
  BY <1>1 DEF NewTimeout

(* What a step leaves of flag, timeout and label.                          *)
Consistent(step) ==
  /\ playing \in BOOLEAN /\ timer \in Nat /\ timeouts \subseteq Nat \ {0}
  /\ playing => step < Steps
  /\ timeouts \subseteq IF playing THEN {timer} ELSE {}
  /\ button \in {"Pause", "Resume", "Replay"}

LEMMA ScheduleOK ==
  ASSUME timer \in Nat, NEW step \in 1..Steps, NEW on \in BOOLEAN,
         NEW live \in SUBSET {timer}, NEW label \in {"Pause", "Resume", "Replay"},
         ScheduleAfter(step, on, live, label)
  PROVE  /\ Consistent(step)'
         /\ playing' => timeouts' # {}
         /\ (label = "Pause") = on => (button' = "Pause") = playing'
         /\ ~on => playing' = FALSE
<1>1. live \ {timer} = {}
  OBVIOUS
<1>2. CASE on /\ step < Steps
  <2>1. timer' = 1 /\ timeouts' = {1}
    BY <1>1, <1>2, FirstTimeout DEF ScheduleAfter
  <2>2. playing' = (on /\ step < Steps) /\ button' = IF step = Steps THEN "Replay" ELSE label
    BY DEF ScheduleAfter
  <2>3. playing' = on /\ playing' \in BOOLEAN
    BY <1>2, <2>2, Zenon
  <2>4. button' = label
    BY <1>2, <2>2 DEF Steps
  <2>5. (label = "Pause") = on => (button' = "Pause") = playing'
    BY <2>3, <2>4, Zenon
  <2>6. Consistent(step)' /\ timeouts' # {}
    BY <1>2, <2>1, <2>3, <2>4 DEF Consistent
  <2> QED
    BY <1>2, <2>5, <2>6
<1>3. CASE ~(on /\ step < Steps)
  <2>1. timer' = timer /\ timeouts' = {} /\ playing' = FALSE
    BY <1>1, <1>3 DEF ScheduleAfter
  <2>2. button' \in {"Replay", label} /\ (on => button' = "Replay")
    BY <1>3 DEF ScheduleAfter, Steps
  <2>3. playing' \in BOOLEAN
    BY <2>1, Zenon
  <2> QED
    BY <1>3, <2>1, <2>2, <2>3 DEF Consistent
<1> QED
  BY <1>2, <1>3

LEMMA ScriptOK ==
  ASSUME selected \in Ids, NEW step \in 1..Steps
  PROVE  /\ Script(step) \in Requests /\ Script(step).answer = Waiting
         /\ step = 2 => Script(step).kind = "tamper" /\ Script(step).step # Orphan
<1>1. New \in Ids /\ step \in -1..Steps /\ 0 \in -1..Steps /\ 2 \in -1..Steps
  BY DEF Ids, Workloads, Steps
<1>2. CASE step \in {1, 3}
  <2>1. Script(step) = Request("send", selected, "database", step)
    BY <1>2 DEF Script, Send
  <2> QED
    BY <1>1, <1>2, <2>1, RequestOK DEF Kinds, Destinations
<1>3. CASE step = 2
  <2>1. Script(step) = Request("tamper", New, "none", 2)
    BY <1>3 DEF Script
  <2> QED
    BY <1>1, <2>1, RequestOK DEF Kinds, Destinations, Orphan
<1>4. CASE step = 4
  <2>1. Script(step) = Request("send", selected, "payment-api", step)
    BY <1>4 DEF Script, Send
  <2> QED
    BY <1>1, <1>4, <2>1, RequestOK DEF Kinds, Destinations
<1>5. CASE step = 5
  <2>1. Script(step) = Request("confirm", selected, "none", 0)
    BY <1>5 DEF Script, Confirm
  <2> QED
    BY <1>1, <1>5, <2>1, RequestOK DEF Kinds, Destinations
<1>6. CASE step = 6
  <2>1. Script(step) = Request("send", selected, "student-api", step)
    BY <1>6 DEF Script, Send
  <2> QED
    BY <1>1, <1>6, <2>1, RequestOK DEF Kinds, Destinations
<1> QED
  BY <1>2, <1>3, <1>4, <1>5, <1>6 DEF Steps

(* A step of the show, from whatever the page is in.                       *)
LEMMA ExecuteOK ==
  ASSUME IInv, NEW step \in 1..Steps, NEW on \in BOOLEAN,
         NEW live \in SUBSET timeouts, ~on => live = {}, Execute(step, on, live)
  PROVE  /\ Consistent(current)' /\ current' = step
         /\ (button' = "Pause") = playing'
         /\ sleeping' = IF step = 1 THEN sleeping + 1 ELSE sleeping
         /\ NeverStuck' /\ ServerOK' /\ NetOK' /\ PageOK'
<1> USE DEF IInv
<1>1. Forward /\ UNCHANGED server /\ current' = step
  BY Unmoved DEF Execute
<1>2. live \in SUBSET {timer} /\ timer \in Nat /\ live \subseteq Nat \ {0} /\ selected \in Ids
  BY DEF ShowOK, OneTimeout, PageOK
<1>3. Label(on) \in {"Pause", "Resume", "Replay"} /\ (Label(on) = "Pause") = on
  BY DEF Label
<1>4. ServerOK'
  BY <1>1 DEF ServerOK
<1>5. CASE step \in {1, 2}
  <2>1. playing' = on /\ button' = Label(on) /\ timeouts' = live /\ timer' = timer
    BY <1>5 DEF Execute
  <2>2. Consistent(current)' /\ (button' = "Pause") = playing'
    BY <1>1, <1>2, <1>3, <1>5, <2>1 DEF Consistent, Steps
  <2>3. CASE step = 1
    <3>1. /\ selected' = Choose(Old) /\ net' = BagAdd(net, Get(selected')) /\ sleeping' = sleeping + 1
          /\ UNCHANGED <<options, panel, reloadDue>>
      BY <2>3 DEF Execute
    <3>2. selected' \in Ids
      BY <3>1, ChooseOK DEF Workloads
    <3>3. PageOK'
      BY <1>1, <3>1, <3>2 DEF PageOK, Seen
    <3>4. PICK w \in Ids : w = selected'
      BY <3>2
    <3>5. NetOK'
      BY <1>1, <3>1, <3>4, GetOK, Asked
    <3>6. NeverStuck'
      BY <3>1 DEF NeverStuck, ShowOK
    <3> QED
      BY <1>1, <1>4, <2>2, <2>3, <3>1, <3>3, <3>5, <3>6
  <2>4. CASE step = 2
    <3>1. net' = BagAdd(net, Script(step)) /\ UNCHANGED <<selected, sleeping, options, panel, reloadDue>>
      BY <2>4 DEF Execute
    <3>2. PICK x : x = Script(step)
      OBVIOUS
    <3>3. NetOK' /\ Tampering(net')
      BY <1>1, <1>2, <2>4, <3>1, <3>2, ScriptOK, Asked
    <3>4. NeverStuck'
      BY <3>3 DEF NeverStuck, Tampering
    <3>5. PageOK'
      BY <1>1, <3>1, SamePage DEF page
    <3> QED
      BY <1>1, <1>4, <2>2, <2>4, <3>1, <3>3, <3>4, <3>5
  <2> QED
    BY <1>5, <2>3, <2>4
<1>6. CASE step \notin {1, 2}
  <2>1. /\ net' = BagAdd(net, Script(step)) /\ UNCHANGED <<selected, sleeping, options, panel, reloadDue>>
        /\ ScheduleAfter(step, on, live, Label(on))
    BY <1>6 DEF Execute
  <2>2. /\ Consistent(step)' /\ (playing' => timeouts' # {})
        /\ (button' = "Pause") = playing'
    BY <1>2, <1>3, <2>1, ScheduleOK
  <2>3. PICK x : x = Script(step)
    OBVIOUS
  <2>4. NetOK'
    BY <1>1, <1>2, <2>1, <2>3, ScriptOK, Asked
  <2>5. PageOK'
    BY <1>1, <2>1, SamePage DEF page
  <2>6. NeverStuck'
    BY <2>2 DEF NeverStuck
  <2>7. Consistent(current)'
    BY <1>1, <2>2 DEF Consistent
  <2> QED
    BY <1>1, <1>4, <1>6, <2>1, <2>2, <2>4, <2>5, <2>6, <2>7
<1> QED
  BY <1>5, <1>6

(* Everything but the clicks, after a step of the show.                    *)
LEMMA ShowStep ==
  ASSUME Consistent(current)', current' \in 1..Steps, hud' \in BOOLEAN, rough' \in BOOLEAN,
         hud' => (button' = "Pause") = playing',
         clicks' \in 0..MaxClicks, sleeping' \in 0..clicks'
  PROVE  ShowOK'
<1>1. OneTimeout'
  BY DEF Consistent, OneTimeout
<1> QED
  BY <1>1 DEF Consistent, ShowOK, ButtonHonest

LEMMA ClickOK == ASSUME ShowOK, Click PROVE clicks' \in 0..MaxClicks /\ clicks' = clicks + 1
  BY VisualizerAssumption DEF ShowOK, Click

LEMMA RoughOK == ASSUME rough \in BOOLEAN, NEW bad \in BOOLEAN, Rough(bad) PROVE rough' \in BOOLEAN
  BY DEF Rough

-----------------------------------------------------------------------------
(* Every action. *)

LEMMA NextStepOK ==
  ASSUME IInv, NEW on \in BOOLEAN, NEW live \in SUBSET timeouts, ~on => live = {},
         NextStep(on, live), clicks' \in 0..MaxClicks, clicks <= clicks',
         current < Steps \/ clicks' = clicks + 1,
         UNCHANGED hud, rough' \in BOOLEAN
  PROVE  IInv'
<1>1. current \in 1..Steps /\ sleeping \in 0..clicks /\ clicks \in 0..MaxClicks /\ hud \in BOOLEAN
  BY DEF IInv, ShowOK
<1>2. CASE current < Steps
  <2>1. Execute(current + 1, on, live) /\ current + 1 \in 1..Steps /\ current + 1 # 1
    BY <1>1, <1>2 DEF NextStep, Steps
  <2>2. PICK step \in 1..Steps : step = current + 1 /\ step # 1
    BY <2>1
  <2>3. /\ Consistent(current)' /\ current' = step /\ (button' = "Pause") = playing'
        /\ sleeping' = sleeping /\ NeverStuck' /\ ServerOK' /\ NetOK' /\ PageOK'
    BY <2>1, <2>2, ExecuteOK
  <2>4. sleeping' \in 0..clicks'
    BY <1>1, <2>3, VisualizerAssumption
  <2>5. ShowOK'
    BY <1>1, <2>3, <2>4, ShowStep
  <2> QED
    BY <2>3, <2>5 DEF IInv
<1>3. CASE ~(current < Steps)
  <2>1. Execute(1, TRUE, live) /\ 1 \in 1..Steps /\ TRUE \in BOOLEAN
    <3>1. Execute(1, TRUE, live) /\ TRUE \in BOOLEAN
      BY <1>3, Zenon DEF NextStep
    <3>2. 1 \in 1..Steps
      BY DEF Steps
    <3> QED
      BY <3>1, <3>2, Zenon
  <2>2. /\ Consistent(current)' /\ current' = 1 /\ (button' = "Pause") = playing'
        /\ sleeping' = sleeping + 1 /\ NeverStuck' /\ ServerOK' /\ NetOK' /\ PageOK'
    BY <2>1, ExecuteOK
  <2>3. sleeping' \in 0..clicks'
    BY <1>1, <1>3, <2>2, VisualizerAssumption
  <2>4. ShowOK'
    BY <1>1, <2>1, <2>2, <2>3, ShowStep
  <2> QED
    BY <2>2, <2>4 DEF IInv
<1> QED
  BY <1>2, <1>3

(* A click that comes to a step of its own choice.                         *)
LEMMA ClickedStep ==
  ASSUME IInv, Click, NEW step \in 1..Steps, NEW on \in BOOLEAN, ~on => timeouts = {},
         Execute(step, on, timeouts), hud' \in BOOLEAN, rough' \in BOOLEAN
  PROVE  IInv'
<1>1. clicks' \in 0..MaxClicks /\ clicks' = clicks + 1 /\ sleeping \in 0..clicks /\ clicks \in Nat
  BY ClickOK DEF IInv, ShowOK
<1>2. /\ Consistent(current)' /\ current' = step /\ (button' = "Pause") = playing'
      /\ sleeping' = IF step = 1 THEN sleeping + 1 ELSE sleeping
      /\ NeverStuck' /\ ServerOK' /\ NetOK' /\ PageOK'
  BY ExecuteOK
<1>3. sleeping' \in 0..clicks'
  BY <1>1, <1>2
<1>4. ShowOK'
  BY <1>1, <1>2, <1>3, ShowStep
<1> QED
  BY <1>2, <1>4 DEF IInv

(* Nothing but the controls changes.                                       *)
LEMMA SameRest ==
  ASSUME IInv, UNCHANGED <<served, page>> PROVE ServerOK' /\ NetOK' /\ PageOK'
<1>1. Forward
  BY Unmoved DEF served, IInv
<1>2. ServerOK'
  BY DEF IInv, ServerOK, served
<1>3. NetOK'
  BY <1>1, NetStep DEF IInv, NetOK, served
<1>4. PageOK'
  BY <1>1, SamePage DEF IInv
<1> QED
  BY <1>2, <1>3, <1>4

LEMMA SameControls ==
  ASSUME ShowOK, UNCHANGED <<current, playing, timer, timeouts, sleeping, hud, button>>,
         rough' \in BOOLEAN, clicks' \in 0..MaxClicks, clicks <= clicks'
  PROVE  ShowOK'
<1>1. sleeping' \in 0..clicks'
  BY VisualizerAssumption DEF ShowOK
<1> QED
  BY <1>1 DEF ShowOK, OneTimeout, ButtonHonest

LEMMA StillGoing ==
  ASSUME NeverStuck, UNCHANGED <<playing, timeouts, sleeping>>, Tampering(net) => Tampering(net')
  PROVE  NeverStuck'
  BY DEF NeverStuck, Tampering

LEMMA UserOK ==
  ASSUME IInv, Launch \/ NextClicked \/ Prev \/ Pause \/ Resume \/ Exit
  PROVE  IInv'
<1>1. /\ current \in 1..Steps /\ playing \in BOOLEAN /\ hud \in BOOLEAN /\ rough \in BOOLEAN
      /\ timer \in Nat /\ timeouts \subseteq Nat \ {0} /\ sleeping \in 0..clicks /\ clicks \in 0..MaxClicks
      /\ button \in {"Pause", "Resume", "Replay"} /\ NeverStuck
  BY DEF IInv, ShowOK
<1>2. timeouts \subseteq {timer} /\ (~playing => timeouts = {}) /\ (playing => current < Steps)
  BY DEF IInv, ShowOK, OneTimeout
<1>3. ASSUME Click
      PROVE  clicks' \in 0..MaxClicks /\ clicks' = clicks + 1 /\ sleeping \in 0..clicks'
  BY <1>1, <1>3, ClickOK DEF IInv
<1>4. CASE Launch
  <2>1. Click /\ Execute(1, TRUE, timeouts) /\ hud' = TRUE /\ Rough(net # EmptyBag)
    BY <1>4 DEF Launch
  <2>2. hud' \in BOOLEAN /\ rough' \in BOOLEAN /\ 1 \in 1..Steps
    <3>1. rough' \in BOOLEAN
      BY <1>1, <2>1 DEF Rough
    <3> QED
      BY <2>1, <3>1 DEF Steps
  <2> QED
    BY <2>1, <2>2, ClickedStep
<1>5. CASE NextClicked
  <2>1. Click /\ NextStep(playing, timeouts) /\ UNCHANGED <<hud, rough>>
    BY <1>5 DEF NextClicked
  <2>2. clicks' \in 0..MaxClicks /\ clicks' = clicks + 1 /\ clicks <= clicks' /\ rough' \in BOOLEAN
    BY <1>1, <1>3, <2>1
  <2>3. PICK on \in BOOLEAN, live \in SUBSET timeouts : on = playing /\ live = timeouts
    BY <1>1
  <2> QED
    BY <1>2, <2>1, <2>2, <2>3, NextStepOK
<1>6. CASE Prev
  <2>1. Click /\ Execute(current - 1, playing, timeouts) /\ UNCHANGED <<hud, rough>> /\ current > 1
    BY <1>6 DEF Prev
  <2>2. PICK step \in 1..Steps, on \in BOOLEAN : step = current - 1 /\ on = playing
    BY <1>1, <2>1 DEF Steps
  <2> QED
    BY <1>1, <1>2, <2>1, <2>2, ClickedStep
<1>7. CASE Pause
  <2>1. /\ Click /\ playing' = FALSE /\ button' = "Resume" /\ timeouts' = timeouts \ {timer}
        /\ UNCHANGED <<served, page, current, timer, sleeping, hud, rough>>
    BY <1>7 DEF Pause
  <2>2. timeouts' = {}
    BY <1>2, <2>1
  <2>3. Consistent(current)' /\ (button' = "Pause") = playing'
    <3>1. playing' \in BOOLEAN
      BY <2>1, Zenon
    <3>2. button' # "Pause"
      BY <2>1
    <3> QED
      BY <1>1, <2>1, <2>2, <3>1, <3>2 DEF Consistent
  <2>4. ShowOK'
    BY <1>1, <1>3, <2>1, <2>3, ShowStep
  <2>5. NeverStuck'
    BY <2>1 DEF NeverStuck
  <2> QED
    BY <2>1, <2>4, <2>5, SameRest DEF IInv
<1>8. CASE Resume
  <2>1. Click /\ ~playing /\ UNCHANGED <<hud, rough>>
    BY <1>8 DEF Resume
  <2>2. CASE current >= Steps
    <3>1. Execute(1, TRUE, timeouts) /\ TRUE \in BOOLEAN /\ 1 \in 1..Steps
      <4>1. Execute(1, TRUE, timeouts) /\ TRUE \in BOOLEAN
        BY <1>8, <2>2, Zenon DEF Resume
      <4>2. 1 \in 1..Steps
        BY DEF Steps
      <4> QED
        BY <4>1, <4>2, Zenon
    <3> QED
      BY <1>1, <2>1, <3>1, ClickedStep
  <2>3. CASE ~(current >= Steps)
    <3>1. /\ playing' = TRUE /\ button' = "Pause" /\ timer' = NewTimeout(timeouts)
          /\ timeouts' = timeouts \cup {timer'} /\ UNCHANGED <<served, page, current, sleeping>>
      BY <1>8, <2>3 DEF Resume
    <3>2. timer' = 1 /\ timeouts' = {1}
      BY <1>2, <2>1, <3>1, FirstTimeout
    <3>3. playing' \in BOOLEAN /\ ((button' = "Pause") = playing')
      BY <3>1, Zenon
    <3>4. Consistent(current)'
      BY <1>1, <2>3, <3>1, <3>2, <3>3 DEF Consistent, Steps
    <3>5. ShowOK'
      BY <1>1, <1>3, <2>1, <3>1, <3>3, <3>4, ShowStep
    <3>6. NeverStuck'
      BY <3>2 DEF NeverStuck
    <3> QED
      BY <3>1, <3>5, <3>6, SameRest DEF IInv
  <2> QED
    BY <2>2, <2>3
<1>9. CASE Exit
  <2>1. /\ Click /\ hud' = FALSE /\ playing' = FALSE /\ timeouts' = timeouts \ {timer}
        /\ UNCHANGED <<served, page, current, timer, sleeping, button, rough>>
    BY <1>9 DEF Exit
  <2>2. timeouts' = {}
    BY <1>2, <2>1
  <2>3. hud' \in BOOLEAN /\ playing' \in BOOLEAN
    BY <2>1, Zenon
  <2>4. Consistent(current)'
    BY <1>1, <2>1, <2>2, <2>3 DEF Consistent
  <2>5. ShowOK'
    BY <1>1, <1>3, <2>1, <2>3, <2>4, ShowStep
  <2>6. NeverStuck'
    BY <2>1 DEF NeverStuck
  <2> QED
    BY <2>1, <2>5, <2>6, SameRest DEF IInv
<1> QED
  BY <1>4, <1>5, <1>6, <1>7, <1>8, <1>9

(* Steps 1 and 2 after their awaits: the timeout they set belongs to the   *)
(* step the show is at, whichever that is by now.                          *)
LEMMA ReturnOK ==
  ASSUME ShowOK, NEW step \in 1..Steps, step < Steps, ScheduleAfter(step, playing, timeouts, button),
         UNCHANGED <<current, hud, clicks>>, rough' \in BOOLEAN, sleeping' \in 0..clicks
  PROVE  ShowOK' /\ (playing' => timeouts' # {})
<1>1. /\ timer \in Nat /\ timeouts \in SUBSET {timer} /\ playing \in BOOLEAN
      /\ button \in {"Pause", "Resume", "Replay"} /\ current \in 1..Steps
      /\ clicks \in 0..MaxClicks /\ hud \in BOOLEAN
  BY DEF ShowOK, OneTimeout
<1>2. PICK on \in BOOLEAN, live \in SUBSET {timer}, label \in {"Pause", "Resume", "Replay"} :
        on = playing /\ live = timeouts /\ label = button
  BY <1>1
<1>3. /\ Consistent(step)' /\ (playing' => timeouts' # {})
      /\ (label = "Pause") = on => (button' = "Pause") = playing'
      /\ ~on => playing' = FALSE
  BY <1>1, <1>2, ScheduleOK
<1>4. Consistent(current)'
  <2>1. playing' => current' < Steps
    BY <1>2, <1>3 DEF ShowOK
  <2> QED
    BY <1>3, <2>1 DEF Consistent
<1>5. hud' => (button' = "Pause") = playing'
  <2>1. hud => (button = "Pause") = playing
    BY DEF ShowOK, ButtonHonest
  <2> QED
    BY <1>2, <1>3, <2>1
<1> QED
  BY <1>1, <1>3, <1>4, <1>5, ShowStep

LEMMA BrowserOK ==
  ASSUME IInv, Timeout \/ Wake \/ Tampered \/ Reloaded
  PROVE  IInv'
<1>1. /\ current \in 1..Steps /\ playing \in BOOLEAN /\ hud \in BOOLEAN /\ rough \in BOOLEAN
      /\ timeouts \subseteq {timer} /\ sleeping \in 0..clicks /\ clicks \in 0..MaxClicks
      /\ NeverStuck /\ PageOK /\ NetOK
  BY DEF IInv, ShowOK, OneTimeout
<1>2. CASE Timeout
  <2>1. PICK h \in timeouts : NextStep(playing, timeouts \ {h})
    BY <1>2 DEF Timeout
  <2>2. playing /\ current < Steps /\ timeouts \ {h} = {}
    BY <1>1, <2>1 DEF IInv, ShowOK, OneTimeout
  <2>3. rough' \in BOOLEAN /\ UNCHANGED <<hud, clicks>>
    BY <1>1, <1>2 DEF Timeout, Rough
  <2>4. PICK on \in BOOLEAN, live \in SUBSET timeouts : on = playing /\ live = timeouts \ {h}
    BY <1>1
  <2>5. clicks' \in 0..MaxClicks /\ clicks <= clicks'
    BY <1>1, <2>3, VisualizerAssumption
  <2>6. live = {} /\ NextStep(on, live)
    BY <2>1, <2>2, <2>4
  <2> QED
    BY <2>2, <2>3, <2>5, <2>6, NextStepOK
<1>3. CASE Wake
  <2>1. /\ sleeping > 0 /\ sleeping' = sleeping - 1 /\ net' = BagAdd(net, Script(1))
        /\ ScheduleAfter(1, playing, timeouts, button)
        /\ UNCHANGED <<server, page, current, hud, rough, clicks>>
    BY <1>3 DEF Wake
  <2>2. Forward /\ ServerOK'
    BY <2>1, Unmoved DEF IInv, ServerOK
  <2>3. NetOK'
    <3>1. Script(1) \in Requests /\ Script(1).answer = Waiting
      BY <1>1, ScriptOK DEF PageOK, Steps
    <3>2. PICK x : x = Script(1)
      OBVIOUS
    <3> QED
      BY <1>1, <2>1, <2>2, <3>1, <3>2, Asked
  <2>4. sleeping' \in 0..clicks /\ 1 \in 1..Steps /\ 1 < Steps
    BY <1>1, <2>1 DEF Steps
  <2>5. ShowOK' /\ (playing' => timeouts' # {})
    BY <1>1, <2>1, <2>4, ReturnOK DEF IInv
  <2>6. NeverStuck'
    BY <2>5 DEF NeverStuck
  <2>7. PageOK'
    BY <1>1, <2>1, <2>2, SamePage
  <2> QED
    BY <2>2, <2>3, <2>5, <2>6, <2>7 DEF IInv
<1>4. CASE Tampered
  <2>1. PICK r \in BagToSet(net) :
          /\ selected' = Choose(New) /\ Rough(r.answer = Waiting)
          /\ net' = BagAdd(BagAdd(BagRemove(net, r), Get(selected')), Get(New))
    BY <1>4 DEF Tampered
  <2>2. /\ ScheduleAfter(2, playing, timeouts, button)
        /\ UNCHANGED <<server, options, panel, reloadDue, clicks, current, sleeping, hud>>
    BY <1>4 DEF Tampered
  <2>3. Forward /\ ServerOK'
    BY <2>2, Unmoved DEF IInv, ServerOK
  <2>4. selected' \in Ids /\ New \in Ids
    BY <2>1, ChooseOK DEF Workloads, Ids
  <2>5. PageOK'
    BY <1>1, <2>2, <2>4 DEF PageOK, Seen
  <2>6. PICK w \in Ids : w = selected'
    BY <2>4
  <2>7. NetOK'
    <3> DEFINE B == BagRemove(net, r)
               C == BagAdd(B, Get(w))
    <3>1. IsABag(B) /\ BagToSet(B) \subseteq BagToSet(net)
      BY <1>1, RemoveBag DEF NetOK
    <3>2. IsABag(C) /\ BagToSet(C) = BagToSet(B) \cup {Get(w)}
      BY <3>1, AddBag
    <3>3. net' = BagAdd(C, Get(New))
      BY <2>1, <2>6
    <3>4. IsABag(net') /\ BagToSet(net') = BagToSet(C) \cup {Get(New)}
      BY <3>2, <3>3, AddBag
    <3>5. AnswerOK(Get(w))' /\ AnswerOK(Get(New))'
      BY <2>4, GetOK
    <3>6. ASSUME NEW x \in BagToSet(net') PROVE x \in BagToSet(net) \/ AnswerOK(x)'
      BY <3>1, <3>2, <3>4, <3>5
    <3> QED
      BY <1>1, <2>3, <3>4, <3>6, NetStep
  <2>8. rough' \in BOOLEAN
    BY <1>1, <2>1 DEF Rough
  <2>9. sleeping' \in 0..clicks /\ 2 \in 1..Steps /\ 2 < Steps
    BY <1>1, <2>2 DEF Steps
  <2>10. ShowOK' /\ (playing' => timeouts' # {})
    BY <1>1, <2>2, <2>8, <2>9, ReturnOK DEF IInv
  <2>11. NeverStuck'
    BY <2>10 DEF NeverStuck
  <2> QED
    BY <2>3, <2>5, <2>7, <2>10, <2>11 DEF IInv
<1>5. CASE Reloaded
  <2>1. /\ Reload /\ current' = 1 /\ playing' = FALSE /\ timer' = 0 /\ timeouts' = {} /\ sleeping' = 0
        /\ hud' = FALSE /\ button' = "Pause" /\ UNCHANGED rough
    BY <1>5 DEF Reloaded
  <2>2. UNCHANGED <<server, clicks>>
    BY <2>1 DEF Reload
  <2>3. PageOK' /\ NetOK'
    BY <2>1, ReloadOK
  <2>4. ServerOK'
    BY <2>2 DEF IInv, ServerOK
  <2>5. playing' \in BOOLEAN /\ hud' \in BOOLEAN
    BY <2>1, Zenon
  <2>6. Consistent(current)' /\ current' \in 1..Steps /\ clicks' \in 0..MaxClicks /\ sleeping' \in 0..clicks'
    BY <1>1, <2>1, <2>2, <2>5 DEF Consistent, Steps
  <2>7. ShowOK'
    BY <1>1, <2>1, <2>5, <2>6, ShowStep
  <2>8. NeverStuck'
    BY <2>1 DEF NeverStuck
  <2> QED
    BY <2>3, <2>4, <2>7, <2>8 DEF IInv
<1> QED
  BY <1>2, <1>3, <1>4, <1>5

LEMMA RestOK ==
  ASSUME IInv, Work \/ Others \/ Answer \/ Arrival \/ Lost \/ Settled \/ UNCHANGED vars
  PROVE  IInv'
<1>1. ShowOK /\ NeverStuck /\ rough \in BOOLEAN /\ clicks \in 0..MaxClicks
  BY DEF IInv, ShowOK
<1>2. ASSUME UNCHANGED <<current, playing, timer, timeouts, sleeping, hud, button>>,
             rough' \in BOOLEAN, clicks' \in 0..MaxClicks, clicks <= clicks',
             ServerOK', NetOK', PageOK', Tampering(net) => Tampering(net')
      PROVE  IInv'
  BY <1>1, <1>2, SameControls, StillGoing DEF IInv
<1>3. CASE Work
  <2>1. VisUser /\ UNCHANGED controls
    BY <1>3 DEF Work
  <2>2. Click /\ UNCHANGED server
    BY <2>1 DEF VisUser, Select, ClickSend, ClickConfirm, ClickReset
  <2>3. clicks' \in 0..MaxClicks /\ clicks <= clicks'
    BY <1>1, <2>2, ClickOK
  <2>4. ServerOK'
    BY <2>2 DEF IInv, ServerOK
  <2> QED
    BY <1>1, <1>2, <2>1, <2>3, <2>4, VisUserOK DEF controls
<1>4. CASE Answer
  <2>1. Serve /\ UNCHANGED controls /\ UNCHANGED <<page, clicks>>
    BY <1>4 DEF Answer, Serve
  <2>2. ServerOK' /\ Forward /\ NetOK' /\ (Tampering(net) => Tampering(net'))
    BY <2>1, ServeOK
  <2>3. PageOK'
    BY <2>1, <2>2, SamePage DEF IInv
  <2> QED
    BY <1>1, <1>2, <2>1, <2>2, <2>3 DEF controls
<1>5. CASE Arrival
  <2>1. Deliver /\ UNCHANGED controls /\ UNCHANGED <<server, clicks>>
    BY <1>5 DEF Arrival, Deliver
  <2>2. ServerOK'
    BY <2>1 DEF IInv, ServerOK
  <2> QED
    BY <1>1, <1>2, <2>1, <2>2, DeliverOK DEF controls
<1>6. CASE Lost
  <2>1. Fail /\ UNCHANGED <<server, clicks>> /\ rough' \in BOOLEAN
        /\ UNCHANGED <<current, playing, timer, timeouts, sleeping, hud, button>>
    <3>1. rough' = TRUE
      BY <1>6 DEF Lost
    <3>2. rough' \in BOOLEAN
      BY <3>1, Zenon
    <3> QED
      BY <1>6, <3>2 DEF Lost, Fail
  <2>2. ServerOK'
    BY <2>1 DEF IInv, ServerOK
  <2> QED
    BY <1>1, <1>2, <2>1, <2>2, FailOK
<1>7. CASE Settled \/ UNCHANGED vars
  <2>1. UNCHANGED <<served, page, clicks, controls>>
    BY <1>7 DEF Settled, vars, visVars
  <2>2. ServerOK' /\ NetOK' /\ PageOK'
    BY <2>1, SameRest
  <2>3. Tampering(net) => Tampering(net')
    BY <2>1 DEF served
  <2> QED
    BY <1>1, <1>2, <2>1, <2>2, <2>3 DEF controls
<1>8. CASE Others
  <2>1. Elsewhere /\ rough' = TRUE
        /\ UNCHANGED <<current, playing, timer, timeouts, sleeping, hud, button>>
    BY <1>8 DEF Others
  <2>2. rough' \in BOOLEAN
    BY <2>1, Zenon
  <2>3. clicks' \in 0..MaxClicks /\ clicks <= clicks'
    BY <1>1, <2>1, VisualizerAssumption DEF Elsewhere
  <2> QED
    BY <1>1, <1>2, <2>1, <2>2, <2>3, ElsewhereOK
<1> QED
  BY <1>3, <1>4, <1>5, <1>6, <1>7, <1>8
-----------------------------------------------------------------------------
(* Theorems. *)

(* Rows as the server can leave them, answers under way that were true of  *)
(* the row they are about, one timeout of a show with a step to go to:     *)
(* what every handler of the visualizer and the showcase keeps.            *)
THEOREM ShowcaseInvariant == Spec => []IInv
<1>1. ASSUME IInv, [Next]_vars PROVE IInv'
  BY <1>1, UserOK, BrowserOK, RestOK DEF Next
<1> QED
  BY <1>1, InitOK, PTL DEF Spec

(* Resume sets a timeout without clearing one, and steps 1 and 2 set       *)
(* theirs after an await: there is one chain of timeouts all the same,     *)
(* and a pause ends it (showcaseExecuteStep, showcaseTogglePlay).          *)
THEOREM ShowHasOneTimeout == Spec => []OneTimeout
  BY ShowcaseInvariant, Promises, PTL

(* A show that believes to be playing has a timeout or a step inside its   *)
(* await, whatever answers are lost (showcaseExecuteStep).                 *)
THEOREM ShowIsNeverStuck == Spec => []NeverStuck
  BY ShowcaseInvariant, Promises, PTL

(* Every variable keeps its shape, and the button offers to pause exactly  *)
(* when the show plays (showcaseExecuteStep, launchAutoDemoShowcase).      *)
THEOREM ShowStaysConsistent == Spec => []ShowConsistent
  BY ShowcaseInvariant, Promises, PTL

(* No late, lost or reordered answer and no other client makes the panel   *)
(* paint a destination ALLOWED for a workload in its window, unless it was *)
(* registered anew since it was read (updateHeroVisualizerState).          *)
THEOREM PanelStaysClosed == Spec => []PanelFailsClosed
  BY ShowcaseInvariant, Promises, PTL

-----------------------------------------------------------------------------
(* The refinement. *)

(* A reset of the page that is there.                                      *)
Resetting(r) == r.kind = "reset" /\ r.step # Orphan

LEMMA InResets ==
  ASSUME NEW B, NEW t
  PROVE  t \in Resets(B) <=>
           \E r \in BagToSet(B) : \E n \in 1..B[r] : Resetting(r) /\ t = <<r, n>>
  BY DEF Resets, Resetting

LEMMA ResetAdded ==
  ASSUME NEW B, IsABag(B), IsFiniteSet(Resets(B)), NEW x
  PROVE  /\ IsFiniteSet(Resets(BagAdd(B, x)))
         /\ Cardinality(Resets(BagAdd(B, x))) =
              IF Resetting(x) THEN Cardinality(Resets(B)) + 1 ELSE Cardinality(Resets(B))
<1> DEFINE C == BagAdd(B, x)
           n == IF x \in DOMAIN B THEN B[x] + 1 ELSE 1
<1>1. n \in Nat \ {0} /\ (\A r \in DOMAIN B : B[r] \in Nat \ {0})
  BY DEF IsABag
<1>2. /\ BagToSet(C) = BagToSet(B) \cup {x} /\ C[x] = n
      /\ \A r \in BagToSet(B) : r # x => C[r] = B[r]
  BY DEF BagAdd, BagToSet
<1>3. x \in BagToSet(B) => B[x] = n - 1
  BY <1>1 DEF BagToSet
<1>4. x \notin BagToSet(B) => n = 1
  BY DEF BagToSet
<1> HIDE DEF C, n
<1>5. CASE ~Resetting(x)
  <2>1. ASSUME NEW t PROVE t \in Resets(C) <=> t \in Resets(B)
    BY <1>2, <1>5, InResets
  <2>2. Resets(C) = Resets(B)
    BY <2>1
  <2> QED
    BY <1>5, <2>2 DEF C
<1>6. CASE Resetting(x)
  <2>1. <<x, n>> \notin Resets(B)
    BY <1>1, <1>3, <1>4, InResets
  <2>2. ASSUME NEW t PROVE t \in Resets(C) <=> t \in Resets(B) \cup {<<x, n>>}
    <3>1. \A m : m \in 1..n <=> m = n \/ m \in 1..(n - 1)
      BY <1>1
    <3>2. t \in Resets(C) => t \in Resets(B) \cup {<<x, n>>}
      BY <1>1, <1>2, <1>3, <1>4, <3>1, InResets
    <3>3. t \in Resets(B) => t \in Resets(C)
      BY <1>1, <1>2, <1>3, <3>1, InResets
    <3>4. <<x, n>> \in Resets(C)
      BY <1>1, <1>2, <1>6, InResets
    <3> QED
      BY <3>2, <3>3, <3>4
  <2>3. Resets(C) = Resets(B) \cup {<<x, n>>}
    BY <2>2
  <2> QED
    BY <1>6, <2>1, <2>3, FS_AddElement DEF C
<1> QED
  BY <1>5, <1>6

LEMMA ResetRemoved ==
  ASSUME NEW B, IsABag(B), IsFiniteSet(Resets(B)), NEW x \in BagToSet(B)
  PROVE  /\ IsFiniteSet(Resets(BagRemove(B, x)))
         /\ Cardinality(Resets(BagRemove(B, x))) =
              IF Resetting(x) THEN Cardinality(Resets(B)) - 1 ELSE Cardinality(Resets(B))
<1> DEFINE C == BagRemove(B, x)
<1>1. PICK n \in Nat \ {0} : n = B[x]
  BY DEF IsABag, BagToSet
<1>2. /\ \A r \in BagToSet(B) : r # x => r \in BagToSet(C) /\ C[r] = B[r]
      /\ n # 1 => x \in BagToSet(C) /\ C[x] = n - 1
      /\ n = 1 => x \notin BagToSet(C)
      /\ BagToSet(C) \subseteq BagToSet(B)
  BY <1>1 DEF BagRemove, BagToSet
<1> HIDE DEF C
<1>3. CASE ~Resetting(x)
  <2>1. ASSUME NEW t PROVE t \in Resets(C) <=> t \in Resets(B)
    BY <1>2, <1>3, InResets
  <2>2. Resets(C) = Resets(B)
    BY <2>1
  <2> QED
    BY <1>3, <2>2 DEF C
<1>4. CASE Resetting(x)
  <2>1. <<x, n>> \in Resets(B)
    BY <1>1, <1>4, InResets
  <2>2. ASSUME NEW t PROVE t \in Resets(C) <=> t \in Resets(B) \ {<<x, n>>}
    <3>1. \A m : m \in 1..n <=> m = n \/ m \in 1..(n - 1)
      BY <1>1
    <3>2. n \notin 1..(n - 1) /\ (n = 1 => 1..(n - 1) = {})
      BY <1>1
    <3>3. t \in Resets(C) => t \in Resets(B) /\ t # <<x, n>>
      BY <1>1, <1>2, <3>1, <3>2, InResets
    <3>4. t \in Resets(B) /\ t # <<x, n>> => t \in Resets(C)
      BY <1>1, <1>2, <3>1, <3>2, InResets
    <3> QED
      BY <3>3, <3>4
  <2>3. Resets(C) = Resets(B) \ {<<x, n>>}
    BY <2>2
  <2> QED
    BY <1>4, <2>1, <2>3, FS_RemoveElement DEF C
<1> QED
  BY <1>3, <1>4

ResetsFinite == IsFiniteSet(Resets(net))

(* As many resets as before.                                               *)
SameResets == ResetsFinite' /\ Cardinality(Resets(net')) = Cardinality(Resets(net))

LEMMA NoReset ==
  ASSUME NEW w, NEW dest, NEW step \in 1..Steps
  PROVE  /\ ~Resetting(Get(w)) /\ ~Resetting(List) /\ ~Resetting(Confirm(w))
         /\ ~Resetting(Send(dest, 0)) /\ ~Resetting(Script(step)) /\ Resetting(Reset)
<1>1. ~Resetting(Script(step))
  BY DEF Script, Send, Confirm, Request, Resetting, Steps
<1> QED
  BY <1>1 DEF Get, List, Confirm, Send, Reset, Request, Resetting, Orphan

LEMMA OtherAdded ==
  ASSUME IInv, ResetsFinite, NEW x, ~Resetting(x), net' = BagAdd(net, x)
  PROVE  SameResets
  BY ResetAdded DEF IInv, NetOK, ResetsFinite, SameResets

LEMMA OtherRemoved ==
  ASSUME IInv, ResetsFinite, NEW r \in BagToSet(net), ~Resetting(r), net' = BagRemove(net, r)
  PROVE  SameResets
  BY ResetRemoved DEF IInv, NetOK, ResetsFinite, SameResets

LEMMA OtherReplaced ==
  ASSUME IInv, ResetsFinite, NEW r \in BagToSet(net), NEW x, Resetting(x) <=> Resetting(r),
         net' = BagAdd(BagRemove(net, r), x)
  PROVE  SameResets
<1> DEFINE B == BagRemove(net, r)
<1>1. /\ IsABag(B) /\ IsFiniteSet(Resets(B))
      /\ Cardinality(Resets(B)) =
              IF Resetting(r) THEN Cardinality(Resets(net)) - 1 ELSE Cardinality(Resets(net))
  BY ResetRemoved, RemoveBag DEF IInv, NetOK, ResetsFinite
<1>2. /\ IsFiniteSet(Resets(net'))
      /\ Cardinality(Resets(net')) =
              IF Resetting(x) THEN Cardinality(Resets(B)) + 1 ELSE Cardinality(Resets(B))
  BY <1>1, ResetAdded
<1>3. Cardinality(Resets(net)) \in Nat
  BY FS_CardinalityType DEF ResetsFinite
<1> HIDE DEF B
<1> QED
  BY <1>1, <1>2, <1>3 DEF ResetsFinite, SameResets

LEMMA SameNet == ASSUME ResetsFinite, UNCHANGED net PROVE SameResets
  BY DEF ResetsFinite, SameResets

(* The server answers a reset with a reset.                                *)
LEMMA ServedResets == ASSUME IInv, ResetsFinite, Serve PROVE SameResets
<1>1. PICK r \in BagToSet(net) :
        \/ HandleSend(r) \/ HandleConfirm(r) \/ HandleTamper(r)
        \/ HandleReset(r) \/ HandleGet(r) \/ HandleList(r)
  BY DEF Serve
<1>2. r \in Requests
  BY DEF IInv, NetOK, AnswerOK
<1>3. ASSUME NEW is, Handle(r, Answered(r, is)) PROVE SameResets
  <2>1. Resetting(Answered(r, is)) <=> Resetting(r)
    BY <1>2 DEF Answered, Requests, Resetting
  <2> QED
    BY <1>3, <2>1, OtherReplaced DEF Handle
<1>4. CASE HandleGet(r)
  <2>1. PICK x : x = [r EXCEPT !.answer = [is |-> server[r.w].status,
                       ident |-> server[r.w].ident, born |-> server[r.w].born]]
    OBVIOUS
  <2>2. Resetting(x) <=> Resetting(r)
    BY <1>2, <2>1 DEF Requests, Resetting
  <2>3. net' = BagAdd(BagRemove(net, r), x)
    BY <1>4, <2>1 DEF HandleGet, Handle
  <2> QED
    BY <2>2, <2>3, OtherReplaced
<1>5. CASE HandleSend(r)
  BY <1>3, <1>5 DEF HandleSend
<1>6. CASE HandleConfirm(r)
  BY <1>3, <1>6 DEF HandleConfirm
<1>7. CASE HandleTamper(r)
  BY <1>3, <1>7 DEF HandleTamper
<1>8. CASE HandleReset(r)
  BY <1>3, <1>8 DEF HandleReset
<1>9. CASE HandleList(r)
  BY <1>3, <1>9 DEF HandleList
<1> QED
  BY <1>1, <1>4, <1>5, <1>6, <1>7, <1>8, <1>9

(* A step of the show goes to the slide it is called with.                 *)
LEMMA ExecutedResets ==
  ASSUME IInv, ResetsFinite, NEW step \in 1..Steps, NEW on, NEW live, Execute(step, on, live)
  PROVE  SameResets /\ current' = step /\ UNCHANGED reloadDue
<1>1. current' = step /\ UNCHANGED reloadDue
  BY DEF Execute
<1>2. CASE step = 1
  <2>1. PICK x : x = Get(selected')
    OBVIOUS
  <2>2. ~Resetting(x) /\ net' = BagAdd(net, x)
    BY <1>2, <2>1, NoReset DEF Execute
  <2> QED
    BY <1>1, <2>2, OtherAdded
<1>3. CASE step # 1
  <2>1. PICK x : x = Script(step)
    OBVIOUS
  <2>2. ~Resetting(x) /\ net' = BagAdd(net, x)
    BY <1>3, <2>1, NoReset DEF Execute
  <2> QED
    BY <1>1, <2>2, OtherAdded
<1> QED
  BY <1>2, <1>3

LEMMA Steered ==
  ASSUME IInv', clicks < MaxClicks, clicks' = clicks + 1, UNCHANGED reloadDue, ResetsFinite,
         Cardinality(Resets(net')) \in {Cardinality(Resets(net)), Cardinality(Resets(net)) + 1}
  PROVE  [Show!Next]_(Show!showVars)
<1>1. current' \in 1..Steps /\ playing' \in BOOLEAN
  BY DEF IInv, ShowOK
<1>2. Cardinality(Resets(net)) \in Nat
  BY FS_CardinalityType DEF ResetsFinite
<1> QED
  BY <1>1, <1>2 DEF Show!Next, Show!Steer

LEMMA Stuttered ==
  ASSUME SameResets, UNCHANGED <<current, playing, reloadDue, clicks>>
  PROVE  [Show!Next]_(Show!showVars)
  BY DEF SameResets, Show!showVars

LEMMA UserSlides ==
  ASSUME IInv, IInv', ResetsFinite,
         Launch \/ NextClicked \/ Prev \/ Pause \/ Resume \/ Exit \/ Work
  PROVE  ResetsFinite' /\ [Show!Next]_(Show!showVars)
<1>1. current \in 1..Steps /\ 1 \in 1..Steps
  BY DEF IInv, ShowOK, Steps
<1>2. ASSUME Click, SameResets, UNCHANGED reloadDue
      PROVE  ResetsFinite' /\ [Show!Next]_(Show!showVars)
  <2>1. clicks < MaxClicks /\ clicks' = clicks + 1
    BY <1>2 DEF Click
  <2> QED
    BY <1>2, <2>1, Steered DEF SameResets
<1>3. ASSUME Click, NEW step \in 1..Steps, NEW on, NEW live, Execute(step, on, live)
      PROVE  ResetsFinite' /\ [Show!Next]_(Show!showVars)
  BY <1>2, <1>3, ExecutedResets
<1>4. CASE Launch
  <2>1. PICK on, live : on = TRUE /\ live = timeouts
    OBVIOUS
  <2>2. Click /\ Execute(1, on, live)
    BY <1>4, <2>1, Zenon DEF Launch
  <2> QED
    BY <1>1, <1>3, <2>2
<1>5. CASE NextClicked
  <2>1. PICK step, on, live : step \in 1..Steps /\ Execute(step, on, live)
    <3>1. CASE current < Steps
      <4>1. Execute(current + 1, playing, timeouts)
        BY <1>5, <3>1 DEF NextClicked, NextStep
      <4>2. current + 1 \in 1..Steps
        BY <1>1, <3>1 DEF Steps
      <4> QED
        BY <4>1, <4>2, Zenon
    <3>2. CASE ~(current < Steps)
      <4>1. Execute(1, TRUE, timeouts)
        BY <1>5, <3>2, Zenon DEF NextClicked, NextStep
      <4> QED
        BY <1>1, <4>1, Zenon
    <3> QED
      BY <3>1, <3>2
  <2> QED
    BY <1>3, <1>5, <2>1 DEF NextClicked
<1>6. CASE Prev
  <2>1. PICK step, on, live : step \in 1..Steps /\ step = current - 1 /\ on = playing /\ live = timeouts
    BY <1>1, <1>6 DEF Prev, Steps
  <2> QED
    BY <1>3, <1>6, <2>1 DEF Prev
<1>7. CASE Pause
  BY <1>2, <1>7, SameNet DEF Pause, served, page
<1>8. CASE Resume
  <2>1. CASE current >= Steps
    <3>1. PICK on, live : on = TRUE /\ live = timeouts
      OBVIOUS
    <3>2. Execute(1, on, live)
      BY <1>8, <2>1, <3>1, Zenon DEF Resume
    <3> QED
      BY <1>1, <1>3, <1>8, <3>2 DEF Resume
  <2>2. CASE ~(current >= Steps)
    BY <1>2, <1>8, <2>2, SameNet DEF Resume, served, page
  <2> QED
    BY <2>1, <2>2
<1>9. CASE Exit
  BY <1>2, <1>9, SameNet DEF Exit, served, page
<1>10. CASE Work
  <2>1. ASSUME NEW w \in Workloads, Select(w)
        PROVE  ResetsFinite' /\ [Show!Next]_(Show!showVars)
    <3>1. PICK x : x = Get(w)
      OBVIOUS
    <3> QED
      BY <1>1, <1>2, <2>1, <3>1, NoReset, OtherAdded DEF Select
  <2>2. CASE ClickSend
    <3>1. PICK d \in Destinations : net' = BagAdd(net, Send(d, 0))
      BY <2>2 DEF ClickSend
    <3>2. PICK x : x = Send(d, 0)
      OBVIOUS
    <3> QED
      BY <1>1, <1>2, <2>2, <3>1, <3>2, NoReset, OtherAdded DEF ClickSend, page
  <2>3. CASE ClickConfirm
    <3>1. PICK x : x = Confirm(selected)
      OBVIOUS
    <3> QED
      BY <1>1, <1>2, <2>3, <3>1, NoReset, OtherAdded DEF ClickConfirm, page
  <2>4. CASE ClickReset
    <3>1. net' = BagAdd(net, Reset) /\ Click /\ UNCHANGED reloadDue /\ Resetting(Reset)
      BY <1>1, <2>4, NoReset DEF ClickReset, page
    <3>2. ResetsFinite' /\ Cardinality(Resets(net')) = Cardinality(Resets(net)) + 1
      BY <3>1, ResetAdded DEF IInv, NetOK, ResetsFinite
    <3> QED
      BY <3>1, <3>2, Steered DEF Click
  <2> QED
    BY <1>10, <2>1, <2>2, <2>3, <2>4 DEF Work, VisUser
<1> QED
  BY <1>4, <1>5, <1>6, <1>7, <1>8, <1>9, <1>10

(* One reset less, a reload more, or both unchanged.                       *)
LEMMA Refused ==
  ASSUME IInv, ResetsFinite, NEW r \in BagToSet(net), Resetting(r), net' = BagRemove(net, r),
         reloadDue \in BOOLEAN, reloadDue' \in {reloadDue, TRUE}, UNCHANGED <<current, playing, clicks>>
  PROVE  ResetsFinite' /\ [Show!Next]_(Show!showVars)
<1>1. ResetsFinite' /\ Cardinality(Resets(net')) = Cardinality(Resets(net)) - 1
  BY ResetRemoved DEF IInv, NetOK, ResetsFinite
<1>2. Cardinality(Resets(net)) \in Nat /\ Cardinality(Resets(net')) \in Nat
  BY <1>1, FS_CardinalityType DEF ResetsFinite
<1>3. CASE reloadDue' = reloadDue
  <2>1. Show!Refuse
    BY <1>1, <1>2, <1>3 DEF Show!Refuse
  <2> QED
    BY <1>1, <2>1 DEF Show!Next
<1>4. CASE ~reloadDue /\ reloadDue'
  <2>1. UNCHANGED Show!showVars
    BY <1>1, <1>2, <1>4 DEF Show!showVars
  <2> QED
    BY <1>1, <2>1
<1> QED
  BY <1>1, <1>3, <1>4

LEMMA NetSlides ==
  ASSUME IInv, ResetsFinite, Answer \/ Arrival \/ Lost
  PROVE  ResetsFinite' /\ [Show!Next]_(Show!showVars)
<1>1. ASSUME SameResets, UNCHANGED <<current, playing, reloadDue, clicks>>
      PROVE  ResetsFinite' /\ [Show!Next]_(Show!showVars)
  BY <1>1, Stuttered DEF SameResets
<1>2. 1 \in 1..Steps /\ reloadDue \in BOOLEAN
  BY DEF IInv, PageOK, Steps
<1>3. CASE Answer
  BY <1>1, <1>3, ServedResets DEF Answer, Serve, controls, page
<1>4. CASE Arrival
  <2>1. PICK r \in BagToSet(net) :
          Paint(r) \/ Refresh(r) \/ ShowReset(r) \/ FillSelector(r) \/ Forget(r)
    BY <1>4 DEF Arrival, Deliver
  <2>2. UNCHANGED <<current, playing, clicks>>
    BY <1>4 DEF Arrival, Deliver, controls
  <2>3. CASE Paint(r)
    BY <1>1, <2>2, <2>3, OtherRemoved DEF Paint, Answers, Receive, Resetting
  <2>4. CASE Refresh(r)
    <3>1. PICK x : x = Get(r.w)
      OBVIOUS
    <3>2. ~Resetting(r) /\ ~Resetting(x) /\ net' = BagAdd(BagRemove(net, r), x) /\ UNCHANGED reloadDue
      BY <1>2, <2>4, <3>1, NoReset DEF Refresh, Answers, ReceiveThenGet, Resetting, page
    <3> QED
      BY <1>1, <2>2, <3>2, OtherReplaced
  <2>5. CASE ShowReset(r)
    BY <1>2, <2>2, <2>5, Refused DEF ShowReset, Answers, Receive, Resetting
  <2>6. CASE FillSelector(r)
    <3>1. PICK x : x = Get(selected')
      OBVIOUS
    <3>2. ~Resetting(r) /\ ~Resetting(x) /\ net' = BagAdd(BagRemove(net, r), x) /\ UNCHANGED reloadDue
      BY <1>2, <2>6, <3>1, NoReset DEF FillSelector, Answers, ReceiveThenGet, Resetting
    <3> QED
      BY <1>1, <2>2, <3>2, OtherReplaced
  <2>7. CASE Forget(r)
    BY <1>1, <2>2, <2>7, OtherRemoved DEF Forget, Receive, Resetting, page
  <2> QED
    BY <2>1, <2>3, <2>4, <2>5, <2>6, <2>7
<1>5. CASE Lost
  <2>1. PICK r \in BagToSet(net) : net' = BagRemove(net, r)
    BY <1>5 DEF Lost, Fail, Receive
  <2>2. UNCHANGED <<current, playing, clicks, reloadDue>>
    BY <1>5 DEF Lost, Fail, page
  <2>3. CASE Resetting(r)
    BY <1>2, <2>1, <2>2, <2>3, Refused
  <2>4. CASE ~Resetting(r)
    BY <1>1, <2>1, <2>2, <2>4, OtherRemoved
  <2> QED
    BY <2>3, <2>4
<1> QED
  BY <1>3, <1>4, <1>5

(* What the timeout of the next step leaves.                               *)
LEMMA Advanced ==
  ASSUME IInv, IInv', ResetsFinite, Timeout
  PROVE  ResetsFinite' /\ [Show!Next]_(Show!showVars)
<1>1. playing /\ current < Steps /\ current \in 1..Steps
  BY DEF Timeout, IInv, ShowOK, OneTimeout
<1>2. PICK on, live : on \in BOOLEAN /\ on = playing /\ NextStep(on, live)
  BY DEF Timeout, IInv, ShowOK
<1>3. PICK step \in 1..Steps : step = current + 1
  BY <1>1 DEF Steps
<1>4. Execute(step, on, live)
  BY <1>1, <1>2, <1>3 DEF NextStep
<1>5. SameResets /\ current' = step /\ UNCHANGED <<reloadDue, clicks>>
  BY <1>4, ExecutedResets DEF Timeout
<1>6. playing' = TRUE \/ current' = Steps
  <2>1. CASE step = 2
    BY <1>1, <1>2, <1>4, <2>1 DEF Execute
  <2>2. CASE step # 2
    <3>1. ScheduleAfter(step, on, live, Label(on))
      BY <1>1, <1>3, <1>4, <2>2 DEF Execute
    <3>2. playing' = (on /\ step < Steps)
      BY <3>1 DEF ScheduleAfter
    <3>3. on /\ step < Steps => playing' = TRUE
      BY <3>2, Zenon
    <3> QED
      BY <1>1, <1>2, <1>3, <1>5, <3>3 DEF Steps
  <2> QED
    BY <2>1, <2>2
<1>7. playing' \in BOOLEAN
  BY DEF IInv, ShowOK
<1>8. Show!Advance
  BY <1>1, <1>3, <1>5, <1>6, <1>7 DEF Show!Advance, SameResets
<1> QED
  BY <1>5, <1>8 DEF Show!Next, SameResets

LEMMA ReturnSlides ==
  ASSUME IInv, ResetsFinite, Wake \/ Tampered
  PROVE  ResetsFinite' /\ [Show!Next]_(Show!showVars)
<1>1. /\ playing \in BOOLEAN /\ timer \in Nat
      /\ IsABag(net) /\ 1 \in 1..Steps
  BY DEF IInv, ShowOK, NetOK, Steps
<1>2. ASSUME NEW step \in {1, 2}, ScheduleAfter(step, playing, timeouts, button)
      PROVE  playing' = playing
  <2>1. step < Steps
    BY DEF Steps
  <2>2. playing' = (playing /\ step < Steps)
    BY <1>2 DEF ScheduleAfter
  <2> QED
    BY <1>1, <2>1, <2>2, Zenon
<1>3. CASE Wake
  <2>1. PICK x : x = Script(1)
    OBVIOUS
  <2>2. SameResets
    BY <1>1, <1>3, <2>1, NoReset, OtherAdded DEF Wake
  <2>3. playing' = playing /\ UNCHANGED <<current, reloadDue, clicks>>
    BY <1>2, <1>3 DEF Wake, page
  <2> QED
    BY <2>2, <2>3, Stuttered DEF SameResets
<1>4. CASE Tampered
  <2>1. PICK r \in BagToSet(net) :
          /\ r.kind = "tamper"
          /\ net' = BagAdd(BagAdd(BagRemove(net, r), Get(selected')), Get(New))
    BY <1>4 DEF Tampered
  <2>2. PICK x, y : x = Get(selected') /\ y = Get(New)
    OBVIOUS
  <2>3. ~Resetting(x) /\ ~Resetting(y) /\ ~Resetting(r)
    BY <1>1, <2>1, <2>2, NoReset DEF Resetting
  <2> DEFINE B == BagRemove(net, r)
             C == BagAdd(B, x)
  <2>4. IsABag(B) /\ IsFiniteSet(Resets(B)) /\ Cardinality(Resets(B)) = Cardinality(Resets(net))
    BY <1>1, <2>3, RemoveBag, ResetRemoved DEF ResetsFinite
  <2>5. IsABag(C) /\ IsFiniteSet(Resets(C)) /\ Cardinality(Resets(C)) = Cardinality(Resets(B))
    BY <2>3, <2>4, AddBag, ResetAdded
  <2>6. net' = BagAdd(C, y)
    BY <2>1, <2>2
  <2> HIDE DEF C, B
  <2>7. SameResets
    BY <2>3, <2>4, <2>5, <2>6, ResetAdded DEF ResetsFinite, SameResets
  <2>8. playing' = playing /\ UNCHANGED <<current, reloadDue, clicks>>
    BY <1>2, <1>4 DEF Tampered
  <2> QED
    BY <2>7, <2>8, Stuttered DEF SameResets
<1> QED
  BY <1>3, <1>4

(* A page loaded anew has forgotten the resets of the page before.         *)
LEMMA Begun ==
  ASSUME IInv, ResetsFinite, Reloaded
  PROVE  ResetsFinite' /\ [Show!Next]_(Show!showVars)
<1>1. /\ Reload /\ current' = 1 /\ playing' = FALSE /\ reloadDue /\ reloadDue' = FALSE
      /\ UNCHANGED clicks /\ net' = BagAdd(Orphans, List)
  BY DEF Reloaded, Reload
<1>2. ASSUME NEW q \in BagToSet(Orphans) PROVE q.step = Orphan
  <2>1. PICK r \in BagToSet(net) : q = [r EXCEPT !.step = Orphan]
    BY SetBag DEF Orphans
  <2>2. r \in Requests
    BY DEF IInv, NetOK, AnswerOK
  <2> QED
    BY <2>1, <2>2 DEF Requests
<1>3. IsABag(Orphans) /\ 1 \in 1..Steps
  BY SetBag DEF Orphans, Steps
<1>4. BagToSet(net') = BagToSet(Orphans) \cup {List} /\ ~Resetting(List)
  BY <1>1, <1>3, AddBag, NoReset
<1>5. Resets(net') = {}
  BY <1>2, <1>4, InResets DEF Resetting
<1>6. ResetsFinite' /\ Cardinality(Resets(net')) = 0
  BY <1>5, FS_EmptySet DEF ResetsFinite
<1>7. Cardinality(Resets(net)) \in Nat
  BY FS_CardinalityType DEF ResetsFinite
<1>8. Show!Begin
  BY <1>1, <1>6, <1>7 DEF Show!Begin
<1> QED
  BY <1>6, <1>8 DEF Show!Next

LEMMA SlidesInit == Init => Show!Init /\ ResetsFinite
<1> SUFFICES ASSUME Init PROVE Show!Init /\ ResetsFinite
  OBVIOUS
<1>1. IsABag(EmptyBag) /\ BagToSet(EmptyBag) = {} /\ net = BagAdd(EmptyBag, List) /\ 1 \in 1..Steps
  BY SetBag DEF EmptyBag, Init, VisInit, Steps
<1>2. BagToSet(net) = {List} /\ ~Resetting(List)
  BY <1>1, AddBag, NoReset
<1>3. Resets(net) = {}
  BY <1>2, InResets
<1>4. ResetsFinite /\ Cardinality(Resets(net)) = 0
  BY <1>3, FS_EmptySet DEF ResetsFinite
<1> QED
  BY <1>1, <1>4 DEF Init, VisInit, PageInit, ShowInit, Show!Init

LEMMA SlidesStep ==
  ASSUME IInv, IInv', ResetsFinite, [Next]_vars
  PROVE  ResetsFinite' /\ [Show!Next]_(Show!showVars)
<1>1. CASE Settled \/ UNCHANGED vars
  <2>1. SameResets /\ UNCHANGED <<current, playing, reloadDue, clicks>>
    BY <1>1, SameNet DEF Settled, vars, visVars, controls, served, page
  <2> QED
    BY <2>1, Stuttered DEF SameResets
<1>2. CASE Others
  <2>1. /\ clicks < MaxClicks /\ clicks' = clicks + 1
        /\ UNCHANGED <<net, current, playing, reloadDue>>
    BY <1>2 DEF Others, Elsewhere, page
  <2>2. SameResets
    BY <2>1, SameNet
  <2> QED
    BY <2>1, <2>2, Steered DEF SameResets
<1> QED
  BY <1>1, <1>2, UserSlides, NetSlides, Advanced, ReturnSlides, Begun DEF Next

(* The showcase is a slide show step by step: whatever its awaits, its     *)
(* timers and its late answers, by itself it only goes forward, one step   *)
(* at a time, stops at the last one only, and a page loaded after a reset  *)
(* begins it anew (showcaseExecuteStep, showcaseNextStep).                 *)
THEOREM ShowcaseIsSlideShow == Spec => Show!Init /\ [][Show!Next]_(Show!showVars)
  BY SlidesInit, SlidesStep, ShowcaseInvariant, PTL DEF Spec

-----------------------------------------------------------------------------
(* How a show nobody interferes with comes about.                          *)

OldSettled == server[Old].status = "CONFIRMED" /\ server[Old].ident = "payment"
NewSettled == server[New].status = "CONFIRMED" /\ server[New].ident = "student"
NewWithin(n) == NewSettled \/ (server[New].status = "AMBIGUOUS" /\ server[New].probes <= n)

PostKinds == {"send", "tamper", "confirm"}
Posts == {r \in BagToSet(net) : r.kind \in PostKinds}

(* Until the first click there is the page's own request for the list.     *)
Before ==
  /\ OldSettled /\ NewWithin(0)
  /\ options = Workloads /\ ~reloadDue /\ ~hud /\ timeouts = {} /\ sleeping = 0
  /\ \A r \in BagToSet(net) : /\ r.kind \in {"list", "get"}
                              /\ r.kind = "list" /\ r.answer # Waiting => r.answer.is = "both"

(* The one click was not the one that starts the show.                     *)
NoShow ==
  /\ timeouts = {} /\ sleeping = 0
  /\ \A r \in BagToSet(net) : r.kind # "tamper" /\ (r.kind = "send" => r.step <= 0)

Target == CASE current = 4 -> "payment-api"
            [] current = 6 -> "student-api"
            [] OTHER       -> "database"

(* A request of the show is the one of its present step, or paints.        *)
OfStep(r) ==
  /\ r.kind \in PostKinds \cup {"get"} /\ r.step # Orphan
  /\ r.kind \in PostKinds => r.w = IF current = 1 THEN Old ELSE New
  /\ r.kind = "send" => /\ current \in {1, 3, 4, 6}
                        /\ r.step = current /\ r.dest = Target
                        /\ r.answer # Waiting => r.answer.is = Told[current]
  /\ r.kind = "tamper" => current = 2
  /\ r.kind = "confirm" => current = 5

RequestsOK ==
  /\ \A r \in BagToSet(net) : OfStep(r)
  /\ \A r \in Posts : net[r] = 1 /\ Posts = {r}

Pending == \E r \in Posts : r.answer = Waiting

(* How far W-NEW has come, with the post of the step before or behind it.  *)
Progress ==
  /\ current = 1 => NewWithin(0)
  /\ current \in 2..4 => NewWithin(IF Pending THEN current - 2 ELSE current - 1)
  /\ current = 5 => NewWithin(3)
  /\ current = 5 /\ ~Pending => NewSettled
  /\ current = 6 => NewSettled

Selection ==
  /\ sleeping > 0 => sleeping = 1 /\ current = 1 /\ timeouts = {} /\ Posts = {}
  /\ current = 1 => selected = Old
  /\ current = 2 => selected = New \/ Posts # {}
  /\ current > 2 => selected = New

During ==
  /\ OldSettled /\ options = Workloads /\ ~reloadDue
  /\ RequestsOK /\ Selection /\ Progress

Calm == MeantFor /\ Existing = Workloads /\ ~rough /\ ProbeLimit >= 3

StoryInv ==
  Calm =>
    /\ clicks = 0 => Before
    /\ clicks = 1 => NoShow \/ During
LEMMA StoryHolds == IInv /\ StoryInv => StoryTold
<1> SUFFICES ASSUME IInv, StoryInv, clicks = 1, Calm, NEW r \in BagToSet(net),
                    r.kind = "send", r.step > 0, r.answer # Waiting
             PROVE  r.answer.is = Told[r.step]
  BY DEF StoryTold, Undisturbed, Calm
<1>1. r.step \in Int
  BY DEF IInv, NetOK, AnswerOK, Requests, Steps
<1>2. During
  BY <1>1 DEF StoryInv, NoShow
<1> QED
  BY <1>2 DEF During, RequestsOK, OfStep

LEMMA StoryBegins == Init => StoryInv
<1> SUFFICES ASSUME Init, Calm PROVE clicks = 0 /\ Before
  BY DEF StoryInv
<1> USE DEF Init, VisInit, PageInit, ShowInit
<1>1. PICK o \in OldFound, n \in NewFound :
        server = [w \in Ids |-> CASE w = Old -> Fresh(o, "payment", 0)
                                  [] w = New -> Fresh(n, IF n = "CONFIRMED" THEN "student"
                                                                            ELSE "payment", 0)
                                  [] OTHER   -> Fresh("ABSENT", "payment", 0)]
  BY DEF Servers
<1>2. Old \in Ids /\ New \in Ids /\ Old # New
  BY VisualizerAssumption DEF Ids, Workloads
<1>3. /\ server[Old] = Fresh(o, "payment", 0)
      /\ server[New] = Fresh(n, IF n = "CONFIRMED" THEN "student" ELSE "payment", 0)
  BY <1>1, <1>2
<1>4. server[Old].status # "ABSENT" /\ server[New].status # "ABSENT"
  BY DEF Calm, Existing, Workloads
<1>5. o = "CONFIRMED" /\ n \in {"AMBIGUOUS", "CONFIRMED"}
  BY <1>3, <1>4, VisualizerAssumption DEF Fresh, Calm, MeantFor
<1>6. OldSettled /\ NewWithin(0)
  BY <1>3, <1>5 DEF OldSettled, NewWithin, NewSettled, Fresh
<1>7. IsABag(EmptyBag) /\ BagToSet(EmptyBag) = {} /\ net = BagAdd(EmptyBag, List)
  BY SetBag DEF EmptyBag
<1>8. BagToSet(net) = {List}
  BY <1>7, AddBag
<1>9. List.kind = "list" /\ List.answer = Waiting
  BY DEF List, Request
<1>10. ~reloadDue /\ ~hud /\ timeouts = {} /\ sleeping = 0 /\ clicks = 0 /\ options = Workloads
  OBVIOUS
<1> QED
  BY <1>6, <1>8, <1>9, <1>10 DEF Before

-----------------------------------------------------------------------------
(* Counting requests. *)

LEMMA AddCount ==
  ASSUME NEW B, IsABag(B), NEW x
  PROVE  /\ \A y \in BagToSet(B) : y # x => BagAdd(B, x)[y] = B[y]
         /\ x \notin BagToSet(B) => BagAdd(B, x)[x] = 1
  BY DEF BagAdd, BagToSet

LEMMA RemoveCount ==
  ASSUME NEW B, IsABag(B), NEW r \in BagToSet(B)
  PROVE  /\ \A y \in BagToSet(B) : y # r => BagRemove(B, r)[y] = B[y]
         /\ B[r] = 1 => BagToSet(BagRemove(B, r)) = BagToSet(B) \ {r}
<1>1. ASSUME NEW y \in BagToSet(B), y # r PROVE BagRemove(B, r)[y] = B[y]
  BY <1>1 DEF BagRemove, BagToSet
<1>2. ASSUME B[r] = 1 PROVE BagToSet(BagRemove(B, r)) = BagToSet(B) \ {r}
  BY <1>2 DEF BagRemove, BagToSet
<1> QED
  BY <1>1, <1>2

(* More or fewer paints, and the posts as they were.                       *)
LEMMA PaintsOnly ==
  ASSUME RequestsOK, UNCHANGED current,
         \A r \in BagToSet(net') :
           r \in BagToSet(net) \/ (r.kind = "get" /\ r.step # Orphan),
         \A r \in BagToSet(net) :
           r.kind \in PostKinds => r \in BagToSet(net') /\ net'[r] = net[r]
  PROVE  RequestsOK' /\ Posts' = Posts /\ (Pending' <=> Pending)
<1>1. Posts' = Posts
  BY DEF Posts, PostKinds
<1>2. \A r \in BagToSet(net') : OfStep(r)'
  <2>1. ASSUME NEW r \in BagToSet(net) PROVE OfStep(r)'
    BY DEF RequestsOK, OfStep, Target
  <2>2. ASSUME NEW r, r.kind = "get", r.step # Orphan PROVE OfStep(r)'
    BY <2>2 DEF OfStep, PostKinds
  <2> QED
    BY <2>1, <2>2
<1>3. \A r \in Posts : net'[r] = net[r]
  BY DEF Posts
<1>4. RequestsOK'
  BY <1>1, <1>2, <1>3 DEF RequestsOK
<1> QED
  BY <1>1, <1>4 DEF Pending

LEMMA PaintAsked ==
  ASSUME NetOK, RequestsOK, UNCHANGED current, NEW x, x.kind = "get", x.step # Orphan,
         net' = BagAdd(net, x)
  PROVE  RequestsOK' /\ Posts' = Posts /\ (Pending' <=> Pending)
<1>1. BagToSet(net') = BagToSet(net) \cup {x}
  BY AddBag DEF NetOK
<1>2. ASSUME NEW r \in BagToSet(net), r.kind \in PostKinds
      PROVE  r \in BagToSet(net') /\ net'[r] = net[r]
  BY <1>1, <1>2, AddCount DEF NetOK, PostKinds
<1> QED
  BY <1>1, <1>2, PaintsOnly

LEMMA PaintGone ==
  ASSUME NetOK, RequestsOK, UNCHANGED current, NEW r \in BagToSet(net), r.kind = "get",
         net' = BagRemove(net, r)
  PROVE  RequestsOK' /\ Posts' = Posts /\ (Pending' <=> Pending)
<1>1. /\ BagToSet(net') \subseteq BagToSet(net)
      /\ BagToSet(net) \subseteq BagToSet(net') \cup {r}
  BY RemoveBag DEF NetOK
<1>2. ASSUME NEW s \in BagToSet(net), s.kind \in PostKinds
      PROVE  s \in BagToSet(net') /\ net'[s] = net[s]
  BY <1>1, <1>2, RemoveCount DEF NetOK, PostKinds
<1> QED
  BY <1>1, <1>2, PaintsOnly

LEMMA PaintReplaced ==
  ASSUME NetOK, RequestsOK, UNCHANGED current, NEW r \in BagToSet(net), r.kind = "get",
         NEW x, x.kind = "get", x.step # Orphan, net' = BagAdd(BagRemove(net, r), x)
  PROVE  RequestsOK' /\ Posts' = Posts /\ (Pending' <=> Pending)
<1> DEFINE B == BagRemove(net, r)
<1>1. /\ IsABag(B) /\ BagToSet(B) \subseteq BagToSet(net)
      /\ BagToSet(net) \subseteq BagToSet(B) \cup {r}
      /\ \A y \in BagToSet(net) : y # r => B[y] = net[y]
  BY RemoveBag, RemoveCount DEF NetOK
<1>2. /\ BagToSet(net') = BagToSet(B) \cup {x}
      /\ \A y \in BagToSet(B) : y # x => net'[y] = B[y]
  BY <1>1, AddBag, AddCount
<1>3. ASSUME NEW s \in BagToSet(net), s.kind \in PostKinds
      PROVE  s \in BagToSet(net') /\ net'[s] = net[s]
  <2>1. s # r /\ s # x
    BY <1>3 DEF PostKinds
  <2> QED
    BY <1>1, <1>2, <2>1
<1> QED
  BY <1>1, <1>2, <1>3, PaintsOnly

(* The post of the step is done with, or answered.                         *)
LEMMA PostReplaced ==
  ASSUME NetOK, RequestsOK, UNCHANGED current, NEW r \in Posts, NEW x, OfStep(x),
         x.kind = "get" \/ (x.kind \in PostKinds /\ x.answer # Waiting),
         net' = BagAdd(BagRemove(net, r), x)
  PROVE  RequestsOK' /\ ~Pending' /\ (x.kind \in PostKinds => Posts' # {})
<1> DEFINE B == BagRemove(net, r)
<1>1. r \in BagToSet(net) /\ net[r] = 1 /\ Posts = {r} /\ IsABag(net)
  BY DEF RequestsOK, Posts, NetOK
<1>2. IsABag(B) /\ BagToSet(B) = BagToSet(net) \ {r}
  BY <1>1, RemoveBag, RemoveCount
<1>3. ASSUME NEW s \in BagToSet(B) PROVE s.kind \notin PostKinds
  BY <1>1, <1>2, <1>3 DEF Posts
<1>4. /\ BagToSet(net') = BagToSet(B) \cup {x}
      /\ x \notin BagToSet(B) => net'[x] = 1
  BY <1>2, AddBag, AddCount
<1>5. Posts' = IF x.kind \in PostKinds THEN {x} ELSE {}
  BY <1>3, <1>4 DEF Posts
<1>6. \A s \in BagToSet(net') : OfStep(s)'
  <2>1. ASSUME NEW s, OfStep(s) PROVE OfStep(s)'
    BY <2>1 DEF OfStep, Target
  <2> QED
    BY <1>2, <1>4, <2>1 DEF RequestsOK
<1>7. x.kind \in PostKinds => net'[x] = 1
  BY <1>3, <1>4
<1> QED
  BY <1>5, <1>6, <1>7 DEF RequestsOK, Pending, PostKinds

(* The show posts while nothing but paints is under way.                   *)
LEMMA PostAsked ==
  ASSUME NetOK, Posts = {}, NEW x, x.kind \in PostKinds, x.answer = Waiting, OfStep(x)',
         \A r \in BagToSet(net) : OfStep(r)', net' = BagAdd(net, x)
  PROVE  RequestsOK' /\ Posts' # {} /\ Pending'
<1>1. x \notin BagToSet(net)
  BY DEF Posts
<1>2. BagToSet(net') = BagToSet(net) \cup {x} /\ net'[x] = 1
  BY <1>1, AddBag, AddCount DEF NetOK
<1>3. Posts' = {x}
  BY <1>2 DEF Posts
<1> QED
  BY <1>2, <1>3 DEF RequestsOK, Pending

LEMMA SameProgress ==
  ASSUME Progress, UNCHANGED <<server, current>>, Pending' <=> Pending
  PROVE  Progress'
  BY DEF Progress, NewWithin, NewSettled
-----------------------------------------------------------------------------
(* Step by step. *)

(* What W-NEW has come to, whatever the server does with other rows.       *)
LEMMA SameRows ==
  ASSUME server'[Old] = server[Old], server'[New] = server[New]
  PROVE  /\ Existing' = Existing /\ OldSettled' = OldSettled /\ NewSettled' = NewSettled
         /\ \A n : NewWithin(n)' <=> NewWithin(n)
<1>1. Existing' = Existing
  BY DEF Existing, Workloads
<1> QED
  BY <1>1 DEF OldSettled, NewSettled, NewWithin

(* Nothing but the list and the panel's own requests.                      *)
QuietRequest(r) == /\ r.kind \in {"list", "get"}
                   /\ r.kind = "list" /\ r.answer # Waiting => r.answer.is = "both"

LEMMA QuietServer ==
  ASSUME IInv, Calm', Before, NEW r \in BagToSet(net),
         \/ HandleSend(r) \/ HandleConfirm(r) \/ HandleTamper(r)
         \/ HandleReset(r) \/ HandleGet(r) \/ HandleList(r)
  PROVE  /\ UNCHANGED server
         /\ \E x : QuietRequest(x) /\ net' = BagAdd(BagRemove(net, r), x)
<1>1. QuietRequest(r) /\ r \in Requests
  BY DEF Before, QuietRequest, IInv, NetOK, AnswerOK
<1>2. CASE HandleGet(r)
  <2>1. PICK x : x = [r EXCEPT !.answer = [is |-> server[r.w].status,
                       ident |-> server[r.w].ident, born |-> server[r.w].born]]
    OBVIOUS
  <2>2. x.kind = r.kind /\ r.kind = "get"
    BY <1>1, <1>2, <2>1 DEF Requests, HandleGet, Asks
  <2> QED
    BY <1>2, <2>1, <2>2 DEF HandleGet, Handle, QuietRequest
<1>3. CASE HandleList(r)
  <2>1. Existing = Workloads /\ UNCHANGED server
    BY <1>3 DEF Calm, HandleList, Existing
  <2>2. Workloads # {} /\ Workloads # {Old} /\ Workloads # {New}
    BY VisualizerAssumption DEF Workloads
  <2>3. net' = BagAdd(BagRemove(net, r), Answered(r, "both"))
    BY <1>3, <2>1, <2>2 DEF HandleList, Handle
  <2>4. QuietRequest(Answered(r, "both"))
    BY <1>1 DEF Answered, Requests, QuietRequest
  <2> QED
    BY <2>1, <2>3, <2>4
<1>4. ~HandleSend(r) /\ ~HandleConfirm(r) /\ ~HandleTamper(r) /\ ~HandleReset(r)
  BY <1>1 DEF QuietRequest, HandleSend, HandleConfirm, HandleTamper, HandleReset, Asks
<1> QED
  BY <1>2, <1>3, <1>4

LEMMA NobodyClicked ==
  ASSUME IInv, Calm', Before, Answer \/ Arrival
  PROVE  Before'
<1>1. IsABag(net) /\ UNCHANGED controls
  BY DEF IInv, NetOK, Answer, Arrival
<1>2. ASSUME NEW r \in BagToSet(net), NEW x, QuietRequest(x), net' = BagAdd(BagRemove(net, r), x)
      PROVE  \A s \in BagToSet(net') : QuietRequest(s)
  <2> DEFINE B == BagRemove(net, r)
  <2>1. IsABag(B) /\ BagToSet(B) \subseteq BagToSet(net)
    BY <1>1, RemoveBag
  <2>2. BagToSet(net') = BagToSet(B) \cup {x}
    BY <1>2, <2>1, AddBag
  <2>3. \A s \in BagToSet(net) : QuietRequest(s)
    BY DEF Before, QuietRequest
  <2> QED
    BY <1>2, <2>1, <2>2, <2>3
<1>3. ASSUME UNCHANGED server, options' = Workloads, ~reloadDue',
             \A s \in BagToSet(net') : QuietRequest(s)
      PROVE  Before'
  <2>1. OldSettled' /\ NewWithin(0)'
    BY <1>3, SameRows DEF Before
  <2>2. ~hud' /\ timeouts' = {} /\ sleeping' = 0
    BY <1>1 DEF controls, Before
  <2> QED
    BY <1>3, <2>1, <2>2 DEF Before, QuietRequest
<1>4. CASE Answer
  <2>1. PICK r \in BagToSet(net) :
          \/ HandleSend(r) \/ HandleConfirm(r) \/ HandleTamper(r)
          \/ HandleReset(r) \/ HandleGet(r) \/ HandleList(r)
    BY <1>4 DEF Answer, Serve
  <2>2. UNCHANGED page
    BY <1>4 DEF Answer, Serve
  <2>3. options' = Workloads /\ ~reloadDue'
    BY <2>2 DEF page, Before
  <2> QED
    BY <1>2, <1>3, <2>1, <2>3, QuietServer
<1>5. CASE Arrival
  <2>1. PICK r \in BagToSet(net) :
          Paint(r) \/ Refresh(r) \/ ShowReset(r) \/ FillSelector(r) \/ Forget(r)
    BY <1>5 DEF Arrival, Deliver
  <2>2. UNCHANGED server
    BY <1>5 DEF Arrival, Deliver
  <2>3. QuietRequest(r) /\ (\A s \in BagToSet(net) : QuietRequest(s))
    BY DEF Before, QuietRequest
  <2>4. CASE Paint(r) \/ Forget(r)
    <3>1. net' = BagRemove(net, r) /\ UNCHANGED <<options, reloadDue>>
      BY <2>4 DEF Paint, Forget, Receive, page
    <3>2. BagToSet(net') \subseteq BagToSet(net)
      BY <1>1, <3>1, RemoveBag
    <3>3. options' = Workloads /\ ~reloadDue'
      BY <3>1 DEF Before
    <3> QED
      BY <1>3, <2>2, <2>3, <3>2, <3>3
  <2>5. CASE FillSelector(r)
    <3>1. /\ r.kind = "list" /\ r.answer # Waiting /\ UNCHANGED reloadDue
          /\ net' = BagAdd(BagRemove(net, r), Get(selected'))
      BY <2>5 DEF FillSelector, Answers, ReceiveThenGet
    <3>2. r.answer.is = "both"
      BY <2>3, <3>1 DEF QuietRequest
    <3>3. options' = Workloads
      BY <2>5, <3>2 DEF FillSelector
    <3>4. PICK x : x = Get(selected')
      OBVIOUS
    <3>5. QuietRequest(x) /\ net' = BagAdd(BagRemove(net, r), x)
      BY <3>1, <3>4 DEF Get, Request, QuietRequest
    <3>6. ~reloadDue'
      BY <3>1 DEF Before
    <3> QED
      BY <1>2, <1>3, <2>2, <3>3, <3>5, <3>6
  <2>6. ~Refresh(r) /\ ~ShowReset(r)
    BY <2>3 DEF QuietRequest, Refresh, ShowReset, Answers
  <2> QED
    BY <2>1, <2>4, <2>5, <2>6
<1> QED
  BY <1>4, <1>5

LEMMA OtherClick ==
  ASSUME IInv, Calm', Before, Work
  PROVE  NoShow'
<1>1. PICK x : x.kind # "tamper" /\ (x.kind = "send" => x.step = 0) /\ net' = BagAdd(net, x)
  <2>1. CASE \E w \in Workloads : Select(w)
    BY <2>1 DEF Select, Get, Request
  <2>2. CASE ClickSend
    BY <2>2 DEF ClickSend, Send, Request
  <2>3. CASE ClickConfirm
    BY <2>3 DEF ClickConfirm, Confirm, Request
  <2>4. CASE ClickReset
    BY <2>4 DEF ClickReset, Reset, Request
  <2> QED
    BY <2>1, <2>2, <2>3, <2>4 DEF Work, VisUser
<1>2. BagToSet(net') = BagToSet(net) \cup {x}
  BY <1>1, AddBag DEF IInv, NetOK
<1>3. timeouts' = {} /\ sleeping' = 0
  BY DEF Work, controls, Before
<1>4. \A r \in BagToSet(net) : r.kind # "tamper" /\ r.kind # "send"
  BY DEF Before
<1> QED
  BY <1>1, <1>2, <1>3, <1>4 DEF NoShow

(* The click that starts the show, on a page that is at rest.              *)
LEMMA ShowLaunched ==
  ASSUME IInv, Calm', Before, Launch
  PROVE  During'
<1>1. /\ net = EmptyBag /\ Execute(1, TRUE, timeouts)
  <2>1. Execute(1, TRUE, timeouts) /\ Rough(net # EmptyBag)
    BY Zenon DEF Launch
  <2> QED
    BY <2>1 DEF Rough, Calm
<1>2. /\ current' = 1 /\ selected' = Old /\ net' = BagAdd(net, Get(Old)) /\ sleeping' = sleeping + 1
      /\ timeouts' = timeouts /\ UNCHANGED <<server, options, reloadDue>>
  BY <1>1 DEF Execute, Choose, Before, Workloads
<1>3. BagToSet(EmptyBag) = {} /\ IsABag(EmptyBag)
  BY SetBag DEF EmptyBag
<1>4. BagToSet(net') = {Get(Old)}
  BY <1>1, <1>2, <1>3, AddBag
<1>5. Get(Old).kind = "get" /\ Get(Old).step # Orphan
  BY DEF Get, Request, Orphan
<1>6. Posts' = {}
  BY <1>4, <1>5 DEF Posts, PostKinds
<1>7. RequestsOK'
  BY <1>4, <1>5, <1>6 DEF RequestsOK, OfStep, PostKinds
<1>8. Progress'
  BY <1>2 DEF Before, Progress, NewWithin, NewSettled
<1>9. Selection'
  BY <1>2, <1>6 DEF Before, Selection
<1>10. OldSettled' /\ options' = Workloads /\ ~reloadDue'
  BY <1>2 DEF Before, OldSettled
<1> QED
  BY <1>7, <1>8, <1>9, <1>10 DEF During

(* A page whose click was another one plays no show, whatever it reloads.  *)
LEMMA StillNoShow ==
  ASSUME IInv, NoShow, Answer \/ Arrival \/ Reloaded
  PROVE  NoShow'
<1> DEFINE Unplayed(r) == r.kind # "tamper" /\ (r.kind = "send" => r.step <= 0)
<1>1. IsABag(net) /\ (\A r \in BagToSet(net) : r \in Requests /\ Unplayed(r))
  BY DEF IInv, NetOK, AnswerOK, NoShow
<1>2. ASSUME UNCHANGED controls, NEW r \in BagToSet(net), NEW x, Unplayed(x),
             net' = BagAdd(BagRemove(net, r), x)
      PROVE  NoShow'
  <2> DEFINE B == BagRemove(net, r)
  <2>1. IsABag(B) /\ BagToSet(B) \subseteq BagToSet(net)
    BY <1>1, RemoveBag
  <2>2. BagToSet(net') = BagToSet(B) \cup {x}
    BY <1>2, <2>1, AddBag
  <2> QED
    BY <1>1, <1>2, <2>1, <2>2 DEF NoShow, controls
<1>3. ASSUME UNCHANGED controls, NEW r \in BagToSet(net), net' = BagRemove(net, r)
      PROVE  NoShow'
  <2>1. BagToSet(net') \subseteq BagToSet(net)
    BY <1>1, <1>3, RemoveBag
  <2> QED
    BY <1>1, <1>3, <2>1 DEF NoShow, controls
<1>4. ASSUME NEW w PROVE Unplayed(Get(w))
  BY DEF Get, Request
<1>5. CASE Answer
  <2>1. PICK r \in BagToSet(net) :
          \/ HandleSend(r) \/ HandleConfirm(r) \/ HandleTamper(r)
          \/ HandleReset(r) \/ HandleGet(r) \/ HandleList(r)
    BY <1>5 DEF Answer, Serve
  <2>2. \E is : Handle(r, [r EXCEPT !.answer = is])
    BY <2>1 DEF HandleSend, HandleConfirm, HandleTamper, HandleReset, HandleGet, HandleList, Answered
  <2>3. PICK is : Handle(r, [r EXCEPT !.answer = is])
    BY <2>2
  <2>4. PICK x : x = [r EXCEPT !.answer = is]
    OBVIOUS
  <2>5. Unplayed(x)
    BY <1>1, <2>4 DEF Requests
  <2> QED
    BY <1>2, <1>5, <2>3, <2>4, <2>5 DEF Answer, Handle
<1>6. CASE Arrival
  <2>1. PICK r \in BagToSet(net) :
          Paint(r) \/ Refresh(r) \/ ShowReset(r) \/ FillSelector(r) \/ Forget(r)
    BY <1>6 DEF Arrival, Deliver
  <2>2. net' = BagRemove(net, r) \/ \E w : net' = BagAdd(BagRemove(net, r), Get(w))
    BY <2>1 DEF Paint, Refresh, ShowReset, FillSelector, Forget, Receive, ReceiveThenGet
  <2> QED
    BY <1>2, <1>3, <1>4, <1>6, <2>2 DEF Arrival
<1>7. CASE Reloaded
  <2>1. timeouts' = {} /\ sleeping' = 0 /\ net' = BagAdd(Orphans, List)
    BY <1>7 DEF Reloaded, Reload
  <2>2. IsABag(Orphans)
    BY SetBag DEF Orphans
  <2>3. ASSUME NEW q \in BagToSet(Orphans) PROVE Unplayed(q)
    <3>1. PICK r \in BagToSet(net) : q = [r EXCEPT !.step = Orphan]
      BY SetBag DEF Orphans
    <3>2. q.kind = r.kind /\ q.step = -1
      BY <1>1, <3>1 DEF Requests, Orphan
    <3> QED
      BY <1>1, <3>2
  <2>4. BagToSet(net') = BagToSet(Orphans) \cup {List} /\ Unplayed(List)
    BY <2>1, <2>2, AddBag DEF List, Request
  <2> QED
    BY <2>1, <2>3, <2>4 DEF NoShow
<1> QED
  BY <1>5, <1>6, <1>7

(* The show's next step comes when its last is answered and painted.       *)
LEMMA NextTold ==
  ASSUME IInv, Calm', During, Timeout
  PROVE  During'
<1>1. playing /\ current < Steps /\ current \in 1..Steps /\ timeouts # {}
  BY DEF Timeout, IInv, ShowOK, OneTimeout
<1>2. net = EmptyBag
  BY DEF Timeout, Rough, Calm
<1>3. BagToSet(EmptyBag) = {} /\ IsABag(EmptyBag) /\ NetOK
  BY SetBag DEF EmptyBag, IInv
<1>4. Posts = {} /\ ~Pending
  BY <1>2, <1>3 DEF Posts, Pending
<1>5. PICK on, live : NextStep(on, live)
  BY DEF Timeout
<1>6. PICK step \in 2..Steps : step = current + 1
  BY <1>1 DEF Steps
<1>7. Execute(step, on, live)
  BY <1>1, <1>5, <1>6 DEF NextStep
<1>8. /\ current' = step /\ net' = BagAdd(net, Script(step))
      /\ UNCHANGED <<selected, sleeping, server, options, reloadDue>>
  BY <1>6, <1>7 DEF Execute
<1>9. (current = 1 => step = 2) /\ (current > 1 => selected = New) /\ sleeping = 0
  <2>1. sleeping \in Nat
    BY DEF IInv, ShowOK
  <2> QED
    BY <1>1, <1>4, <1>6, <2>1 DEF During, Selection, Steps
<1>10. PICK x : x = Script(step)
  OBVIOUS
<1>11. step \in 3..6 => selected = New
  BY <1>1, <1>6, <1>9 DEF Steps
<1>12. x.kind \in PostKinds /\ x.answer = Waiting /\ OfStep(x)'
  <2>1. CASE step = 2
    BY <1>8, <1>10, <2>1 DEF Script, Request, PostKinds, OfStep, Orphan
  <2>2. CASE step = 3
    BY <1>8, <1>10, <1>11, <2>2 DEF Script, Send, Request, PostKinds, OfStep, Orphan, Target
  <2>3. CASE step = 4
    BY <1>8, <1>10, <1>11, <2>3 DEF Script, Send, Request, PostKinds, OfStep, Orphan, Target
  <2>4. CASE step = 5
    BY <1>8, <1>10, <1>11, <2>4 DEF Script, Confirm, Request, PostKinds, OfStep, Orphan
  <2>5. CASE step = 6
    BY <1>8, <1>10, <1>11, <2>5 DEF Script, Send, Request, PostKinds, OfStep, Orphan, Target
  <2> QED
    BY <2>1, <2>2, <2>3, <2>4, <2>5 DEF Steps
<1>13. RequestsOK' /\ Posts' # {} /\ Pending'
  BY <1>2, <1>3, <1>4, <1>8, <1>10, <1>12, PostAsked
<1>14. OldSettled' /\ NewSettled' = NewSettled /\ (\A n : NewWithin(n)' <=> NewWithin(n))
  BY <1>8, SameRows DEF During
<1>15. Progress'
  <2>1. Progress
    BY DEF During
  <2>2. current = 1 => NewWithin(0)
    BY <2>1 DEF Progress
  <2>3. current \in 2..4 => NewWithin(current - 1)
    BY <1>4, <2>1 DEF Progress
  <2>4. current = 5 => NewSettled
    BY <1>4, <2>1 DEF Progress
  <2>5. current' = 2 => NewWithin(0)'
    BY <1>6, <1>8, <1>1, <1>14, <2>2 DEF Steps
  <2>6. ASSUME current' \in 3..4 PROVE NewWithin(IF Pending THEN current - 2 ELSE current - 1)'
    <3>1. PICK n \in Nat : n = current - 1
      BY <1>1 DEF Steps
    <3>2. current \in 2..4 /\ current' - 2 = n
      BY <1>1, <1>6, <1>8, <2>6, <3>1 DEF Steps
    <3>3. NewWithin(n)'
      BY <1>14, <2>3, <3>1, <3>2
    <3> QED
      BY <1>13, <3>2, <3>3 DEF NewWithin, NewSettled
  <2>7. ASSUME current' = 2 PROVE NewWithin(IF Pending THEN current - 2 ELSE current - 1)'
    BY <1>13, <2>5, <2>7 DEF NewWithin, NewSettled
  <2>8. current' = 5 => NewWithin(3)'
    BY <1>6, <1>8, <1>1, <1>14, <2>3 DEF Steps
  <2>9. current' = 6 => NewSettled'
    BY <1>6, <1>8, <1>1, <1>14, <2>4 DEF Steps
  <2>10. current' \in 2..6 /\ (current' \in 2..4 => current' = 2 \/ current' \in 3..4)
    BY <1>8 DEF Steps
  <2> QED
    BY <1>13, <2>6, <2>7, <2>8, <2>9, <2>10 DEF Progress
<1>16. Selection'
  BY <1>1, <1>6, <1>8, <1>9, <1>13 DEF Selection, Steps
<1>17. options' = Workloads /\ ~reloadDue'
  BY <1>8 DEF During
<1> QED
  BY <1>13, <1>14, <1>15, <1>16, <1>17 DEF During

(* The first packet of the show leaves from W-OLD, which is selected.      *)
LEMMA FirstTold ==
  ASSUME IInv, During, Wake
  PROVE  During'
<1>1. /\ sleeping = 1 /\ current = 1 /\ timeouts = {} /\ Posts = {} /\ selected = Old
      /\ OldSettled /\ options = Workloads /\ ~reloadDue /\ RequestsOK /\ Progress /\ NetOK
  BY DEF Wake, During, Selection, IInv
<1>2. /\ sleeping' = 0 /\ net' = BagAdd(net, Script(1))
      /\ UNCHANGED <<server, current, selected, options, reloadDue>>
  BY <1>1 DEF Wake, page
<1>3. PICK x : x = Script(1)
  OBVIOUS
<1>4. x.kind \in PostKinds /\ x.answer = Waiting /\ OfStep(x)'
  BY <1>1, <1>2, <1>3 DEF Script, Send, Request, PostKinds, OfStep, Orphan, Target
<1>5. \A r \in BagToSet(net) : OfStep(r)'
  BY <1>1, <1>2 DEF RequestsOK, OfStep, Target
<1>6. RequestsOK' /\ Posts' # {}
  BY <1>1, <1>2, <1>3, <1>4, <1>5, PostAsked
<1>7. Progress'
  BY <1>1, <1>2 DEF Progress, NewWithin, NewSettled
<1>8. OldSettled' /\ Selection' /\ options' = Workloads /\ ~reloadDue'
  BY <1>1, <1>2 DEF OldSettled, Selection
<1> QED
  BY <1>6, <1>7, <1>8 DEF During

(* The tampering answered, W-NEW is selected.                              *)
LEMMA TamperTold ==
  ASSUME IInv, Calm', During, Tampered
  PROVE  During'
<1>1. PICK r \in BagToSet(net) :
        /\ r.kind = "tamper" /\ selected' = Choose(New) /\ Rough(r.answer = Waiting)
        /\ net' = BagAdd(BagAdd(BagRemove(net, r), Get(selected')), Get(New))
  BY DEF Tampered
<1>2. UNCHANGED <<server, options, reloadDue, current, sleeping>>
  BY DEF Tampered
<1>3. /\ NetOK /\ OldSettled /\ options = Workloads /\ ~reloadDue /\ RequestsOK
      /\ Selection /\ Progress
  BY DEF IInv, During
<1>4. r.answer # Waiting
  BY <1>1 DEF Rough, Calm
<1>5. r \in Posts /\ current = 2 /\ Posts = {r} /\ net[r] = 1 /\ IsABag(net)
  BY <1>1, <1>3 DEF RequestsOK, OfStep, Posts, PostKinds, NetOK
<1>6. selected' = New
  BY <1>1, <1>3 DEF Choose, Workloads
<1>7. PICK g : g = Get(New) /\ g.kind = "get" /\ g.step # Orphan
  <2>1. Get(New).kind = "get" /\ Get(New).step # Orphan
    BY DEF Get, Request, Orphan
  <2> QED
    BY <2>1, Zenon
<1> DEFINE B == BagRemove(net, r)
           C == BagAdd(B, g)
<1>8. IsABag(B) /\ BagToSet(B) = BagToSet(net) \ {r}
  BY <1>5, RemoveBag, RemoveCount
<1>9. IsABag(C) /\ BagToSet(C) = BagToSet(B) \cup {g}
  BY <1>8, AddBag
<1>10. net' = BagAdd(C, g)
  BY <1>1, <1>6, <1>7
<1>11. BagToSet(net') = (BagToSet(net) \ {r}) \cup {g}
  BY <1>8, <1>9, <1>10, AddBag
<1>12. Posts' = {}
  BY <1>5, <1>7, <1>11 DEF Posts, PostKinds
<1>13. \A s \in BagToSet(net') : OfStep(s)'
  <2>1. ASSUME NEW s \in BagToSet(net) PROVE OfStep(s)'
    BY <1>2, <1>3 DEF RequestsOK, OfStep, Target
  <2> QED
    BY <1>7, <1>11, <2>1 DEF OfStep, PostKinds
<1>14. RequestsOK'
  BY <1>12, <1>13 DEF RequestsOK
<1>15. ~Pending /\ ~Pending'
  BY <1>4, <1>5, <1>12 DEF Pending
<1>16. Progress'
  BY <1>2, <1>3, <1>15, SameProgress
<1>17. Selection'
  <2>1. sleeping = 0
    BY <1>3, <1>5 DEF Selection, IInv, ShowOK
  <2> QED
    BY <1>2, <1>5, <1>6, <2>1 DEF Selection
<1> QED
  BY <1>2, <1>3, <1>14, <1>16, <1>17 DEF During, OldSettled

(* The answers are painted, and the post that caused them is forgotten.    *)
LEMMA PaintTold ==
  ASSUME IInv, During, Arrival
  PROVE  During'
<1>1. /\ NetOK /\ OldSettled /\ options = Workloads /\ ~reloadDue /\ RequestsOK
      /\ Selection /\ Progress /\ current \in 1..Steps
  BY DEF IInv, During, ShowOK
<1>2. UNCHANGED <<server, current, timeouts, sleeping>>
  BY DEF Arrival, Deliver, controls
<1>3. PICK r \in BagToSet(net) :
        Paint(r) \/ Refresh(r) \/ ShowReset(r) \/ FillSelector(r) \/ Forget(r)
  BY DEF Arrival, Deliver
<1>4. OfStep(r)
  BY <1>1 DEF RequestsOK
<1>5. Paint(r) \/ Refresh(r)
  BY <1>3, <1>4 DEF OfStep, PostKinds, ShowReset, FillSelector, Forget, Answers
<1>6. UNCHANGED <<options, selected, reloadDue>>
  BY <1>5 DEF Paint, Refresh, page
<1>7. CASE Paint(r)
  <2>1. RequestsOK' /\ Posts' = Posts /\ (Pending' <=> Pending)
    BY <1>1, <1>2, <1>7, PaintGone DEF Paint, Answers, Receive
  <2>2. Progress'
    BY <1>1, <1>2, <2>1, SameProgress
  <2>3. Selection'
    BY <1>1, <1>2, <1>6, <2>1 DEF Selection
  <2> QED
    BY <1>1, <1>2, <1>6, <2>1, <2>2, <2>3 DEF During, OldSettled
<1>8. CASE Refresh(r)
  <2>1. /\ r.kind \in {"send", "confirm"} /\ r.answer # Waiting
        /\ net' = BagAdd(BagRemove(net, r), Get(r.w))
    BY <1>8 DEF Refresh, Answers, ReceiveThenGet
  <2>2. r \in Posts /\ Posts = {r} /\ current # 2
    BY <1>1, <1>4, <2>1 DEF Posts, PostKinds, RequestsOK, OfStep
  <2>3. PICK x : x = Get(r.w) /\ x.kind = "get" /\ x.step # Orphan
    <3>1. Get(r.w).kind = "get" /\ Get(r.w).step # Orphan
      BY DEF Get, Request, Orphan
    <3> QED
      BY <3>1, Zenon
  <2>4. OfStep(x)
    BY <2>3 DEF OfStep, PostKinds
  <2>5. RequestsOK' /\ ~Pending'
    BY <1>1, <1>2, <2>1, <2>2, <2>3, <2>4, PostReplaced
  <2>6. ~Pending
    BY <2>1, <2>2 DEF Pending
  <2>7. Progress'
    BY <1>1, <1>2, <2>5, <2>6, SameProgress
  <2>8. sleeping' = 0
    BY <1>1, <1>2, <2>2 DEF Selection, IInv, ShowOK
  <2>9. Selection'
    BY <1>1, <1>2, <1>6, <2>2, <2>8 DEF Selection
  <2> QED
    BY <1>1, <1>2, <1>6, <2>5, <2>7, <2>9 DEF During, OldSettled
<1> QED
  BY <1>5, <1>7, <1>8

(* What the show's post does to the two rows, and is answered.             *)
LEMMA AnswerTold ==
  ASSUME IInv, Calm', During, NEW r \in Posts, r.answer = Waiting,
         HandleSend(r) \/ HandleConfirm(r) \/ HandleTamper(r)
  PROVE  /\ OldSettled'
         /\ current = 1 => NewWithin(0)'
         /\ \A n : current \in 2..4 /\ n = current - 1 => NewWithin(n)'
         /\ current \in 5..6 => NewSettled'
         /\ \E is : is # "waiting" /\ Handle(r, Answered(r, is)) /\ OfStep(Answered(r, is))
<1>1. /\ OfStep(r) /\ r \in Requests /\ r \in BagToSet(net)
      /\ OldSettled /\ Progress /\ Pending /\ current \in 1..Steps
  BY DEF During, RequestsOK, Posts, Pending, IInv, NetOK, AnswerOK, ShowOK
<1>2. /\ Old \in Ids /\ New \in Ids /\ Old # New
      /\ server \in [Ids -> Row] /\ server[Old] \in Row /\ server[New] \in Row
  BY VisualizerAssumption DEF IInv, ServerOK, Ids, Workloads
<1>3. ProbeLimit \in Nat /\ ProbeLimit >= 3
  BY VisualizerAssumption DEF Calm
<1>4. ASSUME NEW is PROVE /\ Answered(r, is).kind = r.kind /\ Answered(r, is).step = r.step
                          /\ Answered(r, is).w = r.w /\ Answered(r, is).dest = r.dest
                          /\ Answered(r, is).answer.is = is
  BY <1>1 DEF Answered, Requests
<1>5. ASSUME NEW is, is # "waiting", Handle(r, Answered(r, is)),
             r.kind = "send" => is = Told[current]
      PROVE  \E a : a # "waiting" /\ Handle(r, Answered(r, a)) /\ OfStep(Answered(r, a))
  <2>1. OfStep(Answered(r, is))
    BY <1>1, <1>4, <1>5 DEF OfStep
  <2> QED
    BY <1>5, <2>1
<1>6. ASSUME UNCHANGED server, current = 1 \/ (current \in 5..6 /\ NewSettled)
      PROVE  /\ OldSettled' /\ (current = 1 => NewWithin(0)')
             /\ (current \in 5..6 => NewSettled')
  BY <1>1, <1>6 DEF Progress, OldSettled, NewSettled, NewWithin
<1>7. CASE HandleSend(r)
  <2>1. /\ current \in {1, 3, 4, 6} /\ r.dest = Target
        /\ r.w = IF current = 1 THEN Old ELSE New
    BY <1>1, <1>7 DEF HandleSend, Asks, OfStep, PostKinds
  <2>2. /\ server' = [server EXCEPT ![r.w] = Probed(server[r.w])]
        /\ Handle(r, Answered(r, Decision(server[r.w], r.dest)))
    BY <1>7 DEF HandleSend
  <2>3. CASE current = 1
    <3>1. Probed(server[Old]) = server[Old]
      BY <1>1, <1>2, ProbedOK DEF OldSettled
    <3>2. UNCHANGED server
      BY <1>2, <2>1, <2>2, <2>3, <3>1
    <3>3. Decision(server[r.w], r.dest) = "ALLOW"
      BY <1>1, <2>1, <2>3 DEF Decision, OldSettled, Allows, Target
    <3>4. Told[current] = "ALLOW"
      BY <2>3 DEF Told
    <3> QED
      BY <1>5, <1>6, <2>2, <2>3, <3>2, <3>3, <3>4
  <2>4. CASE current = 6
    <3>1. NewSettled
      BY <1>1, <2>4 DEF Progress
    <3>2. Probed(server[New]) = server[New]
      BY <1>2, <3>1, ProbedOK DEF NewSettled
    <3>3. UNCHANGED server
      BY <1>2, <2>1, <2>2, <2>4, <3>2
    <3>4. Decision(server[r.w], r.dest) = "ALLOW"
      BY <2>1, <2>4, <3>1 DEF Decision, NewSettled, Allows, Target
    <3>5. Told[current] = "ALLOW"
      BY <2>4 DEF Told
    <3> QED
      BY <1>5, <1>6, <2>2, <2>4, <3>1, <3>3, <3>4, <3>5
  <2>5. CASE current \in {3, 4}
    <3>1. r.w = New /\ server'[Old] = server[Old] /\ server'[New] = Probed(server[New])
      BY <1>2, <2>1, <2>2, <2>5
    <3>2. NewWithin(current - 2)
      BY <1>1, <2>5 DEF Progress
    <3>3. Decision(server[New], r.dest) = "DENY"
      BY <2>1, <2>5, <3>2 DEF Decision, NewWithin, NewSettled, Allows, Target
    <3>4. Told[current] = "DENY"
      BY <2>5 DEF Told
    <3>5. OldSettled'
      BY <1>1, <3>1 DEF OldSettled
    <3>6. ASSUME NEW n, n = current - 1 PROVE NewWithin(n)'
      <4>1. CASE NewSettled
        <5>1. Probed(server[New]) = server[New]
          BY <1>2, <4>1, ProbedOK DEF NewSettled
        <5> QED
          BY <3>1, <4>1, <5>1 DEF NewWithin, NewSettled
      <4>2. CASE server[New].status = "AMBIGUOUS" /\ server[New].probes <= current - 2
        <5>1. server[New].probes \in Nat /\ server[New].probes < ProbeLimit
          BY <1>2, <1>3, <2>5, <4>2 DEF Row
        <5>2. /\ Probed(server[New]).status = "AMBIGUOUS"
              /\ Probed(server[New]).probes = server[New].probes + 1
          BY <1>2, <1>3, <4>2, <5>1 DEF Probed, Row
        <5> QED
          BY <2>5, <3>1, <3>6, <4>2, <5>1, <5>2 DEF NewWithin
      <4> QED
        BY <3>2, <4>1, <4>2 DEF NewWithin
    <3>7. \E a : a # "waiting" /\ Handle(r, Answered(r, a)) /\ OfStep(Answered(r, a))
      BY <1>5, <2>2, <3>1, <3>3, <3>4
    <3> QED
      BY <2>5, <3>5, <3>6, <3>7
  <2> QED
    BY <2>1, <2>3, <2>4, <2>5
<1>8. CASE HandleConfirm(r)
  <2>1. current = 5 /\ r.w = New /\ r.kind = "confirm"
    BY <1>1, <1>8 DEF HandleConfirm, Asks, OfStep, PostKinds
  <2>2. Confirmable(server[New])
    BY <1>1, <2>1 DEF Progress, NewWithin, NewSettled, Confirmable
  <2>3. /\ server'[Old] = server[Old]
        /\ server'[New].status = "CONFIRMED" /\ server'[New].ident = "student"
    BY <1>2, <1>8, <2>1, <2>2 DEF HandleConfirm, Row
  <2>4. Handle(r, Answered(r, "OK"))
    BY <1>8, <2>1, <2>2 DEF HandleConfirm
  <2> QED
    BY <1>1, <1>5, <2>1, <2>3, <2>4 DEF OldSettled, NewSettled
<1>9. CASE HandleTamper(r)
  <2>1. current = 2 /\ r.w = New /\ r.kind = "tamper"
    BY <1>1, <1>9 DEF HandleTamper, Asks, OfStep, PostKinds
  <2>2. NewWithin(0) /\ server[New].status # "ABSENT" /\ server[New].probes \in Nat
    BY <1>1, <1>2, <2>1 DEF Progress, NewWithin, NewSettled, Row
  <2>3. /\ server'[Old] = server[Old] /\ server'[New].status = server[New].status
        /\ server'[New].ident = server[New].ident
        /\ server'[New].probes = server[New].probes + 1
    <3>1. server' = [server EXCEPT ![New] = Bypassed(server[New])]
      BY <1>9, <2>1, <2>2 DEF HandleTamper
    <3>2. server[New] \in Row
      BY <1>2
    <3> QED
      BY <1>2, <3>1, <3>2, BypassedOK
  <2>4. Handle(r, Answered(r, "OK"))
    BY <1>9, <2>1, <2>2 DEF HandleTamper
  <2>5. NewWithin(1)'
    BY <2>2, <2>3 DEF NewWithin, NewSettled
  <2> QED
    BY <1>1, <1>5, <2>1, <2>3, <2>4, <2>5 DEF OldSettled
<1> QED
  BY <1>7, <1>8, <1>9

LEMMA ServerTold ==
  ASSUME IInv, Calm', During, Answer
  PROVE  During'
<1>1. /\ NetOK /\ OldSettled /\ options = Workloads /\ ~reloadDue /\ RequestsOK
      /\ Selection /\ Progress /\ current \in 1..Steps
  BY DEF IInv, During, ShowOK
<1>2. UNCHANGED <<options, selected, reloadDue, current, timeouts, sleeping>>
  BY DEF Answer, Serve, controls, page
<1>3. PICK r \in BagToSet(net) :
        \/ HandleSend(r) \/ HandleConfirm(r) \/ HandleTamper(r)
        \/ HandleReset(r) \/ HandleGet(r) \/ HandleList(r)
  BY DEF Answer, Serve
<1>4. OfStep(r) /\ r \in Requests
  BY <1>1 DEF RequestsOK, NetOK, AnswerOK
<1>5. ~HandleReset(r) /\ ~HandleList(r)
  BY <1>4 DEF HandleReset, HandleList, Asks, OfStep, PostKinds
<1>6. CASE HandleGet(r)
  <2>1. PICK x : x = [r EXCEPT !.answer = [is |-> server[r.w].status,
                       ident |-> server[r.w].ident, born |-> server[r.w].born]]
    OBVIOUS
  <2>2. r.kind = "get" /\ x.kind = "get" /\ x.step # Orphan
        /\ net' = BagAdd(BagRemove(net, r), x) /\ UNCHANGED server
    BY <1>4, <1>6, <2>1 DEF HandleGet, Asks, Handle, Requests, OfStep
  <2>3. RequestsOK' /\ Posts' = Posts /\ (Pending' <=> Pending)
    BY <1>1, <1>2, <2>2, PaintReplaced
  <2>4. Progress'
    BY <1>1, <1>2, <2>2, <2>3, SameProgress
  <2>5. Selection'
    BY <1>1, <1>2, <2>3 DEF Selection
  <2> QED
    BY <1>1, <1>2, <2>2, <2>3, <2>4, <2>5 DEF During, OldSettled
<1>7. CASE HandleSend(r) \/ HandleConfirm(r) \/ HandleTamper(r)
  <2>1. r \in Posts /\ r.answer = Waiting
    BY <1>7 DEF HandleSend, HandleConfirm, HandleTamper, Asks, Posts, PostKinds
  <2>2. /\ OldSettled'
        /\ current = 1 => NewWithin(0)'
        /\ \A n : current \in 2..4 /\ n = current - 1 => NewWithin(n)'
        /\ current \in 5..6 => NewSettled'
        /\ \E is : is # "waiting" /\ Handle(r, Answered(r, is)) /\ OfStep(Answered(r, is))
    BY <1>7, <2>1, AnswerTold
  <2>3. PICK is, x : is # "waiting" /\ Handle(r, x) /\ OfStep(x) /\ x = Answered(r, is)
    BY <2>2
  <2>4. x.kind \in PostKinds /\ net' = BagAdd(BagRemove(net, r), x)
    BY <1>4, <2>1, <2>3 DEF Handle, Answered, Requests, Posts
  <2>5. x.answer # Waiting
    <3>1. x.answer.is = is
      BY <1>4, <2>3 DEF Answered, Requests
    <3> QED
      BY <2>3, <3>1 DEF Waiting
  <2>6. RequestsOK' /\ ~Pending' /\ Posts' # {}
    BY <1>1, <1>2, <2>1, <2>3, <2>4, <2>5, PostReplaced
  <2>7. Progress'
    <3>1. ASSUME current' \in 2..4 PROVE NewWithin(IF Pending THEN current - 2 ELSE current - 1)'
      <4>1. PICK n \in Nat : n = current - 1
        BY <1>2, <3>1
      <4>2. NewWithin(n)' /\ n = current' - 1
        BY <1>2, <2>2, <3>1, <4>1
      <4> QED
        BY <2>6, <4>2 DEF NewWithin, NewSettled
    <3>2. (current = 1 => NewWithin(0)') /\ (current \in 5..6 => NewSettled') /\ current' = current
      BY <1>2, <2>2
    <3>3. current = 5 => NewWithin(3)'
      BY <3>2 DEF NewWithin
    <3> QED
      BY <3>1, <3>2, <3>3 DEF Progress
  <2>8. Selection'
    BY <1>1, <1>2, <2>1, <2>6 DEF Selection
  <2> QED
    BY <1>1, <1>2, <2>2, <2>6, <2>7, <2>8 DEF During
<1> QED
  BY <1>3, <1>5, <1>6, <1>7

(* A show once disturbed, or on other rows, stays so.                      *)
LEMMA StillCalm ==
  ASSUME IInv, [Next]_vars, Calm'
  PROVE  Calm
<1>1. rough \in BOOLEAN /\ Old \in Ids /\ New \in Ids
  BY DEF IInv, ShowOK, Ids, Workloads
<1>2. ~rough
  BY <1>1 DEF Calm, Next, vars, controls, Rough, Launch, NextClicked, Prev, Pause, Resume, Exit,
         Timeout, Wake, Tampered, Reloaded, Work, Others, Answer, Arrival, Lost, Settled
<1>3. NoneNew
  <2>1. CASE Answer
    BY <2>1, ServeOK DEF Answer
  <2>2. CASE Launch \/ NextClicked \/ Prev \/ Resume
    <3>1. UNCHANGED server
      BY <2>2 DEF Launch, NextClicked, Prev, Resume, NextStep, Execute, served
    <3> QED
      BY <3>1, Unmoved DEF IInv
  <2>3. CASE Timeout
    <3>1. UNCHANGED server
      BY <2>3 DEF Timeout, NextStep, Execute
    <3> QED
      BY <3>1, Unmoved DEF IInv
  <2>4. CASE Pause \/ Exit \/ Wake \/ Tampered \/ Reloaded \/ Work
    <3>1. UNCHANGED server
      BY <2>4 DEF Pause, Exit, Wake, Tampered, Reloaded, Reload, Work, VisUser, Select,
                  ClickSend, ClickConfirm, ClickReset, served
    <3> QED
      BY <3>1, Unmoved DEF IInv
  <2>5. CASE Arrival \/ Lost \/ Settled \/ UNCHANGED vars
    <3>1. UNCHANGED server
      BY <2>5 DEF Arrival, Lost, Settled, Deliver, Fail, vars, visVars, served
    <3> QED
      BY <3>1, Unmoved DEF IInv
  <2>6. ~Others
    BY DEF Others, Calm
  <2> QED
    BY <2>1, <2>2, <2>3, <2>4, <2>5, <2>6 DEF Next
<1>4. Existing = Workloads
  <2>1. \A w \in Workloads : server'[w].status # "ABSENT"
    BY DEF Calm, Existing
  <2> QED
    BY <1>1, <1>3, <2>1 DEF Existing, Workloads, NoneNew
<1> QED
  BY <1>2, <1>4 DEF Calm

LEMMA StoryGoesOn ==
  ASSUME IInv, StoryInv, [Next]_vars
  PROVE  StoryInv'
<1> SUFFICES ASSUME Calm' PROVE (clicks' = 0 => Before') /\ (clicks' = 1 => NoShow' \/ During')
  BY DEF StoryInv
<1>1. Calm /\ clicks \in Nat
  BY StillCalm DEF IInv, ShowOK
<1>2. (clicks = 0 => Before) /\ (clicks = 1 => NoShow \/ During)
  BY <1>1 DEF StoryInv
<1>3. ASSUME Click, clicks = 0 => NoShow' \/ During'
      PROVE  (clicks' = 0 => Before') /\ (clicks' = 1 => NoShow' \/ During')
  BY <1>1, <1>3 DEF Click
<1>4. ASSUME UNCHANGED clicks, clicks = 0 => Before', NoShow => NoShow' \/ During', During => NoShow' \/ During'
      PROVE  (clicks' = 0 => Before') /\ (clicks' = 1 => NoShow' \/ During')
  BY <1>2, <1>4
<1>5. CASE Launch
  BY <1>2, <1>3, <1>5, ShowLaunched DEF Launch
<1>6. CASE Work
  <2>1. Click
    BY <1>6 DEF Work, VisUser, Select, ClickSend, ClickConfirm, ClickReset
  <2> QED
    BY <1>2, <1>3, <1>6, <2>1, OtherClick
<1>7. CASE NextClicked \/ Prev \/ Pause \/ Resume \/ Exit
  <2>1. Click /\ hud
    BY <1>7 DEF NextClicked, Prev, Pause, Resume, Exit
  <2>2. clicks # 0
    BY <1>2, <2>1 DEF Before
  <2> QED
    BY <1>3, <2>1, <2>2
<1>8. CASE Timeout
  <2>1. UNCHANGED clicks /\ timeouts # {}
    BY <1>8 DEF Timeout
  <2>2. ~(clicks = 0) /\ ~NoShow
    BY <1>2, <2>1 DEF Before, NoShow
  <2> QED
    BY <1>4, <1>8, <2>1, <2>2, NextTold
<1>9. CASE Wake
  <2>1. UNCHANGED clicks /\ sleeping # 0
    BY <1>9 DEF Wake
  <2>2. ~(clicks = 0) /\ ~NoShow
    BY <1>2, <2>1 DEF Before, NoShow
  <2> QED
    BY <1>4, <1>9, <2>1, <2>2, FirstTold
<1>10. CASE Tampered
  <2>1. UNCHANGED clicks /\ \E r \in BagToSet(net) : r.kind = "tamper"
    BY <1>10 DEF Tampered
  <2>2. ~(clicks = 0) /\ ~NoShow
    BY <1>2, <2>1 DEF Before, NoShow
  <2> QED
    BY <1>4, <1>10, <2>1, <2>2, TamperTold
<1>11. CASE Reloaded
  <2>1. UNCHANGED clicks /\ reloadDue
    BY <1>11 DEF Reloaded, Reload
  <2>2. ~(clicks = 0) /\ ~During
    BY <1>2, <2>1 DEF Before, During
  <2> QED
    BY <1>4, <1>11, <2>1, <2>2, StillNoShow
<1>12. CASE Answer
  <2>1. UNCHANGED clicks
    BY <1>12 DEF Answer, Serve
  <2> QED
    BY <1>2, <1>4, <1>12, <2>1, NobodyClicked, StillNoShow, ServerTold
<1>13. CASE Arrival
  <2>1. UNCHANGED clicks
    BY <1>13 DEF Arrival, Deliver
  <2> QED
    BY <1>2, <1>4, <1>13, <2>1, NobodyClicked, StillNoShow, PaintTold
<1>14. CASE Lost \/ Others
  BY <1>14 DEF Lost, Others, Calm
<1>15. CASE Settled \/ UNCHANGED vars
  <2>1. UNCHANGED vars
    BY <1>15 DEF Settled
  <2>2. UNCHANGED <<server, net, options, selected, reloadDue, clicks, current, timeouts, sleeping, hud>>
    BY <2>1 DEF vars, visVars, served, page, controls
  <2>3. Before' = Before /\ NoShow' = NoShow
    BY <2>2 DEF Before, NoShow, OldSettled, NewWithin, NewSettled
  <2>4. During => During'
    <3>1. Posts' = Posts /\ OldSettled' = OldSettled
      BY <2>2 DEF Posts, OldSettled
    <3>2. RequestsOK => RequestsOK'
      BY <2>2, <3>1 DEF RequestsOK, OfStep, Target
    <3>3. Progress => Progress'
      BY <2>2, <3>1, SameProgress DEF Pending
    <3>4. Selection => Selection'
      BY <2>2, <3>1 DEF Selection
    <3> QED
      BY <2>2, <3>1, <3>2, <3>3, <3>4 DEF During
  <2> QED
    BY <1>2, <1>4, <2>2, <2>3, <2>4
<1> QED
  BY <1>5, <1>6, <1>7, <1>8, <1>9, <1>10, <1>11, <1>12, <1>13, <1>14, <1>15 DEF Next

(* The showcase tells the truth: whatever order its paints arrive in and   *)
(* however the posts are answered, on the rows it is meant for each packet *)
(* is decided the way the text of its step says, as long as one click      *)
(* started it and every answer beats the next timeout                      *)
(* (showcaseExecuteStep, SHOWCASE_STEPS).                                  *)
THEOREM StoryIsTold == Spec => []StoryTold
  BY StoryBegins, StoryGoesOn, StoryHolds, ShowcaseInvariant, PTL DEF Spec

=============================================================================

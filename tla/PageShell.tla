------------------------------ MODULE PageShell ------------------------------
(***************************************************************************)
(* What the pages of the dashboard share: the scripts a page loads, the    *)
(* calls it has under way, the selector of a workload, and the server the  *)
(* calls go to.  The server takes one step per call; its interleaving      *)
(* inside is that of module SegLabel.  Calls are answered in any order,    *)
(* and any of them may fail: the catch of its handler only logs.           *)
(***************************************************************************)
EXTENDS Integers, FiniteSets, Sequences, BagsExt, Bags

CONSTANTS
  Workloads,
  Blank,         \* value of a selector without options
  Rules,         \* policy rules
  MaxBreaches,   \* bound on requests allowed inside a window
  MaxActions     \* bound on what users do

ASSUME ShellAssumption == /\ Blank \notin Workloads /\ IsFiniteSet(Workloads)
                          /\ MaxBreaches \in Nat
                          /\ MaxActions \in Nat

VARIABLES
  page,          \* the page open in the tab
  scripts,       \* its scripts not evaluated yet
  lexical,       \* names the evaluated ones declared with let and const
  running,       \* app.js is among the evaluated ones
  options, chosen,     \* the page's selector of workloads
  fleet, trail, rules, \* rows of the server
  calls,         \* bag of calls, waiting or answered
  astray,        \* bag of failed calls that may still reach the server
  actions

loading == <<page, scripts, lexical, running>>
selector == <<options, chosen>>
records == <<fleet, trail, rules>>
server == <<records, astray>>
shell == <<loading, selector, server, calls, actions>>

Pages == {"index", "workloads", "events", "simulator", "verification",
          "policies", "audit"}

Statuses == {"ABSENT", "PENDING", "CONFIRMED"}
EventKinds == {"STARTUP", "COLLISION", "CONFIRMED"}

Row == [status : Statuses, breaches : 0..MaxBreaches]
Gone == [status |-> "ABSENT", breaches |-> 0]

Waiting == [is |-> "waiting", found |-> {}, count |-> 0]
Call(kind, arg, nr) == [kind |-> kind, arg |-> arg, nr |-> nr, answer |-> Waiting]

ShellTypeOK ==
  /\ page \in Pages
  /\ scripts \in {<<>>, <<"app">>, <<"inline", "app">>}
  /\ running \in BOOLEAN
  /\ options \subseteq Workloads /\ chosen \in options \cup {Blank}
  /\ fleet \in [Workloads -> Row]
  /\ trail \subseteq EventKinds
  /\ rules \subseteq Rules
  /\ IsABag(calls) /\ IsABag(astray)
  /\ actions \in 0..MaxActions

ShellInit ==
  /\ page \in Pages
  /\ scripts = <<"inline", "app">> /\ lexical = {} /\ running = FALSE
  /\ options = {} /\ chosen = Blank
  /\ \E s \in {"PENDING", "CONFIRMED"} :
       fleet = [w \in Workloads |-> [status |-> s, breaches |-> 0]]
  /\ trail = {"STARTUP"}
  /\ rules = Rules
  /\ calls = EmptyBag /\ astray = EmptyBag
  /\ actions = 0
-----------------------------------------------------------------------------
(* Loading.  A script whose let or const names are declared already throws *)
(* before it runs: nothing of it is evaluated.                             *)

InlineNames == CASE page = "workloads" -> {"currentFleetFilter", "currentFleetView"}
                 [] page = "audit"     -> {"currentAuditFilter"}
                 [] OTHER              -> {}

AppNames == {"currentFleetFilter", "currentEventFilter", "currentAuditFilter"}

Names(script) == IF script = "inline" THEN InlineNames ELSE AppNames

(* The calls initApp makes on each page; the index page fills its selector *)
(* twice, of which one is kept.                                            *)
FirstCalls ==
  SetToBag(CASE page = "index"    -> {Call("stats", Blank, 0), Call("fleet", Blank, 0)}
             [] page = "events"   -> {Call("events", Blank, 0)}
             [] page = "policies" -> {Call("policies", Blank, 1)}
             [] page \in {"simulator", "verification", "workloads"}
                                  -> {Call("fleet", Blank, 0)}
             [] page = "audit"    -> {Call("audit", Blank, 0)})

(* One script is evaluated, or skipped; the last one sets the page up. *)
Evaluate ==
  /\ scripts # <<>>
  /\ scripts' = Tail(scripts)
  /\ IF Names(Head(scripts)) \cap lexical # {}
       THEN UNCHANGED <<lexical, running, calls>>
       ELSE /\ lexical' = lexical \cup Names(Head(scripts))
            /\ running' = (Head(scripts) = "app")
            /\ calls' = IF running' THEN FirstCalls ELSE calls
  /\ UNCHANGED <<page, selector, server, actions>>
-----------------------------------------------------------------------------
(* Calls. *)

Live(p) == running /\ page = p

Act == actions < MaxActions /\ actions' = actions + 1

Send(c) == calls' = BagAdd(calls, c)

Answers(c, kind) == c.kind = kind /\ c.answer # Waiting
Received(c) == BagRemove(calls, c)

InFlight(kind) == {c \in BagToSet(calls) : c.kind = kind}

Existing == {w \in Workloads : fleet[w].status # "ABSENT"}

Reply(is) == [Waiting EXCEPT !.is = is]
Listing(rows) == [Reply("ok") EXCEPT !.found = rows]
Counted(is, n) == [Reply(is) EXCEPT !.count = n]

Pending == {w \in Workloads : fleet[w].status = "PENDING"}

(* Each decision at a destination the workload may reach once confirmed;   *)
(* each verdict from the requests let through inside the window.           *)
Answer(c) ==
  CASE c.kind = "fleet"    -> Listing(Existing)
    [] c.kind = "events"   -> Listing(trail)
    [] c.kind = "policies" -> Listing(rules)
    [] c.kind = "stats"    -> Counted("ok", Cardinality(Pending))
    [] c.kind = "send"     -> Reply(CASE fleet[c.arg].status = "CONFIRMED" -> "ALLOW"
                                      [] fleet[c.arg].status = "PENDING"   -> "DENY"
                                      [] OTHER                             -> "ERROR")
    [] c.kind = "verify"   -> IF c.arg \notin Existing THEN Reply("ERROR")
                              ELSE Counted(IF fleet[c.arg].breaches > 0 THEN "FAIL" ELSE "PASS",
                                           fleet[c.arg].breaches)
    [] OTHER               -> Reply("ok")

Served(row) == [row EXCEPT !.breaches = IF @ < MaxBreaches THEN @ + 1 ELSE @]

Effect(c) ==
  /\ fleet' = CASE c.kind = "reset" -> [w \in Workloads |-> Gone]
                [] c.kind = "tamper" /\ c.arg \in Existing
                                    -> [fleet EXCEPT ![c.arg] = Served(@)]
                [] OTHER            -> fleet
  /\ trail' = IF c.kind = "reset" THEN {} ELSE trail
  /\ rules' = CASE c.kind = "reset"  -> Rules
                [] c.kind = "delete" -> rules \ {c.arg}
                [] c.kind = "add"    -> rules \cup {c.arg}
                [] OTHER             -> rules

Serve ==
  /\ \E c \in BagToSet(calls) :
       /\ c.answer = Waiting
       /\ calls' = BagAdd(Received(c), [c EXCEPT !.answer = Answer(c)])
       /\ Effect(c)
  /\ UNCHANGED <<loading, selector, astray, actions>>

Posts == {"reset", "tamper", "add", "delete"}

(* The fetch throws, or what came back is no JSON.  A request the server   *)
(* has not seen by then may never reach it, or reach it later.             *)
Fails(c) ==
  /\ calls' = Received(c)
  /\ astray' \in {astray} \cup (IF c.answer = Waiting /\ c.kind \in Posts
                                 THEN {BagAdd(astray, c)} ELSE {})
  /\ UNCHANGED records

ServeAstray ==
  /\ \E c \in BagToSet(astray) : astray' = BagRemove(astray, c) /\ Effect(c)
  /\ UNCHANGED <<loading, selector, calls, actions>>

(* The failures after which the page shows what it showed before. *)
CallFails ==
  /\ \E c \in BagToSet(calls) :
       c.kind \in {"fleet", "events", "stats", "audit", "reset", "tamper"} /\ Fails(c)
  /\ UNCHANGED <<loading, selector, actions>>

(* Other operators, other tabs and demos change what the open page reads. *)
Elsewhere ==
  /\ Act
  /\ \/ /\ page \in {"index", "simulator", "verification"}
        /\ \E w \in Workloads, s \in Statuses :
             fleet' = [fleet EXCEPT ![w] = IF s = "ABSENT" THEN Gone
                                           ELSE [@ EXCEPT !.status = s]]
        /\ UNCHANGED <<trail, rules>>
     \/ /\ page = "events"
        /\ trail' \in {{}} \cup {trail \cup {e} : e \in EventKinds}
        /\ UNCHANGED <<fleet, rules>>
     \/ /\ page = "policies"
        /\ rules' \in {Rules} \cup {rules \cup {r} : r \in Rules} \cup {rules \ {r} : r \in Rules}
        /\ UNCHANGED <<fleet, trail>>
  /\ UNCHANGED <<loading, selector, calls, astray>>
-----------------------------------------------------------------------------
(* The reset button of every page.  After the answer the handler names an  *)
(* undeclared variable and ends in its catch: no message, no reload.       *)

ClickReset == /\ running /\ Act
              /\ Send(Call("reset", Blank, 0))
              /\ UNCHANGED <<loading, selector, server>>

AfterReset == /\ \E c \in BagToSet(calls) :
                   Answers(c, "reset") /\ calls' = Received(c)
              /\ UNCHANGED <<loading, selector, server, actions>>

(* innerHTML of a select: its options replaced, the first one selected. *)
Populate(found) ==
  /\ options' = found
  /\ chosen' = IF found = {} THEN Blank ELSE CHOOSE w \in found : TRUE

Choose(w) == /\ Act /\ w \in options
             /\ chosen' = w
             /\ UNCHANGED options
=============================================================================

---------------------------- MODULE SimulatorPage ----------------------------
(***************************************************************************)
(* The traffic simulator, on its page and on the index page: a request of  *)
(* the chosen workload, its decision in the result box and, on its own     *)
(* page, in the newest row of the flow monitor.  Destinations do not       *)
(* matter to it.                                                           *)
(***************************************************************************)
EXTENDS PageShell

VARIABLES
  box,    \* the result box
  flow,   \* the newest row of the flow monitor
  dropped \* history: a request failed after the last one was made

simulator == <<box, flow, dropped>>

SimulatorPages == {"index", "simulator"}

SimulatorTypeOK ==
  /\ box \in [is : {"empty", "evaluating", "ALLOW", "DENY", "ERROR"},
              of : Workloads \cup {Blank}]
  /\ flow \in [is : {"none", "allowed", "denied"}, of : Workloads \cup {Blank}]
  /\ dropped \in BOOLEAN

SimulatorInit ==
  /\ box = [is |-> "empty", of |-> Blank] /\ flow = [is |-> "none", of |-> Blank]
  /\ dropped = FALSE

SimulatorLive == running /\ page \in SimulatorPages

(* Each answer with the workloads fills the selector anew. *)
Listed == \E c \in BagToSet(calls) :
            /\ SimulatorLive /\ Answers(c, "fleet")
            /\ calls' = Received(c)
            /\ Populate(c.answer.found)
            /\ UNCHANGED <<loading, server, actions, simulator>>

Request(w) == IF w = Blank THEN UNCHANGED <<calls, box, dropped>>
              ELSE /\ Send(Call("send", w, 0))
                   /\ box' = [is |-> "evaluating", of |-> Blank] /\ dropped' = FALSE

Simulate == /\ SimulatorLive /\ Act /\ chosen # Blank
            /\ Request(chosen)
            /\ UNCHANGED <<loading, selector, server, flow>>

ChooseSource == /\ SimulatorLive
                /\ \E w \in Workloads : Choose(w)
                /\ UNCHANGED <<loading, server, calls, simulator>>

(* A preset names its workload, whether the selector offers it or not. *)
Preset == /\ Live("simulator") /\ Act
          /\ \E w \in Workloads : /\ chosen' = IF w \in options THEN w ELSE Blank
                                  /\ Request(chosen')
          /\ UNCHANGED <<loading, options, server, flow>>

(* An answer with an error names no workload and no decision. *)
Source(c) == IF c.answer.is = "ERROR" THEN Blank ELSE c.arg

FlowRowOfSelected(c) ==   \* slip: the row reads the selector, not the answer
  [is |-> IF c.answer.is = "DENY" THEN "denied" ELSE "allowed", of |-> chosen]

FlowRow(c) == [is |-> IF c.answer.is = "DENY" THEN "denied" ELSE "allowed", of |-> Source(c)]

Decided == \E c \in BagToSet(calls) :
             /\ SimulatorLive /\ Answers(c, "send")
             /\ calls' = IF page = "index" THEN BagAdd(Received(c), Call("stats", Blank, 0))
                                           ELSE Received(c)
             /\ box' = [is |-> c.answer.is, of |-> Source(c)]
             /\ flow' = IF page = "simulator" THEN FlowRow(c) ELSE flow
             /\ UNCHANGED <<loading, selector, server, actions, dropped>>

(* A request fails: the box goes on saying that it evaluates. *)
SimulationFails == /\ \E c \in BagToSet(calls) : c.kind = "send" /\ Fails(c)
                   /\ dropped' = TRUE
                   /\ UNCHANGED <<loading, selector, actions, box, flow>>

(* The result box says that it evaluates only while a request is under     *)
(* way, or for good when one failed; a decision in it is the one of the    *)
(* newest row, for the same workload, except that the row of a request     *)
(* answered with an error reads as allowed.                                *)
DecisionsAgree ==
  /\ box.is = "evaluating" => InFlight("send") # {} \/ dropped
  /\ page = "simulator" /\ box.is \in {"ALLOW", "DENY", "ERROR"} =>
       /\ flow.of = box.of
       /\ flow.is = IF box.is = "DENY" THEN "denied" ELSE "allowed"
=============================================================================

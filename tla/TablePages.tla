----------------------------- MODULE TablePages ------------------------------
(***************************************************************************)
(* The pages that list rows of the server: identity events under a filter, *)
(* the policy rules with their edits, and the alert of the index page.     *)
(***************************************************************************)
EXTENDS PageShell, Counter

VARIABLES
  cache, filter, listed, badge,   \* events: last answer, pill, rows, count
  table,      \* policies: the rules shown
  sent,       \* number of the last load of the rules
  newest,     \* history: the highest number among the answers shown
  overtaken,  \* history: the last answer shown has a lower one
  unseen,     \* history: rules changed unheard, and no load was sent since
  alert,      \* index: what the alert of the top bar shows, 0 when hidden
  shaking     \* index: animation loops of the alert that run

events == <<cache, filter, listed, badge>>
policies == <<table, sent, newest, overtaken, unseen>>
stats == <<alert, shaking>>

TablesTypeOK ==
  /\ cache \subseteq EventKinds /\ listed \subseteq EventKinds
  /\ filter \in {"ALL"} \cup EventKinds
  /\ badge \in 0..Cardinality(EventKinds)
  /\ table \subseteq Rules
  /\ newest \in 0..sent
  /\ overtaken \in BOOLEAN /\ unseen \in BOOLEAN
  /\ alert \in 0..Cardinality(Workloads) /\ shaking \in Nat

TablesInit ==
  /\ cache = {} /\ listed = {} /\ badge = 0 /\ filter = "ALL"
  /\ table = {} /\ sent = 1 /\ newest = 0 /\ overtaken = FALSE /\ unseen = FALSE
  /\ alert = 0 /\ shaking = 0
-----------------------------------------------------------------------------
(* Identity events. *)

Matching(rows, f) == IF f = "ALL" THEN rows ELSE rows \cap {f}

FilteredOnArrival ==   \* slip: the pills do not render again
  IF filter' # filter THEN UNCHANGED listed ELSE listed' = Matching(cache', filter')

Filtered == listed' = Matching(cache', filter')

ReloadEvents == /\ Live("events") /\ Act
                /\ Send(Call("events", Blank, 0))
                /\ UNCHANGED <<loading, selector, server, events>>

EventsLoaded == \E c \in BagToSet(calls) :
                  /\ Answers(c, "events")
                  /\ calls' = Received(c)
                  /\ cache' = c.answer.found
                  /\ badge' = Cardinality(cache')
                  /\ UNCHANGED filter
                  /\ Filtered
                  /\ UNCHANGED <<loading, selector, server, actions>>

PickFilter == /\ Live("events") /\ Act
              /\ filter' \in {"ALL"} \cup EventKinds
              /\ UNCHANGED <<cache, badge>>
              /\ Filtered
              /\ UNCHANGED <<loading, selector, server, calls>>

(* However answers and clicks interleave, the timeline is the cached       *)
(* events under the filter last clicked, and the badge counts them all.    *)
EventsFiltered == listed = Matching(cache, filter) /\ badge = Cardinality(cache)
-----------------------------------------------------------------------------
(* Policy rules. *)

Load(nr) == Call("policies", Blank, nr)

(* Sends n loads of the rules besides the calls of the given bag.  They do *)
(* not see what a reset or a failed edit still under way will do.          *)
LoadRules(others, n) ==
  /\ calls' = others (+) SetToBag({Load(nr) : nr \in sent + 1 .. sent + n})
  /\ sent' = sent + n
  /\ unseen' = (unseen /\ (InFlight("reset") # {} \/ astray # EmptyBag))

RulesLoaded == \E c \in BagToSet(calls) :
                 /\ Answers(c, "policies")
                 /\ calls' = Received(c)
                 /\ table' = c.answer.found
                 /\ overtaken' = (c.nr < newest)
                 /\ newest' = IF overtaken' THEN newest ELSE c.nr
                 /\ UNCHANGED <<loading, selector, server, actions, sent, unseen>>

DeleteRule == /\ Live("policies") /\ Act
              /\ \E r \in table : Send(Call("delete", r, 0))
              /\ UNCHANGED <<loading, selector, server, policies>>

RuleDeletedQuietly ==   \* slip: no load after the deletion
  \E c \in BagToSet(calls) :
    /\ Answers(c, "delete")
    /\ calls' = Received(c)
    /\ UNCHANGED <<loading, selector, server, actions, policies>>

RuleDeleted == \E c \in BagToSet(calls) :
                 /\ Answers(c, "delete")
                 /\ LoadRules(Received(c), 1)
                 /\ UNCHANGED <<loading, selector, server, actions, table, newest, overtaken>>

AddRule == /\ Live("policies") /\ Act
           /\ \E r \in Rules : Send(Call("add", r, 0))
           /\ UNCHANGED <<loading, selector, server, policies>>

(* Closing the dialog refreshes the page, then the handler loads again. *)
RuleAdded == \E c \in BagToSet(calls) :
               /\ Answers(c, "add")
               /\ LoadRules(Received(c), 2)
               /\ UNCHANGED <<loading, selector, server, actions, table, newest, overtaken>>

ResetRules == Live("policies") /\ ClickReset /\ unseen' = TRUE
              /\ UNCHANGED <<table, sent, newest, overtaken>>

(* A load, an addition or a deletion fails: the table stays as it was, and *)
(* no load follows.  A later load already under way makes up for a load.   *)
RulesFail == /\ \E c \in BagToSet(calls) :
                  /\ c.kind \in {"policies", "add", "delete"} /\ Fails(c)
                  /\ unseen' = (unseen \/ c.kind # "policies" \/ c.nr = sent)
             /\ UNCHANGED <<loading, selector, actions, table, sent, newest, overtaken>>

(* Another tab or operator edits the rules or resets the server. *)
RulesChangedElsewhere ==
  /\ page = "policies" /\ Elsewhere
  /\ unseen' = (unseen \/ (running /\ rules' # rules))
  /\ UNCHANGED <<table, sent, newest, overtaken>>

RuleCalls == InFlight("policies") \cup InFlight("add") \cup InFlight("delete")

(* Once the tab's loads and edits are over, the table holds the rules of   *)
(* the server, except in two cases.  The answer of an earlier load came    *)
(* after that of a later one; or the tab sent no load since it reset the   *)
(* server, since an edit of its own or its newest load failed, or since    *)
(* another tab or operator changed the rules (app.js: edits alone reload,  *)
(* and only once they are answered).                                       *)
ReadYourWrites ==
  Live("policies") /\ RuleCalls = {} /\ ~overtaken /\ ~unseen => table = rules
-----------------------------------------------------------------------------
(* The alert of workloads whose identity is not settled. *)

Shaking(n) == CASE n = 0                 -> 0
                [] n > 0 /\ shaking = 0 -> 1
                [] OTHER                 -> shaking

StatsLoaded == \E c \in BagToSet(calls) :
                 /\ Answers(c, "stats")
                 /\ calls' = Received(c)
                 /\ CountTo(c.answer.count)
                 /\ alert' = c.answer.count
                 /\ shaking' = Shaking(c.answer.count)
                 /\ UNCHANGED <<loading, selector, server, actions>>

(* The alert shows the number the statistics count up to, and shakes in    *)
(* one loop while it is shown, however many answers have come.             *)
AlertBacked ==
  page = "index" => alert = goal /\ shaking = (IF alert > 0 THEN 1 ELSE 0)
=============================================================================

-------------------------------- MODULE Pages --------------------------------
(***************************************************************************)
(* The pages of the dashboard: one page is opened, its scripts are         *)
(* evaluated, and its user and other operators act on it.                  *)
(***************************************************************************)
EXTENDS SimulatorPage, VerificationPage, TablePages

vars == <<shell, counting, simulator, verification, events, policies, stats>>

Init ==
  /\ ShellInit /\ CountInit
  /\ SimulatorInit /\ VerificationInit /\ TablesInit

TypeOK ==
  /\ ShellTypeOK /\ CountTypeOK
  /\ SimulatorTypeOK /\ VerificationTypeOK /\ TablesTypeOK

(* Escape, a click beside a dialog or on its cross: the calls that refresh *)
(* the page.                                                               *)
Refreshing ==
  CASE page = "index"     -> SetToBag({Call("stats", Blank, 0), Call("fleet", Blank, 0)})
    [] page = "simulator" -> SetToBag({Call("fleet", Blank, 0)})
    [] page = "events"    -> SetToBag({Call("events", Blank, 0)})
    [] OTHER              -> EmptyBag

CloseAllModals ==
  /\ running /\ Act
  /\ \/ /\ page = "verification" /\ Run(chosen, calls)
        /\ UNCHANGED policies
     \/ /\ page = "policies" /\ LoadRules(calls, 1)
        /\ UNCHANGED <<terminal, unheard, table, newest, overtaken>>
     \/ /\ page \notin {"verification", "policies"}
        /\ calls' = calls (+) Refreshing
        /\ UNCHANGED <<terminal, unheard, policies>>
  /\ UNCHANGED <<loading, selector, server, counting, simulator, attached, verdict, gauge,
                 rising, overrun, events, stats>>

Shell == /\ \/ Evaluate
            \/ Serve
            \/ ServeAstray
            \/ CallFails
            \/ page # "policies" /\ Elsewhere
            \/ ~Live("policies") /\ ClickReset
            \/ AfterReset
         /\ UNCHANGED <<counting, simulator, verification, events, policies, stats>>

SimulatorSteps == /\ \/ Listed
                     \/ Simulate
                     \/ ChooseSource
                     \/ Preset
                     \/ Decided
                     \/ SimulationFails
                  /\ UNCHANGED <<counting, verification, events, policies, stats>>

VerificationSteps == /\ \/ Attach
                        \/ Verify
                        \/ ChooseVerified
                        \/ Tamper
                        \/ Tampered
                        \/ Verified
                        \/ VerificationFails
                        \/ GaugeFrame
                        \/ GaugeEnds
                     /\ UNCHANGED <<simulator, events, policies, stats>>

EventSteps == /\ \/ ReloadEvents
                 \/ EventsLoaded
                 \/ PickFilter
              /\ UNCHANGED <<counting, simulator, verification, policies, stats>>

PolicySteps == /\ \/ RulesLoaded
                  \/ DeleteRule
                  \/ RuleDeleted
                  \/ AddRule
                  \/ RuleAdded
                  \/ ResetRules
                  \/ RulesFail
                  \/ RulesChangedElsewhere
               /\ UNCHANGED <<counting, simulator, verification, events, stats>>

CounterSteps == /\ CountFrame \/ CountEnds
                /\ UNCHANGED <<shell, simulator, verification, events, policies, stats>>

StatsSteps == StatsLoaded /\ UNCHANGED <<simulator, verification, events, policies>>

Next == \/ Shell
        \/ SimulatorSteps
        \/ VerificationSteps
        \/ EventSteps
        \/ PolicySteps
        \/ StatsSteps
        \/ CounterSteps
        \/ CloseAllModals

(* Scripts are evaluated; a call that does not fail is answered by the     *)
(* server and its answer delivered by the browser.                         *)
Rendered == /\ \/ (AfterReset /\ UNCHANGED <<counting, simulator, verification, events, policies,
                                             stats>>)
               \/ (Listed \/ Decided) /\ UNCHANGED <<counting, verification, events, policies,
                                                     stats>>
               \/ (Attach \/ Tampered \/ Verified) /\ UNCHANGED <<simulator, events, policies,
                                                                  stats>>
               \/ EventsLoaded /\ UNCHANGED <<counting, simulator, verification, policies, stats>>
               \/ (RulesLoaded \/ RuleDeleted \/ RuleAdded)
                    /\ UNCHANGED <<counting, simulator, verification, events, stats>>
               \/ StatsSteps

Idle == UNCHANGED <<counting, simulator, verification, events, policies, stats>>

Fairness == /\ WF_vars(Evaluate /\ Idle)
            /\ WF_vars(Serve /\ Idle)
            /\ WF_vars(Rendered)

Spec == Init /\ [][Next]_vars /\ Fairness
-----------------------------------------------------------------------------
(* What the index and events pages show is one state of the page: rows     *)
(* under the filter last clicked, an alert with one animation.             *)
TablesConsistent == TypeOK /\ EventsFiltered /\ AlertBacked

(* At rest, gauge and number show what the last answer said, except where  *)
(* an animation of an earlier answer overran it.                           *)
AnimationsSettle == GaugeSettles /\ CounterSettles

(* A result box that evaluates and a terminal that reports a run under way *)
(* come to an answer, however other calls overlap or fail; only when their *)
(* own newest call or an overlapping one of its kind failed, and no other  *)
(* is under way, may they go on saying so for ever (app.js: the catches    *)
(* only log).                                                              *)
Settles ==
  /\ (box.is = "evaluating") ~>
       (box.is # "evaluating" \/ (dropped /\ InFlight("send") = {}))
  /\ (terminal = "running") ~>
       (terminal = "report" \/ (unheard /\ InFlight("verify") = {}))

(* "Context-dependent page initializers" (app.js): once its scripts are    *)
(* evaluated, every page has run the one that loads its rows.              *)
PagesPopulated == scripts = <<>> => running
=============================================================================

-------------------------- MODULE VerificationPage ---------------------------
(***************************************************************************)
(* The verification page: a run shows its verdict at once, and the text of *)
(* the gauge and the count of violations through animations.  Runs may     *)
(* overlap, their answers arriving in any order.                           *)
(***************************************************************************)
EXTENDS PageShell, Counter

VARIABLES
  attached,   \* the listeners of the page are attached
  terminal,   \* what the terminal shows
  verdict,    \* verdict text and banner
  gauge,      \* text inside the gauge
  rising,     \* animations of that text under way
  overrun,    \* history: the last verdict was FAIL and came while one ran
  unheard     \* history: a run failed after the last one was started

verification == <<attached, terminal, verdict, gauge, rising, overrun, unheard>>

VerificationTypeOK ==
  /\ attached \in BOOLEAN /\ overrun \in BOOLEAN /\ unheard \in BOOLEAN
  /\ terminal \in {"idle", "running", "report"}
  /\ verdict \in {"none", "PASS", "FAIL"}
  /\ gauge \in {"none", "rising", "100%", "FAIL"}
  /\ rising \in Nat

VerificationInit ==
  /\ attached = FALSE /\ overrun = FALSE /\ unheard = FALSE
  /\ terminal = "idle" /\ verdict = "none" /\ gauge = "none" /\ rising = 0

Run(w, others) ==
  IF w = Blank THEN calls' = others /\ UNCHANGED <<terminal, unheard>>
               ELSE /\ calls' = BagAdd(others, Call("verify", w, 0))
                    /\ terminal' = "running" /\ unheard' = FALSE

(* The workloads arrive: selector, listeners and a first run. *)
Attach == \E c \in BagToSet(calls) :
            /\ Live("verification") /\ Answers(c, "fleet")
            /\ Populate(c.answer.found)
            /\ attached' = TRUE
            /\ Run(chosen', Received(c))
            /\ UNCHANGED <<loading, server, actions, verdict, gauge, rising, overrun, counting>>

Verify == /\ attached /\ Act
          /\ Run(chosen, calls)
          /\ UNCHANGED <<loading, selector, server, attached, verdict, gauge, rising, overrun,
                         counting>>

ChooseVerified == /\ attached
                  /\ \E w \in Workloads : Choose(w) /\ Run(w, calls)
                  /\ UNCHANGED <<loading, server, attached, verdict, gauge, rising, overrun,
                                 counting>>

Tamper == /\ attached /\ Act /\ chosen # Blank
          /\ Send(Call("tamper", chosen, 0))
          /\ UNCHANGED <<loading, selector, server, verification, counting>>

(* Whatever the answer, the workload named in the request is verified. *)
Tampered == \E c \in BagToSet(calls) :
              /\ Answers(c, "tamper")
              /\ Run(c.arg, Received(c))
              /\ UNCHANGED <<loading, selector, server, actions, attached, verdict, gauge,
                             rising, overrun, counting>>

Passes(c) == c.answer.is = "PASS"

VerifiedIfChosen ==   \* slip: the answer of a workload no longer chosen is dropped
  \E c \in BagToSet(calls) :
    /\ Answers(c, "verify")
    /\ calls' = Received(c)
    /\ IF c.arg = chosen
         THEN /\ verdict' = IF Passes(c) THEN "PASS" ELSE "FAIL"
              /\ gauge' = IF Passes(c) THEN gauge ELSE "FAIL"
              /\ rising' = IF Passes(c) THEN rising + 1 ELSE rising
              /\ overrun' = (~Passes(c) /\ rising > 0)
              /\ CountTo(c.answer.count)
              /\ terminal' = "report"
         ELSE UNCHANGED <<verdict, gauge, rising, overrun, counting, terminal>>
    /\ UNCHANGED <<loading, selector, server, actions, attached, unheard>>

(* An answer that is not PASS, an error included, is shown as a violation. *)
Verified == \E c \in BagToSet(calls) :
              /\ Answers(c, "verify")
              /\ calls' = Received(c)
              /\ verdict' = IF Passes(c) THEN "PASS" ELSE "FAIL"
              /\ gauge' = IF Passes(c) THEN gauge ELSE "FAIL"
              /\ rising' = IF Passes(c) THEN rising + 1 ELSE rising
              /\ overrun' = (~Passes(c) /\ rising > 0)
              /\ CountTo(c.answer.count)
              /\ terminal' = "report"
              /\ UNCHANGED <<loading, selector, server, actions, attached, unheard>>

(* A run fails: the terminal goes on reporting it. *)
VerificationFails ==
  /\ \E c \in BagToSet(calls) : c.kind = "verify" /\ Fails(c)
  /\ unheard' = TRUE
  /\ UNCHANGED <<loading, selector, actions, attached, terminal, verdict, gauge, rising, overrun,
                 counting>>

GaugeFrame == /\ rising > 0
              /\ gauge' = "rising"
              /\ UNCHANGED <<shell, attached, terminal, verdict, rising, overrun, unheard, counting>>

GaugeEndsUnlessFail ==   \* slip: a count that ends spares the word FAIL
  /\ rising > 0
  /\ rising' = rising - 1
  /\ gauge' = IF gauge = "FAIL" THEN gauge ELSE IF rising = 1 THEN "100%" ELSE "rising"
  /\ UNCHANGED <<shell, attached, terminal, verdict, overrun, unheard, counting>>

GaugeEnds == /\ rising > 0
             /\ rising' = rising - 1
             /\ gauge' = IF rising = 1 THEN "100%" ELSE "rising"
             /\ UNCHANGED <<shell, attached, terminal, verdict, overrun, unheard, counting>>

(* At rest the gauge reads FAIL exactly when the verdict is a violation    *)
(* that came while no earlier pass was still being counted up; that count  *)
(* would have ended at 100% over it.                                       *)
GaugeSettles == rising = 0 => (gauge = "FAIL" <=> verdict = "FAIL" /\ ~overrun)
=============================================================================

-------------------------------- MODULE Login --------------------------------
(***************************************************************************)
(* The login page of static/js/login.js in one tab, and the limiter behind *)
(* it, which other clients of the same address use too.  The timers of     *)
(* earlier attempts are never cancelled and fire during later ones.        *)
(***************************************************************************)
EXTENDS LoginLimiter

CONSTANT MaxPending    \* bound on attempts and timers pending at a submit

ASSUME PendingAssumption == MaxPending \in Nat

VARIABLES
  page,          \* where the tab is
  session,       \* its cookie holds a user id
  button,        \* state of the sign-in button
  banner,        \* what the feedback banner says
  idles,         \* timers that will set the button back
  leaves,        \* timers that will leave for the dashboard
  woken          \* history: such a timer fired during a later attempt

form == <<button, banner, idles, leaves, woken>>
vars == <<limiterVars, page, session, form>>

Mine == {p \in Threads : job[p] # Idle /\ job[p].from = Tab}

(* Missing fields, denials, lockouts and lost connections are "error". *)
TypeOK ==
  /\ LimiterTypeOK
  /\ page \in {"login", "dashboard"}
  /\ session \in BOOLEAN /\ woken \in BOOLEAN
  /\ button \in {"idle", "loading", "success", "error"}
  /\ banner \in {"hidden", "error", "granted"}
  /\ idles \in 0 .. MaxPending + 1
  /\ leaves \in 0 .. MaxPending + 1

(* The page as the server delivers it. *)
FreshForm == /\ button' = "idle" /\ banner' = "hidden"
             /\ idles' = 0 /\ leaves' = 0 /\ woken' = FALSE

Init == /\ LimiterInit
        /\ page = "login" /\ session = FALSE
        /\ button = "idle" /\ banner = "hidden"
        /\ idles = 0 /\ leaves = 0 /\ woken = FALSE
-----------------------------------------------------------------------------
(* The user. *)

Enabled == button \in {"idle", "error"}

(* Slip: the button stays as it is while the attempt runs. *)
LoadingUnchanged == banner' = "hidden" /\ UNCHANGED button

Loading == button' = "loading" /\ banner' = "hidden"

(* The submit handler with a field left empty ... *)
SubmitEmpty ==
  /\ page = "login" /\ Enabled
  /\ banner' = "error"
  /\ UNCHANGED <<limiterVars, page, session, button, idles, leaves, woken>>

(* ... and with both filled in, up to its await. *)
Submit ==
  /\ page = "login" /\ Enabled
  /\ Cardinality(Mine) + idles + leaves <= MaxPending
  /\ Loading
  /\ \E p \in Threads : Receive(p, Tab)
  /\ woken' = (woken /\ (Mine # {} \/ leaves > 0))
  /\ UNCHANGED <<attempts, failed, raced, page, session, idles, leaves>>

(* /logout, from the dashboard; its answer leads to /login. *)
Logout ==
  /\ page = "dashboard"
  /\ page' = "login" /\ session' = FALSE
  /\ FreshForm
  /\ UNCHANGED limiterVars
-----------------------------------------------------------------------------
(* Answers and timers. *)

(* The submit handler after its await. *)
Shown(reply) ==
  IF reply = "granted"
    THEN button' = "success" /\ banner' = "granted" /\ leaves' = leaves + 1 /\ UNCHANGED idles
    ELSE button' = "error" /\ banner' = "error" /\ idles' = idles + 1 /\ UNCHANGED leaves

Answered(p) ==
  /\ job[p].at = "answer" /\ job[p].from = Tab
  /\ Go(p, job, Idle)
  /\ session' = (session \/ job[p].reply = "granted")
  /\ Shown(job[p].reply)
  /\ UNCHANGED <<attempts, failed, raced, page, woken>>

(* The page no longer waits for the answers of some threads. *)
Orphaned(ps) ==
  [p \in Threads |-> IF p \notin ps THEN job[p]
                     ELSE IF job[p].at = "answer" THEN Idle
                     ELSE [job[p] EXCEPT !.from = Nobody]]

(* The fetch fails, wherever the server is with it. *)
Unreachable(p) ==
  /\ p \in Mine
  /\ job' = Orphaned({p})
  /\ Shown("unreachable")
  /\ UNCHANGED <<attempts, failed, raced, page, session, woken>>

(* setButtonState("idle"), 1.8 s after a denial. *)
BackToIdle ==
  /\ idles > 0
  /\ idles' = idles - 1
  /\ button' = "idle"
  /\ woken' = (woken \/ Mine # {} \/ leaves > 0)
  /\ UNCHANGED <<limiterVars, page, session, banner, leaves>>

(* Slip: leaving goes by the banner, which a later attempt has changed. *)
LeaveIfGranted ==
  /\ leaves > 0
  /\ page' = IF banner = "granted" THEN "dashboard" ELSE "login"
  /\ FreshForm
  /\ job' = Orphaned(Mine)
  /\ UNCHANGED <<attempts, failed, raced, session>>

(* 450 ms after a success; enforce_authentication of app.py lets a session *)
(* through.  The page's timers and fetches end with it.                    *)
Leave ==
  /\ leaves > 0
  /\ page' = IF session THEN "dashboard" ELSE "login"
  /\ FreshForm
  /\ job' = Orphaned(Mine)
  /\ UNCHANGED <<attempts, failed, raced, session>>
-----------------------------------------------------------------------------
(* Other clients of the address. *)
Elsewhere(p) ==
  /\ Receive(p, Nobody)
  /\ UNCHANGED <<attempts, failed, raced, page, session, form>>

Serve(p) == Work(p) /\ UNCHANGED <<page, session, form>>
Clock == Tick /\ UNCHANGED <<page, session, form>>

Next ==
  \/ SubmitEmpty \/ Submit \/ Logout
  \/ \E p \in Threads : Elsewhere(p) \/ Serve(p) \/ Answered(p) \/ Unreachable(p)
  \/ BackToIdle \/ Leave \/ Clock

(* Threads are scheduled, answers delivered, timers fired and time passes; *)
(* nobody has to type, submit or log out.                                  *)
Spec == /\ Init /\ [][Next]_vars
        /\ \A p \in Threads : WF_vars(Serve(p) \/ Answered(p))
        /\ WF_vars(BackToIdle) /\ WF_vars(Leave) /\ WF_vars(Clock)
-----------------------------------------------------------------------------
(* Properties. *)

(* Button, banner and timers tell one story, whatever timers of earlier    *)
(* attempts fire in between (setButtonState, showFeedback).                *)
FeedbackAgrees ==
  /\ button = "success" => banner = "granted" /\ leaves > 0 /\ session
  /\ button = "loading" => banner = "hidden" /\ Mine # {}
  /\ button = "error" => banner = "error"
  /\ banner = "granted" => leaves > 0 /\ session

(* While an attempt is under way, or has succeeded, the button cannot be   *)
(* pressed again, unless the timer of an earlier denial has set it back    *)
(* (setButtonState("loading"), the timeout of 1.8 s).                      *)
OneAttempt == ~woken => (Mine # {} \/ leaves > 0 => ~Enabled)

FormConsistent == TypeOK /\ FeedbackAgrees /\ OneAttempt

(* ACCESS GRANTED is kept: the tab does arrive on the dashboard, also when *)
(* a second attempt was made in the meantime and denied.                   *)
GrantKept == banner = "granted" ~> page = "dashboard"
=============================================================================

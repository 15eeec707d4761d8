------------------------------ MODULE Showcase ------------------------------
(***************************************************************************)
(* The auto-demo showcase of static/js/app.js: six steps, each of which    *)
(* works the visualizer and the server, played by a chain of timeouts.     *)
(* Steps 1 and 2 await (600 ms, a post) before the next timeout is set;    *)
(* meanwhile the user, an older timeout or another step may go on.         *)
(***************************************************************************)
EXTENDS Visualizer

VARIABLES
  current,       \* showcaseCurrentStep
  playing,       \* showcaseIsPlaying
  timer,         \* showcaseTimer: the handle kept, of a timeout or spent
  timeouts,      \* timeouts the browser holds
  sleeping,      \* executions of step 1 inside their 600 ms
  hud,           \* the showcase bar is displayed
  button,        \* text of its play button
  rough          \* history: an answer was lost or outlasted a timeout, or
                 \* others used the server

controls == <<current, playing, timer, timeouts, sleeping, hud, button, rough>>
vars == <<visVars, controls>>

Steps == 6

ShowInit == /\ current = 1 /\ playing = FALSE
            /\ timer = 0 /\ timeouts = {} /\ sleeping = 0
            /\ hud = FALSE /\ button = "Pause" /\ rough = FALSE

Init == VisInit /\ ShowInit

TypeOK == /\ VisTypeOK
          /\ current \in 1..Steps /\ playing \in BOOLEAN
          /\ timer \in Nat /\ timeouts \subseteq Nat \ {0}
          /\ sleeping \in 0..MaxClicks
          /\ hud \in BOOLEAN /\ button \in {"Pause", "Resume", "Replay"}
          /\ rough \in BOOLEAN
-----------------------------------------------------------------------------
(* Slip: the label does not depend on the state. *)
LabelPause(on) == "Pause"

Label(on) == IF on THEN "Pause" ELSE "Resume"

NewTimeout(live) == CHOOSE h \in 1 .. Cardinality(live) + 1 : h \notin live

(* Slip: the old timeout is not cleared. *)
ScheduleAfterUncleared(step, on, live, label) ==
  /\ timer' = NewTimeout(live)
  /\ timeouts' = live \cup {timer'}
  /\ playing' = on
  /\ button' = label

(* Slip: the last step is not the end of the show. *)
ScheduleAfterAlways(step, on, live, label) ==
  LET kept == live \ {timer} IN
  /\ timer' = IF on THEN NewTimeout(kept) ELSE timer
  /\ timeouts' = IF on THEN kept \cup {timer'} ELSE kept
  /\ playing' = on
  /\ button' = label

(* Slip: a timeout is set only where no handle is kept, spent or not. *)
ScheduleAfterIfNone(step, on, live, label) ==
  /\ IF on /\ step < Steps /\ timer = 0
       THEN timer' = NewTimeout(live) /\ timeouts' = live \cup {timer'}
       ELSE timeouts' = live /\ UNCHANGED timer
  /\ playing' = (on /\ step < Steps)
  /\ button' = IF step = Steps THEN "Replay" ELSE label

(* showcaseExecuteStep after its await: the step's number is its own, the  *)
(* rest is what it finds.                                                  *)
ScheduleAfter(step, on, live, label) ==
  LET kept == live \ {timer} IN
  /\ IF on /\ step < Steps
       THEN timer' = NewTimeout(kept) /\ timeouts' = kept \cup {timer'}
       ELSE timeouts' = kept /\ UNCHANGED timer
  /\ playing' = (on /\ step < Steps)
  /\ button' = IF step = Steps THEN "Replay" ELSE label

(* Slip: the last packet goes where the student may not. *)
ScriptDatabaseLast(step) ==
  CASE step \in {1, 3, 6} -> Send("database", step)
    [] step = 2 -> Request("tamper", New, "none", 2)
    [] step = 4 -> Send("payment-api", step)
    [] step = 5 -> Confirm(selected)

(* The request a step's action makes once it comes to it. *)
Script(step) ==
  CASE step \in {1, 3} -> Send("database", step)
    [] step = 2 -> Request("tamper", New, "none", 2)
    [] step = 4 -> Send("payment-api", step)
    [] step = 5 -> Confirm(selected)
    [] step = 6 -> Send("student-api", step)

(* showcaseExecuteStep, up to its await if it has one. *)
Execute(step, on, live) ==
  /\ current' = step
  /\ IF step = 1
       THEN /\ selected' = Choose(Old)
            /\ net' = BagAdd(net, Get(selected'))
            /\ sleeping' = sleeping + 1
       ELSE /\ net' = BagAdd(net, Script(step))
            /\ UNCHANGED <<selected, sleeping>>
  /\ IF step \in {1, 2}
       THEN /\ playing' = on /\ button' = Label(on)
            /\ timeouts' = live /\ UNCHANGED timer
       ELSE ScheduleAfter(step, on, live, Label(on))
  /\ UNCHANGED <<server, options, panel, reloadDue>>

(* showcaseNextStep: past the last step the show begins anew. *)
NextStep(on, live) ==
  IF current < Steps THEN Execute(current + 1, on, live)
                     ELSE Execute(1, TRUE, live)
-----------------------------------------------------------------------------
(* User actions. *)

Rough(bad) == rough' = (rough \/ bad)

Launch == /\ Click
          /\ hud' = TRUE
          /\ Execute(1, TRUE, timeouts)
          /\ Rough(net # EmptyBag)

NextClicked == /\ Click /\ hud
         /\ NextStep(playing, timeouts)
         /\ UNCHANGED <<hud, rough>>

Prev == /\ Click /\ hud /\ current > 1
        /\ Execute(current - 1, playing, timeouts)
        /\ UNCHANGED <<hud, rough>>

Pause == /\ Click /\ hud /\ playing
         /\ playing' = FALSE /\ button' = "Resume"
         /\ timeouts' = timeouts \ {timer}
         /\ UNCHANGED <<served, page, current, timer, sleeping, hud, rough>>

(* Resuming sets a timeout without clearing one. *)
Resume == /\ Click /\ hud /\ ~playing
          /\ IF current >= Steps
               THEN Execute(1, TRUE, timeouts)
               ELSE /\ playing' = TRUE /\ button' = "Pause"
                    /\ timer' = NewTimeout(timeouts)
                    /\ timeouts' = timeouts \cup {timer'}
                    /\ UNCHANGED <<served, page, current, sleeping>>
          /\ UNCHANGED <<hud, rough>>

(* exitShowcaseMode; a step inside its await goes on afterwards. *)
Exit == /\ Click /\ hud
        /\ hud' = FALSE /\ playing' = FALSE
        /\ timeouts' = timeouts \ {timer}
        /\ UNCHANGED <<served, page, current, timer, sleeping, button, rough>>
-----------------------------------------------------------------------------
(* What the browser does. *)

Timeout == /\ Room
           /\ \E h \in timeouts : NextStep(playing, timeouts \ {h})
           /\ Rough(net # EmptyBag)
           /\ UNCHANGED <<hud, clicks>>

(* The 600 ms of step 1 are over: its packet leaves from the workload      *)
(* selected now, and the step is done without awaiting the answer.         *)
Wake == /\ sleeping > 0
        /\ sleeping' = sleeping - 1
        /\ net' = BagAdd(net, Script(1))
        /\ ScheduleAfter(1, playing, timeouts, button)
        /\ UNCHANGED <<server, page, current, hud, rough, clicks>>

(* The tampering post of step 2 is answered or fails, which is caught: the *)
(* new workload is selected, and painted once more by an explicit call.    *)
Tampered ==
  /\ \E r \in BagToSet(net) :
       /\ r.kind = "tamper" /\ r.step # Orphan
       /\ selected' = Choose(New)
       /\ net' = BagAdd(BagAdd(BagRemove(net, r), Get(selected')), Get(New))
       /\ Rough(r.answer = Waiting)
  /\ ScheduleAfter(2, playing, timeouts, button)
  /\ UNCHANGED <<server, options, panel, reloadDue, clicks,
                 current, sleeping, hud>>

Reloaded == /\ Reload
            /\ current' = 1 /\ playing' = FALSE
            /\ timer' = 0 /\ timeouts' = {} /\ sleeping' = 0
            /\ hud' = FALSE /\ button' = "Pause"
            /\ UNCHANGED rough

Answer == Serve /\ UNCHANGED controls

Arrival == Deliver /\ UNCHANGED controls

Lost == /\ Fail
        /\ rough' = TRUE
        /\ UNCHANGED <<current, playing, timer, timeouts, sleeping, hud, button>>

Work == VisUser /\ UNCHANGED controls

Others == /\ Elsewhere
          /\ rough' = TRUE
          /\ UNCHANGED <<current, playing, timer, timeouts, sleeping, hud, button>>

Settled == /\ net = EmptyBag /\ timeouts = {} /\ sleeping = 0
           /\ ~reloadDue /\ clicks = MaxClicks
           /\ UNCHANGED vars

Next == \/ Launch \/ NextClicked \/ Prev \/ Pause \/ Resume \/ Exit
        \/ Timeout \/ Wake \/ Tampered \/ Reloaded
        \/ Work \/ Others \/ Answer \/ Arrival \/ Lost \/ Settled

(* The browser runs its timers and delivers what the server answers; users *)
(* need do nothing.                                                        *)
Spec == /\ Init /\ [][Next]_vars
        /\ WF_vars(Timeout) /\ WF_vars(Wake) /\ WF_vars(Tampered)
        /\ WF_vars(Reloaded) /\ WF_vars(Answer) /\ WF_vars(Arrival)
-----------------------------------------------------------------------------
(* Properties. *)

(* One timeout at most, the one a pause clears, and only while the show    *)
(* plays and has a step to go to: although Resume sets one without         *)
(* clearing and two steps may be inside their awaits, the show never runs  *)
(* at double speed and never survives a pause (showcaseTogglePlay).        *)
OneTimeout ==
  timeouts \subseteq IF playing /\ current < Steps THEN {timer} ELSE {}

(* A playing show goes on: a timeout is set, or a step still to return     *)
(* from its await will set one.                                            *)
NeverStuck ==
  playing => \/ timeouts # {} \/ sleeping > 0
             \/ \E r \in BagToSet(net) : r.kind = "tamper" /\ r.step # Orphan

(* The button offers to pause exactly when the show plays. *)
ButtonHonest == hud => (button = "Pause") = playing

ShowConsistent == TypeOK /\ ButtonHonest

(* Told as written: in a show nobody interferes with, whose answers beat   *)
(* the timeouts, on the rows it is meant for, the packets are decided the  *)
(* way the texts of the steps say.  Not so the verdict: step 5 promises    *)
(* no breach, and its verification finds the one of step 2 (Tampered).     *)
Told == [step \in {1, 3, 4, 6} |-> IF step \in {1, 6} THEN "ALLOW" ELSE "DENY"]

MeantFor == "QUARANTINED" \notin OldFound \cup NewFound /\ "AMBIGUOUS" \notin OldFound

Undisturbed == MeantFor /\ clicks = 1 /\ ~rough /\ Existing = Workloads

StoryTold ==
  Undisturbed /\ ProbeLimit >= 3 =>
    \A r \in BagToSet(net) :
      r.kind = "send" /\ r.step > 0 /\ r.answer # Waiting =>
        r.answer.is = Told[r.step]

(* Resets of the page under way, a copy at a time. *)
Resets(bag) ==
  UNION {{r} \X (1 .. bag[r]) :
           r \in {q \in BagToSet(bag) : q.kind = "reset" /\ q.step # Orphan}}

(* The showcase is a slide show. *)
Show == INSTANCE SlideShow WITH
          Slides <- Steps,
          AutoPlay <- FALSE,
          pos <- current,
          running <- playing,
          asked <- Cardinality(Resets(net)) + (IF reloadDue THEN 1 ELSE 0)

ImplementsShow == Show!Spec
=============================================================================

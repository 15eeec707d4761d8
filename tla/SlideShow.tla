------------------------------ MODULE SlideShow ------------------------------
(***************************************************************************)
(* What the dashboard promises of its two self-running presentations, the  *)
(* demo player and the showcase of static/js/app.js: a show of numbered    *)
(* slides that the user steers and that otherwise runs forward, one slide  *)
(* at a time, skips and repeats none, stops at the last one only, and does *)
(* stop.  DemoPlayer and Showcase implement it.                            *)
(***************************************************************************)
EXTENDS Integers

CONSTANTS Slides,      \* number of slides, at least one
          AutoPlay,    \* a show that was asked for starts running
          MaxClicks    \* bound: how often the user interferes

VARIABLES pos,         \* the slide the show is at
          running,     \* it goes on by itself
          asked,       \* shows asked for and not yet begun
          clicks       \* what the user has done so far, counted

showVars == <<pos, running, asked, clicks>>

ShowTypeOK == /\ pos \in 1..Slides
              /\ running \in BOOLEAN
              /\ asked \in 0..MaxClicks
              /\ clicks \in 0..MaxClicks

Init == pos \in 1..Slides /\ running = FALSE /\ asked = 0 /\ clicks = 0

(* The user may go to any slide, pause, resume, and ask for a new show. *)
Steer == /\ clicks < MaxClicks
         /\ clicks' = clicks + 1
         /\ pos' \in 1..Slides
         /\ running' \in BOOLEAN
         /\ asked' \in {asked, asked + 1}

(* A show that was asked for begins at slide 1, or cannot be had; begun,   *)
(* it may stand for several that were asked for.                           *)
Begin == /\ asked > 0
         /\ asked' \in 0 .. asked - 1
         /\ pos' = 1
         /\ running' = AutoPlay
         /\ UNCHANGED clicks

Refuse == /\ asked > 0
          /\ asked' = asked - 1
          /\ UNCHANGED <<pos, running, clicks>>

Advance == /\ running
           /\ pos < Slides
           /\ pos' = pos + 1
           /\ running' \in BOOLEAN
           /\ running' \/ pos' = Slides
           /\ UNCHANGED <<asked, clicks>>

Stop == /\ running
        /\ pos = Slides
        /\ running' = FALSE
        /\ UNCHANGED <<pos, asked, clicks>>

Next == Steer \/ Begin \/ Refuse \/ Advance \/ Stop

Spec == /\ Init /\ [][Next]_showVars
        /\ WF_showVars(Begin \/ Refuse)
        /\ WF_showVars(Advance \/ Stop)
=============================================================================

-------------------------------- MODULE Stage --------------------------------
(***************************************************************************)
(* What the visualizer puts on show: the canvas over the 2D topology with  *)
(* its banner and packet animations (static/js/app.js), and the 3D mesh    *)
(* (static/js/cyber3d.js).  The rest of the dashboard calls in any order;  *)
(* two animation frames and one timeout are the only things that run by    *)
(* themselves.  Lengths, progress and opacity are in thousandths.          *)
(***************************************************************************)
EXTENDS Integers, FiniteSets

CONSTANTS
  Targets,       \* ids of the destinations of the 3D conduits
  Speed,         \* progress of a packet in one frame (16)
  InterceptAt,   \* where a denied packet is stopped (520)
  Fade,          \* opacity a shockwave loses in one frame (25)
  Turn, Zoom,    \* size of one drag and one turn of the wheel
  MaxCalls       \* bound on the calls of the user and the dashboard

Goal == 1000
Opaque == 1000

ASSUME StageAssumption ==
  /\ Speed \in 1..Goal /\ InterceptAt \in 1..Goal /\ Fade \in 1..Opaque
  /\ Turn \in Nat /\ Zoom \in Nat /\ MaxCalls \in Nat

VARIABLES
  visCurrentStatus, \* what the visualizer painted last
  mode,          \* the view displayed
  glow,          \* colour of the rings in the canvas's last frame
  sparks,        \* spark bursts alive: their colours
  frame2D,       \* the canvas has a frame requested
  message,       \* number of the banner's message, 0 when hidden
  hiding,        \* messages whose timeout will hide the banner
  tweens,        \* colours of endless packet animations
  mesh,          \* the 3D scene: ready, loops, status, label, phi, distance
  packets,       \* packets in flight in 3D
  waves,         \* shockwaves
  shots,         \* history: denied packets shot, and denied ones stopped
  calls

canvas == <<glow, sparks, frame2D>>
banner == <<message, hiding>>
flight == <<packets, waves, shots>>
stageVars == <<visCurrentStatus, mode, canvas, banner, tweens, mesh, flight, calls>>

VisStatuses == {"AMBIGUOUS", "CONFIRMED_PAYMENT", "CONFIRMED_STUDENT"}
IsPending(status) == status \in {"AMBIGUOUS", "STARTING"}
Colour(status) == IF IsPending(status) THEN "red" ELSE "green"

PhiMin == 200         \* clamps of the camera
PhiMax == 1532
NearMin == 7500
FarMax == 24000

Clamp(x, low, high) == IF x < low THEN low ELSE IF x > high THEN high ELSE x

Camera == [phi |-> 982, distance |-> 14500]

(* However often the view is switched there is one render loop, and none   *)
(* before the first switch to 3D (initCyber3D).                            *)
OneRenderLoop == mesh.loops = IF mesh.ready THEN 1 ELSE 0

(* Opacity may fall below zero in the frame that removes the wave. *)
StageTypeOK ==
  /\ visCurrentStatus \in VisStatuses
  /\ mode \in {"2D", "3D"}
  /\ glow \in {"red", "green"} /\ sparks \subseteq {"red", "green"}
  /\ frame2D \in BOOLEAN
  /\ message \in 0..MaxCalls /\ hiding \subseteq 1..MaxCalls
  /\ tweens \subseteq {"red", "green"}
  /\ mesh.ready \in BOOLEAN /\ OneRenderLoop
  /\ mesh.label \in {"AMBIGUOUS", "CONFIRMED", "STARTING"}
  /\ mesh.phi \in PhiMin..PhiMax /\ mesh.distance \in NearMin..FarMax
  /\ \A p \in packets : p.progress \in 0 .. Goal - 1
  /\ \A v \in waves : v.opacity \in 1..Opaque
  /\ calls \in 0..MaxCalls

StageInit ==
  /\ visCurrentStatus = "AMBIGUOUS" /\ mode = "2D"
  /\ glow = "red" /\ sparks = {} /\ frame2D = TRUE
  /\ message = 0 /\ hiding = {} /\ tweens = {}
  /\ mesh = [ready |-> FALSE, loops |-> 0, label |-> "AMBIGUOUS",
             phi |-> Camera.phi, distance |-> Camera.distance]
  /\ packets = {} /\ waves = {} /\ shots = [denied |-> 0, stopped |-> 0]
  /\ calls = 0

Call == calls < MaxCalls /\ calls' = calls + 1
-----------------------------------------------------------------------------
(* Calls from the visualizer. *)

(* updateHeroVisualizerState sets visCurrentStatus and starts endless      *)
(* packet animations on top of those that run.  The mesh is not told.      *)
Painted ==
  /\ Call
  /\ \E s \in VisStatuses :
       visCurrentStatus' = s /\ tweens' = tweens \cup {Colour(s)}
  /\ UNCHANGED <<mode, canvas, banner, mesh, flight>>

(* Slip: the timeout of the message before is left to run. *)
ShowBannerUncleared == message' = calls' /\ hiding' = hiding \cup {calls'}

(* showVisualizerBanner clears the timeout it keeps and sets another. *)
ShowBanner == message' = calls' /\ hiding' = {calls'}

(* A decision or a confirmation: sparks, and a banner. *)
Decided ==
  /\ Call /\ ShowBanner
  /\ \E c \in {"red", "green"} : sparks' = sparks \cup {c}
  /\ UNCHANGED <<visCurrentStatus, mode, glow, frame2D, tweens, mesh, flight>>

(* update3DStatus knows CONFIRMED and STARTING, which nobody passes: a     *)
(* workload painted as confirmed is labelled AMBIGUOUS.                    *)
Label3D(status) ==
  IF status \in {"CONFIRMED", "STARTING"} THEN status ELSE "AMBIGUOUS"

(* Slip: a second init builds a second scene. *)
InitMeshAgain(m) == [m EXCEPT !.ready = TRUE, !.loops = @ + 1]

(* initCyber3D: one scene, one render loop, one set of listeners. *)
InitMesh(m) == IF m.ready THEN m
               ELSE [m EXCEPT !.ready = TRUE, !.loops = @ + 1]

(* switchVisualizerMode; also showcaseToggle3D. *)
SwitchMode ==
  /\ Call
  /\ \E to \in {"2D", "3D"} :
       /\ mode' = to
       /\ mesh' = IF to = "2D" THEN mesh
                  ELSE [InitMesh(mesh) EXCEPT !.label = Label3D(visCurrentStatus)]
  /\ UNCHANGED <<visCurrentStatus, canvas, banner, tweens, flight>>

(* Cyber3D.updateStatus from step 2 of the showcase. *)
UpdateStatus ==
  /\ Call /\ mesh.ready
  /\ mesh' = [mesh EXCEPT !.label = Label3D("AMBIGUOUS")]
  /\ UNCHANGED <<visCurrentStatus, mode, canvas, banner, tweens, flight>>

(* Cyber3D.shootPacket finds no conduit before the scene is built; id      *)
(* tells packets apart.  It is part of the interface: its one call, in the *)
(* handler of the reset button, throws before it is made.                  *)
Shoot ==
  /\ Call /\ mesh.ready
  /\ \E t \in Targets, d \in BOOLEAN :
       /\ packets' = packets \cup {[target |-> t, denied |-> d, progress |-> 0,
                                    id |-> calls']}
       /\ shots' = [shots EXCEPT !.denied = IF d THEN @ + 1 ELSE @]
  /\ UNCHANGED <<visCurrentStatus, mode, canvas, banner, tweens, mesh, waves>>

Drag(phi, by) == Clamp(phi + by, PhiMin, PhiMax)

(* A drag, a turn of the wheel, or the reset of the camera. *)
MoveCamera ==
  /\ Call /\ mesh.ready /\ mode = "3D"
  /\ \/ \E by \in {-Turn, Turn} : mesh' = [mesh EXCEPT !.phi = Drag(@, by)]
     \/ \E by \in {-Zoom, Zoom} :
          mesh' = [mesh EXCEPT !.distance = Clamp(@ + by, NearMin, FarMax)]
     \/ mesh' = [mesh EXCEPT !.phi = Camera.phi, !.distance = Camera.distance]
  /\ UNCHANGED <<visCurrentStatus, mode, canvas, banner, tweens, flight>>
-----------------------------------------------------------------------------
(* What runs by itself. *)

HideBanner ==
  /\ \E id \in hiding : hiding' = hiding \ {id}
  /\ message' = 0
  /\ UNCHANGED <<visCurrentStatus, mode, canvas, tweens, mesh, flight, calls>>

(* animateVisualizerCanvas paints from visCurrentStatus, lets sparks die   *)
(* and requests the next frame, displayed or not.                          *)
Frame2D ==
  /\ frame2D /\ UNCHANGED frame2D
  /\ glow' = Colour(visCurrentStatus)
  /\ sparks' \in SUBSET sparks
  /\ UNCHANGED <<visCurrentStatus, mode, banner, tweens, mesh, flight, calls>>

Moved == {[p EXCEPT !.progress = @ + Speed] : p \in packets}

(* Slip: a stopped packet flies on. *)
FlyingPastIntercept == {p \in Moved : p.progress < Goal}

Intercepted == {p \in Moved : p.denied /\ p.progress >= InterceptAt}

(* Those neither stopped nor arrived. *)
Flying == {p \in Moved \ Intercepted : p.progress < Goal}

(* Slip: a faded shockwave is transparent and stays. *)
FadedKept(live) == {[v EXCEPT !.opacity = IF @ > Fade THEN @ - Fade ELSE @] : v \in live}

Faded(live) == {v \in {[x EXCEPT !.opacity = @ - Fade] : x \in live} : v.opacity > 0}

(* A frame of animate: packets first, each stopped one leaving a shockwave *)
(* where it is, then the shockwaves, the new ones included.                *)
Frame3D ==
  /\ mesh.loops > 0
  /\ packets \cup waves # {}
  /\ packets' = Flying
  /\ waves' = Faded(waves \cup
       {[id |-> p.id, opacity |-> Opaque] : p \in Intercepted})
  /\ shots' = [shots EXCEPT !.stopped = @ + Cardinality(Intercepted)]
  /\ UNCHANGED <<visCurrentStatus, mode, canvas, banner, tweens, mesh, calls>>

User == \/ Painted \/ Decided \/ SwitchMode \/ UpdateStatus \/ Shoot
        \/ MoveCamera

Next == User \/ HideBanner \/ Frame2D \/ Frame3D

Spec == /\ StageInit /\ [][Next]_stageVars
        /\ WF_stageVars(HideBanner)
        /\ WF_stageVars(Frame2D)
        /\ WF_stageVars(Frame3D)
-----------------------------------------------------------------------------
(* Properties. *)

(* A message is hidden by its own timeout only: a later message is never   *)
(* cut short by the timeout of an earlier one (showVisualizerBanner).      *)
BannerOwnTimeout == hiding = {message} \ {0}

(* No denied packet reaches its destination or vanishes: each one shot is  *)
(* still short of the intercept or was stopped with a shockwave (animate). *)
DeniedStopped ==
  shots.denied = shots.stopped + Cardinality({p \in packets : p.denied})

(* Everything shot, spawned or shown is gone in the end.  In the program   *)
(* it is the banner that counts: nothing is ever shot (Shoot).             *)
StageClears == <>[](packets = {} /\ waves = {} /\ message = 0)
=============================================================================

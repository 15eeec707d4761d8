----------------------------- MODULE StageProofs -----------------------------
(***************************************************************************)
(* Proofs about what the visualizer puts on show, for any number of calls, *)
(* targets and packets in flight and any speeds of the animations.         *)
(***************************************************************************)
EXTENDS Stage, FiniteSetTheorems, Functions, TLAPS

Mesh == [ready : BOOLEAN, loops : Nat, label : {"AMBIGUOUS", "CONFIRMED", "STARTING"},
         phi : PhiMin..PhiMax, distance : NearMin..FarMax]
Packet == [target : Targets, denied : BOOLEAN, progress : 0 .. Goal - 1, id : 1..MaxCalls]
Wave == [id : 1..MaxCalls, opacity : 1..Opaque]

DeniedIn(ps) == {p \in ps : p.denied}

(* What the canvas, the banner and the painted status hold.                *)
CanvasOK ==
  /\ visCurrentStatus \in VisStatuses /\ mode \in {"2D", "3D"}
  /\ glow \in {"red", "green"} /\ sparks \subseteq {"red", "green"} /\ frame2D \in BOOLEAN
  /\ tweens \subseteq {"red", "green"}

BannerOK ==
  /\ message \in 0..MaxCalls /\ hiding \subseteq 1..MaxCalls /\ BannerOwnTimeout
  /\ calls \in 0..MaxCalls

(* update3DStatus is never passed a status it knows.                       *)
MeshOK == mesh \in Mesh /\ OneRenderLoop /\ mesh.label = "AMBIGUOUS"

(* A packet is numbered by the call that shot it.                          *)
FlightOK ==
  /\ packets \subseteq Packet /\ IsFiniteSet(packets) /\ waves \subseteq Wave
  /\ \A p \in packets : p.id <= calls
  /\ shots \in [denied : Nat, stopped : Nat]
  /\ shots.denied = shots.stopped + Cardinality(DeniedIn(packets))

IInv == CanvasOK /\ BannerOK /\ MeshOK /\ FlightOK

LEMMA Promises ==
  IInv => StageTypeOK /\ BannerOwnTimeout /\ DeniedStopped
<1> SUFFICES ASSUME IInv PROVE StageTypeOK /\ BannerOwnTimeout /\ DeniedStopped
  OBVIOUS
<1>1. StageTypeOK
  BY DEF IInv, CanvasOK, BannerOK, MeshOK, FlightOK, StageTypeOK, Mesh, Packet, Wave
<1>2. BannerOwnTimeout /\ DeniedStopped
  BY DEF IInv, BannerOK, FlightOK, DeniedStopped, DeniedIn
<1> QED
  BY <1>1, <1>2

LEMMA ColourOK == ASSUME NEW s PROVE Colour(s) \in {"red", "green"}
  BY DEF Colour

LEMMA ClampOK ==
  ASSUME NEW x \in Int, NEW low \in Int, NEW high \in Int, low <= high
  PROVE  Clamp(x, low, high) \in low..high
  BY DEF Clamp

LEMMA InitOK == StageInit => IInv
<1> SUFFICES ASSUME StageInit PROVE CanvasOK /\ BannerOK /\ MeshOK /\ FlightOK
  BY DEF IInv
<1> USE DEF StageInit
<1>1. CanvasOK
  <2>1. frame2D \in BOOLEAN
    BY Zenon
  <2> QED
    BY <2>1 DEF CanvasOK, VisStatuses
<1>2. BannerOK
  BY StageAssumption DEF BannerOK, BannerOwnTimeout
<1>3. MeshOK
  BY DEF MeshOK, Mesh, Camera, PhiMin, PhiMax, NearMin, FarMax, OneRenderLoop
<1>4. FlightOK
  <2>1. DeniedIn(packets) = {}
    BY DEF DeniedIn
  <2> QED
    BY <2>1, FS_EmptySet DEF FlightOK
<1> QED
  BY <1>1, <1>2, <1>3, <1>4

-----------------------------------------------------------------------------
(* What a step leaves alone stays as it was. *)

LEMMA SameMesh == ASSUME MeshOK, UNCHANGED mesh PROVE MeshOK'
  BY DEF MeshOK, OneRenderLoop

LEMMA SameFlight ==
  ASSUME FlightOK, UNCHANGED flight, calls \in Int, calls' \in Int, calls <= calls'
  PROVE  FlightOK'
<1>1. \A p \in packets : p.id \in Int
  BY DEF FlightOK, Packet
<1> QED
  BY <1>1 DEF FlightOK, flight, DeniedIn

LEMMA CallOK ==
  ASSUME BannerOK, Call
  PROVE  calls \in Nat /\ calls' \in 1..MaxCalls /\ calls <= calls' /\ calls' = calls + 1
  BY StageAssumption DEF Call, BannerOK

LEMMA CallBanner == ASSUME BannerOK, Call, UNCHANGED banner PROVE BannerOK'
  BY CallOK DEF BannerOK, banner, BannerOwnTimeout

-----------------------------------------------------------------------------
(* A frame moves each packet by itself: no two become one. *)

MovedOne(p) == [p EXCEPT !.progress = @ + Speed]

LEMMA MovedDenied ==
  ASSUME FlightOK
  PROVE  /\ IsFiniteSet(DeniedIn(Moved))
         /\ Cardinality(DeniedIn(Moved)) = Cardinality(DeniedIn(packets))
<1> DEFINE S == DeniedIn(packets)
           T == DeniedIn(Moved)
           f == [p \in S |-> MovedOne(p)]
<1>1. \A p \in packets : /\ p \in Packet
                         /\ MovedOne(p).denied = p.denied
                         /\ MovedOne(p).progress = p.progress + Speed
                         /\ MovedOne(p).target = p.target /\ MovedOne(p).id = p.id
                         /\ p.progress \in Int
  BY DEF FlightOK, Packet, MovedOne
<1>2. \A p, q \in packets : MovedOne(p) = MovedOne(q) => p = q
  <2> SUFFICES ASSUME NEW p \in packets, NEW q \in packets, MovedOne(p) = MovedOne(q)
               PROVE  p = q
    OBVIOUS
  <2>1. p.denied = q.denied /\ p.target = q.target /\ p.id = q.id
    BY <1>1
  <2>2. p.progress = q.progress
    BY <1>1, StageAssumption
  <2> QED
    BY <1>1, <2>1, <2>2 DEF Packet
<1>3. Moved = {MovedOne(p) : p \in packets}
  BY DEF Moved, MovedOne
<1>4. f \in [S -> T]
  BY <1>1, <1>3 DEF DeniedIn
<1>5. \A p, q \in S : f[p] = f[q] => p = q
  BY <1>2 DEF DeniedIn
<1>6. \A t \in T : \E p \in S : f[p] = t
  BY <1>1, <1>3 DEF DeniedIn
<1>7. f \in Bijection(S, T)
  <2> HIDE DEF f, S, T
  <2> QED
    BY <1>4, <1>5, <1>6 DEF Bijection, Injection, Surjection, IsInjective
<1>8. IsFiniteSet(S)
  BY FS_Subset DEF FlightOK, DeniedIn
<1> QED
  BY <1>7, <1>8, FS_Bijection DEF ExistsBijection

LEMMA LessOne ==
  ASSUME NEW x \in Int, NEW y \in Int, x <= 1000, y >= 1, x - y > 0
  PROVE  x - y \in 1..1000
  OBVIOUS

LEMMA MovedFields ==
  ASSUME NEW p \in Packet
  PROVE  MovedOne(p) = [target |-> p.target, denied |-> p.denied,
                        progress |-> p.progress + Speed, id |-> p.id]
  BY DEF MovedOne, Packet

LEMMA FrameOK == ASSUME IInv, Frame3D PROVE FlightOK'
<1>1. /\ FlightOK /\ calls' = calls
      /\ Speed \in 1..1000 /\ Fade \in 1..1000 /\ InterceptAt \in 1..1000
  BY StageAssumption DEF IInv, Frame3D, Goal, Opaque
<1>2. \A m \in Moved : /\ m.target \in Targets /\ m.denied \in BOOLEAN /\ m.id \in 1..MaxCalls
                       /\ m.progress \in Nat /\ m.id <= calls
                       /\ m.progress < Goal => m \in Packet
                       /\ \E p \in packets : m = MovedOne(p)
  <2> TAKE m \in Moved
  <2>1. PICK p \in packets : m = MovedOne(p)
    BY DEF Moved, MovedOne
  <2>2. p \in Packet /\ p.id <= calls
    BY <1>1 DEF FlightOK
  <2>3. m = [target |-> p.target, denied |-> p.denied, progress |-> p.progress + Speed, id |-> p.id]
    BY <2>1, <2>2, MovedFields
  <2>4. /\ p.target \in Targets /\ p.denied \in BOOLEAN /\ p.id \in 1..MaxCalls
        /\ p.progress \in 0..999
    BY <2>2 DEF Packet, Goal
  <2>5. p.progress + Speed \in Nat
    <3>1. p.progress \in Nat /\ Speed \in Nat
      BY <1>1, <2>4
    <3> QED
      BY <3>1
  <2>6. ASSUME m.progress < Goal PROVE m \in Packet
    <3>1. p.progress + Speed \in 0..999
      BY <2>3, <2>5, <2>6 DEF Goal
    <3> QED
      BY <2>3, <2>4, <3>1 DEF Packet, Goal
  <2>7. m.target = p.target /\ m.denied = p.denied /\ m.progress = p.progress + Speed /\ m.id = p.id
    BY <2>3
  <2>8. p.id <= calls
    BY <2>2
  <2> HIDE <2>3
  <2> QED
    BY <2>1, <2>4, <2>5, <2>6, <2>7, <2>8
<1>3. packets' \subseteq Packet
  BY <1>2 DEF Frame3D, Flying
<1>4. IsFiniteSet(packets')
  <2> DEFINE back(m) == [target |-> m.target, denied |-> m.denied,
                         progress |-> m.progress - Speed, id |-> m.id]
             f       == [m \in Moved |-> back(m)]
  <2>1. \A m \in Moved : \E p \in packets : m = MovedOne(p) /\ back(m) = p
    <3> TAKE m \in Moved
    <3>1. PICK p \in packets : m = MovedOne(p)
      BY <1>2
    <3>2. p \in Packet
      BY <1>1 DEF FlightOK
    <3>3. m = [target |-> p.target, denied |-> p.denied, progress |-> p.progress + Speed, id |-> p.id]
      BY <3>1, <3>2, MovedFields
    <3>4. m.progress - Speed = p.progress
      BY <1>1, <3>2, <3>3 DEF Packet
    <3>5. back(m) = [target |-> p.target, denied |-> p.denied, progress |-> p.progress, id |-> p.id]
      BY <3>3, <3>4
    <3>6. back(m) = p
      <4> HIDE DEF back
      <4> QED
        BY <3>2, <3>5 DEF Packet
    <3> QED
      BY <3>1, <3>6
  <2> HIDE DEF back
  <2>2. f \in [Moved -> packets] /\ \A m, n \in Moved : f[m] = f[n] => m = n
    <3>1. \A m \in Moved : back(m) \in packets /\ m = MovedOne(back(m))
      BY <2>1
    <3> QED
      BY <3>1
  <2> HIDE DEF f
  <2>3. f \in Injection(Moved, packets)
    BY <2>2 DEF Injection, IsInjective
  <2>4. IsFiniteSet(Moved)
    BY <1>1, <2>3, FS_Injection DEF FlightOK
  <2> QED
    BY <2>4, FS_Subset DEF Frame3D, Flying
<1>5. \A p \in packets' : p.id <= calls'
  BY <1>1, <1>2 DEF Frame3D, Flying
<1>6. waves' \subseteq Wave
  <2> DEFINE born == {[id |-> p.id, opacity |-> Opaque] : p \in Intercepted}
             live == waves \cup born
  <2>1. born \subseteq Wave
    BY <1>2 DEF Intercepted, Wave, Opaque
  <2>2. live \subseteq Wave
    BY <1>1, <2>1 DEF FlightOK
  <2>3. waves' = Faded(live)
    BY DEF Frame3D
  <2> HIDE DEF live
  <2>4. \A x \in Wave : LET v == [x EXCEPT !.opacity = @ - Fade] IN v.opacity > 0 => v \in Wave
    <3> TAKE x \in Wave
    <3>1. x.id \in 1..MaxCalls /\ x.opacity \in 1..1000
      BY DEF Wave, Opaque
    <3>2. [x EXCEPT !.opacity = @ - Fade] = [id |-> x.id, opacity |-> x.opacity - Fade]
      BY DEF Wave
    <3>3. x.opacity \in Int /\ x.opacity <= 1000 /\ Fade \in Int /\ Fade >= 1
      BY <1>1, <3>1
    <3>4. x.opacity - Fade > 0 => x.opacity - Fade \in 1..1000
      BY <3>3, LessOne
    <3> QED
      BY <3>1, <3>2, <3>4 DEF Wave, Opaque
  <2> QED
    BY <2>2, <2>3, <2>4 DEF Faded
<1>7. /\ DeniedIn(Moved) = Intercepted \cup DeniedIn(packets')
      /\ Intercepted \cap DeniedIn(packets') = {}
  <2>1. packets' = {p \in Moved \ Intercepted : p.progress < Goal}
    BY DEF Frame3D, Flying
  <2>2. \A m \in Moved : m.denied /\ m \notin Intercepted => m.progress < Goal
    BY <1>1, <1>2 DEF Intercepted, Goal
  <2> QED
    BY <2>1, <2>2 DEF DeniedIn, Intercepted
<1>8. /\ IsFiniteSet(Intercepted) /\ IsFiniteSet(DeniedIn(packets'))
      /\ Cardinality(Intercepted) \in Nat /\ Cardinality(DeniedIn(packets')) \in Nat
      /\ Cardinality(DeniedIn(packets)) = Cardinality(Intercepted) + Cardinality(DeniedIn(packets'))
  <2>1. IsFiniteSet(Intercepted) /\ IsFiniteSet(DeniedIn(packets'))
    BY <1>1, <1>7, MovedDenied, FS_Subset
  <2>2. Cardinality(Intercepted \cap DeniedIn(packets')) = 0
    BY <1>7, FS_EmptySet
  <2>3. Cardinality(Intercepted) \in Nat /\ Cardinality(DeniedIn(packets')) \in Nat
    BY <2>1, FS_CardinalityType
  <2> QED
    <3>1. Cardinality(DeniedIn(Moved)) = Cardinality(DeniedIn(packets))
      BY <1>1, MovedDenied
    <3>2. Cardinality(Intercepted \cup DeniedIn(packets'))
            = Cardinality(Intercepted) + Cardinality(DeniedIn(packets'))
                - Cardinality(Intercepted \cap DeniedIn(packets'))
      BY <2>1, FS_Union
    <3>3. Cardinality(DeniedIn(packets)) = Cardinality(Intercepted) + Cardinality(DeniedIn(packets'))
      BY <1>7, <2>2, <2>3, <3>1, <3>2
    <3> QED
      BY <2>1, <2>3, <3>3
<1>9. /\ shots' \in [denied : Nat, stopped : Nat]
      /\ shots'.denied = shots'.stopped + Cardinality(DeniedIn(packets'))
  <2>1. /\ shots' = [shots EXCEPT !.stopped = @ + Cardinality(Intercepted)]
        /\ shots \in [denied : Nat, stopped : Nat]
        /\ shots.denied = shots.stopped + Cardinality(DeniedIn(packets))
    BY <1>1 DEF Frame3D, FlightOK
  <2>2. /\ shots'.denied = shots.denied
        /\ shots'.stopped = shots.stopped + Cardinality(Intercepted)
        /\ shots' \in [denied : Nat, stopped : Nat]
    BY <1>8, <2>1
  <2> QED
    BY <1>8, <2>1, <2>2
<1>10. DeniedIn(packets)' = DeniedIn(packets')
  BY DEF DeniedIn
<1> QED
  BY <1>3, <1>4, <1>5, <1>6, <1>9, <1>10 DEF FlightOK

LEMMA ShootOK == ASSUME IInv, Shoot PROVE FlightOK'
<1>1. FlightOK /\ calls \in Nat /\ calls' = calls + 1 /\ calls' \in 1..MaxCalls
  BY CallOK DEF IInv, Shoot
<1>2. PICK t \in Targets, d \in BOOLEAN :
        /\ packets' = packets \cup {[target |-> t, denied |-> d, progress |-> 0, id |-> calls']}
        /\ shots' = [shots EXCEPT !.denied = IF d THEN @ + 1 ELSE @]
  BY DEF Shoot
<1> DEFINE new == [target |-> t, denied |-> d, progress |-> 0, id |-> calls']
<1>3. new \in Packet /\ new.id = calls' /\ new.denied = d
  BY <1>1 DEF Packet, Goal
<1> HIDE DEF new
<1>4. packets' = packets \cup {new}
  BY <1>2 DEF new
<1>5. \A p \in packets : p.id \in Int /\ p.id <= calls
  BY <1>1 DEF FlightOK, Packet
<1>6. new \notin packets
  BY <1>1, <1>3, <1>5
<1>7. IsFiniteSet(packets') /\ IsFiniteSet(DeniedIn(packets))
  BY <1>1, <1>4, FS_AddElement, FS_Subset DEF FlightOK, DeniedIn
<1>8. Cardinality(DeniedIn(packets)) \in Nat
  BY <1>7, FS_CardinalityType
<1>9. Cardinality(DeniedIn(packets')) = Cardinality(DeniedIn(packets)) + (IF d THEN 1 ELSE 0)
  <2>1. CASE d
    <3>1. DeniedIn(packets') = DeniedIn(packets) \cup {new} /\ new \notin DeniedIn(packets)
      BY <1>3, <1>4, <1>6, <2>1 DEF DeniedIn
    <3> QED
      BY <1>7, <2>1, <3>1, FS_AddElement
  <2>2. CASE ~d
    <3>1. DeniedIn(packets') = DeniedIn(packets)
      BY <1>3, <1>4, <2>2 DEF DeniedIn
    <3> QED
      BY <1>8, <2>2, <3>1
  <2> QED
    BY <2>1, <2>2
<1>10. /\ shots \in [denied : Nat, stopped : Nat]
       /\ shots.denied = shots.stopped + Cardinality(DeniedIn(packets))
  BY <1>1 DEF FlightOK
<1>11. /\ shots' \in [denied : Nat, stopped : Nat]
       /\ shots'.denied = shots'.stopped + Cardinality(DeniedIn(packets'))
  BY <1>2, <1>8, <1>9, <1>10
<1>12. /\ packets' \subseteq Packet /\ \A p \in packets' : p.id <= calls'
       /\ waves' \subseteq Wave
  BY <1>1, <1>3, <1>4, <1>5 DEF FlightOK, Shoot
<1>13. DeniedIn(packets)' = DeniedIn(packets')
  BY DEF DeniedIn
<1> QED
  BY <1>7, <1>11, <1>12, <1>13 DEF FlightOK

-----------------------------------------------------------------------------
LEMMA MeshStepOK ==
  ASSUME IInv, SwitchMode \/ UpdateStatus \/ MoveCamera
  PROVE  MeshOK'
<1>1. /\ mesh \in Mesh /\ OneRenderLoop /\ mesh.label = "AMBIGUOUS"
      /\ visCurrentStatus \in VisStatuses
  BY DEF IInv, MeshOK, CanvasOK
<1> USE DEF Mesh
<1>2. CASE SwitchMode
  <2>1. Label3D(visCurrentStatus) = "AMBIGUOUS"
    BY <1>1 DEF Label3D, VisStatuses
  <2>2. PICK to \in {"2D", "3D"} :
          mesh' = IF to = "2D" THEN mesh
                  ELSE [InitMesh(mesh) EXCEPT !.label = Label3D(visCurrentStatus)]
    BY <1>2 DEF SwitchMode
  <2>3. /\ InitMesh(mesh) \in Mesh /\ InitMesh(mesh).ready /\ InitMesh(mesh).loops = 1
    <3>1. CASE mesh.ready
      BY <1>1, <3>1 DEF InitMesh, OneRenderLoop
    <3>2. CASE ~mesh.ready
      <4>1. mesh.loops = 0
        BY <1>1, <3>2 DEF OneRenderLoop
      <4>2. InitMesh(mesh) = [mesh EXCEPT !.ready = TRUE, !.loops = 1]
        BY <3>2, <4>1 DEF InitMesh
      <4> QED
        <5>1. /\ mesh.ready \in BOOLEAN /\ mesh.label \in {"AMBIGUOUS", "CONFIRMED", "STARTING"}
              /\ mesh.phi \in PhiMin..PhiMax /\ mesh.distance \in NearMin..FarMax
          BY <1>1
        <5>2. InitMesh(mesh) = [ready |-> TRUE, loops |-> 1, label |-> mesh.label,
                                phi |-> mesh.phi, distance |-> mesh.distance]
          BY <1>1, <4>2
        <5>3. TRUE \in BOOLEAN
          BY Zenon
        <5> QED
          BY <5>1, <5>2, <5>3
    <3> QED
      BY <3>1, <3>2
  <2>4. CASE to = "2D"
    BY <1>1, <2>2, <2>4 DEF MeshOK, OneRenderLoop
  <2>5. CASE to = "3D"
    BY <1>1, <2>1, <2>2, <2>3, <2>5 DEF MeshOK, OneRenderLoop
  <2> QED
    BY <2>4, <2>5
<1>3. CASE UpdateStatus
  BY <1>1, <1>3 DEF UpdateStatus, Label3D, MeshOK, OneRenderLoop
<1>4. CASE MoveCamera
  <2>1. ASSUME NEW by \in Int PROVE Drag(mesh.phi, by) \in PhiMin..PhiMax
    <3>1. mesh.phi + by \in Int /\ PhiMin \in Int /\ PhiMax \in Int /\ PhiMin <= PhiMax
      <4>1. mesh.phi \in Int
        BY <1>1 DEF PhiMin, PhiMax
      <4>2. by \in Int
        BY <2>1
      <4> HIDE DEF Mesh
      <4> QED
        BY <4>1, <4>2 DEF PhiMin, PhiMax
    <3> QED
      BY <3>1, ClampOK DEF Drag
  <2>2. ASSUME NEW by \in Int PROVE Clamp(mesh.distance + by, NearMin, FarMax) \in NearMin..FarMax
    <3>1. mesh.distance + by \in Int /\ NearMin \in Int /\ FarMax \in Int /\ NearMin <= FarMax
      <4>0. mesh.distance \in NearMin..FarMax
        BY <1>1
      <4> HIDE DEF Mesh
      <4>1. mesh.distance \in Int
        BY <4>0
      <4>2. by \in Int
        BY <2>2
      <4> QED
        BY <4>1, <4>2 DEF NearMin, FarMax
    <3> QED
      BY <3>1, ClampOK
  <2>3. Camera.phi \in PhiMin..PhiMax /\ Camera.distance \in NearMin..FarMax
    BY DEF Camera, PhiMin, PhiMax, NearMin, FarMax
  <2>4. \E phi \in PhiMin..PhiMax, distance \in NearMin..FarMax :
            mesh' = [mesh EXCEPT !.phi = phi, !.distance = distance]
    <3>1. {-Turn, Turn} \subseteq Int /\ {-Zoom, Zoom} \subseteq Int
      BY StageAssumption
    <3>2. ASSUME NEW by \in {-Turn, Turn}, mesh' = [mesh EXCEPT !.phi = Drag(@, by)]
          PROVE  mesh' = [mesh EXCEPT !.phi = Drag(mesh.phi, by), !.distance = mesh.distance]
      BY <1>1, <3>2
    <3>3. ASSUME NEW by \in {-Zoom, Zoom},
                 mesh' = [mesh EXCEPT !.distance = Clamp(@ + by, NearMin, FarMax)]
          PROVE  mesh' = [mesh EXCEPT !.phi = mesh.phi,
                                      !.distance = Clamp(mesh.distance + by, NearMin, FarMax)]
      BY <1>1, <3>3
    <3> QED
      BY <1>1, <1>4, <2>1, <2>2, <2>3, <3>1, <3>2, <3>3 DEF MoveCamera
  <2> QED
    BY <1>1, <2>4 DEF MeshOK, OneRenderLoop
<1> QED
  BY <1>2, <1>3, <1>4

LEMMA StepOK == ASSUME IInv, [Next]_stageVars PROVE IInv'
<1>1. /\ CanvasOK /\ BannerOK /\ MeshOK /\ FlightOK
      /\ calls \in Int /\ MaxCalls \in Nat
  BY StageAssumption DEF IInv, BannerOK
<1>2. SUFFICES CanvasOK' /\ BannerOK' /\ MeshOK' /\ FlightOK'
  BY DEF IInv
<1>3. ASSUME UNCHANGED <<visCurrentStatus, mode, canvas, tweens>> PROVE CanvasOK'
  BY <1>1, <1>3 DEF CanvasOK, canvas
<1>4. ASSUME Call, UNCHANGED flight PROVE FlightOK'
  BY <1>1, <1>4, CallOK, SameFlight
<1>5. CASE Painted
  <2>1. CanvasOK'
    BY <1>1, <1>5, ColourOK DEF Painted, CanvasOK, canvas
  <2> QED
    BY <1>1, <1>4, <1>5, <2>1, CallBanner, SameMesh DEF Painted
<1>6. CASE Decided
  <2>1. CanvasOK'
    BY <1>1, <1>6 DEF Decided, CanvasOK
  <2>2. BannerOK'
    BY <1>1, <1>6, CallOK DEF Decided, ShowBanner, BannerOK, BannerOwnTimeout
  <2> QED
    BY <1>1, <1>4, <1>6, <2>1, <2>2, SameMesh DEF Decided
<1>7. CASE SwitchMode
  <2>1. CanvasOK'
    BY <1>1, <1>7 DEF SwitchMode, CanvasOK, canvas
  <2> QED
    BY <1>1, <1>4, <1>7, <2>1, CallBanner, MeshStepOK DEF SwitchMode
<1>8. CASE UpdateStatus
  BY <1>1, <1>3, <1>4, <1>8, CallBanner, MeshStepOK DEF UpdateStatus
<1>9. CASE MoveCamera
  BY <1>1, <1>3, <1>4, <1>9, CallBanner, MeshStepOK DEF MoveCamera
<1>10. CASE Shoot
  BY <1>1, <1>3, <1>10, CallBanner, SameMesh, ShootOK DEF Shoot
<1>11. CASE HideBanner
  <2>1. BannerOK'
    BY <1>1, <1>11 DEF HideBanner, BannerOK, BannerOwnTimeout
  <2> QED
    BY <1>1, <1>3, <1>11, <2>1, SameMesh, SameFlight DEF HideBanner
<1>12. CASE Frame2D
  <2>1. CanvasOK'
    BY <1>1, <1>12, ColourOK DEF Frame2D, CanvasOK
  <2>2. BannerOK'
    BY <1>1, <1>12 DEF Frame2D, BannerOK, banner, BannerOwnTimeout
  <2> QED
    BY <1>1, <1>12, <2>1, <2>2, SameMesh, SameFlight DEF Frame2D
<1>13. CASE Frame3D
  <2>1. BannerOK'
    BY <1>1, <1>13 DEF Frame3D, BannerOK, banner, BannerOwnTimeout
  <2> QED
    BY <1>1, <1>3, <1>13, <2>1, SameMesh, FrameOK DEF Frame3D
<1>14. CASE UNCHANGED stageVars
  <2>1. BannerOK'
    BY <1>1, <1>14 DEF stageVars, BannerOK, banner, BannerOwnTimeout
  <2> QED
    BY <1>1, <1>3, <1>14, <2>1, SameMesh, SameFlight DEF stageVars
<1> QED
  BY <1>5, <1>6, <1>7, <1>8, <1>9, <1>10, <1>11, <1>12, <1>13, <1>14 DEF Next, User

(* What every call of the visualizer and every frame keeps (app.js,        *)
(* cyber3d.js).                                                            *)
THEOREM StageInvariant == Spec => []IInv
  BY InitOK, StepOK, PTL DEF Spec

(* However often the view is switched there is one scene and one render    *)
(* loop (initCyber3D), the camera stays within its clamps, and no packet   *)
(* or shockwave outlives its end (animate).                                *)
THEOREM StageKeepsShape == Spec => []StageTypeOK
  BY StageInvariant, Promises, PTL

(* showVisualizerBanner: a message is hidden by its own timeout only.      *)
THEOREM BannerKeepsItsTime == Spec => []BannerOwnTimeout
  BY StageInvariant, Promises, PTL

(* animate loses no denied packet, whatever the speed of a frame and the   *)
(* number of packets: each is in flight or was stopped with a shockwave.   *)
THEOREM DeniedAreStopped == Spec => []DeniedStopped
  BY StageInvariant, Promises, PTL
=============================================================================

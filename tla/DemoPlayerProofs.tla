--------------------------- MODULE DemoPlayerProofs ---------------------------
(***************************************************************************)
(* Proofs about the demo player, for any number of scenes and of clicks:   *)
(* one interval at most, a display that follows, and a step-by-step        *)
(* refinement of SlideShow.                                                *)
(***************************************************************************)
EXTENDS DemoPlayer, FiniteSetTheorems, TLAPS

(* The four properties hold each other up; a post is one click.            *)
IInv == PlayerConsistent /\ OneInterval /\ posts <= clicks

(* What the handlers share leaves the timer, its handle and the flag in    *)
(* agreement, and the display on the current scene.                        *)
PlaybackOK ==
  /\ demoPlayerTimer \in Nat \cup {NoTimer}
  /\ intervals \subseteq Nat
  /\ demoIsPlaying \in BOOLEAN /\ label \in {"Play", "Pause"} /\ abandoned \in BOOLEAN
  /\ OneInterval /\ PlayingBacked

PlaceOK ==
  /\ demoScenes \in {0, Scenes}
  /\ idx \in -1 .. Scenes - 1 /\ shown \in -1 .. Scenes - 1
  /\ IndexInRange /\ DisplayFollows

BoundsOK ==
  /\ open \in BOOLEAN
  /\ posts \in 0..MaxClicks /\ clicks \in 0..MaxClicks /\ posts <= clicks

LEMMA Parts == IInv <=> PlaybackOK /\ PlaceOK /\ BoundsOK /\ ButtonHonest
  BY DEF IInv, PlayerConsistent, TypeOK, PlaybackOK, PlaceOK, BoundsOK

LEMMA InitOK == Init => IInv
<1> SUFFICES ASSUME Init PROVE PlaybackOK /\ PlaceOK /\ BoundsOK /\ ButtonHonest
  BY Parts
<1>1. PlaybackOK
  BY DEF Init, PlaybackOK, OneInterval, PlayingBacked
<1>2. PlaceOK
  BY DemoAssumption DEF Init, PlaceOK, IndexInRange, DisplayFollows
<1>3. BoundsOK
  <2>1. open \in BOOLEAN
    BY Zenon DEF Init
  <2> QED
    BY <2>1, DemoAssumption DEF Init, BoundsOK
<1>4. ButtonHonest
  BY DEF Init, ButtonHonest
<1> QED
  BY <1>1, <1>2, <1>3, <1>4

(* Whatever ran before, the new interval is the only one.                  *)
LEMMA StartPlayOK ==
  ASSUME PlaybackOK, StartPlay
  PROVE  PlaybackOK' /\ demoPlayerTimer' # NoTimer
<1> DEFINE live == intervals \ {demoPlayerTimer}
<1>1. live = {}
  BY DEF PlaybackOK, OneInterval
<1>2. Cardinality(live) = 0
  BY <1>1, FS_EmptySet
<1>3. NewInterval(live) \in 1..1
  BY <1>1, <1>2 DEF NewInterval
<1>4. demoPlayerTimer' \in Nat /\ intervals' = {demoPlayerTimer'}
  BY <1>1, <1>3 DEF StartPlay
<1> QED
  BY <1>4, DemoAssumption DEF StartPlay, PlaybackOK, OneInterval, PlayingBacked

LEMMA PausePlayOK ==
  ASSUME PlaybackOK, PausePlay
  PROVE  PlaybackOK' /\ demoPlayerTimer' = NoTimer /\ intervals' = {}
  BY DEF PlaybackOK, PausePlay, OneInterval, PlayingBacked

LEMMA SamePlayback == ASSUME PlaybackOK, UNCHANGED playback PROVE PlaybackOK'
  BY DEF PlaybackOK, playback, OneInterval, PlayingBacked

LEMMA SamePlace == ASSUME PlaceOK, UNCHANGED player PROVE PlaceOK'
  BY DEF PlaceOK, player, IndexInRange, DisplayFollows, Last

LEMMA GoToOK ==
  ASSUME PlaceOK, NEW s \in -1 .. Scenes - 1, GoTo(s), demoScenes > 0 => s \in 0..Last
  PROVE  PlaceOK'
  BY DemoAssumption DEF PlaceOK, GoTo, Render, IndexInRange, DisplayFollows, Last

(* What starts or pauses the show tells the button; nothing else touches   *)
(* flag, button or scenes.                                                 *)
LEMMA ButtonOK == ASSUME IInv, [Next]_vars PROVE ButtonHonest'
<1>1. ASSUME StartPlay \/ PausePlay PROVE ButtonHonest'
  BY <1>1, Zenon DEF StartPlay, PausePlay, ButtonHonest
<1>2. ASSUME UNCHANGED <<label, demoIsPlaying, demoScenes>> PROVE ButtonHonest'
  BY <1>2 DEF IInv, PlayerConsistent, ButtonHonest
<1>3. CASE User
  BY <1>1, <1>2, <1>3
     DEF User, Trigger, Close, TogglePlay, NextScene, PrevScene, GoToScene, Replay, SkipToEnd,
         player, playback
<1>4. CASE Answer \/ AnswerFailed \/ Tick
  BY <1>1, <1>2, <1>4 DEF Answer, AnswerFailed, Tick, GoTo, player, playback
<1>5. CASE UNCHANGED vars
  BY <1>2, <1>5 DEF vars, player, playback
<1> QED
  BY <1>3, <1>4, <1>5 DEF Next, Idle

(* The user's handlers.                                                    *)
LEMMA UserOK == ASSUME IInv, User PROVE IInv'
<1>1. /\ PlaybackOK /\ PlaceOK /\ BoundsOK
      /\ demoScenes \in {0, Scenes} /\ idx \in -1 .. Scenes - 1
      /\ demoScenes > 0 => idx \in 0..Last
      /\ Scenes \in Nat \ {0} /\ MaxClicks \in Nat
  BY Parts, DemoAssumption DEF PlaceOK, IndexInRange
<1>2. SUFFICES PlaybackOK' /\ PlaceOK' /\ BoundsOK'
  BY Parts, ButtonOK DEF Next, IInv, PlayerConsistent, TypeOK, PlaybackOK, PlaceOK, BoundsOK
<1>3. CASE Trigger
  <2>1. BoundsOK'
    BY <1>1, <1>3 DEF Trigger, Click, BoundsOK
  <2> QED
    BY <1>1, <1>3, <2>1, SamePlayback, SamePlace DEF Trigger
<1>4. CASE Close
  <2>1. BoundsOK'
    <3>1. open' \in BOOLEAN
      BY <1>4, Zenon DEF Close
    <3> QED
      BY <1>1, <1>4, <3>1 DEF Close, Click, BoundsOK, player
  <2>2. PlaybackOK'
    BY <1>1, <1>4 DEF Close, PlaybackOK, OneInterval, PlayingBacked
  <2> QED
    BY <1>1, <1>4, <2>1, <2>2, SamePlace DEF Close
<1>5. ASSUME Press PROVE BoundsOK'
  BY <1>1, <1>5 DEF Press, Click, BoundsOK
<1>6. CASE TogglePlay
  <2>1. PlaybackOK'
    BY <1>1, <1>6, PausePlayOK, StartPlayOK DEF TogglePlay
  <2>2. PlaceOK'
    BY <1>1, <1>6 DEF TogglePlay, PlaceOK, IndexInRange, DisplayFollows, Last
  <2> QED
    BY <1>5, <1>6, <2>1, <2>2 DEF TogglePlay
<1>7. CASE NextScene
  <2>1. PlaceOK'
    BY <1>1, <1>7, GoToOK, SamePlace DEF NextScene, Stay, Last
  <2> QED
    BY <1>1, <1>5, <1>7, <2>1, PausePlayOK DEF NextScene
<1>8. CASE PrevScene
  <2>1. PlaceOK'
    BY <1>1, <1>8, GoToOK, SamePlace DEF PrevScene, Stay, Last
  <2> QED
    BY <1>1, <1>5, <1>8, <2>1, PausePlayOK DEF PrevScene
<1>9. CASE GoToScene
  <2>1. PICK s \in 0 .. Scenes - 1 : GoTo(IF s > Last THEN IF Last < 0 THEN 0 ELSE Last ELSE s)
    BY <1>9 DEF GoToScene
  <2>2. PlaceOK'
    BY <1>1, <2>1, GoToOK DEF Last
  <2> QED
    BY <1>1, <1>5, <1>9, <2>2, PausePlayOK DEF GoToScene
<1>10. CASE Replay
  <2>1. PlaceOK'
    BY <1>1, <1>10, GoToOK DEF Replay, Last
  <2> QED
    BY <1>1, <1>5, <1>10, <2>1, StartPlayOK DEF Replay
<1>11. CASE SkipToEnd
  <2>1. PlaceOK'
    BY <1>1, <1>11, GoToOK DEF SkipToEnd, Last
  <2> QED
    BY <1>1, <1>5, <1>11, <2>1, PausePlayOK DEF SkipToEnd
<1> QED
  BY <1>3, <1>4, <1>6, <1>7, <1>8, <1>9, <1>10, <1>11 DEF User

LEMMA StepOK == ASSUME IInv, [Next]_vars PROVE IInv'
<1>1. /\ PlaybackOK /\ PlaceOK /\ BoundsOK
      /\ demoScenes \in {0, Scenes} /\ idx \in -1 .. Scenes - 1
      /\ demoScenes > 0 => idx \in 0..Last
      /\ Scenes \in Nat \ {0} /\ MaxClicks \in Nat
  BY Parts, DemoAssumption DEF PlaceOK, IndexInRange
<1>2. (PlaybackOK' /\ PlaceOK' /\ BoundsOK') => IInv'
  BY ButtonOK DEF IInv, PlayerConsistent, TypeOK, PlaybackOK, PlaceOK, BoundsOK
<1>3. CASE Answer
  <2>1. BoundsOK'
    BY <1>1, <1>3 DEF Answer, BoundsOK
  <2>2. PlaceOK'
    BY <1>1, <1>3 DEF Answer, Render, PlaceOK, IndexInRange, DisplayFollows, Last
  <2> QED
    BY <1>1, <1>2, <1>3, <2>1, <2>2, StartPlayOK DEF Answer
<1>4. CASE AnswerFailed
  <2>1. BoundsOK'
    BY <1>1, <1>4 DEF AnswerFailed, BoundsOK
  <2> QED
    BY <1>1, <1>2, <1>4, <2>1, SamePlayback, SamePlace DEF AnswerFailed
<1>5. CASE Tick
  <2>1. BoundsOK'
    BY <1>1, <1>5 DEF Tick, BoundsOK
  <2>2. CASE idx < Last
    BY <1>1, <1>2, <1>5, <2>1, <2>2, GoToOK, SamePlayback DEF Tick, Last
  <2>3. CASE ~(idx < Last)
    BY <1>1, <1>2, <1>5, <2>1, <2>3, PausePlayOK, SamePlace DEF Tick, Stay
  <2> QED
    BY <2>2, <2>3
<1>6. CASE UNCHANGED vars
  BY <1>1, <1>2, <1>6, SamePlayback, SamePlace DEF vars, BoundsOK
<1> QED
  BY <1>3, <1>4, <1>5, <1>6, UserOK DEF Next, Idle

(* What every handler, tick and late answer of the player keeps.           *)
THEOREM PlayerInvariant == Spec => []IInv
  BY InitOK, StepOK, PTL DEF Spec

(* demoStartPlay, demoPausePlay and closeAllModals keep at most one        *)
(* interval alive, and it is the one the player can silence, in whatever   *)
(* order clicks, ticks and late answers come.                              *)
THEOREM PlayerHasOneInterval == Spec => []OneInterval
<1>1. IInv => OneInterval
  BY DEF IInv
<1> QED
  BY <1>1, PlayerInvariant, PTL

(* The demo player never points past its scenes, never shows another scene *)
(* than the current one except after the rewind of demoTogglePlay, plays   *)
(* by its interval unless the modal was closed on it, and its button tells *)
(* which, once there are scenes.                                           *)
THEOREM PlayerStaysConsistent == Spec => []PlayerConsistent
<1>1. IInv => PlayerConsistent
  BY DEF IInv
<1> QED
  BY <1>1, PlayerInvariant, PTL

-----------------------------------------------------------------------------
(* The refinement. *)

LEMMA ShowInit == Init => Show!Init
  BY DemoAssumption DEF Init, Show!Init

LEMMA ShowStep == ASSUME IInv, IInv', [Next]_vars PROVE [Show!Next]_(Show!showVars)
<1>1. /\ demoScenes \in {0, Scenes} /\ idx \in -1 .. Scenes - 1
      /\ demoScenes > 0 => idx \in 0..Last
      /\ Scenes \in Nat \ {0} /\ OneInterval /\ PlaybackOK
  BY Parts, DemoAssumption DEF PlaceOK, IndexInRange, PlaybackOK
<1>2. (IF demoScenes' = 0 THEN Scenes ELSE idx' + 1) \in 1..Scenes
  <2>1. demoScenes' \in {0, Scenes} /\ (demoScenes' > 0 => idx' \in 0 .. demoScenes' - 1)
    BY DEF IInv, PlayerConsistent, TypeOK, IndexInRange, Last
  <2> QED
    BY <1>1, <2>1
<1>3. CASE User
  <2>1. /\ clicks < MaxClicks /\ clicks' = clicks + 1
        /\ posts' \in {posts, posts + 1}
    BY <1>3 DEF User, Trigger, Close, TogglePlay, NextScene, PrevScene, GoToScene, Replay,
                SkipToEnd, Press, Click
  <2> QED
    BY <1>2, <2>1 DEF Show!Next, Show!Steer
<1>4. CASE Answer
  <2>1. demoPlayerTimer' # NoTimer
    BY <1>1, <1>4, StartPlayOK DEF Answer
  <2>2. posts > 0 /\ posts' = posts - 1 /\ demoScenes' # 0 /\ idx' = 0 /\ UNCHANGED clicks
    BY <1>1, <1>4 DEF Answer
  <2>3. posts \in Nat
    BY DEF IInv, PlayerConsistent, TypeOK
  <2> QED
    BY <2>1, <2>2, <2>3 DEF Show!Next, Show!Begin
<1>5. CASE AnswerFailed
  BY <1>5 DEF AnswerFailed, player, playback, Show!Next, Show!Refuse
<1>6. CASE Tick
  <2>1. demoPlayerTimer # NoTimer
    BY <1>1, <1>6 DEF Tick, OneInterval
  <2>2. CASE idx < Last
    <3>1. /\ demoScenes = Scenes /\ demoScenes' = demoScenes /\ idx' = idx + 1
          /\ UNCHANGED <<demoPlayerTimer, posts, clicks>>
      BY <1>1, <1>6, <2>2 DEF Tick, GoTo, playback, Last
    <3>2. idx + 1 < Scenes
      BY <1>1, <2>2, <3>1 DEF Last
    <3> QED
      BY <1>1, <2>1, <3>1, <3>2 DEF Show!Next, Show!Advance
  <2>3. CASE ~(idx < Last)
    <3>1. demoPlayerTimer' = NoTimer /\ UNCHANGED <<demoScenes, idx, posts, clicks>>
      BY <1>6, <2>3 DEF Tick, PausePlay, Stay, player
    <3>2. (IF demoScenes = 0 THEN Scenes ELSE idx + 1) = Scenes
      BY <1>1, <2>3 DEF Last
    <3> QED
      BY <2>1, <3>1, <3>2 DEF Show!Next, Show!Stop
  <2> QED
    BY <2>2, <2>3
<1>7. CASE UNCHANGED vars
  BY <1>7 DEF vars, player, playback, Show!showVars
<1> QED
  BY <1>3, <1>4, <1>5, <1>6, <1>7 DEF Next, Idle

(* The demo player is a slide show step by step: by itself it only goes    *)
(* forward, one scene at a time, and stops at the last scene only; every   *)
(* answer of /api/demo/run begins a show at the first scene.               *)
THEOREM PlaysSlideShow == Spec => Show!Init /\ [][Show!Next]_(Show!showVars)
  BY ShowInit, ShowStep, PlayerInvariant, PTL DEF Spec

=============================================================================

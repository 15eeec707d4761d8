----------------------------- MODULE DemoPlayer -----------------------------
(***************************************************************************)
(* The demo player of static/js/app.js: a modal that posts                 *)
(* /api/demo/run and plays the scenes of the answer with an interval.      *)
(* Every function runs to completion; what interleaves is clicks, ticks of *)
(* live intervals and answers to the posts.                                *)
(***************************************************************************)
EXTENDS Integers, FiniteSets

CONSTANTS Scenes,      \* scenes of a demo (10 in the code)
          MaxClicks,   \* bound on user actions
          NoTimer      \* null

ASSUME DemoAssumption == /\ Scenes \in Nat \ {0}
                         /\ MaxClicks \in Nat
                         /\ NoTimer \notin Nat

VARIABLES
  open,                \* the modal has class "open"
  posts,               \* posts of /api/demo/run in flight
  demoScenes,          \* length of the array: 0 before the first answer
  idx,                 \* demoCurrentSceneIdx
  shown,               \* the scene rendered last, -1 before the first
  demoPlayerTimer,     \* handle kept of the interval
  intervals,           \* intervals the browser runs
  demoIsPlaying,
  label,               \* text of the play button
  abandoned,           \* history: the modal was closed on a running show
  clicks               \* user actions so far

player == <<demoScenes, idx, shown>>
playback == <<demoPlayerTimer, intervals, demoIsPlaying, label, abandoned>>
vars == <<open, posts, player, playback, clicks>>

Last == demoScenes - 1

TypeOK ==
  /\ open \in BOOLEAN
  /\ posts \in 0..MaxClicks
  /\ demoScenes \in {0, Scenes}
  /\ idx \in -1 .. Scenes - 1
  /\ shown \in -1 .. Scenes - 1
  /\ demoPlayerTimer \in Nat \cup {NoTimer}
  /\ intervals \subseteq Nat
  /\ demoIsPlaying \in BOOLEAN
  /\ label \in {"Play", "Pause"}
  /\ abandoned \in BOOLEAN
  /\ clicks \in 0..MaxClicks

Init ==
  /\ open = FALSE /\ posts = 0
  /\ demoScenes = 0 /\ idx = 0 /\ shown = -1
  /\ demoPlayerTimer = NoTimer /\ intervals = {}
  /\ demoIsPlaying = FALSE /\ abandoned = FALSE
  /\ label = "Pause"      \* the text of the template
  /\ clicks = 0
-----------------------------------------------------------------------------
(* Parts of the handlers. *)

(* demoRenderCurrentScene, once the current scene is s. *)
Render(s) == shown' = IF demoScenes' = 0 THEN shown ELSE s

GoTo(s) == idx' = s /\ UNCHANGED demoScenes /\ Render(s)

Stay == UNCHANGED player

(* setInterval returns a handle no live interval has. *)
NewInterval(live) ==
  CHOOSE h \in 1 .. Cardinality(live) + 1 : h \notin live

(* Slip: the old interval is not cleared before the new one is set. *)
StartPlayLeaking ==
  /\ demoPlayerTimer' = NewInterval(intervals)
  /\ intervals' = intervals \cup {demoPlayerTimer'}
  /\ demoIsPlaying' = TRUE /\ label' = "Pause" /\ abandoned' = FALSE

(* Slip: the button is not told.                                           *)
PausePlaySilently ==
  /\ demoIsPlaying' = FALSE /\ abandoned' = FALSE /\ UNCHANGED label
  /\ intervals' = intervals \ {demoPlayerTimer}
  /\ demoPlayerTimer' = NoTimer

StartPlay ==
  LET live == intervals \ {demoPlayerTimer} IN
  /\ demoPlayerTimer' = NewInterval(live)
  /\ intervals' = live \cup {demoPlayerTimer'}
  /\ demoIsPlaying' = TRUE /\ label' = "Pause" /\ abandoned' = FALSE

PausePlay ==
  /\ demoIsPlaying' = FALSE /\ label' = "Play" /\ abandoned' = FALSE
  /\ intervals' = intervals \ {demoPlayerTimer}
  /\ demoPlayerTimer' = NoTimer

Click == clicks < MaxClicks /\ clicks' = clicks + 1

(* The controls lie inside the modal, what opens it behind its backdrop. *)
Press == Click /\ open /\ UNCHANGED <<open, posts>>
-----------------------------------------------------------------------------
(* User actions. *)

(* triggerSecurityDemo, up to its first await. *)
Trigger ==
  /\ Click /\ ~open
  /\ open' = TRUE
  /\ posts' = posts + 1
  /\ UNCHANGED <<player, playback>>

(* closeAllModals clears the interval and leaves demoIsPlaying and the     *)
(* label as they are.                                                      *)
Close ==
  /\ Click /\ open
  /\ open' = FALSE
  /\ intervals' = intervals \ {demoPlayerTimer}
  /\ demoPlayerTimer' = NoTimer
  /\ abandoned' = (abandoned \/ demoPlayerTimer # NoTimer)
  /\ UNCHANGED <<posts, player, demoIsPlaying, label>>

(* Resuming at the end rewinds without rendering. *)
TogglePlay ==
  /\ Press
  /\ UNCHANGED <<demoScenes, shown>>
  /\ IF demoIsPlaying
       THEN PausePlay /\ UNCHANGED idx
       ELSE StartPlay /\ idx' = IF idx >= Last THEN 0 ELSE idx

NextScene == /\ Press /\ PausePlay
             /\ IF idx < Last THEN GoTo(idx + 1) ELSE Stay

PrevScene == /\ Press /\ PausePlay
             /\ IF idx > 0 THEN GoTo(idx - 1) ELSE Stay

(* demoGoToScene, from one of the ten dots. *)
GoToScene == /\ Press /\ PausePlay
             /\ \E s \in 0 .. Scenes - 1 :
                  GoTo(IF s > Last THEN IF Last < 0 THEN 0 ELSE Last ELSE s)

Replay == Press /\ GoTo(0) /\ StartPlay

(* Before the first answer this makes the index -1. *)
SkipToEnd == Press /\ PausePlay /\ GoTo(Last)

User == \/ Trigger \/ Close \/ TogglePlay \/ NextScene \/ PrevScene
        \/ GoToScene \/ Replay \/ SkipToEnd
-----------------------------------------------------------------------------
(* What the browser does. *)

(* The demo ran: its scenes play from the first, in the open modal or      *)
(* behind a closed one.                                                    *)
Answer ==
  /\ posts > 0 /\ posts' = posts - 1
  /\ demoScenes' = Scenes /\ idx' = 0 /\ Render(0)
  /\ StartPlay
  /\ UNCHANGED <<open, clicks>>

(* The demo failed, or the fetch did: an alert or a line on the console. *)
AnswerFailed ==
  /\ posts > 0 /\ posts' = posts - 1
  /\ UNCHANGED <<open, player, playback, clicks>>

(* Slip: the show never notices that it is over. *)
TickForever ==
  /\ intervals # {}
  /\ GoTo(IF idx < Last THEN idx + 1 ELSE 0)
  /\ UNCHANGED <<open, posts, playback, clicks>>

(* A live interval calls its function, which reads the shared state. *)
Tick ==
  /\ intervals # {}
  /\ IF idx < Last THEN GoTo(idx + 1) /\ UNCHANGED playback
                   ELSE PausePlay /\ Stay
  /\ UNCHANGED <<open, posts, clicks>>

(* Nothing left to do: no user action within the bound, nothing pending. *)
Idle == /\ clicks = MaxClicks /\ posts = 0 /\ intervals = {}
        /\ UNCHANGED vars

Next == User \/ Answer \/ AnswerFailed \/ Tick \/ Idle

(* The browser runs its timers and delivers answers; users need not click. *)
Spec == /\ Init /\ [][Next]_vars
        /\ WF_vars(Tick)
        /\ WF_vars(Answer \/ AnswerFailed)
-----------------------------------------------------------------------------
(* Properties. *)

(* The only interval alive is the one the player holds a handle of, so a   *)
(* pause or a close always silences the show, however play, replay,        *)
(* answers and closes follow each other (demoStartPlay, closeAllModals).   *)
OneInterval == intervals = {demoPlayerTimer} \ {NoTimer}

(* The index denotes a scene whenever there are scenes: no order of        *)
(* skips before the answer and ticks after it renders undefined.           *)
IndexInRange == demoScenes > 0 => idx \in 0..Last

(* The display shows the current scene, except after resuming at the end,  *)
(* which rewinds without rendering: then it still shows the last.          *)
DisplayFollows ==
  demoScenes > 0 => shown = idx \/ (idx = 0 /\ shown = Last)

(* A player that believes it is playing has its interval, unless the modal *)
(* was closed on it: only then the button offers to pause a dead show.     *)
PlayingBacked == demoIsPlaying = (demoPlayerTimer # NoTimer \/ abandoned)

(* The button offers to pause exactly while the player believes it plays,  *)
(* except on a modal that has no scenes yet: the template says Pause.      *)
ButtonHonest ==
  \/ label = "Pause" <=> demoIsPlaying
  \/ label = "Pause" /\ demoScenes = 0

(* What the user sees and may press agrees with what the player does,      *)
(* however clicks, ticks and late answers follow each other.               *)
PlayerConsistent ==
  TypeOK /\ IndexInRange /\ DisplayFollows /\ PlayingBacked /\ ButtonHonest

(* The player is a slide show: by itself it only goes forward, scene by    *)
(* scene, and it comes to rest.                                            *)
Show == INSTANCE SlideShow WITH
          Slides <- Scenes,
          AutoPlay <- TRUE,
          pos <- IF demoScenes = 0 THEN Scenes ELSE idx + 1,
          running <- demoPlayerTimer # NoTimer,
          asked <- posts

ImplementsShow == Show!Spec
=============================================================================

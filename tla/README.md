# SegLabel: formal models, model checking and proofs

SegLabel is a microsegmentation command center. Workloads register with an
*identity signal*; until their identity is confirmed they are in an *ambiguity
window* in which every communication must be denied; afterwards a policy table
decides. A retroactive verifier audits the window. This directory holds TLA+
models of the server, TLC configurations that check them on small instances, and
TLAPS proofs for all instances. Line numbers refer to `src/`.

## 1. Inventory

| Part | Source | State | Operations | Hard behaviour |
|---|---|---|---|---|
| Request threads, shared database | `app.py`, `database/db.py`, `schema.sql` | 7 SQLite tables, wall clock | one thread per request; `init_db`, `reset_db` | every service method opens its own connections: a handler is a series of transactions and clock readings that interleave with the others' |
| IdentityManager | `services/identity_manager.py` | `workloads`, `identity_events` | create, confirm, quarantine, revoke, timeout scan | check-then-act on a stale row, unconditional UPDATEs, a loop over a snapshot |
| CommunicationEngine | `services/communication_engine.py` | `communication_requests`, `audit_logs` | simulate_request, inject_tampered_request | decides on a row read several steps earlier; counts before it records; calls quarantine in the middle |
| VerificationService | `services/verification_service.py` | `verification_results` | verify_ambiguity_window | row, clock and requests are read at different times; boundaries of the window |
| PolicyEngine | `services/policy_engine.py` | `policies`, `destinations` | add/delete policy, add destination, evaluate | three reads for one decision |
| Login limiter, sessions | `routes/auth_routes.py`, `services/auth_service.py` | failure lists per address, sessions | login, logout | unlocked read-modify-write of a list, sliding window |
| SPIFFE service | `services/spiffe_service.py` | none (signed tokens) | issue, verify | expiry boundary, token outliving a status |
| DemoService | `services/demo_service.py` | rows with fixed ids | four scripted scenarios | deletes and registers anew rows that others use, those of other demos and of open pages included |
| Compliance, audit, statistics | `compliance_service.py`, `audit_service.py`, `/api/stats` | none | reports of many reads | torn reads |
| Policy exporter | `policy_exporter_service.py` | none | three text formats | none (formatting) |
| Demo player | `static/js/app.js:2397-2626` | scenes, index, interval, playing flag | play, pause, next, previous, jump, replay, skip, close | late answers start intervals, closing does not stop the flag |
| Visualizer, showcase | `static/js/app.js:818-1092, 2712-2882` | selection, painted panel; step, timeout, button | send, confirm, reset; six scripted steps | answers of any fetch in any order, steps that await before they arm the timer, a reload under way |
| Stage | `static/js/app.js:376-816`, `static/js/cyber3d.js` | canvas, banner, packets, shockwaves, camera | paint, banner, shoot, switch view, drag | loops that re-request themselves, one timer handle for all banners, thresholds crossed by steps |
| Login page | `static/js/login.js` | button, banner, timers | submit, answers, timers | timers of earlier attempts fire during later ones |
| Dashboard pages | `static/js/app.js:6-369, 1500-2165`, `templates/` | rows shown, filters, counters, selections | load, simulate, verify, filter, edit rules, reset | overlapping loads, animations that overwrite later answers, scripts sharing one scope |
| Attacks and compliance pages, vendored libraries, configuration | `templates/`, `static/`, `config.py` | none | none | none |

What makes each part correct is in section 4; the hazards with their lines are in
`PROJECT.json`.

How they interact: the API routes call the services; CommunicationEngine calls
`get_workload` and `quarantine_workload` of IdentityManager and `evaluate` of
PolicyEngine; the confirm and spiffe-attest routes call VerificationService after
IdentityManager; everybody shares the database, which is the only channel between
threads. A page calls the API with `fetch`; each of its handlers runs to its first
`await` and goes on when the answer is there, whatever happened in between. The
showcase drives the visualizer, which calls the stage; all three share the
selection of the page.

## 2. Modules

The server is a chain of modules, each adding a component to the one before; each
part of the browser is a module or a small chain of its own.

| Module | Models | State |
|---|---|---|
| `Server` | threads, rows, events, the clock | `workloads`, `events`, `clock`, `job`, `served` |
| `IdentityManager` | `identity_manager.py` and its routes | the above |
| `CommunicationEngine` | `communication_engine.py` and its routes | + `requests` |
| `VerificationService` | `verification_service.py` and its routes | + `results` |
| `SegLabel` | the composition, `reset_db`, restart, the properties | all |
| `MCSegLabel` | instances of the server for TLC | |
| `SegLabelProofs`, `TrailProofs`, `SerialProofs` | theorems about the server, each module on top of the one before | |
| `SlideShow` | abstract specification of a self-running presentation | `pos`, `running`, `asked` |
| `DemoPlayer` | the modal of the demo and its interval; implements `SlideShow` | scenes, index, interval, label |
| `Visualizer` | selector, panel and buttons, over a server of one step per request that others use too | rows, bag of requests, page |
| `Showcase` | the six steps and their timeouts, over `Visualizer`; implements `SlideShow` | + step, timer, button |
| `Stage` | canvas, banner, 3D mesh | status, banner, packets, waves, mesh |
| `LoginLimiter` | `POST /login`: the failure list and its threads | list, jobs |
| `Login` | the login page over `LoginLimiter` | + page, session, button, banner, timers |
| `PageShell` | loading of scripts, calls and their failures, selector and server of a dashboard page | page, scripts, calls, lost posts, rows |
| `Counter` | `animateCounter` | number, counts under way |
| `SimulatorPage`, `VerificationPage`, `TablePages` | the pages' own handlers, over `PageShell` | what each page shows |
| `Pages` | the composition of the pages and their properties | all |
| `DemoPlayerProofs`, `ShowcaseProofs`, `StageProofs`, `LoginProofs`, `PagesProofs` | theorems about `DemoPlayer`, `Showcase`, `Stage`, `Login` and `Pages` | |

### The server

**State.** `workloads[w]` is the row of table `workloads` with id `w`, or `NoRow`.
Its columns are `signal` (initial_identity_signal), `current`, `confirmed`,
`status`, `started` and `confirmedAt` (0 is NULL). `events[w]` is the trail in
`identity_events`. `requests` holds the rows of `communication_requests`; the copy
in `audit_logs` is inserted by the same transaction, so one set stands for both.
The field `reason` determines `decision`. `results` is `verification_results`.
`job[p]` holds the local variables of the handler running on thread `p`.

**Grain of atomicity.** One action per database transaction or single read, and
one per clock reading. Between two of them any other thread can do anything. This
is what SQLite gives: a transaction (`with conn:`) is atomic and isolated, and two
accesses on different connections, or two statements outside a transaction, are
not. Steps named `...Start` take a request up to its first access, `...Stamp`
reads the clock, `...Write`, `...Insert` and `...Store` are the transactions. A
request refused at once (404, 409) is a `...Start` that leaves `job` as it is.

**Containment is a procedure.** `quarantine_workload` and `revoke_workload` differ
in the status they write; the first is called by its route, by the timeout scan
and by the probe detector. `ContainRead`, `ContainStamp`, `ContainWrite` are its
steps, and `AfterContain` says where the caller goes on: the scan swallows an
exception and takes the next workload, the engine goes on to record the request
only after a success, the routes answer.

**Abstractions.** Identities, ids and destinations are model values. Reasons of
evaluate that deny (`INVALID_DESTINATION`, `UNKNOWN_IDENTITY`, `NO_POLICY`,
`POLICY_DENY`) are one value, `POLICY_DENY`. The policy table is the constant
`PolicyAllows`. ISO timestamps compare like the integers that replace them. The
5-second wait for SQLite's lock and its `database is locked` error are left out. Such
an error rolls the transaction back and ends the handler, which is what `Restart` does
to it too; only inside the scan it does not, since the scan swallows the exception of
one workload and goes on with the next, as `AfterContain` does when a row is missing.
The parameters `started_at` of create_workload and `override_timestamp` of
simulate_request are left out because no route passes them. The SPIFFE attest route is
the confirm route once the token has been accepted. A scan quarantines its workloads
in any order, of which the code's (by creation) is one. Texts (names, descriptions,
explanations, the verifier's report) are left out.

### The browser

**Grain of atomicity.** JavaScript runs one function at a time, so a handler is one
action up to its first `await` and another from there on. Timers, animation frames,
answers and clicks are the actions that interleave. Answers come in any order: the
requests of a page form a bag. In `Visualizer` with `Lossy`, and on the dashboard pages
always, a fetch may fail at any moment, before or after the server acted, and a post
that failed before may still reach it afterwards (`astray`). A page that reloads leaves
its unsent posts behind as orphans that may do so too.

**The server behind a page** takes one step per request: `Visualizer` and `PageShell`
keep of a row what a page can tell apart (status, identity, the number of probes,
whether a breach was recorded). What happens inside such a step is `SegLabel`. Two
statuses that the visualizer treats alike are one. A row may be in any status a demo,
a reset or an operator left it in when the page is opened (`Servers`), and they go on
meanwhile (`Elsewhere`): rows are deleted and registered anew under the same id with
any status, as `/api/demo/run` does (`demo_service.py:26-50`), confirmed, contained,
probed and tampered with; rules, events and fleet of the dashboard pages change.
`showcase` leaves the others out (`Shared`), since its story is that of an undisturbed
show; `lost_answers` and `pages` have them.

**Timers** are sets of live handles; a handle kept by the page may be spent. Lengths
of time appear only as order, which is the weakest assumption: a timeout may fire
before or after any answer. `StoryTold` needs more and asks for it (`Undisturbed`:
one click and answers that beat the timeouts).

**Ages instead of times.** `LoginLimiter` keeps of each failure its age, so time needs
no bound; the list is how many entries it has of each age. The list is read, pruned
into a new list, and stored back in three steps without a lock, and an append goes to
the list object looked up before it, which may have been replaced meanwhile.

**Loading.** Classic scripts share one global scope; `Evaluate` skips a script that
declares a name again. On two pages the skipped script is all of `app.js`.

**History variables** (`abandoned`, `rough`, `raced`, `woken`, `overtaken`, `unseen`,
`dropped`, `unheard`, `skipped`, `overrun`, `failed`, `newest`, `goal`, `shots`, the field
`born` of a row in `Visualizer`, the field `fleet` of a job) are read by properties only;
each names the one situation in which a property is allowed to fail, or what it counts
against.

## 3. Runs

| Run | Instance | Shows |
|---|---|---|
| `serial` | 1 thread, 2 workloads, 8 operations, 4 requests | without overlap the code keeps the promises of its documentation: reuse is detected, nothing settled is undone, revocation severs, the verdict is exact, the trail is a history |
| `concurrent` | 2 threads, 1 workload, 5 operations, 3 requests, a clock that steps back and forth | what survives arbitrary interleaving: row consistency, fail-closed, a bounded overshoot of the probe limit, decisions backed by the trail, and that what was settled is undone only by a handler overtaken between its read and its write, or by a probe stamped before the confirmation because the clock stepped back |
| `reset_restart` | 2 threads, all operations, 4 requests | foreign keys and trail agree with the rows when the tables are emptied under a running handler or the process dies between transactions |
| `progress` | 2 threads, 2 workloads, 2 requests, weak fairness | requests are answered, expired workloads contained, confirmations verified |
| `demo_player` | 10 scenes, 8 clicks | one interval, an index that denotes a scene, an honest display and button, and the refinement of `SlideShow` with its liveness |
| `showcase` | any rows the show is meant for, 3 clicks, probe limit 3 (the story sends three packets), one request under way when user or timer acts | one timeout, an honest button, packets decided as the texts say, and the refinement of `SlideShow` |
| `lost_answers` | any rows, lost answers, other clients, 2 clicks or acts of theirs, probe limit 1 | the panel fails closed for the row it has painted; a playing showcase is never stuck |
| `stage` | 2 targets, 5 calls | one render loop, a banner hidden by its own timeout, denied packets all stopped, everything cleared in the end |
| `login` | 2 threads, limit 1, window of 2 ticks, other clients | lockouts are justified, guessing is bounded, lockouts end, the form recovers |
| `pages` | 7 pages, 2 workloads, 2 rules, 3 actions of the user or of others, calls that fail | what a page shows at rest is what its last answer said, with named exceptions |

Two runs end in a violation, quoted in `PROJECT.json` under `findings`:

| Run | Property | What happens |
|---|---|---|
| `race_containment` | `ContainmentSticks` | a confirmation that read the row before a revocation writes CONFIRMED over REVOKED |
| `dead_pages` | `PagesPopulated` | the inline scripts of `workloads.html` and `audit.html` declare with `let` a name that `app.js` declares too, so none of `app.js` is evaluated there and the pages never load their rows |

**Bounds.** In the server runs `MaxOps` bounds the requests received (a restart
counts as one). Three are two racing handlers and one more; four are register,
confirm, contain and communicate on one workload; with `ProbeLimit` 1 instead of 5,
three requests reach the probe limit and overshoot it. Two threads show every race
between two handlers; the proofs cover any number. `Ticks` says how the clock moves
between readings: by one, or by plus or minus one. `TTLs = {0}` makes expiry happen
as soon as the clock has moved. Threads are interchangeable, so the two-thread
safety runs use symmetry; the liveness run does not. `MaxClicks`, `MaxCalls` and
`MaxActions` bound what users do; one click may leave any number of timers and
answers behind, and these are not bounded by it. Eight clicks let the demo player
be asked twice, closed, paused, resumed and skipped in one behaviour; three on the
showcase cover a restart inside each of its awaits and a pause and resume around
them. `MaxInFlight` keeps the user and the timeouts from acting while more than one
request is under way; handlers themselves may still send several. `stage` uses
`Speed` 300 and `InterceptAt` 520 for the code's 16 and 520 of 1000: a denied
packet needs two frames to the intercept and would need four to the goal, so both
thresholds are crossed by a step that does not hit them. `MaxFailed` 1 with two
threads lets a failure be lost and the limit be overshot; `Window` 2 has an age that
counts and an age that ages. `pages` has `MaxBreaches` 2: a verdict counts up to 2, and
passes 1 on its way.

**Deadlock** is checked except in `pages` and `dead_pages`, whose bounded users
simply stop; the others have an explicit end (`Quiet`, `Idle`, `Settled`) or never end.

**Fairness.** `FairSpec` has weak fairness of `Serve(p)` for each thread: the
operating system schedules every runnable thread, and a handler blocks on nothing
but SQLite's lock, which its holder releases at the end of its transaction. In the
browser, timers that are due, answers that have arrived and requested frames are
eventually run by its event loop, and time passes. A call that does not fail is served
and answered eventually; a call may fail instead, and then its catch is what happens.
There is no fairness on requests from clients, on anything a user or another client
does, on failures, or on restarts.

## 4. Properties

Server (`SegLabel`):

* `TypeOK`: tables, records and locals keep their shape.
* `RowConsistent`: a CONFIRMED row has an owner, that owner in force and a closed
  window; a pending row reports its own first signal and has an open window.
* `FailClosed`: a request allowed by policy belongs to a workload outside its
  window. The engine decides on an old row, so this rests on the fact that no
  writer ever moves a row back into its window.
* `ProbesBounded`: at most `ProbeLimit + threads - 1` probes are recorded before
  containment starts.
* `OnlyOverlapsUndo`: no write re-checks what its handler read, so what was settled
  can be undone (`Undoes`: another owner, containment lifted, a confirmed workload
  quarantined unasked). Every such write is one of a handler that another handler
  overtook between its read and its write (`Overtaken`), with one exception that needs
  no overlap: a probe stamped before the confirmation it has read, because the clock
  stepped back, counts as one of the window and may quarantine (`ClockBack`).
  `NothingUndone` says that without overlap, under a clock that advances, no write does.
* `DecisionsBacked`, `TrailMatchesRow`, `TrailChains`: records against the trail.
* `ReuseDetected`, `VerdictExact`, `Severed`: what the documentation promises,
  while requests do not overlap.
* `Answered`, `ExpiredContained`, `ConfirmVerified`: liveness.

Presentations: `ImplementsShow` of `DemoPlayer` and of `Showcase` is the refinement
of `SlideShow`: by itself a show only goes forward, one slide at a time, skips and
repeats none, stops at the last slide only, and does stop. It catches what single
handlers do not show: two intervals are two ticks a period, but each is a legal
step; that there is never a second one is `OneInterval`, `OneTimeout`. `NeverStuck`
is the opposite hazard, a showcase that believes to be playing with nothing left to
move it. `PlayerConsistent` ties index, display, flag, interval and button label;
`ShowConsistent` ties flag and button.

Visualizer: `PanelFailsClosed`: no stale answer paints ALLOWED for a workload still in
its window. It rests on the server never reopening the window of a row. A row that is
deleted and registered anew is another row with the same id (`born`), and until the next
answer the panel shows the old one; that is the named exception.

Stage: `BannerOwnTimeout`, `DeniedStopped`, `StageClears`, and in `StageTypeOK` the single
render loop and the camera's clamps. What concerns packets is about the interface of the
mesh: in the program none ever flies, because the only call of `shoot3DPacket`
(`app.js:195`) throws on its argument before it is made.

Login: `LockoutHonest` and `FailuresBounded` bound the limiter from both sides, up
to the two ways in which its unlocked list can go wrong; `LockoutEnds`;
`FormConsistent` and `GrantKept` for the form.

Pages: `TablesConsistent`; `DecisionsAgree` (box and flow monitor); `AnimationsSettle`;
`ReadYourWrites`: a table of rules at rest is the server's, unless an earlier load was
answered last (`overtaken`), or no load was sent since the tab reset the server, an edit
or the newest load of its own failed, or somebody else changed the rules (`unseen`);
`Settles`: an announced run comes to its answer, unless its own call or one that
overlaps it failed (`dropped`, `unheard`).

Each property of a passing run has a *slip* in the component modules (an operator
such as `ReusedIfConfirmed` above `Reused`): replacing the definition by its slip
makes the run fail. They are listed under `mutants`.

### Where code and documentation part

Besides the two runs above, modelling showed these; the models contain them as the
code has them.

* A second confirmation overwrites the identity of a first one that overlaps it
  (`identity_manager.py:196`; README.md:336 promises immutability), and the timeout
  scan quarantines a workload confirmed after its snapshot
  (`identity_manager.py:331`). Both are steps that `OnlyOverlapsUndo` describes. The
  third needs no overlap: with a clock stepped back a probe of a confirmed workload is
  stamped before its confirmation and counts as one of the window
  (`communication_engine.py:41`).
* Two overlapping registrations escape the reuse check (`identity_manager.py:45`;
  README.md:88). A registration that carries an explicit status skips it without
  any overlap (`identity_manager.py:50`), so `serial` leaves that form out.
* A request that read its row before a revocation is allowed and stamped after it
  (`communication_engine.py:26`; README.md:337).
* At the tick of the confirmation the engine uses `<` (`communication_engine.py:41`)
  and the verifier `<=` (`verification_service.py:32`), so a clock that repeats a
  reading makes a legitimate ALLOW a breach; `VerdictExact` is checked with a clock
  that does not.
* Attempts towards a pending peer are denied before the probe count
  (`communication_engine.py:64`), so a workload that only probes those is never
  quarantined.
* An open visualizer goes on painting ALLOWED for a row that a demo or a new
  registration has replaced by a pending one of the same id: nothing tells the page
  (`demo_service.py:26-50`); `PanelFailsClosed` excuses it (`born`).
* The toast of the visualizer's reset says "W-NEW restored to Ambiguous"
  (`app.js:952`), but `reset_db` leaves no rows (`db.py:90-118`): `HandleReset`.
* A confirmation in the visualizer is announced with "Retroactive verification
  executed with 0 breaches" whatever the verification found (`app.js:940`), and step 5
  of the showcase with "closes cleanly with zero security breaches" (`app.js:2770`).
  Step 2 has injected a request allowed inside the window (`app.js:2736`), so the
  verdict of an undisturbed show is FAIL.
* The 3D label of a confirmed workload reads AMBIGUOUS: `update3DStatus` knows
  CONFIRMED and STARTING (`cyber3d.js:534-548`), the switch to 3D passes
  `visCurrentStatus` (`app.js:996`), which is CONFIRMED_PAYMENT or CONFIRMED_STUDENT.
  `Label3D` models it; in `StageProofs` the invariant says that the label never changes.
* The visualizer paints every status but AMBIGUOUS and STARTING as confirmed
  (`app.js:995`), a quarantined workload included, under a comment that says
  "Confirmed State" (`app.js:1023`).
* The reset button's handler names an undeclared `destination`
  (`app.js:195`) after the answer and ends in its catch: the reset happened,
  the page neither says so nor reloads. `AfterReset` models it, and `ReadYourWrites`
  excuses a reset (`unseen`). The call in question is the only one of `shoot3DPacket`.
* A simulation or a verification whose call fails leaves "Evaluating" or "Running" on
  the page for ever (`app.js:1732`, `app.js:2030`): the catch only logs. `Settles`
  names both.
* The table of policies is stale after a failed load (`app.js:2124`), after an edit
  that the server made but whose answer was lost (`app.js:2151`, `app.js:2161`), and
  after changes elsewhere, until the next load; `ReadYourWrites` names these cases.
* The flow monitor shows the answer to a failed request as allowed
  (`app.js:1812`); `DecisionsAgree` states it.
* A verdict FAIL is overwritten by the count-up of an earlier pass
  (`app.js:1969`), and a counter asked for the number it happens to show keeps
  running (`app.js:336`); `AnimationsSettle` names both exceptions.

## 5. Proofs

Proved by TLAPS for every value of the constants. The assumptions are those the
modules state with their constants and TLC evaluates: typing, NULL is no value of a
column, `Blank` and `Nobody` are not ids, the sets of threads and workloads of a page
are finite, limits are positive, packets stop before their goal. Bounds of the runs
(`MaxOps`, `MaxClicks`, `MaxActions` and so on) are arbitrary numbers in the proofs.

Every module below has one lemma per action, and under it one step per part of the
invariant that the action can disturb; `Promises`, where there is one, derives the
properties from the inductive invariant.

| Module | Proved | Hypothesis | Argument |
|---|---|---|---|
| `SegLabelProofs` | `TypeOK`, `RowConsistent`; `FailClosed` | `FailClosed`: no reset | locals at each control point; what stale copies imply |
| `TrailProofs` | `TrailMatchesRow`, `OnlyOverlapsUndo`, `ProbesBounded`; `DecisionsBacked` | `DecisionsBacked`: no reset | a trail outlives the locals that refer to it; counting threads |
| `SerialProofs` | `Severed`, `VerdictExact`, `TrailChains`, `NothingUndone`; `ReuseDetected` | requests that do not overlap, over any number of threads, and a clock that advances; `ReuseDetected`: no overlap, no form asks for STARTING | at most one thread has a request; nothing on record carries the present time, and its locals are the rows |
| `DemoPlayerProofs` | `OneInterval`, `PlayerConsistent`, and that each step is one of `SlideShow` or a stutter | none | the handle silences the interval; a scene is a slide |
| `ShowcaseProofs` | `OneTimeout`, `NeverStuck`, `ShowConsistent`, `PanelFailsClosed`; `StoryTold`; that each step is one of `SlideShow` or a stutter | none | what an old answer says stays true of the row; the post of each step |
| `StageProofs` | `StageTypeOK`, `BannerOwnTimeout`, `DeniedStopped` | none | a frame is a bijection on packets |
| `LoginProofs` | `FormConsistent`, `FailuresBounded`, `LockoutHonest` | none | copies of the list against the failures there were; counting threads |
| `PagesProofs` | `TablesConsistent`, `DecisionsAgree`, `AnimationsSettle`, `ReadYourWrites` | none | the last load was sent after every edit that was answered |

**The hypotheses.** A reset followed by a registration with the same id puts a pending
row where a confirmed one was, under a handler that has already decided; so
`FailClosed` and `DecisionsBacked` are about histories without one; a demo run that
deletes the rows of W-OLD and W-NEW does the same to these two, and is no step of
`SegLabel`. The serial properties are what the documentation promises; `concurrent`
and `race_containment` show that they fail under overlap. `SerialSpec` is `Spec` with
the one condition that no request arrives while another is served, whichever threads
they fall to and however many there are; a reset is a request like the others, and the
process may die at any point. The `serial` run checks the same with one thread, where
requests cannot overlap. A clock that repeats a reading stamps a containment and the
request after it alike. The registration form never sends a status STARTING
(`templates/base.html:350-353`); a client that does skips the reuse check
(`identity_manager.py:50`).

**Server.** `TypeOK` is not inductive: the write at the end of a handler uses locals
set by its first steps. `IInv` adds `LocalsOK`, what the locals hold at each control
point, and the finiteness of `requests`. For `FailClosed`, `GrantInv` says what a
stale copy implies about the row now: if the copy was outside the window, so is the
row (`StaleOK`), and so it is for every recorded grant; it is inductive because no
transaction moves a row back into its window (`WriteForward`). `ProbesBounded` counts
for each workload the denied probes on record and the threads between their count and
their insert: each such thread has counted fewer than the limit, the last one to count
all those recorded before. `OnlyOverlapsUndo` is an action property from `LocalsOK`:
the row each of the three writes reads at its start is what makes it undo something, so
that row and the present one differ in exactly the way `Overtaken` says, or the stamp
lies before the confirmation read.
In `SerialProofs` the invariant ties the locals of the only thread to the row it read,
because nobody else writes, and keeps everything on record in the past of the clock.

**Showcase.** A copy of a row is an answer under way or the painted panel. `Seen`
says what any copy, however old, implies about the row now, as long as the id has not
been registered anew (`born`): once outside the window, always outside. Other clients'
acts either keep the row and do not reopen its window, or make a row that is born later.
A
timeout is live only while the show plays, so Resume, which clears none, finds none,
and every step clears the one that is kept before it sets the next.

`StoryInv` follows a show nobody disturbs. Besides paints, at most one request is
under way, the post of the present step (`RequestsOK`), for W-OLD at step 1 and for
W-NEW after; how many requests W-NEW has had in its window follows from the step and
from whether its post is answered (`Progress`), two before the last of them is
decided, which is why the story needs a limit of three. A timeout that finds all
answers painted goes to the next step with nothing of the last one under way. The one
click may also be another than the start of the show (`NoShow`), and its page may
reload. The refinement maps the shows asked for to the copies of resets under way
(`Resets`): a bag's copies are counted one step at a time, so the proof needs no
recursion; a page loaded anew stands for all of them.

**Login.** `NoneLost` and `NoneUndone` compare the list and every thread's copy of it
with the failures there really were: unless noted in `raced`, the list has at least,
or at most, those that are still fresh, and so has every copy that no failure, or
success, has overtaken. A list is counted as a finite set of entries, so the proofs
need no recursion. The count of failures then stays below the limit plus the threads
that passed the check and have not recorded.

**Pages.** `CallsOK` types every call under way by the page that makes it and its
answer by the server. For `ReadYourWrites`, `Latest` says that an answered load with
the highest number carries the rules as they are now, unless an edit is under way
or something went unheard: each edit's handler sends a load after the answer, so a load
numbered `sent` is younger than every answered edit. `unseen` is set by whatever
changes the rules without such a load (a reset, a failed call, somebody else) and is
cleared by the next load only if no reset and no lost post is left that could change
them later. For `AnimationsSettle` the newest count
goes to the number last asked for.

**What the proofs changed.** Three bounds that held in every run turned out not to
be inductive, and to be wrong for larger constants:

* The failure list of the limiter was typed as bounded. Three threads that store old
  copies back and append to them make it as long as they like (two do not), so
  `List` is now unbounded; only the failures that count are bounded.
* The number of probes of a row in `Visualizer` was bounded by the limit plus the
  clicks. Several requests sent by one click exceed it; it is a number now.
* `Counter` had a constant for the largest number, which the proofs do not need.

**Only model-checked.** Liveness under fairness (`Answered`, `ExpiredContained`,
`ConfirmVerified`, `LockoutEnds`, `GrantKept`, `StageClears`, `Settles`, and the
liveness half of both `ImplementsShow`), which the prover does not do. The two
violations are runs by nature. Every other property of a run is a theorem, those of
the server under the hypotheses above.

## 6. Plan

1. `PolicyEngine` with `evaluate` as three reads against edits of the rules, in place
   of the constant `PolicyAllows`, and generations of rows, so that fail-closed can
   be stated, and proved, across a reset.

## 7. Not modelled

* The code of `app.js` for the fleet, its details, registration, confirmation dialog
  and audit pages (1146-1497, 2216-2394): the pages it is for never evaluate it
  (`dead_pages`), and no other page has its elements.
* Live stream, verification history, exports, text filters, entrance and typewriter
  animations, password toggle, the login page's canvas: they show one answer or
  none, and nothing reads what they leave behind.
* Geometry, lighting, materials and raycasting of the canvas and of the 3D mesh.
* The migration in `init_db`, which runs once before the server accepts requests.
* `evaluate`'s three reads and the routes that edit policies, except from the
  policy page's side; destinations.
* SPIFFE tokens: a valid token leads to the confirmation that is modelled.
* `DemoService` as a script: that it deletes and registers anew rows which an open page
  shows is `Elsewhere` of `Visualizer`, what the page does with its answer is `DemoPlayer`,
  and its own calls are modelled handlers; their order, its assertions and its effect on
  the server's threads (a deletion without a reset) are not.
* Compliance, statistics, audit listings and exports: reports without state.
* Password hashing, management of users, the gate of `app.py` on other routes.
* Vendored libraries, styles, configuration, and the attacks and compliance
  pages, which render one answer each.

## 8. Running

    tlc -workers 2 -config serial.cfg MCSegLabel      # also concurrent, reset_restart, progress, race_containment
    tlc -workers 2 -config demo_player.cfg DemoPlayer
    tlc -workers 2 -config showcase.cfg Showcase      # also lost_answers
    tlc -workers 2 -config stage.cfg Stage
    tlc -workers 2 -config login.cfg Login
    tlc -workers 2 -config pages.cfg Pages            # also dead_pages
    tlapm SegLabelProofs.tla                          # and the other modules named ...Proofs

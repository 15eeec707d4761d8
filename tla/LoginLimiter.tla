---------------------------- MODULE LoginLimiter ----------------------------
(***************************************************************************)
(* POST /login of routes/auth_routes.py for one client address: a list of  *)
(* times of failed attempts, read, pruned and stored back by every request *)
(* thread without a lock.  A time is kept as its age in ticks, so the      *)
(* clock needs no bound; age Window stands for every expired one.          *)
(***************************************************************************)
EXTENDS Integers, FiniteSets

CONSTANTS
  Threads,       \* request threads
  Tab, Nobody,   \* who waits for an answer: the modelled page, or no one
  MaxFailed,     \* MAX_FAILED_ATTEMPTS (8)
  Window         \* WINDOW_SECONDS, in ticks (60 s)

ASSUME LimiterAssumption == /\ IsFiniteSet(Threads)
                            /\ Tab # Nobody
                            /\ MaxFailed \in Nat \ {0}
                            /\ Window \in Nat \ {0}

VARIABLES
  attempts,      \* FAILED_ATTEMPTS of the address: how many of each age
  job,           \* what each thread is doing
  failed,        \* history: failures since the last success, by age
  raced          \* history: how updates of the list have gone wrong

limiterVars == <<attempts, job, failed, raced>>

Ages == 0..Window
Fresh == 0 .. Window - 1
EmptyList == [a \in Ages |-> 0]

(* The times in a list, one entry each. *)
Entries(list, ages) == UNION {{a} \X (1..list[a]) : a \in ages}

Total(list) == Cardinality(Entries(list, Ages))
Recent(list) == Cardinality(Entries(list, Fresh))

(* No bound: three threads that store old copies back, and append to them, *)
(* make the list as long as they like.                                     *)
List == [Ages -> Nat]

Most == MaxFailed + Cardinality(Threads)   \* counted of one age in failed

Idle == [at |-> "idle"]

Job ==
  {Idle}
  \cup [at : {"check", "password"}, from : {Tab, Nobody}]
  \cup [at : {"store"}, from : {Tab, Nobody},
        copy : List, since : SUBSET {"failure", "success"}]
  \cup [at : {"record"}, from : {Tab, Nobody}, live : BOOLEAN]
  \cup [at : {"answer"}, from : {Tab},
        reply : {"lockout", "missing", "denied", "granted"}]

LimiterTypeOK == /\ attempts \in List
                 /\ failed \in List
                 /\ \A p \in Threads : job[p] \in Job
                 /\ raced \subseteq {"lost", "undone"}

LimiterInit == /\ attempts = EmptyList
               /\ job = [p \in Threads |-> Idle]
               /\ failed = EmptyList
               /\ raced = {}
-----------------------------------------------------------------------------
(* The other threads' jobs when the list object is replaced: an append     *)
(* under way goes to the old object.                                       *)
Replaced(p) ==
  [q \in Threads |-> IF q # p /\ job[q].at = "record"
                       THEN [job[q] EXCEPT !.live = FALSE] ELSE job[q]]

(* History: what happened to the list since a thread read it. *)
Note(jobs, what) ==
  [q \in Threads |-> IF jobs[q].at = "store"
                       THEN [jobs[q] EXCEPT !.since = @ \cup {what}] ELSE jobs[q]]

Go(p, jobs, state) == job' = [jobs EXCEPT ![p] = state]

(* An answer nobody waits for ends the job. *)
Reply(p, what) == IF job[p].from = Nobody THEN Idle
                  ELSE [at |-> "answer", from |-> Tab, reply |-> what]

(* A request arrives at a free thread.  What its form holds is decided     *)
(* where the code first looks at it.                                       *)
Receive(p, from) ==
  /\ job[p] = Idle
  /\ Go(p, job, [at |-> "check", from |-> from])

(* Slip: an attempt counts up to the end of its window, and beyond. *)
PrunedLate == attempts

Pruned == [attempts EXCEPT ![Window] = 0]

(* is_rate_limited reads the clock and prunes into a list of its own ... *)
Check(p) ==
  /\ job[p].at = "check"
  /\ Go(p, job, [at |-> "store", from |-> job[p].from,
                 copy |-> Pruned, since |-> {}])
  /\ UNCHANGED <<attempts, failed, raced>>

(* Slip: one failure too many. *)
LimitedAbove(list) == Total(list) > MaxFailed

Limited(list) == Total(list) >= MaxFailed

(* Slip: a refused attempt is recorded as a failed one. *)
AfterStoreRecording(p) ==
  {IF Limited(job[p].copy)
     THEN [at |-> "record", from |-> job[p].from, live |-> TRUE]
     ELSE [at |-> "password", from |-> job[p].from]}

(* Lockout comes before the fields are looked at; the login page never     *)
(* sends them empty.                                                       *)
AfterStore(p) ==
  IF Limited(job[p].copy) THEN {Reply(p, "lockout")}
  ELSE {[at |-> "password", from |-> job[p].from]}
       \cup (IF job[p].from = Nobody THEN {Reply(p, "missing")} ELSE {})

(* ... stores it over whatever is there now, and counts it. *)
Store(p) ==
  /\ job[p].at = "store"
  /\ attempts' = job[p].copy
  /\ \E next \in AfterStore(p) : Go(p, Replaced(p), next)
  /\ raced' = raced
       \cup (IF "failure" \in job[p].since THEN {"lost"} ELSE {})
       \cup (IF "success" \in job[p].since THEN {"undone"} ELSE {})
  /\ UNCHANGED failed

(* authenticate_user refuses the password, and the list to append to is    *)
(* looked up.                                                              *)
Refuse(p) ==
  /\ job[p].at = "password"
  /\ Go(p, job, [at |-> "record", from |-> job[p].from, live |-> TRUE])
  /\ UNCHANGED <<attempts, failed, raced>>

(* record_failed_attempt, to the list looked up. *)
RecordFailure(p) ==
  /\ job[p].at = "record"
  /\ attempts' = IF job[p].live THEN [attempts EXCEPT ![0] = @ + 1] ELSE attempts
  /\ failed' = [failed EXCEPT ![0] = IF @ < Most THEN @ + 1 ELSE @]
  /\ raced' = IF job[p].live THEN raced ELSE raced \cup {"lost"}
  /\ Go(p, Note(job, "failure"), Reply(p, "denied"))

(* authenticate_user accepts it, and clear_attempts drops the list. *)
Grant(p) ==
  /\ job[p].at = "password"
  /\ attempts' = EmptyList
  /\ failed' = EmptyList
  /\ Go(p, Note(Replaced(p), "success"), Reply(p, "granted"))
  /\ UNCHANGED raced

Work(p) == Check(p) \/ Store(p) \/ Refuse(p) \/ RecordFailure(p) \/ Grant(p)

Older(list) ==
  [a \in Ages |-> IF a = 0 THEN 0
                  ELSE IF a = Window THEN list[Window] + list[Window - 1]
                  ELSE list[a - 1]]

(* Time passes. *)
Tick ==
  /\ attempts' = Older(attempts)
  /\ failed' = [Older(failed) EXCEPT ![Window] = 0]
  /\ job' = [p \in Threads |-> IF job[p].at = "store"
                                 THEN [job[p] EXCEPT !.copy = Older(@)] ELSE job[p]]
  /\ UNCHANGED raced
-----------------------------------------------------------------------------
(* Properties. *)

(* No lockout without cause: a request is refused only if as many failures *)
(* as the limit have happened within the window and since the last         *)
(* success, unless a list read before that success was stored after it     *)
(* (is_rate_limited, clear_attempts).                                      *)
LockoutHonest ==
  [][\A p \in Threads :
       job'[p].at = "store" /\ job[p].at = "check" /\ Total(job'[p].copy) >= MaxFailed
         => "undone" \in raced \/ Recent(failed) >= MaxFailed]_limiterVars

(* The limit holds up to the requests that overlap: as long as no update   *)
(* of the list is lost, no more failures than the limit, and one for every *)
(* other thread, come through in one window (login, is_rate_limited).      *)
FailuresBounded ==
  "lost" \notin raced => Recent(failed) <= MaxFailed + Cardinality(Threads) - 1

(* Trying while locked out does not prolong the lockout: however often and *)
(* from wherever the address asks, it is let in again and again            *)
(* (record_failed_attempt runs only for passwords that were compared).     *)
LockoutEnds == []<>(Recent(attempts) < MaxFailed)
=============================================================================

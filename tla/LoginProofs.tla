----------------------------- MODULE LoginProofs -----------------------------
(***************************************************************************)
(* Proofs about the login limiter and the login page, for any number of    *)
(* threads, any limit and any window.                                      *)
(***************************************************************************)
EXTENDS Login, FiniteSetTheorems, Functions, TLAPS

Ats == {"idle", "check", "store", "password", "record", "answer"}

TablesOK ==
  /\ attempts \in List
  /\ failed \in [Ages -> 0..Most]
  /\ job \in [Threads -> Job]
  /\ raced \subseteq {"lost", "undone"}

-----------------------------------------------------------------------------
(* Jobs. *)

LEMMA JobFields ==
  ASSUME NEW j \in Job
  PROVE  /\ j.at \in Ats
         /\ j.at = "idle" <=> j = Idle
         /\ j.at # "idle" => j.from \in {Tab, Nobody}
         /\ j.at = "store" => j.copy \in List /\ j.since \subseteq {"failure", "success"}
         /\ j.at = "record" => j.live \in BOOLEAN
         /\ j.at = "answer" => j.from = Tab /\ j.reply \in {"lockout", "missing", "denied", "granted"}
<1>1. CASE j = Idle
  BY <1>1 DEF Idle, Ats
<1>2. CASE j \in [at : {"check", "password"}, from : {Tab, Nobody}]
  BY <1>2 DEF Idle, Ats
<1>3. CASE j \in [at : {"store"}, from : {Tab, Nobody},
                  copy : List, since : SUBSET {"failure", "success"}]
  BY <1>3 DEF Idle, Ats
<1>4. CASE j \in [at : {"record"}, from : {Tab, Nobody}, live : BOOLEAN]
  BY <1>4 DEF Idle, Ats
<1>5. CASE j \in [at : {"answer"}, from : {Tab},
                  reply : {"lockout", "missing", "denied", "granted"}]
  BY <1>5 DEF Idle, Ats
<1> QED
  BY <1>1, <1>2, <1>3, <1>4, <1>5 DEF Job

(* A job of each kind, taken apart and put together. *)
LEMMA JobKinds ==
  ASSUME NEW j \in Job
  PROVE  /\ j.at = "store" => j \in [at : {"store"}, from : {Tab, Nobody},
                                     copy : List, since : SUBSET {"failure", "success"}]
         /\ j.at = "record" => j \in [at : {"record"}, from : {Tab, Nobody}, live : BOOLEAN]
         /\ j.at \in {"check", "password"} =>
              j \in [at : {"check", "password"}, from : {Tab, Nobody}]
<1>1. CASE j = Idle
  BY <1>1 DEF Idle
<1>2. CASE j \in [at : {"check", "password"}, from : {Tab, Nobody}]
  BY <1>2
<1>3. CASE j \in [at : {"store"}, from : {Tab, Nobody},
                  copy : List, since : SUBSET {"failure", "success"}]
  BY <1>3
<1>4. CASE j \in [at : {"record"}, from : {Tab, Nobody}, live : BOOLEAN]
  BY <1>4
<1>5. CASE j \in [at : {"answer"}, from : {Tab},
                  reply : {"lockout", "missing", "denied", "granted"}]
  BY <1>5
<1> QED
  BY <1>1, <1>2, <1>3, <1>4, <1>5 DEF Job

LEMMA Building ==
  ASSUME NEW from \in {Tab, Nobody}
  PROVE  /\ Idle \in Job
         /\ \A at \in {"check", "password"} : [at |-> at, from |-> from] \in Job
         /\ \A copy \in List : [at |-> "store", from |-> from, copy |-> copy, since |-> {}] \in Job
         /\ [at |-> "record", from |-> from, live |-> TRUE] \in Job
         /\ \A reply \in {"lockout", "missing", "denied", "granted"} :
              [at |-> "answer", from |-> Tab, reply |-> reply] \in Job
<1>1. [at |-> "record", from |-> from, live |-> TRUE] \in [at : {"record"}, from : {Tab, Nobody}, live : BOOLEAN]
  <2>1. TRUE \in BOOLEAN
    BY Zenon
  <2> QED
    BY <2>1
<1>2. ASSUME NEW copy \in List
      PROVE  [at |-> "store", from |-> from, copy |-> copy, since |-> {}]
               \in [at : {"store"}, from : {Tab, Nobody},
                    copy : List, since : SUBSET {"failure", "success"}]
  OBVIOUS
<1>3. ASSUME NEW at \in {"check", "password"}
      PROVE  [at |-> at, from |-> from] \in [at : {"check", "password"}, from : {Tab, Nobody}]
  OBVIOUS
<1>4. ASSUME NEW reply \in {"lockout", "missing", "denied", "granted"}
      PROVE  [at |-> "answer", from |-> Tab, reply |-> reply]
               \in [at : {"answer"}, from : {Tab}, reply : {"lockout", "missing", "denied", "granted"}]
  OBVIOUS
<1> QED
  BY <1>1, <1>2, <1>3, <1>4 DEF Job

LEMMA Dying ==
  ASSUME NEW j \in Job, j.at = "record"
  PROVE  LET k == [j EXCEPT !.live = FALSE]
         IN  k \in Job /\ k.at = "record" /\ k.from = j.from /\ k.live = FALSE
<1>1. j \in [at : {"record"}, from : {Tab, Nobody}, live : BOOLEAN]
  BY JobKinds
<1>2. ASSUME NEW v \in BOOLEAN
      PROVE  LET k == [j EXCEPT !.live = v]
             IN  /\ k \in [at : {"record"}, from : {Tab, Nobody}, live : BOOLEAN]
                 /\ k.at = "record" /\ k.from = j.from /\ k.live = v
  <2>1. [j EXCEPT !.live = v] = [at |-> "record", from |-> j.from, live |-> v]
    BY <1>1
  <2> QED
    BY <1>1, <2>1
<1>3. FALSE \in BOOLEAN
  BY Zenon
<1>4. LET k == [j EXCEPT !.live = FALSE]
      IN  /\ k \in [at : {"record"}, from : {Tab, Nobody}, live : BOOLEAN]
          /\ k.at = "record" /\ k.from = j.from /\ k.live = FALSE
  BY <1>2, <1>3, Zenon
<1> QED
  BY <1>4, Zenon DEF Job

LEMMA Noting ==
  ASSUME NEW j \in Job, j.at = "store", NEW what \in {"failure", "success"}
  PROVE  LET k == [j EXCEPT !.since = @ \cup {what}]
         IN  /\ k \in Job /\ k.at = "store" /\ k.from = j.from /\ k.copy = j.copy
             /\ k.since = j.since \cup {what}
<1>1. j \in [at : {"store"}, from : {Tab, Nobody}, copy : List, since : SUBSET {"failure", "success"}]
  BY JobKinds
<1>2. [j EXCEPT !.since = @ \cup {what}]
        = [at |-> "store", from |-> j.from, copy |-> j.copy, since |-> j.since \cup {what}]
  BY <1>1
<1>3. j.since \cup {what} \in SUBSET {"failure", "success"}
  BY <1>1
<1>4. [j EXCEPT !.since = @ \cup {what}]
        \in [at : {"store"}, from : {Tab, Nobody}, copy : List, since : SUBSET {"failure", "success"}]
  BY <1>1, <1>2, <1>3
<1> QED
  BY <1>2, <1>4 DEF Job

LEMMA Ageing ==
  ASSUME NEW j \in Job, j.at = "store", NEW copy \in List
  PROVE  LET k == [j EXCEPT !.copy = copy]
         IN  k \in Job /\ k.at = "store" /\ k.from = j.from /\ k.copy = copy /\ k.since = j.since
<1>1. j \in [at : {"store"}, from : {Tab, Nobody}, copy : List, since : SUBSET {"failure", "success"}]
  BY JobKinds
<1>2. [j EXCEPT !.copy = copy] = [at |-> "store", from |-> j.from, copy |-> copy, since |-> j.since]
  BY <1>1
<1>3. [j EXCEPT !.copy = copy]
        \in [at : {"store"}, from : {Tab, Nobody}, copy : List, since : SUBSET {"failure", "success"}]
  BY <1>1, <1>2
<1> QED
  BY <1>2, <1>3 DEF Job

(* The page forgets an attempt that the server goes on with. *)
LEMMA Abandoning ==
  ASSUME NEW j \in Job, j.at \notin {"idle", "answer"}
  PROVE  LET k == [j EXCEPT !.from = Nobody]
         IN  /\ k \in Job /\ k.at = j.at /\ k.from = Nobody
             /\ j.at = "store" => k.copy = j.copy /\ k.since = j.since
             /\ j.at = "record" => k.live = j.live
<1>1. CASE j.at = "store"
  <2>1. j \in [at : {"store"}, from : {Tab, Nobody}, copy : List, since : SUBSET {"failure", "success"}]
    BY <1>1, JobKinds
  <2>2. [j EXCEPT !.from = Nobody] = [at |-> "store", from |-> Nobody, copy |-> j.copy, since |-> j.since]
    BY <2>1
  <2>3. [j EXCEPT !.from = Nobody]
          \in [at : {"store"}, from : {Tab, Nobody}, copy : List, since : SUBSET {"failure", "success"}]
    BY <2>1, <2>2
  <2> QED
    BY <1>1, <2>2, <2>3 DEF Job
<1>2. CASE j.at = "record"
  <2>1. j \in [at : {"record"}, from : {Tab, Nobody}, live : BOOLEAN]
    BY <1>2, JobKinds
  <2>2. [j EXCEPT !.from = Nobody] = [at |-> "record", from |-> Nobody, live |-> j.live]
    BY <2>1
  <2>3. [j EXCEPT !.from = Nobody] \in [at : {"record"}, from : {Tab, Nobody}, live : BOOLEAN]
    BY <2>1, <2>2
  <2> QED
    BY <1>2, <2>2, <2>3 DEF Job
<1>3. CASE j.at \in {"check", "password"}
  <2>1. j \in [at : {"check", "password"}, from : {Tab, Nobody}]
    BY <1>3, JobKinds
  <2>2. [j EXCEPT !.from = Nobody] = [at |-> j.at, from |-> Nobody]
    BY <2>1
  <2>3. [j EXCEPT !.from = Nobody] \in [at : {"check", "password"}, from : {Tab, Nobody}]
    BY <2>1, <2>2
  <2> QED
    BY <1>3, <2>2, <2>3 DEF Job
<1> QED
  BY <1>1, <1>2, <1>3, JobFields DEF Ats

-----------------------------------------------------------------------------
(* Lists: how many times they hold. *)

LEMMA AgesOK ==
  /\ IsFiniteSet(Ages) /\ IsFiniteSet(Fresh) /\ Fresh \subseteq Ages
  /\ Window \in Ages /\ Window \notin Fresh /\ Ages = Fresh \cup {Window}
  /\ 0 \in Fresh /\ Ages \subseteq Int
<1>1. Window \in Nat /\ Window >= 1
  BY LimiterAssumption
<1>2. IsFiniteSet(Ages) /\ IsFiniteSet(Fresh)
  BY <1>1, FS_Interval DEF Ages, Fresh
<1> QED
  BY <1>1, <1>2 DEF Ages, Fresh

LEMMA MostOK == Most \in Nat /\ Most >= MaxFailed /\ MaxFailed \in Nat \ {0}
<1>1. Cardinality(Threads) \in Nat
  BY LimiterAssumption, FS_CardinalityType
<1> QED
  BY <1>1, LimiterAssumption DEF Most

LEMMA InEntries ==
  ASSUME NEW list, NEW ages, NEW e
  PROVE  e \in Entries(list, ages) <=>
           \E a \in ages : \E k \in 1..list[a] : e = <<a, k>>
  BY DEF Entries

LEMMA UpTo ==
  ASSUME NEW n \in Nat
  PROVE  IsFiniteSet(1..n) /\ Cardinality(1..n) = n
<1>1. 1 \in Int /\ n \in Int
  OBVIOUS
<1>2. IsFiniteSet(1..n) /\ Cardinality(1..n) = IF 1 > n THEN 0 ELSE n - 1 + 1
  BY <1>1, FS_Interval
<1> QED
  BY <1>2

LEMMA EntriesFinite ==
  ASSUME NEW list \in List, NEW ages \in SUBSET Ages
  PROVE  /\ IsFiniteSet(Entries(list, ages))
         /\ Cardinality(Entries(list, ages)) \in Nat
<1> DEFINE T == {{a} \X (1..list[a]) : a \in ages}
           f == [a \in ages |-> {a} \X (1..list[a])]
<1>1. IsFiniteSet(ages)
  BY AgesOK, FS_Subset
<1>2. f \in Surjection(ages, T)
  BY DEF Surjection
<1>3. IsFiniteSet(T)
  <2> HIDE DEF f, T
  <2> QED
    BY <1>1, <1>2, FS_Surjection
<1>4. ASSUME NEW a \in ages PROVE IsFiniteSet({a} \X (1..list[a]))
  <2>1. list[a] \in Nat
    BY DEF List
  <2>2. IsFiniteSet({a}) /\ IsFiniteSet(1..list[a])
    BY <2>1, FS_Singleton, UpTo
  <2> QED
    BY <2>2, FS_Product
<1>5. IsFiniteSet(UNION T)
  <2>1. \A t \in T : IsFiniteSet(t)
    BY <1>4
  <2> HIDE DEF T
  <2> QED
    BY <1>3, <2>1, FS_UNION
<1> QED
  BY <1>5, FS_CardinalityType DEF Entries

LEMMA MoreEntries ==
  ASSUME NEW few \in List, NEW many \in List, NEW ages \in SUBSET Ages,
         \A a \in ages : few[a] <= many[a]
  PROVE  Cardinality(Entries(few, ages)) <= Cardinality(Entries(many, ages))
<1>1. ASSUME NEW e \in Entries(few, ages) PROVE e \in Entries(many, ages)
  <2>a1. PICK a \in ages : \E k \in 1..few[a] : e = <<a, k>>
    BY InEntries
  <2>1. PICK k \in 1..few[a] : e = <<a, k>>
    BY <2>a1
  <2>2. few[a] \in Int /\ many[a] \in Int
    BY DEF List
  <2>3. k \in 1..many[a]
    BY <2>2
  <2> QED
    BY <2>1, <2>3, InEntries
<1> QED
  BY <1>1, EntriesFinite, FS_Subset

LEMMA ManyEntries ==
  ASSUME NEW list \in List, NEW ages \in SUBSET Ages, NEW a \in ages
  PROVE  list[a] <= Cardinality(Entries(list, ages))
<1>1. list[a] \in Nat
  BY DEF List
<1>2. {a} \X (1..list[a]) \subseteq Entries(list, ages)
  BY DEF Entries
<1>3. Cardinality({a} \X (1..list[a])) = list[a]
  <2>1. /\ IsFiniteSet({a}) /\ Cardinality({a}) = 1
        /\ IsFiniteSet(1..list[a]) /\ Cardinality(1..list[a]) = list[a]
    BY <1>1, FS_Singleton, UpTo
  <2>2. Cardinality({a} \X (1..list[a])) = Cardinality({a}) * Cardinality(1..list[a])
    BY <2>1, FS_Product
  <2> QED
    BY <1>1, <2>1, <2>2
<1> QED
  BY <1>2, <1>3, EntriesFinite, FS_Subset

(* A failure is one more. *)
LEMMA OneMore ==
  ASSUME NEW list \in List
  PROVE  LET longer == [list EXCEPT ![0] = @ + 1]
         IN  longer \in List /\ Recent(longer) = Recent(list) + 1
<1> DEFINE longer == [list EXCEPT ![0] = @ + 1]
           new    == <<0, list[0] + 1>>
<1>1. list[0] \in Nat /\ 0 \in Ages
  BY AgesOK DEF List
<1>2. longer \in [Ages -> Nat]
  BY <1>1 DEF List
<1>3. \A a \in Ages : longer[a] = IF a = 0 THEN list[0] + 1 ELSE list[a]
  BY DEF List
<1>4. \A k : k \in 1..longer[0] <=> k \in 1..list[0] \/ k = list[0] + 1
  BY <1>1, <1>3
<1> HIDE DEF longer
<1>5. Entries(longer, Fresh) = Entries(list, Fresh) \cup {new}
  <2>1. ASSUME NEW e \in Entries(longer, Fresh) PROVE e \in Entries(list, Fresh) \cup {new}
    <3>a1. PICK a \in Fresh : \E k \in 1..longer[a] : e = <<a, k>>
      BY <2>1, InEntries
    <3>1. PICK k \in 1..longer[a] : e = <<a, k>>
      BY <3>a1
    <3>2. CASE a = 0
      BY <1>4, <3>1, <3>2, InEntries
    <3>3. CASE a # 0
      BY <1>3, <3>1, <3>3, InEntries, AgesOK
    <3> QED
      BY <3>2, <3>3
  <2>2. ASSUME NEW e \in Entries(list, Fresh) PROVE e \in Entries(longer, Fresh)
    <3>a1. PICK a \in Fresh : \E k \in 1..list[a] : e = <<a, k>>
      BY <2>2, InEntries
    <3>1. PICK k \in 1..list[a] : e = <<a, k>>
      BY <3>a1
    <3>2. k \in 1..longer[a]
      BY <1>3, <1>4, <3>1, AgesOK
    <3> QED
      BY <3>1, <3>2, InEntries
  <2>3. new \in Entries(longer, Fresh)
    BY <1>4, InEntries, AgesOK
  <2> QED
    BY <2>1, <2>2, <2>3
<1>6. new \notin Entries(list, Fresh)
  <2> SUFFICES ASSUME NEW a \in Fresh, NEW k \in 1..list[a], new = <<a, k>> PROVE FALSE
    BY InEntries
  <2>1. a = 0 /\ k = list[0] + 1
    OBVIOUS
  <2> QED
    BY <1>1, <2>1
<1> HIDE DEF new
<1>7. Cardinality(Entries(longer, Fresh)) = Cardinality(Entries(list, Fresh)) + 1
  BY <1>5, <1>6, EntriesFinite, AgesOK, FS_AddElement
<1> QED
  BY <1>2, <1>7 DEF longer, List, Recent

LEMMA OlderOK ==
  ASSUME NEW list \in List
  PROVE  /\ Older(list) \in List
         /\ Older(list)[0] = 0
         /\ \A a \in Fresh \ {0} : a - 1 \in Fresh /\ Older(list)[a] = list[a - 1]
<1>1. Window \in Nat \ {0} /\ \A a \in Ages : list[a] \in Nat
  BY LimiterAssumption DEF List
<1>2. \A a \in Ages \ {0} : a - 1 \in Ages
  BY <1>1 DEF Ages
<1>3. \A a \in Fresh \ {0} : a - 1 \in Fresh /\ a # Window /\ a \in Ages
  BY <1>1 DEF Fresh, Ages
<1>4. list[Window] \in Nat /\ list[Window - 1] \in Nat
  <2>1. Window \in Ages \ {0}
    BY <1>1 DEF Ages
  <2> QED
    BY <1>1, <1>2, <2>1
<1>5. list[Window] + list[Window - 1] \in Nat
  BY <1>4
<1>6. Older(list) \in List
  BY <1>1, <1>2, <1>5 DEF Older, List
<1> QED
  BY <1>3, <1>6, AgesOK DEF Older

(* As time passes there are no more recent ones. *)
LEMMA FewerRecent ==
  ASSUME NEW list \in List, NEW later \in List,
         later[0] = 0, \A a \in Fresh \ {0} : a - 1 \in Fresh /\ later[a] = list[a - 1]
  PROVE  Recent(later) <= Recent(list)
<1> DEFINE S == Entries(later, Fresh)
           T == Entries(list, Fresh)
           f == [e \in S |-> <<e[1] - 1, e[2]>>]
<1>1. ASSUME NEW e \in S
      PROVE  \E a \in Fresh \ {0} : \E k \in 1..list[a - 1] : e = <<a, k>> /\ a \in Int
  <2>a1. PICK a \in Fresh : \E k \in 1..later[a] : e = <<a, k>>
    BY <1>1, InEntries
  <2>1. PICK k \in 1..later[a] : e = <<a, k>>
    BY <2>a1
  <2>2. a # 0
    BY <2>1
  <2> QED
    BY <2>1, <2>2, AgesOK
<1>2. \A e \in S : f[e] \in T
  <2> TAKE e \in S
  <2>a1. PICK a \in Fresh \ {0} : \E k \in 1..list[a - 1] : e = <<a, k>>
    BY <1>1
  <2>1. PICK k \in 1..list[a - 1] : e = <<a, k>>
    BY <2>a1
  <2>2. f[e] = <<a - 1, k>>
    BY <2>1
  <2> HIDE DEF f
  <2> QED
    BY <2>1, <2>2, InEntries
<1>3. \A d, e \in S : f[d] = f[e] => d = e
  <2> SUFFICES ASSUME NEW d \in S, NEW e \in S, f[d] = f[e] PROVE d = e
    OBVIOUS
  <2>a1. PICK a \in Fresh \ {0} : \E k \in 1..list[a - 1] : d = <<a, k>> /\ a \in Int
    BY <1>1
  <2>1. PICK k \in 1..list[a - 1] : d = <<a, k>> /\ a \in Int
    BY <2>a1
  <2>a2. PICK b \in Fresh \ {0} : \E l \in 1..list[b - 1] : e = <<b, l>> /\ b \in Int
    BY <1>1
  <2>2. PICK l \in 1..list[b - 1] : e = <<b, l>> /\ b \in Int
    BY <2>a2
  <2>3. f[d] = <<a - 1, k>> /\ f[e] = <<b - 1, l>>
    BY <2>1, <2>2
  <2>4. a - 1 = b - 1 /\ k = l
    BY <2>3
  <2> QED
    BY <2>1, <2>2, <2>4
<1>4. f \in Injection(S, T)
  <2>1. f \in [S -> T]
    BY <1>2
  <2> HIDE DEF f, S, T
  <2> QED
    BY <1>3, <2>1 DEF Injection, IsInjective
<1> HIDE DEF f
<1> QED
  BY <1>4, EntriesFinite, AgesOK, FS_Injection DEF Recent

(* What is_rate_limited counts are the recent ones. *)
LEMMA PrunedOK ==
  ASSUME attempts \in List
  PROVE  /\ Pruned \in List /\ \A a \in Fresh : Pruned[a] = attempts[a]
         /\ Total(Pruned) = Recent(attempts)
<1>1. Pruned \in List /\ Pruned[Window] = 0 /\ \A a \in Fresh : Pruned[a] = attempts[a]
  BY AgesOK DEF Pruned, List
<1>2. Entries(Pruned, Ages) = Entries(attempts, Fresh)
  <2>1. ASSUME NEW e \in Entries(Pruned, Ages) PROVE e \in Entries(attempts, Fresh)
    <3>a1. PICK a \in Ages : \E k \in 1..Pruned[a] : e = <<a, k>>
      BY <2>1, InEntries
    <3>1. PICK k \in 1..Pruned[a] : e = <<a, k>>
      BY <3>a1
    <3>2. a # Window
      BY <1>1, <3>1
    <3> QED
      BY <1>1, <3>1, <3>2, InEntries, AgesOK
  <2>2. ASSUME NEW e \in Entries(attempts, Fresh) PROVE e \in Entries(Pruned, Ages)
    <3>a1. PICK a \in Fresh : \E k \in 1..attempts[a] : e = <<a, k>>
      BY <2>2, InEntries
    <3>1. PICK k \in 1..attempts[a] : e = <<a, k>>
      BY <3>a1
    <3>2. a \in Ages /\ k \in 1..Pruned[a]
      BY <1>1, AgesOK
    <3> QED
      BY <3>1, <3>2, InEntries
  <2> QED
    BY <2>1, <2>2
<1> QED
  BY <1>1, <1>2 DEF Total, Recent

LEMMA EmptyOK ==
  /\ EmptyList \in List /\ Recent(EmptyList) = 0
  /\ \A a \in Ages : EmptyList[a] = 0
<1>1. EmptyList \in List /\ \A a \in Ages : EmptyList[a] = 0
  BY DEF EmptyList, List
<1>2. Entries(EmptyList, Fresh) = {}
  <2> SUFFICES ASSUME NEW e \in Entries(EmptyList, Fresh) PROVE FALSE
    OBVIOUS
  <2>1. PICK a \in Fresh : \E k \in 1..EmptyList[a] : e = <<a, k>>
    BY InEntries
  <2>2. EmptyList[a] = 0
    BY <1>1, AgesOK
  <2> QED
    BY <2>1, <2>2
<1> QED
  BY <1>1, <1>2, FS_EmptySet DEF Recent

-----------------------------------------------------------------------------
(* What the steps do to the jobs. *)

LEMMA GoOK ==
  ASSUME NEW p \in Threads, NEW jobs, jobs \in [Threads -> Job], NEW state \in Job,
         Go(p, jobs, state)
  PROVE  /\ job' \in [Threads -> Job]
         /\ job'[p] = state /\ \A q \in Threads \ {p} : job'[q] = jobs[q]
  BY DEF Go

LEMMA ReplacedOK ==
  ASSUME TablesOK, NEW p \in Threads
  PROVE  /\ Replaced(p) \in [Threads -> Job]
         /\ \A q \in Threads :
              /\ Replaced(p)[q].at = job[q].at
              /\ job[q].at # "idle" => Replaced(p)[q].from = job[q].from
              /\ job[q].at # "record" => Replaced(p)[q] = job[q]
              /\ q # p /\ job[q].at = "record" => Replaced(p)[q].live = FALSE
<1>1. ASSUME NEW q \in Threads
      PROVE  /\ Replaced(p)[q] \in Job
             /\ Replaced(p)[q].at = job[q].at
             /\ job[q].at # "idle" => Replaced(p)[q].from = job[q].from
             /\ job[q].at # "record" => Replaced(p)[q] = job[q]
             /\ q # p /\ job[q].at = "record" => Replaced(p)[q].live = FALSE
  <2>1. job[q] \in Job
    BY DEF TablesOK
  <2>2. CASE q # p /\ job[q].at = "record"
    <3>1. Replaced(p)[q] = [job[q] EXCEPT !.live = FALSE]
      BY <2>2 DEF Replaced
    <3>2. LET k == [job[q] EXCEPT !.live = FALSE]
          IN  k \in Job /\ k.at = "record" /\ k.from = job[q].from /\ k.live = FALSE
      BY <2>1, <2>2, Dying
    <3> QED
      BY <2>2, <3>1, <3>2, Zenon
  <2>3. CASE ~(q # p /\ job[q].at = "record")
    <3>1. Replaced(p)[q] = job[q]
      BY <2>3 DEF Replaced
    <3> QED
      BY <2>1, <2>3, <3>1, Zenon
  <2> QED
    BY <2>2, <2>3
<1>2. Replaced(p) = [q \in Threads |-> Replaced(p)[q]]
  BY DEF Replaced
<1> QED
  BY <1>1, <1>2

LEMMA NoteOK ==
  ASSUME NEW jobs, jobs \in [Threads -> Job], NEW what \in {"failure", "success"}
  PROVE  /\ Note(jobs, what) \in [Threads -> Job]
         /\ \A q \in Threads :
              /\ Note(jobs, what)[q].at = jobs[q].at
              /\ jobs[q].at # "idle" => Note(jobs, what)[q].from = jobs[q].from
              /\ jobs[q].at # "store" => Note(jobs, what)[q] = jobs[q]
              /\ jobs[q].at = "store" =>
                   /\ Note(jobs, what)[q].copy = jobs[q].copy
                   /\ Note(jobs, what)[q].since = jobs[q].since \cup {what}
<1>1. ASSUME NEW q \in Threads
      PROVE  /\ Note(jobs, what)[q] \in Job
             /\ Note(jobs, what)[q].at = jobs[q].at
             /\ jobs[q].at # "idle" => Note(jobs, what)[q].from = jobs[q].from
             /\ jobs[q].at # "store" => Note(jobs, what)[q] = jobs[q]
             /\ jobs[q].at = "store" =>
                  /\ Note(jobs, what)[q].copy = jobs[q].copy
                  /\ Note(jobs, what)[q].since = jobs[q].since \cup {what}
  <2>1. jobs[q] \in Job
    OBVIOUS
  <2>2. CASE jobs[q].at = "store"
    <3>1. Note(jobs, what)[q] = [jobs[q] EXCEPT !.since = @ \cup {what}]
      BY <2>2 DEF Note
    <3>2. LET k == [jobs[q] EXCEPT !.since = @ \cup {what}]
          IN  /\ k \in Job /\ k.at = "store" /\ k.from = jobs[q].from /\ k.copy = jobs[q].copy
              /\ k.since = jobs[q].since \cup {what}
      BY <2>1, <2>2, Noting
    <3> QED
      BY <2>2, <3>1, <3>2
  <2>3. CASE jobs[q].at # "store"
    <3>1. Note(jobs, what)[q] = jobs[q]
      BY <2>3 DEF Note
    <3> QED
      BY <2>1, <2>3, <3>1
  <2> QED
    BY <2>2, <2>3
<1>2. Note(jobs, what) = [q \in Threads |-> Note(jobs, what)[q]]
  BY DEF Note
<1> QED
  BY <1>1, <1>2

LEMMA OrphanedOK ==
  ASSUME TablesOK, NEW ps \in SUBSET Mine, job' = Orphaned(ps)
  PROVE  /\ job' \in [Threads -> Job]
         /\ \A q \in Threads :
              /\ q \notin ps => job'[q] = job[q]
              /\ q \in ps => job'[q] = Idle \/ job'[q].from = Nobody
              /\ job'[q].at # "idle" => job'[q].at = job[q].at
              /\ job'[q].at = "store" => job'[q].copy = job[q].copy /\ job'[q].since = job[q].since
<1>1. ASSUME NEW q \in Threads
      PROVE  /\ job'[q] \in Job
             /\ q \notin ps => job'[q] = job[q]
             /\ q \in ps => job'[q] = Idle \/ job'[q].from = Nobody
             /\ job'[q].at # "idle" => job'[q].at = job[q].at
             /\ job'[q].at = "store" => job'[q].copy = job[q].copy /\ job'[q].since = job[q].since
  <2>1. job[q] \in Job /\ (q \in ps => job[q] # Idle)
    BY DEF TablesOK, Mine
  <2>2. CASE q \notin ps
    BY <2>1, <2>2 DEF Orphaned
  <2>3. CASE q \in ps /\ job[q].at = "answer"
    <3>1. job'[q] = Idle
      BY <2>3 DEF Orphaned
    <3>2. Idle.at = "idle" /\ Idle \in Job
      BY Building DEF Idle
    <3> QED
      BY <2>3, <3>1, <3>2
  <2>4. CASE q \in ps /\ job[q].at # "answer"
    <3>1. job'[q] = [job[q] EXCEPT !.from = Nobody]
      BY <2>4 DEF Orphaned
    <3>2. job[q].at \notin {"idle", "answer"}
      BY <2>1, <2>4, JobFields
    <3>3. LET k == [job[q] EXCEPT !.from = Nobody]
          IN  /\ k \in Job /\ k.at = job[q].at /\ k.from = Nobody
              /\ job[q].at = "store" => k.copy = job[q].copy /\ k.since = job[q].since
              /\ job[q].at = "record" => k.live = job[q].live
      BY <2>1, <3>2, Abandoning
    <3> QED
      BY <2>4, <3>1, <3>3
  <2> QED
    BY <2>2, <2>3, <2>4
<1>2. job' = [q \in Threads |-> job'[q]]
  BY DEF Orphaned
<1> QED
  BY <1>1, <1>2

LEMMA ReplyOK ==
  ASSUME TablesOK, NEW p \in Threads, job[p].at # "idle",
         NEW what \in {"lockout", "missing", "denied", "granted"}
  PROVE  /\ Reply(p, what) \in Job /\ Reply(p, what).at \in {"idle", "answer"}
         /\ Reply(p, what) # Idle /\ Reply(p, what).from = Tab
              <=> job[p] # Idle /\ job[p].from = Tab
<1>1. job[p] \in Job /\ job[p] # Idle /\ job[p].from \in {Tab, Nobody}
  <2>1. job[p] \in Job
    BY DEF TablesOK
  <2> QED
    BY <2>1, JobFields
<1>2. Tab # Nobody
  BY LimiterAssumption
<1>3. CASE job[p].from = Nobody
  BY <1>1, <1>2, <1>3, Building DEF Reply, Idle
<1>4. CASE job[p].from = Tab
  <2>1. Reply(p, what) = [at |-> "answer", from |-> Tab, reply |-> what]
    BY <1>2, <1>4 DEF Reply
  <2>2. [at |-> "answer", from |-> Tab, reply |-> what] \in Job
    BY Building
  <2>3. [at |-> "answer", from |-> Tab, reply |-> what] # Idle
    BY DEF Idle
  <2> QED
    BY <1>1, <1>4, <2>1, <2>2, <2>3
<1> QED
  BY <1>1, <1>3, <1>4

(* A thread that goes on keeps its client, and so do the others. *)
LEMMA MineSame ==
  ASSUME \A q \in Threads : job'[q] # Idle /\ job'[q].from = Tab
                              <=> job[q] # Idle /\ job[q].from = Tab
  PROVE  Mine' = Mine
  BY DEF Mine

LEMMA MineByAt ==
  ASSUME TablesOK, job' \in [Threads -> Job], NEW q \in Threads,
         job'[q].at = job[q].at, job[q].at # "idle" => job'[q].from = job[q].from
  PROVE  job'[q] # Idle /\ job'[q].from = Tab <=> job[q] # Idle /\ job[q].from = Tab
<1>1. job[q] \in Job /\ job'[q] \in Job
  BY DEF TablesOK
<1> QED
  BY <1>1, JobFields

LEMMA CheckOK ==
  ASSUME TablesOK, NEW p \in Threads, Check(p)
  PROVE  /\ TablesOK' /\ Mine' = Mine
         /\ job'[p].at = "store" /\ job'[p].copy = Pruned /\ job'[p].since = {}
         /\ \A q \in Threads \ {p} : job'[q] = job[q]
<1> DEFINE state == [at |-> "store", from |-> job[p].from, copy |-> Pruned, since |-> {}]
<1>1. job \in [Threads -> Job] /\ job[p] \in Job /\ job[p].at = "check" /\ attempts \in List
  BY DEF TablesOK, Check
<1>2. job[p].from \in {Tab, Nobody} /\ job[p] # Idle
  BY <1>1, JobFields
<1>3. Pruned \in List
  BY <1>1, PrunedOK
<1>4. state \in Job
  BY <1>2, <1>3, Building
<1>5. Go(p, job, state) /\ UNCHANGED <<attempts, failed, raced>>
  BY DEF Check
<1>6. state.at = "store" /\ state.from = job[p].from /\ state.copy = Pruned /\ state.since = {} /\ state # Idle
  BY DEF Idle
<1> HIDE DEF state
<1>7. job' \in [Threads -> Job] /\ job'[p] = state /\ \A q \in Threads \ {p} : job'[q] = job[q]
  BY <1>1, <1>4, <1>5, GoOK
<1>8. Mine' = Mine
  BY <1>2, <1>6, <1>7 DEF Mine
<1> QED
  BY <1>5, <1>6, <1>7, <1>8 DEF TablesOK

LEMMA RefuseOK ==
  ASSUME TablesOK, NEW p \in Threads, Refuse(p)
  PROVE  /\ TablesOK' /\ Mine' = Mine
         /\ job'[p].at = "record" /\ \A q \in Threads \ {p} : job'[q] = job[q]
<1> DEFINE state == [at |-> "record", from |-> job[p].from, live |-> TRUE]
<1>1. job \in [Threads -> Job] /\ job[p] \in Job /\ job[p].at = "password"
  BY DEF TablesOK, Refuse
<1>2. job[p].from \in {Tab, Nobody} /\ job[p] # Idle
  BY <1>1, JobFields
<1>3. state \in Job
  BY <1>2, Building
<1>4. Go(p, job, state) /\ UNCHANGED <<attempts, failed, raced>>
  BY DEF Refuse
<1>5. state.at = "record" /\ state.from = job[p].from /\ state # Idle
  BY DEF Idle
<1> HIDE DEF state
<1>6. job' \in [Threads -> Job] /\ job'[p] = state /\ \A q \in Threads \ {p} : job'[q] = job[q]
  BY <1>1, <1>3, <1>4, GoOK
<1>7. Mine' = Mine
  BY <1>2, <1>5, <1>6 DEF Mine
<1> QED
  BY <1>4, <1>5, <1>6, <1>7 DEF TablesOK

LEMMA StoreOK ==
  ASSUME TablesOK, NEW p \in Threads, Store(p)
  PROVE  /\ TablesOK' /\ Mine' = Mine
         /\ job[p].at = "store" /\ attempts' = job[p].copy /\ UNCHANGED failed
         /\ "failure" \in job[p].since => "lost" \in raced'
         /\ "success" \in job[p].since => "undone" \in raced'
         /\ raced \subseteq raced'
         /\ job'[p].at \in {"idle", "answer", "password"}
         /\ job'[p].at = "password" => ~Limited(job[p].copy)
         /\ \A q \in Threads \ {p} :
              job'[q].at = job[q].at /\ (job[q].at = "store" => job'[q] = job[q])
<1>1. job \in [Threads -> Job] /\ job[p] \in Job /\ job[p].at = "store"
  BY DEF TablesOK, Store
<1>2. /\ job[p].from \in {Tab, Nobody} /\ job[p] # Idle
      /\ job[p].copy \in List
  BY <1>1, JobFields
<1>3. /\ attempts' = job[p].copy /\ UNCHANGED failed
      /\ raced' = raced
           \cup (IF "failure" \in job[p].since THEN {"lost"} ELSE {})
           \cup (IF "success" \in job[p].since THEN {"undone"} ELSE {})
  BY DEF Store
<1>4. PICK next \in AfterStore(p) : Go(p, Replaced(p), next)
  BY DEF Store
<1>5. /\ next \in Job /\ next.at \in {"idle", "answer", "password"}
      /\ next.at = "password" => ~Limited(job[p].copy)
      /\ next # Idle /\ next.from = Tab <=> job[p] # Idle /\ job[p].from = Tab
  <2> DEFINE go == [at |-> "password", from |-> job[p].from]
  <2>1. go \in Job /\ go.at = "password" /\ go.from = job[p].from /\ go # Idle
    BY <1>2, Building DEF Idle
  <2> HIDE DEF go
  <2>2. \/ next \in {Reply(p, "lockout"), Reply(p, "missing")}
        \/ next = go /\ ~Limited(job[p].copy)
    BY <1>4 DEF AfterStore, go
  <2>3. CASE next \in {Reply(p, "lockout"), Reply(p, "missing")}
    BY <1>1, <2>3, ReplyOK
  <2> QED
    BY <1>2, <2>1, <2>2, <2>3
<1>6. /\ Replaced(p) \in [Threads -> Job]
      /\ \A q \in Threads :
           /\ Replaced(p)[q].at = job[q].at
           /\ job[q].at # "idle" => Replaced(p)[q].from = job[q].from
           /\ job[q].at # "record" => Replaced(p)[q] = job[q]
  BY ReplacedOK
<1>7. job' \in [Threads -> Job] /\ job'[p] = next /\ \A q \in Threads \ {p} : job'[q] = Replaced(p)[q]
  BY <1>4, <1>5, <1>6, GoOK
<1>8. Mine' = Mine
  <2>1. ASSUME NEW q \in Threads \ {p}
        PROVE  job'[q] # Idle /\ job'[q].from = Tab <=> job[q] # Idle /\ job[q].from = Tab
    BY <1>6, <1>7, MineByAt
  <2> QED
    BY <1>5, <1>7, <2>1, MineSame
<1>9. TablesOK'
  BY <1>2, <1>3, <1>7 DEF TablesOK
<1> QED
  BY <1>1, <1>3, <1>5, <1>6, <1>7, <1>8, <1>9

LEMMA RecordOK ==
  ASSUME TablesOK, NEW p \in Threads, RecordFailure(p)
  PROVE  /\ TablesOK' /\ Mine' = Mine
         /\ job[p].at = "record" /\ job[p].live \in BOOLEAN
         /\ attempts' = IF job[p].live THEN [attempts EXCEPT ![0] = @ + 1] ELSE attempts
         /\ failed' = [failed EXCEPT ![0] = IF @ < Most THEN @ + 1 ELSE @]
         /\ raced' = IF job[p].live THEN raced ELSE raced \cup {"lost"}
         /\ job'[p].at \in {"idle", "answer"}
         /\ \A q \in Threads \ {p} :
              /\ job'[q].at = job[q].at
              /\ job[q].at = "store" => /\ job'[q].copy = job[q].copy
                                        /\ job'[q].since = job[q].since \cup {"failure"}
<1>1. job \in [Threads -> Job] /\ job[p] \in Job /\ job[p].at = "record"
  BY DEF TablesOK, RecordFailure
<1>2. job[p].live \in BOOLEAN
  BY <1>1, JobFields
<1>3. /\ attempts' = IF job[p].live THEN [attempts EXCEPT ![0] = @ + 1] ELSE attempts
      /\ failed' = [failed EXCEPT ![0] = IF @ < Most THEN @ + 1 ELSE @]
      /\ raced' = IF job[p].live THEN raced ELSE raced \cup {"lost"}
      /\ Go(p, Note(job, "failure"), Reply(p, "denied"))
  BY DEF RecordFailure
<1>4. /\ Reply(p, "denied") \in Job /\ Reply(p, "denied").at \in {"idle", "answer"}
      /\ Reply(p, "denied") # Idle /\ Reply(p, "denied").from = Tab
           <=> job[p] # Idle /\ job[p].from = Tab
  BY <1>1, ReplyOK
<1>5. /\ Note(job, "failure") \in [Threads -> Job]
      /\ \A q \in Threads :
           /\ Note(job, "failure")[q].at = job[q].at
           /\ job[q].at # "idle" => Note(job, "failure")[q].from = job[q].from
           /\ job[q].at = "store" =>
                /\ Note(job, "failure")[q].copy = job[q].copy
                /\ Note(job, "failure")[q].since = job[q].since \cup {"failure"}
  BY <1>1, NoteOK
<1>6. /\ job' \in [Threads -> Job] /\ job'[p] = Reply(p, "denied")
      /\ \A q \in Threads \ {p} : job'[q] = Note(job, "failure")[q]
  BY <1>3, <1>4, <1>5, GoOK
<1>7. Mine' = Mine
  <2>1. ASSUME NEW q \in Threads \ {p}
        PROVE  job'[q] # Idle /\ job'[q].from = Tab <=> job[q] # Idle /\ job[q].from = Tab
    BY <1>5, <1>6, MineByAt
  <2> QED
    BY <1>4, <1>6, <2>1, MineSame
<1>8. attempts' \in List
  <2>1. attempts \in List
    BY DEF TablesOK
  <2> QED
    BY <1>3, <2>1, OneMore
<1>9. failed' \in [Ages -> 0..Most]
  <2>1. failed \in [Ages -> 0..Most] /\ 0 \in Ages
    BY AgesOK DEF TablesOK
  <2>2. failed[0] \in 0..Most /\ Most \in Int
    BY <2>1, MostOK
  <2>3. (IF failed[0] < Most THEN failed[0] + 1 ELSE failed[0]) \in 0..Most
    BY <2>2
  <2> QED
    BY <1>3, <2>1, <2>3
<1>10. TablesOK'
  BY <1>3, <1>6, <1>8, <1>9 DEF TablesOK
<1> QED
  BY <1>1, <1>2, <1>3, <1>4, <1>5, <1>6, <1>7, <1>10

LEMMA GrantOK ==
  ASSUME TablesOK, NEW p \in Threads, Grant(p)
  PROVE  /\ TablesOK' /\ Mine' = Mine
         /\ attempts' = EmptyList /\ failed' = EmptyList /\ UNCHANGED raced
         /\ job'[p].at \in {"idle", "answer"}
         /\ \A q \in Threads \ {p} :
              /\ job'[q].at = job[q].at
              /\ job[q].at = "store" => /\ job'[q].copy = job[q].copy
                                        /\ job'[q].since = job[q].since \cup {"success"}
<1>1. job \in [Threads -> Job] /\ job[p] \in Job /\ job[p].at = "password"
  BY DEF TablesOK, Grant
<1>2. /\ attempts' = EmptyList /\ failed' = EmptyList /\ UNCHANGED raced
      /\ Go(p, Note(Replaced(p), "success"), Reply(p, "granted"))
  BY DEF Grant
<1>3. /\ Reply(p, "granted") \in Job /\ Reply(p, "granted").at \in {"idle", "answer"}
      /\ Reply(p, "granted") # Idle /\ Reply(p, "granted").from = Tab
           <=> job[p] # Idle /\ job[p].from = Tab
  BY <1>1, ReplyOK
<1>4. /\ Replaced(p) \in [Threads -> Job]
      /\ \A q \in Threads :
           /\ Replaced(p)[q].at = job[q].at
           /\ job[q].at # "idle" => Replaced(p)[q].from = job[q].from
           /\ job[q].at # "record" => Replaced(p)[q] = job[q]
  BY ReplacedOK
<1> DEFINE noted == Note(Replaced(p), "success")
<1>5. /\ noted \in [Threads -> Job]
      /\ \A q \in Threads :
           /\ noted[q].at = Replaced(p)[q].at
           /\ Replaced(p)[q].at # "idle" => noted[q].from = Replaced(p)[q].from
           /\ Replaced(p)[q].at = "store" =>
                /\ noted[q].copy = Replaced(p)[q].copy
                /\ noted[q].since = Replaced(p)[q].since \cup {"success"}
  BY <1>4, NoteOK
<1> HIDE DEF noted
<1>6. \A q \in Threads :
        /\ noted[q].at = job[q].at
        /\ job[q].at # "idle" => noted[q].from = job[q].from
        /\ job[q].at = "store" => /\ noted[q].copy = job[q].copy
                                  /\ noted[q].since = job[q].since \cup {"success"}
  BY <1>4, <1>5
<1>7. /\ job' \in [Threads -> Job] /\ job'[p] = Reply(p, "granted")
      /\ \A q \in Threads \ {p} : job'[q] = noted[q]
  BY <1>2, <1>3, <1>5, GoOK DEF noted
<1>8. Mine' = Mine
  <2>1. ASSUME NEW q \in Threads \ {p}
        PROVE  job'[q] # Idle /\ job'[q].from = Tab <=> job[q] # Idle /\ job[q].from = Tab
    BY <1>6, <1>7, MineByAt
  <2> QED
    BY <1>3, <1>7, <2>1, MineSame
<1>9. EmptyList \in List /\ EmptyList \in [Ages -> 0..Most]
  BY EmptyOK, MostOK DEF EmptyList
<1>10. TablesOK'
  BY <1>2, <1>7, <1>9 DEF TablesOK
<1> QED
  BY <1>2, <1>3, <1>6, <1>7, <1>8, <1>10

LEMMA TickOK ==
  ASSUME TablesOK, Tick
  PROVE  /\ TablesOK' /\ Mine' = Mine /\ UNCHANGED raced
         /\ attempts' = Older(attempts)
         /\ \A a \in Fresh : failed'[a] = Older(failed)[a]
         /\ \A q \in Threads :
              /\ job'[q].at = job[q].at
              /\ job[q].at = "store" => /\ job'[q].copy = Older(job[q].copy)
                                        /\ job'[q].since = job[q].since
<1>1. /\ job \in [Threads -> Job] /\ attempts \in List /\ failed \in [Ages -> 0..Most]
      /\ Most \in Nat
  BY MostOK DEF TablesOK
<1>2. /\ attempts' = Older(attempts) /\ UNCHANGED raced
      /\ failed' = [Older(failed) EXCEPT ![Window] = 0]
      /\ job' = [p \in Threads |-> IF job[p].at = "store"
                                     THEN [job[p] EXCEPT !.copy = Older(@)] ELSE job[p]]
  BY DEF Tick
<1>3. ASSUME NEW q \in Threads
      PROVE  /\ job'[q] \in Job /\ job'[q].at = job[q].at
             /\ job[q].at # "idle" => job'[q].from = job[q].from
             /\ job[q].at = "store" => /\ job'[q].copy = Older(job[q].copy)
                                       /\ job'[q].since = job[q].since
  <2>1. job[q] \in Job
    BY <1>1
  <2>2. CASE job[q].at = "store"
    <3>1. job'[q] = [job[q] EXCEPT !.copy = Older(job[q].copy)]
      BY <1>2, <2>2
    <3>2. Older(job[q].copy) \in List
      BY <2>1, <2>2, JobFields, OlderOK
    <3>3. LET k == [job[q] EXCEPT !.copy = Older(job[q].copy)]
          IN  /\ k \in Job /\ k.at = "store" /\ k.from = job[q].from
              /\ k.copy = Older(job[q].copy) /\ k.since = job[q].since
      BY <2>1, <2>2, <3>2, Ageing
    <3> QED
      BY <2>2, <3>1, <3>3
  <2>3. CASE job[q].at # "store"
    <3>1. job'[q] = job[q]
      BY <1>2, <2>3
    <3> QED
      BY <2>1, <2>3, <3>1
  <2> QED
    BY <2>2, <2>3
<1>4. job' \in [Threads -> Job]
  <2>1. job' = [q \in Threads |-> job'[q]]
    BY <1>2
  <2> QED
    BY <1>3, <2>1
<1>5. Mine' = Mine
  <2>1. ASSUME NEW q \in Threads
        PROVE  job'[q] # Idle /\ job'[q].from = Tab <=> job[q] # Idle /\ job[q].from = Tab
    BY <1>3, <1>4, MineByAt
  <2> QED
    BY <2>1, MineSame
<1>6. failed \in List
  BY <1>1 DEF List
<1>7. failed' \in [Ages -> 0..Most] /\ \A a \in Fresh : failed'[a] = Older(failed)[a]
  <2>1. \A a \in Ages : a # Window => Older(failed)[a] \in 0..Most
    <3>1. \A a \in Fresh : Older(failed)[a] \in 0..Most
      BY <1>1, <1>6, OlderOK, AgesOK
    <3> QED
      BY <3>1, AgesOK
  <2>2. Older(failed) \in [Ages -> Nat]
    BY <1>6, OlderOK DEF List
  <2>3. \A a \in Ages : failed'[a] = IF a = Window THEN 0 ELSE Older(failed)[a]
    BY <1>2, <2>2
  <2>4. failed' = [a \in Ages |-> failed'[a]]
    BY <1>2, <2>2
  <2>5. \A a \in Ages : failed'[a] \in 0..Most
    BY <1>1, <2>1, <2>3
  <2> QED
    BY <2>3, <2>4, <2>5, AgesOK
<1>8. TablesOK'
  <2>1. Older(attempts) \in List
    BY <1>1, OlderOK
  <2> QED
    BY <1>2, <1>4, <1>7, <2>1 DEF TablesOK
<1> QED
  BY <1>2, <1>3, <1>5, <1>7, <1>8

-----------------------------------------------------------------------------
(* The limiter against the failures there really were. *)

(* Those whose password will be, or was, compared. *)
Active == {p \in Threads : job[p].at \in {"password", "record"}}

Kept(list) == \A a \in Fresh : failed[a] <= list[a]
Caused(list) == \A a \in Fresh : list[a] <= failed[a] \/ failed[a] = Most

(* No failure is missing, but from a copy it came too late for.            *)
NoneLost ==
  "lost" \notin raced =>
    /\ Kept(attempts)
    /\ \A p \in Threads :
         job[p].at = "store" /\ "failure" \notin job[p].since => Kept(job[p].copy)
    /\ Recent(failed) + Cardinality(Active) <= Most - 1

(* No time is left that a success has cleared, but in a copy of before it. *)
NoneUndone ==
  "undone" \notin raced =>
    /\ Caused(attempts)
    /\ \A p \in Threads :
         job[p].at = "store" /\ "success" \notin job[p].since => Caused(job[p].copy)

HistoryOK == NoneLost /\ NoneUndone

LEMMA ActiveOK ==
  /\ IsFiniteSet(Active) /\ Cardinality(Active) \in Nat
  /\ Cardinality(Active) <= Cardinality(Threads) /\ Cardinality(Threads) \in Nat
<1>1. Active \subseteq Threads
  BY DEF Active
<1> QED
  BY <1>1, LimiterAssumption, FS_Subset, FS_CardinalityType

LEMMA FailedOK ==
  ASSUME TablesOK
  PROVE  /\ failed \in List /\ Recent(failed) \in Nat
         /\ \A a \in Fresh : failed[a] \in Nat /\ failed[a] <= Most /\ failed[a] <= Recent(failed)
<1>1. failed \in [Ages -> 0..Most] /\ Most \in Nat
  BY MostOK DEF TablesOK
<1>2. failed \in List
  BY <1>1 DEF List
<1>3. Recent(failed) \in Nat /\ \A a \in Fresh : failed[a] <= Recent(failed)
  BY <1>2, AgesOK, EntriesFinite, ManyEntries DEF Recent
<1> QED
  BY <1>1, <1>2, <1>3, AgesOK

(* A step of a thread that only its own job tells of. *)
LEMMA QuietHistory ==
  ASSUME TablesOK, HistoryOK, UNCHANGED <<attempts, failed, raced>>,
         \A q \in Threads :
           /\ job'[q].at = "store" => /\ job[q].at = "store"
                                      /\ job'[q].copy = job[q].copy /\ job'[q].since = job[q].since
           /\ job'[q].at \in {"password", "record"} => job[q].at \in {"password", "record"}
  PROVE  HistoryOK'
<1>1. Active' \subseteq Active
  BY DEF Active
<1>2. /\ Cardinality(Active') <= Cardinality(Active)
      /\ Cardinality(Active') \in Nat /\ Cardinality(Active) \in Nat
  BY <1>1, ActiveOK, FS_Subset, FS_CardinalityType
<1>3. Recent(failed) \in Nat /\ Most \in Nat
  BY FailedOK, MostOK
<1>4. NoneLost'
  <2> SUFFICES ASSUME "lost" \notin raced'
               PROVE  /\ Kept(attempts)'
                      /\ \A p \in Threads : job'[p].at = "store" /\ "failure" \notin job'[p].since
                                              => Kept(job[p].copy)'
                      /\ Recent(failed)' + Cardinality(Active)' <= Most - 1
    BY DEF NoneLost
  <2>1. /\ Kept(attempts)
        /\ \A p \in Threads : job[p].at = "store" /\ "failure" \notin job[p].since => Kept(job[p].copy)
        /\ Recent(failed) + Cardinality(Active) <= Most - 1
    BY DEF NoneLost, HistoryOK
  <2>2. Recent(failed)' = Recent(failed)
    OBVIOUS
  <2>3. Recent(failed)' + Cardinality(Active)' <= Most - 1
    BY <1>2, <1>3, <2>1, <2>2
  <2> QED
    BY <2>1, <2>3 DEF Kept
<1>5. NoneUndone'
  <2> SUFFICES ASSUME "undone" \notin raced'
               PROVE  /\ Caused(attempts)'
                      /\ \A p \in Threads : job'[p].at = "store" /\ "success" \notin job'[p].since
                                              => Caused(job[p].copy)'
    BY DEF NoneUndone
  <2>1. /\ Caused(attempts)
        /\ \A p \in Threads : job[p].at = "store" /\ "success" \notin job[p].since => Caused(job[p].copy)
    BY DEF NoneUndone, HistoryOK
  <2> QED
    BY <2>1 DEF Caused
<1> QED
  BY <1>4, <1>5 DEF HistoryOK

LEMMA CheckHistory ==
  ASSUME TablesOK, HistoryOK, NEW p \in Threads, Check(p)
  PROVE  HistoryOK'
<1>1. /\ job'[p].at = "store" /\ job'[p].copy = Pruned /\ job'[p].since = {}
      /\ \A q \in Threads \ {p} : job'[q] = job[q]
      /\ UNCHANGED <<attempts, failed, raced>> /\ job[p].at = "check"
  BY CheckOK DEF Check
<1>2. \A a \in Fresh : Pruned[a] = attempts[a]
  BY PrunedOK DEF TablesOK
<1>3. Active' = Active
  BY <1>1 DEF Active
<1>4. NoneLost'
  <2> SUFFICES ASSUME "lost" \notin raced'
               PROVE  /\ Kept(attempts)'
                      /\ \A q \in Threads : job'[q].at = "store" /\ "failure" \notin job'[q].since
                                              => Kept(job[q].copy)'
                      /\ Recent(failed)' + Cardinality(Active)' <= Most - 1
    BY DEF NoneLost
  <2>1. /\ Kept(attempts)
        /\ \A q \in Threads : job[q].at = "store" /\ "failure" \notin job[q].since => Kept(job[q].copy)
        /\ Recent(failed) + Cardinality(Active) <= Most - 1
    BY <1>1 DEF NoneLost, HistoryOK
  <2>2. Recent(failed)' = Recent(failed)
    BY <1>1
  <2> QED
    BY <1>1, <1>2, <1>3, <2>1, <2>2 DEF Kept
<1>5. NoneUndone'
  <2> SUFFICES ASSUME "undone" \notin raced'
               PROVE  /\ Caused(attempts)'
                      /\ \A q \in Threads : job'[q].at = "store" /\ "success" \notin job'[q].since
                                              => Caused(job[q].copy)'
    BY DEF NoneUndone
  <2>1. /\ Caused(attempts)
        /\ \A q \in Threads : job[q].at = "store" /\ "success" \notin job[q].since => Caused(job[q].copy)
    BY <1>1 DEF NoneUndone, HistoryOK
  <2> QED
    BY <1>1, <1>2, <2>1 DEF Caused
<1> QED
  BY <1>4, <1>5 DEF HistoryOK

(* The limit: whoever is let through saw fewer failures than the limit,    *)
(* and every failure of the window that is not lost.                       *)
LEMMA StoreHistory ==
  ASSUME TablesOK, HistoryOK, NEW p \in Threads, Store(p)
  PROVE  HistoryOK'
<1>1. /\ job[p].at = "store" /\ attempts' = job[p].copy /\ UNCHANGED failed
      /\ "failure" \in job[p].since => "lost" \in raced'
      /\ "success" \in job[p].since => "undone" \in raced'
      /\ raced \subseteq raced'
      /\ job'[p].at \in {"idle", "answer", "password"}
      /\ job'[p].at = "password" => ~Limited(job[p].copy)
      /\ \A q \in Threads \ {p} :
           job'[q].at = job[q].at /\ (job[q].at = "store" => job'[q] = job[q])
  BY StoreOK
<1>2. NoneLost'
  <2> SUFFICES ASSUME "lost" \notin raced'
               PROVE  /\ Kept(attempts)'
                      /\ \A q \in Threads : job'[q].at = "store" /\ "failure" \notin job'[q].since
                                              => Kept(job[q].copy)'
                      /\ Recent(failed)' + Cardinality(Active)' <= Most - 1
    BY DEF NoneLost
  <2>1. /\ "failure" \notin job[p].since
        /\ \A q \in Threads : job[q].at = "store" /\ "failure" \notin job[q].since => Kept(job[q].copy)
        /\ Recent(failed) + Cardinality(Active) <= Most - 1
    BY <1>1 DEF NoneLost, HistoryOK
  <2>2. Kept(job[p].copy)
    BY <1>1, <2>1
  <2>3. Recent(failed)' = Recent(failed)
    BY <1>1
  <2>4. Cardinality(Active') \in Nat /\ Cardinality(Active) \in Nat /\ Recent(failed) \in Nat /\ Most \in Nat
    <3>1. Active' \subseteq Threads
      BY DEF Active
    <3> QED
      BY <3>1, ActiveOK, FailedOK, MostOK, LimiterAssumption, FS_Subset, FS_CardinalityType
  <2>5. CASE job'[p].at = "password"
    <3>1. job[p].copy \in List
      BY <1>1, JobFields DEF TablesOK
    <3>2. Total(job[p].copy) < MaxFailed
      <4>1. Total(job[p].copy) \in Nat /\ MaxFailed \in Nat
        BY <3>1, EntriesFinite, MostOK DEF Total
      <4> QED
        BY <1>1, <2>5, <4>1 DEF Limited
    <3>3. Recent(failed) <= Recent(job[p].copy)
      BY <2>2, <3>1, FailedOK, MoreEntries, AgesOK DEF Kept, Recent
    <3>4. Recent(job[p].copy) <= Total(job[p].copy)
      <4>1. Entries(job[p].copy, Fresh) \subseteq Entries(job[p].copy, Ages)
        BY AgesOK DEF Entries
      <4> QED
        BY <3>1, <4>1, EntriesFinite, FS_Subset DEF Recent, Total
    <3>5. Recent(job[p].copy) \in Nat /\ Total(job[p].copy) \in Nat
      BY <3>1, EntriesFinite, AgesOK DEF Recent, Total
    <3>6. Cardinality(Active') <= Cardinality(Threads)
      <4>1. Active' \subseteq Threads
        BY DEF Active
      <4> QED
        BY <4>1, LimiterAssumption, FS_Subset
    <3>7. Recent(failed) + Cardinality(Active') <= Most - 1
      <4>1. Most = MaxFailed + Cardinality(Threads) /\ MaxFailed \in Nat /\ Cardinality(Threads) \in Nat
        BY MostOK, ActiveOK DEF Most
      <4> QED
        BY <2>4, <3>2, <3>3, <3>4, <3>5, <3>6, <4>1
    <3> QED
      BY <1>1, <2>1, <2>2, <2>3, <2>5, <3>7 DEF Kept
  <2>6. CASE job'[p].at # "password"
    <3>1. Active' \subseteq Active
      BY <1>1, <2>6 DEF Active
    <3>2. Cardinality(Active') <= Cardinality(Active)
      BY <3>1, ActiveOK, FS_Subset
    <3>3. Recent(failed) + Cardinality(Active') <= Most - 1
      BY <2>1, <2>4, <3>2
    <3> QED
      BY <1>1, <2>1, <2>2, <2>3, <2>6, <3>3 DEF Kept
  <2> QED
    BY <2>5, <2>6
<1>3. NoneUndone'
  <2> SUFFICES ASSUME "undone" \notin raced'
               PROVE  /\ Caused(attempts)'
                      /\ \A q \in Threads : job'[q].at = "store" /\ "success" \notin job'[q].since
                                              => Caused(job[q].copy)'
    BY DEF NoneUndone
  <2>1. /\ "success" \notin job[p].since
        /\ \A q \in Threads : job[q].at = "store" /\ "success" \notin job[q].since => Caused(job[q].copy)
    BY <1>1 DEF NoneUndone, HistoryOK
  <2> QED
    BY <1>1, <2>1 DEF Caused
<1> QED
  BY <1>2, <1>3 DEF HistoryOK

LEMMA RecordHistory ==
  ASSUME TablesOK, HistoryOK, NEW p \in Threads, RecordFailure(p)
  PROVE  HistoryOK'
<1>1. /\ job[p].at = "record" /\ job[p].live \in BOOLEAN
      /\ attempts' = IF job[p].live THEN [attempts EXCEPT ![0] = @ + 1] ELSE attempts
      /\ failed' = [failed EXCEPT ![0] = IF @ < Most THEN @ + 1 ELSE @]
      /\ raced' = IF job[p].live THEN raced ELSE raced \cup {"lost"}
      /\ job'[p].at \in {"idle", "answer"}
      /\ \A q \in Threads \ {p} :
           /\ job'[q].at = job[q].at
           /\ job[q].at = "store" => /\ job'[q].copy = job[q].copy
                                     /\ job'[q].since = job[q].since \cup {"failure"}
  BY RecordOK
<1>2. /\ failed \in List /\ attempts \in List /\ 0 \in Fresh /\ Fresh \subseteq Ages
      /\ Most \in Nat /\ Recent(failed) \in Nat
      /\ \A a \in Fresh : /\ failed[a] \in Nat /\ attempts[a] \in Nat
                          /\ failed[a] <= Most /\ failed[a] <= Recent(failed)
  BY FailedOK, AgesOK, MostOK DEF TablesOK, List
<1>3. \A a \in Fresh :
        /\ failed'[a] = IF a = 0 /\ failed[0] < Most THEN failed[0] + 1 ELSE failed[a]
        /\ attempts'[a] = IF a = 0 /\ job[p].live THEN attempts[0] + 1 ELSE attempts[a]
  <2>1. \A a \in Fresh : failed'[a] = IF a = 0 /\ failed[0] < Most THEN failed[0] + 1 ELSE failed[a]
    BY <1>1, <1>2 DEF List
  <2>2. CASE job[p].live
    BY <1>1, <1>2, <2>1, <2>2 DEF List
  <2>3. CASE ~job[p].live
    BY <1>1, <1>2, <2>1, <2>3 DEF List
  <2> QED
    BY <2>2, <2>3
<1>4. NoneLost'
  <2> SUFFICES ASSUME "lost" \notin raced'
               PROVE  /\ Kept(attempts)'
                      /\ \A q \in Threads : job'[q].at = "store" /\ "failure" \notin job'[q].since
                                              => Kept(job[q].copy)'
                      /\ Recent(failed)' + Cardinality(Active)' <= Most - 1
    BY DEF NoneLost
  <2>1. job[p].live
    BY <1>1
  <2>2. /\ Kept(attempts)
        /\ Recent(failed) + Cardinality(Active) <= Most - 1
    BY <1>1, <2>1 DEF NoneLost, HistoryOK
  <2>3. \A q \in Threads : ~(job'[q].at = "store" /\ "failure" \notin job'[q].since)
    BY <1>1
  <2>4. p \in Active /\ Active' = Active \ {p}
    BY <1>1 DEF Active
  <2>5. Cardinality(Active') = Cardinality(Active) - 1 /\ Cardinality(Active) \in Nat
    BY <2>4, ActiveOK, FS_RemoveElement
  <2>6. failed[0] < Most
    BY <1>2, <2>2, ActiveOK
  <2>7. Recent(failed') = Recent(failed) + 1
    <3>1. failed' = [failed EXCEPT ![0] = @ + 1]
      BY <1>1, <2>6
    <3> QED
      BY <1>2, <3>1, OneMore
  <2>8. Recent(failed') + Cardinality(Active') <= Most - 1
    BY <1>2, <2>2, <2>5, <2>7
  <2>9. Recent(failed)' = Recent(failed')
    BY DEF Recent, Entries
  <2>10. \A a \in Fresh : failed'[a] <= attempts'[a]
    <3> TAKE a \in Fresh
    <3>1. failed[a] <= attempts[a] /\ failed[0] <= attempts[0]
      BY <1>2, <2>2 DEF Kept
    <3> QED
      BY <1>2, <1>3, <2>1, <3>1
  <2> QED
    BY <2>3, <2>8, <2>9, <2>10 DEF Kept
<1>5. ASSUME NEW list \in List, Caused(list)
      PROVE  /\ \A a \in Fresh : list[a] <= failed'[a] \/ failed'[a] = Most
             /\ \A a \in Fresh : a = 0 => list[a] + 1 <= failed'[a] \/ failed'[a] = Most
  <2>1. \A a \in Fresh : list[a] \in Nat /\ (list[a] <= failed[a] \/ failed[a] = Most)
    BY <1>2, <1>5 DEF Caused, List
  <2> QED
    BY <1>2, <1>3, <2>1
<1>6. NoneUndone'
  <2> SUFFICES ASSUME "undone" \notin raced'
               PROVE  /\ Caused(attempts)'
                      /\ \A q \in Threads : job'[q].at = "store" /\ "success" \notin job'[q].since
                                              => Caused(job[q].copy)'
    BY DEF NoneUndone
  <2>1. "undone" \notin raced
    BY <1>1
  <2>2. /\ Caused(attempts)
        /\ \A q \in Threads : job[q].at = "store" /\ "success" \notin job[q].since => Caused(job[q].copy)
    BY <2>1 DEF NoneUndone, HistoryOK
  <2>3. \A a \in Fresh : attempts'[a] <= failed'[a] \/ failed'[a] = Most
    BY <1>2, <1>3, <1>5, <2>2
  <2>4. ASSUME NEW q \in Threads, job'[q].at = "store", "success" \notin job'[q].since
        PROVE  \A a \in Fresh : (job[q].copy)'[a] <= failed'[a] \/ failed'[a] = Most
    <3>1. /\ job[q].at = "store" /\ "success" \notin job[q].since
          /\ job'[q].copy = job[q].copy /\ job[q].copy \in List
      BY <1>1, <2>4, JobFields DEF TablesOK
    <3> QED
      BY <1>5, <2>2, <3>1
  <2> QED
    BY <2>3, <2>4 DEF Caused
<1> QED
  BY <1>4, <1>6 DEF HistoryOK

LEMMA GrantHistory ==
  ASSUME TablesOK, HistoryOK, NEW p \in Threads, Grant(p)
  PROVE  HistoryOK'
<1>1. /\ attempts' = EmptyList /\ failed' = EmptyList /\ UNCHANGED raced
      /\ job'[p].at \in {"idle", "answer"}
      /\ \A q \in Threads \ {p} :
           /\ job'[q].at = job[q].at
           /\ job[q].at = "store" => /\ job'[q].copy = job[q].copy
                                     /\ job'[q].since = job[q].since \cup {"success"}
      /\ job[p].at = "password"
  BY GrantOK DEF Grant
<1>2. \A a \in Fresh : EmptyList[a] = 0
  BY EmptyOK, AgesOK
<1>3. \A q \in Threads : job'[q].at = "store" => job'[q].copy \in List /\ "success" \in job'[q].since
  <2> TAKE q \in Threads
  <2> SUFFICES ASSUME job'[q].at = "store" PROVE job'[q].copy \in List /\ "success" \in job'[q].since
    OBVIOUS
  <2>1. job[q].at = "store" /\ job'[q].copy = job[q].copy /\ job'[q].since = job[q].since \cup {"success"}
    BY <1>1
  <2> QED
    BY <2>1, JobFields DEF TablesOK
<1>4. NoneLost'
  <2>1. Recent(failed)' = 0
    BY <1>1, EmptyOK DEF Recent, Entries
  <2>2. Cardinality(Active') \in Nat /\ Cardinality(Active') <= Cardinality(Threads) - 1
    <3>1. Active' \subseteq Threads \ {p}
      BY <1>1 DEF Active
    <3>2. IsFiniteSet(Threads \ {p}) /\ Cardinality(Threads \ {p}) = Cardinality(Threads) - 1
      BY LimiterAssumption, FS_RemoveElement
    <3> QED
      BY <3>1, <3>2, FS_Subset, FS_CardinalityType
  <2>3. Recent(failed)' + Cardinality(Active)' <= Most - 1
    <3>1. Most = MaxFailed + Cardinality(Threads) /\ MaxFailed \in Nat \ {0} /\ Cardinality(Threads) \in Nat
      BY MostOK, ActiveOK DEF Most
    <3> QED
      BY <2>1, <2>2, <3>1
  <2>4. Kept(attempts)'
    BY <1>1, <1>2 DEF Kept
  <2>5. ASSUME NEW q \in Threads, job'[q].at = "store" PROVE Kept(job[q].copy)'
    <3>1. \A a \in Fresh : job'[q].copy[a] \in Nat
      BY <1>3, <2>5, AgesOK DEF List
    <3> QED
      BY <1>1, <1>2, <3>1 DEF Kept
  <2> QED
    BY <2>3, <2>4, <2>5 DEF NoneLost
<1>5. NoneUndone'
  BY <1>1, <1>2, <1>3 DEF NoneUndone, Caused
<1> QED
  BY <1>4, <1>5 DEF HistoryOK

LEMMA TickHistory ==
  ASSUME TablesOK, HistoryOK, Tick
  PROVE  HistoryOK'
<1>1. /\ UNCHANGED raced /\ attempts' = Older(attempts)
      /\ \A a \in Fresh : failed'[a] = Older(failed)[a]
      /\ \A q \in Threads :
           /\ job'[q].at = job[q].at
           /\ job[q].at = "store" => /\ job'[q].copy = Older(job[q].copy)
                                     /\ job'[q].since = job[q].since
      /\ TablesOK'
  BY TickOK
<1>2. /\ attempts \in List /\ failed \in List /\ failed' \in List /\ Most \in Nat
      /\ Recent(failed) \in Nat /\ Recent(failed') \in Nat
  <2>1. failed \in List /\ Recent(failed) \in Nat
    BY FailedOK
  <2>2. failed' \in List
    BY <1>1, MostOK DEF TablesOK, List
  <2>3. Recent(failed') \in Nat
    BY <2>2, EntriesFinite, AgesOK DEF Recent
  <2> QED
    BY <2>1, <2>2, <2>3, MostOK DEF TablesOK
<1>3. ASSUME NEW list \in List
      PROVE  \A a \in Fresh : IF a = 0 THEN Older(list)[a] = 0
                              ELSE a - 1 \in Fresh /\ Older(list)[a] = list[a - 1]
  BY OlderOK
<1>4. \A a \in Fresh : IF a = 0 THEN failed'[a] = 0
                       ELSE a - 1 \in Fresh /\ failed'[a] = failed[a - 1]
  BY <1>1, <1>2, <1>3
<1>5. Recent(failed') <= Recent(failed)
  <2>1. failed'[0] = 0 /\ \A a \in Fresh \ {0} : a - 1 \in Fresh /\ failed'[a] = failed[a - 1]
    BY <1>4, AgesOK
  <2> QED
    BY <1>2, <2>1, FewerRecent
<1>6. Active' = Active
  BY <1>1 DEF Active
<1>7. ASSUME NEW list \in List, Kept(list)
      PROVE  \A a \in Fresh : failed'[a] <= Older(list)[a]
  BY <1>3, <1>4, <1>7 DEF Kept
<1>8. ASSUME NEW list \in List, Caused(list)
      PROVE  \A a \in Fresh : Older(list)[a] <= failed'[a] \/ failed'[a] = Most
  BY <1>3, <1>4, <1>8 DEF Caused
<1>9. ASSUME NEW q \in Threads, job'[q].at = "store"
      PROVE  /\ job[q].at = "store" /\ job[q].copy \in List
             /\ job'[q].copy = Older(job[q].copy) /\ job'[q].since = job[q].since
  BY <1>1, <1>9, JobFields DEF TablesOK
<1>10. NoneLost'
  <2> SUFFICES ASSUME "lost" \notin raced'
               PROVE  /\ Kept(attempts)'
                      /\ \A q \in Threads : job'[q].at = "store" /\ "failure" \notin job'[q].since
                                              => Kept(job[q].copy)'
                      /\ Recent(failed)' + Cardinality(Active)' <= Most - 1
    BY DEF NoneLost
  <2>1. /\ Kept(attempts)
        /\ \A q \in Threads : job[q].at = "store" /\ "failure" \notin job[q].since => Kept(job[q].copy)
        /\ Recent(failed) + Cardinality(Active) <= Most - 1
    BY <1>1 DEF NoneLost, HistoryOK
  <2>2. \A a \in Fresh : failed'[a] <= attempts'[a]
    BY <1>1, <1>2, <1>7, <2>1
  <2>3. ASSUME NEW q \in Threads, job'[q].at = "store", "failure" \notin job'[q].since
        PROVE  \A a \in Fresh : failed'[a] <= job'[q].copy[a]
    BY <1>7, <1>9, <2>1, <2>3
  <2>4. Recent(failed') + Cardinality(Active') <= Most - 1
    BY <1>2, <1>5, <1>6, <2>1, ActiveOK
  <2>5. Recent(failed)' = Recent(failed')
    BY DEF Recent, Entries
  <2> QED
    BY <2>2, <2>3, <2>4, <2>5 DEF Kept
<1>11. NoneUndone'
  <2> SUFFICES ASSUME "undone" \notin raced'
               PROVE  /\ Caused(attempts)'
                      /\ \A q \in Threads : job'[q].at = "store" /\ "success" \notin job'[q].since
                                              => Caused(job[q].copy)'
    BY DEF NoneUndone
  <2>1. /\ Caused(attempts)
        /\ \A q \in Threads : job[q].at = "store" /\ "success" \notin job[q].since => Caused(job[q].copy)
    BY <1>1 DEF NoneUndone, HistoryOK
  <2>2. \A a \in Fresh : attempts'[a] <= failed'[a] \/ failed'[a] = Most
    BY <1>1, <1>2, <1>8, <2>1
  <2>3. ASSUME NEW q \in Threads, job'[q].at = "store", "success" \notin job'[q].since
        PROVE  \A a \in Fresh : job'[q].copy[a] <= failed'[a] \/ failed'[a] = Most
    BY <1>8, <1>9, <2>1, <2>3
  <2> QED
    BY <2>2, <2>3 DEF Caused
<1> QED
  BY <1>10, <1>11 DEF HistoryOK

(* LockoutHonest, for one step of one thread. *)
LEMMA HonestStep ==
  ASSUME TablesOK, HistoryOK, NEW p \in Threads, Check(p),
         Total(job'[p].copy) >= MaxFailed
  PROVE  "undone" \in raced \/ Recent(failed) >= MaxFailed
<1>1. job'[p].copy = Pruned /\ attempts \in List
  BY CheckOK DEF TablesOK
<1>2. Recent(attempts) >= MaxFailed
  BY <1>1, PrunedOK
<1>3. SUFFICES ASSUME "undone" \notin raced PROVE Recent(failed) >= MaxFailed
  OBVIOUS
<1>4. Caused(attempts)
  BY <1>3 DEF HistoryOK, NoneUndone
<1>5. /\ failed \in List /\ Recent(failed) \in Nat /\ Recent(attempts) \in Nat
      /\ Most \in Nat /\ MaxFailed \in Nat /\ Most >= MaxFailed
      /\ \A a \in Fresh : failed[a] \in Nat /\ failed[a] <= Recent(failed)
  BY <1>1, FailedOK, MostOK, EntriesFinite, AgesOK DEF Recent
<1>6. CASE \E a \in Fresh : failed[a] = Most
  BY <1>5, <1>6
<1>7. CASE \A a \in Fresh : failed[a] # Most
  <2>1. \A a \in Fresh : attempts[a] <= failed[a]
    BY <1>4, <1>7 DEF Caused
  <2>2. Recent(attempts) <= Recent(failed)
    BY <1>1, <1>5, <2>1, AgesOK, MoreEntries DEF Recent
  <2> QED
    BY <1>2, <1>5, <2>2
<1> QED
  BY <1>6, <1>7

-----------------------------------------------------------------------------
(* The page. *)

FormOK ==
  /\ page \in {"login", "dashboard"}
  /\ session \in BOOLEAN /\ woken \in BOOLEAN
  /\ button \in {"idle", "loading", "success", "error"}
  /\ banner \in {"hidden", "error", "granted"}
  /\ idles \in Nat /\ leaves \in Nat

(* Each attempt comes to one timer, so the bound of Submit lasts.          *)
PendingOK == Cardinality(Mine) + idles + leaves <= MaxPending + 1

(* A page that has left waits for nothing.                                 *)
AwayOK == page = "dashboard" => Mine = {} /\ leaves = 0

(* An undisturbed page has one attempt or one success pending.             *)
AloneOK ==
  ~woken => /\ \A p, q \in Mine : p = q
            /\ Mine # {} => leaves = 0
            /\ leaves <= 1

PageOK == FormOK /\ PendingOK /\ AwayOK /\ AloneOK /\ FeedbackAgrees /\ OneAttempt

IInv == TablesOK /\ HistoryOK /\ PageOK

LEMMA Promises == IInv => FormConsistent /\ FailuresBounded
<1> SUFFICES ASSUME IInv PROVE FormConsistent /\ FailuresBounded
  OBVIOUS
<1>1. TablesOK /\ HistoryOK /\ PageOK
  BY DEF IInv
<1>2. LimiterTypeOK
  BY <1>1, FailedOK DEF TablesOK, LimiterTypeOK
<1>3. Cardinality(Mine) \in Nat
  <2>1. Mine \subseteq Threads
    BY DEF Mine
  <2> QED
    BY <2>1, LimiterAssumption, FS_Subset, FS_CardinalityType
<1>4. idles \in 0 .. MaxPending + 1 /\ leaves \in 0 .. MaxPending + 1
  BY <1>1, <1>3, PendingAssumption DEF PageOK, FormOK, PendingOK
<1>5. FormConsistent
  BY <1>1, <1>2, <1>4 DEF FormConsistent, TypeOK, PageOK, FormOK
<1>6. FailuresBounded
  <2> SUFFICES ASSUME "lost" \notin raced
               PROVE  Recent(failed) <= MaxFailed + Cardinality(Threads) - 1
    BY DEF FailuresBounded
  <2>1. Recent(failed) + Cardinality(Active) <= Most - 1
    BY <1>1 DEF HistoryOK, NoneLost
  <2>2. Recent(failed) \in Nat /\ Cardinality(Active) \in Nat /\ Most \in Nat
    BY <1>1, FailedOK, ActiveOK, MostOK
  <2>3. Recent(failed) <= Most - 1
    BY <2>1, <2>2
  <2> QED
    BY <2>2, <2>3, MostOK, ActiveOK DEF Most
<1> QED
  BY <1>5, <1>6

LEMMA InitOK == Init => IInv
<1> SUFFICES ASSUME Init PROVE TablesOK /\ HistoryOK /\ PageOK
  BY DEF IInv
<1>1. /\ attempts = EmptyList /\ failed = EmptyList /\ raced = {}
      /\ job = [p \in Threads |-> Idle]
  BY DEF Init, LimiterInit
<1>2. Idle \in Job /\ Idle.at = "idle"
  BY Building DEF Idle
<1>3. TablesOK
  <2>1. EmptyList \in [Ages -> 0..Most]
    BY MostOK DEF EmptyList
  <2> QED
    BY <1>1, <1>2, <2>1, EmptyOK DEF TablesOK
<1>4. \A p \in Threads : job[p] = Idle /\ job[p].at = "idle"
  BY <1>1, <1>2
<1>5. HistoryOK
  <2>1. Active = {}
    BY <1>4 DEF Active
  <2>2. Recent(failed) + Cardinality(Active) <= Most - 1
    BY <1>1, <2>1, EmptyOK, FS_EmptySet, MostOK
  <2>3. Kept(attempts) /\ Caused(attempts)
    BY <1>1, EmptyOK, AgesOK DEF Kept, Caused
  <2> QED
    BY <1>4, <2>2, <2>3 DEF HistoryOK, NoneLost, NoneUndone
<1>6. PageOK
  <2>1. Mine = {}
    BY <1>4 DEF Mine
  <2>2. Cardinality(Mine) = 0
    BY <2>1, FS_EmptySet
  <2>3. session \in BOOLEAN /\ woken \in BOOLEAN
    BY Zenon DEF Init
  <2>4. /\ page = "login" /\ button = "idle" /\ banner = "hidden" /\ idles = 0 /\ leaves = 0
    BY DEF Init
  <2>5. PendingOK
    BY <2>2, <2>4, PendingAssumption DEF PendingOK
  <2> QED
    BY <2>1, <2>3, <2>4, <2>5 DEF PageOK, FormOK, AwayOK, AloneOK, FeedbackAgrees, OneAttempt
<1> QED
  BY <1>3, <1>5, <1>6

LEMMA MineFinite == IsFiniteSet(Mine) /\ Cardinality(Mine) \in Nat
<1>1. Mine \subseteq Threads
  BY DEF Mine
<1> QED
  BY <1>1, LimiterAssumption, FS_Subset, FS_CardinalityType

LEMMA PageSame ==
  ASSUME PageOK, Mine' = Mine, UNCHANGED <<page, session, form>>
  PROVE  PageOK'
  BY DEF PageOK, FormOK, PendingOK, AwayOK, AloneOK, FeedbackAgrees, OneAttempt, Enabled, form

LEMMA ServeOK ==
  ASSUME IInv, \/ \E p \in Threads : Serve(p)
               \/ Clock
  PROVE  IInv'
<1>1. TablesOK /\ HistoryOK /\ PageOK
  BY DEF IInv
<1>2. UNCHANGED <<page, session, form>>
  BY DEF Serve, Clock
<1>3. SUFFICES TablesOK' /\ Mine' = Mine /\ HistoryOK'
  BY <1>1, <1>2, PageSame DEF IInv
<1>4. CASE Clock
  BY <1>1, <1>4, TickOK, TickHistory DEF Clock
<1>5. ASSUME NEW p \in Threads, Serve(p) PROVE TablesOK' /\ Mine' = Mine /\ HistoryOK'
  <2>1. CASE Check(p)
    BY <1>1, <2>1, CheckOK, CheckHistory
  <2>2. CASE Store(p)
    BY <1>1, <2>2, StoreOK, StoreHistory
  <2>3. CASE Refuse(p)
    <3>1. /\ TablesOK' /\ Mine' = Mine
          /\ job'[p].at = "record" /\ job[p].at = "password"
          /\ \A q \in Threads \ {p} : job'[q] = job[q]
          /\ UNCHANGED <<attempts, failed, raced>>
      BY <1>1, <2>3, RefuseOK DEF Refuse
    <3>2. HistoryOK'
      BY <1>1, <3>1, QuietHistory
    <3> QED
      BY <3>1, <3>2
  <2>4. CASE RecordFailure(p)
    BY <1>1, <2>4, RecordOK, RecordHistory
  <2>5. CASE Grant(p)
    BY <1>1, <2>5, GrantOK, GrantHistory
  <2> QED
    BY <1>5, <2>1, <2>2, <2>3, <2>4, <2>5 DEF Serve, Work
<1> QED
  BY <1>4, <1>5

LEMMA ReceiveOK ==
  ASSUME TablesOK, HistoryOK, NEW p \in Threads, NEW from \in {Tab, Nobody},
         Receive(p, from), UNCHANGED <<attempts, failed, raced>>
  PROVE  /\ TablesOK' /\ HistoryOK' /\ p \notin Mine
         /\ Mine' = IF from = Tab THEN Mine \cup {p} ELSE Mine
<1> DEFINE state == [at |-> "check", from |-> from]
<1>1. job \in [Threads -> Job] /\ job[p] = Idle /\ Go(p, job, state)
  BY DEF TablesOK, Receive
<1>2. state \in Job /\ state.at = "check" /\ state.from = from /\ state # Idle
  BY Building DEF Idle
<1> HIDE DEF state
<1>3. job' \in [Threads -> Job] /\ job'[p] = state /\ \A q \in Threads \ {p} : job'[q] = job[q]
  BY <1>1, <1>2, GoOK
<1>4. HistoryOK'
  BY <1>2, <1>3, QuietHistory
<1>5. TablesOK'
  BY <1>3 DEF TablesOK
<1>6. p \notin Mine
  BY <1>1 DEF Mine
<1>7. Mine' = IF from = Tab THEN Mine \cup {p} ELSE Mine
  BY <1>1, <1>2, <1>3 DEF Mine
<1> QED
  BY <1>4, <1>5, <1>6, <1>7

(* The page stops waiting for some of its attempts. *)
LEMMA ForgetOK ==
  ASSUME TablesOK, HistoryOK, NEW ps \in SUBSET Mine, job' = Orphaned(ps),
         UNCHANGED <<attempts, failed, raced>>
  PROVE  TablesOK' /\ HistoryOK' /\ Mine' = Mine \ ps
<1>1. /\ job' \in [Threads -> Job]
      /\ \A q \in Threads :
           /\ q \notin ps => job'[q] = job[q]
           /\ q \in ps => job'[q] = Idle \/ job'[q].from = Nobody
           /\ job'[q].at # "idle" => job'[q].at = job[q].at
           /\ job'[q].at = "store" => job'[q].copy = job[q].copy /\ job'[q].since = job[q].since
  BY OrphanedOK
<1>2. HistoryOK'
  BY <1>1, QuietHistory
<1>3. TablesOK'
  BY <1>1 DEF TablesOK
<1>4. Mine' = Mine \ ps
  BY <1>1, LimiterAssumption DEF Mine
<1> QED
  BY <1>2, <1>3, <1>4

LEMMA DeliveredOK ==
  ASSUME TablesOK, HistoryOK, NEW p \in Threads, Answered(p)
  PROVE  TablesOK' /\ HistoryOK' /\ p \in Mine /\ Mine' = Mine \ {p}
<1>1. /\ job \in [Threads -> Job] /\ job[p].at = "answer" /\ job[p].from = Tab
      /\ Go(p, job, Idle) /\ UNCHANGED <<attempts, failed, raced>>
  BY DEF TablesOK, Answered
<1>2. Idle \in Job /\ Idle.at = "idle"
  BY Building DEF Idle
<1>3. job' \in [Threads -> Job] /\ job'[p] = Idle /\ \A q \in Threads \ {p} : job'[q] = job[q]
  BY <1>1, <1>2, GoOK
<1>4. HistoryOK'
  BY <1>1, <1>2, <1>3, QuietHistory
<1>5. TablesOK'
  BY <1>1, <1>3 DEF TablesOK
<1>6. p \in Mine
  BY <1>1, <1>2 DEF Mine
<1>7. Mine' = Mine \ {p}
  BY <1>3 DEF Mine
<1> QED
  BY <1>4, <1>5, <1>6, <1>7

(* The submit handler after its await, with an answer or without one.      *)
LEMMA ShownOK ==
  ASSUME PageOK, NEW p \in Mine, Mine' = Mine \ {p}, NEW reply, Shown(reply),
         session' \in BOOLEAN, session => session', reply = "granted" => session',
         UNCHANGED <<page, woken>>
  PROVE  PageOK'
<1>1. FormOK /\ PendingOK /\ AwayOK /\ AloneOK /\ FeedbackAgrees /\ OneAttempt
  BY DEF PageOK
<1>2. \/ /\ reply = "granted" /\ button' = "success" /\ banner' = "granted"
         /\ leaves' = leaves + 1 /\ idles' = idles
      \/ /\ button' = "error" /\ banner' = "error"
         /\ idles' = idles + 1 /\ leaves' = leaves
  BY DEF Shown
<1>3. idles \in Nat /\ leaves \in Nat
  BY <1>1 DEF FormOK
<1>4. FormOK'
  BY <1>1, <1>2, <1>3 DEF FormOK
<1>5. PendingOK'
  <2>1. Cardinality(Mine') = Cardinality(Mine) - 1
    BY MineFinite, FS_RemoveElement
  <2> QED
    BY <1>1, <1>2, <1>3, <2>1, MineFinite, PendingAssumption DEF PendingOK
<1>6. AwayOK'
  BY <1>1 DEF AwayOK
<1>7. ~woken' => Mine' = {} /\ leaves = 0
  BY <1>1 DEF AloneOK
<1>8. AloneOK' /\ OneAttempt'
  <2>1. CASE woken'
    BY <2>1 DEF AloneOK, OneAttempt
  <2>2. CASE ~woken'
    BY <1>2, <1>3, <1>7, <2>2 DEF AloneOK, OneAttempt, Enabled
  <2> QED
    BY <2>1, <2>2
<1>9. FeedbackAgrees'
  BY <1>1, <1>2, <1>3 DEF FeedbackAgrees
<1> QED
  BY <1>4, <1>5, <1>6, <1>8, <1>9 DEF PageOK

LEMMA AnswerOK ==
  ASSUME IInv, \E p \in Threads : Answered(p) \/ Unreachable(p)
  PROVE  IInv'
<1>1. TablesOK /\ HistoryOK /\ PageOK
  BY DEF IInv
<1>2. ASSUME NEW p \in Threads, Answered(p) PROVE IInv'
  <2>1. TablesOK' /\ HistoryOK' /\ p \in Mine /\ Mine' = Mine \ {p}
    BY <1>1, <1>2, DeliveredOK
  <2>2. /\ session' = (session \/ job[p].reply = "granted")
        /\ Shown(job[p].reply) /\ UNCHANGED <<page, woken>>
    BY <1>2 DEF Answered
  <2>3. /\ session' \in BOOLEAN /\ (session => session')
        /\ (job[p].reply = "granted" => session')
    BY <2>2, Zenon
  <2>4. PageOK'
    BY <1>1, <2>1, <2>2, <2>3, ShownOK
  <2> QED
    BY <2>1, <2>4 DEF IInv
<1>3. ASSUME NEW p \in Threads, Unreachable(p) PROVE IInv'
  <2>1. /\ p \in Mine /\ job' = Orphaned({p}) /\ UNCHANGED <<attempts, failed, raced>>
        /\ Shown("unreachable") /\ UNCHANGED <<page, session, woken>>
    BY <1>3 DEF Unreachable
  <2>2. TablesOK' /\ HistoryOK' /\ Mine' = Mine \ {p}
    BY <1>1, <2>1, ForgetOK
  <2>3. session' \in BOOLEAN /\ (session => session')
    BY <1>1, <2>1 DEF PageOK, FormOK
  <2>4. PageOK'
    BY <1>1, <2>1, <2>2, <2>3, ShownOK
  <2> QED
    BY <2>2, <2>4 DEF IInv
<1> QED
  BY <1>2, <1>3

(* A page just delivered. *)
LEMMA FreshOK ==
  ASSUME PageOK, FreshForm, Mine' = {}, page' \in {"login", "dashboard"}, session' \in BOOLEAN
  PROVE  PageOK'
<1>1. Cardinality(Mine') = 0
  BY FS_EmptySet
<1>2. /\ button' = "idle" /\ banner' = "hidden" /\ idles' = 0 /\ leaves' = 0
      /\ woken' = FALSE
  BY DEF FreshForm
<1>3. woken' \in BOOLEAN
  BY <1>2, Zenon
<1>4. FormOK'
  BY <1>2, <1>3 DEF FormOK
<1>5. PendingOK'
  BY <1>1, <1>2, PendingAssumption DEF PendingOK
<1>6. AwayOK' /\ AloneOK' /\ FeedbackAgrees' /\ OneAttempt'
  BY <1>2 DEF AwayOK, AloneOK, FeedbackAgrees, OneAttempt
<1> QED
  BY <1>4, <1>5, <1>6 DEF PageOK

LEMMA SubmitOK == ASSUME IInv, Submit PROVE IInv'
<1>1. TablesOK /\ HistoryOK /\ PageOK
  BY DEF IInv
<1>2. /\ page = "login" /\ Enabled /\ Cardinality(Mine) + idles + leaves <= MaxPending
      /\ button' = "loading" /\ banner' = "hidden"
      /\ woken' = (woken /\ (Mine # {} \/ leaves > 0))
      /\ UNCHANGED <<attempts, failed, raced, page, session, idles, leaves>>
  BY DEF Submit, Loading
<1>3. PICK p \in Threads : Receive(p, Tab)
  BY DEF Submit
<1>4. TablesOK' /\ HistoryOK' /\ p \notin Mine /\ Mine' = Mine \cup {p}
  BY <1>1, <1>2, <1>3, ReceiveOK
<1>5. FormOK /\ OneAttempt /\ FeedbackAgrees /\ idles \in Nat /\ leaves \in Nat
  BY <1>1 DEF PageOK, FormOK
<1>6. woken' \in BOOLEAN /\ (~woken' => ~woken \/ (Mine = {} /\ ~(leaves > 0)))
  BY <1>2, Zenon
<1>7. ~woken' => Mine = {} /\ leaves = 0
  BY <1>2, <1>5, <1>6 DEF OneAttempt
<1>8. FormOK'
  BY <1>2, <1>5, <1>6 DEF FormOK
<1>9. PendingOK'
  <2>1. Cardinality(Mine') = Cardinality(Mine) + 1
    BY <1>4, MineFinite, FS_AddElement
  <2> QED
    BY <1>2, <1>5, <2>1, MineFinite, PendingAssumption DEF PendingOK
<1>10. AwayOK' /\ FeedbackAgrees' /\ OneAttempt'
  BY <1>2, <1>4, <1>5 DEF AwayOK, FeedbackAgrees, OneAttempt, Enabled
<1>11. AloneOK'
  BY <1>2, <1>4, <1>7 DEF AloneOK
<1> QED
  BY <1>4, <1>8, <1>9, <1>10, <1>11 DEF IInv, PageOK

LEMMA BackOK == ASSUME IInv, BackToIdle PROVE IInv'
<1>1. TablesOK /\ HistoryOK /\ PageOK
  BY DEF IInv
<1>2. /\ idles > 0 /\ idles' = idles - 1 /\ button' = "idle"
      /\ woken' = (woken \/ Mine # {} \/ leaves > 0)
      /\ UNCHANGED <<limiterVars, page, session, banner, leaves>>
  BY DEF BackToIdle
<1>3. TablesOK' /\ HistoryOK' /\ Mine' = Mine
  BY <1>1, <1>2
     DEF limiterVars, TablesOK, HistoryOK, NoneLost, NoneUndone, Kept, Caused, Active, Mine,
         Recent, Entries
<1>4. FormOK /\ PendingOK /\ AwayOK /\ AloneOK /\ FeedbackAgrees
      /\ idles \in Nat /\ leaves \in Nat
  BY <1>1 DEF PageOK, FormOK
<1>5. woken' \in BOOLEAN /\ (~woken' => ~woken /\ Mine = {} /\ ~(leaves > 0))
  BY <1>2, Zenon
<1>6. FormOK'
  BY <1>2, <1>4, <1>5 DEF FormOK
<1>7. PendingOK'
  BY <1>2, <1>3, <1>4, MineFinite, PendingAssumption DEF PendingOK
<1>8. AwayOK' /\ AloneOK' /\ FeedbackAgrees' /\ OneAttempt'
  BY <1>2, <1>3, <1>4, <1>5 DEF AwayOK, AloneOK, FeedbackAgrees, OneAttempt
<1> QED
  BY <1>3, <1>6, <1>7, <1>8 DEF IInv, PageOK

LEMMA LimiterSame ==
  ASSUME TablesOK, HistoryOK, UNCHANGED limiterVars
  PROVE  TablesOK' /\ HistoryOK' /\ Mine' = Mine
  BY DEF limiterVars, TablesOK, HistoryOK, NoneLost, NoneUndone, Kept, Caused, Active, Mine,
         Recent, Entries

LEMMA StepOK == ASSUME IInv, [Next]_vars PROVE IInv'
<1>1. TablesOK /\ HistoryOK /\ PageOK
  BY DEF IInv
<1>2. CASE SubmitEmpty
  <2>1. TablesOK' /\ HistoryOK' /\ Mine' = Mine
    BY <1>1, <1>2, LimiterSame DEF SubmitEmpty
  <2>2. PageOK'
    BY <1>1, <1>2, <2>1
       DEF SubmitEmpty, PageOK, FormOK, PendingOK, AwayOK, AloneOK, FeedbackAgrees, OneAttempt, Enabled
  <2> QED
    BY <2>1, <2>2 DEF IInv
<1>3. CASE Logout
  <2>1. /\ page = "dashboard" /\ page' = "login" /\ session' = FALSE /\ FreshForm
        /\ UNCHANGED limiterVars
    BY <1>3 DEF Logout
  <2>2. TablesOK' /\ HistoryOK' /\ Mine' = Mine
    BY <1>1, <2>1, LimiterSame
  <2>3. Mine = {}
    BY <1>1, <2>1 DEF PageOK, AwayOK
  <2>4. session' \in BOOLEAN
    BY <2>1, Zenon
  <2>5. PageOK'
    BY <1>1, <2>1, <2>2, <2>3, <2>4, FreshOK
  <2> QED
    BY <2>2, <2>5 DEF IInv
<1>4. CASE Leave
  <2>1. /\ page' = IF session THEN "dashboard" ELSE "login"
        /\ FreshForm /\ job' = Orphaned(Mine)
        /\ UNCHANGED <<attempts, failed, raced, session>>
    BY <1>4 DEF Leave
  <2>2. TablesOK' /\ HistoryOK' /\ Mine' = {}
    BY <1>1, <2>1, ForgetOK
  <2>3. page' \in {"login", "dashboard"} /\ session' \in BOOLEAN
    BY <1>1, <2>1 DEF PageOK, FormOK
  <2>4. PageOK'
    BY <1>1, <2>1, <2>2, <2>3, FreshOK
  <2> QED
    BY <2>2, <2>4 DEF IInv
<1>5. ASSUME NEW p \in Threads, Elsewhere(p) PROVE IInv'
  <2>1. Receive(p, Nobody) /\ UNCHANGED <<attempts, failed, raced, page, session, form>>
    BY <1>5 DEF Elsewhere
  <2>2. TablesOK' /\ HistoryOK' /\ Mine' = Mine
    BY <1>1, <2>1, ReceiveOK, LimiterAssumption
  <2> QED
    BY <1>1, <2>1, <2>2, PageSame DEF IInv
<1>6. CASE UNCHANGED vars
  <2>1. UNCHANGED limiterVars /\ UNCHANGED <<page, session, form>>
    BY <1>6 DEF vars
  <2> QED
    BY <1>1, <2>1, LimiterSame, PageSame DEF IInv
<1> QED
  BY <1>2, <1>3, <1>4, <1>5, <1>6, SubmitOK, BackOK, AnswerOK, ServeOK DEF Next

(* What every step of a login thread, every timer and every click keeps    *)
(* (auth_routes.py, login.js).                                             *)
THEOREM LoginInvariant == Spec => []IInv
  BY InitOK, StepOK, PTL DEF Spec

(* The login page never contradicts itself, whatever timers of earlier     *)
(* attempts fire during later ones: success means a session and a timer    *)
(* that leaves, loading means an attempt under way, and the button takes   *)
(* no second attempt unless such a timer set it back (login.js).           *)
THEOREM FormStaysConsistent == Spec => []FormConsistent
  BY LoginInvariant, Promises, PTL

(* As long as no thread stores an old list over a failure, no more come    *)
(* through in a window than the limit and one for each other thread        *)
(* (is_rate_limited, record_failed_attempt), for any number of threads.    *)
THEOREM GuessingIsBounded == Spec => []FailuresBounded
  BY LoginInvariant, Promises, PTL

(* Nobody is locked out without as many failures as the limit in the       *)
(* window, unless an old list was stored after a success (is_rate_limited, *)
(* clear_attempts), for any number of threads.                             *)
THEOREM LockoutsAreHonest == Spec => LockoutHonest
<1>1. IInv /\ [Next]_vars =>
        [\A p \in Threads :
           job'[p].at = "store" /\ job[p].at = "check" /\ Total(job'[p].copy) >= MaxFailed
             => "undone" \in raced \/ Recent(failed) >= MaxFailed]_limiterVars
  <2> SUFFICES ASSUME IInv, [Next]_vars, NEW p \in Threads,
                      job'[p].at = "store", job[p].at = "check", Total(job'[p].copy) >= MaxFailed
               PROVE  "undone" \in raced \/ Recent(failed) >= MaxFailed
    OBVIOUS
  <2>1. TablesOK /\ HistoryOK /\ PageOK /\ job \in [Threads -> Job]
    BY DEF IInv, TablesOK
  <2>2. CASE Check(p)
    BY <2>1, <2>2, HonestStep
  <2>3. ASSUME job'[p].at = job[p].at PROVE FALSE
    BY <2>3
  <2>4. ASSUME NEW q \in Threads, Work(q), q # p PROVE job'[p].at = job[p].at
    BY <2>1, <2>4, CheckOK, StoreOK, RefuseOK, RecordOK, GrantOK DEF Work
  <2>5. ASSUME Work(p), ~Check(p) PROVE FALSE
    BY <2>5 DEF Work, Store, Refuse, RecordFailure, Grant
  <2>6. CASE \E q \in Threads : Serve(q)
    BY <2>2, <2>3, <2>4, <2>5, <2>6 DEF Serve
  <2>7. CASE Clock
    BY <2>1, <2>3, <2>7, TickOK DEF Clock
  <2>8. ASSUME NEW q \in Threads, NEW from, Receive(q, from) PROVE FALSE
    <3>1. job[q] = Idle /\ job' = [job EXCEPT ![q] = [at |-> "check", from |-> from]]
      BY <2>8 DEF Receive, Go
    <3> QED
      BY <2>1, <2>3, <3>1 DEF Idle
  <2>9. ASSUME NEW q \in Threads, Answered(q) PROVE FALSE
    <3>1. job' = [job EXCEPT ![q] = Idle] /\ Idle.at = "idle"
      BY <2>9 DEF Answered, Go, Idle
    <3> QED
      BY <2>1, <2>3, <3>1
  <2>10. ASSUME NEW ps \in SUBSET Mine, job' = Orphaned(ps) PROVE FALSE
    BY <2>1, <2>3, <2>10, OrphanedOK
  <2>11. CASE UNCHANGED job
    BY <2>3, <2>11
  <2>12. CASE Submit \/ \E q \in Threads : Elsewhere(q)
    BY <2>8, <2>12 DEF Submit, Elsewhere
  <2>13. CASE Leave \/ \E q \in Threads : Unreachable(q)
    BY <2>10, <2>13 DEF Leave, Unreachable
  <2>14. CASE SubmitEmpty \/ Logout \/ BackToIdle \/ UNCHANGED vars
    BY <2>11, <2>14 DEF SubmitEmpty, Logout, BackToIdle, vars, limiterVars
  <2> QED
    BY <2>6, <2>7, <2>9, <2>12, <2>13, <2>14 DEF Next
<1> QED
  BY <1>1, LoginInvariant, PTL DEF Spec, LockoutHonest

=============================================================================

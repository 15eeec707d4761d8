------------------------------- MODULE Counter -------------------------------
(***************************************************************************)
(* A number of the page that counts up to its value (animateCounter): the  *)
(* number shown is where the next count starts, and several counts may run *)
(* at once, the last one started writing last in every frame.              *)
(***************************************************************************)
EXTENDS Integers, Sequences, SequencesExt

VARIABLES
  counter,   \* the number shown
  counts,    \* the counts under way, oldest first; all last equally long
  goal,      \* history: the number last asked for
  skipped    \* history: it was shown already, as a step of a count under way

counting == <<counter, counts, goal, skipped>>

CountTypeOK ==
  /\ counter \in Nat /\ goal \in Nat
  /\ counts \in Seq([from : Nat, to : Nat])
  /\ skipped \in BOOLEAN

CountInit == counter = 0 /\ counts = <<>> /\ goal = 0 /\ skipped = FALSE

Started(n) == IF n = counter THEN counts ELSE Append(counts, [from |-> counter, to |-> n])

CountTo(n) ==
  /\ counts' = Started(n)
  /\ goal' = n
  /\ skipped' = (n = counter /\ counts # <<>>)
  /\ UNCHANGED counter

Passed(c) == IF c.from <= c.to THEN c.from..c.to ELSE c.to..c.from

(* A frame: the number is one the newest count passes. *)
CountFrame ==
  /\ counts # <<>>
  /\ counter' \in Passed(Last(counts))
  /\ UNCHANGED <<counts, goal, skipped>>

(* The frame in which the oldest count ends. *)
CountEnds ==
  /\ counts # <<>>
  /\ counts' = Tail(counts)
  /\ counter' \in IF Len(counts) = 1 THEN {counts[1].to} ELSE Passed(Last(counts))
  /\ UNCHANGED <<goal, skipped>>

(* Once no count is under way, the number is the one last asked for,       *)
(* unless that request came while the number, still on its way elsewhere,  *)
(* happened to pass it: animateCounter then starts no count of its own.    *)
CounterSettles == counts = <<>> => (counter = goal \/ skipped)
=============================================================================

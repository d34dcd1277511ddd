------------------------------ MODULE ReadingPool ------------------------------
(* The lists are read by a pool of threads and the failed ones once more, one *)
(* after the other (run_pipeline in src/agent/pipeline.py and                 *)
(* _extract_list_inputs in src/app.py).  Lists are numbered as they are given;*)
(* a failure is kept by child, so lists of one child share it.                *)
EXTENDS Integers, FiniteSets

CONSTANTS
  Lists,            \* how many lists are given
  Child, ChildOf,   \* whose list it is
  Workers,          \* MODEL_MAX_CONCURRENCY
  MaxInterruptions  \* how often the reading may be cut off and begun again

List == 1..Lists

ASSUME PoolConstants ==
  /\ Lists \in Nat /\ Workers \in Nat \ {0} /\ MaxInterruptions \in Nat
  /\ ChildOf \in [List -> Child]

VARIABLES
  phase,          \* "pool" | "leaving" | "fallback" | "done"
  submitted,      \* lists 1..submitted have been handed to the pool
  started,        \* lists 1..started have been taken by a thread, in turn
  future,         \* how a list's thread ended: "none" | "read" | "failed"
  collected,      \* the futures the caller has seen
  completed,      \* the lists with a reading
  failures,       \* the children with a failure
  retries,        \* the lists still to be retried
  retried,        \* and those that have been
  interruptions

pool == <<submitted, started, future, collected>>
vars == <<phase, pool, completed, failures, retries, retried, interruptions>>

Running == {l \in 1..started : future[l] = "none"}
FailedLists == {l \in List : ChildOf[l] \in failures}

Idle ==
  /\ submitted = 0 /\ started = 0 /\ collected = {}
  /\ future = [l \in List |-> "none"]
  /\ completed = {} /\ failures = {} /\ retries = {} /\ retried = {}

Init == phase = "pool" /\ Idle /\ interruptions = 0

\* The caller hands the lists to the pool, all of them before it waits.
Submit ==
  /\ phase = "pool" /\ submitted < Lists
  /\ submitted' = submitted + 1
  /\ UNCHANGED <<phase, started, future, collected, completed, failures,
                 retries, retried, interruptions>>

\* With a bug: a thread whose list fails is lost to the pool.
TakeLosingThreads ==
  /\ started < submitted
  /\ Cardinality({l \in 1..started : future[l] # "read"}) < Workers
  /\ started' = started + 1
  /\ UNCHANGED <<phase, submitted, future, collected, completed, failures,
                 retries, retried, interruptions>>

\* A thread takes the oldest list that waits.
Take ==
  /\ started < submitted /\ Cardinality(Running) < Workers
  /\ started' = started + 1
  /\ UNCHANGED <<phase, submitted, future, collected, completed, failures,
                 retries, retried, interruptions>>

Finish(l) ==
  /\ l \in Running
  /\ \E outcome \in {"read", "failed"} : future' = [future EXCEPT ![l] = outcome]
  /\ UNCHANGED <<phase, submitted, started, collected, completed, failures,
                 retries, retried, interruptions>>

\* as_completed: the caller learns of the finished lists in any order.
Collect(l) ==
  /\ phase = "pool" /\ submitted = Lists
  /\ l \notin collected /\ future[l] # "none"
  /\ collected' = collected \cup {l}
  /\ completed' = IF future[l] = "read" THEN completed \cup {l} ELSE completed
  /\ failures' = IF future[l] = "failed" THEN failures \cup {ChildOf[l]}
                 ELSE failures
  /\ UNCHANGED <<phase, submitted, started, future, retries, retried,
                 interruptions>>

\* With a bug: the first failure ends the waiting.
EndPoolEarly ==
  /\ phase = "pool" /\ submitted = Lists
  /\ collected = List \/ failures # {}
  /\ phase' = "fallback" /\ retries' = FailedLists
  /\ UNCHANGED <<pool, completed, failures, retried, interruptions>>

\* The pool is closed; the lists whose child has a failure are tried again.
EndPool ==
  /\ phase = "pool" /\ submitted = Lists /\ collected = List
  /\ phase' = "fallback" /\ retries' = FailedLists
  /\ UNCHANGED <<pool, completed, failures, retried, interruptions>>

\* One retry, in the caller's own thread, and its outcome.
Succeed(l) ==
  /\ completed' = completed \cup {l}
  /\ failures' = failures \ {ChildOf[l]}

\* With a bug: the failure is taken back before the retry and not put back.
FailAgainForgotten(l) ==
  /\ failures' = failures \ {ChildOf[l]}
  /\ UNCHANGED completed

FailAgain(l) ==
  /\ failures' = failures \cup {ChildOf[l]}
  /\ UNCHANGED completed

Retry(l) ==
  /\ phase = "fallback" /\ l \in retries /\ \A k \in retries : l <= k
  /\ Succeed(l) \/ FailAgain(l)
  /\ retries' = retries \ {l} /\ retried' = retried \cup {l}
  /\ UNCHANGED <<phase, pool, interruptions>>

Return ==
  /\ phase = "fallback" /\ retries = {}
  /\ phase' = "done"
  /\ UNCHANGED <<pool, completed, failures, retries, retried, interruptions>>

\* The parent acts while the lists are read: the next report of progress,
\* made before a result is looked at or a retry begun, stops the caller.
\* Leaving the pool waits for every list it was given; nothing of what was
\* read is kept, and the working screen begins again.
Interrupt ==
  /\ interruptions < MaxInterruptions
  /\ \/ phase = "pool" /\ submitted = Lists
          /\ \E l \in List \ collected : future[l] # "none"
     \/ phase = "fallback" /\ retries # {}
  /\ phase' = "leaving" /\ interruptions' = interruptions + 1
  /\ UNCHANGED <<pool, completed, failures, retries, retried>>

BeginAgain ==
  /\ phase = "leaving" /\ \A l \in List : future[l] # "none"
  /\ phase' = "pool"
  /\ submitted' = 0 /\ started' = 0 /\ collected' = {}
  /\ future' = [l \in List |-> "none"]
  /\ completed' = {} /\ failures' = {} /\ retries' = {} /\ retried' = {}
  /\ UNCHANGED interruptions

Caller == Submit \/ (\E l \in List : Collect(l)) \/ EndPool
            \/ (\E l \in List : Retry(l)) \/ Return \/ BeginAgain

Next == Caller \/ Take \/ (\E l \in List : Finish(l)) \/ Interrupt

\* A model call ends by its timeout at the latest, threads and caller go on.
Fairness ==
  /\ WF_vars(Caller) /\ WF_vars(Take)
  /\ \A l \in List : WF_vars(Finish(l))

Spec == Init /\ [][Next]_vars
FairSpec == Spec /\ Fairness

-----------------------------------------------------------------------------
(* Properties *)

\* The state of a reading in progress.
TypeOK ==
  /\ phase \in {"pool", "leaving", "fallback", "done"}
  /\ submitted \in 0..Lists /\ started \in 0..submitted
  /\ future \in [List -> {"none", "read", "failed"}]
  /\ collected \subseteq List /\ completed \subseteq List
  /\ failures \subseteq Child
  /\ retries \subseteq List /\ retried \subseteq List
  /\ interruptions \in 0..MaxInterruptions

\* BR-38: "retry only each failed document sequentially; never repeat a
\* document whose concurrent extraction succeeded".
OnlyFailedListsAreRetried ==
  \A l \in List : l \in retried => future[l] = "failed"

\* E-33, "make the failure explicit": when the reading is over each list has
\* been read or its child is reported.
FailuresAreExplicit ==
  phase = "done" => \A l \in List \ completed : ChildOf[l] \in failures

\* The reading comes to an end, however often it was cut off.
ReadingEnds == <>[](phase = "done")

\* The outcome of every list, as ListReading promises it.
Promise == INSTANCE ListReading WITH
  read <- completed, failed <- FailedLists,
  published <- (phase = "done")
KeepsPromise == Promise!Spec
=============================================================================

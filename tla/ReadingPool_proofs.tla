-------------------------- MODULE ReadingPool_proofs --------------------------
(* Proofs about ReadingPool for any number of lists, threads and             *)
(* interruptions.  What is proved of failures holds when every child has one *)
(* list, as in the app; with more it is false (FailuresAreExplicit).         *)
EXTENDS ReadingPool, TLAPS

OneListEach == \A k, l \in List : ChildOf[k] = ChildOf[l] => k = l

\* While the pool runs, what is recorded is what has been collected.
Recorded ==
  phase = "pool" =>
    /\ \A l \in List : l \in completed <=> l \in collected /\ future[l] = "read"
    /\ \A l \in List :
         ChildOf[l] \in failures <=> l \in collected /\ future[l] = "failed"

\* Afterwards every list has a reading or a failure, and not both.
Settled ==
  phase \in {"fallback", "done"} =>
    \A l \in List : l \in completed <=> ChildOf[l] \notin failures

\* Lists to be retried have failed in the pool, and do not have a reading yet.
Retries ==
  /\ \A l \in retries \cup retried : future[l] = "failed"
  /\ phase = "fallback" => \A l \in retries : ChildOf[l] \in failures
  /\ phase = "pool" => retries = {}

Started == \A l \in collected : future[l] # "none"

IInv == TypeOK /\ Recorded /\ Settled /\ Retries /\ Started

-----------------------------------------------------------------------------
\* The child of a list is a child: what failures may hold.
LEMMA ChildType == \A l \in List : ChildOf[l] \in Child
  BY PoolConstants

\* The state of a reading keeps its type, whoever the lists belong to.
THEOREM TypeCorrect == Spec => []TypeOK
<1>1. Init => TypeOK
  BY PoolConstants DEF Init, Idle, TypeOK, List
<1>2. TypeOK /\ [Next]_vars => TypeOK'
  <2> SUFFICES ASSUME TypeOK, [Next]_vars PROVE TypeOK'
    OBVIOUS
  <2> USE DEF TypeOK
  <2>1. CASE Submit
    BY <2>1, PoolConstants DEF Submit
  <2>2. CASE Take
    BY <2>2, PoolConstants DEF Take
  <2>3. ASSUME NEW l \in List, Finish(l) PROVE TypeOK'
    BY <2>3 DEF Finish
  <2>4. ASSUME NEW l \in List, Collect(l) PROVE TypeOK'
    BY <2>4, ChildType DEF Collect
  <2>5. CASE EndPool
    BY <2>5 DEF EndPool, pool, FailedLists
  <2>6. ASSUME NEW l \in List, Retry(l) PROVE TypeOK'
    BY <2>6, ChildType DEF Retry, Succeed, FailAgain, pool
  <2>7. CASE Return
    BY <2>7 DEF Return, pool
  <2>8. CASE BeginAgain
    BY <2>8, PoolConstants DEF BeginAgain
  <2>9. CASE Interrupt
    BY <2>9, PoolConstants DEF Interrupt, pool
  <2>10. CASE UNCHANGED vars
    BY <2>10 DEF vars, pool
  <2> QED
    BY <2>1, <2>2, <2>3, <2>4, <2>5, <2>6, <2>7, <2>8, <2>9, <2>10
    DEF Next, Caller
<1> QED
  BY <1>1, <1>2, PTL DEF Spec

-----------------------------------------------------------------------------
\* With one list each, the failures are those of single lists.
LEMMA OneFailure ==
  ASSUME OneListEach, TypeOK, NEW l \in List
  PROVE  /\ {k \in List : ChildOf[k] \in failures \cup {ChildOf[l]}}
              = FailedLists \cup {l}
         /\ {k \in List : ChildOf[k] \in failures \ {ChildOf[l]}}
              = FailedLists \ {l}
  BY DEF OneListEach, FailedLists

LEMMA InductiveStart == Init => IInv
  BY PoolConstants
  DEF Init, Idle, IInv, TypeOK, Recorded, Settled, Retries, Started, List

\* Every step keeps the invariant.
LEMMA InductiveStep ==
  ASSUME OneListEach, IInv, TypeOK', [Next]_vars
  PROVE  IInv'
<1> USE DEF IInv
<1>0. TypeOK'
  OBVIOUS
<1>1. CASE Submit
  BY <1>0, <1>1 DEF Submit, Recorded, Settled, Retries, Started
<1>2. CASE Take
  BY <1>0, <1>2 DEF Take, Recorded, Settled, Retries, Started
<1>3. ASSUME NEW l \in List, Finish(l) PROVE IInv'
  <2>1. future[l] = "none" /\ l \notin collected
    BY <1>3 DEF Finish, Running, Started
  <2>2. \A k \in List : k # l => future'[k] = future[k]
    BY <1>3 DEF Finish, TypeOK
  <2>3. collected \subseteq List /\ retries \cup retried \subseteq List
    BY DEF TypeOK
  <2>4. UNCHANGED <<phase, collected, completed, failures, retries, retried>>
    BY <1>3 DEF Finish
  <2>5. Recorded' /\ Settled'
    BY <2>1, <2>2, <2>4 DEF Recorded, Settled
  <2>6. Retries' /\ Started'
    BY <2>1, <2>2, <2>3, <2>4 DEF Retries, Started
  <2> QED
    BY <1>0, <2>5, <2>6
<1>4. ASSUME NEW l \in List, Collect(l) PROVE IInv'
  <2>1. /\ phase = "pool" /\ l \notin collected
        /\ UNCHANGED <<phase, future, retries, retried>>
        /\ collected' = collected \cup {l}
        /\ future[l] \in {"read", "failed"}
    BY <1>4 DEF Collect, TypeOK
  <2>2. Settled' /\ Retries' /\ Started'
    BY <2>1, <1>4 DEF Settled, Retries, Started, Collect
  <2>3. \A k \in List : ChildOf[k] = ChildOf[l] => k = l
    BY DEF OneListEach
  <2>4. Recorded'
    BY <1>4, <2>1, <2>3 DEF Recorded, Collect
  <2> QED
    BY <1>0, <2>2, <2>4
<1>5. CASE EndPool
  <2>1. /\ phase = "pool" /\ phase' = "fallback" /\ collected = List
        /\ retries' = FailedLists /\ retried' = retried
        /\ UNCHANGED <<future, collected, completed, failures>>
    BY <1>5 DEF EndPool, pool
  <2>2. \A l \in List : future[l] \in {"read", "failed"}
    BY <2>1 DEF Started, TypeOK
  <2>3. Recorded' /\ Started'
    BY <2>1 DEF Recorded, Started
  <2>4. Settled'
    BY <2>1, <2>2 DEF Settled, Recorded
  <2>5. Retries'
    BY <2>1 DEF Retries, Recorded, FailedLists
  <2> QED
    BY <1>0, <2>3, <2>4, <2>5
<1>6. ASSUME NEW l \in List, Retry(l) PROVE IInv'
  <2>1. /\ phase = "fallback" /\ l \in retries
        /\ retries' = retries \ {l} /\ retried' = retried \cup {l}
        /\ UNCHANGED <<phase, future, collected>>
    BY <1>6 DEF Retry, pool
  <2>2. Recorded' /\ Started'
    BY <2>1 DEF Recorded, Started
  <2>3. \A k \in List : ChildOf[k] = ChildOf[l] => k = l
    BY DEF OneListEach
  <2>4. ChildOf[l] \in failures /\ l \notin completed
    BY <2>1 DEF Retries, Settled
  <2>5. CASE Succeed(l)
    <3>1. completed' = completed \cup {l} /\ failures' = failures \ {ChildOf[l]}
      BY <2>5 DEF Succeed
    <3>2. Settled'
      BY <2>1, <2>3, <3>1 DEF Settled
    <3>3. Retries'
      BY <2>1, <2>3, <3>1 DEF Retries, TypeOK
    <3> QED
      BY <1>0, <2>2, <3>2, <3>3
  <2>6. CASE FailAgain(l)
    <3>1. completed' = completed /\ failures' = failures \cup {ChildOf[l]}
      BY <2>6 DEF FailAgain
    <3>2. failures' = failures
      BY <2>4, <3>1
    <3>3. Settled'
      BY <2>1, <3>1, <3>2 DEF Settled
    <3>4. Retries'
      BY <2>1, <3>2 DEF Retries
    <3> QED
      BY <1>0, <2>2, <3>3, <3>4
  <2> QED
    BY <1>6, <2>5, <2>6 DEF Retry
<1>7. CASE Return
  <2>1. /\ phase = "fallback" /\ phase' = "done"
        /\ UNCHANGED <<future, collected, completed, failures, retries, retried>>
    BY <1>7 DEF Return, pool
  <2> QED
    BY <1>0, <2>1 DEF Recorded, Settled, Retries, Started
<1>8. CASE BeginAgain
  BY <1>0, <1>8 DEF BeginAgain, Recorded, Settled, Retries, Started
<1>9. CASE Interrupt
  <2>1. /\ phase' = "leaving"
        /\ UNCHANGED <<future, collected, completed, failures, retries, retried>>
    BY <1>9 DEF Interrupt, pool
  <2> QED
    BY <1>0, <2>1 DEF Recorded, Settled, Retries, Started
<1>10. CASE UNCHANGED vars
  BY <1>0, <1>10 DEF vars, pool, Recorded, Settled, Retries, Started
<1> QED
  BY <1>1, <1>2, <1>3, <1>4, <1>5, <1>6, <1>7, <1>8, <1>9, <1>10
  DEF Next, Caller

\* The inductive invariant of readings with one list for each child.
THEOREM PoolInvariant == OneListEach => (Spec => []IInv)
<1> SUFFICES ASSUME OneListEach PROVE Spec => []IInv
  OBVIOUS
<1>1. Init => IInv
  BY InductiveStart
<1>2. IInv /\ TypeOK' /\ [Next]_vars => IInv'
  BY InductiveStep
<1>3. Spec => []TypeOK
  BY TypeCorrect
<1> QED
  BY <1>1, <1>2, <1>3, PTL DEF Spec

\* E-33: with one list for each child, a reading that is over has read every
\* list or reported its child (the fallback of run_pipeline).
THEOREM NothingGoesMissing == OneListEach => (Spec => []FailuresAreExplicit)
<1> SUFFICES ASSUME OneListEach PROVE Spec => []FailuresAreExplicit
  OBVIOUS
<1>1. IInv => FailuresAreExplicit
  BY DEF IInv, Settled, FailuresAreExplicit
<1> QED
  BY <1>1, PoolInvariant, PTL

\* BR-38: a list that was read in the pool is not read again.
THEOREM NoSecondReading == OneListEach => (Spec => []OnlyFailedListsAreRetried)
<1> SUFFICES ASSUME OneListEach PROVE Spec => []OnlyFailedListsAreRetried
  OBVIOUS
<1>1. IInv => OnlyFailedListsAreRetried
  BY DEF IInv, Retries, OnlyFailedListsAreRetried
<1> QED
  BY <1>1, PoolInvariant, PTL

-----------------------------------------------------------------------------
\* The refinement: every step is one of ListReading, or none.
LEMMA StepRefines ==
  ASSUME OneListEach, IInv, [Next]_vars
  PROVE  [Promise!Next]_<<completed, FailedLists, (phase = "done")>>
<1> DEFINE Same == UNCHANGED <<completed, FailedLists, (phase = "done")>>
<1> USE DEF IInv
<1>1. CASE Submit \/ Take \/ EndPool \/ Interrupt \/ UNCHANGED vars
  <2>1. UNCHANGED <<completed, failures, (phase = "done")>>
    BY <1>1 DEF Submit, Take, EndPool, Interrupt, vars, pool
  <2> QED
    BY <2>1 DEF FailedLists
<1>2. ASSUME NEW l \in List, Finish(l)
      PROVE  Same
  BY <1>2 DEF Finish, FailedLists
<1>3. ASSUME NEW l \in List, Collect(l)
      PROVE  Promise!Read(l) \/ Promise!Fail(l)
  <2>1. /\ phase = "pool" /\ phase' = phase /\ l \notin collected
        /\ future[l] \in {"read", "failed"}
    BY <1>3 DEF Collect, TypeOK
  <2>2. l \notin completed /\ l \notin FailedLists
    BY <2>1 DEF Recorded, FailedLists
  <2>3. CASE future[l] = "read"
    <3>1. completed' = completed \cup {l} /\ FailedLists' = FailedLists
      BY <1>3, <2>3 DEF Collect, FailedLists
    <3> QED
      BY <2>1, <2>2, <3>1 DEF Promise!Read
  <2>4. CASE future[l] = "failed"
    <3>1. completed' = completed /\ failures' = failures \cup {ChildOf[l]}
      BY <1>3, <2>4 DEF Collect
    <3>2. FailedLists' = FailedLists \cup {l}
      BY <3>1, OneFailure DEF FailedLists
    <3> QED
      BY <2>1, <2>2, <3>1, <3>2 DEF Promise!Fail
  <2> QED
    BY <2>1, <2>3, <2>4
<1>4. ASSUME NEW l \in List, Retry(l)
      PROVE  Promise!Read(l) \/ Promise!Fail(l)
  <2>1. phase = "fallback" /\ phase' = phase /\ l \in retries
    BY <1>4 DEF Retry
  <2>2. l \in FailedLists /\ l \notin completed
    BY <2>1 DEF Retries, Settled, FailedLists
  <2>3. CASE Succeed(l)
    <3>1. completed' = completed \cup {l} /\ failures' = failures \ {ChildOf[l]}
      BY <2>3 DEF Succeed
    <3>2. FailedLists' = FailedLists \ {l}
      BY <3>1, OneFailure DEF FailedLists
    <3> QED
      BY <2>1, <2>2, <3>1, <3>2 DEF Promise!Read
  <2>4. CASE FailAgain(l)
    <3>1. completed' = completed /\ failures' = failures \cup {ChildOf[l]}
      BY <2>4 DEF FailAgain
    <3>2. FailedLists' = FailedLists \cup {l}
      BY <3>1, OneFailure DEF FailedLists
    <3> QED
      BY <2>1, <2>2, <3>1, <3>2 DEF Promise!Fail
  <2> QED
    BY <1>4, <2>3, <2>4 DEF Retry
<1>5. CASE Return
  <2>1. /\ phase = "fallback" /\ phase' = "done"
        /\ UNCHANGED <<completed, failures>>
    BY <1>5 DEF Return
  <2>2. completed \cup FailedLists = List
    BY <2>1 DEF Settled, FailedLists, TypeOK
  <2>3. FailedLists' = FailedLists
    BY <2>1 DEF FailedLists
  <2>4. Promise!Publish
    BY <2>1, <2>2, <2>3 DEF Promise!Publish
  <2> QED
    BY <2>4 DEF Promise!Next
<1>6. CASE BeginAgain
  <2>1. phase = "leaving" /\ phase' = "pool" /\ completed' = {} /\ failures' = {}
    BY <1>6 DEF BeginAgain
  <2>2. FailedLists' = {}
    BY <2>1 DEF FailedLists
  <2>3. Promise!Abandon
    BY <2>1, <2>2 DEF Promise!Abandon
  <2> QED
    BY <2>3 DEF Promise!Next
<1> QED
  BY <1>1, <1>2, <1>3, <1>4, <1>5, <1>6 DEF Next, Caller, Promise!Next

\* With one list for each child, the pool with its fallback and its
\* interruptions implements ListReading.
THEOREM PoolKeepsPromise == OneListEach => (Spec => KeepsPromise)
<1> SUFFICES ASSUME OneListEach PROVE Spec => KeepsPromise
  OBVIOUS
<1>1. Init => Promise!Init
  BY DEF Init, Idle, FailedLists, Promise!Init
<1>2. IInv /\ [Next]_vars
        => [Promise!Next]_<<completed, FailedLists, (phase = "done")>>
  BY StepRefines
<1>3. Spec => []IInv
  BY PoolInvariant
<1> QED
  BY <1>1, <1>2, <1>3, PTL DEF Spec, KeepsPromise, Promise!Spec
=============================================================================

-------------------------- MODULE OrderQueueProofs --------------------------
(***************************************************************************)
(* Proofs about OrderQueue, for any orders, any number of updates of each  *)
(* and any number of faults: where a job is, how often its message goes    *)
(* out, in which order, and that the queue keeps what JobOutbox promises.  *)
(***************************************************************************)
EXTENDS OrderQueue, FiniteSetTheorems, SequenceTheorems, TLAPS

TypeOK ==
  /\ added \subseteq Job
  /\ wait \in Seq(Job)
  /\ delayed \subseteq Job /\ lost \subseteq Job
  /\ completed \subseteq Job /\ failed \subseteq Job
  /\ active \in Job \cup {Null}
  /\ sent \in BOOLEAN
  /\ made \in [Job -> Nat]
  /\ stalls \in [Job -> Nat]
  /\ told \in [Job -> Nat]

Waiting == {wait[i] : i \in DOMAIN wait}
Aside == delayed \cup lost \cup completed \cup failed

Once == \A i, n \in DOMAIN wait : wait[i] = wait[n] => i = n

(* A job is in one place, which it is in from when it was added. *)
PlaceInv ==
  /\ Once
  /\ Waiting \cap Aside = {} /\ active \notin Waiting \cup Aside
  /\ delayed \cap (lost \cup completed \cup failed) = {}
  /\ lost \cap (completed \cup failed) = {}
  /\ completed \cap failed = {}
  /\ added = Waiting \cup Aside \cup ({active} \ {Null})

(* A job is added after the jobs of its order that it follows. *)
AddInv ==
  \A j, k \in Job : Follows(k, j) /\ k \in added => j \in added

(* What is known of a job from the place it is in. *)
HistoryInv ==
  /\ sent => active # Null /\ told[active] > 0
  /\ \A j \in delayed : made[j] > 0
  /\ \A j \in Job \ added : told[j] = 0

(***************************************************************************)
(* A job that no fault has touched is served before the jobs that follow   *)
(* it: while it waits or is worked on, they wait behind it, or have not    *)
(* been added yet.                                                         *)
(***************************************************************************)
Fresh(j) == made[j] + stalls[j] = 0
Later(j) == {k \in Job : Follows(k, j)}
Before(j, k) ==
  \A i, n \in DOMAIN wait : wait[i] = j /\ wait[n] = k => i < n

TurnInv ==
  \A j \in Job : Fresh(j) /\ j \in Waiting \cup {active} =>
    \A k \in Later(j) :
      /\ told[k] = 0
      /\ k \notin Aside \cup {active}
      /\ Before(j, k)

QueueInv ==
  /\ TypeOK
  /\ PlaceInv
  /\ AddInv
  /\ HistoryInv
  /\ TurnInv
  /\ CompletedWasSent
  /\ RepeatsNeedAFault

-----------------------------------------------------------------------------
(* Lemmas about the wait list: what an operation on it does to the jobs in *)
(* it, to their being there once, and to their order.                      *)

LEMMA WaitType ==
  ASSUME TypeOK
  PROVE  /\ Waiting \subseteq Job
         /\ DOMAIN wait = 1..Len(wait) /\ Len(wait) \in Nat
  BY DEF TypeOK, Waiting

(* A job joins at the back. *)
LEMMA Joins ==
  ASSUME TypeOK, NEW x \in Job, wait' = Append(wait, x)
  PROVE  /\ wait' \in Seq(Job)
         /\ Waiting' = Waiting \cup {x}
         /\ Once /\ x \notin Waiting => Once'
         /\ \A j, k \in Job : Before(j, k) /\ x # j => Before(j, k)'
         /\ \A j, k \in Job : k # x /\ k \notin Waiting => Before(j, k)'
<1>1. DOMAIN wait = 1..Len(wait) /\ Len(wait) \in Nat
  BY WaitType
<1>2. /\ DOMAIN wait' = 1..Len(wait) + 1
      /\ \A i \in DOMAIN wait : wait'[i] = wait[i]
      /\ wait'[Len(wait) + 1] = x
      /\ wait' \in Seq(Job)
  <2>1. /\ wait' \in Seq(Job) /\ Len(wait') = Len(wait) + 1
        /\ \A i \in 1..Len(wait) : wait'[i] = wait[i]
        /\ wait'[Len(wait) + 1] = x
    BY AppendProperties DEF TypeOK
  <2>2. DOMAIN wait' = 1..Len(wait')
    BY <2>1, LenProperties
  <2> QED BY <1>1, <2>1, <2>2
<1> QED BY <1>1, <1>2 DEF Waiting, Once, Before

(* A job is put back in front. *)
LEMMA PutBack ==
  ASSUME TypeOK, NEW x \in Job, wait' = <<x>> \o wait
  PROVE  /\ wait' \in Seq(Job)
         /\ Waiting' = Waiting \cup {x}
         /\ Once /\ x \notin Waiting => Once'
         /\ \A j, k \in Job : Before(j, k) /\ x # k => Before(j, k)'
<1>1. DOMAIN wait = 1..Len(wait) /\ Len(wait) \in Nat
  BY WaitType
<1>2. /\ DOMAIN wait' = 1..Len(wait) + 1
      /\ \A i \in 2..Len(wait) + 1 : wait'[i] = wait[i - 1]
      /\ \A i \in DOMAIN wait : wait'[i + 1] = wait[i]
      /\ wait'[1] = x
      /\ wait' \in Seq(Job)
  <2>1. wait \in Seq(Job) /\ <<x>> \in Seq(Job)
    BY DEF TypeOK
  <2>2. Len(<<x>>) = 1 /\ <<x>>[1] = x
    OBVIOUS
  <2>3. wait' \in Seq(Job) /\ Len(wait') = 1 + Len(wait)
    BY <2>1, <2>2, ConcatProperties
  <2>4. \A i \in 1..1 + Len(wait) :
          wait'[i] = IF i <= 1 THEN x ELSE wait[i - 1]
    BY <2>1, <2>2, ConcatProperties
  <2> QED BY <1>1, <2>3, <2>4
<1>3. Waiting' = Waiting \cup {x}
  <2>1. \A j \in Waiting' : j \in Waiting \/ j = x
    BY <1>1, <1>2 DEF Waiting
  <2>2. \A i \in DOMAIN wait : i + 1 \in DOMAIN wait' /\ wait'[i + 1] = wait[i]
    BY <1>1, <1>2
  <2>3. 1 \in DOMAIN wait' /\ wait'[1] = x
    BY <1>1, <1>2
  <2>4. Waiting \subseteq Waiting'
    BY <2>2 DEF Waiting
  <2>5. x \in Waiting'
    BY <2>3 DEF Waiting
  <2> QED BY <2>1, <2>4, <2>5
<1>4. ASSUME Once, x \notin Waiting
      PROVE  Once'
  BY <1>1, <1>2, <1>4 DEF Waiting, Once
<1>5. ASSUME NEW j \in Job, NEW k \in Job, Before(j, k), x # k
      PROVE  Before(j, k)'
  BY <1>1, <1>2, <1>5 DEF Before
<1> QED BY <1>2, <1>3, <1>4, <1>5

(* The worker takes the job in front. *)
LEMMA Serves ==
  ASSUME TypeOK, wait # <<>>, wait' = Tail(wait)
  PROVE  /\ wait' \in Seq(Job)
         /\ Head(wait) \in Waiting
         /\ Once => Waiting' = Waiting \ {Head(wait)} /\ Once'
         /\ \A j, k \in Job : Before(j, k) => Before(j, k)'
         /\ \A j \in Waiting : Before(j, Head(wait)) => FALSE
<1>1. DOMAIN wait = 1..Len(wait) /\ Len(wait) \in Nat \ {0}
  BY WaitType DEF TypeOK
<1>2. /\ DOMAIN wait' = 1..Len(wait) - 1
      /\ \A i \in DOMAIN wait' : wait'[i] = wait[i + 1]
      /\ \A i \in 2..Len(wait) : wait[i] = wait'[i - 1]
      /\ Head(wait) = wait[1]
      /\ wait' \in Seq(Job)
  BY <1>1 DEF TypeOK
<1>3. ASSUME Once
      PROVE  Waiting' = Waiting \ {Head(wait)}
  <2>1. \A j \in Waiting' : j \in Waiting /\ j # wait[1]
    BY <1>1, <1>2, <1>3 DEF Waiting, Once
  <2>2. \A j \in Waiting : j # wait[1] => j \in Waiting'
    <3> SUFFICES ASSUME NEW i \in 1..Len(wait), wait[i] # wait[1]
                 PROVE  wait[i] \in Waiting'
      BY <1>1 DEF Waiting
    <3>1. i \in 2..Len(wait) /\ i - 1 \in DOMAIN wait'
      BY <1>1, <1>2
    <3> QED BY <1>2, <3>1 DEF Waiting
  <2> QED BY <1>2, <2>1, <2>2
<1>4. ASSUME Once
      PROVE  Once'
  BY <1>1, <1>2, <1>4 DEF Once
<1>5. ASSUME NEW j \in Job, NEW k \in Job, Before(j, k)
      PROVE  Before(j, k)'
  BY <1>1, <1>2, <1>5 DEF Before
<1>6. ASSUME NEW j \in Waiting, Before(j, Head(wait))
      PROVE  FALSE
  BY <1>1, <1>2, <1>6 DEF Before, Waiting
<1>7. Head(wait) \in Waiting
  BY <1>1, <1>2 DEF Waiting
<1> QED BY <1>2, <1>3, <1>4, <1>5, <1>6, <1>7

(* Nothing moves in the wait list. *)
LEMMA Rests ==
  ASSUME wait' = wait
  PROVE  /\ Waiting' = Waiting /\ Once' = Once
         /\ \A j, k \in Job : Before(j, k)' = Before(j, k)
  BY DEF Waiting, Once, Before

-----------------------------------------------------------------------------
(* Lemmas about jobs. *)
LEMMA JobType ==
  \A j \in Job : j[1] \in Order /\ j[2] \in 1..Updates + 2 /\ j = <<j[1], j[2]>>
  BY DEF Job

(* What an add does. *)
LEMMA AddsOne ==
  ASSUME NEW x \in Job, Add(x)
  PROVE  /\ x \notin added /\ added' = added \cup {x}
         /\ wait' = Append(wait, x)
         /\ x[2] = 2 => <<x[1], 1>> \in added
         /\ x[2] > 3 => <<x[1], x[2] - 1>> \in added
         /\ UNCHANGED <<delayed, lost, completed, failed, active, sent, made,
                        stalls, told>>
  BY DEF Add, unmoved

\* A step of the queue or the worker.
Act ==
  \/ Take \/ Send \/ Complete \/ Rethrow \/ Crash
  \/ \E j \in Job : Add(j) \/ BackoffOver(j) \/ Stalled(j)

-----------------------------------------------------------------------------
(* Every part of the invariant is kept by every step. *)
LEMMA TypeKept ==
  ASSUME TypeOK, Act
  PROVE  TypeOK'
<1> USE DEF TypeOK
<1>1. ASSUME NEW x \in Job, Add(x)
      PROVE  TypeOK'
  <2>1. wait' \in Seq(Job)
    BY <1>1, AddsOne, Joins
  <2>2. added' = added \cup {x} /\ UNCHANGED <<delayed, lost, completed, failed,
                                             active, sent, made, stalls, told>>
    BY <1>1, AddsOne
  <2> QED BY <2>1, <2>2
<1>2. CASE Take
  <2>1. wait' \in Seq(Job) /\ Head(wait) \in Job
    BY <1>2, Serves, WaitType DEF Take
  <2> QED BY <1>2, <2>1 DEF Take, unmoved
<1>3. CASE Send
  BY <1>3 DEF Send, unmoved
<1>4. CASE Complete
  BY <1>4 DEF Complete
<1>5. CASE Rethrow
  <2>1. active \in Job
    BY <1>5 DEF Rethrow, Thrown
  <2>2. wait' \in Seq(Job)
    BY <1>5, <2>1, Joins DEF Rethrow
  <2>3. failed' \subseteq Job /\ delayed' \subseteq Job
    BY <1>5, <2>1 DEF Rethrow
  <2>4. made' \in [Job -> Nat] /\ sent' = FALSE /\ active' = Null
    BY <1>5, <2>1 DEF Rethrow, Thrown
  <2>5. UNCHANGED <<added, lost, completed, stalls, told>>
    BY <1>5 DEF Rethrow, Thrown
  <2> QED BY <2>2, <2>3, <2>4, <2>5
<1>6. CASE Crash
  BY <1>6 DEF Crash
<1>7. ASSUME NEW j \in Job, BackoffOver(j)
      PROVE  TypeOK'
  <2>1. wait' \in Seq(Job)
    BY <1>7, Joins DEF BackoffOver
  <2> QED BY <1>7, <2>1 DEF BackoffOver
<1>8. ASSUME NEW j \in Job, Stalled(j)
      PROVE  TypeOK'
  <2>1. wait' \in Seq(Job)
    BY <1>8, PutBack DEF Stalled
  <2>2. stalls' \in [Job -> Nat] /\ failed' \subseteq Job
    BY <1>8 DEF Stalled
  <2>3. UNCHANGED <<added, delayed, active, sent, completed, made, told>>
    BY <1>8 DEF Stalled
  <2>4. lost' \subseteq Job
    BY <1>8 DEF Stalled
  <2> QED BY <2>1, <2>2, <2>3, <2>4
<1> QED BY <1>1, <1>2, <1>3, <1>4, <1>5, <1>6, <1>7, <1>8 DEF Act

(* Jobs are added in order. *)
LEMMA AddKept ==
  ASSUME TypeOK, AddInv, Act
  PROVE  AddInv'
<1>1. ASSUME NEW x \in Job, Add(x)
      PROVE  AddInv'
  <2> SUFFICES ASSUME NEW j \in Job, NEW k \in Job, Follows(k, j), k \in added'
               PROVE  j \in added'
    BY DEF AddInv
  <2>1. CASE k \in added
    BY <1>1, <2>1, AddsOne DEF AddInv
  <2>2. CASE k = x
    <3>1. /\ j[1] = x[1] /\ j[1] \in Order /\ j = <<j[1], j[2]>>
          /\ j[2] \in 1..Updates + 2 /\ x[2] \in 1..Updates + 2
          /\ x[2] > j[2] /\ (j[2] > 2 \/ x[2] = 2)
      BY <2>2, JobType DEF Follows
    <3>2. CASE x[2] = 2
      <4>1. j[2] = 1
        BY <3>1, <3>2, QueueAssumption
      <4> QED BY <1>1, <3>1, <3>2, <4>1, AddsOne
    <3>3. CASE x[2] # 2
      <4> DEFINE p == <<x[1], x[2] - 1>>
      <4>0. x[2] > 3
        BY <3>1, <3>3, QueueAssumption
      <4>1. x[2] > 3 /\ p \in added
        BY <1>1, <4>0, AddsOne
      <4>2. CASE j[2] = x[2] - 1
        <5>1. j = p
          BY <3>1, <4>2
        <5> QED BY <1>1, <4>1, <5>1, AddsOne
      <4>3. CASE j[2] # x[2] - 1
        <5>1. p \in Job
          BY <3>1, <4>1, QueueAssumption DEF Job
        <5>2. Follows(p, j)
          BY <3>1, <3>3, <4>3, QueueAssumption DEF Follows
        <5> QED BY <1>1, <4>1, <5>1, <5>2, AddsOne DEF AddInv
      <4> QED BY <4>2, <4>3
    <3> QED BY <3>2, <3>3
  <2> QED BY <1>1, <2>1, <2>2, AddsOne
<1>2. CASE added' = added
  BY <1>2 DEF AddInv
<1> QED BY <1>1, <1>2 DEF Act, Take, Send, Complete, Rethrow, Thrown, Crash,
        BackoffOver, Stalled

LEMMA PlaceKept ==
  ASSUME TypeOK, PlaceInv, Act
  PROVE  PlaceInv'
<1> USE NoJobAssumption DEF PlaceInv, Aside
<1>0. Null \notin Waiting /\ Null \notin Aside
  BY WaitType DEF TypeOK
<1>1. ASSUME NEW x \in Job, Add(x)
      PROVE  PlaceInv'
  <2>1. /\ x \notin added /\ added' = added \cup {x}
        /\ Waiting' = Waiting \cup {x} /\ (x \notin Waiting => Once')
    BY <1>1, AddsOne, Joins
  <2>2. UNCHANGED <<delayed, lost, completed, failed, active>>
    BY <1>1, AddsOne
  <2> QED BY <2>1, <2>2
<1>2. CASE Take
  <2>1. /\ active = Null /\ active' \in Waiting /\ active' \in Job
        /\ Waiting' = Waiting \ {active'} /\ Once'
    BY <1>2, Serves, WaitType DEF Take
  <2>2. UNCHANGED <<delayed, lost, completed, failed>> /\ added' = added
    BY <1>2 DEF Take, unmoved
  <2> QED BY <2>1, <2>2
<1>3. CASE Send
  <2>1. UNCHANGED <<wait, delayed, lost, completed, failed, active, added>>
    BY <1>3 DEF Send, unmoved
  <2> QED BY <2>1, Rests
<1>4. CASE Complete
  <2>1. Waiting' = Waiting /\ Once' /\ added' = added
    BY <1>4, Rests DEF Complete
  <2>2. /\ active # Null /\ active' = Null
        /\ completed' = completed \cup {active}
        /\ UNCHANGED <<delayed, lost, failed>>
    BY <1>4 DEF Complete
  <2> QED BY <1>0, <2>1, <2>2
<1>5. CASE Rethrow
  <2>1. active \in Job /\ active' = Null /\ added' = added
    BY <1>5 DEF Rethrow, Thrown, TypeOK
  <2>2. UNCHANGED <<lost, completed>>
    BY <1>5 DEF Rethrow, Thrown
  <2>3. \/ /\ Waiting' = Waiting \cup {active} /\ Once'
           /\ UNCHANGED <<delayed, failed>>
        \/ /\ Waiting' = Waiting /\ Once'
           /\ delayed' = delayed \cup {active} /\ failed' = failed
        \/ /\ Waiting' = Waiting /\ Once'
           /\ failed' = failed \cup {active} /\ delayed' = delayed
    BY <1>5, <2>1, Joins, Rests DEF Rethrow
  <2> QED BY <1>0, <2>1, <2>2, <2>3
<1>6. CASE Crash
  <2>1. Waiting' = Waiting /\ Once' /\ added' = added
    BY <1>6, Rests DEF Crash
  <2>2. /\ active # Null /\ active' = Null
        /\ lost' = lost \cup {active}
        /\ UNCHANGED <<delayed, completed, failed>>
    BY <1>6 DEF Crash
  <2> QED BY <1>0, <2>1, <2>2
<1>7. ASSUME NEW j \in Job, BackoffOver(j)
      PROVE  PlaceInv'
  <2>1. Waiting' = Waiting \cup {j} /\ Once' /\ added' = added
    BY <1>7, Joins DEF BackoffOver
  <2>2. /\ j \in delayed /\ delayed' = delayed \ {j}
        /\ UNCHANGED <<lost, completed, failed, active>>
    BY <1>7 DEF BackoffOver
  <2> QED BY <2>1, <2>2
<1>8. ASSUME NEW j \in Job, Stalled(j)
      PROVE  PlaceInv'
  <2>1. \/ Waiting' = Waiting \cup {j} /\ Once' /\ failed' = failed
        \/ Waiting' = Waiting /\ Once' /\ failed' = failed \cup {j}
    BY <1>8, PutBack, Rests DEF Stalled
  <2>2. added' = added
    BY <1>8 DEF Stalled
  <2>3. /\ j \in lost /\ lost' = lost \ {j}
        /\ UNCHANGED <<delayed, active, completed>>
    BY <1>8 DEF Stalled
  <2> QED BY <2>1, <2>2, <2>3
<1> QED BY <1>1, <1>2, <1>3, <1>4, <1>5, <1>6, <1>7, <1>8 DEF Act

LEMMA HistoryKept ==
  ASSUME TypeOK, PlaceInv, HistoryInv, Act
  PROVE  HistoryInv'
<1> USE DEF HistoryInv
<1>1. ASSUME NEW x \in Job, Add(x)
      PROVE  HistoryInv'
  BY <1>1, AddsOne
<1>2. CASE Take
  BY <1>2 DEF Take, unmoved
<1>3. CASE Send
  <2>1. active \in added /\ added' = added
    BY <1>3 DEF Send, PlaceInv
  <2>2. told[active] + 1 > 0 /\ active \in Job
    BY <1>3 DEF Send, TypeOK
  <2> QED BY <1>3, <2>1, <2>2 DEF Send, unmoved, TypeOK
<1>4. CASE Complete
  BY <1>4 DEF Complete
<1>5. CASE Rethrow
  <2>1. active \in Job /\ delayed' \subseteq delayed \cup {active}
    BY <1>5 DEF Rethrow, Thrown, TypeOK
  <2>2. made'[active] > 0 /\ \A j \in Job \ {active} : made'[j] = made[j]
    BY <1>5, <2>1 DEF Rethrow, Thrown, TypeOK
  <2>3. added' = added /\ told' = told /\ ~sent'
    BY <1>5 DEF Rethrow, Thrown
  <2> QED BY <2>1, <2>2, <2>3 DEF TypeOK
<1>6. CASE Crash
  BY <1>6 DEF Crash
<1>7. ASSUME NEW j \in Job, BackoffOver(j)
      PROVE  HistoryInv'
  BY <1>7 DEF BackoffOver
<1>8. ASSUME NEW j \in Job, Stalled(j)
      PROVE  HistoryInv'
  BY <1>8 DEF Stalled
<1> QED BY <1>1, <1>2, <1>3, <1>4, <1>5, <1>6, <1>7, <1>8 DEF Act

(***************************************************************************)
(* For TurnInv it is enough to know what a step does to a fresh job j that *)
(* waits or is worked on, and to a later job k of its order: that j stays  *)
(* where it is or leaves its turn, and that k does not get past it.        *)
(***************************************************************************)
InTurn(j, k) ==
  /\ told[k] = 0
  /\ k \notin Aside \cup {active}
  /\ Before(j, k)

(* What is counted of a job only grows. *)
LEMMA Grows ==
  ASSUME TypeOK, Act
  PROVE  \A j \in Job : /\ made[j] <= made'[j]
                        /\ stalls[j] <= stalls'[j]
                        /\ told[j] <= told'[j]
<1> USE DEF TypeOK
<1>1. CASE UNCHANGED <<made, stalls, told>>
  BY <1>1
<1>2. CASE Send
  <2>1. active \in Job /\ told' = [told EXCEPT ![active] = @ + 1]
        /\ UNCHANGED <<made, stalls>>
    BY <1>2 DEF Send
  <2> QED BY <2>1
<1>3. CASE Rethrow
  <2>1. active \in Job /\ made' = [made EXCEPT ![active] = @ + 1]
        /\ UNCHANGED <<stalls, told>>
    BY <1>3 DEF Rethrow, Thrown
  <2> QED BY <2>1
<1>4. CASE \E j \in Job : Stalled(j)
  BY <1>4 DEF Stalled
<1>5. CASE Take \/ Complete \/ Crash
  BY <1>1, <1>5 DEF Take, Complete, Crash
<1>6. CASE \E x \in Job : Add(x) \/ BackoffOver(x)
  BY <1>1, <1>6 DEF Add, BackoffOver
<1> QED BY <1>2, <1>3, <1>4, <1>5, <1>6 DEF Act

LEMMA LaterIsOther == \A j \in Job : j \notin Later(j)
  BY JobType DEF Later, Follows

LEMMA TurnKept ==
  ASSUME TypeOK, PlaceInv, AddInv, HistoryInv, TurnInv, Act
  PROVE  TurnInv'
<1> SUFFICES ASSUME NEW j \in Job, Fresh(j)', j \in (Waiting \cup {active})',
                    NEW k \in Later(j)
             PROVE  InTurn(j, k)'
  BY DEF TurnInv, InTurn, Later
<1>a. k \in Job /\ k # j
  BY LaterIsOther DEF Later
<1>b. Fresh(j)
  <2>1. /\ made[j] \in Nat /\ stalls[j] \in Nat
        /\ made'[j] \in Nat /\ stalls'[j] \in Nat
    BY TypeKept DEF TypeOK
  <2> QED BY <2>1, Grows DEF Fresh
<1>c. ASSUME j \in Waiting \cup {active}
      PROVE  InTurn(j, k)
  BY <1>b, <1>c DEF TurnInv, InTurn
<1> USE NoJobAssumption DEF InTurn, Aside
<1>1. ASSUME NEW x \in Job, Add(x)
      PROVE  InTurn(j, k)'
  <2>1. x \notin added /\ wait' = Append(wait, x)
    BY <1>1, AddsOne
  <2>2. UNCHANGED <<delayed, lost, completed, failed, active, told>>
    BY <1>1, AddsOne
  <2>3. CASE j = x
    <3>1. k \notin added
      BY <1>a, <2>1, <2>3 DEF AddInv, Later
    <3>2. k \notin Waiting \cup Aside \cup {active} /\ told[k] = 0
      BY <1>a, <3>1 DEF PlaceInv, HistoryInv
    <3> QED BY <1>a, <2>1, <2>2, <2>3, <3>2, Joins
  <2>4. CASE j # x
    <3>1. j \in Waiting \cup {active}
      BY <2>1, <2>2, <2>4, Joins
    <3> QED BY <1>a, <1>c, <2>1, <2>2, <2>4, <3>1, Joins
  <2> QED BY <2>3, <2>4
<1>2. CASE Take
  <2>1. /\ active = Null /\ wait # <<>> /\ wait' = Tail(wait)
        /\ active' = Head(wait) /\ active' \in Waiting
        /\ UNCHANGED <<delayed, lost, completed, failed, told>>
    BY <1>2, Serves DEF Take, unmoved
  <2>2. j \in Waiting
    BY <2>1, Serves DEF PlaceInv
  <2>3. InTurn(j, k)
    BY <1>c, <2>2
  <2>4. k # active'
    BY <2>1, <2>2, <2>3, Serves
  <2> QED BY <1>a, <2>1, <2>3, <2>4, Serves
<1>3. CASE Send
  <2>1. UNCHANGED <<wait, delayed, lost, completed, failed, active>>
    BY <1>3 DEF Send, unmoved
  <2>2. InTurn(j, k)
    BY <1>c, <2>1, Rests
  <2>3. told'[k] = told[k]
    BY <1>3, <1>a, <2>2 DEF Send, TypeOK
  <2> QED BY <1>a, <2>1, <2>2, <2>3, Rests
<1>4. CASE Complete
  <2>1. /\ active # Null /\ active' = Null
        /\ completed' = completed \cup {active}
        /\ UNCHANGED <<wait, delayed, lost, failed, told>>
    BY <1>4 DEF Complete
  <2>2. InTurn(j, k)
    BY <1>c, <2>1, Rests
  <2> QED BY <1>a, <2>1, <2>2, Rests
<1>5. CASE Rethrow
  <2>1. /\ active \in Job /\ active' = Null
        /\ made' = [made EXCEPT ![active] = @ + 1]
        /\ UNCHANGED <<lost, completed, stalls, told>>
    BY <1>5 DEF Rethrow, Thrown, TypeOK
  <2>2. j # active
    BY <2>1 DEF Fresh, TypeOK
  <2>3. wait' = wait \/ wait' = Append(wait, active)
    BY <1>5 DEF Rethrow
  <2>4. InTurn(j, k)
    BY <1>c, <2>1, <2>2, <2>3, Joins, Rests
  <2>5. delayed' \subseteq delayed \cup {active}
        /\ failed' \subseteq failed \cup {active}
    BY <1>5 DEF Rethrow
  <2>6. Before(j, k)'
    BY <1>a, <2>1, <2>2, <2>3, <2>4, Joins, Rests
  <2> QED BY <1>a, <2>1, <2>4, <2>5, <2>6
<1>6. CASE Crash
  <2>1. /\ active # Null /\ active' = Null
        /\ lost' = lost \cup {active}
        /\ UNCHANGED <<wait, delayed, completed, failed, told>>
    BY <1>6 DEF Crash
  <2>2. InTurn(j, k)
    BY <1>c, <2>1, Rests
  <2> QED BY <1>a, <2>1, <2>2, Rests
<1>7. ASSUME NEW x \in Job, BackoffOver(x)
      PROVE  InTurn(j, k)'
  <2>1. /\ x \in delayed /\ delayed' = delayed \ {x}
        /\ wait' = Append(wait, x)
        /\ UNCHANGED <<lost, completed, failed, active, told>>
    BY <1>7 DEF BackoffOver
  <2>2. x # j
    BY <1>b, <2>1 DEF HistoryInv, Fresh, TypeOK
  <2>3. InTurn(j, k)
    BY <1>c, <2>1, <2>2, Joins
  <2> QED BY <1>a, <2>1, <2>2, <2>3, Joins
<1>8. ASSUME NEW x \in Job, Stalled(x)
      PROVE  InTurn(j, k)'
  <2>1. /\ x \in lost /\ lost' = lost \ {x}
        /\ failed' \subseteq failed \cup {x}
        /\ wait' = wait \/ wait' = <<x>> \o wait
        /\ UNCHANGED <<delayed, completed, active, told>>
    BY <1>8 DEF Stalled
  <2>2. x # j
    BY <1>8, TypeKept DEF Stalled, Fresh, TypeOK
  <2>3. InTurn(j, k)
    BY <1>c, <2>1, <2>2, PutBack, Rests
  <2>4. x # k
    BY <2>1, <2>3
  <2>5. Before(j, k)'
    BY <1>a, <2>1, <2>3, <2>4, PutBack, Rests
  <2> QED BY <1>a, <2>1, <2>3, <2>4, <2>5
<1> QED BY <1>1, <1>2, <1>3, <1>4, <1>5, <1>6, <1>7, <1>8 DEF Act

LEMMA CompletedKept ==
  ASSUME TypeOK, PlaceInv, HistoryInv, CompletedWasSent, Act
  PROVE  CompletedWasSent'
<1>1. \A j \in Job : told[j] <= told'[j]
  BY Grows
<1>2. \A j \in completed' : j \in completed \/ told[j] > 0
  BY DEF Act, Add, Take, Send, Complete, Rethrow, Thrown, Crash, BackoffOver,
     Stalled, unmoved, HistoryInv
<1> QED BY <1>1, <1>2, TypeKept DEF CompletedWasSent, TypeOK

(* The one message of a job that its last attempt accounts for. *)
Owes(j) ==
  IF j \in completed \/ (active = j /\ sent) \/ j \in lost THEN 1 ELSE 0

LEMMA RepeatsKept ==
  ASSUME TypeOK, PlaceInv, HistoryInv, RepeatsNeedAFault, Act
  PROVE  RepeatsNeedAFault'
<1> SUFFICES ASSUME NEW j \in Job
             PROVE  told'[j] <= Owes(j)' + made'[j] + stalls'[j]
  BY DEF RepeatsNeedAFault, Owes
<1>0. told[j] <= Owes(j) + made[j] + stalls[j] /\ Owes(j) \in 0..1
  BY DEF RepeatsNeedAFault, Owes
<1> USE NoJobAssumption DEF TypeOK
<1>1. CASE \E x \in Job : Add(x)
  BY <1>0, <1>1 DEF Add, Owes, unmoved
<1>2. CASE Take
  BY <1>0, <1>2 DEF Take, Owes, unmoved, HistoryInv
<1>3. CASE Send
  <2>1. CASE j = active
    <3>1. told'[j] = told[j] + 1 /\ Owes(j)' = 1
      BY <1>3, <2>1 DEF Send, Owes
    <3>2. Owes(j) = 0
      BY <1>3, <2>1 DEF Send, Owes, PlaceInv, Aside
    <3> QED BY <1>0, <1>3, <3>1, <3>2 DEF Send
  <2>2. CASE j # active
    BY <1>0, <1>3, <2>2 DEF Send, Owes, unmoved
  <2> QED BY <2>1, <2>2
<1>4. CASE Complete
  BY <1>0, <1>4 DEF Complete, Owes
<1>5. CASE Rethrow
  <2>1. CASE j = active
    <3>1. made'[j] = made[j] + 1 /\ Owes(j)' \in 0..1
      BY <1>5, <2>1 DEF Rethrow, Thrown, Owes
    <3> QED BY <1>0, <1>5, <3>1 DEF Rethrow, Thrown
  <2>2. CASE j # active
    BY <1>0, <1>5, <2>2 DEF Rethrow, Thrown, Owes
  <2> QED BY <2>1, <2>2
<1>6. CASE Crash
  BY <1>0, <1>6 DEF Crash, Owes
<1>7. CASE \E x \in Job : BackoffOver(x)
  BY <1>0, <1>7 DEF BackoffOver, Owes
<1>8. ASSUME NEW x \in Job, Stalled(x)
      PROVE  told'[j] <= Owes(j)' + made'[j] + stalls'[j]
  <2>1. CASE j = x
    <3>1. stalls'[j] = stalls[j] + 1 /\ Owes(j)' \in 0..1
      BY <1>8, <2>1 DEF Stalled, Owes
    <3> QED BY <1>0, <1>8, <3>1 DEF Stalled
  <2>2. CASE j # x
    BY <1>0, <1>8, <2>2 DEF Stalled, Owes
  <2> QED BY <2>1, <2>2
<1> QED BY <1>1, <1>2, <1>3, <1>4, <1>5, <1>6, <1>7, <1>8 DEF Act

-----------------------------------------------------------------------------
LEMMA QueueInit ==
  ASSUME Init
  PROVE  QueueInv
<1> USE NoJobAssumption, QueueAssumption DEF Init
<1>1. TypeOK
  <2>1. wait \in Seq(Job)
    OBVIOUS
  <2> QED BY <2>1 DEF TypeOK
<1>2. Waiting = {} /\ Once /\ Aside = {}
  BY DEF Waiting, Once, Aside
<1>3. AddInv
  BY DEF AddInv
<1>4. PlaceInv
  BY <1>2 DEF PlaceInv, Aside
<1>5. HistoryInv
  BY DEF HistoryInv
<1>6. TurnInv
  BY <1>2 DEF TurnInv
<1>7. CompletedWasSent /\ RepeatsNeedAFault
  BY DEF CompletedWasSent, RepeatsNeedAFault
<1> QED BY <1>1, <1>3, <1>4, <1>5, <1>6, <1>7 DEF QueueInv

LEMMA QueueKept ==
  ASSUME QueueInv, Act
  PROVE  QueueInv'
  BY TypeKept, PlaceKept, AddKept, HistoryKept, TurnKept, CompletedKept, RepeatsKept
  DEF QueueInv

LEMMA QueueStutter ==
  ASSUME QueueInv, UNCHANGED vars
  PROVE  QueueInv'
<1>0. UNCHANGED <<added, wait, delayed, active, sent, lost, completed, failed,
                  made, stalls, told>>
  BY DEF vars
<1>1. TypeOK'
  BY <1>0 DEF QueueInv, TypeOK
<1>2. PlaceInv' /\ AddInv'
  BY <1>0, Rests DEF QueueInv, PlaceInv, Aside, AddInv
<1>3. HistoryInv'
  BY <1>0 DEF QueueInv, HistoryInv
<1>4. TurnInv'
  BY <1>0, Rests DEF QueueInv, TurnInv, Aside, Fresh, Later
<1>5. CompletedWasSent' /\ RepeatsNeedAFault'
  BY <1>0 DEF QueueInv, CompletedWasSent, RepeatsNeedAFault
<1> QED BY <1>1, <1>2, <1>3, <1>4, <1>5 DEF QueueInv

LEMMA Steps ==
  ASSUME [Next]_vars
  PROVE  Act \/ UNCHANGED vars
  BY DEF Next, Act

(***************************************************************************)
(* Whatever fails, whatever dies and whatever is added meanwhile, the      *)
(* queue and the worker keep the inductive invariant.                      *)
(***************************************************************************)
THEOREM QueueInvariance == Spec => []QueueInv
<1>1. Init => QueueInv
  BY QueueInit
<1>2. QueueInv /\ [Next]_vars => QueueInv'
  BY Steps, QueueKept, QueueStutter
<1> QED BY <1>1, <1>2, PTL DEF Spec

(* A job shown as completed has sent its message. *)
THEOREM CompletedSent == Spec => []CompletedWasSent
<1>1. QueueInv => CompletedWasSent
  BY DEF QueueInv
<1> QED BY <1>1, QueueInvariance, PTL

(* A message goes out once, and once more for each fault that struck it. *)
THEOREM RepeatsExplained == Spec => []RepeatsNeedAFault
<1>1. QueueInv => RepeatsNeedAFault
  BY DEF QueueInv
<1> QED BY <1>1, QueueInvariance, PTL

-----------------------------------------------------------------------------
(* The updates of an order reach the customer in the order they were       *)
(* added, and the confirmation goes out before the restaurant is notified, *)
(* unless the late one had failed or lost its worker before.               *)
THEOREM InOrderUnlessFault == Spec => LateOnlyAfterFault
<1>1. ASSUME QueueInv, [Next]_vars, NEW j \in Job, told'[j] > told[j],
             NEW k \in Job, Follows(k, j), told[k] > 0
      PROVE  made[j] + stalls[j] > 0
  <2>1. CASE Send
    <3>1. active = j
      BY <1>1, <2>1 DEF Send, QueueInv, TypeOK
    <3>2. ~Fresh(j)
      <4>1. k \in Later(j)
        BY <1>1 DEF Later
      <4>2. told[k] # 0
        BY <1>1
      <4> QED BY <1>1, <3>1, <4>1, <4>2 DEF QueueInv, TurnInv
    <3>3. made[j] \in Nat /\ stalls[j] \in Nat
      BY <1>1 DEF QueueInv, TypeOK
    <3> QED BY <3>2, <3>3 DEF Fresh
  <2>2. CASE told' = told
    BY <1>1, <2>2 DEF QueueInv, TypeOK
  <2>3. Send \/ told' = told
    BY <1>1, Steps DEF Act, Add, Take, Complete, Rethrow, Thrown, Crash,
       BackoffOver, Stalled, vars
  <2> QED BY <2>1, <2>2, <2>3
<1>2. QueueInv /\ [Next]_vars
        => [\A j \in Job :
              told'[j] > told[j]
                  /\ (\E k \in Job : Follows(k, j) /\ told[k] > 0)
                => made[j] + stalls[j] > 0]_vars
  BY <1>1
<1> QED BY <1>2, QueueInvariance, PTL DEF Spec, LateOnlyAfterFault

-----------------------------------------------------------------------------
(***************************************************************************)
(* The safety half of OutboxSpec: a job is accepted once, finished only    *)
(* after its message went out, and settled for good, as done or as given   *)
(* up; whatever else the queue does is a stutter.                          *)
(***************************************************************************)
OutboxSafe == Outbox!Init /\ [][Outbox!Next]_(Outbox!outbox)

Owed == added \ (completed \cup failed)
Told == {j \in Job : told[j] > 0}

LEMMA OutboxStep ==
  ASSUME QueueInv, Act
  PROVE  Outbox!Next \/ UNCHANGED <<Owed, Told, completed, failed>>
<1> USE NoJobAssumption DEF QueueInv, PlaceInv, Aside
<1> USE DEF Outbox!Next
<1>1. ASSUME NEW x \in Job, Add(x)
      PROVE  Outbox!Next
  <2>1. x \notin added /\ added' = added \cup {x}
    BY <1>1, AddsOne
  <2>2. UNCHANGED <<completed, failed, told>>
    BY <1>1, AddsOne
  <2>3. x \notin Owed \cup completed \cup failed
    BY <2>1 DEF Owed
  <2>4. Owed' = Owed \cup {x} /\ Told' = Told
    BY <2>1, <2>2 DEF Owed, Told
  <2>5. Outbox!Accept(x)
    BY <2>2, <2>3, <2>4 DEF Outbox!Accept, Owed, Told
  <2> QED BY <2>5
<1>2. ASSUME UNCHANGED <<added, completed, failed, told>>
      PROVE  UNCHANGED <<Owed, Told, completed, failed>>
  BY <1>2 DEF Owed, Told
<1>3. CASE Send
  <2>1. /\ active \in Job /\ active \in Owed /\ UNCHANGED <<completed, failed>>
        /\ Owed' = Owed
    BY <1>3 DEF Send, TypeOK, unmoved, Owed
  <2>2. Told' = Told \cup {active}
    BY <1>3, <2>1 DEF Send, TypeOK, Told
  <2>3. PICK x \in Job : x = active
    BY <2>1
  <2>4. Outbox!Tell(x)
    BY <2>1, <2>2, <2>3 DEF Outbox!Tell, Owed, Told
  <2> QED BY <2>4
<1>4. CASE Complete
  <2>1. /\ active \in Job /\ active \in Owed /\ active \in Told
        /\ completed' = completed \cup {active}
        /\ failed' = failed /\ Told' = Told
    BY <1>4 DEF Complete, TypeOK, HistoryInv, Owed, Told
  <2>2. Owed' = Owed \ {active}
    BY <1>4, <2>1 DEF Complete, Owed
  <2>3. Outbox!Finish(active)
    BY <2>1, <2>2 DEF Outbox!Finish, Owed, Told
  <2>4. Outbox!Next
    BY <2>1, <2>3
  <2> QED BY <2>4
<1>5. ASSUME NEW x \in Job, x \in Owed, failed' = failed \cup {x},
             UNCHANGED <<added, completed, told>>
      PROVE  Outbox!Next
  <2>1. Told' = Told /\ Owed' = Owed \ {x}
    BY <1>5 DEF Owed, Told
  <2>2. Outbox!GiveUp(x)
    BY <1>5, <2>1 DEF Outbox!GiveUp, Owed, Told
  <2> QED BY <2>2
<1>6. CASE Rethrow
  <2>1. /\ active \in Job /\ active \in Owed
        /\ UNCHANGED <<added, completed, told>>
    BY <1>6 DEF Rethrow, Thrown, TypeOK, Owed
  <2>2. failed' = failed \/ failed' = failed \cup {active}
    BY <1>6 DEF Rethrow
  <2> QED BY <1>2, <1>5, <2>1, <2>2
<1>7. ASSUME NEW x \in Job, Stalled(x)
      PROVE  Outbox!Next \/ UNCHANGED <<Owed, Told, completed, failed>>
  <2>1. /\ x \in Owed /\ UNCHANGED <<added, completed, told>>
        /\ failed' = failed \/ failed' = failed \cup {x}
    BY <1>7 DEF Stalled, Owed
  <2> QED BY <1>2, <1>5, <2>1
<1>8. CASE Take \/ Crash \/ \E x \in Job : BackoffOver(x)
  BY <1>2, <1>8 DEF Take, Crash, BackoffOver, unmoved
<1> QED BY <1>1, <1>3, <1>4, <1>6, <1>7, <1>8 DEF Act

(* The queue implements what the outbox may do, whatever the faults. *)
THEOREM ImplementsOutbox == Spec => OutboxSafe
<1>1. Init => Outbox!Init
  <2> SUFFICES ASSUME Init
               PROVE  Outbox!Init
    OBVIOUS
  <2>1. added = {} /\ \A j \in Job : told[j] = 0
    BY DEF Init
  <2> QED BY <2>1 DEF Init, Outbox!Init
<1>2. QueueInv /\ [Next]_vars => [Outbox!Next]_(Outbox!outbox)
  <2> SUFFICES ASSUME QueueInv, [Next]_vars
               PROVE  Outbox!Next \/ UNCHANGED Outbox!outbox
    OBVIOUS
  <2>1. CASE Act
    BY <2>1, OutboxStep DEF Outbox!outbox, Owed, Told
  <2>2. CASE UNCHANGED vars
    BY <2>2 DEF vars, Outbox!outbox
  <2> QED BY <2>1, <2>2, Steps
<1> QED BY <1>1, <1>2, QueueInvariance, PTL DEF Spec, OutboxSafe

=============================================================================

----------------------------- MODULE OrderQueue -----------------------------
(***************************************************************************)
(* The BullMQ queue 'order-queue' between OrdersService, which adds jobs,  *)
(* and OrderProcessor, which works them off one at a time.  The queue is   *)
(* external: new jobs join at the back; a job that throws is tried again   *)
(* until its attempts are used up, at once or after a backoff, from the    *)
(* back; a job whose worker died is found stalled and put back in front,   *)
(* once.  completed and failed record how a job was settled, whether or    *)
(* not Redis keeps it: removeOnComplete and removeOnFail limit how many    *)
(* settled confirmations are kept.                                         *)
(***************************************************************************)
EXTENDS Naturals, Sequences, FiniteSets, Functions

CONSTANTS
  Order,         \* the orders whose jobs are followed
  Updates,       \* bound: status changes per order
  MaxFaults,     \* bound: attempts that throw, and crashes
  Null           \* no job

ASSUME QueueAssumption == Updates \in Nat /\ MaxFaults \in Nat

(***************************************************************************)
(* The jobs of an order: create adds the confirmation and then the         *)
(* notification, every update a delivery update; the delivery updates are  *)
(* numbered in the order they are added.                                   *)
(***************************************************************************)
Job == Order \X (1..Updates + 2)

NameOf(j) == CASE j[2] = 1 -> "send-order-confirmation"
               [] j[2] = 2 -> "notify-restaurant"
               [] OTHER -> "send-delivery-update"

\* Null stands for no job.
ASSUME NoJobAssumption == Null \notin Job

attempts == 3          \* option of every add
maxStalledCount == 1   \* BullMQ's default

\* Only the confirmation is added with a backoff.
BacksOff(j) == NameOf(j) = "send-order-confirmation"

VARIABLES
  added,      \* the jobs that were added
  wait,       \* jobs waiting for the worker, the next one first
  delayed,    \* jobs backing off
  active,     \* the job the worker processes, Null if it is free
  sent,       \* has process got past the send of this attempt?
  lost,       \* jobs whose worker died, not yet found stalled
  completed, failed,
  made,       \* job -> attempts that threw
  stalls,     \* job -> times it was found stalled
  told        \* history: job -> times its message went out

vars == <<added, wait, delayed, active, sent, lost, completed, failed,
          made, stalls, told>>
unmoved == <<delayed, lost, completed, failed>>

-----------------------------------------------------------------------------
(***************************************************************************)
(* orderQueue.add in create and updateStatus.  A handler that dies stops,  *)
(* and an order can be updated as soon as it is saved: before its          *)
(* confirmation is added, between create's two adds, or without them.      *)
(***************************************************************************)
Add(j) ==
  /\ j \notin added
  /\ j[2] = 2 => <<j[1], 1>> \in added
  /\ j[2] > 3 => <<j[1], j[2] - 1>> \in added
  /\ added' = added \cup {j}
  /\ wait' = Append(wait, j)
  /\ UNCHANGED <<active, sent, unmoved, made, stalls, told>>

\* Mutant of Take: the newest job first.
TakeNewest ==
  /\ active = Null /\ wait # <<>>
  /\ active' = wait[Len(wait)]
  /\ wait' = SubSeq(wait, 1, Len(wait) - 1)
  /\ UNCHANGED <<added, sent, unmoved, made, stalls, told>>

\* The worker is free, takes the next job and calls process.
Take ==
  /\ active = Null /\ wait # <<>>
  /\ active' = Head(wait)
  /\ wait' = Tail(wait)
  /\ UNCHANGED <<added, sent, unmoved, made, stalls, told>>

-----------------------------------------------------------------------------
(* OrderProcessor.process: one of sendConfirmationEmail, notifyRestaurant  *)
(* and sendDeliveryUpdate.  They only simulate the send; it throws where a *)
(* real one would, before or after the message is out.                     *)
\* Mutant of Send: a break is missing, and two messages go out.
SendFallsThrough ==
  /\ active # Null /\ ~sent
  /\ sent' = TRUE
  /\ told' = [told EXCEPT ![active] = @ + 2]
  /\ UNCHANGED <<added, wait, active, unmoved, made, stalls>>

Send ==
  /\ active # Null /\ ~sent
  /\ sent' = TRUE
  /\ told' = [told EXCEPT ![active] = @ + 1]
  /\ UNCHANGED <<added, wait, active, unmoved, made, stalls>>

Complete ==
  /\ active # Null /\ sent
  /\ completed' = completed \cup {active}
  /\ active' = Null /\ sent' = FALSE
  /\ UNCHANGED <<added, wait, delayed, lost, failed, made, stalls, told>>

Thrown == /\ active # Null
          /\ active' = Null /\ sent' = FALSE
          /\ made' = [made EXCEPT ![active] = @ + 1]
          /\ UNCHANGED <<added, lost, stalls, told>>

\* Mutant of Rethrow: the catch block does not throw the error again.
Swallow ==
  /\ Thrown
  /\ completed' = completed \cup {active}
  /\ UNCHANGED <<wait, delayed, failed>>

\* The error is logged and thrown again: BullMQ retries the job or fails it.
Rethrow ==
  /\ Thrown
  /\ LET again == made[active] + 1 < attempts
     IN /\ failed' = IF again THEN failed ELSE failed \cup {active}
        /\ delayed' = IF again /\ BacksOff(active)
                      THEN delayed \cup {active} ELSE delayed
        /\ wait' = IF again /\ ~BacksOff(active)
                   THEN Append(wait, active) ELSE wait
  /\ UNCHANGED completed

-----------------------------------------------------------------------------
(* BullMQ *)
\* Mutant of BackoffOver: only a busy worker looks at the delayed jobs.
PromoteWhenBusy(j) ==
  /\ active # Null
  /\ j \in delayed
  /\ delayed' = delayed \ {j}
  /\ wait' = Append(wait, j)
  /\ UNCHANGED <<added, active, sent, lost, completed, failed, made, stalls,
                 told>>

BackoffOver(j) ==
  /\ j \in delayed
  /\ delayed' = delayed \ {j}
  /\ wait' = Append(wait, j)
  /\ UNCHANGED <<added, active, sent, lost, completed, failed, made, stalls,
                 told>>

\* The process dies in the middle of a job, and a new one starts.
Crash ==
  /\ active # Null
  /\ lost' = lost \cup {active}
  /\ active' = Null /\ sent' = FALSE
  /\ UNCHANGED <<added, wait, delayed, completed, failed, made, stalls,
                 told>>

Stalled(j) ==
  /\ j \in lost
  /\ lost' = lost \ {j}
  /\ stalls' = [stalls EXCEPT ![j] = @ + 1]
  /\ \/ /\ stalls[j] < maxStalledCount
        /\ wait' = <<j>> \o wait
        /\ UNCHANGED failed
     \/ /\ stalls[j] >= maxStalledCount
        /\ failed' = failed \cup {j}
        /\ UNCHANGED wait
  /\ UNCHANGED <<added, delayed, active, sent, completed, made, told>>

-----------------------------------------------------------------------------
Init ==
  /\ added = {}
  /\ wait = <<>>
  /\ delayed = {} /\ lost = {} /\ completed = {} /\ failed = {}
  /\ active = Null
  /\ sent = FALSE
  /\ made = [j \in Job |-> 0]
  /\ stalls = [j \in Job |-> 0]
  /\ told = [j \in Job |-> 0]

Faults == FoldFunction(+, 0, made) + FoldFunction(+, 0, stalls) + Cardinality(lost)

Next ==
  \/ Take \/ Send \/ Complete
  \/ Faults < MaxFaults /\ (Rethrow \/ Crash)
  \/ \E j \in Job : Add(j) \/ BackoffOver(j) \/ Stalled(j)

(***************************************************************************)
(* The worker polls and runs what it took, timers fire, and the stalled    *)
(* check runs again and again.  Nobody has to add a job, no send has to    *)
(* throw and no process to die.                                            *)
(***************************************************************************)
Spec ==
  /\ Init /\ [][Next]_vars
  /\ WF_vars(Take) /\ WF_vars(Send) /\ WF_vars(Complete)
  /\ \A j \in Job : WF_vars(BackoffOver(j)) /\ WF_vars(Stalled(j))

-----------------------------------------------------------------------------
(***************************************************************************)
(* A job that is settled as completed has sent its message: the catch in   *)
(* process does not turn a failed send into a success.                     *)
(***************************************************************************)
CompletedWasSent == \A j \in completed : told[j] > 0

(***************************************************************************)
(* A customer or a restaurant is told the same thing again only because an *)
(* attempt failed or a worker died after the message was out.              *)
(***************************************************************************)
RepeatsNeedAFault ==
  \A j \in Job :
    told[j] <= (IF j \in completed \/ (active = j /\ sent) \/ j \in lost
                THEN 1 ELSE 0) + made[j] + stalls[j]

(***************************************************************************)
(* The updates of an order reach the customer in the order they were       *)
(* added, and the confirmation goes out before the restaurant is notified, *)
(* unless the late one had failed or lost its worker before.               *)
(***************************************************************************)
Follows(k, j) == k[1] = j[1] /\ k[2] > j[2] /\ (j[2] > 2 \/ k[2] = 2)

LateOnlyAfterFault ==
  [][\A j \in Job :
       told'[j] > told[j] /\ (\E k \in Job : Follows(k, j) /\ told[k] > 0)
         => made[j] + stalls[j] > 0]_vars

(***************************************************************************)
(* Every job that was added is settled, and only a job whose message went  *)
(* out is settled as done (JobOutbox, with its liveness).                  *)
(***************************************************************************)
Outbox == INSTANCE JobOutbox WITH
  owed <- added \ (completed \cup failed),
  told <- {j \in Job : told[j] > 0},
  done <- completed,
  dropped <- failed

OutboxSpec == Outbox!Spec
=============================================================================

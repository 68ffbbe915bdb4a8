------------------------------ MODULE JobOutbox ------------------------------
(***************************************************************************)
(* What the order queue promises of a job: once it is accepted it is       *)
(* settled for good, as done, which it is only after its message went out, *)
(* or as given up.  The message may go out more than once, and also for a  *)
(* job that is given up in the end.                                        *)
(***************************************************************************)
CONSTANT Job

VARIABLES owed, told, done, dropped

outbox == <<owed, told, done, dropped>>

Init == owed = {} /\ told = {} /\ done = {} /\ dropped = {}

Accept(j) ==
  /\ j \notin owed \cup done \cup dropped
  /\ owed' = owed \cup {j}
  /\ UNCHANGED <<told, done, dropped>>

Tell(j) ==
  /\ j \in owed
  /\ told' = told \cup {j}
  /\ UNCHANGED <<owed, done, dropped>>

Finish(j) ==
  /\ j \in owed \cap told
  /\ owed' = owed \ {j}
  /\ done' = done \cup {j}
  /\ UNCHANGED <<told, dropped>>

GiveUp(j) ==
  /\ j \in owed
  /\ owed' = owed \ {j}
  /\ dropped' = dropped \cup {j}
  /\ UNCHANGED <<told, done>>

Next == \E j \in Job : Accept(j) \/ Tell(j) \/ Finish(j) \/ GiveUp(j)

Spec ==
  /\ Init /\ [][Next]_outbox
  /\ \A j \in Job : WF_outbox(Finish(j) \/ GiveUp(j))
  /\ \A j \in Job : WF_outbox(Tell(j) \/ GiveUp(j))
=============================================================================

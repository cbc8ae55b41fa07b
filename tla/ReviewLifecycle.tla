-------------------------- MODULE ReviewLifecycle --------------------------
(***************************************************************************)
(* What the review queue shows of a task to those who read the table and   *)
(* its events, without requests and reviewers that overlap or die: a task  *)
(* is asked for, enters the queue together with its document, and leaves   *)
(* it with a verdict that was announced for it.  It may be given another   *)
(* announced verdict, but it never enters the queue again, and it never    *)
(* moves to another document.                                              *)
(***************************************************************************)
CONSTANTS
  Documents,
  Tasks

VARIABLES
  filed,  \* the documents that are there
  row,    \* row[i]: the document and status of task i, or Unused
  asked,  \* the tasks that were asked for
  judged  \* <<task, verdict>>: the verdicts that were announced

vars == <<filed, row, asked, judged>>

Unused == [status |-> "unused"]

Verdicts == {"approved", "rejected"}

Init ==
  /\ filed = {}
  /\ row = [i \in Tasks |-> Unused]
  /\ asked = {}
  /\ judged = {}

File(d) ==
  /\ filed' = filed \cup {d}
  /\ UNCHANGED <<row, asked, judged>>

Ask(i) ==
  /\ i \notin asked
  /\ asked' = asked \cup {i}
  /\ UNCHANGED <<filed, row, judged>>

Enqueue(i, d) ==
  /\ i \in asked /\ row[i] = Unused
  /\ row' = [row EXCEPT ![i] = [document |-> d, status |-> "open"]]
  /\ filed' = filed \cup {d}
  /\ UNCHANGED <<asked, judged>>

Judge(i, verdict) ==
  /\ row[i] # Unused
  /\ judged' = judged \cup {<<i, verdict>>}
  /\ UNCHANGED <<filed, row, asked>>

Close(i, verdict) ==
  /\ row[i] # Unused
  /\ <<i, verdict>> \in judged
  /\ row' = [row EXCEPT ![i].status = verdict]
  /\ UNCHANGED <<filed, asked, judged>>

Next ==
  \/ \E d \in Documents : File(d)
  \/ \E i \in Tasks :
       \/ Ask(i)
       \/ \E d \in Documents : Enqueue(i, d)
       \/ \E verdict \in Verdicts : Judge(i, verdict) \/ Close(i, verdict)

Spec == Init /\ [][Next]_vars

=============================================================================

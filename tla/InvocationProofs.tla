--------------------------- MODULE InvocationProofs ---------------------------
(***************************************************************************)
(* What an invocation of Codex leaves behind, answers and tells, for every *)
(* limit, chunk size, amount of output and number of cancellations.  None  *)
(* of the three invariants of module Invocation is inductive: they speak   *)
(* of the end, and IInv says what holds on the way there.                  *)
(***************************************************************************)
EXTENDS Invocation, TLAPS

\* The results an exit of Codex may amount to.
Results == {"answer", "output", "quota", "unavailable", "failed"}

\* What the steps need to know of the variables' values.
Typed ==
  /\ status \in {"active", "cancelled", "decided", "deleted"}
  /\ answer \in Results \cup {"none"}
  /\ cause \in Results \cup {"none", "flood", "timeout", "cancelled", "process lookup"}

Counts ==
  /\ signals \in Nat
  /\ written \in [Streams -> Nat] /\ received \in [Streams -> Nat]

\* Where _await_invocation, its poll and its task are together.
InStep ==
  /\ call = "idle" => task = "none"
  /\ call = "ended" => task = "ended" /\ watcher = "ended" /\ (registered => status = "deleted")
  /\ watcher = "failed" => status = "deleted"
  /\ watcher = "saw" => status \in {"cancelled", "deleted"}
  /\ call = "joining" => raising \in {"run cancelled", "cancelled"}

\* Where the process is while its task runs, and once the task has ended.
ProcessFollows ==
  /\ task \in {"none", "queued", "spawning"} => codex = "none"
  /\ task = "communicating" => codex \in {"running", "exited"}
  /\ task = "ended" => codex \in {"none", "exited"} \/ interrupted
  /\ killed => task \in {"killing", "ended"}

\* Nobody reads more than was written, and the output stays as it was judged.
OutputJudged ==
  /\ task \in {"none", "queued", "spawning", "communicating"} => cause = "none"
  /\ \A s \in Streams : received[s] <= written[s]
  /\ WholeWithinLimit

\* Who asked for a cancellation that is under way, was delivered or is to be raised.
AskedFor ==
  /\ signals > 0 => status # "active"
  /\ pending \/ cause = "cancelled" => gaveUp \/ status # "active"
  /\ raising = "run cancelled" => status \in {"cancelled", "deleted"}
  /\ raising = "cancelled" => gaveUp
  /\ cause = "process lookup" => task = "ended" /\ codex = "exited" /\ ~killed

\* The inductive invariant, of what the tasks tell each other and of what is read.
InOrder == Typed /\ InStep /\ ProcessFollows /\ AskedFor /\ OutcomeTellsTheCause

IInv == InOrder /\ Counts /\ OutputJudged

-----------------------------------------------------------------------------
(* What Codex leaves, and the first state *)

\* Whatever Codex leaves, run_structured makes one of the five results of it: in
\* particular nothing that reads like a cancellation or a timeout.
LEMMA AnswersAreResults == Answers \subseteq Results
<1>. SUFFICES ASSUME NEW e \in Endings PROVE Amounts(e) \in Results
  BY DEF Answers
<1>1. ClassifyFailure(e) \in Results
  <2>. DEFINE marks == e.said \cup (IF e.jsonl THEN e.told ELSE {})
  <2>1. marks \subseteq {"schema", "quota", "auth"}
    BY DEF Endings
  <2>2. \/ "schema" \in marks
        \/ "quota" \in marks /\ "schema" \notin marks
        \/ "auth" \in marks /\ marks \cap {"schema", "quota"} = {}
        \/ marks = {}
    BY <2>1
  <2>. QED
    BY <2>2, Zenon DEF ClassifyFailure, Results
<1>. QED
  BY <1>1 DEF Amounts, Results

\* An invocation begins in order.
LEMMA InitIInv == Init => IInv
<1>. SUFFICES ASSUME Init PROVE IInv
  OBVIOUS
<1>1. InOrder
  BY DEF Init, InOrder, Typed, InStep, ProcessFollows, AskedFor, OutcomeTellsTheCause
<1>2. Counts /\ OutputJudged
  BY DEF Init, Counts, OutputJudged, WholeWithinLimit
<1>. QED
  BY <1>1, <1>2 DEF IInv

-----------------------------------------------------------------------------
(* The steps that read, write or judge output *)

\* What Codex writes, whoever reads it, is judged later.
LEMMA WriteJudged ==
  ASSUME Counts, OutputJudged, NEW s \in Streams, Write(s)
  PROVE  Counts' /\ OutputJudged'
<1>1. cause = "none" /\ UNCHANGED <<task, cause, signals, received>>
  BY DEF Write, OutputJudged, taskVars, runVars
<1>2. written' = [written EXCEPT ![s] = @ + 1]
  BY DEF Write
<1>3. Counts'
  BY <1>1, <1>2 DEF Counts
<1>4. \A t \in Streams : received'[t] <= written'[t]
  BY <1>1, <1>2 DEF OutputJudged, Counts
<1>. QED
  BY <1>1, <1>3, <1>4 DEF OutputJudged, WholeWithinLimit

\* _read_limited reads what was written, in pieces of any size up to the chunk's.
LEMMA ReadJudged ==
  ASSUME Counts, OutputJudged, NEW s \in Streams, Read(s)
  PROVE  Counts' /\ OutputJudged'
<1>1. cause = "none" /\ UNCHANGED <<task, cause, signals, written>>
  BY DEF Read, OutputJudged, codexVars, runVars
<1>2. PICK n \in 1..Chunk : /\ received[s] + n <= written[s]
                            /\ received' = [received EXCEPT ![s] = @ + n]
  BY DEF Read
<1>3. n \in Nat
  BY InvocationAssumption
<1>4. Counts'
  BY <1>1, <1>2, <1>3 DEF Counts
<1>5. \A t \in Streams : received'[t] <= written'[t]
  BY <1>1, <1>2, <1>3 DEF OutputJudged, Counts
<1>. QED
  BY <1>1, <1>4, <1>5 DEF OutputJudged, WholeWithinLimit

\* When gather returns, all that was written was read and neither stream exceeded.
LEMMA FinishJudged ==
  ASSUME Typed, Counts, OutputJudged, Finish
  PROVE  Counts' /\ OutputJudged'
<1>1. /\ cause' \in Results \cup {"none"} /\ task' = "ended"
      /\ UNCHANGED <<signals, written, received>>
  BY DEF Finish, Typed, EndTask, codexVars, runVars
<1>2. Counts'
  BY <1>1 DEF Counts
<1>3. ASSUME NEW s \in Streams
      PROVE  received[s] = written[s] /\ written[s] <= Limit
  <2>1. received[s] = written[s] /\ ~(received[s] > Limit) /\ written[s] \in Nat
    BY DEF Finish, Complete, TooMuch, Counts
  <2>2. Limit \in Nat
    BY InvocationAssumption
  <2>. QED
    BY <2>1, <2>2
<1>. QED
  BY <1>1, <1>2, <1>3 DEF OutputJudged, WholeWithinLimit, Results

\* A stream of which more than the limit was read had more than the limit written.
LEMMA OverflowJudged ==
  ASSUME Counts, OutputJudged, Overflow
  PROVE  Counts' /\ OutputJudged'
<1>1. /\ cause' = "flood" /\ task' \in {"ended", "terminating"}
      /\ UNCHANGED <<signals, written, received>>
  BY DEF Overflow, Terminate, runVars
<1>2. Counts'
  BY <1>1 DEF Counts
<1>3. \E s \in Streams : written[s] > Limit
  <2>1. PICK s \in Streams : received[s] > Limit
    BY DEF Overflow, Flooded, TooMuch
  <2>2. received[s] <= written[s] /\ Limit \in Nat /\ received[s] \in Nat /\ written[s] \in Nat
    BY InvocationAssumption DEF OutputJudged, Counts
  <2>. QED
    BY <2>1, <2>2
<1>. QED
  BY <1>1, <1>2, <1>3 DEF OutputJudged, WholeWithinLimit

\* The other steps leave the output as it was judged, or end without an answer.
LEMMA NotJudged ==
  ASSUME Counts, OutputJudged, UNCHANGED <<written, received>>, signals' \in Nat,
         \/ UNCHANGED <<task, cause>>
         \/ cause' = cause /\ cause = "none"
         \/ /\ cause' = cause \/ cause' \notin {"answer", "flood"}
            /\ task' \notin {"none", "queued", "spawning", "communicating"}
  PROVE  Counts' /\ OutputJudged'
  BY DEF Counts, OutputJudged, WholeWithinLimit

-----------------------------------------------------------------------------
(* Every step keeps the invariant. *)

\* Whichever of the caller, the poll, the task, Codex or another process goes on next.
LEMMA NextIInv == IInv /\ [Next]_vars => IInv'
<1>. SUFFICES ASSUME IInv, [Next]_vars PROVE IInv'
  OBVIOUS
<1>. USE DEF IInv, InOrder
<1>1. CASE CancelRun
  <2>1. Typed'
    BY <1>1 DEF Typed, CancelRun, taskVars, codexVars
  <2>2. InStep'
    BY <1>1 DEF InStep, CancelRun, callVars, taskVars
  <2>3. ProcessFollows'
    BY <1>1 DEF ProcessFollows, CancelRun, taskVars, codexVars
  <2>4. AskedFor'
    BY <1>1 DEF AskedFor, CancelRun, callVars, taskVars, codexVars
  <2>5. OutcomeTellsTheCause'
    BY <1>1 DEF OutcomeTellsTheCause, CancelRun, callVars, codexVars
  <2>6. signals' \in Nat
    BY <1>1 DEF Counts, CancelRun
  <2>7. Counts' /\ OutputJudged'
    BY <1>1, <2>6, NotJudged DEF CancelRun, taskVars, codexVars
  <2>. QED
    BY <2>1, <2>2, <2>3, <2>4, <2>5, <2>7
<1>2. CASE Signal
  <2>1. Typed'
    BY <1>2 DEF Typed, Signal, taskVars, codexVars
  <2>2. InStep'
    BY <1>2 DEF InStep, Signal, callVars, taskVars
  <2>3. ProcessFollows'
    BY <1>2 DEF ProcessFollows, Signal, taskVars, codexVars
  <2>4. AskedFor'
    BY <1>2 DEF AskedFor, Signal, callVars, taskVars, codexVars
  <2>5. OutcomeTellsTheCause'
    BY <1>2 DEF OutcomeTellsTheCause, Signal, callVars, codexVars
  <2>6. signals' \in Nat
    BY <1>2 DEF Counts, Signal
  <2>7. Counts' /\ OutputJudged'
    BY <1>2, <2>6, NotJudged DEF Signal, taskVars, codexVars
  <2>. QED
    BY <2>1, <2>2, <2>3, <2>4, <2>5, <2>7
<1>3. CASE CancelElsewhere
  <2>1. Typed'
    BY <1>3 DEF Typed, CancelElsewhere, taskVars, codexVars
  <2>2. InStep'
    BY <1>3 DEF InStep, CancelElsewhere, callVars, taskVars
  <2>3. ProcessFollows'
    BY <1>3 DEF ProcessFollows, CancelElsewhere, taskVars, codexVars
  <2>4. AskedFor'
    BY <1>3 DEF AskedFor, CancelElsewhere, callVars, taskVars, codexVars
  <2>5. OutcomeTellsTheCause'
    BY <1>3 DEF OutcomeTellsTheCause, CancelElsewhere, callVars, codexVars
  <2>6. Counts' /\ OutputJudged'
    BY <1>3, NotJudged DEF Counts, CancelElsewhere, taskVars, codexVars
  <2>. QED
    BY <2>1, <2>2, <2>3, <2>4, <2>5, <2>6
<1>4. CASE DecideElsewhere
  <2>1. Typed'
    BY <1>4 DEF Typed, DecideElsewhere, taskVars, codexVars
  <2>2. InStep'
    BY <1>4 DEF InStep, DecideElsewhere, callVars, taskVars
  <2>3. ProcessFollows'
    BY <1>4 DEF ProcessFollows, DecideElsewhere, taskVars, codexVars
  <2>4. AskedFor'
    BY <1>4 DEF AskedFor, DecideElsewhere, callVars, taskVars, codexVars
  <2>5. OutcomeTellsTheCause'
    BY <1>4 DEF OutcomeTellsTheCause, DecideElsewhere, callVars, codexVars
  <2>6. Counts' /\ OutputJudged'
    BY <1>4, NotJudged DEF Counts, DecideElsewhere, taskVars, codexVars
  <2>. QED
    BY <2>1, <2>2, <2>3, <2>4, <2>5, <2>6
<1>5. CASE DeleteRun
  <2>1. Typed'
    BY <1>5 DEF Typed, DeleteRun, taskVars, codexVars
  <2>2. InStep'
    BY <1>5 DEF InStep, DeleteRun, callVars, taskVars
  <2>3. ProcessFollows'
    BY <1>5 DEF ProcessFollows, DeleteRun, taskVars, codexVars
  <2>4. AskedFor'
    BY <1>5 DEF AskedFor, DeleteRun, callVars, taskVars, codexVars
  <2>5. OutcomeTellsTheCause'
    BY <1>5 DEF OutcomeTellsTheCause, DeleteRun, callVars, codexVars
  <2>6. Counts' /\ OutputJudged'
    BY <1>5, NotJudged DEF Counts, DeleteRun, taskVars, codexVars
  <2>. QED
    BY <2>1, <2>2, <2>3, <2>4, <2>5, <2>6
<1>6. CASE Begin
  <2>1. InOrder'
    BY <1>6
       DEF Typed, InStep, ProcessFollows, AskedFor, OutcomeTellsTheCause, Begin,
           runVars, codexVars
  <2>2. Counts' /\ OutputJudged'
    BY <1>6, NotJudged DEF Counts, InStep, OutputJudged, Begin, runVars, codexVars
  <2>. QED
    BY <2>1, <2>2
<1>7. CASE Poll
  <2>1. Typed'
    BY <1>7 DEF Typed, Poll, runVars, taskVars, codexVars
  <2>2. InStep'
    BY <1>7 DEF InStep, Poll, runVars, taskVars
  <2>3. ProcessFollows'
    BY <1>7 DEF ProcessFollows, Poll, taskVars, codexVars
  <2>4. AskedFor'
    BY <1>7 DEF AskedFor, Poll, runVars, taskVars, codexVars
  <2>5. OutcomeTellsTheCause'
    BY <1>7 DEF OutcomeTellsTheCause, Poll, runVars, codexVars
  <2>6. Counts' /\ OutputJudged'
    BY <1>7, NotJudged DEF Counts, Poll, runVars, taskVars, codexVars
  <2>. QED
    BY <2>1, <2>2, <2>3, <2>4, <2>5, <2>6
<1>8. CASE WakeCancelled
  <2>1. Typed'
    BY <1>8 DEF Typed, WakeCancelled, runVars, taskVars, codexVars
  <2>2. InStep'
    BY <1>8 DEF InStep, WakeCancelled, runVars
  <2>3. ProcessFollows'
    BY <1>8 DEF ProcessFollows, WakeCancelled, taskVars, codexVars
  <2>4. AskedFor'
    BY <1>8 DEF InStep, AskedFor, WakeCancelled, runVars, taskVars, codexVars
  <2>5. OutcomeTellsTheCause'
    BY <1>8 DEF OutcomeTellsTheCause, WakeCancelled, runVars, codexVars
  <2>6. Counts' /\ OutputJudged'
    BY <1>8, NotJudged DEF Counts, WakeCancelled, runVars, taskVars, codexVars
  <2>. QED
    BY <2>1, <2>2, <2>3, <2>4, <2>5, <2>6
<1>9. CASE WakeEnded
  <2>1. Typed'
    BY <1>9 DEF Typed, WakeEnded, runVars, taskVars, codexVars
  <2>2. InStep'
    BY <1>9 DEF InStep, WakeEnded, End, taskVars
  <2>3. ProcessFollows'
    BY <1>9 DEF ProcessFollows, WakeEnded, taskVars, codexVars
  <2>4. AskedFor'
    BY <1>9 DEF AskedFor, WakeEnded, End, runVars, taskVars, codexVars
  <2>5. OutcomeTellsTheCause'
    BY <1>9
       DEF Typed, AskedFor, OutcomeTellsTheCause, Results, WakeEnded, End, Settled,
           runVars, codexVars
  <2>6. Counts' /\ OutputJudged'
    BY <1>9, NotJudged DEF Counts, WakeEnded, runVars, taskVars, codexVars
  <2>. QED
    BY <2>1, <2>2, <2>3, <2>4, <2>5, <2>6
<1>10. CASE Join
  <2>1. Typed'
    BY <1>10 DEF Typed, Join, runVars, taskVars, codexVars
  <2>2. InStep'
    BY <1>10 DEF InStep, Join, End, runVars, taskVars
  <2>3. ProcessFollows'
    BY <1>10 DEF ProcessFollows, Join, taskVars, codexVars
  <2>4. AskedFor'
    BY <1>10 DEF AskedFor, Join, End, runVars, taskVars, codexVars
  <2>5. OutcomeTellsTheCause'
    BY <1>10
       DEF Typed, InStep, AskedFor, OutcomeTellsTheCause, Results, Join, End, runVars,
           codexVars
  <2>6. Counts' /\ OutputJudged'
    BY <1>10, NotJudged DEF Counts, Join, runVars, taskVars, codexVars
  <2>. QED
    BY <2>1, <2>2, <2>3, <2>4, <2>5, <2>6
<1>11. CASE GiveUp
  <2>1. Typed'
    BY <1>11 DEF Typed, GiveUp, runVars, taskVars, codexVars
  <2>2. InStep'
    BY <1>11 DEF InStep, GiveUp, runVars
  <2>3. ProcessFollows'
    BY <1>11 DEF ProcessFollows, GiveUp, taskVars, codexVars
  <2>4. AskedFor'
    BY <1>11 DEF AskedFor, GiveUp, runVars, taskVars, codexVars
  <2>5. OutcomeTellsTheCause'
    BY <1>11 DEF OutcomeTellsTheCause, GiveUp, runVars, codexVars
  <2>6. Counts' /\ OutputJudged'
    BY <1>11, NotJudged DEF Counts, GiveUp, runVars, taskVars, codexVars
  <2>. QED
    BY <2>1, <2>2, <2>3, <2>4, <2>5, <2>6
<1>12. CASE StartTask
  <2>1. InOrder'
    BY <1>12
       DEF Typed, InStep, ProcessFollows, AskedFor, OutcomeTellsTheCause, Results,
           StartTask, EndTask, callVars, runVars, codexVars
  <2>2. Counts' /\ OutputJudged'
    BY <1>12, NotJudged DEF Counts, OutputJudged, StartTask, EndTask, runVars, codexVars
  <2>. QED
    BY <2>1, <2>2
<1>13. CASE Spawned
  <2>1. Typed' /\ InStep' /\ AskedFor'
    BY <1>13
       DEF Typed, InStep, AskedFor, Results, Spawned, EndTask, callVars, runVars,
           codexVars
  <2>2. ProcessFollows'
    <3>1. CASE task' = "ended"
      BY <1>13, <3>1 DEF ProcessFollows, Spawned, codexVars
    <3>2. CASE task' = "communicating"
      BY <1>13, <3>2 DEF ProcessFollows, Spawned, EndTask
    <3>. QED
      BY <1>13, <3>1, <3>2 DEF Spawned, EndTask
  <2>3. OutcomeTellsTheCause'
    <3>1. ~killed' /\ UNCHANGED <<outcome, status, gaveUp>> /\ codex # "exited"
      BY <1>13 DEF ProcessFollows, Spawned, codexVars, callVars, runVars
    <3>. QED
      BY <3>1 DEF OutcomeTellsTheCause
  <2>4. Counts' /\ OutputJudged'
    BY <1>13, NotJudged DEF Counts, OutputJudged, Spawned, EndTask, runVars, codexVars
  <2>. QED
    BY <2>1, <2>2, <2>3, <2>4
<1>14. CASE Exit
  <2>1. InOrder'
    BY <1>14, AnswersAreResults
       DEF Typed, InStep, ProcessFollows, AskedFor, OutcomeTellsTheCause, Exit,
           callVars, runVars, taskVars
  <2>2. Counts' /\ OutputJudged'
    BY <1>14, NotJudged DEF Counts, Exit, runVars, taskVars
  <2>. QED
    BY <2>1, <2>2
<1>15. CASE ExitUnread
  <2>1. Typed'
    BY <1>15 DEF Typed, ExitUnread, runVars, taskVars
  <2>2. InStep'
    BY <1>15 DEF InStep, ExitUnread, callVars, runVars, taskVars
  <2>3. ProcessFollows'
    BY <1>15 DEF ProcessFollows, ExitUnread, taskVars
  <2>4. AskedFor'
    BY <1>15 DEF AskedFor, ExitUnread, callVars, runVars, taskVars
  <2>5. OutcomeTellsTheCause'
    BY <1>15 DEF OutcomeTellsTheCause, ExitUnread, callVars, runVars
  <2>6. Counts' /\ OutputJudged'
    BY <1>15, NotJudged DEF Counts, ExitUnread, runVars, taskVars
  <2>. QED
    BY <2>1, <2>2, <2>3, <2>4, <2>5, <2>6
<1>16. CASE Feed
  <2>1. InOrder'
    BY <1>16
       DEF Typed, InStep, ProcessFollows, AskedFor, OutcomeTellsTheCause, Feed,
           callVars, runVars, codexVars
  <2>2. Counts' /\ OutputJudged'
    BY <1>16, NotJudged DEF Counts, Feed, runVars, codexVars
  <2>. QED
    BY <2>1, <2>2
<1>17. CASE Finish
  <2>1. InOrder'
    BY <1>17
       DEF Typed, InStep, ProcessFollows, AskedFor, OutcomeTellsTheCause, Results,
           Finish, EndTask, Complete, callVars, runVars, codexVars
  <2>2. Counts' /\ OutputJudged'
    BY <1>17, FinishJudged
  <2>. QED
    BY <2>1, <2>2
<1>18. CASE Overflow
  <2>1. InOrder'
    BY <1>18
       DEF Typed, InStep, ProcessFollows, AskedFor, OutcomeTellsTheCause, Overflow,
           Terminate, callVars, runVars
  <2>2. Counts' /\ OutputJudged'
    BY <1>18, OverflowJudged
  <2>. QED
    BY <2>1, <2>2
<1>19. CASE Timeout
  <2>1. InOrder'
    BY <1>19
       DEF Typed, InStep, ProcessFollows, AskedFor, OutcomeTellsTheCause, Timeout,
           Terminate, callVars, runVars
  <2>2. Counts' /\ OutputJudged'
    BY <1>19, NotJudged DEF Counts, Timeout, Terminate, runVars
  <2>. QED
    BY <2>1, <2>2
<1>20. CASE Terminated
  <2>1. InOrder'
    BY <1>20
       DEF Typed, InStep, ProcessFollows, AskedFor, OutcomeTellsTheCause, Terminated,
           EndTask, callVars, runVars, codexVars
  <2>2. Counts' /\ OutputJudged'
    BY <1>20, NotJudged DEF Counts, Terminated, EndTask, runVars, codexVars
  <2>. QED
    BY <2>1, <2>2
<1>21. CASE GraceOver
  <2>1. InOrder'
    BY <1>21
       DEF Typed, InStep, ProcessFollows, AskedFor, OutcomeTellsTheCause, GraceOver,
           callVars, runVars, codexVars
  <2>2. Counts' /\ OutputJudged'
    BY <1>21, NotJudged DEF Counts, GraceOver, runVars, codexVars
  <2>. QED
    BY <2>1, <2>2
<1>22. CASE Kill
  <2>1. InOrder'
    BY <1>22
       DEF Typed, InStep, ProcessFollows, AskedFor, OutcomeTellsTheCause, Kill,
           EndTask, callVars, runVars
  <2>2. Counts' /\ OutputJudged'
    BY <1>22, NotJudged DEF Counts, Kill, EndTask, runVars
  <2>. QED
    BY <2>1, <2>2
<1>23. CASE DeliverEarly
  <2>1. InOrder'
    BY <1>23
       DEF Typed, InStep, ProcessFollows, AskedFor, OutcomeTellsTheCause,
           DeliverEarly, EndTask, callVars, runVars, codexVars
  <2>2. Counts' /\ OutputJudged'
    BY <1>23, NotJudged DEF Counts, DeliverEarly, EndTask, runVars, codexVars
  <2>. QED
    BY <2>1, <2>2
<1>24. CASE DeliverCommunicating
  <2>1. InOrder'
    BY <1>24
       DEF Typed, InStep, ProcessFollows, AskedFor, OutcomeTellsTheCause,
           DeliverCommunicating, Terminate, callVars, runVars
  <2>2. Counts' /\ OutputJudged'
    BY <1>24, NotJudged DEF Counts, DeliverCommunicating, Terminate, runVars
  <2>. QED
    BY <2>1, <2>2
<1>25. CASE DeliverTerminating
  <2>1. InOrder'
    BY <1>25
       DEF Typed, InStep, ProcessFollows, AskedFor, OutcomeTellsTheCause,
           DeliverTerminating, EndTask, callVars, runVars, codexVars
  <2>2. Counts' /\ OutputJudged'
    BY <1>25, NotJudged DEF Counts, DeliverTerminating, EndTask, runVars, codexVars
  <2>. QED
    BY <2>1, <2>2
<1>26. CASE DeliverLate
  <2>1. Typed'
    BY <1>26 DEF Typed, DeliverLate, runVars, taskVars, codexVars
  <2>2. InStep'
    BY <1>26 DEF InStep, DeliverLate, callVars, runVars, taskVars
  <2>3. ProcessFollows'
    BY <1>26 DEF ProcessFollows, DeliverLate, taskVars, codexVars
  <2>4. AskedFor'
    BY <1>26 DEF AskedFor, DeliverLate, callVars, runVars, taskVars, codexVars
  <2>5. OutcomeTellsTheCause'
    BY <1>26 DEF OutcomeTellsTheCause, DeliverLate, callVars, runVars, codexVars
  <2>6. Counts' /\ OutputJudged'
    BY <1>26, NotJudged DEF Counts, DeliverLate, runVars, taskVars, codexVars
  <2>. QED
    BY <2>1, <2>2, <2>3, <2>4, <2>5, <2>6
<1>27. CASE \E s \in Streams : Write(s)
  <2>. PICK s \in Streams : Write(s)
    BY <1>27
  <2>1. InOrder'
    BY DEF Typed, InStep, ProcessFollows, AskedFor, OutcomeTellsTheCause,
           Write, callVars, runVars, taskVars
  <2>2. Counts' /\ OutputJudged'
    BY WriteJudged
  <2>. QED
    BY <2>1, <2>2
<1>28. CASE \E s \in Streams : Read(s)
  <2>. PICK s \in Streams : Read(s)
    BY <1>28
  <2>1. InOrder'
    BY DEF Typed, InStep, ProcessFollows, AskedFor, OutcomeTellsTheCause,
           Read, callVars, runVars, codexVars
  <2>2. Counts' /\ OutputJudged'
    BY ReadJudged
  <2>. QED
    BY <2>1, <2>2
<1>29. CASE UNCHANGED vars
  <2>1. Typed'
    BY <1>29 DEF Typed, vars, runVars, taskVars, codexVars
  <2>2. InStep'
    BY <1>29 DEF InStep, vars, callVars, runVars, taskVars
  <2>3. ProcessFollows'
    BY <1>29 DEF ProcessFollows, vars, taskVars, codexVars
  <2>4. AskedFor'
    BY <1>29 DEF AskedFor, vars, callVars, runVars, taskVars, codexVars
  <2>5. OutcomeTellsTheCause'
    BY <1>29 DEF OutcomeTellsTheCause, vars, callVars, runVars, codexVars
  <2>6. Counts' /\ OutputJudged'
    BY <1>29, NotJudged DEF Counts, vars, runVars, taskVars, codexVars
  <2>. QED
    BY <2>1, <2>2, <2>3, <2>4, <2>5, <2>6
<1>. QED
  BY <1>1, <1>2, <1>3, <1>4, <1>5, <1>6, <1>7, <1>8, <1>9, <1>10, <1>11, <1>12, <1>13,
     <1>14, <1>15, <1>16, <1>17, <1>18, <1>19, <1>20, <1>21, <1>22, <1>23, <1>24, <1>25,
     <1>26, <1>27, <1>28, <1>29
     DEF Next, Deliver

-----------------------------------------------------------------------------
(* The theorems *)

\* Every reachable state of an invocation satisfies the inductive invariant.
LEMMA Invariant == Spec => []IInv
  BY InitIInv, NextIInv, PTL DEF Spec

\* Whatever ends an invocation and in whatever order cancellations, polls, timeouts and
\* exits come, _await_invocation leaves neither a task nor a process nor an entry behind,
\* but for a process whose termination was interrupted and the entry of a deleted run.
THEOREM LeavesNothing == Spec => []NothingLeftBehind
<1>1. IInv => NothingLeftBehind
  BY DEF IInv, InOrder, InStep, ProcessFollows, NothingLeftBehind
<1>. QED
  BY <1>1, Invariant, PTL

\* The caller of _await_invocation never learns of a cancellation nobody asked for, of
\* a deletion that did not happen, or of a failed kill of a process that was killed.
THEOREM TellsTheCause == Spec => []OutcomeTellsTheCause
<1>1. IInv => OutcomeTellsTheCause
  BY DEF IInv, InOrder
<1>. QED
  BY <1>1, Invariant, PTL

\* For every max_output_bytes and chunk size, an answer is all that Codex wrote and only
\* output beyond the limit is refused: neither is off by one, neither loses a chunk.
THEOREM LimitIsExact == Spec => []WholeWithinLimit
<1>1. IInv => WholeWithinLimit
  BY DEF IInv, OutputJudged
<1>. QED
  BY <1>1, Invariant, PTL
=============================================================================

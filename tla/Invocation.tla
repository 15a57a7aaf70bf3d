------------------------------ MODULE Invocation ------------------------------
(***************************************************************************)
(* One invocation of Codex for a run: AgentBraidService._await_invocation  *)
(* (src/agentbraid/service.py), the task it makes of                       *)
(* CodexAdapter.run_structured (src/agentbraid/providers/codex.py), the    *)
(* task that polls the store for a cancellation, and the Codex process.    *)
(* The user cancels the run from this process, which also cancels the task,*)
(* or from another one, which only the poll sees.                          *)
(*                                                                         *)
(* The tasks share one event loop: an action goes from one await to the    *)
(* next.  What asyncio and the operating system do is modelled from how    *)
(* they are used: a request to cancel a task is delivered at the await the *)
(* task is at, SIGKILL ends a process, SIGTERM ends one that lets it.      *)
(***************************************************************************)
EXTENDS Naturals, FiniteSets

CONSTANTS
  Limit,       \* max_output_bytes
  Chunk,       \* _OUTPUT_CHUNK_BYTES
  MaxWritten,  \* bound on what Codex writes to a stream
  MaxCancels   \* bound on the calls of cancel_run in this process

ASSUME InvocationAssumption ==
  /\ {Limit, Chunk} \subseteq Nat \ {0}
  /\ {MaxWritten, MaxCancels} \subseteq Nat

Streams == {"stdout", "stderr"}

VARIABLES
  status,      \* the run's status: "active" until it is over, also while it is blocked,
               \* "cancelled", "decided" (completed or failed) by another process, or "deleted"
  signals,     \* calls of cancel_run here that have still to look for invocations
  call,        \* where _await_invocation is
  raising,     \* what it raises once the task it cancelled has ended
  outcome,     \* what it returned or raised
  registered,  \* whether the invocation is in _active_invocations
  watcher,     \* where _wait_for_persisted_cancellation is
  task,        \* where run_structured is
  cause,       \* what run_structured returns or raises
  pending,     \* whether a cancellation of its task is to be delivered
  codex,       \* the Codex process; "leaving" when a signal is about to end it
  killed,      \* whether it was sent SIGKILL
  held,        \* whether a child it leaves behind keeps its pipes open
  answer,      \* what its output amounts to once it has exited
  fed,         \* whether the prompt is written and stdin closed
  written,     \* what it wrote to each stream
  received,    \* what _read_limited has of each stream
  gaveUp,      \* whether the caller of _await_invocation was cancelled
  interrupted  \* whether a cancellation was delivered inside _terminate

callVars == <<call, raising, outcome, registered, watcher, gaveUp>>
runVars == <<status, signals>>
taskVars == <<task, cause, fed, received, interrupted>>
codexVars == <<codex, killed, held, answer, written>>
vars == <<callVars, runVars, taskVars, pending, codexVars>>

Init ==
  /\ status = "active" /\ signals = 0
  /\ call = "idle" /\ raising = "none" /\ outcome = "none"
  /\ registered = FALSE /\ watcher = "none" /\ gaveUp = FALSE
  /\ task = "none" /\ cause = "none" /\ fed = FALSE
  /\ received = [s \in Streams |-> 0] /\ interrupted = FALSE
  /\ pending = FALSE
  /\ codex = "none" /\ killed = FALSE /\ held = FALSE /\ answer = "none"
  /\ written = [s \in Streams |-> 0]

-----------------------------------------------------------------------------
(* The run, as users of this and of other processes change it *)

\* cancel_run here: the status is persisted unless the run is over, then the
\* invocations are looked up in any case.
CancelRun ==
  /\ status # "deleted" /\ signals < MaxCancels
  /\ status' = IF status = "active" THEN "cancelled" ELSE status
  /\ signals' = signals + 1
  /\ UNCHANGED <<callVars, taskVars, pending, codexVars>>

Signal ==
  /\ signals > 0
  /\ signals' = signals - 1
  /\ pending' = (pending \/ (registered /\ task # "ended"))
  /\ UNCHANGED <<status, callVars, taskVars, codexVars>>

CancelElsewhere ==
  /\ status = "active"
  /\ status' = "cancelled"
  /\ UNCHANGED <<signals, callVars, taskVars, pending, codexVars>>

\* Another process may conclude the final review this one is invoking Codex for, and
\* complete the run or fail it.  A run that it blocks is not over: it can still be
\* cancelled, from here and from elsewhere, and stays active.
DecideElsewhere ==
  /\ status = "active"
  /\ status' = "decided"
  /\ UNCHANGED <<signals, callVars, taskVars, pending, codexVars>>

DeleteRun ==
  /\ status \in {"cancelled", "decided"}
  /\ status' = "deleted"
  /\ UNCHANGED <<signals, callVars, taskVars, pending, codexVars>>

-----------------------------------------------------------------------------
(* _await_invocation *)

Begin ==
  /\ call = "idle"
  /\ call' = "waiting" /\ registered' = TRUE
  /\ task' = "queued" /\ watcher' = "polling"
  /\ UNCHANGED <<runVars, raising, outcome, gaveUp, cause, fed, received, interrupted, pending, codexVars>>

Poll ==
  /\ watcher = "polling" /\ status \in {"cancelled", "deleted"}
  /\ watcher' = IF status = "cancelled" THEN "saw" ELSE "failed"
  /\ UNCHANGED <<runVars, call, raising, outcome, registered, gaveUp, taskVars, pending, codexVars>>

\* The finally clause.  A poll that failed raises out of it, before the entry in
\* _active_invocations is removed.
End(o) ==
  /\ call' = "ended" /\ watcher' = "ended"
  /\ outcome' = IF watcher = "failed" THEN "state error" ELSE o
  /\ registered' = (watcher = "failed")
  /\ UNCHANGED <<raising, gaveUp>>

CancelTask == pending' = (pending \/ task # "ended")

\* A bug to find: asyncio.wait returns when both have ended.
WakeWhenAllEnded ==
  /\ call = "waiting" /\ watcher \in {"saw", "failed"} /\ task = "ended"
  /\ call' = "joining" /\ raising' = "run cancelled"
  /\ CancelTask
  /\ UNCHANGED <<runVars, outcome, registered, watcher, gaveUp, taskVars, codexVars>>

\* asyncio.wait returns because of the poll.
WakeCancelled ==
  /\ call = "waiting" /\ watcher \in {"saw", "failed"}
  /\ call' = "joining" /\ raising' = "run cancelled"
  /\ CancelTask
  /\ UNCHANGED <<runVars, outcome, registered, watcher, gaveUp, taskVars, codexVars>>

\* A bug to find: the cancellation is taken for the caller's own.
SettledWithoutStatus == cause

\* It returns because of the task.  Only an answer and a cancellation ask for the
\* status of the run; a provider error does not.
Settled ==
  IF cause \notin {"answer", "cancelled"} THEN cause
  ELSE CASE status = "cancelled" -> "run cancelled"
         [] status = "deleted"   -> "state error"
         [] OTHER                -> cause

WakeEnded ==
  /\ call = "waiting" /\ watcher = "polling" /\ task = "ended"
  /\ End(Settled)
  /\ UNCHANGED <<runVars, taskVars, pending, codexVars>>

\* The awaited task ends; with suppress(CancelledError) drops its cancellation, and
\* its answer, but not another exception.
Join ==
  /\ call = "joining" /\ task = "ended"
  /\ End(IF cause \in {"answer", "cancelled"} THEN raising ELSE cause)
  /\ UNCHANGED <<runVars, taskVars, pending, codexVars>>

\* The caller is cancelled: by the client that gives a request up, or at the end of
\* the process.  While it joins the task, the cancellation goes to the task.
GiveUp ==
  /\ call \in {"waiting", "joining"} /\ ~gaveUp
  /\ gaveUp' = TRUE
  /\ call' = "joining"
  /\ raising' = IF call = "waiting" THEN "cancelled" ELSE raising
  /\ CancelTask
  /\ UNCHANGED <<runVars, outcome, registered, watcher, taskVars, codexVars>>

-----------------------------------------------------------------------------
(* run_structured up to the process, and the process *)

EndTask(c) == task' = "ended" /\ cause' = c

\* The workspace is gone, or create_subprocess_exec is awaited.
StartTask ==
  /\ task = "queued" /\ ~pending
  /\ \/ EndTask("unavailable")
     \/ task' = "spawning" /\ UNCHANGED cause
  /\ UNCHANGED <<callVars, runVars, fed, received, interrupted, pending, codexVars>>

\* The process starts, or the binary does not.
Spawned ==
  /\ task = "spawning" /\ ~pending
  /\ \/ /\ EndTask("unavailable")
        /\ UNCHANGED codexVars
     \/ /\ task' = "communicating" /\ UNCHANGED cause
        /\ codex' = "running"
        /\ UNCHANGED <<killed, held, answer, written>>
  /\ UNCHANGED <<callVars, runVars, fed, received, interrupted, pending>>

\* What it writes later nobody reads.
Write(s) ==
  /\ codex = "running" /\ task = "communicating" /\ written[s] < MaxWritten
  /\ written' = [written EXCEPT ![s] = @ + 1]
  /\ UNCHANGED <<callVars, runVars, taskVars, pending, codex, killed, held, answer>>

\* What a process may leave: its exit code, the markers in its error output and in
\* its error events, whether stdout is JSONL and names a thread (or one is resumed),
\* and the file with its final message.
Endings ==
  [ code : {0, 1}, said : SUBSET {"schema", "quota", "auth"},
    told : SUBSET {"schema", "quota", "auth"}, jsonl : BOOLEAN, thread : BOOLEAN,
    file : {"missing", "oversized", "malformed", "valid"} ]

\* _classify_failure, which sees the events only when all of stdout parses.
ClassifyFailure(e) ==
  LET marks == e.said \cup (IF e.jsonl THEN e.told ELSE {})
  IN CASE "schema" \in marks -> "output"
       [] "quota" \in marks /\ "schema" \notin marks -> "quota"
       [] "auth" \in marks /\ marks \cap {"schema", "quota"} = {} -> "unavailable"
       [] marks = {} -> "failed"

Amounts(e) ==
  IF e.code # 0 THEN ClassifyFailure(e)
  ELSE IF e.jsonl /\ e.thread /\ e.file = "valid" THEN "answer"
  ELSE "output"

Answers == {Amounts(e) : e \in Endings}

\* Codex exits by itself, maybe leaving a child behind, or because of a signal.
Exit ==
  /\ codex = "running" /\ task = "communicating"
  /\ codex' = "exited"
  /\ answer' \in Answers
  /\ held' \in BOOLEAN
  /\ UNCHANGED <<callVars, runVars, taskVars, pending, killed, written>>

\* The same once nobody reads its answer any more.
ExitUnread ==
  /\ codex = "leaving" \/ (codex = "running" /\ task # "communicating")
  /\ codex' = "exited"
  /\ UNCHANGED <<callVars, runVars, taskVars, pending, killed, held, answer, written>>

-----------------------------------------------------------------------------
(* _communicate_limited and _read_limited under wait_for *)

Feed ==
  /\ task = "communicating" /\ ~fed
  /\ fed' = TRUE
  /\ UNCHANGED <<callVars, runVars, task, cause, received, interrupted, pending, codexVars>>

\* A bug to find: a stream that reaches the limit has exceeded it.
TooMuchAtLimit(s) == received[s] >= Limit

TooMuch(s) == received[s] > Limit

\* stream.read returns between one byte and as many as were asked for.
Read(s) ==
  /\ task = "communicating" /\ ~TooMuch(s)
  /\ \E n \in 1..Chunk :
       /\ received[s] + n <= written[s]
       /\ received[s] + n <= Limit + 1
       /\ received' = [received EXCEPT ![s] = @ + n]
  /\ UNCHANGED <<callVars, runVars, task, cause, fed, interrupted, pending, codexVars>>

\* What gather waits for: the exit of the process and the end of both streams.
Complete ==
  /\ fed /\ codex = "exited" /\ ~held
  /\ \A s \in Streams : received[s] = written[s] /\ ~TooMuch(s)

Flooded == fed /\ \E s \in Streams : TooMuch(s)

Finish ==
  /\ task = "communicating" /\ Complete
  /\ EndTask(answer)
  /\ UNCHANGED <<callVars, runVars, fed, received, interrupted, pending, codexVars>>

\* _terminate up to its wait: a process with a return code is left alone, another one
\* is sent SIGTERM, which it may ignore.
Terminate(c) ==
  /\ cause' = c
  /\ IF codex = "exited"
     THEN task' = "ended" /\ UNCHANGED codex
     ELSE task' = "terminating" /\ codex' \in {"running", "leaving"}

\* A bug to find: only a timeout and a cancellation end the process.
OverflowUnterminated ==
  /\ task = "communicating" /\ Flooded
  /\ EndTask("flood")
  /\ UNCHANGED <<callVars, runVars, fed, received, interrupted, pending, codexVars>>

Overflow ==
  /\ task = "communicating" /\ Flooded
  /\ Terminate("flood")
  /\ UNCHANGED <<callVars, runVars, fed, received, interrupted, pending,
                 killed, held, answer, written>>

Timeout ==
  /\ task = "communicating"
  /\ Terminate("timeout")
  /\ UNCHANGED <<callVars, runVars, fed, received, interrupted, pending,
                 killed, held, answer, written>>

\* The rest of _terminate: the process exits, or after three seconds is killed, unless
\* it exited while its wait was being given up; asyncio then raises ProcessLookupError.
Terminated ==
  /\ task \in {"terminating", "killing"} /\ codex = "exited"
  /\ EndTask(cause)
  /\ UNCHANGED <<callVars, runVars, fed, received, interrupted, pending, codexVars>>

\* A bug to find: the process is waited for without a limit.
GraceNeverOver ==
  /\ task = "terminating" /\ codex = "exited"
  /\ task' = "overdue"
  /\ UNCHANGED <<callVars, runVars, cause, fed, received, interrupted, pending, codexVars>>

GraceOver ==
  /\ task = "terminating"
  /\ task' = "overdue"
  /\ UNCHANGED <<callVars, runVars, cause, fed, received, interrupted, pending, codexVars>>

Kill ==
  /\ task = "overdue"
  /\ IF codex = "exited"
     THEN EndTask("process lookup") /\ UNCHANGED <<codex, killed>>
     ELSE task' = "killing" /\ codex' = "leaving" /\ killed' = TRUE /\ UNCHANGED cause
  /\ UNCHANGED <<callVars, runVars, fed, received, interrupted, pending, held, answer, written>>

-----------------------------------------------------------------------------
(* A cancellation of the task is delivered where the task is. *)

\* Before the process there is nothing to terminate; asyncio ends one that starts.
DeliverEarly ==
  /\ pending /\ task \in {"queued", "spawning"}
  /\ pending' = FALSE
  /\ EndTask("cancelled")
  /\ UNCHANGED <<callVars, runVars, fed, received, interrupted, codexVars>>

\* wait_for raises, or keeps a result that is there already and drops the request.
DeliverCommunicating ==
  /\ pending /\ task = "communicating"
  /\ pending' = FALSE
  /\ \/ Terminate("cancelled")
     \/ (Complete \/ Flooded) /\ UNCHANGED <<task, cause, codex>>
  /\ UNCHANGED <<callVars, runVars, fed, received, interrupted, killed, held, answer, written>>

\* Inside _terminate it ends run_structured, and with it the escalation to SIGKILL.
DeliverTerminating ==
  /\ pending /\ task \in {"terminating", "overdue", "killing"}
  /\ pending' = FALSE
  /\ EndTask("cancelled")
  /\ interrupted' = TRUE
  /\ UNCHANGED <<callVars, runVars, fed, received, codexVars>>

\* The task was done when the request came.
DeliverLate ==
  /\ pending /\ task = "ended"
  /\ pending' = FALSE
  /\ UNCHANGED <<callVars, runVars, taskVars, codexVars>>

Deliver == DeliverEarly \/ DeliverCommunicating \/ DeliverTerminating \/ DeliverLate

-----------------------------------------------------------------------------
Next ==
  \/ CancelRun \/ Signal \/ CancelElsewhere \/ DecideElsewhere \/ DeleteRun
  \/ Begin \/ Poll \/ WakeCancelled \/ WakeEnded \/ Join \/ GiveUp
  \/ StartTask \/ Spawned \/ Exit \/ ExitUnread \/ Feed \/ Finish \/ Overflow \/ Timeout
  \/ Terminated \/ GraceOver \/ Kill \/ Deliver
  \/ \E s \in Streams : Write(s) \/ Read(s)

\* The loop runs what is ready and its timers; killed processes exit, and processes
\* that heed SIGTERM.  Nothing makes Codex read its prompt, write or exit by itself,
\* and codex_timeout_seconds may be long: Timeout is left to the properties.
Fairness ==
  /\ WF_vars(Signal) /\ WF_vars(Poll)
  /\ WF_vars(WakeCancelled) /\ WF_vars(WakeEnded) /\ WF_vars(Join)
  /\ WF_vars(StartTask) /\ WF_vars(Spawned) /\ WF_vars(Finish) /\ WF_vars(Overflow)
  /\ WF_vars(Terminated) /\ WF_vars(GraceOver) /\ WF_vars(Kill) /\ WF_vars(Deliver)
  /\ \A s \in Streams : WF_vars(Read(s))
  /\ WF_vars(codex = "leaving" /\ ExitUnread)

Spec == Init /\ [][Next]_vars
FairSpec == Spec /\ Fairness

-----------------------------------------------------------------------------
\* Whatever ends an invocation (answer, exit code, flood, timeout, cancellation by the
\* poll, by cancel_run or by the caller), it leaves nothing behind: neither of its tasks
\* goes on by itself, its Codex process has exited unless a cancellation was delivered
\* while _terminate waited for it, and its entry in _active_invocations is gone unless
\* its run was deleted.
NothingLeftBehind ==
  call = "ended" =>
    /\ task = "ended" /\ watcher = "ended"
    /\ codex \in {"none", "exited"} \/ interrupted
    /\ registered => status = "deleted"

\* What the caller is told is what happened: a cancelled run only when the run is,
\* an asyncio cancellation only when it was cancelled itself, or cancel_run was called
\* for a run another process had decided, a state error only when the row is gone, a
\* failed kill only for a process that overstayed its grace.
OutcomeTellsTheCause ==
  /\ outcome = "run cancelled" => status \in {"cancelled", "deleted"}
  /\ outcome = "cancelled" => gaveUp \/ status \in {"decided", "deleted"}
  /\ outcome = "state error" => status = "deleted"
  /\ outcome = "process lookup" => codex = "exited" /\ ~killed

\* The limit is exact: an answer is everything Codex wrote and within it, and only
\* output beyond it is refused, for any sizes in which it arrives.
WholeWithinLimit ==
  /\ cause = "answer" => \A s \in Streams : received[s] = written[s] /\ written[s] <= Limit
  /\ cause = "flood" => \E s \in Streams : written[s] > Limit

\* codex_timeout_seconds bounds every invocation: also of a Codex that reads nothing,
\* ignores SIGTERM, or leaves children behind that keep its pipes open.
InvocationEnds == WF_vars(Timeout) => (call = "waiting" ~> call = "ended")

\* A cancellation of the run, from whichever process, ends the invocation without the
\* timeout, also when the cancelled run is deleted before the poll looks.
CancelledRunIsLeft == (status \in {"cancelled", "deleted"} /\ call = "waiting") ~> (call = "ended")

\* The release notes' promise: cancelling a run stops its Codex processes.
CancelledStopsCodex == (status = "cancelled" /\ codex = "running") ~> (codex # "running")
=============================================================================

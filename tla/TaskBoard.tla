------------------------------- MODULE TaskBoard -------------------------------
(***************************************************************************)
(* What the run store promises to those who plan, work and review, without *)
(* statuses, rows or sweeps.  A board takes one plan; workers hold tasks   *)
(* whose dependencies are won, and win, return or lose them; losing a task *)
(* loses all that depends on it.  When nothing is left to decide the board *)
(* is delivered if everything was won and closed otherwise.                *)
(***************************************************************************)
EXTENDS Naturals

CONSTANTS Tasks, Plans, NoPlan

VARIABLES
  phase,  \* "draft", "open", "delivered", "approved", "closed" or "gone"
  plan,   \* the plan on the board
  held,   \* tasks some worker holds
  won,    \* tasks that succeeded
  lost,   \* tasks that will never succeed
  tries   \* how often each task was taken

vars == <<phase, plan, held, won, lost, tries>>

Undecided == plan.tasks \ (won \cup lost)

\* t and every task that depends on it, directly or through others.
Downstream(t) ==
  {u \in plan.tasks :
     \A D \in SUBSET plan.tasks :
       t \in D /\ (\A v \in plan.tasks : plan.deps[v] \cap D # {} => v \in D) => u \in D}

\* The phase of a board after the sets of won and lost tasks changed.
Close ==
  phase' = IF phase # "open" \/ plan.tasks \ (won' \cup lost') # {} THEN phase
           ELSE IF lost' = {} THEN "delivered" ELSE "closed"

-----------------------------------------------------------------------------
Publish(p) ==
  /\ phase = "draft"
  /\ phase' = "open"
  /\ plan' = p
  /\ UNCHANGED <<held, won, lost, tries>>

Take(t) ==
  /\ phase = "open"
  /\ t \in Undecided \ held
  /\ plan.deps[t] \subseteq won
  /\ tries[t] < plan.budget[t]
  /\ held' = held \cup {t}
  /\ tries' = [tries EXCEPT ![t] = @ + 1]
  /\ UNCHANGED <<phase, plan, won, lost>>

Return(t) ==
  /\ t \in held
  /\ tries[t] < plan.budget[t]
  /\ held' = held \ {t}
  /\ UNCHANGED <<phase, plan, won, lost, tries>>

Win(t) ==
  /\ t \in held
  /\ held' = held \ {t}
  /\ won' = won \cup {t}
  /\ lost' = lost
  /\ Close
  /\ UNCHANGED <<plan, tries>>

Lose(t) ==
  /\ t \in held
  /\ held' = held \ {t}
  /\ lost' = lost \cup Downstream(t)
  /\ won' = won
  /\ Close
  /\ UNCHANGED <<plan, tries>>

\* Cancelling gives every undecided task up at once.
Cancel ==
  /\ phase \in {"draft", "open", "delivered", "closed"}
  /\ phase' = "closed"
  /\ held' = {}
  /\ lost' = plan.tasks \ won
  /\ UNCHANGED <<plan, won, tries>>

\* A failure of planning, reviewing or the program closes the board as it is.
Fail ==
  /\ phase \in {"draft", "open", "delivered"}
  /\ phase' = "closed"
  /\ UNCHANGED <<plan, held, won, lost, tries>>

Approve ==
  /\ phase = "delivered"
  /\ phase' = "approved"
  /\ UNCHANGED <<plan, held, won, lost, tries>>

Remove ==
  /\ phase \in {"approved", "closed"}
  /\ phase' = "gone"
  /\ plan' = NoPlan
  /\ held' = {} /\ won' = {} /\ lost' = {}
  /\ tries' = [t \in Tasks |-> 0]

-----------------------------------------------------------------------------
Init ==
  /\ phase = "draft"
  /\ plan = NoPlan
  /\ held = {} /\ won = {} /\ lost = {}
  /\ tries = [t \in Tasks |-> 0]

Next ==
  \/ \E p \in Plans : Publish(p)
  \/ \E t \in Tasks : Take(t) \/ Return(t) \/ Win(t) \/ Lose(t)
  \/ Cancel \/ Fail \/ Approve \/ Remove

Spec == Init /\ [][Next]_vars
=============================================================================

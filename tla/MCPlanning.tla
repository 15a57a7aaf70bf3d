----------------------------- MODULE MCPlanning --------------------------------
(* Every list of at most three tasks with every dependency relation, known,   *)
(* unknown, reflexive and cyclic ones among them; and of four tasks the chains *)
(* and the diamonds in every order of positions, the ones that need most       *)
(* sweeps.                                                                     *)
EXTENDS RefreshLoop

MCTasks == 1..4
MCUnknown == 0

Orders == {f \in [MCTasks -> MCTasks] : \A a, b \in MCTasks : f[a] = f[b] => a = b}

Chain   == [t \in MCTasks |-> IF t = 1 THEN {} ELSE {t - 1}]
Diamond == [t \in MCTasks |-> CASE t = 1 -> {} [] t \in {2, 3} -> {1} [] t = 4 -> {2, 3}]

\* Task f[t] takes the place of task t of g.
Placed(g, f) ==
  [u \in MCTasks |-> {f[d] : d \in g[CHOOSE t \in MCTasks : f[t] = u]}]

MCAnswers ==
  UNION {[S -> SUBSET (S \cup {MCUnknown})] : S \in SUBSET (1..3)}
    \cup {Placed(g, f) : g \in {Chain, Diamond}, f \in Orders}
=============================================================================

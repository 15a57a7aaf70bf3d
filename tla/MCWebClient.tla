------------------------------ MODULE MCWebClient ------------------------------
(* Two runs of two workspaces on pages of one run, two calls at a time.        *)
EXTENDS WebClient

MCHome == [r \in Runs |-> IF r = "r1" THEN "w1" ELSE "w2"]
MCStarts == {<<"r1">>}
=============================================================================

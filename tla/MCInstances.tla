----------------------------- MODULE MCInstances -----------------------------
\* Two daemons.  A default directory 1 and rule 11, a directory 2 and a rule 12
\* a user can add, a directory 3 and a rule 13 with a "<" in them, and a rule
\* 10 with a "&lt;" there, which comes back as 13.
EXTENDS Instances

MCReadBack == [n \in {1, 2, 10, 11, 12} |-> IF n = 10 THEN 13 ELSE n]

MCDefaults == [dirs |-> {1}, filters |-> {11}]
MCRequests == {[dirs |-> {1, 2}, filters |-> {11, 12}],
               [dirs |-> {1, 3}, filters |-> {10, 13}]}
=============================================================================

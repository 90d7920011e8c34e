----------------------------- MODULE MCAgentPool -----------------------------
\* One device, with three agent ids and two jobs.
EXTENDS AgentPool

Once(some) == [e \in Events |-> IF e \in some THEN 1 ELSE 0]

\* the pool's size is set to two, and then what a second HELLO or a late frame meets;
\* or what befalls the one agent that the first HELLO makes
TwoAndOne  == {Once({"sizes", "drops"}), Once({"sizes", "removals"}), Once({"sizes", "checks"}),
               Once({"sizes", "cancels"}), Once({"restarts", "checks"}), Once({"removals", "cancels"})}
DropOnly   == {Once({"drops", "sizes"})}
DrainOnly  == {Once({"removals"})}
=============================================================================

---------------------------- MODULE MCGoalPursuit ----------------------------
(* Two concepts, rules that together say what neither says alone, and room for *)
(* more nodes than are screened. The numbers of ticks keep their order.       *)
EXTENDS GoalPursuit

CONSTANTS c1, c2, w1, w2

MCConcepts == {c1, c2}
MCWindows == {w1, w2}
MCRules == {<<[word |-> "type", text |-> {"format"}]>>,
            <<[word |-> "press", text |-> {}], [word |-> "open", text |-> {"c:"}]>>}
=============================================================================

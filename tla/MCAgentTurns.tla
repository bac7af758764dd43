---------------------------- MODULE MCAgentTurns ----------------------------
(* Small instances of AgentTurns. *)
EXTENDS AgentTurns, FiniteSets, TLC

\* Workers, and requests, are interchangeable model values.
ProcessSymmetry == Permutations(Workers) \cup Permutations(Requests)

\* One difficulty at a time: a fault, a repeated task, or a second turn, which then has
\* one busy worker and one continuation.
OneDifficulty ==
  /\ faults + redo <= 1
  /\ Cardinality({t \in Turns : turn[t] /= "none"}) > 1 =>
       /\ faults + redo = 0
       /\ Cardinality({w \in Workers : pc[w] /= "idle"}) <= 1
       /\ Cardinality({t \in Turns : gen[t] > 0}) <= 1 /\ \A t \in Turns : gen[t] <= 1
=============================================================================

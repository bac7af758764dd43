---------------------------- MODULE TurnOutcome ----------------------------
(* What one run of the agent promises about its turn, whatever happens to its model, its
   tools and its connections: it ends the turn at most once, a task it handed over stays
   handed over, and what it says at the end was durable when it said it.                 *)

VARIABLES
  outcome,   \* what became of the turn, as far as this run is concerned
  durable,   \* what the database keeps of the run
  told       \* what the run's caller was told at the end

outcomeVars == <<outcome, durable, told>>

TurnInit == outcome = "open" /\ durable = {} /\ told = "nothing"

\* The turn waits for a task; repeating the call changes nothing.
HandOff ==
  /\ outcome \in {"open", "handedOff"}
  /\ outcome' = "handedOff" /\ durable' = durable \cup {"handoff"}
  /\ UNCHANGED told

\* The reply of an open turn is its answer; that of a waiting turn acknowledges the handoff.
Save ==
  /\ outcome \in {"open", "handedOff"}
  /\ outcome' = IF outcome = "open" THEN "answered" ELSE outcome
  /\ durable' = durable \cup {"reply"}
  /\ UNCHANGED told

Fail ==
  /\ outcome = "open" /\ outcome' = "failed"
  /\ UNCHANGED <<durable, told>>

\* The reader cancels, or another run owns the turn.
TakenOver ==
  /\ outcome \in {"open", "handedOff", "failed"} /\ outcome' = "elsewhere"
  /\ UNCHANGED <<durable, told>>

Tell ==
  /\ told = "nothing"
  /\ told' \in ({"error", "quota"}
                \cup (IF "reply" \in durable THEN {"completed"} ELSE {})
                \cup (IF "handoff" \in durable THEN {"waiting_task"} ELSE {}))
  /\ UNCHANGED <<outcome, durable>>

TurnNext == HandOff \/ Save \/ Fail \/ TakenOver \/ Tell

TurnSpec == TurnInit /\ [][TurnNext]_outcomeVars
=============================================================================

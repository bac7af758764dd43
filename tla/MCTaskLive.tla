----------------------------- MODULE MCTaskLive -----------------------------
(* Small instances of the two sides of a task's card: the rows on their way to the page and
   to its cards, and what a card makes of what has arrived.  A card takes each row as it
   comes, so in each behaviour one side is active and the other rests.                     *)
EXTENDS TaskLive, TaskCard, TLC

CONSTANTS c1, c2

VARIABLE active

taskPageVars == <<active, vars, cardVars>>

\* The cards of one task are interchangeable.
CardSymmetry == Permutations(Cards)

TaskPageInit ==
    /\ active \in {"rows", "card"}
    /\ Init /\ TaskCardInit
    /\ active = "card" => watching = "task" /\ row.st = "pending"
    /\ active = "rows" => mode = "landing" /\ lang = "en" /\ quotes = << >> /\
                          cardRow = [st |-> "pending", title |-> FALSE, url |-> "none"]

TaskPageNext ==
    /\ UNCHANGED active
    /\ \/ active = "rows" /\ Next /\ UNCHANGED cardVars
       \/ active = "card" /\ TaskCardNext /\ UNCHANGED vars

\* Bound of the rows: not every fault, retry and move in one behaviour.
FiveTroubles == faults + retries + moves <= 5

TaskPageSpec == TaskPageInit /\ [][TaskPageNext]_taskPageVars
=============================================================================

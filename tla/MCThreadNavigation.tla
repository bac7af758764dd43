------------------------- MODULE MCThreadNavigation -------------------------
(* Small instances of the chat page's navigation and of its list of conversations.  The list
   takes the navigation's selection as an input (picked), the navigation the list's rows; in
   each behaviour one of them is active and the other rests in an initial state.          *)
EXTENDS ThreadNavigation, ThreadList, TLC

CONSTANTS A, B, n1, n2, tA, ex, c1, c2, c3

LinkedDef == A :> tA @@ B :> None
LinksDef  == {P(None, None), P(B, None), P(None, tA), P(A, tA), P(None, ex)}

VARIABLE active

chatPageVars == <<active, vars, listVars>>

\* Bound: the account has two conversations when the page opens.
TwoStored == ThreadListInit /\ written = 2 /\ rows[c3].at = 0

ChatPageInit ==
    \/ active = "navigation" /\ Init /\ TwoStored /\ surface = "sidebar"
    \/ active = "list" /\ InitAt(P(None, None)) /\ session /\ TwoStored

ChatPageNext ==
    /\ UNCHANGED active
    /\ \/ active = "navigation" /\ Next /\ UNCHANGED listVars
       \/ active = "list" /\ ThreadListNext /\ UNCHANGED vars

ChatPageSpec == ChatPageInit /\ [][ChatPageNext]_chatPageVars

Symm == Permutations(Spare)
=============================================================================

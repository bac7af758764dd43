--------------------------- MODULE MCSubmissions ---------------------------
(* Small instances of the video pipeline and of the account its submissions are charged to. They
   share no state here (a debit of TaskPipeline is a flag, one of Billing names the allowance it
   came from); in each behaviour one of them is active and the other rests in its initial state. *)
EXTENDS MCTaskPipeline, Billing

VARIABLE active

submissionVars == <<active, vars, billingVars>>

SubmissionInit == active \in {"pipeline", "billing"} /\ Init /\ BillingInit

SubmissionNext ==
    /\ UNCHANGED active
    /\ \/ active = "pipeline" /\ Next /\ UNCHANGED billingVars
       \/ active = "billing" /\ BillingNext /\ UNCHANGED vars

SubmissionSpec == SubmissionInit /\ [][SubmissionNext]_submissionVars

\* Bound: two orders are one subscription and one top-up.
MixedOrders ==
    \A o, q \in OrderIds :
        o # q /\ orders[o].status # "none" /\ orders[q].status # "none" => orders[o].product # orders[q].product
=============================================================================

------------------------------- MODULE Billing -------------------------------
(* What an account may use and what it paid for: the pricing page, the checkout it opens, the
   payment provider's webhooks, the allowance a submission consumes and the refund of a video
   without captions (pricing/page.tsx, useAccountQueries, payments.py, webhooks.py, db_client and
   the submission and refund transactions). One account. Time is a number, a month is Month units
   of it; a debit of the guest allowance is a counter of its own and left out.

   The API is one process whose webhook handler never awaits between its writes: a delivery is a
   step, which may die after any of its writes. Three of the writes (the customer link, the receipt
   of an order, the credits) log a database error and go on; `silent' remembers that one did.    *)
EXTENDS Naturals, Sequences, FiniteSets, FiniteSetsExt

CONSTANTS
    BasicLimit, ProLimit,  \* videos a month
    Credits,               \* videos of one top-up
    Month, Period,         \* a calendar month, a paid period
    MaxClock, MaxVideos, MaxOrders,
    MaxTroubles            \* bound on the deliveries repeated and the handlers that fail or die

ASSUME BillingAssumption ==
    /\ {BasicLimit, ProLimit, Credits, MaxClock, MaxVideos, MaxOrders, MaxTroubles} \subseteq Nat
    /\ {Month, Period} \subseteq Nat \ {0}

Videos     == 1..MaxVideos
OrderIds   == 1..MaxOrders
Times      == 0..(MaxClock + Period)
NoPeriod   == 0

VARIABLES
    clock,
    profile,   \* the row: tier, used, reset, extra, end (NoPeriod: null), cancel, linked
    debits,    \* task_submission_debits, per video; kind "none" until it is submitted;
               \* current: the usage has not been set back since
    orders,    \* payment_orders, per order; status "none" until it is made
    ends,      \* per order of a subscription, the end of its newest paid period
    canceled,  \* the ends of the periods whose renewal was cancelled
    granted,   \* the orders whose credits were added, one entry each time
    cut,       \* the orders whose handler died after the receipt and before the credits
    mail,      \* webhook events the provider has still to deliver
    troubles, silent,
    seen       \* the tier the pricing page shows, "unknown" before the profile is read

billingVars == <<clock, profile, debits, orders, ends, canceled, granted, cut, mail,
                 troubles, silent, seen>>

LimitOf(tier) == IF tier = "pro" THEN ProLimit ELSE BasicLimit
NextMonth(t)  == (t \div Month + 1) * Month

BillingTypeOK ==
    /\ clock \in 0..MaxClock
    /\ profile.tier \in {"free", "pro"} /\ profile.used \in 0..LimitOf(profile.tier)
    /\ profile.extra \in Nat /\ profile.end \in Times /\ profile.linked \in BOOLEAN
    /\ profile.cancel \in {"unknown", "yes", "no"}
    /\ profile.reset % Month = 0
    /\ orders \in [OrderIds -> [product : {"pro", "topup"}, known : BOOLEAN, paid : BOOLEAN,
                                status : {"none", "pending", "completed"}]]
    /\ seen \in {"unknown", "free", "pro"}

-----------------------------------------------------------------------------
(* The allowance. *)

Lapsed(p, t) == p.tier = "pro" /\ p.end # NoPeriod /\ p.end <= t

\* The lazy reconciliation of a submission: a lapsed subscription falls back to the free tier, a
\* new month starts a new allowance.
Reconcile(p, t) ==
    LET q == IF Lapsed(p, t) THEN [p EXCEPT !.tier = "free", !.used = 0] ELSE p
    IN  IF q.reset <= t THEN [q EXCEPT !.used = 0, !.reset = NextMonth(t)] ELSE q

\* The debits once the usage is set back, if it is.
SetBack(b) == IF b THEN [v \in Videos |-> [debits[v] EXCEPT !.current = FALSE]] ELSE debits

\* Mutant: only the month is projected.
ProjectMonth(p, t) == IF p.reset <= t THEN [p EXCEPT !.used = 0] ELSE p

\* projectAccountProfile: what the browser makes of the row it reads.
Project(p, t) ==
    IF Lapsed(p, t) THEN [p EXCEPT !.tier = "free", !.used = 0]
    ELSE IF p.reset <= t THEN [p EXCEPT !.used = 0] ELSE p

\* Mutant: one video too many.
WithinAllowanceLate(p) == p.used <= LimitOf(p.tier)

WithinAllowance(p) == p.used < LimitOf(p.tier)

\* submit_user_video_task, once no task of the owner could be reused: one unit of the monthly
\* allowance or, when it is used up, of the credits.
SubmitVideo(v) ==
    LET p    == Reconcile(profile, clock)
        kind == IF WithinAllowance(p) THEN "monthly" ELSE IF p.extra > 0 THEN "extra" ELSE "none"
        old  == SetBack(Lapsed(profile, clock) \/ profile.reset <= clock)
    IN  /\ debits[v].kind = "none" /\ \A u \in Videos : u < v => debits[u].kind # "none"
        /\ profile' = CASE kind = "monthly" -> [p EXCEPT !.used = @ + 1]
                        [] kind = "extra"   -> [p EXCEPT !.extra = @ - 1]
                        [] OTHER            -> p
        /\ debits' = IF kind = "none" THEN old
                     ELSE [old EXCEPT ![v] = [kind |-> kind, reset |-> p.reset, tier |-> p.tier, end |-> p.end,
                                              refunded |-> FALSE, current |-> TRUE]]
        /\ UNCHANGED <<clock, orders, ends, canceled, granted, cut, mail, troubles, silent, seen>>

\* Mutant: the refund does not ask which allowance was debited.
SameAllowanceAlways(d, p) == TRUE

\* An old month's allowance must never subtract a new month's usage.
SameAllowance(d, p) == p.reset = d.reset /\ p.tier = d.tier /\ p.end = d.end

\* fail_caption_task: the debit of a video without captions is given back once.
RefundVideo(v) ==
    LET d == debits[v] IN
    /\ d.kind # "none" /\ ~d.refunded
    /\ debits' = [debits EXCEPT ![v].refunded = TRUE]
    /\ profile' = CASE d.kind = "extra" -> [profile EXCEPT !.extra = @ + 1]
                    [] d.kind = "monthly" /\ SameAllowance(d, profile) /\ profile.used > 0 -> [profile EXCEPT !.used = @ - 1]
                    [] OTHER -> profile
    /\ UNCHANGED <<clock, orders, ends, canceled, granted, cut, mail, troubles, silent, seen>>

-----------------------------------------------------------------------------
(* The pricing page and the checkout. *)

\* What the page shows of a profile: the plan, the use of its allowance, the credits, and what
\* becomes of the paid period.
UsageCard(p) ==
    [tier |-> p.tier, used |-> p.used, limit |-> LimitOf(p.tier), extra |-> p.extra,
     period |-> IF p.tier # "pro" \/ p.end = NoPeriod THEN "none"
                ELSE CASE p.cancel = "yes" -> "endsOn" [] p.cancel = "no" -> "renewsOn" [] OTHER -> "validUntil"]

\* What the chat page's badge shows of it; the way to the pricing page unless the plan is Pro.
PlanBadge(p) == [tier |-> p.tier, used |-> p.used, limit |-> LimitOf(p.tier), upgrade |-> p.tier # "pro"]

\* How the pricing page marks the two plans; nothing is marked while the profile is unknown.
PlanCards(tier) ==
    [basic |-> CASE tier = "pro" -> "included" [] tier = "unknown" -> "loading" [] OTHER -> "current",
     pro   |-> IF tier = "pro" THEN "current" ELSE "offered"]

\* useProfileQuery: a read of the row, on mount, on focus and after 30 s.
LoadProfile ==
    /\ seen' = Project(profile, clock).tier
    /\ UNCHANGED <<clock, profile, debits, orders, ends, canceled, granted, cut, mail, troubles, silent>>

\* The buttons that can be pressed: the portal for a subscriber, Pro for anybody else (an unknown
\* profile included), a top-up once the profile is known. loadingAction disables all of them while
\* a request is under way, so that pressing one and its answer are a step.
Enabled(action) ==
    CASE action = "portal" -> seen = "pro"
      [] action = "pro"    -> seen # "pro"
      [] action = "topup"  -> seen # "unknown"

\* create_checkout_session: the provider makes a checkout, the order is recorded and learns the
\* checkout's id; that last write may fail unnoticed.
CreateCheckoutSession(o, product, known) ==
    /\ orders[o].status = "none" /\ \A q \in OrderIds : q < o => orders[q].status # "none"
    /\ ~known => troubles < MaxTroubles
    /\ orders' = [orders EXCEPT ![o] = [product |-> product, known |-> known, paid |-> FALSE, status |-> "pending"]]
    /\ silent' = (silent \/ ~known) /\ troubles' = IF known THEN troubles ELSE troubles + 1

\* handleCheckout: the browser follows the url of the checkout. (A failed request leaves a message
\* on the page and nothing else.)
HandleCheckout(o, product, known) ==
    /\ Enabled(product)
    /\ CreateCheckoutSession(o, product, known)
    /\ UNCHANGED <<clock, profile, debits, ends, canceled, granted, cut, mail, seen>>

-----------------------------------------------------------------------------
(* The payment provider: external, as far as its events show it. *)

Event(type, o, end) == [type |-> type, order |-> o, end |-> end]

PayCheckout(o) ==
    LET end == IF orders[o].product = "pro" THEN clock + Period ELSE NoPeriod IN
    /\ orders[o].status = "pending" /\ ~orders[o].paid
    /\ orders' = [orders EXCEPT ![o].paid = TRUE]
    /\ ends' = [ends EXCEPT ![o] = end]
    /\ mail' = mail \cup {Event("checkout", o, end)} \cup (IF end = NoPeriod THEN {} ELSE {Event("paid", o, end)})
    /\ UNCHANGED <<clock, profile, debits, canceled, granted, cut, troubles, silent, seen>>

\* A renewal is charged about the end of the period; a checkout is delivered long before that.
Renew(o) ==
    /\ ends[o] # NoPeriod /\ ends[o] \notin canceled /\ clock + 1 >= ends[o]
    /\ ends[o] + Period \in Times
    /\ \A e \in mail : e.type # "checkout" \/ e.order # o
    /\ ends' = [ends EXCEPT ![o] = @ + Period]
    /\ mail' = mail \cup {Event("paid", o, ends[o] + Period)}
    /\ UNCHANGED <<clock, profile, debits, orders, canceled, granted, cut, troubles, silent, seen>>

CancelRenewal(o) ==
    /\ ends[o] > clock /\ ends[o] \notin canceled
    /\ canceled' = canceled \cup {ends[o]}
    /\ mail' = mail \cup {Event("cancel", o, ends[o])}
    /\ UNCHANGED <<clock, profile, debits, orders, ends, granted, cut, troubles, silent, seen>>

\* handlePortal and create_customer_portal: a linked customer gets to where the renewal is
\* cancelled; any other account is told that there is no portal.
HandlePortal(o) == Enabled("portal") /\ profile.linked /\ CancelRenewal(o)

\* The event was answered with success: it is done with, or the provider delivers it once more.
Acknowledge(e) ==
    \/ mail' = mail \ {e} /\ UNCHANGED troubles
    \/ troubles < MaxTroubles /\ troubles' = troubles + 1 /\ UNCHANGED mail

-----------------------------------------------------------------------------
(* creem_webhook. *)

\* _update_subscription for a paid period: monotone in its end, the usage set back only when the
\* account was not entitled before.
Starts(p, t)  == p.tier # "pro" \/ (p.end # NoPeriod /\ p.end <= t)
Applies(p, end, t) == end > t /\ p.end <= end
Activate(p, end, t) ==
    IF ~Applies(p, end, t) THEN p
    ELSE [p EXCEPT !.tier = "pro", !.end = end,
                   !.used  = IF Starts(p, t) THEN 0 ELSE @,
                   !.reset = IF Starts(p, t) THEN NextMonth(t) ELSE @,
                   !.cancel = IF p.end = NoPeriod \/ p.end < end THEN "no" ELSE @]

\* Mutant: the credits before the receipt.
CheckoutWritesLate(product) ==
    IF product = "topup" THEN <<"link", "grant", "receipt">> ELSE <<"link", "activate", "receipt">>

\* Mutant: the customer is linked last.
CheckoutWritesLinkLast(product) ==
    IF product = "topup" THEN <<"receipt", "grant", "link">> ELSE <<"activate", "receipt", "link">>

\* The writes of checkout.completed, in order: a top-up is receipted before its credits are added,
\* a subscription after it is active.
CheckoutWrites(product) ==
    IF product = "topup" THEN <<"link", "receipt", "grant">> ELSE <<"link", "activate", "receipt">>

\* The order the webhook finds has been receipted already.
AlreadyProcessed(o) == orders[o].known /\ orders[o].status = "completed"

\* checkout.completed: the process takes the first n of the writes, and the database drops some of
\* those that log their errors.
CheckoutCompleted(e, n, dropped) ==
    LET o    == e.order
        ws   == CheckoutWrites(orders[o].product)
        took == IF AlreadyProcessed(o) THEN {"link"} ELSE {ws[i] : i \in 1..n}
        done == took \ dropped
        p    == [profile EXCEPT !.linked = @ \/ "link" \in done]
    IN  /\ e.type = "checkout"
        /\ dropped \subseteq took \cap {"link", "receipt", "grant"}
        /\ silent' = (silent \/ dropped # {})
        /\ profile' = CASE "activate" \in done -> Activate(p, e.end, clock)
                        [] "grant" \in done    -> [p EXCEPT !.extra = @ + Credits]
                        [] OTHER               -> p
        /\ debits' = SetBack("activate" \in done /\ Applies(p, e.end, clock) /\ Starts(p, clock))
        /\ granted' = IF "grant" \in done THEN Append(granted, o) ELSE granted
        /\ cut' = IF orders[o].product = "topup" /\ "receipt" \in done /\ "grant" \notin took THEN cut \cup {o} ELSE cut
        /\ orders' = [orders EXCEPT ![o].status = IF "receipt" \in done /\ orders[o].known THEN "completed" ELSE @]
        /\ IF n = 3 /\ dropped = {} THEN Acknowledge(e)
           ELSE /\ troubles < MaxTroubles /\ troubles' = troubles + 1
                /\ mail' = IF n = 3 THEN mail \ {e} ELSE mail
        /\ UNCHANGED <<clock, ends, canceled, seen>>

\* subscription.paid: the row is found by the customer the checkout linked; without one nothing
\* is written, and the answer is a success all the same.
SubscriptionPaid(e) ==
    /\ e.type = "paid"
    /\ profile' = IF profile.linked THEN Activate(profile, e.end, clock) ELSE profile
    /\ debits' = SetBack(profile.linked /\ Applies(profile, e.end, clock) /\ Starts(profile, clock))
    /\ Acknowledge(e)
    /\ UNCHANGED <<clock, orders, ends, canceled, granted, cut, silent, seen>>

\* Mutant: a cancellation that matches nothing is taken for an old one.
ObsoleteAlways(end) == TRUE

\* A cancellation of a period that is over or was followed by another one.
Obsolete(end) == end <= clock \/ (profile.linked /\ profile.end > end)

\* subscription.canceled, subscription.scheduled_cancel: marks the matching period; one that comes
\* before its activation is refused, and delivered again.
SubscriptionCanceled(e) ==
    LET matches == profile.linked /\ profile.tier = "pro" /\ profile.end = e.end IN
    /\ e.type = "cancel"
    /\ matches \/ Obsolete(e.end)
    /\ profile' = [profile EXCEPT !.cancel = IF matches THEN "yes" ELSE @]
    /\ Acknowledge(e)
    /\ UNCHANGED <<clock, debits, orders, ends, canceled, granted, cut, silent, seen>>

Webhook(e) ==
    \/ \E n \in 0..3 : \E dropped \in SUBSET {"link", "receipt", "grant"} : CheckoutCompleted(e, n, dropped)
    \/ SubscriptionPaid(e)
    \/ SubscriptionCanceled(e)

-----------------------------------------------------------------------------
BillingInit ==
    /\ clock = 0
    /\ profile = [tier |-> "free", used |-> 0, reset |-> NextMonth(0), extra |-> 0, end |-> NoPeriod,
                  cancel |-> "unknown", linked |-> FALSE]
    /\ debits = [v \in Videos |-> [kind |-> "none", reset |-> 0, tier |-> "free", end |-> NoPeriod,
                                   refunded |-> FALSE, current |-> FALSE]]
    /\ orders = [o \in OrderIds |-> [product |-> "pro", known |-> FALSE, paid |-> FALSE, status |-> "none"]]
    /\ ends = [o \in OrderIds |-> NoPeriod] /\ canceled = {}
    /\ granted = << >> /\ cut = {} /\ mail = {}
    /\ troubles = 0 /\ silent = FALSE
    /\ seen = "unknown"

TimePasses ==
    /\ clock < MaxClock /\ clock' = clock + 1
    /\ UNCHANGED <<profile, debits, orders, ends, canceled, granted, cut, mail, troubles, silent,
                   seen>>

BillingNext ==
    \/ \E v \in Videos : SubmitVideo(v) \/ RefundVideo(v)
    \/ LoadProfile
    \/ \E o \in OrderIds, p \in {"pro", "topup"}, known \in BOOLEAN : HandleCheckout(o, p, known)
    \/ \E o \in OrderIds : PayCheckout(o) \/ Renew(o) \/ CancelRenewal(o) \/ HandlePortal(o)
    \/ \E e \in mail : Webhook(e)
    \/ TimePasses

BillingSpec == BillingInit /\ [][BillingNext]_billingVars

-----------------------------------------------------------------------------
(* Properties. *)

\* A refund never gives back a unit of another allowance: the videos debited to the current
\* allowance and not refunded are all counted, whatever renewals, lapses and new months came
\* between (docs/codemaps/backend.md: refunds never decrement another period's usage).
AllowanceHolds ==
    Cardinality({v \in Videos : debits[v].kind = "monthly" /\ ~debits[v].refunded /\ debits[v].current})
        <= profile.used

\* Top-up credits are neither made nor lost by refunds, and an order adds its credits once at
\* most, although its webhook is delivered again after a crash or a repeat, unless a write was lost
\* unnoticed: with the receipt lost the next delivery adds them again.
CreditsConserved ==
    /\ profile.extra + Cardinality({v \in Videos : debits[v].kind = "extra" /\ ~debits[v].refunded})
           = Credits * Len(granted)
    /\ ~silent => \A i, j \in 1..Len(granted) : granted[i] = granted[j] => i = j

\* The provider's confirmation of a top-up was handled.
Confirmed(o) ==
    /\ orders[o].product = "topup" /\ orders[o].paid
    /\ \A e \in mail : e.type # "checkout" \/ e.order # o

HasCredits(o) == \E i \in 1..Len(granted) : granted[i] = o

\* A top-up that was paid has its credits once its confirmation was handled, however often that
\* took, unless a write was lost unnoticed or the handler died between the receipt of the order
\* and its credits (webhooks.py:129, 150): the next delivery finds the receipt and skips them, so that
\* they are lost, although "your plan or credits will update after confirmation" (i18n-messages.ts:339).
CreditsArrive == ~silent => \A o \in OrderIds : Confirmed(o) => HasCredits(o) \/ o \in cut

\* Once the provider has delivered what it had to say, in whatever order and however often, the
\* account has the newest period it paid for and knows whether that one will be renewed.
SubscriptionSettles ==
    LET paidTo == Max({ends[o] : o \in OrderIds} \cup {NoPeriod}) IN
    mail = {} /\ ~silent /\ paidTo > clock =>
        /\ profile.tier = "pro" /\ profile.end = paidTo
        /\ profile.cancel = IF paidTo \in canceled THEN "yes" ELSE "no"

\* A subscriber has a linked customer: the portal opens, and a renewal finds the account.
SubscriberIsLinked == ~silent /\ profile.tier = "pro" => profile.linked

\* The browser shows the allowance the next submission would find, months and lapsed
\* subscriptions included (useAccountQueries.ts:26, the server's lazy reconciliation), and tells
\* that access ends only of a period whose renewal was cancelled.
ShownIsWhatCounts ==
    LET card == UsageCard(Project(profile, clock))  next == UsageCard(Reconcile(profile, clock))
    IN  /\ PlanBadge(Project(profile, clock)) = PlanBadge(Reconcile(profile, clock))
        /\ PlanCards(card.tier) = PlanCards(next.tier)
        /\ \A f \in {"tier", "used", "limit", "extra"} : card[f] = next[f]
        /\ card.period = "endsOn" => profile.end \in canceled

\* What was paid for reaches the account, where no write was lost unnoticed: the credits of a top-up
\* at most once, and exactly once but for the death CreditsArrive excepts; the newest period; the
\* link to the customer
\* (payments.py, webhooks.py, db_client.py).
PaymentsSettle ==
    BillingTypeOK /\ CreditsConserved /\ CreditsArrive /\ SubscriptionSettles /\ SubscriberIsLinked
=============================================================================
